---------------------------- MODULE ServicingProofs ----------------------------
(* What MCAllocation checks of the allocation engine, for schedules of any     *)
(* length, and what holds of a contract through its life, for any schedule,    *)
(* any payments and reversals in any order, any days of the overdue job, any   *)
(* requests and any write-offs.                                                *)
EXTENDS WriteOff, MCAllocation, AmountTheorems

-------------------------------------------------------------------------------
\* The allocation engine.

\* The three buckets of an installment follow one another.
LEMMA ThreeBuckets ==
  ASSUME NEW m \in Nat, NEW rows \in [1..m -> AmountRow], NEW i \in 1..m
  PROVE  \E a \in Nat : /\ a = 3 * i - 2 /\ a >= 1 /\ a + 2 <= 3 * m
                        /\ Buckets(rows)[a] = rows[i].late_fee
                        /\ Buckets(rows)[a + 1] = rows[i].profit
                        /\ Buckets(rows)[a + 2] = rows[i].principal
<1>1. /\ Buckets(rows)[3 * i - 2] = rows[i].late_fee
      /\ Buckets(rows)[3 * i - 1] = rows[i].profit
      /\ Buckets(rows)[3 * i] = rows[i].principal
  BY BucketsMeaning
<1>2. PICK a \in Nat : 3 * i - 2 = a /\ 3 * i - 1 = a + 1 /\ 3 * i = a + 2
  OBVIOUS
<1>3. a >= 1 /\ a + 2 <= 3 * m
  BY <1>2
<1> QED BY <1>1, <1>2, <1>3

\* A line reaches a balance only if all before it are paid in full.
LEMMA AllocateInOrder ==
  ASSUME NEW m \in Nat, NEW rows \in [1..m -> AmountRow], NEW amount \in Nat,
         NEW p \in [1..m -> AmountRow], NEW i \in 1..m
  PROVE  p = allocate(amount, rows) =>
         /\ p[i].profit > 0 => p[i].late_fee = rows[i].late_fee
         /\ p[i].principal > 0 => /\ p[i].late_fee = rows[i].late_fee
                                  /\ p[i].profit = rows[i].profit
         /\ LineTotal(p[i]) > 0 =>
              \A j \in 1..(i - 1) : /\ p[j].late_fee = rows[j].late_fee
                                    /\ p[j].profit = rows[j].profit
                                    /\ p[j].principal = rows[j].principal
<1>0. SUFFICES ASSUME p = allocate(amount, rows)
               PROVE  /\ p[i].profit > 0 => p[i].late_fee = rows[i].late_fee
                      /\ p[i].principal > 0 => /\ p[i].late_fee = rows[i].late_fee
                                               /\ p[i].profit = rows[i].profit
                      /\ LineTotal(p[i]) > 0 =>
                           \A j \in 1..(i - 1) : /\ p[j].late_fee = rows[j].late_fee
                                                 /\ p[j].profit = rows[j].profit
                                                 /\ p[j].principal = rows[j].principal
  OBVIOUS
<1>1. PICK n \in Nat : n = 3 * m
  OBVIOUS
<1>2. PICK owed \in [1..n -> Nat] : owed = Buckets(rows)
  BY <1>1, BucketsMeaning
<1>3. PICK parts \in [1..n -> Nat] : parts = Buckets(p)
  BY <1>1, BucketsMeaning
<1>4. parts = Spread(amount, owed)
  <2>1. Buckets(allocate(amount, rows)) = Spread(amount, Buckets(rows))
    BY AllocateMeaning
  <2> QED BY <1>0, <1>2, <1>3, <2>1, Zenon
<1>5. ASSUME NEW j \in 1..n, NEW k \in 1..n, j < k, parts[k] > 0
      PROVE  parts[j] = owed[j]
  BY <1>4, <1>5, SpreadBounds
<1>6. ASSUME NEW j \in 1..m
      PROVE  \E a \in Nat : /\ a = 3 * j - 2
                            /\ a \in 1..n /\ a + 1 \in 1..n /\ a + 2 \in 1..n
                            /\ parts[a] = p[j].late_fee
                            /\ parts[a + 1] = p[j].profit
                            /\ parts[a + 2] = p[j].principal
                            /\ owed[a] = rows[j].late_fee
                            /\ owed[a + 1] = rows[j].profit
                            /\ owed[a + 2] = rows[j].principal
  <2>1. PICK a \in Nat : /\ a = 3 * j - 2 /\ a >= 1 /\ a + 2 <= 3 * m
                         /\ Buckets(p)[a] = p[j].late_fee
                         /\ Buckets(p)[a + 1] = p[j].profit
                         /\ Buckets(p)[a + 2] = p[j].principal
    BY ThreeBuckets
  <2>2. PICK b \in Nat : /\ b = 3 * j - 2 /\ b >= 1 /\ b + 2 <= 3 * m
                         /\ Buckets(rows)[b] = rows[j].late_fee
                         /\ Buckets(rows)[b + 1] = rows[j].profit
                         /\ Buckets(rows)[b + 2] = rows[j].principal
    BY ThreeBuckets
  <2>3. a = b /\ a \in 1..n /\ a + 1 \in 1..n /\ a + 2 \in 1..n
    BY <1>1, <2>1, <2>2
  <2> QED BY <1>2, <1>3, <2>1, <2>2, <2>3
<1>7. PICK a \in Nat : /\ a = 3 * i - 2
                       /\ a \in 1..n /\ a + 1 \in 1..n /\ a + 2 \in 1..n
                       /\ parts[a] = p[i].late_fee
                       /\ parts[a + 1] = p[i].profit
                       /\ parts[a + 2] = p[i].principal
                       /\ owed[a] = rows[i].late_fee
                       /\ owed[a + 1] = rows[i].profit
                       /\ owed[a + 2] = rows[i].principal
  BY <1>6
<1>9. p[i].profit > 0 => p[i].late_fee = rows[i].late_fee
  <2>1. a < a + 1
    OBVIOUS
  <2> QED BY <1>5, <1>7, <2>1
<1>10. p[i].principal > 0 => p[i].late_fee = rows[i].late_fee /\ p[i].profit = rows[i].profit
  <2>1. a < a + 2 /\ a + 1 < a + 2
    OBVIOUS
  <2> QED BY <1>5, <1>7, <2>1
<1>11. ASSUME LineTotal(p[i]) > 0, NEW j \in 1..(i - 1)
       PROVE  /\ p[j].late_fee = rows[j].late_fee
              /\ p[j].profit = rows[j].profit
              /\ p[j].principal = rows[j].principal
  <2>1. p[i].late_fee \in Nat /\ p[i].profit \in Nat /\ p[i].principal \in Nat
    <3>1. p[i] \in AmountRow
      OBVIOUS
    <3> QED BY <3>1 DEF AmountRow
  <2>2. p[i].late_fee > 0 \/ p[i].profit > 0 \/ p[i].principal > 0
    BY <1>11, <2>1 DEF LineTotal
  <2>3. PICK k \in 1..n : k >= a /\ parts[k] > 0
    <3>1. a + 1 >= a /\ a + 2 >= a /\ a >= a
      OBVIOUS
    <3> QED BY <1>7, <2>2, <3>1
  <2>4. j \in 1..m
    OBVIOUS
  <2>5. PICK b \in Nat : /\ b = 3 * j - 2
                         /\ b \in 1..n /\ b + 1 \in 1..n /\ b + 2 \in 1..n
                         /\ parts[b] = p[j].late_fee
                         /\ parts[b + 1] = p[j].profit
                         /\ parts[b + 2] = p[j].principal
                         /\ owed[b] = rows[j].late_fee
                         /\ owed[b + 1] = rows[j].profit
                         /\ owed[b + 2] = rows[j].principal
    BY <1>6, <2>4
  <2>6. b < k /\ b + 1 < k /\ b + 2 < k
    <3>1. b + 2 < a
      BY <1>7, <2>5
    <3> QED BY <2>3, <3>1
  <2>7. /\ parts[b] = owed[b] /\ parts[b + 1] = owed[b + 1] /\ parts[b + 2] = owed[b + 2]
    BY <1>5, <2>3, <2>5, <2>6
  <2> QED BY <2>5, <2>7
<1> QED BY <1>9, <1>10, <1>11

\* What is left of a balance is what its part left of it.
LEMMA LessMeaning ==
  ASSUME NEW m \in Nat, NEW rows \in [1..m -> AmountRow], NEW amount \in Nat
  PROVE  \E rest \in [1..m -> AmountRow] :
           /\ rest = Less(rows, allocate(amount, rows))
           /\ \A k \in 1..(3 * m) :
                Buckets(rest)[k] = Buckets(rows)[k] - Spread(amount, Buckets(rows))[k]
<1> DEFINE p == allocate(amount, rows)
           rest == Less(rows, p)
<1>1. /\ p \in [1..m -> AmountRow]
      /\ Buckets(p) = Spread(amount, Buckets(rows))
      /\ \A i \in 1..m : /\ p[i].late_fee <= rows[i].late_fee
                         /\ p[i].profit <= rows[i].profit
                         /\ p[i].principal <= rows[i].principal
  BY AllocateMeaning
<1>2. rest = [i \in 1..m |-> [late_fee |-> rows[i].late_fee - p[i].late_fee,
                              profit |-> rows[i].profit - p[i].profit,
                              principal |-> rows[i].principal - p[i].principal]]
  BY DEF Less
<1> HIDE DEF p, rest
<1>3. \A i \in 1..m : /\ rows[i].late_fee \in Nat /\ p[i].late_fee \in Nat
                      /\ rows[i].profit \in Nat /\ p[i].profit \in Nat
                      /\ rows[i].principal \in Nat /\ p[i].principal \in Nat
  <2>1. \A i \in 1..m : rows[i] \in AmountRow /\ p[i] \in AmountRow
    BY <1>1
  <2> QED BY <2>1 DEF AmountRow
<1>4. rest \in [1..m -> AmountRow]
  <2>1. \A i \in 1..m : /\ rows[i].late_fee - p[i].late_fee \in Nat
                        /\ rows[i].profit - p[i].profit \in Nat
                        /\ rows[i].principal - p[i].principal \in Nat
    BY <1>1, <1>3
  <2> QED BY <1>2, <2>1 DEF AmountRow
<1>5. ASSUME NEW k \in 1..(3 * m) PROVE Buckets(rest)[k] = Buckets(rows)[k] - Buckets(p)[k]
  <2>1. PICK i \in 1..m : k = 3 * i - 2 \/ k = 3 * i - 1 \/ k = 3 * i
    BY ThreesCover
  <2>2. /\ Buckets(rest)[3 * i - 2] = rest[i].late_fee
        /\ Buckets(rest)[3 * i - 1] = rest[i].profit
        /\ Buckets(rest)[3 * i] = rest[i].principal
    BY <1>4, BucketsMeaning
  <2>3. /\ Buckets(rows)[3 * i - 2] = rows[i].late_fee
        /\ Buckets(rows)[3 * i - 1] = rows[i].profit
        /\ Buckets(rows)[3 * i] = rows[i].principal
    BY BucketsMeaning
  <2>4. /\ Buckets(p)[3 * i - 2] = p[i].late_fee
        /\ Buckets(p)[3 * i - 1] = p[i].profit
        /\ Buckets(p)[3 * i] = p[i].principal
    BY <1>1, BucketsMeaning
  <2>5. /\ rest[i].late_fee = rows[i].late_fee - p[i].late_fee
        /\ rest[i].profit = rows[i].profit - p[i].profit
        /\ rest[i].principal = rows[i].principal - p[i].principal
    BY <1>2
  <2> QED BY <2>1, <2>2, <2>3, <2>4, <2>5
<1>6. \A k \in 1..(3 * m) :
        Buckets(rest)[k] = Buckets(rows)[k] - Spread(amount, Buckets(rows))[k]
  BY <1>1, <1>5
<1> QED BY <1>4, <1>6 DEF rest, p

\* Rows with the same buckets are the same.
LEMMA BucketsDetermine ==
  ASSUME NEW m \in Nat, NEW r \in [1..m -> AmountRow], NEW s \in [1..m -> AmountRow],
         \A k \in 1..(3 * m) : Buckets(r)[k] = Buckets(s)[k]
  PROVE  r = s
<1>1. ASSUME NEW i \in 1..m PROVE r[i] = s[i]
  <2>1. /\ Buckets(r)[3 * i - 2] = r[i].late_fee
        /\ Buckets(r)[3 * i - 1] = r[i].profit
        /\ Buckets(r)[3 * i] = r[i].principal
    BY BucketsMeaning
  <2>2. /\ Buckets(s)[3 * i - 2] = s[i].late_fee
        /\ Buckets(s)[3 * i - 1] = s[i].profit
        /\ Buckets(s)[3 * i] = s[i].principal
    BY BucketsMeaning
  <2>3. /\ r[i].late_fee = s[i].late_fee /\ r[i].profit = s[i].profit
        /\ r[i].principal = s[i].principal
    BY <2>1, <2>2, ThreesInRange
  <2>4. PICK x \in AmountRow, y \in AmountRow : x = r[i] /\ y = s[i]
    OBVIOUS
  <2>5. x.late_fee = y.late_fee /\ x.profit = y.profit /\ x.principal = y.principal
    BY <2>3, <2>4
  <2>6. x = y
    <3>1. /\ x = [late_fee |-> x.late_fee, profit |-> x.profit, principal |-> x.principal]
          /\ y = [late_fee |-> y.late_fee, profit |-> y.profit, principal |-> y.principal]
      BY DEF AmountRow
    <3> QED BY <2>5, <3>1, Zenon
  <2> QED BY <2>4, <2>6
<1> QED BY <1>1

\* A schedule whose balances are within the bounds.
Balanced == owing \in [1..Length -> Balances]

\* Its rows are rows of amounts.
LEMMA BalancesAreAmounts ==
  ASSUME Balanced
  PROVE  owing \in [1..Length -> AmountRow] /\ DOMAIN owing = 1..Length
BY AllocationAssumption DEF Balanced, Balances, AmountRow

\* What is left of balances in the bounds is in them.
LEMMA LessIsBalanced ==
  ASSUME Balanced, NEW amount \in Nat
  PROVE  Less(owing, allocate(amount, owing)) \in [1..Length -> Balances]
<1> DEFINE p == allocate(amount, owing)
<1>1. Length \in Nat /\ MaxOwed \in Nat
  BY AllocationAssumption
<1>2. /\ p \in [1..Length -> AmountRow]
      /\ \A i \in 1..Length : /\ p[i].late_fee <= owing[i].late_fee
                              /\ p[i].profit <= owing[i].profit
                              /\ p[i].principal <= owing[i].principal
  BY <1>1, BalancesAreAmounts, AllocateMeaning
<1> HIDE DEF p
<1>3. ASSUME NEW i \in 1..Length
      PROVE  /\ owing[i].late_fee - p[i].late_fee \in 0..MaxOwed
             /\ owing[i].profit - p[i].profit \in 0..MaxOwed
             /\ owing[i].principal - p[i].principal \in 0..MaxOwed
  <2>1. p[i] \in AmountRow /\ owing[i] \in Balances
    BY <1>2 DEF Balanced
  <2>2. /\ p[i].late_fee \in Nat /\ owing[i].late_fee \in 0..MaxOwed
        /\ p[i].profit \in Nat /\ owing[i].profit \in 0..MaxOwed
        /\ p[i].principal \in Nat /\ owing[i].principal \in 0..MaxOwed
    BY <2>1 DEF AmountRow, Balances
  <2>3. \A x \in 0..MaxOwed, y \in Nat : y <= x => x - y \in 0..MaxOwed
    BY <1>1
  <2>4. /\ p[i].late_fee <= owing[i].late_fee /\ p[i].profit <= owing[i].profit
        /\ p[i].principal <= owing[i].principal
    BY <1>2
  <2> QED BY <2>2, <2>3, <2>4
<1>4. Less(owing, p)
        = [i \in 1..Length |-> [late_fee |-> owing[i].late_fee - p[i].late_fee,
                                profit |-> owing[i].profit - p[i].profit,
                                principal |-> owing[i].principal - p[i].principal]]
  BY BalancesAreAmounts DEF Less
<1>5. Less(owing, p) \in [1..Length -> Balances]
  BY <1>3, <1>4 DEF Balances
<1> QED BY <1>5 DEF p

\* The balances of a schedule stay in their bounds, whatever is paid.
THEOREM BalancesStayInBounds == AllocationSpec => []Balanced
<1>1. AllocationInit => Balanced
  BY DEF AllocationInit, Balanced
<1>2. Balanced /\ [AllocationNext]_<<owing, allocated>> => Balanced'
  <2> SUFFICES ASSUME Balanced, [AllocationNext]_<<owing, allocated>> PROVE Balanced'
    OBVIOUS
  <2>1. CASE AllocationNext
    <3>1. PICK amount \in 1..MaxPayment : Pay(amount)
      BY <2>1 DEF AllocationNext
    <3>2. amount \in Nat
      BY AllocationAssumption
    <3> QED BY <3>1, <3>2, LessIsBalanced DEF Pay, Balanced
  <2>2. CASE UNCHANGED <<owing, allocated>>
    BY <2>2 DEF Balanced
  <2> QED BY <2>1, <2>2
<1> QED BY <1>1, <1>2, PTL DEF AllocationSpec

\* The plan of any payment of any schedule respects the two rules of the engine.
LEMMA PlanInOrder ==
  ASSUME NEW m \in Nat, NEW rows \in [1..m -> AmountRow], NEW amount \in Nat,
         NEW p \in [1..m -> AmountRow], NEW rest, NEW i \in 1..m
  PROVE  p = allocate(amount, rows) /\ rest = Less(rows, p) =>
         /\ LineTotal(p[i]) > 0 => \A j \in 1..(i - 1) : LineTotal(rest[j]) = 0
         /\ p[i].profit > 0 => rest[i].late_fee = 0
         /\ p[i].principal > 0 => rest[i].late_fee = 0 /\ rest[i].profit = 0
<1>1. SUFFICES ASSUME p = allocate(amount, rows), rest = Less(rows, p)
               PROVE  /\ LineTotal(p[i]) > 0 => \A j \in 1..(i - 1) : LineTotal(rest[j]) = 0
                      /\ p[i].profit > 0 => rest[i].late_fee = 0
                      /\ p[i].principal > 0 => rest[i].late_fee = 0 /\ rest[i].profit = 0
  OBVIOUS
<1>2. \A j \in 1..m : /\ rest[j].late_fee = rows[j].late_fee - p[j].late_fee
                      /\ rest[j].profit = rows[j].profit - p[j].profit
                      /\ rest[j].principal = rows[j].principal - p[j].principal
  BY <1>1 DEF Less
<1>3. \A j \in 1..m : /\ rows[j].late_fee \in Nat /\ rows[j].profit \in Nat
                      /\ rows[j].principal \in Nat
  <2>1. \A j \in 1..m : rows[j] \in AmountRow
    OBVIOUS
  <2> QED BY <2>1 DEF AmountRow
<1>4. \A j \in 1..(i - 1) : j \in 1..m
  OBVIOUS
<1>5. /\ p[i].profit > 0 => p[i].late_fee = rows[i].late_fee
      /\ p[i].principal > 0 => /\ p[i].late_fee = rows[i].late_fee
                               /\ p[i].profit = rows[i].profit
      /\ LineTotal(p[i]) > 0 =>
           \A j \in 1..(i - 1) : /\ p[j].late_fee = rows[j].late_fee
                                 /\ p[j].profit = rows[j].profit
                                 /\ p[j].principal = rows[j].principal
  BY <1>1, AllocateInOrder, Zenon
<1>6. ASSUME LineTotal(p[i]) > 0, NEW j \in 1..(i - 1) PROVE LineTotal(rest[j]) = 0
  <2>1. /\ p[j].late_fee = rows[j].late_fee /\ p[j].profit = rows[j].profit
        /\ p[j].principal = rows[j].principal
    BY <1>5, <1>6
  <2>2. rest[j].late_fee = 0 /\ rest[j].profit = 0 /\ rest[j].principal = 0
    BY <1>2, <1>3, <1>4, <2>1
  <2> QED BY <2>2 DEF LineTotal
<1> QED BY <1>2, <1>3, <1>5, <1>6

\* A plan for nothing takes nothing.
LEMMA PlanOfNothing ==
  ASSUME Balanced, NEW i \in DOMAIN allocate(0, owing)
  PROVE  /\ allocate(0, owing)[i].late_fee = 0
         /\ allocate(0, owing)[i].profit = 0
         /\ allocate(0, owing)[i].principal = 0
<1> DEFINE p == allocate(0, owing)
           g == [j \in 1..Length |-> LineTotal(p[j])]
<1>1. owing \in [1..Length -> AmountRow] /\ Length \in Nat
  BY BalancesAreAmounts, AllocationAssumption
<1>2. 0 <= Total(owing)
  <2>1. SumFunctionOnSet(Buckets(owing), 1..(3 * Length)) = Total(owing)
    BY <1>1, BucketsTotal
  <2>2. Buckets(owing) \in [1..(3 * Length) -> Nat] /\ 3 * Length \in Nat
    BY <1>1, BucketsMeaning
  <2>3. SumFunctionOnSet(Buckets(owing), 1..(3 * Length)) \in Nat
    BY <2>2, UpToIsFinite, SumNat
  <2> QED BY <2>1, <2>3
<1>3. p \in [1..Length -> AmountRow] /\ Total(p) = 0
  BY <1>1, <1>2, AllocateMeaning
<1> HIDE DEF p
<1>4. \A j \in 1..Length : /\ p[j].late_fee \in Nat /\ p[j].profit \in Nat
                           /\ p[j].principal \in Nat
  <2>1. \A j \in 1..Length : p[j] \in AmountRow
    BY <1>3
  <2> QED BY <2>1 DEF AmountRow
<1>5. \A j \in 1..Length : g[j] \in Nat /\ g[j] = p[j].late_fee + p[j].profit + p[j].principal
  BY <1>4 DEF LineTotal
<1>6. Total(p) = SumFunctionOnSet(g, 1..Length)
  BY <1>1, <1>3, TotalMeaning
<1>7. i \in 1..Length /\ IsFiniteSet(1..Length)
  BY <1>1, <1>3, UpToIsFinite DEF p
<1>8. g[i] <= 0
  <2> HIDE DEF g
  <2>1. g[i] <= SumFunctionOnSet(g, 1..Length)
    BY <1>5, <1>7, SumNat
  <2> QED BY <1>3, <1>6, <2>1
<1>9. p[i].late_fee = 0 /\ p[i].profit = 0 /\ p[i].principal = 0
  <2> HIDE DEF g
  <2> QED BY <1>4, <1>5, <1>7, <1>8
<1> QED BY <1>9 DEF p

\* Money reaches a balance only once all older installments owe nothing, and late
\* fees go before profit before principal, for any schedule and payments.
THEOREM OrderCorrect == AllocationSpec => []OldestFirstFeesFirst
<1>1. AllocationInit => OldestFirstFeesFirst
  <2> SUFFICES ASSUME AllocationInit, NEW i \in DOMAIN allocated
               PROVE  /\ allocated[i].late_fee = 0 /\ allocated[i].profit = 0
                      /\ allocated[i].principal = 0
    BY DEF OldestFirstFeesFirst, LineTotal
  <2> QED BY PlanOfNothing DEF AllocationInit, Balanced
<1>2. Balanced /\ OldestFirstFeesFirst /\ [AllocationNext]_<<owing, allocated>>
        => OldestFirstFeesFirst'
  <2> SUFFICES ASSUME Balanced, OldestFirstFeesFirst, [AllocationNext]_<<owing, allocated>>
               PROVE  OldestFirstFeesFirst'
    OBVIOUS
  <2>1. CASE AllocationNext
    <3>1. PICK amount \in 1..MaxPayment : Pay(amount)
      BY <2>1 DEF AllocationNext
    <3>2. amount \in Nat /\ Length \in Nat /\ owing \in [1..Length -> AmountRow]
      BY AllocationAssumption, BalancesAreAmounts
    <3>3. allocated' = allocate(amount, owing) /\ owing' = Less(owing, allocated')
      BY <3>1 DEF Pay
    <3>4. \A i \in DOMAIN allocated' :
            /\ LineTotal(allocated'[i]) > 0 => \A j \in 1..(i - 1) : LineTotal(owing'[j]) = 0
            /\ allocated'[i].profit > 0 => owing'[i].late_fee = 0
            /\ allocated'[i].principal > 0 => owing'[i].late_fee = 0 /\ owing'[i].profit = 0
      <4>1. allocated' \in [1..Length -> AmountRow] /\ DOMAIN allocated' = 1..Length
        BY <3>2, <3>3, AllocateMeaning
      <4> QED BY <3>2, <3>3, <4>1, PlanInOrder
    <3> QED BY <3>4 DEF OldestFirstFeesFirst
  <2>2. CASE UNCHANGED <<owing, allocated>>
    BY <2>2 DEF OldestFirstFeesFirst
  <2> QED BY <2>1, <2>2
<1> QED BY <1>1, <1>2, BalancesStayInBounds, PTL DEF AllocationSpec

\* Any amount that does not exceed what is owed is distributed to the last unit, and
\* no balance gets more than it owes.
THEOREM AmountCorrect == AllocationSpec => []ExactlyTheAmount
<1>1. Balanced => ExactlyTheAmount
  <2> SUFFICES ASSUME Balanced, NEW amount \in 0..Total(owing)
               PROVE  /\ Total(allocate(amount, owing)) = amount
                      /\ \A i \in DOMAIN allocate(amount, owing) :
                           Less(owing, allocate(amount, owing))[i] \in Balances
    BY DEF ExactlyTheAmount
  <2>1. /\ owing \in [1..Length -> AmountRow] /\ Length \in Nat /\ amount \in Nat
        /\ amount <= Total(owing)
    BY BalancesAreAmounts, AllocationAssumption
  <2>2. /\ Total(allocate(amount, owing)) = amount
        /\ DOMAIN allocate(amount, owing) = 1..Length
    BY <2>1, AllocateMeaning
  <2> QED BY <2>1, <2>2, LessIsBalanced
<1> QED BY <1>1, BalancesStayInBounds, PTL

\* Two payments leave what one of their sum leaves, for any schedule and amounts.
LEMMA SplitOfRows ==
  ASSUME NEW m \in Nat, NEW rows \in [1..m -> AmountRow], NEW a \in Nat, NEW b \in Nat
  PROVE  LET rest == Less(rows, allocate(a, rows))
         IN Less(rest, allocate(b, rest)) = Less(rows, allocate(a + b, rows))
<1>1. PICK n \in Nat : n = 3 * m
  OBVIOUS
<1>2. PICK c \in Nat : c = a + b
  OBVIOUS
<1>3. PICK owed \in [1..n -> Nat] : owed = Buckets(rows)
  BY <1>1, BucketsMeaning
<1>4. PICK rest \in [1..m -> AmountRow] :
        /\ rest = Less(rows, allocate(a, rows))
        /\ \A k \in 1..(3 * m) :
             Buckets(rest)[k] = Buckets(rows)[k] - Spread(a, Buckets(rows))[k]
  BY LessMeaning
<1>5. PICK left \in [1..n -> Nat] : left = Buckets(rest)
  BY <1>1, BucketsMeaning
<1>6. \A k \in 1..n : left[k] = owed[k] - Spread(a, owed)[k]
  BY <1>1, <1>3, <1>4, <1>5
<1>7. PICK twice \in [1..m -> AmountRow] :
        /\ twice = Less(rest, allocate(b, rest))
        /\ \A k \in 1..(3 * m) :
             Buckets(twice)[k] = Buckets(rest)[k] - Spread(b, Buckets(rest))[k]
  BY LessMeaning
<1>8. \A k \in 1..n : Buckets(twice)[k] = left[k] - Spread(b, left)[k]
  BY <1>1, <1>5, <1>7
<1>9. PICK once \in [1..m -> AmountRow] :
        /\ once = Less(rows, allocate(c, rows))
        /\ \A k \in 1..(3 * m) :
             Buckets(once)[k] = Buckets(rows)[k] - Spread(c, Buckets(rows))[k]
  BY LessMeaning
<1>10. \A k \in 1..n : Buckets(once)[k] = owed[k] - Spread(c, owed)[k]
  BY <1>1, <1>3, <1>9
<1>11. ASSUME NEW k \in 1..n PROVE Buckets(twice)[k] = Buckets(once)[k]
  <2>1. Spread(a, owed)[k] + Spread(b, left)[k] = Spread(c, owed)[k]
    <3>1. left = OwedAfter(a, owed)
      BY <1>6 DEF OwedAfter
    <3>2. Spread(a, owed)[k] + Spread(b, OwedAfter(a, owed))[k] = Spread(c, owed)[k]
      <4>1. TwiceIsOnce(a, b, owed)
        BY SpreadTwice
      <4> QED BY <1>2, <4>1 DEF TwiceIsOnce
    <3> QED BY <3>1, <3>2
 <2>2. /\ Spread(a, owed) \in [1..n -> Nat]
        /\ Spread(b, left) \in [1..n -> Nat]
    BY <1>3, <1>5, SpreadMeaning
  <2>3. owed[k] \in Nat /\ Spread(a, owed)[k] \in Nat /\ Spread(b, left)[k] \in Nat
    BY <1>3, <2>2
  <2>4. left[k] = owed[k] - Spread(a, owed)[k] /\ left[k] \in Nat
    BY <1>5, <1>6
  <2>5. Buckets(twice)[k] = left[k] - Spread(b, left)[k]
    BY <1>8
  <2>6. Buckets(once)[k] = owed[k] - Spread(c, owed)[k]
    BY <1>10
  <2>7. PICK o \in Nat, x \in Nat, y \in Nat : /\ o = owed[k] /\ x = Spread(a, owed)[k]
                                               /\ y = Spread(b, left)[k]
    BY <2>3
  <2>8. Buckets(twice)[k] = (o - x) - y
    BY <2>4, <2>5, <2>7
  <2>9. Buckets(once)[k] = o - (x + y)
    BY <2>1, <2>6, <2>7
  <2>10. (o - x) - y = o - (x + y)
    BY <2>7
  <2> QED BY <2>8, <2>9, <2>10
<1>12. twice = once
  BY <1>1, <1>11, BucketsDetermine
<1> QED BY <1>2, <1>4, <1>7, <1>9, <1>12

\* No order of partial payments moves money between balances.
THEOREM SplitCorrect == AllocationSpec => []SplitMakesNoDifference
<1>1. Balanced => SplitMakesNoDifference
  <2> SUFFICES ASSUME Balanced, NEW a \in 0..MaxPayment, NEW b \in 0..MaxPayment
               PROVE  LET rest == Less(owing, allocate(a, owing))
                      IN Less(rest, allocate(b, rest)) = Less(owing, allocate(a + b, owing))
    BY DEF SplitMakesNoDifference
  <2>1. /\ owing \in [1..Length -> AmountRow] /\ Length \in Nat
        /\ a \in Nat /\ b \in Nat
    BY BalancesAreAmounts, AllocationAssumption
  <2> QED BY <2>1, SplitOfRows
<1> QED BY <1>1, BalancesStayInBounds, PTL

-------------------------------------------------------------------------------
\* The rows.

InstStatus == {"pending", "partially_paid", "overdue", "paid", "written_off"}
FeeStatus == {"assessed", "waived", "paid", "written_off"}
InstRow == [principal: Nat, profit: Nat, principal_paid: Nat, profit_paid: Nat,
            principal_written_off: Nat, profit_written_off: Nat, status: InstStatus]
FeeRow == [installment: Installments, amount: Nat \ {0}, amount_paid: Nat,
           amount_written_off: Nat, status: FeeStatus]
Asked == StaffReferences \cup GatewayReferences \cup SettleReferences
PaymentRow == [reference: Asked \cup {<<r, "REV">> : r \in Asked},
               source: {"staff", "gateway"}, amount: Nat,
               status: {"applied", "reversed"}, lines: [Installments -> AmountRow]]

LEMMA InstallmentsAreNumbered ==
  \E m \in Nat : m = Len(Schedule) /\ Installments = 1..m
BY ServicingAssumption DEF Installments

LEMMA SequenceElement ==
  ASSUME NEW T, NEW s \in Seq(T), NEW i \in DOMAIN s
  PROVE  s[i] \in T
OBVIOUS

LEMMA ScheduleMeaning ==
  \A i \in Installments : /\ Schedule[i].principal \in Nat /\ Schedule[i].profit \in Nat
                          /\ Schedule[i].late_fee \in Nat \ {0}
<1> DEFINE T == [principal: Nat, profit: Nat, due: Nat, late_fee: Nat \ {0}]
<1>1. Schedule \in Seq(T)
  BY ServicingAssumption
<1>2. \A i \in Installments : Schedule[i] \in T
  <2> HIDE DEF T
  <2> QED BY <1>1, SequenceElement DEF Installments
<1> QED BY <1>2

\* A sequence with one element more.
LEMMA Appended ==
  ASSUME NEW T, NEW s \in Seq(T), NEW x \in T
  PROVE  /\ Append(s, x) \in Seq(T)
         /\ Len(Append(s, x)) = Len(s) + 1
         /\ \A k \in 1..Len(s) : Append(s, x)[k] = s[k]
         /\ Append(s, x)[Len(s) + 1] = x
OBVIOUS

LEMMA SequenceIsFunction ==
  ASSUME NEW T, NEW s \in Seq(T)
  PROVE  \E n \in Nat : n = Len(s) /\ s \in [1..n -> T]
OBVIOUS

LEMMA FunctionIsSequence ==
  ASSUME NEW T, NEW n \in Nat, NEW s \in [1..n -> T]
  PROVE  s \in Seq(T) /\ Len(s) = n
OBVIOUS

LEMMA InstRowMeaning ==
  ASSUME NEW x \in InstRow
  PROVE  /\ x.principal \in Nat /\ x.principal_paid \in Nat /\ x.principal_written_off \in Nat
         /\ x.profit \in Nat /\ x.profit_paid \in Nat /\ x.profit_written_off \in Nat
         /\ x.status \in InstStatus
BY DEF InstRow

LEMMA FeeRowMeaning ==
  ASSUME NEW c \in FeeRow
  PROVE  /\ c.installment \in Installments /\ c.amount \in Nat /\ c.amount > 0
         /\ c.amount_paid \in Nat /\ c.amount_written_off \in Nat /\ c.status \in FeeStatus
BY DEF FeeRow

LEMMA AmountRowMeaning ==
  ASSUME NEW x \in AmountRow
  PROVE  x.late_fee \in Nat /\ x.profit \in Nat /\ x.principal \in Nat
BY DEF AmountRow

\* What paying into an installment, or out of it, leaves of its row.
PaidRow(x, a, b) == [x EXCEPT !.profit_paid = @ + a, !.principal_paid = @ + b]
TakenBackRow(x, a, b) == [x EXCEPT !.profit_paid = @ - a, !.principal_paid = @ - b]
WithStatus(x, s) == [x EXCEPT !.status = s]

SameWorth(x, y) == /\ y.principal = x.principal /\ y.profit = x.profit
                   /\ y.principal_written_off = x.principal_written_off
                   /\ y.profit_written_off = x.profit_written_off

LEMMA PaidRowMeaning ==
  ASSUME NEW x \in InstRow, NEW a \in Nat, NEW b \in Nat
  PROVE  /\ PaidRow(x, a, b) \in InstRow
         /\ SameWorth(x, PaidRow(x, a, b)) /\ PaidRow(x, a, b).status = x.status
         /\ PaidRow(x, a, b).principal_paid = x.principal_paid + b
         /\ PaidRow(x, a, b).profit_paid = x.profit_paid + a
<1>1. x.profit_paid + a \in Nat /\ x.principal_paid + b \in Nat
  BY InstRowMeaning
<1> QED BY <1>1 DEF InstRow, PaidRow, SameWorth

LEMMA TakenBackRowMeaning ==
  ASSUME NEW x \in InstRow, NEW a \in Nat, NEW b \in Nat,
         a <= x.profit_paid, b <= x.principal_paid
  PROVE  /\ TakenBackRow(x, a, b) \in InstRow
         /\ SameWorth(x, TakenBackRow(x, a, b)) /\ TakenBackRow(x, a, b).status = x.status
         /\ TakenBackRow(x, a, b).principal_paid = x.principal_paid - b
         /\ TakenBackRow(x, a, b).profit_paid = x.profit_paid - a
<1>1. x.profit_paid - a \in Nat /\ x.principal_paid - b \in Nat
  BY InstRowMeaning
<1> QED BY <1>1 DEF InstRow, TakenBackRow, SameWorth

LEMMA WithStatusMeaning ==
  ASSUME NEW x \in InstRow, NEW s \in InstStatus
  PROVE  /\ WithStatus(x, s) \in InstRow
         /\ SameWorth(x, WithStatus(x, s)) /\ WithStatus(x, s).status = s
         /\ WithStatus(x, s).principal_paid = x.principal_paid
         /\ WithStatus(x, s).profit_paid = x.profit_paid
BY DEF InstRow, WithStatus, SameWorth

LEMMA WithStatusTwice ==
  ASSUME NEW x \in InstRow, NEW s \in InstStatus
  PROVE  WithStatus(WithStatus(x, s), x.status) = x
<1>1. x = [principal |-> x.principal, profit |-> x.profit,
           principal_paid |-> x.principal_paid, profit_paid |-> x.profit_paid,
           principal_written_off |-> x.principal_written_off,
           profit_written_off |-> x.profit_written_off, status |-> x.status]
  BY DEF InstRow
<1> QED BY <1>1 DEF WithStatus

\* The status after a payment or a reversal is one an installment may have.
LEMMA StatusesAreStatuses ==
  ASSUME NEW x \in InstRow
  PROVE  StatusAfterPayment(x) \in InstStatus /\ StatusAfterReversal(x) \in InstStatus
BY InstRowMeaning DEF StatusAfterPayment, StatusAfterReversal, InstStatus

\* A payment adds each line to the paid columns of its installment and leaves the
\* other columns.
LEMMA PayInstallmentsMeaning ==
  ASSUME inst \in [Installments -> InstRow], NEW lines \in [Installments -> AmountRow],
         PayInstallments(lines)
  PROVE  /\ inst' \in [Installments -> InstRow]
         /\ \A i \in Installments :
              /\ SameWorth(inst[i], inst'[i])
              /\ inst'[i].principal_paid = inst[i].principal_paid + lines[i].principal
              /\ inst'[i].profit_paid = inst[i].profit_paid + lines[i].profit
              /\ \/ inst'[i].status = inst[i].status /\ LineTotal(lines[i]) = 0
                 \/ inst'[i].status = StatusAfterPayment(WithStatus(inst'[i], inst[i].status))
<1>1. ASSUME NEW i \in Installments
      PROVE  /\ inst'[i] \in InstRow
             /\ SameWorth(inst[i], inst'[i])
             /\ inst'[i].principal_paid = inst[i].principal_paid + lines[i].principal
             /\ inst'[i].profit_paid = inst[i].profit_paid + lines[i].profit
             /\ \/ inst'[i].status = inst[i].status /\ LineTotal(lines[i]) = 0
                \/ inst'[i].status = StatusAfterPayment(WithStatus(inst'[i], inst[i].status))
  <2>0. inst[i] \in InstRow /\ lines[i] \in AmountRow
    OBVIOUS
  <2>1. PICK x \in InstRow : x = inst[i]
    BY <2>0
  <2>2. PICK a \in Nat, b \in Nat : a = lines[i].profit /\ b = lines[i].principal
    BY <2>0, AmountRowMeaning
  <2>3. CASE LineTotal(lines[i]) = 0
    <3>1. PICK c \in Nat : c = lines[i].late_fee
      BY <2>0, AmountRowMeaning
    <3>2. c + a + b = 0
      BY <2>2, <2>3, <3>1 DEF LineTotal
    <3>3. a = 0 /\ b = 0
      BY <3>2
    <3>4. inst'[i] = inst[i]
      BY <2>3 DEF PayInstallments
    <3>5. x.principal_paid \in Nat /\ x.profit_paid \in Nat
      BY InstRowMeaning
    <3>6. SameWorth(inst[i], inst'[i])
      BY <3>4 DEF SameWorth
    <3> QED BY <2>0, <2>1, <2>2, <2>3, <3>3, <3>4, <3>5, <3>6
  <2>4. CASE LineTotal(lines[i]) # 0
    <3>1. PICK y \in InstRow : y = PaidRow(x, a, b)
      BY PaidRowMeaning
    <3>2. PICK s \in InstStatus : s = StatusAfterPayment(y)
      BY StatusesAreStatuses
    <3>3. inst'[i] = WithStatus(y, s)
      BY <2>1, <2>2, <2>4, <3>1, <3>2 DEF PayInstallments, PaidRow, WithStatus
    <3>4. /\ SameWorth(x, y) /\ y.status = x.status
          /\ y.principal_paid = x.principal_paid + b
          /\ y.profit_paid = x.profit_paid + a
      BY <3>1, PaidRowMeaning
    <3>5. /\ WithStatus(y, s) \in InstRow
          /\ SameWorth(y, WithStatus(y, s)) /\ WithStatus(y, s).status = s
          /\ WithStatus(y, s).principal_paid = y.principal_paid
          /\ WithStatus(y, s).profit_paid = y.profit_paid
      BY WithStatusMeaning
    <3>6. WithStatus(WithStatus(y, s), y.status) = y
      BY WithStatusTwice
    <3>7. s = StatusAfterPayment(WithStatus(inst'[i], inst[i].status))
      BY <2>1, <3>2, <3>3, <3>4, <3>6, Zenon
    <3>8. SameWorth(inst[i], inst'[i])
      BY <2>1, <3>3, <3>4, <3>5 DEF SameWorth
    <3> QED BY <2>1, <2>2, <3>3, <3>4, <3>5, <3>7, <3>8
  <2> QED BY <2>3, <2>4
<1>2. inst' = [i \in Installments |-> inst'[i]]
  BY DEF PayInstallments
<1>3. inst' \in [Installments -> InstRow]
  BY <1>1, <1>2
<1> QED BY <1>1, <1>3

\* A reversal takes each line out again.
LEMMA ReverseInstallmentsMeaning ==
  ASSUME inst \in [Installments -> InstRow], NEW lines \in [Installments -> AmountRow],
         \A i \in Installments : /\ lines[i].principal <= inst[i].principal_paid
                                /\ lines[i].profit <= inst[i].profit_paid,
         ReverseInstallments(lines)
  PROVE  /\ inst' \in [Installments -> InstRow]
         /\ \A i \in Installments :
              /\ SameWorth(inst[i], inst'[i])
              /\ inst'[i].principal_paid = inst[i].principal_paid - lines[i].principal
              /\ inst'[i].profit_paid = inst[i].profit_paid - lines[i].profit
              /\ \/ inst'[i].status = inst[i].status /\ LineTotal(lines[i]) = 0
                 \/ inst'[i].status = StatusAfterReversal(WithStatus(inst'[i], inst[i].status))
<1>1. ASSUME NEW i \in Installments
      PROVE  /\ inst'[i] \in InstRow
             /\ SameWorth(inst[i], inst'[i])
             /\ inst'[i].principal_paid = inst[i].principal_paid - lines[i].principal
             /\ inst'[i].profit_paid = inst[i].profit_paid - lines[i].profit
             /\ \/ inst'[i].status = inst[i].status /\ LineTotal(lines[i]) = 0
                \/ inst'[i].status = StatusAfterReversal(WithStatus(inst'[i], inst[i].status))
  <2>0. inst[i] \in InstRow /\ lines[i] \in AmountRow
    OBVIOUS
  <2>1. PICK x \in InstRow : x = inst[i]
    BY <2>0
  <2>2. PICK a \in Nat, b \in Nat : a = lines[i].profit /\ b = lines[i].principal
    BY <2>0, AmountRowMeaning
  <2>3. CASE LineTotal(lines[i]) = 0
    <3>1. PICK c \in Nat : c = lines[i].late_fee
      BY <2>0, AmountRowMeaning
    <3>2. c + a + b = 0
      BY <2>2, <2>3, <3>1 DEF LineTotal
    <3>3. a = 0 /\ b = 0
      BY <3>2
    <3>4. inst'[i] = inst[i]
      BY <2>3 DEF ReverseInstallments
    <3>5. x.principal_paid \in Nat /\ x.profit_paid \in Nat
      BY InstRowMeaning
    <3>6. SameWorth(inst[i], inst'[i])
      BY <3>4 DEF SameWorth
    <3> QED BY <2>0, <2>1, <2>2, <2>3, <3>3, <3>4, <3>5, <3>6
  <2>4. CASE LineTotal(lines[i]) # 0
    <3>0. a <= x.profit_paid /\ b <= x.principal_paid
      BY <2>1, <2>2
    <3>1. PICK y \in InstRow : y = TakenBackRow(x, a, b)
      BY <3>0, TakenBackRowMeaning
    <3>2. PICK s \in InstStatus : s = StatusAfterReversal(y)
      BY StatusesAreStatuses
    <3>3. inst'[i] = WithStatus(y, s)
      BY <2>1, <2>2, <2>4, <3>1, <3>2 DEF ReverseInstallments, TakenBackRow, WithStatus
    <3>4. /\ SameWorth(x, y) /\ y.status = x.status
          /\ y.principal_paid = x.principal_paid - b
          /\ y.profit_paid = x.profit_paid - a
      BY <3>0, <3>1, TakenBackRowMeaning
    <3>5. /\ WithStatus(y, s) \in InstRow
          /\ SameWorth(y, WithStatus(y, s)) /\ WithStatus(y, s).status = s
          /\ WithStatus(y, s).principal_paid = y.principal_paid
          /\ WithStatus(y, s).profit_paid = y.profit_paid
      BY WithStatusMeaning
    <3>6. WithStatus(WithStatus(y, s), y.status) = y
      BY WithStatusTwice
    <3>7. s = StatusAfterReversal(WithStatus(inst'[i], inst[i].status))
      BY <2>1, <3>2, <3>3, <3>4, <3>6, Zenon
    <3>8. SameWorth(inst[i], inst'[i])
      BY <2>1, <3>3, <3>4, <3>5 DEF SameWorth
    <3> QED BY <2>1, <2>2, <3>3, <3>4, <3>5, <3>7, <3>8
  <2> QED BY <2>3, <2>4
<1>2. inst' = [i \in Installments |-> inst'[i]]
  BY DEF ReverseInstallments
<1>3. inst' \in [Installments -> InstRow]
  BY <1>1, <1>2
<1> QED BY <1>1, <1>3

-------------------------------------------------------------------------------
\* The late fees.

SameFee(c, d) == /\ d.installment = c.installment /\ d.amount = c.amount
                 /\ d.amount_written_off = c.amount_written_off
                 /\ NotWaived(d) <=> NotWaived(c)

LEMMA PaidFeeMeaning ==
  ASSUME NEW c \in FeeRow, NEW part \in Nat, c.status = "waived" => part = 0
  PROVE  /\ PaidFee(c, part) \in FeeRow /\ SameFee(c, PaidFee(c, part))
         /\ PaidFee(c, part).amount_paid = c.amount_paid + part
         /\ PaidFee(c, part).status = "paid" =>
              c.status = "paid" \/ c.amount_paid + part >= c.amount
<1>1. c.amount_paid \in Nat /\ c.amount_paid + part \in Nat
  BY FeeRowMeaning
<1>2. CASE part = 0
  BY <1>1, <1>2 DEF PaidFee, SameFee
<1>3. CASE part # 0
  <2>1. PICK p \in Nat : p = c.amount_paid + part
    BY <1>1
  <2>2. PICK s \in FeeStatus : s = IF p >= c.amount THEN "paid" ELSE c.status
    BY FeeRowMeaning DEF FeeStatus
  <2>3. PaidFee(c, part) = [c EXCEPT !.amount_paid = p, !.status = s]
    BY <1>3, <2>1, <2>2 DEF PaidFee
  <2>4. c.status # "waived" /\ s # "waived"
    BY <1>3, <2>2
  <2> QED BY <2>1, <2>2, <2>3, <2>4 DEF SameFee, FeeRow, NotWaived
<1> QED BY <1>2, <1>3

LEMMA UnpaidFeeMeaning ==
  ASSUME NEW c \in FeeRow, NEW part \in Nat, part <= c.amount_paid
  PROVE  /\ UnpaidFee(c, part) \in FeeRow /\ SameFee(c, UnpaidFee(c, part))
         /\ UnpaidFee(c, part).amount_paid = c.amount_paid - part
         /\ UnpaidFee(c, part).status = "paid" =>
              c.status = "paid" /\ c.amount_paid - part >= c.amount
<1>1. PICK p \in Nat : p = c.amount_paid - part
  BY FeeRowMeaning
<1>2. PICK s \in FeeStatus :
        s = IF c.status = "paid" /\ p < c.amount THEN "assessed" ELSE c.status
  BY FeeRowMeaning DEF FeeStatus
<1>3. UnpaidFee(c, part) = [c EXCEPT !.amount_paid = p, !.status = s]
  BY <1>1, <1>2 DEF UnpaidFee
<1>4. s = "waived" <=> c.status = "waived"
  BY <1>2
<1>5. s = "paid" => c.status = "paid" /\ p >= c.amount
  BY <1>1, <1>2, FeeRowMeaning
<1> QED BY <1>1, <1>3, <1>4, <1>5 DEF SameFee, FeeRow, NotWaived

\* No charge gets more than is left to pay of it, nor more than the line, and only
\* live charges of the installment get anything.
LEMMA FeePartsMeaning ==
  ASSUME fees \in Seq(FeeRow), \A k \in DOMAIN fees : fees[k].amount_paid <= fees[k].amount,
         NEW lines \in [Installments -> AmountRow], NEW i \in Installments
  PROVE  \A k \in DOMAIN fees :
           /\ FeeParts(lines)[i][k] \in Nat
           /\ FeeParts(lines)[i][k] <= fees[k].amount - fees[k].amount_paid
           /\ FeeParts(lines)[i][k] <= lines[i].late_fee
           /\ k \notin LiveOf(fees, i) => FeeParts(lines)[i][k] = 0
<1>1. PICK m \in Nat : fees \in [1..m -> FeeRow] /\ DOMAIN fees = 1..m
  BY SequenceIsFunction
<1>2. \A k \in 1..m : fees[k].amount \in Nat /\ fees[k].amount_paid \in Nat
  BY <1>1, FeeRowMeaning
<1>3. \A k \in 1..m : fees[k].amount - fees[k].amount_paid \in Nat
  BY <1>1, <1>2
<1>4. PICK owed \in [1..m -> Nat] :
        owed = [k \in 1..m |-> IF k \in LiveOf(fees, i)
                               THEN fees[k].amount - fees[k].amount_paid ELSE 0]
  BY <1>3
<1>5. PICK a \in Nat : a = lines[i].late_fee
  <2>1. lines[i] \in AmountRow
    OBVIOUS
  <2> QED BY <2>1, AmountRowMeaning
<1>6. FeeParts(lines)[i] = Spread(a, owed)
  BY <1>1, <1>4, <1>5 DEF FeeParts
<1>7. \A k \in 1..m : Spread(a, owed)[k] \in 0..owed[k] /\ Spread(a, owed)[k] <= a
  BY SpreadBounds, SpreadAtMost
<1>8. ASSUME NEW k \in 1..m
      PROVE  /\ Spread(a, owed)[k] \in Nat
             /\ Spread(a, owed)[k] <= fees[k].amount - fees[k].amount_paid
             /\ Spread(a, owed)[k] <= a
             /\ k \notin LiveOf(fees, i) => Spread(a, owed)[k] = 0
  <2>1. PICK o \in Nat : o = owed[k] /\ Spread(a, owed)[k] \in 0..o /\ Spread(a, owed)[k] <= a
    BY <1>4, <1>7
  <2>2. /\ o = IF k \in LiveOf(fees, i) THEN fees[k].amount - fees[k].amount_paid ELSE 0
        /\ fees[k].amount - fees[k].amount_paid \in Nat
    BY <1>3, <1>4, <2>1
  <2> QED BY <2>1, <2>2
<1> QED BY <1>1, <1>5, <1>6, <1>8

\* A payment adds to what is paid of the charges, never more than their amounts.
LEMMA PayFeesMeaning ==
  ASSUME fees \in Seq(FeeRow), \A k \in DOMAIN fees : fees[k].amount_paid <= fees[k].amount,
         NEW lines \in [Installments -> AmountRow], PayFees(lines)
  PROVE  /\ fees' \in Seq(FeeRow) /\ DOMAIN fees' = DOMAIN fees
         /\ \A k \in DOMAIN fees :
              /\ SameFee(fees[k], fees'[k])
              /\ fees'[k].amount_paid
                   = fees[k].amount_paid + FeeParts(lines)[fees[k].installment][k]
              /\ FeeParts(lines)[fees[k].installment][k] \in Nat
              /\ FeeParts(lines)[fees[k].installment][k]
                   <= fees[k].amount - fees[k].amount_paid
              /\ FeeParts(lines)[fees[k].installment][k]
                   <= lines[fees[k].installment].late_fee
              /\ k \notin LiveOf(fees, fees[k].installment)
                   => FeeParts(lines)[fees[k].installment][k] = 0
              /\ fees'[k].status = "paid" =>
                   fees[k].status = "paid" \/ fees'[k].amount_paid >= fees[k].amount
<1>1. PICK m \in Nat : fees \in [1..m -> FeeRow] /\ DOMAIN fees = 1..m
  BY SequenceIsFunction
<1>2. ASSUME NEW k \in 1..m
      PROVE  /\ fees'[k] \in FeeRow
             /\ SameFee(fees[k], fees'[k])
             /\ fees'[k].amount_paid
                  = fees[k].amount_paid + FeeParts(lines)[fees[k].installment][k]
             /\ FeeParts(lines)[fees[k].installment][k] \in Nat
             /\ FeeParts(lines)[fees[k].installment][k]
                  <= fees[k].amount - fees[k].amount_paid
             /\ FeeParts(lines)[fees[k].installment][k]
                  <= lines[fees[k].installment].late_fee
             /\ k \notin LiveOf(fees, fees[k].installment)
                  => FeeParts(lines)[fees[k].installment][k] = 0
             /\ fees'[k].status = "paid" =>
                  fees[k].status = "paid" \/ fees'[k].amount_paid >= fees[k].amount
  <2>1. PICK c \in FeeRow : c = fees[k]
    BY <1>1
  <2>2. PICK i \in Installments : i = fees[k].installment
    BY <2>1, FeeRowMeaning
  <2>3. /\ FeeParts(lines)[i][k] \in Nat
        /\ FeeParts(lines)[i][k] <= fees[k].amount - fees[k].amount_paid
        /\ FeeParts(lines)[i][k] <= lines[i].late_fee
        /\ k \notin LiveOf(fees, i) => FeeParts(lines)[i][k] = 0
    BY <1>1, FeePartsMeaning
  <2>4. PICK p \in Nat : p = FeeParts(lines)[i][k]
    BY <2>3
  <2>5. fees'[k] = PaidFee(c, p)
    BY <1>1, <2>1, <2>2, <2>4 DEF PayFees
  <2>6. c.status = "waived" => p = 0
    BY <1>1, <2>1, <2>3, <2>4 DEF LiveOf, Live, NotWaived
  <2>7. /\ PaidFee(c, p) \in FeeRow /\ SameFee(c, PaidFee(c, p))
        /\ PaidFee(c, p).amount_paid = c.amount_paid + p
        /\ PaidFee(c, p).status = "paid" =>
             c.status = "paid" \/ c.amount_paid + p >= c.amount
    BY <2>6, PaidFeeMeaning
  <2>8. /\ fees'[k] \in FeeRow /\ SameFee(fees[k], fees'[k])
        /\ fees'[k].amount_paid = fees[k].amount_paid + p
        /\ fees'[k].status = "paid" =>
             fees[k].status = "paid" \/ fees'[k].amount_paid >= fees[k].amount
    BY <2>1, <2>5, <2>7
  <2> QED BY <2>2, <2>3, <2>4, <2>8, Zenon
<1>3. fees' = [k \in 1..m |-> fees'[k]]
  BY <1>1 DEF PayFees
<1>4. fees' \in [1..m -> FeeRow]
  BY <1>2, <1>3
<1>5. fees' \in Seq(FeeRow) /\ DOMAIN fees' = 1..m
  BY <1>4, FunctionIsSequence
<1> QED BY <1>1, <1>2, <1>5

\* What a reversal takes back of each charge is at most what was paid of it.
LEMMA ReverseFeesMeaning ==
  ASSUME fees \in Seq(FeeRow), NEW lines \in [Installments -> AmountRow], ReverseFees(lines)
  PROVE  /\ fees' \in Seq(FeeRow) /\ DOMAIN fees' = DOMAIN fees
         /\ \A k \in DOMAIN fees :
              /\ SameFee(fees[k], fees'[k])
              /\ FeesBack(lines)[fees[k].installment][Latest(k)] \in Nat
              /\ FeesBack(lines)[fees[k].installment][Latest(k)]
                   <= lines[fees[k].installment].late_fee
              /\ fees'[k].amount_paid
                   = fees[k].amount_paid - FeesBack(lines)[fees[k].installment][Latest(k)]
              /\ fees'[k].amount_paid \in 0..fees[k].amount_paid
              /\ fees'[k].status = "paid" =>
                   fees[k].status = "paid" /\ fees'[k].amount_paid >= fees[k].amount
<1>1. PICK m \in Nat : fees \in [1..m -> FeeRow] /\ DOMAIN fees = 1..m /\ Len(fees) = m
  BY SequenceIsFunction
<1>2. ASSUME NEW k \in 1..m
      PROVE  /\ fees'[k] \in FeeRow
             /\ SameFee(fees[k], fees'[k])
             /\ FeesBack(lines)[fees[k].installment][Latest(k)] \in Nat
             /\ FeesBack(lines)[fees[k].installment][Latest(k)]
                  <= lines[fees[k].installment].late_fee
             /\ fees'[k].amount_paid
                  = fees[k].amount_paid - FeesBack(lines)[fees[k].installment][Latest(k)]
             /\ fees'[k].amount_paid \in 0..fees[k].amount_paid
             /\ fees'[k].status = "paid" =>
                  fees[k].status = "paid" /\ fees'[k].amount_paid >= fees[k].amount
  <2>1. PICK c \in FeeRow : c = fees[k]
    BY <1>1
  <2>2. PICK i \in Installments : i = fees[k].installment
    BY <2>1, FeeRowMeaning
  <2>3. PICK l \in 1..m : l = Latest(k) /\ Latest(l) = k
    BY <1>1 DEF Latest
  <2>4. PICK a \in Nat : a = lines[i].late_fee
    <3>1. lines[i] \in AmountRow
      OBVIOUS
    <3> QED BY <3>1, AmountRowMeaning
  <2>5. \A j \in 1..m : Latest(j) \in 1..m
    BY <1>1 DEF Latest
  <2>6. \A j \in 1..m : fees[Latest(j)].amount_paid \in Nat
    BY <1>1, <2>5, FeeRowMeaning
  <2>7. PICK owed \in [1..m -> Nat] :
          owed = [j \in 1..m |-> IF fees[Latest(j)].installment = i
                                 THEN fees[Latest(j)].amount_paid ELSE 0]
    BY <2>6
  <2>8. FeesBack(lines)[i] = Spread(a, owed)
    BY <1>1, <2>4, <2>7 DEF FeesBack
  <2>9. Spread(a, owed)[l] \in 0..owed[l] /\ Spread(a, owed)[l] <= a
    BY SpreadBounds, SpreadAtMost
  <2>10. owed[l] = c.amount_paid
    BY <2>1, <2>2, <2>3, <2>7
  <2>11. PICK p \in Nat : p = FeesBack(lines)[i][l] /\ p <= c.amount_paid /\ p <= a
    BY <2>8, <2>9, <2>10, FeeRowMeaning
  <2>12. fees'[k] = UnpaidFee(c, p)
    BY <1>1, <2>1, <2>2, <2>3, <2>11 DEF ReverseFees
  <2>13. /\ UnpaidFee(c, p) \in FeeRow /\ SameFee(c, UnpaidFee(c, p))
         /\ UnpaidFee(c, p).amount_paid = c.amount_paid - p
         /\ UnpaidFee(c, p).status = "paid" =>
              c.status = "paid" /\ c.amount_paid - p >= c.amount
    BY <2>11, UnpaidFeeMeaning
  <2>14. c.amount_paid \in Nat /\ c.amount_paid - p \in 0..c.amount_paid
    BY <2>11, FeeRowMeaning
  <2>15. /\ fees'[k] \in FeeRow /\ SameFee(fees[k], fees'[k])
         /\ fees'[k].amount_paid = fees[k].amount_paid - p
         /\ fees'[k].amount_paid \in 0..fees[k].amount_paid
         /\ fees'[k].status = "paid" =>
              fees[k].status = "paid" /\ fees'[k].amount_paid >= fees[k].amount
    BY <2>1, <2>12, <2>13, <2>14
  <2>16. p <= lines[i].late_fee
    BY <2>4, <2>11
  <2> QED BY <2>2, <2>3, <2>11, <2>15, <2>16, Zenon
<1>3. fees' = [k \in 1..m |-> fees'[k]]
  BY <1>1 DEF ReverseFees
<1>4. fees' \in [1..m -> FeeRow]
  BY <1>2, <1>3
<1>5. fees' \in Seq(FeeRow) /\ DOMAIN fees' = 1..m
  BY <1>4, FunctionIsSequence
<1> QED BY <1>1, <1>2, <1>5

\* Closing out pays every charge that was not waived in full.
LEMMA CloseOutFeesMeaning ==
  ASSUME fees \in Seq(FeeRow), CloseOutFees
  PROVE  /\ fees' \in Seq(FeeRow) /\ DOMAIN fees' = DOMAIN fees
         /\ \A k \in DOMAIN fees :
              /\ SameFee(fees[k], fees'[k])
              /\ IF NotWaived(fees[k]) THEN fees'[k].amount_paid = fees[k].amount
                                       ELSE fees'[k] = fees[k]
<1>1. PICK m \in Nat : fees \in [1..m -> FeeRow] /\ DOMAIN fees = 1..m
  BY SequenceIsFunction
<1>2. ASSUME NEW k \in 1..m
      PROVE  /\ fees'[k] \in FeeRow
             /\ SameFee(fees[k], fees'[k])
             /\ IF NotWaived(fees[k]) THEN fees'[k].amount_paid = fees[k].amount
                                      ELSE fees'[k] = fees[k]
  <2>1. PICK c \in FeeRow : c = fees[k]
    BY <1>1
  <2>2. fees'[k] = IF c.status = "waived" THEN c
                   ELSE [c EXCEPT !.amount_paid = c.amount, !.status = "paid"]
    BY <1>1, <2>1 DEF CloseOutFees
  <2>3. CASE c.status = "waived"
    BY <2>1, <2>2, <2>3 DEF SameFee, NotWaived
  <2>4. CASE c.status # "waived"
    <3> DEFINE d == [c EXCEPT !.amount_paid = c.amount, !.status = "paid"]
    <3>1. /\ d \in FeeRow /\ d.amount_paid = c.amount /\ d.status = "paid"
          /\ d.installment = c.installment /\ d.amount = c.amount
          /\ d.amount_written_off = c.amount_written_off
      BY DEF FeeRow, FeeStatus
    <3>2. fees'[k] = d
      BY <2>2, <2>4
    <3> HIDE DEF d
    <3> QED BY <2>1, <2>4, <3>1, <3>2 DEF SameFee, NotWaived
  <2> QED BY <2>3, <2>4
<1>3. fees' = [k \in 1..m |-> fees'[k]]
  BY <1>1 DEF CloseOutFees
<1>4. fees' \in [1..m -> FeeRow]
  BY <1>2, <1>3
<1>5. fees' \in Seq(FeeRow) /\ DOMAIN fees' = 1..m
  BY <1>4, FunctionIsSequence
<1> QED BY <1>1, <1>2, <1>5

-------------------------------------------------------------------------------
\* The loop of the overdue job over the installments.

IsAssessed(charges, n, day) ==
  charges = [i \in {0} \cup 1..n |->
               IF i = 0 THEN fees ELSE Assess(charges[i - 1], i, day)]

LEMMA AssessedExists ==
  ASSUME NEW n \in Nat, NEW day
  PROVE  \E charges : IsAssessed(charges, n, day)
<1> DEFINE T == {k \in Nat : \E charges : IsAssessed(charges, k, day)}
<1>1. 0 \in T
  <2> DEFINE c == [i \in {0} |-> fees]
  <2>1. {0} \cup 1..0 = {0}
    OBVIOUS
  <2>2. c = [i \in {0} \cup 1..0 |-> IF i = 0 THEN fees ELSE Assess(c[i - 1], i, day)]
    BY <2>1
  <2>3. IsAssessed(c, 0, day)
    <3> HIDE DEF c
    <3> QED BY <2>2 DEF IsAssessed
  <2> QED BY <2>3
<1>2. ASSUME NEW k \in Nat, k \in T PROVE k + 1 \in T
  <2>1. PICK c : IsAssessed(c, k, day)
    BY <1>2
  <2> DEFINE d == [i \in {0} \cup 1..(k + 1) |->
                     IF i = k + 1 THEN Assess(c[k], k + 1, day) ELSE c[i]]
  <2>2. d[k + 1] = Assess(c[k], k + 1, day) /\ \A i \in {0} \cup 1..k : d[i] = c[i]
    OBVIOUS
  <2>3. d[0] = fees
    BY <2>1, <2>2 DEF IsAssessed
  <2>4. ASSUME NEW i \in 1..k PROVE d[i] = Assess(d[i - 1], i, day)
    <3>1. i \in {0} \cup 1..k /\ i - 1 \in {0} \cup 1..k /\ i # 0
      OBVIOUS
    <3>2. c[i] = Assess(c[i - 1], i, day)
      BY <2>1, <3>1 DEF IsAssessed
    <3>3. d[i] = c[i] /\ d[i - 1] = c[i - 1]
      BY <2>2, <3>1
    <3> QED BY <3>2, <3>3, Zenon
  <2>5. d[k + 1] = Assess(d[(k + 1) - 1], k + 1, day)
    <3>1. (k + 1) - 1 = k /\ k \in {0} \cup 1..k
      OBVIOUS
    <3>2. d[(k + 1) - 1] = c[k]
      BY <2>2, <3>1
    <3> HIDE DEF d
    <3> QED BY <2>2, <3>2, Zenon
  <2>6. DOMAIN d = {0} \cup 1..(k + 1) /\ d = [i \in DOMAIN d |-> d[i]]
    OBVIOUS
  <2>7. IsAssessed(d, k + 1, day)
    <3> HIDE DEF d
    <3>1. \A i \in {0} \cup 1..(k + 1) :
            d[i] = IF i = 0 THEN fees ELSE Assess(d[i - 1], i, day)
      <4> SUFFICES ASSUME NEW i \in {0} \cup 1..(k + 1)
                   PROVE  d[i] = IF i = 0 THEN fees ELSE Assess(d[i - 1], i, day)
        OBVIOUS
      <4>1. CASE i = 0
        BY <2>3, <4>1
      <4>2. CASE i \in 1..k
        BY <2>4, <4>2
      <4>3. CASE i = k + 1
        BY <2>5, <4>3
      <4> QED BY <4>1, <4>2, <4>3
    <3> QED BY <2>6, <3>1 DEF IsAssessed
  <2> QED BY <2>7
<1>3. Nat \subseteq T
  <2> HIDE DEF T
  <2> QED BY <1>1, <1>2, NatSetInduction
<1> QED BY <1>3

LEMMA AssessFeesIsThis ==
  ASSUME NEW day, AssessFees(day)
  PROVE  \E charges : IsAssessed(charges, Len(Schedule), day) /\ fees' = charges[Len(Schedule)]
<1>1. Len(Schedule) \in Nat /\ Installments = 1..Len(Schedule)
  BY InstallmentsAreNumbered
<1>2. \E charges : IsAssessed(charges, Len(Schedule), day)
  BY <1>1, AssessedExists
<1>3. \E charges : charges = [i \in {0} \cup Installments |->
                               IF i = 0 THEN fees ELSE Assess(charges[i - 1], i, day)]
  BY <1>1, <1>2 DEF IsAssessed
<1>4. \E charges : /\ charges = [i \in {0} \cup Installments |->
                                  IF i = 0 THEN fees ELSE Assess(charges[i - 1], i, day)]
                   /\ fees' = charges[Len(Schedule)]
  BY <1>3 DEF AssessFees
<1> QED BY <1>1, <1>4 DEF IsAssessed

Charge(i) == [installment |-> i, amount |-> Schedule[i].late_fee, amount_paid |-> 0,
              amount_written_off |-> 0, status |-> "assessed"]

\* At most one of the charges of an installment is not waived.
OneLive(charges) ==
  \A k, m \in DOMAIN charges :
    (/\ charges[k].installment = charges[m].installment
     /\ NotWaived(charges[k]) /\ NotWaived(charges[m])) => k = m

CapKept(charges) == MaxFees > 0 => FeeTotal(charges) <= MaxFees

\* A row that the job has added while it went through the first n installments.
IsNew(c, n, day) ==
  /\ c.installment \in 1..n /\ c.installment \in PastDue(day)
  /\ LiveOf(fees, c.installment) = {}
  /\ c.amount_paid = 0 /\ c.amount_written_off = 0 /\ c.status = "assessed"

Grown(charges, n, day) ==
  /\ charges \in Seq(FeeRow)
  /\ Len(fees) <= Len(charges)
  /\ \A k \in DOMAIN fees : charges[k] = fees[k]
  /\ \A k \in DOMAIN charges : k > Len(fees) => IsNew(charges[k], n, day)

LEMMA ChargeMeaning ==
  ASSUME NEW i \in Installments
  PROVE  /\ Charge(i) \in FeeRow
         /\ Charge(i).installment = i /\ Charge(i).amount = Schedule[i].late_fee
         /\ Charge(i).amount_paid = 0 /\ Charge(i).amount_written_off = 0
         /\ Charge(i).status = "assessed"
BY ScheduleMeaning DEF Charge, FeeRow, FeeStatus

FeeTerm(c) == IF NotWaived(c) THEN c.amount ELSE 0

\* A charge more adds its amount to the total.
LEMMA FeeTotalNext ==
  ASSUME NEW charges \in Seq(FeeRow), NEW c \in FeeRow, NotWaived(c)
  PROVE  FeeTotal(Append(charges, c)) = FeeTotal(charges) + c.amount
<1>1. PICK m \in Nat : charges \in [1..m -> FeeRow] /\ DOMAIN charges = 1..m /\ Len(charges) = m
  BY SequenceIsFunction
<1>2. PICK d \in Seq(FeeRow) : d = Append(charges, c)
  BY Appended
<1>3. Len(d) = m + 1 /\ DOMAIN d = 1..(m + 1) /\ d[m + 1] = c /\ \A k \in 1..m : d[k] = charges[k]
  BY <1>1, <1>2, Appended
<1>4. \A k \in 1..m : FeeTerm(charges[k]) \in Int
  BY <1>1, FeeRowMeaning DEF FeeTerm
<1>5. \A k \in 1..(m + 1) : FeeTerm(d[k]) \in Int
  BY <1>3, SequenceElement, FeeRowMeaning DEF FeeTerm
<1>6. PICK f \in [1..m -> Int] : f = [k \in 1..m |-> FeeTerm(charges[k])]
  BY <1>4
<1>7. PICK g \in [1..(m + 1) -> Int] : g = [k \in 1..(m + 1) |-> FeeTerm(d[k])]
  BY <1>5
<1>8. \A k \in 1..m : g[k] = f[k]
  BY <1>3, <1>6, <1>7
<1>9. SumFunction(g) = SumFunction(f) + g[m + 1]
  BY <1>8, SumGrows
<1>10. g[m + 1] = c.amount
  BY <1>3, <1>7 DEF FeeTerm
<1>11. FeeTotal(charges) = SumFunction(f) /\ FeeTotal(d) = SumFunction(g)
  BY <1>1, <1>3, <1>6, <1>7 DEF FeeTotal, FeeTerm
<1> QED BY <1>2, <1>9, <1>10, <1>11

\* One turn of the loop keeps what was charged, adds a row only for an installment
\* without a live charge, and stays within the cap.
LEMMA AssessStep ==
  ASSUME fees \in Seq(FeeRow), NEW day, NEW n \in Nat, n + 1 \in Installments,
         NEW charges, Grown(charges, n, day)
  PROVE  /\ Grown(Assess(charges, n + 1, day), n + 1, day)
         /\ OneLive(charges) => OneLive(Assess(charges, n + 1, day))
         /\ CapKept(charges) => CapKept(Assess(charges, n + 1, day))
<1> DEFINE i == n + 1
<1>0. charges \in Seq(FeeRow)
  BY DEF Grown
<1>1. \A c : IsNew(c, n, day) => IsNew(c, i, day)
  BY DEF IsNew
<1>2. CASE Assess(charges, i, day) = charges
  BY <1>1, <1>2 DEF Grown
<1>3. CASE Assess(charges, i, day) # charges
  <2>1. i \in PastDue(day) /\ Chargeable(i, day) /\ WithinCap(charges, Schedule[i].late_fee)
    BY <1>3 DEF Assess
  <2>2. Assess(charges, i, day) = Append(charges, Charge(i))
    BY <2>1 DEF Assess, Charge
  <2>3. PICK c \in FeeRow : /\ c = Charge(i) /\ c.installment = i
                            /\ c.amount = Schedule[i].late_fee
                            /\ c.amount_paid = 0 /\ c.amount_written_off = 0
                            /\ c.status = "assessed"
    BY ChargeMeaning
  <2>4. PICK m \in Nat : m = Len(charges) /\ DOMAIN charges = 1..m
    BY <1>0
  <2>5. PICK d \in Seq(FeeRow) : d = Append(charges, c)
    BY <1>0, Appended
  <2>6. /\ Len(d) = m + 1 /\ DOMAIN d = 1..(m + 1) /\ d[m + 1] = c
        /\ \A k \in 1..m : d[k] = charges[k]
    BY <1>0, <2>4, <2>5, Appended
  <2>7. IsNew(c, i, day)
    BY <2>1, <2>3 DEF IsNew, Chargeable
  <2>8. PICK f \in Nat : f = Len(fees) /\ DOMAIN fees = 1..f
    BY SequenceIsFunction
  <2>9. /\ f <= m /\ \A k \in 1..f : charges[k] = fees[k]
        /\ \A k \in 1..m : k > f => IsNew(charges[k], n, day)
    BY <2>4, <2>8 DEF Grown
  <2>10. ASSUME NEW k \in 1..(m + 1) PROVE k > f => IsNew(d[k], i, day)
    <3>1. CASE k = m + 1
      BY <2>6, <2>7, <3>1
    <3>2. CASE k \in 1..m
      BY <1>1, <2>6, <2>9, <3>2
    <3> QED BY <3>1, <3>2
  <2>11. Grown(d, i, day)
    BY <2>6, <2>8, <2>9, <2>10 DEF Grown
  <2>12. ASSUME NEW k \in 1..m, charges[k].installment = i, NotWaived(charges[k])
         PROVE  FALSE
    <3>1. CASE k <= f
      <4>1. k \in LiveOf(fees, i)
        BY <2>8, <2>9, <2>12, <3>1 DEF LiveOf, Live
      <4> QED BY <2>1, <4>1 DEF Chargeable
    <3>2. CASE k > f
      <4>1. charges[k].installment \in 1..n
        BY <2>9, <3>2 DEF IsNew
      <4> QED BY <2>12, <4>1
    <3> QED BY <2>8, <3>1, <3>2
  <2>13. OneLive(charges) => OneLive(d)
    <3> SUFFICES ASSUME OneLive(charges), NEW k \in 1..(m + 1), NEW l \in 1..(m + 1),
                        d[k].installment = d[l].installment,
                        NotWaived(d[k]), NotWaived(d[l]), k # l
                 PROVE  FALSE
      BY <2>6 DEF OneLive
    <3>1. CASE k = m + 1
      BY <2>3, <2>6, <2>12, <3>1
    <3>2. CASE l = m + 1
      BY <2>3, <2>6, <2>12, <3>2
    <3>3. CASE k \in 1..m /\ l \in 1..m
      BY <2>4, <2>6, <3>3 DEF OneLive
    <3> QED BY <3>1, <3>2, <3>3
  <2>14. CapKept(charges) => CapKept(d)
    <3>1. NotWaived(c)
      BY <2>3 DEF NotWaived
    <3>2. FeeTotal(d) = FeeTotal(charges) + c.amount
      BY <1>0, <2>5, <3>1, FeeTotalNext
    <3>3. MaxFees = 0 \/ FeeTotal(charges) + Schedule[i].late_fee <= MaxFees
      BY <2>1 DEF WithinCap
    <3> QED BY <2>3, <3>2, <3>3 DEF CapKept
  <2> QED BY <2>2, <2>3, <2>5, <2>11, <2>13, <2>14
<1> QED BY <1>2, <1>3

\* What the job leaves of the charges: all that were there, and new ones.
LEMMA AssessFeesMeaning ==
  ASSUME fees \in Seq(FeeRow), NEW day, AssessFees(day)
  PROVE  /\ Grown(fees', Len(Schedule), day)
         /\ OneLive(fees) => OneLive(fees')
         /\ CapKept(fees) => CapKept(fees')
<1>1. PICK m \in Nat : m = Len(Schedule) /\ Installments = 1..m
  BY InstallmentsAreNumbered
<1>2. PICK c : IsAssessed(c, m, day) /\ fees' = c[m]
  BY <1>1, AssessFeesIsThis
<1> DEFINE P(d, k) == /\ Grown(d, k, day)
                      /\ OneLive(fees) => OneLive(d)
                      /\ CapKept(fees) => CapKept(d)
           T == {k \in Nat : k <= m => P(c[k], k)}
<1>3. 0 \in T
  <2>1. c[0] = fees
    BY <1>2 DEF IsAssessed
  <2>2. Grown(fees, 0, day)
    BY SequenceIsFunction DEF Grown
  <2> QED BY <2>1, <2>2
<1>4. ASSUME NEW k \in Nat, k \in T PROVE k + 1 \in T
  <2> SUFFICES ASSUME k + 1 <= m PROVE P(c[k + 1], k + 1)
    OBVIOUS
  <2>1. k + 1 \in {0} \cup 1..m /\ k + 1 # 0 /\ (k + 1) - 1 = k /\ k + 1 \in Installments
    BY <1>1
  <2>2. c[k + 1] = Assess(c[k], k + 1, day)
    BY <1>2, <2>1 DEF IsAssessed
  <2>3. PICK d : d = c[k] /\ P(d, k)
    BY <1>4
  <2>4. P(Assess(d, k + 1, day), k + 1)
    BY <2>1, <2>3, AssessStep
  <2> HIDE DEF P
  <2> QED BY <2>2, <2>3, <2>4
<1>5. Nat \subseteq T
  <2> HIDE DEF T
  <2> QED BY <1>3, <1>4, NatSetInduction
<1>6. P(c[m], m)
  BY <1>5
<1> QED BY <1>1, <1>2, <1>6

-------------------------------------------------------------------------------
\* Closing out and writing off.

\* Closing out pays every installment in full.
LEMMA CloseOutMeaning ==
  ASSUME inst \in [Installments -> InstRow], CloseOutSchedule
  PROVE  /\ inst' \in [Installments -> InstRow]
         /\ \A i \in Installments :
              /\ SameWorth(inst[i], inst'[i])
              /\ inst'[i].principal_paid = inst[i].principal
              /\ inst'[i].profit_paid = inst[i].profit
              /\ inst'[i].status = "paid"
         /\ CloseOutFees /\ unearned' = 0
<1>1. ASSUME NEW i \in Installments
      PROVE  /\ inst'[i] \in InstRow
             /\ SameWorth(inst[i], inst'[i])
             /\ inst'[i].principal_paid = inst[i].principal
             /\ inst'[i].profit_paid = inst[i].profit
             /\ inst'[i].status = "paid"
  <2>1. PICK x \in InstRow : x = inst[i]
    OBVIOUS
  <2>2. inst'[i] = [x EXCEPT !.principal_paid = x.principal, !.profit_paid = x.profit,
                             !.status = "paid"]
    BY <2>1 DEF CloseOutSchedule
  <2> QED BY <2>1, <2>2 DEF InstRow, InstStatus, SameWorth
<1>2. inst' = [i \in Installments |-> inst'[i]] /\ CloseOutFees /\ unearned' = 0
  BY DEF CloseOutSchedule
<1>3. inst' \in [Installments -> InstRow]
  BY <1>1, <1>2
<1> QED BY <1>1, <1>2, <1>3

\* What writing off leaves of an installment's row.
SweptRow(x, a, b) == [x EXCEPT !.principal_written_off = @ + a, !.profit_written_off = @ + b]

SamePaid(x, y) == /\ y.principal = x.principal /\ y.profit = x.profit
                  /\ y.principal_paid = x.principal_paid /\ y.profit_paid = x.profit_paid

LEMMA SweptRowMeaning ==
  ASSUME NEW x \in InstRow, NEW a \in Nat, NEW b \in Nat, NEW s \in InstStatus
  PROVE  /\ WithStatus(SweptRow(x, a, b), s) \in InstRow
         /\ SweptRow(x, a, b) = WithStatus(SweptRow(x, a, b), x.status)
         /\ SamePaid(x, WithStatus(SweptRow(x, a, b), s))
         /\ WithStatus(SweptRow(x, a, b), s).status = s
         /\ WithStatus(SweptRow(x, a, b), s).principal_written_off
              = x.principal_written_off + a
         /\ WithStatus(SweptRow(x, a, b), s).profit_written_off = x.profit_written_off + b
<1>1. x.principal_written_off + a \in Nat /\ x.profit_written_off + b \in Nat
  BY InstRowMeaning
<1>2. PICK p \in Nat, q \in Nat :
        p = x.principal_written_off + a /\ q = x.profit_written_off + b
  BY <1>1
<1>3. SweptRow(x, a, b) = [x EXCEPT !.principal_written_off = p, !.profit_written_off = q]
  BY <1>2 DEF SweptRow
<1> DEFINE y == [x EXCEPT !.principal_written_off = p, !.profit_written_off = q]
<1>4. y \in InstRow /\ y.status = x.status
  BY DEF InstRow
<1>5. y = WithStatus(y, y.status)
  <2>1. y = [principal |-> y.principal, profit |-> y.profit,
             principal_paid |-> y.principal_paid, profit_paid |-> y.profit_paid,
             principal_written_off |-> y.principal_written_off,
             profit_written_off |-> y.profit_written_off, status |-> y.status]
    <3> HIDE DEF y
    <3> QED BY <1>4 DEF InstRow
  <2> HIDE DEF y
  <2> QED BY <2>1 DEF WithStatus
<1>6. /\ WithStatus(y, s) \in InstRow
      /\ WithStatus(y, s).principal = y.principal /\ WithStatus(y, s).profit = y.profit
      /\ WithStatus(y, s).principal_written_off = y.principal_written_off
      /\ WithStatus(y, s).profit_written_off = y.profit_written_off
      /\ WithStatus(y, s).principal_paid = y.principal_paid
      /\ WithStatus(y, s).profit_paid = y.profit_paid
      /\ WithStatus(y, s).status = s
  <2> HIDE DEF y
  <2> QED BY <1>4, WithStatusMeaning DEF SameWorth
<1>7. SamePaid(x, y) /\ y.principal_written_off = p /\ y.profit_written_off = q
  BY DEF SamePaid, InstRow
<1>8. SamePaid(x, WithStatus(y, s))
  <2> HIDE DEF y
  <2> QED BY <1>6, <1>7 DEF SamePaid
<1>9. SweptRow(x, a, b) = y
  BY <1>3
<1> HIDE DEF y
<1> QED BY <1>2, <1>4, <1>5, <1>6, <1>7, <1>8, <1>9

\* Writing off takes from each installment at most what it owes, and, when no more
\* is asked than all of them owe, what is asked in all.
LEMMA SweepInstallmentsMeaning ==
  ASSUME inst \in [Installments -> InstRow], Receivable \in [Installments -> AmountRow],
         NEW ask \in AmountRow, SweepInstallments(ask)
  PROVE  \E p \in [Installments -> Nat], q \in [Installments -> Nat] :
           /\ inst' \in [Installments -> InstRow]
           /\ \A i \in Installments :
                /\ p[i] <= Receivable[i].principal /\ q[i] <= Receivable[i].profit
                /\ SamePaid(inst[i], inst'[i])
                /\ inst'[i].principal_written_off = inst[i].principal_written_off + p[i]
                /\ inst'[i].profit_written_off = inst[i].profit_written_off + q[i]
                /\ inst'[i].status \in {inst[i].status, "written_off"}
           /\ ask.principal <= Column(Receivable, "principal") =>
                SumFunction(p) = ask.principal
           /\ ask.profit <= Column(Receivable, "profit") => SumFunction(q) = ask.profit
<1>1. PICK m \in Nat : m = Len(Schedule) /\ Installments = 1..m
  BY InstallmentsAreNumbered
<1>2. PICK a \in Nat, b \in Nat : a = ask.principal /\ b = ask.profit
  BY AmountRowMeaning
<1>3. \A i \in Installments : Receivable[i].principal \in Nat /\ Receivable[i].profit \in Nat
  BY AmountRowMeaning
<1>4. PICK u \in [1..m -> Nat], v \in [1..m -> Nat] :
        /\ u = [i \in Installments |-> Receivable[i].principal]
        /\ v = [i \in Installments |-> Receivable[i].profit]
  BY <1>1, <1>3
<1>5. PICK p \in [1..m -> Nat], q \in [1..m -> Nat] : p = Spread(a, u) /\ q = Spread(b, v)
  BY SpreadMeaning
<1>6. \A i \in 1..m : p[i] \in 0..u[i] /\ q[i] \in 0..v[i]
  BY <1>5, SpreadBounds
<1>7. /\ a <= SumFunctionOnSet(u, 1..m) => SumFunctionOnSet(p, 1..m) = a
      /\ b <= SumFunctionOnSet(v, 1..m) => SumFunctionOnSet(q, 1..m) = b
  BY <1>5, SpreadAll
<1>8. /\ Column(Receivable, "principal") = SumFunctionOnSet(u, 1..m)
      /\ Column(Receivable, "profit") = SumFunctionOnSet(v, 1..m)
      /\ SumFunction(p) = SumFunctionOnSet(p, 1..m)
      /\ SumFunction(q) = SumFunctionOnSet(q, 1..m)
  BY <1>1, <1>4 DEF Column, SumFunction
<1>9. ASSUME NEW i \in Installments
      PROVE  /\ inst'[i] \in InstRow
             /\ SamePaid(inst[i], inst'[i])
             /\ inst'[i].principal_written_off = inst[i].principal_written_off + p[i]
             /\ inst'[i].profit_written_off = inst[i].profit_written_off + q[i]
             /\ inst'[i].status \in {inst[i].status, "written_off"}
  <2>1. PICK x \in InstRow : x = inst[i]
    OBVIOUS
  <2>2. PICK c \in Nat, d \in Nat : c = p[i] /\ d = q[i]
    BY <1>1
  <2>3. inst'[i] = IF c + d > 0 /\ is_fully_paid(SweptRow(x, c, d))
                   THEN WithStatus(SweptRow(x, c, d), "written_off") ELSE SweptRow(x, c, d)
    BY <1>2, <1>4, <1>5, <2>1, <2>2 DEF SweepInstallments, SweptRow, WithStatus
  <2>4. PICK s \in InstStatus :
          /\ s \in {x.status, "written_off"}
          /\ inst'[i] = WithStatus(SweptRow(x, c, d), s)
    <3>1. x.status \in InstStatus /\ "written_off" \in InstStatus
      BY InstRowMeaning DEF InstStatus
    <3>2. SweptRow(x, c, d) = WithStatus(SweptRow(x, c, d), x.status)
      BY <3>1, SweptRowMeaning
    <3> QED BY <2>3, <3>1, <3>2
  <2>5. /\ WithStatus(SweptRow(x, c, d), s) \in InstRow
        /\ SamePaid(x, WithStatus(SweptRow(x, c, d), s))
        /\ WithStatus(SweptRow(x, c, d), s).status = s
        /\ WithStatus(SweptRow(x, c, d), s).principal_written_off
             = x.principal_written_off + c
        /\ WithStatus(SweptRow(x, c, d), s).profit_written_off = x.profit_written_off + d
    BY SweptRowMeaning
  <2> QED BY <2>1, <2>2, <2>4, <2>5
<1>10. inst' = [i \in Installments |-> inst'[i]]
  BY DEF SweepInstallments
<1>11. inst' \in [Installments -> InstRow]
  BY <1>9, <1>10
<1>12. \A i \in Installments : p[i] <= Receivable[i].principal /\ q[i] <= Receivable[i].profit
  <2> SUFFICES ASSUME NEW i \in 1..m
               PROVE  p[i] <= Receivable[i].principal /\ q[i] <= Receivable[i].profit
    BY <1>1
  <2>1. u[i] = Receivable[i].principal /\ v[i] = Receivable[i].profit
    BY <1>1, <1>4
  <2> QED BY <1>6, <2>1
<1>13. /\ ask.principal <= Column(Receivable, "principal") => SumFunction(p) = ask.principal
       /\ ask.profit <= Column(Receivable, "profit") => SumFunction(q) = ask.profit
  BY <1>2, <1>7, <1>8
<1>14. p \in [Installments -> Nat] /\ q \in [Installments -> Nat]
  BY <1>1
<1> QED BY <1>9, <1>11, <1>12, <1>13, <1>14, Zenon

\* The same for the late fees.
FeesOwed == SumFunction([k \in DOMAIN fees |-> fee_outstanding(fees[k])])

LEMMA FeeOutstandingMeaning ==
  ASSUME NEW c \in FeeRow, c.amount_paid + c.amount_written_off <= c.amount
  PROVE  /\ fee_outstanding(c) \in Nat
         /\ fee_outstanding(c) <= c.amount - c.amount_paid - c.amount_written_off
         /\ NotWaived(c) =>
              fee_outstanding(c) = c.amount - c.amount_paid - c.amount_written_off
         /\ ~NotWaived(c) => fee_outstanding(c) = 0
<1>1. c.amount \in Nat /\ c.amount_paid \in Nat /\ c.amount_written_off \in Nat
  BY FeeRowMeaning
<1>2. c.amount - c.amount_paid - c.amount_written_off \in Nat
  BY <1>1
<1> QED BY <1>2 DEF fee_outstanding, NotWaived

LEMMA SweepFeesMeaning ==
  ASSUME fees \in Seq(FeeRow),
         \A k \in DOMAIN fees :
           fees[k].amount_paid + fees[k].amount_written_off <= fees[k].amount,
         NEW ask \in AmountRow, SweepFees(ask)
  PROVE  \E p \in [DOMAIN fees -> Nat] :
           /\ fees' \in Seq(FeeRow) /\ DOMAIN fees' = DOMAIN fees
           /\ \A k \in DOMAIN fees :
                /\ p[k] <= fee_outstanding(fees[k])
                /\ fees'[k].installment = fees[k].installment
                /\ fees'[k].amount = fees[k].amount
                /\ fees'[k].amount_paid = fees[k].amount_paid
                /\ fees'[k].amount_written_off = fees[k].amount_written_off + p[k]
                /\ NotWaived(fees'[k]) <=> NotWaived(fees[k])
           /\ ask.late_fee <= FeesOwed => SumFunction(p) = ask.late_fee
<1>1. PICK m \in Nat : fees \in [1..m -> FeeRow] /\ DOMAIN fees = 1..m
  BY SequenceIsFunction
<1>2. PICK a \in Nat : a = ask.late_fee
  BY AmountRowMeaning
<1>3. \A k \in 1..m : fee_outstanding(fees[k]) \in Nat
  BY <1>1, FeeOutstandingMeaning
<1>4. PICK owed \in [1..m -> Nat] : owed = [k \in DOMAIN fees |-> fee_outstanding(fees[k])]
  BY <1>1, <1>3
<1>5. PICK p \in [1..m -> Nat] : p = Spread(a, owed)
  BY SpreadMeaning
<1>6. \A k \in 1..m : p[k] \in 0..owed[k]
  BY <1>5, SpreadBounds
<1>7. a <= SumFunctionOnSet(owed, 1..m) => SumFunctionOnSet(p, 1..m) = a
  BY <1>5, SpreadAll
<1>8. FeesOwed = SumFunctionOnSet(owed, 1..m) /\ SumFunction(p) = SumFunctionOnSet(p, 1..m)
  BY <1>1, <1>4 DEF FeesOwed, SumFunction
<1>9. ASSUME NEW k \in 1..m
      PROVE  /\ fees'[k] \in FeeRow
             /\ p[k] <= fee_outstanding(fees[k])
             /\ fees'[k].installment = fees[k].installment
             /\ fees'[k].amount = fees[k].amount
             /\ fees'[k].amount_paid = fees[k].amount_paid
             /\ fees'[k].amount_written_off = fees[k].amount_written_off + p[k]
             /\ NotWaived(fees'[k]) <=> NotWaived(fees[k])
  <2>1. PICK c \in FeeRow : c = fees[k]
    BY <1>1
  <2>2. PICK x \in Nat : x = p[k]
    BY <1>1
  <2>3. PICK o \in Nat : o = owed[k] /\ o = fee_outstanding(c) /\ x <= o
    BY <1>1, <1>4, <1>6, <2>1, <2>2
  <2>4. PICK w \in Nat : w = c.amount_written_off + x
    BY FeeRowMeaning
  <2>5. PICK s \in FeeStatus : s = IF x > 0 /\ x = o THEN "written_off" ELSE c.status
    BY FeeRowMeaning DEF FeeStatus
  <2>6. fees'[k] = [c EXCEPT !.amount_written_off = w, !.status = s]
    BY <1>1, <1>2, <1>4, <1>5, <2>1, <2>2, <2>3, <2>4, <2>5 DEF SweepFees
  <2>7. c.status = "waived" => o = 0
    BY <2>3 DEF fee_outstanding
  <2>8. s = "waived" <=> c.status = "waived"
    BY <2>3, <2>5, <2>7
  <2>9. /\ fees'[k] \in FeeRow /\ fees'[k].status = s
        /\ fees'[k].installment = c.installment /\ fees'[k].amount = c.amount
        /\ fees'[k].amount_paid = c.amount_paid /\ fees'[k].amount_written_off = w
    BY <2>6 DEF FeeRow
  <2> QED BY <2>1, <2>2, <2>3, <2>4, <2>8, <2>9 DEF NotWaived
<1>10. fees' = [k \in 1..m |-> fees'[k]]
  BY <1>1 DEF SweepFees
<1>11. fees' \in [1..m -> FeeRow]
  BY <1>9, <1>10
<1>12. fees' \in Seq(FeeRow) /\ DOMAIN fees' = 1..m
  BY <1>11, FunctionIsSequence
<1>13. ask.late_fee <= FeesOwed => SumFunction(p) = ask.late_fee
  BY <1>2, <1>7, <1>8
<1> QED BY <1>1, <1>9, <1>12, <1>13, Zenon

\* What the late fees of each installment owe adds up to what the charges owe.
FeesBounded == \A k \in DOMAIN fees :
                 fees[k].amount_paid + fees[k].amount_written_off <= fees[k].amount

LEMMA LateFeesByInstallment ==
  ASSUME fees \in Seq(FeeRow), FeesBounded
  PROVE  /\ \A i \in Installments : late_fee_outstanding(i) \in Nat
         /\ SumFunction([i \in Installments |-> late_fee_outstanding(i)]) = FeesOwed
<1>1. PICK m \in Nat : m = Len(Schedule) /\ Installments = 1..m
  BY InstallmentsAreNumbered
<1>2. PICK n \in Nat : fees \in [1..n -> FeeRow] /\ DOMAIN fees = 1..n
  BY SequenceIsFunction
<1>3. \A k \in 1..n : fee_outstanding(fees[k]) \in Nat /\ fees[k].installment \in 1..m
  BY <1>1, <1>2, FeeOutstandingMeaning, FeeRowMeaning DEF FeesBounded
<1>4. PICK f \in [1..n -> Nat] : f = [k \in DOMAIN fees |-> fee_outstanding(fees[k])]
  BY <1>2, <1>3
<1>5. PICK key \in [1..n -> 1..m] : key = [k \in 1..n |-> fees[k].installment]
  BY <1>3
<1>6. ASSUME NEW i \in Installments
      PROVE  /\ late_fee_outstanding(i) = SumFunctionOnSet(OfKey(f, key, i), 1..n)
             /\ late_fee_outstanding(i) \in Nat
  <2>1. PICK h \in [1..n -> Nat] :
          h = [k \in DOMAIN fees |-> IF fees[k].installment = i THEN fee_outstanding(fees[k])
                                                                ELSE 0]
    BY <1>2, <1>3
  <2>2. h = OfKey(f, key, i)
    BY <1>2, <1>4, <1>5, <2>1 DEF OfKey
  <2>3. late_fee_outstanding(i) = SumFunctionOnSet(h, 1..n)
    BY <1>2, <2>1 DEF late_fee_outstanding, SumFunction
  <2>4. SumFunctionOnSet(h, 1..n) \in Nat
    BY UpToIsFinite, SumNat
  <2> QED BY <2>2, <2>3, <2>4
<1>7. PICK g \in [1..m -> Nat] : g = [i \in Installments |-> late_fee_outstanding(i)]
  BY <1>1, <1>6
<1>8. SumsByKey(g, f, key, m, n)
  BY <1>1, <1>6, <1>7 DEF SumsByKey
<1>9. SumFunctionOnSet(g, 1..m) = SumFunctionOnSet(f, 1..n)
  BY <1>8, SumByKey
<1>10. /\ SumFunction([i \in Installments |-> late_fee_outstanding(i)])
            = SumFunctionOnSet(g, 1..m)
       /\ FeesOwed = SumFunctionOnSet(f, 1..n)
  BY <1>2, <1>4, <1>7 DEF FeesOwed, SumFunction
<1> QED BY <1>6, <1>9, <1>10

\* An installment with a live charge owes what that charge owes.
LEMMA LateFeeOfLive ==
  ASSUME fees \in Seq(FeeRow), FeesBounded, OneLive(fees),
         NEW k \in DOMAIN fees, NotWaived(fees[k])
  PROVE  late_fee_outstanding(fees[k].installment)
           = fees[k].amount - fees[k].amount_paid - fees[k].amount_written_off
<1>1. PICK n \in Nat : fees \in [1..n -> FeeRow] /\ DOMAIN fees = 1..n
  BY SequenceIsFunction
<1>2. PICK i \in Installments : i = fees[k].installment
  BY <1>1, FeeRowMeaning
<1>3. \A j \in 1..n : fee_outstanding(fees[j]) \in Nat
  BY <1>1, FeeOutstandingMeaning DEF FeesBounded
<1>4. PICK h \in [1..n -> Nat] :
        h = [j \in DOMAIN fees |-> IF fees[j].installment = i THEN fee_outstanding(fees[j])
                                                              ELSE 0]
  BY <1>1, <1>3
<1>5. late_fee_outstanding(i) = SumFunctionOnSet(h, 1..n)
  BY <1>1, <1>4 DEF late_fee_outstanding, SumFunction
<1>6. ASSUME NEW j \in (1..n) \ {k} PROVE h[j] = 0
  <2>1. CASE fees[j].installment = i
    <3>1. ~NotWaived(fees[j])
      BY <1>1, <1>2, <2>1 DEF OneLive
    <3>2. fee_outstanding(fees[j]) = 0
      BY <3>1 DEF fee_outstanding, NotWaived
    <3> QED BY <1>1, <1>4, <3>2
  <2>2. CASE fees[j].installment # i
    BY <1>1, <1>4, <2>2
  <2> QED BY <2>1, <2>2
<1>7. k \in 1..n /\ \A j \in 1..n : h[j] \in Int
  BY <1>1
<1>8. SumFunctionOnSet(h, 1..n) = h[k]
  BY <1>6, <1>7, UpToIsFinite, SumOnly
<1>9. h[k] = fee_outstanding(fees[k])
  BY <1>1, <1>2, <1>4
<1>10. fee_outstanding(fees[k])
         = fees[k].amount - fees[k].amount_paid - fees[k].amount_written_off
  BY <1>1, FeeOutstandingMeaning DEF FeesBounded
<1> QED BY <1>2, <1>5, <1>8, <1>9, <1>10

-------------------------------------------------------------------------------
\* The Payment rows.

\* later is rows with one more row p, which is the last.
OneMore(rows, p, later) ==
  /\ later \in Seq(PaymentRow) /\ DOMAIN later = 1..(Len(rows) + 1)
  /\ \A k \in 1..Len(rows) : later[k] = rows[k]
  /\ later[Len(rows) + 1] = p

\* later is rows with row n reversed, and the compensating row at the end.
SameMoney(p, q) == q.source = p.source /\ q.amount = p.amount /\ q.lines = p.lines
TakenBack(rows, n, later) ==
  /\ later \in Seq(PaymentRow) /\ DOMAIN later = 1..(Len(rows) + 1)
  /\ \A k \in 1..Len(rows) :
       /\ SameMoney(rows[k], later[k])
       /\ k # n => later[k] = rows[k]
  /\ later[n].status = "reversed"
  /\ SameMoney(rows[n], later[Len(rows) + 1]) /\ later[Len(rows) + 1].status = "reversed"

LEMMA PaymentRowMeaning ==
  ASSUME NEW p \in PaymentRow
  PROVE  /\ p.amount \in Nat /\ p.lines \in [Installments -> AmountRow]
         /\ p.status \in {"applied", "reversed"} /\ p.source \in {"staff", "gateway"}
BY DEF PaymentRow

LEMMA TakenBackMeaning ==
  ASSUME NEW rows \in Seq(PaymentRow), NEW n \in DOMAIN rows, rows[n].reference \in Asked
  PROVE  TakenBack(rows, n,
                   Append([rows EXCEPT ![n].status = "reversed"],
                          [rows[n] EXCEPT !.reference = <<@, "REV">>, !.status = "reversed"]))
<1>1. PICK m \in Nat : m = Len(rows) /\ rows \in [1..m -> PaymentRow] /\ DOMAIN rows = 1..m
  BY SequenceIsFunction
<1>2. PICK x \in PaymentRow : x = rows[n]
  BY <1>1
<1> DEFINE d == [x EXCEPT !.status = "reversed"]
           e == [x EXCEPT !.reference = <<@, "REV">>, !.status = "reversed"]
<1>3. d \in PaymentRow /\ SameMoney(x, d) /\ d.status = "reversed"
  BY DEF PaymentRow, SameMoney
<1>4. e \in PaymentRow /\ SameMoney(x, e) /\ e.status = "reversed"
  <2>1. PICK r : r = <<x.reference, "REV">>
    OBVIOUS
  <2>2. r \in {<<a, "REV">> : a \in Asked}
    BY <1>2, <2>1
  <2>3. r \in Asked \cup {<<a, "REV">> : a \in Asked}
    BY <2>2
  <2>4. e = [x EXCEPT !.reference = r, !.status = "reversed"]
    BY <2>1
  <2> HIDE DEF e
  <2> QED BY <2>3, <2>4 DEF PaymentRow, SameMoney
<1>5. [rows EXCEPT ![n].status = "reversed"] = [rows EXCEPT ![n] = d]
  BY <1>1, <1>2
<1>6. [rows[n] EXCEPT !.reference = <<@, "REV">>, !.status = "reversed"] = e
  BY <1>2
<1> HIDE DEF d, e
<1>7. PICK s \in [1..m -> PaymentRow] : s = [rows EXCEPT ![n] = d]
  BY <1>1, <1>3
<1>8. /\ s[n] = d
      /\ \A k \in 1..m : k # n => s[k] = rows[k]
  BY <1>1, <1>7
<1>9. s \in Seq(PaymentRow) /\ Len(s) = m
  BY <1>7, FunctionIsSequence
<1>10. PICK l \in Seq(PaymentRow) : l = Append(s, e)
  BY <1>4, <1>9, Appended
<1>11. /\ Len(l) = m + 1 /\ l[m + 1] = e /\ DOMAIN l = 1..(m + 1)
       /\ \A k \in 1..m : l[k] = s[k]
  BY <1>4, <1>9, <1>10, Appended
<1>12. \A k \in 1..m : SameMoney(rows[k], l[k]) /\ (k # n => l[k] = rows[k])
  BY <1>2, <1>3, <1>8, <1>11 DEF SameMoney
<1>13. l[n].status = "reversed" /\ SameMoney(rows[n], l[m + 1]) /\ l[m + 1].status = "reversed"
  BY <1>1, <1>2, <1>3, <1>4, <1>8, <1>11
<1>14. TakenBack(rows, n, l)
  BY <1>1, <1>11, <1>12, <1>13 DEF TakenBack
<1>15. l = Append([rows EXCEPT ![n].status = "reversed"],
                  [rows[n] EXCEPT !.reference = <<@, "REV">>, !.status = "reversed"])
  BY <1>5, <1>6, <1>7, <1>10, Zenon
<1> QED BY <1>14, <1>15, Zenon

LEMMA OneMoreMeaning ==
  ASSUME NEW rows \in Seq(PaymentRow), NEW p \in PaymentRow
  PROVE  OneMore(rows, p, Append(rows, p))
<1>1. PICK later \in Seq(PaymentRow) : later = Append(rows, p)
  BY Appended
<1>2. /\ Len(later) = Len(rows) + 1 /\ later[Len(rows) + 1] = p
      /\ \A k \in 1..Len(rows) : later[k] = rows[k]
  BY <1>1, Appended
<1>3. DOMAIN later = 1..(Len(rows) + 1)
  BY <1>2
<1> QED BY <1>1, <1>2, <1>3 DEF OneMore

\* The sum of the terms t of the rows whose money was not taken back.
IfApplied(p, x) == IF p.status = "applied" THEN x ELSE 0
Applied(rows, t) == SumFunction([n \in DOMAIN rows |-> IfApplied(rows[n], t[n])])

\* Terms u continue terms t.
Continues(rows, t, u) ==
  /\ t \in [1..Len(rows) -> Int] /\ u \in [1..(Len(rows) + 1) -> Int]
  /\ \A k \in 1..Len(rows) : u[k] = t[k]

LEMMA AppliedMore ==
  ASSUME NEW rows \in Seq(PaymentRow), NEW p, NEW later, OneMore(rows, p, later),
         p.status = "applied", NEW t, NEW u, Continues(rows, t, u)
  PROVE  Applied(later, u) = Applied(rows, t) + u[Len(rows) + 1]
<1>1. PICK m \in Nat : m = Len(rows) /\ DOMAIN rows = 1..m
  BY SequenceIsFunction
<1>2. /\ \A k \in 1..m : t[k] \in Int /\ u[k] = t[k]
      /\ \A k \in 1..(m + 1) : u[k] \in Int
      /\ \A x \in Int : \A p1 : IfApplied(p1, x) \in Int
  <2>1. \A k \in 1..m : t[k] \in Int /\ u[k] = t[k]
    BY <1>1 DEF Continues
  <2>2. \A k \in 1..(m + 1) : u[k] \in Int
    BY <1>1 DEF Continues
  <2>3. \A x \in Int : \A p1 : IfApplied(p1, x) \in Int
    BY DEF IfApplied
  <2> QED BY <2>1, <2>2, <2>3
<1>3. /\ DOMAIN later = 1..(m + 1) /\ later[m + 1] = p /\ \A k \in 1..m : later[k] = rows[k]
  BY <1>1 DEF OneMore
<1>4. PICK f \in [1..m -> Int] :
        f = [n \in DOMAIN rows |-> IfApplied(rows[n], t[n])]
  BY <1>1, <1>2
<1>5. PICK g \in [1..(m + 1) -> Int] :
        g = [n \in DOMAIN later |-> IfApplied(later[n], u[n])]
  BY <1>2, <1>3
<1>6. \A k \in 1..m : g[k] = f[k]
  BY <1>1, <1>2, <1>3, <1>4, <1>5 DEF IfApplied
<1>7. SumFunction(g) = SumFunction(f) + g[m + 1]
  BY <1>6, SumGrows
<1>8. g[m + 1] = u[m + 1]
  BY <1>3, <1>5 DEF IfApplied
<1> QED BY <1>1, <1>4, <1>5, <1>7, <1>8 DEF Applied

LEMMA AppliedLess ==
  ASSUME NEW rows \in Seq(PaymentRow), NEW n \in DOMAIN rows, rows[n].status = "applied",
         NEW later, TakenBack(rows, n, later), NEW t, NEW u, Continues(rows, t, u)
  PROVE  Applied(later, u) = Applied(rows, t) - t[n]
<1>1. PICK m \in Nat : m = Len(rows) /\ DOMAIN rows = 1..m
  BY SequenceIsFunction
<1>2. /\ \A k \in 1..m : t[k] \in Int /\ u[k] = t[k]
      /\ \A k \in 1..(m + 1) : u[k] \in Int
      /\ \A x \in Int : \A p1 : IfApplied(p1, x) \in Int
  <2>1. \A k \in 1..m : t[k] \in Int /\ u[k] = t[k]
    BY <1>1 DEF Continues
  <2>2. \A k \in 1..(m + 1) : u[k] \in Int
    BY <1>1 DEF Continues
  <2>3. \A x \in Int : \A p1 : IfApplied(p1, x) \in Int
    BY DEF IfApplied
  <2> QED BY <2>1, <2>2, <2>3
<1>3. /\ DOMAIN later = 1..(m + 1) /\ later[m + 1].status = "reversed"
      /\ later[n].status = "reversed" /\ \A k \in 1..m : k # n => later[k] = rows[k]
  BY <1>1 DEF TakenBack
<1>4. PICK f \in [1..m -> Int] :
        f = [k \in DOMAIN rows |-> IfApplied(rows[k], t[k])]
  BY <1>1, <1>2
<1>5. PICK g \in [1..(m + 1) -> Int] :
        g = [k \in DOMAIN later |-> IfApplied(later[k], u[k])]
  BY <1>2, <1>3
<1>6. PICK h \in [1..m -> Int] : h = [k \in 1..m |-> g[k]]
  <2>1. \A k \in 1..m : g[k] \in Int
    OBVIOUS
  <2> QED BY <2>1
<1>7. SumFunction(g) = SumFunction(h) + g[m + 1]
  BY <1>6, SumGrows
<1>8. g[m + 1] = 0 /\ h[n] = 0 /\ f[n] = t[n]
  BY <1>1, <1>3, <1>4, <1>5, <1>6 DEF IfApplied
<1>9. \A k \in (1..m) \ {n} : f[k] = h[k]
  BY <1>1, <1>2, <1>3, <1>4, <1>5, <1>6 DEF IfApplied
<1>10. n \in 1..m /\ \A k \in 1..m : f[k] \in Int /\ h[k] \in Int
  BY <1>1
<1>11. SumFunctionOnSet(h, 1..m) = SumFunctionOnSet(f, 1..m) + h[n] - f[n]
  <2>1. PICK S : S = 1..m /\ IsFiniteSet(S)
    BY <1>1, UpToIsFinite
  <2>2. PICK x \in S : x = n
    BY <1>10, <2>1
  <2>3. /\ \A k \in S : f[k] \in Int /\ h[k] \in Int
        /\ \A k \in S \ {x} : f[k] = h[k]
    BY <1>9, <1>10, <2>1, <2>2
  <2>4. SumFunctionOnSet(h, S) = SumFunctionOnSet(f, S) + h[x] - f[x]
    BY <2>1, <2>3, SumChange, ZenonT(30)
  <2> QED BY <2>1, <2>2, <2>4
<1>12. SumFunction(h) = SumFunctionOnSet(h, 1..m) /\ SumFunction(f) = SumFunctionOnSet(f, 1..m)
  BY DEF SumFunction
<1>13. SumFunctionOnSet(f, 1..m) \in Int /\ t[n] \in Int
  BY <1>2, <1>10, UpToIsFinite, SumInt
<1>14. SumFunction(g) = SumFunction(f) - t[n]
  BY <1>7, <1>8, <1>11, <1>12, <1>13
<1> QED BY <1>4, <1>5, <1>14 DEF Applied

\* The amounts of the rows, and the lines they have for installment i.
AmountsOf(rows) == [n \in 1..Len(rows) |-> rows[n].amount]
PrincipalsOf(rows, i) == [n \in 1..Len(rows) |-> rows[n].lines[i].principal]
ProfitsOf(rows, i) == [n \in 1..Len(rows) |-> rows[n].lines[i].profit]

\* What was received and not taken back, and what installment i holds of it.
Received(rows) == Applied(rows, AmountsOf(rows))
HeldPrincipal(rows, i) == Applied(rows, PrincipalsOf(rows, i))
HeldProfit(rows, i) == Applied(rows, ProfitsOf(rows, i))

LEMMA RowLines ==
  ASSUME NEW rows \in Seq(PaymentRow)
  PROVE  /\ Len(rows) \in Nat /\ DOMAIN rows = 1..Len(rows)
         /\ \A k \in 1..Len(rows) :
              /\ rows[k].amount \in Nat
              /\ \A i \in Installments : /\ rows[k].lines[i].principal \in Nat
                                         /\ rows[k].lines[i].profit \in Nat
<1>1. PICK m \in Nat : m = Len(rows) /\ rows \in [1..m -> PaymentRow] /\ DOMAIN rows = 1..m
  BY SequenceIsFunction
<1>2. ASSUME NEW k \in 1..m
      PROVE  /\ rows[k].amount \in Nat
             /\ \A i \in Installments : /\ rows[k].lines[i].principal \in Nat
                                        /\ rows[k].lines[i].profit \in Nat
  <2>1. rows[k] \in PaymentRow
    BY <1>1
  <2>2. PICK y \in [Installments -> AmountRow] : y = rows[k].lines
    BY <2>1, PaymentRowMeaning
  <2>3. \A i \in Installments : y[i].principal \in Nat /\ y[i].profit \in Nat
    BY AmountRowMeaning
  <2> QED BY <2>1, <2>2, <2>3, PaymentRowMeaning
<1> QED BY <1>1, <1>2

LEMMA RowsContinue ==
  ASSUME NEW rows \in Seq(PaymentRow), NEW later \in Seq(PaymentRow),
         DOMAIN later = 1..(Len(rows) + 1),
         \A k \in 1..Len(rows) : SameMoney(rows[k], later[k])
  PROVE  /\ Continues(rows, AmountsOf(rows), AmountsOf(later))
         /\ \A i \in Installments :
              /\ Continues(rows, PrincipalsOf(rows, i), PrincipalsOf(later, i))
              /\ Continues(rows, ProfitsOf(rows, i), ProfitsOf(later, i))
<1>1. PICK m \in Nat : m = Len(rows) /\ DOMAIN rows = 1..m
  BY SequenceIsFunction
<1>2. Len(later) = m + 1
  BY <1>1, SequenceIsFunction
<1>3. /\ \A k \in 1..m : rows[k].amount \in Nat /\ later[k].amount = rows[k].amount
      /\ \A k \in 1..(m + 1) : later[k].amount \in Nat
  BY <1>1, <1>2, RowLines DEF SameMoney
<1>4. Continues(rows, AmountsOf(rows), AmountsOf(later))
  BY <1>1, <1>2, <1>3 DEF Continues, AmountsOf
<1>5. ASSUME NEW i \in Installments
      PROVE  /\ Continues(rows, PrincipalsOf(rows, i), PrincipalsOf(later, i))
             /\ Continues(rows, ProfitsOf(rows, i), ProfitsOf(later, i))
  <2>1. /\ \A k \in 1..m : /\ rows[k].lines[i].principal \in Nat
                           /\ rows[k].lines[i].profit \in Nat
                           /\ later[k].lines[i].principal = rows[k].lines[i].principal
                           /\ later[k].lines[i].profit = rows[k].lines[i].profit
        /\ \A k \in 1..(m + 1) : /\ later[k].lines[i].principal \in Nat
                                 /\ later[k].lines[i].profit \in Nat
    BY <1>1, <1>2, RowLines DEF SameMoney
  <2>2. PICK y, z : y = PrincipalsOf(rows, i) /\ z = PrincipalsOf(later, i)
    OBVIOUS
  <2>3. /\ y \in [1..m -> Int] /\ z \in [1..(m + 1) -> Int]
        /\ \A k \in 1..m : z[k] = y[k]
    BY <1>1, <1>2, <2>1, <2>2 DEF PrincipalsOf
  <2>4. PICK u, v : u = ProfitsOf(rows, i) /\ v = ProfitsOf(later, i)
    OBVIOUS
  <2>5. /\ u \in [1..m -> Int] /\ v \in [1..(m + 1) -> Int]
        /\ \A k \in 1..m : v[k] = u[k]
    BY <1>1, <1>2, <2>1, <2>4 DEF ProfitsOf
  <2> QED BY <1>1, <2>2, <2>3, <2>4, <2>5 DEF Continues
<1> QED BY <1>4, <1>5

LEMMA PaidMore ==
  ASSUME NEW rows \in Seq(PaymentRow), NEW p, NEW later, OneMore(rows, p, later),
         p.status = "applied"
  PROVE  /\ Received(later) = Received(rows) + p.amount
         /\ \A i \in Installments :
              /\ HeldPrincipal(later, i) = HeldPrincipal(rows, i) + p.lines[i].principal
              /\ HeldProfit(later, i) = HeldProfit(rows, i) + p.lines[i].profit
<1>1. PICK m \in Nat : m = Len(rows)
  BY SequenceIsFunction
<1>2. /\ later \in Seq(PaymentRow) /\ DOMAIN later = 1..(Len(rows) + 1)
      /\ later[Len(rows) + 1] = p /\ \A k \in 1..Len(rows) : SameMoney(rows[k], later[k])
  BY DEF OneMore, SameMoney
<1>3. /\ Continues(rows, AmountsOf(rows), AmountsOf(later))
      /\ \A i \in Installments :
           /\ Continues(rows, PrincipalsOf(rows, i), PrincipalsOf(later, i))
           /\ Continues(rows, ProfitsOf(rows, i), ProfitsOf(later, i))
  BY <1>2, RowsContinue
<1>4. Len(later) = m + 1 /\ m + 1 \in 1..(m + 1) /\ later[m + 1] = p
  BY <1>1, <1>2, SequenceIsFunction
<1>5. Received(later) = Received(rows) + p.amount
  <2>1. Received(later) = Received(rows) + AmountsOf(later)[Len(rows) + 1]
    BY <1>3, AppliedMore DEF Received
  <2>2. AmountsOf(later)[m + 1] = p.amount
    BY <1>4 DEF AmountsOf
  <2> QED BY <1>1, <2>1, <2>2
<1>6. ASSUME NEW i \in Installments
      PROVE  /\ HeldPrincipal(later, i) = HeldPrincipal(rows, i) + p.lines[i].principal
             /\ HeldProfit(later, i) = HeldProfit(rows, i) + p.lines[i].profit
  <2>1. /\ HeldPrincipal(later, i) = HeldPrincipal(rows, i)
                                       + PrincipalsOf(later, i)[Len(rows) + 1]
        /\ HeldProfit(later, i) = HeldProfit(rows, i) + ProfitsOf(later, i)[Len(rows) + 1]
    BY <1>3, AppliedMore DEF HeldPrincipal, HeldProfit
  <2>2. /\ PrincipalsOf(later, i)[m + 1] = p.lines[i].principal
        /\ ProfitsOf(later, i)[m + 1] = p.lines[i].profit
    BY <1>4 DEF PrincipalsOf, ProfitsOf
  <2> QED BY <1>1, <2>1, <2>2
<1> QED BY <1>5, <1>6

LEMMA PaidBack ==
  ASSUME NEW rows \in Seq(PaymentRow), NEW n \in DOMAIN rows, rows[n].status = "applied",
         NEW later, TakenBack(rows, n, later)
  PROVE  /\ Received(later) = Received(rows) - rows[n].amount
         /\ \A i \in Installments :
              /\ HeldPrincipal(later, i) = HeldPrincipal(rows, i) - rows[n].lines[i].principal
              /\ HeldProfit(later, i) = HeldProfit(rows, i) - rows[n].lines[i].profit
<1>1. /\ later \in Seq(PaymentRow) /\ DOMAIN later = 1..(Len(rows) + 1)
      /\ \A k \in 1..Len(rows) : SameMoney(rows[k], later[k])
  BY DEF TakenBack
<1>2. /\ Continues(rows, AmountsOf(rows), AmountsOf(later))
      /\ \A i \in Installments :
           /\ Continues(rows, PrincipalsOf(rows, i), PrincipalsOf(later, i))
           /\ Continues(rows, ProfitsOf(rows, i), ProfitsOf(later, i))
  BY <1>1, RowsContinue
<1>3. n \in 1..Len(rows)
  BY SequenceIsFunction
<1>4. Received(later) = Received(rows) - rows[n].amount
  <2>1. Received(later) = Received(rows) - AmountsOf(rows)[n]
    BY <1>2, AppliedLess DEF Received
  <2> QED BY <1>3, <2>1 DEF AmountsOf
<1>5. ASSUME NEW i \in Installments
      PROVE  /\ HeldPrincipal(later, i) = HeldPrincipal(rows, i) - rows[n].lines[i].principal
             /\ HeldProfit(later, i) = HeldProfit(rows, i) - rows[n].lines[i].profit
  <2>1. /\ HeldPrincipal(later, i) = HeldPrincipal(rows, i) - PrincipalsOf(rows, i)[n]
        /\ HeldProfit(later, i) = HeldProfit(rows, i) - ProfitsOf(rows, i)[n]
    BY <1>2, AppliedLess DEF HeldPrincipal, HeldProfit
  <2> QED BY <1>3, <2>1 DEF PrincipalsOf, ProfitsOf
<1> QED BY <1>4, <1>5

LEMMA AppliedAtLeast ==
  ASSUME NEW rows \in Seq(PaymentRow), NEW t \in [1..Len(rows) -> Nat]
  PROVE  /\ Applied(rows, t) \in Nat
         /\ \A n \in DOMAIN rows : rows[n].status = "applied" => t[n] <= Applied(rows, t)
<1>1. PICK m \in Nat : m = Len(rows) /\ DOMAIN rows = 1..m
  BY SequenceIsFunction
<1>2. \A k \in 1..m : t[k] \in Nat /\ IfApplied(rows[k], t[k]) \in Nat
  BY <1>1 DEF IfApplied
<1>3. PICK f \in [1..m -> Nat] : f = [k \in DOMAIN rows |-> IfApplied(rows[k], t[k])]
  BY <1>1, <1>2
<1>4. /\ SumFunctionOnSet(f, 1..m) \in Nat
      /\ \A k \in 1..m : f[k] <= SumFunctionOnSet(f, 1..m)
  BY UpToIsFinite, SumNat
<1>5. Applied(rows, t) = SumFunctionOnSet(f, 1..m)
  BY <1>1, <1>3 DEF Applied, SumFunction
<1>6. \A k \in 1..m : rows[k].status = "applied" => f[k] = t[k]
  BY <1>1, <1>3 DEF IfApplied
<1> QED BY <1>1, <1>4, <1>5, <1>6

LEMMA HeldAtLeast ==
  ASSUME NEW rows \in Seq(PaymentRow), NEW i \in Installments
  PROVE  /\ HeldPrincipal(rows, i) \in Nat /\ HeldProfit(rows, i) \in Nat
         /\ \A n \in DOMAIN rows : rows[n].status = "applied" =>
              /\ rows[n].lines[i].principal <= HeldPrincipal(rows, i)
              /\ rows[n].lines[i].profit <= HeldProfit(rows, i)
<1>1. /\ Len(rows) \in Nat /\ DOMAIN rows = 1..Len(rows)
      /\ \A k \in 1..Len(rows) : /\ rows[k].lines[i].principal \in Nat
                                 /\ rows[k].lines[i].profit \in Nat
  BY RowLines
<1>2. PICK t \in [1..Len(rows) -> Nat] : t = PrincipalsOf(rows, i)
  BY <1>1 DEF PrincipalsOf
<1>3. PICK u \in [1..Len(rows) -> Nat] : u = ProfitsOf(rows, i)
  BY <1>1 DEF ProfitsOf
<1>4. /\ \A n \in DOMAIN rows : t[n] = rows[n].lines[i].principal
      /\ \A n \in DOMAIN rows : u[n] = rows[n].lines[i].profit
  BY <1>1, <1>2, <1>3 DEF PrincipalsOf, ProfitsOf
<1>5. /\ Applied(rows, t) \in Nat
      /\ \A n \in DOMAIN rows : rows[n].status = "applied" => t[n] <= Applied(rows, t)
  BY AppliedAtLeast
<1>6. /\ Applied(rows, u) \in Nat
      /\ \A n \in DOMAIN rows : rows[n].status = "applied" => u[n] <= Applied(rows, u)
  BY AppliedAtLeast
<1>7. HeldPrincipal(rows, i) = Applied(rows, t) /\ HeldProfit(rows, i) = Applied(rows, u)
  BY <1>2, <1>3 DEF HeldPrincipal, HeldProfit
<1> QED BY <1>4, <1>5, <1>6, <1>7

-------------------------------------------------------------------------------
\* What is owed.

LEMMA InstallmentsAreFinite == IsFiniteSet(Installments)
BY InstallmentsAreNumbered, UpToIsFinite

LateFees(rows) == [i \in Installments |-> rows[i].late_fee]
Profits(rows) == [i \in Installments |-> rows[i].profit]
Principals(rows) == [i \in Installments |-> rows[i].principal]

\* The columns of a plan are sums over the installments, and its total is theirs.
LEMMA ColumnsMeaning ==
  ASSUME NEW rows \in [Installments -> AmountRow]
  PROVE  /\ Column(rows, "late_fee") = SumFunctionOnSet(LateFees(rows), Installments)
         /\ Column(rows, "profit") = SumFunctionOnSet(Profits(rows), Installments)
         /\ Column(rows, "principal") = SumFunctionOnSet(Principals(rows), Installments)
         /\ LateFees(rows) \in [Installments -> Nat]
         /\ Profits(rows) \in [Installments -> Nat]
         /\ Principals(rows) \in [Installments -> Nat]
         /\ Column(rows, "late_fee") \in Nat /\ Column(rows, "profit") \in Nat
         /\ Column(rows, "principal") \in Nat
         /\ Total(rows) = Column(rows, "late_fee") + Column(rows, "profit")
                            + Column(rows, "principal")
<1>1. \A i \in Installments : /\ rows[i].late_fee \in Nat /\ rows[i].profit \in Nat
                              /\ rows[i].principal \in Nat
  BY AmountRowMeaning
<1>2. PICK u \in [Installments -> Nat] : u = LateFees(rows)
  BY <1>1 DEF LateFees
<1>3. PICK v \in [Installments -> Nat] : v = Profits(rows)
  BY <1>1 DEF Profits
<1>4. PICK w \in [Installments -> Nat] : w = Principals(rows)
  BY <1>1 DEF Principals
<1>5. /\ Column(rows, "late_fee") = SumFunctionOnSet(u, Installments)
      /\ Column(rows, "profit") = SumFunctionOnSet(v, Installments)
      /\ Column(rows, "principal") = SumFunctionOnSet(w, Installments)
  BY <1>2, <1>3, <1>4 DEF Column, SumFunction, LateFees, Profits, Principals
<1>6. /\ SumFunctionOnSet(u, Installments) \in Nat
      /\ SumFunctionOnSet(v, Installments) \in Nat
      /\ SumFunctionOnSet(w, Installments) \in Nat
  BY InstallmentsAreFinite, SumNat
<1>7. PICK t \in [Installments -> Nat] : t = [i \in Installments |-> LineTotal(rows[i])]
  <2>1. \A i \in Installments :
          LineTotal(rows[i]) = rows[i].late_fee + rows[i].profit + rows[i].principal
    BY DEF LineTotal
  <2>2. \A i \in Installments : LineTotal(rows[i]) \in Nat
    BY <1>1, <2>1
  <2> QED BY <2>2
<1>8. PICK s \in [Installments -> Nat] : s = [i \in Installments |-> u[i] + v[i]]
  <2>1. \A i \in Installments : u[i] \in Nat /\ v[i] \in Nat
    OBVIOUS
  <2>2. \A i \in Installments : u[i] + v[i] \in Nat
    BY <2>1
  <2> QED BY <2>2
<1>9. \A i \in Installments : /\ u[i] \in Int /\ v[i] \in Int /\ w[i] \in Int /\ s[i] \in Int
                              /\ s[i] = u[i] + v[i]
  BY <1>8
<1>10. \A i \in Installments : t[i] = s[i] + w[i]
  <2> SUFFICES ASSUME NEW i \in Installments PROVE t[i] = s[i] + w[i]
    OBVIOUS
  <2>1. t[i] = rows[i].late_fee + rows[i].profit + rows[i].principal
    BY <1>7 DEF LineTotal
  <2>2. u[i] = rows[i].late_fee /\ v[i] = rows[i].profit /\ w[i] = rows[i].principal
    BY <1>2, <1>3, <1>4 DEF LateFees, Profits, Principals
  <2> QED BY <1>9, <2>1, <2>2
<1>11. SumFunctionOnSet(s, Installments)
         = SumFunctionOnSet(u, Installments) + SumFunctionOnSet(v, Installments)
  BY <1>9, InstallmentsAreFinite, SumPlus
<1>12. SumFunctionOnSet(t, Installments)
         = SumFunctionOnSet(s, Installments) + SumFunctionOnSet(w, Installments)
  BY <1>9, <1>10, InstallmentsAreFinite, SumPlus
<1>13. Total(rows) = SumFunctionOnSet(t, Installments)
  BY <1>7 DEF Total, SumFunction
<1>14. Total(rows) = Column(rows, "late_fee") + Column(rows, "profit")
                       + Column(rows, "principal")
  BY <1>5, <1>11, <1>12, <1>13
<1> QED BY <1>2, <1>3, <1>4, <1>5, <1>6, <1>14, Zenon

\* Nothing is written off and paid beyond what an installment is worth.
InstBounded ==
  \A i \in Installments :
    /\ inst[i].principal_paid + inst[i].principal_written_off <= inst[i].principal
    /\ inst[i].profit_paid + inst[i].profit_written_off <= inst[i].profit

\* What a contract owes in that case.
LEMMA ReceivableMeaning ==
  ASSUME inst \in [Installments -> InstRow], fees \in Seq(FeeRow), FeesBounded, InstBounded
  PROVE  /\ Receivable \in [Installments -> AmountRow]
         /\ \A i \in Installments :
              /\ Receivable[i].late_fee = late_fee_outstanding(i)
              /\ Receivable[i].profit
                   = inst[i].profit - inst[i].profit_paid - inst[i].profit_written_off
              /\ Receivable[i].principal
                   = inst[i].principal - inst[i].principal_paid
                       - inst[i].principal_written_off
         /\ Column(Receivable, "late_fee") = FeesOwed
<1>1. \A i \in Installments : late_fee_outstanding(i) \in Nat
  BY LateFeesByInstallment
<1>2. ASSUME NEW i \in Installments
      PROVE  /\ Receivable[i] \in AmountRow
             /\ Receivable[i].late_fee = late_fee_outstanding(i)
             /\ Receivable[i].profit
                  = inst[i].profit - inst[i].profit_paid - inst[i].profit_written_off
             /\ Receivable[i].principal
                  = inst[i].principal - inst[i].principal_paid
                      - inst[i].principal_written_off
  <2>1. PICK x \in InstRow : x = inst[i]
    OBVIOUS
  <2>2. /\ x.principal_paid + x.principal_written_off <= x.principal
        /\ x.profit_paid + x.profit_written_off <= x.profit
    BY <2>1 DEF InstBounded
  <2>3. PICK a \in Nat : a = x.principal - x.principal_paid - x.principal_written_off
    BY <2>2, InstRowMeaning
  <2>4. PICK b \in Nat : b = x.profit - x.profit_paid - x.profit_written_off
    BY <2>2, InstRowMeaning
  <2>5. PICK c \in Nat : c = late_fee_outstanding(i)
    BY <1>1
  <2>6. Receivable[i] = [late_fee |-> c, profit |-> b, principal |-> a]
    BY <2>1, <2>3, <2>4, <2>5 DEF Receivable, profit_outstanding, principal_outstanding
  <2> QED BY <2>1, <2>3, <2>4, <2>5, <2>6 DEF AmountRow
<1>3. Receivable = [i \in Installments |-> Receivable[i]]
  BY DEF Receivable
<1>4. PICK r : r = Receivable
  OBVIOUS
<1>5. r \in [Installments -> AmountRow]
  <2>1. \A i \in Installments : r[i] \in AmountRow
    BY <1>2, <1>4
  <2>2. r = [i \in Installments |-> r[i]]
    BY <1>3, <1>4
  <2> QED BY <2>1, <2>2
<1>6. Column(Receivable, "late_fee") = FeesOwed
  <2>1. Column(Receivable, "late_fee")
          = SumFunction([i \in Installments |-> late_fee_outstanding(i)])
    BY <1>2 DEF Column, Receivable
  <2> QED BY <2>1, LateFeesByInstallment
<1> QED BY <1>2, <1>4, <1>5, <1>6

-------------------------------------------------------------------------------
\* What is true of a contract at any moment.

AppliedAreAsked == \A n \in DOMAIN payments :
                     payments[n].status = "applied" => payments[n].reference \in Asked

\* A gateway payment is the sum of its lines.
GatewayAddsUp == \A n \in DOMAIN payments :
                   payments[n].source = "gateway" =>
                     Total(payments[n].lines) = payments[n].amount

PaidWithinWorth == \A i \in Installments : /\ inst[i].principal_paid <= inst[i].principal
                                           /\ inst[i].profit_paid <= inst[i].profit
FeesPaidWithin == \A k \in DOMAIN fees : fees[k].amount_paid <= fees[k].amount

\* What an installment holds of payments that were not taken back is no more than
\* what its columns say is paid: whichever payment is taken back, there is enough.
Backed == \A i \in Installments :
            /\ HeldPrincipal(payments, i) <= inst[i].principal_paid
            /\ HeldProfit(payments, i) <= inst[i].profit_paid

ContractTyped ==
  /\ contract \in [status: {"created", "active", "closed"},
                   closure: {"none", "normal", "early_settlement", "cancellation", "return",
                             "write_off"}]
  /\ contract.status # "closed" <=> contract.closure = "none"

Typed ==
  /\ ContractTyped
  /\ inst \in [Installments -> InstRow]
  /\ fees \in Seq(FeeRow)
  /\ payments \in Seq(PaymentRow) /\ AppliedAreAsked
  /\ ledger \in [EntryTypes -> Int]
  /\ rebate \in RebateAsks \cup {NoRebate}

Sound ==
  /\ Typed
  /\ GatewayAddsUp
  /\ PaidWithinWorth /\ FeesPaidWithin
  /\ ~ClearedEarly => InstBounded /\ FeesBounded
  /\ OneLive(fees)
  /\ Backed
  /\ UnearnedAddsUp

LEMMA SoundOpen ==
  ASSUME Sound, contract.status # "closed"
  PROVE  /\ ~ClearedEarly /\ InstBounded /\ FeesBounded
         /\ inst \in [Installments -> InstRow] /\ fees \in Seq(FeeRow)
         /\ contract.closure = "none"
BY DEF Sound, Typed, ContractTyped, ClearedEarly

\* What is unearned is what the installments have not had paid of their profit.
UnpaidOf(rows) == [i \in Installments |-> rows[i].profit - rows[i].profit_paid]
Unpaid == UnpaidOf(inst)

LEMMA UnearnedIsNat ==
  ASSUME Sound, contract.status # "closed"
  PROVE  /\ unearned \in Nat /\ unearned = SumFunctionOnSet(Unpaid, Installments)
         /\ Unpaid \in [Installments -> Nat]
<1>1. \A i \in Installments : inst[i].profit - inst[i].profit_paid \in Nat
  <2> SUFFICES ASSUME NEW i \in Installments
               PROVE  inst[i].profit - inst[i].profit_paid \in Nat
    OBVIOUS
  <2>1. PICK x \in InstRow : x = inst[i]
    BY DEF Sound, Typed
  <2>2. x.profit_paid <= x.profit /\ x.profit_paid \in Nat /\ x.profit \in Nat
    BY <2>1, InstRowMeaning DEF Sound, PaidWithinWorth
  <2> QED BY <2>1, <2>2
<1>2. PICK u \in [Installments -> Nat] : u = Unpaid
  BY <1>1 DEF Unpaid, UnpaidOf
<1>3. SumFunctionOnSet(u, Installments) \in Nat
  BY InstallmentsAreFinite, SumNat
<1>4. contract.closure # "cancellation"
  BY SoundOpen
<1>5. unearned = SumFunctionOnSet(u, Installments)
  BY <1>2, <1>4 DEF Sound, UnearnedAddsUp, Unpaid, UnpaidOf, SumFunction
<1> QED BY <1>2, <1>3, <1>5

\* A rebate in percent is at most what is unearned.
LEMMA PercentOfNat ==
  ASSUME NEW p \in 0..100
  PROVE  \A x \in Nat : x * p \in Nat /\ x * p <= x * 100
<1> DEFINE T == {x \in Nat : x * p \in Nat /\ x * p <= x * 100}
<1>1. 0 \in T
  OBVIOUS
<1>2. ASSUME NEW x \in Nat, x \in T PROVE x + 1 \in T
  <2>1. (x + 1) * p = x * p + p /\ (x + 1) * 100 = x * 100 + 100
    OBVIOUS
  <2> QED BY <1>2, <2>1
<1>3. Nat \subseteq T
  <2> HIDE DEF T
  <2> QED BY <1>1, <1>2, NatSetInduction
<1> QED BY <1>3

Rebates == [kind : {"pct"}, value : 0..100] \cup [kind : {"amount"}, value : Nat]

LEMMA RebatesMeaning == RebateAsks \subseteq Rebates /\ Default \in Rebates
BY ServicingAssumption DEF Rebates, Default

LEMMA RebateWithin ==
  ASSUME unearned \in Nat, NEW ask \in Rebates, ask.kind = "amount" => ask.value <= unearned
  PROVE  RebateOf(ask) \in Nat /\ RebateOf(ask) <= unearned
<1>1. CASE ask.kind = "amount"
  BY <1>1 DEF Rebates, RebateOf
<1>2. CASE ask.kind # "amount"
  <2>1. ask.kind = "pct" /\ ask.value \in 0..100
    BY <1>2 DEF Rebates
  <2>2. PICK p \in 0..100 : p = ask.value
    BY <2>1
  <2>3. PICK u \in Nat : u = unearned
    OBVIOUS
  <2>4. PICK y \in Nat : y = u * p /\ y <= u * 100
    BY PercentOfNat
  <2>5. (y + 50) \div 100 \in Nat /\ (y + 50) \div 100 <= u
    BY <2>4
  <2>6. RebateOf(ask) = (y + 50) \div 100
    BY <2>1, <2>2, <2>3, <2>4 DEF RebateOf, Percent
  <2> QED BY <2>3, <2>5, <2>6
<1> QED BY <1>1, <1>2

-------------------------------------------------------------------------------
\* What each handler does to the money.

\* A plan takes from each bucket at most what is owed of it.
WithinOwed(plan) ==
  \A i \in Installments : /\ plan[i].late_fee <= Receivable[i].late_fee
                          /\ plan[i].profit <= Receivable[i].profit
                          /\ plan[i].principal <= Receivable[i].principal

\* The Payment row p is of the plan.
RowOf(p, plan) == p \in PaymentRow /\ p.status = "applied" /\ p.lines = plan

\* The effect of a payment of an amount.
PaidBy(plan, p, amount) ==
  /\ contract.status = "active" /\ amount > 0
  /\ plan \in [Installments -> AmountRow] /\ WithinOwed(plan) /\ Total(plan) = amount
  /\ RowOf(p, plan) /\ p.amount = amount /\ p.reference \in Asked
  /\ OneMore(payments, p, payments')
  /\ PayFees(plan) /\ PayInstallments(plan)
  /\ unearned' = unearned - Column(plan, "profit")
  /\ Post([late_fee_paid |-> Column(plan, "late_fee"),
           profit_recognized |-> Column(plan, "profit"),
           principal_paid |-> Column(plan, "principal")])
  /\ contract' \in {contract, [status |-> "closed", closure |-> "normal"]}
  /\ contract' = contract \/ Repaid'
  /\ rebate' = rebate

LEMMA PaymentEffect ==
  ASSUME Sound, NEW source \in {"staff", "gateway"}, NEW reference \in Asked,
         NEW amount \in Nat \ {0}, RecordPayment(source, reference, amount)
  PROVE  \E plan, p : PaidBy(plan, p, amount)
<1>1. PICK m \in Nat : m = Len(Schedule) /\ Installments = 1..m
  BY InstallmentsAreNumbered
<1>2. contract.status = "active"
  BY DEF RecordPayment
<1>3. Receivable \in [Installments -> AmountRow]
  BY <1>2, SoundOpen, ReceivableMeaning
<1>4. PICK rows \in [1..m -> AmountRow] : rows = Receivable
  BY <1>1, <1>3
<1>5. PICK plan : plan = allocate(amount, rows)
  OBVIOUS
<1>6. /\ plan \in [1..m -> AmountRow]
      /\ \A i \in 1..m : /\ plan[i].late_fee <= rows[i].late_fee
                         /\ plan[i].profit <= rows[i].profit
                         /\ plan[i].principal <= rows[i].principal
      /\ amount <= Total(rows) => Total(plan) = amount
  BY <1>5, AllocateMeaning
<1>7. plan \in [Installments -> AmountRow] /\ WithinOwed(plan)
  BY <1>1, <1>4, <1>6 DEF WithinOwed
<1>8. PICK p : p = [reference |-> reference, source |-> source, amount |-> amount,
                    status |-> "applied", lines |-> plan]
  OBVIOUS
<1>9. p \in PaymentRow /\ RowOf(p, plan) /\ p.amount = amount /\ p.reference \in Asked
  BY <1>7, <1>8 DEF PaymentRow, RowOf
<1>10. /\ amount <= Total(rows)
       /\ payments' = Append(payments, p)
       /\ PayFees(plan) /\ PayInstallments(plan)
       /\ unearned' = unearned - Column(plan, "profit")
       /\ Post([late_fee_paid |-> Column(plan, "late_fee"),
                profit_recognized |-> Column(plan, "profit"),
                principal_paid |-> Column(plan, "principal")])
       /\ contract' \in {contract, [status |-> "closed", closure |-> "normal"]}
       /\ contract' = contract \/ Repaid'
       /\ rebate' = rebate
  BY <1>4, <1>5, <1>8 DEF RecordPayment
<1>11. payments \in Seq(PaymentRow)
  BY DEF Sound, Typed
<1>12. OneMore(payments, p, payments')
  BY <1>9, <1>10, <1>11, OneMoreMeaning
<1>13. PaidBy(plan, p, amount)
  BY <1>2, <1>6, <1>7, <1>9, <1>10, <1>12 DEF PaidBy
<1> QED BY <1>13

\* The effect of taking payment n back.
TakenBackBy(n, lines) ==
  /\ n \in DOMAIN payments /\ payments[n].status = "applied" /\ payments[n].lines = lines
  /\ payments[n].source = "gateway"
  /\ lines \in [Installments -> AmountRow] /\ Total(lines) = payments[n].amount
  /\ \A i \in Installments : /\ lines[i].principal <= inst[i].principal_paid
                             /\ lines[i].profit <= inst[i].profit_paid
  /\ TakenBack(payments, n, payments')
  /\ ReverseFees(lines) /\ ReverseInstallments(lines)
  /\ unearned' = unearned + Column(lines, "profit")
  /\ PostReversal(lines)
  /\ contract' = contract /\ rebate' = rebate

LEMMA ReversalEffect ==
  ASSUME Sound, NEW n \in DOMAIN payments, ReverseSettledPayment(n)
  PROVE  \E lines : TakenBackBy(n, lines)
<1>1. payments \in Seq(PaymentRow) /\ inst \in [Installments -> InstRow]
  BY DEF Sound, Typed
<1>2. payments[n] \in PaymentRow
  BY <1>1, SequenceElement
<1>3. payments[n].source = "gateway" /\ payments[n].status # "reversed"
  BY DEF ReverseSettledPayment
<1>4. payments[n].status = "applied"
  BY <1>2, <1>3, PaymentRowMeaning
<1>5. payments[n].reference \in Asked
  BY <1>4 DEF Sound, Typed, AppliedAreAsked
<1>6. PICK lines \in [Installments -> AmountRow] : lines = payments[n].lines
  BY <1>2, PaymentRowMeaning
<1>7. Total(lines) = payments[n].amount
  BY <1>3, <1>6 DEF Sound, GatewayAddsUp
<1>8. ASSUME NEW i \in Installments
      PROVE  lines[i].principal <= inst[i].principal_paid /\ lines[i].profit <= inst[i].profit_paid
  <2>1. /\ lines[i].principal <= HeldPrincipal(payments, i)
        /\ lines[i].profit <= HeldProfit(payments, i)
        /\ HeldPrincipal(payments, i) \in Nat /\ HeldProfit(payments, i) \in Nat
    BY <1>1, <1>4, <1>6, HeldAtLeast
  <2>2. /\ HeldPrincipal(payments, i) <= inst[i].principal_paid
        /\ HeldProfit(payments, i) <= inst[i].profit_paid
    BY DEF Sound, Backed
  <2>3. lines[i] \in AmountRow /\ inst[i] \in InstRow
    BY <1>1
  <2>4. /\ lines[i].principal \in Nat /\ lines[i].profit \in Nat
        /\ inst[i].principal_paid \in Nat /\ inst[i].profit_paid \in Nat
    BY <2>3, AmountRowMeaning, InstRowMeaning
  <2> QED BY <2>1, <2>2, <2>4
<1>9. /\ payments' = Append([payments EXCEPT ![n].status = "reversed"],
                            [payments[n] EXCEPT !.reference = <<@, "REV">>,
                                                !.status = "reversed"])
      /\ ReverseFees(lines) /\ ReverseInstallments(lines)
      /\ unearned' = unearned + Column(lines, "profit")
      /\ PostReversal(lines)
      /\ contract' = contract /\ rebate' = rebate
  BY <1>6 DEF ReverseSettledPayment, UnearnProfit
<1>10. TakenBack(payments, n, payments')
  BY <1>1, <1>5, <1>9, TakenBackMeaning
<1>11. TakenBackBy(n, lines)
  BY <1>3, <1>4, <1>6, <1>7, <1>8, <1>9, <1>10 DEF TakenBackBy
<1> QED BY <1>11

LEMMA MaxWithZero == \A x \in Nat : Max({0, x}) = x
<1> SUFFICES ASSUME NEW x \in Nat PROVE Max({0, x}) = x
  OBVIOUS
<1>1. \E y \in {0, x} : \A z \in {0, x} : y >= z
  OBVIOUS
<1>2. /\ Max({0, x}) \in {0, x}
      /\ \A z \in {0, x} : Max({0, x}) >= z
  BY <1>1 DEF Max
<1> QED BY <1>2

\* What settlement and return clear: principal and late fees that are owed, and the
\* unearned profit, of which they charge a part and give up the rest.
Cleared(charged, given) ==
  /\ contract.status = "active"
  /\ charged \in Nat /\ given \in Nat /\ charged + given = unearned
  /\ CloseOutSchedule
  /\ rebate' \in {rebate, NoRebate}

Owed(b) == Column(Receivable, b)

LEMMA OwedIsNat ==
  ASSUME Sound, contract.status # "closed"
  PROVE  Owed("late_fee") \in Nat /\ Owed("profit") \in Nat /\ Owed("principal") \in Nat
<1>1. Receivable \in [Installments -> AmountRow]
  BY SoundOpen, ReceivableMeaning
<1>2. PICK r \in [Installments -> AmountRow] : r = Receivable
  BY <1>1
<1>3. /\ Column(r, "late_fee") \in Nat /\ Column(r, "profit") \in Nat
      /\ Column(r, "principal") \in Nat
  BY ColumnsMeaning
<1> QED BY <1>2, <1>3 DEF Owed

NoLines == [i \in Installments |-> [late_fee |-> 0, profit |-> 0, principal |-> 0]]

SettledBy(charged, given, p) ==
  /\ Cleared(charged, given)
  /\ RowOf(p, NoLines) /\ p.amount = Owed("principal") + Owed("late_fee") + charged
  /\ p.reference \in Asked /\ p.source = "staff"
  /\ OneMore(payments, p, payments')
  /\ contract' = [status |-> "closed", closure |-> "early_settlement"]
  /\ Post([principal_paid |-> Owed("principal"), late_fee_paid |-> Owed("late_fee"),
           profit_recognized |-> charged, profit_rebated |-> given])

LEMMA SettlementEffect ==
  ASSUME Sound, NEW ask \in Rebates, NEW reference \in SettleReferences,
         SettleContract(ask, reference), rebate' \in {rebate, NoRebate}
  PROVE  \E charged, given, p : SettledBy(charged, given, p)
<1>1. contract.status = "active" /\ (ask.kind = "amount" => ask.value <= unearned)
  BY DEF SettleContract, Quotable
<1>2. PICK u \in Nat : u = unearned
  BY <1>1, UnearnedIsNat
<1>3. PICK given \in Nat : given = RebateOf(ask) /\ given <= u
  BY <1>1, <1>2, RebateWithin
<1>4. PICK charged \in Nat : charged = u - given /\ charged + given = u
  BY <1>3
<1>5. PICK a \in Nat, b \in Nat : a = Owed("principal") /\ b = Owed("late_fee")
  BY <1>1, OwedIsNat
<1>6. PICK quote : quote = Quote(ask)
  OBVIOUS
<1>7. /\ quote.principal = a /\ quote.late_fees = b /\ quote.charged = charged
      /\ quote.rebate = given
  BY <1>2, <1>3, <1>4, <1>5, <1>6 DEF Quote, Owed
<1>8. Payoff(quote) = a + b + charged
  BY <1>7 DEF Payoff
<1>9. PICK p : p = [reference |-> reference, source |-> "staff", amount |-> Payoff(quote),
                    status |-> "applied", lines |-> NoLines]
  OBVIOUS
<1>10. NoLines \in [Installments -> AmountRow]
  BY DEF NoLines, AmountRow
<1>11. PICK x \in Nat : x = Payoff(quote) /\ x = a + b + charged
  BY <1>8
<1>12. p \in PaymentRow /\ p.amount = x /\ p.reference \in Asked /\ p.source = "staff"
       /\ RowOf(p, NoLines)
  BY <1>9, <1>10, <1>11 DEF PaymentRow, RowOf, Asked
<1>13. payments' = Append(payments, p)
  BY <1>6, <1>9 DEF SettleContract, NoLines
<1>14. OneMore(payments, p, payments')
  BY <1>12, <1>13, OneMoreMeaning DEF Sound, Typed
<1>15. Post([principal_paid |-> Max({0, quote.principal}),
             late_fee_paid |-> Max({0, quote.late_fees}),
             profit_recognized |-> Max({0, quote.charged}),
             profit_rebated |-> Max({0, quote.rebate})])
  BY <1>6 DEF SettleContract
<1>16. Post([principal_paid |-> a, late_fee_paid |-> b, profit_recognized |-> charged,
             profit_rebated |-> given])
  BY <1>7, <1>15, MaxWithZero
<1>17. CloseOutSchedule /\ contract' = [status |-> "closed", closure |-> "early_settlement"]
  BY DEF SettleContract
<1>18. SettledBy(charged, given, p)
  BY <1>1, <1>2, <1>4, <1>5, <1>11, <1>12, <1>14, <1>16, <1>17 DEF SettledBy, Cleared
<1> QED BY <1>18

ReturnedBy(charged, given) ==
  /\ Cleared(charged, given)
  /\ payments' = payments
  /\ contract' = [status |-> "closed", closure |-> "return"]
  /\ Post([return_principal_cleared |-> Owed("principal"),
           return_late_fee_cleared |-> Owed("late_fee"),
           return_profit_retained |-> charged, return_profit_waived |-> given])

LEMMA ReturnEffect ==
  ASSUME Sound, ReturnContract
  PROVE  \E charged, given : ReturnedBy(charged, given)
<1>1. contract.status = "active"
  BY DEF ReturnContract
<1>2. PICK u \in Nat : u = unearned
  BY <1>1, UnearnedIsNat
<1>3. Default \in Rebates /\ Default.kind = "pct"
  BY RebatesMeaning DEF Default
<1>4. PICK given \in Nat : given = RebateOf(Default) /\ given <= u
  BY <1>2, <1>3, RebateWithin
<1>5. PICK charged \in Nat : charged = u - given /\ charged + given = u
  BY <1>4
<1>6. PICK a \in Nat, b \in Nat : a = Owed("principal") /\ b = Owed("late_fee")
  BY <1>1, OwedIsNat
<1>7. PICK quote : quote = Quote(Default)
  OBVIOUS
<1>8. /\ quote.principal = a /\ quote.late_fees = b /\ quote.charged = charged
      /\ quote.rebate = given
  BY <1>2, <1>4, <1>5, <1>6, <1>7 DEF Quote, Owed
<1>9. Post([return_principal_cleared |-> Max({0, quote.principal}),
            return_late_fee_cleared |-> Max({0, quote.late_fees}),
            return_profit_retained |-> Max({0, quote.charged}),
            return_profit_waived |-> Max({0, quote.rebate})])
  BY <1>7 DEF ReturnContract
<1>10. Post([return_principal_cleared |-> a, return_late_fee_cleared |-> b,
             return_profit_retained |-> charged, return_profit_waived |-> given])
  BY <1>8, <1>9, MaxWithZero
<1>11. /\ CloseOutSchedule /\ contract' = [status |-> "closed", closure |-> "return"]
       /\ payments' = payments /\ rebate' = rebate
  BY DEF ReturnContract
<1>12. ReturnedBy(charged, given)
  BY <1>1, <1>2, <1>5, <1>6, <1>10, <1>11 DEF ReturnedBy, Cleared
<1> QED BY <1>12

\* What executing a write-off takes from installments and charges.
WrittenOffBy(ask, p, q, r) ==
  /\ contract.status = "active"
  /\ p \in [Installments -> Nat] /\ q \in [Installments -> Nat] /\ r \in [DOMAIN fees -> Nat]
  /\ inst' \in [Installments -> InstRow]
  /\ \A i \in Installments :
       /\ p[i] <= Receivable[i].principal /\ q[i] <= Receivable[i].profit
       /\ SamePaid(inst[i], inst'[i])
       /\ inst'[i].principal_written_off = inst[i].principal_written_off + p[i]
       /\ inst'[i].profit_written_off = inst[i].profit_written_off + q[i]
       /\ inst'[i].status \in {inst[i].status, "written_off"}
  /\ fees' \in Seq(FeeRow) /\ DOMAIN fees' = DOMAIN fees
  /\ \A k \in DOMAIN fees :
       /\ r[k] <= fee_outstanding(fees[k])
       /\ fees'[k].installment = fees[k].installment
       /\ fees'[k].amount = fees[k].amount
       /\ fees'[k].amount_paid = fees[k].amount_paid
       /\ fees'[k].amount_written_off = fees[k].amount_written_off + r[k]
       /\ NotWaived(fees'[k]) <=> NotWaived(fees[k])
  /\ SumFunction(p) = ask.principal /\ SumFunction(q) = ask.profit
  /\ SumFunction(r) = ask.late_fee
  /\ Post([principal_written_off |-> ask.principal, profit_written_off |-> ask.profit,
           late_fee_written_off |-> ask.late_fee])
  /\ contract' \in {contract, [status |-> "closed", closure |-> "write_off"]}
  /\ unearned' = unearned /\ payments' = payments /\ rebate' = rebate

LEMMA WriteOffEffect ==
  ASSUME Sound, NEW n \in DOMAIN writeOffs, writeOffs[n].asked \in AmountRow,
         ExecuteWriteOff(n)
  PROVE  \E p, q, r : WrittenOffBy(writeOffs[n].asked, p, q, r)
<1>1. PICK ask \in AmountRow : ask = writeOffs[n].asked
  OBVIOUS
<1>2. /\ contract.status = "active" /\ StillOutstanding(ask)
      /\ SweepInstallments(ask) /\ SweepFees(ask)
      /\ Post([principal_written_off |-> ask.principal, profit_written_off |-> ask.profit,
               late_fee_written_off |-> ask.late_fee])
      /\ contract' \in {contract, [status |-> "closed", closure |-> "write_off"]}
      /\ unearned' = unearned /\ payments' = payments /\ rebate' = rebate
  BY <1>1 DEF ExecuteWriteOff, Executable
<1>3. /\ inst \in [Installments -> InstRow] /\ fees \in Seq(FeeRow) /\ FeesBounded /\ InstBounded
  BY <1>2, SoundOpen
<1>4. Receivable \in [Installments -> AmountRow] /\ Column(Receivable, "late_fee") = FeesOwed
  BY <1>3, ReceivableMeaning
<1>5. /\ ask.principal <= Column(Receivable, "principal")
      /\ ask.profit <= Column(Receivable, "profit")
      /\ ask.late_fee <= FeesOwed
  BY <1>2, <1>4 DEF StillOutstanding, Within, Outstanding, Nothing
<1>6. PICK p \in [Installments -> Nat], q \in [Installments -> Nat] :
        /\ inst' \in [Installments -> InstRow]
        /\ \A i \in Installments :
             /\ p[i] <= Receivable[i].principal /\ q[i] <= Receivable[i].profit
             /\ SamePaid(inst[i], inst'[i])
             /\ inst'[i].principal_written_off = inst[i].principal_written_off + p[i]
             /\ inst'[i].profit_written_off = inst[i].profit_written_off + q[i]
             /\ inst'[i].status \in {inst[i].status, "written_off"}
        /\ ask.principal <= Column(Receivable, "principal") => SumFunction(p) = ask.principal
        /\ ask.profit <= Column(Receivable, "profit") => SumFunction(q) = ask.profit
  BY <1>2, <1>3, <1>4, SweepInstallmentsMeaning
<1>7. PICK r \in [DOMAIN fees -> Nat] :
        /\ fees' \in Seq(FeeRow) /\ DOMAIN fees' = DOMAIN fees
        /\ \A k \in DOMAIN fees :
             /\ r[k] <= fee_outstanding(fees[k])
             /\ fees'[k].installment = fees[k].installment
             /\ fees'[k].amount = fees[k].amount
             /\ fees'[k].amount_paid = fees[k].amount_paid
             /\ fees'[k].amount_written_off = fees[k].amount_written_off + r[k]
             /\ NotWaived(fees'[k]) <=> NotWaived(fees[k])
        /\ ask.late_fee <= FeesOwed => SumFunction(r) = ask.late_fee
  BY <1>2, <1>3, SweepFeesMeaning DEF FeesBounded
<1>8. WrittenOffBy(ask, p, q, r)
  BY <1>2, <1>5, <1>6, <1>7 DEF WrittenOffBy
<1> QED BY <1>1, <1>8

-------------------------------------------------------------------------------
\* What the handlers keep.

LEMMA PostMeaning ==
  ASSUME ledger \in [EntryTypes -> Int], NEW entries, \A t \in DOMAIN entries : entries[t] \in Int,
         Post(entries)
  PROVE  /\ ledger' \in [EntryTypes -> Int]
         /\ \A t \in EntryTypes :
              ledger'[t] = ledger[t] + IF t \in DOMAIN entries THEN entries[t] ELSE 0
<1>1. \A t \in EntryTypes : ledger[t] \in Int
  OBVIOUS
<1>2. ASSUME NEW t \in EntryTypes
      PROVE  ledger[t] + (IF t \in DOMAIN entries THEN entries[t] ELSE 0) \in Int
  <2>1. CASE t \in DOMAIN entries
    BY <1>1, <2>1
  <2>2. CASE t \notin DOMAIN entries
    BY <1>1, <2>2
  <2> QED BY <2>1, <2>2
<1>3. ledger' = [t \in EntryTypes |->
                   ledger[t] + IF t \in DOMAIN entries THEN entries[t] ELSE 0]
  BY DEF Post
<1> QED BY <1>2, <1>3

\* Charges that keep their installment, and are live only if they were.
LEMMA OneLiveKept ==
  ASSUME OneLive(fees), NEW later, DOMAIN later = DOMAIN fees,
         \A k \in DOMAIN fees : /\ later[k].installment = fees[k].installment
                                /\ NotWaived(later[k]) => NotWaived(fees[k])
  PROVE  OneLive(later)
BY DEF OneLive

\* Profit that is paid of the rows x on the way to y.
LEMMA UnpaidDiffers ==
  ASSUME NEW x \in [Installments -> InstRow], NEW y \in [Installments -> InstRow],
         NEW d \in [Installments -> Int],
         \A i \in Installments : /\ y[i].profit = x[i].profit
                                 /\ y[i].profit_paid = x[i].profit_paid + d[i]
  PROVE  SumFunctionOnSet(UnpaidOf(y), Installments)
           = SumFunctionOnSet(UnpaidOf(x), Installments) - SumFunctionOnSet(d, Installments)
<1>1. \A i \in Installments : /\ x[i].profit \in Nat /\ x[i].profit_paid \in Nat
                              /\ y[i].profit_paid \in Nat
  BY InstRowMeaning
<1>2. PICK u : u = UnpaidOf(x)
  OBVIOUS
<1>3. PICK v : v = UnpaidOf(y)
  OBVIOUS
<1>4. ASSUME NEW i \in Installments PROVE u[i] \in Int /\ d[i] \in Int /\ v[i] = u[i] - d[i]
  <2>1. u[i] = x[i].profit - x[i].profit_paid /\ v[i] = y[i].profit - y[i].profit_paid
    BY <1>2, <1>3 DEF UnpaidOf
  <2>2. PICK e \in Int : e = d[i]
    OBVIOUS
  <2> QED BY <1>1, <2>1, <2>2
<1>5. SumFunctionOnSet(v, Installments)
        = SumFunctionOnSet(u, Installments) - SumFunctionOnSet(d, Installments)
  BY <1>4, InstallmentsAreFinite, SumMinus
<1> QED BY <1>2, <1>3, <1>5

LEMMA UnearnedMeans ==
  /\ Sound /\ contract.closure # "cancellation" =>
       unearned = SumFunctionOnSet(UnpaidOf(inst), Installments)
  /\ UnearnedAddsUp' <=> (contract'.closure # "cancellation" =>
                            unearned' = SumFunctionOnSet(UnpaidOf(inst'), Installments))
BY DEF Sound, UnearnedAddsUp, UnpaidOf, SumFunction

\* Installments and charges within their worth, after money was added.
LEMMA PaidStaysWithin ==
  ASSUME Sound, NEW plan, NEW p, NEW a \in Nat, PaidBy(plan, p, a)
  PROVE  /\ inst' \in [Installments -> InstRow] /\ fees' \in Seq(FeeRow)
         /\ PaidWithinWorth' /\ InstBounded' /\ FeesPaidWithin' /\ FeesBounded'
         /\ OneLive(fees')
<1>1. /\ plan \in [Installments -> AmountRow] /\ WithinOwed(plan)
      /\ PayFees(plan) /\ PayInstallments(plan) /\ contract.status = "active"
  BY DEF PaidBy
<1>2. /\ InstBounded /\ FeesBounded /\ FeesPaidWithin /\ OneLive(fees)
      /\ inst \in [Installments -> InstRow] /\ fees \in Seq(FeeRow)
  BY <1>1, SoundOpen DEF Sound
<1>3. /\ inst' \in [Installments -> InstRow]
      /\ \A i \in Installments :
           /\ SameWorth(inst[i], inst'[i])
           /\ inst'[i].principal_paid = inst[i].principal_paid + plan[i].principal
           /\ inst'[i].profit_paid = inst[i].profit_paid + plan[i].profit
  BY <1>1, <1>2, PayInstallmentsMeaning
<1>4. /\ fees' \in Seq(FeeRow) /\ DOMAIN fees' = DOMAIN fees
      /\ \A k \in DOMAIN fees :
           /\ SameFee(fees[k], fees'[k])
           /\ fees'[k].amount_paid
                = fees[k].amount_paid + FeeParts(plan)[fees[k].installment][k]
           /\ FeeParts(plan)[fees[k].installment][k] \in Nat
           /\ FeeParts(plan)[fees[k].installment][k] <= fees[k].amount - fees[k].amount_paid
           /\ FeeParts(plan)[fees[k].installment][k] <= plan[fees[k].installment].late_fee
           /\ k \notin LiveOf(fees, fees[k].installment)
                => FeeParts(plan)[fees[k].installment][k] = 0
  BY <1>1, <1>2, PayFeesMeaning DEF FeesPaidWithin
<1>5. \A i \in Installments :
        /\ Receivable[i].late_fee = late_fee_outstanding(i)
        /\ Receivable[i].profit
             = inst[i].profit - inst[i].profit_paid - inst[i].profit_written_off
        /\ Receivable[i].principal
             = inst[i].principal - inst[i].principal_paid - inst[i].principal_written_off
  BY <1>2, ReceivableMeaning
<1>6. ASSUME NEW i \in Installments
      PROVE  /\ inst'[i].principal_paid <= inst'[i].principal
             /\ inst'[i].profit_paid <= inst'[i].profit
             /\ inst'[i].principal_paid + inst'[i].principal_written_off <= inst'[i].principal
             /\ inst'[i].profit_paid + inst'[i].profit_written_off <= inst'[i].profit
  <2>1. PICK x \in InstRow, y \in InstRow : x = inst[i] /\ y = inst'[i]
    BY <1>2, <1>3
  <2>2. PICK b \in Nat, c \in Nat : b = plan[i].principal /\ c = plan[i].profit
    <3>1. plan[i] \in AmountRow
      BY <1>1
    <3> QED BY <3>1, AmountRowMeaning
  <2>3. /\ b <= x.principal - x.principal_paid - x.principal_written_off
        /\ c <= x.profit - x.profit_paid - x.profit_written_off
    BY <1>1, <1>5, <2>1, <2>2 DEF WithinOwed
  <2>4. /\ y.principal = x.principal /\ y.profit = x.profit
        /\ y.principal_written_off = x.principal_written_off
        /\ y.profit_written_off = x.profit_written_off
        /\ y.principal_paid = x.principal_paid + b /\ y.profit_paid = x.profit_paid + c
    BY <1>3, <2>1, <2>2 DEF SameWorth
  <2>5. /\ x.principal \in Nat /\ x.principal_paid \in Nat /\ x.principal_written_off \in Nat
        /\ x.profit \in Nat /\ x.profit_paid \in Nat /\ x.profit_written_off \in Nat
    BY InstRowMeaning
  <2>6. /\ y.principal_paid <= y.principal /\ y.profit_paid <= y.profit
        /\ y.principal_paid + y.principal_written_off <= y.principal
        /\ y.profit_paid + y.profit_written_off <= y.profit
    BY <2>3, <2>4, <2>5
  <2> QED BY <2>1, <2>6
<1>7. ASSUME NEW k \in DOMAIN fees
      PROVE  /\ fees'[k].amount_paid <= fees'[k].amount
             /\ fees'[k].amount_paid + fees'[k].amount_written_off <= fees'[k].amount
  <2>1. PICK c \in FeeRow : c = fees[k]
    BY <1>2, SequenceElement
  <2>2. PICK i \in Installments : i = fees[k].installment
    BY <2>1, FeeRowMeaning
  <2>3. PICK x \in Nat : x = FeeParts(plan)[i][k]
    BY <1>4, <2>2
  <2>4. /\ fees'[k].amount_paid = c.amount_paid + x /\ fees'[k].amount = c.amount
        /\ fees'[k].amount_written_off = c.amount_written_off
        /\ x <= c.amount - c.amount_paid /\ x <= plan[i].late_fee
        /\ k \notin LiveOf(fees, i) => x = 0
    BY <1>4, <2>1, <2>2, <2>3 DEF SameFee
  <2>5. c.amount \in Nat /\ c.amount_paid \in Nat /\ c.amount_written_off \in Nat
    BY FeeRowMeaning
  <2>6. c.amount_paid + c.amount_written_off <= c.amount
    BY <1>2, <2>1 DEF FeesBounded
  <2>7. CASE NotWaived(c)
    <3>1. late_fee_outstanding(i) = c.amount - c.amount_paid - c.amount_written_off
      BY <1>2, <2>1, <2>2, <2>7, LateFeeOfLive
    <3>2. PICK l \in Nat : l = plan[i].late_fee
      <4>1. plan[i] \in AmountRow
        BY <1>1
      <4> QED BY <4>1, AmountRowMeaning
    <3>3. l <= c.amount - c.amount_paid - c.amount_written_off
      BY <1>1, <1>5, <3>1, <3>2 DEF WithinOwed
    <3>4. x <= c.amount - c.amount_paid - c.amount_written_off
      BY <2>4, <2>5, <3>2, <3>3
    <3> QED BY <2>4, <2>5, <3>4
  <2>8. CASE ~NotWaived(c)
    <3>1. x = 0
      BY <2>1, <2>4, <2>8 DEF LiveOf, Live
    <3> QED BY <2>4, <2>5, <2>6, <3>1
  <2> QED BY <2>7, <2>8
<1>8. OneLive(fees')
  BY <1>2, <1>4, OneLiveKept DEF SameFee
<1> QED BY <1>3, <1>4, <1>6, <1>7, <1>8
        DEF PaidWithinWorth, InstBounded, FeesPaidWithin, FeesBounded

\* One more applied row leaves the other facts about payments as they were.
LEMMA OneMoreKeeps ==
  ASSUME payments \in Seq(PaymentRow), AppliedAreAsked, GatewayAddsUp,
         NEW p, OneMore(payments, p, payments'), p.reference \in Asked,
         p.source = "gateway" => Total(p.lines) = p.amount
  PROVE  payments' \in Seq(PaymentRow) /\ AppliedAreAsked' /\ GatewayAddsUp'
<1>1. PICK m \in Nat : m = Len(payments) /\ DOMAIN payments = 1..m
  BY SequenceIsFunction
<1>2. /\ payments' \in Seq(PaymentRow) /\ DOMAIN payments' = 1..(m + 1)
      /\ payments'[m + 1] = p /\ \A k \in 1..m : payments'[k] = payments[k]
  BY <1>1 DEF OneMore
<1>3. ASSUME NEW k \in 1..(m + 1)
      PROVE  /\ payments'[k].status = "applied" => payments'[k].reference \in Asked
             /\ payments'[k].source = "gateway" =>
                  Total(payments'[k].lines) = payments'[k].amount
  <2>1. CASE k = m + 1
    BY <1>2, <2>1
  <2>2. CASE k \in 1..m
    BY <1>1, <1>2, <2>2 DEF AppliedAreAsked, GatewayAddsUp
  <2> QED BY <2>1, <2>2
<1> QED BY <1>2, <1>3 DEF AppliedAreAsked, GatewayAddsUp

LEMMA TakenBackKeeps ==
  ASSUME payments \in Seq(PaymentRow), AppliedAreAsked, GatewayAddsUp,
         NEW n \in DOMAIN payments, TakenBack(payments, n, payments')
  PROVE  payments' \in Seq(PaymentRow) /\ AppliedAreAsked' /\ GatewayAddsUp'
<1>1. PICK m \in Nat : m = Len(payments) /\ DOMAIN payments = 1..m
  BY SequenceIsFunction
<1>2. /\ payments' \in Seq(PaymentRow) /\ DOMAIN payments' = 1..(m + 1)
      /\ \A k \in 1..m : SameMoney(payments[k], payments'[k])
      /\ \A k \in 1..m : k # n => payments'[k] = payments[k]
      /\ payments'[n].status = "reversed" /\ payments'[m + 1].status = "reversed"
      /\ SameMoney(payments[n], payments'[m + 1])
  BY <1>1 DEF TakenBack
<1>3. ASSUME NEW k \in 1..(m + 1)
      PROVE  /\ payments'[k].status = "applied" => payments'[k].reference \in Asked
             /\ payments'[k].source = "gateway" =>
                  Total(payments'[k].lines) = payments'[k].amount
  <2>1. CASE k = m + 1
    BY <1>1, <1>2, <2>1 DEF SameMoney, GatewayAddsUp
  <2>2. CASE k \in 1..m
    BY <1>1, <1>2, <2>2 DEF AppliedAreAsked, GatewayAddsUp, SameMoney
  <2> QED BY <2>1, <2>2
<1> QED BY <1>2, <1>3 DEF AppliedAreAsked, GatewayAddsUp

LEMMA PaidKeepsSound ==
  ASSUME Sound, NEW plan, NEW p, NEW a \in Nat, PaidBy(plan, p, a)
  PROVE  Sound'
<1>1. /\ plan \in [Installments -> AmountRow]
      /\ PayInstallments(plan) /\ contract.status = "active"
      /\ OneMore(payments, p, payments') /\ RowOf(p, plan) /\ p.amount = a
      /\ p.reference \in Asked /\ Total(plan) = a
      /\ unearned' = unearned - Column(plan, "profit")
      /\ Post([late_fee_paid |-> Column(plan, "late_fee"),
               profit_recognized |-> Column(plan, "profit"),
               principal_paid |-> Column(plan, "principal")])
      /\ contract' \in {contract, [status |-> "closed", closure |-> "normal"]}
      /\ rebate' = rebate
  BY DEF PaidBy
<1>2. /\ inst' \in [Installments -> InstRow] /\ fees' \in Seq(FeeRow)
      /\ PaidWithinWorth' /\ InstBounded' /\ FeesPaidWithin' /\ FeesBounded'
      /\ OneLive(fees')
  BY PaidStaysWithin
<1>3. /\ payments \in Seq(PaymentRow) /\ AppliedAreAsked /\ GatewayAddsUp
      /\ inst \in [Installments -> InstRow] /\ ledger \in [EntryTypes -> Int]
      /\ contract.closure = "none" /\ ContractTyped /\ rebate \in RebateAsks \cup {NoRebate}
  BY <1>1, SoundOpen DEF Sound, Typed
<1>4. payments' \in Seq(PaymentRow) /\ AppliedAreAsked' /\ GatewayAddsUp'
  BY <1>1, <1>3, OneMoreKeeps DEF RowOf
<1>5. ContractTyped' /\ ~ClearedEarly' /\ contract'.closure # "cancellation"
  BY <1>1, <1>3 DEF ContractTyped, ClearedEarly
<1>6. ledger' \in [EntryTypes -> Int]
  <2>1. PICK x \in Nat, y \in Nat, z \in Nat :
          /\ x = Column(plan, "late_fee") /\ y = Column(plan, "profit")
          /\ z = Column(plan, "principal")
    BY <1>1, ColumnsMeaning
  <2>2. Post([late_fee_paid |-> x, profit_recognized |-> y, principal_paid |-> z])
    BY <1>1, <2>1
  <2> DEFINE e == [late_fee_paid |-> x, profit_recognized |-> y, principal_paid |-> z]
  <2>3. \A t \in DOMAIN e : e[t] \in Int
    OBVIOUS
  <2> HIDE DEF e
  <2>4. Post(e)
    BY <2>2 DEF e
  <2> QED BY <1>3, <2>3, <2>4, PostMeaning
<1>7. \A i \in Installments :
        /\ inst'[i].profit = inst[i].profit
        /\ inst'[i].principal_paid = inst[i].principal_paid + plan[i].principal
        /\ inst'[i].profit_paid = inst[i].profit_paid + plan[i].profit
  BY <1>1, <1>3, PayInstallmentsMeaning DEF SameWorth
<1>8. ASSUME NEW i \in Installments
      PROVE  /\ HeldPrincipal(payments', i) <= inst'[i].principal_paid
             /\ HeldProfit(payments', i) <= inst'[i].profit_paid
  <2>1. /\ HeldPrincipal(payments', i) = HeldPrincipal(payments, i) + plan[i].principal
        /\ HeldProfit(payments', i) = HeldProfit(payments, i) + plan[i].profit
    BY <1>1, <1>3, PaidMore DEF RowOf
  <2>2. PICK x \in Nat, y \in Nat : x = plan[i].principal /\ y = plan[i].profit
    <3>1. plan[i] \in AmountRow
      BY <1>1
    <3> QED BY <3>1, AmountRowMeaning
  <2>3. PICK u \in Nat, v \in Nat : u = HeldPrincipal(payments, i) /\ v = HeldProfit(payments, i)
    BY <1>3, HeldAtLeast
  <2>4. PICK r \in InstRow : r = inst[i]
    BY <1>3
  <2>5. /\ u <= r.principal_paid /\ v <= r.profit_paid
        /\ r.principal_paid \in Nat /\ r.profit_paid \in Nat
    BY <2>3, <2>4, InstRowMeaning DEF Sound, Backed
  <2>6. u + x <= r.principal_paid + x /\ v + y <= r.profit_paid + y
    BY <2>5
  <2> QED BY <1>7, <2>1, <2>2, <2>3, <2>4, <2>6
<1>9. UnearnedAddsUp'
  <2>1. /\ Profits(plan) \in [Installments -> Nat]
        /\ Column(plan, "profit") = SumFunctionOnSet(Profits(plan), Installments)
    BY <1>1, ColumnsMeaning
  <2>2. PICK d \in [Installments -> Int] : d = Profits(plan)
    BY <2>1
  <2>3. \A i \in Installments : /\ inst'[i].profit = inst[i].profit
                                /\ inst'[i].profit_paid = inst[i].profit_paid + d[i]
    BY <1>7, <2>2 DEF Profits
  <2>4. SumFunctionOnSet(UnpaidOf(inst'), Installments)
          = SumFunctionOnSet(UnpaidOf(inst), Installments) - SumFunctionOnSet(d, Installments)
    BY <1>2, <1>3, <2>3, UnpaidDiffers
  <2>5. unearned = SumFunctionOnSet(UnpaidOf(inst), Installments)
    BY <1>3, UnearnedMeans
  <2>6. unearned' = SumFunctionOnSet(UnpaidOf(inst'), Installments)
    BY <1>1, <2>1, <2>2, <2>4, <2>5
  <2> QED BY <2>6, UnearnedMeans
<1>10. Typed'
  BY <1>1, <1>2, <1>3, <1>4, <1>5, <1>6 DEF Typed
<1> QED BY <1>2, <1>4, <1>8, <1>9, <1>10 DEF Sound, Backed

LEMMA TakenBackKeepsSound ==
  ASSUME Sound, NEW n, NEW lines, TakenBackBy(n, lines)
  PROVE  Sound'
<1>1. /\ n \in DOMAIN payments /\ payments[n].status = "applied" /\ payments[n].lines = lines
      /\ lines \in [Installments -> AmountRow]
      /\ \A i \in Installments : /\ lines[i].principal <= inst[i].principal_paid
                                 /\ lines[i].profit <= inst[i].profit_paid
      /\ TakenBack(payments, n, payments')
      /\ ReverseFees(lines) /\ ReverseInstallments(lines)
      /\ unearned' = unearned + Column(lines, "profit")
      /\ PostReversal(lines)
      /\ contract' = contract /\ rebate' = rebate
  BY DEF TakenBackBy
<1>2. /\ inst \in [Installments -> InstRow] /\ fees \in Seq(FeeRow)
      /\ payments \in Seq(PaymentRow) /\ AppliedAreAsked /\ GatewayAddsUp
      /\ ledger \in [EntryTypes -> Int] /\ ContractTyped /\ rebate \in RebateAsks \cup {NoRebate}
      /\ PaidWithinWorth /\ FeesPaidWithin /\ OneLive(fees)
      /\ ~ClearedEarly => InstBounded /\ FeesBounded
  BY DEF Sound, Typed
<1>3. /\ inst' \in [Installments -> InstRow]
      /\ \A i \in Installments :
           /\ SameWorth(inst[i], inst'[i])
           /\ inst'[i].principal_paid = inst[i].principal_paid - lines[i].principal
           /\ inst'[i].profit_paid = inst[i].profit_paid - lines[i].profit
  BY <1>1, <1>2, ReverseInstallmentsMeaning
<1>4. /\ fees' \in Seq(FeeRow) /\ DOMAIN fees' = DOMAIN fees
      /\ \A k \in DOMAIN fees : /\ SameFee(fees[k], fees'[k])
                                /\ fees'[k].amount_paid \in 0..fees[k].amount_paid
  BY <1>1, <1>2, ReverseFeesMeaning
<1>5. ASSUME NEW i \in Installments
      PROVE  /\ inst'[i].principal_paid <= inst'[i].principal
             /\ inst'[i].profit_paid <= inst'[i].profit
             /\ ~ClearedEarly =>
                  /\ inst'[i].principal_paid + inst'[i].principal_written_off
                       <= inst'[i].principal
                  /\ inst'[i].profit_paid + inst'[i].profit_written_off <= inst'[i].profit
             /\ HeldPrincipal(payments', i) <= inst'[i].principal_paid
             /\ HeldProfit(payments', i) <= inst'[i].profit_paid
  <2>1. PICK x \in InstRow, y \in InstRow : x = inst[i] /\ y = inst'[i]
    BY <1>2, <1>3
  <2>2. PICK b \in Nat, c \in Nat : b = lines[i].principal /\ c = lines[i].profit
    <3>1. lines[i] \in AmountRow
      BY <1>1
    <3> QED BY <3>1, AmountRowMeaning
  <2>3. /\ y.principal = x.principal /\ y.profit = x.profit
        /\ y.principal_written_off = x.principal_written_off
        /\ y.profit_written_off = x.profit_written_off
        /\ y.principal_paid = x.principal_paid - b /\ y.profit_paid = x.profit_paid - c
    BY <1>3, <2>1, <2>2 DEF SameWorth
  <2>4. /\ x.principal \in Nat /\ x.principal_paid \in Nat /\ x.principal_written_off \in Nat
        /\ x.profit \in Nat /\ x.profit_paid \in Nat /\ x.profit_written_off \in Nat
    BY InstRowMeaning
  <2>5. /\ x.principal_paid <= x.principal /\ x.profit_paid <= x.profit
        /\ ~ClearedEarly =>
             /\ x.principal_paid + x.principal_written_off <= x.principal
             /\ x.profit_paid + x.profit_written_off <= x.profit
    BY <1>2, <2>1 DEF PaidWithinWorth, InstBounded
  <2>6. /\ y.principal_paid <= y.principal /\ y.profit_paid <= y.profit
        /\ ~ClearedEarly =>
             /\ y.principal_paid + y.principal_written_off <= y.principal
             /\ y.profit_paid + y.profit_written_off <= y.profit
    BY <2>3, <2>4, <2>5
  <2>7. /\ HeldPrincipal(payments', i) = HeldPrincipal(payments, i) - b
        /\ HeldProfit(payments', i) = HeldProfit(payments, i) - c
    BY <1>1, <1>2, <2>2, PaidBack
  <2>8. PICK u \in Nat, v \in Nat : u = HeldPrincipal(payments, i) /\ v = HeldProfit(payments, i)
    BY <1>2, HeldAtLeast
  <2>9. u <= x.principal_paid /\ v <= x.profit_paid
    BY <2>1, <2>8 DEF Sound, Backed
  <2>10. u - b <= y.principal_paid /\ v - c <= y.profit_paid
    BY <2>3, <2>4, <2>9
  <2> QED BY <2>1, <2>6, <2>7, <2>8, <2>10
<1>6. ASSUME NEW k \in DOMAIN fees
      PROVE  /\ fees'[k].amount_paid <= fees'[k].amount
             /\ ~ClearedEarly =>
                  fees'[k].amount_paid + fees'[k].amount_written_off <= fees'[k].amount
  <2>1. PICK c \in FeeRow : c = fees[k]
    BY <1>2, SequenceElement
  <2>2. PICK x \in Nat : x = fees'[k].amount_paid /\ x <= c.amount_paid
    BY <1>4, <2>1, FeeRowMeaning
  <2>3. c.amount \in Nat /\ c.amount_paid \in Nat /\ c.amount_written_off \in Nat
    BY FeeRowMeaning
  <2>4. /\ c.amount_paid <= c.amount
        /\ ~ClearedEarly => c.amount_paid + c.amount_written_off <= c.amount
    BY <1>2, <2>1 DEF FeesPaidWithin, FeesBounded
  <2>5. x <= c.amount /\ (~ClearedEarly => x + c.amount_written_off <= c.amount)
    BY <2>2, <2>3, <2>4
  <2> QED BY <1>4, <2>1, <2>2, <2>5 DEF SameFee
<1>7. OneLive(fees')
  BY <1>2, <1>4, OneLiveKept DEF SameFee
<1>8. payments' \in Seq(PaymentRow) /\ AppliedAreAsked' /\ GatewayAddsUp'
  BY <1>1, <1>2, TakenBackKeeps
<1>9. PICK x \in Nat, y \in Nat, z \in Nat :
        /\ x = Column(lines, "late_fee") /\ y = Column(lines, "profit")
        /\ z = Column(lines, "principal")
  BY <1>1, ColumnsMeaning
<1>10. ledger' \in [EntryTypes -> Int]
  <2> DEFINE e == [late_fee_paid |-> -x, profit_recognized |-> -y, principal_paid |-> -z]
  <2>1. \A t \in DOMAIN e : e[t] \in Int
    OBVIOUS
  <2>2. Post(e)
    BY <1>1, <1>9 DEF PostReversal
  <2> HIDE DEF e
  <2> QED BY <1>2, <2>1, <2>2, PostMeaning
<1>11. UnearnedAddsUp'
  <2> SUFFICES ASSUME contract'.closure # "cancellation"
               PROVE  unearned' = SumFunctionOnSet(UnpaidOf(inst'), Installments)
    BY UnearnedMeans
  <2>1. /\ Profits(lines) \in [Installments -> Nat]
        /\ y = SumFunctionOnSet(Profits(lines), Installments)
    BY <1>1, <1>9, ColumnsMeaning
  <2>2. PICK d \in [Installments -> Int] : d = Profits(lines)
    BY <2>1
  <2>3. \A i \in Installments : /\ inst[i].profit = inst'[i].profit
                                /\ inst[i].profit_paid = inst'[i].profit_paid + d[i]
    <3> SUFFICES ASSUME NEW i \in Installments
                 PROVE  /\ inst[i].profit = inst'[i].profit
                        /\ inst[i].profit_paid = inst'[i].profit_paid + d[i]
      OBVIOUS
    <3>1. PICK r \in InstRow : r = inst[i]
      BY <1>2
    <3>2. PICK c \in Int : c = d[i] /\ c = lines[i].profit
      BY <2>2 DEF Profits
    <3>3. r.profit_paid \in Nat
      BY InstRowMeaning
    <3>4. inst'[i].profit_paid = r.profit_paid - c /\ inst'[i].profit = r.profit
      BY <1>3, <3>1, <3>2 DEF SameWorth
    <3> QED BY <3>1, <3>2, <3>3, <3>4
  <2>4. SumFunctionOnSet(UnpaidOf(inst), Installments)
          = SumFunctionOnSet(UnpaidOf(inst'), Installments) - SumFunctionOnSet(d, Installments)
    BY <1>2, <1>3, <2>3, UnpaidDiffers
  <2>5. unearned = SumFunctionOnSet(UnpaidOf(inst), Installments)
    BY <1>1, UnearnedMeans
  <2>6. \A i \in Installments : UnpaidOf(inst')[i] \in Int
    <3> SUFFICES ASSUME NEW i \in Installments PROVE UnpaidOf(inst')[i] \in Int
      OBVIOUS
    <3>1. PICK r \in InstRow : r = inst'[i]
      BY <1>3
    <3>2. r.profit - r.profit_paid \in Int
      BY InstRowMeaning
    <3> QED BY <3>1, <3>2 DEF UnpaidOf
  <2>7. SumFunctionOnSet(UnpaidOf(inst'), Installments) \in Int
    BY <2>6, InstallmentsAreFinite, SumInt
  <2>8. unearned' = unearned + y
    BY <1>1, <1>9
  <2> QED BY <2>1, <2>2, <2>4, <2>5, <2>7, <2>8
<1>12. ContractTyped' /\ (ClearedEarly' <=> ClearedEarly)
  BY <1>1, <1>2 DEF ContractTyped, ClearedEarly
<1>13. Typed'
  BY <1>1, <1>2, <1>3, <1>4, <1>8, <1>10, <1>12 DEF Typed
<1>14. PaidWithinWorth' /\ Backed' /\ (~ClearedEarly' => InstBounded')
  BY <1>5, <1>12 DEF PaidWithinWorth, Backed, InstBounded
<1>15. FeesPaidWithin' /\ (~ClearedEarly' => FeesBounded')
  BY <1>4, <1>6, <1>12 DEF FeesPaidWithin, FeesBounded
<1> QED BY <1>7, <1>8, <1>11, <1>13, <1>14, <1>15 DEF Sound

\* What closing out leaves, whoever pays for it.
LEMMA ClearedStaysWithin ==
  ASSUME Sound, NEW charged, NEW given, Cleared(charged, given)
  PROVE  /\ inst' \in [Installments -> InstRow] /\ fees' \in Seq(FeeRow)
         /\ PaidWithinWorth' /\ FeesPaidWithin' /\ OneLive(fees')
         /\ unearned' = 0 /\ unearned' = SumFunctionOnSet(UnpaidOf(inst'), Installments)
         /\ \A i \in Installments : /\ inst[i].principal_paid <= inst'[i].principal_paid
                                    /\ inst[i].profit_paid <= inst'[i].profit_paid
<1>1. CloseOutSchedule /\ inst \in [Installments -> InstRow] /\ fees \in Seq(FeeRow)
      /\ PaidWithinWorth /\ FeesPaidWithin /\ OneLive(fees)
  BY DEF Cleared, Sound, Typed
<1>2. /\ inst' \in [Installments -> InstRow]
      /\ \A i \in Installments :
           /\ SameWorth(inst[i], inst'[i])
           /\ inst'[i].principal_paid = inst[i].principal
           /\ inst'[i].profit_paid = inst[i].profit
      /\ CloseOutFees /\ unearned' = 0
  BY <1>1, CloseOutMeaning
<1>3. /\ fees' \in Seq(FeeRow) /\ DOMAIN fees' = DOMAIN fees
      /\ \A k \in DOMAIN fees :
           /\ SameFee(fees[k], fees'[k])
           /\ IF NotWaived(fees[k]) THEN fees'[k].amount_paid = fees[k].amount
                                    ELSE fees'[k] = fees[k]
  BY <1>1, <1>2, CloseOutFeesMeaning
<1>4. ASSUME NEW i \in Installments
      PROVE  /\ inst'[i].principal_paid = inst'[i].principal
             /\ inst'[i].profit_paid = inst'[i].profit
             /\ inst'[i].principal \in Nat /\ inst'[i].profit \in Nat
             /\ inst[i].principal_paid <= inst'[i].principal_paid
             /\ inst[i].profit_paid <= inst'[i].profit_paid
  <2>1. inst'[i] \in InstRow
    BY <1>2
  <2> QED BY <1>1, <1>2, <2>1, InstRowMeaning DEF SameWorth, PaidWithinWorth
<1>5. PaidWithinWorth'
  BY <1>4 DEF PaidWithinWorth
<1>6. ASSUME NEW k \in DOMAIN fees PROVE fees'[k].amount_paid <= fees'[k].amount
  <2>1. fees'[k] \in FeeRow
    BY <1>3, SequenceElement
  <2>2. fees'[k].amount \in Nat /\ fees'[k].amount = fees[k].amount
    BY <1>3, <2>1, FeeRowMeaning DEF SameFee
  <2>3. CASE NotWaived(fees[k])
    BY <1>3, <2>2, <2>3
  <2>4. CASE ~NotWaived(fees[k])
    BY <1>1, <1>3, <2>4 DEF FeesPaidWithin
  <2> QED BY <2>3, <2>4
<1>7. FeesPaidWithin'
  BY <1>3, <1>6 DEF FeesPaidWithin
<1>8. OneLive(fees')
  BY <1>1, <1>3, OneLiveKept DEF SameFee
<1>9. SumFunctionOnSet(UnpaidOf(inst'), Installments) = 0
  <2>1. \A i \in Installments : UnpaidOf(inst')[i] = 0
    BY <1>4 DEF UnpaidOf
  <2> QED BY <2>1, InstallmentsAreFinite, SumZero
<1> QED BY <1>2, <1>3, <1>4, <1>5, <1>7, <1>8, <1>9

LEMMA SettledKeepsSound ==
  ASSUME Sound, NEW charged, NEW given, NEW p, SettledBy(charged, given, p)
  PROVE  Sound'
<1>1. /\ Cleared(charged, given) /\ contract.status = "active"
      /\ charged \in Nat /\ given \in Nat /\ rebate' \in {rebate, NoRebate}
      /\ RowOf(p, NoLines) /\ p.reference \in Asked /\ p.source = "staff"
      /\ OneMore(payments, p, payments')
      /\ contract' = [status |-> "closed", closure |-> "early_settlement"]
      /\ Post([principal_paid |-> Owed("principal"), late_fee_paid |-> Owed("late_fee"),
               profit_recognized |-> charged, profit_rebated |-> given])
  BY DEF SettledBy, Cleared
<1>2. /\ payments \in Seq(PaymentRow) /\ AppliedAreAsked /\ GatewayAddsUp
      /\ inst \in [Installments -> InstRow] /\ ledger \in [EntryTypes -> Int]
      /\ rebate \in RebateAsks \cup {NoRebate}
  BY DEF Sound, Typed
<1>3. /\ inst' \in [Installments -> InstRow] /\ fees' \in Seq(FeeRow)
      /\ PaidWithinWorth' /\ FeesPaidWithin' /\ OneLive(fees')
      /\ unearned' = SumFunctionOnSet(UnpaidOf(inst'), Installments)
      /\ \A i \in Installments : /\ inst[i].principal_paid <= inst'[i].principal_paid
                                 /\ inst[i].profit_paid <= inst'[i].profit_paid
  BY <1>1, ClearedStaysWithin
<1>4. payments' \in Seq(PaymentRow) /\ AppliedAreAsked' /\ GatewayAddsUp'
  BY <1>1, <1>2, OneMoreKeeps
<1>5. ledger' \in [EntryTypes -> Int]
  <2>1. PICK x \in Nat, y \in Nat : x = Owed("principal") /\ y = Owed("late_fee")
    BY <1>1, OwedIsNat
  <2> DEFINE e == [principal_paid |-> x, late_fee_paid |-> y,
                   profit_recognized |-> charged, profit_rebated |-> given]
  <2>2. \A t \in DOMAIN e : e[t] \in Int
    BY <1>1
  <2>3. Post(e)
    BY <1>1, <2>1
  <2> HIDE DEF e
  <2> QED BY <1>2, <2>2, <2>3, PostMeaning
<1>6. ASSUME NEW i \in Installments
      PROVE  /\ HeldPrincipal(payments', i) <= inst'[i].principal_paid
             /\ HeldProfit(payments', i) <= inst'[i].profit_paid
  <2>1. /\ HeldPrincipal(payments', i) = HeldPrincipal(payments, i) + NoLines[i].principal
        /\ HeldProfit(payments', i) = HeldProfit(payments, i) + NoLines[i].profit
    BY <1>1, <1>2, PaidMore DEF RowOf
  <2>2. NoLines[i].principal = 0 /\ NoLines[i].profit = 0
    BY DEF NoLines
  <2>3. PICK u \in Nat, v \in Nat : u = HeldPrincipal(payments, i) /\ v = HeldProfit(payments, i)
    BY <1>2, HeldAtLeast
  <2>4. PICK x \in InstRow, y \in InstRow : x = inst[i] /\ y = inst'[i]
    BY <1>2, <1>3
  <2>5. /\ x.principal_paid \in Nat /\ x.profit_paid \in Nat
        /\ y.principal_paid \in Nat /\ y.profit_paid \in Nat
    BY InstRowMeaning
  <2>6. /\ u <= x.principal_paid /\ v <= x.profit_paid
        /\ x.principal_paid <= y.principal_paid /\ x.profit_paid <= y.profit_paid
    BY <1>3, <2>3, <2>4 DEF Sound, Backed
  <2>7. u <= y.principal_paid /\ v <= y.profit_paid
    BY <2>5, <2>6
  <2> QED BY <2>1, <2>2, <2>3, <2>4, <2>7
<1>7. UnearnedAddsUp'
  BY <1>3, UnearnedMeans
<1>8. ContractTyped' /\ ClearedEarly'
  BY <1>1 DEF ContractTyped, ClearedEarly
<1>9. Typed'
  BY <1>1, <1>2, <1>3, <1>4, <1>5, <1>8 DEF Typed
<1> QED BY <1>3, <1>4, <1>6, <1>7, <1>8, <1>9 DEF Sound, Backed

LEMMA ReturnedKeepsSound ==
  ASSUME Sound, NEW charged, NEW given, ReturnedBy(charged, given)
  PROVE  Sound'
<1>1. /\ Cleared(charged, given) /\ contract.status = "active"
      /\ charged \in Nat /\ given \in Nat /\ rebate' \in {rebate, NoRebate}
      /\ payments' = payments
      /\ contract' = [status |-> "closed", closure |-> "return"]
      /\ Post([return_principal_cleared |-> Owed("principal"),
               return_late_fee_cleared |-> Owed("late_fee"),
               return_profit_retained |-> charged, return_profit_waived |-> given])
  BY DEF ReturnedBy, Cleared
<1>2. /\ payments \in Seq(PaymentRow) /\ AppliedAreAsked /\ GatewayAddsUp
      /\ inst \in [Installments -> InstRow] /\ ledger \in [EntryTypes -> Int]
      /\ rebate \in RebateAsks \cup {NoRebate}
  BY DEF Sound, Typed
<1>3. /\ inst' \in [Installments -> InstRow] /\ fees' \in Seq(FeeRow)
      /\ PaidWithinWorth' /\ FeesPaidWithin' /\ OneLive(fees')
      /\ unearned' = SumFunctionOnSet(UnpaidOf(inst'), Installments)
      /\ \A i \in Installments : /\ inst[i].principal_paid <= inst'[i].principal_paid
                                 /\ inst[i].profit_paid <= inst'[i].profit_paid
  BY <1>1, ClearedStaysWithin
<1>4. payments' \in Seq(PaymentRow) /\ AppliedAreAsked' /\ GatewayAddsUp'
  BY <1>1, <1>2 DEF AppliedAreAsked, GatewayAddsUp
<1>5. ledger' \in [EntryTypes -> Int]
  <2>1. PICK x \in Nat, y \in Nat : x = Owed("principal") /\ y = Owed("late_fee")
    BY <1>1, OwedIsNat
  <2> DEFINE e == [return_principal_cleared |-> x, return_late_fee_cleared |-> y,
                   return_profit_retained |-> charged, return_profit_waived |-> given]
  <2>2. \A t \in DOMAIN e : e[t] \in Int
    BY <1>1
  <2>3. Post(e)
    BY <1>1, <2>1
  <2> HIDE DEF e
  <2> QED BY <1>2, <2>2, <2>3, PostMeaning
<1>6. ASSUME NEW i \in Installments
      PROVE  /\ HeldPrincipal(payments', i) <= inst'[i].principal_paid
             /\ HeldProfit(payments', i) <= inst'[i].profit_paid
  <2>1. PICK u \in Nat, v \in Nat : u = HeldPrincipal(payments, i) /\ v = HeldProfit(payments, i)
    BY <1>2, HeldAtLeast
  <2>2. PICK x \in InstRow, y \in InstRow : x = inst[i] /\ y = inst'[i]
    BY <1>2, <1>3
  <2>3. /\ x.principal_paid \in Nat /\ x.profit_paid \in Nat
        /\ y.principal_paid \in Nat /\ y.profit_paid \in Nat
    BY InstRowMeaning
  <2>4. /\ u <= x.principal_paid /\ v <= x.profit_paid
        /\ x.principal_paid <= y.principal_paid /\ x.profit_paid <= y.profit_paid
    BY <1>3, <2>1, <2>2 DEF Sound, Backed
  <2>5. u <= y.principal_paid /\ v <= y.profit_paid
    BY <2>3, <2>4
  <2> QED BY <1>1, <2>1, <2>2, <2>5
<1>7. UnearnedAddsUp'
  BY <1>3, UnearnedMeans
<1>8. ContractTyped' /\ ClearedEarly'
  BY <1>1 DEF ContractTyped, ClearedEarly
<1>9. Typed'
  BY <1>1, <1>2, <1>3, <1>4, <1>5, <1>8 DEF Typed
<1> QED BY <1>3, <1>4, <1>6, <1>7, <1>8, <1>9 DEF Sound, Backed

LEMMA WrittenOffKeepsSound ==
  ASSUME Sound, NEW ask \in AmountRow, NEW p, NEW q, NEW r, WrittenOffBy(ask, p, q, r)
  PROVE  Sound'
<1>1. /\ contract.status = "active"
      /\ p \in [Installments -> Nat] /\ q \in [Installments -> Nat]
      /\ r \in [DOMAIN fees -> Nat]
      /\ inst' \in [Installments -> InstRow]
      /\ \A i \in Installments :
           /\ p[i] <= Receivable[i].principal /\ q[i] <= Receivable[i].profit
           /\ SamePaid(inst[i], inst'[i])
           /\ inst'[i].principal_written_off = inst[i].principal_written_off + p[i]
           /\ inst'[i].profit_written_off = inst[i].profit_written_off + q[i]
      /\ fees' \in Seq(FeeRow) /\ DOMAIN fees' = DOMAIN fees
      /\ \A k \in DOMAIN fees :
           /\ r[k] <= fee_outstanding(fees[k])
           /\ fees'[k].installment = fees[k].installment
           /\ fees'[k].amount = fees[k].amount
           /\ fees'[k].amount_paid = fees[k].amount_paid
           /\ fees'[k].amount_written_off = fees[k].amount_written_off + r[k]
           /\ NotWaived(fees'[k]) <=> NotWaived(fees[k])
      /\ Post([principal_written_off |-> ask.principal, profit_written_off |-> ask.profit,
               late_fee_written_off |-> ask.late_fee])
      /\ contract' \in {contract, [status |-> "closed", closure |-> "write_off"]}
      /\ unearned' = unearned /\ payments' = payments /\ rebate' = rebate
  BY DEF WrittenOffBy
<1>2. /\ inst \in [Installments -> InstRow] /\ fees \in Seq(FeeRow)
      /\ payments \in Seq(PaymentRow) /\ AppliedAreAsked /\ GatewayAddsUp
      /\ ledger \in [EntryTypes -> Int] /\ ContractTyped /\ rebate \in RebateAsks \cup {NoRebate}
      /\ PaidWithinWorth /\ FeesPaidWithin /\ OneLive(fees) /\ InstBounded /\ FeesBounded
      /\ contract.closure = "none"
  BY <1>1, SoundOpen DEF Sound, Typed
<1>3. \A i \in Installments :
        /\ Receivable[i].profit
             = inst[i].profit - inst[i].profit_paid - inst[i].profit_written_off
        /\ Receivable[i].principal
             = inst[i].principal - inst[i].principal_paid - inst[i].principal_written_off
  BY <1>2, ReceivableMeaning
<1>4. ASSUME NEW i \in Installments
      PROVE  /\ inst'[i].principal_paid + inst'[i].principal_written_off <= inst'[i].principal
             /\ inst'[i].profit_paid + inst'[i].profit_written_off <= inst'[i].profit
  <2>1. PICK x \in InstRow, y \in InstRow : x = inst[i] /\ y = inst'[i]
    BY <1>1, <1>2
  <2>2. PICK b \in Nat, c \in Nat : b = p[i] /\ c = q[i]
    BY <1>1
  <2>3. /\ b <= x.principal - x.principal_paid - x.principal_written_off
        /\ c <= x.profit - x.profit_paid - x.profit_written_off
    BY <1>1, <1>3, <2>1, <2>2
  <2>4. /\ y.principal = x.principal /\ y.profit = x.profit
        /\ y.principal_paid = x.principal_paid /\ y.profit_paid = x.profit_paid
        /\ y.principal_written_off = x.principal_written_off + b
        /\ y.profit_written_off = x.profit_written_off + c
    BY <1>1, <2>1, <2>2 DEF SamePaid
  <2>5. /\ x.principal \in Nat /\ x.principal_paid \in Nat /\ x.principal_written_off \in Nat
        /\ x.profit \in Nat /\ x.profit_paid \in Nat /\ x.profit_written_off \in Nat
    BY InstRowMeaning
  <2>6. /\ y.principal_paid + y.principal_written_off <= y.principal
        /\ y.profit_paid + y.profit_written_off <= y.profit
    BY <2>3, <2>4, <2>5
  <2> QED BY <2>1, <2>6
<1>5. ASSUME NEW k \in DOMAIN fees
      PROVE  fees'[k].amount_paid + fees'[k].amount_written_off <= fees'[k].amount
  <2>1. PICK c \in FeeRow : c = fees[k]
    BY <1>2, SequenceElement
  <2>2. c.amount_paid + c.amount_written_off <= c.amount
    BY <1>2, <2>1 DEF FeesBounded
  <2>3. PICK o \in Nat : /\ o = fee_outstanding(c)
                         /\ o <= c.amount - c.amount_paid - c.amount_written_off
    BY <2>2, FeeOutstandingMeaning
  <2>4. PICK x \in Nat : x = r[k]
    BY <1>1
  <2>5. /\ x <= o /\ fees'[k].amount = c.amount /\ fees'[k].amount_paid = c.amount_paid
        /\ fees'[k].amount_written_off = c.amount_written_off + x
    BY <1>1, <2>1, <2>3, <2>4
  <2>6. c.amount \in Nat /\ c.amount_paid \in Nat /\ c.amount_written_off \in Nat
    BY FeeRowMeaning
  <2> QED BY <2>3, <2>5, <2>6
<1>6. PaidWithinWorth' /\ FeesPaidWithin' /\ Backed'
  BY <1>1, <1>2 DEF PaidWithinWorth, FeesPaidWithin, Backed, SamePaid, Sound
<1>7. InstBounded' /\ FeesBounded'
  BY <1>1, <1>4, <1>5 DEF InstBounded, FeesBounded
<1>8. OneLive(fees')
  BY <1>1, <1>2, OneLiveKept
<1>9. ledger' \in [EntryTypes -> Int]
  <2>1. PICK x \in Nat, y \in Nat, z \in Nat :
          x = ask.principal /\ y = ask.profit /\ z = ask.late_fee
    BY AmountRowMeaning
  <2> DEFINE e == [principal_written_off |-> x, profit_written_off |-> y,
                   late_fee_written_off |-> z]
  <2>2. \A t \in DOMAIN e : e[t] \in Int
    OBVIOUS
  <2>3. Post(e)
    BY <1>1, <2>1
  <2> HIDE DEF e
  <2> QED BY <1>2, <2>2, <2>3, PostMeaning
<1>10. UnearnedAddsUp'
  <2>1. UnpaidOf(inst') = UnpaidOf(inst)
    BY <1>1 DEF UnpaidOf, SamePaid
  <2>2. unearned = SumFunctionOnSet(UnpaidOf(inst), Installments)
    BY <1>2, UnearnedMeans
  <2> QED BY <1>1, <2>1, <2>2, UnearnedMeans
<1>11. payments' \in Seq(PaymentRow) /\ AppliedAreAsked' /\ GatewayAddsUp'
  BY <1>1, <1>2 DEF AppliedAreAsked, GatewayAddsUp
<1>12. ContractTyped'
  BY <1>1, <1>2 DEF ContractTyped
<1>13. Typed'
  BY <1>1, <1>2, <1>9, <1>11, <1>12 DEF Typed
<1> QED BY <1>6, <1>7, <1>8, <1>10, <1>11, <1>13 DEF Sound

\* What the overdue job changes: a status, and charges for what is past due.
Marked(x, y) == /\ SameWorth(x, y) /\ SamePaid(x, y)
                /\ y.status = x.status \/ (y.status = "overdue" /\ ~is_fully_paid(x))

ChargedBy(day) ==
  /\ inst' \in [Installments -> InstRow]
  /\ \A i \in Installments : Marked(inst[i], inst'[i])
  /\ Grown(fees', Len(Schedule), day)
  /\ OneLive(fees') /\ (CapKept(fees) => CapKept(fees'))
  /\ contract' = contract /\ unearned' = unearned /\ payments' = payments
  /\ ledger' = ledger /\ rebate' = rebate

LEMMA ChargeEffect ==
  ASSUME Sound, NEW day, AssessOverdue(day)
  PROVE  ChargedBy(day)
<1>1. inst \in [Installments -> InstRow] /\ fees \in Seq(FeeRow) /\ OneLive(fees)
  BY DEF Sound, Typed
<1>2. Grown(fees', Len(Schedule), day) /\ OneLive(fees') /\ (CapKept(fees) => CapKept(fees'))
  BY <1>1, AssessFeesMeaning DEF AssessOverdue
<1>3. inst' = [i \in Installments |-> IF i \in NewlyOverdue(day)
                                      THEN WithStatus(inst[i], "overdue") ELSE inst[i]]
  BY DEF AssessOverdue, MarkOverdue, WithStatus
<1>4. ASSUME NEW i \in Installments PROVE inst'[i] \in InstRow /\ Marked(inst[i], inst'[i])
  <2>1. PICK x \in InstRow : x = inst[i]
    BY <1>1
  <2>2. CASE i \in NewlyOverdue(day)
    <3>1. ~is_fully_paid(x)
      BY <2>1, <2>2 DEF NewlyOverdue
    <3>2. inst'[i] = WithStatus(x, "overdue")
      BY <1>3, <2>1, <2>2
    <3>3. "overdue" \in InstStatus
      BY DEF InstStatus
    <3>4. PICK y : y = WithStatus(x, "overdue")
      OBVIOUS
    <3>5. /\ y \in InstRow /\ SameWorth(x, y) /\ y.status = "overdue"
          /\ y.principal_paid = x.principal_paid /\ y.profit_paid = x.profit_paid
      BY <3>3, <3>4, WithStatusMeaning
    <3> QED BY <2>1, <3>1, <3>2, <3>4, <3>5 DEF Marked, SameWorth, SamePaid
  <2>3. CASE i \notin NewlyOverdue(day)
    <3>1. inst'[i] = x
      BY <1>3, <2>1, <2>3
    <3>2. Marked(x, x)
      BY DEF Marked, SameWorth, SamePaid
    <3> QED BY <2>1, <3>1, <3>2
  <2> QED BY <2>2, <2>3
<1>5. inst' \in [Installments -> InstRow]
  <2>1. inst' = [i \in Installments |-> inst'[i]]
    BY <1>3
  <2> QED BY <1>4, <2>1
<1>6. /\ contract' = contract /\ unearned' = unearned /\ payments' = payments
      /\ ledger' = ledger /\ rebate' = rebate
  BY DEF AssessOverdue
<1> QED BY <1>2, <1>4, <1>5, <1>6 DEF ChargedBy

LEMMA ChargedKeepsSound ==
  ASSUME Sound, NEW day, ChargedBy(day)
  PROVE  Sound'
<1>1. /\ inst' \in [Installments -> InstRow]
      /\ \A i \in Installments : Marked(inst[i], inst'[i])
      /\ Grown(fees', Len(Schedule), day) /\ OneLive(fees')
      /\ contract' = contract /\ unearned' = unearned /\ payments' = payments
      /\ ledger' = ledger /\ rebate' = rebate
  BY DEF ChargedBy
<1>2. /\ inst \in [Installments -> InstRow] /\ fees \in Seq(FeeRow)
      /\ payments \in Seq(PaymentRow) /\ AppliedAreAsked /\ GatewayAddsUp
      /\ ledger \in [EntryTypes -> Int] /\ ContractTyped /\ rebate \in RebateAsks \cup {NoRebate}
      /\ PaidWithinWorth /\ FeesPaidWithin /\ Backed
      /\ ~ClearedEarly => InstBounded /\ FeesBounded
  BY DEF Sound, Typed
<1>3. fees' \in Seq(FeeRow)
  BY <1>1 DEF Grown
<1>4. ASSUME NEW k \in DOMAIN fees'
      PROVE  /\ fees'[k].amount_paid <= fees'[k].amount
             /\ FeesBounded =>
                  fees'[k].amount_paid + fees'[k].amount_written_off <= fees'[k].amount
  <2>1. CASE k \in DOMAIN fees
    <3>1. fees'[k] = fees[k]
      BY <1>1, <2>1 DEF Grown
    <3> QED BY <1>2, <2>1, <3>1 DEF FeesPaidWithin, FeesBounded
  <2>2. CASE k \notin DOMAIN fees
    <3>1. k > Len(fees)
      BY <1>2, <1>3, <2>2, SequenceIsFunction
    <3>2. fees'[k].amount_paid = 0 /\ fees'[k].amount_written_off = 0
      BY <1>1, <3>1 DEF Grown, IsNew
    <3>3. fees'[k].amount \in Nat
      BY <1>3, SequenceElement, FeeRowMeaning
    <3> QED BY <3>2, <3>3
  <2> QED BY <2>1, <2>2
<1>5. FeesPaidWithin' /\ (FeesBounded => FeesBounded')
  BY <1>4 DEF FeesPaidWithin, FeesBounded
<1>6. PaidWithinWorth' /\ (InstBounded => InstBounded') /\ Backed'
  BY <1>1, <1>2 DEF PaidWithinWorth, InstBounded, Backed, Marked, SamePaid, SameWorth
<1>7. ~ClearedEarly' => InstBounded' /\ FeesBounded'
  BY <1>1, <1>2, <1>5, <1>6 DEF ClearedEarly
<1>8. UnearnedAddsUp'
  <2>1. UnpaidOf(inst') = UnpaidOf(inst)
    BY <1>1 DEF UnpaidOf, Marked, SamePaid
  <2> QED BY <1>1, <2>1, UnearnedMeans
<1>9. AppliedAreAsked' /\ GatewayAddsUp' /\ ContractTyped'
  BY <1>1, <1>2 DEF AppliedAreAsked, GatewayAddsUp, ContractTyped
<1>10. Typed'
  BY <1>1, <1>2, <1>3, <1>9 DEF Typed
<1> QED BY <1>1, <1>5, <1>6, <1>7, <1>8, <1>9, <1>10 DEF Sound

\* What approving a waiver changes: charge k is waived, and nothing else is.
WaivedBy(k) ==
  /\ k \in DOMAIN fees
  /\ fees' \in Seq(FeeRow) /\ DOMAIN fees' = DOMAIN fees
  /\ \A j \in DOMAIN fees :
       /\ fees'[j].installment = fees[j].installment /\ fees'[j].amount = fees[j].amount
       /\ fees'[j].amount_paid = fees[j].amount_paid
       /\ fees'[j].amount_written_off = fees[j].amount_written_off
       /\ NotWaived(fees'[j]) => NotWaived(fees[j])
       /\ fees'[j].status \in {fees[j].status, "waived"}
  /\ ledger' \in [EntryTypes -> Int]
  /\ \A t \in EntryTypes \ {"late_fee_waived"} : ledger'[t] = ledger[t]
  /\ contract' = contract /\ unearned' = unearned /\ inst' = inst /\ payments' = payments
  /\ rebate' = rebate

LEMMA WaiverEffect ==
  ASSUME Sound, NEW k \in DOMAIN fees, ApproveWaiver(k)
  PROVE  WaivedBy(k)
<1>1. /\ fees \in Seq(FeeRow) /\ FeesPaidWithin /\ ledger \in [EntryTypes -> Int]
  BY DEF Sound, Typed
<1>2. PICK m \in Nat : m = Len(fees) /\ fees \in [1..m -> FeeRow] /\ DOMAIN fees = 1..m
  BY <1>1, SequenceIsFunction
<1>3. PICK c \in FeeRow : c = fees[k]
  BY <1>2
<1> DEFINE d == [c EXCEPT !.status = "waived"]
<1>4. /\ d \in FeeRow /\ d.installment = c.installment /\ d.amount = c.amount
      /\ d.amount_paid = c.amount_paid /\ d.amount_written_off = c.amount_written_off
      /\ d.status = "waived"
  BY DEF FeeRow, FeeStatus
<1>5. fees' = [fees EXCEPT ![k] = d]
  BY <1>2, <1>3 DEF ApproveWaiver
<1> HIDE DEF d
<1>6. fees' \in [1..m -> FeeRow]
  BY <1>2, <1>4, <1>5
<1>7. fees'[k] = d /\ \A j \in 1..m : j # k => fees'[j] = fees[j]
  BY <1>2, <1>5
<1>8. fees' \in Seq(FeeRow) /\ DOMAIN fees' = DOMAIN fees
  BY <1>2, <1>6, FunctionIsSequence
<1>9. \A j \in DOMAIN fees :
        /\ fees'[j].installment = fees[j].installment /\ fees'[j].amount = fees[j].amount
        /\ fees'[j].amount_paid = fees[j].amount_paid
        /\ fees'[j].amount_written_off = fees[j].amount_written_off
        /\ NotWaived(fees'[j]) => NotWaived(fees[j])
        /\ fees'[j].status \in {fees[j].status, "waived"}
  BY <1>2, <1>3, <1>4, <1>7 DEF NotWaived
<1>10. PICK w \in Nat : w = c.amount - c.amount_paid
  <2>1. c.amount_paid <= c.amount /\ c.amount \in Nat /\ c.amount_paid \in Nat
    BY <1>1, <1>3, FeeRowMeaning DEF FeesPaidWithin
  <2> QED BY <2>1
<1>11. Post([late_fee_waived |-> w])
  BY <1>3, <1>10, MaxWithZero DEF ApproveWaiver
<1>12. /\ ledger' \in [EntryTypes -> Int]
       /\ \A t \in EntryTypes \ {"late_fee_waived"} : ledger'[t] = ledger[t]
  <2> DEFINE e == [late_fee_waived |-> w]
  <2>1. DOMAIN e = {"late_fee_waived"} /\ \A t \in DOMAIN e : e[t] \in Int
    OBVIOUS
  <2>2. Post(e)
    BY <1>11
  <2> HIDE DEF e
  <2>3. /\ ledger' \in [EntryTypes -> Int]
        /\ \A t \in EntryTypes : ledger'[t] = ledger[t] + IF t \in DOMAIN e THEN e[t] ELSE 0
    BY <1>1, <2>1, <2>2, PostMeaning
  <2> QED BY <1>1, <2>1, <2>3
<1>13. /\ contract' = contract /\ unearned' = unearned /\ inst' = inst
       /\ payments' = payments /\ rebate' = rebate
  BY DEF ApproveWaiver
<1> QED BY <1>8, <1>9, <1>12, <1>13 DEF WaivedBy

LEMMA WaivedKeepsSound ==
  ASSUME Sound, NEW k, WaivedBy(k)
  PROVE  Sound'
<1>1. /\ fees' \in Seq(FeeRow) /\ DOMAIN fees' = DOMAIN fees
      /\ \A j \in DOMAIN fees :
           /\ fees'[j].installment = fees[j].installment /\ fees'[j].amount = fees[j].amount
           /\ fees'[j].amount_paid = fees[j].amount_paid
           /\ fees'[j].amount_written_off = fees[j].amount_written_off
           /\ NotWaived(fees'[j]) => NotWaived(fees[j])
      /\ ledger' \in [EntryTypes -> Int]
      /\ contract' = contract /\ unearned' = unearned /\ inst' = inst
      /\ payments' = payments /\ rebate' = rebate
  BY DEF WaivedBy
<1>2. OneLive(fees)
  BY DEF Sound
<1>3. OneLive(fees')
  BY <1>1, <1>2, OneLiveKept
<1>4. FeesPaidWithin' /\ (FeesBounded => FeesBounded')
  <2>1. FeesPaidWithin
    BY DEF Sound
  <2> QED BY <1>1, <2>1 DEF FeesPaidWithin, FeesBounded
<1>5. /\ GatewayAddsUp' /\ PaidWithinWorth' /\ Backed' /\ UnearnedAddsUp'
      /\ (InstBounded => InstBounded') /\ (ClearedEarly' <=> ClearedEarly)
  BY <1>1 DEF Sound, GatewayAddsUp, PaidWithinWorth, Backed, UnearnedAddsUp, InstBounded,
              ClearedEarly
<1>6. Typed'
  BY <1>1 DEF Sound, Typed, ContractTyped, AppliedAreAsked
<1>7. ~ClearedEarly => InstBounded /\ FeesBounded
  BY DEF Sound
<1> QED BY <1>3, <1>4, <1>5, <1>6, <1>7 DEF Sound


\* Delivery, and cancelling before it.
LEMMA DeliveredKeepsSound ==
  ASSUME Sound, ConfirmDelivery
  PROVE  Sound'
<1>1. /\ contract.status = "created" /\ contract' = [contract EXCEPT !.status = "active"]
      /\ unearned' = unearned /\ inst' = inst /\ fees' = fees /\ payments' = payments
      /\ ledger' = ledger /\ rebate' = rebate
  BY DEF ConfirmDelivery, money
<1>2. /\ ~ClearedEarly /\ contract.closure = "none" /\ ContractTyped
      /\ InstBounded /\ FeesBounded
  BY <1>1, SoundOpen DEF Sound, Typed
<1>3. ContractTyped' /\ contract'.closure = "none"
  BY <1>1, <1>2 DEF ContractTyped
<1>4. Typed'
  BY <1>1, <1>3 DEF Sound, Typed, AppliedAreAsked
<1>5. /\ GatewayAddsUp' /\ PaidWithinWorth' /\ FeesPaidWithin' /\ Backed' /\ OneLive(fees')
      /\ InstBounded' /\ FeesBounded'
  BY <1>1, <1>2 DEF Sound, GatewayAddsUp, PaidWithinWorth, FeesPaidWithin, Backed,
                    InstBounded, FeesBounded
<1>6. UnearnedAddsUp'
  BY <1>1, <1>2, UnearnedMeans
<1> QED BY <1>4, <1>5, <1>6 DEF Sound

LEMMA CancelledKeepsSound ==
  ASSUME Sound, CancelContract
  PROVE  Sound'
<1>1. /\ contract.status = "created"
      /\ contract' = [status |-> "closed", closure |-> "cancellation"]
      /\ inst' = inst /\ fees' = fees /\ payments' = payments
      /\ ledger' = ledger /\ rebate' = rebate
  BY DEF CancelContract
<1>2. InstBounded /\ FeesBounded
  BY <1>1, SoundOpen
<1>3. ContractTyped' /\ contract'.closure = "cancellation"
  BY <1>1 DEF ContractTyped
<1>4. Typed'
  BY <1>1, <1>3 DEF Sound, Typed, AppliedAreAsked
<1>5. /\ GatewayAddsUp' /\ PaidWithinWorth' /\ FeesPaidWithin' /\ Backed' /\ OneLive(fees')
      /\ InstBounded' /\ FeesBounded'
  BY <1>1, <1>2 DEF Sound, GatewayAddsUp, PaidWithinWorth, FeesPaidWithin, Backed,
                    InstBounded, FeesBounded
<1>6. UnearnedAddsUp'
  BY <1>3 DEF UnearnedAddsUp
<1> QED BY <1>4, <1>5, <1>6 DEF Sound

\* Steps that leave the contract and its money alone.
Quiet == contract' = contract /\ money' = money /\ rebate' \in RebateAsks \cup {NoRebate}

LEMMA QuietKeepsSound ==
  ASSUME Sound, Quiet
  PROVE  Sound'
<1>1. /\ contract' = contract /\ unearned' = unearned /\ inst' = inst /\ fees' = fees
      /\ payments' = payments /\ ledger' = ledger
      /\ rebate' \in RebateAsks \cup {NoRebate}
  BY DEF Quiet, money
<1>2. Typed'
  BY <1>1 DEF Sound, Typed, ContractTyped, AppliedAreAsked
<1> QED BY <1>1, <1>2 DEF Sound, GatewayAddsUp, PaidWithinWorth, FeesPaidWithin, Backed,
                          ClearedEarly, InstBounded, FeesBounded, UnearnedAddsUp

\* Every step of a contract is one of these.
ServicingStep ==
  \/ Quiet
  \/ ConfirmDelivery
  \/ CancelContract
  \/ \E plan, p : \E a \in Nat : PaidBy(plan, p, a)
  \/ \E n, lines : TakenBackBy(n, lines)
  \/ \E day : ChargedBy(day)
  \/ \E k : WaivedBy(k)
  \/ \E charged, given, p : SettledBy(charged, given, p)
  \/ \E charged, given : ReturnedBy(charged, given)

LEMMA ServicingSteps ==
  ASSUME Sound, [ServicingNext]_cvars
  PROVE  ServicingStep
<1>0. rebate \in RebateAsks \cup {NoRebate}
  BY DEF Sound, Typed
<1>1. CASE UNCHANGED cvars
  BY <1>0, <1>1 DEF cvars, Quiet, ServicingStep
<1>2. CASE ConfirmDelivery \/ CancelContract
  BY <1>2 DEF ServicingStep
<1>3. ASSUME NEW source \in {"staff", "gateway"},
             NEW a \in Amounts, NEW r \in StaffReferences \cup GatewayReferences,
             RecordPayment(source, r, a)
      PROVE  ServicingStep
  <2>1. a \in Nat \ {0} /\ r \in Asked
    BY ServicingAssumption DEF Asked
  <2> QED BY <1>3, <2>1, PaymentEffect DEF ServicingStep
<1>4. ASSUME NEW n \in DOMAIN payments, ReverseSettledPayment(n)
      PROVE  ServicingStep
  BY <1>4, ReversalEffect DEF ServicingStep
<1>5. ASSUME NEW day \in Days, AssessOverdue(day)
      PROVE  ServicingStep
  BY <1>5, ChargeEffect DEF ServicingStep
<1>6. ASSUME NEW k \in DOMAIN fees, RequestWaiver(k) \/ RejectWaiver(k)
      PROVE  ServicingStep
  BY <1>0, <1>6 DEF RequestWaiver, RejectWaiver, Quiet, ServicingStep
<1>7. ASSUME NEW k \in DOMAIN fees, ApproveWaiver(k)
      PROVE  ServicingStep
  BY <1>7, WaiverEffect DEF ServicingStep
<1>8. ASSUME NEW a \in PromiseAmounts, NEW day \in Days, LogPromise(a, day)
      PROVE  ServicingStep
  BY <1>0, <1>8 DEF LogPromise, Quiet, ServicingStep
<1>9. ASSUME NEW verdict \in StaffVerdicts, SetPromiseStatus(verdict)
      PROVE  ServicingStep
  BY <1>0, <1>9 DEF SetPromiseStatus, Quiet, ServicingStep
<1>10. ASSUME NEW r \in SettleReferences, Settle(r)
       PROVE  ServicingStep
  <2>1. SettleContract(Default, r) /\ rebate' \in {rebate, NoRebate}
    BY <1>10 DEF Settle
  <2>2. Default \in Rebates
    BY RebatesMeaning
  <2> QED BY <2>1, <2>2, SettlementEffect DEF ServicingStep
<1>11. ASSUME NEW r \in SettleReferences, ApproveRebate(r)
       PROVE  ServicingStep
  <2>1. SettleContract(rebate, r) /\ rebate' \in {rebate, NoRebate} /\ rebate # NoRebate
    BY <1>11 DEF ApproveRebate
  <2>2. rebate \in Rebates
    BY <1>0, <2>1, RebatesMeaning
  <2> QED BY <2>1, <2>2, SettlementEffect DEF ServicingStep
<1>12. ASSUME NEW ask \in RebateAsks, RequestRebate(ask)
       PROVE  ServicingStep
  BY <1>12 DEF RequestRebate, Quiet, ServicingStep
<1>13. CASE RejectRebate
  BY <1>13 DEF RejectRebate, Quiet, ServicingStep
<1>14. CASE ReturnContract
  BY <1>14, ReturnEffect DEF ServicingStep
<1> QED BY <1>1, <1>2, <1>3, <1>4, <1>5, <1>6, <1>7, <1>8, <1>9, <1>10, <1>11, <1>12, <1>13,
           <1>14 DEF ServicingNext

LEMMA StepKeepsSound ==
  ASSUME Sound, ServicingStep
  PROVE  Sound'
BY QuietKeepsSound, DeliveredKeepsSound, CancelledKeepsSound, PaidKeepsSound,
   TakenBackKeepsSound, ChargedKeepsSound, WaivedKeepsSound, SettledKeepsSound,
   ReturnedKeepsSound DEF ServicingStep

LEMMA SoundAtFirst ==
  ASSUME Init
  PROVE  Sound
<1>1. /\ contract = [status |-> "created", closure |-> "none"]
      /\ fees = <<>> /\ payments = <<>> /\ rebate = NoRebate
      /\ ledger = [t \in EntryTypes |-> 0]
      /\ unearned = SumFunction([i \in Installments |-> Schedule[i].profit])
      /\ inst = [i \in Installments |->
                   [principal |-> Schedule[i].principal, profit |-> Schedule[i].profit,
                    principal_paid |-> 0, profit_paid |-> 0,
                    principal_written_off |-> 0, profit_written_off |-> 0,
                    status |-> "pending"]]
  BY DEF Init
<1>2. /\ inst \in [Installments -> InstRow]
      /\ \A i \in Installments :
           /\ inst[i].profit = Schedule[i].profit
           /\ inst[i].principal_paid = 0 /\ inst[i].profit_paid = 0
           /\ inst[i].principal_written_off = 0 /\ inst[i].profit_written_off = 0
  <2>1. ASSUME NEW i \in Installments
        PROVE  [principal |-> Schedule[i].principal, profit |-> Schedule[i].profit,
                principal_paid |-> 0, profit_paid |-> 0,
                principal_written_off |-> 0, profit_written_off |-> 0,
                status |-> "pending"] \in InstRow
    <3>1. PICK x \in Nat, y \in Nat : x = Schedule[i].principal /\ y = Schedule[i].profit
      BY ScheduleMeaning
    <3> QED BY <3>1 DEF InstRow, InstStatus
  <2> QED BY <1>1, <2>1
<1>3. /\ fees \in Seq(FeeRow) /\ DOMAIN fees = {} /\ payments \in Seq(PaymentRow)
      /\ DOMAIN payments = {}
  BY <1>1
<1>4. ContractTyped /\ AppliedAreAsked /\ GatewayAddsUp /\ FeesPaidWithin /\ FeesBounded
      /\ OneLive(fees) /\ rebate \in RebateAsks \cup {NoRebate}
  BY <1>1, <1>3 DEF ContractTyped, AppliedAreAsked, GatewayAddsUp, FeesPaidWithin,
                    FeesBounded, OneLive
<1>5. ledger \in [EntryTypes -> Int]
  BY <1>1
<1>6. PaidWithinWorth /\ InstBounded
  <2>1. \A i \in Installments : inst[i].principal \in Nat /\ inst[i].profit \in Nat
    BY <1>2, InstRowMeaning
  <2> QED BY <1>2, <2>1 DEF PaidWithinWorth, InstBounded
<1>7. Backed
  <2> SUFFICES ASSUME NEW i \in Installments
               PROVE  HeldPrincipal(payments, i) = 0 /\ HeldProfit(payments, i) = 0
    BY <1>2 DEF Backed
  <2>1. \A t : Applied(payments, t) = 0
    <3> SUFFICES ASSUME NEW t PROVE Applied(payments, t) = 0
      OBVIOUS
    <3>1. PICK f : f = [n \in DOMAIN payments |-> IfApplied(payments[n], t[n])]
      OBVIOUS
    <3>2. DOMAIN f = {}
      BY <1>3, <3>1
    <3>3. SumFunction(f) = 0
      BY <3>2, SumEmpty DEF SumFunction
    <3> QED BY <3>1, <3>3 DEF Applied
  <2> QED BY <2>1 DEF HeldPrincipal, HeldProfit
<1>8. UnearnedAddsUp
  <2>1. [i \in Installments |-> Schedule[i].profit]
          = [i \in Installments |-> inst[i].profit - inst[i].profit_paid]
    <3>1. \A i \in Installments : Schedule[i].profit \in Nat
      BY ScheduleMeaning
    <3>2. \A i \in Installments : inst[i].profit - inst[i].profit_paid = Schedule[i].profit
      BY <1>2, <3>1
    <3> QED BY <3>2
  <2> QED BY <1>1, <2>1 DEF UnearnedAddsUp
<1>9. Typed
  BY <1>2, <1>3, <1>4, <1>5 DEF Typed
<1> QED BY <1>4, <1>6, <1>7, <1>8, <1>9 DEF Sound

-------------------------------------------------------------------------------
\* The write-off requests.

RequestStatus == {"pending", "approved", "rejected", "cancelled", "executed"}
WriteOffRow == [type: {"full", "partial"}, asked: AmountRow, status: RequestStatus,
                recovered: AmountRow]
Components == {"late_fee", "profit", "principal"}

RequestsSound == writeOffs \in Seq(WriteOffRow) /\ RecoveredWithinWrittenOff

LEMMA ComponentsMeaning == DOMAIN Nothing = Components /\ Nothing \in AmountRow
BY DEF Nothing, Components, AmountRow

LEMMA WriteOffRowMeaning ==
  ASSUME NEW w \in WriteOffRow
  PROVE  /\ w.asked \in AmountRow /\ w.recovered \in AmountRow /\ w.status \in RequestStatus
         /\ w.type \in {"full", "partial"}
BY DEF WriteOffRow

LEMMA RowComponents ==
  ASSUME NEW x \in AmountRow
  PROVE  \A b \in Components : x[b] \in Nat
BY DEF AmountRow, Components

LEMMA ComponentsRow ==
  ASSUME NEW f, f = [b \in Components |-> f[b]], \A b \in Components : f[b] \in Nat
  PROVE  f \in AmountRow /\ LineTotal(f) = f["late_fee"] + f["profit"] + f["principal"]
BY DEF AmountRow, Components, LineTotal

LEMMA OutstandingIsRow ==
  ASSUME Sound, contract.status # "closed"
  PROVE  Outstanding \in AmountRow
<1>1. PICK f : f = Outstanding
  OBVIOUS
<1>2. /\ f = [b \in Components |-> f[b]] /\ f["late_fee"] = Owed("late_fee")
      /\ f["profit"] = Owed("profit") /\ f["principal"] = Owed("principal")
  BY <1>1, ComponentsMeaning DEF Outstanding, Owed, Components
<1>3. \A b \in Components : f[b] \in Nat
  BY <1>2, OwedIsNat DEF Components
<1> QED BY <1>1, <1>2, <1>3, ComponentsRow

\* The requests with another status, or another amount recovered, in row n.
Judged(rows, n, status) == [rows EXCEPT ![n].status = status]
RecoveredTo(rows, n, r) == [rows EXCEPT ![n].recovered = r]

LEMMA JudgedMeaning ==
  ASSUME NEW rows \in Seq(WriteOffRow), NEW n \in DOMAIN rows, NEW s \in RequestStatus
  PROVE  /\ Judged(rows, n, s) \in Seq(WriteOffRow) /\ DOMAIN Judged(rows, n, s) = DOMAIN rows
         /\ \A k \in DOMAIN rows : k # n => Judged(rows, n, s)[k] = rows[k]
         /\ Judged(rows, n, s)[n].status = s
         /\ Judged(rows, n, s)[n].asked = rows[n].asked
         /\ Judged(rows, n, s)[n].recovered = rows[n].recovered
         /\ Judged(rows, n, s)[n].type = rows[n].type
<1>1. PICK m \in Nat : m = Len(rows) /\ rows \in [1..m -> WriteOffRow] /\ DOMAIN rows = 1..m
  BY SequenceIsFunction
<1>2. PICK x \in WriteOffRow : x = rows[n]
  BY <1>1
<1> DEFINE d == [x EXCEPT !.status = s]
<1>3. /\ d \in WriteOffRow /\ d.status = s /\ d.asked = x.asked
      /\ d.recovered = x.recovered /\ d.type = x.type
  BY DEF WriteOffRow
<1>4. Judged(rows, n, s) = [rows EXCEPT ![n] = d]
  BY <1>1, <1>2 DEF Judged
<1> HIDE DEF d
<1>5. PICK l \in [1..m -> WriteOffRow] : l = Judged(rows, n, s)
  BY <1>1, <1>3, <1>4
<1>6. l[n] = d /\ \A k \in 1..m : k # n => l[k] = rows[k]
  BY <1>1, <1>4, <1>5
<1>7. l \in Seq(WriteOffRow) /\ DOMAIN l = 1..m
  BY <1>5, FunctionIsSequence
<1> QED BY <1>1, <1>2, <1>3, <1>5, <1>6, <1>7

LEMMA RecoveredToMeaning ==
  ASSUME NEW rows \in Seq(WriteOffRow), NEW n \in DOMAIN rows, NEW r \in AmountRow
  PROVE  /\ RecoveredTo(rows, n, r) \in Seq(WriteOffRow)
         /\ DOMAIN RecoveredTo(rows, n, r) = DOMAIN rows
         /\ \A k \in DOMAIN rows : k # n => RecoveredTo(rows, n, r)[k] = rows[k]
         /\ RecoveredTo(rows, n, r)[n].status = rows[n].status
         /\ RecoveredTo(rows, n, r)[n].asked = rows[n].asked
         /\ RecoveredTo(rows, n, r)[n].recovered = r
<1>1. PICK m \in Nat : m = Len(rows) /\ rows \in [1..m -> WriteOffRow] /\ DOMAIN rows = 1..m
  BY SequenceIsFunction
<1>2. PICK x \in WriteOffRow : x = rows[n]
  BY <1>1
<1> DEFINE d == [x EXCEPT !.recovered = r]
<1>3. /\ d \in WriteOffRow /\ d.status = x.status /\ d.asked = x.asked /\ d.recovered = r
  BY DEF WriteOffRow
<1>4. RecoveredTo(rows, n, r) = [rows EXCEPT ![n] = d]
  BY <1>1, <1>2 DEF RecoveredTo
<1> HIDE DEF d
<1>5. PICK l \in [1..m -> WriteOffRow] : l = RecoveredTo(rows, n, r)
  BY <1>1, <1>3, <1>4
<1>6. l[n] = d /\ \A k \in 1..m : k # n => l[k] = rows[k]
  BY <1>1, <1>4, <1>5
<1>7. l \in Seq(WriteOffRow) /\ DOMAIN l = 1..m
  BY <1>5, FunctionIsSequence
<1> QED BY <1>1, <1>2, <1>3, <1>5, <1>6, <1>7

\* What a recovery credits a component with is at most what is left of it.
LEMMA CreditMeaning ==
  ASSUME RequestsSound, NEW n \in DOMAIN writeOffs, NEW amount \in Nat,
         NEW order \in Seq(Components)
  PROVE  \A b \in Components :
           Credit(n, amount, order)[b] \in 0..(writeOffs[n].asked[b] - writeOffs[n].recovered[b])
<1>1. PICK w \in WriteOffRow : w = writeOffs[n]
  BY SequenceElement DEF RequestsSound
<1>2. \A b \in Components : w.asked[b] \in Nat /\ w.recovered[b] \in Nat
  BY WriteOffRowMeaning, RowComponents
<1>3. \A b \in Components : w.recovered[b] <= w.asked[b]
  BY <1>1, ComponentsMeaning DEF RequestsSound, RecoveredWithinWrittenOff, Within
<1>4. \A b \in Components : w.asked[b] - w.recovered[b] \in Nat
  BY <1>2, <1>3
<1>5. PICK due \in [Components -> Nat] :
        due = [b \in DOMAIN Nothing |-> w.asked[b] - w.recovered[b]]
  BY <1>4, ComponentsMeaning
<1>6. PICK m \in Nat : order \in [1..m -> Components] /\ DOMAIN order = 1..m
  BY SequenceIsFunction
<1>7. PICK owed \in [1..m -> Nat] : owed = [k \in DOMAIN order |-> due[order[k]]]
  BY <1>6
<1>8. PICK parts : parts = Spread(amount, owed) /\ \A k \in 1..m : parts[k] \in 0..owed[k]
  BY SpreadBounds
<1>9. PICK share : share = Share(amount, order, due)
  OBVIOUS
<1>10. share = [b \in Range(order) |-> parts[CHOOSE k \in DOMAIN order : order[k] = b]]
  BY <1>7, <1>8, <1>9 DEF Share
<1>11. ASSUME NEW b \in Range(order) PROVE share[b] \in 0..due[b]
  <2>1. \E k \in 1..m : order[k] = b
    BY <1>6 DEF Range
  <2>2. PICK k \in 1..m : k = (CHOOSE j \in DOMAIN order : order[j] = b) /\ order[k] = b
    BY <1>6, <2>1
  <2>3. share[b] = parts[k] /\ owed[k] = due[b]
    BY <1>6, <1>7, <1>10, <2>2
  <2> QED BY <1>8, <2>3
<1>12. Credit(n, amount, order)
         = [b \in DOMAIN Nothing |-> IF b \in DOMAIN share THEN share[b] ELSE 0]
  BY <1>1, <1>5, <1>9 DEF Credit
<1>13. ASSUME NEW b \in Components PROVE Credit(n, amount, order)[b] \in 0..due[b]
  <2>1. due[b] \in Nat
    OBVIOUS
  <2>2. CASE b \in Range(order)
    BY <1>10, <1>11, <1>12, <2>2, ComponentsMeaning
  <2>3. CASE b \notin Range(order)
    <3>1. Credit(n, amount, order)[b] = 0
      BY <1>10, <1>12, <2>3, ComponentsMeaning
    <3> QED BY <2>1, <3>1
  <2> QED BY <2>2, <2>3
<1>14. \A b \in Components : due[b] = writeOffs[n].asked[b] - writeOffs[n].recovered[b]
  BY <1>1, <1>5, ComponentsMeaning
<1> QED BY <1>13, <1>14

\* The steps of the requests: one more, one judged, one executed, one recovered of.
Requested(w) == w \in WriteOffRow /\ w.status = "pending" /\ w.recovered = Nothing
                /\ writeOffs' = Append(writeOffs, w)
JudgedAs(n, s) == /\ n \in DOMAIN writeOffs /\ s \in RequestStatus \ {"executed"}
                  /\ writeOffs[n].status = "pending"
                  /\ writeOffs' = Judged(writeOffs, n, s)
ExecutedBy(n, p, q, r) == /\ n \in DOMAIN writeOffs /\ writeOffs[n].status = "approved"
                          /\ WrittenOffBy(writeOffs[n].asked, p, q, r)
                          /\ writeOffs' = Judged(writeOffs, n, "executed")
RecoveredOf(n, r) ==
  /\ n \in DOMAIN writeOffs /\ writeOffs[n].status = "executed" /\ r \in AmountRow
  /\ Within(r, writeOffs[n].asked)
  /\ writeOffs' = RecoveredTo(writeOffs, n, r)

WriteOffStep ==
  \/ ServicingStep /\ writeOffs' = writeOffs
  \/ Quiet /\ \E w : Requested(w)
  \/ Quiet /\ \E n, s : JudgedAs(n, s)
  \/ Quiet /\ \E n, r : RecoveredOf(n, r)
  \/ \E n, p, q, r : ExecutedBy(n, p, q, r)

LEMMA RecoveryEffect ==
  ASSUME RequestsSound, NEW n \in DOMAIN writeOffs, NEW amount \in Nat,
         NEW order \in RecoveryOrders, RecordRecovery(n, amount, order)
  PROVE  \E r : RecoveredOf(n, r)
<1>1. PICK w \in WriteOffRow : w = writeOffs[n]
  BY SequenceElement DEF RequestsSound
<1>2. order \in Seq(Components)
  BY WriteOffAssumption DEF Components
<1>3. PICK c : c = Credit(n, amount, order)
  OBVIOUS
<1>4. \A b \in Components : c[b] \in 0..(w.asked[b] - w.recovered[b])
  BY <1>1, <1>2, <1>3, CreditMeaning
<1>5. \A b \in Components : w.asked[b] \in Nat /\ w.recovered[b] \in Nat
  BY WriteOffRowMeaning, RowComponents
<1>6. PICK r : r = [b \in Components |-> w.recovered[b] + c[b]]
  OBVIOUS
<1>7. \A b \in Components : r[b] \in Nat /\ r[b] <= w.asked[b]
  <2> SUFFICES ASSUME NEW b \in Components PROVE r[b] \in Nat /\ r[b] <= w.asked[b]
    OBVIOUS
  <2>1. PICK x \in Nat, y \in Nat : x = w.asked[b] /\ y = w.recovered[b]
    BY <1>5
  <2>2. PICK z \in Int : z = c[b] /\ z \in 0..(x - y)
    BY <1>4, <2>1
  <2>3. r[b] = y + z
    BY <1>6, <2>1, <2>2
  <2> QED BY <2>1, <2>2, <2>3
<1>8. r \in AmountRow
  <2>1. r = [b \in Components |-> r[b]]
    BY <1>6
  <2> QED BY <1>7, <2>1, ComponentsRow
<1>9. n \in Status("executed")
      /\ writeOffs' = [writeOffs EXCEPT ![n].recovered = [b \in DOMAIN Nothing |-> @[b] + c[b]]]
  BY <1>3 DEF RecordRecovery
<1>10. writeOffs' = RecoveredTo(writeOffs, n, r)
  <2>1. [b \in DOMAIN Nothing |-> writeOffs[n].recovered[b] + c[b]] = r
    BY <1>1, <1>6, ComponentsMeaning
  <2> QED BY <1>9, <2>1 DEF RecoveredTo
<1>11. writeOffs[n].status = "executed"
  BY <1>9 DEF Status
<1>12. RecoveredOf(n, r)
  BY <1>1, <1>7, <1>8, <1>10, <1>11, ComponentsMeaning DEF RecoveredOf, Within
<1> QED BY <1>12

LEMMA WriteOffSteps ==
  ASSUME Sound, RequestsSound, [WriteOffNext]_wvars
  PROVE  WriteOffStep
<1>0. rebate \in RebateAsks \cup {NoRebate} /\ writeOffs \in Seq(WriteOffRow)
  BY DEF Sound, Typed, RequestsSound
<1>1. UNCHANGED cvars => Quiet
  BY <1>0 DEF cvars, Quiet
<1>2. CASE UNCHANGED wvars
  BY <1>1, <1>2 DEF wvars, ServicingStep, WriteOffStep
<1>3. CASE ServicingNext /\ UNCHANGED writeOffs
  BY <1>3, ServicingSteps DEF WriteOffStep
<1>4. ASSUME NEW type \in {"full", "partial"}, NEW ask, ask \in PartialAsks \/ ask = Outstanding,
             RequestWriteOff(type, ask)
      PROVE  WriteOffStep
  <2>1. ask \in AmountRow
    BY <1>4, OutstandingIsRow, WriteOffAssumption DEF RequestWriteOff, AmountRow
  <2>2. PICK w : w = [type |-> type, asked |-> ask, status |-> "pending", recovered |-> Nothing]
    OBVIOUS
  <2>3. w \in WriteOffRow /\ w.status = "pending" /\ w.recovered = Nothing
    BY <2>1, <2>2, ComponentsMeaning DEF WriteOffRow, RequestStatus
  <2>4. writeOffs' = Append(writeOffs, w) /\ UNCHANGED cvars
    BY <1>4, <2>2 DEF RequestWriteOff
  <2> QED BY <1>1, <2>3, <2>4 DEF Requested, WriteOffStep
<1>5. ASSUME NEW n \in DOMAIN writeOffs, DecideWriteOff(n) \/ CancelWriteOff(n)
      PROVE  WriteOffStep
  <2>1. PICK s \in {"approved", "rejected", "cancelled"} : Moves(n, s)
    BY <1>5 DEF DecideWriteOff, CancelWriteOff
  <2>2. n \in Status("pending") /\ UNCHANGED cvars
    BY <1>5 DEF DecideWriteOff, CancelWriteOff
  <2>3. JudgedAs(n, s)
    BY <2>1, <2>2 DEF JudgedAs, Status, Moves, Judged, RequestStatus
  <2> QED BY <1>1, <2>2, <2>3 DEF WriteOffStep
<1>6. ASSUME NEW n \in DOMAIN writeOffs, ExecuteWriteOff(n)
      PROVE  WriteOffStep
  <2>1. writeOffs[n].asked \in AmountRow
    BY <1>0, SequenceElement, WriteOffRowMeaning
  <2>2. PICK p, q, r : WrittenOffBy(writeOffs[n].asked, p, q, r)
    BY <1>6, <2>1, WriteOffEffect
  <2>3. writeOffs[n].status = "approved" /\ writeOffs' = Judged(writeOffs, n, "executed")
    BY <1>6 DEF ExecuteWriteOff, Executable, Status, Moves, Judged
  <2>4. ExecutedBy(n, p, q, r)
    BY <2>2, <2>3 DEF ExecutedBy
  <2> QED BY <2>4 DEF WriteOffStep
<1>7. ASSUME NEW n \in DOMAIN writeOffs, NEW a \in Amounts, NEW order \in RecoveryOrders,
             RecordRecovery(n, a, order)
      PROVE  WriteOffStep
  <2>1. a \in Nat
    BY ServicingAssumption
  <2>2. UNCHANGED cvars
    BY <1>7 DEF RecordRecovery
  <2> QED BY <1>1, <1>7, <2>1, <2>2, RecoveryEffect DEF WriteOffStep
<1> QED BY <1>2, <1>3, <1>4, <1>5, <1>6, <1>7 DEF WriteOffNext

LEMMA RequestedMeaning ==
  ASSUME writeOffs \in Seq(WriteOffRow), NEW w, Requested(w)
  PROVE  /\ writeOffs' \in Seq(WriteOffRow) /\ DOMAIN writeOffs' = 1..(Len(writeOffs) + 1)
         /\ \A k \in 1..Len(writeOffs) : writeOffs'[k] = writeOffs[k]
         /\ writeOffs'[Len(writeOffs) + 1] = w
<1>1. w \in WriteOffRow
  BY DEF Requested
<1>2. PICK l \in Seq(WriteOffRow) : l = Append(writeOffs, w)
  BY <1>1, Appended
<1>3. /\ Len(l) = Len(writeOffs) + 1 /\ l[Len(writeOffs) + 1] = w
      /\ \A k \in 1..Len(writeOffs) : l[k] = writeOffs[k]
  BY <1>1, <1>2, Appended
<1> QED BY <1>2, <1>3 DEF Requested

LEMMA StepKeepsRequests ==
  ASSUME RequestsSound, WriteOffStep
  PROVE  RequestsSound'
<1>0. writeOffs \in Seq(WriteOffRow)
      /\ \A n \in DOMAIN writeOffs :
           /\ Within(writeOffs[n].recovered, writeOffs[n].asked)
           /\ writeOffs[n].status # "executed" => writeOffs[n].recovered = Nothing
  BY DEF RequestsSound, RecoveredWithinWrittenOff
<1>1. CASE writeOffs' = writeOffs
  BY <1>1 DEF RequestsSound, RecoveredWithinWrittenOff
<1>2. ASSUME NEW w, Requested(w) PROVE RequestsSound'
  <2>1. PICK m \in Nat : m = Len(writeOffs) /\ DOMAIN writeOffs = 1..m
    BY <1>0, SequenceIsFunction
  <2>2. /\ writeOffs' \in Seq(WriteOffRow) /\ DOMAIN writeOffs' = 1..(m + 1)
        /\ \A k \in 1..m : writeOffs'[k] = writeOffs[k]
        /\ writeOffs'[m + 1] = w
    BY <1>0, <1>2, <2>1, RequestedMeaning
  <2>3. w.recovered = Nothing /\ w.asked \in AmountRow
    BY <1>2, WriteOffRowMeaning DEF Requested
  <2>4. Within(w.recovered, w.asked)
    <3>1. \A b \in Components : Nothing[b] = 0 /\ w.asked[b] \in Nat
      BY <2>3, RowComponents DEF Nothing, Components
    <3> QED BY <2>3, <3>1, ComponentsMeaning DEF Within
  <2>5. ASSUME NEW k \in 1..(m + 1)
        PROVE  /\ Within(writeOffs'[k].recovered, writeOffs'[k].asked)
               /\ writeOffs'[k].status # "executed" => writeOffs'[k].recovered = Nothing
    <3>1. CASE k = m + 1
      BY <2>2, <2>3, <2>4, <3>1
    <3>2. CASE k \in 1..m
      BY <1>0, <2>1, <2>2, <3>2
    <3> QED BY <3>1, <3>2
  <2> QED BY <2>2, <2>5 DEF RequestsSound, RecoveredWithinWrittenOff, Within
<1>3. ASSUME NEW n \in DOMAIN writeOffs, NEW s \in RequestStatus,
             writeOffs' = Judged(writeOffs, n, s), writeOffs[n].status # "executed"
      PROVE  RequestsSound'
  <2>1. /\ writeOffs' \in Seq(WriteOffRow) /\ DOMAIN writeOffs' = DOMAIN writeOffs
        /\ \A k \in DOMAIN writeOffs : k # n => writeOffs'[k] = writeOffs[k]
        /\ writeOffs'[n].asked = writeOffs[n].asked
        /\ writeOffs'[n].recovered = writeOffs[n].recovered
    BY <1>0, <1>3, JudgedMeaning
  <2>2. ASSUME NEW k \in DOMAIN writeOffs
        PROVE  /\ Within(writeOffs'[k].recovered, writeOffs'[k].asked)
               /\ writeOffs'[k].status # "executed" => writeOffs'[k].recovered = Nothing
    <3>1. CASE k = n
      BY <1>0, <1>3, <2>1, <3>1
    <3>2. CASE k # n
      BY <1>0, <2>1, <3>2
    <3> QED BY <3>1, <3>2
  <2> QED BY <2>1, <2>2 DEF RequestsSound, RecoveredWithinWrittenOff, Within
<1>4. ASSUME NEW n, NEW r, RecoveredOf(n, r) PROVE RequestsSound'
  <2>1. /\ n \in DOMAIN writeOffs /\ writeOffs[n].status = "executed" /\ r \in AmountRow
        /\ Within(r, writeOffs[n].asked)
        /\ writeOffs' = RecoveredTo(writeOffs, n, r)
    BY <1>4 DEF RecoveredOf
  <2>2. /\ writeOffs' \in Seq(WriteOffRow) /\ DOMAIN writeOffs' = DOMAIN writeOffs
        /\ \A k \in DOMAIN writeOffs : k # n => writeOffs'[k] = writeOffs[k]
        /\ writeOffs'[n].status = writeOffs[n].status
        /\ writeOffs'[n].asked = writeOffs[n].asked /\ writeOffs'[n].recovered = r
    BY <1>0, <2>1, RecoveredToMeaning
  <2>3. ASSUME NEW k \in DOMAIN writeOffs
        PROVE  /\ Within(writeOffs'[k].recovered, writeOffs'[k].asked)
               /\ writeOffs'[k].status # "executed" => writeOffs'[k].recovered = Nothing
    <3>1. CASE k = n
      BY <2>1, <2>2, <3>1
    <3>2. CASE k # n
      BY <1>0, <2>2, <3>2
    <3> QED BY <3>1, <3>2
  <2> QED BY <2>2, <2>3 DEF RequestsSound, RecoveredWithinWrittenOff, Within
<1>5. \A n, s : JudgedAs(n, s) => RequestsSound'
  BY <1>3 DEF JudgedAs
<1>6. \A n, p, q, r : ExecutedBy(n, p, q, r) => RequestsSound'
  BY <1>3 DEF ExecutedBy, RequestStatus
<1> QED BY <1>1, <1>2, <1>4, <1>5, <1>6 DEF WriteOffStep

LEMMA WriteOffKeepsSound ==
  ASSUME Sound, RequestsSound, WriteOffStep
  PROVE  Sound'
<1>1. ASSUME NEW n, NEW p, NEW q, NEW r, ExecutedBy(n, p, q, r)
      PROVE  Sound'
  <2>1. writeOffs[n].asked \in AmountRow /\ WrittenOffBy(writeOffs[n].asked, p, q, r)
    BY <1>1, SequenceElement, WriteOffRowMeaning DEF ExecutedBy, RequestsSound
  <2> QED BY <2>1, WrittenOffKeepsSound
<1> QED BY <1>1, StepKeepsSound, QuietKeepsSound DEF WriteOffStep

-------------------------------------------------------------------------------
\* What each step adds to the entries of the ledger.

CashTypes == {"principal_paid", "profit_recognized", "late_fee_paid"}
OffTypes == {"principal_written_off", "profit_written_off", "late_fee_written_off"}
ReturnTypes == {"return_principal_cleared", "return_profit_retained", "return_profit_waived"}

LEMMA PaidEntries ==
  ASSUME Sound, NEW plan, NEW p, NEW a \in Nat, PaidBy(plan, p, a)
  PROVE  /\ ledger'.principal_paid = ledger.principal_paid + Column(plan, "principal")
         /\ ledger'.profit_recognized = ledger.profit_recognized + Column(plan, "profit")
         /\ ledger'.late_fee_paid = ledger.late_fee_paid + Column(plan, "late_fee")
         /\ \A t \in EntryTypes \ CashTypes : ledger'[t] = ledger[t]
<1>1. PICK x \in Nat, y \in Nat, z \in Nat :
        /\ x = Column(plan, "late_fee") /\ y = Column(plan, "profit")
        /\ z = Column(plan, "principal")
  BY ColumnsMeaning DEF PaidBy
<1> DEFINE e == [late_fee_paid |-> x, profit_recognized |-> y, principal_paid |-> z]
<1>2. Post(e)
  BY <1>1 DEF PaidBy
<1>3. /\ DOMAIN e = CashTypes /\ e["late_fee_paid"] = x /\ e["profit_recognized"] = y
      /\ e["principal_paid"] = z
      /\ \A t \in DOMAIN e : e[t] \in Int
  BY DEF CashTypes
<1> HIDE DEF e
<1>4. ledger \in [EntryTypes -> Int]
  BY DEF Sound, Typed
<1>5. \A t \in EntryTypes : ledger'[t] = ledger[t] + IF t \in DOMAIN e THEN e[t] ELSE 0
  BY <1>2, <1>3, <1>4, PostMeaning
<1>6. CashTypes \subseteq EntryTypes
  BY DEF CashTypes, EntryTypes
<1>7. \A t \in CashTypes : ledger'[t] = ledger[t] + e[t]
  BY <1>3, <1>5, <1>6
<1>8. \A t \in EntryTypes \ CashTypes : ledger'[t] = ledger[t]
  BY <1>3, <1>4, <1>5
<1> QED BY <1>1, <1>3, <1>7, <1>8 DEF CashTypes

LEMMA TakenBackEntries ==
  ASSUME Sound, NEW n, NEW lines, TakenBackBy(n, lines)
  PROVE  /\ ledger'.principal_paid = ledger.principal_paid - Column(lines, "principal")
         /\ ledger'.profit_recognized = ledger.profit_recognized - Column(lines, "profit")
         /\ ledger'.late_fee_paid = ledger.late_fee_paid - Column(lines, "late_fee")
         /\ \A t \in EntryTypes \ CashTypes : ledger'[t] = ledger[t]
<1>1. PICK x \in Nat, y \in Nat, z \in Nat :
        /\ x = Column(lines, "late_fee") /\ y = Column(lines, "profit")
        /\ z = Column(lines, "principal")
  BY ColumnsMeaning DEF TakenBackBy
<1> DEFINE e == [late_fee_paid |-> -x, profit_recognized |-> -y, principal_paid |-> -z]
<1>2. Post(e)
  BY <1>1 DEF TakenBackBy, PostReversal
<1>3. /\ DOMAIN e = CashTypes /\ e["late_fee_paid"] = -x /\ e["profit_recognized"] = -y
      /\ e["principal_paid"] = -z
      /\ \A t \in DOMAIN e : e[t] \in Int
  BY DEF CashTypes
<1> HIDE DEF e
<1>4. ledger \in [EntryTypes -> Int]
  BY DEF Sound, Typed
<1>5. \A t \in EntryTypes : ledger'[t] = ledger[t] + IF t \in DOMAIN e THEN e[t] ELSE 0
  BY <1>2, <1>3, <1>4, PostMeaning
<1>6. CashTypes \subseteq EntryTypes
  BY DEF CashTypes, EntryTypes
<1>7. \A t \in CashTypes : ledger'[t] = ledger[t] + e[t] /\ ledger[t] \in Int
  BY <1>3, <1>4, <1>5, <1>6
<1>8. \A t \in EntryTypes \ CashTypes : ledger'[t] = ledger[t]
  BY <1>3, <1>4, <1>5
<1>9. /\ ledger'["late_fee_paid"] = ledger["late_fee_paid"] - x
      /\ ledger'["profit_recognized"] = ledger["profit_recognized"] - y
      /\ ledger'["principal_paid"] = ledger["principal_paid"] - z
  BY <1>3, <1>7 DEF CashTypes
<1> QED BY <1>1, <1>8, <1>9

LEMMA SettledEntries ==
  ASSUME Sound, NEW charged, NEW given, NEW p, SettledBy(charged, given, p)
  PROVE  /\ ledger'.principal_paid = ledger.principal_paid + Owed("principal")
         /\ ledger'.profit_recognized = ledger.profit_recognized + charged
         /\ ledger'.late_fee_paid = ledger.late_fee_paid + Owed("late_fee")
         /\ ledger'.profit_rebated = ledger.profit_rebated + given
         /\ \A t \in EntryTypes \ (CashTypes \cup {"profit_rebated"}) : ledger'[t] = ledger[t]
<1>1. PICK x \in Nat, z \in Nat : x = Owed("late_fee") /\ z = Owed("principal")
  BY OwedIsNat DEF SettledBy, Cleared
<1> DEFINE e == [principal_paid |-> z, late_fee_paid |-> x,
                 profit_recognized |-> charged, profit_rebated |-> given]
<1>2. Post(e) /\ charged \in Nat /\ given \in Nat
  BY <1>1 DEF SettledBy, Cleared
<1>3. /\ DOMAIN e = CashTypes \cup {"profit_rebated"} /\ e["late_fee_paid"] = x
      /\ e["profit_recognized"] = charged
      /\ e["principal_paid"] = z /\ e["profit_rebated"] = given
      /\ \A t \in DOMAIN e : e[t] \in Int
  BY <1>2 DEF CashTypes
<1> HIDE DEF e
<1>4. ledger \in [EntryTypes -> Int]
  BY DEF Sound, Typed
<1>5. \A t \in EntryTypes : ledger'[t] = ledger[t] + IF t \in DOMAIN e THEN e[t] ELSE 0
  BY <1>2, <1>3, <1>4, PostMeaning
<1>6. CashTypes \cup {"profit_rebated"} \subseteq EntryTypes
  BY DEF CashTypes, EntryTypes
<1>7. \A t \in CashTypes \cup {"profit_rebated"} : ledger'[t] = ledger[t] + e[t]
  BY <1>3, <1>5, <1>6
<1>8. \A t \in EntryTypes \ (CashTypes \cup {"profit_rebated"}) : ledger'[t] = ledger[t]
  BY <1>3, <1>4, <1>5
<1> QED BY <1>1, <1>3, <1>7, <1>8 DEF CashTypes

LEMMA ReturnedEntries ==
  ASSUME Sound, NEW charged, NEW given, ReturnedBy(charged, given)
  PROVE  /\ ledger'.return_principal_cleared = ledger.return_principal_cleared
                                                 + Owed("principal")
         /\ ledger'.return_profit_retained = ledger.return_profit_retained + charged
         /\ ledger'.return_profit_waived = ledger.return_profit_waived + given
         /\ \A t \in EntryTypes \ (ReturnTypes \cup {"return_late_fee_cleared"}) :
              ledger'[t] = ledger[t]
<1>1. PICK x \in Nat, z \in Nat : x = Owed("late_fee") /\ z = Owed("principal")
  BY OwedIsNat DEF ReturnedBy, Cleared
<1> DEFINE e == [return_principal_cleared |-> z, return_late_fee_cleared |-> x,
                 return_profit_retained |-> charged, return_profit_waived |-> given]
<1>2. Post(e) /\ charged \in Nat /\ given \in Nat
  BY <1>1 DEF ReturnedBy, Cleared
<1>3. /\ DOMAIN e = ReturnTypes \cup {"return_late_fee_cleared"}
      /\ e["return_principal_cleared"] = z /\ e["return_profit_retained"] = charged
      /\ e["return_profit_waived"] = given
      /\ \A t \in DOMAIN e : e[t] \in Int
  BY <1>2 DEF ReturnTypes
<1> HIDE DEF e
<1>4. ledger \in [EntryTypes -> Int]
  BY DEF Sound, Typed
<1>5. \A t \in EntryTypes : ledger'[t] = ledger[t] + IF t \in DOMAIN e THEN e[t] ELSE 0
  BY <1>2, <1>3, <1>4, PostMeaning
<1>6. ReturnTypes \subseteq EntryTypes /\ ReturnTypes \subseteq DOMAIN e
  BY <1>3 DEF ReturnTypes, EntryTypes
<1>7. \A t \in ReturnTypes : ledger'[t] = ledger[t] + e[t]
  BY <1>5, <1>6
<1>8. \A t \in EntryTypes \ (ReturnTypes \cup {"return_late_fee_cleared"}) :
        ledger'[t] = ledger[t]
  BY <1>3, <1>4, <1>5
<1> QED BY <1>1, <1>3, <1>7, <1>8 DEF ReturnTypes

LEMMA WrittenOffEntries ==
  ASSUME Sound, NEW ask \in AmountRow, NEW p, NEW q, NEW r, WrittenOffBy(ask, p, q, r)
  PROVE  /\ ledger'.principal_written_off = ledger.principal_written_off + ask.principal
         /\ ledger'.profit_written_off = ledger.profit_written_off + ask.profit
         /\ ledger'.late_fee_written_off = ledger.late_fee_written_off + ask.late_fee
         /\ \A t \in EntryTypes \ OffTypes : ledger'[t] = ledger[t]
<1>1. PICK x \in Nat, y \in Nat, z \in Nat :
        x = ask.late_fee /\ y = ask.profit /\ z = ask.principal
  BY AmountRowMeaning
<1> DEFINE e == [principal_written_off |-> z, profit_written_off |-> y,
                 late_fee_written_off |-> x]
<1>2. Post(e)
  BY <1>1 DEF WrittenOffBy
<1>3. /\ DOMAIN e = OffTypes /\ e["late_fee_written_off"] = x
      /\ e["profit_written_off"] = y /\ e["principal_written_off"] = z
      /\ \A t \in DOMAIN e : e[t] \in Int
  BY DEF OffTypes
<1> HIDE DEF e
<1>4. ledger \in [EntryTypes -> Int]
  BY DEF Sound, Typed
<1>5. \A t \in EntryTypes : ledger'[t] = ledger[t] + IF t \in DOMAIN e THEN e[t] ELSE 0
  BY <1>2, <1>3, <1>4, PostMeaning
<1>6. OffTypes \subseteq EntryTypes
  BY DEF OffTypes, EntryTypes
<1>7. \A t \in OffTypes : ledger'[t] = ledger[t] + e[t]
  BY <1>3, <1>5, <1>6
<1>8. \A t \in EntryTypes \ OffTypes : ledger'[t] = ledger[t]
  BY <1>3, <1>4, <1>5
<1> QED BY <1>1, <1>3, <1>7, <1>8 DEF OffTypes

\* The other steps leave the ledger alone, but for a waiver.
Unposted == \A t \in EntryTypes \ {"late_fee_waived"} : ledger'[t] = ledger[t]

LEMMA OtherEntries ==
  ASSUME \/ Quiet \/ ConfirmDelivery \/ CancelContract
         \/ \E day : ChargedBy(day)
         \/ \E k : WaivedBy(k)
  PROVE  Unposted /\ payments' = payments
BY DEF Quiet, money, ConfirmDelivery, CancelContract, ChargedBy, WaivedBy, Unposted

-------------------------------------------------------------------------------
\* The cash entries are the payments that were received and not taken back.

CashCounted == CashEntries = Received(payments)

LEMMA CashCountedMeans == CashIsReceived <=> CashCounted
<1>1. [n \in DOMAIN payments |-> IF payments[n].status = "applied" THEN payments[n].amount ELSE 0]
        = [n \in DOMAIN payments |-> IfApplied(payments[n], AmountsOf(payments)[n])]
  BY DEF IfApplied, AmountsOf
<1> QED BY <1>1 DEF CashIsReceived, CashCounted, Received, Applied

LEMMA CashEntriesInt ==
  ASSUME Sound
  PROVE  /\ ledger.principal_paid \in Int /\ ledger.profit_recognized \in Int
         /\ ledger.late_fee_paid \in Int
         /\ payments \in Seq(PaymentRow) /\ Received(payments) \in Int
<1>1. ledger \in [EntryTypes -> Int] /\ payments \in Seq(PaymentRow)
  BY DEF Sound, Typed
<1>2. Len(payments) \in Nat /\ \A k \in 1..Len(payments) : payments[k].amount \in Nat
  BY <1>1, RowLines
<1>3. PICK t \in [1..Len(payments) -> Nat] : t = AmountsOf(payments)
  BY <1>2 DEF AmountsOf
<1>4. Received(payments) \in Nat
  BY <1>1, <1>3, AppliedAtLeast DEF Received
<1> QED BY <1>1, <1>4 DEF EntryTypes

LEMMA StepCountsCash ==
  ASSUME Sound, CashCounted, ServicingStep
  PROVE  CashCounted'
<1>1. /\ ledger.principal_paid \in Int /\ ledger.profit_recognized \in Int
      /\ ledger.late_fee_paid \in Int
      /\ payments \in Seq(PaymentRow) /\ Received(payments) \in Int
  BY CashEntriesInt
<1>2. ASSUME NEW plan, NEW p, NEW a \in Nat, PaidBy(plan, p, a)
      PROVE  CashCounted'
  <2>1. /\ plan \in [Installments -> AmountRow] /\ Total(plan) = a
        /\ OneMore(payments, p, payments') /\ p.status = "applied" /\ p.amount = a
    BY <1>2 DEF PaidBy, RowOf
  <2>2. PICK x \in Nat, y \in Nat, z \in Nat :
          /\ x = Column(plan, "late_fee") /\ y = Column(plan, "profit")
          /\ z = Column(plan, "principal") /\ a = x + y + z
    BY <2>1, ColumnsMeaning
  <2>3. /\ ledger'.principal_paid = ledger.principal_paid + z
        /\ ledger'.profit_recognized = ledger.profit_recognized + y
        /\ ledger'.late_fee_paid = ledger.late_fee_paid + x
    BY <1>2, <2>2, PaidEntries
  <2>4. Received(payments') = Received(payments) + a
    BY <1>1, <2>1, PaidMore
  <2>5. CashEntries' = CashEntries + a
    <3>1. PICK u \in Int, v \in Int, w \in Int :
            /\ u = ledger.principal_paid /\ v = ledger.profit_recognized
            /\ w = ledger.late_fee_paid
      BY <1>1
    <3>2. CashEntries = u + v + w /\ CashEntries' = (u + z) + (v + y) + (w + x)
      BY <2>3, <3>1 DEF CashEntries
    <3> QED BY <2>2, <3>2
  <2> QED BY <2>4, <2>5 DEF CashCounted
<1>3. ASSUME NEW n, NEW lines, TakenBackBy(n, lines)
      PROVE  CashCounted'
  <2>1. /\ n \in DOMAIN payments /\ payments[n].status = "applied"
        /\ lines \in [Installments -> AmountRow] /\ Total(lines) = payments[n].amount
        /\ TakenBack(payments, n, payments')
    BY <1>3 DEF TakenBackBy
  <2>2. PICK x \in Nat, y \in Nat, z \in Nat :
          /\ x = Column(lines, "late_fee") /\ y = Column(lines, "profit")
          /\ z = Column(lines, "principal") /\ payments[n].amount = x + y + z
    BY <2>1, ColumnsMeaning
  <2>3. /\ ledger'.principal_paid = ledger.principal_paid - z
        /\ ledger'.profit_recognized = ledger.profit_recognized - y
        /\ ledger'.late_fee_paid = ledger.late_fee_paid - x
    BY <1>3, <2>2, TakenBackEntries
  <2>4. Received(payments') = Received(payments) - (x + y + z)
    BY <1>1, <2>1, <2>2, PaidBack
  <2>5. CashEntries' = CashEntries - (x + y + z)
    <3>1. PICK u \in Int, v \in Int, w \in Int :
            /\ u = ledger.principal_paid /\ v = ledger.profit_recognized
            /\ w = ledger.late_fee_paid
      BY <1>1
    <3>2. CashEntries = u + v + w /\ CashEntries' = (u - z) + (v - y) + (w - x)
      BY <2>3, <3>1 DEF CashEntries
    <3> QED BY <3>2
  <2> QED BY <2>4, <2>5 DEF CashCounted
<1>4. ASSUME NEW charged, NEW given, NEW p, SettledBy(charged, given, p)
      PROVE  CashCounted'
  <2>1. PICK x \in Nat, z \in Nat : x = Owed("late_fee") /\ z = Owed("principal")
    BY <1>4, OwedIsNat DEF SettledBy, Cleared
  <2>2. /\ charged \in Nat /\ p.status = "applied" /\ p.amount = z + x + charged
        /\ OneMore(payments, p, payments')
    BY <1>4, <2>1 DEF SettledBy, Cleared, RowOf
  <2>3. /\ ledger'.principal_paid = ledger.principal_paid + z
        /\ ledger'.profit_recognized = ledger.profit_recognized + charged
        /\ ledger'.late_fee_paid = ledger.late_fee_paid + x
    BY <1>4, <2>1, SettledEntries
  <2>4. Received(payments') = Received(payments) + (z + x + charged)
    BY <1>1, <2>2, PaidMore
  <2>5. CashEntries' = CashEntries + (z + x + charged)
    <3>1. PICK u \in Int, v \in Int, w \in Int :
            /\ u = ledger.principal_paid /\ v = ledger.profit_recognized
            /\ w = ledger.late_fee_paid
      BY <1>1
    <3>2. CashEntries = u + v + w /\ CashEntries' = (u + z) + (v + charged) + (w + x)
      BY <2>3, <3>1 DEF CashEntries
    <3> QED BY <2>2, <3>2
  <2> QED BY <2>4, <2>5 DEF CashCounted
<1>5. ASSUME NEW charged, NEW given, ReturnedBy(charged, given)
      PROVE  CashCounted'
  <2>1. \A t \in CashTypes : ledger'[t] = ledger[t]
    BY <1>5, ReturnedEntries DEF CashTypes, ReturnTypes, EntryTypes
  <2>2. payments' = payments
    BY <1>5 DEF ReturnedBy
  <2> QED BY <2>1, <2>2 DEF CashCounted, CashEntries, CashTypes
<1>6. ASSUME Unposted, payments' = payments
      PROVE  CashCounted'
  BY <1>6 DEF CashCounted, CashEntries, Unposted, EntryTypes
<1> QED BY <1>2, <1>3, <1>4, <1>5, <1>6, OtherEntries DEF ServicingStep

LEMMA WriteOffCountsCash ==
  ASSUME Sound, CashCounted, NEW ask \in AmountRow, NEW p, NEW q, NEW r,
         WrittenOffBy(ask, p, q, r)
  PROVE  CashCounted'
<1>1. \A t \in CashTypes : ledger'[t] = ledger[t]
  BY WrittenOffEntries DEF CashTypes, OffTypes, EntryTypes
<1>2. payments' = payments
  BY DEF WrittenOffBy
<1> QED BY <1>1, <1>2 DEF CashCounted, CashEntries, CashTypes

-------------------------------------------------------------------------------
\* What was written off, and the cap on the charges.

\* Nothing that is not a write-off changes what was written off.
FeesFollow ==
  /\ fees' \in Seq(FeeRow) /\ Len(fees) <= Len(fees')
  /\ \A k \in DOMAIN fees : fees'[k].amount_written_off = fees[k].amount_written_off
  /\ \A k \in DOMAIN fees' : k > Len(fees) => fees'[k].amount_written_off = 0
OffKept ==
  /\ inst' \in [Installments -> InstRow]
  /\ \A i \in Installments : SameWorth(inst[i], inst'[i])
  /\ FeesFollow
  /\ \A t \in OffTypes : ledger'[t] = ledger[t]

\* No charge is larger, and none is live that was not.
NoneAdded ==
  /\ fees' \in Seq(FeeRow) /\ DOMAIN fees' = DOMAIN fees
  /\ \A k \in DOMAIN fees : /\ fees'[k].amount = fees[k].amount
                            /\ NotWaived(fees'[k]) => NotWaived(fees[k])

LEMMA SameDomainFollows ==
  ASSUME fees \in Seq(FeeRow), fees' \in Seq(FeeRow), DOMAIN fees' = DOMAIN fees,
         \A k \in DOMAIN fees : fees'[k].amount_written_off = fees[k].amount_written_off
  PROVE  FeesFollow
<1>1. PICK m \in Nat : m = Len(fees) /\ DOMAIN fees = 1..m
  BY SequenceIsFunction
<1>2. PICK n \in Nat : n = Len(fees') /\ DOMAIN fees' = 1..n
  BY SequenceIsFunction
<1>3. m = n
  BY <1>1, <1>2
<1> QED BY <1>1, <1>2, <1>3 DEF FeesFollow

LEMMA NoneAddedKeepsCap ==
  ASSUME fees \in Seq(FeeRow), NoneAdded
  PROVE  CapKept(fees) => CapKept(fees')
<1>1. PICK m \in Nat : fees \in [1..m -> FeeRow] /\ DOMAIN fees = 1..m
  BY SequenceIsFunction
<1>2. fees' \in [1..m -> FeeRow]
  BY <1>1, SequenceIsFunction DEF NoneAdded
<1>3. ASSUME NEW k \in 1..m
      PROVE  /\ FeeTerm(fees[k]) \in Nat /\ FeeTerm(fees'[k]) \in Nat
             /\ FeeTerm(fees'[k]) <= FeeTerm(fees[k])
  <2>1. fees[k].amount \in Nat /\ fees'[k].amount = fees[k].amount
    BY <1>1, FeeRowMeaning DEF NoneAdded
  <2>2. NotWaived(fees'[k]) => NotWaived(fees[k])
    BY <1>1 DEF NoneAdded
  <2> QED BY <2>1, <2>2 DEF FeeTerm
<1>4. PICK g \in [1..m -> Nat] : g = [k \in 1..m |-> FeeTerm(fees[k])]
  BY <1>3
<1>5. PICK h \in [1..m -> Nat] : h = [k \in 1..m |-> FeeTerm(fees'[k])]
  BY <1>3
<1>6. \A k \in 1..m : h[k] \in Int /\ g[k] \in Int /\ h[k] <= g[k]
  BY <1>3, <1>4, <1>5
<1>7. SumFunctionOnSet(h, 1..m) <= SumFunctionOnSet(g, 1..m)
      /\ SumFunctionOnSet(h, 1..m) \in Nat /\ SumFunctionOnSet(g, 1..m) \in Nat
  BY <1>6, UpToIsFinite, SumAtMost, SumNat
<1>8. FeeTotal(fees) = SumFunctionOnSet(g, 1..m)
  BY <1>1, <1>4 DEF FeeTotal, FeeTerm, SumFunction
<1>9. FeeTotal(fees') = SumFunctionOnSet(h, 1..m)
  BY <1>2, <1>5 DEF FeeTotal, FeeTerm, SumFunction
<1>10. MaxFees \in Nat
  BY ServicingAssumption
<1> QED BY <1>7, <1>8, <1>9, <1>10 DEF CapKept

LEMMA StepKeepsOff ==
  ASSUME Sound, ServicingStep
  PROVE  OffKept /\ (CapKept(fees) => CapKept(fees'))
<1>0. /\ inst \in [Installments -> InstRow] /\ fees \in Seq(FeeRow) /\ FeesPaidWithin
  BY DEF Sound, Typed
<1>1. \A i \in Installments : SameWorth(inst[i], inst[i])
  BY DEF SameWorth
<1>2. OffTypes \subseteq EntryTypes \ {"late_fee_waived"}
      /\ OffTypes \subseteq EntryTypes \ CashTypes
      /\ OffTypes \subseteq EntryTypes \ (CashTypes \cup {"profit_rebated"})
      /\ OffTypes \subseteq EntryTypes \ (ReturnTypes \cup {"return_late_fee_cleared"})
  BY DEF OffTypes, EntryTypes, CashTypes, ReturnTypes
<1>3. NoneAdded => (CapKept(fees) => CapKept(fees'))
  BY <1>0, NoneAddedKeepsCap
<1>4. ASSUME \/ Quiet \/ ConfirmDelivery \/ CancelContract
      PROVE  OffKept /\ (CapKept(fees) => CapKept(fees'))
  <2>1. inst' = inst /\ fees' = fees /\ ledger' = ledger
    BY <1>4 DEF Quiet, ConfirmDelivery, CancelContract, money
  <2>2. FeesFollow
    BY <1>0, <2>1, SameDomainFollows
  <2> QED BY <1>0, <1>1, <2>1, <2>2 DEF OffKept
<1>5. ASSUME NEW plan, NEW p, NEW a \in Nat, PaidBy(plan, p, a)
      PROVE  OffKept /\ (CapKept(fees) => CapKept(fees'))
  <2>1. plan \in [Installments -> AmountRow] /\ PayFees(plan) /\ PayInstallments(plan)
    BY <1>5 DEF PaidBy
  <2>2. /\ inst' \in [Installments -> InstRow]
        /\ \A i \in Installments : SameWorth(inst[i], inst'[i])
    BY <1>0, <2>1, PayInstallmentsMeaning
  <2>3. /\ fees' \in Seq(FeeRow) /\ DOMAIN fees' = DOMAIN fees
        /\ \A k \in DOMAIN fees : SameFee(fees[k], fees'[k])
    BY <1>0, <2>1, PayFeesMeaning DEF FeesPaidWithin
  <2>4. FeesFollow /\ NoneAdded
    BY <1>0, <2>3, SameDomainFollows DEF SameFee, NoneAdded
  <2>5. \A t \in OffTypes : ledger'[t] = ledger[t]
    BY <1>2, <1>5, PaidEntries
  <2> QED BY <1>3, <2>2, <2>4, <2>5 DEF OffKept
<1>6. ASSUME NEW n, NEW lines, TakenBackBy(n, lines)
      PROVE  OffKept /\ (CapKept(fees) => CapKept(fees'))
  <2>1. /\ lines \in [Installments -> AmountRow]
        /\ \A i \in Installments : /\ lines[i].principal <= inst[i].principal_paid
                                   /\ lines[i].profit <= inst[i].profit_paid
        /\ ReverseFees(lines) /\ ReverseInstallments(lines)
    BY <1>6 DEF TakenBackBy
  <2>2. /\ inst' \in [Installments -> InstRow]
        /\ \A i \in Installments : SameWorth(inst[i], inst'[i])
    BY <1>0, <2>1, ReverseInstallmentsMeaning
  <2>3. /\ fees' \in Seq(FeeRow) /\ DOMAIN fees' = DOMAIN fees
        /\ \A k \in DOMAIN fees : SameFee(fees[k], fees'[k])
    BY <1>0, <2>1, ReverseFeesMeaning
  <2>4. FeesFollow /\ NoneAdded
    BY <1>0, <2>3, SameDomainFollows DEF SameFee, NoneAdded
  <2>5. \A t \in OffTypes : ledger'[t] = ledger[t]
    BY <1>2, <1>6, TakenBackEntries
  <2> QED BY <1>3, <2>2, <2>4, <2>5 DEF OffKept
<1>7. ASSUME NEW day, ChargedBy(day)
      PROVE  OffKept /\ (CapKept(fees) => CapKept(fees'))
  <2>1. /\ inst' \in [Installments -> InstRow]
        /\ \A i \in Installments : SameWorth(inst[i], inst'[i])
        /\ Grown(fees', Len(Schedule), day) /\ (CapKept(fees) => CapKept(fees'))
        /\ ledger' = ledger
    BY <1>7 DEF ChargedBy, Marked
  <2>2. FeesFollow
    BY <2>1 DEF Grown, IsNew, FeesFollow
  <2> QED BY <2>1, <2>2 DEF OffKept
<1>8. ASSUME NEW k, WaivedBy(k)
      PROVE  OffKept /\ (CapKept(fees) => CapKept(fees'))
  <2>1. FeesFollow /\ NoneAdded
    BY <1>0, <1>8, SameDomainFollows DEF WaivedBy, NoneAdded
  <2>2. inst' = inst /\ \A t \in OffTypes : ledger'[t] = ledger[t]
    BY <1>2, <1>8 DEF WaivedBy
  <2> QED BY <1>0, <1>1, <1>3, <2>1, <2>2 DEF OffKept
<1>9. ASSUME NEW charged, NEW given, Cleared(charged, given)
      PROVE  /\ inst' \in [Installments -> InstRow]
             /\ \A i \in Installments : SameWorth(inst[i], inst'[i])
             /\ FeesFollow /\ NoneAdded
  <2>1. /\ inst' \in [Installments -> InstRow]
        /\ \A i \in Installments : SameWorth(inst[i], inst'[i])
        /\ CloseOutFees
    BY <1>0, <1>9, CloseOutMeaning DEF Cleared
  <2>2. /\ fees' \in Seq(FeeRow) /\ DOMAIN fees' = DOMAIN fees
        /\ \A k \in DOMAIN fees : SameFee(fees[k], fees'[k])
    BY <1>0, <2>1, CloseOutFeesMeaning
  <2>3. FeesFollow /\ NoneAdded
    BY <1>0, <2>2, SameDomainFollows DEF SameFee, NoneAdded
  <2> QED BY <2>1, <2>3
<1>10. ASSUME NEW charged, NEW given, NEW p, SettledBy(charged, given, p)
       PROVE  OffKept /\ (CapKept(fees) => CapKept(fees'))
  <2>1. Cleared(charged, given) /\ \A t \in OffTypes : ledger'[t] = ledger[t]
    BY <1>2, <1>10, SettledEntries DEF SettledBy
  <2> QED BY <1>3, <1>9, <2>1 DEF OffKept
<1>11. ASSUME NEW charged, NEW given, ReturnedBy(charged, given)
       PROVE  OffKept /\ (CapKept(fees) => CapKept(fees'))
  <2>1. Cleared(charged, given) /\ \A t \in OffTypes : ledger'[t] = ledger[t]
    BY <1>2, <1>11, ReturnedEntries DEF ReturnedBy
  <2> QED BY <1>3, <1>9, <2>1 DEF OffKept
<1> QED BY <1>4, <1>5, <1>6, <1>7, <1>8, <1>10, <1>11 DEF ServicingStep

\* The columns of what was written off, and the entries of the ledger.
PrincipalsOff(rows) == [i \in Installments |-> rows[i].principal_written_off]
ProfitsOff(rows) == [i \in Installments |-> rows[i].profit_written_off]
FeesOff(charges) == [k \in DOMAIN charges |-> charges[k].amount_written_off]
OffCounted ==
  /\ ledger.principal_written_off = SumFunctionOnSet(PrincipalsOff(inst), Installments)
  /\ ledger.profit_written_off = SumFunctionOnSet(ProfitsOff(inst), Installments)
  /\ ledger.late_fee_written_off = SumFunction(FeesOff(fees))

LEMMA OffColumns ==
  ASSUME NEW rows \in [Installments -> InstRow]
  PROVE  /\ PrincipalsOff(rows) \in [Installments -> Nat]
         /\ ProfitsOff(rows) \in [Installments -> Nat]
         /\ SumFunctionOnSet(PrincipalsOff(rows), Installments) \in Nat
         /\ SumFunctionOnSet(ProfitsOff(rows), Installments) \in Nat
<1>1. \A i \in Installments : /\ rows[i].principal_written_off \in Nat
                              /\ rows[i].profit_written_off \in Nat
  BY InstRowMeaning
<1>2. PICK u \in [Installments -> Nat], v \in [Installments -> Nat] :
        u = PrincipalsOff(rows) /\ v = ProfitsOff(rows)
  BY <1>1 DEF PrincipalsOff, ProfitsOff
<1>3. SumFunctionOnSet(u, Installments) \in Nat /\ SumFunctionOnSet(v, Installments) \in Nat
  BY InstallmentsAreFinite, SumNat
<1> QED BY <1>2, <1>3

LEMMA FeesOffFollow ==
  ASSUME fees \in Seq(FeeRow), FeesFollow
  PROVE  SumFunction(FeesOff(fees')) = SumFunction(FeesOff(fees))
<1>1. PICK m \in Nat : m = Len(fees) /\ fees \in [1..m -> FeeRow] /\ DOMAIN fees = 1..m
  BY SequenceIsFunction
<1>2. PICK n \in Nat : n = Len(fees') /\ fees' \in [1..n -> FeeRow] /\ DOMAIN fees' = 1..n
  BY SequenceIsFunction DEF FeesFollow
<1>3. m <= n /\ 1..m \subseteq 1..n
  BY <1>1, <1>2 DEF FeesFollow
<1>4. /\ \A k \in 1..m : fees[k].amount_written_off \in Nat
      /\ \A k \in 1..n : fees'[k].amount_written_off \in Nat
  BY <1>1, <1>2, FeeRowMeaning
<1>5. PICK f \in [1..m -> Nat] : f = FeesOff(fees)
  BY <1>1, <1>4 DEF FeesOff
<1>6. PICK g \in [1..n -> Nat] : g = FeesOff(fees')
  BY <1>2, <1>4 DEF FeesOff
<1>7. \A k \in 1..m : g[k] \in Int /\ g[k] = f[k]
  <2> SUFFICES ASSUME NEW k \in 1..m PROVE g[k] \in Int /\ g[k] = f[k]
    OBVIOUS
  <2>1. k \in DOMAIN fees /\ k \in 1..n
    BY <1>1, <1>2, <1>3
  <2>2. g[k] = fees'[k].amount_written_off /\ f[k] = fees[k].amount_written_off
    BY <1>1, <1>2, <1>5, <1>6, <2>1 DEF FeesOff
  <2>3. g[k] \in Nat
    BY <2>1
  <2> QED BY <2>1, <2>2, <2>3 DEF FeesFollow
<1>8. \A k \in (1..n) \ (1..m) : g[k] = 0
  BY <1>1, <1>2, <1>6 DEF FeesOff, FeesFollow
<1>9. SumFunctionOnSet(g, 1..n) = SumFunctionOnSet(g, 1..m)
  <2>1. 1..m \in SUBSET (1..n) /\ \A k \in 1..n : g[k] \in Int
    BY <1>3
  <2> QED BY <1>8, <2>1, UpToIsFinite, SumSupport
<1>10. SumFunctionOnSet(g, 1..m) = SumFunctionOnSet(f, 1..m)
  BY <1>7, UpToIsFinite, SumSame
<1> QED BY <1>5, <1>6, <1>9, <1>10 DEF SumFunction

LEMMA StepCountsOff ==
  ASSUME Sound, OffCounted, ServicingStep
  PROVE  OffCounted'
<1>1. /\ inst \in [Installments -> InstRow] /\ fees \in Seq(FeeRow)
  BY DEF Sound, Typed
<1>2. /\ inst' \in [Installments -> InstRow]
      /\ \A i \in Installments : SameWorth(inst[i], inst'[i])
      /\ FeesFollow /\ \A t \in OffTypes : ledger'[t] = ledger[t]
  BY StepKeepsOff DEF OffKept
<1>3. PrincipalsOff(inst') = PrincipalsOff(inst) /\ ProfitsOff(inst') = ProfitsOff(inst)
  BY <1>2 DEF PrincipalsOff, ProfitsOff, SameWorth
<1>4. SumFunction(FeesOff(fees')) = SumFunction(FeesOff(fees))
  BY <1>1, <1>2, FeesOffFollow
<1> QED BY <1>2, <1>3, <1>4 DEF OffCounted, OffTypes

LEMMA WriteOffCountsOff ==
  ASSUME Sound, OffCounted, NEW ask \in AmountRow, NEW p, NEW q, NEW r,
         WrittenOffBy(ask, p, q, r)
  PROVE  OffCounted' /\ (CapKept(fees) => CapKept(fees'))
<1>1. /\ inst \in [Installments -> InstRow] /\ fees \in Seq(FeeRow)
  BY DEF Sound, Typed
<1>2. /\ p \in [Installments -> Nat] /\ q \in [Installments -> Nat]
      /\ r \in [DOMAIN fees -> Nat]
      /\ inst' \in [Installments -> InstRow]
      /\ \A i \in Installments :
           /\ inst'[i].principal_written_off = inst[i].principal_written_off + p[i]
           /\ inst'[i].profit_written_off = inst[i].profit_written_off + q[i]
      /\ fees' \in Seq(FeeRow) /\ DOMAIN fees' = DOMAIN fees
      /\ \A k \in DOMAIN fees :
           fees'[k].amount_written_off = fees[k].amount_written_off + r[k]
      /\ SumFunction(p) = ask.principal /\ SumFunction(q) = ask.profit
      /\ SumFunction(r) = ask.late_fee
  BY DEF WrittenOffBy
<1>3. PICK u \in [Installments -> Nat], v \in [Installments -> Nat] :
        u = PrincipalsOff(inst) /\ v = ProfitsOff(inst)
  BY <1>1, OffColumns
<1>4. PICK x \in [Installments -> Nat], y \in [Installments -> Nat] :
        x = PrincipalsOff(inst') /\ y = ProfitsOff(inst')
  BY <1>2, OffColumns
<1>5. /\ \A i \in Installments : u[i] \in Int /\ p[i] \in Int /\ x[i] = u[i] + p[i]
      /\ \A i \in Installments : v[i] \in Int /\ q[i] \in Int /\ y[i] = v[i] + q[i]
  BY <1>2, <1>3, <1>4 DEF PrincipalsOff, ProfitsOff
<1>6. /\ SumFunctionOnSet(x, Installments)
           = SumFunctionOnSet(u, Installments) + SumFunctionOnSet(p, Installments)
      /\ SumFunctionOnSet(y, Installments)
           = SumFunctionOnSet(v, Installments) + SumFunctionOnSet(q, Installments)
  BY <1>5, InstallmentsAreFinite, SumPlus
<1>7. SumFunctionOnSet(p, Installments) = ask.principal
      /\ SumFunctionOnSet(q, Installments) = ask.profit
  BY <1>2 DEF SumFunction
<1>8. PICK m \in Nat : fees \in [1..m -> FeeRow] /\ DOMAIN fees = 1..m
  BY <1>1, SequenceIsFunction
<1>9. fees' \in [1..m -> FeeRow]
  BY <1>2, <1>8, SequenceIsFunction
<1>10. /\ \A k \in 1..m : fees[k].amount_written_off \in Nat
       /\ \A k \in 1..m : fees'[k].amount_written_off \in Nat
  BY <1>8, <1>9, FeeRowMeaning
<1>11. PICK f \in [1..m -> Nat] : f = FeesOff(fees)
  BY <1>8, <1>10 DEF FeesOff
<1>12. PICK g \in [1..m -> Nat] : g = FeesOff(fees')
  BY <1>9, <1>10 DEF FeesOff
<1>13. PICK d \in [1..m -> Nat] : d = r
  BY <1>2, <1>8
<1>14. \A k \in 1..m : f[k] \in Int /\ d[k] \in Int /\ g[k] = f[k] + d[k]
  <2> SUFFICES ASSUME NEW k \in 1..m PROVE g[k] = f[k] + d[k]
    OBVIOUS
  <2>1. f[k] = fees[k].amount_written_off
    BY <1>8, <1>11 DEF FeesOff
  <2>2. g[k] = fees'[k].amount_written_off
    BY <1>9, <1>12 DEF FeesOff
  <2>3. d[k] = r[k] /\ fees'[k].amount_written_off = fees[k].amount_written_off + r[k]
    BY <1>2, <1>8, <1>13
  <2> QED BY <2>1, <2>2, <2>3
<1>15. SumFunctionOnSet(g, 1..m) = SumFunctionOnSet(f, 1..m) + SumFunctionOnSet(d, 1..m)
  BY <1>14, UpToIsFinite, SumPlus
<1>16. SumFunctionOnSet(d, 1..m) = ask.late_fee
  BY <1>2, <1>13 DEF SumFunction
<1>17. /\ SumFunction(FeesOff(fees')) = SumFunctionOnSet(g, 1..m)
       /\ SumFunction(FeesOff(fees)) = SumFunctionOnSet(f, 1..m)
  BY <1>11, <1>12 DEF SumFunction
<1>18. /\ ledger'.principal_written_off = ledger.principal_written_off + ask.principal
       /\ ledger'.profit_written_off = ledger.profit_written_off + ask.profit
       /\ ledger'.late_fee_written_off = ledger.late_fee_written_off + ask.late_fee
  BY WrittenOffEntries
<1>19. OffCounted'
  BY <1>3, <1>4, <1>6, <1>7, <1>15, <1>16, <1>17, <1>18 DEF OffCounted
<1>20. NoneAdded
  BY DEF WrittenOffBy, NoneAdded
<1>21. CapKept(fees) => CapKept(fees')
  BY <1>1, <1>20, NoneAddedKeepsCap
<1> QED BY <1>19, <1>21

\* What was asked for in the executed requests.
AskedOf(rows, b) ==
  [n \in 1..Len(rows) |-> IF rows[n].status = "executed" THEN rows[n].asked[b] ELSE 0]

LEMMA AskedOfMeaning ==
  ASSUME NEW rows \in Seq(WriteOffRow), NEW b \in Components
  PROVE  /\ AskedOf(rows, b) \in [1..Len(rows) -> Nat] /\ DOMAIN rows = 1..Len(rows)
         /\ Len(rows) \in Nat
<1>1. PICK m \in Nat : m = Len(rows) /\ rows \in [1..m -> WriteOffRow] /\ DOMAIN rows = 1..m
  BY SequenceIsFunction
<1>2. \A n \in 1..m : rows[n].asked[b] \in Nat
  BY <1>1, WriteOffRowMeaning, RowComponents
<1> QED BY <1>1, <1>2 DEF AskedOf

LEMMA ExecutedMeaning ==
  ASSUME writeOffs \in Seq(WriteOffRow), NEW b
  PROVE  Executed(b) = SumFunction(AskedOf(writeOffs, b))
<1>1. DOMAIN writeOffs = 1..Len(writeOffs)
  BY SequenceIsFunction
<1> QED BY <1>1 DEF Executed, AskedOf

\* Requests that ask for the same, of which only those in N are now executed, or not.
LEMMA AskedOfSame ==
  ASSUME NEW rows \in Seq(WriteOffRow), NEW later \in Seq(WriteOffRow),
         DOMAIN later = DOMAIN rows, NEW b \in Components, NEW n \in DOMAIN rows,
         \A k \in DOMAIN rows : k # n => later[k] = rows[k],
         later[n].asked = rows[n].asked
  PROVE  /\ (later[n].status = "executed" <=> rows[n].status = "executed") =>
              SumFunction(AskedOf(later, b)) = SumFunction(AskedOf(rows, b))
         /\ later[n].status = "executed" /\ rows[n].status # "executed" =>
              SumFunction(AskedOf(later, b)) = SumFunction(AskedOf(rows, b)) + rows[n].asked[b]
<1>1. PICK m \in Nat : m = Len(rows) /\ DOMAIN rows = 1..m
  BY SequenceIsFunction
<1>2. Len(later) = m
  BY <1>1, SequenceIsFunction
<1>3. PICK f \in [1..m -> Nat] : f = AskedOf(rows, b)
  BY <1>1, AskedOfMeaning
<1>4. PICK g \in [1..m -> Nat] : g = AskedOf(later, b)
  BY <1>2, AskedOfMeaning
<1>5. \A k \in (1..m) \ {n} : f[k] = g[k]
  BY <1>1, <1>2, <1>3, <1>4 DEF AskedOf
<1>6. PICK S : S = 1..m /\ IsFiniteSet(S)
  BY UpToIsFinite
<1>7. SumFunctionOnSet(g, 1..m) = SumFunctionOnSet(f, 1..m) + g[n] - f[n]
  <2>1. PICK x \in S : x = n
    BY <1>1, <1>6
  <2>2. \A y \in S : f[y] \in Int /\ g[y] \in Int
    BY <1>6
  <2>3. \A y \in S \ {x} : f[y] = g[y]
    BY <1>5, <1>6, <2>1
  <2>4. SumFunctionOnSet(g, S) = SumFunctionOnSet(f, S) + g[x] - f[x]
    BY <1>6, <2>2, <2>3, SumChange, SMTT(30)
  <2> QED BY <1>6, <2>1, <2>4
<1>8. /\ f[n] = IF rows[n].status = "executed" THEN rows[n].asked[b] ELSE 0
      /\ g[n] = IF later[n].status = "executed" THEN rows[n].asked[b] ELSE 0
  BY <1>1, <1>2, <1>3, <1>4 DEF AskedOf
<1>9. PICK x \in Nat : x = rows[n].asked[b]
  BY SequenceElement, WriteOffRowMeaning, RowComponents
<1>10. PICK s \in Nat : s = SumFunctionOnSet(f, 1..m)
  BY UpToIsFinite, SumNat
<1>11. SumFunction(AskedOf(rows, b)) = s
       /\ SumFunction(AskedOf(later, b)) = s + g[n] - f[n]
  BY <1>3, <1>4, <1>7, <1>10 DEF SumFunction
<1>12. s + 0 - 0 = s /\ s + x - x = s /\ s + x - 0 = s + x
  OBVIOUS
<1> QED BY <1>8, <1>9, <1>11, <1>12

LEMMA AskedOfOneMore ==
  ASSUME writeOffs \in Seq(WriteOffRow), NEW w, Requested(w), NEW b \in Components
  PROVE  SumFunction(AskedOf(writeOffs', b)) = SumFunction(AskedOf(writeOffs, b))
<1>1. PICK m \in Nat : m = Len(writeOffs) /\ DOMAIN writeOffs = 1..m
  BY SequenceIsFunction
<1>2. /\ writeOffs' \in Seq(WriteOffRow) /\ DOMAIN writeOffs' = 1..(m + 1)
      /\ \A k \in 1..m : writeOffs'[k] = writeOffs[k]
      /\ writeOffs'[m + 1] = w /\ w.status = "pending"
  BY <1>1, RequestedMeaning DEF Requested
<1>3. Len(writeOffs') = m + 1
  BY <1>2, SequenceIsFunction
<1>4. PICK f \in [1..m -> Nat] : f = AskedOf(writeOffs, b)
  BY <1>1, AskedOfMeaning
<1>5. PICK g \in [1..(m + 1) -> Nat] : g = AskedOf(writeOffs', b)
  BY <1>2, <1>3, AskedOfMeaning
<1>6. /\ \A k \in 1..m : g[k] = f[k]
      /\ g[m + 1] = 0
  BY <1>1, <1>2, <1>3, <1>4, <1>5 DEF AskedOf
<1>7. f \in [1..m -> Int] /\ g \in [1..(m + 1) -> Int]
  OBVIOUS
<1>8. SumFunction(g) = SumFunction(f) + g[m + 1]
  BY <1>6, <1>7, SumGrows
<1>9. SumFunctionOnSet(f, 1..m) \in Int
  BY <1>7, UpToIsFinite, SumInt
<1>10. SumFunction(f) \in Int
  BY <1>9 DEF SumFunction
<1> QED BY <1>4, <1>5, <1>6, <1>8, <1>10

RequestsCounted ==
  /\ ledger.principal_written_off = SumFunction(AskedOf(writeOffs, "principal"))
  /\ ledger.profit_written_off = SumFunction(AskedOf(writeOffs, "profit"))
  /\ ledger.late_fee_written_off = SumFunction(AskedOf(writeOffs, "late_fee"))

LEMMA AccountedMeans ==
  ASSUME writeOffs \in Seq(WriteOffRow)
  PROVE  OffCounted /\ RequestsCounted => WriteOffAccounted
BY ExecutedMeaning DEF OffCounted, RequestsCounted, WriteOffAccounted, PrincipalsOff,
                       ProfitsOff, FeesOff, SumFunction

LEMMA StepCountsRequests ==
  ASSUME Sound, RequestsSound, RequestsCounted, WriteOffStep
  PROVE  RequestsCounted'
<1>1. writeOffs \in Seq(WriteOffRow)
  BY DEF RequestsSound
<1>2. {"principal", "profit", "late_fee"} = Components
  BY DEF Components
<1>3. Quiet => ledger' = ledger
  BY DEF Quiet, money
<1>4. CASE ServicingStep /\ writeOffs' = writeOffs
  <2>1. \A t \in OffTypes : ledger'[t] = ledger[t]
    BY <1>4, StepKeepsOff DEF OffKept
  <2> QED BY <1>4, <2>1 DEF RequestsCounted, OffTypes
<1>5. ASSUME NEW w, Requested(w), Quiet PROVE RequestsCounted'
  BY <1>1, <1>2, <1>3, <1>5, AskedOfOneMore DEF RequestsCounted
<1>6. ASSUME NEW n, NEW s, JudgedAs(n, s), Quiet PROVE RequestsCounted'
  <2>1. /\ n \in DOMAIN writeOffs /\ s \in RequestStatus /\ s # "executed"
        /\ writeOffs[n].status # "executed" /\ writeOffs' = Judged(writeOffs, n, s)
    BY <1>6 DEF JudgedAs
  <2>2. /\ writeOffs' \in Seq(WriteOffRow) /\ DOMAIN writeOffs' = DOMAIN writeOffs
        /\ \A k \in DOMAIN writeOffs : k # n => writeOffs'[k] = writeOffs[k]
        /\ writeOffs'[n].asked = writeOffs[n].asked /\ writeOffs'[n].status = s
    BY <1>1, <2>1, JudgedMeaning
  <2>3. \A b \in Components :
          SumFunction(AskedOf(writeOffs', b)) = SumFunction(AskedOf(writeOffs, b))
    BY <1>1, <2>1, <2>2, AskedOfSame
  <2> QED BY <1>2, <1>3, <1>6, <2>3 DEF RequestsCounted
<1>7. ASSUME NEW n, NEW r, RecoveredOf(n, r), Quiet PROVE RequestsCounted'
  <2>1. /\ n \in DOMAIN writeOffs /\ r \in AmountRow
        /\ writeOffs' = RecoveredTo(writeOffs, n, r)
    BY <1>7 DEF RecoveredOf
  <2>2. /\ writeOffs' \in Seq(WriteOffRow) /\ DOMAIN writeOffs' = DOMAIN writeOffs
        /\ \A k \in DOMAIN writeOffs : k # n => writeOffs'[k] = writeOffs[k]
        /\ writeOffs'[n].asked = writeOffs[n].asked
        /\ writeOffs'[n].status = writeOffs[n].status
    BY <1>1, <2>1, RecoveredToMeaning
  <2>3. \A b \in Components :
          SumFunction(AskedOf(writeOffs', b)) = SumFunction(AskedOf(writeOffs, b))
    BY <1>1, <2>1, <2>2, AskedOfSame
  <2> QED BY <1>2, <1>3, <1>7, <2>3 DEF RequestsCounted
<1>8. ASSUME NEW n, NEW p, NEW q, NEW r, ExecutedBy(n, p, q, r) PROVE RequestsCounted'
  <2>1. /\ n \in DOMAIN writeOffs /\ writeOffs[n].status # "executed"
        /\ WrittenOffBy(writeOffs[n].asked, p, q, r)
        /\ writeOffs' = Judged(writeOffs, n, "executed") /\ "executed" \in RequestStatus
    BY <1>8 DEF ExecutedBy, RequestStatus
  <2>2. /\ writeOffs' \in Seq(WriteOffRow) /\ DOMAIN writeOffs' = DOMAIN writeOffs
        /\ \A k \in DOMAIN writeOffs : k # n => writeOffs'[k] = writeOffs[k]
        /\ writeOffs'[n].asked = writeOffs[n].asked /\ writeOffs'[n].status = "executed"
    BY <1>1, <2>1, JudgedMeaning
  <2>3. \A b \in Components :
          SumFunction(AskedOf(writeOffs', b))
            = SumFunction(AskedOf(writeOffs, b)) + writeOffs[n].asked[b]
    BY <1>1, <2>1, <2>2, AskedOfSame
  <2>4. PICK ask \in AmountRow : ask = writeOffs[n].asked
    BY <1>1, <2>1, SequenceElement, WriteOffRowMeaning
  <2>5. /\ ledger'.principal_written_off = ledger.principal_written_off + ask.principal
        /\ ledger'.profit_written_off = ledger.profit_written_off + ask.profit
        /\ ledger'.late_fee_written_off = ledger.late_fee_written_off + ask.late_fee
    BY <2>1, <2>4, WrittenOffEntries
  <2> QED BY <1>2, <2>3, <2>4, <2>5 DEF RequestsCounted
<1> QED BY <1>4, <1>5, <1>6, <1>7, <1>8 DEF WriteOffStep

-------------------------------------------------------------------------------
\* The invariant of a contract with write-offs, and what follows from it.

Counted == CashCounted /\ OffCounted /\ RequestsCounted /\ CapKept(fees)
WriteOffInv == Sound /\ RequestsSound /\ Counted

LEMMA CountedAtFirst == Init => CashCounted /\ OffCounted
<1> SUFFICES ASSUME Init PROVE CashCounted /\ OffCounted
  OBVIOUS
<1>1. /\ fees = <<>> /\ payments = <<>> /\ ledger = [t \in EntryTypes |-> 0]
      /\ \A i \in Installments :
           inst[i].principal_written_off = 0 /\ inst[i].profit_written_off = 0
  BY DEF Init
<1>2. \A t \in CashTypes \cup OffTypes : ledger[t] = 0
  BY <1>1 DEF CashTypes, OffTypes, EntryTypes
<1>3. ASSUME NEW g, DOMAIN g = {} PROVE SumFunction(g) = 0
  BY <1>3, SumEmpty DEF SumFunction
<1>4. CashCounted
  <2>1. PICK g : g = [n \in DOMAIN payments |-> IfApplied(payments[n], AmountsOf(payments)[n])]
    OBVIOUS
  <2>2. DOMAIN g = {}
    BY <1>1, <2>1
  <2>3. Received(payments) = 0
    BY <1>3, <2>1, <2>2 DEF Received, Applied
  <2> QED BY <1>2, <2>3 DEF CashCounted, CashEntries, CashTypes
<1>5. OffCounted
  <2>1. \A i \in Installments : PrincipalsOff(inst)[i] = 0 /\ ProfitsOff(inst)[i] = 0
    BY <1>1 DEF PrincipalsOff, ProfitsOff
  <2>2. /\ SumFunctionOnSet(PrincipalsOff(inst), Installments) = 0
        /\ SumFunctionOnSet(ProfitsOff(inst), Installments) = 0
    BY <2>1, InstallmentsAreFinite, SumZero
  <2>3. PICK g : g = FeesOff(fees)
    OBVIOUS
  <2>4. DOMAIN g = {}
    BY <1>1, <2>3 DEF FeesOff
  <2>5. SumFunction(FeesOff(fees)) = 0
    BY <1>3, <2>3, <2>4
  <2> QED BY <1>2, <2>2, <2>5 DEF OffCounted, OffTypes
<1> QED BY <1>4, <1>5

LEMMA WriteOffInvAtFirst == WriteOffInit => WriteOffInv
<1> SUFFICES ASSUME WriteOffInit PROVE WriteOffInv
  OBVIOUS
<1>1. Sound /\ CashCounted /\ OffCounted /\ writeOffs = <<>>
  BY SoundAtFirst, CountedAtFirst DEF WriteOffInit
<1>2. fees = <<>> /\ ledger = [t \in EntryTypes |-> 0]
  BY DEF WriteOffInit, Init
<1>3. RequestsSound
  BY <1>1 DEF RequestsSound, RecoveredWithinWrittenOff
<1>4. \A t \in OffTypes : ledger[t] = 0
  BY <1>2 DEF OffTypes, EntryTypes
<1>5. ASSUME NEW g, DOMAIN g = {} PROVE SumFunction(g) = 0
  BY <1>5, SumEmpty DEF SumFunction
<1>6. RequestsCounted
  <2> SUFFICES ASSUME NEW b PROVE SumFunction(AskedOf(writeOffs, b)) = 0
    BY <1>4 DEF RequestsCounted, OffTypes
  <2>1. PICK g : g = AskedOf(writeOffs, b)
    OBVIOUS
  <2>2. DOMAIN g = {}
    BY <1>1, <2>1 DEF AskedOf
  <2> QED BY <1>5, <2>1, <2>2
<1>7. CapKept(fees)
  <2>1. PICK g : g = [k \in DOMAIN fees |-> IF NotWaived(fees[k]) THEN fees[k].amount ELSE 0]
    OBVIOUS
  <2>2. DOMAIN g = {}
    BY <1>2, <2>1
  <2>3. FeeTotal(fees) = 0
    BY <1>5, <2>1, <2>2 DEF FeeTotal
  <2> QED BY <2>3, ServicingAssumption DEF CapKept
<1> QED BY <1>1, <1>3, <1>6, <1>7 DEF WriteOffInv, Counted

LEMMA WriteOffInvKept == WriteOffInv /\ [WriteOffNext]_wvars => WriteOffInv'
<1> SUFFICES ASSUME WriteOffInv, [WriteOffNext]_wvars PROVE WriteOffInv'
  OBVIOUS
<1>1. Sound /\ RequestsSound /\ CashCounted /\ OffCounted /\ RequestsCounted /\ CapKept(fees)
  BY DEF WriteOffInv, Counted
<1>2. WriteOffStep
  BY <1>1, WriteOffSteps
<1>3. Sound' /\ RequestsSound' /\ RequestsCounted'
  BY <1>1, <1>2, WriteOffKeepsSound, StepKeepsRequests, StepCountsRequests
<1>4. CASE ServicingStep
  BY <1>1, <1>3, <1>4, StepCountsCash, StepCountsOff, StepKeepsOff DEF WriteOffInv, Counted
<1>5. CASE Quiet
  BY <1>4, <1>5 DEF ServicingStep
<1>6. ASSUME NEW n, NEW p, NEW q, NEW r, ExecutedBy(n, p, q, r)
      PROVE  WriteOffInv'
  <2>1. writeOffs[n].asked \in AmountRow /\ WrittenOffBy(writeOffs[n].asked, p, q, r)
    BY <1>1, <1>6, SequenceElement, WriteOffRowMeaning DEF ExecutedBy, RequestsSound
  <2> QED BY <1>1, <1>3, <2>1, WriteOffCountsCash, WriteOffCountsOff
          DEF WriteOffInv, Counted
<1> QED BY <1>2, <1>4, <1>5, <1>6 DEF WriteOffStep

LEMMA WriteOffInvAlways == WriteOffSpec => []WriteOffInv
BY WriteOffInvAtFirst, WriteOffInvKept, PTL DEF WriteOffSpec

\* Nothing is both paid and written off, for any schedule, amounts and requests:
\* what is executed is compared with what is outstanding at that moment, and what is
\* spread over installments and charges is never more than each of them still owes.
THEOREM PaidOrWrittenOffCorrect == WriteOffSpec => []PaidOrWrittenOff
<1>1. WriteOffInv => PaidOrWrittenOff
  BY DEF WriteOffInv, Sound, PaidOrWrittenOff, InstBounded, FeesBounded
<1> QED BY <1>1, WriteOffInvAlways, PTL

\* Requests, columns and ledger agree on what was written off, because a request is
\* executed once, in one step with the sweeps that take exactly what it asks for.
THEOREM WriteOffCorrect == WriteOffSpec => []WriteOffAccounted
<1>1. WriteOffInv => WriteOffAccounted
  BY AccountedMeans DEF WriteOffInv, Counted, RequestsSound
<1> QED BY <1>1, WriteOffInvAlways, PTL

\* No component of a write-off recovers more than was written off of it, in whatever
\* order the configuration of the day credits them.
THEOREM RecoveryCorrect == WriteOffSpec => []RecoveredWithinWrittenOff
<1>1. WriteOffInv => RecoveredWithinWrittenOff
  BY DEF WriteOffInv, RequestsSound
<1> QED BY <1>1, WriteOffInvAlways, PTL

\* What is unearned is the profit that no payment has recognised, after payments, old
\* payments taken back, settlement, return and write-offs in any order.
THEOREM UnearnedCorrect == WriteOffSpec => []UnearnedAddsUp
<1>1. WriteOffInv => UnearnedAddsUp
  BY DEF WriteOffInv, Sound
<1> QED BY <1>1, WriteOffInvAlways, PTL

\* The cash entries of the ledger are the payments that were not taken back.
THEOREM CashCorrect == WriteOffSpec => []CashIsReceived
<1>1. WriteOffInv => CashIsReceived
  BY CashCountedMeans DEF WriteOffInv, Counted
<1> QED BY <1>1, WriteOffInvAlways, PTL

\* An installment bears one late fee at a time, whatever days the job is run for.
THEOREM OneFeeCorrect == WriteOffSpec => []OneLiveFee
<1>1. WriteOffInv => OneLiveFee
  BY DEF WriteOffInv, Sound, OneLive, OneLiveFee, LiveOf, Live
<1> QED BY <1>1, WriteOffInvAlways, PTL

\* The charges that were not waived stay within the configured cap, also when one run
\* of the job goes through several installments.
THEOREM CapCorrect == WriteOffSpec => []FeesWithinCap
<1>1. WriteOffInv => FeesWithinCap
  BY DEF WriteOffInv, Counted, CapKept, FeesWithinCap
<1> QED BY <1>1, WriteOffInvAlways, PTL

\* A closed contract stays closed, with the reason it was closed for: no write-off
\* approved before is executed, and no reversal opens it again.
THEOREM ClosingCorrect == WriteOffSpec => ClosesOnce
<1>1. ASSUME [WriteOffNext]_wvars, contract.status = "closed"
      PROVE  contract' = contract
  <2>1. CASE UNCHANGED wvars
    BY <2>1 DEF wvars, cvars
  <2>2. CASE WriteOffNext
    BY <1>1, <2>2 DEF WriteOffNext, ServicingNext, ConfirmDelivery, CancelContract,
       RecordPayment, ReverseSettledPayment, AssessOverdue, RequestWaiver, ApproveWaiver,
       RejectWaiver, LogPromise, SetPromiseStatus, Settle, ApproveRebate, SettleContract,
       Quotable, RequestRebate, RejectRebate, ReturnContract, RequestWriteOff,
       DecideWriteOff, CancelWriteOff, ExecuteWriteOff, Executable, RecordRecovery, cvars
  <2> QED BY <1>1, <2>1, <2>2
<1>2. [WriteOffNext]_wvars => [contract.status = "closed" => contract' = contract]_wvars
  BY <1>1
<1> QED BY <1>2, PTL DEF WriteOffSpec, ClosesOnce
-------------------------------------------------------------------------------
\* What was paid of principal and profit, and the entries that explain it.

\* Columns of the installments.
PrincipalsPaid(rows) == [i \in Installments |-> rows[i].principal_paid]
ProfitsPaid(rows) == [i \in Installments |-> rows[i].profit_paid]
Summed(f) == SumFunctionOnSet(f, Installments)

\* A settlement clears the principal a write-off left, and calls all of it paid.
PaidExplained ==
  /\ Summed(PrincipalsPaid(inst))
       = ledger.principal_paid + ledger.return_principal_cleared
           + IF ClearedEarly THEN Summed(PrincipalsOff(inst)) ELSE 0
  /\ Summed(ProfitsPaid(inst))
       = ledger.profit_recognized + ledger.profit_rebated + ledger.return_profit_retained
           + ledger.return_profit_waived

LEMMA InstColumns ==
  ASSUME NEW rows \in [Installments -> InstRow]
  PROVE  /\ Principals(rows) \in [Installments -> Nat] /\ Profits(rows) \in [Installments -> Nat]
         /\ PrincipalsPaid(rows) \in [Installments -> Nat]
         /\ ProfitsPaid(rows) \in [Installments -> Nat]
         /\ Summed(Principals(rows)) \in Nat /\ Summed(Profits(rows)) \in Nat
         /\ Summed(PrincipalsPaid(rows)) \in Nat /\ Summed(ProfitsPaid(rows)) \in Nat
<1>1. \A i \in Installments : /\ rows[i].principal \in Nat /\ rows[i].profit \in Nat
                              /\ rows[i].principal_paid \in Nat /\ rows[i].profit_paid \in Nat
  BY InstRowMeaning
<1>2. PICK u \in [Installments -> Nat], v \in [Installments -> Nat] :
        u = Principals(rows) /\ v = Profits(rows)
  BY <1>1 DEF Principals, Profits
<1>3. PICK x \in [Installments -> Nat], y \in [Installments -> Nat] :
        x = PrincipalsPaid(rows) /\ y = ProfitsPaid(rows)
  BY <1>1 DEF PrincipalsPaid, ProfitsPaid
<1>4. /\ Summed(u) \in Nat /\ Summed(v) \in Nat /\ Summed(x) \in Nat /\ Summed(y) \in Nat
  BY InstallmentsAreFinite, SumNat DEF Summed
<1> QED BY <1>2, <1>3, <1>4

\* What installments owe is what they are worth, less what is paid and written off.
LEMMA OwedColumns ==
  ASSUME inst \in [Installments -> InstRow]
  PROVE  /\ Owed("principal") = Summed(Principals(inst)) - Summed(PrincipalsPaid(inst))
                                  - Summed(PrincipalsOff(inst))
         /\ Owed("profit") = Summed(Profits(inst)) - Summed(ProfitsPaid(inst))
                               - Summed(ProfitsOff(inst))
<1>1. PICK a \in [Installments -> Nat], b \in [Installments -> Nat] :
        a = Principals(inst) /\ b = Profits(inst)
  BY InstColumns
<1>2. PICK c \in [Installments -> Nat], d \in [Installments -> Nat] :
        c = PrincipalsPaid(inst) /\ d = ProfitsPaid(inst)
  BY InstColumns
<1>3. PICK e \in [Installments -> Nat], f \in [Installments -> Nat] :
        e = PrincipalsOff(inst) /\ f = ProfitsOff(inst)
  BY OffColumns
<1>4. PICK u \in [Installments -> Int], v \in [Installments -> Int] :
        u = [i \in Installments |-> a[i] - c[i]] /\ v = [i \in Installments |-> b[i] - d[i]]
  <2>1. \A i \in Installments : a[i] - c[i] \in Int /\ b[i] - d[i] \in Int
    OBVIOUS
  <2> QED BY <2>1
<1>5. PICK x \in [Installments -> Int], y \in [Installments -> Int] :
        x = [i \in Installments |-> u[i] - e[i]] /\ y = [i \in Installments |-> v[i] - f[i]]
  <2>1. \A i \in Installments : u[i] - e[i] \in Int /\ v[i] - f[i] \in Int
    OBVIOUS
  <2> QED BY <2>1
<1>6. /\ Summed(u) = Summed(a) - Summed(c) /\ Summed(v) = Summed(b) - Summed(d)
  <2>1. \A i \in Installments : /\ a[i] \in Int /\ b[i] \in Int /\ c[i] \in Int /\ d[i] \in Int
                                /\ u[i] = a[i] - c[i] /\ v[i] = b[i] - d[i]
    BY <1>4
  <2> QED BY <2>1, InstallmentsAreFinite, SumMinus DEF Summed
<1>7. /\ Summed(x) = Summed(u) - Summed(e) /\ Summed(y) = Summed(v) - Summed(f)
  <2>1. \A i \in Installments : /\ u[i] \in Int /\ v[i] \in Int /\ e[i] \in Int /\ f[i] \in Int
                                /\ x[i] = u[i] - e[i] /\ y[i] = v[i] - f[i]
    BY <1>5
  <2> QED BY <2>1, InstallmentsAreFinite, SumMinus DEF Summed
<1>8. \A i \in Installments : Receivable[i].principal = x[i] /\ Receivable[i].profit = y[i]
  <2> SUFFICES ASSUME NEW i \in Installments
               PROVE  Receivable[i].principal = x[i] /\ Receivable[i].profit = y[i]
    OBVIOUS
  <2>1. /\ Receivable[i].principal = principal_outstanding(inst[i])
        /\ Receivable[i].profit = profit_outstanding(inst[i])
    BY DEF Receivable
  <2>2. x[i] = (a[i] - c[i]) - e[i] /\ y[i] = (b[i] - d[i]) - f[i]
    BY <1>4, <1>5
  <2>3. /\ a[i] = inst[i].principal /\ b[i] = inst[i].profit
        /\ c[i] = inst[i].principal_paid /\ d[i] = inst[i].profit_paid
        /\ e[i] = inst[i].principal_written_off /\ f[i] = inst[i].profit_written_off
    BY <1>1, <1>2, <1>3 DEF Principals, Profits, PrincipalsPaid, ProfitsPaid, PrincipalsOff,
                            ProfitsOff
  <2> QED BY <2>1, <2>2, <2>3 DEF principal_outstanding, profit_outstanding
<1>9. DOMAIN Receivable = Installments
  BY DEF Receivable
<1>10. [i \in Installments |-> Receivable[i].principal] = x
       /\ [i \in Installments |-> Receivable[i].profit] = y
  BY <1>8
<1>11. /\ Owed("principal") = SumFunction([i \in Installments |-> Receivable[i].principal])
       /\ Owed("profit") = SumFunction([i \in Installments |-> Receivable[i].profit])
  BY <1>9 DEF Owed, Column
<1>12. Owed("principal") = Summed(x) /\ Owed("profit") = Summed(y)
  BY <1>10, <1>11 DEF SumFunction, Summed
<1> QED BY <1>1, <1>2, <1>3, <1>6, <1>7, <1>12

\* What the entries of a step add up to when every installment gets more paid, or less.
LEMMA PaidColumns ==
  ASSUME inst \in [Installments -> InstRow], inst' \in [Installments -> InstRow],
         NEW lines \in [Installments -> AmountRow]
  PROVE  /\ (\A i \in Installments :
               /\ inst'[i].principal_paid = inst[i].principal_paid + lines[i].principal
               /\ inst'[i].profit_paid = inst[i].profit_paid + lines[i].profit)
            => /\ Summed(PrincipalsPaid(inst'))
                    = Summed(PrincipalsPaid(inst)) + Column(lines, "principal")
               /\ Summed(ProfitsPaid(inst')) = Summed(ProfitsPaid(inst)) + Column(lines, "profit")
         /\ (\A i \in Installments :
               /\ inst'[i].principal_paid = inst[i].principal_paid - lines[i].principal
               /\ inst'[i].profit_paid = inst[i].profit_paid - lines[i].profit)
            => /\ Summed(PrincipalsPaid(inst'))
                    = Summed(PrincipalsPaid(inst)) - Column(lines, "principal")
               /\ Summed(ProfitsPaid(inst')) = Summed(ProfitsPaid(inst)) - Column(lines, "profit")
<1>1. PICK a \in [Installments -> Nat], b \in [Installments -> Nat] :
        a = PrincipalsPaid(inst) /\ b = ProfitsPaid(inst)
  BY InstColumns
<1>2. PICK c \in [Installments -> Nat], d \in [Installments -> Nat] :
        c = PrincipalsPaid(inst') /\ d = ProfitsPaid(inst')
  BY InstColumns
<1>3. PICK u \in [Installments -> Nat], v \in [Installments -> Nat] :
        u = Principals(lines) /\ v = Profits(lines)
  BY ColumnsMeaning
<1>4. Column(lines, "principal") = Summed(u) /\ Column(lines, "profit") = Summed(v)
  BY <1>3, ColumnsMeaning DEF Summed
<1>5. \A i \in Installments :
        /\ a[i] = inst[i].principal_paid /\ b[i] = inst[i].profit_paid
        /\ c[i] = inst'[i].principal_paid /\ d[i] = inst'[i].profit_paid
        /\ u[i] = lines[i].principal /\ v[i] = lines[i].profit
  BY <1>1, <1>2, <1>3 DEF PrincipalsPaid, ProfitsPaid, Principals, Profits
<1>6. \A i \in Installments : /\ a[i] \in Int /\ b[i] \in Int /\ c[i] \in Int /\ d[i] \in Int
                              /\ u[i] \in Int /\ v[i] \in Int
  OBVIOUS
<1>7. ASSUME \A i \in Installments :
               /\ inst'[i].principal_paid = inst[i].principal_paid + lines[i].principal
               /\ inst'[i].profit_paid = inst[i].profit_paid + lines[i].profit
      PROVE  Summed(c) = Summed(a) + Summed(u) /\ Summed(d) = Summed(b) + Summed(v)
  <2>1. \A i \in Installments : c[i] = a[i] + u[i] /\ d[i] = b[i] + v[i]
    BY <1>5, <1>7
  <2> QED BY <1>6, <2>1, InstallmentsAreFinite, SumPlus DEF Summed
<1>8. ASSUME \A i \in Installments :
               /\ inst'[i].principal_paid = inst[i].principal_paid - lines[i].principal
               /\ inst'[i].profit_paid = inst[i].profit_paid - lines[i].profit
      PROVE  Summed(c) = Summed(a) - Summed(u) /\ Summed(d) = Summed(b) - Summed(v)
  <2>1. \A i \in Installments : c[i] = a[i] - u[i] /\ d[i] = b[i] - v[i]
    BY <1>5, <1>8
  <2> QED BY <1>6, <2>1, InstallmentsAreFinite, SumMinus DEF Summed
<1> QED BY <1>1, <1>2, <1>4, <1>7, <1>8

ExplainingTypes == CashTypes \cup ReturnTypes \cup {"profit_rebated"}

LEMMA SettlementPaysAll ==
  ASSUME Sound, NEW charged, NEW given, Cleared(charged, given)
  PROVE  /\ inst' \in [Installments -> InstRow]
         /\ PrincipalsOff(inst') = PrincipalsOff(inst)
         /\ Summed(PrincipalsPaid(inst'))
              = Summed(PrincipalsPaid(inst)) + Owed("principal") + Summed(PrincipalsOff(inst))
         /\ Summed(ProfitsPaid(inst')) = Summed(ProfitsPaid(inst)) + charged + given
         /\ charged \in Nat /\ given \in Nat /\ Owed("principal") \in Nat
<1>1. /\ inst \in [Installments -> InstRow] /\ CloseOutSchedule
      /\ contract.status = "active"
      /\ charged \in Nat /\ given \in Nat /\ charged + given = unearned
  BY DEF Sound, Typed, Cleared
<1>2. /\ inst' \in [Installments -> InstRow]
      /\ \A i \in Installments : /\ SameWorth(inst[i], inst'[i])
                                 /\ inst'[i].principal_paid = inst[i].principal
                                 /\ inst'[i].profit_paid = inst[i].profit
  BY <1>1, CloseOutMeaning
<1>3. /\ PrincipalsOff(inst') = PrincipalsOff(inst)
      /\ PrincipalsPaid(inst') = Principals(inst) /\ ProfitsPaid(inst') = Profits(inst)
  BY <1>2 DEF PrincipalsOff, PrincipalsPaid, ProfitsPaid, Principals, Profits, SameWorth
<1>4. Owed("principal") = Summed(Principals(inst)) - Summed(PrincipalsPaid(inst))
                            - Summed(PrincipalsOff(inst))
  BY <1>1, OwedColumns
<1>5. PICK a \in Nat, b \in Nat, c \in Nat, d \in Nat :
        /\ a = Summed(Principals(inst)) /\ b = Summed(Profits(inst))
        /\ c = Summed(PrincipalsPaid(inst)) /\ d = Summed(ProfitsPaid(inst))
  BY <1>1, InstColumns
<1>6. PICK e \in Nat : e = Summed(PrincipalsOff(inst))
  BY <1>1, OffColumns DEF Summed
<1>7. charged + given = b - d
  <2>1. unearned = SumFunctionOnSet(Unpaid, Installments)
    BY <1>1, UnearnedIsNat
  <2>2. PICK x \in [Installments -> Nat], y \in [Installments -> Nat] :
          x = Profits(inst) /\ y = ProfitsPaid(inst)
    BY <1>1, InstColumns
  <2>3. PICK u : u = Unpaid
    OBVIOUS
  <2>4. \A i \in Installments : /\ x[i] \in Int /\ y[i] \in Int /\ u[i] = x[i] - y[i]
    BY <2>2, <2>3 DEF Unpaid, UnpaidOf, Profits, ProfitsPaid
  <2>5. Summed(u) = Summed(x) - Summed(y)
    BY <2>4, InstallmentsAreFinite, SumMinus DEF Summed
  <2> QED BY <1>1, <1>5, <2>1, <2>2, <2>3, <2>5 DEF Summed
<1>8. b = d + charged + given
  BY <1>1, <1>5, <1>7
<1>9. PICK o \in Nat : o = Owed("principal")
  BY <1>1, OwedIsNat
<1>10. a = c + o + e
  BY <1>4, <1>5, <1>6, <1>9
<1> QED BY <1>1, <1>2, <1>3, <1>5, <1>6, <1>8, <1>9, <1>10

LEMMA StepExplainsPaid ==
  ASSUME Sound, PaidExplained, ServicingStep
  PROVE  PaidExplained'
<1>0. /\ inst \in [Installments -> InstRow] /\ ContractTyped
      /\ \A t \in EntryTypes : ledger[t] \in Int
  BY DEF Sound, Typed
<1>1. PICK a \in Nat, b \in Nat, e \in Nat :
        /\ a = Summed(PrincipalsPaid(inst)) /\ b = Summed(ProfitsPaid(inst))
        /\ e = Summed(PrincipalsOff(inst))
  BY <1>0, InstColumns, OffColumns DEF Summed
<1>2. PICK p1 \in Int, p2 \in Int, q1 \in Int, q2 \in Int, q3 \in Int, q4 \in Int :
        /\ p1 = ledger.principal_paid /\ p2 = ledger.return_principal_cleared
        /\ q1 = ledger.profit_recognized /\ q2 = ledger.profit_rebated
        /\ q3 = ledger.return_profit_retained /\ q4 = ledger.return_profit_waived
  BY <1>0 DEF EntryTypes
<1>3. a = p1 + p2 + (IF ClearedEarly THEN e ELSE 0) /\ b = q1 + q2 + q3 + q4
  BY <1>1, <1>2 DEF PaidExplained
<1>4. ASSUME PrincipalsPaid(inst') = PrincipalsPaid(inst), ProfitsPaid(inst') = ProfitsPaid(inst),
             ~ClearedEarly \/ PrincipalsOff(inst') = PrincipalsOff(inst),
             ClearedEarly' <=> ClearedEarly,
             \A t \in ExplainingTypes : ledger'[t] = ledger[t]
      PROVE  PaidExplained'
  <2>1. /\ ledger'.principal_paid = p1 /\ ledger'.return_principal_cleared = p2
        /\ ledger'.profit_recognized = q1 /\ ledger'.profit_rebated = q2
        /\ ledger'.return_profit_retained = q3 /\ ledger'.return_profit_waived = q4
    BY <1>2, <1>4 DEF ExplainingTypes, CashTypes, ReturnTypes
  <2> QED BY <1>1, <1>3, <1>4, <2>1 DEF PaidExplained
<1>5. CASE Quiet \/ ConfirmDelivery \/ CancelContract
  <2>1. inst' = inst /\ ledger' = ledger
    BY <1>5 DEF Quiet, ConfirmDelivery, CancelContract, money
  <2>2. ClearedEarly' <=> ClearedEarly
    BY <1>0, <1>5 DEF Quiet, ConfirmDelivery, CancelContract, ContractTyped, ClearedEarly
  <2> QED BY <1>4, <2>1, <2>2
<1>6. ASSUME NEW plan, NEW p, NEW x \in Nat, PaidBy(plan, p, x)
      PROVE  PaidExplained'
  <2>1. plan \in [Installments -> AmountRow] /\ PayInstallments(plan)
        /\ contract.status = "active"
        /\ contract' \in {contract, [status |-> "closed", closure |-> "normal"]}
    BY <1>6 DEF PaidBy
  <2>2. /\ inst' \in [Installments -> InstRow]
        /\ \A i \in Installments :
             /\ inst'[i].principal_paid = inst[i].principal_paid + plan[i].principal
             /\ inst'[i].profit_paid = inst[i].profit_paid + plan[i].profit
    BY <1>0, <2>1, PayInstallmentsMeaning
  <2>3. PICK y \in Nat, z \in Nat : y = Column(plan, "profit") /\ z = Column(plan, "principal")
    BY <2>1, ColumnsMeaning
  <2>4. Summed(PrincipalsPaid(inst')) = a + z /\ Summed(ProfitsPaid(inst')) = b + y
    BY <1>0, <1>1, <2>1, <2>2, <2>3, PaidColumns
  <2>5. /\ ledger'.principal_paid = p1 + z /\ ledger'.profit_recognized = q1 + y
        /\ ledger'.return_principal_cleared = p2 /\ ledger'.profit_rebated = q2
        /\ ledger'.return_profit_retained = q3 /\ ledger'.return_profit_waived = q4
    BY <1>2, <1>6, <2>3, PaidEntries DEF EntryTypes, CashTypes
  <2>6. ~ClearedEarly /\ ~ClearedEarly'
    BY <2>1, SoundOpen DEF ClearedEarly
  <2>7. a + z = (p1 + z) + p2 + 0 /\ b + y = (q1 + y) + q2 + q3 + q4
    BY <1>3, <2>6
  <2> QED BY <2>4, <2>5, <2>6, <2>7 DEF PaidExplained
<1>7. ASSUME NEW n, NEW lines, TakenBackBy(n, lines)
      PROVE  PaidExplained'
  <2>1. /\ lines \in [Installments -> AmountRow] /\ ReverseInstallments(lines)
        /\ \A i \in Installments : /\ lines[i].principal <= inst[i].principal_paid
                                   /\ lines[i].profit <= inst[i].profit_paid
        /\ contract' = contract
    BY <1>7 DEF TakenBackBy
  <2>2. /\ inst' \in [Installments -> InstRow]
        /\ \A i \in Installments :
             /\ SameWorth(inst[i], inst'[i])
             /\ inst'[i].principal_paid = inst[i].principal_paid - lines[i].principal
             /\ inst'[i].profit_paid = inst[i].profit_paid - lines[i].profit
    BY <1>0, <2>1, ReverseInstallmentsMeaning
  <2>3. PICK y \in Nat, z \in Nat : y = Column(lines, "profit") /\ z = Column(lines, "principal")
    BY <2>1, ColumnsMeaning
  <2>4. Summed(PrincipalsPaid(inst')) = a - z /\ Summed(ProfitsPaid(inst')) = b - y
    BY <1>0, <1>1, <2>1, <2>2, <2>3, PaidColumns
  <2>5. /\ ledger'.principal_paid = p1 - z /\ ledger'.profit_recognized = q1 - y
        /\ ledger'.return_principal_cleared = p2 /\ ledger'.profit_rebated = q2
        /\ ledger'.return_profit_retained = q3 /\ ledger'.return_profit_waived = q4
    BY <1>2, <1>7, <2>3, TakenBackEntries DEF EntryTypes, CashTypes
  <2>6. /\ ClearedEarly' <=> ClearedEarly
        /\ Summed(PrincipalsOff(inst')) = e
    <3>1. PrincipalsOff(inst') = PrincipalsOff(inst)
      BY <2>2 DEF PrincipalsOff, SameWorth
    <3> QED BY <1>1, <2>1, <3>1 DEF ClearedEarly
  <2>7. PICK o \in Nat : o = IF ClearedEarly THEN e ELSE 0
    OBVIOUS
  <2>8. a - z = (p1 - z) + p2 + o /\ b - y = (q1 - y) + q2 + q3 + q4
    BY <1>3, <2>7
  <2> QED BY <2>4, <2>5, <2>6, <2>7, <2>8 DEF PaidExplained
<1>8. ASSUME NEW day, ChargedBy(day) PROVE PaidExplained'
  <2>1. \A i \in Installments : SameWorth(inst[i], inst'[i]) /\ SamePaid(inst[i], inst'[i])
    BY <1>8 DEF ChargedBy, Marked
  <2>2. /\ PrincipalsPaid(inst') = PrincipalsPaid(inst) /\ ProfitsPaid(inst') = ProfitsPaid(inst)
        /\ PrincipalsOff(inst') = PrincipalsOff(inst)
    BY <2>1 DEF PrincipalsPaid, ProfitsPaid, PrincipalsOff, SameWorth, SamePaid
  <2> QED BY <1>4, <1>8, <2>2 DEF ChargedBy, ClearedEarly
<1>9. ASSUME NEW k, WaivedBy(k) PROVE PaidExplained'
  <2>1. \A t \in ExplainingTypes : ledger'[t] = ledger[t]
    BY <1>9 DEF WaivedBy, ExplainingTypes, CashTypes, ReturnTypes, EntryTypes
  <2> QED BY <1>4, <1>9, <2>1 DEF WaivedBy, ClearedEarly
<1>10. ASSUME NEW charged, NEW given, NEW p, SettledBy(charged, given, p)
       PROVE  PaidExplained'
  <2>1. /\ Cleared(charged, given)
        /\ contract' = [status |-> "closed", closure |-> "early_settlement"]
        /\ contract.status = "active"
    BY <1>10 DEF SettledBy, Cleared
  <2>2. PICK o \in Nat : o = Owed("principal")
    BY <2>1, SettlementPaysAll
  <2>3. /\ Summed(PrincipalsPaid(inst')) = a + o + e
        /\ Summed(ProfitsPaid(inst')) = b + charged + given
        /\ Summed(PrincipalsOff(inst')) = e
        /\ charged \in Nat /\ given \in Nat
    BY <1>1, <2>1, <2>2, SettlementPaysAll
  <2>4. /\ ledger'.principal_paid = p1 + o /\ ledger'.profit_recognized = q1 + charged
        /\ ledger'.return_principal_cleared = p2 /\ ledger'.profit_rebated = q2 + given
        /\ ledger'.return_profit_retained = q3 /\ ledger'.return_profit_waived = q4
    BY <1>2, <1>10, <2>2, SettledEntries DEF EntryTypes, CashTypes
  <2>5. ~ClearedEarly /\ ClearedEarly'
    BY <2>1, SoundOpen DEF ClearedEarly
  <2>6. a + o + e = (p1 + o) + p2 + e
        /\ b + charged + given = (q1 + charged) + (q2 + given) + q3 + q4
    BY <1>3, <2>3, <2>5
  <2> QED BY <2>3, <2>4, <2>5, <2>6 DEF PaidExplained
<1>11. ASSUME NEW charged, NEW given, ReturnedBy(charged, given)
       PROVE  PaidExplained'
  <2>1. /\ Cleared(charged, given)
        /\ contract' = [status |-> "closed", closure |-> "return"]
        /\ contract.status = "active"
    BY <1>11 DEF ReturnedBy, Cleared
  <2>2. PICK o \in Nat : o = Owed("principal")
    BY <2>1, SettlementPaysAll
  <2>3. /\ Summed(PrincipalsPaid(inst')) = a + o + e
        /\ Summed(ProfitsPaid(inst')) = b + charged + given
        /\ Summed(PrincipalsOff(inst')) = e
        /\ charged \in Nat /\ given \in Nat
    BY <1>1, <2>1, <2>2, SettlementPaysAll
  <2>4. /\ ledger'.principal_paid = p1 /\ ledger'.profit_recognized = q1
        /\ ledger'.return_principal_cleared = p2 + o /\ ledger'.profit_rebated = q2
        /\ ledger'.return_profit_retained = q3 + charged
        /\ ledger'.return_profit_waived = q4 + given
    BY <1>2, <1>11, <2>2, ReturnedEntries DEF EntryTypes, ReturnTypes
  <2>5. ~ClearedEarly /\ ClearedEarly'
    BY <2>1, SoundOpen DEF ClearedEarly
  <2>6. a + o + e = p1 + (p2 + o) + e
        /\ b + charged + given = q1 + q2 + (q3 + charged) + (q4 + given)
    BY <1>3, <2>3, <2>5
  <2> QED BY <2>3, <2>4, <2>5, <2>6 DEF PaidExplained
<1> QED BY <1>5, <1>6, <1>7, <1>8, <1>9, <1>10, <1>11 DEF ServicingStep

LEMMA WriteOffExplainsPaid ==
  ASSUME Sound, PaidExplained, NEW ask \in AmountRow, NEW p, NEW q, NEW r,
         WrittenOffBy(ask, p, q, r)
  PROVE  PaidExplained'
<1>1. \A t \in ExplainingTypes : ledger'[t] = ledger[t]
  BY WrittenOffEntries DEF ExplainingTypes, CashTypes, ReturnTypes, OffTypes, EntryTypes
<1>2. \A i \in Installments : SamePaid(inst[i], inst'[i])
  BY DEF WrittenOffBy
<1>3. PrincipalsPaid(inst') = PrincipalsPaid(inst) /\ ProfitsPaid(inst') = ProfitsPaid(inst)
  BY <1>2 DEF PrincipalsPaid, ProfitsPaid, SamePaid
<1>4. ~ClearedEarly /\ ~ClearedEarly'
  <2>1. /\ contract.status = "active"
        /\ contract' \in {contract, [status |-> "closed", closure |-> "write_off"]}
    BY DEF WrittenOffBy
  <2> QED BY <2>1, SoundOpen DEF ClearedEarly
<1>5. /\ ledger'.principal_paid = ledger.principal_paid
      /\ ledger'.return_principal_cleared = ledger.return_principal_cleared
      /\ ledger'.profit_recognized = ledger.profit_recognized
      /\ ledger'.profit_rebated = ledger.profit_rebated
      /\ ledger'.return_profit_retained = ledger.return_profit_retained
      /\ ledger'.return_profit_waived = ledger.return_profit_waived
  BY <1>1 DEF ExplainingTypes, CashTypes, ReturnTypes
<1> QED BY <1>3, <1>4, <1>5 DEF PaidExplained

\* What explains the paid columns explains what is left of them.
LEMMA LedgerExplains ==
  ASSUME Sound, PaidExplained, OffCounted,
         ClearedEarly => Summed(PrincipalsOff(inst)) = 0
  PROVE  LedgerExplainsTheSchedule
<1>0. /\ inst \in [Installments -> InstRow]
      /\ \A t \in EntryTypes : ledger[t] \in Int
  BY DEF Sound, Typed
<1>1. PICK a \in Nat, b \in Nat, c \in Nat, d \in Nat :
        /\ a = Summed(Principals(inst)) /\ b = Summed(Profits(inst))
        /\ c = Summed(PrincipalsPaid(inst)) /\ d = Summed(ProfitsPaid(inst))
  BY <1>0, InstColumns
<1>2. PICK e \in Nat, f \in Nat :
        e = Summed(PrincipalsOff(inst)) /\ f = Summed(ProfitsOff(inst))
  BY <1>0, OffColumns DEF Summed
<1>3. Owed("principal") = a - c - e /\ Owed("profit") = b - d - f
  BY <1>0, <1>1, <1>2, OwedColumns
<1>4. PICK p1 \in Int, p2 \in Int, q1 \in Int, q2 \in Int, q3 \in Int, q4 \in Int :
        /\ p1 = ledger.principal_paid /\ p2 = ledger.return_principal_cleared
        /\ q1 = ledger.profit_recognized /\ q2 = ledger.profit_rebated
        /\ q3 = ledger.return_profit_retained /\ q4 = ledger.return_profit_waived
  BY <1>0 DEF EntryTypes
<1>5. c = p1 + p2 /\ d = q1 + q2 + q3 + q4
  <2>1. /\ c = p1 + p2 + (IF ClearedEarly THEN e ELSE 0) /\ d = q1 + q2 + q3 + q4
    BY <1>1, <1>2, <1>4 DEF PaidExplained
  <2>2. ClearedEarly => e = 0
    BY <1>2
  <2> QED BY <2>1, <2>2
<1>6. ledger.principal_written_off = e /\ ledger.profit_written_off = f
  BY <1>2 DEF OffCounted, Summed
<1>7. a - c - e = a - p1 - p2 - e /\ b - d - f = b - q1 - q2 - q3 - q4 - f
  BY <1>5
<1>8. /\ SumFunction([i \in Installments |-> inst[i].principal]) = a
      /\ SumFunction([i \in Installments |-> inst[i].profit]) = b
  BY <1>1 DEF SumFunction, Summed, Principals, Profits
<1> QED BY <1>3, <1>4, <1>6, <1>7, <1>8 DEF LedgerExplainsTheSchedule, Owed

\* Nothing is written off of a contract that has no write-offs.
NothingOff ==
  /\ \A i \in Installments :
       inst[i].principal_written_off = 0 /\ inst[i].profit_written_off = 0
  /\ \A k \in DOMAIN fees : fees[k].amount_written_off = 0

LEMMA StepWritesNothingOff ==
  ASSUME Sound, NothingOff, ServicingStep
  PROVE  NothingOff'
<1>1. /\ inst' \in [Installments -> InstRow]
      /\ \A i \in Installments : SameWorth(inst[i], inst'[i])
      /\ FeesFollow
  BY StepKeepsOff DEF OffKept
<1>2. \A i \in Installments :
        inst'[i].principal_written_off = 0 /\ inst'[i].profit_written_off = 0
  BY <1>1 DEF NothingOff, SameWorth
<1>3. ASSUME NEW k \in DOMAIN fees' PROVE fees'[k].amount_written_off = 0
  <2>1. PICK m \in Nat : m = Len(fees) /\ DOMAIN fees = 1..m
    BY SequenceIsFunction DEF Sound, Typed
  <2>2. PICK n \in Nat : n = Len(fees') /\ DOMAIN fees' = 1..n
    BY <1>1, SequenceIsFunction DEF FeesFollow
  <2>3. k \in DOMAIN fees \/ k > Len(fees)
    BY <2>1, <2>2
  <2> QED BY <1>1, <2>3 DEF FeesFollow, NothingOff
<1> QED BY <1>2, <1>3 DEF NothingOff

LEMMA NothingOffInAll ==
  ASSUME Sound, NothingOff
  PROVE  /\ Summed(PrincipalsOff(inst)) = 0
         /\ InstBounded /\ FeesBounded
<1>1. \A i \in Installments : PrincipalsOff(inst)[i] = 0
  BY DEF NothingOff, PrincipalsOff
<1>2. Summed(PrincipalsOff(inst)) = 0
  BY <1>1, InstallmentsAreFinite, SumZero DEF Summed
<1>3. InstBounded
  <2> SUFFICES ASSUME NEW i \in Installments
               PROVE  /\ inst[i].principal_paid + inst[i].principal_written_off
                           <= inst[i].principal
                      /\ inst[i].profit_paid + inst[i].profit_written_off <= inst[i].profit
    BY DEF InstBounded
  <2>1. PICK x \in InstRow : x = inst[i]
    BY DEF Sound, Typed
  <2>2. x.principal_paid <= x.principal /\ x.profit_paid <= x.profit
    BY <2>1 DEF Sound, PaidWithinWorth
  <2>3. x.principal_written_off = 0 /\ x.profit_written_off = 0
    BY <2>1 DEF NothingOff
  <2> QED BY <2>1, <2>2, <2>3, InstRowMeaning
<1>4. FeesBounded
  <2> SUFFICES ASSUME NEW k \in DOMAIN fees
               PROVE  fees[k].amount_paid + fees[k].amount_written_off <= fees[k].amount
    BY DEF FeesBounded
  <2>1. PICK c \in FeeRow : c = fees[k]
    BY SequenceElement DEF Sound, Typed
  <2>2. c.amount_paid <= c.amount /\ c.amount_written_off = 0
    BY <2>1 DEF Sound, FeesPaidWithin, NothingOff
  <2> QED BY <2>1, <2>2, FeeRowMeaning
<1> QED BY <1>2, <1>3, <1>4

LEMMA PaidExplainedAtFirst == Init => PaidExplained
<1> SUFFICES ASSUME Init PROVE PaidExplained
  OBVIOUS
<1>1. /\ ledger = [t \in EntryTypes |-> 0] /\ contract.closure = "none"
      /\ \A i \in Installments : inst[i].principal_paid = 0 /\ inst[i].profit_paid = 0
  BY DEF Init
<1>2. \A i \in Installments : PrincipalsPaid(inst)[i] = 0 /\ ProfitsPaid(inst)[i] = 0
  BY <1>1 DEF PrincipalsPaid, ProfitsPaid
<1>3. Summed(PrincipalsPaid(inst)) = 0 /\ Summed(ProfitsPaid(inst)) = 0
  BY <1>2, InstallmentsAreFinite, SumZero DEF Summed
<1>4. \A t \in EntryTypes : ledger[t] = 0
  BY <1>1
<1>5. ~ClearedEarly
  BY <1>1 DEF ClearedEarly
<1> QED BY <1>3, <1>4, <1>5 DEF PaidExplained, EntryTypes

\* With write-offs, until settlement or return clears what was written off as well.
LEMMA ExplainedKept ==
  WriteOffInv /\ PaidExplained /\ [WriteOffNext]_wvars => PaidExplained'
<1> SUFFICES ASSUME WriteOffInv, PaidExplained, [WriteOffNext]_wvars PROVE PaidExplained'
  OBVIOUS
<1>1. Sound /\ RequestsSound
  BY DEF WriteOffInv
<1>2. WriteOffStep
  BY <1>1, WriteOffSteps
<1>3. CASE ServicingStep
  BY <1>1, <1>3, StepExplainsPaid
<1>4. CASE Quiet
  BY <1>3, <1>4 DEF ServicingStep
<1>5. ASSUME NEW n, NEW p, NEW q, NEW r, ExecutedBy(n, p, q, r)
      PROVE  PaidExplained'
  <2>1. writeOffs[n].asked \in AmountRow /\ WrittenOffBy(writeOffs[n].asked, p, q, r)
    BY <1>1, <1>5, SequenceElement, WriteOffRowMeaning DEF ExecutedBy, RequestsSound
  <2> QED BY <1>1, <2>1, WriteOffExplainsPaid
<1> QED BY <1>2, <1>3, <1>4, <1>5 DEF WriteOffStep

\* The ledger rebuilds principal and profit outstanding of every contract that was not
\* settled or returned early, also of one that is partly written off.
THEOREM OpenLedgerCorrect ==
  WriteOffSpec => [](~ClearedEarly => LedgerExplainsTheSchedule)
<1>1. WriteOffInit => PaidExplained
  BY PaidExplainedAtFirst DEF WriteOffInit
<1>2. WriteOffInv /\ PaidExplained => (~ClearedEarly => LedgerExplainsTheSchedule)
  BY LedgerExplains DEF WriteOffInv, Counted
<1> QED BY <1>1, <1>2, ExplainedKept, WriteOffInvAlways, PTL DEF WriteOffSpec

-------------------------------------------------------------------------------
\* A contract without write-offs.

ServicingInv == Sound /\ CashCounted /\ OffCounted /\ PaidExplained /\ NothingOff

LEMMA ServicingInvAtFirst == Init => ServicingInv
<1> SUFFICES ASSUME Init PROVE ServicingInv
  OBVIOUS
<1>1. Sound /\ CashCounted /\ OffCounted /\ PaidExplained
  BY SoundAtFirst, CountedAtFirst, PaidExplainedAtFirst
<1>2. NothingOff
  BY DEF NothingOff, Init
<1> QED BY <1>1, <1>2 DEF ServicingInv

LEMMA ServicingInvKept == ServicingInv /\ [ServicingNext]_cvars => ServicingInv'
<1> SUFFICES ASSUME ServicingInv, [ServicingNext]_cvars PROVE ServicingInv'
  OBVIOUS
<1>1. Sound /\ CashCounted /\ OffCounted /\ PaidExplained /\ NothingOff
  BY DEF ServicingInv
<1>2. ServicingStep
  BY <1>1, ServicingSteps
<1> QED BY <1>1, <1>2, StepKeepsSound, StepCountsCash, StepCountsOff, StepExplainsPaid,
           StepWritesNothingOff DEF ServicingInv

LEMMA ServicingInvAlways == ServicingSpec => []ServicingInv
BY ServicingInvAtFirst, ServicingInvKept, PTL DEF ServicingSpec

\* The ledger rebuilds principal and profit outstanding of a contract without
\* write-offs, whatever became of it.
THEOREM LedgerCorrect == ServicingSpec => []LedgerExplainsTheSchedule
<1>1. ServicingInv => LedgerExplainsTheSchedule
  BY LedgerExplains, NothingOffInAll DEF ServicingInv
<1> QED BY <1>1, ServicingInvAlways, PTL
-------------------------------------------------------------------------------
\* The status column of an installment, and of a charge, tells its balance.

StatusTold(x) == /\ x.status = "paid" <=> is_fully_paid(x)
                 /\ x.status = "pending" => ~has_any_payment(x)
FeeTold(c) == c.status = "paid" => c.amount_paid = c.amount
Told == /\ \A i \in Installments : StatusTold(inst[i])
        /\ \A k \in DOMAIN fees : FeeTold(fees[k])

LEMMA NothingInLine ==
  ASSUME NEW l \in AmountRow, LineTotal(l) = 0
  PROVE  l.principal = 0 /\ l.profit = 0
<1>1. LineTotal(l) = l.late_fee + l.profit + l.principal
  BY DEF LineTotal
<1>2. l.principal \in Nat /\ l.profit \in Nat /\ l.late_fee \in Nat
  BY DEF AmountRow
<1> QED BY <1>1, <1>2

LEMMA FullyPaidMeaning ==
  ASSUME NEW x \in InstRow
  PROVE  /\ is_fully_paid(x) <=> /\ x.principal - x.principal_paid <= x.principal_written_off
                                 /\ x.profit - x.profit_paid <= x.profit_written_off
         /\ has_any_payment(x) <=> x.principal_paid > 0 \/ x.profit_paid > 0
BY InstRowMeaning DEF is_fully_paid, principal_outstanding, profit_outstanding, has_any_payment

LEMMA StatusOfRow ==
  ASSUME NEW x \in InstRow, NEW s
  PROVE  /\ WithStatus(x, s).status = s
         /\ is_fully_paid(WithStatus(x, s)) <=> is_fully_paid(x)
         /\ has_any_payment(WithStatus(x, s)) <=> has_any_payment(x)
BY DEF WithStatus, InstRow, is_fully_paid, principal_outstanding, profit_outstanding,
       has_any_payment

\* What a payment of a and b leaves, of a row whose status was right.
LEMMA PaidRowTold ==
  ASSUME NEW x \in InstRow, NEW y \in InstRow, StatusTold(x), SameWorth(x, y),
         x.principal_paid <= y.principal_paid, x.profit_paid <= y.profit_paid,
         y.status = StatusAfterPayment(WithStatus(y, x.status))
  PROVE  StatusTold(y)
<1>1. is_fully_paid(x) => is_fully_paid(y)
  BY FullyPaidMeaning, InstRowMeaning DEF SameWorth
<1>2. has_any_payment(x) => has_any_payment(y)
  BY FullyPaidMeaning, InstRowMeaning
<1>3. y.status = IF is_fully_paid(y) THEN "paid"
                 ELSE IF x.status = "overdue" \/ ~has_any_payment(y) THEN x.status
                 ELSE "partially_paid"
  BY StatusOfRow DEF StatusAfterPayment
<1> QED BY <1>1, <1>2, <1>3 DEF StatusTold

LEMMA UnpaidRowTold ==
  ASSUME NEW y \in InstRow, NEW s, y.status = StatusAfterReversal(WithStatus(y, s))
  PROVE  StatusTold(y)
<1>1. y.status = IF is_fully_paid(y) THEN "paid"
                 ELSE IF has_any_payment(y) THEN "partially_paid" ELSE "pending"
  BY StatusOfRow DEF StatusAfterReversal
<1> QED BY <1>1 DEF StatusTold

LEMMA SamePaidTold ==
  ASSUME NEW x \in InstRow, NEW y \in InstRow, StatusTold(x), SameWorth(x, y),
         x.principal_paid = y.principal_paid, x.profit_paid = y.profit_paid,
         y.status = x.status \/ (y.status = "overdue" /\ ~is_fully_paid(x))
  PROVE  StatusTold(y)
<1>1. is_fully_paid(x) <=> is_fully_paid(y)
  BY FullyPaidMeaning, InstRowMeaning DEF SameWorth
<1>2. has_any_payment(x) <=> has_any_payment(y)
  BY FullyPaidMeaning, InstRowMeaning
<1> QED BY <1>1, <1>2 DEF StatusTold

LEMMA PaidTells ==
  ASSUME Sound, Told, NEW plan, NEW p, NEW amount \in Nat, PaidBy(plan, p, amount)
  PROVE  Told'
<1>1. /\ inst \in [Installments -> InstRow] /\ fees \in Seq(FeeRow)
      /\ plan \in [Installments -> AmountRow] /\ PayInstallments(plan) /\ PayFees(plan)
      /\ \A k \in DOMAIN fees : fees[k].amount_paid <= fees[k].amount
  BY DEF Sound, Typed, PaidBy, FeesPaidWithin
<1>2. ASSUME NEW i \in Installments PROVE StatusTold(inst'[i])
  <2>1. PICK x \in InstRow, y \in InstRow : x = inst[i] /\ y = inst'[i]
    BY <1>1, PayInstallmentsMeaning
  <2>2. PICK l \in AmountRow : l = plan[i]
    BY <1>1
  <2>3. l.principal \in Nat /\ l.profit \in Nat /\ l.late_fee \in Nat
    BY DEF AmountRow
  <2>4. /\ SameWorth(x, y) /\ StatusTold(x)
        /\ y.principal_paid = x.principal_paid + l.principal
        /\ y.profit_paid = x.profit_paid + l.profit
        /\ \/ y.status = x.status /\ LineTotal(l) = 0
           \/ y.status = StatusAfterPayment(WithStatus(y, x.status))
    BY <1>1, <2>1, <2>2, PayInstallmentsMeaning DEF Told
  <2>5. CASE y.status = x.status /\ LineTotal(l) = 0
    <3>1. l.principal = 0 /\ l.profit = 0
      BY <2>5, NothingInLine
    <3>2. x.principal_paid = y.principal_paid /\ x.profit_paid = y.profit_paid
      BY <2>4, <3>1, InstRowMeaning
    <3> QED BY <2>1, <2>4, <2>5, <3>2, SamePaidTold
  <2>6. CASE y.status = StatusAfterPayment(WithStatus(y, x.status))
    <3>1. x.principal_paid <= y.principal_paid /\ x.profit_paid <= y.profit_paid
      BY <2>3, <2>4, InstRowMeaning
    <3> QED BY <2>1, <2>4, <2>6, <3>1, PaidRowTold
  <2> QED BY <2>4, <2>5, <2>6
<1>3. ASSUME NEW k \in DOMAIN fees' PROVE FeeTold(fees'[k])
  <2>1. PICK c \in FeeRow, d \in FeeRow : c = fees[k] /\ d = fees'[k]
    BY <1>1, PayFeesMeaning, SequenceElement
  <2>2. PICK n \in Nat : n = FeeParts(plan)[fees[k].installment][k]
    BY <1>1, PayFeesMeaning
  <2>3. /\ FeeTold(c) /\ SameFee(c, d)
        /\ d.amount_paid = c.amount_paid + n /\ n <= c.amount - c.amount_paid
        /\ d.status = "paid" => c.status = "paid" \/ d.amount_paid >= c.amount
    BY <1>1, <2>1, <2>2, PayFeesMeaning DEF Told
  <2>4. d.status = "paid" => d.amount_paid = c.amount
    BY <2>3, FeeRowMeaning DEF FeeTold
  <2> QED BY <2>1, <2>3, <2>4 DEF FeeTold, SameFee
<1> QED BY <1>2, <1>3 DEF Told

LEMMA TakenBackTells ==
  ASSUME Sound, Told, NEW n, NEW lines, TakenBackBy(n, lines)
  PROVE  Told'
<1>1. /\ inst \in [Installments -> InstRow] /\ fees \in Seq(FeeRow)
      /\ lines \in [Installments -> AmountRow]
      /\ \A i \in Installments : /\ lines[i].principal <= inst[i].principal_paid
                                 /\ lines[i].profit <= inst[i].profit_paid
      /\ ReverseInstallments(lines) /\ ReverseFees(lines)
      /\ \A k \in DOMAIN fees : fees[k].amount_paid <= fees[k].amount
  BY DEF Sound, Typed, TakenBackBy, FeesPaidWithin
<1>2. ASSUME NEW i \in Installments PROVE StatusTold(inst'[i])
  <2>1. PICK x \in InstRow, y \in InstRow : x = inst[i] /\ y = inst'[i]
    BY <1>1, ReverseInstallmentsMeaning
  <2>2. PICK l \in AmountRow : l = lines[i]
    BY <1>1
  <2>3. l.principal \in Nat /\ l.profit \in Nat /\ l.late_fee \in Nat
    BY DEF AmountRow
  <2>4. /\ SameWorth(x, y) /\ StatusTold(x)
        /\ y.principal_paid = x.principal_paid - l.principal
        /\ y.profit_paid = x.profit_paid - l.profit
        /\ \/ y.status = x.status /\ LineTotal(l) = 0
           \/ y.status = StatusAfterReversal(WithStatus(y, x.status))
    BY <1>1, <2>1, <2>2, ReverseInstallmentsMeaning DEF Told
  <2>5. CASE y.status = x.status /\ LineTotal(l) = 0
    <3>1. l.principal = 0 /\ l.profit = 0
      BY <2>5, NothingInLine
    <3>2. x.principal_paid = y.principal_paid /\ x.profit_paid = y.profit_paid
      BY <2>4, <3>1, InstRowMeaning
    <3> QED BY <2>1, <2>4, <2>5, <3>2, SamePaidTold
  <2>6. CASE y.status = StatusAfterReversal(WithStatus(y, x.status))
    BY <2>1, <2>6, UnpaidRowTold
  <2> QED BY <2>4, <2>5, <2>6
<1>3. ASSUME NEW k \in DOMAIN fees' PROVE FeeTold(fees'[k])
  <2>1. PICK c \in FeeRow, d \in FeeRow : c = fees[k] /\ d = fees'[k]
    BY <1>1, ReverseFeesMeaning, SequenceElement
  <2>2. /\ FeeTold(c) /\ SameFee(c, d) /\ c.amount_paid <= c.amount
        /\ d.amount_paid \in 0..c.amount_paid
        /\ d.status = "paid" => c.status = "paid" /\ d.amount_paid >= c.amount
    BY <1>1, <2>1, ReverseFeesMeaning DEF Told
  <2>3. d.status = "paid" => d.amount_paid = c.amount
    BY <2>2, FeeRowMeaning
  <2> QED BY <2>1, <2>2, <2>3 DEF FeeTold, SameFee
<1> QED BY <1>2, <1>3 DEF Told

LEMMA ChargedTells ==
  ASSUME Sound, Told, NEW day, ChargedBy(day)
  PROVE  Told'
<1>1. /\ inst \in [Installments -> InstRow] /\ inst' \in [Installments -> InstRow]
      /\ \A i \in Installments : Marked(inst[i], inst'[i])
      /\ fees \in Seq(FeeRow) /\ fees' \in Seq(FeeRow)
      /\ \A k \in DOMAIN fees : fees'[k] = fees[k]
      /\ \A k \in DOMAIN fees' : k > Len(fees) => IsNew(fees'[k], Len(Schedule), day)
  BY DEF Sound, Typed, ChargedBy, Grown
<1>2. ASSUME NEW i \in Installments PROVE StatusTold(inst'[i])
  <2>1. PICK x \in InstRow, y \in InstRow : x = inst[i] /\ y = inst'[i]
    BY <1>1
  <2>2. Marked(x, y) /\ StatusTold(x)
    BY <1>1, <2>1 DEF Told
  <2> QED BY <2>1, <2>2, SamePaidTold DEF Marked, SamePaid
<1>3. ASSUME NEW k \in DOMAIN fees' PROVE FeeTold(fees'[k])
  <2>1. PICK m \in Nat : m = Len(fees) /\ DOMAIN fees = 1..m
    BY <1>1, SequenceIsFunction
  <2>2. PICK n \in Nat : n = Len(fees') /\ DOMAIN fees' = 1..n
    BY <1>1, SequenceIsFunction
  <2>3. k \in DOMAIN fees \/ k > Len(fees)
    BY <2>1, <2>2
  <2>4. CASE k \in DOMAIN fees
    BY <1>1, <2>4 DEF Told
  <2>5. CASE k > Len(fees)
    BY <1>1, <2>5 DEF IsNew, FeeTold
  <2> QED BY <2>3, <2>4, <2>5
<1> QED BY <1>2, <1>3 DEF Told

LEMMA WaivedTells ==
  ASSUME Sound, Told, NEW k, WaivedBy(k)
  PROVE  Told'
BY DEF WaivedBy, Told, FeeTold

LEMMA ClearedTells ==
  ASSUME Sound, Told, NEW charged, NEW given, Cleared(charged, given)
  PROVE  Told'
<1>1. /\ inst \in [Installments -> InstRow] /\ fees \in Seq(FeeRow) /\ CloseOutSchedule
  BY DEF Sound, Typed, Cleared
<1>2. ASSUME NEW i \in Installments PROVE StatusTold(inst'[i])
  <2>1. PICK y \in InstRow : y = inst'[i]
    BY <1>1, CloseOutMeaning
  <2>2. /\ y.principal_paid = y.principal /\ y.profit_paid = y.profit /\ y.status = "paid"
    BY <1>1, <2>1, CloseOutMeaning DEF SameWorth
  <2>3. is_fully_paid(y)
    BY <2>2, FullyPaidMeaning, InstRowMeaning
  <2> QED BY <2>1, <2>2, <2>3 DEF StatusTold
<1>3. ASSUME NEW k \in DOMAIN fees' PROVE FeeTold(fees'[k])
  <2>1. CloseOutFees
    BY <1>1, CloseOutMeaning
  <2>2. /\ k \in DOMAIN fees
        /\ SameFee(fees[k], fees'[k])
        /\ IF NotWaived(fees[k]) THEN fees'[k].amount_paid = fees[k].amount
                                 ELSE fees'[k] = fees[k]
    BY <1>1, <2>1, CloseOutFeesMeaning
  <2> QED BY <2>2 DEF FeeTold, SameFee, NotWaived
<1> QED BY <1>2, <1>3 DEF Told

LEMMA StepTells ==
  ASSUME Sound, Told, ServicingStep
  PROVE  Told'
<1>1. CASE Quiet \/ ConfirmDelivery \/ CancelContract
  BY <1>1 DEF Quiet, ConfirmDelivery, CancelContract, money, Told
<1>2. CASE \E charged, given, p : SettledBy(charged, given, p)
  BY <1>2, ClearedTells DEF SettledBy
<1>3. CASE \E charged, given : ReturnedBy(charged, given)
  BY <1>3, ClearedTells DEF ReturnedBy
<1> QED BY <1>1, <1>2, <1>3, PaidTells, TakenBackTells, ChargedTells, WaivedTells
        DEF ServicingStep

LEMMA TellsAgreement == Sound /\ Told => ScheduleAgrees
<1> SUFFICES ASSUME Sound, Told PROVE ScheduleAgrees
  OBVIOUS
<1>1. ASSUME NEW i \in Installments
      PROVE  /\ StatusTold(inst[i])
             /\ inst[i].principal_paid \in 0..inst[i].principal
             /\ inst[i].profit_paid \in 0..inst[i].profit
  <2>1. PICK x \in InstRow : x = inst[i]
    BY DEF Sound, Typed
  <2>2. x.principal_paid <= x.principal /\ x.profit_paid <= x.profit
    BY <2>1 DEF Sound, PaidWithinWorth
  <2>3. x.principal_paid \in 0..x.principal /\ x.profit_paid \in 0..x.profit
    BY <2>2, InstRowMeaning
  <2> QED BY <2>1, <2>3 DEF Told
<1>2. ASSUME NEW k \in DOMAIN fees
      PROVE  FeeTold(fees[k]) /\ fees[k].amount_paid \in 0..fees[k].amount
  <2>1. PICK c \in FeeRow : c = fees[k]
    BY SequenceElement DEF Sound, Typed
  <2>2. c.amount_paid <= c.amount
    BY <2>1 DEF Sound, FeesPaidWithin
  <2>3. c.amount_paid \in 0..c.amount
    BY <2>2, FeeRowMeaning
  <2> QED BY <2>1, <2>3 DEF Told
<1> QED BY <1>1, <1>2 DEF ScheduleAgrees, StatusTold, FeeTold

LEMMA ToldAtFirst ==
  ASSUME Init, \A i \in Installments : Schedule[i].principal + Schedule[i].profit > 0
  PROVE  Told
<1>1. fees = <<>>
  BY DEF Init
<1>2. ASSUME NEW i \in Installments PROVE StatusTold(inst[i])
  <2>1. inst \in [Installments -> InstRow]
    BY SoundAtFirst DEF Sound, Typed
  <2>2. PICK x \in InstRow : x = inst[i]
    BY <2>1
  <2>3. /\ x.principal = Schedule[i].principal /\ x.profit = Schedule[i].profit
        /\ x.principal_paid = 0 /\ x.profit_paid = 0
        /\ x.principal_written_off = 0 /\ x.profit_written_off = 0 /\ x.status = "pending"
    BY <2>2 DEF Init
  <2>4. x.principal + x.profit > 0
    BY <2>3
  <2>5. ~is_fully_paid(x) /\ ~has_any_payment(x)
    BY <2>3, <2>4, FullyPaidMeaning, InstRowMeaning
  <2> QED BY <2>2, <2>3, <2>5 DEF StatusTold
<1> QED BY <1>1, <1>2 DEF Told

\* A contract without write-offs, each of whose installments is worth something:
\* whatever is paid, taken back, marked overdue, charged, waived, settled and
\* returned, the status column says what the balances say.
THEOREM StatusCorrect ==
  ASSUME \A i \in Installments : Schedule[i].principal + Schedule[i].profit > 0
  PROVE  ServicingSpec => []ScheduleAgrees
<1>1. Init => Sound /\ Told
  BY SoundAtFirst, ToldAtFirst
<1>2. Sound /\ Told /\ [ServicingNext]_cvars => Sound' /\ Told'
  BY ServicingSteps, StepKeepsSound, StepTells
<1>3. Sound /\ Told => ScheduleAgrees
  BY TellsAgreement
<1> QED BY <1>1, <1>2, <1>3, PTL DEF ServicingSpec
-------------------------------------------------------------------------------
\* The collections case of a contract in arrears.

\* Before delivery nothing is overdue, and after it arrears have an open case.
CaseKept == /\ contract.status = "created" => ~HasOverdue
            /\ OverdueHasCase

NoNewOverdue == \A i \in Installments :
                  inst'[i].status = "overdue" => inst[i].status = "overdue"

LEMMA PaymentMarksNothing ==
  ASSUME Sound, NEW plan, NEW p, NEW amount \in Nat, PaidBy(plan, p, amount)
  PROVE  NoNewOverdue
<1>1. /\ inst \in [Installments -> InstRow] /\ plan \in [Installments -> AmountRow]
      /\ PayInstallments(plan)
  BY DEF Sound, Typed, PaidBy
<1> SUFFICES ASSUME NEW i \in Installments, inst'[i].status = "overdue"
             PROVE  inst[i].status = "overdue"
  BY DEF NoNewOverdue
<1>2. PICK y \in InstRow : y = inst'[i]
  BY <1>1, PayInstallmentsMeaning
<1>3. CASE y.status = StatusAfterPayment(WithStatus(y, inst[i].status))
  BY <1>2, <1>3, StatusOfRow DEF StatusAfterPayment
<1> QED BY <1>1, <1>2, <1>3, PayInstallmentsMeaning

LEMMA ReversalMarksNothing ==
  ASSUME Sound, NEW n, NEW lines, TakenBackBy(n, lines)
  PROVE  NoNewOverdue
<1>1. /\ inst \in [Installments -> InstRow] /\ lines \in [Installments -> AmountRow]
      /\ \A i \in Installments : /\ lines[i].principal <= inst[i].principal_paid
                                 /\ lines[i].profit <= inst[i].profit_paid
      /\ ReverseInstallments(lines)
  BY DEF Sound, Typed, TakenBackBy
<1> SUFFICES ASSUME NEW i \in Installments, inst'[i].status = "overdue"
             PROVE  inst[i].status = "overdue"
  BY DEF NoNewOverdue
<1>2. PICK y \in InstRow : y = inst'[i]
  BY <1>1, ReverseInstallmentsMeaning
<1>3. CASE y.status = StatusAfterReversal(WithStatus(y, inst[i].status))
  BY <1>2, <1>3, StatusOfRow DEF StatusAfterReversal
<1> QED BY <1>1, <1>2, <1>3, ReverseInstallmentsMeaning

LEMMA CaseThroughPayment ==
  ASSUME Sound, CaseKept, NEW source \in {"staff", "gateway"}, NEW r \in Asked,
         NEW a \in Nat \ {0}, RecordPayment(source, r, a)
  PROVE  CaseKept'
<1>1. NoNewOverdue
  BY PaymentEffect, PaymentMarksNothing
<1>2. /\ contract.status = "active"
      /\ contract' \in {contract, [status |-> "closed", closure |-> "normal"]}
      /\ case' = IF case = "open" /\ ~HasOverdue' THEN "cleared" ELSE case
  BY DEF RecordPayment, CloseCaseIfCleared
<1>3. HasOverdue' => HasOverdue
  BY <1>1 DEF NoNewOverdue, HasOverdue
<1>4. HasOverdue' => case' = "open"
  BY <1>2, <1>3 DEF CaseKept, OverdueHasCase
<1> QED BY <1>2, <1>4 DEF CaseKept, OverdueHasCase

LEMMA CaseThroughReversal ==
  ASSUME Sound, CaseKept, NEW n \in DOMAIN payments, ReverseSettledPayment(n)
  PROVE  CaseKept'
<1>1. NoNewOverdue
  BY ReversalEffect, ReversalMarksNothing
<1>2. contract' = contract /\ case' = "open"
  BY DEF ReverseSettledPayment, open_case_if_needed
<1> QED BY <1>1, <1>2 DEF NoNewOverdue, HasOverdue, CaseKept, OverdueHasCase

LEMMA CaseThroughOverdueJob ==
  ASSUME CaseKept, NEW day, AssessOverdue(day)
  PROVE  CaseKept'
<1>1. contract' = contract /\ MarkOverdue(day) /\ OpenCase(day)
  BY DEF AssessOverdue
<1>2. CASE NewlyOverdue(day) = {}
  <2>1. \A i \in Installments : inst'[i] = inst[i]
    BY <1>1, <1>2 DEF MarkOverdue
  <2>2. case' = case
    BY <1>1, <1>2 DEF OpenCase
  <2> QED BY <1>1, <2>1, <2>2 DEF HasOverdue, CaseKept, OverdueHasCase
<1>3. CASE NewlyOverdue(day) # {}
  <2>1. contract.status = "active"
    BY <1>3 DEF NewlyOverdue, PastDue
  <2>2. case' = "open"
    BY <1>1, <1>3 DEF OpenCase, open_case_if_needed
  <2> QED BY <1>1, <2>1, <2>2 DEF CaseKept, OverdueHasCase
<1> QED BY <1>2, <1>3

LEMMA CaseThroughExecution ==
  ASSUME Sound, CaseKept, NEW n \in DOMAIN writeOffs, writeOffs[n].asked \in AmountRow,
         ExecuteWriteOff(n)
  PROVE  CaseKept'
<1>1. \/ contract' = [status |-> "closed", closure |-> "write_off"]
      \/ contract' = contract /\ case' = case
  BY DEF ExecuteWriteOff
<1>2. CASE contract' = [status |-> "closed", closure |-> "write_off"]
  BY <1>2 DEF CaseKept, OverdueHasCase
<1>3. CASE contract' = contract /\ case' = case
  <2>1. \A i \in Installments : inst'[i].status \in {inst[i].status, "written_off"}
    BY WriteOffEffect DEF WrittenOffBy
  <2>2. HasOverdue' => HasOverdue
    BY <2>1 DEF HasOverdue
  <2> QED BY <1>3, <2>2 DEF CaseKept, OverdueHasCase
<1> QED BY <1>1, <1>2, <1>3

LEMMA CaseThroughServicing ==
  ASSUME Sound, CaseKept, ServicingNext
  PROVE  CaseKept'
<1>1. CASE /\ contract' = contract /\ inst' = inst /\ case' = case
  BY <1>1 DEF CaseKept, OverdueHasCase, HasOverdue
<1>2. CASE ConfirmDelivery
  <2>1. ~HasOverdue /\ inst' = inst
    BY <1>2 DEF ConfirmDelivery, CaseKept, money
  <2>2. ~HasOverdue'
    BY <2>1 DEF HasOverdue
  <2> QED BY <2>2 DEF CaseKept, OverdueHasCase
<1>3. CASE contract'.status = "closed"
  BY <1>3 DEF CaseKept, OverdueHasCase
<1>4. ASSUME NEW source \in {"staff", "gateway"},
             NEW a \in Amounts, NEW r \in StaffReferences \cup GatewayReferences,
             RecordPayment(source, r, a)
      PROVE  CaseKept'
  <2>1. a \in Nat \ {0} /\ r \in Asked
    BY ServicingAssumption DEF Asked
  <2> QED BY <1>4, <2>1, CaseThroughPayment
<1>5. ASSUME NEW k \in DOMAIN fees, RequestWaiver(k) \/ ApproveWaiver(k) \/ RejectWaiver(k)
      PROVE  CaseKept'
  BY <1>1, <1>5 DEF RequestWaiver, ApproveWaiver, RejectWaiver, money
<1>6. ASSUME NEW a \in PromiseAmounts, NEW day \in Days, LogPromise(a, day)
      PROVE  CaseKept'
  BY <1>1, <1>6 DEF LogPromise, money
<1>7. ASSUME NEW verdict \in StaffVerdicts, SetPromiseStatus(verdict)
      PROVE  CaseKept'
  BY <1>1, <1>7 DEF SetPromiseStatus, money
<1>8. ASSUME NEW ask \in RebateAsks, RequestRebate(ask)
      PROVE  CaseKept'
  BY <1>1, <1>8 DEF RequestRebate, money
<1>9. CASE RejectRebate
  BY <1>1, <1>9 DEF RejectRebate, money
<1>10. ASSUME NEW r \in SettleReferences, Settle(r) \/ ApproveRebate(r)
       PROVE  CaseKept'
  BY <1>3, <1>10 DEF Settle, ApproveRebate, SettleContract
<1>11. CASE CancelContract \/ ReturnContract
  BY <1>3, <1>11 DEF CancelContract, ReturnContract
<1> QED BY <1>2, <1>4, <1>5, <1>6, <1>7, <1>8, <1>9, <1>10, <1>11, CaseThroughReversal,
           CaseThroughOverdueJob DEF ServicingNext

LEMMA CaseThrough ==
  WriteOffInv /\ CaseKept /\ [WriteOffNext]_wvars => CaseKept'
<1> SUFFICES ASSUME WriteOffInv, CaseKept, [WriteOffNext]_wvars PROVE CaseKept'
  OBVIOUS
<1>1. Sound /\ RequestsSound
  BY DEF WriteOffInv
<1>2. CASE UNCHANGED cvars
  BY <1>2 DEF cvars, money, CaseKept, OverdueHasCase, HasOverdue
<1>3. ASSUME NEW n \in DOMAIN writeOffs, ExecuteWriteOff(n)
      PROVE  CaseKept'
  <2>1. writeOffs[n].asked \in AmountRow
    BY <1>1, SequenceElement, WriteOffRowMeaning DEF RequestsSound
  <2> QED BY <1>1, <1>3, <2>1, CaseThroughExecution
<1>4. CASE UNCHANGED wvars
  BY <1>2, <1>4 DEF wvars
<1>5. ASSUME NEW type, NEW ask, RequestWriteOff(type, ask)
      PROVE  CaseKept'
  BY <1>2, <1>5 DEF RequestWriteOff
<1>6. ASSUME NEW n, DecideWriteOff(n) \/ CancelWriteOff(n)
      PROVE  CaseKept'
  BY <1>2, <1>6 DEF DecideWriteOff, CancelWriteOff
<1>7. ASSUME NEW n, NEW a, NEW order, RecordRecovery(n, a, order)
      PROVE  CaseKept'
  BY <1>2, <1>7 DEF RecordRecovery
<1> QED BY <1>1, <1>3, <1>4, <1>5, <1>6, <1>7, CaseThroughServicing DEF WriteOffNext

\* A contract being repaid that has an overdue installment has an open case, whatever
\* closed the case before and whatever was taken back or written off in part.
THEOREM CaseCorrect == WriteOffSpec => []OverdueHasCase
<1>1. WriteOffInit => CaseKept
  <2> SUFFICES ASSUME Init PROVE CaseKept
    BY DEF WriteOffInit
  <2>1. contract.status = "created" /\ \A i \in Installments : inst[i].status = "pending"
    BY DEF Init
  <2>2. ~HasOverdue
    BY <2>1 DEF HasOverdue
  <2> QED BY <2>1, <2>2 DEF CaseKept, OverdueHasCase
<1>2. WriteOffInv /\ CaseKept => OverdueHasCase
  BY DEF CaseKept
<1> QED BY <1>1, <1>2, CaseThrough, WriteOffInvAlways, PTL DEF WriteOffSpec
-------------------------------------------------------------------------------
\* A contract without write-offs is an account.

LineIs(a, late, profit, principal) ==
  a.late_fee = late /\ a.profit = profit /\ a.principal = principal
LineWithin(a, b) ==
  a.late_fee <= b.late_fee /\ a.profit <= b.profit /\ a.principal <= b.principal

LEMMA TotalOfRows ==
  ASSUME NEW rows \in [Installments -> AmountRow]
  PROVE  /\ [i \in Installments |-> LineTotal(rows[i])] \in [Installments -> Nat]
         /\ Total(rows)
              = SumFunctionOnSet([i \in Installments |-> LineTotal(rows[i])], Installments)
         /\ Total(rows) \in Nat
<1>1. PICK m \in Nat : m = Len(Schedule) /\ Installments = 1..m
  BY InstallmentsAreNumbered
<1>2. ASSUME NEW i \in Installments PROVE LineTotal(rows[i]) \in Nat
  <2>1. PICK a \in AmountRow : a = rows[i]
    OBVIOUS
  <2>2. a.late_fee + a.profit + a.principal \in Nat
    BY AmountRowMeaning
  <2> QED BY <2>1, <2>2 DEF LineTotal
<1>3. PICK t \in [Installments -> Nat] : t = [i \in Installments |-> LineTotal(rows[i])]
  BY <1>2
<1>4. Total(rows) = SumFunctionOnSet(t, Installments)
  BY <1>1, <1>3, TotalMeaning
<1>5. SumFunctionOnSet(t, Installments) \in Nat
  BY InstallmentsAreFinite, SumNat
<1> QED BY <1>3, <1>4, <1>5

LEMMA TotalAtMost ==
  ASSUME NEW a \in [Installments -> AmountRow], NEW b \in [Installments -> AmountRow],
         \A i \in Installments : LineWithin(a[i], b[i])
  PROVE  Total(a) <= Total(b)
<1>1. PICK t \in [Installments -> Nat], u \in [Installments -> Nat] :
        /\ t = [i \in Installments |-> LineTotal(a[i])]
        /\ u = [i \in Installments |-> LineTotal(b[i])]
        /\ Total(a) = SumFunctionOnSet(t, Installments)
        /\ Total(b) = SumFunctionOnSet(u, Installments)
  BY TotalOfRows
<1>2. ASSUME NEW i \in Installments
      PROVE  t[i] \in Int /\ u[i] \in Int /\ t[i] <= u[i]
  <2>1. PICK x \in AmountRow, y \in AmountRow : x = a[i] /\ y = b[i]
    OBVIOUS
  <2>2. LineTotal(x) <= LineTotal(y)
    BY <2>1, AmountRowMeaning DEF LineTotal, LineWithin
  <2> QED BY <1>1, <2>1, <2>2
<1>3. SumFunctionOnSet(t, Installments) <= SumFunctionOnSet(u, Installments)
  BY <1>2, InstallmentsAreFinite, SumAtMost
<1> QED BY <1>1, <1>3

LEMMA TotalMinus ==
  ASSUME NEW a \in [Installments -> AmountRow], NEW b \in [Installments -> AmountRow],
         NEW c \in [Installments -> AmountRow],
         \A i \in Installments : LineIs(c[i], a[i].late_fee - b[i].late_fee,
                                        a[i].profit - b[i].profit,
                                        a[i].principal - b[i].principal)
  PROVE  Total(c) = Total(a) - Total(b)
<1>1. PICK t \in [Installments -> Nat], u \in [Installments -> Nat],
           v \in [Installments -> Nat] :
        /\ t = [i \in Installments |-> LineTotal(a[i])]
        /\ u = [i \in Installments |-> LineTotal(b[i])]
        /\ v = [i \in Installments |-> LineTotal(c[i])]
        /\ Total(a) = SumFunctionOnSet(t, Installments)
        /\ Total(b) = SumFunctionOnSet(u, Installments)
        /\ Total(c) = SumFunctionOnSet(v, Installments)
  BY TotalOfRows
<1>2. ASSUME NEW i \in Installments
      PROVE  t[i] \in Int /\ u[i] \in Int /\ v[i] = t[i] - u[i]
  <2>1. PICK x \in AmountRow, y \in AmountRow, z \in AmountRow :
          x = a[i] /\ y = b[i] /\ z = c[i]
    OBVIOUS
  <2>2. /\ z.late_fee = x.late_fee - y.late_fee /\ z.profit = x.profit - y.profit
        /\ z.principal = x.principal - y.principal
    BY <2>1 DEF LineIs
  <2>3. LineTotal(z) = LineTotal(x) - LineTotal(y)
    BY <2>2, AmountRowMeaning DEF LineTotal
  <2> QED BY <1>1, <2>1, <2>3
<1>3. SumFunctionOnSet(v, Installments)
        = SumFunctionOnSet(t, Installments) - SumFunctionOnSet(u, Installments)
  BY <1>2, InstallmentsAreFinite, SumMinus
<1> QED BY <1>1, <1>3

\* Between a and a + b, line by line, so in total.
LEMMA TotalBetween ==
  ASSUME NEW a \in [Installments -> AmountRow], NEW b \in [Installments -> AmountRow],
         NEW c \in [Installments -> AmountRow],
         \A i \in Installments :
           /\ LineWithin(a[i], c[i])
           /\ c[i].late_fee <= a[i].late_fee + b[i].late_fee
           /\ c[i].profit <= a[i].profit + b[i].profit
           /\ c[i].principal <= a[i].principal + b[i].principal
  PROVE  Total(a) <= Total(c) /\ Total(c) <= Total(a) + Total(b)
<1>1. Total(a) <= Total(c)
  BY TotalAtMost
<1>2. PICK t \in [Installments -> Nat], u \in [Installments -> Nat],
           v \in [Installments -> Nat] :
        /\ t = [i \in Installments |-> LineTotal(a[i])]
        /\ u = [i \in Installments |-> LineTotal(b[i])]
        /\ v = [i \in Installments |-> LineTotal(c[i])]
        /\ Total(a) = SumFunctionOnSet(t, Installments)
        /\ Total(b) = SumFunctionOnSet(u, Installments)
        /\ Total(c) = SumFunctionOnSet(v, Installments)
  BY TotalOfRows
<1>3. PICK w \in [Installments -> Nat] : w = [i \in Installments |-> t[i] + u[i]]
  <2>1. \A i \in Installments : t[i] + u[i] \in Nat
    OBVIOUS
  <2> QED BY <2>1
<1>4. ASSUME NEW i \in Installments
      PROVE  t[i] \in Int /\ u[i] \in Int /\ v[i] \in Int /\ w[i] = t[i] + u[i]
             /\ w[i] \in Int /\ v[i] <= w[i]
  <2>1. PICK x \in AmountRow, y \in AmountRow, z \in AmountRow :
          x = a[i] /\ y = b[i] /\ z = c[i]
    OBVIOUS
  <2>2. /\ z.late_fee <= x.late_fee + y.late_fee /\ z.profit <= x.profit + y.profit
        /\ z.principal <= x.principal + y.principal
    BY <2>1
  <2>3. LineTotal(z) <= LineTotal(x) + LineTotal(y)
    BY <2>2, AmountRowMeaning DEF LineTotal
  <2> QED BY <1>2, <1>3, <2>1, <2>3
<1>5. SumFunctionOnSet(w, Installments)
        = SumFunctionOnSet(t, Installments) + SumFunctionOnSet(u, Installments)
  BY <1>4, InstallmentsAreFinite, SumPlus
<1>6. SumFunctionOnSet(v, Installments) <= SumFunctionOnSet(w, Installments)
  BY <1>4, InstallmentsAreFinite, SumAtMost
<1> QED BY <1>1, <1>2, <1>5, <1>6

\* What is owed, in any state without write-offs.
OwedTold ==
  /\ Receivable \in [Installments -> AmountRow]
  /\ \A i \in Installments :
       /\ Receivable[i].profit = inst[i].profit - inst[i].profit_paid
       /\ Receivable[i].principal = inst[i].principal - inst[i].principal_paid
  /\ \A k \in DOMAIN fees :
       NotWaived(fees[k]) => Receivable[fees[k].installment].late_fee
                               = fees[k].amount - fees[k].amount_paid
  /\ \A i \in Installments : LiveOf(fees, i) = {} => Receivable[i].late_fee = 0
  /\ Total(Receivable) \in Nat
  /\ Total(Receivable) = Column(Receivable, "late_fee") + Column(Receivable, "profit")
                           + Column(Receivable, "principal")
  /\ Column(Receivable, "late_fee") = FeesOwed
  /\ Column(Receivable, "late_fee") \in Nat /\ Column(Receivable, "profit") \in Nat
  /\ Column(Receivable, "principal") \in Nat

LEMMA OwedNow == Sound /\ NothingOff => OwedTold
<1> SUFFICES ASSUME Sound, NothingOff PROVE OwedTold
  OBVIOUS
<1>1. /\ inst \in [Installments -> InstRow] /\ fees \in Seq(FeeRow)
      /\ FeesBounded /\ InstBounded /\ OneLive(fees)
  BY NothingOffInAll DEF Sound, Typed
<1>2. PICK R \in [Installments -> AmountRow] : R = Receivable
  BY <1>1, ReceivableMeaning
<1>3. /\ \A i \in Installments :
            /\ R[i].late_fee = late_fee_outstanding(i)
            /\ R[i].profit = inst[i].profit - inst[i].profit_paid
                               - inst[i].profit_written_off
            /\ R[i].principal = inst[i].principal - inst[i].principal_paid
                                  - inst[i].principal_written_off
      /\ Column(R, "late_fee") = FeesOwed
  BY <1>1, <1>2, ReceivableMeaning
<1>4. ASSUME NEW i \in Installments
      PROVE  /\ R[i].profit = inst[i].profit - inst[i].profit_paid
             /\ R[i].principal = inst[i].principal - inst[i].principal_paid
  <2>1. PICK x \in InstRow : x = inst[i]
    BY <1>1
  <2>2. x.profit_written_off = 0 /\ x.principal_written_off = 0
    BY <2>1 DEF NothingOff
  <2> QED BY <1>3, <2>1, <2>2, InstRowMeaning
<1>5. ASSUME NEW k \in DOMAIN fees, NotWaived(fees[k])
      PROVE  R[fees[k].installment].late_fee = fees[k].amount - fees[k].amount_paid
  <2>1. PICK c \in FeeRow : c = fees[k]
    BY <1>1, SequenceElement
  <2>2. c.amount_written_off = 0 /\ c.installment \in Installments
    BY <2>1, FeeRowMeaning DEF NothingOff
  <2>3. late_fee_outstanding(c.installment)
          = c.amount - c.amount_paid - c.amount_written_off
    BY <1>1, <1>5, <2>1, LateFeeOfLive
  <2> QED BY <1>3, <2>1, <2>2, <2>3, FeeRowMeaning
<1>6. ASSUME NEW i \in Installments, LiveOf(fees, i) = {}
      PROVE  R[i].late_fee = 0
  <2>1. PICK n \in Nat : fees \in [1..n -> FeeRow] /\ DOMAIN fees = 1..n
    BY <1>1, SequenceIsFunction
  <2>2. ASSUME NEW k \in 1..n
        PROVE  (IF fees[k].installment = i THEN fee_outstanding(fees[k]) ELSE 0) = 0
    <3>1. CASE fees[k].installment = i
      BY <1>6, <2>1, <3>1 DEF LiveOf, Live, NotWaived, fee_outstanding
    <3> QED BY <3>1
  <2>3. PICK h : h = [k \in DOMAIN fees |-> IF fees[k].installment = i
                                            THEN fee_outstanding(fees[k]) ELSE 0]
    OBVIOUS
  <2>4. \A k \in 1..n : h[k] = 0
    BY <2>1, <2>2, <2>3
  <2>5. SumFunctionOnSet(h, 1..n) = 0
    BY <2>4, UpToIsFinite, SumZero
  <2>6. late_fee_outstanding(i) = SumFunctionOnSet(h, 1..n)
    BY <2>1, <2>3 DEF late_fee_outstanding, SumFunction
  <2> QED BY <1>3, <2>5, <2>6
<1>7. /\ Total(R) \in Nat
      /\ Total(R) = Column(R, "late_fee") + Column(R, "profit") + Column(R, "principal")
      /\ Column(R, "late_fee") \in Nat /\ Column(R, "profit") \in Nat
      /\ Column(R, "principal") \in Nat
  BY TotalOfRows, ColumnsMeaning
<1> QED BY <1>2, <1>3, <1>4, <1>5, <1>6, <1>7 DEF OwedTold

LEMMA OwedNext == Sound' /\ NothingOff' => OwedTold'
BY OwedNow, PTL

LEMMA LiveOfMeaning ==
  ASSUME NEW i, NEW k
  PROVE  k \in LiveOf(fees, i) <=> /\ k \in DOMAIN fees /\ NotWaived(fees[k])
                                   /\ fees[k].installment = i
BY DEF LiveOf, Live

\* The one live charge of an installment gets the whole late fee line.
LEMMA WholePart ==
  ASSUME fees \in Seq(FeeRow), OneLive(fees),
         \A j \in DOMAIN fees : fees[j].amount_paid <= fees[j].amount,
         NEW lines \in [Installments -> AmountRow], NEW i \in Installments,
         NEW k \in LiveOf(fees, i),
         lines[i].late_fee <= fees[k].amount - fees[k].amount_paid
  PROVE  FeeParts(lines)[i][k] = lines[i].late_fee
<1>1. PICK m \in Nat : fees \in [1..m -> FeeRow] /\ DOMAIN fees = 1..m
  BY SequenceIsFunction
<1>2. k \in 1..m
  BY <1>1, LiveOfMeaning
<1>3. PICK a \in Nat : a = lines[i].late_fee
  <2>1. lines[i] \in AmountRow
    OBVIOUS
  <2> QED BY <2>1, AmountRowMeaning
<1>4. ASSUME NEW j \in 1..m PROVE fees[j].amount - fees[j].amount_paid \in Nat
  <2>1. PICK c \in FeeRow : c = fees[j]
    BY <1>1
  <2>2. c.amount_paid <= c.amount
    BY <1>1, <2>1
  <2> QED BY <2>1, <2>2, FeeRowMeaning
<1>5. PICK b \in [1..m -> Nat] :
        b = [j \in DOMAIN fees |-> IF j \in LiveOf(fees, i)
                                   THEN fees[j].amount - fees[j].amount_paid ELSE 0]
  BY <1>1, <1>4
<1>6. PICK s \in [1..m -> Nat] : s = Spread(a, b)
  BY SpreadMeaning
<1>7. s = FeeParts(lines)[i]
  BY <1>3, <1>5, <1>6 DEF FeeParts
<1>8. ASSUME NEW j \in (1..m) \ {k} PROVE b[j] = 0 /\ s[j] = 0
  <2>1. j \notin LiveOf(fees, i)
    BY <1>1, <1>2, LiveOfMeaning DEF OneLive
  <2>2. b[j] = 0
    BY <1>1, <1>5, <2>1
  <2>3. s[j] \in 0..b[j]
    BY <1>6, SpreadBounds
  <2> QED BY <2>2, <2>3
<1>9. PICK S : S = 1..m /\ IsFiniteSet(S)
  BY UpToIsFinite
<1>10. PICK x \in S : x = k
  BY <1>2, <1>9
<1>11. /\ \A j \in S : b[j] \in Int /\ s[j] \in Int
       /\ \A j \in S \ {x} : b[j] = 0 /\ s[j] = 0
  BY <1>8, <1>9, <1>10
<1>12. SumFunctionOnSet(b, S) = b[x] /\ SumFunctionOnSet(s, S) = s[x]
  BY <1>9, <1>11, SumOnly
<1>13. b[k] = fees[k].amount - fees[k].amount_paid
  BY <1>1, <1>2, <1>5
<1>14. a <= SumFunctionOnSet(b, 1..m)
  BY <1>3, <1>9, <1>10, <1>12, <1>13
<1>15. SumFunctionOnSet(s, 1..m) = a
  BY <1>6, <1>14, SpreadAll
<1> QED BY <1>3, <1>7, <1>9, <1>10, <1>12, <1>15

\* A payment reduces what is owed by its amount.
LEMMA PaymentReduces ==
  ASSUME Sound, OwedTold, OwedTold', NEW plan, NEW p, NEW amount \in Nat,
         PaidBy(plan, p, amount)
  PROVE  Total(Receivable') = Total(Receivable) - amount
<1>1. PICK R \in [Installments -> AmountRow], Q \in [Installments -> AmountRow] :
        R = Receivable /\ Q = Receivable'
  BY DEF OwedTold
<1>2. /\ inst \in [Installments -> InstRow] /\ fees \in Seq(FeeRow) /\ OneLive(fees)
      /\ \A k \in DOMAIN fees : fees[k].amount_paid <= fees[k].amount
  BY DEF Sound, Typed, FeesPaidWithin
<1>3. /\ plan \in [Installments -> AmountRow] /\ PayInstallments(plan) /\ PayFees(plan)
      /\ WithinOwed(plan) /\ Total(plan) = amount
  BY DEF PaidBy
<1>4. ASSUME NEW i \in Installments
      PROVE  /\ Q[i].profit = R[i].profit - plan[i].profit
             /\ Q[i].principal = R[i].principal - plan[i].principal
  <2>1. PICK x \in InstRow, y \in InstRow : x = inst[i] /\ y = inst'[i]
    BY <1>2, <1>3, PayInstallmentsMeaning
  <2>2. PICK l \in AmountRow : l = plan[i]
    BY <1>3
  <2>3. /\ y.profit = x.profit /\ y.principal = x.principal
        /\ y.profit_paid = x.profit_paid + l.profit
        /\ y.principal_paid = x.principal_paid + l.principal
    BY <1>2, <1>3, <2>1, <2>2, PayInstallmentsMeaning DEF SameWorth
  <2>4. /\ R[i].profit = x.profit - x.profit_paid
        /\ R[i].principal = x.principal - x.principal_paid
        /\ Q[i].profit = y.profit - y.profit_paid
        /\ Q[i].principal = y.principal - y.principal_paid
    BY <1>1, <2>1 DEF OwedTold
  <2> QED BY <2>2, <2>3, <2>4, InstRowMeaning, AmountRowMeaning
<1>5. ASSUME NEW i \in Installments PROVE Q[i].late_fee = R[i].late_fee - plan[i].late_fee
  <2>1. plan[i].late_fee <= R[i].late_fee
    BY <1>1, <1>3 DEF WithinOwed
  <2>2. plan[i].late_fee \in Nat
    <3>1. plan[i] \in AmountRow
      BY <1>3
    <3> QED BY <3>1, AmountRowMeaning
  <2>3. /\ DOMAIN fees' = DOMAIN fees
        /\ \A k \in DOMAIN fees : SameFee(fees[k], fees'[k])
    BY <1>2, <1>3, PayFeesMeaning
  <2>4. CASE LiveOf(fees, i) = {}
    <3>1. LiveOf(fees', i) = {}
      BY <2>3, <2>4 DEF LiveOf, Live, SameFee
    <3>2. R[i].late_fee = 0 /\ Q[i].late_fee = 0
      BY <1>1, <2>4, <3>1 DEF OwedTold
    <3> QED BY <2>1, <2>2, <3>2
  <2>5. ASSUME NEW k \in LiveOf(fees, i)
        PROVE  Q[i].late_fee = R[i].late_fee - plan[i].late_fee
    <3>1. k \in DOMAIN fees /\ NotWaived(fees[k]) /\ fees[k].installment = i
      BY LiveOfMeaning
    <3>2. PICK c \in FeeRow, d \in FeeRow : c = fees[k] /\ d = fees'[k]
      BY <1>2, <1>3, <3>1, PayFeesMeaning, SequenceElement
    <3>3. NotWaived(d) /\ d.installment = i /\ d.amount = c.amount /\ k \in DOMAIN fees'
      BY <2>3, <3>1, <3>2 DEF SameFee
    <3>4. /\ R[i].late_fee = c.amount - c.amount_paid
          /\ Q[i].late_fee = d.amount - d.amount_paid
      BY <1>1, <3>1, <3>2, <3>3 DEF OwedTold
    <3>5. FeeParts(plan)[i][k] = plan[i].late_fee
      BY <1>2, <1>3, <2>1, <3>2, <3>4, WholePart
    <3>6. d.amount_paid = c.amount_paid + FeeParts(plan)[i][k]
      BY <1>2, <1>3, <3>1, <3>2, PayFeesMeaning
    <3> QED BY <2>2, <3>3, <3>4, <3>5, <3>6, FeeRowMeaning
  <2> QED BY <2>4, <2>5
<1>6. \A i \in Installments : LineIs(Q[i], R[i].late_fee - plan[i].late_fee,
                                     R[i].profit - plan[i].profit,
                                     R[i].principal - plan[i].principal)
  BY <1>4, <1>5 DEF LineIs
<1>7. Total(Q) = Total(R) - Total(plan)
  BY <1>3, <1>6, TotalMinus
<1> QED BY <1>1, <1>3, <1>7

\* A reversal makes at most what it takes back owed again.
LEMMA ReversalRestores ==
  ASSUME Sound, OwedTold, OwedTold', NEW n, NEW lines, TakenBackBy(n, lines)
  PROVE  /\ Total(Receivable) <= Total(Receivable')
         /\ Total(Receivable') <= Total(Receivable) + Total(lines)
<1>1. PICK R \in [Installments -> AmountRow], Q \in [Installments -> AmountRow] :
        R = Receivable /\ Q = Receivable'
  BY DEF OwedTold
<1>2. /\ inst \in [Installments -> InstRow] /\ fees \in Seq(FeeRow)
      /\ \A k \in DOMAIN fees : fees[k].amount_paid <= fees[k].amount
  BY DEF Sound, Typed, FeesPaidWithin
<1>3. /\ lines \in [Installments -> AmountRow]
      /\ ReverseInstallments(lines) /\ ReverseFees(lines)
      /\ \A i \in Installments : /\ lines[i].principal <= inst[i].principal_paid
                                 /\ lines[i].profit <= inst[i].profit_paid
  BY DEF TakenBackBy
<1>4. ASSUME NEW i \in Installments
      PROVE  /\ R[i].profit <= Q[i].profit /\ Q[i].profit <= R[i].profit + lines[i].profit
             /\ R[i].principal <= Q[i].principal
             /\ Q[i].principal <= R[i].principal + lines[i].principal
  <2>1. PICK x \in InstRow, y \in InstRow : x = inst[i] /\ y = inst'[i]
    BY <1>2, <1>3, ReverseInstallmentsMeaning
  <2>2. PICK l \in AmountRow : l = lines[i]
    BY <1>3
  <2>3. /\ y.profit = x.profit /\ y.principal = x.principal
        /\ y.profit_paid = x.profit_paid - l.profit
        /\ y.principal_paid = x.principal_paid - l.principal
    BY <1>2, <1>3, <2>1, <2>2, ReverseInstallmentsMeaning DEF SameWorth
  <2>4. /\ R[i].profit = x.profit - x.profit_paid
        /\ R[i].principal = x.principal - x.principal_paid
        /\ Q[i].profit = y.profit - y.profit_paid
        /\ Q[i].principal = y.principal - y.principal_paid
    BY <1>1, <2>1 DEF OwedTold
  <2> QED BY <2>2, <2>3, <2>4, InstRowMeaning, AmountRowMeaning
<1>5. ASSUME NEW i \in Installments
      PROVE  /\ R[i].late_fee <= Q[i].late_fee
             /\ Q[i].late_fee <= R[i].late_fee + lines[i].late_fee
  <2>1. lines[i].late_fee \in Nat
    <3>1. lines[i] \in AmountRow
      BY <1>3
    <3> QED BY <3>1, AmountRowMeaning
  <2>2. /\ DOMAIN fees' = DOMAIN fees
        /\ \A k \in DOMAIN fees : SameFee(fees[k], fees'[k])
    BY <1>2, <1>3, ReverseFeesMeaning
  <2>3. CASE LiveOf(fees, i) = {}
    <3>1. LiveOf(fees', i) = {}
      BY <2>2, <2>3 DEF LiveOf, Live, SameFee
    <3>2. R[i].late_fee = 0 /\ Q[i].late_fee = 0
      BY <1>1, <2>3, <3>1 DEF OwedTold
    <3> QED BY <2>1, <3>2
  <2>4. ASSUME NEW k \in LiveOf(fees, i)
        PROVE  /\ R[i].late_fee <= Q[i].late_fee
               /\ Q[i].late_fee <= R[i].late_fee + lines[i].late_fee
    <3>1. k \in DOMAIN fees /\ NotWaived(fees[k]) /\ fees[k].installment = i
      BY LiveOfMeaning
    <3>2. PICK c \in FeeRow, d \in FeeRow : c = fees[k] /\ d = fees'[k]
      BY <1>2, <1>3, <3>1, ReverseFeesMeaning, SequenceElement
    <3>3. NotWaived(d) /\ d.installment = i /\ d.amount = c.amount /\ k \in DOMAIN fees'
      BY <2>2, <3>1, <3>2 DEF SameFee
    <3>4. /\ R[i].late_fee = c.amount - c.amount_paid
          /\ Q[i].late_fee = d.amount - d.amount_paid
      BY <1>1, <3>1, <3>2, <3>3 DEF OwedTold
    <3>5. PICK b \in Nat : b = FeesBack(lines)[i][Latest(k)]
      BY <1>2, <1>3, <3>1, ReverseFeesMeaning
    <3>6. b <= lines[i].late_fee /\ d.amount_paid = c.amount_paid - b
      BY <1>2, <1>3, <3>1, <3>2, <3>5, ReverseFeesMeaning
    <3> QED BY <2>1, <3>3, <3>4, <3>6, FeeRowMeaning
  <2> QED BY <2>3, <2>4
<1>6. \A i \in Installments : LineWithin(R[i], Q[i])
  BY <1>4, <1>5 DEF LineWithin
<1>7. Total(R) <= Total(Q) /\ Total(Q) <= Total(R) + Total(lines)
  BY <1>3, <1>4, <1>5, <1>6, TotalBetween
<1> QED BY <1>1, <1>7

\* With principal and profit as they were, what is owed changes with the late fees.
LEMMA OwedByFees ==
  ASSUME Sound, OwedTold, OwedTold', inst' \in [Installments -> InstRow],
         \A i \in Installments : SameWorth(inst[i], inst'[i]) /\ SamePaid(inst[i], inst'[i])
  PROVE  Total(Receivable') - FeesOwed' = Total(Receivable) - FeesOwed
<1>1. PICK R \in [Installments -> AmountRow], Q \in [Installments -> AmountRow] :
        R = Receivable /\ Q = Receivable'
  BY DEF OwedTold
<1>2. inst \in [Installments -> InstRow]
  BY DEF Sound, Typed
<1>3. ASSUME NEW i \in Installments
      PROVE  Q[i].profit = R[i].profit /\ Q[i].principal = R[i].principal
  <2>1. PICK x \in InstRow, y \in InstRow : x = inst[i] /\ y = inst'[i]
    BY <1>2
  <2>2. /\ R[i].profit = x.profit - x.profit_paid
        /\ R[i].principal = x.principal - x.principal_paid
        /\ Q[i].profit = y.profit - y.profit_paid
        /\ Q[i].principal = y.principal - y.principal_paid
    BY <1>1, <2>1 DEF OwedTold
  <2> QED BY <2>1, <2>2 DEF SameWorth, SamePaid
<1>4. Profits(Q) = Profits(R) /\ Principals(Q) = Principals(R)
  BY <1>3 DEF Profits, Principals
<1>5. /\ Column(Q, "profit") = Column(R, "profit")
      /\ Column(Q, "principal") = Column(R, "principal")
  BY <1>4, ColumnsMeaning
<1>6. /\ Total(R) = Column(R, "late_fee") + Column(R, "profit") + Column(R, "principal")
      /\ Column(R, "late_fee") \in Nat /\ Column(R, "profit") \in Nat
      /\ Column(R, "principal") \in Nat
      /\ Total(Q) = Column(Q, "late_fee") + Column(Q, "profit") + Column(Q, "principal")
      /\ Column(Q, "late_fee") \in Nat /\ Column(Q, "profit") \in Nat
      /\ Column(Q, "principal") \in Nat
  BY ColumnsMeaning
<1>7. Column(R, "late_fee") = FeesOwed /\ Column(Q, "late_fee") = FeesOwed'
  BY <1>1 DEF OwedTold
<1> QED BY <1>1, <1>5, <1>6, <1>7

\* FeesOwed as a sum over numbers.
FeesAt(f, charges, n) == /\ f = [k \in DOMAIN charges |-> fee_outstanding(charges[k])]
                         /\ f \in [1..n -> Nat] /\ DOMAIN charges = 1..n

LEMMA FeesAtExists ==
  ASSUME NEW charges \in Seq(FeeRow),
         \A k \in DOMAIN charges :
           charges[k].amount_paid + charges[k].amount_written_off <= charges[k].amount
  PROVE  \E n \in Nat : \E f : FeesAt(f, charges, n)
<1>1. PICK n \in Nat : charges \in [1..n -> FeeRow] /\ DOMAIN charges = 1..n
  BY SequenceIsFunction
<1>2. \A k \in 1..n : fee_outstanding(charges[k]) \in Nat
  BY <1>1, FeeOutstandingMeaning
<1>3. PICK f \in [1..n -> Nat] : f = [k \in DOMAIN charges |-> fee_outstanding(charges[k])]
  BY <1>1, <1>2
<1>4. FeesAt(f, charges, n)
  BY <1>1, <1>3 DEF FeesAt
<1> QED BY <1>4

\* The overdue job adds to what is owed, if it charges anything.
LEMMA ChargeAdds ==
  ASSUME Sound, Sound', NothingOff, NothingOff', OwedTold, OwedTold',
         NEW day, ChargedBy(day)
  PROVE  \/ Total(Receivable') = Total(Receivable)
         \/ Total(Receivable') > Total(Receivable) /\ contract.status = "active"
<1>1. /\ inst' \in [Installments -> InstRow]
      /\ \A i \in Installments : Marked(inst[i], inst'[i])
      /\ fees' \in Seq(FeeRow) /\ Len(fees) <= Len(fees')
      /\ \A k \in DOMAIN fees : fees'[k] = fees[k]
      /\ \A k \in DOMAIN fees' : k > Len(fees) => IsNew(fees'[k], Len(Schedule), day)
  BY DEF ChargedBy, Grown
<1>2. Total(Receivable') - FeesOwed' = Total(Receivable) - FeesOwed
  BY <1>1, OwedByFees DEF Marked
<1>3. PICK a \in Nat, b \in Nat, c \in Nat, d \in Nat :
        a = Total(Receivable) /\ b = Total(Receivable') /\ c = FeesOwed /\ d = FeesOwed'
  BY DEF OwedTold
<1>4. fees \in Seq(FeeRow) /\ FeesBounded
  BY NothingOffInAll DEF Sound, Typed
<1>5. ASSUME NEW k \in DOMAIN fees'
      PROVE  fees'[k].amount_paid + fees'[k].amount_written_off <= fees'[k].amount
  <2>1. PICK x \in FeeRow : x = fees'[k]
    BY <1>1, SequenceElement
  <2>2. x.amount_paid <= x.amount
    BY <2>1 DEF Sound, FeesPaidWithin
  <2>3. x.amount_written_off = 0
    BY <2>1 DEF NothingOff
  <2> QED BY <2>1, <2>2, <2>3, FeeRowMeaning
<1>6a. PICK m \in Nat : \E f : FeesAt(f, fees, m)
  BY <1>4, FeesAtExists DEF FeesBounded
<1>6. PICK f : FeesAt(f, fees, m)
  BY <1>6a
<1>7a. PICK n \in Nat : \E g : FeesAt(g, fees', n)
  BY <1>1, <1>5, FeesAtExists
<1>7. PICK g : FeesAt(g, fees', n)
  BY <1>7a
<1>8. m = Len(fees) /\ n = Len(fees') /\ m <= n
  BY <1>1, <1>4, <1>6, <1>7, SequenceIsFunction DEF FeesAt
<1>9. c = SumFunctionOnSet(f, 1..m) /\ d = SumFunctionOnSet(g, 1..n)
  BY <1>3, <1>6, <1>7 DEF FeesAt, FeesOwed, SumFunction
<1>10. \A k \in 1..m : f[k] \in Int /\ f[k] = g[k]
  BY <1>1, <1>6, <1>7, <1>8 DEF FeesAt
<1>11. SumFunctionOnSet(f, 1..m) = SumFunctionOnSet(g, 1..m)
  BY <1>10, UpToIsFinite, SumSame
<1>12. CASE m = n
  BY <1>2, <1>3, <1>9, <1>11, <1>12
<1>13. CASE m < n
  <2>1. IsNew(fees'[n], Len(Schedule), day) /\ fees'[n] \in FeeRow
    BY <1>1, <1>7, <1>8, <1>13, SequenceElement DEF FeesAt
  <2>2. contract.status = "active"
    BY <2>1 DEF IsNew, PastDue
  <2>3. fee_outstanding(fees'[n]) > 0
    <3>1. PICK x \in FeeRow : x = fees'[n]
      BY <2>1
    <3>2. x.status = "assessed" /\ x.amount_paid = 0 /\ x.amount_written_off = 0
      BY <2>1, <3>1 DEF IsNew
    <3>3. fee_outstanding(x) = x.amount
      BY <3>2, FeeRowMeaning DEF fee_outstanding
    <3> QED BY <3>1, <3>3, FeeRowMeaning
  <2>4. g[n] > 0 /\ \A k \in 1..n : g[k] \in Nat
    BY <1>7, <1>13, <2>3 DEF FeesAt
  <2>5. PICK S : S = (m + 1)..n /\ S \in SUBSET (1..n) /\ n \in S
    BY <1>13
  <2>6. IsFiniteSet(S) /\ IsFiniteSet(1..m)
    BY <2>5, UpToIsFinite, FS_Subset
  <2>7. (1..m) \cap S = {} /\ (1..m) \cup S = 1..n
    BY <1>13, <2>5
  <2>8. SumFunctionOnSet(g, S) \in Nat /\ g[n] <= SumFunctionOnSet(g, S)
    BY <2>4, <2>5, <2>6, SumNat
  <2>9. \A k \in (1..m) \cup S : g[k] \in Int
    BY <2>4, <2>7
  <2>10. SumFunctionOnSet(g, 1..n) = SumFunctionOnSet(g, 1..m) + SumFunctionOnSet(g, S)
    BY <2>6, <2>7, <2>9, SumUnion
  <2>11. PICK v \in Nat, w \in Nat : v = g[n] /\ w = SumFunctionOnSet(g, S)
    BY <1>13, <2>4, <2>8
  <2>12. v > 0 /\ v <= w /\ d = c + w
    BY <1>9, <1>11, <2>4, <2>8, <2>10, <2>11
  <2>13. d > c
    BY <2>12
  <2> QED BY <1>2, <1>3, <2>2, <2>13
<1> QED BY <1>8, <1>12, <1>13

\* A waiver forgives what was left of the charge.
LEMMA WaiverForgives ==
  ASSUME Sound, Sound', NothingOff, NothingOff', OwedTold, OwedTold', NEW k, WaivedBy(k)
  PROVE  Total(Receivable') <= Total(Receivable)
<1>1. /\ inst \in [Installments -> InstRow] /\ inst' = inst
      /\ fees \in Seq(FeeRow) /\ fees' \in Seq(FeeRow) /\ DOMAIN fees' = DOMAIN fees
  BY DEF WaivedBy, Sound, Typed
<1>2. Total(Receivable') - FeesOwed' = Total(Receivable) - FeesOwed
  BY <1>1, OwedByFees DEF SameWorth, SamePaid
<1>3. PICK a \in Nat, b \in Nat, c \in Nat, d \in Nat :
        a = Total(Receivable) /\ b = Total(Receivable') /\ c = FeesOwed /\ d = FeesOwed'
  BY DEF OwedTold
<1>4. FeesBounded
  BY NothingOffInAll
<1>5. \A j \in DOMAIN fees' :
        fees'[j].amount_paid + fees'[j].amount_written_off <= fees'[j].amount
  BY <1>1, <1>4 DEF WaivedBy, FeesBounded
<1>6a. PICK m \in Nat : \E f : FeesAt(f, fees, m)
  BY <1>1, <1>4, FeesAtExists DEF FeesBounded
<1>6. PICK f : FeesAt(f, fees, m)
  BY <1>6a
<1>7a. PICK n \in Nat : \E g : FeesAt(g, fees', n)
  BY <1>1, <1>5, FeesAtExists
<1>7. PICK g : FeesAt(g, fees', n)
  BY <1>7a
<1>8. m = Len(fees) /\ n = Len(fees') /\ DOMAIN fees = 1..m /\ DOMAIN fees' = 1..n
  BY <1>1, <1>6, <1>7, SequenceIsFunction DEF FeesAt
<1>9. m = n
  BY <1>1, <1>8
<1>10. c = SumFunctionOnSet(f, 1..m) /\ d = SumFunctionOnSet(g, 1..m)
  BY <1>3, <1>6, <1>7, <1>9 DEF FeesAt, FeesOwed, SumFunction
<1>11. ASSUME NEW j \in 1..m PROVE g[j] \in Int /\ f[j] \in Int /\ g[j] <= f[j]
  <2>1. PICK x \in FeeRow, y \in FeeRow : x = fees[j] /\ y = fees'[j]
    BY <1>1, <1>8, SequenceElement
  <2>2. /\ y.amount = x.amount /\ y.amount_paid = x.amount_paid
        /\ y.amount_written_off = x.amount_written_off
        /\ y.status \in {x.status, "waived"}
    BY <1>8, <2>1 DEF WaivedBy
  <2>3. f[j] \in Nat /\ g[j] \in Nat
    BY <1>6, <1>7, <1>9 DEF FeesAt
  <2>4. f[j] = fee_outstanding(x) /\ g[j] = fee_outstanding(y)
    BY <1>6, <1>7, <1>8, <1>9, <2>1 DEF FeesAt
  <2>5. fee_outstanding(y) \in {fee_outstanding(x), 0}
    BY <2>2 DEF fee_outstanding
  <2> QED BY <2>3, <2>4, <2>5
<1>12. SumFunctionOnSet(g, 1..m) <= SumFunctionOnSet(f, 1..m)
  BY <1>11, UpToIsFinite, SumAtMost
<1> QED BY <1>2, <1>3, <1>10, <1>12

\* Settlement and return leave nothing owed.
LEMMA ClearingClears ==
  ASSUME Sound, OwedTold', NEW charged, NEW given, Cleared(charged, given)
  PROVE  Total(Receivable') = 0
<1>1. PICK Q \in [Installments -> AmountRow] : Q = Receivable'
  BY DEF OwedTold
<1>2. inst \in [Installments -> InstRow] /\ fees \in Seq(FeeRow) /\ CloseOutSchedule
  BY DEF Sound, Typed, Cleared
<1>3. CloseOutFees
  BY <1>2, CloseOutMeaning
<1>4. ASSUME NEW i \in Installments PROVE Q[i].profit = 0 /\ Q[i].principal = 0
  <2>1. PICK x \in InstRow, y \in InstRow : x = inst[i] /\ y = inst'[i]
    BY <1>2, CloseOutMeaning
  <2>2. /\ y.profit = x.profit /\ y.principal = x.principal
        /\ y.profit_paid = x.profit /\ y.principal_paid = x.principal
    BY <1>2, <2>1, CloseOutMeaning DEF SameWorth
  <2>3. /\ Q[i].profit = y.profit - y.profit_paid
        /\ Q[i].principal = y.principal - y.principal_paid
    BY <1>1, <2>1 DEF OwedTold
  <2> QED BY <2>2, <2>3, InstRowMeaning
<1>5. ASSUME NEW i \in Installments PROVE Q[i].late_fee = 0
  <2>1. CASE LiveOf(fees', i) = {}
    BY <1>1, <2>1 DEF OwedTold
  <2>2. ASSUME NEW k \in LiveOf(fees', i) PROVE Q[i].late_fee = 0
    <3>1. k \in DOMAIN fees' /\ NotWaived(fees'[k]) /\ fees'[k].installment = i
      BY DEF LiveOf, Live
    <3>2. PICK c \in FeeRow, d \in FeeRow : c = fees[k] /\ d = fees'[k]
      BY <1>2, <1>3, <3>1, CloseOutFeesMeaning, SequenceElement
    <3>3. d.amount_paid = c.amount /\ d.amount = c.amount
      BY <1>2, <1>3, <3>1, <3>2, CloseOutFeesMeaning DEF SameFee
    <3>4. Q[i].late_fee = d.amount - d.amount_paid
      BY <1>1, <3>1, <3>2 DEF OwedTold
    <3> QED BY <3>3, <3>4, FeeRowMeaning
  <2> QED BY <2>1, <2>2
<1>6. PICK t \in [Installments -> Nat] :
        /\ t = [i \in Installments |-> LineTotal(Q[i])]
        /\ Total(Q) = SumFunctionOnSet(t, Installments)
  BY TotalOfRows
<1>7. \A i \in Installments : t[i] = 0
  BY <1>4, <1>5, <1>6 DEF LineTotal
<1>8. SumFunctionOnSet(t, Installments) = 0
  BY <1>7, InstallmentsAreFinite, SumZero
<1> QED BY <1>1, <1>6, <1>8

\* No more profit is charged for than is owed.
LEMMA ChargedWithinOwed ==
  ASSUME Sound, NothingOff, OwedTold, NEW charged, NEW given, Cleared(charged, given)
  PROVE  charged <= Owed("profit")
<1>1. PICK R \in [Installments -> AmountRow] : R = Receivable
  BY DEF OwedTold
<1>2. /\ unearned \in Nat /\ unearned = SumFunctionOnSet(Unpaid, Installments)
      /\ charged \in Nat /\ given \in Nat /\ charged + given = unearned
  BY UnearnedIsNat DEF Cleared
<1>3. \A i \in Installments : R[i].profit = inst[i].profit - inst[i].profit_paid
  BY <1>1 DEF OwedTold
<1>4. Unpaid = Profits(R)
  BY <1>3 DEF Unpaid, UnpaidOf, Profits
<1>5. Column(R, "profit") = unearned
  BY <1>2, <1>4, ColumnsMeaning
<1> QED BY <1>1, <1>2, <1>5 DEF Owed

\* A payment of the gateway is of something, and nothing is paid before delivery.
GatewayMoney == \A n \in DOMAIN payments :
                  payments[n].source = "gateway" => payments[n].amount > 0
NothingBefore == contract.status = "created" => payments = <<>>

LEMMA CashNow ==
  Sound /\ CashCounted => CashEntries \in Nat /\ CashEntries = Received(payments)
<1> SUFFICES ASSUME Sound, CashCounted
             PROVE  CashEntries \in Nat /\ CashEntries = Received(payments)
  OBVIOUS
<1>1. payments \in Seq(PaymentRow) /\ CashEntries = Received(payments)
  BY DEF Sound, Typed, CashCounted
<1>2. PICK t \in [1..Len(payments) -> Nat] : t = AmountsOf(payments)
  <2>1. \A k \in 1..Len(payments) : payments[k].amount \in Nat
    BY <1>1, RowLines
  <2> QED BY <2>1 DEF AmountsOf
<1>3. Received(payments) \in Nat
  BY <1>1, <1>2, AppliedAtLeast DEF Received
<1> QED BY <1>1, <1>3

LEMMA CashNext ==
  Sound' /\ CashCounted' => CashEntries' \in Nat /\ CashEntries' = Received(payments')
<1>1. (Sound /\ CashCounted)' => (CashEntries \in Nat /\ CashEntries = Received(payments))'
  BY CashNow, PTL
<1> QED BY <1>1

LEMMA PaymentsKept ==
  ASSUME Sound, GatewayMoney, NothingBefore, ServicingStep
  PROVE  GatewayMoney' /\ NothingBefore'
<1>0. payments \in Seq(PaymentRow)
  BY DEF Sound, Typed
<1>1. CASE payments' = payments /\ (contract' = contract \/ contract'.status # "created")
  BY <1>1 DEF GatewayMoney, NothingBefore
<1>2. CASE Quiet \/ ConfirmDelivery \/ CancelContract \/ (\E day : ChargedBy(day))
           \/ (\E k : WaivedBy(k)) \/ (\E charged, given : ReturnedBy(charged, given))
  <2>1. CASE ConfirmDelivery
    <3>1. payments' = payments /\ contract'.status = "active"
      BY <2>1 DEF ConfirmDelivery, money, Sound, Typed, ContractTyped
    <3> QED BY <1>1, <3>1
  <2>2. CASE CancelContract
    BY <1>1, <2>2 DEF CancelContract
  <2>3. CASE Quiet \/ (\E day : ChargedBy(day)) \/ (\E k : WaivedBy(k))
    BY <1>1, <2>3 DEF Quiet, ChargedBy, WaivedBy, money
  <2>4. CASE \E charged, given : ReturnedBy(charged, given)
    BY <1>1, <2>4 DEF ReturnedBy
  <2> QED BY <1>2, <2>1, <2>2, <2>3, <2>4
<1>3. ASSUME NEW p, OneMore(payments, p, payments'),
             p.source = "gateway" => p.amount > 0, contract'.status # "created"
      PROVE  GatewayMoney' /\ NothingBefore'
  <2>1. PICK m \in Nat : m = Len(payments) /\ DOMAIN payments = 1..m
    BY <1>0, SequenceIsFunction
  <2>2. /\ DOMAIN payments' = 1..(m + 1)
        /\ payments'[m + 1] = p /\ \A k \in 1..m : payments'[k] = payments[k]
    BY <1>3, <2>1 DEF OneMore
  <2>3. ASSUME NEW k \in 1..(m + 1)
        PROVE  payments'[k].source = "gateway" => payments'[k].amount > 0
    <3>1. k \in 1..m \/ k = m + 1
      OBVIOUS
    <3> QED BY <1>3, <2>1, <2>2, <3>1 DEF GatewayMoney
  <2> QED BY <1>3, <2>2, <2>3 DEF GatewayMoney, NothingBefore
<1>4. ASSUME NEW plan, NEW p, NEW a \in Nat, PaidBy(plan, p, a)
      PROVE  GatewayMoney' /\ NothingBefore'
  BY <1>3, <1>4 DEF PaidBy
<1>5. ASSUME NEW charged, NEW given, NEW p, SettledBy(charged, given, p)
      PROVE  GatewayMoney' /\ NothingBefore'
  BY <1>3, <1>5 DEF SettledBy
<1>6. ASSUME NEW n, NEW lines, TakenBackBy(n, lines)
      PROVE  GatewayMoney' /\ NothingBefore'
  <2>1. PICK m \in Nat : m = Len(payments) /\ DOMAIN payments = 1..m
    BY <1>0, SequenceIsFunction
  <2>2. /\ n \in 1..m /\ contract' = contract
        /\ DOMAIN payments' = 1..(m + 1)
        /\ \A k \in 1..m : SameMoney(payments[k], payments'[k])
        /\ SameMoney(payments[n], payments'[m + 1])
    BY <1>6, <2>1 DEF TakenBackBy, TakenBack
  <2>3. ASSUME NEW k \in 1..(m + 1)
        PROVE  payments'[k].source = "gateway" => payments'[k].amount > 0
    <3>1. PICK j \in 1..m : SameMoney(payments[j], payments'[k])
      <4>1. k \in 1..m \/ k = m + 1
        OBVIOUS
      <4> QED BY <2>2, <4>1
    <3> QED BY <2>1, <3>1 DEF SameMoney, GatewayMoney
  <2>4. contract.status # "created"
    BY <2>1, <2>2 DEF NothingBefore
  <2> QED BY <2>2, <2>3, <2>4 DEF GatewayMoney, NothingBefore
<1> QED BY <1>2, <1>4, <1>5, <1>6 DEF ServicingStep

AccountInv == ServicingInv /\ GatewayMoney /\ NothingBefore

LEMMA AccountInvKept == AccountInv /\ [ServicingNext]_cvars => AccountInv'
<1> SUFFICES ASSUME AccountInv, [ServicingNext]_cvars PROVE AccountInv'
  OBVIOUS
<1>1. ServicingStep
  BY ServicingSteps DEF AccountInv, ServicingInv
<1> QED BY <1>1, ServicingInvKept, PaymentsKept DEF AccountInv, ServicingInv

\* Every step of a contract without write-offs is one of the account, or none.
LEMMA StepOfAccount ==
  ASSUME AccountInv, AccountInv', ServicingStep
  PROVE  [Account!Next]_<<contract.status, Total(Receivable), CashEntries>>
<1>1. /\ Sound /\ CashCounted /\ NothingOff /\ GatewayMoney /\ NothingBefore
      /\ Sound' /\ CashCounted' /\ NothingOff'
  BY DEF AccountInv, ServicingInv
<1>2. OwedTold /\ OwedTold'
  BY <1>1, OwedNow, OwedNext
<1>3. PICK o \in Nat, u \in Nat : o = Total(Receivable) /\ u = Total(Receivable)'
  BY <1>2 DEF OwedTold
<1>4. PICK c \in Nat, d \in Nat :
        /\ c = CashEntries /\ c = Received(payments)
        /\ d = CashEntries' /\ d = Received(payments')
  BY <1>1, CashNow, CashNext
<1>5. payments \in Seq(PaymentRow)
  BY <1>1 DEF Sound, Typed
<1> DEFINE Same == UNCHANGED <<contract.status, Total(Receivable), CashEntries>>
<1>6. CASE contract' = contract /\ money' = money
  <2>1. inst' = inst /\ fees' = fees /\ ledger' = ledger
    BY <1>6 DEF money
  <2>2. Receivable' = Receivable /\ CashEntries' = CashEntries
    BY <2>1 DEF Receivable, late_fee_outstanding, CashEntries
  <2> QED BY <1>6, <2>2
<1>7. CASE ConfirmDelivery
  <2>1. inst' = inst /\ fees' = fees /\ ledger' = ledger
    BY <1>7 DEF ConfirmDelivery, money
  <2>2. Receivable' = Receivable /\ CashEntries' = CashEntries
    BY <2>1 DEF Receivable, late_fee_outstanding, CashEntries
  <2>3. contract.status = "created" /\ contract'.status = "active"
    BY <1>1, <1>7 DEF ConfirmDelivery, Sound, Typed, ContractTyped
  <2> QED BY <2>2, <2>3 DEF Account!Next, Account!Deliver
<1>8. CASE CancelContract
  <2>1. inst' = inst /\ fees' = fees /\ ledger' = ledger
    BY <1>8 DEF CancelContract
  <2>2. Receivable' = Receivable /\ CashEntries' = CashEntries
    BY <2>1 DEF Receivable, late_fee_outstanding, CashEntries
  <2>3. contract.status = "created" /\ contract'.status = "closed"
    BY <1>8 DEF CancelContract
  <2> QED BY <2>2, <2>3 DEF Account!Next, Account!Cancel
<1>9. ASSUME NEW plan, NEW p, NEW a \in Nat, PaidBy(plan, p, a)
      PROVE  Account!Pay
  <2>1. u = o - a
    BY <1>1, <1>2, <1>3, <1>9, PaymentReduces
  <2>2. a > 0 /\ contract.status = "active" /\ p.amount = a
    BY <1>9 DEF PaidBy
  <2>3. d = c + a
    BY <1>4, <1>5, <1>9, <2>2, PaidMore DEF PaidBy, RowOf
  <2>4. contract'.status = "active" \/ (contract'.status = "closed" /\ u = 0)
    <3>1. contract' = contract
          \/ (contract' = [status |-> "closed", closure |-> "normal"] /\ Repaid')
      BY <1>9 DEF PaidBy
    <3>2. Repaid' => u = 0
      BY <1>2, <1>3 DEF Repaid, OwedTold
    <3> QED BY <2>2, <3>1, <3>2
  <2>5. u \in 0..(o - 1) /\ d = c + (o - u)
    BY <2>1, <2>2, <2>3
  <2> QED BY <1>3, <1>4, <2>2, <2>4, <2>5 DEF Account!Pay
<1>10. ASSUME NEW n, NEW lines, TakenBackBy(n, lines)
       PROVE  Account!TakeBack
  <2>1. PICK a \in Nat : a = payments[n].amount /\ a > 0 /\ a = Total(lines)
    <3>1. payments[n] \in PaymentRow
      BY <1>5, <1>10, SequenceElement DEF TakenBackBy
    <3>2. payments[n].amount \in Nat
      BY <3>1, PaymentRowMeaning
    <3> QED BY <1>1, <1>10, <3>2 DEF TakenBackBy, GatewayMoney
  <2>2. o <= u /\ u <= o + a
    BY <1>1, <1>2, <1>3, <1>10, <2>1, ReversalRestores
  <2>3. d = c - a
    BY <1>4, <1>5, <1>10, <2>1, PaidBack DEF TakenBackBy
  <2>4. contract' = contract /\ contract.status # "created"
    BY <1>1, <1>10 DEF TakenBackBy, NothingBefore
  <2>5. d \in 0..(c - 1) /\ u \in o..(o + (c - d))
    BY <2>1, <2>2, <2>3
  <2> QED BY <1>3, <1>4, <2>4, <2>5 DEF Account!TakeBack
<1>11. ASSUME payments' = payments
       PROVE  CashEntries' = CashEntries
  BY <1>4, <1>11
<1>12. ASSUME NEW day, ChargedBy(day)
       PROVE  Account!Charge \/ Same
  <2>1. contract' = contract /\ CashEntries' = CashEntries
    BY <1>11, <1>12 DEF ChargedBy
  <2>2. u = o \/ (u > o /\ contract.status = "active")
    BY <1>1, <1>2, <1>3, <1>12, ChargeAdds
  <2> QED BY <1>3, <2>1, <2>2 DEF Account!Charge
<1>13. ASSUME NEW k, WaivedBy(k)
       PROVE  Account!Forgive \/ Same
  <2>1. contract' = contract /\ CashEntries' = CashEntries
    BY <1>11, <1>13 DEF WaivedBy
  <2>2. u <= o
    BY <1>1, <1>2, <1>3, <1>13, WaiverForgives
  <2>3. u = o \/ u \in 0..(o - 1)
    BY <2>2
  <2> QED BY <1>3, <2>1, <2>3 DEF Account!Forgive
<1>14. ASSUME NEW charged, NEW given, NEW p, SettledBy(charged, given, p)
       PROVE  Account!SettleEarly
  <2>1. Cleared(charged, given) /\ charged \in Nat /\ contract.status = "active"
    BY <1>14 DEF SettledBy, Cleared
  <2>2. u = 0 /\ charged <= Owed("profit")
    BY <1>1, <1>2, <1>3, <2>1, ClearingClears, ChargedWithinOwed
  <2>3. PICK x \in Nat, y \in Nat, z \in Nat :
          x = Owed("principal") /\ y = Owed("profit") /\ z = Owed("late_fee") /\ o = x + y + z
    BY <1>2, <1>3 DEF OwedTold, Owed
  <2>4. p.amount = x + z + charged
    BY <1>14, <2>3 DEF SettledBy
  <2>5. d = c + p.amount
    BY <1>4, <1>5, <1>14, PaidMore DEF SettledBy, RowOf
  <2>6. d \in c..(c + o)
    BY <2>1, <2>2, <2>3, <2>4, <2>5
  <2>7. contract'.status = "closed"
    BY <1>14 DEF SettledBy
  <2> QED BY <1>3, <1>4, <2>1, <2>2, <2>6, <2>7 DEF Account!SettleEarly
<1>15. ASSUME NEW charged, NEW given, ReturnedBy(charged, given)
       PROVE  Account!Return
  <2>1. /\ Cleared(charged, given) /\ contract.status = "active"
        /\ contract'.status = "closed" /\ payments' = payments
    BY <1>15 DEF ReturnedBy, Cleared
  <2>2. u = 0
    BY <1>1, <1>2, <1>3, <2>1, ClearingClears
  <2>3. CashEntries' = CashEntries
    BY <1>11, <2>1
  <2> QED BY <1>3, <2>1, <2>2, <2>3 DEF Account!Return
<1>16. CASE Quiet
  BY <1>6, <1>16 DEF Quiet
<1> QED BY <1>7, <1>8, <1>9, <1>10, <1>12, <1>13, <1>14, <1>15, <1>16
        DEF ServicingStep, Account!Next

LEMMA AccountAtFirst == Init => Account!Init /\ AccountInv
<1> SUFFICES ASSUME Init PROVE Account!Init /\ AccountInv
  OBVIOUS
<1>1. ServicingInv
  BY ServicingInvAtFirst
<1>2. contract.status = "created" /\ payments = <<>> /\ ledger = [t \in EntryTypes |-> 0]
  BY DEF Init
<1>3. Total(Receivable) \in Nat
  BY <1>1, OwedNow DEF ServicingInv, OwedTold
<1>4. CashEntries = 0
  BY <1>2 DEF CashEntries, EntryTypes
<1>5. GatewayMoney /\ NothingBefore
  BY <1>2 DEF GatewayMoney, NothingBefore
<1> QED BY <1>1, <1>2, <1>3, <1>4, <1>5 DEF AccountInv, Account!Init

\* A contract without write-offs is an account: every step of it is a step of
\* ContractAccount on its status, on what it owes and on the cash in its ledger,
\* or none.
THEOREM AccountCorrect == ServicingSpec => KeepsAccount
<1>1. Init => Account!Init /\ AccountInv
  BY AccountAtFirst
<1>2. AccountInv /\ [ServicingNext]_cvars => AccountInv'
  BY AccountInvKept
<1>3. AccountInv /\ AccountInv' /\ [ServicingNext]_cvars
        => [Account!Next]_<<contract.status, Total(Receivable), CashEntries>>
  <2> SUFFICES ASSUME AccountInv, AccountInv', [ServicingNext]_cvars
               PROVE  [Account!Next]_<<contract.status, Total(Receivable), CashEntries>>
    OBVIOUS
  <2>1. ServicingStep
    BY ServicingSteps DEF AccountInv, ServicingInv
  <2> QED BY <2>1, StepOfAccount
<1> QED BY <1>1, <1>2, <1>3, PTL DEF ServicingSpec, KeepsAccount, Account!Spec
-------------------------------------------------------------------------------
\* The promise to pay, and the money that has come since it was made.

\* The amounts received after a row, of which some may be taken back.
Since(rows, since) == [n \in 1..Len(rows) |-> IF n > since THEN rows[n].amount ELSE 0]

LEMMA SinceMeaning ==
  ASSUME NEW rows \in Seq(PaymentRow), NEW since
  PROVE  /\ Since(rows, since) \in [1..Len(rows) -> Nat]
         /\ ReceivedSince(rows, since) = Applied(rows, Since(rows, since))
         /\ PaidSince(rows, since) = SumFunction(Since(rows, since))
<1>1. Len(rows) \in Nat /\ DOMAIN rows = 1..Len(rows)
      /\ \A n \in 1..Len(rows) : rows[n].amount \in Nat
  BY RowLines
<1>2. Since(rows, since) \in [1..Len(rows) -> Nat]
  BY <1>1 DEF Since
<1>3. [n \in DOMAIN rows |-> IF n > since /\ rows[n].status = "applied"
                             THEN rows[n].amount ELSE 0]
        = [n \in DOMAIN rows |-> IfApplied(rows[n], Since(rows, since)[n])]
  <2> SUFFICES ASSUME NEW n \in 1..Len(rows)
               PROVE  (IF n > since /\ rows[n].status = "applied" THEN rows[n].amount ELSE 0)
                        = IfApplied(rows[n], Since(rows, since)[n])
    BY <1>1
  <2>1. Since(rows, since)[n] = IF n > since THEN rows[n].amount ELSE 0
    BY DEF Since
  <2> QED BY <2>1 DEF IfApplied
<1>4. [n \in DOMAIN rows |-> IF n > since THEN rows[n].amount ELSE 0] = Since(rows, since)
  BY <1>1 DEF Since
<1> QED BY <1>2, <1>3, <1>4 DEF ReceivedSince, PaidSince, Applied

\* What was received and not taken back is part of what _paid_since counts.
LEMMA ReceivedWithinPaid ==
  ASSUME NEW rows \in Seq(PaymentRow), NEW since
  PROVE  /\ ReceivedSince(rows, since) \in Nat /\ PaidSince(rows, since) \in Nat
         /\ ReceivedSince(rows, since) <= PaidSince(rows, since)
<1>1. PICK m \in Nat : m = Len(rows) /\ DOMAIN rows = 1..m
  BY SequenceIsFunction
<1>2. PICK g \in [1..m -> Nat] : g = Since(rows, since)
  BY <1>1, SinceMeaning
<1>3. PICK f \in [1..m -> Nat] : f = [n \in DOMAIN rows |-> IfApplied(rows[n], g[n])]
  BY <1>1 DEF IfApplied
<1>4. \A n \in 1..m : f[n] \in Int /\ g[n] \in Int /\ f[n] <= g[n]
  BY <1>1, <1>3 DEF IfApplied
<1>5. /\ SumFunctionOnSet(f, 1..m) \in Nat /\ SumFunctionOnSet(g, 1..m) \in Nat
      /\ SumFunctionOnSet(f, 1..m) <= SumFunctionOnSet(g, 1..m)
  BY <1>4, UpToIsFinite, SumNat, SumAtMost
<1>6. /\ ReceivedSince(rows, since) = SumFunctionOnSet(f, 1..m)
      /\ PaidSince(rows, since) = SumFunctionOnSet(g, 1..m)
  <2>1. ReceivedSince(rows, since) = SumFunction(f) /\ PaidSince(rows, since) = SumFunction(g)
    BY <1>2, <1>3, SinceMeaning DEF Applied
  <2> QED BY <1>1, <2>1 DEF SumFunction
<1> QED BY <1>5, <1>6

LEMMA NothingSinceTheLast ==
  ASSUME NEW rows \in Seq(PaymentRow)
  PROVE  ReceivedSince(rows, Len(rows)) = 0
<1>1. PICK m \in Nat : m = Len(rows) /\ DOMAIN rows = 1..m
  BY SequenceIsFunction
<1>2. PICK f : f = [n \in DOMAIN rows |-> IF n > m /\ rows[n].status = "applied"
                                          THEN rows[n].amount ELSE 0]
  OBVIOUS
<1>3. \A n \in 1..m : f[n] = 0
  BY <1>1, <1>2
<1>4. SumFunctionOnSet(f, 1..m) = 0
  BY <1>3, UpToIsFinite, SumZero
<1> QED BY <1>1, <1>2, <1>4 DEF ReceivedSince, SumFunction

\* Taking a payment back leaves no more received than there was.
LEMMA ReceivedLess ==
  ASSUME NEW rows \in Seq(PaymentRow), NEW n \in DOMAIN rows, rows[n].status = "applied",
         NEW later, TakenBack(rows, n, later), NEW since
  PROVE  ReceivedSince(later, since) <= ReceivedSince(rows, since)
<1>1. PICK m \in Nat : m = Len(rows) /\ DOMAIN rows = 1..m
  BY SequenceIsFunction
<1>2. /\ later \in Seq(PaymentRow) /\ DOMAIN later = 1..(m + 1)
      /\ \A k \in 1..m : later[k].amount = rows[k].amount
  BY <1>1 DEF TakenBack, SameMoney
<1>3. Len(later) = m + 1
  BY <1>2, SequenceIsFunction
<1>4. PICK t, u : t = Since(rows, since) /\ u = Since(later, since)
  OBVIOUS
<1>5. t \in [1..m -> Nat] /\ u \in [1..(m + 1) -> Nat]
  BY <1>1, <1>2, <1>3, <1>4, SinceMeaning
<1>6. \A k \in 1..m : u[k] = t[k]
  BY <1>1, <1>2, <1>3, <1>4 DEF Since
<1>7. Continues(rows, t, u)
  BY <1>1, <1>5, <1>6 DEF Continues
<1>8. Applied(later, u) = Applied(rows, t) - t[n]
  BY <1>7, AppliedLess
<1>9. Applied(rows, t) \in Nat /\ t[n] \in Nat
  <2>1. n \in 1..m /\ t \in [1..Len(rows) -> Nat]
    BY <1>1, <1>5
  <2> QED BY <1>5, <2>1, AppliedAtLeast
<1> QED BY <1>2, <1>4, <1>8, <1>9, SinceMeaning

PromiseTyped == promise \in [status: {"none", "pending", "kept", "broken"},
                             amount: Nat, date: Nat, since: Nat]
PromiseInv ==
  /\ PromiseTyped
  /\ promise.status = "pending" /\ contract.closure # "early_settlement" => Short

LEMMA ClosedStays ==
  ASSUME [WriteOffNext]_wvars, contract.status = "closed"
  PROVE  contract' = contract
<1>1. CASE UNCHANGED wvars
  BY <1>1 DEF wvars, cvars
<1>2. CASE WriteOffNext
  BY <1>2 DEF WriteOffNext, ServicingNext, ConfirmDelivery, CancelContract,
     RecordPayment, ReverseSettledPayment, AssessOverdue, RequestWaiver, ApproveWaiver,
     RejectWaiver, LogPromise, SetPromiseStatus, Settle, ApproveRebate, SettleContract,
     Quotable, RequestRebate, RejectRebate, ReturnContract, RequestWriteOff,
     DecideWriteOff, CancelWriteOff, ExecuteWriteOff, Executable, RecordRecovery, cvars
<1> QED BY <1>1, <1>2

\* A contract that is not settled now was not settled before.
LEMMA NotSettledBefore ==
  ASSUME Sound, [WriteOffNext]_wvars, contract'.closure # "early_settlement"
  PROVE  contract.closure # "early_settlement"
<1>1. contract.closure = "early_settlement" => contract.status = "closed"
  BY DEF Sound, Typed, ContractTyped
<1> QED BY <1>1, ClosedStays

\* A payment that leaves the promise pending has not covered it.
LEMMA PromiseThroughPayment ==
  ASSUME PromiseInv, payments' \in Seq(PaymentRow), KeepPromise
  PROVE  PromiseTyped' /\ (promise'.status = "pending" => Short')
<1>1. CASE promise.status = "pending" /\ PaidSince(payments', promise.since) >= promise.amount
  <2>1. promise' = [promise EXCEPT !.status = "kept"]
    BY <1>1 DEF KeepPromise
  <2> QED BY <1>1, <2>1 DEF PromiseInv, PromiseTyped
<1>2. CASE ~(promise.status = "pending" /\ PaidSince(payments', promise.since) >= promise.amount)
  <2>1. promise' = promise
    BY <1>2 DEF KeepPromise
  <2>2. PICK a \in Nat, x \in Nat, y \in Nat :
          /\ a = promise.amount /\ x = ReceivedSince(payments', promise.since)
          /\ y = PaidSince(payments', promise.since) /\ x <= y
    BY ReceivedWithinPaid DEF PromiseInv, PromiseTyped
  <2>3. promise.status = "pending" => x < a
    BY <1>2, <2>2
  <2> QED BY <2>1, <2>2, <2>3 DEF PromiseInv, PromiseTyped, Short
<1> QED BY <1>1, <1>2

\* What the overdue job breaks is short; what it leaves pending is as it was.
LEMMA PromiseThroughOverdueJob ==
  ASSUME PromiseInv, payments \in Seq(PaymentRow), NEW day, AssessOverdue(day)
  PROVE  /\ PromiseInv'
         /\ promise.status = "pending" /\ promise'.status = "broken" => Short
<1>1. payments' = payments /\ contract' = contract
  BY DEF AssessOverdue
<1>2. BreakPromise(day)
  BY DEF AssessOverdue
<1>3. CASE promise' = promise
  BY <1>1, <1>3 DEF PromiseInv, PromiseTyped, Short
<1>4. CASE promise' # promise
  <2>1. /\ promise.status = "pending" /\ promise' = [promise EXCEPT !.status = "broken"]
        /\ PaidSince(payments, promise.since) < promise.amount
    BY <1>2, <1>4 DEF BreakPromise
  <2>2. PICK a \in Nat, x \in Nat, y \in Nat :
          /\ a = promise.amount /\ x = ReceivedSince(payments, promise.since)
          /\ y = PaidSince(payments, promise.since) /\ x <= y
    BY ReceivedWithinPaid DEF PromiseInv, PromiseTyped
  <2>3. Short
    BY <2>1, <2>2 DEF Short
  <2>4. PromiseTyped' /\ promise'.status = "broken"
    BY <2>1 DEF PromiseInv, PromiseTyped
  <2> QED BY <2>3, <2>4 DEF PromiseInv, PromiseTyped
<1> QED BY <1>3, <1>4

\* The other steps of servicing: a promise is made of money to come, staff judge
\* it, or neither it nor the payments change; a settlement makes the contract one
\* whose promise nobody looks at.
LEMMA PromiseThroughServicing ==
  ASSUME "pending" \notin StaffVerdicts,
         Sound, Sound', PromiseInv, ServicingNext, [WriteOffNext]_wvars
  PROVE  PromiseInv'
<1>0. payments \in Seq(PaymentRow) /\ payments' \in Seq(PaymentRow)
  BY DEF Sound, Typed
<1>1. ASSUME promise' = promise, payments' = payments
      PROVE  PromiseInv'
  BY <1>1, NotSettledBefore DEF PromiseInv, PromiseTyped, Short
<1>2. CASE \/ \E a \in Amounts : \E r \in StaffReferences : RecordPayment("staff", r, a)
           \/ \E a \in Amounts : \E r \in GatewayReferences : RecordPayment("gateway", r, a)
  <2>1. KeepPromise
    BY <1>2 DEF RecordPayment
  <2> QED BY <1>0, <2>1, PromiseThroughPayment DEF PromiseInv
<1>3. ASSUME NEW n \in DOMAIN payments, ReverseSettledPayment(n)
      PROVE  PromiseInv'
  <2>1. /\ payments[n].status = "applied" /\ TakenBack(payments, n, payments')
        /\ contract' = contract
    BY <1>3, ReversalEffect DEF TakenBackBy
  <2>2. promise' = promise
    BY <1>3 DEF ReverseSettledPayment
  <2>3. PICK a \in Nat, x \in Nat, y \in Nat :
          /\ a = promise.amount /\ x = ReceivedSince(payments, promise.since)
          /\ y = ReceivedSince(payments', promise.since) /\ y <= x
    BY <1>0, <2>1, ReceivedLess, ReceivedWithinPaid DEF PromiseInv, PromiseTyped
  <2>4. Short => Short'
    BY <2>2, <2>3 DEF Short
  <2> QED BY <2>1, <2>2, <2>4 DEF PromiseInv, PromiseTyped
<1>4. CASE \E day \in Days : AssessOverdue(day)
  BY <1>0, <1>4, PromiseThroughOverdueJob
<1>5. ASSUME NEW a \in PromiseAmounts, NEW day \in Days, LogPromise(a, day)
      PROVE  PromiseInv'
  <2>1. /\ promise' = [status |-> "pending", amount |-> a, date |-> day,
                       since |-> Len(payments)]
        /\ payments' = payments
    BY <1>5 DEF LogPromise, money
  <2>2. a \in Nat /\ a > 0 /\ day \in Nat /\ Len(payments) \in Nat
    BY <1>0, ServicingAssumption, RowLines
  <2>3. PromiseTyped'
    BY <2>1, <2>2 DEF PromiseTyped
  <2>4. Short'
    BY <1>0, <2>1, <2>2, NothingSinceTheLast DEF Short
  <2> QED BY <2>3, <2>4 DEF PromiseInv
<1>6. ASSUME NEW verdict \in StaffVerdicts, SetPromiseStatus(verdict)
      PROVE  PromiseInv'
  <2>1. promise' = [promise EXCEPT !.status = verdict] /\ verdict \in {"kept", "broken"}
    BY <1>6, ServicingAssumption DEF SetPromiseStatus
  <2>2. PromiseTyped' /\ promise'.status # "pending"
    BY <2>1 DEF PromiseInv, PromiseTyped
  <2> QED BY <2>2 DEF PromiseInv
<1>7. CASE \E r \in SettleReferences : Settle(r) \/ ApproveRebate(r)
  <2>1. contract'.closure = "early_settlement" /\ promise' = promise
    BY <1>7 DEF Settle, ApproveRebate, SettleContract
  <2> QED BY <2>1 DEF PromiseInv, PromiseTyped
<1>8. CASE \/ ConfirmDelivery \/ CancelContract \/ ReturnContract \/ RejectRebate
           \/ \E k \in DOMAIN fees : RequestWaiver(k) \/ ApproveWaiver(k) \/ RejectWaiver(k)
           \/ \E ask \in RebateAsks : RequestRebate(ask)
  <2>1. promise' = promise /\ payments' = payments
    BY <1>8 DEF ConfirmDelivery, CancelContract, ReturnContract, RejectRebate, RequestWaiver,
       ApproveWaiver, RejectWaiver, RequestRebate, money
  <2> QED BY <1>1, <2>1
<1> QED BY <1>2, <1>3, <1>4, <1>5, <1>6, <1>7, <1>8 DEF ServicingNext

LEMMA PromiseInvKept ==
  ASSUME "pending" \notin StaffVerdicts, Sound, Sound', PromiseInv, [WriteOffNext]_wvars
  PROVE  PromiseInv'
<1>1. CASE ServicingNext
  BY <1>1, PromiseThroughServicing
<1>2. CASE ~ServicingNext
  <2>1. promise' = promise /\ payments' = payments
    BY <1>2 DEF WriteOffNext, RequestWriteOff, DecideWriteOff, CancelWriteOff,
       ExecuteWriteOff, RecordRecovery, wvars, cvars, money
  <2> QED BY <2>1, NotSettledBefore DEF PromiseInv, PromiseTyped, Short
<1> QED BY <1>1, <1>2

\* For any payments, reversals, charges, closures and dates, as long as staff set
\* no promise back to pending: a pending promise is short of the money received
\* since it was made, unless the contract is settled, and the job breaks none that
\* is not (evaluate_promises_after_payment, evaluate_overdue_promises).
THEOREM PursuitCorrect ==
  ASSUME "pending" \notin StaffVerdicts
  PROVE  WriteOffSpec => PaidPromiseIsNotPursued
<1> DEFINE Pursued ==
      /\ promise'.status = "pending" /\ contract'.closure # "early_settlement" => Short'
      /\ promise.status = "pending" /\ promise'.status = "broken"
           /\ (\E day \in Days : AssessOverdue(day)) => Short
<1>1. WriteOffInit => PromiseInv
  BY DEF WriteOffInit, Init, NoPromise, PromiseInv, PromiseTyped
<1>2. WriteOffInv /\ WriteOffInv' /\ PromiseInv /\ [WriteOffNext]_wvars => PromiseInv'
  BY PromiseInvKept DEF WriteOffInv
<1>3. WriteOffInv /\ PromiseInv /\ PromiseInv' /\ [WriteOffNext]_wvars => [Pursued]_cvars
  <2> SUFFICES ASSUME WriteOffInv, PromiseInv, PromiseInv', [WriteOffNext]_wvars
               PROVE  Pursued
    OBVIOUS
  <2>1. payments \in Seq(PaymentRow)
    BY DEF WriteOffInv, Sound, Typed
  <2>2. ASSUME promise.status = "pending", promise'.status = "broken",
               NEW day \in Days, AssessOverdue(day)
        PROVE  Short
    BY <2>1, <2>2, PromiseThroughOverdueJob
  <2> QED BY <2>2 DEF PromiseInv
<1> QED BY <1>1, <1>2, <1>3, WriteOffInvAlways, PTL
        DEF WriteOffSpec, PaidPromiseIsNotPursued
===============================================================================

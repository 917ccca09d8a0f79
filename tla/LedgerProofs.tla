------------------------------ MODULE LedgerProofs -----------------------------
(* What the journals of all handlers leave in the accounts of the general      *)
(* ledger, and that it agrees with the rows of the contract, for any life of   *)
(* the contract and any amounts.                                               *)
EXTENDS ServicingProofs, GeneralLedger

-------------------------------------------------------------------------------
\* A handler that also makes its journals does to the contract and the write-offs
\* what it does without them.
LEMMA BookedStep == BooksNext => WriteOffNext
<1>1. ASSUME BookedServicing PROVE WriteOffNext
  BY <1>1 DEF BookedServicing, WriteOffNext, ServicingNext
<1>2. ASSUME Unbooked PROVE WriteOffNext
  BY <1>2 DEF Unbooked, WriteOffNext, ServicingNext
<1>3. ASSUME BookedWriteOff PROVE WriteOffNext
  BY <1>3 DEF BookedWriteOff, WriteOffNext
<1> QED BY <1>1, <1>2, <1>3 DEF BooksNext

\* The specification with journals (emit in every handler) implements the one
\* without, so that what is proved of the contract and its write-offs holds
\* whatever is booked.
THEOREM BooksImplement == BooksSpec => WriteOffSpec
<1>1. BooksInit => WriteOffInit
  BY DEF BooksInit
<1>2. [BooksNext]_gvars => [WriteOffNext]_wvars
  BY BookedStep DEF gvars, wvars
<1> QED BY <1>1, <1>2, PTL DEF BooksSpec, WriteOffSpec

-------------------------------------------------------------------------------
\* The accounts.

Books == [Accounts -> Int]
Plus(b, v) == [a \in Accounts |-> b[a] + v[a]]
ColumnOf(moved, a) == [j \in DOMAIN moved |-> moved[j][a]]

\* What is on the accounts when the first k have been added.
Sums(first, moved, k) ==
  [a \in Accounts |-> first[a] + SumFunctionOnSet(ColumnOf(moved, a), 1..k)]

\* The sums when one more has been added.
LEMMA SumsNext ==
  ASSUME NEW n \in Nat, NEW first \in Books, NEW moved \in [1..n -> Books], NEW k \in Nat
  PROVE  /\ Sums(first, moved, 0) = first
         /\ k <= n => Sums(first, moved, k) \in Books
         /\ k < n => Sums(first, moved, k + 1) = Plus(Sums(first, moved, k), moved[k + 1])
<1>1. ASSUME NEW a \in Accounts
      PROVE  /\ first[a] \in Int /\ SumFunctionOnSet(ColumnOf(moved, a), 1..0) = 0
             /\ k <= n => SumFunctionOnSet(ColumnOf(moved, a), 1..k) \in Int
             /\ k < n => SumFunctionOnSet(ColumnOf(moved, a), 1..(k + 1))
                           = SumFunctionOnSet(ColumnOf(moved, a), 1..k) + moved[k + 1][a]
  <2>1. PICK f : f = ColumnOf(moved, a)
    OBVIOUS
  <2>2. \A j \in 1..n : f[j] = moved[j][a] /\ f[j] \in Int
    BY <2>1 DEF ColumnOf, Books
  <2>3. SumFunctionOnSet(f, 1..0) = 0
    BY UpToNone, SumEmpty
  <2>4. k <= n => SumFunctionOnSet(f, 1..k) \in Int
    <3> SUFFICES ASSUME k <= n PROVE SumFunctionOnSet(f, 1..k) \in Int
      OBVIOUS
    <3>1. IsFiniteSet(1..k) /\ \A j \in 1..k : f[j] \in Int
      BY <2>2, UpToIsFinite
    <3> QED BY <3>1, SumInt
  <2>5. k < n => SumFunctionOnSet(f, 1..(k + 1)) = SumFunctionOnSet(f, 1..k) + f[k + 1]
    <3> SUFFICES ASSUME k < n
                 PROVE  SumFunctionOnSet(f, 1..(k + 1)) = SumFunctionOnSet(f, 1..k) + f[k + 1]
      OBVIOUS
    <3>1. \A j \in 1..(k + 1) : f[j] \in Int
      BY <2>2
    <3> QED BY <3>1, SumNext
  <2>6. k < n => f[k + 1] = moved[k + 1][a]
    BY <2>2
  <2>7. first[a] \in Int
    BY DEF Books
  <2> QED BY <2>1, <2>3, <2>4, <2>5, <2>6, <2>7
<1>2. Sums(first, moved, 0) = first
  <2>1. \A a \in Accounts : Sums(first, moved, 0)[a] = first[a]
    BY <1>1 DEF Sums
  <2> QED BY <2>1 DEF Sums, Books
<1>3. k <= n => Sums(first, moved, k) \in Books
  BY <1>1 DEF Sums, Books
<1>4. ASSUME k < n
      PROVE  Sums(first, moved, k + 1) = Plus(Sums(first, moved, k), moved[k + 1])
  <2>1. ASSUME NEW a \in Accounts
        PROVE  Sums(first, moved, k + 1)[a] = Sums(first, moved, k)[a] + moved[k + 1][a]
    <3>1. moved[k + 1] \in Books
      BY <1>4
    <3>2. moved[k + 1][a] \in Int
      BY <3>1 DEF Books
    <3>3. /\ first[a] \in Int /\ SumFunctionOnSet(ColumnOf(moved, a), 1..k) \in Int
          /\ SumFunctionOnSet(ColumnOf(moved, a), 1..(k + 1))
               = SumFunctionOnSet(ColumnOf(moved, a), 1..k) + moved[k + 1][a]
      BY <1>1, <1>4
    <3> QED BY <3>2, <3>3 DEF Sums
  <2> QED BY <2>1 DEF Sums, Plus
<1> QED BY <1>2, <1>3, <1>4

\* A loop that adds what moved says, step by step, comes to the sums.
IsLoop(after, first, moved, n) ==
  /\ after[0] = first
  /\ \A k \in 1..n : after[k - 1] \in Books => after[k] = Plus(after[k - 1], moved[k])

\* Such a loop ends with the sums.
LEMMA LoopSums ==
  ASSUME NEW n \in Nat, NEW first \in Books, NEW moved \in [1..n -> Books],
         NEW after, IsLoop(after, first, moved, n)
  PROVE  after[n] = Sums(first, moved, n) /\ after[n] \in Books
<1> DEFINE T == {k \in Nat : k <= n => after[k] = Sums(first, moved, k)}
<1>1. 0 \in T
  BY SumsNext DEF IsLoop
<1>2. ASSUME NEW k \in Nat, k \in T PROVE k + 1 \in T
  <2> SUFFICES ASSUME k + 1 <= n PROVE after[k + 1] = Sums(first, moved, k + 1)
    OBVIOUS
  <2>1. k + 1 \in 1..n /\ (k + 1) - 1 = k
    OBVIOUS
  <2>2. after[k] = Sums(first, moved, k) /\ after[k] \in Books
    BY <1>2, SumsNext
  <2>3. after[k + 1] = Plus(after[k], moved[k + 1])
    BY <2>1, <2>2 DEF IsLoop
  <2>4. k < n => Sums(first, moved, k + 1) = Plus(Sums(first, moved, k), moved[k + 1])
    BY SumsNext
  <2> QED BY <2>2, <2>3, <2>4
<1>3. Nat \subseteq T
  <2> HIDE DEF T
  <2> QED BY <1>1, <1>2, NatSetInduction
<1>4. n \in T
  BY <1>3
<1> QED BY <1>4, SumsNext

\* The sums are what such a loop goes through.
LEMMA LoopOfSums ==
  ASSUME NEW n \in Nat, NEW first \in Books, NEW moved \in [1..n -> Books],
         NEW sums, \A k \in 0..n : sums[k] = Sums(first, moved, k)
  PROVE  /\ IsLoop(sums, first, moved, n)
         /\ \A k \in 1..n : sums[k - 1] \in Books /\ sums[k] = Plus(sums[k - 1], moved[k])
<1>1. ASSUME NEW k \in 1..n
      PROVE  sums[k - 1] \in Books /\ sums[k] = Plus(sums[k - 1], moved[k])
  <2>1. PICK j \in Nat : j = k - 1 /\ j + 1 = k /\ j < n /\ j <= n
    OBVIOUS
  <2>2. Sums(first, moved, j) \in Books
        /\ Sums(first, moved, j + 1) = Plus(Sums(first, moved, j), moved[j + 1])
    BY <2>1, SumsNext
  <2>3. sums[j] = Sums(first, moved, j) /\ sums[j + 1] = Sums(first, moved, j + 1)
    BY <2>1
  <2> QED BY <2>1, <2>2, <2>3
<1>2. sums[0] = first
  BY SumsNext
<1> QED BY <1>1, <1>2 DEF IsLoop

\* An event whose journal adds shift to the accounts, whatever is on them.
Shifts(event, shift) ==
  shift \in Books /\ \A b \in Books : Journalise(b, event) = Plus(b, shift)

\* Book adds up what the journals of its events add.
LEMMA BookAdds ==
  ASSUME books \in Books, NEW n \in Nat, NEW events, Len(events) = n,
         NEW moved, DOMAIN moved = 1..n, moved = [k \in 1..n |-> moved[k]],
         \A k \in 1..n : Shifts(events[k], moved[k]),
         Book(events)
  PROVE  books' = Sums(books, moved, n) /\ books' \in Books
<1>1. moved \in [1..n -> Books]
  BY DEF Shifts
<1>2. PICK sums : sums = [k \in 0..n |-> Sums(books, moved, k)]
  OBVIOUS
<1>3. /\ sums[0] = books
      /\ \A k \in 1..n : sums[k - 1] \in Books /\ sums[k] = Plus(sums[k - 1], moved[k])
  <2>1. IsLoop(sums, books, moved, n)
        /\ \A k \in 1..n : sums[k - 1] \in Books /\ sums[k] = Plus(sums[k - 1], moved[k])
    <3>1. \A k \in 0..n : sums[k] = Sums(books, moved, k)
      BY <1>2
    <3> QED BY <1>1, <3>1, LoopOfSums
  <2> QED BY <2>1 DEF IsLoop
<1>4. ASSUME NEW k \in 1..n PROVE sums[k] = Journalise(sums[k - 1], events[k])
  BY <1>3, <1>4 DEF Shifts
<1>5. \E after : after = [k \in 0..Len(events) |->
                         IF k = 0 THEN books ELSE Journalise(after[k - 1], events[k])]
  <2>1. \A k \in 0..n : sums[k] = IF k = 0 THEN books ELSE Journalise(sums[k - 1], events[k])
    BY <1>3, <1>4
  <2>2. sums = [k \in 0..n |-> sums[k]]
    BY <1>2
  <2>3. sums = [k \in 0..n |-> IF k = 0 THEN books ELSE Journalise(sums[k - 1], events[k])]
    BY <2>1, <2>2, Zenon
  <2> QED BY <2>3
<1>6. \E after : /\ after = [k \in 0..Len(events) |->
                             IF k = 0 THEN books ELSE Journalise(after[k - 1], events[k])]
                /\ books' = after[Len(events)]
  BY <1>5 DEF Book
<1>7. PICK after : /\ after = [k \in 0..n |->
                             IF k = 0 THEN books ELSE Journalise(after[k - 1], events[k])]
                   /\ books' = after[n]
  BY <1>6
<1>8. after[0] = books /\ \A k \in 1..n : after[k] = Journalise(after[k - 1], events[k])
  BY <1>7
<1>9. IsLoop(after, books, moved, n)
  BY <1>8 DEF IsLoop, Shifts
<1> QED BY <1>1, <1>7, <1>9, LoopSums

-------------------------------------------------------------------------------
\* What the journal of an event adds to an account.

SignedAmount(line) == IF line.side = "DEBIT" THEN line.amount ELSE -line.amount
BalanceTerms(lines, a) ==
  [n \in DOMAIN lines |-> IF lines[n].account = a THEN SignedAmount(lines[n]) ELSE 0]
Balance(lines, a) == SumFunction(BalanceTerms(lines, a))

\* What line n of a rule adds to one side, and to an account.
SideTerm(row, amounts, side) == IF row.side = side THEN amounts[row.source] ELSE 0
Term(row, amounts, a) ==
  IF row.account # a THEN 0
  ELSE IF row.side = "DEBIT" THEN amounts[row.source] ELSE -amounts[row.source]

Readable(row, amounts) == /\ row.side \in Sides /\ row.source \in DOMAIN amounts
                          /\ amounts[row.source] \in Nat

\* A journal without lines adds nothing.
LEMMA NoLinesNoBalance ==
  ASSUME NEW lines, DOMAIN lines = {}, NEW a
  PROVE  Balance(lines, a) = 0
<1> DEFINE g == [n \in DOMAIN lines |->
                   IF lines[n].account = a THEN SignedAmount(lines[n]) ELSE 0]
<1>1. DOMAIN g = {}
  OBVIOUS
<1>2. Balance(lines, a) = SumFunctionOnSet(g, DOMAIN g)
  BY DEF Balance, BalanceTerms, SumFunction
<1> HIDE DEF g
<1> QED BY <1>1, <1>2, SumEmpty

\* The total of a side is the sum of its lines, the other side counted as zero.
LEMMA SideTotalMeans ==
  ASSUME NEW lines, IsFiniteSet(DOMAIN lines), NEW side, NEW d,
         \A n \in DOMAIN lines :
           d[n] \in Int /\ d[n] = IF lines[n].side = side THEN lines[n].amount ELSE 0
  PROVE  SideTotal(lines, side) = SumFunctionOnSet(d, DOMAIN lines)
<1>1. PICK S \in SUBSET (DOMAIN lines) : S = {n \in DOMAIN lines : lines[n].side = side}
  OBVIOUS
<1>2. PICK g : g = [n \in DOMAIN lines |-> lines[n].amount]
  OBVIOUS
<1>3. SideTotal(lines, side) = SumFunctionOnSet(g, S)
  BY <1>1, <1>2 DEF SideTotal
<1>4. IsFiniteSet(S) /\ \A n \in S : d[n] \in Int /\ d[n] = g[n]
  BY <1>1, <1>2, FS_Subset
<1>5. SumFunctionOnSet(g, S) = SumFunctionOnSet(d, S)
  BY <1>4, SumSame
<1>6. \A n \in (DOMAIN lines) \ S : d[n] = 0
  BY <1>1
<1>7. PICK D : D = DOMAIN lines
  OBVIOUS
<1>8. SumFunctionOnSet(d, D) = SumFunctionOnSet(d, S)
  BY <1>1, <1>6, <1>7, SumSupport
<1> QED BY <1>3, <1>5, <1>7, <1>8

\* The lines of a rule, added up for each side, and for an account.
SidesAgree(rule, amounts, m, d, c) ==
  /\ \A n \in 1..m : /\ Readable(rule[n], amounts)
                     /\ d[n] = SideTerm(rule[n], amounts, "DEBIT")
                     /\ c[n] = SideTerm(rule[n], amounts, "CREDIT")
  /\ SumFunctionOnSet(d, 1..m) = SumFunctionOnSet(c, 1..m)
TermsAre(rule, amounts, m, a, f) == \A n \in 1..m : f[n] = Term(rule[n], amounts, a)

\* generate_journal keeps every line of a rule whose two sides agree: a line of
\* zero adds nothing, and one that is left has a counterpart.
LEMMA JournalAdds ==
  ASSUME NEW m \in Nat, NEW rule, DOMAIN rule = 1..m, NEW amounts,
         NEW d, NEW c, SidesAgree(rule, amounts, m, d, c),
         NEW a, NEW f, TermsAre(rule, amounts, m, a, f)
  PROVE  Balance(generate_journal(rule, amounts).lines, a) = SumFunctionOnSet(f, 1..m)
<1>0. /\ \A n \in 1..m : Readable(rule[n], amounts)
      /\ \A n \in 1..m : /\ d[n] = SideTerm(rule[n], amounts, "DEBIT")
                        /\ c[n] = SideTerm(rule[n], amounts, "CREDIT")
                        /\ f[n] = Term(rule[n], amounts, a)
      /\ SumFunctionOnSet(d, 1..m) = SumFunctionOnSet(c, 1..m)
  BY DEF SidesAgree, TermsAre
<1> USE <1>0
<1> DEFINE x(n) == amounts[rule[n].source]
<1>1. PICK K : K = {n \in 1..m : x(n) # 0}
  OBVIOUS
<1>2. PICK lines : lines = _build_lines(rule, amounts)
  OBVIOUS
<1>3. /\ K \subseteq 1..m /\ IsFiniteSet(1..m) /\ IsFiniteSet(K)
      /\ \A n \in (1..m) \ K : x(n) = 0
  BY <1>1, UpToIsFinite, FS_Subset
<1>4. \A n \in 1..m : x(n) \in Nat /\ rule[n].side \in {"DEBIT", "CREDIT"}
  BY DEF Readable, Sides
<1>5. DOMAIN lines = K
  BY <1>1, <1>2 DEF _build_lines
<1>6. \A n \in K : /\ lines[n].account = rule[n].account /\ lines[n].side = rule[n].side
                   /\ lines[n].amount = x(n) /\ x(n) \in Nat /\ x(n) # 0
  <2> SUFFICES ASSUME NEW n \in K
               PROVE  /\ lines[n].account = rule[n].account /\ lines[n].side = rule[n].side
                      /\ lines[n].amount = x(n) /\ x(n) \in Nat /\ x(n) # 0
    OBVIOUS
  <2>1. x(n) \in Nat /\ x(n) # 0
    BY <1>1, <1>4
  <2>2. lines[n] = ResolvedLine(rule[n], amounts)
    BY <1>1, <1>2 DEF _build_lines
  <2> QED BY <2>1, <2>2 DEF ResolvedLine
<1>7. \A n \in 1..m : /\ d[n] = IF rule[n].side = "DEBIT" THEN x(n) ELSE 0
                      /\ c[n] = IF rule[n].side = "CREDIT" THEN x(n) ELSE 0
                      /\ f[n] = IF rule[n].account # a THEN 0
                                ELSE IF rule[n].side = "DEBIT" THEN x(n) ELSE -x(n)
  BY DEF SideTerm, Term
<1> HIDE DEF x
<1>8. \A n \in 1..m : d[n] \in Nat /\ c[n] \in Nat /\ f[n] \in Int
  BY <1>4, <1>7
<1>9. \A n \in (1..m) \ K : d[n] = 0 /\ c[n] = 0 /\ f[n] = 0
  BY <1>3, <1>7
<1>10. /\ SumFunctionOnSet(d, 1..m) = SumFunctionOnSet(d, K)
       /\ SumFunctionOnSet(c, 1..m) = SumFunctionOnSet(c, K)
       /\ SumFunctionOnSet(f, 1..m) = SumFunctionOnSet(f, K)
  <2>1. PICK S : S = 1..m
    OBVIOUS
  <2>2. /\ IsFiniteSet(S) /\ K \in SUBSET S
        /\ \A n \in S : d[n] \in Int /\ c[n] \in Int /\ f[n] \in Int
        /\ \A n \in S \ K : d[n] = 0 /\ c[n] = 0 /\ f[n] = 0
    BY <1>3, <1>8, <1>9, <2>1
  <2>3. SumFunctionOnSet(d, S) = SumFunctionOnSet(d, K)
    BY <2>2, SumSupport
  <2>4. SumFunctionOnSet(c, S) = SumFunctionOnSet(c, K)
    BY <2>2, SumSupport
  <2>5. SumFunctionOnSet(f, S) = SumFunctionOnSet(f, K)
    BY <2>2, SumSupport
  <2> QED BY <2>1, <2>3, <2>4, <2>5
<1>11. SideTotal(lines, "DEBIT") = SumFunctionOnSet(d, K)
  <2>1. \A n \in K : d[n] \in Int /\ d[n] = IF lines[n].side = "DEBIT" THEN lines[n].amount ELSE 0
    BY <1>3, <1>6, <1>7, <1>8
  <2>2. PICK s : s = "DEBIT"
    OBVIOUS
  <2> QED BY <1>3, <1>5, <2>1, <2>2, SideTotalMeans
<1>12. SideTotal(lines, "CREDIT") = SumFunctionOnSet(c, K)
  <2>1. \A n \in K : c[n] \in Int /\ c[n] = IF lines[n].side = "CREDIT" THEN lines[n].amount ELSE 0
    BY <1>3, <1>6, <1>7, <1>8
  <2>2. PICK s : s = "CREDIT"
    OBVIOUS
  <2> QED BY <1>3, <1>5, <2>1, <2>2, SideTotalMeans
<1>13. Balance(lines, a) = SumFunctionOnSet(f, K)
  <2>1. PICK g : g = [n \in K |-> IF lines[n].account = a THEN SignedAmount(lines[n]) ELSE 0]
    OBVIOUS
  <2>2. Balance(lines, a) = SumFunctionOnSet(g, K)
    BY <1>5, <2>1 DEF Balance, BalanceTerms, SumFunction
  <2>3. \A n \in K : f[n] \in Int /\ f[n] = g[n]
    BY <1>3, <1>6, <1>7, <1>8, <2>1 DEF SignedAmount
  <2>4. IsFiniteSet(K)
    BY <1>3
  <2> QED BY <2>2, <2>3, <2>4, SumSame
<1>14. CASE K = {}
  <2>1. DOMAIN generate_journal(rule, amounts).lines = {}
    BY <1>2, <1>5, <1>14 DEF generate_journal
  <2>2. SumFunctionOnSet(f, K) = 0
    BY <1>14, SumEmpty
  <2> QED BY <1>10, <2>1, <2>2, NoLinesNoBalance
<1>15. CASE K # {}
  <2>1. PICK j \in K : TRUE
    BY <1>15
  <2>2. SumFunctionOnSet(d, K) = SumFunctionOnSet(c, K)
    BY <1>10
  <2>3. /\ SumFunctionOnSet(d, K) \in Nat /\ \A n \in K : d[n] <= SumFunctionOnSet(d, K)
        /\ SumFunctionOnSet(c, K) \in Nat /\ \A n \in K : c[n] <= SumFunctionOnSet(c, K)
    <3>1. \A n \in K : d[n] \in Nat /\ c[n] \in Nat
      BY <1>3, <1>8
    <3> QED BY <1>3, <3>1, SumNat
  <2>4. d[j] > 0 \/ c[j] > 0
    BY <1>3, <1>4, <1>6, <1>7
  <2>5. SumFunctionOnSet(d, K) # 0 /\ SumFunctionOnSet(c, K) # 0
    <3>1. d[j] \in Nat /\ c[j] \in Nat
      BY <1>3, <1>8
    <3> QED BY <2>1, <2>2, <2>3, <2>4, <3>1
  <2>6. \E n \in K : lines[n].side = "DEBIT"
    <3>1. PICK n \in K : d[n] # 0
      BY <1>3, <2>5, SumZero
    <3> QED BY <1>3, <1>6, <1>7, <3>1
  <2>7. \E n \in K : lines[n].side = "CREDIT"
    <3>1. PICK n \in K : c[n] # 0
      BY <1>3, <2>5, SumZero
    <3> QED BY <1>3, <1>6, <1>7, <3>1
  <2>8. IsBalanced(lines)
    BY <1>5, <1>11, <1>12, <2>2, <2>6, <2>7 DEF IsBalanced, Sides
  <2>9. Resolvable(rule, amounts)
    BY DEF Resolvable, Readable
  <2>10. generate_journal(rule, amounts).lines = lines
    BY <1>2, <2>8, <2>9 DEF generate_journal
  <2> QED BY <1>10, <1>13, <2>10
<1> QED BY <1>14, <1>15

\* A rule without a line for the account adds nothing to it, whatever its journal is.
LEMMA JournalPassesBy ==
  ASSUME NEW rule, NEW amounts, NEW a, \A n \in DOMAIN rule : rule[n].account # a,
         IsFiniteSet(DOMAIN rule)
  PROVE  Balance(generate_journal(rule, amounts).lines, a) = 0
<1>1. PICK lines : lines = generate_journal(rule, amounts).lines
  OBVIOUS
<1>2. CASE lines = <<>>
  <2>1. DOMAIN lines = {}
    BY <1>2
  <2> QED BY <1>1, <2>1, NoLinesNoBalance
<1>3. CASE lines = _build_lines(rule, amounts)
  <2>1. DOMAIN lines \subseteq DOMAIN rule
    BY <1>3 DEF _build_lines
  <2>2. \A n \in DOMAIN lines : lines[n] = ResolvedLine(rule[n], amounts)
    BY <1>3 DEF _build_lines
  <2>3. \A n \in DOMAIN lines : lines[n].account # a
    BY <2>1, <2>2 DEF ResolvedLine
  <2>4. PICK g : g = [n \in DOMAIN lines |->
                        IF lines[n].account = a THEN SignedAmount(lines[n]) ELSE 0]
    OBVIOUS
  <2>5. Balance(lines, a) = SumFunctionOnSet(g, DOMAIN lines)
    BY <2>4 DEF Balance, BalanceTerms, SumFunction
  <2>6. IsFiniteSet(DOMAIN lines) /\ \A n \in DOMAIN lines : g[n] = 0
    BY <2>1, <2>3, <2>4, FS_Subset
  <2> QED BY <1>1, <2>5, <2>6, SumZero
<1>4. lines = <<>> \/ lines = _build_lines(rule, amounts)
  BY <1>1 DEF generate_journal
<1> QED BY <1>2, <1>3, <1>4

\* What line k of a journal adds to each account.
LineShift(lines, k) ==
  [a \in Accounts |-> IF k \in DOMAIN lines /\ lines[k].account = a
                      THEN SignedAmount(lines[k]) ELSE 0]

\* Entering a line adds its signed amount to its account.
LEMMA EnterAdds ==
  ASSUME NEW b \in Books, NEW lines, NEW k \in DOMAIN lines, lines[k].account \in Accounts,
         SignedAmount(lines[k]) \in Int
  PROVE  Enter(b, lines[k]) = Plus(b, LineShift(lines, k)) /\ LineShift(lines, k) \in Books
<1>1. PICK x \in Int : x = SignedAmount(lines[k])
  OBVIOUS
<1>2. PICK c \in Accounts : c = lines[k].account
  OBVIOUS
<1>3. Enter(b, lines[k]) = [b EXCEPT ![c] = @ + x]
  BY <1>1, <1>2 DEF Enter, SignedAmount
<1>4. LineShift(lines, k) = [a \in Accounts |-> IF a = c THEN x ELSE 0]
  BY <1>1, <1>2 DEF LineShift
<1>5. [b EXCEPT ![c] = @ + x] = Plus(b, [a \in Accounts |-> IF a = c THEN x ELSE 0])
  <2>1. b = [a \in Accounts |-> b[a]] /\ \A a \in Accounts : b[a] \in Int
    BY DEF Books
  <2>2. [b EXCEPT ![c] = @ + x] = [a \in Accounts |-> IF a = c THEN b[a] + x ELSE b[a]]
    BY <1>2, <2>1
  <2>3. \A a \in Accounts : (IF a = c THEN b[a] + x ELSE b[a]) = b[a] + IF a = c THEN x ELSE 0
    BY <2>1
  <2> QED BY <2>2, <2>3 DEF Plus
<1>6. LineShift(lines, k) \in Books
  BY <1>4 DEF Books
<1> QED BY <1>3, <1>4, <1>5, <1>6

\* A number without a line adds nothing.
LEMMA NoLineAdds ==
  ASSUME NEW b \in Books, NEW lines, NEW k, k \notin DOMAIN lines
  PROVE  b = Plus(b, LineShift(lines, k)) /\ LineShift(lines, k) \in Books
<1>1. LineShift(lines, k) = [a \in Accounts |-> 0]
  BY DEF LineShift
<1>2. b = Plus(b, [a \in Accounts |-> 0])
  BY DEF Plus, Books
<1> QED BY <1>1, <1>2 DEF Books

\* What the lines add to an account, one by one, is its balance in them.
LEMMA BalanceIsColumn ==
  ASSUME NEW m \in Nat, NEW lines, DOMAIN lines \subseteq 1..m,
         \A k \in DOMAIN lines : SignedAmount(lines[k]) \in Int,
         NEW a \in Accounts, NEW moved, moved = [k \in 1..m |-> LineShift(lines, k)]
  PROVE  SumFunctionOnSet(ColumnOf(moved, a), 1..m) = Balance(lines, a)
<1>1. PICK S : S = 1..m
  OBVIOUS
<1>2. PICK K \in SUBSET S : K = DOMAIN lines
  BY <1>1
<1>3. IsFiniteSet(S) /\ IsFiniteSet(K)
  BY <1>1, UpToIsFinite, FS_Subset
<1>4. PICK f : f = ColumnOf(moved, a)
  OBVIOUS
<1>5. PICK g : g = BalanceTerms(lines, a)
  OBVIOUS
<1>6. \A k \in S : f[k] = IF k \in K /\ lines[k].account = a THEN SignedAmount(lines[k]) ELSE 0
  BY <1>1, <1>2, <1>4 DEF ColumnOf, LineShift
<1>7. \A k \in K : f[k] = g[k]
  BY <1>2, <1>5, <1>6 DEF BalanceTerms
<1>8. /\ \A k \in S : f[k] \in Int
      /\ \A k \in S \ K : f[k] = 0
  BY <1>2, <1>6
<1>9. SumFunctionOnSet(f, S) = SumFunctionOnSet(f, K)
  BY <1>3, <1>8, SumSupport
<1>10. SumFunctionOnSet(f, K) = SumFunctionOnSet(g, K)
  <2>1. \A k \in K : f[k] \in Int /\ f[k] = g[k]
    BY <1>7, <1>8
  <2> QED BY <1>3, <2>1, SumSame
<1>11. Balance(lines, a) = SumFunctionOnSet(g, K)
  BY <1>2, <1>5 DEF Balance, BalanceTerms, SumFunction
<1> QED BY <1>1, <1>4, <1>9, <1>10, <1>11

\* An event that can be read: numbers at the sources of its rule.
LegibleLine(line, amounts) ==
  /\ line.account \in Accounts /\ line.side \in Sides
  /\ line.source \in DOMAIN amounts /\ amounts[line.source] \in Int
Legible(event, rule, m) ==
  /\ m \in Nat /\ Len(rule) = m /\ DOMAIN rule = 1..m
  /\ SeededRules[event.type] = rule
  /\ \A k \in 1..m : LegibleLine(rule[k], event.amounts)

LinesOf(rule, event) == generate_journal(rule, event.amounts).lines
ShiftOf(rule, event) == [a \in Accounts |-> Balance(LinesOf(rule, event), a)]

\* The lines of a rule that can be read are amounts on accounts.
LEMMA LegibleLines ==
  ASSUME NEW event, NEW rule, NEW m, Legible(event, rule, m), NEW lines,
         lines = LinesOf(rule, event)
  PROVE  /\ DOMAIN lines \subseteq 1..m
         /\ \A k \in DOMAIN lines : lines[k].account \in Accounts /\ SignedAmount(lines[k]) \in Int
<1>1. CASE lines = _build_lines(rule, event.amounts)
  <2>1. DOMAIN lines \subseteq 1..m
    BY <1>1 DEF _build_lines, Legible
  <2>2. ASSUME NEW k \in DOMAIN lines
        PROVE  lines[k].account \in Accounts /\ SignedAmount(lines[k]) \in Int
    <3>1. lines[k] = ResolvedLine(rule[k], event.amounts)
      BY <1>1 DEF _build_lines
    <3>2. PICK line : line = rule[k]
      OBVIOUS
    <3>3. line.account \in Accounts /\ event.amounts[line.source] \in Int
      BY <2>1, <3>2 DEF Legible, LegibleLine
    <3>4. PICK x \in Int : x = event.amounts[line.source]
      BY <3>3
    <3>5. lines[k].account = line.account /\ (lines[k].amount = x \/ lines[k].amount = -x)
      BY <3>1, <3>2, <3>4 DEF ResolvedLine
    <3>6. lines[k].amount \in Int
      BY <3>5
    <3> QED BY <3>3, <3>5, <3>6 DEF SignedAmount
  <2> QED BY <2>1, <2>2
<1>2. CASE DOMAIN lines = {}
  BY <1>2
<1>3. lines = _build_lines(rule, event.amounts) \/ lines = <<>>
  BY DEF LinesOf, generate_journal
<1> QED BY <1>1, <1>2, <1>3

\* The loop of Journalise.
IsJournalised(after, b, event) ==
  after = [n \in 0..Len(SeededRules[event.type]) |->
             IF n = 0 THEN b
             ELSE IF n \in DOMAIN LinesOf(SeededRules[event.type], event)
                  THEN Enter(after[n - 1], LinesOf(SeededRules[event.type], event)[n])
                  ELSE after[n - 1]]

\* Journalise is the end of its loop.
LEMMA JournaliseIsThis ==
  ASSUME NEW b, NEW event, \E after : IsJournalised(after, b, event)
  PROVE  \E after : /\ IsJournalised(after, b, event)
                   /\ Journalise(b, event) = after[Len(SeededRules[event.type])]
BY DEF IsJournalised, LinesOf, Journalise

\* Journalise adds the balances of the lines of the event's journal.
LEMMA JournaliseAdds ==
  ASSUME NEW event, NEW rule, NEW m, Legible(event, rule, m)
  PROVE  Shifts(event, ShiftOf(rule, event))
<1>1. PICK lines : lines = LinesOf(rule, event)
  OBVIOUS
<1>2. /\ m \in Nat /\ DOMAIN lines \subseteq 1..m
      /\ \A k \in DOMAIN lines : lines[k].account \in Accounts /\ SignedAmount(lines[k]) \in Int
  BY <1>1, LegibleLines DEF Legible
<1>3. PICK moved : moved = [k \in 1..m |-> LineShift(lines, k)]
  OBVIOUS
<1>4. ASSUME NEW b \in Books, NEW k \in 1..m
      PROVE  /\ (IF k \in DOMAIN lines THEN Enter(b, lines[k]) ELSE b) = Plus(b, moved[k])
             /\ moved[k] \in Books
  BY <1>2, <1>3, EnterAdds, NoLineAdds
<1>5. [a \in Accounts |-> 0] \in Books
  BY DEF Books
<1>6. moved \in [1..m -> Books]
  BY <1>3, <1>4, <1>5
<1>7. ASSUME NEW b \in Books PROVE Journalise(b, event) = Sums(b, moved, m)
  <2>1. PICK sums : sums = [k \in 0..m |-> Sums(b, moved, k)]
    OBVIOUS
  <2>2. IsLoop(sums, b, moved, m)
        /\ \A k \in 1..m : sums[k - 1] \in Books /\ sums[k] = Plus(sums[k - 1], moved[k])
    <3>1. m \in Nat /\ \A k \in 0..m : sums[k] = Sums(b, moved, k)
      BY <1>2, <2>1
    <3> QED BY <1>6, <3>1, LoopOfSums
  <2>3. \A k \in 0..m : sums[k] = IF k = 0 THEN b
                                   ELSE IF k \in DOMAIN lines THEN Enter(sums[k - 1], lines[k])
                                   ELSE sums[k - 1]
    <3>1. sums[0] = b
      BY <2>2 DEF IsLoop
    <3>2. ASSUME NEW k \in 1..m
          PROVE  sums[k] = IF k \in DOMAIN lines THEN Enter(sums[k - 1], lines[k])
                           ELSE sums[k - 1]
      <4>1. PICK c \in Books : c = sums[k - 1] /\ sums[k] = Plus(c, moved[k])
        BY <2>2
      <4> QED BY <1>4, <4>1
    <3> QED BY <1>2, <3>1, <3>2
  <2>4. SeededRules[event.type] = rule /\ Len(rule) = m
    BY DEF Legible
  <2>5. IsJournalised(sums, b, event)
    BY <1>1, <2>1, <2>3, <2>4 DEF IsJournalised, LinesOf
  <2>6. PICK after : IsJournalised(after, b, event) /\ Journalise(b, event) = after[m]
    BY <2>4, <2>5, JournaliseIsThis
  <2>7. /\ after[0] = b
        /\ \A k \in 1..m : after[k] = IF k \in DOMAIN lines THEN Enter(after[k - 1], lines[k])
                                       ELSE after[k - 1]
    BY <1>1, <1>2, <2>4, <2>6 DEF IsJournalised, LinesOf
  <2>8. IsLoop(after, b, moved, m)
    BY <1>4, <2>7 DEF IsLoop
  <2> QED BY <1>2, <1>6, <2>6, <2>8, LoopSums
<1>8. ShiftOf(rule, event) \in Books
  <2>1. ASSUME NEW a \in Accounts PROVE Balance(lines, a) \in Int
    <3>1. SumFunctionOnSet(ColumnOf(moved, a), 1..m) = Balance(lines, a)
      BY <1>2, <1>3, BalanceIsColumn
    <3>2. PICK f : f = ColumnOf(moved, a)
      OBVIOUS
    <3>3. \A k \in 1..m : f[k] \in Int
      BY <1>6, <3>2 DEF ColumnOf, Books
    <3> QED BY <1>2, <3>1, <3>2, <3>3, UpToIsFinite, SumInt
  <2> QED BY <1>1, <2>1 DEF ShiftOf, Books
<1>9. ASSUME NEW b \in Books PROVE Sums(b, moved, m) = Plus(b, ShiftOf(rule, event))
  <2>1. \A a \in Accounts : SumFunctionOnSet(ColumnOf(moved, a), 1..m) = Balance(lines, a)
    BY <1>2, <1>3, BalanceIsColumn
  <2> QED BY <1>1, <2>1 DEF Sums, Plus, ShiftOf
<1> QED BY <1>7, <1>8, <1>9 DEF Shifts

-------------------------------------------------------------------------------
\* The journals of the rules.

\* Sums of up to eight terms, written out.
LEMMA SumsOfFew ==
  ASSUME NEW m \in Nat, NEW f, \A n \in 1..m : f[n] \in Int
  PROVE  /\ m >= 1 => SumFunctionOnSet(f, 1..1) = f[1]
         /\ m >= 2 => SumFunctionOnSet(f, 1..2) = f[1] + f[2]
         /\ m >= 3 => SumFunctionOnSet(f, 1..3) = f[1] + f[2] + f[3]
         /\ m >= 4 => SumFunctionOnSet(f, 1..4) = f[1] + f[2] + f[3] + f[4]
         /\ m >= 5 => SumFunctionOnSet(f, 1..5) = f[1] + f[2] + f[3] + f[4] + f[5]
         /\ m >= 6 => SumFunctionOnSet(f, 1..6) = f[1] + f[2] + f[3] + f[4] + f[5] + f[6]
         /\ m >= 7 => SumFunctionOnSet(f, 1..7) = f[1] + f[2] + f[3] + f[4] + f[5] + f[6] + f[7]
         /\ m >= 8 => SumFunctionOnSet(f, 1..8)
                        = f[1] + f[2] + f[3] + f[4] + f[5] + f[6] + f[7] + f[8]
<1>1. SumFunctionOnSet(f, 1..0) = 0
  BY UpToNone, SumEmpty
<1>2. \A k, j \in Nat : j = k + 1 /\ j <= m =>
        SumFunctionOnSet(f, 1..j) = SumFunctionOnSet(f, 1..k) + f[j]
  <2> SUFFICES ASSUME NEW k \in Nat, k + 1 <= m
               PROVE  SumFunctionOnSet(f, 1..(k + 1)) = SumFunctionOnSet(f, 1..k) + f[k + 1]
    OBVIOUS
  <2>1. \A j \in 1..(k + 1) : f[j] \in Int
    OBVIOUS
  <2> QED BY <2>1, SumNext
<1>3. PICK sums : sums = [k \in 0..m |-> SumFunctionOnSet(f, 1..k)]
  OBVIOUS
<1>4. /\ sums[0] = 0
      /\ \A k, j \in Nat : j = k + 1 /\ j <= m => sums[j] = sums[k] + f[j]
  BY <1>1, <1>2, <1>3
<1>5. m >= 1 => sums[1] = f[1]
  <2>1. m >= 1 => sums[1] = sums[0] + f[1] /\ f[1] \in Int
    BY <1>4
  <2> QED BY <1>4, <2>1
<1>6. m >= 2 => sums[2] = f[1] + f[2]
  <2>1. m >= 2 => sums[2] = sums[1] + f[2] /\ f[2] \in Int
    BY <1>4
  <2> QED BY <1>4, <2>1, <1>5
<1>7. m >= 3 => sums[3] = f[1] + f[2] + f[3]
  <2>1. m >= 3 => sums[3] = sums[2] + f[3] /\ f[3] \in Int
    BY <1>4
  <2> QED BY <1>4, <2>1, <1>6
<1>8. m >= 4 => sums[4] = f[1] + f[2] + f[3] + f[4]
  <2>1. m >= 4 => sums[4] = sums[3] + f[4] /\ f[4] \in Int
    BY <1>4
  <2> QED BY <1>4, <2>1, <1>7
<1>9. m >= 5 => sums[5] = f[1] + f[2] + f[3] + f[4] + f[5]
  <2>1. m >= 5 => sums[5] = sums[4] + f[5] /\ f[5] \in Int
    BY <1>4
  <2> QED BY <1>4, <2>1, <1>8
<1>10. m >= 6 => sums[6] = f[1] + f[2] + f[3] + f[4] + f[5] + f[6]
  <2>1. m >= 6 => sums[6] = sums[5] + f[6] /\ f[6] \in Int
    BY <1>4
  <2> QED BY <1>4, <2>1, <1>9
<1>11. m >= 7 => sums[7] = f[1] + f[2] + f[3] + f[4] + f[5] + f[6] + f[7]
  <2>1. m >= 7 => sums[7] = sums[6] + f[7] /\ f[7] \in Int
    BY <1>4
  <2> QED BY <1>4, <2>1, <1>10
<1>12. m >= 8 => sums[8] = f[1] + f[2] + f[3] + f[4] + f[5] + f[6] + f[7] + f[8]
  <2>1. m >= 8 => sums[8] = sums[7] + f[8] /\ f[8] \in Int
    BY <1>4
  <2> QED BY <1>4, <2>1, <1>11
<1>21. m >= 1 => SumFunctionOnSet(f, 1..1) = f[1]
  <2>1. m >= 1 => sums[1] = SumFunctionOnSet(f, 1..1)
    BY <1>3
  <2> QED BY <2>1, <1>5
<1>22. m >= 2 => SumFunctionOnSet(f, 1..2) = f[1] + f[2]
  <2>1. m >= 2 => sums[2] = SumFunctionOnSet(f, 1..2)
    BY <1>3
  <2> QED BY <2>1, <1>6
<1>23. m >= 3 => SumFunctionOnSet(f, 1..3) = f[1] + f[2] + f[3]
  <2>1. m >= 3 => sums[3] = SumFunctionOnSet(f, 1..3)
    BY <1>3
  <2> QED BY <2>1, <1>7
<1>24. m >= 4 => SumFunctionOnSet(f, 1..4) = f[1] + f[2] + f[3] + f[4]
  <2>1. m >= 4 => sums[4] = SumFunctionOnSet(f, 1..4)
    BY <1>3
  <2> QED BY <2>1, <1>8
<1>25. m >= 5 => SumFunctionOnSet(f, 1..5) = f[1] + f[2] + f[3] + f[4] + f[5]
  <2>1. m >= 5 => sums[5] = SumFunctionOnSet(f, 1..5)
    BY <1>3
  <2> QED BY <2>1, <1>9
<1>26. m >= 6 => SumFunctionOnSet(f, 1..6) = f[1] + f[2] + f[3] + f[4] + f[5] + f[6]
  <2>1. m >= 6 => sums[6] = SumFunctionOnSet(f, 1..6)
    BY <1>3
  <2> QED BY <2>1, <1>10
<1>27. m >= 7 => SumFunctionOnSet(f, 1..7) = f[1] + f[2] + f[3] + f[4] + f[5] + f[6] + f[7]
  <2>1. m >= 7 => sums[7] = SumFunctionOnSet(f, 1..7)
    BY <1>3
  <2> QED BY <2>1, <1>11
<1>28. m >= 8 => SumFunctionOnSet(f, 1..8) = f[1] + f[2] + f[3] + f[4] + f[5] + f[6] + f[7] + f[8]
  <2>1. m >= 8 => sums[8] = SumFunctionOnSet(f, 1..8)
    BY <1>3
  <2> QED BY <2>1, <1>12
<1> QED BY <1>21, <1>22, <1>23, <1>24, <1>25, <1>26, <1>27, <1>28

\* A rule with two lines more.
LEMMA PairMore ==
  ASSUME NEW T, NEW s \in Seq(T), NEW p \in T, NEW q \in T, NEW t, t = s \o <<p, q>>
  PROVE  /\ t \in Seq(T) /\ Len(t) = Len(s) + 2
         /\ \A k \in 1..Len(s) : t[k] = s[k]
         /\ t[Len(s) + 1] = p /\ t[Len(s) + 2] = q
<1>1. PICK e \in Seq(T) : e = <<p, q>> /\ Len(e) = 2 /\ e[1] = p /\ e[2] = q
  <2>1. <<p, q>> \in Seq(T)
    OBVIOUS
  <2>2. Len(<<p, q>>) = 2 /\ <<p, q>>[1] = p /\ <<p, q>>[2] = q
    OBVIOUS
  <2> QED BY <2>1, <2>2
<1>2. PICK m \in Nat : m = Len(s)
  OBVIOUS
<1>3. /\ t \in Seq(T) /\ Len(t) = m + 2
      /\ \A i \in 1..(m + 2) : t[i] = IF i <= m THEN s[i] ELSE e[i - m]
  BY <1>1, <1>2, ConcatProperties
<1>4. t[m + 1] = e[1] /\ t[m + 2] = e[2]
  <2>1. (m + 1) - m = 1 /\ (m + 2) - m = 2 /\ m + 1 \in 1..(m + 2) /\ m + 2 \in 1..(m + 2)
        /\ ~(m + 1 <= m) /\ ~(m + 2 <= m)
    OBVIOUS
  <2> QED BY <1>3, <2>1
<1> QED BY <1>1, <1>2, <1>3, <1>4

\* What the journal of an event adds to cash, receivable and unearned profit.
Moved(event, x, y, z) ==
  \E v : Shifts(event, v) /\ v["cash"] = x /\ v["receivable"] = y /\ v["unearned"] = z

\* What can be read of an event.
Reads(event, source, x) == source \in DOMAIN event.amounts /\ event.amounts[source] = x

\* The lines of a rule whose sides agree, added up account by account.
LEMMA RuleMoves ==
  ASSUME NEW event, NEW rule, NEW m, Legible(event, rule, m), NEW am, am = event.amounts,
         NEW d, NEW c, SidesAgree(rule, am, m, d, c), NEW f, NEW g, NEW h,
         TermsAre(rule, am, m, "cash", f), TermsAre(rule, am, m, "receivable", g),
         TermsAre(rule, am, m, "unearned", h)
  PROVE  Moved(event, SumFunctionOnSet(f, 1..m), SumFunctionOnSet(g, 1..m),
               SumFunctionOnSet(h, 1..m))
<1>1. m \in Nat /\ DOMAIN rule = 1..m
  BY DEF Legible
<1>2. ASSUME NEW a, NEW e, TermsAre(rule, am, m, a, e)
      PROVE  Balance(LinesOf(rule, event), a) = SumFunctionOnSet(e, 1..m)
  <2>2. Balance(generate_journal(rule, am).lines, a) = SumFunctionOnSet(e, 1..m)
    BY <1>1, <1>2, JournalAdds
  <2> QED BY <2>2 DEF LinesOf
<1>3. PICK x, y, z : x = "cash" /\ y = "receivable" /\ z = "unearned"
  OBVIOUS
<1>4. /\ Balance(LinesOf(rule, event), x) = SumFunctionOnSet(f, 1..m)
      /\ Balance(LinesOf(rule, event), y) = SumFunctionOnSet(g, 1..m)
      /\ Balance(LinesOf(rule, event), z) = SumFunctionOnSet(h, 1..m)
  BY <1>2, <1>3
<1>5. PICK v : v = ShiftOf(rule, event)
  OBVIOUS
<1>6. x \in Accounts /\ y \in Accounts /\ z \in Accounts
  BY <1>3 DEF Accounts
<1>7. /\ v[x] = Balance(LinesOf(rule, event), x) /\ v[y] = Balance(LinesOf(rule, event), y)
      /\ v[z] = Balance(LinesOf(rule, event), z)
  BY <1>5, <1>6 DEF ShiftOf
<1>8. Shifts(event, v)
  BY <1>5, JournaliseAdds
<1> QED BY <1>3, <1>4, <1>7, <1>8 DEF Moved

\* The lines of ActivationRule.
LEMMA ActivationLines ==
  /\ Len(ActivationRule) = 4 /\ DOMAIN ActivationRule = 1..4
  /\ ActivationRule[1] = MappingLine("DEBIT", "deposit", "down_payment")
  /\ ActivationRule[2] = MappingLine("DEBIT", "receivable", "gross_installment_receivable")
  /\ ActivationRule[3] = MappingLine("CREDIT", "sales", "cash_price")
  /\ ActivationRule[4] = MappingLine("CREDIT", "unearned", "total_contractual_profit")
BY DEF ActivationRule

\* What the journal of delivering moves.
LEMMA ActivationMoves ==
  ASSUME NEW event, SeededRules[event.type] = ActivationRule,
         NEW x1 \in Nat, Reads(event, "down_payment", x1),
         NEW x2 \in Nat, Reads(event, "gross_installment_receivable", x2),
         NEW x3 \in Nat, Reads(event, "cash_price", x3),
         NEW x4 \in Nat, Reads(event, "total_contractual_profit", x4),
         x1 + x2 = x3 + x4
  PROVE  Moved(event, 0, x2, -x4)
<1>1. PICK rule : rule = ActivationRule
  OBVIOUS
<1>2. /\ Len(rule) = 4 /\ DOMAIN rule = 1..4
      /\ rule[1] = MappingLine("DEBIT", "deposit", "down_payment")
      /\ rule[2] = MappingLine("DEBIT", "receivable", "gross_installment_receivable")
      /\ rule[3] = MappingLine("CREDIT", "sales", "cash_price")
      /\ rule[4] = MappingLine("CREDIT", "unearned", "total_contractual_profit")
  BY <1>1, ActivationLines
<1>3. PICK am : am = event.amounts
  OBVIOUS
<1>4. \A n \in 1..4 : LegibleLine(rule[n], am) /\ am[rule[n].source] \in Nat
  <2>1. LegibleLine(rule[1], am) /\ am[rule[1].source] \in Nat
    BY <1>2, <1>3 DEF Reads, LegibleLine, MappingLine, Accounts, Sides
  <2>2. LegibleLine(rule[2], am) /\ am[rule[2].source] \in Nat
    BY <1>2, <1>3 DEF Reads, LegibleLine, MappingLine, Accounts, Sides
  <2>3. LegibleLine(rule[3], am) /\ am[rule[3].source] \in Nat
    BY <1>2, <1>3 DEF Reads, LegibleLine, MappingLine, Accounts, Sides
  <2>4. LegibleLine(rule[4], am) /\ am[rule[4].source] \in Nat
    BY <1>2, <1>3 DEF Reads, LegibleLine, MappingLine, Accounts, Sides
  <2> QED BY <2>1, <2>2, <2>3, <2>4
<1>5. Legible(event, rule, 4)
  BY <1>1, <1>2, <1>3, <1>4 DEF Legible
<1>6. PICK d : /\ \A n \in 1..4 : d[n] = SideTerm(rule[n], am, "DEBIT")
               /\ SumFunctionOnSet(d, 1..4) = x1 + x2
  <2>1. PICK t : t = [n \in 1..4 |-> SideTerm(rule[n], am, "DEBIT")]
    OBVIOUS
  <2>2. t[1] = x1 /\ t[2] = x2 /\ t[3] = 0 /\ t[4] = 0
    BY <1>2, <1>3, <2>1 DEF Reads, SideTerm, MappingLine
  <2>3. \A n \in 1..4 : t[n] \in Int
    BY <2>2
  <2>4. SumFunctionOnSet(t, 1..4) = t[1] + t[2] + t[3] + t[4]
    <3>1. PICK j \in Nat : j = 4
      OBVIOUS
    <3>2. \A n \in 1..j : t[n] \in Int
      BY <2>3, <3>1
    <3>3. j >= 4 => SumFunctionOnSet(t, 1..4) = t[1] + t[2] + t[3] + t[4]
      BY <3>2, SumsOfFew
    <3> QED BY <3>1, <3>3
  <2> QED BY <2>1, <2>2, <2>4
<1>7. PICK c : /\ \A n \in 1..4 : c[n] = SideTerm(rule[n], am, "CREDIT")
               /\ SumFunctionOnSet(c, 1..4) = x3 + x4
  <2>1. PICK t : t = [n \in 1..4 |-> SideTerm(rule[n], am, "CREDIT")]
    OBVIOUS
  <2>2. t[1] = 0 /\ t[2] = 0 /\ t[3] = x3 /\ t[4] = x4
    BY <1>2, <1>3, <2>1 DEF Reads, SideTerm, MappingLine
  <2>3. \A n \in 1..4 : t[n] \in Int
    BY <2>2
  <2>4. SumFunctionOnSet(t, 1..4) = t[1] + t[2] + t[3] + t[4]
    <3>1. PICK j \in Nat : j = 4
      OBVIOUS
    <3>2. \A n \in 1..j : t[n] \in Int
      BY <2>3, <3>1
    <3>3. j >= 4 => SumFunctionOnSet(t, 1..4) = t[1] + t[2] + t[3] + t[4]
      BY <3>2, SumsOfFew
    <3> QED BY <3>1, <3>3
  <2> QED BY <2>1, <2>2, <2>4
<1>8. PICK f : /\ \A n \in 1..4 : f[n] = Term(rule[n], am, "cash")
               /\ SumFunctionOnSet(f, 1..4) = 0
  <2>1. PICK t : t = [n \in 1..4 |-> Term(rule[n], am, "cash")]
    OBVIOUS
  <2>2. t[1] = 0 /\ t[2] = 0 /\ t[3] = 0 /\ t[4] = 0
    BY <1>2, <1>3, <2>1 DEF Reads, Term, MappingLine
  <2>3. \A n \in 1..4 : t[n] \in Int
    BY <2>2
  <2>4. SumFunctionOnSet(t, 1..4) = t[1] + t[2] + t[3] + t[4]
    <3>1. PICK j \in Nat : j = 4
      OBVIOUS
    <3>2. \A n \in 1..j : t[n] \in Int
      BY <2>3, <3>1
    <3>3. j >= 4 => SumFunctionOnSet(t, 1..4) = t[1] + t[2] + t[3] + t[4]
      BY <3>2, SumsOfFew
    <3> QED BY <3>1, <3>3
  <2> QED BY <2>1, <2>2, <2>4
<1>9. PICK g : /\ \A n \in 1..4 : g[n] = Term(rule[n], am, "receivable")
               /\ SumFunctionOnSet(g, 1..4) = x2
  <2>1. PICK t : t = [n \in 1..4 |-> Term(rule[n], am, "receivable")]
    OBVIOUS
  <2>2. t[1] = 0 /\ t[2] = x2 /\ t[3] = 0 /\ t[4] = 0
    BY <1>2, <1>3, <2>1 DEF Reads, Term, MappingLine
  <2>3. \A n \in 1..4 : t[n] \in Int
    BY <2>2
  <2>4. SumFunctionOnSet(t, 1..4) = t[1] + t[2] + t[3] + t[4]
    <3>1. PICK j \in Nat : j = 4
      OBVIOUS
    <3>2. \A n \in 1..j : t[n] \in Int
      BY <2>3, <3>1
    <3>3. j >= 4 => SumFunctionOnSet(t, 1..4) = t[1] + t[2] + t[3] + t[4]
      BY <3>2, SumsOfFew
    <3> QED BY <3>1, <3>3
  <2> QED BY <2>1, <2>2, <2>4
<1>10. PICK h : /\ \A n \in 1..4 : h[n] = Term(rule[n], am, "unearned")
               /\ SumFunctionOnSet(h, 1..4) = -x4
  <2>1. PICK t : t = [n \in 1..4 |-> Term(rule[n], am, "unearned")]
    OBVIOUS
  <2>2. t[1] = 0 /\ t[2] = 0 /\ t[3] = 0 /\ t[4] = -x4
    BY <1>2, <1>3, <2>1 DEF Reads, Term, MappingLine
  <2>3. \A n \in 1..4 : t[n] \in Int
    BY <2>2
  <2>4. SumFunctionOnSet(t, 1..4) = t[1] + t[2] + t[3] + t[4]
    <3>1. PICK j \in Nat : j = 4
      OBVIOUS
    <3>2. \A n \in 1..j : t[n] \in Int
      BY <2>3, <3>1
    <3>3. j >= 4 => SumFunctionOnSet(t, 1..4) = t[1] + t[2] + t[3] + t[4]
      BY <3>2, SumsOfFew
    <3> QED BY <3>1, <3>3
  <2> QED BY <2>1, <2>2, <2>4
<1>11. SidesAgree(rule, am, 4, d, c)
  BY <1>4, <1>6, <1>7 DEF SidesAgree, Readable, LegibleLine
<1>12. /\ TermsAre(rule, am, 4, "cash", f) /\ TermsAre(rule, am, 4, "receivable", g)
       /\ TermsAre(rule, am, 4, "unearned", h)
  BY <1>8, <1>9, <1>10 DEF TermsAre
<1>13. Moved(event, SumFunctionOnSet(f, 1..4), SumFunctionOnSet(g, 1..4),
             SumFunctionOnSet(h, 1..4))
  BY <1>3, <1>5, <1>11, <1>12, RuleMoves
<1> QED BY <1>8, <1>9, <1>10, <1>13

\* The lines of SettlementRule.
LEMMA SettlementLines ==
  /\ Len(SettlementRule) = 6 /\ DOMAIN SettlementRule = 1..6
  /\ SettlementRule[1] = MappingLine("DEBIT", "cash", "closure_ledger_payoff_total")
  /\ SettlementRule[2] = MappingLine("CREDIT", "receivable", "closure_ledger_payoff_total")
  /\ SettlementRule[3] = MappingLine("DEBIT", "unearned", "closure_ledger_profit_recognized")
  /\ SettlementRule[4] = MappingLine("CREDIT", "profit", "closure_ledger_profit_recognized")
  /\ SettlementRule[5] = MappingLine("DEBIT", "unearned", "closure_ledger_profit_rebated")
  /\ SettlementRule[6] = MappingLine("CREDIT", "receivable", "closure_ledger_profit_rebated")
<1>1. PICK l1, l2, l3, l4, l5, l6 :
        /\ l1 = MappingLine("DEBIT", "cash", "closure_ledger_payoff_total")
        /\ l2 = MappingLine("CREDIT", "receivable", "closure_ledger_payoff_total")
        /\ l3 = MappingLine("DEBIT", "unearned", "closure_ledger_profit_recognized")
        /\ l4 = MappingLine("CREDIT", "profit", "closure_ledger_profit_recognized")
        /\ l5 = MappingLine("DEBIT", "unearned", "closure_ledger_profit_rebated")
        /\ l6 = MappingLine("CREDIT", "receivable", "closure_ledger_profit_rebated")
  OBVIOUS
<1>2. PICK T : T = {l1, l2, l3, l4, l5, l6}
  OBVIOUS
<1>3. PICK s2 : s2 = <<l1, l2>> /\ s2 \in Seq(T) /\ Len(s2) = 2 /\ s2[1] = l1 /\ s2[2] = l2
  <2>1. <<l1, l2>> \in Seq(T)
    BY <1>2
  <2>2. Len(<<l1, l2>>) = 2 /\ <<l1, l2>>[1] = l1 /\ <<l1, l2>>[2] = l2
    OBVIOUS
  <2> QED BY <2>1, <2>2
<1>4. PICK s4 : s4 = s2 \o <<l3, l4>>
  OBVIOUS
<1>5. /\ s4 \in Seq(T) /\ Len(s4) = 4
      /\ s4[1] = l1 /\ s4[2] = l2 /\ s4[3] = l3 /\ s4[4] = l4
  <2>1. l3 \in T /\ l4 \in T
    BY <1>2
  <2>2. /\ s4 \in Seq(T) /\ Len(s4) = Len(s2) + 2
        /\ \A k \in 1..Len(s2) : s4[k] = s2[k]
        /\ s4[Len(s2) + 1] = l3 /\ s4[Len(s2) + 2] = l4
    <3>1. s2 \in Seq(T) /\ s4 = s2 \o <<l3, l4>>
      BY <1>3, <1>4
    <3> QED BY <2>1, <3>1, PairMore
  <2> QED BY <1>3, <2>2
<1>6. PICK s6 : s6 = s4 \o <<l5, l6>>
  OBVIOUS
<1>7. /\ s6 \in Seq(T) /\ Len(s6) = 6
      /\ s6[1] = l1 /\ s6[2] = l2 /\ s6[3] = l3 /\ s6[4] = l4 /\ s6[5] = l5 /\ s6[6] = l6
  <2>1. l5 \in T /\ l6 \in T
    BY <1>2
  <2>2. /\ s6 \in Seq(T) /\ Len(s6) = Len(s4) + 2
        /\ \A k \in 1..Len(s4) : s6[k] = s4[k]
        /\ s6[Len(s4) + 1] = l5 /\ s6[Len(s4) + 2] = l6
    <3>1. s4 \in Seq(T) /\ s6 = s4 \o <<l5, l6>>
      BY <1>5, <1>6
    <3> QED BY <2>1, <3>1, PairMore
  <2> QED BY <1>5, <2>2
<1>8. SettlementRule = s6
  BY <1>1, <1>3, <1>4, <1>6 DEF SettlementRule, Pair
<1>9. DOMAIN s6 = 1..6
  BY <1>7
<1> QED BY <1>1, <1>7, <1>8, <1>9

\* What the journal of an early settlement moves.
LEMMA SettlementMoves ==
  ASSUME NEW event, SeededRules[event.type] = SettlementRule,
         NEW x1 \in Nat, Reads(event, "closure_ledger_payoff_total", x1),
         NEW x2 \in Nat, Reads(event, "closure_ledger_profit_recognized", x2),
         NEW x3 \in Nat, Reads(event, "closure_ledger_profit_rebated", x3)
  PROVE  Moved(event, x1, -x1 - x3, x2 + x3)
<1>1. PICK rule : rule = SettlementRule
  OBVIOUS
<1>2. /\ Len(rule) = 6 /\ DOMAIN rule = 1..6
      /\ rule[1] = MappingLine("DEBIT", "cash", "closure_ledger_payoff_total")
      /\ rule[2] = MappingLine("CREDIT", "receivable", "closure_ledger_payoff_total")
      /\ rule[3] = MappingLine("DEBIT", "unearned", "closure_ledger_profit_recognized")
      /\ rule[4] = MappingLine("CREDIT", "profit", "closure_ledger_profit_recognized")
      /\ rule[5] = MappingLine("DEBIT", "unearned", "closure_ledger_profit_rebated")
      /\ rule[6] = MappingLine("CREDIT", "receivable", "closure_ledger_profit_rebated")
  BY <1>1, SettlementLines
<1>3. PICK am : am = event.amounts
  OBVIOUS
<1>4. \A n \in 1..6 : LegibleLine(rule[n], am) /\ am[rule[n].source] \in Nat
  <2>1. LegibleLine(rule[1], am) /\ am[rule[1].source] \in Nat
    BY <1>2, <1>3 DEF Reads, LegibleLine, MappingLine, Accounts, Sides
  <2>2. LegibleLine(rule[2], am) /\ am[rule[2].source] \in Nat
    BY <1>2, <1>3 DEF Reads, LegibleLine, MappingLine, Accounts, Sides
  <2>3. LegibleLine(rule[3], am) /\ am[rule[3].source] \in Nat
    BY <1>2, <1>3 DEF Reads, LegibleLine, MappingLine, Accounts, Sides
  <2>4. LegibleLine(rule[4], am) /\ am[rule[4].source] \in Nat
    BY <1>2, <1>3 DEF Reads, LegibleLine, MappingLine, Accounts, Sides
  <2>5. LegibleLine(rule[5], am) /\ am[rule[5].source] \in Nat
    BY <1>2, <1>3 DEF Reads, LegibleLine, MappingLine, Accounts, Sides
  <2>6. LegibleLine(rule[6], am) /\ am[rule[6].source] \in Nat
    BY <1>2, <1>3 DEF Reads, LegibleLine, MappingLine, Accounts, Sides
  <2> QED BY <2>1, <2>2, <2>3, <2>4, <2>5, <2>6
<1>5. Legible(event, rule, 6)
  BY <1>1, <1>2, <1>3, <1>4 DEF Legible
<1>6. PICK d : /\ \A n \in 1..6 : d[n] = SideTerm(rule[n], am, "DEBIT")
               /\ SumFunctionOnSet(d, 1..6) = x1 + x2 + x3
  <2>1. PICK t : t = [n \in 1..6 |-> SideTerm(rule[n], am, "DEBIT")]
    OBVIOUS
  <2>2. t[1] = x1 /\ t[2] = 0 /\ t[3] = x2 /\ t[4] = 0 /\ t[5] = x3 /\ t[6] = 0
    BY <1>2, <1>3, <2>1 DEF Reads, SideTerm, MappingLine
  <2>3. \A n \in 1..6 : t[n] \in Int
    BY <2>2
  <2>4. SumFunctionOnSet(t, 1..6) = t[1] + t[2] + t[3] + t[4] + t[5] + t[6]
    <3>1. PICK j \in Nat : j = 6
      OBVIOUS
    <3>2. \A n \in 1..j : t[n] \in Int
      BY <2>3, <3>1
    <3>3. j >= 6 => SumFunctionOnSet(t, 1..6) = t[1] + t[2] + t[3] + t[4] + t[5] + t[6]
      BY <3>2, SumsOfFew
    <3> QED BY <3>1, <3>3
  <2> QED BY <2>1, <2>2, <2>4
<1>7. PICK c : /\ \A n \in 1..6 : c[n] = SideTerm(rule[n], am, "CREDIT")
               /\ SumFunctionOnSet(c, 1..6) = x1 + x2 + x3
  <2>1. PICK t : t = [n \in 1..6 |-> SideTerm(rule[n], am, "CREDIT")]
    OBVIOUS
  <2>2. t[1] = 0 /\ t[2] = x1 /\ t[3] = 0 /\ t[4] = x2 /\ t[5] = 0 /\ t[6] = x3
    BY <1>2, <1>3, <2>1 DEF Reads, SideTerm, MappingLine
  <2>3. \A n \in 1..6 : t[n] \in Int
    BY <2>2
  <2>4. SumFunctionOnSet(t, 1..6) = t[1] + t[2] + t[3] + t[4] + t[5] + t[6]
    <3>1. PICK j \in Nat : j = 6
      OBVIOUS
    <3>2. \A n \in 1..j : t[n] \in Int
      BY <2>3, <3>1
    <3>3. j >= 6 => SumFunctionOnSet(t, 1..6) = t[1] + t[2] + t[3] + t[4] + t[5] + t[6]
      BY <3>2, SumsOfFew
    <3> QED BY <3>1, <3>3
  <2> QED BY <2>1, <2>2, <2>4
<1>8. PICK f : /\ \A n \in 1..6 : f[n] = Term(rule[n], am, "cash")
               /\ SumFunctionOnSet(f, 1..6) = x1
  <2>1. PICK t : t = [n \in 1..6 |-> Term(rule[n], am, "cash")]
    OBVIOUS
  <2>2. t[1] = x1 /\ t[2] = 0 /\ t[3] = 0 /\ t[4] = 0 /\ t[5] = 0 /\ t[6] = 0
    BY <1>2, <1>3, <2>1 DEF Reads, Term, MappingLine
  <2>3. \A n \in 1..6 : t[n] \in Int
    BY <2>2
  <2>4. SumFunctionOnSet(t, 1..6) = t[1] + t[2] + t[3] + t[4] + t[5] + t[6]
    <3>1. PICK j \in Nat : j = 6
      OBVIOUS
    <3>2. \A n \in 1..j : t[n] \in Int
      BY <2>3, <3>1
    <3>3. j >= 6 => SumFunctionOnSet(t, 1..6) = t[1] + t[2] + t[3] + t[4] + t[5] + t[6]
      BY <3>2, SumsOfFew
    <3> QED BY <3>1, <3>3
  <2> QED BY <2>1, <2>2, <2>4
<1>9. PICK g : /\ \A n \in 1..6 : g[n] = Term(rule[n], am, "receivable")
               /\ SumFunctionOnSet(g, 1..6) = -x1 - x3
  <2>1. PICK t : t = [n \in 1..6 |-> Term(rule[n], am, "receivable")]
    OBVIOUS
  <2>2. t[1] = 0 /\ t[2] = -x1 /\ t[3] = 0 /\ t[4] = 0 /\ t[5] = 0 /\ t[6] = -x3
    BY <1>2, <1>3, <2>1 DEF Reads, Term, MappingLine
  <2>3. \A n \in 1..6 : t[n] \in Int
    BY <2>2
  <2>4. SumFunctionOnSet(t, 1..6) = t[1] + t[2] + t[3] + t[4] + t[5] + t[6]
    <3>1. PICK j \in Nat : j = 6
      OBVIOUS
    <3>2. \A n \in 1..j : t[n] \in Int
      BY <2>3, <3>1
    <3>3. j >= 6 => SumFunctionOnSet(t, 1..6) = t[1] + t[2] + t[3] + t[4] + t[5] + t[6]
      BY <3>2, SumsOfFew
    <3> QED BY <3>1, <3>3
  <2> QED BY <2>1, <2>2, <2>4
<1>10. PICK h : /\ \A n \in 1..6 : h[n] = Term(rule[n], am, "unearned")
               /\ SumFunctionOnSet(h, 1..6) = x2 + x3
  <2>1. PICK t : t = [n \in 1..6 |-> Term(rule[n], am, "unearned")]
    OBVIOUS
  <2>2. t[1] = 0 /\ t[2] = 0 /\ t[3] = x2 /\ t[4] = 0 /\ t[5] = x3 /\ t[6] = 0
    BY <1>2, <1>3, <2>1 DEF Reads, Term, MappingLine
  <2>3. \A n \in 1..6 : t[n] \in Int
    BY <2>2
  <2>4. SumFunctionOnSet(t, 1..6) = t[1] + t[2] + t[3] + t[4] + t[5] + t[6]
    <3>1. PICK j \in Nat : j = 6
      OBVIOUS
    <3>2. \A n \in 1..j : t[n] \in Int
      BY <2>3, <3>1
    <3>3. j >= 6 => SumFunctionOnSet(t, 1..6) = t[1] + t[2] + t[3] + t[4] + t[5] + t[6]
      BY <3>2, SumsOfFew
    <3> QED BY <3>1, <3>3
  <2> QED BY <2>1, <2>2, <2>4
<1>11. SidesAgree(rule, am, 6, d, c)
  BY <1>4, <1>6, <1>7 DEF SidesAgree, Readable, LegibleLine
<1>12. /\ TermsAre(rule, am, 6, "cash", f) /\ TermsAre(rule, am, 6, "receivable", g)
       /\ TermsAre(rule, am, 6, "unearned", h)
  BY <1>8, <1>9, <1>10 DEF TermsAre
<1>13. Moved(event, SumFunctionOnSet(f, 1..6), SumFunctionOnSet(g, 1..6),
             SumFunctionOnSet(h, 1..6))
  BY <1>3, <1>5, <1>11, <1>12, RuleMoves
<1> QED BY <1>8, <1>9, <1>10, <1>13

\* The lines of ReturnRule.
LEMMA ReturnLines ==
  /\ Len(ReturnRule) = 8 /\ DOMAIN ReturnRule = 1..8
  /\ ReturnRule[1] = MappingLine("DEBIT", "unearned", "closure_ledger_return_profit_retained")
  /\ ReturnRule[2] = MappingLine("CREDIT", "profit", "closure_ledger_return_profit_retained")
  /\ ReturnRule[3] = MappingLine("DEBIT", "unearned", "closure_ledger_return_profit_waived")
  /\ ReturnRule[4] = MappingLine("CREDIT", "receivable", "closure_ledger_return_profit_waived")
  /\ ReturnRule[5] = MappingLine("DEBIT", "suspense", "closure_ledger_return_principal")
  /\ ReturnRule[6] = MappingLine("CREDIT", "receivable", "closure_ledger_return_principal")
  /\ ReturnRule[7] = MappingLine("DEBIT", "suspense", "closure_ledger_return_late_fee")
  /\ ReturnRule[8] = MappingLine("CREDIT", "receivable", "closure_ledger_return_late_fee")
<1>1. PICK l1, l2, l3, l4, l5, l6, l7, l8 :
        /\ l1 = MappingLine("DEBIT", "unearned", "closure_ledger_return_profit_retained")
        /\ l2 = MappingLine("CREDIT", "profit", "closure_ledger_return_profit_retained")
        /\ l3 = MappingLine("DEBIT", "unearned", "closure_ledger_return_profit_waived")
        /\ l4 = MappingLine("CREDIT", "receivable", "closure_ledger_return_profit_waived")
        /\ l5 = MappingLine("DEBIT", "suspense", "closure_ledger_return_principal")
        /\ l6 = MappingLine("CREDIT", "receivable", "closure_ledger_return_principal")
        /\ l7 = MappingLine("DEBIT", "suspense", "closure_ledger_return_late_fee")
        /\ l8 = MappingLine("CREDIT", "receivable", "closure_ledger_return_late_fee")
  OBVIOUS
<1>2. PICK T : T = {l1, l2, l3, l4, l5, l6, l7, l8}
  OBVIOUS
<1>3. PICK s2 : s2 = <<l1, l2>> /\ s2 \in Seq(T) /\ Len(s2) = 2 /\ s2[1] = l1 /\ s2[2] = l2
  <2>1. <<l1, l2>> \in Seq(T)
    BY <1>2
  <2>2. Len(<<l1, l2>>) = 2 /\ <<l1, l2>>[1] = l1 /\ <<l1, l2>>[2] = l2
    OBVIOUS
  <2> QED BY <2>1, <2>2
<1>4. PICK s4 : s4 = s2 \o <<l3, l4>>
  OBVIOUS
<1>5. /\ s4 \in Seq(T) /\ Len(s4) = 4
      /\ s4[1] = l1 /\ s4[2] = l2 /\ s4[3] = l3 /\ s4[4] = l4
  <2>1. l3 \in T /\ l4 \in T
    BY <1>2
  <2>2. /\ s4 \in Seq(T) /\ Len(s4) = Len(s2) + 2
        /\ \A k \in 1..Len(s2) : s4[k] = s2[k]
        /\ s4[Len(s2) + 1] = l3 /\ s4[Len(s2) + 2] = l4
    <3>1. s2 \in Seq(T) /\ s4 = s2 \o <<l3, l4>>
      BY <1>3, <1>4
    <3> QED BY <2>1, <3>1, PairMore
  <2> QED BY <1>3, <2>2
<1>6. PICK s6 : s6 = s4 \o <<l5, l6>>
  OBVIOUS
<1>7. /\ s6 \in Seq(T) /\ Len(s6) = 6
      /\ s6[1] = l1 /\ s6[2] = l2 /\ s6[3] = l3 /\ s6[4] = l4 /\ s6[5] = l5 /\ s6[6] = l6
  <2>1. l5 \in T /\ l6 \in T
    BY <1>2
  <2>2. /\ s6 \in Seq(T) /\ Len(s6) = Len(s4) + 2
        /\ \A k \in 1..Len(s4) : s6[k] = s4[k]
        /\ s6[Len(s4) + 1] = l5 /\ s6[Len(s4) + 2] = l6
    <3>1. s4 \in Seq(T) /\ s6 = s4 \o <<l5, l6>>
      BY <1>5, <1>6
    <3> QED BY <2>1, <3>1, PairMore
  <2> QED BY <1>5, <2>2
<1>8. PICK s8 : s8 = s6 \o <<l7, l8>>
  OBVIOUS
<1>9. /\ s8 \in Seq(T) /\ Len(s8) = 8
      /\ s8[1] = l1 /\ s8[2] = l2 /\ s8[3] = l3 /\ s8[4] = l4
      /\ s8[5] = l5 /\ s8[6] = l6 /\ s8[7] = l7 /\ s8[8] = l8
  <2>1. l7 \in T /\ l8 \in T
    BY <1>2
  <2>2. /\ s8 \in Seq(T) /\ Len(s8) = Len(s6) + 2
        /\ \A k \in 1..Len(s6) : s8[k] = s6[k]
        /\ s8[Len(s6) + 1] = l7 /\ s8[Len(s6) + 2] = l8
    <3>1. s6 \in Seq(T) /\ s8 = s6 \o <<l7, l8>>
      BY <1>7, <1>8
    <3> QED BY <2>1, <3>1, PairMore
  <2> QED BY <1>7, <2>2
<1>10. ReturnRule = s8
  BY <1>1, <1>3, <1>4, <1>6, <1>8 DEF ReturnRule, Pair
<1>11. DOMAIN s8 = 1..8
  BY <1>9
<1> QED BY <1>1, <1>9, <1>10, <1>11

\* What the journal of a return moves.
LEMMA ReturnMoves ==
  ASSUME NEW event, SeededRules[event.type] = ReturnRule,
         NEW x1 \in Nat, Reads(event, "closure_ledger_return_profit_retained", x1),
         NEW x2 \in Nat, Reads(event, "closure_ledger_return_profit_waived", x2),
         NEW x3 \in Nat, Reads(event, "closure_ledger_return_principal", x3),
         NEW x4 \in Nat, Reads(event, "closure_ledger_return_late_fee", x4)
  PROVE  Moved(event, 0, -x2 - x3 - x4, x1 + x2)
<1>1. PICK rule : rule = ReturnRule
  OBVIOUS
<1>2. /\ Len(rule) = 8 /\ DOMAIN rule = 1..8
      /\ rule[1] = MappingLine("DEBIT", "unearned", "closure_ledger_return_profit_retained")
      /\ rule[2] = MappingLine("CREDIT", "profit", "closure_ledger_return_profit_retained")
      /\ rule[3] = MappingLine("DEBIT", "unearned", "closure_ledger_return_profit_waived")
      /\ rule[4] = MappingLine("CREDIT", "receivable", "closure_ledger_return_profit_waived")
      /\ rule[5] = MappingLine("DEBIT", "suspense", "closure_ledger_return_principal")
      /\ rule[6] = MappingLine("CREDIT", "receivable", "closure_ledger_return_principal")
      /\ rule[7] = MappingLine("DEBIT", "suspense", "closure_ledger_return_late_fee")
      /\ rule[8] = MappingLine("CREDIT", "receivable", "closure_ledger_return_late_fee")
  BY <1>1, ReturnLines
<1>3. PICK am : am = event.amounts
  OBVIOUS
<1>4. \A n \in 1..8 : LegibleLine(rule[n], am) /\ am[rule[n].source] \in Nat
  <2>1. LegibleLine(rule[1], am) /\ am[rule[1].source] \in Nat
    BY <1>2, <1>3 DEF Reads, LegibleLine, MappingLine, Accounts, Sides
  <2>2. LegibleLine(rule[2], am) /\ am[rule[2].source] \in Nat
    BY <1>2, <1>3 DEF Reads, LegibleLine, MappingLine, Accounts, Sides
  <2>3. LegibleLine(rule[3], am) /\ am[rule[3].source] \in Nat
    BY <1>2, <1>3 DEF Reads, LegibleLine, MappingLine, Accounts, Sides
  <2>4. LegibleLine(rule[4], am) /\ am[rule[4].source] \in Nat
    BY <1>2, <1>3 DEF Reads, LegibleLine, MappingLine, Accounts, Sides
  <2>5. LegibleLine(rule[5], am) /\ am[rule[5].source] \in Nat
    BY <1>2, <1>3 DEF Reads, LegibleLine, MappingLine, Accounts, Sides
  <2>6. LegibleLine(rule[6], am) /\ am[rule[6].source] \in Nat
    BY <1>2, <1>3 DEF Reads, LegibleLine, MappingLine, Accounts, Sides
  <2>7. LegibleLine(rule[7], am) /\ am[rule[7].source] \in Nat
    BY <1>2, <1>3 DEF Reads, LegibleLine, MappingLine, Accounts, Sides
  <2>8. LegibleLine(rule[8], am) /\ am[rule[8].source] \in Nat
    BY <1>2, <1>3 DEF Reads, LegibleLine, MappingLine, Accounts, Sides
  <2> QED BY <2>1, <2>2, <2>3, <2>4, <2>5, <2>6, <2>7, <2>8
<1>5. Legible(event, rule, 8)
  BY <1>1, <1>2, <1>3, <1>4 DEF Legible
<1>6. PICK d : /\ \A n \in 1..8 : d[n] = SideTerm(rule[n], am, "DEBIT")
               /\ SumFunctionOnSet(d, 1..8) = x1 + x2 + x3 + x4
  <2>1. PICK t : t = [n \in 1..8 |-> SideTerm(rule[n], am, "DEBIT")]
    OBVIOUS
  <2>2. /\ t[1] = x1 /\ t[2] = 0 /\ t[3] = x2 /\ t[4] = 0
        /\ t[5] = x3 /\ t[6] = 0 /\ t[7] = x4 /\ t[8] = 0
    BY <1>2, <1>3, <2>1 DEF Reads, SideTerm, MappingLine
  <2>3. \A n \in 1..8 : t[n] \in Int
    BY <2>2
  <2>4. SumFunctionOnSet(t, 1..8) = t[1] + t[2] + t[3] + t[4] + t[5] + t[6] + t[7] + t[8]
    <3>1. PICK j \in Nat : j = 8
      OBVIOUS
    <3>2. \A n \in 1..j : t[n] \in Int
      BY <2>3, <3>1
    <3>3. j >= 8 => SumFunctionOnSet(t, 1..8)
                      = t[1] + t[2] + t[3] + t[4] + t[5] + t[6] + t[7] + t[8]
      BY <3>2, SumsOfFew
    <3> QED BY <3>1, <3>3
  <2> QED BY <2>1, <2>2, <2>4
<1>7. PICK c : /\ \A n \in 1..8 : c[n] = SideTerm(rule[n], am, "CREDIT")
               /\ SumFunctionOnSet(c, 1..8) = x1 + x2 + x3 + x4
  <2>1. PICK t : t = [n \in 1..8 |-> SideTerm(rule[n], am, "CREDIT")]
    OBVIOUS
  <2>2. /\ t[1] = 0 /\ t[2] = x1 /\ t[3] = 0 /\ t[4] = x2
        /\ t[5] = 0 /\ t[6] = x3 /\ t[7] = 0 /\ t[8] = x4
    BY <1>2, <1>3, <2>1 DEF Reads, SideTerm, MappingLine
  <2>3. \A n \in 1..8 : t[n] \in Int
    BY <2>2
  <2>4. SumFunctionOnSet(t, 1..8) = t[1] + t[2] + t[3] + t[4] + t[5] + t[6] + t[7] + t[8]
    <3>1. PICK j \in Nat : j = 8
      OBVIOUS
    <3>2. \A n \in 1..j : t[n] \in Int
      BY <2>3, <3>1
    <3>3. j >= 8 => SumFunctionOnSet(t, 1..8)
                      = t[1] + t[2] + t[3] + t[4] + t[5] + t[6] + t[7] + t[8]
      BY <3>2, SumsOfFew
    <3> QED BY <3>1, <3>3
  <2> QED BY <2>1, <2>2, <2>4
<1>8. PICK f : /\ \A n \in 1..8 : f[n] = Term(rule[n], am, "cash")
               /\ SumFunctionOnSet(f, 1..8) = 0
  <2>1. PICK t : t = [n \in 1..8 |-> Term(rule[n], am, "cash")]
    OBVIOUS
  <2>2. t[1] = 0 /\ t[2] = 0 /\ t[3] = 0 /\ t[4] = 0 /\ t[5] = 0 /\ t[6] = 0 /\ t[7] = 0 /\ t[8] = 0
    BY <1>2, <1>3, <2>1 DEF Reads, Term, MappingLine
  <2>3. \A n \in 1..8 : t[n] \in Int
    BY <2>2
  <2>4. SumFunctionOnSet(t, 1..8) = t[1] + t[2] + t[3] + t[4] + t[5] + t[6] + t[7] + t[8]
    <3>1. PICK j \in Nat : j = 8
      OBVIOUS
    <3>2. \A n \in 1..j : t[n] \in Int
      BY <2>3, <3>1
    <3>3. j >= 8 => SumFunctionOnSet(t, 1..8)
                      = t[1] + t[2] + t[3] + t[4] + t[5] + t[6] + t[7] + t[8]
      BY <3>2, SumsOfFew
    <3> QED BY <3>1, <3>3
  <2> QED BY <2>1, <2>2, <2>4
<1>9. PICK g : /\ \A n \in 1..8 : g[n] = Term(rule[n], am, "receivable")
               /\ SumFunctionOnSet(g, 1..8) = -x2 - x3 - x4
  <2>1. PICK t : t = [n \in 1..8 |-> Term(rule[n], am, "receivable")]
    OBVIOUS
  <2>2. /\ t[1] = 0 /\ t[2] = 0 /\ t[3] = 0 /\ t[4] = -x2
        /\ t[5] = 0 /\ t[6] = -x3 /\ t[7] = 0 /\ t[8] = -x4
    BY <1>2, <1>3, <2>1 DEF Reads, Term, MappingLine
  <2>3. \A n \in 1..8 : t[n] \in Int
    BY <2>2
  <2>4. SumFunctionOnSet(t, 1..8) = t[1] + t[2] + t[3] + t[4] + t[5] + t[6] + t[7] + t[8]
    <3>1. PICK j \in Nat : j = 8
      OBVIOUS
    <3>2. \A n \in 1..j : t[n] \in Int
      BY <2>3, <3>1
    <3>3. j >= 8 => SumFunctionOnSet(t, 1..8)
                      = t[1] + t[2] + t[3] + t[4] + t[5] + t[6] + t[7] + t[8]
      BY <3>2, SumsOfFew
    <3> QED BY <3>1, <3>3
  <2> QED BY <2>1, <2>2, <2>4
<1>10. PICK h : /\ \A n \in 1..8 : h[n] = Term(rule[n], am, "unearned")
               /\ SumFunctionOnSet(h, 1..8) = x1 + x2
  <2>1. PICK t : t = [n \in 1..8 |-> Term(rule[n], am, "unearned")]
    OBVIOUS
  <2>2. /\ t[1] = x1 /\ t[2] = 0 /\ t[3] = x2 /\ t[4] = 0
        /\ t[5] = 0 /\ t[6] = 0 /\ t[7] = 0 /\ t[8] = 0
    BY <1>2, <1>3, <2>1 DEF Reads, Term, MappingLine
  <2>3. \A n \in 1..8 : t[n] \in Int
    BY <2>2
  <2>4. SumFunctionOnSet(t, 1..8) = t[1] + t[2] + t[3] + t[4] + t[5] + t[6] + t[7] + t[8]
    <3>1. PICK j \in Nat : j = 8
      OBVIOUS
    <3>2. \A n \in 1..j : t[n] \in Int
      BY <2>3, <3>1
    <3>3. j >= 8 => SumFunctionOnSet(t, 1..8)
                      = t[1] + t[2] + t[3] + t[4] + t[5] + t[6] + t[7] + t[8]
      BY <3>2, SumsOfFew
    <3> QED BY <3>1, <3>3
  <2> QED BY <2>1, <2>2, <2>4
<1>11. SidesAgree(rule, am, 8, d, c)
  BY <1>4, <1>6, <1>7 DEF SidesAgree, Readable, LegibleLine
<1>12. /\ TermsAre(rule, am, 8, "cash", f) /\ TermsAre(rule, am, 8, "receivable", g)
       /\ TermsAre(rule, am, 8, "unearned", h)
  BY <1>8, <1>9, <1>10 DEF TermsAre
<1>13. Moved(event, SumFunctionOnSet(f, 1..8), SumFunctionOnSet(g, 1..8),
             SumFunctionOnSet(h, 1..8))
  BY <1>3, <1>5, <1>11, <1>12, RuleMoves
<1> QED BY <1>8, <1>9, <1>10, <1>13

\* The lines of WriteOffRule.
LEMMA WriteOffLines ==
  /\ Len(WriteOffRule) = 5 /\ DOMAIN WriteOffRule = 1..5
  /\ WriteOffRule[1] = MappingLine("DEBIT", "allowance", "provision_used")
  /\ WriteOffRule[2] = MappingLine("DEBIT", "write_off", "write_off_expense_excess")
  /\ WriteOffRule[3] = MappingLine("CREDIT", "receivable", "written_off_principal")
  /\ WriteOffRule[4] = MappingLine("CREDIT", "receivable", "written_off_profit")
  /\ WriteOffRule[5] = MappingLine("CREDIT", "receivable", "written_off_late_fee")
BY DEF WriteOffRule

\* What the journal of an executed write-off moves.
LEMMA WriteOffMoves ==
  ASSUME NEW event, SeededRules[event.type] = WriteOffRule,
         NEW x1 \in Nat, Reads(event, "provision_used", x1),
         NEW x2 \in Nat, Reads(event, "write_off_expense_excess", x2),
         NEW x3 \in Nat, Reads(event, "written_off_principal", x3),
         NEW x4 \in Nat, Reads(event, "written_off_profit", x4),
         NEW x5 \in Nat, Reads(event, "written_off_late_fee", x5),
         x1 + x2 = x3 + x4 + x5
  PROVE  Moved(event, 0, -x3 - x4 - x5, 0)
<1>1. PICK rule : rule = WriteOffRule
  OBVIOUS
<1>2. /\ Len(rule) = 5 /\ DOMAIN rule = 1..5
      /\ rule[1] = MappingLine("DEBIT", "allowance", "provision_used")
      /\ rule[2] = MappingLine("DEBIT", "write_off", "write_off_expense_excess")
      /\ rule[3] = MappingLine("CREDIT", "receivable", "written_off_principal")
      /\ rule[4] = MappingLine("CREDIT", "receivable", "written_off_profit")
      /\ rule[5] = MappingLine("CREDIT", "receivable", "written_off_late_fee")
  BY <1>1, WriteOffLines
<1>3. PICK am : am = event.amounts
  OBVIOUS
<1>4. \A n \in 1..5 : LegibleLine(rule[n], am) /\ am[rule[n].source] \in Nat
  <2>1. LegibleLine(rule[1], am) /\ am[rule[1].source] \in Nat
    BY <1>2, <1>3 DEF Reads, LegibleLine, MappingLine, Accounts, Sides
  <2>2. LegibleLine(rule[2], am) /\ am[rule[2].source] \in Nat
    BY <1>2, <1>3 DEF Reads, LegibleLine, MappingLine, Accounts, Sides
  <2>3. LegibleLine(rule[3], am) /\ am[rule[3].source] \in Nat
    BY <1>2, <1>3 DEF Reads, LegibleLine, MappingLine, Accounts, Sides
  <2>4. LegibleLine(rule[4], am) /\ am[rule[4].source] \in Nat
    BY <1>2, <1>3 DEF Reads, LegibleLine, MappingLine, Accounts, Sides
  <2>5. LegibleLine(rule[5], am) /\ am[rule[5].source] \in Nat
    BY <1>2, <1>3 DEF Reads, LegibleLine, MappingLine, Accounts, Sides
  <2> QED BY <2>1, <2>2, <2>3, <2>4, <2>5
<1>5. Legible(event, rule, 5)
  BY <1>1, <1>2, <1>3, <1>4 DEF Legible
<1>6. PICK d : /\ \A n \in 1..5 : d[n] = SideTerm(rule[n], am, "DEBIT")
               /\ SumFunctionOnSet(d, 1..5) = x1 + x2
  <2>1. PICK t : t = [n \in 1..5 |-> SideTerm(rule[n], am, "DEBIT")]
    OBVIOUS
  <2>2. t[1] = x1 /\ t[2] = x2 /\ t[3] = 0 /\ t[4] = 0 /\ t[5] = 0
    BY <1>2, <1>3, <2>1 DEF Reads, SideTerm, MappingLine
  <2>3. \A n \in 1..5 : t[n] \in Int
    BY <2>2
  <2>4. SumFunctionOnSet(t, 1..5) = t[1] + t[2] + t[3] + t[4] + t[5]
    <3>1. PICK j \in Nat : j = 5
      OBVIOUS
    <3>2. \A n \in 1..j : t[n] \in Int
      BY <2>3, <3>1
    <3>3. j >= 5 => SumFunctionOnSet(t, 1..5) = t[1] + t[2] + t[3] + t[4] + t[5]
      BY <3>2, SumsOfFew
    <3> QED BY <3>1, <3>3
  <2> QED BY <2>1, <2>2, <2>4
<1>7. PICK c : /\ \A n \in 1..5 : c[n] = SideTerm(rule[n], am, "CREDIT")
               /\ SumFunctionOnSet(c, 1..5) = x3 + x4 + x5
  <2>1. PICK t : t = [n \in 1..5 |-> SideTerm(rule[n], am, "CREDIT")]
    OBVIOUS
  <2>2. t[1] = 0 /\ t[2] = 0 /\ t[3] = x3 /\ t[4] = x4 /\ t[5] = x5
    BY <1>2, <1>3, <2>1 DEF Reads, SideTerm, MappingLine
  <2>3. \A n \in 1..5 : t[n] \in Int
    BY <2>2
  <2>4. SumFunctionOnSet(t, 1..5) = t[1] + t[2] + t[3] + t[4] + t[5]
    <3>1. PICK j \in Nat : j = 5
      OBVIOUS
    <3>2. \A n \in 1..j : t[n] \in Int
      BY <2>3, <3>1
    <3>3. j >= 5 => SumFunctionOnSet(t, 1..5) = t[1] + t[2] + t[3] + t[4] + t[5]
      BY <3>2, SumsOfFew
    <3> QED BY <3>1, <3>3
  <2> QED BY <2>1, <2>2, <2>4
<1>8. PICK f : /\ \A n \in 1..5 : f[n] = Term(rule[n], am, "cash")
               /\ SumFunctionOnSet(f, 1..5) = 0
  <2>1. PICK t : t = [n \in 1..5 |-> Term(rule[n], am, "cash")]
    OBVIOUS
  <2>2. t[1] = 0 /\ t[2] = 0 /\ t[3] = 0 /\ t[4] = 0 /\ t[5] = 0
    BY <1>2, <1>3, <2>1 DEF Reads, Term, MappingLine
  <2>3. \A n \in 1..5 : t[n] \in Int
    BY <2>2
  <2>4. SumFunctionOnSet(t, 1..5) = t[1] + t[2] + t[3] + t[4] + t[5]
    <3>1. PICK j \in Nat : j = 5
      OBVIOUS
    <3>2. \A n \in 1..j : t[n] \in Int
      BY <2>3, <3>1
    <3>3. j >= 5 => SumFunctionOnSet(t, 1..5) = t[1] + t[2] + t[3] + t[4] + t[5]
      BY <3>2, SumsOfFew
    <3> QED BY <3>1, <3>3
  <2> QED BY <2>1, <2>2, <2>4
<1>9. PICK g : /\ \A n \in 1..5 : g[n] = Term(rule[n], am, "receivable")
               /\ SumFunctionOnSet(g, 1..5) = -x3 - x4 - x5
  <2>1. PICK t : t = [n \in 1..5 |-> Term(rule[n], am, "receivable")]
    OBVIOUS
  <2>2. t[1] = 0 /\ t[2] = 0 /\ t[3] = -x3 /\ t[4] = -x4 /\ t[5] = -x5
    BY <1>2, <1>3, <2>1 DEF Reads, Term, MappingLine
  <2>3. \A n \in 1..5 : t[n] \in Int
    BY <2>2
  <2>4. SumFunctionOnSet(t, 1..5) = t[1] + t[2] + t[3] + t[4] + t[5]
    <3>1. PICK j \in Nat : j = 5
      OBVIOUS
    <3>2. \A n \in 1..j : t[n] \in Int
      BY <2>3, <3>1
    <3>3. j >= 5 => SumFunctionOnSet(t, 1..5) = t[1] + t[2] + t[3] + t[4] + t[5]
      BY <3>2, SumsOfFew
    <3> QED BY <3>1, <3>3
  <2> QED BY <2>1, <2>2, <2>4
<1>10. PICK h : /\ \A n \in 1..5 : h[n] = Term(rule[n], am, "unearned")
               /\ SumFunctionOnSet(h, 1..5) = 0
  <2>1. PICK t : t = [n \in 1..5 |-> Term(rule[n], am, "unearned")]
    OBVIOUS
  <2>2. t[1] = 0 /\ t[2] = 0 /\ t[3] = 0 /\ t[4] = 0 /\ t[5] = 0
    BY <1>2, <1>3, <2>1 DEF Reads, Term, MappingLine
  <2>3. \A n \in 1..5 : t[n] \in Int
    BY <2>2
  <2>4. SumFunctionOnSet(t, 1..5) = t[1] + t[2] + t[3] + t[4] + t[5]
    <3>1. PICK j \in Nat : j = 5
      OBVIOUS
    <3>2. \A n \in 1..j : t[n] \in Int
      BY <2>3, <3>1
    <3>3. j >= 5 => SumFunctionOnSet(t, 1..5) = t[1] + t[2] + t[3] + t[4] + t[5]
      BY <3>2, SumsOfFew
    <3> QED BY <3>1, <3>3
  <2> QED BY <2>1, <2>2, <2>4
<1>11. SidesAgree(rule, am, 5, d, c)
  BY <1>4, <1>6, <1>7 DEF SidesAgree, Readable, LegibleLine
<1>12. /\ TermsAre(rule, am, 5, "cash", f) /\ TermsAre(rule, am, 5, "receivable", g)
       /\ TermsAre(rule, am, 5, "unearned", h)
  BY <1>8, <1>9, <1>10 DEF TermsAre
<1>13. Moved(event, SumFunctionOnSet(f, 1..5), SumFunctionOnSet(g, 1..5),
             SumFunctionOnSet(h, 1..5))
  BY <1>3, <1>5, <1>11, <1>12, RuleMoves
<1> QED BY <1>8, <1>9, <1>10, <1>13

\* An account of a pair.
At(a, debit, credit, x) == IF a = debit THEN x ELSE IF a = credit THEN -x ELSE 0

\* What the journal of a pair moves.
LEMMA PairMoves ==
  ASSUME NEW event, NEW debit \in Accounts, NEW credit \in Accounts, debit # credit,
         SeededRules[event.type] = Pair(debit, credit, "event_amount"), NEW x \in Nat,
         "event_amount" \in DOMAIN event.amounts, event.amounts["event_amount"] = x
  PROVE  Moved(event, At("cash", debit, credit, x), At("receivable", debit, credit, x),
               At("unearned", debit, credit, x))
<1>1. PICK p, q : /\ p = MappingLine("DEBIT", debit, "event_amount")
                  /\ q = MappingLine("CREDIT", credit, "event_amount")
  OBVIOUS
<1>2. PICK rule : rule = <<p, q>>
  OBVIOUS
<1>3. Len(rule) = 2 /\ DOMAIN rule = 1..2 /\ rule[1] = p /\ rule[2] = q
  BY <1>2
<1>4. PICK am : am = event.amounts
  OBVIOUS
<1>5. \A n \in 1..2 : LegibleLine(rule[n], am) /\ am[rule[n].source] \in Nat
  <2>1. LegibleLine(p, am) /\ am[p.source] \in Nat
    BY <1>1, <1>4 DEF LegibleLine, MappingLine, Sides
  <2>2. LegibleLine(q, am) /\ am[q.source] \in Nat
    BY <1>1, <1>4 DEF LegibleLine, MappingLine, Sides
  <2> QED BY <1>3, <2>1, <2>2
<1>6. Legible(event, rule, 2)
  BY <1>1, <1>2, <1>3, <1>4, <1>5 DEF Legible, Pair
<1>7. PICK m \in Nat : m = 2
  OBVIOUS
<1>8. ASSUME NEW t, \A n \in 1..2 : t[n] \in Int
      PROVE  SumFunctionOnSet(t, 1..2) = t[1] + t[2]
  <2>1. \A n \in 1..m : t[n] \in Int
    BY <1>7, <1>8
  <2>2. m >= 2 => SumFunctionOnSet(t, 1..2) = t[1] + t[2]
    BY <2>1, SumsOfFew
  <2> QED BY <1>7, <2>2
<1>9. PICK d : /\ \A n \in 1..2 : d[n] = SideTerm(rule[n], am, "DEBIT")
               /\ SumFunctionOnSet(d, 1..2) = x
  <2>1. PICK t : t = [n \in 1..2 |-> SideTerm(rule[n], am, "DEBIT")]
    OBVIOUS
  <2>2. t[1] = x /\ t[2] = 0
    BY <1>1, <1>3, <1>4, <2>1 DEF SideTerm, MappingLine
  <2>3. \A n \in 1..2 : t[n] \in Int
    BY <2>2
  <2> QED BY <1>8, <2>1, <2>2, <2>3
<1>10. PICK c : /\ \A n \in 1..2 : c[n] = SideTerm(rule[n], am, "CREDIT")
                /\ SumFunctionOnSet(c, 1..2) = x
  <2>1. PICK t : t = [n \in 1..2 |-> SideTerm(rule[n], am, "CREDIT")]
    OBVIOUS
  <2>2. t[1] = 0 /\ t[2] = x
    BY <1>1, <1>3, <1>4, <2>1 DEF SideTerm, MappingLine
  <2>3. \A n \in 1..2 : t[n] \in Int
    BY <2>2
  <2> QED BY <1>8, <2>1, <2>2, <2>3
<1>11. ASSUME NEW a
       PROVE  \E f : TermsAre(rule, am, 2, a, f)
                     /\ SumFunctionOnSet(f, 1..2) = At(a, debit, credit, x)
  <2>1. PICK t : t = [n \in 1..2 |-> Term(rule[n], am, a)]
    OBVIOUS
  <2>2. t[1] = (IF a = debit THEN x ELSE 0) /\ t[2] = (IF a = credit THEN -x ELSE 0)
    BY <1>1, <1>3, <1>4, <2>1 DEF Term, MappingLine
  <2>3. \A n \in 1..2 : t[n] \in Int
    BY <2>2
  <2>4. SumFunctionOnSet(t, 1..2) = t[1] + t[2]
    BY <1>8, <2>3
  <2>5. t[1] + t[2] = At(a, debit, credit, x)
    BY <2>2 DEF At
  <2> QED BY <2>1, <2>4, <2>5 DEF TermsAre
<1>12. PICK f, g, h :
         /\ TermsAre(rule, am, 2, "cash", f) /\ TermsAre(rule, am, 2, "receivable", g)
         /\ TermsAre(rule, am, 2, "unearned", h)
         /\ SumFunctionOnSet(f, 1..2) = At("cash", debit, credit, x)
         /\ SumFunctionOnSet(g, 1..2) = At("receivable", debit, credit, x)
         /\ SumFunctionOnSet(h, 1..2) = At("unearned", debit, credit, x)
  BY <1>11
<1>13. SidesAgree(rule, am, 2, d, c)
  BY <1>5, <1>9, <1>10 DEF SidesAgree, Readable, LegibleLine
<1>14. Moved(event, SumFunctionOnSet(f, 1..2), SumFunctionOnSet(g, 1..2), SumFunctionOnSet(h, 1..2))
  BY <1>4, <1>6, <1>12, <1>13, RuleMoves
<1> QED BY <1>12, <1>14

\* A rule with no line for the three accounts moves nothing there.
LEMMA PassesBy ==
  ASSUME NEW event, NEW rule, NEW m, Legible(event, rule, m),
         \A n \in DOMAIN rule : rule[n].account \notin {"cash", "receivable", "unearned"}
  PROVE  Moved(event, 0, 0, 0)
<1>1. IsFiniteSet(DOMAIN rule)
  BY UpToIsFinite DEF Legible
<1>2. ASSUME NEW a \in {"cash", "receivable", "unearned"}
      PROVE  Balance(LinesOf(rule, event), a) = 0
  <2>1. \A n \in DOMAIN rule : rule[n].account # a
    OBVIOUS
  <2> QED BY <1>1, <2>1, JournalPassesBy DEF LinesOf
<1>3. PICK v : v = ShiftOf(rule, event)
  OBVIOUS
<1>4. v["cash"] = 0 /\ v["receivable"] = 0 /\ v["unearned"] = 0
  BY <1>2, <1>3 DEF ShiftOf, Accounts
<1>5. Shifts(event, v)
  BY <1>3, JournaliseAdds
<1> QED BY <1>4, <1>5 DEF Moved

\* An event without a journal.
LEMMA SummaryMoves ==
  ASSUME NEW event, SeededRules[event.type] = <<>>
  PROVE  Moved(event, 0, 0, 0)
<1>1. PICK rule : rule = <<>>
  OBVIOUS
<1>2. Len(rule) = 0 /\ DOMAIN rule = 1..0 /\ DOMAIN rule = {}
  BY <1>1
<1>3. Legible(event, rule, 0)
  BY <1>1, <1>2 DEF Legible
<1> QED BY <1>2, <1>3, PassesBy

\* A provision, or the release of one.
LEMMA ProvisionMoves ==
  ASSUME NEW event, SeededRules[event.type] = SignedPair("impairment", "allowance"),
         "event_amount" \in DOMAIN event.amounts, event.amounts["event_amount"] \in Int
  PROVE  Moved(event, 0, 0, 0)
<1>1. PICK rule : rule = SignedPair("impairment", "allowance")
  OBVIOUS
<1>2. PICK p, q : /\ p = MappingLine("DEBIT", "impairment", "event_amount")
                  /\ q = MappingLine("CREDIT", "allowance", "event_amount")
  OBVIOUS
<1>3. Pair("impairment", "allowance", "event_amount")[1] = p
      /\ Pair("impairment", "allowance", "event_amount")[2] = q
  BY <1>2 DEF Pair
<1>4. rule = <<[p EXCEPT !.reverse = TRUE], [q EXCEPT !.reverse = TRUE]>>
  BY <1>1, <1>3 DEF SignedPair
<1>5. Len(rule) = 2 /\ DOMAIN rule = 1..2
  BY <1>4
<1>6. rule[1] = [p EXCEPT !.reverse = TRUE] /\ rule[2] = [q EXCEPT !.reverse = TRUE]
  BY <1>4
<1>7. /\ rule[1].account = "impairment" /\ rule[1].side = "DEBIT"
      /\ rule[1].source = "event_amount"
  BY <1>2, <1>6 DEF MappingLine
<1>8. /\ rule[2].account = "allowance" /\ rule[2].side = "CREDIT"
      /\ rule[2].source = "event_amount"
  BY <1>2, <1>6 DEF MappingLine
<1>9. Legible(event, rule, 2)
  <2>1. LegibleLine(rule[1], event.amounts)
    BY <1>7 DEF LegibleLine, Sides, Accounts
  <2>2. LegibleLine(rule[2], event.amounts)
    BY <1>8 DEF LegibleLine, Sides, Accounts
  <2> QED BY <1>1, <1>5, <2>1, <2>2 DEF Legible
<1>10. \A n \in DOMAIN rule : rule[n].account \notin {"cash", "receivable", "unearned"}
  BY <1>5, <1>7, <1>8
<1> QED BY <1>9, <1>10, PassesBy
-------------------------------------------------------------------------------
\* The events of a handler.

\* The events of the list s add x to cash, y to the receivable and z to unearned profit.
Listed(s, x, y, z) ==
  \E xs, ys, zs :
    /\ \A k \in 1..Len(s) : Moved(s[k], xs[k], ys[k], zs[k])
    /\ x = SumFunctionOnSet(xs, 1..Len(s))
    /\ y = SumFunctionOnSet(ys, 1..Len(s))
    /\ z = SumFunctionOnSet(zs, 1..Len(s))

Gains(x, y, z) == /\ books' \in Books
                  /\ books'["cash"] = books["cash"] + x
                  /\ books'["receivable"] = books["receivable"] + y
                  /\ books'["unearned"] = books["unearned"] + z

\* What a journal moves are numbers.
LEMMA MovedMeaning ==
  ASSUME NEW e, NEW x, NEW y, NEW z, Moved(e, x, y, z)
  PROVE  x \in Int /\ y \in Int /\ z \in Int
BY DEF Moved, Shifts, Books, Accounts

\* Booking a list of events adds what they move together.
LEMMA BookGains ==
  ASSUME books \in Books, NEW n \in Nat, NEW s, Len(s) = n, NEW x, NEW y, NEW z,
         Listed(s, x, y, z), Book(s)
  PROVE  Gains(x, y, z) /\ x \in Int /\ y \in Int /\ z \in Int
<1>1. PICK xs, ys, zs :
        /\ \A k \in 1..n : Moved(s[k], xs[k], ys[k], zs[k])
        /\ x = SumFunctionOnSet(xs, 1..n) /\ y = SumFunctionOnSet(ys, 1..n)
        /\ z = SumFunctionOnSet(zs, 1..n)
  BY DEF Listed
<1> DEFINE Is(k, v) == /\ Shifts(s[k], v) /\ v["cash"] = xs[k] /\ v["receivable"] = ys[k]
                       /\ v["unearned"] = zs[k]
<1>2. PICK moved : moved = [k \in 1..n |-> CHOOSE v : Is(k, v)]
  OBVIOUS
<1>3. ASSUME NEW k \in 1..n PROVE Is(k, moved[k])
  <2>1. \E v : Is(k, v)
    BY <1>1 DEF Moved
  <2> QED BY <1>2, <2>1
<1>4. DOMAIN moved = 1..n /\ moved = [k \in 1..n |-> moved[k]]
  BY <1>2
<1>5. \A k \in 1..n : /\ Shifts(s[k], moved[k]) /\ moved[k]["cash"] = xs[k]
                      /\ moved[k]["receivable"] = ys[k] /\ moved[k]["unearned"] = zs[k]
  BY <1>3
<1> HIDE DEF Is
<1>6. books' = Sums(books, moved, n) /\ books' \in Books
  BY <1>4, <1>5, BookAdds
<1>7. ASSUME NEW a \in Accounts, NEW t, \A k \in 1..n : moved[k][a] = t[k]
      PROVE  /\ books'[a] = books[a] + SumFunctionOnSet(t, 1..n)
             /\ SumFunctionOnSet(t, 1..n) \in Int
  <2>1. PICK f : f = ColumnOf(moved, a)
    OBVIOUS
  <2>2. \A k \in 1..n : f[k] \in Int /\ t[k] = f[k] /\ t[k] \in Int
    <3>1. \A k \in 1..n : moved[k][a] \in Int
      BY <1>5 DEF Shifts, Books
    <3> QED BY <1>4, <1>7, <2>1, <3>1 DEF ColumnOf
  <2>3. IsFiniteSet(1..n)
    BY UpToIsFinite
  <2>4. SumFunctionOnSet(f, 1..n) = SumFunctionOnSet(t, 1..n) /\ SumFunctionOnSet(t, 1..n) \in Int
    <3>1. PICK S : S = 1..n
      OBVIOUS
    <3>2. IsFiniteSet(S) /\ \A k \in S : t[k] \in Int /\ t[k] = f[k]
      BY <2>2, <2>3, <3>1
    <3>3. SumFunctionOnSet(f, S) = SumFunctionOnSet(t, S)
      BY <3>2, SumSame
    <3>4. SumFunctionOnSet(t, S) \in Int
      BY <3>2, SumInt
    <3> QED BY <3>1, <3>3, <3>4
  <2>5. books'[a] = books[a] + SumFunctionOnSet(f, 1..n)
    BY <1>6, <2>1 DEF Sums
  <2> QED BY <2>4, <2>5
<1>8. "cash" \in Accounts /\ "receivable" \in Accounts /\ "unearned" \in Accounts
  BY DEF Accounts
<1>9. books'["cash"] = books["cash"] + x /\ x \in Int
  BY <1>1, <1>5, <1>7, <1>8
<1>10. books'["receivable"] = books["receivable"] + y /\ y \in Int
  BY <1>1, <1>5, <1>7, <1>8
<1>11. books'["unearned"] = books["unearned"] + z /\ z \in Int
  BY <1>1, <1>5, <1>7, <1>8
<1> QED BY <1>6, <1>9, <1>10, <1>11 DEF Gains

\* A list of one event moves what the event moves.
LEMMA ListedOne ==
  ASSUME NEW s, NEW e, Len(s) = 1, s[1] = e, NEW x, NEW y, NEW z, Moved(e, x, y, z)
  PROVE  Listed(s, x, y, z)
<1>1. PICK xs, ys, zs : /\ xs = [k \in 1..1 |-> x] /\ ys = [k \in 1..1 |-> y]
                        /\ zs = [k \in 1..1 |-> z]
  OBVIOUS
<1>2. \A k \in 1..1 : k = 1
  OBVIOUS
<1>3. \A k \in 1..Len(s) : Moved(s[k], xs[k], ys[k], zs[k])
  BY <1>1, <1>2
<1>4. ASSUME NEW t, NEW u \in Int, t[1] = u PROVE u = SumFunctionOnSet(t, 1..1)
  <2>1. PICK m \in Nat : m = 1
    OBVIOUS
  <2>2. \A n \in 1..m : t[n] \in Int
    BY <1>2, <1>4, <2>1
  <2>3. m >= 1 => SumFunctionOnSet(t, 1..1) = t[1]
    BY <2>2, SumsOfFew
  <2> QED BY <1>4, <2>1, <2>3
<1>5. xs[1] = x /\ ys[1] = y /\ zs[1] = z /\ x \in Int /\ y \in Int /\ z \in Int
  BY <1>1, MovedMeaning
<1>6. /\ x = SumFunctionOnSet(xs, 1..1) /\ y = SumFunctionOnSet(ys, 1..1)
      /\ z = SumFunctionOnSet(zs, 1..1)
  BY <1>4, <1>5
<1> QED BY <1>3, <1>6 DEF Listed

\* One event more.
Longer(t, s, e) == /\ Len(s) \in Nat /\ Len(t) = Len(s) + 1
                   /\ \A k \in 1..Len(s) : t[k] = s[k]
                   /\ t[Len(s) + 1] = e

\* A list with one event more moves what that moves besides.
LEMMA ListedMore ==
  ASSUME NEW s, NEW e, NEW t, Longer(t, s, e), NEW x, NEW y, NEW z, NEW a, NEW b, NEW c,
         Listed(s, x, y, z), Moved(e, a, b, c)
  PROVE  Listed(t, x + a, y + b, z + c)
<1>1. PICK n \in Nat : n = Len(s) /\ Len(t) = n + 1
  BY DEF Longer
<1>2. PICK xs, ys, zs :
        /\ \A k \in 1..n : Moved(s[k], xs[k], ys[k], zs[k])
        /\ x = SumFunctionOnSet(xs, 1..n) /\ y = SumFunctionOnSet(ys, 1..n)
        /\ z = SumFunctionOnSet(zs, 1..n)
  BY <1>1 DEF Listed
<1>3. a \in Int /\ b \in Int /\ c \in Int
      /\ \A k \in 1..n : xs[k] \in Int /\ ys[k] \in Int /\ zs[k] \in Int
  BY <1>2, MovedMeaning
<1>4. ASSUME NEW f, NEW v \in Int, \A k \in 1..n : f[k] \in Int
      PROVE  \E g : /\ \A k \in 1..n : g[k] = f[k]
                    /\ g[n + 1] = v
                    /\ SumFunctionOnSet(g, 1..(n + 1)) = SumFunctionOnSet(f, 1..n) + v
  <2>1. PICK g : g = [k \in 1..(n + 1) |-> IF k = n + 1 THEN v ELSE f[k]]
    OBVIOUS
  <2>2. (\A k \in 1..n : g[k] = f[k]) /\ g[n + 1] = v
    BY <2>1
  <2>3. \A k \in 1..(n + 1) : g[k] \in Int
    BY <1>4, <2>1
  <2>4. SumFunctionOnSet(g, 1..(n + 1)) = SumFunctionOnSet(g, 1..n) + g[n + 1]
    BY <2>3, SumNext
  <2>5. SumFunctionOnSet(g, 1..n) = SumFunctionOnSet(f, 1..n)
    <3>1. PICK S : S = 1..n
      OBVIOUS
    <3>2. IsFiniteSet(S) /\ \A k \in S : f[k] \in Int /\ f[k] = g[k]
      BY <1>4, <2>2, <3>1, UpToIsFinite
    <3>3. SumFunctionOnSet(g, S) = SumFunctionOnSet(f, S)
      BY <3>2, SumSame
    <3> QED BY <3>1, <3>3
  <2> QED BY <2>2, <2>4, <2>5
<1>5. PICK xt : /\ \A k \in 1..n : xt[k] = xs[k]
                /\ xt[n + 1] = a /\ SumFunctionOnSet(xt, 1..(n + 1)) = x + a
  BY <1>2, <1>3, <1>4
<1>6. PICK yt : /\ \A k \in 1..n : yt[k] = ys[k]
                /\ yt[n + 1] = b /\ SumFunctionOnSet(yt, 1..(n + 1)) = y + b
  BY <1>2, <1>3, <1>4
<1>7. PICK zt : /\ \A k \in 1..n : zt[k] = zs[k]
                /\ zt[n + 1] = c /\ SumFunctionOnSet(zt, 1..(n + 1)) = z + c
  BY <1>2, <1>3, <1>4
<1>8. ASSUME NEW k \in 1..(n + 1) PROVE Moved(t[k], xt[k], yt[k], zt[k])
  <2>1. CASE k \in 1..n
    <3>1. t[k] = s[k]
      BY <1>1, <2>1 DEF Longer
    <3> QED BY <1>2, <1>5, <1>6, <1>7, <2>1, <3>1
  <2>2. CASE k = n + 1
    <3>1. t[k] = e
      BY <1>1, <2>2 DEF Longer
    <3> QED BY <1>5, <1>6, <1>7, <2>2, <3>1
  <2> QED BY <2>1, <2>2
<1> QED BY <1>1, <1>5, <1>6, <1>7, <1>8 DEF Listed

\* A list that ends with an event, or with none.
LEMMA ListedWith ==
  ASSUME NEW T, NEW s \in Seq(T), NEW e \in T, NEW t, t = s \o <<e>>,
         NEW x, NEW y, NEW z, NEW a, NEW b, NEW c, Listed(s, x, y, z), Moved(e, a, b, c)
  PROVE  t \in Seq(T) /\ Listed(t, x + a, y + b, z + c)
<1>1. PICK f : f = <<e>>
  OBVIOUS
<1>2. f \in Seq(T) /\ Len(f) = 1 /\ f[1] = e
  BY <1>1
<1>3. t = s \o f
  BY <1>1
<1>4. PICK n \in Nat : n = Len(s)
  OBVIOUS
<1>5. /\ t \in Seq(T) /\ Len(t) = n + 1
      /\ \A k \in 1..(n + 1) : t[k] = IF k <= n THEN s[k] ELSE f[k - n]
  <2>1. /\ s \o f \in Seq(T) /\ Len(s \o f) = Len(s) + Len(f)
        /\ \A k \in 1..(Len(s) + Len(f)) :
             (s \o f)[k] = IF k <= Len(s) THEN s[k] ELSE f[k - Len(s)]
    BY <1>2, ConcatProperties
  <2> QED BY <1>2, <1>3, <1>4, <2>1
<1>6. t[n + 1] = e
  <2>1. n + 1 \in 1..(n + 1) /\ ~(n + 1 <= n) /\ (n + 1) - n = 1
    OBVIOUS
  <2> QED BY <1>2, <1>5, <2>1
<1>7. Longer(t, s, e)
  BY <1>4, <1>5, <1>6 DEF Longer
<1> QED BY <1>5, <1>7, ListedMore

\* A condition that does not hold adds no event.
LEMMA ListedWithout ==
  ASSUME NEW T, NEW s \in Seq(T), NEW t, t = s \o <<>>, NEW x, NEW y, NEW z,
         Listed(s, x, y, z)
  PROVE  t \in Seq(T) /\ Listed(t, x, y, z)
<1>1. t = s
  BY ConcatEmptySeq
<1> QED BY <1>1

\* The seeded rule of each event type that the handlers emit.
LEMMA RuleIs ==
  ASSUME NEW type, type \in DOMAIN RuleOf, type \notin ProvisionEvents, type \notin SummaryEvents
  PROVE  SeededRules[type] = RuleOf[type]
BY DEF SeededRules

\* The types that have a rule of lines.
LEMMA TypesOfRules ==
  DOMAIN RuleOf = {"contract_activated", "early_settlement", "return", "write_off_executed",
                   "partial_write_off_executed", "settlement_difference",
                   "down_payment_received", "payment_received", "profit_recognized",
                   "late_fee_charged", "late_fee_waived", "cancellation", "payment_reversed",
                   "refund_completed", "gateway_fee_recognized", "recovery_received"}
BY DEF RuleOf

\* The rules of more than two lines.
LEMMA ComposedRules ==
  /\ RuleOf["contract_activated"] = ActivationRule
  /\ RuleOf["early_settlement"] = SettlementRule
  /\ RuleOf["return"] = ReturnRule
  /\ RuleOf["write_off_executed"] = WriteOffRule
  /\ RuleOf["partial_write_off_executed"] = WriteOffRule
BY DEF RuleOf

\* The rules of two lines.
LEMMA PairRules ==
  /\ RuleOf["down_payment_received"] = Pair("cash", "deposit", "event_amount")
  /\ RuleOf["payment_received"] = Pair("cash", "receivable", "event_amount")
  /\ RuleOf["profit_recognized"] = Pair("unearned", "profit", "event_amount")
  /\ RuleOf["late_fee_charged"] = Pair("receivable", "late_fee", "event_amount")
  /\ RuleOf["late_fee_waived"] = Pair("late_fee", "receivable", "event_amount")
  /\ RuleOf["cancellation"] = Pair("deposit", "refund", "event_amount")
  /\ RuleOf["payment_reversed"] = Pair("receivable", "cash", "event_amount")
  /\ RuleOf["refund_completed"] = Pair("receivable", "cash", "event_amount")
  /\ RuleOf["recovery_received"] = Pair("cash", "recovery", "event_amount")
BY DEF RuleOf

\* What the seed gives each of them, the provisions and the events that make no journal.
LEMMA SeededRulesAre ==
  /\ \A type \in DOMAIN RuleOf : SeededRules[type] = RuleOf[type]
  /\ SeededRules["contract_closed"] = <<>>
  /\ SeededRules["ecl_provision_created"] = SignedPair("impairment", "allowance")
  /\ SeededRules["ecl_provision_released"] = SignedPair("impairment", "allowance")
<1>1. \A type \in DOMAIN RuleOf : type \notin ProvisionEvents /\ type \notin SummaryEvents
  BY TypesOfRules DEF ProvisionEvents, SummaryEvents
<1>2. \A type \in DOMAIN RuleOf : SeededRules[type] = RuleOf[type]
  BY <1>1, RuleIs
<1>3. SeededRules["contract_closed"] = <<>>
  BY DEF SeededRules, SummaryEvents, ProvisionEvents
<1>4. /\ SeededRules["ecl_provision_created"] = SignedPair("impairment", "allowance")
      /\ SeededRules["ecl_provision_released"] = SignedPair("impairment", "allowance")
  BY DEF SeededRules, ProvisionEvents
<1> QED BY <1>2, <1>3, <1>4

\* The amount of a plain event.
LEMMA EventRead ==
  ASSUME NEW type, NEW x, NEW e, e = Event(type, x)
  PROVE  /\ e.type = type /\ "event_amount" \in DOMAIN e.amounts
         /\ e.amounts["event_amount"] = x
BY DEF Event, EventAmount

\* The amounts of an event that reads a row.
LEMMA RowRead ==
  ASSUME NEW type, NEW x, NEW row, NEW e, e = EventOf(type, x, row)
  PROVE  /\ e.type = type
         /\ \A source \in DOMAIN row : /\ source \in DOMAIN e.amounts
                                       /\ e.amounts[source] = row[source]
         /\ "event_amount" \notin DOMAIN row =>
              "event_amount" \in DOMAIN e.amounts /\ e.amounts["event_amount"] = x
<1>1. PICK am : am = EventAmount(x)
  OBVIOUS
<1>2. "event_amount" \in DOMAIN am /\ am["event_amount"] = x
  BY <1>1 DEF EventAmount
<1>3. e.type = type /\ e.amounts = WithRow(am, row)
  BY <1>1 DEF EventOf
<1> QED BY <1>2, <1>3 DEF WithRow

\* Money moves between two accounts.
LEMMA PairEvent ==
  ASSUME NEW debit \in Accounts, NEW credit \in Accounts, debit # credit,
         NEW type \in DOMAIN RuleOf, RuleOf[type] = Pair(debit, credit, "event_amount"),
         NEW x \in Nat, NEW e, e.type = type, "event_amount" \in DOMAIN e.amounts,
         e.amounts["event_amount"] = x
  PROVE  Moved(e, At("cash", debit, credit, x), At("receivable", debit, credit, x),
               At("unearned", debit, credit, x))
<1>1. SeededRules[e.type] = Pair(debit, credit, "event_amount")
  BY SeededRulesAre
<1> QED BY <1>1, PairMoves

\* The down payment is cash.
LEMMA DownPaymentMoves ==
  ASSUME NEW x \in Nat, NEW e, e = Event("down_payment_received", x)
  PROVE  Moved(e, x, 0, 0)
<1>1. PICK d, c, type : d = "cash" /\ c = "deposit" /\ type = "down_payment_received"
  OBVIOUS
<1>2. d \in Accounts /\ c \in Accounts /\ d # c /\ type \in DOMAIN RuleOf
      /\ RuleOf[type] = Pair(d, c, "event_amount")
  BY <1>1, PairRules, TypesOfRules DEF Accounts
<1>3. e.type = type /\ "event_amount" \in DOMAIN e.amounts /\ e.amounts["event_amount"] = x
  BY <1>1, EventRead
<1>4. Moved(e, At("cash", d, c, x), At("receivable", d, c, x), At("unearned", d, c, x))
  BY <1>2, <1>3, PairEvent
<1>5. /\ At("cash", d, c, x) = x /\ At("receivable", d, c, x) = 0
      /\ At("unearned", d, c, x) = 0
  BY <1>1 DEF At
<1> QED BY <1>4, <1>5

\* Recognised profit is no longer unearned.
LEMMA RecognitionMoves ==
  ASSUME NEW x \in Nat, NEW e, e = Event("profit_recognized", x)
  PROVE  Moved(e, 0, 0, x)
<1>1. PICK d, c, type : d = "unearned" /\ c = "profit" /\ type = "profit_recognized"
  OBVIOUS
<1>2. d \in Accounts /\ c \in Accounts /\ d # c /\ type \in DOMAIN RuleOf
      /\ RuleOf[type] = Pair(d, c, "event_amount")
  BY <1>1, PairRules, TypesOfRules DEF Accounts
<1>3. e.type = type /\ "event_amount" \in DOMAIN e.amounts /\ e.amounts["event_amount"] = x
  BY <1>1, EventRead
<1>4. Moved(e, At("cash", d, c, x), At("receivable", d, c, x), At("unearned", d, c, x))
  BY <1>2, <1>3, PairEvent
<1>5. /\ At("cash", d, c, x) = 0 /\ At("receivable", d, c, x) = 0
      /\ At("unearned", d, c, x) = x
  BY <1>1 DEF At
<1> QED BY <1>4, <1>5

\* A charge is added to the receivable.
LEMMA ChargeMoves ==
  ASSUME NEW x \in Nat, NEW e, e = Event("late_fee_charged", x)
  PROVE  Moved(e, 0, x, 0)
<1>1. PICK d, c, type : d = "receivable" /\ c = "late_fee" /\ type = "late_fee_charged"
  OBVIOUS
<1>2. d \in Accounts /\ c \in Accounts /\ d # c /\ type \in DOMAIN RuleOf
      /\ RuleOf[type] = Pair(d, c, "event_amount")
  BY <1>1, PairRules, TypesOfRules DEF Accounts
<1>3. e.type = type /\ "event_amount" \in DOMAIN e.amounts /\ e.amounts["event_amount"] = x
  BY <1>1, EventRead
<1>4. Moved(e, At("cash", d, c, x), At("receivable", d, c, x), At("unearned", d, c, x))
  BY <1>2, <1>3, PairEvent
<1>5. /\ At("cash", d, c, x) = 0 /\ At("receivable", d, c, x) = x
      /\ At("unearned", d, c, x) = 0
  BY <1>1 DEF At
<1> QED BY <1>4, <1>5

\* A waiver takes from the receivable.
LEMMA WaiverMoves ==
  ASSUME NEW x \in Nat, NEW e, e = Event("late_fee_waived", x)
  PROVE  Moved(e, 0, -x, 0)
<1>1. PICK d, c, type : d = "late_fee" /\ c = "receivable" /\ type = "late_fee_waived"
  OBVIOUS
<1>2. d \in Accounts /\ c \in Accounts /\ d # c /\ type \in DOMAIN RuleOf
      /\ RuleOf[type] = Pair(d, c, "event_amount")
  BY <1>1, PairRules, TypesOfRules DEF Accounts
<1>3. e.type = type /\ "event_amount" \in DOMAIN e.amounts /\ e.amounts["event_amount"] = x
  BY <1>1, EventRead
<1>4. Moved(e, At("cash", d, c, x), At("receivable", d, c, x), At("unearned", d, c, x))
  BY <1>2, <1>3, PairEvent
<1>5. /\ At("cash", d, c, x) = 0 /\ At("receivable", d, c, x) = -x
      /\ At("unearned", d, c, x) = 0
  BY <1>1 DEF At
<1> QED BY <1>4, <1>5

\* A cancellation moves none of the three accounts.
LEMMA CancellationMoves ==
  ASSUME NEW x \in Nat, NEW e, e = Event("cancellation", x)
  PROVE  Moved(e, 0, 0, 0)
<1>1. PICK d, c, type : d = "deposit" /\ c = "refund" /\ type = "cancellation"
  OBVIOUS
<1>2. d \in Accounts /\ c \in Accounts /\ d # c /\ type \in DOMAIN RuleOf
      /\ RuleOf[type] = Pair(d, c, "event_amount")
  BY <1>1, PairRules, TypesOfRules DEF Accounts
<1>3. e.type = type /\ "event_amount" \in DOMAIN e.amounts /\ e.amounts["event_amount"] = x
  BY <1>1, EventRead
<1>4. Moved(e, At("cash", d, c, x), At("receivable", d, c, x), At("unearned", d, c, x))
  BY <1>2, <1>3, PairEvent
<1>5. /\ At("cash", d, c, x) = 0 /\ At("receivable", d, c, x) = 0
      /\ At("unearned", d, c, x) = 0
  BY <1>1 DEF At
<1> QED BY <1>4, <1>5

\* A reversal puts cash back into the receivable.
LEMMA ReversalMoves ==
  ASSUME NEW x \in Nat, NEW e, e = Event("payment_reversed", x)
  PROVE  Moved(e, -x, x, 0)
<1>1. PICK d, c, type : d = "receivable" /\ c = "cash" /\ type = "payment_reversed"
  OBVIOUS
<1>2. d \in Accounts /\ c \in Accounts /\ d # c /\ type \in DOMAIN RuleOf
      /\ RuleOf[type] = Pair(d, c, "event_amount")
  BY <1>1, PairRules, TypesOfRules DEF Accounts
<1>3. e.type = type /\ "event_amount" \in DOMAIN e.amounts /\ e.amounts["event_amount"] = x
  BY <1>1, EventRead
<1>4. Moved(e, At("cash", d, c, x), At("receivable", d, c, x), At("unearned", d, c, x))
  BY <1>2, <1>3, PairEvent
<1>5. /\ At("cash", d, c, x) = -x /\ At("receivable", d, c, x) = x
      /\ At("unearned", d, c, x) = 0
  BY <1>1 DEF At
<1> QED BY <1>4, <1>5

\* So does a refund.
LEMMA RefundMoves ==
  ASSUME NEW x \in Nat, NEW e, e = Event("refund_completed", x)
  PROVE  Moved(e, -x, x, 0)
<1>1. PICK d, c, type : d = "receivable" /\ c = "cash" /\ type = "refund_completed"
  OBVIOUS
<1>2. d \in Accounts /\ c \in Accounts /\ d # c /\ type \in DOMAIN RuleOf
      /\ RuleOf[type] = Pair(d, c, "event_amount")
  BY <1>1, PairRules, TypesOfRules DEF Accounts
<1>3. e.type = type /\ "event_amount" \in DOMAIN e.amounts /\ e.amounts["event_amount"] = x
  BY <1>1, EventRead
<1>4. Moved(e, At("cash", d, c, x), At("receivable", d, c, x), At("unearned", d, c, x))
  BY <1>2, <1>3, PairEvent
<1>5. /\ At("cash", d, c, x) = -x /\ At("receivable", d, c, x) = x
      /\ At("unearned", d, c, x) = 0
  BY <1>1 DEF At
<1> QED BY <1>4, <1>5

\* A recovery is cash for a receivable that is gone.
LEMMA RecoveryMoves ==
  ASSUME NEW x \in Nat, NEW e, e = Event("recovery_received", x)
  PROVE  Moved(e, x, 0, 0)
<1>1. PICK d, c, type : d = "cash" /\ c = "recovery" /\ type = "recovery_received"
  OBVIOUS
<1>2. d \in Accounts /\ c \in Accounts /\ d # c /\ type \in DOMAIN RuleOf
      /\ RuleOf[type] = Pair(d, c, "event_amount")
  BY <1>1, PairRules, TypesOfRules DEF Accounts
<1>3. e.type = type /\ "event_amount" \in DOMAIN e.amounts /\ e.amounts["event_amount"] = x
  BY <1>1, EventRead
<1>4. Moved(e, At("cash", d, c, x), At("receivable", d, c, x), At("unearned", d, c, x))
  BY <1>2, <1>3, PairEvent
<1>5. /\ At("cash", d, c, x) = x /\ At("receivable", d, c, x) = 0
      /\ At("unearned", d, c, x) = 0
  BY <1>1 DEF At
<1> QED BY <1>4, <1>5

\* A payment is cash for the receivable.
LEMMA PaymentMoves ==
  ASSUME NEW x \in Nat, NEW row, "event_amount" \notin DOMAIN row,
         NEW e, e = EventOf("payment_received", x, row)
  PROVE  Moved(e, x, -x, 0)
<1>1. PICK d, c, type : d = "cash" /\ c = "receivable" /\ type = "payment_received"
  OBVIOUS
<1>2. d \in Accounts /\ c \in Accounts /\ d # c /\ type \in DOMAIN RuleOf
      /\ RuleOf[type] = Pair(d, c, "event_amount")
  BY <1>1, PairRules, TypesOfRules DEF Accounts
<1>3. e.type = type /\ "event_amount" \in DOMAIN e.amounts /\ e.amounts["event_amount"] = x
  BY <1>1, RowRead
<1>4. Moved(e, At("cash", d, c, x), At("receivable", d, c, x), At("unearned", d, c, x))
  BY <1>2, <1>3, PairEvent
<1>5. /\ At("cash", d, c, x) = x /\ At("receivable", d, c, x) = -x
      /\ At("unearned", d, c, x) = 0
  BY <1>1 DEF At
<1> QED BY <1>4, <1>5

\* What each handler books.
LEMMA TotalsAreNat ==
  /\ TotalOf("principal") \in Nat /\ TotalOf("profit") \in Nat
<1>1. ASSUME NEW f \in [Installments -> Nat] PROVE SumFunction(f) \in Nat
  <2>1. DOMAIN f = Installments /\ \A i \in Installments : f[i] \in Nat
    OBVIOUS
  <2>2. SumFunctionOnSet(f, Installments) \in Nat
    BY <2>1, InstallmentsAreFinite, SumNat
  <2> QED BY <2>1, <2>2 DEF SumFunction
<1>2. /\ [i \in Installments |-> Schedule[i].principal] \in [Installments -> Nat]
      /\ [i \in Installments |-> Schedule[i].profit] \in [Installments -> Nat]
  BY ScheduleMeaning
<1>3. PICK f \in [Installments -> Nat], g \in [Installments -> Nat] :
        /\ f = [i \in Installments |-> Schedule[i].principal]
        /\ g = [i \in Installments |-> Schedule[i].profit]
  BY <1>2
<1>4. TotalOf("principal") = SumFunction(f) /\ TotalOf("profit") = SumFunction(g)
  BY <1>3 DEF TotalOf
<1> QED BY <1>1, <1>4

\* confirm_delivery: schedule and unearned profit, and the down payment.
LEMMA DeliveryBooks ==
  ASSUME books \in Books, Book(DeliveryEvents)
  PROVE  Gains(DownPayment, TotalOf("principal") + TotalOf("profit"), -TotalOf("profit"))
<1>1. PICK P \in Nat, Q \in Nat, D \in Nat :
        P = TotalOf("principal") /\ Q = TotalOf("profit") /\ D = DownPayment
  BY TotalsAreNat, BooksAssumption
<1>2. PICK row : row = SaleAmounts(Order)
  OBVIOUS
<1>3. /\ {"down_payment", "gross_installment_receivable", "cash_price",
          "total_contractual_profit"} \subseteq DOMAIN row
      /\ row["down_payment"] = D /\ row["gross_installment_receivable"] = P + Q
      /\ row["cash_price"] = P + D /\ row["total_contractual_profit"] = Q
  <2>1. PICK o : o = Order
    OBVIOUS
  <2>2. o.sale_price = P + Q + D /\ o.total_profit = Q /\ o.down_payment = D
    BY <1>1, <2>1 DEF Order
  <2>3. o.sale_price - o.total_profit = P + D
        /\ (o.sale_price - o.total_profit) - o.down_payment = P
    BY <2>2
  <2> QED BY <1>2, <2>1, <2>2, <2>3 DEF SaleAmounts
<1>4. PICK e1, e2, e3 : /\ e1 = EventOf("contract_activated", Order.sale_price, row)
                        /\ e2 = Event("down_payment_received", D)
                        /\ e3 = Event("ecl_provision_created", Provision)
  OBVIOUS
<1>5. Moved(e1, 0, P + Q, -Q)
  <2>1. SeededRules[e1.type] = ActivationRule
    BY <1>4, RowRead, SeededRulesAre, ComposedRules, TypesOfRules
  <2>2. PICK x \in Nat, y \in Nat : x = P + Q /\ y = P + D
    OBVIOUS
  <2>3. /\ Reads(e1, "down_payment", D) /\ Reads(e1, "gross_installment_receivable", x)
        /\ Reads(e1, "cash_price", y) /\ Reads(e1, "total_contractual_profit", Q)
    <3>1. \A source \in DOMAIN row : /\ source \in DOMAIN e1.amounts
                                     /\ e1.amounts[source] = row[source]
      BY <1>4, RowRead
    <3> QED BY <1>3, <2>2, <3>1 DEF Reads
  <2>4. D + x = y + Q
    BY <2>2
  <2>5. Moved(e1, 0, x, -Q)
    BY <2>1, <2>3, <2>4, ActivationMoves
  <2> QED BY <2>2, <2>5
<1>6. Moved(e2, D, 0, 0)
  BY <1>4, DownPaymentMoves
<1>7. Moved(e3, 0, 0, 0)
  <2>1. Provision \in Int
    BY BooksAssumption
  <2>2. SeededRules[e3.type] = SignedPair("impairment", "allowance")
    BY <1>4, EventRead, SeededRulesAre
  <2>3. "event_amount" \in DOMAIN e3.amounts /\ e3.amounts["event_amount"] \in Int
    BY <1>4, <2>1, EventRead
  <2> QED BY <2>2, <2>3, ProvisionMoves
<1>8. PICK s1, s2, s3 : /\ s1 = <<e1>> /\ s2 = <<e1, e2>>
                        /\ s3 = s2 \o If(Provision > 0, <<e3>>)
  OBVIOUS
<1>9. Len(s1) = 1 /\ s1[1] = e1 /\ Longer(s2, s1, e2)
  BY <1>8 DEF Longer
<1>10. Listed(s1, 0, P + Q, -Q)
  BY <1>5, <1>9, ListedOne
<1>11. Listed(s2, 0 + D, (P + Q) + 0, (-Q) + 0)
  BY <1>6, <1>9, <1>10, ListedMore
<1>12. Listed(s2, D, P + Q, -Q)
  <2>1. 0 + D = D /\ (P + Q) + 0 = P + Q /\ (-Q) + 0 = -Q
    OBVIOUS
  <2> QED BY <1>11, <2>1
<1>13. PICK T : T = {e1, e2, e3}
  OBVIOUS
<1>14. s2 \in Seq(T) /\ e3 \in T
  BY <1>8, <1>13
<1>15. Book(s3)
  BY <1>1, <1>2, <1>4, <1>8 DEF DeliveryEvents
<1>16. CASE Provision > 0
  <2>1. s3 = s2 \o <<e3>>
    BY <1>8, <1>16 DEF If
  <2>2. s3 \in Seq(T) /\ Listed(s3, D + 0, (P + Q) + 0, (-Q) + 0)
    BY <1>7, <1>12, <1>14, <2>1, ListedWith
  <2>3. D + 0 = D /\ (P + Q) + 0 = P + Q /\ (-Q) + 0 = -Q
    OBVIOUS
  <2>4. Listed(s3, D, P + Q, -Q) /\ Len(s3) \in Nat
    BY <2>2, <2>3
  <2> QED BY <1>1, <1>15, <2>4, BookGains
<1>17. CASE ~(Provision > 0)
  <2>1. s3 = s2 \o <<>>
    BY <1>8, <1>17 DEF If
  <2>2. s3 \in Seq(T) /\ Listed(s3, D, P + Q, -Q)
    BY <1>12, <1>14, <2>1, ListedWithout
  <2>3. Len(s3) \in Nat
    BY <2>2
  <2> QED BY <1>1, <1>15, <2>2, <2>3, BookGains
<1> QED BY <1>16, <1>17

\* A list of one event.
LEMMA OneBooks ==
  ASSUME books \in Books, NEW e, NEW x, NEW y, NEW z, Moved(e, x, y, z), NEW s, s = <<e>>,
         Book(s)
  PROVE  Gains(x, y, z)
<1>1. Len(s) = 1 /\ s[1] = e
  OBVIOUS
<1> QED BY <1>1, ListedOne, BookGains

\* cancel_contract.
LEMMA CancellationBooks ==
  ASSUME books \in Books, Book(<<Event("cancellation", CancelRefund)>>)
  PROVE  Gains(0, 0, 0)
<1>1. PICK x \in Nat : x = CancelRefund
  BY BooksAssumption
<1>2. PICK e : e = Event("cancellation", x)
  OBVIOUS
<1> QED BY <1>1, <1>2, CancellationMoves, OneBooks

\* reverse_settled_payment, for a reversal as for a refund.
LEMMA ReversalBooks ==
  ASSUME Sound, books \in Books, NEW type \in {"payment_reversed", "refund_completed"},
         NEW n \in DOMAIN payments, Book(ReversalEvents(type, n))
  PROVE  payments[n].amount \in Nat /\ Gains(-payments[n].amount, payments[n].amount, 0)
<1>1. PICK x \in Nat : x = payments[n].amount
  <2>1. payments \in Seq(PaymentRow)
    BY DEF Sound, Typed
  <2>2. payments[n] \in PaymentRow
    BY <2>1, SequenceElement
  <2> QED BY <2>2, PaymentRowMeaning
<1>2. PICK e : e = Event(type, x)
  OBVIOUS
<1>3. Moved(e, -x, x, 0)
  BY <1>2, ReversalMoves, RefundMoves
<1>4. Book(<<e>>)
  BY <1>1, <1>2 DEF ReversalEvents
<1> QED BY <1>1, <1>3, <1>4, OneBooks

\* record_recovery.
LEMMA RecoveryBooks ==
  ASSUME books \in Books, NEW a \in Nat, Book(<<Event("recovery_received", a)>>)
  PROVE  Gains(a, 0, 0)
<1>1. PICK e : e = Event("recovery_received", a)
  OBVIOUS
<1> QED BY <1>1, RecoveryMoves, OneBooks

\* record_payment: the amount, and the profit it recognises.
LEMMA PaymentBooks ==
  ASSUME Sound, books \in Books, NEW plan, NEW p, NEW a \in Nat, PaidBy(plan, p, a),
         Book(PaymentEvents(a))
  PROVE  Column(plan, "profit") \in Nat /\ Gains(a, -a, Column(plan, "profit"))
<1>1. PICK y \in Nat : y = Column(plan, "profit")
  BY ColumnsMeaning DEF PaidBy
<1>2. payments'[Len(payments')].lines = plan
  <2>1. OneMore(payments, p, payments') /\ p.lines = plan
    BY DEF PaidBy, RowOf
  <2>2. Len(payments') = Len(payments) + 1
    <3>1. payments \in Seq(PaymentRow)
      BY DEF Sound, Typed
    <3>2. PICK n \in Nat : n = Len(payments)
      BY <3>1
    <3>3. payments' \in Seq(PaymentRow) /\ DOMAIN payments' = 1..(n + 1)
      BY <2>1, <3>2 DEF OneMore
    <3> QED BY <3>2, <3>3
  <2> QED BY <2>1, <2>2 DEF OneMore
<1>3. Allocated("profit") = y
  BY <1>1, <1>2 DEF Allocated
<1>4. PICK row : row = PaymentAmounts([b \in DOMAIN Nothing |-> Allocated(b)])
  OBVIOUS
<1>5. "event_amount" \notin DOMAIN row
  BY <1>4 DEF PaymentAmounts
<1>6. PICK e1, e2, e3 : /\ e1 = EventOf("payment_received", a, row)
                        /\ e2 = Event("profit_recognized", y)
                        /\ e3 = Event("contract_closed", 0)
  OBVIOUS
<1>7. Moved(e1, a, -a, 0)
  BY <1>5, <1>6, PaymentMoves
<1>8. Moved(e2, 0, 0, y)
  BY <1>6, RecognitionMoves
<1>9. Moved(e3, 0, 0, 0)
  <2>1. SeededRules[e3.type] = <<>>
    BY <1>6, EventRead, SeededRulesAre
  <2> QED BY <2>1, SummaryMoves
<1>11. PICK s1, s2, s3 : /\ s1 = <<e1>> /\ s2 = s1 \o If(y > 0, <<e2>>)
                         /\ s3 = s2 \o If(contract'.status = "closed", <<e3>>)
  OBVIOUS
<1>12. PICK T : T = {e1, e2, e3}
  OBVIOUS
<1>13. s1 \in Seq(T) /\ e2 \in T /\ e3 \in T /\ Len(s1) = 1 /\ s1[1] = e1
  BY <1>11, <1>12
<1>14. Listed(s1, a, -a, 0)
  BY <1>7, <1>13, ListedOne
<1>15. s2 \in Seq(T) /\ Listed(s2, a, -a, y)
  <2>1. CASE y > 0
    <3>1. s2 = s1 \o <<e2>>
      BY <1>11, <2>1 DEF If
    <3>2. s2 \in Seq(T) /\ Listed(s2, a + 0, (-a) + 0, 0 + y)
      BY <1>8, <1>13, <1>14, <3>1, ListedWith
    <3>3. a + 0 = a /\ (-a) + 0 = -a /\ 0 + y = y
      OBVIOUS
    <3> QED BY <3>2, <3>3
  <2>2. CASE ~(y > 0)
    <3>1. s2 = s1 \o <<>>
      BY <1>11, <2>2 DEF If
    <3>2. y = 0
      BY <2>2
    <3> QED BY <1>13, <1>14, <3>1, <3>2, ListedWithout
  <2> QED BY <2>1, <2>2
<1>16. s3 \in Seq(T) /\ Listed(s3, a, -a, y)
  <2>1. CASE contract'.status = "closed"
    <3>1. s3 = s2 \o <<e3>>
      BY <1>11, <2>1 DEF If
    <3>2. s3 \in Seq(T) /\ Listed(s3, a + 0, (-a) + 0, y + 0)
      BY <1>9, <1>13, <1>15, <3>1, ListedWith
    <3>3. a + 0 = a /\ (-a) + 0 = -a /\ y + 0 = y
      OBVIOUS
    <3> QED BY <3>2, <3>3
  <2>2. CASE ~(contract'.status = "closed")
    <3>1. s3 = s2 \o <<>>
      BY <1>11, <2>2 DEF If
    <3> QED BY <1>15, <3>1, ListedWithout
  <2> QED BY <2>1, <2>2
<1>17. Book(s3)
  BY <1>3, <1>4, <1>6, <1>11 DEF PaymentEvents
<1>18. Gains(a, -a, y)
  <2>1. Len(s3) \in Nat
    BY <1>16
  <2> QED BY <1>16, <1>17, <2>1, BookGains
<1> QED BY <1>1, <1>18

\* An approved waiver: what was not paid of the charge.
LEMMA WaiverBooks ==
  ASSUME Sound, books \in Books, NEW k \in DOMAIN fees, Book(WaiverEvents(k)), NEW x,
         x = fees[k].amount - fees[k].amount_paid
  PROVE  x \in Nat /\ Gains(0, -x, 0)
<1>1. x \in Nat
  <2>1. fees \in Seq(FeeRow) /\ FeesPaidWithin
    BY DEF Sound, Typed
  <2>2. fees[k] \in FeeRow /\ fees[k].amount_paid <= fees[k].amount
    BY <2>1, SequenceElement DEF FeesPaidWithin
  <2> QED BY <2>2, FeeRowMeaning
<1>2. PICK e : e = Event("late_fee_waived", x)
  OBVIOUS
<1>3. Moved(e, 0, -x, 0)
  BY <1>1, <1>2, WaiverMoves
<1>4. Book(If(x > 0, <<e>>))
  BY <1>2 DEF WaiverEvents
<1>5. CASE x > 0
  <2>1. Book(<<e>>)
    BY <1>4, <1>5 DEF If
  <2> QED BY <1>1, <1>3, <2>1, OneBooks
<1>6. CASE x = 0
  <2>1. PICK s : s = <<>> /\ Len(s) = 0
    OBVIOUS
  <2>2. Book(s)
    BY <1>4, <1>6, <2>1 DEF If
  <2>4. Listed(s, 0, 0, 0)
    <3>1. PICK f : SumFunctionOnSet(f, 1..0) = 0
      BY UpToNone, SumEmpty
    <3>2. \A k1 \in 1..0 : FALSE
      OBVIOUS
    <3> QED BY <2>1, <3>1, <3>2 DEF Listed
  <2>5. Gains(0, 0, 0)
    BY <2>1, <2>2, <2>4, BookGains
  <2>6. -x = 0
    BY <1>6
  <2> QED BY <1>1, <2>5, <2>6
<1> QED BY <1>1, <1>5, <1>6
-------------------------------------------------------------------------------
\* What the overdue job books.

ChargesOf(charges) == SumFunction([k \in DOMAIN charges |-> charges[k].amount])

\* The rest of a sum.
LEMMA SumOfRest ==
  ASSUME NEW m \in Nat, NEW g \in Nat, NEW f, NEW h,
         \A k \in 1..(m + g) : f[k] \in Int, \A k \in 1..g : h[k] = f[m + k]
  PROVE  SumFunctionOnSet(f, 1..(m + g)) = SumFunctionOnSet(f, 1..m) + SumFunctionOnSet(h, 1..g)
<1>1. \A j \in 1..g : h[j] \in Int
  OBVIOUS
<1> DEFINE T == {j \in Nat : j <= g =>
                   SumFunctionOnSet(f, 1..(m + j))
                     = SumFunctionOnSet(f, 1..m) + SumFunctionOnSet(h, 1..j)}
<1>2. SumFunctionOnSet(f, 1..m) \in Int
  BY UpToIsFinite, SumInt
<1>3. 0 \in T
  <2>1. SumFunctionOnSet(h, 1..0) = 0 /\ m + 0 = m
    BY UpToNone, SumEmpty
  <2> QED BY <1>2, <2>1
<1>4. ASSUME NEW j \in Nat, j \in T PROVE j + 1 \in T
  <2> SUFFICES ASSUME j + 1 <= g
               PROVE  SumFunctionOnSet(f, 1..(m + (j + 1)))
                        = SumFunctionOnSet(f, 1..m) + SumFunctionOnSet(h, 1..(j + 1))
    OBVIOUS
  <2>1. PICK i \in Nat : i = m + j /\ i + 1 = m + (j + 1)
    OBVIOUS
  <2>2. SumFunctionOnSet(f, 1..(i + 1)) = SumFunctionOnSet(f, 1..i) + f[i + 1]
    <3>1. \A k \in 1..(i + 1) : f[k] \in Int
      BY <2>1
    <3> QED BY <3>1, SumNext
  <2>3. SumFunctionOnSet(h, 1..(j + 1)) = SumFunctionOnSet(h, 1..j) + h[j + 1]
    <3>1. \A k \in 1..(j + 1) : h[k] \in Int
      BY <1>1
    <3> QED BY <3>1, SumNext
  <2>4. h[j + 1] = f[i + 1] /\ h[j + 1] \in Int
    BY <1>1, <2>1
  <2>5. SumFunctionOnSet(f, 1..i) = SumFunctionOnSet(f, 1..m) + SumFunctionOnSet(h, 1..j)
    BY <1>4, <2>1
  <2>6. SumFunctionOnSet(h, 1..j) \in Int
    <3>1. \A k \in 1..j : h[k] \in Int
      BY <1>1
    <3> QED BY <3>1, UpToIsFinite, SumInt
  <2> QED BY <1>2, <2>1, <2>2, <2>3, <2>4, <2>5, <2>6
<1>5. Nat \subseteq T
  <2> HIDE DEF T
  <2> QED BY <1>3, <1>4, NatSetInduction
<1> QED BY <1>5

\* assess_overdue: the new charges, one event each.
LEMMA ChargesBook ==
  ASSUME Sound, books \in Books, NEW day, ChargedBy(day), Book(ChargeEvents)
  PROVE  /\ ChargesOf(fees) \in Int /\ ChargesOf(fees') \in Int
         /\ Gains(0, ChargesOf(fees') - ChargesOf(fees), 0)
<1>1. fees \in Seq(FeeRow) /\ fees' \in Seq(FeeRow) /\ Len(fees) <= Len(fees')
      /\ \A k \in DOMAIN fees : fees'[k] = fees[k]
  BY DEF Sound, Typed, ChargedBy, Grown
<1>2. PICK m \in Nat, n \in Nat : /\ m = Len(fees) /\ n = Len(fees') /\ m <= n
                                  /\ DOMAIN fees = 1..m /\ DOMAIN fees' = 1..n
  BY <1>1, SequenceIsFunction
<1>3. PICK g \in Nat : g = n - m /\ n = m + g
  BY <1>2
<1>4. PICK f : f = [k \in 1..n |-> fees'[k].amount]
  OBVIOUS
<1>5. \A k \in 1..n : f[k] \in Nat
  <2> SUFFICES ASSUME NEW k \in 1..n PROVE f[k] \in Nat
    OBVIOUS
  <2>1. fees'[k] \in FeeRow
    BY <1>1, <1>2, SequenceElement
  <2> QED BY <1>4, <2>1, FeeRowMeaning
<1>6. ChargesOf(fees') = SumFunctionOnSet(f, 1..n)
  BY <1>2, <1>4 DEF ChargesOf, SumFunction
<1>7. ChargesOf(fees) = SumFunctionOnSet(f, 1..m)
  <2>1. PICK u : u = [k \in 1..m |-> fees[k].amount]
    OBVIOUS
  <2>2. ChargesOf(fees) = SumFunctionOnSet(u, 1..m)
    BY <1>2, <2>1 DEF ChargesOf, SumFunction
  <2>3. \A k \in 1..m : u[k] \in Int /\ u[k] = f[k]
    <3> SUFFICES ASSUME NEW k \in 1..m PROVE u[k] \in Int /\ u[k] = f[k]
      OBVIOUS
    <3>1. k \in 1..n
      BY <1>2
    <3>2. f[k] = fees'[k].amount /\ f[k] \in Nat
      BY <1>4, <1>5, <3>1
    <3>3. fees'[k] = fees[k]
      BY <1>1, <1>2
    <3>4. u[k] = fees[k].amount
      BY <2>1
    <3> QED BY <3>2, <3>3, <3>4
  <2>4. SumFunctionOnSet(f, 1..m) = SumFunctionOnSet(u, 1..m)
    BY <2>3, UpToIsFinite, SumSame
  <2> QED BY <2>2, <2>4
<1>8. PICK h : h = [k \in 1..g |-> f[m + k]]
  OBVIOUS
<1>9. \A k \in 1..g : m + k \in 1..n /\ h[k] = f[m + k] /\ h[k] \in Nat
  BY <1>3, <1>5, <1>8
<1>10. SumFunctionOnSet(f, 1..n) = SumFunctionOnSet(f, 1..m) + SumFunctionOnSet(h, 1..g)
  <2>1. \A k \in 1..(m + g) : f[k] \in Int
    BY <1>3, <1>5
  <2>2. \A k \in 1..g : h[k] = f[m + k]
    BY <1>9
  <2>3. SumFunctionOnSet(f, 1..(m + g)) = SumFunctionOnSet(f, 1..m) + SumFunctionOnSet(h, 1..g)
    BY <2>1, <2>2, SumOfRest
  <2> QED BY <1>3, <2>3
<1>11. /\ SumFunctionOnSet(f, 1..m) \in Int /\ SumFunctionOnSet(f, 1..n) \in Int
       /\ SumFunctionOnSet(h, 1..g) \in Int
  BY <1>2, <1>5, <1>9, UpToIsFinite, SumInt
<1>12. PICK s : s = ChargeEvents
  OBVIOUS
<1>13. s = [k \in 1..g |-> Event("late_fee_charged", fees'[m + k].amount)]
  BY <1>2, <1>3, <1>12 DEF ChargeEvents
<1>14. Len(s) = g
  BY <1>13
<1>15. \A k \in 1..g : Moved(s[k], 0, h[k], 0)
  <2> SUFFICES ASSUME NEW k \in 1..g PROVE Moved(s[k], 0, h[k], 0)
    OBVIOUS
  <2>1. s[k] = Event("late_fee_charged", h[k])
    BY <1>4, <1>9, <1>13
  <2>2. PICK x \in Nat : x = h[k]
    BY <1>9
  <2>3. PICK e : e = s[k] /\ e = Event("late_fee_charged", x)
    BY <2>1, <2>2
  <2> QED BY <2>2, <2>3, ChargeMoves
<1>16. PICK o : o = [k \in 1..g |-> 0]
  OBVIOUS
<1>17. SumFunctionOnSet(o, 1..g) = 0
  <2>1. \A k \in 1..g : o[k] = 0
    BY <1>16
  <2> QED BY <2>1, UpToIsFinite, SumZero
<1>18. Listed(s, 0, SumFunctionOnSet(h, 1..g), 0)
  <2>1. \A k \in 1..g : Moved(s[k], o[k], h[k], o[k])
    BY <1>15, <1>16
  <2> QED BY <1>14, <1>17, <2>1 DEF Listed
<1>19. Gains(0, SumFunctionOnSet(h, 1..g), 0)
  BY <1>12, <1>14, <1>18, BookGains
<1>20. SumFunctionOnSet(h, 1..g) = ChargesOf(fees') - ChargesOf(fees)
  BY <1>6, <1>7, <1>10, <1>11
<1> QED BY <1>6, <1>7, <1>11, <1>19, <1>20

\* The entries that a closure posts, as its event reads them back.
Posted == [t \in EntryTypes |-> ledger'[t] - ledger[t]]

\* The amounts that a closure event finds in those entries.
LEMMA ClosureEventReads ==
  ASSUME NEW type, NEW e, e = EventOf(type, 0, ClosureAmounts(Posted))
  PROVE  /\ e.type = type
         /\ Reads(e, "closure_ledger_payoff_total",
                  Posted["principal_paid"] + Posted["late_fee_paid"] + Posted["profit_recognized"])
         /\ Reads(e, "closure_ledger_profit_recognized", Posted["profit_recognized"])
         /\ Reads(e, "closure_ledger_profit_rebated", Posted["profit_rebated"])
         /\ Reads(e, "closure_ledger_return_principal", Posted["return_principal_cleared"])
         /\ Reads(e, "closure_ledger_return_late_fee", Posted["return_late_fee_cleared"])
         /\ Reads(e, "closure_ledger_return_profit_retained", Posted["return_profit_retained"])
         /\ Reads(e, "closure_ledger_return_profit_waived", Posted["return_profit_waived"])
<1>1. PICK d : d = Posted
  OBVIOUS
<1>2. DOMAIN d = EntryTypes
  BY <1>1 DEF Posted
<1>3. PICK row : row = ClosureAmounts(d)
  OBVIOUS
<1>4. /\ "closure_ledger_payoff_total" \in DOMAIN row
      /\ row["closure_ledger_payoff_total"]
           = d["principal_paid"] + d["late_fee_paid"] + d["profit_recognized"]
      /\ "closure_ledger_profit_recognized" \in DOMAIN row
      /\ row["closure_ledger_profit_recognized"] = d["profit_recognized"]
      /\ "closure_ledger_profit_rebated" \in DOMAIN row
      /\ row["closure_ledger_profit_rebated"] = d["profit_rebated"]
  BY <1>2, <1>3 DEF ClosureAmounts, EntryTypes
<1>5. /\ "closure_ledger_return_principal" \in DOMAIN row
      /\ row["closure_ledger_return_principal"] = d["return_principal_cleared"]
      /\ "closure_ledger_return_late_fee" \in DOMAIN row
      /\ row["closure_ledger_return_late_fee"] = d["return_late_fee_cleared"]
      /\ "closure_ledger_return_profit_retained" \in DOMAIN row
      /\ row["closure_ledger_return_profit_retained"] = d["return_profit_retained"]
      /\ "closure_ledger_return_profit_waived" \in DOMAIN row
      /\ row["closure_ledger_return_profit_waived"] = d["return_profit_waived"]
  BY <1>2, <1>3 DEF ClosureAmounts, EntryTypes
<1>6. e.type = type /\ \A source \in DOMAIN row : Reads(e, source, row[source])
  <2>1. e = EventOf(type, 0, row)
    BY <1>1, <1>3
  <2> QED BY <2>1, RowRead DEF Reads
<1>7. /\ Reads(e, "closure_ledger_payoff_total",
               d["principal_paid"] + d["late_fee_paid"] + d["profit_recognized"])
      /\ Reads(e, "closure_ledger_profit_recognized", d["profit_recognized"])
      /\ Reads(e, "closure_ledger_profit_rebated", d["profit_rebated"])
  BY <1>4, <1>6
<1>8. /\ Reads(e, "closure_ledger_return_principal", d["return_principal_cleared"])
      /\ Reads(e, "closure_ledger_return_late_fee", d["return_late_fee_cleared"])
      /\ Reads(e, "closure_ledger_return_profit_retained", d["return_profit_retained"])
      /\ Reads(e, "closure_ledger_return_profit_waived", d["return_profit_waived"])
  BY <1>5, <1>6
<1> QED BY <1>1, <1>6, <1>7, <1>8

\* The entries are numbers.
LEMMA LedgerIsInt ==
  ASSUME ledger \in [EntryTypes -> Int]
  PROVE  \A t \in EntryTypes : ledger[t] \in Int
OBVIOUS

\* settle_contract: the payoff as cash, the rebate, and all unearned profit.
LEMMA SettlementBooks ==
  ASSUME Sound, books \in Books, NEW charged, NEW given, NEW p, SettledBy(charged, given, p),
         Book(ClosureEvents("early_settlement")), NEW x,
         x = Owed("principal") + Owed("late_fee") + charged
  PROVE  x \in Nat /\ charged \in Nat /\ given \in Nat /\ Gains(x, -x - given, charged + given)
<1>1. PICK P \in Nat, F \in Nat : P = Owed("principal") /\ F = Owed("late_fee")
  BY OwedIsNat DEF SettledBy, Cleared
<1>2. charged \in Nat /\ given \in Nat
  BY DEF SettledBy, Cleared
<1>3. \A t \in EntryTypes : ledger[t] \in Int
  BY LedgerIsInt DEF Sound, Typed
<1>4. /\ ledger'["principal_paid"] = ledger["principal_paid"] + P
      /\ ledger'["profit_recognized"] = ledger["profit_recognized"] + charged
      /\ ledger'["late_fee_paid"] = ledger["late_fee_paid"] + F
      /\ ledger'["profit_rebated"] = ledger["profit_rebated"] + given
  BY <1>1, SettledEntries
<1>5. /\ Posted["principal_paid"] = P /\ Posted["profit_recognized"] = charged
      /\ Posted["late_fee_paid"] = F /\ Posted["profit_rebated"] = given
  BY <1>1, <1>2, <1>3, <1>4 DEF Posted, EntryTypes
<1>6. PICK e : e = EventOf("early_settlement", 0, ClosureAmounts(Posted))
  OBVIOUS
<1>7. x \in Nat /\ x = P + F + charged
  BY <1>1, <1>2
<1>8. /\ Reads(e, "closure_ledger_payoff_total", x)
      /\ Reads(e, "closure_ledger_profit_recognized", charged)
      /\ Reads(e, "closure_ledger_profit_rebated", given)
  BY <1>5, <1>6, <1>7, ClosureEventReads
<1>9. SeededRules[e.type] = SettlementRule
  BY <1>6, ClosureEventReads, SeededRulesAre, ComposedRules, TypesOfRules
<1>10. Moved(e, x, -x - given, charged + given)
  BY <1>2, <1>7, <1>8, <1>9, SettlementMoves
<1>11. Book(<<e>>)
  BY <1>6 DEF ClosureEvents, Posted
<1> QED BY <1>2, <1>7, <1>10, <1>11, OneBooks

\* The late fees that a return clears have an entry of their own.
LEMMA ReturnedLateFees ==
  ASSUME Sound, NEW charged, NEW given, ReturnedBy(charged, given)
  PROVE  ledger'["return_late_fee_cleared"] = ledger["return_late_fee_cleared"] + Owed("late_fee")
<1>1. PICK x \in Nat, z \in Nat : x = Owed("late_fee") /\ z = Owed("principal")
  BY OwedIsNat DEF ReturnedBy, Cleared
<1> DEFINE e == [return_principal_cleared |-> z, return_late_fee_cleared |-> x,
                 return_profit_retained |-> charged, return_profit_waived |-> given]
<1>2. Post(e) /\ charged \in Nat /\ given \in Nat
  BY <1>1 DEF ReturnedBy, Cleared
<1>3. /\ "return_late_fee_cleared" \in DOMAIN e /\ e["return_late_fee_cleared"] = x
      /\ \A t \in DOMAIN e : e[t] \in Int
  BY <1>2
<1> HIDE DEF e
<1>4. ledger \in [EntryTypes -> Int]
  BY DEF Sound, Typed
<1>5. \A t \in EntryTypes : ledger'[t] = ledger[t] + IF t \in DOMAIN e THEN e[t] ELSE 0
  BY <1>2, <1>3, <1>4, PostMeaning
<1>6. "return_late_fee_cleared" \in EntryTypes
  BY DEF EntryTypes
<1> QED BY <1>1, <1>3, <1>5, <1>6

\* return_contract: what it clears and waives, and all unearned profit.
LEMMA ReturnBooks ==
  ASSUME Sound, books \in Books, NEW charged, NEW given, ReturnedBy(charged, given),
         Book(ClosureEvents("return"))
  PROVE  /\ Owed("principal") \in Nat /\ Owed("late_fee") \in Nat
         /\ charged \in Nat /\ given \in Nat
         /\ Gains(0, -given - Owed("principal") - Owed("late_fee"), charged + given)
<1>1. PICK P \in Nat, F \in Nat : P = Owed("principal") /\ F = Owed("late_fee")
  BY OwedIsNat DEF ReturnedBy, Cleared
<1>2. charged \in Nat /\ given \in Nat
  BY DEF ReturnedBy, Cleared
<1>3. \A t \in EntryTypes : ledger[t] \in Int
  BY LedgerIsInt DEF Sound, Typed
<1>4. /\ ledger'["return_principal_cleared"] = ledger["return_principal_cleared"] + P
      /\ ledger'["return_profit_retained"] = ledger["return_profit_retained"] + charged
      /\ ledger'["return_late_fee_cleared"] = ledger["return_late_fee_cleared"] + F
      /\ ledger'["return_profit_waived"] = ledger["return_profit_waived"] + given
  BY <1>1, ReturnedEntries, ReturnedLateFees
<1>5. /\ Posted["return_principal_cleared"] = P /\ Posted["return_profit_retained"] = charged
      /\ Posted["return_late_fee_cleared"] = F /\ Posted["return_profit_waived"] = given
  BY <1>1, <1>2, <1>3, <1>4 DEF Posted, EntryTypes
<1>6. PICK e : e = EventOf("return", 0, ClosureAmounts(Posted))
  OBVIOUS
<1>8. /\ Reads(e, "closure_ledger_return_principal", P)
      /\ Reads(e, "closure_ledger_return_late_fee", F)
      /\ Reads(e, "closure_ledger_return_profit_retained", charged)
      /\ Reads(e, "closure_ledger_return_profit_waived", given)
  BY <1>5, <1>6, ClosureEventReads
<1>9. SeededRules[e.type] = ReturnRule
  BY <1>6, ClosureEventReads, SeededRulesAre, ComposedRules, TypesOfRules
<1>10. Moved(e, 0, -given - P - F, charged + given)
  BY <1>1, <1>2, <1>8, <1>9, ReturnMoves
<1>11. Book(<<e>>)
  BY <1>6 DEF ClosureEvents, Posted
<1>12. Gains(0, -given - P - F, charged + given)
  BY <1>10, <1>11, OneBooks
<1> QED BY <1>1, <1>2, <1>12

\* The allowance and the expense share a write-off.
LEMMA MinWith ==
  ASSUME NEW p \in Nat, NEW t \in Nat
  PROVE  Min({p, t}) \in Nat /\ Max({0, t - p}) \in Nat /\ Min({p, t}) + Max({0, t - p}) = t
<1>1. /\ Min({p, t}) \in {p, t} /\ \A z \in {p, t} : Min({p, t}) <= z
  <2>1. \E y \in {p, t} : \A z \in {p, t} : y <= z
    OBVIOUS
  <2> QED BY <2>1 DEF Min
<1>2. PICK w \in Int : w = t - p
  OBVIOUS
<1>3. Max({0, w}) \in {0, w} /\ \A z \in {0, w} : Max({0, w}) >= z
  <2>1. \E y \in {0, w} : \A z \in {0, w} : y >= z
    OBVIOUS
  <2> QED BY <2>1 DEF Max
<1> QED BY <1>1, <1>2, <1>3

\* execute_write_off: what it takes, from allowance and expense.
LEMMA ExecutionBooks ==
  ASSUME books \in Books, NEW n \in DOMAIN writeOffs, NEW ask \in AmountRow,
         writeOffs[n].asked = ask, Book(ExecutionEvents(n))
  PROVE  Gains(0, -ask.principal - ask.profit - ask.late_fee, 0)
<1>1. PICK P \in Nat, Q \in Nat, F \in Nat :
        P = ask.principal /\ Q = ask.profit /\ F = ask.late_fee
  BY AmountRowMeaning
<1>2. PICK t \in Nat : t = P + Q + F
  OBVIOUS
<1>3. PICK v \in Nat : v = Provision
  BY BooksAssumption
<1>4. PICK u \in Nat, w \in Nat : u = Min({v, t}) /\ w = Max({0, t - v}) /\ u + w = t
  <2>1. Min({v, t}) \in Nat /\ Max({0, t - v}) \in Nat /\ Min({v, t}) + Max({0, t - v}) = t
    BY MinWith
  <2> QED BY <2>1
<1>5. PICK row : row = ExecutionAmounts(ask, v)
  OBVIOUS
<1>6. /\ {"provision_used", "write_off_expense_excess", "written_off_principal",
          "written_off_profit", "written_off_late_fee"} \subseteq DOMAIN row
      /\ row["provision_used"] = u /\ row["write_off_expense_excess"] = w
      /\ row["written_off_principal"] = P /\ row["written_off_profit"] = Q
      /\ row["written_off_late_fee"] = F
  <2>1. ask.principal + ask.profit + ask.late_fee = t
    BY <1>1, <1>2
  <2> QED BY <1>1, <1>4, <1>5, <2>1 DEF ExecutionAmounts
<1>7. PICK type \in {"write_off_executed", "partial_write_off_executed"} :
        type = IF writeOffs[n].type = "full" THEN "write_off_executed"
               ELSE "partial_write_off_executed"
  OBVIOUS
<1>8. PICK e1, e2 : /\ e1 = EventOf(type, LineTotal(ask), row)
                    /\ e2 = Event("ecl_provision_released", -v)
  OBVIOUS
<1>9. Moved(e1, 0, -P - Q - F, 0)
  <2>1. \A source \in DOMAIN row : /\ source \in DOMAIN e1.amounts
                                   /\ e1.amounts[source] = row[source]
    BY <1>8, RowRead
  <2>2. /\ Reads(e1, "provision_used", u) /\ Reads(e1, "write_off_expense_excess", w)
        /\ Reads(e1, "written_off_principal", P) /\ Reads(e1, "written_off_profit", Q)
        /\ Reads(e1, "written_off_late_fee", F)
    BY <1>6, <2>1 DEF Reads
  <2>3. e1.type = type
    BY <1>8, RowRead
  <2>4. SeededRules[e1.type] = WriteOffRule
    BY <1>7, <2>3, SeededRulesAre, ComposedRules, TypesOfRules
  <2>5. u + w = P + Q + F
    BY <1>2, <1>4
  <2> QED BY <1>1, <1>4, <2>2, <2>4, <2>5, WriteOffMoves
<1>10. Moved(e2, 0, 0, 0)
  <2>1. -v \in Int
    OBVIOUS
  <2>2. SeededRules[e2.type] = SignedPair("impairment", "allowance")
    BY <1>8, EventRead, SeededRulesAre
  <2>3. "event_amount" \in DOMAIN e2.amounts /\ e2.amounts["event_amount"] \in Int
    BY <1>8, <2>1, EventRead
  <2> QED BY <2>2, <2>3, ProvisionMoves
<1>11. PICK s1, s2 : s1 = <<e1>> /\ s2 = s1 \o If(v > 0, <<e2>>)
  OBVIOUS
<1>12. PICK T : T = {e1, e2}
  OBVIOUS
<1>13. s1 \in Seq(T) /\ e2 \in T /\ Len(s1) = 1 /\ s1[1] = e1
  BY <1>11, <1>12
<1>14. PICK r \in Int : r = -P - Q - F
  OBVIOUS
<1>15. s2 \in Seq(T) /\ Listed(s2, 0, r, 0)
  <2>1. Listed(s1, 0, r, 0)
    BY <1>9, <1>13, <1>14, ListedOne
  <2>2. CASE v > 0
    <3>1. s2 = s1 \o <<e2>>
      BY <1>11, <2>2 DEF If
    <3>2. s2 \in Seq(T) /\ Listed(s2, 0 + 0, r + 0, 0 + 0)
      BY <1>10, <1>13, <2>1, <3>1, ListedWith
    <3>3. 0 + 0 = 0 /\ r + 0 = r
      OBVIOUS
    <3> QED BY <3>2, <3>3
  <2>3. CASE ~(v > 0)
    <3>1. s2 = s1 \o <<>>
      BY <1>11, <2>3 DEF If
    <3> QED BY <1>13, <2>1, <3>1, ListedWithout
  <2> QED BY <2>2, <2>3
<1>16. Book(s2)
  BY <1>3, <1>5, <1>7, <1>8, <1>11 DEF ExecutionEvents
<1>17. Gains(0, r, 0)
  <2>1. Len(s2) \in Nat
    BY <1>15
  <2> QED BY <1>15, <1>16, <2>1, BookGains
<1> QED BY <1>1, <1>14, <1>17

-------------------------------------------------------------------------------
\* The books and the rows they are compared with.

\* What the ledger entries take from the receivable.
WrittenOffEntry == ledger.principal_written_off + ledger.profit_written_off
                     + ledger.late_fee_written_off
ReturnedEntry == ledger.return_principal_cleared + ledger.return_late_fee_cleared
                   + ledger.return_profit_waived
Relieved == CashEntries + ledger.late_fee_waived + ledger.profit_rebated
              + ReturnedEntry + WrittenOffEntry
RecoveredTotal(rows) == SumFunction([n \in DOMAIN rows |-> LineTotal(rows[n].recovered)])

CashBooked ==
  books["cash"] = CashEntries + (IF Delivered THEN DownPayment ELSE 0) + RecoveredTotal(writeOffs)
ReceivableBooked ==
  books["receivable"] = (IF Delivered THEN TotalOf("principal") + TotalOf("profit") ELSE 0)
                          + ChargesOf(fees) - Relieved
UnearnedBooked ==
  NoneTakenBack => books["unearned"] = IF Delivered THEN -unearned ELSE 0

\* Before delivery nothing has happened to the contract.
Untouched ==
  ~Delivered => /\ fees = <<>> /\ payments = <<>>
                /\ \A t \in EntryTypes : ledger[t] = 0
                /\ contract.status = "created" => unearned = TotalOf("profit")

\* The sums are numbers.
LEMMA ChargesAreInt ==
  ASSUME NEW charges \in Seq(FeeRow)
  PROVE  ChargesOf(charges) \in Int
<1>1. PICK m \in Nat : charges \in [1..m -> FeeRow] /\ DOMAIN charges = 1..m
  BY SequenceIsFunction
<1>2. \A k \in 1..m : charges[k].amount \in Nat
  BY <1>1, FeeRowMeaning
<1>3. PICK f \in [1..m -> Nat] : f = [k \in DOMAIN charges |-> charges[k].amount]
  BY <1>1, <1>2
<1>4. SumFunctionOnSet(f, 1..m) \in Nat
  BY UpToIsFinite, SumNat
<1> QED BY <1>3, <1>4 DEF ChargesOf, SumFunction

\* Charges that keep their amounts.
LEMMA ChargesStay ==
  ASSUME fees \in Seq(FeeRow), fees' \in Seq(FeeRow), DOMAIN fees' = DOMAIN fees,
         \A k \in DOMAIN fees : fees'[k].amount = fees[k].amount
  PROVE  ChargesOf(fees') = ChargesOf(fees)
<1>1. [k \in DOMAIN fees' |-> fees'[k].amount] = [k \in DOMAIN fees |-> fees[k].amount]
  OBVIOUS
<1> QED BY <1>1 DEF ChargesOf

\* The entries of a step, as the sums see them.
LEMMA EntriesMove ==
  ASSUME ledger \in [EntryTypes -> Int], ledger' \in [EntryTypes -> Int]
  PROVE  /\ CashEntries \in Int /\ Relieved \in Int
         /\ \A t \in EntryTypes : Posted[t] \in Int /\ Posted[t] = ledger'[t] - ledger[t]
         /\ CashEntries' = CashEntries + Posted["principal_paid"] + Posted["profit_recognized"]
                             + Posted["late_fee_paid"]
         /\ Relieved' = Relieved + Posted["principal_paid"] + Posted["profit_recognized"]
                          + Posted["late_fee_paid"]
                          + Posted["late_fee_waived"] + Posted["profit_rebated"]
                          + Posted["return_principal_cleared"]
                          + Posted["return_late_fee_cleared"] + Posted["return_profit_waived"]
                          + Posted["principal_written_off"] + Posted["profit_written_off"]
                          + Posted["late_fee_written_off"]
<1>1. \A t \in EntryTypes : ledger[t] \in Int /\ ledger'[t] \in Int
  OBVIOUS
<1>2. \A t \in EntryTypes : Posted[t] \in Int /\ Posted[t] = ledger'[t] - ledger[t]
  BY <1>1 DEF Posted
<1>3. \A t \in EntryTypes : ledger'[t] = ledger[t] + Posted[t]
  BY <1>1, <1>2
<1>4. PICK a \in Int, b \in Int, c \in Int :
        a = ledger.principal_paid /\ b = ledger.profit_recognized /\ c = ledger.late_fee_paid
  BY <1>1 DEF EntryTypes
<1>5. PICK d \in Int, e \in Int : d = ledger.late_fee_waived /\ e = ledger.profit_rebated
  BY <1>1 DEF EntryTypes
<1>6. PICK f \in Int, g \in Int, h \in Int :
        /\ f = ledger.return_principal_cleared /\ g = ledger.return_late_fee_cleared
        /\ h = ledger.return_profit_waived
  BY <1>1 DEF EntryTypes
<1>7. PICK i \in Int, j \in Int, k \in Int :
        /\ i = ledger.principal_written_off /\ j = ledger.profit_written_off
        /\ k = ledger.late_fee_written_off
  BY <1>1 DEF EntryTypes
<1>8. PICK a1 \in Int, b1 \in Int, c1 \in Int :
        /\ a1 = Posted["principal_paid"] /\ b1 = Posted["profit_recognized"]
        /\ c1 = Posted["late_fee_paid"]
  BY <1>2 DEF EntryTypes
<1>9. PICK d1 \in Int, e1 \in Int :
        d1 = Posted["late_fee_waived"] /\ e1 = Posted["profit_rebated"]
  BY <1>2 DEF EntryTypes
<1>10. PICK f1 \in Int, g1 \in Int, h1 \in Int :
        /\ f1 = Posted["return_principal_cleared"] /\ g1 = Posted["return_late_fee_cleared"]
        /\ h1 = Posted["return_profit_waived"]
  BY <1>2 DEF EntryTypes
<1>11. PICK i1 \in Int, j1 \in Int, k1 \in Int :
        /\ i1 = Posted["principal_written_off"] /\ j1 = Posted["profit_written_off"]
        /\ k1 = Posted["late_fee_written_off"]
  BY <1>2 DEF EntryTypes
<1>12. /\ ledger'.principal_paid = a + a1 /\ ledger'.profit_recognized = b + b1
       /\ ledger'.late_fee_paid = c + c1
  BY <1>3, <1>4, <1>8 DEF EntryTypes
<1>13. ledger'.late_fee_waived = d + d1 /\ ledger'.profit_rebated = e + e1
  BY <1>3, <1>5, <1>9 DEF EntryTypes
<1>14. /\ ledger'.return_principal_cleared = f + f1 /\ ledger'.return_late_fee_cleared = g + g1
       /\ ledger'.return_profit_waived = h + h1
  BY <1>3, <1>6, <1>10 DEF EntryTypes
<1>15. /\ ledger'.principal_written_off = i + i1 /\ ledger'.profit_written_off = j + j1
       /\ ledger'.late_fee_written_off = k + k1
  BY <1>3, <1>7, <1>11 DEF EntryTypes
<1>16. CashEntries = a + b + c /\ CashEntries' = (a + a1) + (b + b1) + (c + c1)
  BY <1>4, <1>12 DEF CashEntries
<1>17. ReturnedEntry = f + g + h /\ ReturnedEntry' = (f + f1) + (g + g1) + (h + h1)
  BY <1>6, <1>14 DEF ReturnedEntry
<1>18. WrittenOffEntry = i + j + k /\ WrittenOffEntry' = (i + i1) + (j + j1) + (k + k1)
  BY <1>7, <1>15 DEF WrittenOffEntry
<1>19. /\ Relieved = CashEntries + d + e + ReturnedEntry + WrittenOffEntry
       /\ Relieved' = CashEntries' + (d + d1) + (e + e1) + ReturnedEntry' + WrittenOffEntry'
  BY <1>5, <1>13 DEF Relieved
<1>20. CashEntries \in Int /\ CashEntries' = CashEntries + a1 + b1 + c1
  BY <1>16
<1>21. /\ Relieved \in Int
       /\ Relieved' = Relieved + a1 + b1 + c1 + d1 + e1 + f1 + g1 + h1 + i1 + j1 + k1
  BY <1>16, <1>17, <1>18, <1>19
<1> QED BY <1>2, <1>8, <1>9, <1>10, <1>11, <1>20, <1>21

\* What a step adds to the cash entries, and takes from the receivable.
EntriesGrow(c, r) == CashEntries' = CashEntries + c /\ Relieved' = Relieved + r

\* A payment relieves what it brings.
LEMMA PaymentRelieves ==
  ASSUME Sound, Sound', NEW plan, NEW p, NEW a \in Nat, PaidBy(plan, p, a)
  PROVE  EntriesGrow(a, a)
<1>1. ledger \in [EntryTypes -> Int] /\ ledger' \in [EntryTypes -> Int]
  BY DEF Sound, Typed
<1>2. PICK x \in Nat, y \in Nat, z \in Nat :
        /\ x = Column(plan, "late_fee") /\ y = Column(plan, "profit")
        /\ z = Column(plan, "principal") /\ a = x + y + z
  BY ColumnsMeaning DEF PaidBy
<1>3. /\ ledger'["principal_paid"] = ledger["principal_paid"] + z
      /\ ledger'["profit_recognized"] = ledger["profit_recognized"] + y
      /\ ledger'["late_fee_paid"] = ledger["late_fee_paid"] + x
      /\ \A t \in EntryTypes \ CashTypes : ledger'[t] = ledger[t]
  BY <1>2, PaidEntries
<1>4. \A t \in EntryTypes : ledger[t] \in Int /\ Posted[t] = ledger'[t] - ledger[t]
  BY <1>1, EntriesMove
<1>5. /\ Posted["principal_paid"] = z /\ Posted["profit_recognized"] = y
      /\ Posted["late_fee_paid"] = x
  BY <1>3, <1>4 DEF EntryTypes
<1>6. \A t \in EntryTypes \ CashTypes : Posted[t] = 0
  BY <1>3, <1>4
<1>7. /\ Posted["late_fee_waived"] = 0 /\ Posted["profit_rebated"] = 0
      /\ Posted["return_principal_cleared"] = 0 /\ Posted["return_late_fee_cleared"] = 0
      /\ Posted["return_profit_waived"] = 0 /\ Posted["principal_written_off"] = 0
      /\ Posted["profit_written_off"] = 0 /\ Posted["late_fee_written_off"] = 0
  BY <1>6 DEF EntryTypes, CashTypes
<1>8. /\ CashEntries \in Int /\ Relieved \in Int
      /\ CashEntries' = CashEntries + z + y + x
      /\ Relieved' = Relieved + z + y + x + 0 + 0 + 0 + 0 + 0 + 0 + 0 + 0
  BY <1>1, <1>5, <1>7, EntriesMove
<1> QED BY <1>2, <1>8 DEF EntriesGrow

\* Taking it back restores that.
LEMMA ReversalRelieves ==
  ASSUME Sound, Sound', NEW n, NEW lines, TakenBackBy(n, lines)
  PROVE  EntriesGrow(-payments[n].amount, -payments[n].amount)
<1>1. ledger \in [EntryTypes -> Int] /\ ledger' \in [EntryTypes -> Int]
  BY DEF Sound, Typed
<1>2. PICK x \in Nat, y \in Nat, z \in Nat :
        /\ x = Column(lines, "late_fee") /\ y = Column(lines, "profit")
        /\ z = Column(lines, "principal") /\ payments[n].amount = x + y + z
  BY ColumnsMeaning DEF TakenBackBy
<1>3. /\ ledger'["principal_paid"] = ledger["principal_paid"] - z
      /\ ledger'["profit_recognized"] = ledger["profit_recognized"] - y
      /\ ledger'["late_fee_paid"] = ledger["late_fee_paid"] - x
      /\ \A t \in EntryTypes \ CashTypes : ledger'[t] = ledger[t]
  BY <1>2, TakenBackEntries
<1>4. \A t \in EntryTypes : ledger[t] \in Int /\ Posted[t] = ledger'[t] - ledger[t]
  BY <1>1, EntriesMove
<1>5. /\ Posted["principal_paid"] = -z /\ Posted["profit_recognized"] = -y
      /\ Posted["late_fee_paid"] = -x
  BY <1>3, <1>4 DEF EntryTypes
<1>6. \A t \in EntryTypes \ CashTypes : Posted[t] = 0
  BY <1>3, <1>4
<1>7. /\ Posted["late_fee_waived"] = 0 /\ Posted["profit_rebated"] = 0
      /\ Posted["return_principal_cleared"] = 0 /\ Posted["return_late_fee_cleared"] = 0
      /\ Posted["return_profit_waived"] = 0 /\ Posted["principal_written_off"] = 0
      /\ Posted["profit_written_off"] = 0 /\ Posted["late_fee_written_off"] = 0
  BY <1>6 DEF EntryTypes, CashTypes
<1>8. /\ CashEntries \in Int /\ Relieved \in Int
      /\ CashEntries' = CashEntries + (-z) + (-y) + (-x)
      /\ Relieved' = Relieved + (-z) + (-y) + (-x) + 0 + 0 + 0 + 0 + 0 + 0 + 0 + 0
  BY <1>1, <1>5, <1>7, EntriesMove
<1>9. CashEntries' = CashEntries + (-(x + y + z)) /\ Relieved' = Relieved + (-(x + y + z))
  BY <1>8
<1> QED BY <1>2, <1>9 DEF EntriesGrow

\* A settlement relieves what it brings and what it gives up.
LEMMA SettlementRelieves ==
  ASSUME Sound, Sound', NEW charged, NEW given, NEW p, SettledBy(charged, given, p), NEW x,
         x = Owed("principal") + Owed("late_fee") + charged
  PROVE  EntriesGrow(x, x + given)
<1>1. ledger \in [EntryTypes -> Int] /\ ledger' \in [EntryTypes -> Int]
  BY DEF Sound, Typed
<1>2. PICK P \in Nat, F \in Nat : P = Owed("principal") /\ F = Owed("late_fee")
  BY OwedIsNat DEF SettledBy, Cleared
<1>3. charged \in Nat /\ given \in Nat
  BY DEF SettledBy, Cleared
<1>4. /\ ledger'["principal_paid"] = ledger["principal_paid"] + P
      /\ ledger'["profit_recognized"] = ledger["profit_recognized"] + charged
      /\ ledger'["late_fee_paid"] = ledger["late_fee_paid"] + F
      /\ ledger'["profit_rebated"] = ledger["profit_rebated"] + given
      /\ \A t \in EntryTypes \ (CashTypes \cup {"profit_rebated"}) : ledger'[t] = ledger[t]
  BY <1>2, SettledEntries
<1>5. \A t \in EntryTypes : ledger[t] \in Int /\ Posted[t] = ledger'[t] - ledger[t]
  BY <1>1, EntriesMove
<1>6. /\ Posted["principal_paid"] = P /\ Posted["profit_recognized"] = charged
      /\ Posted["late_fee_paid"] = F /\ Posted["profit_rebated"] = given
  BY <1>3, <1>4, <1>5 DEF EntryTypes
<1>7. \A t \in EntryTypes \ (CashTypes \cup {"profit_rebated"}) : Posted[t] = 0
  BY <1>4, <1>5
<1>8. /\ Posted["late_fee_waived"] = 0
      /\ Posted["return_principal_cleared"] = 0 /\ Posted["return_late_fee_cleared"] = 0
      /\ Posted["return_profit_waived"] = 0 /\ Posted["principal_written_off"] = 0
      /\ Posted["profit_written_off"] = 0 /\ Posted["late_fee_written_off"] = 0
  BY <1>7 DEF EntryTypes, CashTypes
<1>9. /\ CashEntries \in Int /\ Relieved \in Int
      /\ CashEntries' = CashEntries + P + charged + F
      /\ Relieved' = Relieved + P + charged + F + 0 + given + 0 + 0 + 0 + 0 + 0 + 0
  BY <1>1, <1>6, <1>8, EntriesMove
<1>10. x = P + F + charged
  BY <1>2
<1> QED BY <1>3, <1>9, <1>10 DEF EntriesGrow

\* A return relieves what it clears but for the profit it retains.
LEMMA ReturnRelieves ==
  ASSUME Sound, Sound', NEW charged, NEW given, ReturnedBy(charged, given)
  PROVE  EntriesGrow(0, given + Owed("principal") + Owed("late_fee"))
<1>1. ledger \in [EntryTypes -> Int] /\ ledger' \in [EntryTypes -> Int]
  BY DEF Sound, Typed
<1>2. PICK P \in Nat, F \in Nat : P = Owed("principal") /\ F = Owed("late_fee")
  BY OwedIsNat DEF ReturnedBy, Cleared
<1>3. charged \in Nat /\ given \in Nat
  BY DEF ReturnedBy, Cleared
<1>4. /\ ledger'["return_principal_cleared"] = ledger["return_principal_cleared"] + P
      /\ ledger'["return_late_fee_cleared"] = ledger["return_late_fee_cleared"] + F
      /\ ledger'["return_profit_waived"] = ledger["return_profit_waived"] + given
      /\ \A t \in EntryTypes \ (ReturnTypes \cup {"return_late_fee_cleared"}) :
           ledger'[t] = ledger[t]
  BY <1>2, ReturnedEntries, ReturnedLateFees
<1>5. \A t \in EntryTypes : ledger[t] \in Int /\ Posted[t] = ledger'[t] - ledger[t]
  BY <1>1, EntriesMove
<1>6. /\ Posted["return_principal_cleared"] = P /\ Posted["return_late_fee_cleared"] = F
      /\ Posted["return_profit_waived"] = given
  BY <1>3, <1>4, <1>5 DEF EntryTypes
<1>7. \A t \in EntryTypes \ (ReturnTypes \cup {"return_late_fee_cleared"}) : Posted[t] = 0
  BY <1>4, <1>5
<1>8. /\ Posted["principal_paid"] = 0 /\ Posted["profit_recognized"] = 0
      /\ Posted["late_fee_paid"] = 0 /\ Posted["late_fee_waived"] = 0
      /\ Posted["profit_rebated"] = 0 /\ Posted["principal_written_off"] = 0
      /\ Posted["profit_written_off"] = 0 /\ Posted["late_fee_written_off"] = 0
  BY <1>7 DEF EntryTypes, ReturnTypes
<1>9. /\ CashEntries \in Int /\ Relieved \in Int
      /\ CashEntries' = CashEntries + 0 + 0 + 0
      /\ Relieved' = Relieved + 0 + 0 + 0 + 0 + 0 + P + F + given + 0 + 0 + 0
  BY <1>1, <1>6, <1>8, EntriesMove
<1> QED BY <1>2, <1>3, <1>9 DEF EntriesGrow

\* A write-off relieves what it takes.
LEMMA ExecutionRelieves ==
  ASSUME Sound, Sound', NEW ask \in AmountRow, NEW p, NEW q, NEW r, WrittenOffBy(ask, p, q, r)
  PROVE  EntriesGrow(0, ask.principal + ask.profit + ask.late_fee)
<1>1. ledger \in [EntryTypes -> Int] /\ ledger' \in [EntryTypes -> Int]
  BY DEF Sound, Typed
<1>2. PICK P \in Nat, Q \in Nat, F \in Nat :
        P = ask.principal /\ Q = ask.profit /\ F = ask.late_fee
  BY AmountRowMeaning
<1>3. /\ ledger'["principal_written_off"] = ledger["principal_written_off"] + P
      /\ ledger'["profit_written_off"] = ledger["profit_written_off"] + Q
      /\ ledger'["late_fee_written_off"] = ledger["late_fee_written_off"] + F
      /\ \A t \in EntryTypes \ OffTypes : ledger'[t] = ledger[t]
  BY <1>2, WrittenOffEntries
<1>4. \A t \in EntryTypes : ledger[t] \in Int /\ Posted[t] = ledger'[t] - ledger[t]
  BY <1>1, EntriesMove
<1>5. /\ Posted["principal_written_off"] = P /\ Posted["profit_written_off"] = Q
      /\ Posted["late_fee_written_off"] = F
  BY <1>3, <1>4 DEF EntryTypes
<1>6. \A t \in EntryTypes \ OffTypes : Posted[t] = 0
  BY <1>3, <1>4
<1>7. /\ Posted["principal_paid"] = 0 /\ Posted["profit_recognized"] = 0
      /\ Posted["late_fee_paid"] = 0 /\ Posted["late_fee_waived"] = 0
      /\ Posted["profit_rebated"] = 0 /\ Posted["return_principal_cleared"] = 0
      /\ Posted["return_late_fee_cleared"] = 0 /\ Posted["return_profit_waived"] = 0
  BY <1>6 DEF EntryTypes, OffTypes
<1>8. /\ CashEntries \in Int /\ Relieved \in Int
      /\ CashEntries' = CashEntries + 0 + 0 + 0
      /\ Relieved' = Relieved + 0 + 0 + 0 + 0 + 0 + 0 + 0 + 0 + P + Q + F
  BY <1>1, <1>5, <1>7, EntriesMove
<1> QED BY <1>2, <1>8 DEF EntriesGrow

\* A waiver relieves what was not paid of the charge.
LEMMA WaiverRelieves ==
  ASSUME Sound, Sound', NEW k \in DOMAIN fees, ApproveWaiver(k), NEW x,
         x = fees[k].amount - fees[k].amount_paid
  PROVE  EntriesGrow(0, x)
<1>1. ledger \in [EntryTypes -> Int] /\ ledger' \in [EntryTypes -> Int]
  BY DEF Sound, Typed
<1>2. PICK w \in Nat : w = x
  <2>1. fees[k] \in FeeRow
    BY SequenceElement DEF Sound, Typed
  <2>2. /\ fees[k].amount_paid <= fees[k].amount /\ fees[k].amount \in Nat
        /\ fees[k].amount_paid \in Nat
    BY <2>1, FeeRowMeaning DEF Sound, FeesPaidWithin
  <2> QED BY <2>2
<1>3. PICK e : e = [late_fee_waived |-> w]
  OBVIOUS
<1>4. Post(e)
  <2>1. Post([late_fee_waived |-> Max({0, w})])
    BY <1>2 DEF ApproveWaiver
  <2>2. Max({0, w}) = w
    BY MaxWithZero
  <2> QED BY <1>3, <2>1, <2>2
<1>5. DOMAIN e = {"late_fee_waived"} /\ e["late_fee_waived"] = w /\ \A t \in DOMAIN e : e[t] \in Int
  BY <1>3
<1>6. \A t \in EntryTypes : ledger'[t] = ledger[t] + IF t \in DOMAIN e THEN e[t] ELSE 0
  BY <1>1, <1>4, <1>5, PostMeaning
<1>7. \A t \in EntryTypes : ledger[t] \in Int /\ Posted[t] = ledger'[t] - ledger[t]
  BY <1>1, EntriesMove
<1>8. Posted["late_fee_waived"] = w
  BY <1>5, <1>6, <1>7 DEF EntryTypes
<1>9. \A t \in EntryTypes \ {"late_fee_waived"} : Posted[t] = 0
  BY <1>5, <1>6, <1>7
<1>10. /\ Posted["principal_paid"] = 0 /\ Posted["profit_recognized"] = 0
       /\ Posted["late_fee_paid"] = 0
       /\ Posted["profit_rebated"] = 0 /\ Posted["return_principal_cleared"] = 0
       /\ Posted["return_late_fee_cleared"] = 0 /\ Posted["return_profit_waived"] = 0
       /\ Posted["principal_written_off"] = 0
       /\ Posted["profit_written_off"] = 0 /\ Posted["late_fee_written_off"] = 0
  BY <1>9 DEF EntryTypes
<1>11. /\ CashEntries \in Int /\ Relieved \in Int
       /\ CashEntries' = CashEntries + 0 + 0 + 0
       /\ Relieved' = Relieved + 0 + 0 + 0 + w + 0 + 0 + 0 + 0 + 0 + 0 + 0
  BY <1>1, <1>8, <1>10, EntriesMove
<1> QED BY <1>2, <1>11 DEF EntriesGrow

\* The other steps relieve nothing.
LEMMA EntriesStay ==
  ASSUME Sound, ledger' = ledger
  PROVE  EntriesGrow(0, 0)
<1>1. CashEntries \in Int /\ Relieved \in Int
  BY EntriesMove DEF Sound, Typed
<1>2. CashEntries' = CashEntries
  BY DEF CashEntries
<1>3. Relieved' = Relieved
  BY <1>2 DEF Relieved, ReturnedEntry, WrittenOffEntry
<1> QED BY <1>1, <1>2, <1>3 DEF EntriesGrow

\* What was recovered, request by request.
Recoveries(rows) == [n \in 1..Len(rows) |-> LineTotal(rows[n].recovered)]

\* What was recovered is a number, for each request and in all.
LEMMA RecoveriesMeaning ==
  ASSUME NEW rows \in Seq(WriteOffRow)
  PROVE  /\ Recoveries(rows) \in [1..Len(rows) -> Nat] /\ Len(rows) \in Nat
         /\ DOMAIN rows = 1..Len(rows)
         /\ RecoveredTotal(rows) = SumFunctionOnSet(Recoveries(rows), 1..Len(rows))
         /\ RecoveredTotal(rows) \in Nat
<1>1. PICK m \in Nat : m = Len(rows) /\ rows \in [1..m -> WriteOffRow] /\ DOMAIN rows = 1..m
  BY SequenceIsFunction
<1>2. \A n \in 1..m : LineTotal(rows[n].recovered) \in Nat
  <2> SUFFICES ASSUME NEW n \in 1..m PROVE LineTotal(rows[n].recovered) \in Nat
    OBVIOUS
  <2>1. PICK x \in AmountRow : x = rows[n].recovered
    BY <1>1, WriteOffRowMeaning
  <2>2. x.late_fee \in Nat /\ x.profit \in Nat /\ x.principal \in Nat
    BY AmountRowMeaning
  <2>3. LineTotal(x) \in Nat
    BY <2>2 DEF LineTotal
  <2> QED BY <2>1, <2>3
<1>3. PICK f \in [1..m -> Nat] : f = [n \in 1..m |-> LineTotal(rows[n].recovered)]
  BY <1>2
<1>4. Recoveries(rows) = f
  BY <1>1, <1>3 DEF Recoveries
<1>5. RecoveredTotal(rows) = SumFunctionOnSet(f, 1..m)
  BY <1>1, <1>3 DEF RecoveredTotal, SumFunction
<1>6. SumFunctionOnSet(f, 1..m) \in Nat
  BY UpToIsFinite, SumNat
<1> QED BY <1>1, <1>4, <1>5, <1>6

\* A sum of which one term differs.
LEMMA SumChangeUpTo ==
  ASSUME NEW f, NEW g, NEW m \in Nat, NEW n \in 1..m,
         \A y \in 1..m : f[y] \in Int /\ g[y] \in Int,
         \A y \in (1..m) \ {n} : f[y] = g[y]
  PROVE  SumFunctionOnSet(g, 1..m) = SumFunctionOnSet(f, 1..m) + g[n] - f[n]
<1>1. PICK S : S = 1..m
  OBVIOUS
<1>2. IsFiniteSet(S)
  BY <1>1, UpToIsFinite
<1>3. n \in S /\ \A y \in S : f[y] \in Int /\ g[y] \in Int
  BY <1>1
<1>4. \A y \in S \ {n} : f[y] = g[y]
  BY <1>1
<1>5. SumFunctionOnSet(g, S) = SumFunctionOnSet(f, S) + g[n] - f[n]
  BY <1>2, <1>3, <1>4, SumChange
<1> QED BY <1>1, <1>5

\* Requests of which one has recovered more, or the same.
LEMMA RecoveredChange ==
  ASSUME NEW rows \in Seq(WriteOffRow), NEW later \in Seq(WriteOffRow),
         DOMAIN later = DOMAIN rows, NEW n \in DOMAIN rows, NEW w \in Nat,
         \A k \in DOMAIN rows : k # n => later[k] = rows[k],
         LineTotal(later[n].recovered) = LineTotal(rows[n].recovered) + w
  PROVE  RecoveredTotal(later) = RecoveredTotal(rows) + w
<1>1. PICK m \in Nat : m = Len(rows) /\ DOMAIN rows = 1..m
  BY SequenceIsFunction
<1>2. Len(later) = m
  BY <1>1, SequenceIsFunction
<1>3. PICK f \in [1..m -> Nat] :
        f = Recoveries(rows) /\ RecoveredTotal(rows) = SumFunctionOnSet(f, 1..m)
  BY <1>1, RecoveriesMeaning
<1>4. PICK g \in [1..m -> Nat] :
        g = Recoveries(later) /\ RecoveredTotal(later) = SumFunctionOnSet(g, 1..m)
  BY <1>2, RecoveriesMeaning
<1>5. \A k \in (1..m) \ {n} : f[k] = g[k]
  BY <1>1, <1>2, <1>3, <1>4 DEF Recoveries
<1>6. g[n] = f[n] + w
  BY <1>1, <1>2, <1>3, <1>4 DEF Recoveries
<1>8. SumFunctionOnSet(g, 1..m) = SumFunctionOnSet(f, 1..m) + g[n] - f[n]
  <2>1. n \in 1..m /\ \A y \in 1..m : f[y] \in Int /\ g[y] \in Int
    BY <1>1
  <2> QED BY <1>5, <2>1, SumChangeUpTo
<1>9. PICK s \in Nat : s = SumFunctionOnSet(f, 1..m)
  BY UpToIsFinite, SumNat
<1>10. f[n] \in Nat
  BY <1>1
<1>11. SumFunctionOnSet(g, 1..m) = s + (f[n] + w) - f[n]
  BY <1>6, <1>8, <1>9
<1> QED BY <1>3, <1>4, <1>9, <1>10, <1>11

\* A new request has recovered nothing.
LEMMA RecoveredOneMore ==
  ASSUME writeOffs \in Seq(WriteOffRow), NEW w, Requested(w)
  PROVE  RecoveredTotal(writeOffs') = RecoveredTotal(writeOffs)
<1>1. PICK m \in Nat : m = Len(writeOffs) /\ DOMAIN writeOffs = 1..m
  BY SequenceIsFunction
<1>2. /\ writeOffs' \in Seq(WriteOffRow) /\ DOMAIN writeOffs' = 1..(m + 1)
      /\ \A k \in 1..m : writeOffs'[k] = writeOffs[k]
      /\ writeOffs'[m + 1] = w /\ w.recovered = Nothing
  BY <1>1, RequestedMeaning DEF Requested
<1>3. Len(writeOffs') = m + 1
  BY <1>2, SequenceIsFunction
<1>4. PICK f \in [1..m -> Nat] :
        f = Recoveries(writeOffs) /\ RecoveredTotal(writeOffs) = SumFunctionOnSet(f, 1..m)
  BY <1>1, RecoveriesMeaning
<1>5. PICK g \in [1..(m + 1) -> Nat] :
        g = Recoveries(writeOffs') /\ RecoveredTotal(writeOffs') = SumFunctionOnSet(g, 1..(m + 1))
  BY <1>2, <1>3, RecoveriesMeaning
<1>6. LineTotal(Nothing) = 0
  BY DEF LineTotal, Nothing
<1>7. (\A k \in 1..m : g[k] = f[k]) /\ g[m + 1] = 0
  BY <1>1, <1>2, <1>3, <1>4, <1>5, <1>6 DEF Recoveries
<1>8. f \in [1..m -> Int] /\ g \in [1..(m + 1) -> Int]
  OBVIOUS
<1>9. SumFunction(g) = SumFunction(f) + g[m + 1]
  BY <1>7, <1>8, SumGrows
<1>10. SumFunctionOnSet(f, 1..m) \in Nat
  BY UpToIsFinite, SumNat
<1>11. /\ SumFunction(f) = SumFunctionOnSet(f, 1..m)
       /\ SumFunction(g) = SumFunctionOnSet(g, 1..(m + 1))
  BY DEF SumFunction
<1> QED BY <1>4, <1>5, <1>7, <1>9, <1>10, <1>11

\* A decision or an execution recovers nothing.
LEMMA RecoveredJudged ==
  ASSUME writeOffs \in Seq(WriteOffRow), NEW n \in DOMAIN writeOffs, NEW s \in RequestStatus,
         writeOffs' = Judged(writeOffs, n, s)
  PROVE  RecoveredTotal(writeOffs') = RecoveredTotal(writeOffs)
<1>1. PICK later : later = Judged(writeOffs, n, s)
  OBVIOUS
<1>2. /\ later \in Seq(WriteOffRow) /\ DOMAIN later = DOMAIN writeOffs
      /\ \A k \in DOMAIN writeOffs : k # n => later[k] = writeOffs[k]
      /\ later[n].recovered = writeOffs[n].recovered
  BY <1>1, JudgedMeaning
<1>3. PICK x \in Nat : x = LineTotal(writeOffs[n].recovered)
  <2>1. writeOffs[n].recovered \in AmountRow
    BY SequenceElement, WriteOffRowMeaning
  <2> QED BY <2>1, AmountRowMeaning DEF LineTotal
<1>4. PICK w \in Nat : w = 0
  OBVIOUS
<1>5. LineTotal(later[n].recovered) = LineTotal(writeOffs[n].recovered) + w
  BY <1>2, <1>3, <1>4
<1>6. RecoveredTotal(later) = RecoveredTotal(writeOffs) + w
  BY <1>2, <1>5, RecoveredChange
<1>7. RecoveredTotal(writeOffs) \in Nat
  BY RecoveriesMeaning
<1> QED BY <1>1, <1>4, <1>6, <1>7

\* A recovery is credited in full.
LEMMA RecoveredMore ==
  ASSUME RequestsSound, NEW n \in DOMAIN writeOffs, NEW a \in Nat,
         NEW order \in RecoveryOrders, RecordRecovery(n, a, order)
  PROVE  RecoveredTotal(writeOffs') = RecoveredTotal(writeOffs) + a
<1>1. writeOffs \in Seq(WriteOffRow)
  BY DEF RequestsSound
<1>2. PICK w \in WriteOffRow : w = writeOffs[n]
  BY <1>1, SequenceElement
<1>3. order \in Seq(Components)
  BY WriteOffAssumption DEF Components
<1>4. PICK c : c = Credit(n, a, order)
  OBVIOUS
<1>5. \A b \in Components : c[b] \in 0..(w.asked[b] - w.recovered[b])
  BY <1>2, <1>3, <1>4, CreditMeaning
<1>6. \A b \in Components : w.asked[b] \in Nat /\ w.recovered[b] \in Nat
  BY WriteOffRowMeaning, RowComponents
<1>7. ASSUME NEW b \in Components PROVE c[b] \in Nat
  <2>1. PICK x \in Int : x = w.asked[b] - w.recovered[b]
    BY <1>6
  <2>2. c[b] \in 0..x
    BY <1>5, <2>1
  <2> QED BY <2>2
<1>8. PICK r : r = [b \in Components |-> w.recovered[b] + c[b]]
  OBVIOUS
<1>9. r \in AmountRow /\ LineTotal(r) = r["late_fee"] + r["profit"] + r["principal"]
  <2>1. r = [b \in Components |-> r[b]]
    BY <1>8
  <2>2. \A b \in Components : r[b] \in Nat
    BY <1>6, <1>7, <1>8
  <2> QED BY <2>1, <2>2, ComponentsRow
<1>10. writeOffs' = [writeOffs EXCEPT ![n].recovered = [b \in DOMAIN Nothing |-> @[b] + c[b]]]
       /\ LineTotal(c) = a
  BY <1>4 DEF RecordRecovery
<1>11. writeOffs' = RecoveredTo(writeOffs, n, r)
  <2>1. [b \in DOMAIN Nothing |-> writeOffs[n].recovered[b] + c[b]] = r
    BY <1>2, <1>8, ComponentsMeaning
  <2> QED BY <1>10, <2>1 DEF RecoveredTo
<1>12. PICK later : later = RecoveredTo(writeOffs, n, r)
  OBVIOUS
<1>13. /\ later \in Seq(WriteOffRow) /\ DOMAIN later = DOMAIN writeOffs
       /\ \A k \in DOMAIN writeOffs : k # n => later[k] = writeOffs[k]
       /\ later[n].recovered = r
  BY <1>1, <1>9, <1>12, RecoveredToMeaning
<1>14. PICK x \in Nat, y \in Nat, z \in Nat :
         x = w.recovered["late_fee"] /\ y = w.recovered["profit"] /\ z = w.recovered["principal"]
  BY <1>6 DEF Components
<1>15. PICK u \in Nat, v \in Nat, t \in Nat :
         u = c["late_fee"] /\ v = c["profit"] /\ t = c["principal"]
  BY <1>7 DEF Components
<1>16. r["late_fee"] = x + u /\ r["profit"] = y + v /\ r["principal"] = z + t
  BY <1>8, <1>14, <1>15 DEF Components
<1>17. LineTotal(c) = u + v + t /\ LineTotal(w.recovered) = x + y + z
  BY <1>14, <1>15 DEF LineTotal
<1>18. LineTotal(later[n].recovered) = LineTotal(writeOffs[n].recovered) + a
  <2>1. LineTotal(r) = x + y + z + a
    BY <1>9, <1>10, <1>16, <1>17
  <2> QED BY <1>2, <1>13, <1>17, <2>1
<1>19. RecoveredTotal(later) = RecoveredTotal(writeOffs) + a
  BY <1>1, <1>13, <1>18, RecoveredChange
<1> QED BY <1>11, <1>12, <1>19

LedgerInv == books \in Books /\ Untouched /\ CashBooked /\ ReceivableBooked /\ UnearnedBooked

\* The sums of the entries are numbers.
LEMMA EntriesAreInt ==
  ASSUME Sound
  PROVE  CashEntries \in Int /\ Relieved \in Int
<1>1. \A t \in EntryTypes : ledger[t] \in Int
  BY LedgerIsInt DEF Sound, Typed
<1>2. CashEntries \in Int
  BY <1>1 DEF CashEntries, EntryTypes
<1>3. ReturnedEntry \in Int
  BY <1>1 DEF ReturnedEntry, EntryTypes
<1>4. WrittenOffEntry \in Int
  BY <1>1 DEF WrittenOffEntry, EntryTypes
<1>5. ledger.late_fee_waived \in Int /\ ledger.profit_rebated \in Int
  BY <1>1 DEF EntryTypes
<1> QED BY <1>2, <1>3, <1>4, <1>5 DEF Relieved

\* The rows and the books move together.
LEMMA BooksFollow ==
  ASSUME Sound, RequestsSound, books \in Books, CashBooked, ReceivableBooked,
         Delivered' <=> Delivered, NEW c \in Int, NEW r \in Int, NEW f \in Int, NEW w \in Int,
         EntriesGrow(c, r), ChargesOf(fees') = ChargesOf(fees) + f,
         RecoveredTotal(writeOffs') = RecoveredTotal(writeOffs) + w,
         NEW x, NEW y, NEW z, Gains(x, y, z), x = c + w, y = f - r
  PROVE  CashBooked' /\ ReceivableBooked'
<1>1. PICK C \in Int, R \in Int : C = CashEntries /\ R = Relieved
  BY EntriesAreInt
<1>2. PICK F \in Int : F = ChargesOf(fees)
  BY ChargesAreInt DEF Sound, Typed
<1>3. PICK W \in Int : W = RecoveredTotal(writeOffs)
  BY RecoveriesMeaning DEF RequestsSound
<1>4. PICK D \in Int : D = IF Delivered THEN DownPayment ELSE 0
  BY BooksAssumption
<1>5. PICK T \in Int : T = IF Delivered THEN TotalOf("principal") + TotalOf("profit") ELSE 0
  <2>1. TotalOf("principal") + TotalOf("profit") \in Int
    BY TotalsAreNat
  <2> QED BY <2>1
<1>6. D = (IF Delivered THEN DownPayment ELSE 0)'
  BY <1>4
<1>7. T = (IF Delivered THEN TotalOf("principal") + TotalOf("profit") ELSE 0)'
  <2>1. (TotalOf("principal") + TotalOf("profit"))' = TotalOf("principal") + TotalOf("profit")
    BY DEF TotalOf, Installments
  <2> QED BY <1>5, <2>1
<1>8. books["cash"] = C + D + W /\ books["receivable"] = T + F - R
  BY <1>1, <1>2, <1>3, <1>4, <1>5 DEF CashBooked, ReceivableBooked
<1>9. books'["cash"] = books["cash"] + x /\ books'["receivable"] = books["receivable"] + y
  BY DEF Gains
<1>10. CashEntries' = C + c /\ Relieved' = R + r
  BY <1>1 DEF EntriesGrow
<1>11. books'["cash"] = (C + c) + D + (W + w)
  BY <1>8, <1>9
<1>12. books'["receivable"] = T + (F + f) - (R + r)
  BY <1>8, <1>9
<1>13. CashBooked'
  BY <1>3, <1>6, <1>10, <1>11 DEF CashBooked
<1>14. ReceivableBooked'
  BY <1>2, <1>7, <1>10, <1>12 DEF ReceivableBooked
<1> QED BY <1>13, <1>14

\* Rows that were taken back stay so.
LEMMA TakenBackStay ==
  ASSUME Sound, payments' = payments \/ \E p : OneMore(payments, p, payments')
  PROVE  NoneTakenBack' => NoneTakenBack
<1>1. CASE payments' = payments
  BY <1>1 DEF NoneTakenBack
<1>2. CASE \E p : OneMore(payments, p, payments')
  <2>1. PICK m \in Nat : m = Len(payments) /\ DOMAIN payments = 1..m
    BY SequenceIsFunction DEF Sound, Typed
  <2>2. DOMAIN payments' = 1..(m + 1) /\ \A k \in 1..m : payments'[k] = payments[k]
    BY <1>2, <2>1 DEF OneMore
  <2> QED BY <2>1, <2>2 DEF NoneTakenBack
<1> QED BY <1>1, <1>2

\* Profit that is recognised, or given up, leaves both sides.
LEMMA UnearnedMoves ==
  ASSUME books \in Books, UnearnedBooked, NoneTakenBack' => NoneTakenBack, Delivered, Delivered',
         NEW z \in Nat, unearned \in Nat, unearned' = unearned - z, NEW x, NEW y, Gains(x, y, z)
  PROVE  UnearnedBooked'
<1>1. PICK u \in Nat : u = unearned
  OBVIOUS
<1>2. books'["unearned"] = books["unearned"] + z
  BY DEF Gains
<1>3. NoneTakenBack => books["unearned"] = -u
  BY <1>1 DEF UnearnedBooked
<1>4. NoneTakenBack => books'["unearned"] = -(u - z)
  BY <1>2, <1>3
<1> QED BY <1>1, <1>4 DEF UnearnedBooked

\* The other steps leave both alone.
LEMMA UnearnedStays ==
  ASSUME books \in Books, UnearnedBooked, NoneTakenBack' => NoneTakenBack,
         Delivered' <=> Delivered, Delivered => unearned' = unearned,
         books' \in Books, books'["unearned"] = books["unearned"]
  PROVE  UnearnedBooked'
BY DEF UnearnedBooked

\* Journals that move no unearned profit leave that account.
LEMMA NothingGained ==
  ASSUME books \in Books, NEW x, NEW y, Gains(x, y, 0)
  PROVE  books' \in Books /\ books'["unearned"] = books["unearned"]
<1>1. books["unearned"] \in Int
  BY DEF Books, Accounts
<1> QED BY <1>1 DEF Gains

\* One that is delivered stays so when it is closed by anything but a cancellation.
LEMMA DeliveredThrough ==
  ASSUME contract.status = "active",
         \/ contract' = contract
         \/ contract'.closure \in {"normal", "early_settlement", "return", "write_off"}
  PROVE  Delivered /\ Delivered'
BY DEF Delivered

\* After delivery there is nothing to say of the time before.
LEMMA UntouchedAfter ==
  ASSUME Delivered'
  PROVE  Untouched'
BY DEF Untouched

\* Steps that leave the contract and its rows alone.
LEMMA UntouchedStays ==
  ASSUME Untouched, contract' = contract, ~Delivered => /\ fees' = fees /\ payments' = payments
                                                        /\ ledger' = ledger
                                                        /\ unearned' = unearned
  PROVE  Untouched'
<1>1. Delivered' <=> Delivered
  BY DEF Delivered
<1>2. CASE Delivered
  BY <1>1, <1>2, UntouchedAfter
<1>3. CASE ~Delivered
  <2>1. TotalOf("profit")' = TotalOf("profit")
    BY DEF TotalOf, Installments
  <2> QED BY <1>1, <1>3, <2>1 DEF Untouched
<1> QED BY <1>2, <1>3

-------------------------------------------------------------------------------
\* The steps, one by one.

\* Confirming delivery books the sale, its profit and the down payment.
LEMMA DeliveryAgrees ==
  ASSUME Sound, RequestsSound, LedgerInv, ConfirmDelivery, Book(DeliveryEvents),
         writeOffs' = writeOffs
  PROVE  LedgerInv'
<1>1. /\ books \in Books /\ Untouched /\ CashBooked /\ ReceivableBooked /\ UnearnedBooked
  BY DEF LedgerInv
<1>2. /\ contract.status = "created" /\ contract' = [contract EXCEPT !.status = "active"]
      /\ unearned' = unearned /\ inst' = inst /\ fees' = fees /\ payments' = payments
      /\ ledger' = ledger
  BY DEF ConfirmDelivery, money
<1>3. ~Delivered /\ Delivered'
  BY <1>2, SoundOpen DEF Delivered, Sound, Typed, ContractTyped
<1>4. PICK P \in Nat, Q \in Nat, D \in Nat :
        P = TotalOf("principal") /\ Q = TotalOf("profit") /\ D = DownPayment
  BY TotalsAreNat, BooksAssumption
<1>5. /\ books' \in Books /\ books'["cash"] = books["cash"] + D
      /\ books'["receivable"] = books["receivable"] + (P + Q)
      /\ books'["unearned"] = books["unearned"] + (-Q)
  BY <1>1, <1>4, DeliveryBooks DEF Gains
<1>6. PICK C \in Int, R \in Int : C = CashEntries /\ R = Relieved
  BY EntriesAreInt
<1>7. PICK F \in Int : F = ChargesOf(fees)
  BY ChargesAreInt DEF Sound, Typed
<1>8. PICK W \in Int : W = RecoveredTotal(writeOffs)
  BY RecoveriesMeaning DEF RequestsSound
<1>9. books["cash"] = C + 0 + W /\ books["receivable"] = 0 + F - R
  BY <1>1, <1>3, <1>6, <1>7, <1>8 DEF CashBooked, ReceivableBooked
<1>10. CashEntries' = C
  BY <1>2, <1>6 DEF CashEntries
<1>11. Relieved' = R
  BY <1>2, <1>6, <1>10 DEF Relieved, ReturnedEntry, WrittenOffEntry
<1>12. /\ (TotalOf("principal") + TotalOf("profit"))' = P + Q
  BY <1>4 DEF TotalOf, Installments
<1>13. CashBooked'
  <2>1. books'["cash"] = C + D + W
    BY <1>5, <1>9
  <2> QED BY <1>3, <1>4, <1>8, <1>10, <2>1 DEF CashBooked
<1>14. ReceivableBooked'
  <2>1. books'["receivable"] = (P + Q) + F - R
    BY <1>5, <1>9
  <2> QED BY <1>2, <1>3, <1>7, <1>11, <1>12, <2>1 DEF ReceivableBooked
<1>15. UnearnedBooked'
  <2>1. unearned = Q /\ payments = <<>>
    BY <1>1, <1>2, <1>3, <1>4 DEF Untouched
  <2>2. NoneTakenBack
    BY <2>1 DEF NoneTakenBack
  <2>3. books["unearned"] = 0
    BY <1>1, <1>3, <2>2 DEF UnearnedBooked
  <2>4. books'["unearned"] = -Q
    BY <1>5, <2>3
  <2> QED BY <1>2, <1>3, <2>1, <2>4 DEF UnearnedBooked
<1> QED BY <1>3, <1>5, <1>13, <1>14, <1>15, UntouchedAfter DEF LedgerInv

\* A payment is booked as cash for receivable, and its profit as earned.
LEMMA PaymentAgrees ==
  ASSUME Sound, RequestsSound, Sound', LedgerInv, NEW plan, NEW p, NEW a \in Nat,
         PaidBy(plan, p, a), Book(PaymentEvents(a)), writeOffs' = writeOffs
  PROVE  LedgerInv'
<1>1. /\ books \in Books /\ Untouched /\ CashBooked /\ ReceivableBooked /\ UnearnedBooked
  BY DEF LedgerInv
<1>2. /\ contract.status = "active"
      /\ contract' \in {contract, [status |-> "closed", closure |-> "normal"]}
      /\ plan \in [Installments -> AmountRow] /\ PayFees(plan)
      /\ unearned' = unearned - Column(plan, "profit")
      /\ OneMore(payments, p, payments')
  BY DEF PaidBy
<1>3. Delivered /\ Delivered'
  BY <1>2, DeliveredThrough
<1>4. PICK z \in Nat : z = Column(plan, "profit") /\ Gains(a, -a, z)
  BY <1>1, PaymentBooks
<1>5. EntriesGrow(a, a)
  BY PaymentRelieves
<1>6. ChargesOf(fees') = ChargesOf(fees) + 0
  <2>1. fees \in Seq(FeeRow) /\ FeesPaidWithin
    BY DEF Sound, Typed
  <2>2. /\ fees' \in Seq(FeeRow) /\ DOMAIN fees' = DOMAIN fees
        /\ \A k \in DOMAIN fees : SameFee(fees[k], fees'[k])
    BY <1>2, <2>1, PayFeesMeaning DEF FeesPaidWithin
  <2>3. ChargesOf(fees') = ChargesOf(fees)
    BY <2>1, <2>2, ChargesStay DEF SameFee
  <2> QED BY <2>1, <2>3, ChargesAreInt
<1>7. RecoveredTotal(writeOffs') = RecoveredTotal(writeOffs) + 0
  BY RecoveriesMeaning DEF RequestsSound
<1>8. CashBooked' /\ ReceivableBooked'
  <2>1. PICK o \in Int, x \in Int, y \in Int : o = 0 /\ x = a + o /\ y = o - a
    OBVIOUS
  <2>2. Gains(x, y, z)
    <3>1. x = a /\ y = -a
      BY <2>1
    <3> QED BY <1>4, <3>1
  <2>3. ChargesOf(fees') = ChargesOf(fees) + o
        /\ RecoveredTotal(writeOffs') = RecoveredTotal(writeOffs) + o
    BY <1>6, <1>7, <2>1
  <2> QED BY <1>1, <1>3, <1>5, <2>1, <2>2, <2>3, BooksFollow
<1>9. UnearnedBooked'
  <2>1. NoneTakenBack' => NoneTakenBack
    BY <1>2, TakenBackStay
  <2>2. unearned \in Nat
    BY <1>2, UnearnedIsNat
  <2> QED BY <1>1, <1>2, <1>3, <1>4, <2>1, <2>2, UnearnedMoves
<1> QED BY <1>3, <1>4, <1>8, <1>9, UntouchedAfter DEF LedgerInv, Gains

\* Cancelling books a refund that none of the three accounts sees.
LEMMA CancellationAgrees ==
  ASSUME Sound, RequestsSound, LedgerInv, CancelContract,
         Book(<<Event("cancellation", CancelRefund)>>), writeOffs' = writeOffs
  PROVE  LedgerInv'
<1>1. /\ books \in Books /\ Untouched /\ CashBooked /\ ReceivableBooked /\ UnearnedBooked
  BY DEF LedgerInv
<1>2. /\ contract.status = "created"
      /\ contract' = [status |-> "closed", closure |-> "cancellation"]
      /\ fees' = fees /\ payments' = payments /\ ledger' = ledger
  BY DEF CancelContract
<1>3. ~Delivered /\ ~Delivered'
  BY <1>2, SoundOpen DEF Delivered
<1>4. Gains(0, 0, 0)
  BY <1>1, CancellationBooks
<1>5. EntriesGrow(0, 0)
  BY <1>2, EntriesStay
<1>6. ChargesOf(fees') = ChargesOf(fees) + 0
  BY <1>2, ChargesAreInt DEF Sound, Typed
<1>7. RecoveredTotal(writeOffs') = RecoveredTotal(writeOffs) + 0
  BY RecoveriesMeaning DEF RequestsSound
<1>8. CashBooked' /\ ReceivableBooked'
  <2>1. PICK o \in Int : o = 0 /\ o = o + o /\ o = o - o
    OBVIOUS
  <2>2. /\ Gains(o, o, 0) /\ EntriesGrow(o, o) /\ ChargesOf(fees') = ChargesOf(fees) + o
        /\ RecoveredTotal(writeOffs') = RecoveredTotal(writeOffs) + o
    BY <1>4, <1>5, <1>6, <1>7, <2>1
  <2> QED BY <1>1, <1>3, <2>1, <2>2, BooksFollow
<1>9. UnearnedBooked'
  <2>1. NoneTakenBack' => NoneTakenBack
    BY <1>2, TakenBackStay
  <2>2. books' \in Books /\ books'["unearned"] = books["unearned"]
    BY <1>1, <1>4, NothingGained
  <2> QED BY <1>1, <1>3, <2>1, <2>2, UnearnedStays
<1>10. Untouched'
  BY <1>1, <1>2, <1>3 DEF Untouched
<1> QED BY <1>4, <1>8, <1>9, <1>10 DEF LedgerInv, Gains

\* A payment taken back is booked as receivable for cash; its profit is not booked.
LEMMA ReversalAgrees ==
  ASSUME Sound, RequestsSound, Sound', LedgerInv, NEW n, NEW lines, TakenBackBy(n, lines),
         NEW type \in {"payment_reversed", "refund_completed"}, Book(ReversalEvents(type, n)),
         writeOffs' = writeOffs
  PROVE  LedgerInv'
<1>1. /\ books \in Books /\ Untouched /\ CashBooked /\ ReceivableBooked /\ UnearnedBooked
  BY DEF LedgerInv
<1>2. /\ n \in DOMAIN payments /\ contract' = contract
      /\ lines \in [Installments -> AmountRow] /\ ReverseFees(lines)
      /\ TakenBack(payments, n, payments')
  BY DEF TakenBackBy
<1>3. Delivered /\ Delivered'
  <2>1. payments # <<>>
    BY <1>2
  <2> QED BY <1>1, <1>2, <2>1 DEF Untouched, Delivered
<1>4. PICK a \in Nat : a = payments[n].amount /\ Gains(-a, a, 0)
  BY <1>1, <1>2, ReversalBooks
<1>5. PICK c \in Int : c = -a /\ EntriesGrow(c, c)
  BY <1>4, ReversalRelieves
<1>6. ChargesOf(fees') = ChargesOf(fees) + 0
  <2>1. fees \in Seq(FeeRow)
    BY DEF Sound, Typed
  <2>2. /\ fees' \in Seq(FeeRow) /\ DOMAIN fees' = DOMAIN fees
        /\ \A k \in DOMAIN fees : SameFee(fees[k], fees'[k])
    BY <1>2, <2>1, ReverseFeesMeaning
  <2>3. ChargesOf(fees') = ChargesOf(fees)
    BY <2>1, <2>2, ChargesStay DEF SameFee
  <2> QED BY <2>1, <2>3, ChargesAreInt
<1>7. RecoveredTotal(writeOffs') = RecoveredTotal(writeOffs) + 0
  BY RecoveriesMeaning DEF RequestsSound
<1>8. CashBooked' /\ ReceivableBooked'
  <2>1. PICK o \in Int, x \in Int, y \in Int : o = 0 /\ x = c + o /\ y = o - c
    OBVIOUS
  <2>2. Gains(x, y, 0)
    <3>1. x = -a /\ y = a
      BY <1>5, <2>1
    <3> QED BY <1>4, <3>1
  <2>3. ChargesOf(fees') = ChargesOf(fees) + o
        /\ RecoveredTotal(writeOffs') = RecoveredTotal(writeOffs) + o
    BY <1>6, <1>7, <2>1
  <2> QED BY <1>1, <1>3, <1>5, <2>1, <2>2, <2>3, BooksFollow
<1>9. UnearnedBooked'
  <2>1. PICK m \in Nat : m = Len(payments) /\ DOMAIN payments = 1..m
    BY SequenceIsFunction DEF Sound, Typed
  <2>2. n \in DOMAIN payments' /\ payments'[n].status = "reversed"
    BY <1>2, <2>1 DEF TakenBack
  <2>3. ~NoneTakenBack'
    BY <2>2 DEF NoneTakenBack
  <2> QED BY <2>3 DEF UnearnedBooked
<1> QED BY <1>3, <1>4, <1>8, <1>9, UntouchedAfter DEF LedgerInv, Gains

\* Before delivery the job charges nothing.
LEMMA NoneChargedBefore ==
  ASSUME Sound, Untouched, ~Delivered, NEW day, ChargedBy(day)
  PROVE  fees' = fees
<1>1. fees = <<>> /\ PastDue(day) = {}
  BY DEF Untouched, Delivered, PastDue
<1>2. fees' \in Seq(FeeRow) /\ \A k \in DOMAIN fees' : k > Len(fees) =>
                                  fees'[k].installment \in PastDue(day)
  BY DEF ChargedBy, Grown, IsNew
<1>3. Len(fees) = 0
  BY <1>1
<1>4. \A k \in DOMAIN fees' : FALSE
  BY <1>1, <1>2, <1>3, SequenceIsFunction
<1>5. PICK n \in Nat : n = Len(fees') /\ DOMAIN fees' = 1..n
  BY <1>2, SequenceIsFunction
<1>6. n = 0
  BY <1>4, <1>5
<1>7. fees' = <<>>
  BY <1>2, <1>5, <1>6
<1> QED BY <1>1, <1>7

\* New charges are booked one by one.
LEMMA ChargesAgree ==
  ASSUME Sound, RequestsSound, LedgerInv, NEW day, ChargedBy(day), Book(ChargeEvents),
         writeOffs' = writeOffs
  PROVE  LedgerInv'
<1>1. /\ books \in Books /\ Untouched /\ CashBooked /\ ReceivableBooked /\ UnearnedBooked
  BY DEF LedgerInv
<1>2. /\ contract' = contract /\ unearned' = unearned /\ payments' = payments
      /\ ledger' = ledger
  BY DEF ChargedBy
<1>3. Delivered' <=> Delivered
  BY <1>2 DEF Delivered
<1>4. PICK F \in Int, G \in Int : /\ F = ChargesOf(fees) /\ G = ChargesOf(fees')
                                  /\ Gains(0, G - F, 0)
  BY <1>1, ChargesBook
<1>5. EntriesGrow(0, 0)
  BY <1>2, EntriesStay
<1>6. RecoveredTotal(writeOffs') = RecoveredTotal(writeOffs) + 0
  BY RecoveriesMeaning DEF RequestsSound
<1>7. CashBooked' /\ ReceivableBooked'
  <2>1. PICK o \in Int, f \in Int : o = 0 /\ f = G - F /\ o = o + o /\ f = f - o
    OBVIOUS
  <2>2. ChargesOf(fees') = ChargesOf(fees) + f
    BY <1>4, <2>1
  <2>3. /\ Gains(o, f, 0) /\ EntriesGrow(o, o)
        /\ RecoveredTotal(writeOffs') = RecoveredTotal(writeOffs) + o
    BY <1>4, <1>5, <1>6, <2>1
  <2> QED BY <1>1, <1>3, <2>1, <2>2, <2>3, BooksFollow
<1>8. books' \in Books /\ UnearnedBooked'
  <2>1. NoneTakenBack' => NoneTakenBack
    BY <1>2, TakenBackStay
  <2>2. books' \in Books /\ books'["unearned"] = books["unearned"]
    BY <1>1, <1>4, NothingGained
  <2> QED BY <1>1, <1>2, <1>3, <2>1, <2>2, UnearnedStays
<1>9. Untouched'
  <2>1. ~Delivered => fees' = fees
    BY <1>1, NoneChargedBefore
  <2> QED BY <1>1, <1>2, <2>1, UntouchedStays
<1> QED BY <1>7, <1>8, <1>9 DEF LedgerInv

\* A waiver is booked for what was not paid of the charge.
LEMMA WaiverAgrees ==
  ASSUME Sound, RequestsSound, Sound', LedgerInv, NEW k \in DOMAIN fees, ApproveWaiver(k),
         Book(WaiverEvents(k)), writeOffs' = writeOffs
  PROVE  LedgerInv'
<1>1. /\ books \in Books /\ Untouched /\ CashBooked /\ ReceivableBooked /\ UnearnedBooked
  BY DEF LedgerInv
<1>2. /\ contract' = contract /\ unearned' = unearned /\ payments' = payments
      /\ fees' \in Seq(FeeRow) /\ DOMAIN fees' = DOMAIN fees
      /\ \A j \in DOMAIN fees : fees'[j].amount = fees[j].amount
  BY WaiverEffect DEF WaivedBy
<1>3. Delivered /\ Delivered'
  <2>1. fees # <<>>
    OBVIOUS
  <2> QED BY <1>1, <1>2, <2>1 DEF Untouched, Delivered
<1>4. PICK x \in Nat : x = fees[k].amount - fees[k].amount_paid /\ Gains(0, -x, 0)
  BY <1>1, WaiverBooks
<1>5. EntriesGrow(0, x)
  BY <1>4, WaiverRelieves
<1>6. ChargesOf(fees') = ChargesOf(fees) + 0
  <2>1. fees \in Seq(FeeRow)
    BY DEF Sound, Typed
  <2> QED BY <1>2, <2>1, ChargesStay, ChargesAreInt
<1>7. RecoveredTotal(writeOffs') = RecoveredTotal(writeOffs) + 0
  BY RecoveriesMeaning DEF RequestsSound
<1>8. CashBooked' /\ ReceivableBooked'
  <2>1. PICK o \in Int, y \in Int : o = 0 /\ o = o + o /\ y = o - x
    OBVIOUS
  <2>2. /\ Gains(o, y, 0) /\ EntriesGrow(o, x) /\ ChargesOf(fees') = ChargesOf(fees) + o
        /\ RecoveredTotal(writeOffs') = RecoveredTotal(writeOffs) + o
    <3>1. y = -x
      BY <2>1
    <3> QED BY <1>4, <1>5, <1>6, <1>7, <2>1, <3>1
  <2> QED BY <1>1, <1>3, <2>1, <2>2, BooksFollow
<1>9. books' \in Books /\ UnearnedBooked'
  <2>1. NoneTakenBack' => NoneTakenBack
    BY <1>2, TakenBackStay
  <2>2. PICK y : y = -x /\ Gains(0, y, 0)
    BY <1>4
  <2>3. books' \in Books /\ books'["unearned"] = books["unearned"]
    BY <1>1, <2>2, NothingGained
  <2> QED BY <1>1, <1>2, <1>3, <2>1, <2>3, UnearnedStays
<1> QED BY <1>3, <1>8, <1>9, UntouchedAfter DEF LedgerInv

\* Closing out charges nothing.
LEMMA CloseOutCharges ==
  ASSUME Sound, CloseOutSchedule
  PROVE  /\ ChargesOf(fees') = ChargesOf(fees) + 0
         /\ unearned' = 0
<1>1. inst \in [Installments -> InstRow] /\ fees \in Seq(FeeRow)
  BY DEF Sound, Typed
<1>2. CloseOutFees /\ unearned' = 0
  BY <1>1, CloseOutMeaning
<1>3. /\ fees' \in Seq(FeeRow) /\ DOMAIN fees' = DOMAIN fees
      /\ \A k \in DOMAIN fees : SameFee(fees[k], fees'[k])
  BY <1>1, <1>2, CloseOutFeesMeaning
<1>4. ChargesOf(fees') = ChargesOf(fees)
  BY <1>1, <1>3, ChargesStay DEF SameFee
<1> QED BY <1>1, <1>2, <1>4, ChargesAreInt

\* A settlement is booked as cash, rebate and earned profit for the receivable.
LEMMA SettlementAgrees ==
  ASSUME Sound, RequestsSound, Sound', LedgerInv, NEW charged, NEW given, NEW p,
         SettledBy(charged, given, p), Book(ClosureEvents("early_settlement")),
         writeOffs' = writeOffs
  PROVE  LedgerInv'
<1>1. /\ books \in Books /\ Untouched /\ CashBooked /\ ReceivableBooked /\ UnearnedBooked
  BY DEF LedgerInv
<1>2. /\ Cleared(charged, given) /\ OneMore(payments, p, payments')
      /\ contract'.closure = "early_settlement"
  BY DEF SettledBy
<1>3. contract.status = "active" /\ charged + given = unearned /\ CloseOutSchedule
  BY <1>2 DEF Cleared
<1>4. Delivered /\ Delivered'
  BY <1>2, <1>3, DeliveredThrough
<1>5. PICK x : x = Owed("principal") + Owed("late_fee") + charged
  OBVIOUS
<1>6. x \in Nat /\ charged \in Nat /\ given \in Nat /\ Gains(x, -x - given, charged + given)
  BY <1>1, <1>5, SettlementBooks
<1>7. EntriesGrow(x, x + given)
  BY <1>5, SettlementRelieves
<1>8. ChargesOf(fees') = ChargesOf(fees) + 0 /\ unearned' = 0
  BY <1>3, CloseOutCharges
<1>9. RecoveredTotal(writeOffs') = RecoveredTotal(writeOffs) + 0
  BY RecoveriesMeaning DEF RequestsSound
<1>10. CashBooked' /\ ReceivableBooked'
  <2>1. PICK o \in Int, r \in Int : o = 0 /\ r = x + given /\ x = x + o
    BY <1>6
  <2>2. PICK y \in Int, z \in Int : y = o - r /\ z = charged + given
    BY <1>6
  <2>3. Gains(x, y, z)
    <3>1. y = -x - given
      BY <1>6, <2>1, <2>2
    <3> QED BY <1>6, <2>2, <3>1
  <2>4. /\ EntriesGrow(x, r) /\ ChargesOf(fees') = ChargesOf(fees) + o
        /\ RecoveredTotal(writeOffs') = RecoveredTotal(writeOffs) + o
    BY <1>7, <1>8, <1>9, <2>1
  <2> QED BY <1>1, <1>4, <1>6, <2>1, <2>2, <2>3, <2>4, BooksFollow
<1>11. books' \in Books /\ UnearnedBooked'
  <2>1. NoneTakenBack' => NoneTakenBack
    BY <1>2, TakenBackStay
  <2>2. PICK y \in Int, z \in Nat : y = -x - given /\ z = charged + given
    BY <1>6
  <2>3. Gains(x, y, z)
    BY <1>6, <2>2
  <2>4. unearned \in Nat /\ unearned' = unearned - z
    BY <1>3, <1>6, <1>8, <2>2
  <2>5. books' \in Books
    BY <2>3 DEF Gains
  <2> QED BY <1>1, <1>4, <2>1, <2>3, <2>4, <2>5, UnearnedMoves
<1> QED BY <1>4, <1>10, <1>11, UntouchedAfter DEF LedgerInv

\* A return is booked without cash; what it retains stays in the receivable.
LEMMA ReturnAgrees ==
  ASSUME Sound, RequestsSound, Sound', LedgerInv, NEW charged, NEW given,
         ReturnedBy(charged, given), Book(ClosureEvents("return")), writeOffs' = writeOffs
  PROVE  LedgerInv'
<1>1. /\ books \in Books /\ Untouched /\ CashBooked /\ ReceivableBooked /\ UnearnedBooked
  BY DEF LedgerInv
<1>2. /\ Cleared(charged, given) /\ payments' = payments /\ contract'.closure = "return"
  BY DEF ReturnedBy
<1>3. contract.status = "active" /\ charged + given = unearned /\ CloseOutSchedule
  BY <1>2 DEF Cleared
<1>4. Delivered /\ Delivered'
  BY <1>2, <1>3, DeliveredThrough
<1>5. PICK P \in Nat, F \in Nat, z \in Nat :
        P = Owed("principal") /\ F = Owed("late_fee") /\ z = charged + given
  BY <1>1, ReturnBooks
<1>6. charged \in Nat /\ given \in Nat
  BY <1>1, ReturnBooks
<1>7. PICK y \in Int : y = -given - P - F /\ Gains(0, y, z)
  BY <1>1, <1>5, <1>6, ReturnBooks
<1>8. PICK r \in Int : r = given + P + F /\ EntriesGrow(0, r)
  BY <1>5, <1>6, ReturnRelieves
<1>9. ChargesOf(fees') = ChargesOf(fees) + 0 /\ unearned' = 0
  BY <1>3, CloseOutCharges
<1>10. RecoveredTotal(writeOffs') = RecoveredTotal(writeOffs) + 0
  BY RecoveriesMeaning DEF RequestsSound
<1>11. CashBooked' /\ ReceivableBooked'
  <2>1. PICK o \in Int : o = 0 /\ o = o + o /\ y = o - r
    BY <1>6, <1>7, <1>8
  <2>2. /\ Gains(o, y, z) /\ EntriesGrow(o, r) /\ ChargesOf(fees') = ChargesOf(fees) + o
        /\ RecoveredTotal(writeOffs') = RecoveredTotal(writeOffs) + o
    BY <1>7, <1>8, <1>9, <1>10, <2>1
  <2> QED BY <1>1, <1>4, <2>1, <2>2, BooksFollow
<1>12. books' \in Books /\ UnearnedBooked'
  <2>1. NoneTakenBack' => NoneTakenBack
    BY <1>2, TakenBackStay
  <2>2. PICK x : x = 0 /\ Gains(x, y, z)
    BY <1>7
  <2>3. unearned \in Nat /\ unearned' = unearned - z
    BY <1>3, <1>5, <1>6, <1>9
  <2>4. books' \in Books
    BY <2>2 DEF Gains
  <2> QED BY <1>1, <1>4, <2>1, <2>2, <2>3, <2>4, UnearnedMoves
<1> QED BY <1>4, <1>11, <1>12, UntouchedAfter DEF LedgerInv

\* A write-off is booked against allowance and expense for what it takes.
LEMMA ExecutionAgrees ==
  ASSUME Sound, RequestsSound, Sound', LedgerInv, NEW n, NEW p, NEW q, NEW r,
         ExecutedBy(n, p, q, r), Book(ExecutionEvents(n))
  PROVE  LedgerInv'
<1>1. /\ books \in Books /\ Untouched /\ CashBooked /\ ReceivableBooked /\ UnearnedBooked
  BY DEF LedgerInv
<1>2. /\ n \in DOMAIN writeOffs /\ WrittenOffBy(writeOffs[n].asked, p, q, r)
      /\ writeOffs' = Judged(writeOffs, n, "executed")
  BY DEF ExecutedBy
<1>3. PICK ask \in AmountRow : ask = writeOffs[n].asked
  BY <1>2, SequenceElement, WriteOffRowMeaning DEF RequestsSound
<1>4. WrittenOffBy(ask, p, q, r)
  BY <1>2, <1>3
<1>5. /\ contract.status = "active"
      /\ contract' \in {contract, [status |-> "closed", closure |-> "write_off"]}
      /\ fees' \in Seq(FeeRow) /\ DOMAIN fees' = DOMAIN fees
      /\ \A k \in DOMAIN fees : fees'[k].amount = fees[k].amount
      /\ unearned' = unearned /\ payments' = payments
  BY <1>4 DEF WrittenOffBy
<1>6. Delivered /\ Delivered'
  BY <1>5, DeliveredThrough
<1>7. PICK P \in Nat, Q \in Nat, F \in Nat :
        P = ask.principal /\ Q = ask.profit /\ F = ask.late_fee
  BY AmountRowMeaning
<1>8. PICK y \in Int : y = -P - Q - F /\ Gains(0, y, 0)
  BY <1>1, <1>2, <1>3, <1>7, ExecutionBooks
<1>9. PICK t \in Int : t = P + Q + F /\ EntriesGrow(0, t)
  BY <1>4, <1>7, ExecutionRelieves
<1>10. ChargesOf(fees') = ChargesOf(fees) + 0
  <2>1. fees \in Seq(FeeRow)
    BY DEF Sound, Typed
  <2> QED BY <1>5, <2>1, ChargesStay, ChargesAreInt
<1>11. RecoveredTotal(writeOffs') = RecoveredTotal(writeOffs) + 0
  <2>1. writeOffs \in Seq(WriteOffRow)
    BY DEF RequestsSound
  <2>2. PICK s \in RequestStatus : s = "executed"
    BY DEF RequestStatus
  <2>3. RecoveredTotal(writeOffs') = RecoveredTotal(writeOffs)
    BY <1>2, <2>1, <2>2, RecoveredJudged
  <2> QED BY <2>1, <2>3, RecoveriesMeaning
<1>12. CashBooked' /\ ReceivableBooked'
  <2>1. PICK o \in Int : o = 0 /\ o = o + o /\ y = o - t
    BY <1>8, <1>9
  <2>2. /\ Gains(o, y, o) /\ EntriesGrow(o, t) /\ ChargesOf(fees') = ChargesOf(fees) + o
        /\ RecoveredTotal(writeOffs') = RecoveredTotal(writeOffs) + o
    BY <1>8, <1>9, <1>10, <1>11, <2>1
  <2> QED BY <1>1, <1>6, <2>1, <2>2, BooksFollow
<1>13. books' \in Books /\ UnearnedBooked'
  <2>1. NoneTakenBack' => NoneTakenBack
    BY <1>5, TakenBackStay
  <2>2. PICK x : x = 0 /\ Gains(x, y, 0)
    BY <1>8
  <2>3. books' \in Books /\ books'["unearned"] = books["unearned"]
    BY <1>1, <2>2, NothingGained
  <2> QED BY <1>1, <1>5, <1>6, <2>1, <2>3, UnearnedStays
<1> QED BY <1>6, <1>12, <1>13, UntouchedAfter DEF LedgerInv

\* Steps that leave the contract's rows alone book what was recovered, if anything.
LEMMA QuietAgrees ==
  ASSUME Sound, RequestsSound, LedgerInv, Quiet, NEW w \in Nat,
         RecoveredTotal(writeOffs') = RecoveredTotal(writeOffs) + w, Gains(w, 0, 0)
  PROVE  LedgerInv'
<1>1. /\ books \in Books /\ Untouched /\ CashBooked /\ ReceivableBooked /\ UnearnedBooked
  BY DEF LedgerInv
<1>2. /\ contract' = contract /\ unearned' = unearned /\ fees' = fees /\ payments' = payments
      /\ ledger' = ledger
  BY DEF Quiet, money
<1>3. Delivered' <=> Delivered
  BY <1>2 DEF Delivered
<1>4. EntriesGrow(0, 0)
  BY <1>2, EntriesStay
<1>5. ChargesOf(fees') = ChargesOf(fees) + 0
  BY <1>2, ChargesAreInt DEF Sound, Typed
<1>6. CashBooked' /\ ReceivableBooked'
  <2>1. PICK o \in Int : o = 0 /\ o = o - o /\ w = o + w
    OBVIOUS
  <2>2. /\ Gains(w, o, o) /\ EntriesGrow(o, o) /\ ChargesOf(fees') = ChargesOf(fees) + o
    BY <1>4, <1>5, <2>1
  <2> QED BY <1>1, <1>3, <2>1, <2>2, BooksFollow
<1>7. books' \in Books /\ UnearnedBooked'
  <2>1. NoneTakenBack' => NoneTakenBack
    BY <1>2, TakenBackStay
  <2>2. books' \in Books /\ books'["unearned"] = books["unearned"]
    BY <1>1, NothingGained
  <2> QED BY <1>1, <1>2, <1>3, <2>1, <2>2, UnearnedStays
<1>8. Untouched'
  BY <1>1, <1>2, UntouchedStays
<1> QED BY <1>6, <1>7, <1>8 DEF LedgerInv

\* Books that stay gain nothing.
LEMMA BooksThatStay ==
  ASSUME books \in Books, books' = books
  PROVE  Gains(0, 0, 0)
<1>1. \A a \in Accounts : books[a] \in Int
  BY DEF Books
<1>2. books["cash"] \in Int /\ books["receivable"] \in Int /\ books["unearned"] \in Int
  BY <1>1 DEF Accounts
<1> QED BY <1>2 DEF Gains

\* Steps that book nothing.
LEMMA UnbookedAgrees ==
  ASSUME Sound, RequestsSound, LedgerInv, Quiet, books' = books,
         RecoveredTotal(writeOffs') = RecoveredTotal(writeOffs)
  PROVE  LedgerInv'
<1>1. PICK w \in Nat : w = 0
  OBVIOUS
<1>2. Gains(w, 0, 0)
  BY <1>1, BooksThatStay DEF LedgerInv
<1>3. RecoveredTotal(writeOffs') = RecoveredTotal(writeOffs) + w
  BY <1>1, RecoveriesMeaning DEF RequestsSound
<1> QED BY <1>2, <1>3, QuietAgrees

\* The books, the contract and the write-offs together.
BooksInv == WriteOffInv /\ LedgerInv

\* They agree at first.
LEMMA BooksInvAtFirst == BooksInit => BooksInv
<1> SUFFICES ASSUME BooksInit PROVE BooksInv
  OBVIOUS
<1>0. ASSUME NEW g, DOMAIN g = {} PROVE SumFunction(g) = 0
  BY <1>0, SumEmpty DEF SumFunction
<1>1. WriteOffInit /\ books = [a \in Accounts |-> 0]
  BY DEF BooksInit
<1>2. WriteOffInv
  BY <1>1, WriteOffInvAtFirst
<1>3. /\ contract = [status |-> "created", closure |-> "none"]
      /\ fees = <<>> /\ payments = <<>> /\ writeOffs = <<>>
      /\ ledger = [t \in EntryTypes |-> 0]
      /\ unearned = SumFunction([i \in Installments |-> Schedule[i].profit])
  BY <1>1 DEF WriteOffInit, Init
<1>4. books \in Books /\ books["cash"] = 0 /\ books["receivable"] = 0 /\ books["unearned"] = 0
  BY <1>1 DEF Books, Accounts
<1>5. ~Delivered
  BY <1>3 DEF Delivered
<1>6. \A t \in EntryTypes : ledger[t] = 0
  BY <1>3
<1>7. unearned = TotalOf("profit")
  BY <1>3 DEF TotalOf
<1>8. Untouched
  BY <1>3, <1>5, <1>6, <1>7 DEF Untouched
<1>9. CashEntries = 0
  BY <1>6 DEF CashEntries, EntryTypes
<1>10. Relieved = 0
  <2>1. ReturnedEntry = 0 /\ WrittenOffEntry = 0
    BY <1>6 DEF ReturnedEntry, WrittenOffEntry, EntryTypes
  <2>2. ledger.late_fee_waived = 0 /\ ledger.profit_rebated = 0
    BY <1>6 DEF EntryTypes
  <2> QED BY <1>9, <2>1, <2>2 DEF Relieved
<1>11. ChargesOf(fees) = 0
  <2>1. PICK g : g = [k \in DOMAIN fees |-> fees[k].amount]
    OBVIOUS
  <2>2. DOMAIN g = {}
    BY <1>3, <2>1
  <2> QED BY <1>0, <2>1, <2>2 DEF ChargesOf
<1>12. RecoveredTotal(writeOffs) = 0
  <2>1. PICK g : g = [n \in DOMAIN writeOffs |-> LineTotal(writeOffs[n].recovered)]
    OBVIOUS
  <2>2. DOMAIN g = {}
    BY <1>3, <2>1
  <2> QED BY <1>0, <2>1, <2>2 DEF RecoveredTotal
<1>13. CashBooked
  BY <1>4, <1>5, <1>9, <1>12 DEF CashBooked
<1>14. ReceivableBooked
  BY <1>4, <1>5, <1>10, <1>11 DEF ReceivableBooked
<1>15. UnearnedBooked
  BY <1>4, <1>5 DEF UnearnedBooked
<1> QED BY <1>2, <1>4, <1>8, <1>13, <1>14, <1>15 DEF BooksInv, LedgerInv

\* The handlers of the contract that emit.
LEMMA ServicingBooked ==
  ASSUME Sound, RequestsSound, Sound', LedgerInv, BookedServicing
  PROVE  LedgerInv'
<1>0. writeOffs' = writeOffs /\ rebate \in RebateAsks \cup {NoRebate}
  BY DEF BookedServicing, Sound, Typed
<1>1. CASE ConfirmDelivery /\ Book(DeliveryEvents)
  BY <1>0, <1>1, DeliveryAgrees
<1>2. CASE CancelContract /\ Book(<<Event("cancellation", CancelRefund)>>)
  BY <1>0, <1>2, CancellationAgrees
<1>3. ASSUME NEW source \in {"staff", "gateway"},
             NEW a \in Amounts, NEW r \in StaffReferences \cup GatewayReferences,
             RecordPayment(source, r, a), Book(PaymentEvents(a))
      PROVE  LedgerInv'
  <2>1. a \in Nat \ {0} /\ a \in Nat /\ r \in Asked
    BY ServicingAssumption DEF Asked
  <2>2. PICK plan, p : PaidBy(plan, p, a)
    BY <1>3, <2>1, PaymentEffect
  <2> QED BY <1>0, <1>3, <2>1, <2>2, PaymentAgrees
<1>4. ASSUME NEW n \in DOMAIN payments, NEW type \in {"payment_reversed", "refund_completed"},
             ReverseSettledPayment(n), Book(ReversalEvents(type, n))
      PROVE  LedgerInv'
  <2>1. PICK lines : TakenBackBy(n, lines)
    BY <1>4, ReversalEffect
  <2> QED BY <1>0, <1>4, <2>1, ReversalAgrees
<1>5. ASSUME NEW day \in Days, AssessOverdue(day), Book(ChargeEvents)
      PROVE  LedgerInv'
  BY <1>0, <1>5, ChargeEffect, ChargesAgree
<1>6. ASSUME NEW k \in DOMAIN fees, ApproveWaiver(k), Book(WaiverEvents(k))
      PROVE  LedgerInv'
  BY <1>0, <1>6, WaiverAgrees
<1>7. ASSUME NEW charged, NEW given, NEW p, SettledBy(charged, given, p),
             Book(ClosureEvents("early_settlement"))
      PROVE  LedgerInv'
  BY <1>0, <1>7, SettlementAgrees
<1>8. ASSUME NEW r \in SettleReferences, Settle(r), Book(ClosureEvents("early_settlement"))
      PROVE  LedgerInv'
  <2>1. SettleContract(Default, r) /\ rebate' \in {rebate, NoRebate}
    BY <1>8 DEF Settle
  <2>2. Default \in Rebates
    BY RebatesMeaning
  <2> QED BY <1>7, <1>8, <2>1, <2>2, SettlementEffect
<1>9. ASSUME NEW r \in SettleReferences, ApproveRebate(r),
             Book(ClosureEvents("early_settlement"))
      PROVE  LedgerInv'
  <2>1. SettleContract(rebate, r) /\ rebate' \in {rebate, NoRebate} /\ rebate # NoRebate
    BY <1>9 DEF ApproveRebate
  <2>2. rebate \in Rebates
    BY <1>0, <2>1, RebatesMeaning
  <2> QED BY <1>7, <1>9, <2>1, <2>2, SettlementEffect
<1>10. CASE ReturnContract /\ Book(ClosureEvents("return"))
  <2>1. PICK charged, given : ReturnedBy(charged, given)
    BY <1>10, ReturnEffect
  <2> QED BY <1>0, <1>10, <2>1, ReturnAgrees
<1> QED BY <1>1, <1>2, <1>3, <1>4, <1>5, <1>6, <1>8, <1>9, <1>10 DEF BookedServicing

\* Those that do not.
LEMMA UnbookedKept ==
  ASSUME Sound, RequestsSound, LedgerInv, Unbooked
  PROVE  LedgerInv'
<1>0. writeOffs' = writeOffs /\ books' = books /\ rebate \in RebateAsks \cup {NoRebate}
  BY DEF Unbooked, Sound, Typed
<1>1. CASE \E k \in DOMAIN fees : RequestWaiver(k) \/ RejectWaiver(k)
  <2>1. Quiet
    BY <1>0, <1>1 DEF RequestWaiver, RejectWaiver, Quiet
  <2> QED BY <1>0, <2>1, UnbookedAgrees
<1>2. CASE \E a \in PromiseAmounts, day \in Days : LogPromise(a, day)
  <2>1. Quiet
    BY <1>0, <1>2 DEF LogPromise, Quiet
  <2> QED BY <1>0, <2>1, UnbookedAgrees
<1>3. CASE \E verdict \in StaffVerdicts : SetPromiseStatus(verdict)
  <2>1. Quiet
    BY <1>0, <1>3 DEF SetPromiseStatus, Quiet
  <2> QED BY <1>0, <2>1, UnbookedAgrees
<1>4. CASE \E ask \in RebateAsks : RequestRebate(ask)
  <2>1. Quiet
    BY <1>4 DEF RequestRebate, Quiet
  <2> QED BY <1>0, <2>1, UnbookedAgrees
<1>5. CASE RejectRebate
  <2>1. Quiet
    BY <1>5 DEF RejectRebate, Quiet
  <2> QED BY <1>0, <2>1, UnbookedAgrees
<1> QED BY <1>1, <1>2, <1>3, <1>4, <1>5 DEF Unbooked

\* The handlers of write-offs.
LEMMA WriteOffBooked ==
  ASSUME Sound, RequestsSound, Sound', LedgerInv, BookedWriteOff
  PROVE  LedgerInv'
<1>0. rebate \in RebateAsks \cup {NoRebate} /\ writeOffs \in Seq(WriteOffRow)
  BY DEF Sound, Typed, RequestsSound
<1>1. UNCHANGED cvars => Quiet
  BY <1>0 DEF cvars, Quiet
<1>2. ASSUME NEW type \in {"full", "partial"}, NEW ask, ask \in PartialAsks \/ ask = Outstanding,
             RequestWriteOff(type, ask), books' = books
      PROVE  LedgerInv'
  <2>1. ask \in AmountRow
    BY <1>2, OutstandingIsRow, WriteOffAssumption DEF RequestWriteOff, AmountRow
  <2>2. PICK w : w = [type |-> type, asked |-> ask, status |-> "pending", recovered |-> Nothing]
    OBVIOUS
  <2>3. w \in WriteOffRow /\ w.status = "pending" /\ w.recovered = Nothing
    BY <2>1, <2>2, ComponentsMeaning DEF WriteOffRow, RequestStatus
  <2>4. writeOffs' = Append(writeOffs, w) /\ UNCHANGED cvars
    BY <1>2, <2>2 DEF RequestWriteOff
  <2>5. Requested(w)
    BY <2>3, <2>4 DEF Requested
  <2>6. RecoveredTotal(writeOffs') = RecoveredTotal(writeOffs)
    BY <1>0, <2>5, RecoveredOneMore
  <2> QED BY <1>1, <1>2, <2>4, <2>6, UnbookedAgrees
<1>3. ASSUME NEW n \in DOMAIN writeOffs, DecideWriteOff(n) \/ CancelWriteOff(n), books' = books
      PROVE  LedgerInv'
  <2>1. PICK s \in {"approved", "rejected", "cancelled"} : Moves(n, s)
    BY <1>3 DEF DecideWriteOff, CancelWriteOff
  <2>2. s \in RequestStatus /\ writeOffs' = Judged(writeOffs, n, s)
    BY <2>1 DEF RequestStatus, Moves, Judged
  <2>3. RecoveredTotal(writeOffs') = RecoveredTotal(writeOffs)
    BY <1>0, <2>2, RecoveredJudged
  <2>4. UNCHANGED cvars
    BY <1>3 DEF DecideWriteOff, CancelWriteOff
  <2> QED BY <1>1, <1>3, <2>3, <2>4, UnbookedAgrees
<1>4. ASSUME NEW n \in DOMAIN writeOffs, ExecuteWriteOff(n), Book(ExecutionEvents(n))
      PROVE  LedgerInv'
  <2>1. writeOffs[n].asked \in AmountRow
    BY <1>0, SequenceElement, WriteOffRowMeaning
  <2>2. PICK p, q, r : WrittenOffBy(writeOffs[n].asked, p, q, r)
    BY <1>4, <2>1, WriteOffEffect
  <2>3. writeOffs[n].status = "approved" /\ writeOffs' = Judged(writeOffs, n, "executed")
    BY <1>4 DEF ExecuteWriteOff, Executable, Status, Moves, Judged
  <2>4. ExecutedBy(n, p, q, r)
    BY <2>2, <2>3 DEF ExecutedBy
  <2> QED BY <1>4, <2>4, ExecutionAgrees
<1>5. ASSUME NEW n \in DOMAIN writeOffs, NEW a \in Amounts, NEW order \in RecoveryOrders,
             RecordRecovery(n, a, order), Book(<<Event("recovery_received", a)>>)
      PROVE  LedgerInv'
  <2>1. a \in Nat
    BY ServicingAssumption
  <2>2. Quiet
    BY <1>1, <1>5 DEF RecordRecovery
  <2>3. Gains(a, 0, 0)
    BY <1>5, <2>1, RecoveryBooks DEF LedgerInv
  <2>4. RecoveredTotal(writeOffs') = RecoveredTotal(writeOffs) + a
    BY <1>5, <2>1, RecoveredMore
  <2> QED BY <2>1, <2>2, <2>3, <2>4, QuietAgrees
<1> QED BY <1>2, <1>3, <1>4, <1>5 DEF BookedWriteOff

\* Every handler keeps them in agreement.
LEMMA BooksInvKept == BooksInv /\ [BooksNext]_gvars => BooksInv'
<1> SUFFICES ASSUME BooksInv, [BooksNext]_gvars PROVE BooksInv'
  OBVIOUS
<1>1. Sound /\ RequestsSound /\ LedgerInv /\ WriteOffInv
  BY DEF BooksInv, WriteOffInv
<1>2. [WriteOffNext]_wvars
  BY BookedStep DEF gvars, wvars
<1>3. WriteOffInv'
  BY <1>1, <1>2, WriteOffInvKept
<1>4. Sound'
  BY <1>3 DEF WriteOffInv
<1>5. CASE BooksNext
  BY <1>1, <1>3, <1>4, <1>5, ServicingBooked, UnbookedKept, WriteOffBooked
  DEF BooksNext, BooksInv
<1>6. CASE UNCHANGED gvars
  <2>1. Quiet /\ books' = books /\ writeOffs' = writeOffs
    BY <1>1, <1>6 DEF gvars, wvars, cvars, Quiet, Sound, Typed
  <2>2. LedgerInv'
    BY <1>1, <2>1, UnbookedAgrees
  <2> QED BY <1>3, <2>2 DEF BooksInv
<1> QED BY <1>5, <1>6

\* So they always agree.
LEMMA BooksInvAlways == BooksSpec => []BooksInv
BY BooksInvAtFirst, BooksInvKept, PTL DEF BooksSpec

\* Cash in the journals is the money received and not taken back, whatever the
\* schedule, the amounts and the order of payments, reversals, settlement,
\* write-offs and recoveries: each handler books what its rows say (emit in every
\* handler, general_ledger_report).
THEOREM CashAccountCorrect == BooksSpec => []CashAccountAgrees
<1>1. BooksInv => CashAccountAgrees
  <2> SUFFICES ASSUME BooksInv PROVE CashAccountAgrees
    OBVIOUS
  <2>1. Sound /\ RequestsSound /\ CashBooked
    BY DEF BooksInv, WriteOffInv, LedgerInv
  <2> QED BY <2>1 DEF CashBooked, CashAccountAgrees, RecoveredTotal
<1> QED BY <1>1, BooksInvAlways, PTL

\* The control account is the subledger: the receivable in the journals is the
\* schedule and the charges, less what the contract's own entries explain, at every
\* moment of every contract, whatever happened to it ("Gross customer receivable",
\* services/coa.py).
THEOREM ReceivableAccountCorrect == BooksSpec => []ReceivableAccountAgrees
<1>1. BooksInv => ReceivableAccountAgrees
  <2> SUFFICES ASSUME BooksInv PROVE ReceivableAccountAgrees
    OBVIOUS
  <2>1. Sound /\ RequestsSound /\ ReceivableBooked /\ Untouched
    BY DEF BooksInv, WriteOffInv, LedgerInv
  <2>2. ledger \in [EntryTypes -> Int] /\ fees \in Seq(FeeRow)
    BY <2>1 DEF Sound, Typed
  <2>3. PICK C \in Int : C = CashEntries
    BY <2>1, EntriesAreInt
  <2>4. PICK a \in Int, b \in Int : a = ledger.late_fee_waived /\ b = ledger.profit_rebated
    BY <2>2 DEF EntryTypes
  <2>5. PICK c \in Int, d \in Int, e \in Int :
          /\ c = ledger.return_principal_cleared /\ d = ledger.return_late_fee_cleared
          /\ e = ledger.return_profit_waived
    BY <2>2 DEF EntryTypes
  <2>6. PICK f \in Int, g \in Int, h \in Int :
          /\ f = ledger.principal_written_off /\ g = ledger.profit_written_off
          /\ h = ledger.late_fee_written_off
    BY <2>2 DEF EntryTypes
  <2>7. PICK F \in Int : F = ChargesOf(fees)
    BY <2>2, ChargesAreInt
  <2>8. PICK T \in Int : T = TotalOf("principal") + TotalOf("profit")
    BY TotalsAreNat
  <2>9. Relieved = C + a + b + (c + d + e) + (f + g + h)
    BY <2>3, <2>4, <2>5, <2>6 DEF Relieved, ReturnedEntry, WrittenOffEntry
  <2>10. CASE Delivered
    <3>1. books["receivable"] = T + F - (C + a + b + (c + d + e) + (f + g + h))
      BY <2>1, <2>7, <2>8, <2>9, <2>10 DEF ReceivableBooked
    <3>2. books["receivable"] = T + F - C - a - b - c - d - e - f - g - h
      BY <3>1
    <3>3. SumFunction([k \in DOMAIN fees |-> fees[k].amount]) = F
      BY <2>7 DEF ChargesOf
    <3>4. books.receivable = T + F - C - a - b - c - d - e - f - g - h
      BY <3>2
    <3> QED BY <2>3, <2>4, <2>5, <2>6, <2>8, <2>10, <3>3, <3>4 DEF ReceivableAccountAgrees
  <2>11. CASE ~Delivered
    <3>1. fees = <<>> /\ \A t \in EntryTypes : ledger[t] = 0
      BY <2>1, <2>11 DEF Untouched
    <3>2. F = 0
      <4>1. PICK x : x = [k \in DOMAIN fees |-> fees[k].amount]
        OBVIOUS
      <4>2. DOMAIN x = {}
        BY <3>1, <4>1
      <4> QED BY <2>7, <4>1, <4>2, SumEmpty DEF ChargesOf, SumFunction
    <3>3. C = 0 /\ a = 0 /\ b = 0 /\ c = 0 /\ d = 0 /\ e = 0 /\ f = 0 /\ g = 0 /\ h = 0
      <4>1. /\ ledger.principal_paid = 0 /\ ledger.profit_recognized = 0
            /\ ledger.late_fee_paid = 0
        BY <3>1 DEF EntryTypes
      <4>2. C = 0
        BY <2>3, <4>1 DEF CashEntries
      <4>3. a = 0 /\ b = 0
        BY <2>4, <3>1 DEF EntryTypes
      <4>4. c = 0 /\ d = 0 /\ e = 0
        BY <2>5, <3>1 DEF EntryTypes
      <4>5. f = 0 /\ g = 0 /\ h = 0
        BY <2>6, <3>1 DEF EntryTypes
      <4> QED BY <4>2, <4>3, <4>4, <4>5
    <3>4. books["receivable"] = 0
      BY <2>1, <2>7, <2>9, <2>11, <3>2, <3>3 DEF ReceivableBooked
    <3> QED BY <2>11, <3>4 DEF ReceivableAccountAgrees
  <2> QED BY <2>10, <2>11
<1> QED BY <1>1, BooksInvAlways, PTL

\* For any schedule, rates, payments and closures: as long as no payment has been
\* taken back, the profit not yet recognised is the same amount on the contract and
\* in the journals ("Contractual profit not yet recognised", services/coa.py).
THEOREM UnearnedAccountCorrect == BooksSpec => []UnearnedAccountAgrees
<1>1. BooksInv => UnearnedAccountAgrees
  BY DEF BooksInv, LedgerInv, UnearnedBooked, UnearnedAccountAgrees
<1> QED BY <1>1, BooksInvAlways, PTL
===============================================================================

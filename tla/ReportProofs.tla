----------------------------- MODULE ReportProofs -----------------------------
(***************************************************************************)
(* The sliding window of stat() counts what is in it and finds the best    *)
(* window: proofs about Report, for any chain of blocks, any stat_time and *)
(* any loads.  The first section is about sums of a range of blocks.       *)
(***************************************************************************)
EXTENDS Report, NaturalsInduction, WellFoundedInduction, TLAPS

-----------------------------------------------------------------------------
(* Sums *)

\* the well-founded order of the numbers, for arguments by a least counterexample
LEMMA LeastNumber ==
  ASSUME NEW T \in SUBSET Nat, T # {}
  PROVE  \E x \in T : \A y \in T : x <= y
<1> DEFINE Less == {ss \in Nat \X Nat : ss[1] < ss[2]}
<1>1. IsWellFoundedOn(Less, Nat)
  BY NatLessThanWellFounded DEF OpToRel
<1>2. PICK x \in T : \A y \in T : ~ (<<y, x>> \in Less)
  <2> HIDE DEF Less
  <2> QED
    BY <1>1, WFMin
<1>3. ASSUME NEW y \in T, y < x
      PROVE  FALSE
  <2>1. <<y, x>> \in Nat \X Nat /\ <<y, x>>[1] < <<y, x>>[2]
    BY <1>3
  <2>2. <<y, x>> \in Less
    BY <2>1
  <2>3. QED
    BY <1>2, <2>2
<1>4. QED
  BY <1>3

\* f[k] is the sum of q[a], ..., q[k]
Sums(f, q, a, b) ==
  f = [k \in (a - 1)..b |-> IF k = a - 1 THEN 0 ELSE f[k - 1] + q[k]]
Numbers(q, a, b) == \A k \in a..b : q[k] \in Int

\* such a function, unfolded
LEMMA SumsStep ==
  ASSUME NEW f, NEW q, NEW a \in Nat \ {0}, NEW b \in Nat, b >= a - 1, Sums(f, q, a, b)
  PROVE  f[a - 1] = 0 /\ \A k \in a..b : f[k] = f[k - 1] + q[k]
<1>1. \A k \in (a - 1)..b : f[k] = IF k = a - 1 THEN 0 ELSE f[k - 1] + q[k]
  BY DEF Sums
<1>2. a - 1 \in (a - 1)..b /\ \A k \in a..b : k \in (a - 1)..b /\ k # a - 1
  OBVIOUS
<1> QED
  BY <1>1, <1>2

\* Sum chooses such a function: there is one
LEMMA SumsExist ==
  ASSUME NEW q, NEW a \in Nat \ {0}, NEW b \in Nat, b >= a - 1
  PROVE  \E f : Sums(f, q, a, b)
<1> DEFINE T == {m \in Nat : m >= a - 1 /\ ~\E f : Sums(f, q, a, m)}
<1> SUFFICES ASSUME T # {} PROVE FALSE
  OBVIOUS
<1>1. PICK m \in T : \A k \in T : m <= k
  <2> HIDE DEF T
  <2>1. T \in SUBSET Nat
    BY DEF T
  <2> QED
    BY <2>1, LeastNumber
<1>2. CASE m = a - 1
  <2> DEFINE g == [k \in (a - 1)..m |-> 0]
  <2>1. \A k \in (a - 1)..m : g[k] = IF k = a - 1 THEN 0 ELSE g[k - 1] + q[k]
    BY <1>2
  <2>2. g = [k \in (a - 1)..m |-> g[k]]
    OBVIOUS
  <2> HIDE DEF g
  <2>3. Sums(g, q, a, m)
    BY <2>1, <2>2 DEF Sums
  <2> QED
    BY <2>3
<1>3. CASE m # a - 1
  <2>1. m - 1 \in Nat /\ m - 1 >= a - 1 /\ m - 1 \notin T
    BY <1>1, <1>3
  <2>2. PICK f : Sums(f, q, a, m - 1)
    BY <2>1
  <2> DEFINE g == [k \in (a - 1)..m |-> IF k = m THEN f[m - 1] + q[m] ELSE f[k]]
  <2>3. \A k \in (a - 1)..m : g[k] = IF k = a - 1 THEN 0 ELSE g[k - 1] + q[k]
    <3> SUFFICES ASSUME NEW k \in (a - 1)..m
                 PROVE  g[k] = IF k = a - 1 THEN 0 ELSE g[k - 1] + q[k]
      OBVIOUS
    <3>1. m \in Nat /\ k \in Nat /\ k >= a - 1
      OBVIOUS
    <3>2. CASE k = m
      <4>1. k - 1 \in (a - 1)..m /\ k - 1 # m /\ k # a - 1
        BY <1>3, <3>1, <3>2
      <4>2. g[k - 1] = f[k - 1]
        BY <4>1
      <4> QED
        BY <3>2, <4>1, <4>2
    <3>3. CASE k # m
      <4>1. k \in (a - 1)..(m - 1) /\ g[k] = f[k]
        BY <3>1, <3>3
      <4>2. f[k] = IF k = a - 1 THEN 0 ELSE f[k - 1] + q[k]
        BY <2>2, <4>1 DEF Sums
      <4>3. k # a - 1 => k - 1 \in (a - 1)..m /\ k - 1 # m
        BY <3>1
      <4>4. k # a - 1 => g[k - 1] = f[k - 1]
        BY <4>3
      <4> QED
        BY <4>1, <4>2, <4>4
    <3> QED
      BY <3>2, <3>3
  <2>4. g = [k \in (a - 1)..m |-> g[k]]
    OBVIOUS
  <2> HIDE DEF g
  <2>5. Sums(g, q, a, m)
    BY <2>3, <2>4 DEF Sums
  <2> QED
    BY <2>5
<1> QED
  BY <1>2, <1>3

\* the sum is the last of the partial sums
LEMMA SumIsLast ==
  ASSUME NEW q, NEW a \in Nat \ {0}, NEW b \in Nat, b >= a - 1
  PROVE  \E f : Sums(f, q, a, b) /\ Sum(q, a, b) = f[b]
<1>1. PICK f : Sums(f, q, a, b)
  BY SumsExist
<1> DEFINE sum == CHOOSE g : g = [k \in (a - 1)..b |->
                                    IF k = a - 1 THEN 0 ELSE g[k - 1] + q[k]]
<1>2. Sum(q, a, b) = sum[b]
  BY DEF Sum
<1>3. Sums(sum, q, a, b)
  BY <1>1 DEF Sums
<1> HIDE DEF sum
<1> QED
  BY <1>2, <1>3

\* partial sums of numbers are numbers
LEMMA SumsAreNumbers ==
  ASSUME NEW q, NEW a \in Nat \ {0}, NEW b \in Nat, b >= a - 1,
         NEW f, Sums(f, q, a, b), Numbers(q, a, b)
  PROVE  \A k \in (a - 1)..b : f[k] \in Int
<1> DEFINE T == {k \in (a - 1)..b : f[k] \notin Int}
<1> SUFFICES ASSUME T # {} PROVE FALSE
  OBVIOUS
<1>1. PICK m \in T : \A k \in T : m <= k
  <2> HIDE DEF T
  <2>1. T \in SUBSET Nat
    BY DEF T
  <2> QED
    BY <2>1, LeastNumber
<1>2. m # a - 1
  BY SumsStep
<1>3. m \in a..b /\ m - 1 \in (a - 1)..b
  BY <1>2
<1>4. m - 1 \notin T
  <2> HIDE DEF T
  <2> QED
    BY <1>1, <1>3
<1>5. f[m - 1] \in Int /\ q[m] \in Int
  BY <1>3, <1>4 DEF Numbers
<1>6. f[m] = f[m - 1] + q[m]
  BY <1>3, SumsStep
<1> QED
  BY <1>5, <1>6

\* the sums of a part of the range differ by the sum of what is before it
LEMMA SumsDiffer ==
  ASSUME NEW q, NEW a \in Nat \ {0}, NEW b \in Nat, Numbers(q, a, b),
         NEW c \in Nat \ {0}, NEW d \in Nat, a <= c, d <= b, d >= c - 1, b >= a - 1,
         NEW f, Sums(f, q, a, b), NEW g, Sums(g, q, c, d)
  PROVE  \A k \in (c - 1)..d : f[k] = f[c - 1] + g[k]
<1> DEFINE T == {k \in (c - 1)..d : f[k] # f[c - 1] + g[k]}
<1> SUFFICES ASSUME T # {} PROVE FALSE
  OBVIOUS
<1>1. PICK k \in T : \A l \in T : k <= l
  <2> HIDE DEF T
  <2>1. T \in SUBSET Nat
    BY DEF T
  <2> QED
    BY <2>1, LeastNumber
<1>2. Numbers(q, c, d)
  BY DEF Numbers
<1>3. (\A l \in (a - 1)..b : f[l] \in Int) /\ (\A l \in (c - 1)..d : g[l] \in Int)
  BY <1>2, SumsAreNumbers
<1>4. c - 1 \in (a - 1)..b
  OBVIOUS
<1>5. k # c - 1
  <2>1. g[c - 1] = 0 /\ f[c - 1] \in Int
    BY <1>3, <1>4, SumsStep
  <2> QED
    BY <2>1
<1>6. k \in c..d /\ k - 1 \in (c - 1)..d /\ k \in a..b
  BY <1>5
<1>7. k - 1 \notin T
  <2> HIDE DEF T
  <2> QED
    BY <1>1, <1>6
<1>8. f[k - 1] = f[c - 1] + g[k - 1]
  BY <1>6, <1>7
<1>9. f[k] = f[k - 1] + q[k] /\ g[k] = g[k - 1] + q[k]
  BY <1>6, SumsStep
<1>10. f[c - 1] \in Int /\ g[k - 1] \in Int /\ q[k] \in Int
  BY <1>3, <1>4, <1>6 DEF Numbers
<1>11. f[k] = f[c - 1] + g[k]
  BY <1>8, <1>9, <1>10
<1> QED
  BY <1>11

\* an empty range
LEMMA SumOfNone ==
  ASSUME NEW q, NEW a \in Nat \ {0}
  PROVE  Sum(q, a, a - 1) = 0
<1>1. PICK f : Sums(f, q, a, a - 1) /\ Sum(q, a, a - 1) = f[a - 1]
  BY SumIsLast
<1> QED
  BY <1>1, SumsStep

\* the last and the first number of a range
LEMMA SumEnds ==
  ASSUME NEW q, NEW a \in Nat \ {0}, NEW b \in Nat, b >= a, Numbers(q, a, b)
  PROVE  /\ Sum(q, a, b) \in Int /\ Sum(q, a, b - 1) \in Int /\ Sum(q, a + 1, b) \in Int
         /\ Sum(q, a, b) = Sum(q, a, b - 1) + q[b]
         /\ Sum(q, a, b) = q[a] + Sum(q, a + 1, b)
<1>1. PICK p \in Nat, c \in Nat \ {0} :
        p = b - 1 /\ c = a + 1 /\ p >= a - 1 /\ b >= c - 1 /\ p <= b /\ a <= c /\ c - 1 = a
  OBVIOUS
<1>2. PICK f : Sums(f, q, a, b) /\ Sum(q, a, b) = f[b]
  BY SumIsLast
<1>3. PICK g : Sums(g, q, a, p) /\ Sum(q, a, p) = g[p]
  BY <1>1, SumIsLast
<1>4. PICK h : Sums(h, q, c, b) /\ Sum(q, c, b) = h[b]
  BY <1>1, SumIsLast
<1>5. Numbers(q, a, p) /\ Numbers(q, c, b)
  BY <1>1 DEF Numbers
<1>6. /\ b \in a..b /\ a \in a..b /\ p \in (a - 1)..b /\ b \in (a - 1)..b
      /\ p \in (a - 1)..p /\ b \in (c - 1)..b /\ a <= a /\ b <= b /\ b >= a - 1
  BY <1>1
<1>7. f[a - 1] = 0 /\ f[b] = f[p] + q[b] /\ f[a] = f[a - 1] + q[a]
  BY <1>1, <1>2, <1>6, SumsStep
<1>8. f[b] \in Int /\ f[p] \in Int
  BY <1>2, <1>6, SumsAreNumbers
<1>9. g[p] \in Int
  BY <1>1, <1>3, <1>5, <1>6, SumsAreNumbers
<1>10. h[b] \in Int
  BY <1>1, <1>4, <1>5, <1>6, SumsAreNumbers
<1>11. f[p] = f[a - 1] + g[p]
  <2>1. a <= a /\ p <= b /\ p >= a - 1 /\ b >= a - 1 /\ Sums(f, q, a, b) /\ Sums(g, q, a, p)
    BY <1>1, <1>2, <1>3, <1>6
  <2>2. \A k \in (a - 1)..p : f[k] = f[a - 1] + g[k]
    BY <2>1, SumsDiffer
  <2> QED
    BY <1>6, <2>2
<1>12. f[b] = f[c - 1] + h[b]
  BY <1>1, <1>2, <1>4, <1>6, SumsDiffer
<1>13. q[a] \in Int /\ q[b] \in Int
  BY <1>6 DEF Numbers
<1>14. f[p] = g[p] /\ f[b] = q[a] + h[b]
  BY <1>1, <1>7, <1>9, <1>11, <1>12, <1>13
<1> QED
  BY <1>1, <1>2, <1>3, <1>4, <1>7, <1>8, <1>9, <1>10, <1>14

-----------------------------------------------------------------------------
(* The invariant *)

Block == [timestamp : Int, txs : Nat, size : Nat]
LoadsOfBlocks == [k \in DOMAIN blocks |-> blocks[k].txs]

ReportType ==
  /\ blocks \in [1..NBlocks -> Block]
  /\ i \in 1..NBlocks /\ j \in 1..(NBlocks + 1)
  /\ reporting \in BOOLEAN /\ best_report.tps \in Int

\* all blocks in the window are less than stat_time after its first
FitsInv ==
  reporting /\ Monotone => \A k \in i..(j - 1) : Elapsed(i, k) < StatTime

\* the last window that was rated
Rated == IF reporting THEN i - 1 ELSE i

\* the report is that of a window that was rated
IsOf(report, first) ==
  /\ report.tps = Rate(first) /\ report.to = End(first)
  /\ report.txs = Transactions(first, WindowEnd(first))

BestInv ==
  Monotone =>
    /\ \A first \in 1..Rated : Rate(first) <= best_report.tps
    /\ best_report = NoReport \/ (best_report.from \in 1..Rated /\ IsOf(best_report, best_report.from))
    /\ \A first \in 1..(i - 1) : End(first) < to_number
    /\ ~reporting => End(i) = to_number

Inv == ReportType /\ WindowAddsUp /\ FitsInv /\ BestInv

LEMMA ElapsedIsANumber ==
  ASSUME ReportType, NEW a \in 1..NBlocks, NEW b \in 1..NBlocks
  PROVE  Elapsed(a, b) \in Nat
<1>1. blocks[a].timestamp \in Int /\ blocks[b].timestamp \in Int
  BY DEF ReportType, Block
<1> QED
  BY <1>1 DEF Elapsed

LEMMA RateIsANumber ==
  ASSUME NEW amount \in Int, NEW time \in Nat
  PROVE  PerSecond(amount, time) \in Int
<1>1. time # 0 => (amount * 1000) \div time \in Int
  <2>1. amount * 1000 \in Int
    OBVIOUS
  <2> QED
    BY <2>1
<1> QED
  BY <1>1 DEF PerSecond, Infinite

\* the total when a block joins the window and when the first one leaves it
LEMMA TotalMoves ==
  ASSUME ReportType, NEW a \in 1..NBlocks, NEW b \in a..NBlocks
  PROVE  /\ Transactions(a, b) \in Int /\ Transactions(a, b - 1) \in Int
         /\ Transactions(a, b) = Transactions(a, b - 1) + blocks[b].txs
         /\ Transactions(a + 1, b) = Transactions(a, b) - blocks[a].txs
<1>1. a \in Nat \ {0} /\ b \in Nat /\ b >= a /\ b \in 1..NBlocks
  BY NBlocksAssumption
<1>2. DOMAIN blocks = 1..NBlocks /\ \A k \in 1..NBlocks : blocks[k].txs \in Int
  BY DEF ReportType, Block
<1>3. \A k \in 1..NBlocks : LoadsOfBlocks[k] = blocks[k].txs
  BY <1>2 DEF LoadsOfBlocks
<1>4. Numbers(LoadsOfBlocks, a, b)
  <2>1. \A k \in a..b : k \in 1..NBlocks
    BY <1>1, NBlocksAssumption
  <2> QED
    BY <1>2, <1>3, <2>1 DEF Numbers
<1>5. /\ Sum(LoadsOfBlocks, a, b) \in Int /\ Sum(LoadsOfBlocks, a, b - 1) \in Int
      /\ Sum(LoadsOfBlocks, a + 1, b) \in Int
      /\ Sum(LoadsOfBlocks, a, b) = Sum(LoadsOfBlocks, a, b - 1) + LoadsOfBlocks[b]
      /\ Sum(LoadsOfBlocks, a, b) = LoadsOfBlocks[a] + Sum(LoadsOfBlocks, a + 1, b)
  BY <1>1, <1>4, SumEnds
<1>6. \A c, d : Transactions(c, d) = Sum(LoadsOfBlocks, c, d)
  BY DEF Transactions, LoadsOfBlocks
<1>7. LoadsOfBlocks[a] = blocks[a].txs /\ LoadsOfBlocks[b] = blocks[b].txs /\ blocks[a].txs \in Int
  BY <1>1, <1>2, <1>3
<1> HIDE DEF LoadsOfBlocks
<1> QED
  BY <1>5, <1>6, <1>7

LEMMA InitInv == Init => Inv
<1> SUFFICES ASSUME Init PROVE Inv
  OBVIOUS
<1>1. PICK gaps \in [2..NBlocks -> Gaps], loads \in [1..NBlocks -> Loads] :
        blocks = [k \in 1..NBlocks |-> [timestamp |-> Sum(gaps, 2, k),
                                        txs |-> loads[k].txs, size |-> loads[k].size]]
  BY DEF Init, Chains
<1>2. ASSUME NEW k \in 1..NBlocks
      PROVE  [timestamp |-> Sum(gaps, 2, k), txs |-> loads[k].txs, size |-> loads[k].size] \in Block
  <2>1. loads[k] \in [txs : Nat \ {0}, size : Nat]
    BY <1>2, BlocksAssumption
  <2>2. Sum(gaps, 2, k) \in Int
    <3>1. CASE k = 1
      <4>1. Sum(gaps, 2, 2 - 1) = 0
        BY SumOfNone
      <4> QED
        BY <3>1, <4>1
    <3>2. CASE k # 1
      <4>1. k \in Nat /\ k >= 2
        BY <3>2, NBlocksAssumption
      <4>2. Numbers(gaps, 2, k)
        <5>1. \A m \in 2..k : m \in 2..NBlocks
          BY <4>1, NBlocksAssumption
        <5>2. \A m \in 2..NBlocks : gaps[m] \in Int
          BY BlocksAssumption
        <5> QED
          BY <5>1, <5>2 DEF Numbers
      <4> QED
        BY <4>1, <4>2, SumEnds
    <3> QED
      BY <3>1, <3>2
  <2> QED
    BY <2>1, <2>2 DEF Block
<1>3. ReportType
  <2>1. blocks \in [1..NBlocks -> Block]
    BY <1>1, <1>2
  <2>2. i = 1 /\ j = 1 /\ reporting = TRUE /\ best_report.tps = 0
    BY DEF Init, NoReport
  <2> QED
    BY <2>1, <2>2, NBlocksAssumption DEF ReportType
<1>4. i = 1 /\ j = 1 /\ reporting /\ total_transactions = 0 /\ best_report = NoReport
  BY DEF Init
<1>5. WindowAddsUp
  <2>1. Transactions(1, 1 - 1) = 0
    BY SumOfNone DEF Transactions
  <2> QED
    BY <1>4, <2>1, NBlocksAssumption DEF WindowAddsUp, to_number
<1>6. FitsInv
  BY <1>4 DEF FitsInv
<1>7. BestInv
  BY <1>4 DEF BestInv, Rated
<1> QED
  BY <1>3, <1>5, <1>6, <1>7 DEF Inv

\* what is said of the blocks stays true while they do not change
LEMMA SameBlocks ==
  ASSUME UNCHANGED blocks
  PROVE  /\ Monotone' <=> Monotone
         /\ \A a, b : Elapsed(a, b)' = Elapsed(a, b) /\ Transactions(a, b)' = Transactions(a, b)
         /\ \A a : End(a)' = End(a) /\ WindowEnd(a)' = WindowEnd(a) /\ Rate(a)' = Rate(a)
<1>1. \A a, b : Elapsed(a, b)' = Elapsed(a, b)
  BY DEF Elapsed
<1>2. \A a, b : Transactions(a, b)' = Transactions(a, b)
  BY DEF Transactions
<1>3. Monotone' <=> Monotone
  BY DEF Monotone, to_number
<1>4. \A a : End(a)' = End(a)
  BY <1>1 DEF End, to_number
<1>5. \A a : WindowEnd(a)' = WindowEnd(a)
  BY <1>1, <1>4 DEF WindowEnd, to_number
<1>6. \A a : Rate(a)' = Rate(a)
  BY <1>1, <1>2, <1>4, <1>5 DEF Rate
<1> QED
  BY <1>1, <1>2, <1>3, <1>4, <1>5, <1>6

\* what the invariant says after a step, in terms of the blocks before it
LEMMA AfterStep ==
  ASSUME UNCHANGED blocks
  PROVE  /\ WindowAddsUp' = (reporting' => /\ i' <= j' /\ j' <= NBlocks + 1
                                           /\ total_transactions' = Transactions(i', j' - 1))
         /\ FitsInv' = (reporting' /\ Monotone =>
                          \A k \in i'..(j' - 1) : Elapsed(i', k) < StatTime)
         /\ BestInv' = (Monotone =>
              /\ \A first \in 1..Rated' : Rate(first) <= best_report'.tps
              /\ \/ best_report' = NoReport
                 \/ best_report'.from \in 1..Rated' /\ IsOf(best_report', best_report'.from)
              /\ \A first \in 1..(i' - 1) : End(first) < NBlocks
              /\ ~reporting' => End(i') = NBlocks)
<1>1. WindowAddsUp' = (reporting' => /\ i' <= j' /\ j' <= NBlocks + 1
                                     /\ total_transactions' = Transactions(i', j' - 1))
  BY SameBlocks DEF WindowAddsUp, to_number
<1>2. FitsInv' = (reporting' /\ Monotone => \A k \in i'..(j' - 1) : Elapsed(i', k) < StatTime)
  BY SameBlocks DEF FitsInv
<1>3. BestInv' = (Monotone =>
        /\ \A first \in 1..Rated' : Rate(first) <= best_report'.tps
        /\ \/ best_report' = NoReport
           \/ best_report'.from \in 1..Rated' /\ IsOf(best_report', best_report'.from)
        /\ \A first \in 1..(i' - 1) : End(first) < NBlocks
        /\ ~reporting' => End(i') = NBlocks)
  BY SameBlocks DEF BestInv, IsOf, NoReport, to_number
<1> QED
  BY <1>1, <1>2, <1>3

\* the rates of the windows before this one
LEMMA EarlierRate ==
  ASSUME ReportType, NEW first \in 1..(i - 1), \A k \in 1..(i - 1) : End(k) < NBlocks
  PROVE  Rate(first) \in Int
<1>1. i \in 1..NBlocks /\ first \in 1..NBlocks
  BY NBlocksAssumption DEF ReportType
<1> DEFINE later == {k \in first..NBlocks : Elapsed(first, k) >= StatTime}
<1>2. End(first) # NBlocks
  BY <1>1, NBlocksAssumption
<1>3. later # {} /\ End(first) = Min(later)
  BY <1>2 DEF End, to_number
<1>4. WindowEnd(first) = End(first) - 1
  BY <1>3 DEF WindowEnd, to_number
<1>5. later \subseteq Nat
  BY <1>1
<1> HIDE DEF later
<1>6. PICK m \in later : \A k \in later : m <= k
  BY <1>3, <1>5, LeastNumber
<1>7. Min(later) \in later
  BY <1>6 DEF Min
<1>8. PICK e \in first..NBlocks : e = End(first) /\ Elapsed(first, e) >= StatTime
  BY <1>3, <1>7 DEF later
<1>9. e # first
  <2>1. blocks[first].timestamp \in Int
    BY <1>1 DEF ReportType, Block
  <2>2. Elapsed(first, first) = 0
    BY <2>1 DEF Elapsed
  <2> QED
    BY <1>8, <2>2, StatTimeAssumption
<1>10. e - 1 \in first..NBlocks /\ e \in 1..NBlocks
  BY <1>1, <1>8, <1>9, NBlocksAssumption
<1>11. Transactions(first, e - 1) \in Int
  BY <1>1, <1>10, TotalMoves
<1>12. Elapsed(first, e) \in Nat
  BY <1>1, <1>10, ElapsedIsANumber
<1> QED
  BY <1>4, <1>8, <1>11, <1>12, RateIsANumber DEF Rate

LEMMA ExtendInv ==
  ASSUME Inv, Extend
  PROVE  Inv'
<1>1. /\ reporting /\ j <= NBlocks /\ Elapsed(i, j) < StatTime
      /\ total_transactions' = total_transactions + blocks[j].txs /\ j' = j + 1
      /\ UNCHANGED <<blocks, i, best_report, reporting>>
  BY DEF Extend, Fits, to_number
<1>2. /\ ReportType /\ i \in 1..NBlocks /\ j \in 1..(NBlocks + 1) /\ i <= j
      /\ total_transactions = Transactions(i, j - 1)
  BY <1>1 DEF Inv, ReportType, WindowAddsUp
<1>3. ReportType'
  <2>1. j + 1 \in 1..(NBlocks + 1)
    BY <1>1, <1>2, NBlocksAssumption
  <2> QED
    BY <1>1, <1>2, <2>1 DEF ReportType
<1>4. WindowAddsUp'
  <2>1. j \in i..NBlocks
    BY <1>1, <1>2, NBlocksAssumption
  <2>2. Transactions(i, j) = Transactions(i, j - 1) + blocks[j].txs
    BY <1>2, <2>1, TotalMoves
  <2>3. j + 1 - 1 = j /\ i <= j + 1 /\ j + 1 <= NBlocks + 1
    BY <1>1, <1>2, NBlocksAssumption
  <2>4. /\ i' <= j' /\ j' <= NBlocks + 1
        /\ total_transactions' = Transactions(i', j' - 1)
    <3>1. i' = i /\ j' = j + 1 /\ j' - 1 = j
      <4>1. i' = i /\ j' = j + 1
        BY <1>1
      <4>2. j \in Int
        BY <1>2, NBlocksAssumption
      <4> QED
        BY <4>1, <4>2
    <3>2. Transactions(i', j' - 1) = Transactions(i, j)
      BY <3>1
    <3> QED
      BY <1>1, <1>2, <2>2, <2>3, <3>1, <3>2
  <2> QED
    BY <1>1, <2>4, AfterStep
<1>5. FitsInv'
  <2>1. \A k \in i..(j + 1 - 1) : k = j \/ k \in i..(j - 1)
    BY <1>2
  <2>2. ASSUME Monotone
        PROVE  \A k \in i..(j + 1 - 1) : Elapsed(i, k) < StatTime
    BY <1>1, <2>1, <2>2 DEF Inv, FitsInv
  <2> QED
    <3>1. i' = i /\ j' = j + 1
      BY <1>1
    <3>2. i'..(j' - 1) = i..(j + 1 - 1)
      <4>1. j \in Int /\ i \in Int
        BY <1>2, NBlocksAssumption
      <4> QED
        BY <3>1, <4>1
    <3>3. Monotone => \A k \in i'..(j' - 1) : Elapsed(i', k) < StatTime
      BY <2>2, <3>1, <3>2
    <3> QED
      BY <1>1, <3>3, AfterStep
<1>6. BestInv'
  <2>1. Rated' = Rated
    BY <1>1 DEF Rated
  <2>2. BestInv
    BY DEF Inv
  <2> QED
    BY <1>1, <2>1, <2>2, AfterStep DEF BestInv, to_number
<1> QED
  BY <1>3, <1>4, <1>5, <1>6 DEF Inv

\* when a window closes, it ends where the definition of a window says
LEMMA ClosedWindow ==
  ASSUME Inv, reporting, j <= to_number => ~Fits(j), Monotone
  PROVE  /\ End(i) = LastBlock /\ total_transactions = Transactions(i, WindowEnd(i))
         /\ Rate(i) = PerSecond(total_transactions, Elapsed(i, LastBlock))
<1>1. /\ ReportType /\ i \in 1..NBlocks /\ j \in 1..(NBlocks + 1) /\ i <= j
      /\ total_transactions = Transactions(i, j - 1)
      /\ \A k \in i..(j - 1) : Elapsed(i, k) < StatTime
  BY DEF Inv, ReportType, WindowAddsUp, FitsInv
<1>2. \A k \in i..NBlocks : Elapsed(i, k) \in Nat /\ k \in Nat
  <2>1. \A k \in i..NBlocks : k \in 1..NBlocks /\ k \in Nat
    BY <1>1, NBlocksAssumption
  <2> QED
    BY <1>1, <2>1, ElapsedIsANumber
<1>3. End(i) = LastBlock /\ WindowEnd(i) = j - 1
  <2>1. CASE j <= NBlocks
    <3>1. Elapsed(i, j) >= StatTime /\ j \in i..NBlocks
      <4>1. j \in i..NBlocks
        BY <1>1, <2>1, NBlocksAssumption
      <4> QED
        BY <1>2, <2>1, <4>1, StatTimeAssumption DEF Fits, to_number
    <3>2. \A k \in i..NBlocks : Elapsed(i, k) >= StatTime => j <= k
      <4> SUFFICES ASSUME NEW k \in i..NBlocks, Elapsed(i, k) >= StatTime, ~(j <= k) PROVE FALSE
        OBVIOUS
      <4>1. k \in i..(j - 1)
        BY <1>1, <1>2, NBlocksAssumption
      <4>2. Elapsed(i, k) < StatTime
        BY <1>1, <4>1
      <4> QED
        BY <1>2, <4>2, StatTimeAssumption
    <3> DEFINE later == {k \in i..NBlocks : Elapsed(i, k) >= StatTime}
    <3>3. j \in later /\ later # {} /\ \A k \in later : j <= k /\ k \in Nat
      BY <1>2, <3>1, <3>2
    <3>4. Min(later) = j
      <4> HIDE DEF later
      <4>1. Min(later) \in later /\ \A k \in later : Min(later) <= k
        BY <3>3 DEF Min
      <4> QED
        BY <3>3, <4>1
    <3>5. End(i) = j
      BY <3>3, <3>4 DEF End, to_number
    <3>6. WindowEnd(i) = End(i) - 1
      BY <3>1 DEF WindowEnd, to_number
    <3>7. LastBlock = j
      BY <1>1, <2>1, NBlocksAssumption DEF LastBlock, to_number
    <3> QED
      BY <3>5, <3>6, <3>7
  <2>2. CASE ~(j <= NBlocks)
    <3>1. j = NBlocks + 1 /\ j - 1 = NBlocks
      BY <1>1, <2>2, NBlocksAssumption
    <3>2. \A k \in i..NBlocks : ~(Elapsed(i, k) >= StatTime)
      BY <1>1, <1>2, <3>1, StatTimeAssumption
    <3>3. {k \in i..NBlocks : Elapsed(i, k) >= StatTime} = {}
      BY <3>2
    <3>4. End(i) = NBlocks /\ WindowEnd(i) = NBlocks
      BY <3>2, <3>3 DEF End, WindowEnd, to_number
    <3>5. LastBlock = NBlocks
      BY <3>1, NBlocksAssumption DEF LastBlock, to_number
    <3> QED
      BY <3>1, <3>4, <3>5
  <2> QED
    BY <2>1, <2>2
<1> QED
  BY <1>1, <1>3 DEF Rate

LEMMA CloseInv ==
  ASSUME Inv, Close
  PROVE  Inv'
<1>1. /\ reporting /\ (j <= to_number => ~Fits(j))
      /\ best_report' = Keep(LastBlock) /\ j' = LastBlock
      /\ UNCHANGED blocks
      /\ \/ LastBlock >= NBlocks /\ reporting' = FALSE /\ UNCHANGED <<i, total_transactions>>
         \/ /\ LastBlock < NBlocks /\ i' = i + 1 /\ UNCHANGED reporting
            /\ total_transactions' = total_transactions - blocks[i].txs
  BY DEF Close, to_number
<1>2. /\ ReportType /\ i \in 1..NBlocks /\ j \in 1..(NBlocks + 1) /\ i <= j
      /\ total_transactions = Transactions(i, j - 1) /\ best_report.tps \in Int
  BY <1>1 DEF Inv, ReportType, WindowAddsUp
<1>3. i < j
  <2>1. CASE i = j
    <3>1. blocks[i].timestamp \in Int
      BY <1>2 DEF ReportType, Block
    <3>2. Elapsed(i, i) = 0
      BY <3>1 DEF Elapsed
    <3> QED
      BY <1>1, <1>2, <2>1, <3>2, NBlocksAssumption, StatTimeAssumption DEF Fits, to_number
  <2> QED
    BY <1>2, <2>1
<1>4. /\ LastBlock \in i..NBlocks /\ LastBlock \in 1..NBlocks
      /\ LastBlock < NBlocks => LastBlock = j
      /\ LastBlock >= NBlocks => LastBlock = NBlocks
  BY <1>2, NBlocksAssumption DEF LastBlock, to_number
<1> DEFINE tps == PerSecond(total_transactions, Elapsed(i, LastBlock))
<1>5. total_transactions \in Int /\ tps \in Int
  <2>1. j - 1 \in i..NBlocks
    BY <1>2, <1>3, NBlocksAssumption
  <2>2. Transactions(i, j - 1) \in Int
    BY <1>2, <2>1, TotalMoves
  <2>3. Elapsed(i, LastBlock) \in Nat
    BY <1>2, <1>4, ElapsedIsANumber
  <2> QED
    BY <1>2, <2>2, <2>3, RateIsANumber
<1>6. \/ tps > best_report.tps /\ best_report'.from = i /\ best_report'.to = LastBlock
         /\ best_report'.tps = tps /\ best_report'.txs = total_transactions
      \/ tps <= best_report.tps /\ best_report' = best_report
  <2>1. CASE tps > best_report.tps
    BY <1>1, <2>1 DEF Keep
  <2>2. CASE ~(tps > best_report.tps)
    <3>1. tps <= best_report.tps
      BY <1>2, <1>5, <2>2
    <3> QED
      BY <1>1, <2>2, <3>1 DEF Keep
  <2> QED
    BY <2>1, <2>2
<1>7. best_report'.tps \in Int /\ best_report'.tps >= tps /\ best_report'.tps >= best_report.tps
  BY <1>2, <1>5, <1>6
<1>8. ReportType'
  <2>1. i' \in 1..NBlocks
    <3>1. CASE i' = i
      BY <1>2, <3>1
    <3>2. CASE i' = i + 1 /\ LastBlock < NBlocks
      <4>1. LastBlock = j /\ j < NBlocks
        BY <1>4, <3>2
      <4>2. i + 1 \in 1..NBlocks
        BY <1>2, <1>3, <4>1, NBlocksAssumption
      <4> QED
        BY <3>2, <4>2
    <3> QED
      BY <1>1, <3>1, <3>2
  <2>2. j' \in 1..(NBlocks + 1)
    BY <1>1, <1>4, NBlocksAssumption
  <2> QED
    BY <1>1, <1>2, <1>7, <2>1, <2>2 DEF ReportType
<1>9. WindowAddsUp'
  <2>1. ASSUME LastBlock < NBlocks, i' = i + 1, UNCHANGED reporting,
               total_transactions' = total_transactions - blocks[i].txs
        PROVE  /\ i' <= j' /\ j' <= NBlocks + 1
               /\ total_transactions' = Transactions(i + 1, j' - 1)
    <3>1. j' = j /\ i + 1 <= j /\ j <= NBlocks + 1
      BY <1>1, <1>2, <1>3, <1>4, <2>1
    <3>2. j - 1 \in i..NBlocks
      BY <1>2, <1>3, NBlocksAssumption
    <3>3. Transactions(i + 1, j - 1) = Transactions(i, j - 1) - blocks[i].txs
      BY <1>2, <3>2, TotalMoves
    <3> QED
      BY <1>2, <2>1, <3>1, <3>3
  <2>3. CASE reporting' = FALSE
    BY <2>3 DEF WindowAddsUp
  <2>4. CASE LastBlock < NBlocks
    <3>1. /\ i' = i + 1 /\ UNCHANGED reporting
          /\ total_transactions' = total_transactions - blocks[i].txs
      <4>1. ~(LastBlock >= NBlocks)
        BY <1>4, <2>4, NBlocksAssumption
      <4> QED
        BY <1>1, <4>1
    <3>2. /\ i' <= j' /\ j' <= NBlocks + 1
          /\ total_transactions' = Transactions(i + 1, j' - 1)
      BY <2>1, <2>4, <3>1
    <3> QED
      <4>1. Transactions(i + 1, j' - 1) = Transactions(i', j' - 1)
        BY <3>1
      <4> QED
        BY <1>1, <3>2, <4>1, AfterStep
  <2> QED
    BY <1>1, <2>3, <2>4
<1>10. FitsInv'
  <2>1. CASE reporting' = FALSE
    BY <2>1 DEF FitsInv
  <2>2. CASE LastBlock < NBlocks /\ i' = i + 1 /\ UNCHANGED reporting
    <3> SUFFICES ASSUME Monotone, NEW k \in (i + 1)..(j - 1)
                 PROVE  Elapsed(i + 1, k) < StatTime
      <4>1. j' = j
        BY <1>1, <1>4, <2>2
      <4> QED
        BY <1>1, <2>2, <4>1, AfterStep
    <3>1. Elapsed(i, k) < StatTime
      <4>1. k \in i..(j - 1)
        BY <1>2
      <4> QED
        BY <1>1, <4>1 DEF Inv, FitsInv
    <3>2. i + 1 \in 2..NBlocks /\ i + 1 - 1 = i /\ k \in 1..NBlocks
      BY <1>2, <1>4, <2>2, NBlocksAssumption
    <3>3. blocks[i + 1].timestamp >= blocks[i].timestamp
      <4>1. \A l \in 2..NBlocks : blocks[l].timestamp >= blocks[l - 1].timestamp
        BY DEF Monotone, to_number
      <4>2. PICK l \in 2..NBlocks : l = i + 1
        BY <3>2
      <4>3. l - 1 = i
        <5>1. i \in Int
          BY <1>2
        <5>2. \A n \in Int : n + 1 - 1 = n
          OBVIOUS
        <5> QED
          BY <4>2, <5>1, <5>2
      <4>4. blocks[l].timestamp >= blocks[l - 1].timestamp
        BY <4>1, <4>2
      <4> QED
        BY <4>2, <4>3, <4>4
    <3>4. i + 1 \in 1..NBlocks
      BY <3>2, NBlocksAssumption
    <3>5. blocks[i + 1].timestamp \in Int /\ blocks[i].timestamp \in Int /\ blocks[k].timestamp \in Int
      BY <1>2, <3>2, <3>4 DEF ReportType, Block
    <3>6. Elapsed(i + 1, k) <= Elapsed(i, k)
      BY <3>3, <3>5 DEF Elapsed
    <3>7. Elapsed(i + 1, k) \in Nat /\ Elapsed(i, k) \in Nat
      BY <1>2, <3>2, <3>4, ElapsedIsANumber
    <3> QED
      BY <3>1, <3>6, <3>7, StatTimeAssumption
  <2> QED
    BY <1>1, <2>1, <2>2
<1>11. BestInv'
  <2> SUFFICES ASSUME Monotone
               PROVE  /\ \A first \in 1..Rated' : Rate(first) <= best_report'.tps
                      /\ \/ best_report' = NoReport
                         \/ best_report'.from \in 1..Rated' /\ IsOf(best_report', best_report'.from)
                      /\ \A first \in 1..(i' - 1) : End(first) < NBlocks
                      /\ ~reporting' => End(i') = NBlocks
    BY <1>1, AfterStep
  <2>1. /\ End(i) = LastBlock /\ total_transactions = Transactions(i, WindowEnd(i))
        /\ Rate(i) = tps
    BY <1>1, ClosedWindow DEF Inv
  <2> HIDE DEF tps
  <2>2. /\ \A first \in 1..(i - 1) : Rate(first) <= best_report.tps
        /\ \/ best_report = NoReport
           \/ best_report.from \in 1..(i - 1) /\ IsOf(best_report, best_report.from)
        /\ \A first \in 1..(i - 1) : End(first) < NBlocks
    BY <1>1 DEF Inv, BestInv, Rated, to_number
  <2>3. Rated' = i
    <3>1. CASE reporting' = FALSE /\ i' = i
      BY <3>1 DEF Rated
    <3>2. CASE reporting' = TRUE /\ i' = i + 1
      <4>1. Rated' = i' - 1
        BY <3>2 DEF Rated
      <4> QED
        BY <1>2, <3>2, <4>1
    <3>3. reporting = TRUE
      BY <1>1, <1>2 DEF ReportType
    <3> QED
      BY <1>1, <3>1, <3>2, <3>3
  <2>4. \A first \in 1..i : first = i \/ first \in 1..(i - 1)
    BY <1>2
  <2>5. \A first \in 1..i : Rate(first) <= best_report'.tps
    <3>1. ASSUME NEW first \in 1..(i - 1)
          PROVE  Rate(first) <= best_report'.tps
      <4>1. Rate(first) <= best_report.tps
        BY <2>2, <3>1
      <4>2. Rate(first) \in Int
        BY <1>2, <2>2, <3>1, EarlierRate
      <4> QED
        BY <1>2, <1>7, <4>1, <4>2
    <3> QED
      BY <1>5, <1>7, <2>1, <2>4, <3>1
  <2>6. \/ best_report' = NoReport
        \/ best_report'.from \in 1..i /\ IsOf(best_report', best_report'.from)
    <3>1. CASE best_report' = best_report
      <4>1. \A first \in 1..(i - 1) : first \in 1..i
        BY <1>2
      <4> QED
        BY <2>2, <3>1, <4>1
    <3>2. CASE /\ best_report'.from = i /\ best_report'.to = LastBlock
               /\ best_report'.tps = tps /\ best_report'.txs = total_transactions
      <4>1. i \in 1..i
        BY <1>2
      <4> QED
        BY <2>1, <3>2, <4>1 DEF IsOf
    <3> QED
      BY <1>6, <3>1, <3>2
  <2>7. \A first \in 1..(i' - 1) : End(first) < NBlocks
    <3>1. CASE i' = i
      BY <2>2, <3>1
    <3>2. CASE i' = i + 1 /\ LastBlock < NBlocks
      <4>1. i' - 1 = i
        BY <1>2, <3>2
      <4> QED
        BY <2>1, <2>2, <2>4, <3>2, <4>1
    <3> QED
      BY <1>1, <3>1, <3>2
  <2>8. ~reporting' => End(i') = NBlocks
    BY <1>1, <1>4, <2>1
  <2> QED
    BY <2>3, <2>5, <2>6, <2>7, <2>8
<1> QED
  BY <1>8, <1>9, <1>10, <1>11 DEF Inv

-----------------------------------------------------------------------------
(* Theorems *)

LEMMA NextInv == Inv /\ [Next]_vars => Inv'
<1>1. ASSUME Inv, UNCHANGED vars
      PROVE  Inv'
  <2>1. UNCHANGED <<blocks, i, j, total_transactions, best_report, reporting>>
    BY <1>1 DEF vars
  <2>2. ReportType' /\ Rated' = Rated
    BY <1>1, <2>1 DEF Inv, ReportType, Rated
  <2>3. WindowAddsUp' /\ FitsInv'
    BY <1>1, <2>1, AfterStep DEF Inv, WindowAddsUp, FitsInv, to_number
  <2>4. BestInv'
    BY <1>1, <2>1, <2>2, AfterStep DEF Inv, BestInv, to_number
  <2> QED
    BY <2>2, <2>3, <2>4 DEF Inv
<1> QED
  BY <1>1, ExtendInv, CloseInv DEF Next

\* The running total is that of the blocks in the window, for any chain and any
\* stat_time: total_transactions -= ... never goes below zero, also when a block
\* is older than its parent (stat.rs, both loops of stat).
THEOREM WindowAddsUpHolds == Spec => []WindowAddsUp
<1>1. Inv => WindowAddsUp
  BY DEF Inv
<1> QED
  BY <1>1, InitInv, NextInv, PTL DEF Spec

\* For any chain whose timestamps do not go back, the report is that of the best
\* window, or empty if no window has one transaction in a second (stat.rs, the
\* strict comparison with best_report).
THEOREM ReportsTheBestWindowHolds == Spec => []ReportsTheBestWindow
<1>1. Inv => ReportsTheBestWindow
  BY DEF Inv, BestInv, Rated, IsOf, ReportsTheBestWindow
<1> QED
  BY <1>1, InitInv, NextInv, PTL DEF Spec
=============================================================================

---------------------------- MODULE DispatchProofs ----------------------------
(***************************************************************************)
(* The dispatch subcommand spends and serves exactly, and collect brings   *)
(* each cell back: proofs about Dispatch and, at the end, about Collect.   *)
(*                                                                         *)
(* The invariant of dispatch keeps two accounts.  A cell, known by the     *)
(* transaction that made it and its place there, is once in the queue,     *)
(* among the inputs, or spent by one transaction.  The owner's capacity is *)
(* in the queue, among the inputs, in the users' cells, or was paid.  A    *)
(* second one, of what is held and where it was made, gives the reasons    *)
(* for which the node refuses a transaction.                               *)
(* The one of collect says that what is left over from users before comes  *)
(* first, lock after lock.  The first sections are about sums of           *)
(* sequences, by a least counterexample.                                   *)
(***************************************************************************)
EXTENDS Dispatch, Collect, NaturalsInduction, WellFoundedInduction, FiniteSetTheorems,
        SequenceTheorems, TLAPS

-----------------------------------------------------------------------------
(* Sums *)

\* the well-founded order of the numbers, for arguments by a least counterexample
LEMMA LeastNumber ==
  ASSUME NEW T \in SUBSET Nat, T # {}
  PROVE  \E x \in T : \A y \in T : x <= y
<1> DEFINE Less == {ss \in Nat \X Nat : ss[1] < ss[2]}
<1>1. IsWellFoundedOn(Less, Nat)
  BY NatLessThanWellFounded DEF OpToRel
<1>2. PICK x \in T : \A y \in T : ~ (<<y, x>> \in Less)
  <2> HIDE DEF Less
  <2> QED
    BY <1>1, WFMin
<1>3. ASSUME NEW y \in T, y < x
      PROVE  FALSE
  <2>1. <<y, x>> \in Nat \X Nat /\ <<y, x>>[1] < <<y, x>>[2]
    BY <1>3
  <2>2. <<y, x>> \in Less
    BY <2>1
  <2>3. QED
    BY <1>2, <2>2
<1>4. QED
  BY <1>3

\* f[k] is the sum of the first k numbers of q
Sums(f, q, m) == f = [k \in 0..m |-> IF k = 0 THEN 0 ELSE f[k - 1] + q[k]]

\* such a function, unfolded
LEMMA SumsStep ==
  ASSUME NEW f, NEW q, NEW m \in Nat, Sums(f, q, m)
  PROVE  f[0] = 0 /\ \A k \in 1..m : f[k] = f[k - 1] + q[k]
<1>1. \A k \in 0..m : f[k] = IF k = 0 THEN 0 ELSE f[k - 1] + q[k]
  BY DEF Sums
<1>2. 0 \in 0..m /\ \A k \in 1..m : k \in 0..m /\ k # 0
  OBVIOUS
<1> QED
  BY <1>1, <1>2

\* Sum chooses such a function: there is one
LEMMA SumsExist ==
  ASSUME NEW q, NEW n \in Nat
  PROVE  \E f : Sums(f, q, n)
<1> DEFINE T == {m \in Nat : ~\E f : Sums(f, q, m)}
<1> SUFFICES ASSUME T # {} PROVE FALSE
  OBVIOUS
<1>1. PICK m \in T : \A k \in T : m <= k
  <2> HIDE DEF T
  <2>1. T \in SUBSET Nat
    BY DEF T
  <2> QED
    BY <2>1, LeastNumber
<1>2. CASE m = 0
  <2> DEFINE g == [k \in 0..0 |-> 0]
  <2>1. \A k \in 0..0 : g[k] = IF k = 0 THEN 0 ELSE g[k - 1] + q[k]
    OBVIOUS
  <2>2. g = [k \in 0..0 |-> g[k]]
    OBVIOUS
  <2> HIDE DEF g
  <2>3. Sums(g, q, 0)
    BY <2>1, <2>2 DEF Sums
  <2> QED
    BY <1>2, <2>3
<1>3. CASE m # 0
  <2>1. m - 1 \in Nat /\ m - 1 \notin T
    BY <1>1, <1>3
  <2>2. PICK f : Sums(f, q, m - 1)
    BY <2>1
  <2> DEFINE g == [k \in 0..m |-> IF k = m THEN f[m - 1] + q[m] ELSE f[k]]
  <2>3. \A k \in 0..m : g[k] = IF k = 0 THEN 0 ELSE g[k - 1] + q[k]
    <3> SUFFICES ASSUME NEW k \in 0..m PROVE g[k] = IF k = 0 THEN 0 ELSE g[k - 1] + q[k]
      OBVIOUS
    <3>1. m \in Nat /\ k \in Nat
      OBVIOUS
    <3>2. CASE k = m
      <4>1. k - 1 \in 0..m /\ k - 1 # m /\ k # 0
        BY <1>3, <3>1, <3>2
      <4>2. g[k - 1] = f[k - 1]
        BY <4>1
      <4> QED
        BY <3>2, <4>1, <4>2
    <3>3. CASE k # m
      <4>1. k \in 0..(m - 1) /\ g[k] = f[k]
        BY <3>1, <3>3
      <4>2. f[k] = IF k = 0 THEN 0 ELSE f[k - 1] + q[k]
        BY <2>2, <4>1 DEF Sums
      <4>3. k # 0 => k - 1 \in 0..m /\ k - 1 # m
        BY <3>1
      <4>4. k # 0 => g[k - 1] = f[k - 1]
        BY <4>3
      <4> QED
        BY <4>1, <4>2, <4>4
    <3> QED
      BY <3>2, <3>3
  <2>4. g = [k \in 0..m |-> g[k]]
    OBVIOUS
  <2> HIDE DEF g
  <2>5. Sums(g, q, m)
    BY <2>3, <2>4 DEF Sums
  <2> QED
    BY <2>5
<1> QED
  BY <1>2, <1>3

\* the sum is the last of the partial sums
LEMMA SumIsLast ==
  ASSUME NEW q, NEW n \in Nat, Len(q) = n
  PROVE  \E f : Sums(f, q, n) /\ Sum(q) = f[n]
<1>1. PICK f : Sums(f, q, n)
  BY SumsExist
<1> DEFINE sum == CHOOSE g : g = [k \in 0..Len(q) |-> IF k = 0 THEN 0 ELSE g[k - 1] + q[k]]
<1>2. Sum(q) = sum[n]
  BY DEF Sum
<1>3. Sums(sum, q, n)
  BY <1>1 DEF Sums
<1> HIDE DEF sum
<1> QED
  BY <1>2, <1>3

\* partial sums of numbers are numbers
LEMMA SumsAreNumbers ==
  ASSUME NEW q, NEW n \in Nat, NEW f, Sums(f, q, n), \A k \in 1..n : q[k] \in Int
  PROVE  \A k \in 0..n : f[k] \in Int
<1> DEFINE T == {k \in 0..n : f[k] \notin Int}
<1> SUFFICES ASSUME T # {} PROVE FALSE
  OBVIOUS
<1>1. PICK m \in T : \A k \in T : m <= k
  <2> HIDE DEF T
  <2>1. T \in SUBSET Nat
    BY DEF T
  <2> QED
    BY <2>1, LeastNumber
<1>2. m # 0
  BY SumsStep
<1>3. m \in 1..n /\ m - 1 \in 0..n
  BY <1>2
<1>4. m - 1 \notin T
  <2> HIDE DEF T
  <2> QED
    BY <1>1, <1>3
<1>5. f[m - 1] \in Int /\ q[m] \in Int
  BY <1>3, <1>4
<1>6. f[m] = f[m - 1] + q[m]
  BY <1>3, SumsStep
<1> QED
  BY <1>5, <1>6

\* two sums that begin a and b further on, over the same numbers, differ by
\* what they begin with
Numbers(q, n) == \A k \in 1..n : q[k] \in Int
Shifted(q, a, r, n) == \A k \in 1..n : q[a + k] = r[k]

LEMMA SumsDiffer ==
  ASSUME NEW q, NEW m \in Nat, NEW f, Sums(f, q, m), Numbers(q, m),
         NEW r, NEW n \in Nat, NEW g, Sums(g, r, n), Numbers(r, n),
         NEW a \in 0..1, a + n <= m, Shifted(q, a, r, n)
  PROVE  \A k \in 0..n : f[a + k] = f[a] + g[k]
<1> DEFINE T == {k \in 0..n : f[a + k] # f[a] + g[k]}
<1> SUFFICES ASSUME T # {} PROVE FALSE
  OBVIOUS
<1>1. PICK k \in T : \A l \in T : k <= l
  <2> HIDE DEF T
  <2>1. T \in SUBSET Nat
    BY DEF T
  <2> QED
    BY <2>1, LeastNumber
<1>2. (\A l \in 0..m : f[l] \in Int) /\ (\A l \in 0..n : g[l] \in Int)
  BY SumsAreNumbers DEF Numbers
<1>3. a \in 0..m
  OBVIOUS
<1>4. k # 0
  <2>1. g[0] = 0 /\ f[a] \in Int
    BY <1>2, <1>3, SumsStep
  <2> QED
    BY <2>1
<1>5. k \in 1..n /\ k - 1 \in 0..n /\ a + k \in 1..m /\ a + k - 1 \in 0..m /\ a + (k - 1) = a + k - 1
  BY <1>4
<1>6. k - 1 \notin T
  <2> HIDE DEF T
  <2> QED
    BY <1>1, <1>5
<1>7. f[a + k - 1] = f[a] + g[k - 1]
  BY <1>5, <1>6
<1>8. f[a + k] = f[a + k - 1] + q[a + k] /\ g[k] = g[k - 1] + r[k]
  BY <1>5, SumsStep
<1>9. q[a + k] = r[k]
  BY <1>5 DEF Shifted
<1>10. f[a] \in Int /\ g[k - 1] \in Int /\ r[k] \in Int
  BY <1>2, <1>3, <1>5 DEF Numbers
<1>11. f[a + k] = f[a] + g[k]
  BY <1>7, <1>8, <1>9, <1>10
<1> QED
  BY <1>11

LEMMA SumOfNone == Sum(<<>>) = 0
<1>1. Len(<<>>) = 0
  OBVIOUS
<1>2. PICK f : Sums(f, <<>>, 0) /\ Sum(<<>>) = f[0]
  BY <1>1, SumIsLast
<1> QED
  BY <1>2, SumsStep

\* the sum of a longer sequence
LEMMA SumAppend ==
  ASSUME NEW q \in Seq(Int), NEW x \in Int
  PROVE  Sum(q) \in Int /\ Sum(Append(q, x)) = Sum(q) + x
<1> DEFINE r == Append(q, x)
<1>1. PICK n \in Nat : n = Len(q)
  OBVIOUS
<1>2. PICK m \in Nat : m = n + 1
  OBVIOUS
<1>3. /\ Len(r) = m /\ (\A k \in 1..m : r[k] \in Int) /\ r[m] = x
      /\ \A k \in 1..n : q[k] \in Int /\ r[0 + k] = q[k]
  BY <1>1, <1>2
<1> HIDE DEF r
<1>4. PICK f : Sums(f, r, m) /\ Sum(r) = f[m]
  BY <1>3, SumIsLast
<1>5. PICK g : Sums(g, q, n) /\ Sum(q) = g[n]
  BY <1>1, SumIsLast
<1>6. m \in 1..m /\ m - 1 = n /\ n \in 0..n /\ 0 + n = n /\ 0 + n <= m /\ 0 \in 0..1
  BY <1>2
<1>7. f[0] = 0 /\ f[m] = f[n] + r[m]
  BY <1>4, <1>6, SumsStep
<1>8. \A k \in 0..n : f[0 + k] = f[0] + g[k]
  <2>1. Numbers(r, m) /\ Numbers(q, n) /\ Shifted(r, 0, q, n)
    BY <1>3 DEF Numbers, Shifted
  <2> QED
    BY <1>4, <1>5, <1>6, <2>1, SumsDiffer
<1>9. g[n] \in Int
  BY <1>3, <1>5, <1>6, SumsAreNumbers
<1>10. f[n] = 0 + g[n]
  BY <1>6, <1>7, <1>8
<1> QED
  BY <1>3, <1>4, <1>5, <1>7, <1>9, <1>10 DEF r

\* the sum without the first number
LEMMA SumTail ==
  ASSUME NEW q \in Seq(Int), q # <<>>
  PROVE  Sum(Tail(q)) \in Int /\ Sum(q) = Head(q) + Sum(Tail(q))
<1> DEFINE r == Tail(q)
<1>1. PICK m \in Nat : m = Len(q)
  OBVIOUS
<1>2. PICK n \in Nat : n = m - 1
  BY <1>1
<1>3. /\ Len(r) = n /\ (\A k \in 1..m : q[k] \in Int) /\ Head(q) = q[1]
      /\ \A k \in 1..n : r[k] \in Int /\ q[1 + k] = r[k]
  BY <1>1, <1>2
<1> HIDE DEF r
<1>4. PICK f : Sums(f, q, m) /\ Sum(q) = f[m]
  BY <1>1, SumIsLast
<1>5. PICK g : Sums(g, r, n) /\ Sum(r) = g[n]
  BY <1>3, SumIsLast
<1>6. 1 \in 1..m /\ 1 - 1 = 0 /\ n \in 0..n /\ 1 + n = m /\ 1 + n <= m /\ 1 \in 0..1
  BY <1>2
<1>7. f[0] = 0 /\ f[1] = f[0] + q[1]
  BY <1>4, <1>6, SumsStep
<1>8. \A k \in 0..n : f[1 + k] = f[1] + g[k]
  <2>1. Numbers(q, m) /\ Numbers(r, n) /\ Shifted(q, 1, r, n)
    BY <1>3 DEF Numbers, Shifted
  <2> QED
    BY <1>4, <1>5, <1>6, <2>1, SumsDiffer
<1>9. g[n] \in Int
  BY <1>3, <1>5, <1>6, SumsAreNumbers
<1>10. f[1] = q[1]
  BY <1>3, <1>6, <1>7
<1>11. f[m] = f[1] + g[n]
  BY <1>6, <1>8
<1> QED
  BY <1>3, <1>4, <1>5, <1>9, <1>10, <1>11 DEF r

-----------------------------------------------------------------------------
(* Products and quotients *)

\* the quotient and its remainder
LEMMA DivFacts ==
  ASSUME NEW a \in Int, NEW b \in Nat \ {0}
  PROVE  a \div b \in Int /\ (a \div b) * b <= a /\ a < (a \div b) * b + b
<1>1. a \div b \in Int
  OBVIOUS
<1>2. (a \div b) * b <= a
  OBVIOUS
<1>3. a < (a \div b) * b + b
  OBVIOUS
<1> QED
  BY <1>1, <1>2, <1>3

\* products, which the provers do not compare by themselves
LEMMA TimesOfFewer ==
  ASSUME NEW n \in Int, NEW d \in Int, NEW b \in Nat \ {0}, n <= d
  PROVE  n * b <= d * b
OBVIOUS

LEMMA TimesOfSum ==
  ASSUME NEW a \in Int, NEW b \in Int, NEW c \in Int
  PROVE  a * c \in Int /\ b * c \in Int /\ (a + b) * c = a * c + b * c
OBVIOUS

\* what was taken pays for what is spent, so what is left covers the rest
LEMMA SpentCovers ==
  ASSUME NEW had \in Int, NEW of_left \in Int, NEW of_inputs \in Int, NEW of_queue \in Int,
         NEW after \in Int, NEW change \in Int, NEW spent \in Int, NEW cost \in Int,
         had + of_left = of_inputs + of_queue, after = of_left + change,
         had <= change + spent + cost
  PROVE  of_queue + of_inputs <= after + spent + cost
OBVIOUS

LEMMA Amounts == Fee \in Nat /\ total_outs \in Nat \ {0}
<1>1. Fee \in Nat
  BY CapacityAssumption DEF Fee
<1>2. total_outs \in Nat \ {0}
  BY CapacityAssumption DEF total_outs
<1> QED
  BY <1>1, <1>2

\* a transaction has an output for some user, no more outputs than are missing,
\* and loses at most MinChange to the miner beside the fee
LEMMA OutputsFacts ==
  ASSUME NEW capacity \in Int, capacity \div CapacityPerCell > 0,
         i_out \in Nat, i_out < total_outs
  PROVE  LET n_outs == Outputs(capacity)
             left == capacity - n_outs * CapacityPerCell
         IN  /\ n_outs \in Nat \ {0} /\ i_out + n_outs <= total_outs
             /\ n_outs * CapacityPerCell \in Int
             /\ Change(left) \in Nat /\ Change(left) <= left /\ left <= Change(left) + MinChange
<1> DEFINE n_outs == Outputs(capacity)   left == capacity - n_outs * CapacityPerCell
<1>1. PICK d \in Int : d = capacity \div CapacityPerCell /\ d * CapacityPerCell <= capacity
  BY DivFacts, CapacityAssumption
<1>2. n_outs \in Nat \ {0} /\ n_outs <= d /\ i_out + n_outs <= total_outs
  <2>1. PICK total \in Nat : total = total_outs
    BY Amounts
  <2> QED
    BY <1>1, <2>1, CapacityAssumption DEF Outputs
<1> HIDE DEF n_outs
<1>3. n_outs * CapacityPerCell <= d * CapacityPerCell
  BY <1>1, <1>2, TimesOfFewer, CapacityAssumption
<1>4. n_outs * CapacityPerCell \in Int /\ d * CapacityPerCell \in Int
  BY <1>1, <1>2, CapacityAssumption
<1>5. left \in Nat
  BY <1>1, <1>3, <1>4
<1> HIDE DEF left
<1>6. /\ Change(left) \in Nat /\ Change(left) <= left /\ left <= Change(left) + MinChange
  BY <1>5, CapacityAssumption DEF Change
<1> QED
  BY <1>2, <1>4, <1>6 DEF n_outs, left

-----------------------------------------------------------------------------
(* Queues of cells *)

Cell == [tx : Nat, k : Nat, capacity : Int]
Tx == [inputs : Seq(Cell), n_outs : Nat, change : Nat]

Capacities(held) == [k \in DOMAIN held |-> held[k].capacity]
Outs(transactions) == [t \in DOMAIN transactions |-> transactions[t].n_outs]

\* what the sums are taken of
LEMMA CapacitiesAreNumbers ==
  ASSUME NEW held \in Seq(Cell)
  PROVE  Capacities(held) \in Seq(Int) /\ Len(Capacities(held)) = Len(held)
<1>1. PICK n \in Nat : n = Len(held) /\ DOMAIN held = 1..n
  OBVIOUS
<1>2. \A j \in 1..n : held[j] \in Cell
  BY <1>1
<1>3. \A j \in 1..n : held[j].capacity \in Int
  BY <1>2 DEF Cell
<1>4. Capacities(held) \in [1..n -> Int]
  BY <1>1, <1>3 DEF Capacities
<1>5. Capacities(held) \in Seq(Int) /\ Len(Capacities(held)) = n
  BY <1>4
<1> QED
  BY <1>1, <1>5

LEMMA OutsAreNumbers ==
  ASSUME NEW transactions \in Seq(Tx)
  PROVE  Outs(transactions) \in Seq(Int)
<1>1. PICK n \in Nat : n = Len(transactions) /\ DOMAIN transactions = 1..n
  OBVIOUS
<1>2. \A j \in 1..n : transactions[j] \in Tx
  BY <1>1
<1>3. \A j \in 1..n : transactions[j].n_outs \in Int
  BY <1>2 DEF Tx
<1>4. Outs(transactions) \in [1..n -> Int]
  BY <1>1, <1>3 DEF Outs
<1> QED
  BY <1>4

LEMMA CapacityOfNone == Capacity(<<>>) = 0
<1>1. Capacities(<<>>) = <<>>
  BY DEF Capacities
<1> QED
  BY <1>1, SumOfNone DEF Capacity, Capacities

LEMMA CapacityAppend ==
  ASSUME NEW held \in Seq(Cell), NEW c \in Cell
  PROVE  /\ Capacity(held) \in Int
         /\ Capacity(Append(held, c)) = Capacity(held) + c.capacity
<1>1. Capacities(held) \in Seq(Int) /\ c.capacity \in Int
  BY CapacitiesAreNumbers DEF Cell
<1>2. Capacities(Append(held, c)) = Append(Capacities(held), c.capacity)
  BY DEF Capacities, Cell
<1> QED
  BY <1>1, <1>2, SumAppend DEF Capacity, Capacities

LEMMA CapacityIsANumber ==
  ASSUME NEW held \in Seq(Cell)
  PROVE  Capacity(held) \in Int
<1>1. Capacities(held) \in Seq(Int)
  BY CapacitiesAreNumbers
<1>2. Sum(Capacities(held)) \in Int
  BY <1>1, SumAppend
<1> QED
  BY <1>2 DEF Capacity, Capacities

LEMMA CapacityTail ==
  ASSUME NEW held \in Seq(Cell), held # <<>>
  PROVE  /\ Capacity(Tail(held)) \in Int /\ Head(held).capacity \in Int
         /\ Capacity(held) = Head(held).capacity + Capacity(Tail(held))
<1>1. Capacities(held) \in Seq(Int) /\ Capacities(held) # <<>>
  BY CapacitiesAreNumbers
<1>2. Capacities(Tail(held)) = Tail(Capacities(held))
  <2>1. PICK n \in Nat : n + 1 = Len(held) /\ DOMAIN held = 1..(n + 1) /\ DOMAIN Tail(held) = 1..n
    OBVIOUS
  <2>2. \A j \in 1..n : Tail(held)[j] = held[j + 1] /\ j + 1 \in 1..(n + 1)
    BY <2>1
  <2>3. PICK cs \in Seq(Int) : cs = Capacities(held) /\ Len(cs) = n + 1
    BY <1>1, <2>1, CapacitiesAreNumbers
  <2>4. cs # <<>>
    BY <2>3
  <2>5. DOMAIN Tail(cs) = 1..n /\ \A j \in 1..n : Tail(cs)[j] = cs[j + 1]
    BY <2>3, <2>4
  <2>6. \A j \in 1..n : Tail(cs)[j] = Tail(held)[j].capacity
    BY <2>1, <2>2, <2>3, <2>5 DEF Capacities
  <2>7. Tail(cs) = [j \in DOMAIN Tail(cs) |-> Tail(cs)[j]]
    <3>1. PICK r : r = Tail(cs)
      OBVIOUS
    <3>2. r \in Seq(Int)
      BY <2>3, <2>4, <3>1
    <3>3. r \in [1..Len(r) -> Int]
      BY <3>2
    <3>4. r = [j \in DOMAIN r |-> r[j]]
      BY <3>3
    <3> QED
      BY <3>1, <3>4
  <2>8. [j \in DOMAIN Tail(cs) |-> Tail(cs)[j]] = [j \in 1..n |-> Tail(held)[j].capacity]
    BY <2>5, <2>6
  <2> QED
    BY <2>1, <2>3, <2>7, <2>8 DEF Capacities
<1>3. Head(Capacities(held)) = Head(held).capacity /\ Head(held) \in Cell
  BY DEF Capacities
<1>4. Head(held).capacity \in Int
  BY <1>3 DEF Cell
<1> QED
  BY <1>1, <1>2, <1>3, <1>4, SumTail DEF Capacity, Capacities

LEMMA OutsAppend ==
  ASSUME NEW transactions \in Seq(Tx), NEW t \in Tx
  PROVE  /\ Sum(Outs(transactions)) \in Int
         /\ Sum(Outs(Append(transactions, t))) = Sum(Outs(transactions)) + t.n_outs
<1>1. Outs(transactions) \in Seq(Int)
  BY OutsAreNumbers
<1>2. t.n_outs \in Int
  BY DEF Tx
<1>3. Outs(Append(transactions, t)) = Append(Outs(transactions), t.n_outs)
  BY DEF Outs
<1> QED
  BY <1>1, <1>2, <1>3, SumAppend

\* a cell is known by the transaction that made it and its place in it
Key(c) == [tx |-> c.tx, k |-> c.k]
KeysOf(held) == {Key(held[j]) : j \in DOMAIN held}
Distinct(held) == \A j, k \in DOMAIN held : Key(held[j]) = Key(held[k]) => j = k
MadeBefore(held, t) == \A j \in DOMAIN held : held[j].tx < t

\* the cells that a transaction spends, as the property counts them
LEMMA SpentKeys == \A t : Spent(t) = KeysOf(txs[t].inputs)
BY DEF Spent, ToSet, KeysOf, Key

\* the first cell of the queue moves to the inputs
LEMMA Taken ==
  ASSUME NEW q \in Seq(Cell), q # <<>>, NEW p \in Seq(Cell),
         Distinct(q), Distinct(p), KeysOf(q) \cap KeysOf(p) = {}
  PROVE  /\ Append(p, Head(q)) \in Seq(Cell) /\ Tail(q) \in Seq(Cell)
         /\ Distinct(Append(p, Head(q))) /\ Distinct(Tail(q))
         /\ KeysOf(Tail(q)) \cap KeysOf(Append(p, Head(q))) = {}
         /\ KeysOf(Append(p, Head(q))) \subseteq KeysOf(p) \cup KeysOf(q)
         /\ KeysOf(Tail(q)) \subseteq KeysOf(q)
         /\ \A t : MadeBefore(p, t) /\ MadeBefore(q, t) =>
                     MadeBefore(Append(p, Head(q)), t) /\ MadeBefore(Tail(q), t)
<1> DEFINE taken == Append(p, Head(q))   left == Tail(q)
<1>1. PICK m \in Nat : m = Len(p)
  OBVIOUS
<1>2. PICK n \in Nat : n = Len(left) /\ Len(q) = n + 1
  OBVIOUS
<1>3. taken \in Seq(Cell) /\ left \in Seq(Cell)
  OBVIOUS
<1>4. /\ DOMAIN p = 1..m /\ DOMAIN q = 1..(n + 1) /\ DOMAIN left = 1..n /\ DOMAIN taken = 1..(m + 1)
      /\ taken[m + 1] = q[1]
      /\ \A j \in 1..m : taken[j] = p[j]
      /\ \A j \in 1..n : left[j] = q[j + 1]
  BY <1>1, <1>2
<1> HIDE DEF taken, left
<1>5. \A j \in 1..n : j + 1 \in 1..(n + 1) /\ j + 1 # 1
  OBVIOUS
<1>6. 1 \in 1..(n + 1) /\ \A j \in 1..(m + 1) : j = m + 1 \/ j \in 1..m
  OBVIOUS
<1>7. Distinct(left)
  <2> SUFFICES ASSUME NEW j \in 1..n, NEW k \in 1..n, Key(left[j]) = Key(left[k]) PROVE j = k
    BY <1>4 DEF Distinct
  <2>1. PICK a \in 1..(n + 1), b \in 1..(n + 1) : a = j + 1 /\ b = k + 1
    BY <1>5
  <2>2. left[j] = q[a] /\ left[k] = q[b]
    BY <1>4, <2>1
  <2>3. Key(q[a]) = Key(q[b])
    BY <2>2
  <2>4. a = b
    BY <1>4, <2>3 DEF Distinct
  <2> QED
    BY <2>1, <2>4
<1>8. Distinct(taken)
  <2> SUFFICES ASSUME NEW j \in 1..(m + 1), NEW k \in 1..(m + 1), Key(taken[j]) = Key(taken[k]) PROVE j = k
    BY <1>4 DEF Distinct
  <2>1. \A l \in 1..m : Key(p[l]) # Key(q[1])
    BY <1>4, <1>6 DEF KeysOf
  <2>2. CASE j \in 1..m /\ k \in 1..m
    BY <1>4, <2>2 DEF Distinct
  <2>3. CASE j = m + 1 /\ k = m + 1
    BY <2>3
  <2>4. CASE j = m + 1 /\ k \in 1..m
    BY <1>4, <2>1, <2>4
  <2>5. CASE j \in 1..m /\ k = m + 1
    BY <1>4, <2>1, <2>5
  <2> QED
    BY <1>6, <2>2, <2>3, <2>4, <2>5
<1>9. KeysOf(left) \subseteq KeysOf(q)
  BY <1>4, <1>5 DEF KeysOf
<1>10. KeysOf(taken) = KeysOf(p) \cup {Key(q[1])} /\ Key(q[1]) \in KeysOf(q)
  <2>1. m + 1 \in 1..(m + 1) /\ \A j \in 1..m : j \in 1..(m + 1)
    OBVIOUS
  <2> QED
    BY <1>4, <1>6, <2>1 DEF KeysOf
<1>11. Key(q[1]) \notin KeysOf(left)
  <2> SUFFICES ASSUME NEW j \in 1..n, Key(left[j]) = Key(q[1]) PROVE FALSE
    BY <1>4 DEF KeysOf
  <2>1. PICK a \in 1..(n + 1) : a = j + 1 /\ a # 1
    BY <1>5
  <2>2. left[j] = q[a]
    BY <1>4, <2>1
  <2>3. a = 1
    BY <1>4, <1>6, <2>2 DEF Distinct
  <2> QED
    BY <2>1, <2>3
<1>12. ASSUME NEW t, MadeBefore(p, t), MadeBefore(q, t)
       PROVE  MadeBefore(taken, t) /\ MadeBefore(left, t)
  BY <1>4, <1>5, <1>6, <1>12 DEF MadeBefore
<1> QED
  BY <1>3, <1>7, <1>8, <1>9, <1>10, <1>11, <1>12 DEF taken, left

\* change joins the end of the queue
LEMMA Joined ==
  ASSUME NEW q \in Seq(Cell), NEW c \in Cell, Distinct(q), Key(c) \notin KeysOf(q)
  PROVE  /\ Append(q, c) \in Seq(Cell) /\ Distinct(Append(q, c))
         /\ KeysOf(Append(q, c)) = KeysOf(q) \cup {Key(c)}
         /\ \A t : MadeBefore(q, t) /\ c.tx < t => MadeBefore(Append(q, c), t)
<1> DEFINE r == Append(q, c)
<1>1. PICK n \in Nat : n = Len(q)
  OBVIOUS
<1>2. /\ r \in Seq(Cell) /\ DOMAIN q = 1..n /\ DOMAIN r = 1..(n + 1)
      /\ r[n + 1] = c /\ \A j \in 1..n : r[j] = q[j]
  BY <1>1
<1> HIDE DEF r
<1>3. /\ n + 1 \in 1..(n + 1) /\ \A j \in 1..(n + 1) : j = n + 1 \/ j \in 1..n
      /\ \A j \in 1..n : j \in 1..(n + 1)
  OBVIOUS
<1>4. KeysOf(r) = KeysOf(q) \cup {Key(c)}
  BY <1>2, <1>3 DEF KeysOf
<1>5. Distinct(r)
  <2> SUFFICES ASSUME NEW j \in 1..(n + 1), NEW k \in 1..(n + 1), Key(r[j]) = Key(r[k]) PROVE j = k
    BY <1>2 DEF Distinct
  <2>1. \A l \in 1..n : Key(q[l]) # Key(c)
    BY <1>2 DEF KeysOf
  <2>2. CASE j \in 1..n /\ k \in 1..n
    BY <1>2, <2>2 DEF Distinct
  <2>3. CASE j = n + 1 /\ k \in 1..n
    BY <1>2, <2>1, <2>3
  <2>4. CASE j \in 1..n /\ k = n + 1
    BY <1>2, <2>1, <2>4
  <2> QED
    BY <1>3, <2>2, <2>3, <2>4
<1>6. \A t : MadeBefore(q, t) /\ c.tx < t => MadeBefore(r, t)
  BY <1>2, <1>3 DEF MadeBefore
<1> QED
  BY <1>2, <1>4, <1>5, <1>6 DEF r

-----------------------------------------------------------------------------
(* The pool after a repetition *)

Resends(f, m) ==
  f = [t \in 0..m |-> IF t = 0 THEN pool
                      ELSE IF t \in rest THEN Resubmit(f[t - 1], t) ELSE f[t - 1]]

\* Resent chooses such a function: there is one
LEMMA ResendsExist ==
  ASSUME NEW n \in Nat
  PROVE  \E f : Resends(f, n)
<1> DEFINE T == {m \in Nat : ~\E f : Resends(f, m)}
           Sent(p, t) == IF t \in rest THEN Resubmit(p, t) ELSE p
<1> SUFFICES ASSUME T # {} PROVE FALSE
  OBVIOUS
<1>1. PICK m \in T : \A k \in T : m <= k
  <2> HIDE DEF T
  <2>1. T \in SUBSET Nat
    BY DEF T
  <2> QED
    BY <2>1, LeastNumber
<1>2. ASSUME NEW g, NEW l \in Nat, g = [t \in 0..l |-> g[t]],
             \A t \in 0..l : g[t] = IF t = 0 THEN pool ELSE Sent(g[t - 1], t)
      PROVE  Resends(g, l)
  BY <1>2 DEF Resends
<1>3. ASSUME NEW f, NEW l \in Nat, Resends(f, l)
      PROVE  \A t \in 0..l : f[t] = IF t = 0 THEN pool ELSE Sent(f[t - 1], t)
  BY <1>3 DEF Resends
<1> HIDE DEF Sent
<1>4. CASE m = 0
  <2> DEFINE g == [t \in 0..0 |-> pool]
  <2>1. \A t \in 0..0 : g[t] = IF t = 0 THEN pool ELSE Sent(g[t - 1], t)
    OBVIOUS
  <2>2. g = [t \in 0..0 |-> g[t]]
    OBVIOUS
  <2> HIDE DEF g
  <2> QED
    BY <1>2, <1>4, <2>1, <2>2
<1>5. CASE m # 0
  <2>1. m - 1 \in Nat /\ m - 1 \notin T
    BY <1>1, <1>5
  <2>2. PICK f : Resends(f, m - 1)
    BY <2>1
  <2> DEFINE g == [t \in 0..m |-> IF t = m THEN Sent(f[m - 1], m) ELSE f[t]]
  <2>3. \A t \in 0..m : g[t] = IF t = 0 THEN pool ELSE Sent(g[t - 1], t)
    <3> SUFFICES ASSUME NEW t \in 0..m PROVE g[t] = IF t = 0 THEN pool ELSE Sent(g[t - 1], t)
      OBVIOUS
    <3>1. m \in Nat /\ t \in Nat
      OBVIOUS
    <3>2. CASE t = m
      <4>1. t - 1 \in 0..m /\ t - 1 # m /\ t # 0
        BY <1>5, <3>1, <3>2
      <4>2. g[t - 1] = f[t - 1]
        BY <4>1
      <4> QED
        BY <3>2, <4>1, <4>2
    <3>3. CASE t # m
      <4>1. t \in 0..(m - 1) /\ g[t] = f[t]
        BY <3>1, <3>3
      <4>2. f[t] = IF t = 0 THEN pool ELSE Sent(f[t - 1], t)
        BY <1>3, <2>1, <2>2, <4>1
      <4>3. t # 0 => t - 1 \in 0..m /\ t - 1 # m
        BY <3>1
      <4>4. t # 0 => g[t - 1] = f[t - 1]
        BY <4>3
      <4> QED
        BY <4>1, <4>2, <4>4
    <3> QED
      BY <3>2, <3>3
  <2>4. g = [t \in 0..m |-> g[t]]
    OBVIOUS
  <2> HIDE DEF g
  <2> QED
    BY <1>2, <2>3, <2>4
<1> QED
  BY <1>4, <1>5

\* what is sent again was sent before
LEMMA ResentWereSent ==
  ASSUME txs \in Seq(Tx), pool \subseteq 1..Len(txs)
  PROVE  Resent \subseteq 1..Len(txs)
<1>1. PICK n \in Nat : n = Len(txs)
  OBVIOUS
<1> DEFINE resent == CHOOSE f : f = [t \in 0..Len(txs) |->
                       IF t = 0 THEN pool
                       ELSE IF t \in rest THEN Resubmit(f[t - 1], t) ELSE f[t - 1]]
<1>2. Resent = resent[n]
  BY <1>1 DEF Resent
<1>3. Resends(resent, n)
  <2>1. PICK f : Resends(f, n)
    BY ResendsExist
  <2> QED
    BY <1>1, <2>1 DEF Resends
<1> HIDE DEF resent
<1>4. \A t \in 0..n : resent[t] = IF t = 0 THEN pool
                        ELSE IF t \in rest THEN Resubmit(resent[t - 1], t) ELSE resent[t - 1]
  BY <1>3 DEF Resends
<1> DEFINE T == {t \in 0..n : ~(resent[t] \subseteq 1..n)}
<1>5. T = {}
  <2> SUFFICES ASSUME T # {} PROVE FALSE
    OBVIOUS
  <2>1. PICK t \in T : \A k \in T : t <= k
    <3> HIDE DEF T
    <3>1. T \in SUBSET Nat
      BY DEF T
    <3> QED
      BY <3>1, LeastNumber
  <2>2. t # 0
    <3>1. 0 \in 0..n /\ resent[0] = pool
      BY <1>4
    <3> QED
      BY <1>1, <3>1
  <2>3. t \in 1..n /\ t - 1 \in 0..n
    BY <2>2
  <2>4. t - 1 \notin T
    <3> HIDE DEF T
    <3> QED
      BY <2>1, <2>3
  <2>5. resent[t - 1] \subseteq 1..n
    BY <2>3, <2>4
  <2>6. Resubmit(resent[t - 1], t) \subseteq 1..n
    BY <2>3, <2>5 DEF Resubmit
  <2>7. t \in 0..n /\ t # 0
    BY <2>3
  <2>8. resent[t] \subseteq 1..n
    BY <1>4, <2>5, <2>6, <2>7
  <2> QED
    BY <2>8
<1>6. n \in 0..n /\ n \notin T
  BY <1>5
<1> QED
  BY <1>1, <1>2, <1>6

-----------------------------------------------------------------------------
(* The inductive invariant *)

DispatchType ==
  /\ owner \in Owners
  /\ live_cells \in Seq(Cell) /\ inputs \in Seq(Cell)
  /\ txs \in Seq(Tx)
  /\ i_out \in 0..total_outs
  /\ rest \subseteq 1..Len(txs) /\ pool \subseteq 1..Len(txs) /\ committed \subseteq 1..Len(txs)

\* what each phase has reached
PhaseInv ==
  /\ phase \in {"precheck", "send", "short"} => i_out < total_outs
  /\ phase \in {"wait", "short"} /\ i_out < total_outs => live_cells = <<>>
  /\ phase = "finished" => i_out = total_outs /\ committed = 1..Len(txs)
  /\ 1..Len(txs) \subseteq rest \cup committed

\* a cell is once in the queue or among the inputs, and was there before the
\* next transaction
CellsInv ==
  /\ Distinct(live_cells) /\ Distinct(inputs)
  /\ KeysOf(live_cells) \cap KeysOf(inputs) = {}
  /\ MadeBefore(live_cells, Len(txs) + 1) /\ MadeBefore(inputs, Len(txs) + 1)

PaysTheFee(tx) == Capacity(tx.inputs) - tx.n_outs * CapacityPerCell - tx.change >= Fee

\* what transaction t spends is spent only there
SpentInv ==
  \A t \in DOMAIN txs :
    /\ Distinct(txs[t].inputs) /\ MadeBefore(txs[t].inputs, t)
    /\ KeysOf(txs[t].inputs) \cap KeysOf(live_cells) = {}
    /\ KeysOf(txs[t].inputs) \cap KeysOf(inputs) = {}
    /\ \A u \in DOMAIN txs : t # u => KeysOf(txs[t].inputs) \cap KeysOf(txs[u].inputs) = {}
    /\ PaysTheFee(txs[t])

\* The owner's capacity is in the queue, in the inputs, in the users' cells, or
\* was paid; what is among the inputs is too little for one more user.
Balance ==
  Capacity(owner) <= Capacity(live_cells) + Capacity(inputs) + i_out * CapacityPerCell
                  + Len(txs) * (Fee + MinChange)
ValueInv ==
  /\ Capacity(inputs) < CapacityPerCell + Fee
  /\ Sum(Outs(txs)) = i_out
  /\ i_out < total_outs => Balance

Inv == DispatchType /\ PhaseInv /\ CellsInv /\ SpentInv /\ ValueInv

\* the owner's cells
LEMMA OwnersCells ==
  ASSUME owner \in Owners
  PROVE  /\ Len(owner) \in Nat /\ DOMAIN owner = 1..Len(owner)
         /\ \A k \in 1..Len(owner) : owner[k].capacity \in Nat
<1> DEFINE OwnersCell == [lock : {"type", "data", "data1"}, capacity : Nat]
<1>1. owner \in Seq(OwnersCell)
  BY OwnersAssumption
<1>2. PICK n \in Nat : n = Len(owner) /\ DOMAIN owner = 1..n /\ \A k \in 1..n : owner[k] \in OwnersCell
  <2> HIDE DEF OwnersCell
  <2> QED
    BY <1>1
<1>3. \A k \in 1..n : owner[k].capacity \in Nat
  BY <1>2
<1> QED
  BY <1>2, <1>3

LEMMA OwnerIsANumber ==
  ASSUME owner \in Owners
  PROVE  Capacity(owner) \in Int
<1>1. PICK n \in Nat : n = Len(owner) /\ DOMAIN owner = 1..n
                       /\ \A k \in 1..n : owner[k].capacity \in Int
  <2>1. PICK n \in Nat : n = Len(owner) /\ DOMAIN owner = 1..n
                         /\ \A k \in 1..n : owner[k].capacity \in Nat
    BY OwnersCells
  <2>2. \A k \in 1..n : owner[k].capacity \in Int
    BY <2>1
  <2> QED
    BY <2>1, <2>2
<1>2. Capacities(owner) \in [1..n -> Int]
  BY <1>1 DEF Capacities
<1>3. Capacities(owner) \in Seq(Int)
  BY <1>2
<1> QED
  BY <1>3, SumAppend DEF Capacity, Capacities

\* at first the queue holds what the owner has
LEMMA InitInv == Init => Inv
<1> SUFFICES ASSUME Init PROVE Inv
  OBVIOUS
<1>1. PICK n \in Nat : n = Len(owner) /\ DOMAIN owner = 1..n
                       /\ \A k \in 1..n : owner[k].capacity \in Nat
  BY OwnersCells DEF Init
<1>2. live_cells = [k \in 1..n |-> [tx |-> 0, k |-> k, capacity |-> owner[k].capacity]]
  BY <1>1 DEF Init
<1>3. \A k \in 1..n : /\ live_cells[k] = [tx |-> 0, k |-> k, capacity |-> owner[k].capacity]
                      /\ live_cells[k] \in Cell
  BY <1>1, <1>2 DEF Cell
<1>4. live_cells \in [1..n -> Cell]
  BY <1>2, <1>3
<1>5. live_cells \in Seq(Cell) /\ DOMAIN live_cells = 1..n
  BY <1>4
<1>6. Len(txs) = 0 /\ 1..Len(txs) = {} /\ txs = <<>> /\ inputs = <<>> /\ i_out = 0 /\ DOMAIN txs = {} /\ DOMAIN inputs = {}
  BY DEF Init
<1>7. DispatchType
  BY <1>5, <1>6, Amounts DEF Init, DispatchType
<1>8. PhaseInv
  BY <1>6, Amounts DEF Init, PhaseInv
<1>9. CellsInv
  <2>1. Distinct(live_cells)
    BY <1>3, <1>5 DEF Distinct, Key
  <2>2. MadeBefore(live_cells, Len(txs) + 1)
    BY <1>3, <1>5, <1>6 DEF MadeBefore
  <2>3. Distinct(inputs) /\ KeysOf(inputs) = {} /\ MadeBefore(inputs, Len(txs) + 1)
    BY <1>6 DEF Distinct, KeysOf, MadeBefore
  <2> QED
    BY <2>1, <2>2, <2>3 DEF CellsInv
<1>10. SpentInv
  BY <1>6 DEF SpentInv
<1>11. ValueInv
  <2>1. Capacity(inputs) = 0
    BY <1>6, CapacityOfNone
  <2>2. Sum(Outs(txs)) = 0
    <3>1. Outs(txs) = <<>>
      BY <1>6 DEF Outs
    <3> QED
      BY <3>1, SumOfNone
  <2>3. Capacity(live_cells) = Capacity(owner) /\ Capacity(owner) \in Int
    <3>1. \A k \in 1..n : live_cells[k].capacity = owner[k].capacity
      <4> SUFFICES ASSUME NEW k \in 1..n PROVE live_cells[k].capacity = owner[k].capacity
        OBVIOUS
      <4>1. live_cells[k] = [tx |-> 0, k |-> k, capacity |-> owner[k].capacity]
        BY <1>3
      <4> QED
        BY <4>1
    <3>2. Capacities(live_cells) = Capacities(owner)
      BY <1>1, <1>5, <3>1 DEF Capacities
    <3>3. Capacity(owner) \in Int
      BY OwnerIsANumber DEF Init
    <3> QED
      BY <3>2, <3>3 DEF Capacity, Capacities
  <2>4. 0 * CapacityPerCell = 0 /\ 0 * (Fee + MinChange) = 0
    BY Amounts, CapacityAssumption
  <2>5. Balance
    BY <1>6, <2>1, <2>3, <2>4 DEF Balance
  <2> QED
    BY <1>6, <2>1, <2>2, <2>5, Amounts, CapacityAssumption DEF ValueInv
<1> QED
  BY <1>7, <1>8, <1>9, <1>10, <1>11 DEF Inv

-----------------------------------------------------------------------------
(* Steps that leave the cells and the transactions as they are *)

\* three parts of the invariant speak of the queue and the transactions only
LEMMA OthersKeepTheCells ==
  ASSUME Inv, UNCHANGED <<owner, live_cells, inputs, i_out, txs>>
  PROVE  CellsInv' /\ SpentInv' /\ ValueInv'
<1>1. CellsInv'
  BY DEF Inv, CellsInv
<1>2. SpentInv'
  BY DEF Inv, SpentInv
<1>3. ValueInv'
  BY DEF Inv, ValueInv, Balance
<1> QED
  BY <1>1, <1>2, <1>3

LEMMA PrecheckInv ==
  ASSUME Inv, Precheck
  PROVE  Inv'
<1>1. CellsInv' /\ SpentInv' /\ ValueInv'
  BY OthersKeepTheCells DEF Precheck
<1>2. DispatchType'
  BY DEF Inv, DispatchType, Precheck, node
<1>3. phase' \in {"send", "refused"} /\ i_out < total_outs
  BY DEF Inv, PhaseInv, Precheck
<1>4. PhaseInv'
  BY <1>3 DEF Inv, PhaseInv, Precheck, node
<1> QED
  BY <1>1, <1>2, <1>4 DEF Inv

LEMMA RunOutInv ==
  ASSUME Inv, RunOut
  PROVE  Inv'
<1>1. CellsInv' /\ SpentInv' /\ ValueInv'
  BY OthersKeepTheCells DEF RunOut
<1>2. DispatchType'
  BY DEF Inv, DispatchType, RunOut, node
<1>3. PhaseInv'
  BY DEF Inv, PhaseInv, RunOut, node
<1> QED
  BY <1>1, <1>2, <1>3 DEF Inv

LEMMA PollInv ==
  ASSUME Inv, Poll
  PROVE  Inv'
<1>1. CellsInv' /\ SpentInv' /\ ValueInv'
  BY OthersKeepTheCells DEF Poll
<1>2. DispatchType'
  BY DEF Inv, DispatchType, Poll, node
<1>3. PhaseInv'
  <2>1. 1..Len(txs) \subseteq rest' \cup committed
    BY DEF Inv, PhaseInv, Poll
  <2>2. i_out \in Int /\ total_outs \in Int /\ i_out <= total_outs
    BY Amounts DEF Inv, DispatchType
  <2>3. CASE rest' # {}
    BY <2>1, <2>3 DEF Inv, PhaseInv, Poll, node
  <2>4. CASE rest' = {} /\ i_out >= total_outs
    <3>1. phase' = "finished" /\ i_out = total_outs
      BY <2>2, <2>4 DEF Poll
    <3>2. committed = 1..Len(txs)
      BY <2>1, <2>4 DEF Inv, DispatchType
    <3> QED
      BY <2>1, <3>1, <3>2 DEF PhaseInv, Poll, node
  <2>5. CASE rest' = {} /\ ~(i_out >= total_outs)
    <3>1. phase' = "short" /\ i_out < total_outs
      BY <2>2, <2>5 DEF Poll
    <3> QED
      BY <2>1, <3>1 DEF Inv, PhaseInv, Poll, node
  <2> QED
    BY <2>3, <2>4, <2>5
<1> QED
  BY <1>1, <1>2, <1>3 DEF Inv

LEMMA ResendInv ==
  ASSUME Inv, Resend
  PROVE  Inv'
<1>1. CellsInv' /\ SpentInv' /\ ValueInv'
  BY OthersKeepTheCells DEF Resend
<1>2. pool' \subseteq 1..Len(txs)
  BY ResentWereSent DEF Inv, DispatchType, Resend
<1>3. DispatchType'
  BY <1>2 DEF Inv, DispatchType, Resend
<1>4. PhaseInv'
  BY DEF Inv, PhaseInv, Resend
<1> QED
  BY <1>1, <1>3, <1>4 DEF Inv

LEMMA CommitInv ==
  ASSUME Inv, Commit
  PROVE  Inv'
<1>1. CellsInv' /\ SpentInv' /\ ValueInv'
  BY OthersKeepTheCells DEF Commit
<1>2. PICK t \in pool : committed' = committed \cup {t} /\ pool' = pool \ {t}
  BY DEF Commit
<1>3. DispatchType'
  BY <1>2 DEF Inv, DispatchType, Commit
<1>4. committed' \subseteq 1..Len(txs) /\ committed \subseteq committed'
  BY <1>2 DEF Inv, DispatchType
<1>5. PhaseInv'
  BY <1>4 DEF Inv, PhaseInv, Commit
<1> QED
  BY <1>1, <1>3, <1>5 DEF Inv

LEMMA DropInv ==
  ASSUME Inv, Drop
  PROVE  Inv'
<1>1. CellsInv' /\ SpentInv' /\ ValueInv'
  BY OthersKeepTheCells DEF Drop
<1>2. pool' \subseteq pool
  BY DEF Drop
<1>3. DispatchType'
  BY <1>2 DEF Inv, DispatchType, Drop
<1>4. PhaseInv'
  BY DEF Inv, PhaseInv, Drop
<1> QED
  BY <1>1, <1>3, <1>4 DEF Inv

-----------------------------------------------------------------------------
(* Steps that take a cell from the queue *)

\* the first cell of the queue with the inputs, and the queue without it
TakenCells == Append(inputs, Head(live_cells))
LeftCells == Tail(live_cells)

\* no cell and no capacity is lost when one is taken
LEMMA TakingKeepsTheCells ==
  ASSUME Inv, live_cells # <<>>
  PROVE  /\ TakenCells \in Seq(Cell) /\ LeftCells \in Seq(Cell)
         /\ Distinct(TakenCells) /\ Distinct(LeftCells)
         /\ KeysOf(LeftCells) \cap KeysOf(TakenCells) = {}
         /\ KeysOf(LeftCells) \subseteq KeysOf(live_cells)
         /\ KeysOf(TakenCells) \subseteq KeysOf(inputs) \cup KeysOf(live_cells)
         /\ MadeBefore(TakenCells, Len(txs) + 1) /\ MadeBefore(LeftCells, Len(txs) + 1)
         /\ Capacity(TakenCells) \in Int /\ Capacity(LeftCells) \in Int
         /\ Capacity(inputs) \in Int /\ Capacity(live_cells) \in Int
         /\ Capacity(TakenCells) + Capacity(LeftCells) = Capacity(inputs) + Capacity(live_cells)
<1>1. /\ live_cells \in Seq(Cell) /\ inputs \in Seq(Cell)
      /\ Distinct(live_cells) /\ Distinct(inputs) /\ KeysOf(live_cells) \cap KeysOf(inputs) = {}
      /\ MadeBefore(live_cells, Len(txs) + 1) /\ MadeBefore(inputs, Len(txs) + 1)
  BY DEF Inv, DispatchType, CellsInv
<1>2. /\ TakenCells \in Seq(Cell) /\ LeftCells \in Seq(Cell)
      /\ Distinct(TakenCells) /\ Distinct(LeftCells)
      /\ KeysOf(LeftCells) \cap KeysOf(TakenCells) = {}
      /\ KeysOf(LeftCells) \subseteq KeysOf(live_cells)
      /\ KeysOf(TakenCells) \subseteq KeysOf(inputs) \cup KeysOf(live_cells)
      /\ MadeBefore(TakenCells, Len(txs) + 1) /\ MadeBefore(LeftCells, Len(txs) + 1)
  BY <1>1, Taken DEF TakenCells, LeftCells
<1>3. /\ Capacity(LeftCells) \in Int /\ Head(live_cells).capacity \in Int
      /\ Capacity(live_cells) = Head(live_cells).capacity + Capacity(LeftCells)
  BY <1>1, CapacityTail DEF LeftCells
<1>4. Head(live_cells) \in Cell
  BY <1>1
<1>5. /\ Capacity(inputs) \in Int
      /\ Capacity(TakenCells) = Capacity(inputs) + Head(live_cells).capacity
  BY <1>1, <1>4, CapacityAppend DEF TakenCells
<1> QED
  BY <1>2, <1>3, <1>5

\* too little for one user: the cell stays among the inputs
LEMMA GatherInv ==
  ASSUME Inv, Gather
  PROVE  Inv'
<1>1. live_cells # <<>> /\ inputs' = TakenCells /\ live_cells' = LeftCells
      /\ (Capacity(TakenCells) - Fee) \div CapacityPerCell = 0
      /\ UNCHANGED <<owner, i_out, txs, rest, pool, committed, phase>> /\ phase = "send"
  BY DEF Gather, TakenCells, LeftCells, node
<1>2. /\ TakenCells \in Seq(Cell) /\ LeftCells \in Seq(Cell)
      /\ Distinct(TakenCells) /\ Distinct(LeftCells)
      /\ KeysOf(LeftCells) \cap KeysOf(TakenCells) = {}
      /\ KeysOf(LeftCells) \subseteq KeysOf(live_cells)
      /\ KeysOf(TakenCells) \subseteq KeysOf(inputs) \cup KeysOf(live_cells)
      /\ MadeBefore(TakenCells, Len(txs) + 1) /\ MadeBefore(LeftCells, Len(txs) + 1)
      /\ Capacity(TakenCells) \in Int /\ Capacity(LeftCells) \in Int
      /\ Capacity(inputs) \in Int /\ Capacity(live_cells) \in Int
      /\ Capacity(TakenCells) + Capacity(LeftCells) = Capacity(inputs) + Capacity(live_cells)
  BY <1>1, TakingKeepsTheCells
<1>3. DispatchType'
  BY <1>1, <1>2 DEF Inv, DispatchType
<1>4. PhaseInv'
  BY <1>1 DEF Inv, PhaseInv
<1>5. CellsInv'
  BY <1>1, <1>2 DEF CellsInv
<1>6. SpentInv'
  <2> SUFFICES ASSUME NEW t \in DOMAIN txs
               PROVE  /\ Distinct(txs[t].inputs) /\ MadeBefore(txs[t].inputs, t)
                      /\ KeysOf(txs[t].inputs) \cap KeysOf(LeftCells) = {}
                      /\ KeysOf(txs[t].inputs) \cap KeysOf(TakenCells) = {}
                      /\ \A u \in DOMAIN txs : t # u => KeysOf(txs[t].inputs) \cap KeysOf(txs[u].inputs) = {}
                      /\ PaysTheFee(txs[t])
    BY <1>1 DEF SpentInv, PaysTheFee
  <2>1. /\ Distinct(txs[t].inputs) /\ MadeBefore(txs[t].inputs, t)
        /\ KeysOf(txs[t].inputs) \cap KeysOf(live_cells) = {}
        /\ KeysOf(txs[t].inputs) \cap KeysOf(inputs) = {}
        /\ \A u \in DOMAIN txs : t # u => KeysOf(txs[t].inputs) \cap KeysOf(txs[u].inputs) = {}
        /\ PaysTheFee(txs[t])
    BY DEF Inv, SpentInv
  <2> QED
    BY <1>2, <2>1
<1>7. ValueInv'
  <2>1. Capacity(TakenCells) < CapacityPerCell + Fee
    <3>1. PICK a \in Int : a = Capacity(TakenCells) - Fee /\ a \div CapacityPerCell = 0
      BY <1>1, <1>2, Amounts
    <3>2. a < (a \div CapacityPerCell) * CapacityPerCell + CapacityPerCell
      BY CapacityAssumption, DivFacts
    <3>3. 0 * CapacityPerCell = 0
      BY CapacityAssumption
    <3> QED
      BY <1>2, <3>1, <3>2, <3>3, Amounts, CapacityAssumption
  <2>2. Balance => Balance'
    <3>1. Capacity(live_cells) + Capacity(inputs) = Capacity(LeftCells) + Capacity(TakenCells)
      BY <1>2
    <3> QED
      BY <1>1, <3>1 DEF Balance
  <2> QED
    BY <1>1, <2>1, <2>2 DEF Inv, ValueInv
<1> QED
  BY <1>3, <1>4, <1>5, <1>6, <1>7 DEF Inv

\* cells are made by numbered transactions
LEMMA MakersAreNumbers ==
  ASSUME NEW held \in Seq(Cell)
  PROVE  \A j \in DOMAIN held : held[j].tx \in Int
<1>1. PICK n \in Nat : n = Len(held) /\ DOMAIN held = 1..n
  OBVIOUS
<1>2. \A j \in 1..n : held[j] \in Cell
  BY <1>1
<1> QED
  BY <1>1, <1>2 DEF Cell

\* a cell of transaction t is not among cells that were made before
LEMMA NewKey ==
  ASSUME NEW held, NEW t \in Int, NEW u \in Int, u <= t, MadeBefore(held, u),
         \A j \in DOMAIN held : held[j].tx \in Int, NEW c, c.tx = t
  PROVE  Key(c) \notin KeysOf(held)
<1> SUFFICES ASSUME NEW j \in DOMAIN held, Key(c) = Key(held[j]) PROVE FALSE
  BY DEF KeysOf
<1>1. held[j].tx = t
  BY DEF Key
<1>2. held[j].tx < u
  BY DEF MadeBefore
<1> QED
  BY <1>1, <1>2

\* the node refuses the transaction
LEMMA PanicInv ==
  ASSUME Inv, phase' = "panicked",
         UNCHANGED <<owner, live_cells, inputs, i_out, txs, rest, pool, committed>>
  PROVE  Inv'
<1>1. CellsInv' /\ SpentInv' /\ ValueInv'
  BY OthersKeepTheCells
<1>2. DispatchType' /\ PhaseInv'
  BY DEF Inv, DispatchType, PhaseInv
<1> QED
  BY <1>1, <1>2 DEF Inv

\* what the node accepts
Sends(tx, t) ==
  /\ txs' = Append(txs, tx) /\ t = Len(txs) + 1
  /\ pool' = pool \cup {t} /\ rest' = rest \cup {t}
  /\ inputs' = <<>>
  /\ i_out' = i_out + tx.n_outs
  /\ live_cells' = IF tx.change > 0 /\ i_out' # total_outs
                   THEN Append(LeftCells, [tx |-> t, k |-> 0, capacity |-> tx.change])
                   ELSE LeftCells
  /\ phase' = IF i_out' = total_outs THEN "wait" ELSE "send"
  /\ UNCHANGED <<owner, committed>>

\* the transaction spends the inputs, and its change is a new cell
LEMMA SendsInv ==
  ASSUME Inv, phase = "send", live_cells # <<>>, NEW tx, NEW t,
         tx.inputs = TakenCells, tx \in Tx, Sends(tx, t), tx.n_outs # 0,
         i_out + tx.n_outs <= total_outs,
         NEW spent \in Int, spent = tx.n_outs * CapacityPerCell,
         NEW left \in Int, left = Capacity(TakenCells) - Fee - spent,
         tx.change <= left, left <= tx.change + MinChange
  PROVE  Inv'
<1>1. /\ TakenCells \in Seq(Cell) /\ LeftCells \in Seq(Cell)
      /\ Distinct(TakenCells) /\ Distinct(LeftCells)
      /\ KeysOf(LeftCells) \cap KeysOf(TakenCells) = {}
      /\ KeysOf(LeftCells) \subseteq KeysOf(live_cells)
      /\ KeysOf(TakenCells) \subseteq KeysOf(inputs) \cup KeysOf(live_cells)
      /\ MadeBefore(TakenCells, Len(txs) + 1) /\ MadeBefore(LeftCells, Len(txs) + 1)
      /\ Capacity(TakenCells) \in Int /\ Capacity(LeftCells) \in Int
      /\ Capacity(inputs) \in Int /\ Capacity(live_cells) \in Int
      /\ Capacity(TakenCells) + Capacity(LeftCells) = Capacity(inputs) + Capacity(live_cells)
  BY TakingKeepsTheCells
<1>2. PICK n \in Nat : n = Len(txs) /\ DOMAIN txs = 1..n
  BY DEF Inv, DispatchType
<1>3. /\ t = n + 1 /\ t \in Nat \ {0} /\ txs' \in Seq(Tx) /\ Len(txs') = t /\ DOMAIN txs' = 1..t
      /\ txs'[t] = tx /\ \A u \in 1..n : txs'[u] = txs[u]
  <2>1. txs \in Seq(Tx) /\ txs' = Append(txs, tx) /\ t = n + 1
    BY <1>2 DEF Inv, DispatchType, Sends
  <2> QED
    BY <1>2, <2>1
<1>4. /\ tx.n_outs \in Nat /\ tx.change \in Nat /\ i_out \in Nat /\ total_outs \in Nat
      /\ i_out' = i_out + tx.n_outs
  BY Amounts DEF Inv, DispatchType, Tx, Sends
<1>5. i_out' \in 0..total_outs
  BY <1>4
<1> DEFINE c == [tx |-> t, k |-> 0, capacity |-> tx.change]
<1>6. c \in Cell /\ c.tx = t /\ c.capacity = tx.change
  BY <1>3, <1>4 DEF Cell
<1>7. /\ i_out' = total_outs \/ tx.change = 0 => live_cells' = LeftCells
      /\ i_out' # total_outs /\ tx.change # 0 => live_cells' = Append(LeftCells, c)
  BY <1>4 DEF Sends
<1> HIDE DEF c
<1>8. Key(c) \notin KeysOf(LeftCells)
  <2>1. \A j \in DOMAIN LeftCells : LeftCells[j].tx \in Int
    BY <1>1, MakersAreNumbers
  <2> QED
    BY <1>1, <1>2, <1>3, <1>6, <2>1, NewKey
<1>9. /\ live_cells' \in Seq(Cell) /\ Distinct(live_cells')
      /\ KeysOf(live_cells') \subseteq KeysOf(LeftCells) \cup {Key(c)}
      /\ MadeBefore(live_cells', t + 1)
  <2>1. MadeBefore(LeftCells, t + 1) /\ c.tx < t + 1
    <3>1. \A j \in DOMAIN LeftCells : LeftCells[j].tx \in Int /\ LeftCells[j].tx < t
      <4>1. MadeBefore(LeftCells, t)
        BY <1>1, <1>2, <1>3
      <4> QED
        BY <1>1, <4>1, MakersAreNumbers DEF MadeBefore
    <3>2. t \in Int /\ \A b \in Int : b < t => b < t + 1
      BY <1>3
    <3> QED
      BY <1>6, <3>1, <3>2 DEF MadeBefore
  <2>2. CASE live_cells' = LeftCells
    BY <1>1, <2>1, <2>2
  <2>3. CASE live_cells' = Append(LeftCells, c)
    BY <1>1, <1>6, <1>8, <2>1, <2>3, Joined
  <2> QED
    BY <1>7, <2>2, <2>3
<1>10. inputs' = <<>> /\ DOMAIN inputs' = {} /\ KeysOf(inputs') = {}
  BY DEF Sends, KeysOf
<1>11. DispatchType'
  <2>1. rest' \subseteq 1..t /\ pool' \subseteq 1..t /\ committed' \subseteq 1..t
    <3>1. rest \subseteq 1..n /\ pool \subseteq 1..n /\ committed \subseteq 1..n
      BY <1>2 DEF Inv, DispatchType
    <3>2. t \in 1..t /\ 1..n \subseteq 1..t
      BY <1>3
    <3> QED
      BY <3>1, <3>2 DEF Sends
  <2>2. owner' \in Owners
    BY DEF Inv, DispatchType, Sends
  <2> QED
    BY <1>3, <1>5, <1>9, <1>10, <2>1, <2>2 DEF DispatchType
<1>12. PhaseInv'
  <2>1. 1..t \subseteq rest' \cup committed'
    BY <1>2, <1>3 DEF Inv, PhaseInv, Sends
  <2>2. i_out' # total_outs => i_out' < total_outs
    BY <1>4, <1>5
  <2>3. phase' = IF i_out' = total_outs THEN "wait" ELSE "send"
    BY DEF Sends
  <2> QED
    BY <1>3, <1>4, <2>1, <2>2, <2>3, Amounts DEF PhaseInv, total_outs
<1>13. CellsInv'
  <2>1. Distinct(inputs') /\ MadeBefore(inputs', t + 1)
    BY <1>10 DEF Distinct, MadeBefore
  <2> QED
    BY <1>3, <1>9, <1>10, <2>1 DEF CellsInv
<1>14. SpentInv'
  <2> DEFINE Apart(a, b) == KeysOf(a) \cap KeysOf(b) = {}
  <2>1. ASSUME NEW u \in 1..n
        PROVE  /\ Distinct(txs[u].inputs) /\ MadeBefore(txs[u].inputs, u)
               /\ Apart(txs[u].inputs, live_cells) /\ Apart(txs[u].inputs, inputs)
               /\ \A v \in 1..n : u # v => Apart(txs[u].inputs, txs[v].inputs)
               /\ PaysTheFee(txs[u])
               /\ txs[u].inputs \in Seq(Cell)
    <3>1. txs[u] \in Tx
      BY <1>2 DEF Inv, DispatchType
    <3>2. txs[u].inputs \in Seq(Cell)
      BY <3>1 DEF Tx
    <3> QED
      BY <1>2, <3>2 DEF Inv, SpentInv
  <2>2. ASSUME NEW u \in 1..n
        PROVE  Key(c) \notin KeysOf(txs[u].inputs)
    <3>1. txs[u].inputs \in Seq(Cell) /\ MadeBefore(txs[u].inputs, u)
      BY <2>1
    <3>2. \A j \in DOMAIN txs[u].inputs : txs[u].inputs[j].tx \in Int
      BY <3>1, MakersAreNumbers
    <3>3. u \in Int /\ t \in Int /\ u <= t
      BY <1>3
    <3> QED
      BY <1>6, <3>1, <3>2, <3>3, NewKey
  <2>3. Key(c) \notin KeysOf(TakenCells)
    <3>1. \A j \in DOMAIN TakenCells : TakenCells[j].tx \in Int
      BY <1>1, MakersAreNumbers
    <3> QED
      BY <1>1, <1>2, <1>3, <1>6, <3>1, NewKey
  <2>4. ASSUME NEW u \in 1..n
        PROVE  Apart(txs[u].inputs, TakenCells) /\ Apart(txs[u].inputs, live_cells')
    BY <1>1, <1>9, <2>1, <2>2
  <2>5. Apart(TakenCells, live_cells')
    BY <1>1, <1>9, <2>3
  <2>6. PaysTheFee(tx)
    <3>1. PICK had \in Int : had = Capacity(TakenCells)
      BY <1>1
    <3>2. Fee \in Int /\ tx.change \in Int
      BY <1>4, Amounts
    <3>3. had - spent - tx.change >= Fee
      BY <3>1, <3>2
    <3> QED
      BY <3>1, <3>3 DEF PaysTheFee
  <2>7. Distinct(tx.inputs) /\ MadeBefore(tx.inputs, t)
    BY <1>1, <1>2, <1>3
  <2> SUFFICES ASSUME NEW u \in 1..t
               PROVE  /\ Distinct(txs'[u].inputs) /\ MadeBefore(txs'[u].inputs, u)
                      /\ Apart(txs'[u].inputs, live_cells') /\ Apart(txs'[u].inputs, inputs')
                      /\ \A v \in 1..t : u # v => Apart(txs'[u].inputs, txs'[v].inputs)
                      /\ PaysTheFee(txs'[u])
    BY <1>3 DEF SpentInv, PaysTheFee
  <2>8. Apart(txs'[u].inputs, inputs')
    BY <1>10
  <2>9. \A v \in 1..t : v = t \/ v \in 1..n
    BY <1>3
  <2>10. \A a, b : Apart(a, b) => Apart(b, a)
    OBVIOUS
  <2> HIDE DEF Apart
  <2>11. CASE u = t
    BY <1>3, <2>4, <2>5, <2>6, <2>7, <2>8, <2>9, <2>10, <2>11
  <2>12. CASE u \in 1..n
    BY <1>3, <2>1, <2>4, <2>8, <2>9, <2>12
  <2> QED
    BY <2>9, <2>11, <2>12
<1>15. ValueInv'
  <2>1. Capacity(inputs') = 0
    BY <1>10, CapacityOfNone
  <2>2. Sum(Outs(txs')) = i_out'
    <3>1. txs \in Seq(Tx) /\ txs' = Append(txs, tx) /\ Sum(Outs(txs)) = i_out
      BY DEF Inv, DispatchType, ValueInv, Sends
    <3> QED
      BY <1>4, <3>1, OutsAppend
  <2>3. ASSUME i_out' < total_outs
        PROVE  Balance'
    <3>1. i_out < total_outs
      BY <1>4, <2>3
    <3>2. Balance
      BY <3>1 DEF Inv, ValueInv
    <3>3. /\ Capacity(live_cells') \in Int
          /\ Capacity(live_cells') = Capacity(LeftCells) + tx.change
      <4>1. CASE tx.change = 0
        BY <1>1, <1>7, <4>1
      <4>2. CASE tx.change # 0
        <5>1. live_cells' = Append(LeftCells, c)
          BY <1>4, <1>5, <1>7, <2>3, <4>2
        <5> QED
          <6>1. Capacity(Append(LeftCells, c)) = Capacity(LeftCells) + c.capacity
            BY <1>1, <1>6, CapacityAppend
          <6>2. Capacity(LeftCells) \in Int /\ tx.change \in Int
            BY <1>1, <1>4
          <6> QED
            BY <1>6, <5>1, <6>1, <6>2
      <4> QED
        BY <4>1, <4>2
    <3>4. PICK used \in Int : used = i_out * CapacityPerCell
      BY <1>4, CapacityAssumption
    <3>5. i_out' * CapacityPerCell = used + spent
      BY <1>4, <3>4, TimesOfSum, CapacityAssumption
    <3>6. PICK cost \in Int : cost = Fee + MinChange
      BY Amounts, CapacityAssumption
    <3>7. PICK paid \in Int : paid = n * cost
      OBVIOUS
    <3>8. t * cost = paid + cost
      <4>1. (n + 1) * cost = n * cost + 1 * cost
        BY TimesOfSum
      <4> QED
        BY <1>3, <3>7, <4>1
    <3>9. Capacity(owner) <= Capacity(live_cells) + Capacity(inputs) + used + paid
      BY <1>2, <3>2, <3>4, <3>6, <3>7 DEF Balance
    <3>10. PICK had \in Int, after \in Int, of_inputs \in Int, of_queue \in Int, of_left \in Int :
             /\ had = Capacity(TakenCells) /\ after = Capacity(live_cells')
             /\ of_inputs = Capacity(inputs) /\ of_queue = Capacity(live_cells)
             /\ of_left = Capacity(LeftCells)
      BY <1>1, <3>3
    <3>11. had + of_left = of_inputs + of_queue /\ after = of_left + tx.change
      BY <1>1, <3>3, <3>10
    <3>12. Capacity(owner) \in Int
      BY OwnerIsANumber DEF Inv, DispatchType
    <3>13. of_queue + of_inputs <= after + spent + cost
      <4>1. PICK fee \in Int, least \in Int, change \in Int :
              fee = Fee /\ least = MinChange /\ change = tx.change
        BY <1>4, Amounts, CapacityAssumption
      <4>2. left = had - fee - spent
        BY <3>10, <4>1
      <4>3. cost = fee + least /\ after = of_left + change /\ left <= change + least
        BY <3>6, <3>11, <4>1
      <4>4. had - fee - spent <= change + least
        BY <4>2, <4>3
      <4>5. had <= change + spent + cost
        BY <4>3, <4>4
      <4>6. had + of_left = of_inputs + of_queue
        BY <3>11
      <4>7. after = of_left + change
        BY <4>3
      <4>8. spent \in Int
        BY <1>4, CapacityAssumption
      <4> QED
        BY <4>5, <4>6, <4>7, <4>8, SpentCovers
    <3>14. Capacity(owner) <= of_queue + of_inputs + used + paid
      BY <3>9, <3>10
    <3>15. Capacity(owner) <= after + 0 + (used + spent) + (paid + cost)
      <4>1. PICK total \in Int, held \in Int, more \in Int :
              total = Capacity(owner) /\ held = of_queue + of_inputs /\ more = spent
        BY <1>4, <3>10, <3>12
      <4>2. held <= after + more + cost /\ total <= held + used + paid
        BY <3>13, <3>14, <4>1
      <4>3. total <= after + 0 + (used + more) + (paid + cost)
        <5>1. /\ used \in Int /\ cost \in Int /\ paid \in Int /\ after \in Int
              /\ total \in Int /\ held \in Int /\ more \in Int
          BY <3>4, <3>6, <3>7, <3>10, <4>1
        <5> QED
          BY <4>2, <5>1
      <4> QED
        BY <4>1, <4>3
    <3> QED
      BY <1>3, <2>1, <3>5, <3>6, <3>8, <3>10, <3>15 DEF Balance, Sends
  <2> QED
    BY <2>1, <2>2, <2>3, Amounts, CapacityAssumption DEF ValueInv, total_outs, Fee
<1> QED
  BY <1>11, <1>12, <1>13, <1>14, <1>15 DEF Inv

LEMMA SendInv ==
  ASSUME Inv, Send
  PROVE  Inv'
<1> DEFINE outputs_capacity == Capacity(TakenCells) - Fee
           n_outs == Outputs(outputs_capacity)
           left == outputs_capacity - n_outs * CapacityPerCell
           tx == [inputs |-> TakenCells, n_outs |-> n_outs, change |-> Change(left)]
<1>1. /\ phase = "send" /\ live_cells # <<>> /\ outputs_capacity \div CapacityPerCell > 0
      /\ UNCHANGED <<owner, committed>>
      /\ \/ Sends(tx, Len(txs) + 1)
         \/ phase' = "panicked" /\ UNCHANGED <<live_cells, inputs, i_out, txs, rest, pool>>
  BY DEF Send, Sends, TakenCells, LeftCells
<1>2. TakenCells \in Seq(Cell) /\ Capacity(TakenCells) \in Int
  BY <1>1, TakingKeepsTheCells
<1>3. outputs_capacity \in Int
  BY <1>2, Amounts
<1>4. i_out \in Nat /\ i_out < total_outs
  BY <1>1 DEF Inv, DispatchType, PhaseInv
<1>5. /\ n_outs \in Nat \ {0} /\ i_out + n_outs <= total_outs
      /\ n_outs * CapacityPerCell \in Int
      /\ Change(left) \in Nat /\ Change(left) <= left /\ left <= Change(left) + MinChange
  BY <1>1, <1>3, <1>4, OutputsFacts
<1>6. CASE Sends(tx, Len(txs) + 1)
  <2>1. tx \in Tx /\ tx.inputs = TakenCells /\ tx.n_outs = n_outs /\ tx.change = Change(left)
    BY <1>2, <1>5 DEF Tx
  <2>2. left \in Int /\ left = Capacity(TakenCells) - Fee - n_outs * CapacityPerCell
    BY <1>3, <1>5
  <2> HIDE DEF tx, left, n_outs
  <2> QED
    BY <1>1, <1>5, <1>6, <2>1, <2>2, SendsInv
<1>7. CASE phase' = "panicked" /\ UNCHANGED <<live_cells, inputs, i_out, txs, rest, pool>>
  BY <1>1, <1>7, PanicInv
<1> QED
  BY <1>1, <1>6, <1>7

-----------------------------------------------------------------------------
(* Theorems *)

LEMMA NextInv == Inv /\ [Next]_vars => Inv'
<1> SUFFICES ASSUME Inv, [Next]_vars PROVE Inv'
  OBVIOUS
<1>1. CASE Precheck
  BY <1>1, PrecheckInv
<1>2. CASE Gather
  BY <1>2, GatherInv
<1>3. CASE Send
  BY <1>3, SendInv
<1>4. CASE RunOut
  BY <1>4, RunOutInv
<1>5. CASE Poll
  BY <1>5, PollInv
<1>6. CASE Resend
  BY <1>6, ResendInv
<1>7. CASE Commit
  BY <1>7, CommitInv
<1>8. CASE Drop
  BY <1>8, DropInv
<1>9. CASE UNCHANGED vars
  <2>1. CellsInv' /\ SpentInv' /\ ValueInv'
    BY <1>9, OthersKeepTheCells DEF vars
  <2>2. DispatchType' /\ PhaseInv'
    BY <1>9 DEF Inv, DispatchType, PhaseInv, vars
  <2> QED
    BY <2>1, <2>2 DEF Inv
<1> QED
  BY <1>1, <1>2, <1>3, <1>4, <1>5, <1>6, <1>7, <1>8, <1>9 DEF Next

\* The queue holds each unspent cell of the owner once, whatever the owner
\* starts with and however the node commits and drops: the inductive invariant
\* of the dispatch loop (prepare.rs, dispatch).
THEOREM DispatchInvariant == Spec => []Inv
BY InitInv, NextInv, PTL DEF Spec

\* For every owner, every number of users and every MAX_OUT_COUNT, no cell is
\* spent by two transactions, a transaction spends what is there before it, and
\* it pays the fee (prepare.rs: inputs are popped from live_cells, the change is
\* pushed back).
THEOREM SpendsEachCellOnceHolds == Spec => []SpendsEachCellOnce
<1>1. Inv => SpendsEachCellOnce
  <2> SUFFICES ASSUME Inv, NEW t \in DOMAIN txs
               PROVE  /\ \A u \in DOMAIN txs : t # u => Spent(t) \cap Spent(u) = {}
                      /\ \A c \in ToSet(txs[t].inputs) : c.tx < t
                      /\ \A j, k \in DOMAIN txs[t].inputs : txs[t].inputs[j] = txs[t].inputs[k] => j = k
                      /\ Capacity(txs[t].inputs) - txs[t].n_outs * CapacityPerCell - txs[t].change >= Fee
    BY DEF SpendsEachCellOnce
  <2>1. /\ Distinct(txs[t].inputs) /\ MadeBefore(txs[t].inputs, t) /\ PaysTheFee(txs[t])
        /\ \A u \in DOMAIN txs : t # u => KeysOf(txs[t].inputs) \cap KeysOf(txs[u].inputs) = {}
    BY DEF Inv, SpentInv
  <2>2. \A u \in DOMAIN txs : t # u => Spent(t) \cap Spent(u) = {}
    BY <2>1, SpentKeys
  <2>3. \A c \in ToSet(txs[t].inputs) : c.tx < t
    BY <2>1 DEF MadeBefore, ToSet
  <2>4. ASSUME NEW j \in DOMAIN txs[t].inputs, NEW k \in DOMAIN txs[t].inputs,
               txs[t].inputs[j] = txs[t].inputs[k]
        PROVE  j = k
    <3>1. Key(txs[t].inputs[j]) = Key(txs[t].inputs[k])
      BY <2>4
    <3> QED
      BY <2>1, <3>1 DEF Distinct
  <2> QED
    BY <2>1, <2>2, <2>3, <2>4 DEF PaysTheFee
<1> QED
  BY <1>1, DispatchInvariant, PTL

\* For every instance, the users have as many cells as were counted, never more
\* than they are to get, and all of them in the chain when dispatch ends well
\* (prepare.rs: the wait for every transaction and the assertion after it).
THEOREM UsersGetTheirCellsHolds == Spec => []UsersGetTheirCells
<1>1. Inv => UsersGetTheirCells
  <2> SUFFICES ASSUME Inv PROVE UsersGetTheirCells
    OBVIOUS
  <2>1. Sum([t \in DOMAIN txs |-> txs[t].n_outs]) = i_out
    BY DEF Inv, ValueInv, Outs
  <2>2. i_out <= total_outs
    BY Amounts DEF Inv, DispatchType
  <2>3. phase = "finished" => i_out = total_outs /\ committed = DOMAIN txs
    BY DEF Inv, DispatchType, PhaseInv
  <2> QED
    BY <2>1, <2>2, <2>3 DEF UsersGetTheirCells
<1> QED
  BY <1>1, DispatchInvariant, PTL

\* For every instance, when the last assertion fails the owner had less than
\* the users' cells, a fee of MAX_OUT_COUNT outputs for one transaction more
\* than were sent, and a change too small for a cell for each one sent
\* (prepare.rs: the first assertion counts one fee per output only).
THEOREM ShortOnlyByFeesHolds == Spec => []ShortOnlyByFees
<1>1. Inv => ShortOnlyByFees
  <2> SUFFICES ASSUME Inv, phase = "short"
               PROVE  Capacity(owner) < total_outs * CapacityPerCell
                                     + (Len(txs) + 1) * Fee + Len(txs) * MinChange
    BY DEF ShortOnlyByFees
  <2>1. i_out < total_outs /\ live_cells = <<>>
    BY DEF Inv, PhaseInv
  <2>2. Balance /\ Capacity(inputs) < CapacityPerCell + Fee
    BY <2>1 DEF Inv, ValueInv
  <2>3. Capacity(live_cells) = 0
    BY <2>1, CapacityOfNone
  <2>4. PICK total \in Nat, fee \in Nat, least \in Nat, each \in Nat \ {0}, n \in Nat, had \in Int :
          /\ total = total_outs /\ fee = Fee /\ least = MinChange
          /\ each = CapacityPerCell /\ n = Len(txs) /\ had = Capacity(owner)
    <3>1. total_outs \in Nat /\ Fee \in Nat
      BY Amounts
    <3>2. MinChange \in Nat /\ CapacityPerCell \in Nat \ {0}
      BY CapacityAssumption
    <3>3. Capacity(owner) \in Int
      BY OwnerIsANumber DEF Inv, DispatchType
    <3>4. Len(txs) \in Nat
      BY DEF Inv, DispatchType
    <3> QED
      BY <3>1, <3>2, <3>3, <3>4
  <2>5. PICK sent \in Nat : sent = i_out
    BY DEF Inv, DispatchType
  <2>6. PICK of_inputs \in Int : of_inputs = Capacity(inputs)
    BY CapacityIsANumber DEF Inv, DispatchType
  <2>7. had <= 0 + of_inputs + sent * each + n * (fee + least)
    BY <2>2, <2>3, <2>4, <2>5, <2>6 DEF Balance
  <2>8. of_inputs < each + fee /\ sent + 1 <= total
    BY <2>1, <2>2, <2>4, <2>5, <2>6
  <2>9. PICK a \in Int, b \in Int, p \in Int, q \in Int, r \in Int :
          a = sent * each /\ b = total * each /\ p = n * fee /\ q = n * least /\ r = n * (fee + least)
    OBVIOUS
  <2>10. a + each <= b
    <3>1. (sent + 1) * each = sent * each + 1 * each
      BY TimesOfSum
    <3>2. (sent + 1) * each <= total * each
      BY <2>8, TimesOfFewer
    <3> QED
      BY <2>9, <3>1, <3>2
  <2>11. r = p + q
    <3>1. (fee + least) * n = fee * n + least * n
      BY TimesOfSum
    <3>2. n * (fee + least) = (fee + least) * n /\ n * fee = fee * n /\ n * least = least * n
      OBVIOUS
    <3> QED
      BY <2>9, <3>1, <3>2
  <2>12. (n + 1) * fee = p + fee
    <3>1. (n + 1) * fee = n * fee + 1 * fee
      BY TimesOfSum
    <3> QED
      BY <2>9, <3>1
  <2>13. had < b + (p + fee) + q
    BY <2>7, <2>8, <2>9, <2>10, <2>11
  <2> QED
    BY <2>4, <2>9, <2>12, <2>13
<1> QED
  BY <1>1, DispatchInvariant, PTL

-----------------------------------------------------------------------------
(* What the node refuses *)

\* a cell of the owner, or the change of a transaction that was sent
Made(c) ==
  \/ c.tx = 0 /\ c.k \in DOMAIN owner
  \/ c.tx \in 1..Len(txs) /\ txs[c.tx].change > 0
AllMade(held) == \A j \in DOMAIN held : Made(held[j])

\* Without drops all that was sent is in the pool or the chain, and what dispatch holds
\* has one of the locks in play.
AcceptedInv ==
  /\ drops \in Nat
  /\ phase \in {"precheck", "send"} /\ drops = 0 => 1..Len(txs) \subseteq pool \cup committed
  /\ AllMade(live_cells) /\ AllMade(inputs)
  /\ PanicsOnlyAfterDropOrMix

\* the lock of a cell is in play
LEMMA LockInPlay ==
  ASSUME Inv, NEW c, Made(c)
  PROVE  LockOf(c) \in LocksInPlay
<1>1. CASE c.tx = 0 /\ c.k \in DOMAIN owner
  BY <1>1 DEF LockOf, LocksInPlay
<1>2. CASE c.tx \in 1..Len(txs) /\ txs[c.tx].change > 0
  <2>1. DOMAIN txs = 1..Len(txs) /\ c.tx # 0
    BY <1>2 DEF Inv, DispatchType
  <2> QED
    BY <1>2, <2>1 DEF LockOf, LocksInPlay
<1> QED
  BY <1>1, <1>2 DEF Made

\* taking a cell leaves cells
LEMMA TakingKeepsThemMade ==
  ASSUME Inv, live_cells # <<>>, AllMade(live_cells), AllMade(inputs)
  PROVE  AllMade(TakenCells) /\ AllMade(LeftCells)
<1>1. PICK h \in Seq(Cell), q \in Seq(Cell) : h = inputs /\ q = live_cells
  BY DEF Inv, DispatchType
<1>2. PICK m \in Nat, n \in Nat :
        /\ m = Len(h) /\ DOMAIN h = 1..m /\ n = Len(q) /\ DOMAIN q = 1..n /\ n # 0
  BY <1>1
<1>3. Head(q) = q[1] /\ 1 \in 1..n
  BY <1>1, <1>2
<1>4. /\ DOMAIN Append(h, Head(q)) = 1..m + 1 /\ Append(h, Head(q))[m + 1] = Head(q)
      /\ \A j \in 1..m : Append(h, Head(q))[j] = h[j]
  BY <1>2, <1>3
<1>5. AllMade(Append(h, Head(q)))
  <2> SUFFICES ASSUME NEW j \in 1..m + 1 PROVE Made(Append(h, Head(q))[j])
    BY <1>4 DEF AllMade
  <2>1. j \in 1..m \/ j = m + 1
    OBVIOUS
  <2> QED
    BY <1>1, <1>2, <1>3, <1>4, <2>1 DEF AllMade
<1>6. /\ DOMAIN Tail(q) = 1..n - 1 /\ \A j \in 1..n - 1 : Tail(q)[j] = q[j + 1] /\ j + 1 \in 1..n
  BY <1>1, <1>2
<1>7. AllMade(Tail(q))
  BY <1>1, <1>2, <1>6 DEF AllMade
<1> QED
  BY <1>1, <1>5, <1>7 DEF TakenCells, LeftCells

\* a refusal has one of the two reasons
LEMMA RefusedFor ==
  ASSUME Inv, AcceptedInv, phase = "send", live_cells # <<>>, ~Accepts(TakenCells)
  PROVE  drops > 0 \/ \E a, b \in LocksInPlay : a # b
<1>1. AllMade(TakenCells)
  BY TakingKeepsThemMade DEF AcceptedInv
<1>2. CASE ~({c.tx : c \in ToSet(TakenCells)} \subseteq {0} \cup pool \cup committed)
  <2>1. PICK j \in DOMAIN TakenCells : TakenCells[j].tx \notin {0} \cup pool \cup committed
    BY <1>2 DEF ToSet
  <2>2. TakenCells[j].tx \in 1..Len(txs)
    BY <1>1, <2>1 DEF AllMade, Made
  <2> QED
    BY <2>1, <2>2 DEF AcceptedInv
<1>3. CASE ~\A j, k \in DOMAIN TakenCells : LockOf(TakenCells[j]) = LockOf(TakenCells[k])
  <2>1. PICK j \in DOMAIN TakenCells, k \in DOMAIN TakenCells :
          LockOf(TakenCells[j]) # LockOf(TakenCells[k])
    BY <1>3
  <2>2. LockOf(TakenCells[j]) \in LocksInPlay /\ LockOf(TakenCells[k]) \in LocksInPlay
    BY <1>1, LockInPlay DEF AllMade
  <2> QED
    BY <2>1, <2>2
<1> QED
  BY <1>2, <1>3 DEF Accepts

\* steps that leave the cells, the transactions and the panic as they are
LEMMA OthersKeepAccepted ==
  ASSUME AcceptedInv, UNCHANGED <<owner, live_cells, inputs, txs>>,
         drops' \in Nat, phase' = "panicked" => phase = "panicked", drops' = 0 => drops = 0,
         phase' \in {"precheck", "send"} /\ drops' = 0 =>
           phase \in {"precheck", "send"} /\ pool \cup committed \subseteq pool' \cup committed'
  PROVE  AcceptedInv'
<1>1. AllMade(live_cells)' /\ AllMade(inputs)'
  BY DEF AcceptedInv, AllMade, Made
<1>2. PanicsOnlyAfterDropOrMix'
  BY DEF AcceptedInv, PanicsOnlyAfterDropOrMix, LocksInPlay
<1> QED
  BY <1>1, <1>2 DEF AcceptedInv

\* the transaction is sent, with its change
LEMMA SendsAccepted ==
  ASSUME Inv, AcceptedInv, phase = "send", live_cells # <<>>, NEW tx \in Tx, NEW t,
         Sends(tx, t), UNCHANGED drops
  PROVE  AcceptedInv'
<1>1. AllMade(LeftCells)
  BY TakingKeepsThemMade DEF AcceptedInv
<1>2. PICK n \in Nat : n = Len(txs) /\ DOMAIN txs = 1..n
  BY DEF Inv, DispatchType
<1>3. /\ t = n + 1 /\ Len(txs') = n + 1 /\ DOMAIN txs' = 1..n + 1
      /\ txs'[n + 1] = tx /\ \A u \in 1..n : txs'[u] = txs[u]
  <2>1. txs \in Seq(Tx) /\ txs' = Append(txs, tx) /\ t = n + 1
    BY <1>2 DEF Inv, DispatchType, Sends
  <2> QED
    BY <1>2, <2>1
<1>4. 1..n + 1 = 1..n \cup {n + 1}
  OBVIOUS
<1>5. ASSUME NEW c, Made(c) PROVE Made(c)'
  BY <1>2, <1>3, <1>4, <1>5 DEF Made, Sends
<1>6. phase' \in {"wait", "send"} /\ (drops' = 0 => 1..n + 1 \subseteq pool' \cup committed')
  <2>1. phase' \in {"wait", "send"}
    BY DEF Sends
  <2>2. drops = 0 => 1..n \subseteq pool \cup committed
    BY <1>2 DEF AcceptedInv
  <2>3. pool' = pool \cup {n + 1} /\ committed' = committed
    BY <1>3 DEF Sends
  <2> QED
    BY <1>4, <2>1, <2>2, <2>3
<1>. PICK c : c = [tx |-> t, k |-> 0, capacity |-> tx.change]
  OBVIOUS
<1>7. PICK q \in Seq(Cell) :
        /\ q = LeftCells /\ c = [tx |-> t, k |-> 0, capacity |-> tx.change]
        /\ live_cells' = IF tx.change > 0 /\ i_out' # total_outs THEN Append(q, c) ELSE q
  BY TakingKeepsTheCells DEF Sends
<1>8. \A j \in DOMAIN q : Made(q[j])'
  <2>1. \A j \in DOMAIN q : Made(q[j])
    BY <1>1, <1>7 DEF AllMade
  <2> QED
    BY <1>5, <2>1
<1>9. AllMade(live_cells)'
  <2>1. CASE live_cells' = q
    BY <1>8, <2>1 DEF AllMade
  <2>2. CASE tx.change > 0 /\ live_cells' = Append(q, c)
    <3>1. Made(c)'
      <4>1. c.tx = n + 1 /\ n + 1 \in 1..n + 1
        BY <1>3, <1>7
      <4> QED
        BY <1>3, <2>2, <4>1 DEF Made
    <3>2. PICK m \in Nat : m = Len(q) /\ DOMAIN q = 1..m
      OBVIOUS
    <3>3. /\ DOMAIN Append(q, c) = 1..m + 1 /\ Append(q, c)[m + 1] = c
          /\ \A j \in 1..m : Append(q, c)[j] = q[j]
      BY <3>2
    <3>4. \A j \in 1..m + 1 : j \in 1..m \/ j = m + 1
      OBVIOUS
    <3> QED
      BY <1>8, <2>2, <3>1, <3>2, <3>3, <3>4 DEF AllMade
  <2> QED
    BY <1>7, <2>1, <2>2
<1>10. AllMade(inputs)'
  BY DEF AllMade, Sends
<1>11. PanicsOnlyAfterDropOrMix'
  BY <1>6 DEF PanicsOnlyAfterDropOrMix
<1>12. drops' \in Nat /\ (drops' = 0 => 1..Len(txs') \subseteq pool' \cup committed')
  BY <1>3, <1>6 DEF AcceptedInv
<1> QED
  BY <1>9, <1>10, <1>11, <1>12 DEF AcceptedInv

LEMMA SendKeepsAccepted ==
  ASSUME Inv, AcceptedInv, Send
  PROVE  AcceptedInv'
<1> DEFINE outputs_capacity == Capacity(TakenCells) - Fee
           n_outs == Outputs(outputs_capacity)
           left == outputs_capacity - n_outs * CapacityPerCell
           tx == [inputs |-> TakenCells, n_outs |-> n_outs, change |-> Change(left)]
<1>1. /\ phase = "send" /\ live_cells # <<>> /\ outputs_capacity \div CapacityPerCell > 0
      /\ UNCHANGED <<owner, committed, drops>>
      /\ \/ Sends(tx, Len(txs) + 1)
         \/ /\ ~Accepts(TakenCells) /\ phase' = "panicked"
            /\ UNCHANGED <<live_cells, inputs, txs, pool>>
  BY DEF Send, Sends, TakenCells, LeftCells
<1>2. CASE Sends(tx, Len(txs) + 1)
  <2>1. TakenCells \in Seq(Cell) /\ outputs_capacity \in Int
    BY <1>1, TakingKeepsTheCells, Amounts
  <2>2. i_out \in Nat /\ i_out < total_outs
    BY <1>1 DEF Inv, DispatchType, PhaseInv
  <2>3. n_outs \in Nat /\ Change(left) \in Nat
    BY <1>1, <2>1, <2>2, OutputsFacts
  <2>4. tx \in Tx
    BY <2>1, <2>3 DEF Tx
  <2> HIDE DEF tx
  <2> QED
    BY <1>1, <1>2, <2>4, SendsAccepted
<1>3. CASE /\ ~Accepts(TakenCells) /\ phase' = "panicked"
           /\ UNCHANGED <<live_cells, inputs, txs, pool>>
  <2>1. drops > 0 \/ \E a, b \in LocksInPlay : a # b
    BY <1>1, <1>3, RefusedFor
  <2>2. PanicsOnlyAfterDropOrMix'
    BY <1>1, <1>3, <2>1 DEF PanicsOnlyAfterDropOrMix, LocksInPlay
  <2>3. AllMade(live_cells)' /\ AllMade(inputs)'
    BY <1>1, <1>3 DEF AcceptedInv, AllMade, Made
  <2> QED
    BY <1>1, <1>3, <2>2, <2>3 DEF AcceptedInv
<1> QED
  BY <1>1, <1>2, <1>3

LEMMA GatherKeepsAccepted ==
  ASSUME Inv, AcceptedInv, Gather
  PROVE  AcceptedInv'
<1>1. /\ live_cells # <<>> /\ inputs' = TakenCells /\ live_cells' = LeftCells
      /\ phase = "send" /\ UNCHANGED <<owner, txs, pool, committed, drops, phase>>
  BY DEF Gather, TakenCells, LeftCells, node
<1>2. AllMade(TakenCells) /\ AllMade(LeftCells)
  BY <1>1, TakingKeepsThemMade DEF AcceptedInv
<1>3. AllMade(live_cells)' /\ AllMade(inputs)'
  BY <1>1, <1>2 DEF AllMade, Made
<1> QED
  BY <1>1, <1>3 DEF AcceptedInv, PanicsOnlyAfterDropOrMix

LEMMA InitAccepted == Init => AcceptedInv
<1> SUFFICES ASSUME Init PROVE AcceptedInv
  OBVIOUS
<1>1. Len(txs) = 0 /\ 1..0 = {} /\ DOMAIN inputs = {}
  BY DEF Init
<1>2. AllMade(live_cells) /\ AllMade(inputs)
  BY <1>1 DEF Init, AllMade, Made
<1> QED
  BY <1>1, <1>2 DEF Init, AcceptedInv, PanicsOnlyAfterDropOrMix

LEMMA NextKeepsAccepted == Inv /\ AcceptedInv /\ [Next]_vars => AcceptedInv'
<1> SUFFICES ASSUME Inv, AcceptedInv, [Next]_vars PROVE AcceptedInv'
  OBVIOUS
<1>1. drops \in Nat
  BY DEF AcceptedInv
<1>2. CASE Precheck
  <2>1. phase = "precheck" /\ phase' # "panicked" /\ UNCHANGED <<owner, live_cells, inputs, txs, node>>
    BY <1>2 DEF Precheck
  <2> QED
    BY <1>1, <2>1, OthersKeepAccepted DEF node
<1>3. CASE RunOut
  BY <1>1, <1>3, OthersKeepAccepted DEF RunOut, node
<1>4. CASE Poll
  <2>1. phase' \notin {"precheck", "send", "panicked"} /\ UNCHANGED <<owner, live_cells, inputs, txs, node>>
    BY <1>4 DEF Poll
  <2> QED
    BY <1>1, <2>1, OthersKeepAccepted DEF node
<1>5. CASE Resend
  BY <1>1, <1>5, OthersKeepAccepted DEF Resend
<1>6. CASE Commit
  <2>1. /\ pool \cup committed \subseteq pool' \cup committed'
        /\ UNCHANGED <<owner, live_cells, inputs, txs, drops, phase>>
    BY <1>6 DEF Commit
  <2> QED
    BY <1>1, <2>1, OthersKeepAccepted
<1>7. CASE Drop
  <2>1. drops' = drops + 1 /\ UNCHANGED <<owner, live_cells, inputs, txs, phase>>
    BY <1>7 DEF Drop
  <2>2. drops' \in Nat /\ drops' # 0
    BY <1>1, <2>1
  <2> QED
    BY <2>1, <2>2, OthersKeepAccepted
<1>8. CASE UNCHANGED vars
  BY <1>1, <1>8, OthersKeepAccepted DEF vars
<1> QED
  BY <1>2, <1>3, <1>4, <1>5, <1>6, <1>7, <1>8, GatherKeepsAccepted, SendKeepsAccepted DEF Next

\* For every owner, every number of users and every MAX_OUT_COUNT, the assertion that
\* each transaction is accepted (prepare.rs:127-132, dispatch) fails only after the pool
\* dropped something, or where two locks could come together in the inputs.
THEOREM PanicsOnlyAfterDropOrMixHolds == Spec => []PanicsOnlyAfterDropOrMix
<1>1. Spec => [](Inv /\ AcceptedInv)
  BY InitInv, NextInv, InitAccepted, NextKeepsAccepted, PTL DEF Spec
<1>2. AcceptedInv => PanicsOnlyAfterDropOrMix
  BY DEF AcceptedInv
<1> QED
  BY <1>1, <1>2, PTL

-----------------------------------------------------------------------------
(* Collect: sequences of sequences *)

\* the first m of the sequences q, joined from the first on
Joins(f, q, m) == f = [i \in 1..m |-> IF i = 1 THEN q[i] ELSE f[i - 1] \o q[i]]

\* FlattenSeq chooses such a function: there is one
LEMMA JoinsExist ==
  ASSUME NEW q, NEW n \in Nat
  PROVE  \E f : Joins(f, q, n)
<1> DEFINE T == {m \in Nat : ~\E f : Joins(f, q, m)}
<1> SUFFICES ASSUME T # {} PROVE FALSE
  OBVIOUS
<1>1. PICK m \in T : \A k \in T : m <= k
  <2> HIDE DEF T
  <2>1. T \in SUBSET Nat
    BY DEF T
  <2> QED
    BY <2>1, LeastNumber
<1>2. CASE m = 0
  <2>1. Joins([i \in 1..0 |-> 0], q, 0)
    BY DEF Joins
  <2> QED
    BY <1>2, <2>1
<1>3. CASE m # 0
  <2>1. m - 1 \in Nat /\ m - 1 \notin T
    BY <1>1, <1>3
  <2>2. PICK f : Joins(f, q, m - 1)
    BY <2>1
  <2> DEFINE g == [i \in 1..m |-> IF i = m THEN (IF m = 1 THEN q[1] ELSE f[m - 1] \o q[m]) ELSE f[i]]
  <2>3. \A i \in 1..m : g[i] = IF i = 1 THEN q[i] ELSE g[i - 1] \o q[i]
    <3> SUFFICES ASSUME NEW i \in 1..m PROVE g[i] = IF i = 1 THEN q[i] ELSE g[i - 1] \o q[i]
      OBVIOUS
    <3>1. m \in Nat /\ i \in Nat
      OBVIOUS
    <3>2. CASE i = m /\ m = 1
      BY <3>1, <3>2
    <3>3. CASE i = m /\ m # 1
      <4>1. i - 1 \in 1..m /\ i - 1 # m
        BY <1>3, <3>1, <3>3
      <4>2. g[i - 1] = f[i - 1]
        BY <4>1
      <4> QED
        BY <3>3, <4>2
    <3>4. CASE i # m
      <4>1. i \in 1..(m - 1) /\ g[i] = f[i]
        BY <3>1, <3>4
      <4>2. f[i] = IF i = 1 THEN q[i] ELSE f[i - 1] \o q[i]
        BY <2>2, <4>1 DEF Joins
      <4>3. i # 1 => i - 1 \in 1..m /\ i - 1 # m
        BY <3>1
      <4>4. i # 1 => g[i - 1] = f[i - 1]
        BY <4>3
      <4> QED
        BY <4>1, <4>2, <4>4
    <3> QED
      BY <3>2, <3>3, <3>4
  <2>4. Joins(g, q, m)
    <3>1. g = [i \in 1..m |-> g[i]]
      OBVIOUS
    <3> HIDE DEF g
    <3> QED
      BY <2>3, <3>1 DEF Joins
  <2> QED
    BY <2>4
<1> QED
  BY <1>2, <1>3

\* one sequence more
LEMMA FlattenOneMore ==
  ASSUME NEW S, NEW n \in Nat, NEW q \in [1..(n + 1) -> Seq(S)]
  PROVE  /\ FlattenSeq(q) \in Seq(S)
         /\ FlattenSeq(q) = FlattenSeq([k \in 1..n |-> q[k]]) \o q[n + 1]
<1> DEFINE p == [k \in 1..n |-> q[k]]
<1>1. n + 1 \in Nat /\ n + 1 # 0 /\ n + 1 \in 1..(n + 1) /\ \A k \in 1..n : k \in 1..(n + 1) /\ k # n + 1
  OBVIOUS
<1>2. /\ q \in Seq(Seq(S)) /\ Len(q) = n + 1
      /\ p \in Seq(Seq(S)) /\ Len(p) = n
  <2>1. p \in [1..n -> Seq(S)]
    BY <1>1
  <2> QED
    BY <1>1, <2>1, IsASeq, LenProperties
<1> DEFINE flatten(r) == CHOOSE g : g = [i \in 1..Len(r) |-> IF i = 1 THEN r[i] ELSE g[i - 1] \o r[i]]
<1> DEFINE f == flatten(q)
           g == flatten(p)
<1>3. Joins(f, q, n + 1) /\ FlattenSeq(q) = f[n + 1]
  <2>1. PICK h : Joins(h, q, n + 1)
    BY <1>1, JoinsExist
  <2>2. Joins(f, q, n + 1)
    BY <1>2, <2>1 DEF Joins
  <2>3. FlattenSeq(q) = f[n + 1]
    BY <1>1, <1>2 DEF FlattenSeq
  <2> QED
    BY <2>2, <2>3
<1>4. Joins(g, p, n) /\ (n # 0 => FlattenSeq(p) = g[n])
  <2>1. PICK h : Joins(h, p, n)
    BY <1>1, JoinsExist
  <2>2. Joins(g, p, n)
    <3> HIDE DEF p
    <3> QED
      BY <1>2, <2>1 DEF Joins
  <2>3. n # 0 => FlattenSeq(p) = g[n]
    <3> HIDE DEF p
    <3> QED
      BY <1>1, <1>2 DEF FlattenSeq
  <2> QED
    BY <2>2, <2>3
<1>5. \A k \in 1..n : p[k] = q[k]
  OBVIOUS
<1>6. n = 0 => FlattenSeq(p) = <<>>
  <2> SUFFICES ASSUME n = 0 PROVE FlattenSeq(p) = <<>>
    OBVIOUS
  <2>1. p = <<>>
    BY <1>2
  <2> QED
    BY <1>2, <2>1 DEF FlattenSeq
<1> HIDE DEF f, g, p
<1> DEFINE T == {m \in 1..(n + 1) : ~(f[m] \in Seq(S) /\ (m # n + 1 => f[m] = g[m]))}
<1>7. T = {}
  <2> SUFFICES ASSUME T # {} PROVE FALSE
    OBVIOUS
  <2>1. PICK m \in T : \A k \in T : m <= k
    <3> HIDE DEF T
    <3>1. T \in SUBSET Nat
      BY DEF T
    <3> QED
      BY <3>1, LeastNumber
  <2>2. f[m] = IF m = 1 THEN q[m] ELSE f[m - 1] \o q[m]
    BY <1>3 DEF Joins
  <2>3. m # n + 1 => m \in 1..n
    OBVIOUS
  <2>4. m # n + 1 => g[m] = IF m = 1 THEN p[m] ELSE g[m - 1] \o p[m]
    BY <1>4, <2>3 DEF Joins
  <2>5. CASE m = 1
    BY <1>5, <2>2, <2>3, <2>4, <2>5
  <2>6. CASE m # 1
    <3>1. m - 1 \in 1..(n + 1) /\ m - 1 # n + 1 /\ m - 1 \notin T
      <4>1. m \in 1..(n + 1)
        OBVIOUS
      <4> HIDE DEF T
      <4>2. m - 1 \in 1..(n + 1) /\ m - 1 # n + 1 /\ ~(m <= m - 1)
        BY <2>6, <4>1
      <4> QED
        BY <2>1, <4>2
    <3>2. f[m - 1] \in Seq(S) /\ f[m - 1] = g[m - 1] /\ q[m] \in Seq(S)
      BY <3>1
    <3>3. f[m - 1] \o q[m] \in Seq(S)
      BY <3>2, ConcatProperties
    <3> QED
      BY <1>5, <2>2, <2>3, <2>4, <2>6, <3>2, <3>3
  <2> QED
    BY <2>5, <2>6
<1>8. f[n + 1] \in Seq(S)
  BY <1>1, <1>7
<1>9. n # 0 => f[n] = g[n]
  <2> SUFFICES ASSUME n # 0 PROVE f[n] = g[n]
    OBVIOUS
  <2>1. n \in 1..(n + 1) /\ n # n + 1
    OBVIOUS
  <2>2. n \notin T
    BY <1>7 DEF T
  <2> QED
    BY <2>1, <2>2
<1>10. f[n + 1] = IF n = 0 THEN q[n + 1] ELSE f[n] \o q[n + 1]
  <2>1. n + 1 = 1 <=> n = 0
    OBVIOUS
  <2>2. n + 1 - 1 = n
    OBVIOUS
  <2>3. f[n + 1] = IF n + 1 = 1 THEN q[n + 1] ELSE f[n + 1 - 1] \o q[n + 1]
    <3>1. PICK m \in 1..(n + 1) : m = n + 1
      BY <1>1
    <3>2. f[m] = IF m = 1 THEN q[m] ELSE f[m - 1] \o q[m]
      BY <1>3, <3>1 DEF Joins
    <3> QED
      BY <3>1, <3>2
  <2> QED
    BY <2>1, <2>2, <2>3
<1>11. FlattenSeq(q) = FlattenSeq(p) \o q[n + 1]
  <2>1. CASE n = 0
    <3>1. q[n + 1] \in Seq(S)
      BY <1>1
    <3>2. <<>> \o q[n + 1] = q[n + 1]
      BY <3>1, ConcatEmptySeq
    <3> QED
      BY <1>3, <1>6, <1>10, <2>1, <3>2
  <2>2. CASE n # 0
    BY <1>3, <1>4, <1>9, <1>10, <2>2
  <2> QED
    BY <2>1, <2>2
<1> QED
  BY <1>3, <1>8, <1>11 DEF p

\* of no sequences
LEMMA FlattenNone == ASSUME NEW q, DOMAIN q = {}, q = [k \in DOMAIN q |-> q[k]] PROVE FlattenSeq(q) = <<>>
<1>1. q = <<>>
  <2>1. q = [k \in {} |-> q[k]] /\ <<>> = [k \in {} |-> q[k]]
    OBVIOUS
  <2> QED
    BY <2>1
<1> QED
  BY <1>1 DEF FlattenSeq

-----------------------------------------------------------------------------
(* Witnesses *)

Input == [lock : Users \X HashTypes, k : Nat]
Witness == {Placeholder} \cup {Signature(l, c) : l \in Users \X HashTypes, c \in Nat}

\* inputs of one lock are next to each other
Grouped(s) ==
  \A a, b, c \in DOMAIN s : a <= b /\ b <= c /\ s[a].lock = s[c].lock => s[b].lock = s[a].lock

WitnessOf(s, p) ==
  IF FirstOf(s, p) THEN Signature(s[p].lock, Count(s, s[p].lock)) ELSE Placeholder
Part(s, k) ==
  IF FirstOf(s, k) THEN GroupWitnesses(s[k].lock, Count(s, s[k].lock)) ELSE <<>>
WitnessesTo(s, m) == FlattenSeq([k \in 1..m |-> Part(s, k)])

\* the group of input m ends with input e
EndsAt(s, m, e) ==
  /\ \A p \in m..e : s[p].lock = s[m].lock
  /\ \A p \in (e + 1)..Len(s) : s[p].lock # s[m].lock

\* the witnesses so far are right up to the end of the group
RightTo(s, m, e) ==
  /\ Len(WitnessesTo(s, m)) = e /\ WitnessesTo(s, m) \in Seq(Witness)
  /\ \A p \in 1..e : WitnessesTo(s, m)[p] = WitnessOf(s, p)
  /\ IF m = 0 THEN e = 0 ELSE e \in m..Len(s) /\ EndsAt(s, m, e)

\* a group that begins after input m: where it ends, and what it counts
LEMMA GroupEnd ==
  ASSUME NEW s \in Seq(Input), Grouped(s), NEW m \in Nat, m + 1 \in 1..Len(s), FirstOf(s, m + 1)
  PROVE  \E e \in (m + 1)..Len(s) : EndsAt(s, m + 1, e) /\ Count(s, s[m + 1].lock) = e - m
<1>1. PICK n \in Nat : n = Len(s)
  OBVIOUS
<1> DEFINE lock == s[m + 1].lock
           T == {p \in (m + 1)..(n + 1) : p = n + 1 \/ s[p].lock # lock}
<1>2. T \in SUBSET Nat /\ T # {}
  <2>1. n + 1 \in (m + 1)..(n + 1)
    BY <1>1
  <2> QED
    BY <2>1
<1>3. PICK p \in T : \A k \in T : p <= k
  <2> HIDE DEF T
  <2> QED
    BY <1>2, LeastNumber
<1>4. p \in (m + 1)..(n + 1) /\ (p = n + 1 \/ s[p].lock # lock)
  OBVIOUS
<1>5. p # m + 1
  BY <1>1, <1>4
<1>6. \A k \in (m + 1)..(p - 1) : s[k].lock = lock
  <2> SUFFICES ASSUME NEW k \in (m + 1)..(p - 1), s[k].lock # lock PROVE FALSE
    OBVIOUS
  <2>1. k \in (m + 1)..(n + 1) /\ ~(p <= k)
    BY <1>1, <1>4
  <2>2. k \in T
    BY <2>1
  <2> QED
    BY <1>3, <2>1, <2>2
<1> HIDE DEF T
<1> DEFINE e == p - 1
<1>7. e \in (m + 1)..n
  BY <1>1, <1>4, <1>5
<1>8. \A k \in (e + 1)..n : s[k].lock # lock
  <2> SUFFICES ASSUME NEW k \in (e + 1)..n, s[k].lock = lock PROVE FALSE
    OBVIOUS
  <2>1. p \in 1..n /\ m + 1 \in 1..n /\ k \in 1..n /\ m + 1 <= p /\ p <= k
    BY <1>1, <1>4
  <2>2. DOMAIN s = 1..n
    BY <1>1
  <2>3. s[p].lock = lock
    BY <2>1, <2>2 DEF Grouped
  <2>4. p # n + 1
    BY <2>1
  <2> QED
    BY <1>4, <2>3, <2>4
<1>9. {k \in DOMAIN s : s[k].lock = lock} = (m + 1)..e
  <2>1. \A k \in 1..n : k \in 1..(m + 1 - 1) \/ k \in (m + 1)..e \/ k \in (e + 1)..n
    BY <1>7
  <2>2. \A k \in 1..(m + 1 - 1) : s[k].lock # lock
    BY DEF FirstOf
  <2>3. \A k \in (m + 1)..e : k \in 1..n
    BY <1>7
  <2>4. DOMAIN s = 1..n
    BY <1>1
  <2> QED
    BY <1>6, <1>8, <2>1, <2>2, <2>3, <2>4
<1>10. Count(s, lock) = e - m
  <2>1. Cardinality((m + 1)..e) = e - (m + 1) + 1
    BY <1>7, FS_Interval
  <2> HIDE DEF lock, e
  <2>2. Count(s, lock) = Cardinality((m + 1)..e)
    BY <1>9 DEF Count
  <2>3. e - (m + 1) + 1 = e - m
    BY <1>7
  <2> QED
    BY <2>1, <2>2, <2>3
<1> HIDE DEF e
<1> QED
  BY <1>1, <1>6, <1>7, <1>8, <1>10 DEF EndsAt, e

\* what a group gets
LEMMA PartFacts ==
  ASSUME NEW s \in Seq(Input), NEW k \in 1..Len(s)
  PROVE  /\ Part(s, k) \in Seq(Witness)
         /\ Count(s, s[k].lock) \in Nat
<1> DEFINE lock == s[k].lock
           c == Count(s, lock)
<1>1. lock \in Users \X HashTypes
  <2>1. s[k] \in Input
    OBVIOUS
  <2> QED
    BY <2>1 DEF Input
<1>2. c \in Nat
  <2>1. {p \in DOMAIN s : s[p].lock = lock} \in SUBSET (1..Len(s))
    OBVIOUS
  <2>2. IsFiniteSet(1..Len(s))
    BY FS_Interval
  <2>3. IsFiniteSet({p \in DOMAIN s : s[p].lock = lock})
    BY <2>1, <2>2, FS_Subset
  <2> QED
    BY <2>3, FS_CardinalityType DEF Count
<1> HIDE DEF c, lock
<1>3. GroupWitnesses(lock, c) \in Seq(Witness)
  <2>1. Placeholder \in Witness /\ Signature(lock, c) \in Witness
    BY <1>1, <1>2 DEF Witness
  <2>2. GroupWitnesses(lock, c) \in [1..c -> Witness]
    BY <2>1 DEF GroupWitnesses
  <2> QED
    BY <1>2, <2>2, IsASeq
<1> QED
  BY <1>2, <1>3 DEF Part, c, lock

LEMMA RightStep ==
  ASSUME NEW s \in Seq(Input), Grouped(s), NEW m \in Nat, m + 1 \in 1..Len(s),
         NEW e, RightTo(s, m, e)
  PROVE  \E d : RightTo(s, m + 1, d)
<1>1. PICK n \in Nat : n = Len(s) /\ DOMAIN s = 1..n
  OBVIOUS
<1>2. m + 1 \in 1..n /\ m \in 0..n /\ e \in m..n
  BY <1>1 DEF RightTo
<1>3. WitnessesTo(s, m + 1) = WitnessesTo(s, m) \o Part(s, m + 1) /\ WitnessesTo(s, m + 1) \in Seq(Witness)
  <2> DEFINE q == [k \in 1..(m + 1) |-> Part(s, k)]
  <2>1. q \in [1..(m + 1) -> Seq(Witness)]
    <3>1. \A k \in 1..(m + 1) : k \in 1..Len(s)
      BY <1>1, <1>2
    <3> QED
      BY <3>1, PartFacts
  <2>2. q[m + 1] = Part(s, m + 1)
    <3>1. m + 1 \in 1..(m + 1)
      OBVIOUS
    <3> QED
      BY <3>1
  <2>3. [k \in 1..m |-> q[k]] = [k \in 1..m |-> Part(s, k)]
    <3>1. \A k \in 1..m : k \in 1..(m + 1)
      OBVIOUS
    <3> QED
      BY <3>1
  <2>4. WitnessesTo(s, m + 1) = FlattenSeq(q)
    BY DEF WitnessesTo
  <2> HIDE DEF q
  <2>5. FlattenSeq(q) = FlattenSeq([k \in 1..m |-> q[k]]) \o q[m + 1] /\ FlattenSeq(q) \in Seq(Witness)
    BY <2>1, FlattenOneMore
  <2> QED
    BY <2>2, <2>3, <2>4, <2>5 DEF WitnessesTo
<1>4. CASE FirstOf(s, m + 1)
  <2>1. PICK d \in (m + 1)..n : EndsAt(s, m + 1, d) /\ Count(s, s[m + 1].lock) = d - m
    BY <1>1, <1>4, GroupEnd
  <2>2. e = m
    <3> SUFFICES ASSUME m # 0, e # m PROVE FALSE
      BY DEF RightTo
    <3>1. m + 1 \in m..e /\ m \in 1..(m + 1 - 1)
      BY <1>2
    <3>2. s[m + 1].lock = s[m].lock
      BY <3>1 DEF RightTo, EndsAt
    <3> QED
      BY <1>4, <3>1, <3>2 DEF FirstOf
  <2> DEFINE lock == s[m + 1].lock
             group == GroupWitnesses(lock, d - m)
  <2>3. Part(s, m + 1) = group /\ group \in Seq(Witness) /\ Len(group) = d - m
    <3>1. Part(s, m + 1) = group
      BY <1>4, <2>1 DEF Part
    <3>2. group \in Seq(Witness)
      BY <1>1, <1>2, <3>1, PartFacts
    <3>3. d - m \in Nat
      BY <1>2, <2>1
    <3>4. Len(group) = d - m
      BY <3>3 DEF GroupWitnesses
    <3> QED
      BY <3>1, <3>2, <3>4
  <2>4. \A w \in 1..(d - m) : group[w] = IF w = 1 THEN Signature(lock, d - m) ELSE Placeholder
    BY DEF GroupWitnesses
  <2>5. /\ WitnessesTo(s, m) \in Seq(Witness) /\ Len(WitnessesTo(s, m)) = m
        /\ \A p \in 1..m : WitnessesTo(s, m)[p] = WitnessOf(s, p)
    BY <2>2 DEF RightTo
  <2> HIDE DEF group
  <2>6. /\ Len(WitnessesTo(s, m + 1)) = m + (d - m)
        /\ \A p \in 1..(m + (d - m)) : WitnessesTo(s, m + 1)[p] =
              IF p <= m THEN WitnessesTo(s, m)[p] ELSE group[p - m]
    BY <1>3, <2>3, <2>5, ConcatProperties
  <2>7. m + (d - m) = d
    BY <2>1
  <2>8. ASSUME NEW p \in (m + 1)..d
        PROVE  group[p - m] = WitnessOf(s, p)
    <3>1. p - m \in 1..(d - m) /\ (p - m = 1 <=> p = m + 1)
      BY <2>1, <2>8
    <3>2. s[p].lock = lock
      BY <2>1, <2>8 DEF EndsAt
    <3>3. p # m + 1 => ~FirstOf(s, p)
      <4>1. p # m + 1 => m + 1 \in 1..(p - 1)
        BY <2>1, <2>8
      <4> QED
        BY <3>2, <4>1 DEF FirstOf
    <3>4. Count(s, s[p].lock) = d - m
      BY <2>1, <3>2
    <3>5. p = m + 1 => FirstOf(s, p)
      BY <1>4
    <3> QED
      BY <2>4, <3>1, <3>2, <3>3, <3>4, <3>5 DEF WitnessOf
  <2>9. \A p \in 1..d : WitnessesTo(s, m + 1)[p] = WitnessOf(s, p)
    <3> SUFFICES ASSUME NEW p \in 1..d PROVE WitnessesTo(s, m + 1)[p] = WitnessOf(s, p)
      OBVIOUS
    <3>1. p \in 1..m \/ (p \in (m + 1)..d /\ ~(p <= m))
      BY <2>1
    <3>2. p \in 1..m => p <= m
      OBVIOUS
    <3> QED
      BY <2>5, <2>6, <2>7, <2>8, <3>1, <3>2
  <2>10. m + 1 # 0 /\ Len(WitnessesTo(s, m + 1)) = d
    BY <2>6, <2>7
  <2> QED
    BY <1>1, <1>3, <2>1, <2>9, <2>10 DEF RightTo
<1>5. CASE ~FirstOf(s, m + 1)
  <2>1. PICK k \in 1..(m + 1 - 1) : s[k].lock = s[m + 1].lock
    BY <1>5 DEF FirstOf
  <2>2. k \in 1..n /\ m \in 1..n /\ k <= m /\ m <= m + 1 /\ m # 0
    BY <1>2
  <2>3. s[m].lock = s[m + 1].lock
    <3>1. s[m].lock = s[k].lock
      BY <1>1, <1>2, <2>1, <2>2 DEF Grouped
    <3> QED
      BY <2>1, <3>1
  <2>4. EndsAt(s, m, e) /\ e \in m..n
    BY <1>1, <2>2 DEF RightTo
  <2>5. e # m
    <3> SUFFICES ASSUME e = m PROVE FALSE
      OBVIOUS
    <3>1. m + 1 \in (e + 1)..n
      BY <1>2
    <3> QED
      BY <1>1, <2>3, <2>4, <3>1 DEF EndsAt
  <2>6. e \in (m + 1)..n
    BY <1>2, <2>4, <2>5
  <2>7. EndsAt(s, m + 1, e)
    <3>1. \A p \in (m + 1)..e : p \in m..e
      BY <1>2
    <3> QED
      BY <2>3, <2>4, <3>1 DEF EndsAt
  <2>8. WitnessesTo(s, m + 1) = WitnessesTo(s, m)
    <3>1. WitnessesTo(s, m) \in Seq(Witness) /\ Part(s, m + 1) = <<>>
      BY <1>5 DEF RightTo, Part
    <3> QED
      BY <1>3, <3>1, ConcatEmptySeq
  <2>9. m + 1 # 0
    BY <1>2
  <2> QED
    BY <1>1, <2>6, <2>7, <2>8, <2>9 DEF RightTo
<1> QED
  BY <1>4, <1>5

\* The witnesses of grouped inputs stand where the chain looks for them.
LEMMA WitnessesStandRight ==
  ASSUME NEW s \in Seq(Input), Grouped(s)
  PROVE  /\ witnesses(s) \in Seq(Witness) /\ Len(witnesses(s)) = Len(s)
         /\ \A p \in DOMAIN s : witnesses(s)[p] = WitnessOf(s, p)
<1>1. PICK n \in Nat : n = Len(s) /\ DOMAIN s = 1..n
  OBVIOUS
<1> DEFINE T == {m \in 0..n : ~\E e : RightTo(s, m, e)}
<1>2. T = {}
  <2> SUFFICES ASSUME T # {} PROVE FALSE
    OBVIOUS
  <2>1. PICK m \in T : \A k \in T : m <= k
    <3> HIDE DEF T
    <3>1. T \in SUBSET Nat
      BY DEF T
    <3> QED
      BY <3>1, LeastNumber
  <2>2. m \in 0..n /\ ~\E e : RightTo(s, m, e)
    OBVIOUS
  <2>3. CASE m = 0
    <3>1. WitnessesTo(s, 0) = <<>>
      <4> DEFINE q == [k \in 1..0 |-> Part(s, k)]
      <4>1. DOMAIN q = {} /\ q = [k \in DOMAIN q |-> q[k]]
        OBVIOUS
      <4>2. WitnessesTo(s, 0) = FlattenSeq(q)
        BY DEF WitnessesTo
      <4> HIDE DEF q
      <4> QED
        BY <4>1, <4>2, FlattenNone
    <3>2. RightTo(s, 0, 0)
      <4>1. Len(<<>>) = 0 /\ <<>> \in Seq(Witness) /\ \A p \in 1..0 : FALSE
        OBVIOUS
      <4> QED
        BY <3>1, <4>1 DEF RightTo
    <3> QED
      BY <2>2, <2>3, <3>2
  <2>4. CASE m # 0
    <3> HIDE DEF T
    <3>1. m - 1 \in 0..n /\ ~(m <= m - 1) /\ m - 1 \in Nat /\ m - 1 + 1 = m /\ m \in 1..n
      BY <2>2, <2>4
    <3>2. PICK e : RightTo(s, m - 1, e)
      BY <2>1, <3>1 DEF T
    <3>3. PICK l \in Nat : l = m - 1 /\ l + 1 = m
      BY <3>1
    <3>4. \E d : RightTo(s, l + 1, d)
      BY <1>1, <3>1, <3>2, <3>3, RightStep
    <3> QED
      BY <2>2, <3>3, <3>4
  <2> QED
    BY <2>3, <2>4
<1>3. PICK e : RightTo(s, n, e)
  <2>1. n \in 0..n
    OBVIOUS
  <2> QED
    BY <1>2, <2>1
<1>4. e = n
  BY <1>1, <1>3 DEF RightTo
<1>5. witnesses(s) = WitnessesTo(s, n)
  BY <1>1 DEF witnesses, WitnessesTo, Part
<1> QED
  BY <1>1, <1>3, <1>4, <1>5 DEF RightTo

-----------------------------------------------------------------------------
(* The order of the cells *)

\* locks in the order in which collect comes to them
Turn(t) == IF t = "type" THEN 0 ELSE IF t = "data" THEN 1 ELSE 2
Rank(c) == 3 * c.lock[1] + Turn(c.lock[2])
InTurn(s) == \A a, b \in DOMAIN s : a <= b => Rank(s[a]) <= Rank(s[b])
AllBefore(s, t) == \A a \in DOMAIN s : \A b \in DOMAIN t : Rank(s[a]) <= Rank(t[b])

LEMMA RankFacts ==
  ASSUME NEW c \in Input, NEW d \in Input
  PROVE  /\ Rank(c) \in Nat /\ c.lock[1] \in Nat
         /\ Rank(c) = Rank(d) => c.lock = d.lock
         /\ c.lock[1] < d.lock[1] => Rank(c) < Rank(d)
<1>1. /\ c.lock \in Users \X HashTypes /\ d.lock \in Users \X HashTypes
  BY DEF Input
<1>2. PICK u \in Nat, t \in HashTypes : c.lock = <<u, t>>
  BY <1>1 DEF Users
<1>3. PICK v \in Nat, w \in HashTypes : d.lock = <<v, w>>
  BY <1>1 DEF Users
<1>4. Turn(t) \in 0..2 /\ Turn(w) \in 0..2 /\ (Turn(t) = Turn(w) => t = w)
  BY DEF Turn, HashTypes
<1>5. Rank(c) = 3 * u + Turn(t) /\ Rank(d) = 3 * v + Turn(w)
  BY <1>2, <1>3 DEF Rank
<1>6. 3 * u + Turn(t) = 3 * v + Turn(w) => u = v /\ Turn(t) = Turn(w)
  BY <1>4
<1>7. u < v => 3 * u + Turn(t) < 3 * v + Turn(w)
  BY <1>4
<1>8. 3 * u + Turn(t) \in Nat
  BY <1>4
<1> QED
  BY <1>2, <1>3, <1>4, <1>5, <1>6, <1>7, <1>8

LEMMA InTurnIsGrouped ==
  ASSUME NEW s \in Seq(Input), InTurn(s)
  PROVE  Grouped(s)
<1> SUFFICES ASSUME NEW a \in DOMAIN s, NEW b \in DOMAIN s, NEW c \in DOMAIN s,
                    a <= b, b <= c, s[a].lock = s[c].lock
             PROVE  s[b].lock = s[a].lock
  BY DEF Grouped
<1>1. s[a] \in Input /\ s[b] \in Input /\ s[c] \in Input
  OBVIOUS
<1>2. Rank(s[a]) <= Rank(s[b]) /\ Rank(s[b]) <= Rank(s[c])
  BY DEF InTurn
<1>3. Rank(s[a]) = Rank(s[c])
  BY DEF Rank
<1>4. Rank(s[a]) \in Nat /\ Rank(s[b]) \in Nat /\ Rank(s[c]) \in Nat
  BY <1>1, RankFacts
<1>5. Rank(s[a]) = Rank(s[b])
  BY <1>2, <1>3, <1>4
<1> QED
  BY <1>1, <1>5, RankFacts

LEMMA InTurnConcat ==
  ASSUME NEW s \in Seq(Input), NEW t \in Seq(Input)
  PROVE  InTurn(s \o t) <=> InTurn(s) /\ InTurn(t) /\ AllBefore(s, t)
<1>1. PICK m \in Nat, n \in Nat : /\ m = Len(s) /\ DOMAIN s = 1..m
                                 /\ n = Len(t) /\ DOMAIN t = 1..n
  OBVIOUS
<1> DEFINE r == s \o t
<1>2. /\ r \in Seq(Input) /\ DOMAIN r = 1..(m + n)
      /\ \A k \in 1..(m + n) : r[k] = IF k <= m THEN s[k] ELSE t[k - m]
  BY <1>1, ConcatProperties
<1> HIDE DEF r
<1>3. /\ \A k \in 1..m : k \in 1..(m + n) /\ r[k] = s[k]
      /\ \A k \in 1..n : m + k \in 1..(m + n) /\ r[m + k] = t[k]
  <2>1. \A k \in 1..m : k \in 1..(m + n) /\ k <= m
    OBVIOUS
  <2>2. \A k \in 1..n : m + k \in 1..(m + n) /\ ~(m + k <= m) /\ m + k - m = k
    OBVIOUS
  <2> QED
    BY <1>2, <2>1, <2>2
<1>4. \A k \in 1..(m + n) : k \in 1..m \/ \E l \in 1..n : k = m + l
  <2> SUFFICES ASSUME NEW k \in 1..(m + n), k \notin 1..m PROVE \E l \in 1..n : k = m + l
    OBVIOUS
  <2>1. k - m \in 1..n /\ k = m + (k - m)
    OBVIOUS
  <2> QED
    BY <2>1
<1>5. ASSUME InTurn(r) PROVE InTurn(s) /\ InTurn(t) /\ AllBefore(s, t)
  <2>1. InTurn(s)
    BY <1>1, <1>2, <1>3, <1>5 DEF InTurn
  <2>2. InTurn(t)
    <3> SUFFICES ASSUME NEW a \in 1..n, NEW b \in 1..n, a <= b PROVE Rank(t[a]) <= Rank(t[b])
      BY <1>1 DEF InTurn
    <3>1. m + a <= m + b
      OBVIOUS
    <3>2. Rank(r[m + a]) <= Rank(r[m + b])
      BY <1>2, <1>3, <1>5, <3>1 DEF InTurn
    <3> QED
      BY <1>3, <3>2
  <2>3. AllBefore(s, t)
    <3> SUFFICES ASSUME NEW a \in 1..m, NEW b \in 1..n PROVE Rank(s[a]) <= Rank(t[b])
      BY <1>1 DEF AllBefore
    <3>1. a <= m + b
      OBVIOUS
    <3>2. Rank(r[a]) <= Rank(r[m + b])
      BY <1>2, <1>3, <1>5, <3>1 DEF InTurn
    <3> QED
      BY <1>3, <3>2
  <2> QED
    BY <2>1, <2>2, <2>3
<1>6. ASSUME InTurn(s), InTurn(t), AllBefore(s, t) PROVE InTurn(r)
  <2> SUFFICES ASSUME NEW a \in 1..(m + n), NEW b \in 1..(m + n), a <= b
               PROVE  Rank(r[a]) <= Rank(r[b])
    BY <1>2 DEF InTurn
  <2>1. CASE a \in 1..m /\ b \in 1..m
    BY <1>1, <1>3, <1>6, <2>1 DEF InTurn
  <2>2. CASE a \in 1..m /\ \E l \in 1..n : b = m + l
    BY <1>1, <1>3, <1>6, <2>2 DEF AllBefore
  <2>3. CASE (\E l \in 1..n : a = m + l) /\ \E l \in 1..n : b = m + l
    <3>1. PICK k \in 1..n, l \in 1..n : a = m + k /\ b = m + l
      BY <2>3
    <3>2. k <= l
      BY <3>1
    <3>3. Rank(t[k]) <= Rank(t[l])
      BY <1>1, <1>6, <3>2 DEF InTurn
    <3> QED
      BY <1>3, <3>1, <3>3
  <2>4. ~(b \in 1..m /\ \E l \in 1..n : a = m + l)
    OBVIOUS
  <2> QED
    BY <1>4, <2>1, <2>2, <2>3, <2>4
<1> QED
  BY <1>5, <1>6 DEF r

-----------------------------------------------------------------------------
(* The invariant of collect *)

CollectTx == [inputs : Seq(Input), witnesses : Seq(Witness)]
CollectType ==
  /\ cells \in [Users -> [HashTypes -> 0..MaxCells]]
  /\ i_user \in 1..(n_users + 1)
  /\ to_chunk \in Seq(Input) /\ pending_inputs \in Seq(Input)
  /\ collected \in Seq(CollectTx)

\* the inputs left over are of this user or of users before, and in turn
OrderInv ==
  /\ InTurn(pending_inputs \o to_chunk) /\ Len(pending_inputs) < inputs_len_soft_limit
  /\ \A k \in DOMAIN to_chunk : to_chunk[k].lock[1] = i_user
  /\ \A k \in DOMAIN pending_inputs :
       pending_inputs[k].lock[1] <= (IF to_chunk = <<>> THEN i_user - 1 ELSE i_user)
  /\ to_chunk # <<>> => i_user \in Users

Signed(tx) ==
  /\ Len(tx.witnesses) = Len(tx.inputs)
  /\ Len(tx.inputs) < 2 * inputs_len_soft_limit
  /\ \A k \in DOMAIN tx.inputs : tx.witnesses[k] = WitnessOf(tx.inputs, k)
SignedInv == \A t \in DOMAIN collected : Signed(collected[t])

\* the cells of the users up to u
CellsTo(u) == FlattenSeq([v \in 1..u |-> LiveCells(v)])

\* what is sent, left over and not in a chunk yet is what the users had
EachOnceInv ==
  /\ progress = "user" =>
       InputsOf(collected) \o (pending_inputs \o to_chunk) =
         CellsTo(IF to_chunk = <<>> THEN i_user - 1 ELSE i_user)
  /\ progress = "finished" => InputsOf(collected) = CellsTo(n_users)

CollectInv == CollectType /\ OrderInv /\ SignedInv /\ EachOnceInv

\* a place of a concatenation is one of its parts
LEMMA PlaceOfConcat ==
  ASSUME NEW S, NEW s \in Seq(S), NEW t \in Seq(S), NEW k \in DOMAIN (s \o t)
  PROVE  (\E a \in DOMAIN s : (s \o t)[k] = s[a]) \/ (\E b \in DOMAIN t : (s \o t)[k] = t[b])
<1>1. PICK m \in Nat, n \in Nat : /\ m = Len(s) /\ DOMAIN s = 1..m
                                 /\ n = Len(t) /\ DOMAIN t = 1..n
  OBVIOUS
<1>2. /\ DOMAIN (s \o t) = 1..(m + n)
      /\ (s \o t)[k] = IF k <= m THEN s[k] ELSE t[k - m]
  <2>1. /\ s \o t \in Seq(S) /\ Len(s \o t) = m + n
        /\ \A l \in 1..(m + n) : (s \o t)[l] = IF l <= m THEN s[l] ELSE t[l - m]
    BY <1>1, ConcatProperties
  <2>2. DOMAIN (s \o t) = 1..(m + n)
    BY <2>1, LenProperties
  <2> QED
    BY <2>1, <2>2
<1>3. k \in 1..(m + n)
  BY <1>2
<1>4. CASE k <= m
  <2>1. k \in 1..m
    BY <1>3, <1>4
  <2> QED
    BY <1>1, <1>2, <1>4, <2>1
<1>5. CASE ~(k <= m)
  <2>1. k - m \in 1..n
    BY <1>3, <1>5
  <2> QED
    BY <1>1, <1>2, <1>5, <2>1
<1> QED
  BY <1>4, <1>5

LEMMA CellsOfFacts ==
  ASSUME CollectType, NEW u \in Users, NEW t \in HashTypes
  PROVE  /\ CellsOf(u, t) \in Seq(Input) /\ InTurn(CellsOf(u, t))
         /\ \A k \in DOMAIN CellsOf(u, t) : CellsOf(u, t)[k].lock = <<u, t>>
<1>1. cells[u][t] \in Nat
  BY DEF CollectType
<1> DEFINE c == cells[u][t]
           s == CellsOf(u, t)
<1>2. s \in [1..c -> Input] /\ \A k \in 1..c : s[k].lock = <<u, t>>
  <2>1. \A k \in 1..c : [lock |-> <<u, t>>, k |-> k] \in Input
    BY <1>1 DEF Input
  <2> QED
    BY <2>1 DEF CellsOf, Lock
<1> HIDE DEF c, s
<1>3. c \in Nat
  BY <1>1 DEF c
<1>4. s \in Seq(Input) /\ DOMAIN s = 1..c
  BY <1>2, <1>3, IsASeq
<1>5. InTurn(s)
  <2> SUFFICES ASSUME NEW a \in 1..c, NEW b \in 1..c PROVE Rank(s[a]) <= Rank(s[b])
    BY <1>4 DEF InTurn
  <2>1. s[a] \in Input /\ Rank(s[a]) = Rank(s[b])
    BY <1>2 DEF Rank
  <2>2. Rank(s[a]) \in Nat
    BY <2>1, RankFacts
  <2> QED
    BY <2>1, <2>2
<1> QED
  BY <1>2, <1>4, <1>5 DEF s

\* the cells of a user, lock after lock
LEMMA LiveCellsFacts ==
  ASSUME CollectType, NEW u \in Users
  PROVE  /\ LiveCells(u) \in Seq(Input) /\ InTurn(LiveCells(u))
         /\ \A k \in DOMAIN LiveCells(u) : LiveCells(u)[k].lock[1] = u
<1> DEFINE A == CellsOf(u, "type")
           B == CellsOf(u, "data")
           C == CellsOf(u, "data1")
           AB == A \o B
<1>1. /\ A \in Seq(Input) /\ InTurn(A) /\ \A k \in DOMAIN A : A[k].lock = <<u, "type">>
      /\ B \in Seq(Input) /\ InTurn(B) /\ \A k \in DOMAIN B : B[k].lock = <<u, "data">>
      /\ C \in Seq(Input) /\ InTurn(C) /\ \A k \in DOMAIN C : C[k].lock = <<u, "data1">>
  <2>1. "type" \in HashTypes /\ "data" \in HashTypes /\ "data1" \in HashTypes
    BY DEF HashTypes
  <2> QED
    BY <2>1, CellsOfFacts
<1>2. LiveCells(u) = AB \o C
  BY DEF LiveCells
<1> HIDE DEF A, B, C
<1>3. u \in Nat
  BY CollectAssumption DEF Users
<1>4. /\ \A k \in DOMAIN A : Rank(A[k]) = 3 * u
      /\ \A k \in DOMAIN B : Rank(B[k]) = 3 * u + 1
      /\ \A k \in DOMAIN C : Rank(C[k]) = 3 * u + 2
  <2>1. Turn("type") = 0 /\ Turn("data") = 1 /\ Turn("data1") = 2
    BY DEF Turn
  <2>2. \A k \in DOMAIN A : Rank(A[k]) = 3 * u + 0
    BY <1>1, <2>1 DEF Rank
  <2>3. \A k \in DOMAIN B : Rank(B[k]) = 3 * u + 1
    BY <1>1, <2>1 DEF Rank
  <2>4. \A k \in DOMAIN C : Rank(C[k]) = 3 * u + 2
    BY <1>1, <2>1 DEF Rank
  <2>5. 3 * u + 0 = 3 * u
    BY <1>3
  <2> QED
    BY <2>2, <2>3, <2>4, <2>5
<1>5. AllBefore(A, B)
  BY <1>3, <1>4 DEF AllBefore
<1>6. AB \in Seq(Input) /\ InTurn(AB)
  BY <1>1, <1>5, InTurnConcat, ConcatProperties
<1>7. \A k \in DOMAIN AB : (\E a \in DOMAIN A : AB[k] = A[a]) \/ (\E b \in DOMAIN B : AB[k] = B[b])
  BY <1>1, PlaceOfConcat
<1> HIDE DEF AB
<1>8. AllBefore(AB, C)
  <2> SUFFICES ASSUME NEW a \in DOMAIN AB, NEW b \in DOMAIN C PROVE Rank(AB[a]) <= Rank(C[b])
    BY DEF AllBefore
  <2>1. Rank(AB[a]) = 3 * u \/ Rank(AB[a]) = 3 * u + 1
    BY <1>4, <1>7
  <2> QED
    BY <1>3, <1>4, <2>1
<1>9. AB \o C \in Seq(Input) /\ InTurn(AB \o C)
  BY <1>1, <1>6, <1>8, InTurnConcat, ConcatProperties
<1>10. \A k \in DOMAIN (AB \o C) : (AB \o C)[k].lock[1] = u
  <2> SUFFICES ASSUME NEW k \in DOMAIN (AB \o C) PROVE (AB \o C)[k].lock[1] = u
    OBVIOUS
  <2>1. (\E a \in DOMAIN AB : (AB \o C)[k] = AB[a]) \/ (\E b \in DOMAIN C : (AB \o C)[k] = C[b])
    <3>1. PICK s \in Seq(Input), t \in Seq(Input) : s = AB /\ t = C
      BY <1>1, <1>6
    <3>2. k \in DOMAIN (s \o t)
      BY <3>1
    <3>3. (\E a \in DOMAIN s : (s \o t)[k] = s[a]) \/ (\E b \in DOMAIN t : (s \o t)[k] = t[b])
      BY <3>2, PlaceOfConcat
    <3> QED
      BY <3>1, <3>3
  <2> QED
    BY <1>1, <1>7, <2>1
<1> QED
  BY <1>2, <1>9, <1>10

\* the cells of one user more
LEMMA CellsToNext ==
  ASSUME CollectType, NEW u \in Nat, u + 1 \in Users
  PROVE  CellsTo(u + 1) = CellsTo(u) \o LiveCells(u + 1)
<1> DEFINE q == [v \in 1..(u + 1) |-> LiveCells(v)]
<1>1. q \in [1..(u + 1) -> Seq(Input)]
  <2>1. \A v \in 1..(u + 1) : v \in Users
    BY CollectAssumption DEF Users
  <2> QED
    BY <2>1, LiveCellsFacts
<1>2. u + 1 \in 1..(u + 1) /\ \A v \in 1..u : v \in 1..(u + 1)
  OBVIOUS
<1>3. q[u + 1] = LiveCells(u + 1) /\ [v \in 1..u |-> q[v]] = [v \in 1..u |-> LiveCells(v)]
  BY <1>2
<1>4. CellsTo(u + 1) = FlattenSeq(q)
  BY DEF CellsTo
<1> HIDE DEF q
<1>5. FlattenSeq(q) = FlattenSeq([v \in 1..u |-> q[v]]) \o q[u + 1]
  BY <1>1, FlattenOneMore
<1> QED
  BY <1>3, <1>4, <1>5 DEF CellsTo

LEMMA CellsToNone == CellsTo(0) = <<>>
<1> DEFINE q == [v \in 1..0 |-> LiveCells(v)]
<1>1. DOMAIN q = {} /\ q = [k \in DOMAIN q |-> q[k]]
  OBVIOUS
<1>2. CellsTo(0) = FlattenSeq(q)
  BY DEF CellsTo
<1> HIDE DEF q
<1> QED
  BY <1>1, <1>2, FlattenNone

\* one transaction more
LEMMA InputsOfNext ==
  ASSUME NEW sent \in Seq(CollectTx), NEW tx \in CollectTx
  PROVE  /\ InputsOf(Append(sent, tx)) = InputsOf(sent) \o tx.inputs
         /\ InputsOf(Append(sent, tx)) \in Seq(Input)
<1>1. PICK n \in Nat : n = Len(sent) /\ DOMAIN sent = 1..n
  OBVIOUS
<1> DEFINE r == Append(sent, tx)
           q == [t \in DOMAIN r |-> r[t].inputs]
<1>2. /\ r \in Seq(CollectTx) /\ DOMAIN r = 1..(n + 1)
      /\ r[n + 1] = tx /\ \A t \in 1..n : r[t] = sent[t]
  BY <1>1
<1>3. InputsOf(r) = FlattenSeq(q)
  BY DEF InputsOf
<1> HIDE DEF r
<1>4. \A t \in 1..(n + 1) : r[t].inputs \in Seq(Input)
  <2>1. \A t \in 1..(n + 1) : r[t] \in CollectTx
    BY <1>2
  <2> QED
    BY <2>1 DEF CollectTx
<1>5. q \in [1..(n + 1) -> Seq(Input)]
  BY <1>2, <1>4
<1>6. n + 1 \in 1..(n + 1) /\ \A t \in 1..n : t \in 1..(n + 1)
  OBVIOUS
<1>7. q[n + 1] = tx.inputs /\ [t \in 1..n |-> q[t]] = [t \in DOMAIN sent |-> sent[t].inputs]
  BY <1>1, <1>2, <1>6
<1> HIDE DEF q
<1>8. FlattenSeq(q) = FlattenSeq([t \in 1..n |-> q[t]]) \o q[n + 1] /\ FlattenSeq(q) \in Seq(Input)
  BY <1>5, FlattenOneMore
<1> QED
  BY <1>3, <1>7, <1>8 DEF InputsOf, r

LEMMA InputsOfNone == InputsOf(<<>>) = <<>>
<1> DEFINE q == [t \in DOMAIN <<>> |-> <<>>[t].inputs]
<1>1. DOMAIN q = {} /\ q = [k \in DOMAIN q |-> q[k]]
  OBVIOUS
<1>2. InputsOf(<<>>) = FlattenSeq(q)
  BY DEF InputsOf
<1> HIDE DEF q
<1> QED
  BY <1>1, <1>2, FlattenNone

LEMMA InputsOfType == ASSUME NEW sent \in Seq(CollectTx) PROVE InputsOf(sent) \in Seq(Input)
<1>1. CASE sent = <<>>
  <2>1. <<>> \in Seq(Input)
    OBVIOUS
  <2> QED
    BY <1>1, <2>1, InputsOfNone
<1>2. CASE sent # <<>>
  <2>1. PICK s \in Seq(CollectTx), x \in CollectTx : sent = Append(s, x)
    BY <1>2, SequenceEmptyOrAppend
  <2> QED
    BY <2>1, InputsOfNext
<1> QED
  BY <1>1, <1>2

-----------------------------------------------------------------------------
(* The steps of collect *)

LEMMA CollectInitInv == CollectInit => CollectInv
<1> SUFFICES ASSUME CollectInit PROVE CollectInv
  OBVIOUS
<1>1. /\ cells \in [Users -> [HashTypes -> 0..MaxCells]] /\ i_user = 1
      /\ to_chunk = <<>> /\ pending_inputs = <<>> /\ collected = <<>> /\ progress = "user"
  BY DEF CollectInit
<1>2. /\ \A S : <<>> \in Seq(S)
      /\ <<>> \o <<>> = <<>> /\ Len(<<>>) = 0 /\ DOMAIN <<>> = {}
  OBVIOUS
<1>3. 1 \in 1..(n_users + 1)
  BY CollectAssumption
<1>4. CollectType
  BY <1>1, <1>2, <1>3 DEF CollectType
<1>5. OrderInv
  <2>1. 0 < inputs_len_soft_limit
    BY CollectAssumption
  <2> QED
    BY <1>1, <1>2, <2>1 DEF OrderInv, InTurn
<1>6. SignedInv
  BY <1>1, <1>2 DEF SignedInv
<1>7. EachOnceInv
  <2>1. 1 - 1 = 0 /\ progress # "finished"
    BY <1>1
  <2> QED
    BY <1>1, <1>2, <2>1, InputsOfNone, CellsToNone DEF EachOnceInv
<1> QED
  BY <1>4, <1>5, <1>6, <1>7 DEF CollectInv

\* a transaction that is sent is signed
LEMMA CollectInputs ==
  ASSUME CollectType, SignedInv, NEW ins \in Seq(Input), InTurn(ins),
         Len(ins) < 2 * inputs_len_soft_limit, NEW next, collect_inputs(ins, next)
  PROVE  /\ collected' \in Seq(CollectTx) /\ SignedInv'
         /\ \/ progress' = next /\ InputsOf(collected') = InputsOf(collected) \o ins
            \/ progress' = "panicked"
<1>1. collected \in Seq(CollectTx)
  BY DEF CollectType
<1>2. CASE progress' = "panicked" /\ UNCHANGED collected
  BY <1>1, <1>2 DEF SignedInv
<1>3. CASE /\ collected' = Append(collected, [inputs |-> ins, witnesses |-> witnesses(ins)])
           /\ progress' = next
  <2> DEFINE tx == [inputs |-> ins, witnesses |-> witnesses(ins)]
  <2>1. Grouped(ins)
    BY InTurnIsGrouped
  <2>2. /\ witnesses(ins) \in Seq(Witness) /\ Len(witnesses(ins)) = Len(ins)
        /\ \A p \in DOMAIN ins : witnesses(ins)[p] = WitnessOf(ins, p)
    BY <2>1, WitnessesStandRight
  <2>3. tx \in CollectTx /\ tx.inputs = ins /\ tx.witnesses = witnesses(ins)
    BY <2>2 DEF CollectTx
  <2> HIDE DEF tx
  <2>4. Signed(tx)
    BY <2>2, <2>3 DEF Signed
  <2>5. collected' = Append(collected, tx)
    BY <1>3 DEF tx
  <2>6. PICK n \in Nat : n = Len(collected) /\ DOMAIN collected = 1..n
    BY <1>1
  <2>7. /\ collected' \in Seq(CollectTx) /\ DOMAIN collected' = 1..(n + 1)
        /\ collected'[n + 1] = tx /\ \A t \in 1..n : collected'[t] = collected[t]
    BY <1>1, <2>3, <2>5, <2>6
  <2>8. \A t \in 1..(n + 1) : Signed(collected'[t])
    <3>1. \A t \in 1..(n + 1) : t = n + 1 \/ t \in 1..n
      OBVIOUS
    <3> QED
      BY <2>4, <2>6, <2>7, <3>1 DEF SignedInv
  <2>9. SignedInv'
    BY <2>7, <2>8 DEF SignedInv, Signed, WitnessOf, FirstOf, Count, Signature, Placeholder
  <2>10. InputsOf(collected') = InputsOf(collected) \o ins
    BY <1>1, <2>3, <2>5, InputsOfNext
  <2> QED
    BY <1>3, <2>7, <2>9, <2>10
<1> QED
  BY <1>2, <1>3 DEF collect_inputs

\* what is said of a user's cells does not change, as the cells do not
LEMMA SameCells == ASSUME UNCHANGED cells PROVE \A u : LiveCells(u)' = LiveCells(u) /\ CellsTo(u)' = CellsTo(u)
<1>1. \A u : LiveCells(u)' = LiveCells(u)
  BY DEF LiveCells, CellsOf
<1> QED
  BY <1>1 DEF CellsTo

LEMMA NextUserInv ==
  ASSUME CollectInv, NextUser
  PROVE  CollectInv'
<1>1. /\ progress = "user" /\ i_user \in Users /\ to_chunk = <<>>
      /\ to_chunk' = LiveCells(i_user) /\ i_user' = NextOfUser(LiveCells(i_user))
      /\ UNCHANGED <<cells, pending_inputs, collected, progress>>
  BY DEF NextUser
<1>2. /\ CollectType /\ i_user \in 1..n_users /\ n_users \in Nat /\ i_user \in Nat
      /\ pending_inputs \in Seq(Input) /\ collected \in Seq(CollectTx)
  BY <1>1, CollectAssumption DEF CollectInv, CollectType, Users
<1> DEFINE live == LiveCells(i_user)
<1>3. live \in Seq(Input) /\ InTurn(live) /\ \A k \in DOMAIN live : live[k].lock[1] = i_user
  BY <1>1, <1>2, LiveCellsFacts
<1> HIDE DEF live
<1>4. /\ to_chunk' = live /\ i_user' = (IF live = <<>> THEN i_user + 1 ELSE i_user)
  BY <1>1 DEF live, NextOfUser
<1>5. CollectType'
  <2>1. i_user' \in 1..(n_users + 1)
    BY <1>2, <1>4
  <2> QED
    BY <1>1, <1>2, <1>3, <1>4, <2>1 DEF CollectType
<1>6. /\ InTurn(pending_inputs) /\ Len(pending_inputs) < inputs_len_soft_limit
      /\ \A k \in DOMAIN pending_inputs : pending_inputs[k].lock[1] <= i_user - 1
  <2>1. pending_inputs \o <<>> = pending_inputs
    BY <1>2, ConcatEmptySeq
  <2> QED
    BY <1>1, <2>1 DEF CollectInv, OrderInv
<1>7. OrderInv'
  <2>1. AllBefore(pending_inputs, live)
    <3> SUFFICES ASSUME NEW a \in DOMAIN pending_inputs, NEW b \in DOMAIN live
                 PROVE  Rank(pending_inputs[a]) <= Rank(live[b])
      BY DEF AllBefore
    <3>1. pending_inputs[a] \in Input /\ live[b] \in Input
      BY <1>2, <1>3
    <3>2. /\ pending_inputs[a].lock[1] \in Nat /\ Rank(pending_inputs[a]) \in Nat /\ Rank(live[b]) \in Nat
          /\ pending_inputs[a].lock[1] < live[b].lock[1] => Rank(pending_inputs[a]) < Rank(live[b])
      BY <3>1, RankFacts
    <3>3. pending_inputs[a].lock[1] < live[b].lock[1]
      BY <1>2, <1>3, <1>6, <3>2
    <3> QED
      BY <3>2, <3>3
  <2>2. InTurn(pending_inputs \o live)
    BY <1>2, <1>3, <1>6, <2>1, InTurnConcat
  <2>3. \A k \in DOMAIN live : live[k].lock[1] = i_user'
    <3>1. live = <<>> => DOMAIN live = {}
      OBVIOUS
    <3> QED
      BY <1>3, <1>4, <3>1
  <2>4. \A k \in DOMAIN pending_inputs :
          pending_inputs[k].lock[1] <= (IF live = <<>> THEN i_user' - 1 ELSE i_user')
    <3> SUFFICES ASSUME NEW k \in DOMAIN pending_inputs
                 PROVE  pending_inputs[k].lock[1] <= (IF live = <<>> THEN i_user' - 1 ELSE i_user')
      OBVIOUS
    <3>1. pending_inputs[k] \in Input
      BY <1>2
    <3>2. pending_inputs[k].lock[1] \in Nat /\ pending_inputs[k].lock[1] <= i_user - 1
      BY <1>6, <3>1, RankFacts
    <3>3. live = <<>> => i_user' - 1 = i_user
      BY <1>2, <1>4
    <3> QED
      BY <1>2, <1>4, <3>2, <3>3
  <2>5. live # <<>> => i_user' \in Users
    BY <1>1, <1>4
  <2>6. pending_inputs' \o to_chunk' = pending_inputs \o live
    BY <1>1, <1>4
  <2>7. InTurn(pending_inputs \o to_chunk)'
    BY <2>2, <2>6
  <2>8. to_chunk' = live /\ pending_inputs' = pending_inputs
    BY <1>1, <1>4
  <2>9. Len(pending_inputs') < inputs_len_soft_limit
    BY <1>6, <2>8
  <2> QED
    BY <2>3, <2>4, <2>5, <2>7, <2>8, <2>9 DEF OrderInv
<1>8. SignedInv'
  BY <1>1 DEF CollectInv, SignedInv
<1>9. EachOnceInv'
  <2>1. InputsOf(collected) \in Seq(Input)
    BY <1>2, InputsOfType
  <2>2. pending_inputs \o <<>> = pending_inputs
    BY <1>2, ConcatEmptySeq
  <2>3. InputsOf(collected) \o pending_inputs = CellsTo(i_user - 1)
    BY <1>1, <2>2 DEF CollectInv, EachOnceInv
  <2>4. CellsTo(i_user) = CellsTo(i_user - 1) \o live
    <3>1. PICK u \in Nat : u = i_user - 1 /\ u + 1 = i_user
      BY <1>2
    <3>2. CellsTo(u + 1) = CellsTo(u) \o LiveCells(u + 1)
      BY <1>1, <1>2, <3>1, CellsToNext
    <3> QED
      BY <3>1, <3>2 DEF live
  <2>5. InputsOf(collected) \o (pending_inputs \o live) = CellsTo(i_user)
    <3>1. (InputsOf(collected) \o pending_inputs) \o live = InputsOf(collected) \o (pending_inputs \o live)
      BY <1>2, <1>3, <2>1, ConcatAssociative
    <3> QED
      BY <2>3, <2>4, <3>1
  <2>6. (IF live = <<>> THEN i_user' - 1 ELSE i_user') = i_user
    BY <1>2, <1>4
  <2>7. InputsOf(collected') \o (pending_inputs' \o to_chunk') =
          CellsTo(IF to_chunk' = <<>> THEN i_user' - 1 ELSE i_user')
    BY <1>1, <1>4, <2>5, <2>6
  <2>8. progress' = "user"
    BY <1>1
  <2> QED
    BY <1>1, <2>7, <2>8, SameCells DEF EachOnceInv, InputsOf
<1> QED
  BY <1>5, <1>7, <1>8, <1>9 DEF CollectInv

\* the next chunk and what it leaves
LEMMA ChunkFacts ==
  ASSUME NEW s \in Seq(Input), s # <<>>, NEW n \in Nat,
         n = IF Len(s) < inputs_len_soft_limit THEN Len(s) ELSE inputs_len_soft_limit
  PROVE  /\ SubSeq(s, 1, n) \in Seq(Input) /\ SubSeq(s, n + 1, Len(s)) \in Seq(Input)
         /\ SubSeq(s, 1, n) \o SubSeq(s, n + 1, Len(s)) = s
         /\ Len(SubSeq(s, 1, n)) <= inputs_len_soft_limit
<1>1. PICK m \in Nat : m = Len(s) /\ DOMAIN s = 1..m
  OBVIOUS
<1>2. n \in 0..m /\ n <= inputs_len_soft_limit
  BY <1>1, CollectAssumption
<1>3. \A k \in 1..m : s[k] \in Input
  BY <1>1
<1>4. SubSeq(s, 1, n) \in Seq(Input) /\ Len(SubSeq(s, 1, n)) = (IF 1 <= n THEN n - 1 + 1 ELSE 0)
  <2>1. \A k \in 1..n : s[k] \in Input
    BY <1>2, <1>3
  <2>2. 1 \in Int /\ n \in Int
    OBVIOUS
  <2> QED
    BY <2>1, <2>2, SubSeqProperties
<1>5. SubSeq(s, n + 1, m) \in Seq(Input)
  <2>1. \A k \in (n + 1)..m : s[k] \in Input
    BY <1>2, <1>3
  <2>2. n + 1 \in Int /\ m \in Int
    OBVIOUS
  <2> QED
    BY <2>1, <2>2, SubSeqProperties
<1>6. SubSeq(s, 1, n) \o SubSeq(s, n + 1, m) = s
  <2>1. 1 \in 1..(m + 1) /\ n \in (1 - 1)..m /\ m \in n..m
    BY <1>2
  <2>2. SubSeq(s, 1, n) \o SubSeq(s, n + 1, m) = SubSeq(s, 1, m)
    BY <1>1, <2>1, ConcatAdjacentSubSeq
  <2> QED
    BY <1>1, <2>2, SubSeqFull
<1>7. Len(SubSeq(s, 1, n)) <= inputs_len_soft_limit
  <2>1. (IF 1 <= n THEN n - 1 + 1 ELSE 0) = n
    BY <1>2
  <2> QED
    BY <1>2, <1>4, <2>1
<1> QED
  BY <1>1, <1>4, <1>5, <1>6, <1>7

LEMMA NextChunkInv ==
  ASSUME CollectInv, NextChunk
  PROVE  CollectInv'
<1> DEFINE chunk == SubSeq(to_chunk, 1, ChunkLen)
           left == SubSeq(to_chunk, ChunkLen + 1, Len(to_chunk))
           ins == pending_inputs \o chunk
<1>1. /\ progress = "user" /\ to_chunk # <<>> /\ UNCHANGED cells
      /\ to_chunk' = left /\ i_user' = (IF left = <<>> THEN i_user + 1 ELSE i_user)
      /\ IF Len(ins) >= inputs_len_soft_limit
         THEN collect_inputs(ins, "user") /\ pending_inputs' = <<>>
         ELSE pending_inputs' = ins /\ UNCHANGED <<collected, progress>>
  BY DEF NextChunk, NextOfUser
<1>2. /\ CollectType /\ OrderInv /\ SignedInv /\ n_users \in Nat
      /\ i_user \in 1..n_users /\ i_user \in Nat /\ inputs_len_soft_limit \in Nat \ {0}
      /\ to_chunk \in Seq(Input) /\ pending_inputs \in Seq(Input) /\ collected \in Seq(CollectTx)
  BY <1>1, CollectAssumption DEF CollectInv, CollectType, OrderInv, Users
<1>3. /\ chunk \in Seq(Input) /\ left \in Seq(Input) /\ chunk \o left = to_chunk
      /\ Len(chunk) <= inputs_len_soft_limit
  <2>1. PICK n \in Nat : n = ChunkLen
    BY <1>2 DEF ChunkLen
  <2>2. n = IF Len(to_chunk) < inputs_len_soft_limit THEN Len(to_chunk) ELSE inputs_len_soft_limit
    BY <2>1 DEF ChunkLen
  <2> QED
    BY <1>1, <1>2, <2>1, <2>2, ChunkFacts
<1> HIDE DEF chunk, left
<1>4. /\ ins \in Seq(Input) /\ Len(ins) < 2 * inputs_len_soft_limit
      /\ ins \o left = pending_inputs \o to_chunk
  <2>1. ins \in Seq(Input) /\ Len(ins) = Len(pending_inputs) + Len(chunk)
    BY <1>2, <1>3, ConcatProperties
  <2>2. Len(pending_inputs) < inputs_len_soft_limit
    BY <1>2 DEF OrderInv
  <2>3. ins \o left = pending_inputs \o (chunk \o left)
    <3>1. pending_inputs \in Seq(Input) /\ chunk \in Seq(Input) /\ left \in Seq(Input)
      BY <1>2, <1>3
    <3> QED
      BY <3>1, ConcatAssociative
  <2>4. Len(pending_inputs) \in Nat /\ Len(chunk) \in Nat
    BY <1>2, <1>3
  <2> QED
    BY <1>2, <1>3, <2>1, <2>2, <2>3, <2>4
<1>5. \A k \in DOMAIN ins : ins[k].lock[1] <= i_user
  <2> SUFFICES ASSUME NEW k \in DOMAIN ins PROVE ins[k].lock[1] <= i_user
    OBVIOUS
  <2>1. (\E a \in DOMAIN pending_inputs : ins[k] = pending_inputs[a]) \/ (\E b \in DOMAIN chunk : ins[k] = chunk[b])
    <3>1. pending_inputs \in Seq(Input) /\ chunk \in Seq(Input)
      BY <1>2, <1>3
    <3>2. k \in DOMAIN (pending_inputs \o chunk)
      OBVIOUS
    <3>3. \/ \E a \in DOMAIN pending_inputs : (pending_inputs \o chunk)[k] = pending_inputs[a]
          \/ \E b \in DOMAIN chunk : (pending_inputs \o chunk)[k] = chunk[b]
      <4> HIDE DEF ins
      <4> QED
        BY <3>1, <3>2, PlaceOfConcat
    <3> QED
      BY <3>3
  <2>2. CASE \E a \in DOMAIN pending_inputs : ins[k] = pending_inputs[a]
    BY <1>1, <1>2, <2>2 DEF OrderInv
  <2>3. CASE \E b \in DOMAIN chunk : ins[k] = chunk[b]
    <3>1. PICK b \in DOMAIN chunk : ins[k] = chunk[b]
      BY <2>3
    <3>2. PICK m \in Nat, n \in Nat : m = Len(chunk) /\ DOMAIN chunk = 1..m /\ n = Len(left)
      BY <1>3
    <3>3. Len(to_chunk) = m + n /\ \A l \in 1..(m + n) : to_chunk[l] = IF l <= m THEN chunk[l] ELSE left[l - m]
      BY <1>3, <3>2, ConcatProperties
    <3>4. b \in 1..(m + n) /\ b <= m
      BY <3>2
    <3>5. chunk[b] = to_chunk[b] /\ b \in DOMAIN to_chunk
      BY <1>2, <3>3, <3>4
    <3>6. to_chunk[b].lock[1] = i_user
      BY <1>2, <3>5 DEF OrderInv
    <3> QED
      BY <1>2, <3>1, <3>5, <3>6
  <2> QED
    BY <2>1, <2>2, <2>3
<1>6. \A k \in DOMAIN left : left[k].lock[1] = i_user
  <2> SUFFICES ASSUME NEW k \in DOMAIN left PROVE left[k].lock[1] = i_user
    OBVIOUS
  <2>1. PICK m \in Nat, n \in Nat : m = Len(chunk) /\ n = Len(left) /\ DOMAIN left = 1..n
    BY <1>3
  <2>2. Len(to_chunk) = m + n /\ \A l \in 1..(m + n) : to_chunk[l] = IF l <= m THEN chunk[l] ELSE left[l - m]
    BY <1>3, <2>1, ConcatProperties
  <2>3. m + k \in 1..(m + n) /\ ~(m + k <= m) /\ m + k - m = k
    BY <2>1
  <2>4. left[k] = to_chunk[m + k] /\ m + k \in DOMAIN to_chunk
    <3>1. DOMAIN to_chunk = 1..(m + n)
      BY <1>2, <2>2
    <3>2. PICK l \in 1..(m + n) : l = m + k /\ ~(l <= m) /\ l - m = k
      <4>1. k \in 1..n
        BY <2>1
      <4> QED
        BY <4>1
    <3>3. to_chunk[l] = left[k]
      BY <2>2, <3>2
    <3> QED
      BY <3>1, <3>2, <3>3
  <2> QED
    BY <1>2, <2>4 DEF OrderInv
<1>7. InTurn(ins \o left) /\ InTurn(ins) /\ InTurn(left)
  <2>1. InTurn(ins \o left)
    BY <1>2, <1>4 DEF OrderInv
  <2> QED
    BY <1>3, <1>4, <2>1, InTurnConcat
<1>8. i_user' \in 1..(n_users + 1) /\ (left # <<>> => i_user' \in Users)
      /\ (IF left = <<>> THEN i_user' - 1 ELSE i_user') = i_user
      /\ \A k \in DOMAIN left : left[k].lock[1] = i_user'
  <2>1. left = <<>> => DOMAIN left = {}
    OBVIOUS
  <2> QED
    BY <1>1, <1>2, <1>6, <2>1 DEF Users
<1>9. /\ InputsOf(collected) \in Seq(Input)
      /\ InputsOf(collected) \o (ins \o left) = CellsTo(i_user)
  BY <1>1, <1>2, <1>4, InputsOfType DEF CollectInv, EachOnceInv
<1> HIDE DEF ins
<1>10. CASE Len(ins) >= inputs_len_soft_limit
  <2>1. pending_inputs' = <<>> /\ collect_inputs(ins, "user")
    BY <1>1, <1>10
  <2>2. /\ collected' \in Seq(CollectTx) /\ SignedInv'
        /\ \/ progress' = "user" /\ InputsOf(collected') = InputsOf(collected) \o ins
           \/ progress' = "panicked"
    BY <1>2, <1>4, <1>7, <2>1, CollectInputs
  <2>3. <<>> \in Seq(Input) /\ <<>> \o left = left /\ Len(<<>>) = 0 /\ DOMAIN <<>> = {}
    BY <1>3, ConcatEmptySeq
  <2>4. CollectType'
    BY <1>1, <1>2, <1>3, <1>8, <2>1, <2>2, <2>3 DEF CollectType
  <2>5. OrderInv'
    BY <1>1, <1>2, <1>7, <1>8, <2>1, <2>3 DEF OrderInv
  <2>6. EachOnceInv'
    <3>1. CASE progress' = "panicked"
      BY <3>1 DEF EachOnceInv
    <3>2. CASE progress' = "user" /\ InputsOf(collected') = InputsOf(collected) \o ins
      <4>1. (InputsOf(collected) \o ins) \o left = InputsOf(collected) \o (ins \o left)
        <5>1. InputsOf(collected) \in Seq(Input) /\ ins \in Seq(Input) /\ left \in Seq(Input)
          BY <1>3, <1>4, <1>9
        <5> QED
          BY <5>1, ConcatAssociative
      <4>2. InputsOf(collected') \o (pending_inputs' \o to_chunk') =
              CellsTo(IF to_chunk' = <<>> THEN i_user' - 1 ELSE i_user')
        BY <1>1, <1>8, <1>9, <2>1, <2>3, <3>2, <4>1
      <4>3. progress' # "finished"
        BY <3>2
      <4> QED
        BY <1>1, <4>2, <4>3, SameCells DEF EachOnceInv, InputsOf
    <3> QED
      BY <2>2, <3>1, <3>2
  <2> QED
    BY <2>2, <2>4, <2>5, <2>6 DEF CollectInv
<1>11. CASE ~(Len(ins) >= inputs_len_soft_limit)
  <2>1. pending_inputs' = ins /\ UNCHANGED <<collected, progress>>
    BY <1>1, <1>11
  <2>2. CollectType'
    BY <1>1, <1>2, <1>3, <1>4, <1>8, <2>1 DEF CollectType
  <2>3. Len(ins) < inputs_len_soft_limit
    <3>1. Len(ins) \in Nat
      BY <1>4
    <3> QED
      BY <1>2, <1>11, <3>1
  <2>4. OrderInv'
    BY <1>1, <1>5, <1>7, <1>8, <2>1, <2>3 DEF OrderInv
  <2>5. SignedInv'
    BY <1>2, <2>1 DEF SignedInv
  <2>6. EachOnceInv'
    <3>1. InputsOf(collected') \o (pending_inputs' \o to_chunk') =
            CellsTo(IF to_chunk' = <<>> THEN i_user' - 1 ELSE i_user')
      BY <1>1, <1>8, <1>9, <2>1
    <3>2. progress' = "user"
      BY <1>1, <2>1
    <3> QED
      BY <1>1, <3>1, <3>2, SameCells DEF EachOnceInv, InputsOf
  <2> QED
    BY <2>2, <2>4, <2>5, <2>6 DEF CollectInv
<1> QED
  BY <1>10, <1>11

LEMMA LastInputsInv ==
  ASSUME CollectInv, LastInputs
  PROVE  CollectInv'
<1>1. /\ progress = "user" /\ i_user \notin Users /\ to_chunk = <<>>
      /\ pending_inputs' = <<>> /\ UNCHANGED <<cells, i_user, to_chunk>>
      /\ IF pending_inputs # <<>> THEN collect_inputs(pending_inputs, "finished")
         ELSE progress' = "finished" /\ UNCHANGED collected
  BY DEF LastInputs
<1>2. /\ CollectType /\ OrderInv /\ SignedInv /\ n_users \in Nat /\ inputs_len_soft_limit \in Nat \ {0}
      /\ i_user \in 1..(n_users + 1)
      /\ pending_inputs \in Seq(Input) /\ collected \in Seq(CollectTx)
  BY CollectAssumption DEF CollectInv, CollectType
<1>3. i_user - 1 = n_users
  BY <1>1, <1>2 DEF Users
<1>4. /\ <<>> \in Seq(Input) /\ <<>> \o <<>> = <<>> /\ Len(<<>>) = 0 /\ DOMAIN <<>> = {}
      /\ pending_inputs \o <<>> = pending_inputs
  BY <1>2, ConcatEmptySeq
<1>5. InTurn(pending_inputs) /\ Len(pending_inputs) < 2 * inputs_len_soft_limit
  <2>1. Len(pending_inputs) \in Nat /\ Len(pending_inputs) < inputs_len_soft_limit
    BY <1>2 DEF OrderInv
  <2> QED
    BY <1>1, <1>2, <1>4, <2>1 DEF OrderInv
<1>6. InputsOf(collected) \in Seq(Input) /\ InputsOf(collected) \o pending_inputs = CellsTo(n_users)
  BY <1>1, <1>2, <1>3, <1>4, InputsOfType DEF CollectInv, EachOnceInv
<1>7. /\ collected' \in Seq(CollectTx) /\ SignedInv'
      /\ \/ progress' = "finished" /\ InputsOf(collected') = InputsOf(collected) \o pending_inputs
         \/ progress' = "panicked"
  <2>1. CASE pending_inputs # <<>>
    BY <1>1, <1>2, <1>5, <2>1, CollectInputs
  <2>2. CASE pending_inputs = <<>>
    <3>1. progress' = "finished" /\ UNCHANGED collected
      BY <1>1, <2>2
    <3>2. InputsOf(collected) \o <<>> = InputsOf(collected)
      BY <1>6, ConcatEmptySeq
    <3>3. SignedInv'
      BY <1>2, <3>1 DEF SignedInv
    <3> QED
      BY <1>2, <2>2, <3>1, <3>2, <3>3
  <2> QED
    BY <2>1, <2>2
<1>8. CollectType'
  BY <1>1, <1>2, <1>4, <1>7 DEF CollectType
<1>9. OrderInv'
  BY <1>1, <1>2, <1>4 DEF OrderInv, InTurn
<1>10. EachOnceInv'
  <2>1. progress' # "user"
    BY <1>7
  <2>2. progress' = "finished" => InputsOf(collected') = CellsTo(n_users)
    BY <1>6, <1>7
  <2> QED
    BY <1>1, <2>1, <2>2, SameCells DEF EachOnceInv, InputsOf
<1> QED
  BY <1>7, <1>8, <1>9, <1>10 DEF CollectInv

LEMMA CollectNextInv == CollectInv /\ [CollectNext]_cvars => CollectInv'
<1>1. ASSUME CollectInv, UNCHANGED cvars
      PROVE  CollectInv'
  <2>1. UNCHANGED <<cells, i_user, to_chunk, pending_inputs, collected, progress>>
    BY <1>1 DEF cvars
  <2>2. CollectType' /\ OrderInv' /\ SignedInv'
    BY <1>1, <2>1 DEF CollectInv, CollectType, OrderInv, SignedInv
  <2>3. EachOnceInv'
    BY <1>1, <2>1, SameCells DEF CollectInv, EachOnceInv
  <2> QED
    BY <2>2, <2>3 DEF CollectInv
<1> QED
  BY <1>1, NextUserInv, NextChunkInv, LastInputsInv DEF CollectNext

\* The inductive invariant of collect: the inputs left over and the cells of this user
\* are in turn, and with those sent they are the cells of the users so far.
THEOREM CollectInvariant == CollectSpec => []CollectInv
BY CollectInitInv, CollectNextInv, PTL DEF CollectSpec

\* Every transaction of collect is signed as the chain verifies it, and collect gives
\* back each cell once: for any users, cells and inputs_len_soft_limit (prepare.rs,
\* collect and collect_inputs).
THEOREM CollectsEachCellSignedHolds == CollectSpec => []CollectsEachCellSigned
<1>1. CollectInv => CollectsEachCellSigned
  <2> SUFFICES ASSUME CollectInv PROVE CollectsEachCellSigned
    OBVIOUS
  <2>1. \A t \in DOMAIN collected : Signed(collected[t])
    BY DEF CollectInv, SignedInv
  <2>2. progress = "finished" => InputsOf(collected) = FlattenSeq([u \in Users |-> LiveCells(u)])
    BY DEF CollectInv, EachOnceInv, CellsTo, Users
  <2> QED
    BY <2>1, <2>2 DEF CollectsEachCellSigned, Signed, WitnessOf
<1> QED
  BY <1>1, CollectInvariant, PTL
=============================================================================

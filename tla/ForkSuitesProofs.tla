--------------------------- MODULE ForkSuitesProofs ---------------------------
(***************************************************************************)
(* The builder of the testkit builds on the tip: proofs about ForkSuites.  *)
(*                                                                         *)
(* The invariant says that, while it builds, the builder waits for the     *)
(* template of the block after the tip, and that the heights it computes   *)
(* with are numbers.  For that every step of every suite must be well      *)
(* formed: the first two sections look at the tables of ForkCases, which   *)
(* are sequences joined by FlattenSeq.                                     *)
(***************************************************************************)
EXTENDS ForkSuites, NaturalsInduction, WellFoundedInduction, TLAPS

(* Sequences of steps *)

\* the numbers of a step that the builder and mine_to count with
StepShape(s) ==
  /\ s.op = "mine_to" => s.height \in Int
  /\ s.op = "build" => s.target \in Int /\ \A k \in DOMAIN s.ins : s.ins[k].number \in Int

\* a sequence of such steps
Suite(s) == \E T : s \in Seq(T) /\ \A x \in T : StepShape(x)

\* suites one after the other are a suite
LEMMA Joined ==
  ASSUME NEW s, NEW t, Suite(s), Suite(t)
  PROVE  Suite(s \o t)
<1>1. PICK A : s \in Seq(A) /\ \A x \in A : StepShape(x)
  BY DEF Suite
<1>2. PICK B : t \in Seq(B) /\ \A x \in B : StepShape(x)
  BY DEF Suite
<1>3. s \in Seq(A \cup B) /\ t \in Seq(A \cup B)
  <2>1. s \in Seq(A \cup B)
    BY <1>1
  <2>2. t \in Seq(A \cup B)
    BY <1>2
  <2> QED
    BY <2>1, <2>2
<1>4. s \o t \in Seq(A \cup B)
  BY <1>3
<1> QED
  BY <1>1, <1>2, <1>4 DEF Suite

\* the well-founded order of the numbers, for arguments by a least counterexample
LEMMA LeastNumber ==
  ASSUME NEW T \in SUBSET Nat, T # {}
  PROVE  \E x \in T : \A y \in T : x <= y
<1> DEFINE Less == {ss \in Nat \X Nat : ss[1] < ss[2]}
<1>1. IsWellFoundedOn(Less, Nat)
  BY NatLessThanWellFounded DEF OpToRel
<1>2. PICK x \in T : \A y \in T : ~ (<<y, x>> \in Less)
  <2> HIDE DEF Less
  <2> QED
    BY <1>1, WFMin
<1>3. ASSUME NEW y \in T, y < x
      PROVE  FALSE
  <2>1. <<y, x>> \in Nat \X Nat /\ <<y, x>>[1] < <<y, x>>[2]
    BY <1>3
  <2>2. <<y, x>> \in Less
    BY <2>1
  <2>3. QED
    BY <1>2, <2>2
<1>4. QED
  BY <1>3

\* the first m of the sequences q, joined from the first on
Joins(f, q, m) == f = [i \in 1..m |-> IF i = 1 THEN q[i] ELSE f[i - 1] \o q[i]]

\* FlattenSeq chooses such a function: there is one
LEMMA JoinsExist ==
  ASSUME NEW q, NEW n \in Nat
  PROVE  \E f : Joins(f, q, n)
<1> DEFINE T == {m \in Nat : ~\E f : Joins(f, q, m)}
<1> SUFFICES ASSUME T # {} PROVE FALSE
  OBVIOUS
<1>1. PICK m \in T : \A k \in T : m <= k
  <2> HIDE DEF T
  <2>1. T \in SUBSET Nat
    BY DEF T
  <2> QED
    BY <2>1, LeastNumber
<1>2. CASE m = 0
  <2>1. Joins([i \in 1..0 |-> 0], q, 0)
    BY DEF Joins
  <2> QED
    BY <1>2, <2>1
<1>3. CASE m # 0
  <2>1. m - 1 \in Nat /\ m - 1 \notin T
    BY <1>1, <1>3
  <2>2. PICK f : Joins(f, q, m - 1)
    BY <2>1
  <2> DEFINE g == [i \in 1..m |-> IF i = m THEN (IF m = 1 THEN q[1] ELSE f[m - 1] \o q[m]) ELSE f[i]]
  <2>3. \A i \in 1..m : g[i] = IF i = 1 THEN q[i] ELSE g[i - 1] \o q[i]
    <3> SUFFICES ASSUME NEW i \in 1..m PROVE g[i] = IF i = 1 THEN q[i] ELSE g[i - 1] \o q[i]
      OBVIOUS
    <3>1. m \in Nat /\ i \in Nat
      OBVIOUS
    <3>2. CASE i = m /\ m = 1
      BY <3>1, <3>2
    <3>3. CASE i = m /\ m # 1
      <4>1. i - 1 \in 1..m /\ i - 1 # m
        BY <1>3, <3>1, <3>3
      <4>2. g[i - 1] = f[i - 1]
        BY <4>1
      <4> QED
        BY <3>3, <4>2
    <3>4. CASE i # m
      <4>1. i \in 1..(m - 1) /\ g[i] = f[i]
        BY <3>1, <3>4
      <4>2. f[i] = IF i = 1 THEN q[i] ELSE f[i - 1] \o q[i]
        BY <2>2, <4>1 DEF Joins
      <4>3. i # 1 => i - 1 \in 1..m /\ i - 1 # m
        BY <3>1
      <4>4. i # 1 => g[i - 1] = f[i - 1]
        BY <4>3
      <4> QED
        BY <4>1, <4>2, <4>4
    <3> QED
      BY <3>2, <3>3, <3>4
  <2>4. Joins(g, q, m)
    <3>1. g = [i \in 1..m |-> g[i]]
      OBVIOUS
    <3> HIDE DEF g
    <3> QED
      BY <2>3, <3>1 DEF Joins
  <2> QED
    BY <2>4
<1> QED
  BY <1>2, <1>3

\* the cases of a table, one after the other
LEMMA Flattened ==
  ASSUME NEW n \in Nat \ {0}, NEW q, Len(q) = n,
         \A k \in 1..n : Suite(q[k])
  PROVE  Suite(FlattenSeq(q))
<1>1. PICK f : Joins(f, q, n)
  BY JoinsExist
<1> DEFINE flatten == CHOOSE g : g = [i \in 1..Len(q) |-> IF i = 1 THEN q[i] ELSE g[i - 1] \o q[i]]
<1>2. FlattenSeq(q) = flatten[n]
  BY DEF FlattenSeq
<1>3. Joins(flatten, q, n)
  BY <1>1 DEF Joins
<1> HIDE DEF flatten
<1> DEFINE T == {m \in 1..n : ~Suite(flatten[m])}
<1>4. T = {}
  <2> SUFFICES ASSUME T # {} PROVE FALSE
    OBVIOUS
  <2>1. PICK m \in T : \A k \in T : m <= k
    <3> HIDE DEF T
    <3>1. T \in SUBSET Nat
      BY DEF T
    <3> QED
      BY <3>1, LeastNumber
  <2>2. flatten[m] = IF m = 1 THEN q[m] ELSE flatten[m - 1] \o q[m]
    BY <1>3 DEF Joins
  <2>3. m # 1
    BY <2>2
  <2>4. m - 1 \in 1..n /\ m - 1 \notin T
    BY <2>1, <2>3
  <2>5. Suite(flatten[m - 1]) /\ Suite(q[m])
    BY <2>4
  <2> QED
    BY <2>2, <2>3, <2>5, Joined
<1> QED
  BY <1>2, <1>4

-----------------------------------------------------------------------------
(* The suites *)

LEMMA SuiteOf ==
  ASSUME NEW T, NEW s \in Seq(T), \A x \in T : StepShape(x)
  PROVE  Suite(s)
BY DEF Suite

LEMMA Two ==
  ASSUME NEW a, NEW b, StepShape(a), StepShape(b)
  PROVE  Suite(<<a, b>>)
<1> DEFINE T == {a, b}
<1>1. <<a, b>> \in Seq(T) /\ \A x \in T : StepShape(x)
  OBVIOUS
<1> HIDE DEF T
<1> QED
  BY <1>1, SuiteOf

LEMMA Three ==
  ASSUME NEW a, NEW b, NEW c, StepShape(a), StepShape(b), StepShape(c)
  PROVE  Suite(<<a, b, c>>)
<1> DEFINE T == {a, b, c}
<1>1. <<a, b, c>> \in Seq(T) /\ \A x \in T : StepShape(x)
  OBVIOUS
<1> HIDE DEF T
<1> QED
  BY <1>1, SuiteOf

LEMMA One ==
  ASSUME NEW a, StepShape(a)
  PROVE  Suite(<<a>>)
<1> DEFINE T == {a}
<1>1. <<a>> \in Seq(T) /\ \A x \in T : StepShape(x)
  OBVIOUS
<1> HIDE DEF T
<1> QED
  BY <1>1, SuiteOf

\* the steps that a builder's instructions are not part of
LEMMA PlainSteps ==
  /\ StepShape(CloneNode) /\ StepShape([op |-> "fresh_node"])
  /\ \A h \in Int : StepShape(MineTo(h))
  /\ \A a, b : /\ StepShape(Deploy(a, b)) /\ StepShape(SubmitBlock(a, b))
               /\ StepShape(SendTransactions(a, b))
BY DEF StepShape, CloneNode, MineTo, Deploy, SubmitBlock, SendTransactions

LEMMA BuildSteps ==
  ASSUME NEW stamped, NEW target \in Int, NEW ins, NEW expected,
         \A k \in DOMAIN ins : ins[k].number \in Int
  PROVE  StepShape(BuildStamped(stamped, target, ins, expected))
BY DEF StepShape, BuildStamped

LEMMA ProposeAndCommit ==
  \A n \in Int : \A tx : Propose(n, tx).number \in Int /\ Commit(n, tx).number \in Int
BY DEF Propose, Commit

LEMMA Fork == FORK = 3000
BY DEF FORK, estimate_start_number_of_epoch, EPOCH_LENGTH

\* a transaction that is proposed and committed, the cloned node before
LEMMA OneCase ==
  ASSUME NEW height \in Int, NEW tx, NEW expected
  PROVE  Suite(<<CloneNode, Build(height, <<Propose(height - 2, tx), Commit(height, tx)>>, expected)>>)
<1>1. StepShape(Build(height, <<Propose(height - 2, tx), Commit(height, tx)>>, expected))
  BY ProposeAndCommit, BuildSteps DEF Build
<1> QED
  BY <1>1, Two, PlainSteps

LEMMA Suite0028 == Suite(RFC0028)
<1>1. ASSUME NEW committed \in Int, NEW height \in Int, NEW expected
      PROVE  Suite(Case0028(committed, height, expected))
  <2> DEFINE input_tx == always_success_transaction("input_tx", Spendable(0))
             tx == build_transaction_0028(input_tx)
             ins == <<Propose(committed - 2, input_tx), Commit(committed, input_tx),
                      Propose(height - 2, tx), Commit(height, tx)>>
  <2>1. \A k \in DOMAIN ins : ins[k].number \in Int
    <3> HIDE DEF input_tx, tx
    <3> QED
      BY ProposeAndCommit
  <2>2. FORK \in Int
    BY Fork
  <2>3. StepShape(BuildStamped(construct_chain_instructions, FORK, ins, expected))
    <3> HIDE DEF ins
    <3> QED
      BY <2>1, <2>2, BuildSteps
  <2>4. Case0028(committed, height, expected) =
          <<CloneNode, BuildStamped(construct_chain_instructions, FORK, ins, expected)>>
    BY DEF Case0028
  <2> HIDE DEF ins
  <2> QED
    BY <2>3, <2>4, Two, PlainSteps
<1>2. FORK - 1 \in Int /\ FORK \in Int
  BY Fork
<1> DEFINE q == cases_before_switch \o cases_after_switch
<1>3. Len(q) = 6 /\ \A k \in 1..6 : Suite(q[k])
  BY <1>1, <1>2 DEF cases_before_switch, cases_after_switch
<1> HIDE DEF q
<1>4. Suite(FlattenSeq(q))
  BY <1>3, 6 \in Nat \ {0}, Flattened
<1> QED
  BY <1>4 DEF RFC0028, q

LEMMA Suite0028Chained == Suite(RFC0028Chained)
<1> DEFINE tip == FORK + MEDIAN_COUNT
           tx1 == always_success_transaction("tx1", Spendable(0))
           tx2 == Tx("tx2", OutputOf("tx1"), NoRule)
           ins == <<Propose(tip + 1, tx1), Propose(tip + 1, tx2), Commit(tip + 3, tx1), Commit(tip + 3, tx2)>>
<1>1. tip \in Int
  BY Fork DEF MEDIAN_COUNT
<1>2. RFC0028Chained = <<MineTo(tip), Build(tip + 3, ins, "Ok")>>
  BY DEF RFC0028Chained
<1> HIDE DEF tip, tx1, tx2
<1>3. \A k \in DOMAIN ins : ins[k].number \in Int
  BY <1>1, ProposeAndCommit
<1> HIDE DEF ins
<1>4. StepShape(Build(tip + 3, ins, "Ok")) /\ StepShape(MineTo(tip))
  BY <1>1, <1>3, BuildSteps, PlainSteps DEF Build
<1> QED
  BY <1>2, <1>4, Two

LEMMA Suite0029 == Suite(RFC0029)
<1>1. Suite(Deploy0029)
  <2>1. Deploy0029 \in Seq({Deploy(a, b) : a \in {"a1", "a2", "b1", "group_a1", "group_a2", "group_b1",
             "group_a1_a1", "group_a1_a2", "group_a1_b1"}, b \in {10, 3}})
    BY DEF Deploy0029
  <2> QED
    BY <2>1, PlainSteps DEF Suite
<1>2. ASSUME NEW height \in Int, NEW hash_type, NEW multiple
      PROVE  Suite(Cases0029(height, hash_type, multiple))
  <2> DEFINE expected(k) == IF CellDeps[k] = <<"a1", "a1">> THEN "DuplicateCellDeps"
                            ELSE IF k \in multiple THEN "MultipleMatches" ELSE "Ok"
             q == [k \in DOMAIN CellDeps |-> Case0029(height, hash_type, CellDeps[k], expected(k))]
  <2>1. DOMAIN CellDeps = 1..13
    BY DEF CellDeps
  <2>2. Len(q) = 13
    BY <2>1
  <2>3. \A k \in 1..13 : Suite(q[k])
    BY <2>1, OneCase DEF Case0029
  <2>4. Cases0029(height, hash_type, multiple) = FlattenSeq(q)
    BY DEF Cases0029
  <2> HIDE DEF q
  <2> QED
    BY <2>2, <2>3, <2>4, 13 \in Nat \ {0}, Flattened
<1>3. Suite(DataBefore) /\ Suite(TypeBefore) /\ Suite(DataAfter) /\ Suite(TypeAfter)
  BY <1>2, Fork DEF DataBefore, TypeBefore, DataAfter, TypeAfter
<1> QED
  BY <1>1, <1>3, Joined DEF RFC0029

LEMMA SequenceOf ==
  ASSUME NEW T, NEW n \in Nat, NEW f \in [1..n -> T]
  PROVE  f \in Seq(T) /\ Len(f) = n
OBVIOUS

LEMMA ElementOf ==
  ASSUME NEW T, NEW n \in Nat, NEW f \in Seq(T), Len(f) = n
  PROVE  f \in [1..n -> T]
OBVIOUS

LEMMA Concatenation ==
  ASSUME NEW T, NEW f \in Seq(T), NEW g \in Seq(T)
  PROVE  /\ f \o g \in Seq(T) /\ Len(f \o g) = Len(f) + Len(g)
         /\ \A k \in 1..Len(f) + Len(g) : (f \o g)[k] = IF k <= Len(f) THEN f[k] ELSE g[k - Len(f)]
OBVIOUS

Epochs == [relative : BOOLEAN, number : Int, index : Int, length : Int]
Since == Epochs \X Int

LEMMA EpochsSince ==
  /\ \A n, i, l \in Int : Abs(n, i, l) \in Epochs /\ Rel(n, i, l) \in Epochs
  /\ \A n, i, l \in Int : epoch_to_height(n, i, l) \in Int
BY DEF Epochs, Abs, Rel, epoch_to_height

LEMMA Tables2019 ==
  /\ Normal2019 \in Seq(Since) /\ Len(Normal2019) = 12
  /\ Edge2019 \in Seq(Since) /\ Len(Edge2019) = 14
<1>1. Normal2019 \in Seq(Since) /\ Len(Normal2019) = 12
  <2>1. /\ Abs(2, 0, 0) \in Epochs /\ Abs(2, 1, 0) \in Epochs /\ Abs(2, 0, 1) \in Epochs
        /\ Abs(1, 1, 1) \in Epochs /\ Abs(1, 2, 1) \in Epochs /\ Abs(2, 1, 2) \in Epochs
        /\ Rel(1, 0, 0) \in Epochs /\ Rel(1, 1, 0) \in Epochs /\ Rel(1, 0, 1) \in Epochs
        /\ Rel(0, 1, 1) \in Epochs /\ Rel(0, 5, 4) \in Epochs /\ Rel(0, 1, 2) \in Epochs
    BY EpochsSince
  <2> QED
    BY <2>1 DEF Normal2019, Since
<1>2. Edge2019 \in Seq(Since) /\ Len(Edge2019) = 14
  <2>1. /\ Abs(2, 999, 1000) \in Epochs /\ Abs(3, 0, 1000) \in Epochs
        /\ Abs(3, 0, 0) \in Epochs /\ Abs(3, 0, 1) \in Epochs /\ Abs(3, 1, 0) \in Epochs
        /\ Abs(3, 1, 1) \in Epochs /\ Abs(3, 1001, 1000) \in Epochs
    BY EpochsSince
  <2>2. /\ Rel(1, 999, 1000) \in Epochs /\ Rel(2, 0, 1000) \in Epochs
        /\ Rel(2, 0, 0) \in Epochs /\ Rel(2, 0, 1) \in Epochs /\ Rel(2, 1, 0) \in Epochs
        /\ Rel(2, 1, 1) \in Epochs /\ Rel(2, 1001, 1000) \in Epochs
    BY EpochsSince
  <2>3. epoch_to_height(2, 999, 1000) \in Int
    BY EpochsSince
  <2> QED
    BY <2>1, <2>2, <2>3 DEF Edge2019, Since
<1> QED
  BY <1>1, <1>2

LEMMA Tables2021 ==
  /\ Normal2021 \in Seq(Since) /\ Len(Normal2021) = 12
  /\ Edge2021 \in Seq(Since) /\ Len(Edge2021) = 14
<1>1. \A x \in Since : \A m \in Int : <<x[1], m>> \in Since
  BY DEF Since
<1>2. epoch_to_height(3, 0, 1000) \in Int
  BY EpochsSince
<1>3. Normal2021 \in [1..12 -> Since]
  <2>1. Normal2019 \in [1..12 -> Since]
    BY Tables2019, 12 \in Nat, ElementOf
  <2>2. DOMAIN Normal2019 = 1..12 /\ \A k \in 1..12 : Normal2019[k] \in Since
    BY <2>1
  <2>3. \A k \in 1..12 : <<Normal2019[k][1], 0>> \in Since
    BY <1>1, <2>2
  <2> QED
    BY <2>2, <2>3 DEF Normal2021
<1>4. Edge2021 \in [1..14 -> Since]
  <2>1. Edge2019 \in [1..14 -> Since]
    BY Tables2019, 14 \in Nat, ElementOf
  <2>2. DOMAIN Edge2019 = 1..14 /\ \A k \in 1..14 : Edge2019[k] \in Since
    BY <2>1
  <2>3. \A k \in 1..14 : <<Edge2019[k][1], epoch_to_height(3, 0, 1000)>> \in Since
    BY <1>1, <1>2, <2>2
  <2> QED
    BY <2>2, <2>3 DEF Edge2021
<1>5. Normal2021 \in Seq(Since) /\ Len(Normal2021) = 12
  BY <1>3, SequenceOf
<1>6. Edge2021 \in Seq(Since) /\ Len(Edge2021) = 14
  BY <1>4, SequenceOf
<1> QED
  BY <1>5, <1>6

LEMMA Suite0030 == Suite(RFC0030)
<1>1. ASSUME NEW since, NEW mature \in Int
      PROVE  Suite(Case0030(since, mature))
  <2> DEFINE tx == build_transaction_0030(since)
             ins == <<Propose(mature - 1 - 2, tx), Commit(mature - 1, tx)>>
             last == <<Commit(mature, tx)>>
  <2>1. CASE mature = 0
    <3>1. Case0030(since, mature) = <<>>
      BY <2>1 DEF Case0030
    <3> DEFINE T == {}
    <3>2. <<>> \in Seq(T) /\ \A x \in T : StepShape(x)
      OBVIOUS
    <3> HIDE DEF T
    <3> QED
      BY <3>1, <3>2, SuiteOf
  <2>2. CASE mature # 0
    <3>1. Case0030(since, mature) =
            <<CloneNode, Build(mature - 1, ins, "Immature"), Build(mature, last, "Ok")>>
      BY <2>2 DEF Case0030
    <3> HIDE DEF tx
    <3>2. /\ \A k \in DOMAIN ins : ins[k].number \in Int
          /\ \A k \in DOMAIN last : last[k].number \in Int
      BY ProposeAndCommit
    <3> HIDE DEF ins, last
    <3>3. StepShape(Build(mature - 1, ins, "Immature")) /\ StepShape(Build(mature, last, "Ok"))
      BY <3>2, BuildSteps DEF Build
    <3> QED
      BY <3>1, <3>3, Three, PlainSteps
  <2> QED
    BY <2>1, <2>2
<1> DEFINE cases == Normal2019 \o Edge2019 \o Normal2021 \o Edge2021
           q == [k \in DOMAIN cases |-> Case0030(cases[k][1], cases[k][2])]
<1>2. cases \in Seq(Since) /\ Len(cases) = 52
  <2> DEFINE t == Normal2019 \o Edge2019   u == t \o Normal2021
  <2>1. t \in Seq(Since) /\ Len(t) = 26
    <3>1. t \in Seq(Since) /\ Len(t) = Len(Normal2019) + Len(Edge2019)
      BY Tables2019, Concatenation
    <3> HIDE DEF t
    <3> QED
      BY <3>1, Tables2019
  <2> HIDE DEF t
  <2>2. u \in Seq(Since) /\ Len(u) = 38
    <3>1. u \in Seq(Since) /\ Len(u) = Len(t) + Len(Normal2021)
      BY <2>1, Tables2021, Concatenation
    <3> HIDE DEF u
    <3> QED
      BY <3>1, <2>1, Tables2021
  <2> HIDE DEF u
  <2>3. u \o Edge2021 \in Seq(Since) /\ Len(u \o Edge2021) = 52
    <3>1. u \o Edge2021 \in Seq(Since) /\ Len(u \o Edge2021) = Len(u) + Len(Edge2021)
      BY <2>2, Tables2021, Concatenation
    <3>2. PICK l : l = Len(u \o Edge2021)
      OBVIOUS
    <3> QED
      BY <3>1, <3>2, <2>2, Tables2021
  <2> QED
    BY <2>3 DEF t, u
<1>3. RFC0030 = <<MineTo(estimate_start_number_of_epoch(1))>> \o FlattenSeq(q)
  BY DEF RFC0030
<1> HIDE DEF cases
<1>4. Len(q) = 52 /\ \A k \in 1..52 : Suite(q[k])
  <2>1. cases \in [1..52 -> Since]
    BY <1>2, 52 \in Nat, ElementOf
  <2>2. DOMAIN cases = 1..52 /\ \A k \in 1..52 : cases[k] \in Since
    BY <2>1
  <2>3. \A k \in 1..52 : cases[k][2] \in Int
    BY <2>2 DEF Since
  <2> QED
    BY <1>1, <2>2, <2>3
<1> HIDE DEF q
<1>5. Suite(FlattenSeq(q))
  BY <1>4, 52 \in Nat \ {0}, Flattened
<1>6. estimate_start_number_of_epoch(1) \in Int
  BY DEF estimate_start_number_of_epoch, EPOCH_LENGTH
<1> QED
  BY <1>3, <1>5, <1>6, One, Joined, PlainSteps

LEMMA Suite0031 == Suite(RFC0031)
<1>1. ASSUME NEW height \in Int, NEW size, NEW expected
      PROVE  Suite(Case0031(height, size, expected))
  BY Three, PlainSteps DEF Case0031
<1>2. DOMAIN ExtensionSizes = 1..8
  BY DEF ExtensionSizes
<1> DEFINE q == ExtensionBefore \o ExtensionAfter
<1>3. Len(q) = 16 /\ \A k \in 1..16 : Suite(q[k])
  <2>1. /\ Len(ExtensionBefore) = 8 /\ DOMAIN ExtensionBefore = 1..8
        /\ \A k \in 1..8 : Suite(ExtensionBefore[k])
    BY <1>1, <1>2, Fork DEF ExtensionBefore
  <2>2. /\ Len(ExtensionAfter) = 8 /\ DOMAIN ExtensionAfter = 1..8
        /\ \A k \in 1..8 : Suite(ExtensionAfter[k])
    BY <1>1, <1>2, Fork DEF ExtensionAfter
  <2>3. \E T : ExtensionBefore \in Seq(T) /\ ExtensionAfter \in Seq(T)
    <3> DEFINE T == {ExtensionBefore[k] : k \in 1..8} \cup {ExtensionAfter[k] : k \in 1..8}
    <3>1. ExtensionBefore \in [1..8 -> T]
      BY <2>1 DEF ExtensionBefore
    <3>2. ExtensionAfter \in [1..8 -> T]
      BY <2>2 DEF ExtensionAfter
    <3> HIDE DEF T
    <3> QED
      BY <3>1, <3>2, 8 \in Nat, SequenceOf
  <2>4. PICK T : ExtensionBefore \in Seq(T) /\ ExtensionAfter \in Seq(T)
    BY <2>3
  <2>5. /\ Len(q) = Len(ExtensionBefore) + Len(ExtensionAfter)
        /\ \A k \in 1..Len(ExtensionBefore) + Len(ExtensionAfter) :
             q[k] = IF k <= Len(ExtensionBefore) THEN ExtensionBefore[k]
                    ELSE ExtensionAfter[k - Len(ExtensionBefore)]
    BY <2>4, Concatenation
  <2> HIDE DEF q
  <2>6. \A k \in 1..16 : k <= 8 => k \in 1..8
    OBVIOUS
  <2>7. \A k \in 1..16 : ~ (k <= 8) => k - 8 \in 1..8
    OBVIOUS
  <2> QED
    BY <2>1, <2>2, <2>5, <2>6, <2>7
<1> HIDE DEF q
<1>4. Suite(FlattenSeq(q))
  BY <1>3, 16 \in Nat \ {0}, Flattened
<1>5. Suite(<<MineTo(FORK - 6)>>)
  BY Fork, One, PlainSteps
<1> QED
  BY <1>4, <1>5, Joined DEF RFC0031, q

LEMMA Suite0032 == Suite(RFC0032)
<1>1. ASSUME NEW hash_type, NEW height \in Int, NEW expected
      PROVE  Suite(Case0032(hash_type, height, expected))
  BY Three, PlainSteps DEF Case0032
<1>2. FORK - HARDFORK_DELAY_WINDOW - 1 \in Int /\ FORK + HARDFORK_DELAY_WINDOW + 1 \in Int
  BY Fork DEF HARDFORK_DELAY_WINDOW
<1>3. Suite(VMBefore) /\ Suite(VMAfter)
  BY <1>1, <1>2, Joined DEF VMBefore, VMAfter
<1> QED
  BY <1>3, Joined DEF RFC0032

LEMMA Suite0034 == Suite(RFC0034)
<1>1. ASSUME NEW source, NEW place, NEW hash_type, NEW expected
      PROVE  Suite(Case0034(source, place, hash_type, expected))
  BY Two, PlainSteps DEF Case0034
<1>2. ASSUME NEW hash_type, NEW expected, NEW last_expected
      PROVE  Suite(Cases0034(hash_type, expected, last_expected))
  BY <1>1, Joined DEF Cases0034
<1>3. Suite(<<MineTo(FORK + 10), Deploy("exec_callee", 7), Deploy("exec_caller", 7)>>)
  BY Fork, Three, PlainSteps
<1> QED
  BY <1>2, <1>3, Joined DEF RFC0034

LEMMA Suite0036 == Suite(RFC0036)
<1>1. ASSUME NEW height \in Int, NEW expected PROVE Suite(Case0036(height, expected))
  BY OneCase DEF Case0036
<1>2. Suite(<<MineTo(FORK - 6)>>) /\ FORK - 1 \in Int /\ FORK \in Int
  BY Fork, One, PlainSteps
<1> QED
  BY <1>1, <1>2, Joined DEF RFC0036

LEMMA AllSuites == \A s \in DOMAIN Suites : Suite(Suites[s])
BY Suite0028, Suite0028Chained, Suite0029, Suite0030, Suite0031, Suite0032, Suite0034, Suite0036
   DEF Suites

-----------------------------------------------------------------------------
(* The invariant *)

ChainShape(ch) ==
  DOMAIN ch = {"tip", "blocks", "stamped", "side"} /\ ch.tip \in Int

NodesInv ==
  /\ suite \in DOMAIN Suites /\ pc \in Nat \ {0}
  /\ here \in {"node2021", "case"} /\ DOMAIN chain = {"node2021", "case"}
  /\ \A n \in {"node2021", "case"} : ChainShape(chain[n])
  /\ pool_tip \in Int

\* while it builds, the builder waits for the template of the block after the
\* tip, and for no other
BuilderInv ==
  phase = "build" =>
    /\ target_height \in Int /\ DOMAIN instructions_map \subseteq Int
    /\ next_template_number = chain[here].tip + 1

FInv == NodesInv /\ BuilderInv

LEMMA Heights == EpochDbTip \in Int /\ \A s : ChainShape(FreshChain(s)) /\ DbTip(s) \in Int
<1>1. EpochDbTip \in Int
  BY EpochDbAssumption DEF EPOCH_LENGTH
<1>2. \A s : DbTip(s) \in Int
  BY <1>1 DEF DbTip
<1> QED
  BY <1>1, <1>2 DEF ChainShape, FreshChain

LEMMA InitFInv == Init => FInv
<1> SUFFICES ASSUME Init PROVE FInv
  OBVIOUS
<1>1. DOMAIN chain = {"node2021", "case"} /\ \A n \in {"node2021", "case"} : chain[n] = FreshChain(suite)
  BY DEF Init
<1>2. NodesInv
  BY <1>1, Heights DEF Init, NodesInv
<1>3. BuilderInv
  BY DEF Init, BuilderInv
<1> QED
  BY <1>2, <1>3 DEF FInv

\* what the step says that a suite is at
LEMMA StepAt ==
  ASSUME NodesInv, NEW op, At(op)
  PROVE  StepShape(Step) /\ Step.op = op /\ phase = "run"
<1>1. Suite(Suites[suite])
  BY AllSuites DEF NodesInv
<1>2. PICK T : Suites[suite] \in Seq(T) /\ \A x \in T : StepShape(x)
  BY <1>1 DEF Suite
<1>3. pc \in 1..Len(Suites[suite])
  BY <1>2 DEF At, NodesInv
<1>4. Suites[suite][pc] \in T
  BY <1>2, <1>3
<1> QED
  BY <1>2, <1>4 DEF At, Step

\* a step of the runner that changes neither the chains nor the node
LEMMA ChainsKept ==
  ASSUME NodesInv, pc' \in Nat \ {0}, UNCHANGED <<suite, here, chain>>, pool_tip' \in Int
  PROVE  NodesInv'
BY DEF NodesInv

\* one that changes the chain of the node it drives
LEMMA ChainReplaced ==
  ASSUME NodesInv, pc' \in Nat \ {0}, UNCHANGED <<suite, here>>, pool_tip' \in Int,
         NEW ch, ChainShape(ch), chain' = [chain EXCEPT ![here] = ch]
  PROVE  NodesInv'
BY DEF NodesInv

LEMMA ReturnsInv ==
  ASSUME NodesInv, NEW result, Returns(result)
  PROVE  pc' \in Nat \ {0} /\ phase' # "build"
BY DEF Returns, NodesInv

LEMMA SubmittedShape ==
  ASSUME NEW ch, ChainShape(ch), NEW number \in Int, NEW blocks
  PROVE  /\ ChainShape(Submitted(ch, number, blocks))
         /\ number > ch.tip => /\ Submitted(ch, number, blocks).tip = number
                               /\ Submitted(ch, number, blocks).side = ch.side
BY DEF ChainShape, Submitted

LEMMA StartBuildInv ==
  ASSUME FInv, phase = "run", NEW ins, NEW target \in Int, NEW stamped,
         \A k \in DOMAIN ins : ins[k].number \in Int,
         StartBuild(ins, target, stamped)
  PROVE  FInv'
<1>1. ChainShape(chain[here])
  BY DEF FInv, NodesInv
<1>2. CASE stamped.from <= stamped.to
  <2> DEFINE ch == [chain[here] EXCEPT !.stamped = stamped]
  <2>1. ChainShape(ch) /\ ch.tip = chain[here].tip
    BY <1>1 DEF ChainShape
  <2>2. chain' = [chain EXCEPT ![here] = ch]
    BY <1>2 DEF StartBuild
  <2> HIDE DEF ch
  <2>3. NodesInv'
    BY <2>1, <2>2, ChainReplaced DEF StartBuild, runner, FInv, NodesInv
  <2>4. chain'[here].tip = chain[here].tip
    BY <2>1, <2>2 DEF FInv, NodesInv
  <2>5. DOMAIN instructions_map' \subseteq Int
    BY DEF StartBuild, InstructionsMap
  <2>6. BuilderInv'
    BY <2>4, <2>5 DEF BuilderInv, StartBuild, runner
  <2> QED
    BY <2>3, <2>6 DEF FInv
<1>3. CASE ~ (stamped.from <= stamped.to)
  <2>1. chain' = chain
    BY <1>3 DEF StartBuild
  <2>2. NodesInv'
    BY <2>1, ChainsKept DEF StartBuild, runner, FInv, NodesInv
  <2>3. DOMAIN instructions_map' \subseteq Int
    BY DEF StartBuild, InstructionsMap
  <2>4. BuilderInv'
    BY <2>1, <2>3 DEF BuilderInv, StartBuild, runner
  <2> QED
    BY <2>2, <2>4 DEF FInv
<1> QED
  BY <1>2, <1>3

\* the last of the blocks without instructions that are built in one go
LastPlain(later, target) ==
  CHOOSE n \in {m - 1 : m \in later} \cup {target} : \A m \in later : n < m

\* it is not below the first, whatever is left to build
LEMMA LastNotBelowFirst ==
  ASSUME NEW later \in SUBSET Int, NEW first \in Int, NEW target \in Int,
         first <= target, \A m \in later : m > first
  PROVE  LastPlain(later, target) \in Int /\ LastPlain(later, target) >= first
<1> DEFINE ends == {m - 1 : m \in later} \cup {target}
           last == CHOOSE n \in ends : \A m \in later : n < m
<1>1. \A n \in ends : n \in Int /\ n >= first
  OBVIOUS
<1>2. \E n \in ends : \A m \in later : n < m
  <2>1. CASE later = {}
    BY <2>1
  <2>2. CASE later # {}
    <3> DEFINE above == {m - first : m \in later}
    <3>1. above \in SUBSET Nat /\ above # {}
      <4>1. \A m \in later : m - first \in Nat
        OBVIOUS
      <4>2. PICK m : m \in later
        BY <2>2
      <4> QED
        BY <4>1, <4>2
    <3>2. \E x \in above : \A y \in above : x <= y
      <4> HIDE DEF above
      <4> QED
        BY <3>1, LeastNumber
    <3>3. PICK m \in later : \A k \in later : m - first <= k - first
      BY <3>2
    <3>4. \A k \in later : m - 1 < k
      BY <3>3
    <3> QED
      BY <3>4
  <2> QED
    BY <2>1, <2>2
<1>3. last \in ends
  <2> HIDE DEF ends
  <2> QED
    BY <1>2
<1> HIDE DEF last
<1>4. last \in Int /\ last >= first
  <2> HIDE DEF ends
  <2> QED
    BY <1>1, <1>3
<1> QED
  BY <1>4 DEF last, LastPlain

\* one block or several of the builder: they extend the chain it drives
LEMMA BuiltInv ==
  ASSUME FInv, phase = "build", UNCHANGED <<suite, here, pc, pool_tip, target_height>>,
         NEW number \in Int, number > chain[here].tip, NEW blocks,
         chain' = [chain EXCEPT ![here] = Submitted(chain[here], number, blocks)],
         next_template_number' = number + 1,
         DOMAIN instructions_map' \subseteq DOMAIN instructions_map
  PROVE  FInv' /\ \A n \in DOMAIN chain : chain'[n].side = chain[n].side
<1> DEFINE ch == Submitted(chain[here], number, blocks)
<1>1. ChainShape(ch) /\ ch.tip = number /\ ch.side = chain[here].side
  BY SubmittedShape DEF FInv, NodesInv
<1>2. chain' = [chain EXCEPT ![here] = ch]
  OBVIOUS
<1> HIDE DEF ch
<1>3. NodesInv'
  BY <1>1, <1>2, ChainReplaced DEF FInv, NodesInv
<1>4. chain'[here] = ch
  BY <1>2 DEF FInv, NodesInv
<1>5. target_height' \in Int /\ DOMAIN instructions_map' \subseteq Int
  BY DEF FInv, BuilderInv
<1>6. BuilderInv'
  BY <1>1, <1>4, <1>5 DEF BuilderInv
<1>7. \A n \in DOMAIN chain : chain'[n].side = chain[n].side
  BY <1>1, <1>2
<1> QED
  BY <1>3, <1>6, <1>7 DEF FInv

-----------------------------------------------------------------------------
(* The steps *)

OnTheTip == phase = "build" => \A n \in DOMAIN chain : chain'[n].side = chain[n].side

LEMMA MineStep == ASSUME FInv, mine_to PROVE FInv' /\ OnTheTip
<1> DEFINE ch == chain[here]   mined == Mined(ch, Step.height)
<1>1. StepShape(Step) /\ Step.op = "mine_to" /\ phase = "run"
  BY StepAt DEF mine_to, FInv
<1>2. PICK h \in Int : h = Step.height
  BY <1>1 DEF StepShape
<1>3. ChainShape(ch)
  BY DEF FInv, NodesInv
<1>4. ChainShape(Mined(ch, h))
  BY <1>3 DEF Mined, ChainShape
<1>5. chain' = [chain EXCEPT ![here] = mined] /\ ChainShape(mined)
  BY <1>2, <1>4 DEF mine_to
<1>6. pool_tip' \in Int
  <2>1. pool_tip' = IF mined = ch THEN pool_tip ELSE mined.tip
    BY DEF mine_to
  <2> HIDE DEF mined, ch
  <2> QED
    BY <1>5, <2>1 DEF ChainShape, FInv, NodesInv
<1>7. pc' \in Nat \ {0} /\ UNCHANGED <<suite, here>> /\ phase' = "run"
  BY <1>1 DEF mine_to, FInv, NodesInv, runner
<1> HIDE DEF mined, ch
<1>8. NodesInv'
  BY <1>5, <1>6, <1>7, ChainReplaced DEF FInv
<1> QED
  BY <1>1, <1>7, <1>8 DEF FInv, BuilderInv, OnTheTip

LEMMA CloneStep == ASSUME FInv, clone_node PROVE FInv' /\ OnTheTip
<1> DEFINE ch == pull_node(FreshChain(suite), chain.node2021)
<1>1. phase = "run" /\ phase' = "run" /\ here' = "case" /\ suite' = suite /\ pc' = pc + 1
      /\ pool_tip' = DbTip(suite) /\ chain' = [chain EXCEPT !.case = ch]
  BY DEF clone_node, At
<1>2. ChainShape(chain.node2021)
  BY DEF FInv, NodesInv
<1>3. ChainShape(ch)
  BY <1>2 DEF pull_node, ChainShape
<1> HIDE DEF ch
<1>4. /\ DOMAIN chain' = {"node2021", "case"}
      /\ \A n \in {"node2021", "case"} : ChainShape(chain'[n])
  BY <1>1, <1>3 DEF FInv, NodesInv
<1>5. NodesInv'
  BY <1>1, <1>4, Heights DEF FInv, NodesInv
<1> QED
  BY <1>1, <1>5 DEF FInv, BuilderInv, OnTheTip

LEMMA SetupStep == ASSUME FInv, setup_node PROVE FInv' /\ OnTheTip
<1>1. phase = "run" /\ phase' = "run" /\ UNCHANGED <<suite, here>> /\ pc' = pc + 1
      /\ pool_tip' = DbTip(suite) /\ chain' = [chain EXCEPT ![here] = FreshChain(suite)]
  BY DEF setup_node, At, runner
<1>2. pc' \in Nat \ {0}
  BY <1>1 DEF FInv, NodesInv
<1>3. NodesInv'
  BY <1>1, <1>2, Heights, ChainReplaced DEF FInv
<1> QED
  BY <1>1, <1>3 DEF FInv, BuilderInv, OnTheTip

LEMMA DeployStep == ASSUME FInv, deploy PROVE FInv' /\ OnTheTip
<1> DEFINE ch == chain[here]   ins == deploy_instructions(ch)
<1>1. phase = "run" /\ StartBuild(ins, ch.tip + 3, NoStamps)
  BY DEF deploy, At
<1>2. ch.tip \in Int
  BY DEF FInv, NodesInv, ChainShape
<1>3. \A k \in DOMAIN ins : ins[k].number \in Int
  <2>1. PICK tx : ins = <<Propose(ch.tip + 1, tx), Commit(ch.tip + 3, tx)>>
    BY DEF deploy_instructions
  <2> HIDE DEF ins
  <2>2. ch.tip + 1 \in Int /\ ch.tip + 3 \in Int
    BY <1>2
  <2>3. Propose(ch.tip + 1, tx).number \in Int /\ Commit(ch.tip + 3, tx).number \in Int
    BY <2>2, ProposeAndCommit
  <2> QED
    BY <2>1, <2>3
<1>4. ch.tip + 3 \in Int
  BY <1>2
<1> HIDE DEF ins, ch
<1>5. FInv'
  BY <1>1, <1>3, <1>4, StartBuildInv
<1> QED
  BY <1>1, <1>5 DEF OnTheTip

LEMMA BuildStep == ASSUME FInv, build_according_to_instructions PROVE FInv' /\ OnTheTip
<1>1. /\ StepShape(Step) /\ Step.op = "build" /\ phase = "run"
      /\ StartBuild(Step.ins, Step.target, Step.stamped)
  BY StepAt DEF build_according_to_instructions, FInv
<1>2. Step.target \in Int /\ \A k \in DOMAIN Step.ins : Step.ins[k].number \in Int
  BY <1>1 DEF StepShape
<1>3. FInv'
  BY <1>1, <1>2, StartBuildInv
<1> QED
  BY <1>1, <1>3 DEF OnTheTip

LEMMA BuildPlainStep == ASSUME FInv, BuildPlain PROVE FInv' /\ OnTheTip
<1> DEFINE last == LastPlain(Later, target_height)
<1>1. /\ phase = "build" /\ target_height \in Int /\ Later \in SUBSET Int
      /\ chain[here].tip \in Int
  BY DEF FInv, NodesInv, BuilderInv, BuildPlain, TemplateFits, Later, ChainShape
<1>2. /\ template_number = chain[here].tip + 1 /\ template_number <= target_height
      /\ \A m \in Later : m > template_number
  BY DEF FInv, BuilderInv, BuildPlain, TemplateFits, Later
<1>3. last \in Int /\ last >= template_number
  <2>1. template_number \in Int
    BY <1>1, <1>2
  <2> QED
    BY <1>1, <1>2, <2>1, LastNotBelowFirst
<1>4. /\ UNCHANGED <<suite, here, pc, pool_tip, instructions_map, target_height>>
      /\ chain' = [chain EXCEPT ![here] = Submitted(chain[here], last, {})]
      /\ next_template_number' = last + 1
  BY DEF BuildPlain, LastPlain, runner
<1> HIDE DEF last
<1>5. last > chain[here].tip
  BY <1>1, <1>2, <1>3
<1> QED
  BY <1>1, <1>3, <1>4, <1>5, BuiltInv DEF OnTheTip

LEMMA BuildInstructedStep == ASSUME FInv, BuildInstructed PROVE FInv' /\ OnTheTip
<1>1. /\ phase = "build" /\ chain[here].tip \in Int
      /\ template_number = chain[here].tip + 1
      /\ UNCHANGED <<suite, here, pool_tip, target_height>>
  BY DEF FInv, NodesInv, BuilderInv, BuildInstructed, TemplateFits, ChainShape, runner
<1>2. CASE chain' # chain
  <2> DEFINE blocks == {InstructedBlock}
  <2>1. /\ chain' = [chain EXCEPT ![here] = Submitted(chain[here], template_number, blocks)]
        /\ instructions_map' = Restrict(instructions_map, DOMAIN instructions_map \ {template_number})
        /\ next_template_number' = template_number + 1 /\ UNCHANGED pc
    BY <1>2 DEF BuildInstructed
  <2> HIDE DEF blocks
  <2>2. DOMAIN instructions_map' \subseteq DOMAIN instructions_map
    BY <2>1 DEF Restrict
  <2>3. template_number \in Int /\ template_number > chain[here].tip
    BY <1>1
  <2> QED
    BY <1>1, <2>1, <2>2, <2>3, BuiltInv DEF OnTheTip
<1>3. CASE chain' = chain
  <2>1. CASE \E error \in BlockErrors(chain[here], InstructedBlock) : Returns(error)
    <3>1. pc' \in Nat \ {0} /\ phase' # "build"
      BY <2>1, ReturnsInv DEF FInv
    <3>2. NodesInv'
      BY <1>1, <1>3, <3>1, ChainsKept DEF FInv, NodesInv
    <3> QED
      BY <1>3, <3>1, <3>2 DEF FInv, BuilderInv, OnTheTip
  <2>2. CASE ~ \E error \in BlockErrors(chain[here], InstructedBlock) : Returns(error)
    <3> DEFINE blocks == {InstructedBlock}
    <3>1. /\ chain' = [chain EXCEPT ![here] = Submitted(chain[here], template_number, blocks)]
          /\ instructions_map' = Restrict(instructions_map, DOMAIN instructions_map \ {template_number})
          /\ next_template_number' = template_number + 1 /\ UNCHANGED pc
      BY <2>2 DEF BuildInstructed
    <3> HIDE DEF blocks
    <3>2. DOMAIN instructions_map' \subseteq DOMAIN instructions_map
      BY <3>1 DEF Restrict
    <3>3. template_number \in Int /\ template_number > chain[here].tip
      BY <1>1
    <3> QED
      BY <1>1, <3>1, <3>2, <3>3, BuiltInv DEF OnTheTip
  <2> QED
    BY <2>1, <2>2
<1> QED
  BY <1>2, <1>3

\* steps that leave the chains alone and are not part of a build afterwards
LEMMA QuietStep ==
  ASSUME FInv, UNCHANGED <<suite, here, chain, pool_tip>>, NEW result, Returns(result)
  PROVE  FInv' /\ OnTheTip
<1>1. pc' \in Nat \ {0} /\ phase' # "build"
  BY ReturnsInv DEF FInv
<1>2. NodesInv'
  BY <1>1, ChainsKept DEF FInv, NodesInv
<1> QED
  BY <1>1, <1>2 DEF FInv, BuilderInv, OnTheTip

LEMMA SubmitStep == ASSUME FInv, submit_block PROVE FInv' /\ OnTheTip
<1>1. phase = "run" /\ UNCHANGED <<suite, here, pool_tip>> /\ \E result : Returns(result)
  BY DEF submit_block, At, runner
<1>2. pc' \in Nat \ {0} /\ phase' # "build"
  BY <1>1, ReturnsInv DEF FInv
<1>3. CASE chain' = chain
  BY <1>1, <1>2, <1>3, ChainsKept DEF FInv, NodesInv, BuilderInv, OnTheTip
<1>4. CASE chain' # chain
  <2> DEFINE ch == Submitted(chain[here], template_number, {})
  <2>1. chain' = [chain EXCEPT ![here] = ch]
    BY <1>4 DEF submit_block
  <2>2. template_number \in Int /\ ChainShape(chain[here])
    BY DEF FInv, NodesInv, template_number
  <2>3. ChainShape(ch)
    BY <2>2, SubmittedShape
  <2> HIDE DEF ch
  <2>4. NodesInv'
    BY <1>1, <1>2, <2>1, <2>3, ChainReplaced DEF FInv, NodesInv
  <2> QED
    BY <1>1, <1>2, <2>4 DEF FInv, BuilderInv, OnTheTip
<1> QED
  BY <1>3, <1>4

LEMMA PoolStep == ASSUME FInv, UpdatePool PROVE FInv' /\ OnTheTip
<1>1. UNCHANGED <<suite, here, pc, phase, chain, builder>> /\ pool_tip' = chain[here].tip
  BY DEF UpdatePool, runner
<1>2. pool_tip' \in Int /\ pc' \in Nat \ {0}
  BY <1>1 DEF FInv, NodesInv, ChainShape
<1>3. NodesInv'
  BY <1>1, <1>2, ChainsKept DEF FInv
<1>4. BuilderInv'
  BY <1>1 DEF FInv, BuilderInv, builder
<1> QED
  BY <1>1, <1>3, <1>4 DEF FInv, OnTheTip

LEMMA FStep == ASSUME FInv, [Next]_vars PROVE FInv' /\ (OnTheTip \/ UNCHANGED vars)
<1>1. CASE Runner
  <2>1. CASE BuildEnd
    BY <2>1, QuietStep DEF BuildEnd, runner
  <2>2. CASE send_transactions
    <3>1. UNCHANGED <<suite, here, chain, pool_tip>> /\ \E result : Returns(result)
      BY <2>2 DEF send_transactions, runner
    <3> QED
      BY <3>1, QuietStep
  <2>3. CASE Pass
    <3>1. /\ phase = "run" /\ phase' = "passed"
          /\ UNCHANGED <<suite, here, pc, chain, pool_tip>>
      BY <2>3 DEF Pass, runner
    <3>2. NodesInv'
      BY <3>1, ChainsKept DEF FInv, NodesInv
    <3> QED
      BY <3>1, <3>2 DEF FInv, BuilderInv, OnTheTip
  <2> QED
    BY <1>1, <2>1, <2>2, <2>3, MineStep, CloneStep, SetupStep, DeployStep, BuildStep,
       BuildPlainStep, BuildInstructedStep, SubmitStep DEF Runner
<1>2. CASE UpdatePool
  BY <1>2, PoolStep
<1>3. CASE UNCHANGED vars
  BY <1>3 DEF vars, runner, builder, FInv, NodesInv, BuilderInv
<1> QED
  BY <1>1, <1>2, <1>3 DEF Next

\* The builder never makes a sibling of a block: whenever it submits one, its
\* number is the one after the tip, though the template comes from a pool
\* that may be behind (Node::build_according_to_instructions, the check of
\* template_number against next_template_number).
THEOREM BuildsOnTheTipHolds == Spec => BuildsOnTheTip
<1>1. Init => FInv
  BY InitFInv
<1>2. FInv /\ [Next]_vars => FInv' /\ [OnTheTip]_vars
  BY FStep
<1> QED
  BY <1>1, <1>2, PTL DEF Spec, BuildsOnTheTip, OnTheTip
=============================================================================

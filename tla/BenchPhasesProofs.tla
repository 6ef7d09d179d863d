--------------------------- MODULE BenchPhasesProofs ---------------------------
(***************************************************************************)
(* Theorems about the phases of the bench subcommand, for any nodes, any   *)
(* transactions and any number of empty blocks that the zero load asks     *)
(* for, as long as a node may be fewer blocks behind than that.            *)
(*                                                                         *)
(* No state shows all of what is_zero_load has found: each node is looked  *)
(* at at a moment of its own.  What the nodes that were found idle know of *)
(* the rest is in the invariant: whatever is still to be committed, or was *)
(* committed lately, is found at a node that is still to be looked at.     *)
(***************************************************************************)
EXTENDS BenchPhases, WellFoundedInduction, FiniteSetTheorems, SequenceTheorems, TLAPS

All == Old \cup Txs

\* Every chain is a beginning of blocks, and none lags too far behind.
ChainInv ==
  /\ blocks \in Seq(SUBSET All) /\ Len(blocks) <= MaxBlocks
  /\ tip \in [Node -> 0..Len(blocks)]
  /\ \A n \in Node : Len(blocks) <= tip[n] + MaxLag

\* A pool holds nothing that the chain of its node has committed, and no
\* transaction is committed twice.
PoolInv ==
  /\ pool \in [Node -> SUBSET All]
  /\ \A n \in Node : \A tx \in pool[n] : \A b \in 1..Len(blocks) :
       tx \in blocks[b] => tip[n] < b
  /\ \A a, b \in 1..Len(blocks) : \A tx \in blocks[a] : tx \in blocks[b] => a = b

WatchInv ==
  /\ phase \in {"warm-up", "bench", "cool-down", "report"}
  /\ passed \in SUBSET Node
  /\ reading = {} \/ \E n \in Node \ passed : reading = {n}
  /\ zero_load_number \in 0..Len(blocks) /\ fixed_tip_number \in 0..Len(blocks)
  /\ phase = "bench" => reading = {} /\ passed = {}
  /\ phase = "report" => passed = Node

Uncommitted(tx) == \A b \in 1..Len(blocks) : tx \notin blocks[b]

\* What is still to be committed is in a pool that is still to be looked at.
PendingInv ==
  \A n \in Node : \A tx \in pool[n] :
    Uncommitted(tx) => \E m \in Node \ (passed \cup reading) : tx \in pool[m]

\* A block that is not empty and not N_BLOCKS deep has a transaction in such a
\* pool, or is in the chain of a node that has not passed.
RecentInv ==
  \A b \in 1..Len(blocks) : blocks[b] # {} =>
    \/ b + N_BLOCKS <= Len(blocks)
    \/ \E m \in Node \ passed : b <= tip[m]
    \/ \E m \in Node \ (passed \cup reading) : \E tx \in blocks[b] : tx \in pool[m]

\* The report begins above what others sent, and ends above what the bench sent.
RangeInv ==
  /\ phase = "warm-up" =>
       /\ \A n \in Node : pool[n] \cap Txs = {}
       /\ \A b \in 1..Len(blocks) : blocks[b] \cap Txs = {}
  /\ phase # "warm-up" =>
       /\ \A n \in Node : \A tx \in pool[n] : Uncommitted(tx) => tx \notin Old
       /\ \A b \in 1..Len(blocks) :
            IF b <= zero_load_number THEN blocks[b] \cap Txs = {} ELSE blocks[b] \cap Old = {}
  /\ phase = "report" =>
       \A b \in 1..Len(blocks) : blocks[b] # {} => b < fixed_tip_number

PhasesInv == ChainInv /\ PoolInv /\ WatchInv /\ PendingInv /\ RecentInv /\ RangeInv

----------------------------------------------------------------------------
(* Lemmas *)

LEMMA LeastNumber ==
  ASSUME NEW T \in SUBSET Nat, T # {}
  PROVE  \E x \in T : \A y \in T : x <= y
<1> DEFINE Less == {ss \in Nat \X Nat : ss[1] < ss[2]}
<1>1. IsWellFoundedOn(Less, Nat)
  BY NatLessThanWellFounded DEF OpToRel
<1>2. PICK x \in T : \A y \in T : ~ (<<y, x>> \in Less)
  <2> HIDE DEF Less
  <2> QED
    BY <1>1, WFMin
<1>3. ASSUME NEW y \in T, y < x
      PROVE  FALSE
  <2>1. <<y, x>> \in Nat \X Nat /\ <<y, x>>[1] < <<y, x>>[2]
    BY <1>3
  <2>2. <<y, x>> \in Less
    BY <2>1
  <2>3. QED
    BY <1>2, <2>2
<1>4. QED
  BY <1>3

\* get_fixed_header finds a number that all nodes have, less than N_BLOCKS below
\* the end of the chain.
LEMMA FixedHeaderFacts ==
  ASSUME ChainInv
  PROVE  /\ FixedHeader \in 0..Len(blocks)
         /\ Len(blocks) < FixedHeader + N_BLOCKS
<1>1. Len(blocks) \in Nat /\ \A n \in Node : tip[n] \in 0..Len(blocks)
  BY LenProperties DEF ChainInv
<1>2. PICK T : T = {tip[n] : n \in Node}
  OBVIOUS
<1>3. T \in SUBSET Nat /\ T # {}
  BY <1>1, <1>2, NodeAssumption
<1>4. \E x \in T : \A y \in T : x <= y
  BY <1>3, LeastNumber
<1>5. \E x \in T : \A n \in Node : x <= tip[n]
  BY <1>2, <1>4
<1>6. FixedHeader = CHOOSE number \in T : \A n \in Node : number <= tip[n]
  BY <1>2 DEF FixedHeader
<1>7. FixedHeader \in T
  BY <1>5, <1>6
<1>8. PICK n \in Node : FixedHeader = tip[n]
  BY <1>2, <1>7
<1>9. Len(blocks) <= tip[n] + MaxLag /\ tip[n] \in 0..Len(blocks)
  BY <1>1 DEF ChainInv
<1>10. QED
  BY <1>1, <1>8, <1>9, LagAssumption

LEMMA PInit ==
  ASSUME Init
  PROVE  PhasesInv
<1>1. /\ blocks = <<>> /\ tip = [n \in Node |-> 0] /\ pool \in [Node -> SUBSET Old]
      /\ phase = "warm-up" /\ passed = {} /\ reading = {}
      /\ zero_load_number = 0 /\ fixed_tip_number = 0
  BY DEF Init
<1>2. blocks \in Seq(SUBSET All) /\ Len(blocks) = 0
  BY <1>1
<1>3. ChainInv
  BY <1>1, <1>2, LagAssumption, MaxBlocksAssumption DEF ChainInv
<1>4. PoolInv
  BY <1>1, <1>2 DEF PoolInv, All
<1>5. WatchInv
  BY <1>1, <1>2 DEF WatchInv
<1>6. PendingInv /\ RecentInv
  BY <1>1, <1>2 DEF PendingInv, RecentInv
<1>7. RangeInv
  <2>1. \A n \in Node : pool[n] \cap Txs = {}
    BY <1>1, TxsAssumption
  <2>2. QED
    BY <1>1, <1>2, <2>1 DEF RangeInv
<1>8. QED
  BY <1>3, <1>4, <1>5, <1>6, <1>7 DEF PhasesInv

----------------------------------------------------------------------------
(* The nodes *)

\* What a new block does to the chain
LEMMA MineFacts ==
  ASSUME ChainInv, NEW n \in Node, PoolInv, Mine(n)
  PROVE  \E txs \in SUBSET pool[n] :
           /\ blocks' \in Seq(SUBSET All) /\ Len(blocks') = Len(blocks) + 1
           /\ \A b \in 1..Len(blocks) : blocks'[b] = blocks[b]
           /\ blocks'[Len(blocks) + 1] = txs
           /\ pool' = [pool EXCEPT ![n] = @ \ txs]
<1>1. PICK txs \in SUBSET pool[n] :
         blocks' = Append(blocks, txs) /\ pool' = [pool EXCEPT ![n] = @ \ txs]
  BY DEF Mine
<1>2. blocks \in Seq(SUBSET All) /\ txs \in SUBSET All
  BY DEF ChainInv, PoolInv
<1>3. /\ blocks' \in Seq(SUBSET All) /\ Len(blocks') = Len(blocks) + 1
      /\ \A b \in 1..Len(blocks) : blocks'[b] = blocks[b]
      /\ blocks'[Len(blocks) + 1] = txs
  BY <1>1, <1>2, AppendProperties
<1>4. QED
  BY <1>1, <1>3

\* What a node holds when it mines is still to be committed.
LEMMA MinedIsUncommitted ==
  ASSUME ChainInv, PoolInv, NEW n \in Node, tip[n] = Len(blocks), NEW tx \in pool[n]
  PROVE  Uncommitted(tx)
<1>1. Len(blocks) \in Nat
  BY LenProperties DEF ChainInv
<1>2. ASSUME NEW b \in 1..Len(blocks), tx \in blocks[b]
      PROVE  FALSE
  BY <1>1, <1>2 DEF PoolInv
<1>3. QED
  BY <1>2 DEF Uncommitted

LEMMA PMine ==
  ASSUME PhasesInv, NEW n \in Node, Mine(n)
  PROVE  PhasesInv'
<1>0. ChainInv /\ PoolInv /\ WatchInv /\ PendingInv /\ RecentInv /\ RangeInv
  BY DEF PhasesInv
<1>1. PICK txs \in SUBSET pool[n] :
         /\ blocks' \in Seq(SUBSET All) /\ Len(blocks') = Len(blocks) + 1
         /\ \A b \in 1..Len(blocks) : blocks'[b] = blocks[b]
         /\ blocks'[Len(blocks) + 1] = txs
         /\ pool' = [pool EXCEPT ![n] = @ \ txs]
  BY <1>0, MineFacts
<1>2. /\ tip[n] = Len(blocks) /\ Len(blocks) < MaxBlocks
      /\ \A m \in Node : Len(blocks) < tip[m] + MaxLag
      /\ tip' = [tip EXCEPT ![n] = @ + 1]
      /\ UNCHANGED <<phase, passed, reading, zero_load_number, fixed_tip_number>>
  BY DEF Mine, numbers
<1>3. /\ Len(blocks) \in Nat /\ \A m \in Node : tip[m] \in 0..Len(blocks)
      /\ MaxLag \in Nat /\ N_BLOCKS \in Nat
  BY <1>0, LenProperties, LagAssumption DEF ChainInv
<1>4. /\ \A m \in Node : tip'[m] = IF m = n THEN tip[m] + 1 ELSE tip[m]
      /\ \A m \in Node : pool'[m] = IF m = n THEN pool[m] \ txs ELSE pool[m]
  BY <1>0, <1>1, <1>2 DEF ChainInv, PoolInv
<1>5. \A tx \in txs : Uncommitted(tx)
  BY <1>0, <1>2, MinedIsUncommitted
<1>6. \A b \in 1..Len(blocks') : b \in 1..Len(blocks) \/ b = Len(blocks) + 1
  BY <1>1, <1>3
<1>7. ChainInv'
  <2>1. tip' \in [Node -> 0..Len(blocks')]
    BY <1>0, <1>1, <1>2, <1>3 DEF ChainInv
  <2>2. \A m \in Node : Len(blocks') <= tip'[m] + MaxLag
    BY <1>1, <1>2, <1>3, <1>4
  <2>3. Len(blocks') <= MaxBlocks
    BY <1>1, <1>2, <1>3, MaxBlocksAssumption
  <2>4. QED
    BY <1>1, <2>1, <2>2, <2>3 DEF ChainInv
<1>8. PoolInv'
  <2>1. pool' \in [Node -> SUBSET All]
    BY <1>0, <1>1 DEF PoolInv
  <2>2. ASSUME NEW m \in Node, NEW tx \in pool'[m], NEW b \in 1..Len(blocks'), tx \in blocks'[b]
        PROVE  tip'[m] < b
    <3>1. CASE b = Len(blocks) + 1
      <4>1. m # n
        <5>1. tx \in txs /\ tx \in pool'[m]
          BY <1>1, <2>2, <3>1
        <5>2. QED
          BY <1>4, <5>1
      <4>2. QED
        BY <1>3, <1>4, <3>1, <4>1
    <3>2. CASE b \in 1..Len(blocks)
      <4>1. tx \in pool[m] /\ tx \in blocks[b]
        BY <1>1, <1>4, <2>2, <3>2
      <4>2. tip[m] < b
        BY <1>0, <3>2, <4>1 DEF PoolInv
      <4>3. m # n
        BY <1>2, <1>3, <3>2, <4>2
      <4>4. QED
        BY <1>4, <4>2, <4>3
    <3>3. QED
      BY <1>6, <3>1, <3>2
  <2>3. ASSUME NEW a \in 1..Len(blocks'), NEW b \in 1..Len(blocks'), NEW tx \in blocks'[a],
               tx \in blocks'[b]
        PROVE  a = b
    <3>1. CASE a \in 1..Len(blocks) /\ b \in 1..Len(blocks)
      BY <1>0, <1>1, <2>3, <3>1 DEF PoolInv
    <3>2. CASE a = Len(blocks) + 1 /\ b \in 1..Len(blocks)
      BY <1>1, <1>5, <2>3, <3>2 DEF Uncommitted
    <3>3. CASE b = Len(blocks) + 1 /\ a \in 1..Len(blocks)
      BY <1>1, <1>5, <2>3, <3>3 DEF Uncommitted
    <3>4. QED
      BY <1>6, <3>1, <3>2, <3>3
  <2>4. QED
    BY <2>1, <2>2, <2>3 DEF PoolInv
<1>9. WatchInv'
  <2>1. zero_load_number \in 0..Len(blocks') /\ fixed_tip_number \in 0..Len(blocks')
    BY <1>0, <1>1, <1>3 DEF WatchInv
  <2>2. QED
    BY <1>0, <1>2, <2>1 DEF WatchInv
<1>10. \A tx : Uncommitted(tx)' => Uncommitted(tx) /\ tx \notin txs
  <2>1. ASSUME NEW tx, Uncommitted(tx)'
        PROVE  Uncommitted(tx) /\ tx \notin txs
    <3>1. \A b \in 1..Len(blocks) : b \in 1..Len(blocks')
      BY <1>1, <1>3
    <3>2. Len(blocks) + 1 \in 1..Len(blocks')
      BY <1>1, <1>3
    <3>3. QED
      BY <1>1, <2>1, <3>1, <3>2 DEF Uncommitted
  <2>2. QED
    BY <2>1
<1>11. PendingInv'
  <2>1. SUFFICES ASSUME NEW k \in Node, NEW tx \in pool'[k], Uncommitted(tx)'
                 PROVE  \E m \in Node \ (passed \cup reading) : tx \in pool'[m]
    BY <1>2 DEF PendingInv
  <2>2. Uncommitted(tx) /\ tx \notin txs /\ tx \in pool[k]
    BY <1>4, <1>10, <2>1
  <2>3. PICK m \in Node \ (passed \cup reading) : tx \in pool[m]
    BY <1>0, <2>2 DEF PendingInv
  <2>4. tx \in pool'[m]
    BY <1>4, <2>2, <2>3
  <2>5. QED
    BY <2>4
<1>12. RecentInv'
  <2>1. SUFFICES ASSUME NEW b \in 1..Len(blocks'), blocks'[b] # {}
                 PROVE  \/ b + N_BLOCKS <= Len(blocks')
                        \/ \E m \in Node \ passed : b <= tip'[m]
                        \/ \E m \in Node \ (passed \cup reading) :
                             \E tx \in blocks'[b] : tx \in pool'[m]
    BY <1>2 DEF RecentInv
  <2>2. CASE b = Len(blocks) + 1
    <3>1. PICK tx \in txs : tx \in blocks'[b]
      BY <1>1, <2>1, <2>2
    <3>2. CASE n \notin passed
      <4>1. b <= tip'[n]
        BY <1>2, <1>3, <1>4, <2>2
      <4>2. QED
        BY <3>2, <4>1
    <3>3. CASE n \in passed
      <4>1. Uncommitted(tx) /\ tx \in pool[n]
        BY <1>5, <3>1
      <4>2. PICK m \in Node \ (passed \cup reading) : tx \in pool[m]
        BY <1>0, <4>1 DEF PendingInv
      <4>3. tx \in pool'[m]
        BY <1>4, <3>3, <4>2
      <4>4. QED
        BY <3>1, <4>2, <4>3
    <3>4. QED
      BY <3>2, <3>3
  <2>3. CASE b \in 1..Len(blocks)
    <3>1. blocks'[b] = blocks[b]
      BY <1>1, <2>3
    <3>2. CASE b + N_BLOCKS <= Len(blocks)
      BY <1>1, <1>3, <2>3, <3>2
    <3>3. CASE \E m \in Node \ passed : b <= tip[m]
      <4>1. PICK m \in Node \ passed : b <= tip[m]
        BY <3>3
      <4>2. b <= tip'[m]
        BY <1>3, <1>4, <2>3, <4>1
      <4>3. QED
        BY <4>2
    <3>4. CASE \E m \in Node \ (passed \cup reading) : \E tx \in blocks[b] : tx \in pool[m]
      <4>1. PICK m \in Node \ (passed \cup reading), tx \in blocks[b] : tx \in pool[m]
        BY <3>4
      <4>2. tx \notin txs
        BY <1>5, <2>3 DEF Uncommitted
      <4>3. tx \in pool'[m] /\ tx \in blocks'[b]
        BY <1>4, <3>1, <4>1, <4>2
      <4>4. QED
        BY <4>3
    <3>5. QED
      BY <1>0, <2>1, <2>3, <3>1, <3>2, <3>3, <3>4 DEF RecentInv
  <2>4. QED
    BY <1>6, <2>2, <2>3
<1>13. RangeInv'
  <2>1. \A m \in Node : \A tx \in pool'[m] : tx \in pool[m]
    BY <1>4
  <2>2. CASE phase = "warm-up"
    <3>1. \A m \in Node : pool'[m] \cap Txs = {}
      BY <1>0, <2>1, <2>2 DEF RangeInv
    <3>2. txs \cap Txs = {}
      BY <1>0, <2>2 DEF RangeInv
    <3>3. \A b \in 1..Len(blocks') : blocks'[b] \cap Txs = {}
      BY <1>0, <1>1, <1>6, <2>2, <3>2 DEF RangeInv
    <3>4. QED
      BY <1>2, <2>2, <3>1, <3>3 DEF RangeInv
  <2>3. CASE phase # "warm-up"
    <3>1. txs \cap Old = {}
      BY <1>0, <1>5, <2>3 DEF RangeInv
    <3>2. \A m \in Node : \A tx \in pool'[m] : Uncommitted(tx)' => tx \notin Old
      BY <1>0, <1>10, <2>1, <2>3 DEF RangeInv
    <3>3. ~(Len(blocks) + 1 <= zero_load_number)
      BY <1>0, <1>3 DEF WatchInv
    <3>4. \A b \in 1..Len(blocks') :
            IF b <= zero_load_number THEN blocks'[b] \cap Txs = {} ELSE blocks'[b] \cap Old = {}
      BY <1>0, <1>1, <1>6, <2>3, <3>1, <3>3 DEF RangeInv
    <3>5. ASSUME phase = "report", NEW b \in 1..Len(blocks'), blocks'[b] # {}
          PROVE  b < fixed_tip_number
      <4>1. CASE b = Len(blocks) + 1
        <5>1. PICK tx \in pool[n] : Uncommitted(tx)
          BY <1>1, <1>5, <3>5, <4>1
        <5>2. PICK m \in Node \ passed : tx \in pool[m]
          BY <1>0, <5>1 DEF PendingInv
        <5>3. QED
          BY <1>0, <3>5, <5>2 DEF WatchInv
      <4>2. CASE b \in 1..Len(blocks)
        BY <1>0, <1>1, <3>5, <4>2 DEF RangeInv
      <4>3. QED
        BY <1>6, <4>1, <4>2
    <3>6. QED
      BY <1>2, <2>3, <3>2, <3>4, <3>5 DEF RangeInv
  <2>4. QED
    BY <2>2, <2>3
<1>14. QED
  BY <1>7, <1>8, <1>9, <1>11, <1>12, <1>13 DEF PhasesInv

\* A transaction that leaves a pool on adoption leaves it for the block that the
\* node has now.
LEMMA PAdopt ==
  ASSUME PhasesInv, NEW n \in Node, Adopt(n)
  PROVE  PhasesInv'
<1>0. ChainInv /\ PoolInv /\ WatchInv /\ PendingInv /\ RecentInv /\ RangeInv
  BY DEF PhasesInv
<1>1. /\ tip[n] < Len(blocks)
      /\ tip' = [tip EXCEPT ![n] = @ + 1]
      /\ pool' = [pool EXCEPT ![n] = @ \ blocks[tip[n] + 1]]
      /\ UNCHANGED <<blocks, phase, passed, reading, zero_load_number, fixed_tip_number>>
  BY DEF Adopt, numbers
<1>2. /\ Len(blocks) \in Nat /\ \A m \in Node : tip[m] \in 0..Len(blocks)
      /\ MaxLag \in Nat /\ N_BLOCKS \in Nat
  BY <1>0, LenProperties, LagAssumption DEF ChainInv
<1>3. /\ \A m \in Node : tip'[m] = IF m = n THEN tip[m] + 1 ELSE tip[m]
      /\ \A m \in Node : pool'[m] = IF m = n THEN pool[m] \ blocks[tip[n] + 1] ELSE pool[m]
  BY <1>0, <1>1 DEF ChainInv, PoolInv
<1>4. tip[n] + 1 \in 1..Len(blocks)
  BY <1>1, <1>2
<1>5. \A m \in Node : \A tx \in pool'[m] : tx \in pool[m]
  BY <1>3
<1>6. \A tx : Uncommitted(tx)' = Uncommitted(tx)
  BY <1>1 DEF Uncommitted
<1>7. ChainInv'
  <2>1. tip' \in [Node -> 0..Len(blocks)]
    BY <1>0, <1>1, <1>2 DEF ChainInv
  <2>2. \A m \in Node : Len(blocks) <= tip'[m] + MaxLag
    <3>1. SUFFICES ASSUME NEW m \in Node PROVE Len(blocks) <= tip'[m] + MaxLag
      OBVIOUS
    <3>2. Len(blocks) <= tip[m] + MaxLag
      BY <1>0 DEF ChainInv
    <3>3. QED
      BY <1>2, <1>3, <3>2
  <2>3. QED
    BY <1>0, <1>1, <2>1, <2>2 DEF ChainInv
<1>8. PoolInv'
  <2>1. pool' \in [Node -> SUBSET All]
    BY <1>0, <1>1 DEF PoolInv
  <2>2. ASSUME NEW m \in Node, NEW tx \in pool'[m], NEW b \in 1..Len(blocks), tx \in blocks[b]
        PROVE  tip'[m] < b
    <3>1. tip[m] < b
      BY <1>0, <1>5, <2>2 DEF PoolInv
    <3>2. CASE m = n
      <4>1. b # tip[n] + 1
        BY <1>3, <2>2, <3>2
      <4>2. QED
        BY <1>2, <1>3, <3>1, <3>2, <4>1
    <3>3. CASE m # n
      BY <1>3, <3>1, <3>3
    <3>4. QED
      BY <3>2, <3>3
  <2>3. QED
    BY <1>0, <1>1, <2>1, <2>2 DEF PoolInv
<1>9. WatchInv'
  BY <1>0, <1>1 DEF WatchInv
<1>10. PendingInv'
  <2>1. SUFFICES ASSUME NEW k \in Node, NEW tx \in pool'[k], Uncommitted(tx)
                 PROVE  \E m \in Node \ (passed \cup reading) : tx \in pool'[m]
    BY <1>1, <1>6 DEF PendingInv
  <2>2. PICK m \in Node \ (passed \cup reading) : tx \in pool[m]
    BY <1>0, <1>5, <2>1 DEF PendingInv
  <2>3. tx \notin blocks[tip[n] + 1]
    BY <1>4, <2>1 DEF Uncommitted
  <2>4. tx \in pool'[m]
    BY <1>3, <2>2, <2>3
  <2>5. QED
    BY <2>4
<1>11. RecentInv'
  <2>1. SUFFICES ASSUME NEW b \in 1..Len(blocks), blocks[b] # {}
                 PROVE  \/ b + N_BLOCKS <= Len(blocks)
                        \/ \E m \in Node \ passed : b <= tip'[m]
                        \/ \E m \in Node \ (passed \cup reading) :
                             \E tx \in blocks[b] : tx \in pool'[m]
    BY <1>1 DEF RecentInv
  <2>2. CASE \E m \in Node \ passed : b <= tip[m]
    <3>1. PICK m \in Node \ passed : b <= tip[m]
      BY <2>2
    <3>2. b <= tip'[m]
      BY <1>2, <1>3, <3>1
    <3>3. QED
      BY <3>2
  <2>3. CASE \E m \in Node \ (passed \cup reading) : \E tx \in blocks[b] : tx \in pool[m]
    <3>1. PICK m \in Node \ (passed \cup reading), tx \in blocks[b] : tx \in pool[m]
      BY <2>3
    <3>2. CASE tx \in pool'[m]
      BY <3>1, <3>2
    <3>3. CASE tx \notin pool'[m]
      <4>1. m = n /\ tx \in blocks[tip[n] + 1]
        BY <1>3, <3>1, <3>3
      <4>2. b = tip[n] + 1
        BY <1>0, <1>4, <3>1, <4>1 DEF PoolInv
      <4>3. b <= tip'[m]
        BY <1>2, <1>3, <4>1, <4>2
      <4>4. QED
        BY <4>3
    <3>4. QED
      BY <3>2, <3>3
  <2>4. QED
    BY <1>0, <2>1, <2>2, <2>3 DEF RecentInv
<1>12. RangeInv'
  BY <1>0, <1>1, <1>5, <1>6 DEF RangeInv
<1>13. QED
  BY <1>7, <1>8, <1>9, <1>10, <1>11, <1>12 DEF PhasesInv

\* A pool takes a transaction that its node has not committed.
LEMMA PTake ==
  ASSUME PhasesInv, NEW n \in Node, NEW tx \in All, \A b \in 1..tip[n] : tx \notin blocks[b],
         pool' = [pool EXCEPT ![n] = @ \cup {tx}],
         UNCHANGED <<blocks, tip, phase, passed, reading, numbers>>,
         Uncommitted(tx) => \E m \in Node \ (passed \cup reading) : tx \in pool'[m],
         phase = "warm-up" => tx \notin Txs,
         phase # "warm-up" => (Uncommitted(tx) => tx \notin Old)
  PROVE  PhasesInv'
<1>0. ChainInv /\ PoolInv /\ WatchInv /\ PendingInv /\ RecentInv /\ RangeInv
  BY DEF PhasesInv
<1>1. /\ Len(blocks) \in Nat /\ \A m \in Node : tip[m] \in 0..Len(blocks)
  BY <1>0, LenProperties DEF ChainInv
<1>2. /\ \A m \in Node : pool[m] \subseteq pool'[m]
      /\ \A m \in Node : \A t \in pool'[m] : t \in pool[m] \/ (m = n /\ t = tx)
  BY <1>0 DEF PoolInv
<1>3. ChainInv' /\ WatchInv'
  BY <1>0 DEF ChainInv, WatchInv, numbers
<1>4. PoolInv'
  <2>1. pool' \in [Node -> SUBSET All]
    BY <1>0 DEF PoolInv
  <2>2. ASSUME NEW m \in Node, NEW t \in pool'[m], NEW b \in 1..Len(blocks), t \in blocks[b]
        PROVE  tip[m] < b
    <3>1. CASE t \in pool[m]
      BY <1>0, <2>2, <3>1 DEF PoolInv
    <3>2. CASE m = n /\ t = tx
      <4>1. b \notin 1..tip[n]
        BY <2>2, <3>2
      <4>2. QED
        BY <1>1, <3>2, <4>1
    <3>3. QED
      BY <1>2, <3>1, <3>2
  <2>3. QED
    BY <1>0, <2>1, <2>2 DEF PoolInv
<1>5. \A t : Uncommitted(t)' = Uncommitted(t)
  BY DEF Uncommitted
<1>6. PendingInv'
  <2>1. SUFFICES ASSUME NEW k \in Node, NEW t \in pool'[k], Uncommitted(t)
                 PROVE  \E m \in Node \ (passed \cup reading) : t \in pool'[m]
    BY <1>5 DEF PendingInv
  <2>2. CASE t = tx
    BY <2>1, <2>2
  <2>3. CASE t \in pool[k]
    <3>1. PICK m \in Node \ (passed \cup reading) : t \in pool[m]
      BY <1>0, <2>1, <2>3 DEF PendingInv
    <3>2. QED
      BY <1>2, <3>1
  <2>4. QED
    BY <1>2, <2>2, <2>3
<1>7. RecentInv'
  <2>1. SUFFICES ASSUME NEW b \in 1..Len(blocks), blocks[b] # {}
                 PROVE  \/ b + N_BLOCKS <= Len(blocks)
                        \/ \E m \in Node \ passed : b <= tip[m]
                        \/ \E m \in Node \ (passed \cup reading) :
                             \E t \in blocks[b] : t \in pool'[m]
    BY DEF RecentInv
  <2>2. CASE \E m \in Node \ (passed \cup reading) : \E t \in blocks[b] : t \in pool[m]
    BY <1>2, <2>2
  <2>3. QED
    BY <1>0, <2>1, <2>2 DEF RecentInv
<1>8. RangeInv'
  <2>1. phase = "warm-up" => \A m \in Node : pool'[m] \cap Txs = {}
    BY <1>0, <1>2 DEF RangeInv
  <2>2. phase # "warm-up" => \A m \in Node : \A t \in pool'[m] : Uncommitted(t) => t \notin Old
    BY <1>0, <1>2 DEF RangeInv
  <2>3. QED
    BY <1>0, <1>5, <2>1, <2>2 DEF RangeInv, numbers
<1>9. QED
  BY <1>3, <1>4, <1>6, <1>7, <1>8 DEF PhasesInv

LEMMA CommittedBy ==
  ASSUME NEW number, NEW tx
  PROVE  tx \in Committed(number) <=> \E b \in 1..number : tx \in blocks[b]
BY DEF Committed

LEMMA PRelay ==
  ASSUME PhasesInv, NEW n \in Node, NEW m \in Node, Relay(n, m)
  PROVE  PhasesInv'
<1>0. PoolInv /\ PendingInv /\ RangeInv
  BY DEF PhasesInv
<1>1. PICK tx \in pool[n] \ (pool[m] \cup Committed(tip[m])) :
         pool' = [pool EXCEPT ![m] = @ \cup {tx}]
  BY DEF Relay
<1>2. UNCHANGED <<blocks, tip, phase, passed, reading, numbers>>
  BY DEF Relay
<1>3. tx \in All /\ \A b \in 1..tip[m] : tx \notin blocks[b]
  BY <1>0, <1>1, CommittedBy DEF PoolInv
<1>4. Uncommitted(tx) => \E k \in Node \ (passed \cup reading) : tx \in pool'[k]
  <2>1. \A k \in Node : pool[k] \subseteq pool'[k]
    BY <1>0, <1>1 DEF PoolInv
  <2>2. QED
    BY <1>0, <1>1, <2>1 DEF PendingInv
<1>5. phase = "warm-up" => tx \notin Txs
  BY <1>0, <1>1 DEF RangeInv
<1>6. phase # "warm-up" => (Uncommitted(tx) => tx \notin Old)
  BY <1>0, <1>1 DEF RangeInv
<1>7. QED
  BY <1>1, <1>2, <1>3, <1>4, <1>5, <1>6, PTake

LEMMA PSend ==
  ASSUME PhasesInv, NEW n \in Node, Send(n)
  PROVE  PhasesInv'
<1>0. ChainInv /\ PoolInv /\ WatchInv
  BY DEF PhasesInv
<1>1. PICK tx \in Txs \ (Committed(Len(blocks)) \cup UNION {pool[m] : m \in Node}) :
         pool' = [pool EXCEPT ![n] = @ \cup {tx}]
  BY DEF Send
<1>2. phase = "bench" /\ UNCHANGED <<blocks, tip, phase, passed, reading, numbers>>
  BY DEF Send
<1>3. Len(blocks) \in Nat /\ tip[n] \in 0..Len(blocks)
  BY <1>0, LenProperties DEF ChainInv
<1>4. \A b \in 1..tip[n] : tx \notin blocks[b]
  <2>1. \A b \in 1..tip[n] : b \in 1..Len(blocks)
    BY <1>3
  <2>2. QED
    BY <1>1, <2>1, CommittedBy
<1>5. tx \in All /\ tx \notin Old
  BY <1>1, TxsAssumption DEF All
<1>6. n \in Node \ (passed \cup reading) /\ tx \in pool'[n]
  BY <1>0, <1>1, <1>2 DEF WatchInv, PoolInv
<1>7. QED
  BY <1>1, <1>2, <1>4, <1>5, <1>6, PTake

----------------------------------------------------------------------------
(* The watcher and the subcommand: the nodes stand still *)

LEMMA NodesStay ==
  ASSUME ChainInv, PoolInv, UNCHANGED nodes
  PROVE  ChainInv' /\ PoolInv' /\ \A tx : Uncommitted(tx)' = Uncommitted(tx)
BY DEF ChainInv, PoolInv, nodes, Uncommitted

\* A call that ends with false starts again with every node.
LEMMA PRestart ==
  ASSUME PhasesInv, UNCHANGED <<nodes, phase, numbers>>, phase \in {"warm-up", "cool-down"},
         passed' = {}, reading' = {}
  PROVE  PhasesInv'
<1>0. ChainInv /\ PoolInv /\ WatchInv /\ PendingInv /\ RecentInv /\ RangeInv
  BY DEF PhasesInv
<1>1. ChainInv' /\ PoolInv' /\ \A tx : Uncommitted(tx)' = Uncommitted(tx)
  BY <1>0, NodesStay
<1>2. WatchInv' /\ PendingInv' /\ RecentInv' /\ RangeInv'
  BY <1>0, <1>1 DEF WatchInv, PendingInv, RecentInv, RangeInv, nodes, numbers
<1>3. QED
  BY <1>1, <1>2 DEF PhasesInv

\* The pool of the node that is looked at is empty, so that what is pending is
\* elsewhere.
LEMMA PReadPool ==
  ASSUME PhasesInv, NEW n \in Node, ReadPool(n)
  PROVE  PhasesInv'
<1>0. ChainInv /\ PoolInv /\ WatchInv /\ PendingInv /\ RecentInv /\ RangeInv
  BY DEF PhasesInv
<1>1. /\ phase \in {"warm-up", "cool-down"} /\ reading = {} /\ n \notin passed
      /\ UNCHANGED <<nodes, phase, numbers>>
      /\ \/ pool[n] = {} /\ reading' = {n} /\ UNCHANGED passed
         \/ passed' = {} /\ UNCHANGED reading
  BY DEF ReadPool, Watching
<1>2. ChainInv' /\ PoolInv' /\ \A tx : Uncommitted(tx)' = Uncommitted(tx)
  BY <1>0, <1>1, NodesStay
<1>3. CASE pool[n] = {} /\ reading' = {n} /\ UNCHANGED passed
  <2>1. \A m \in Node \ (passed \cup reading) : \A tx \in pool[m] :
          m \in Node \ (passed' \cup reading')
    BY <1>1, <1>3
  <2>2. WatchInv' /\ RangeInv'
    BY <1>0, <1>1, <1>2, <1>3 DEF WatchInv, RangeInv, nodes, numbers
  <2>3. UNCHANGED <<blocks, tip, pool, passed>>
    BY <1>1, <1>3 DEF nodes
  <2>4. PendingInv'
    BY <1>0, <1>2, <2>1, <2>3 DEF PendingInv
  <2>5. RecentInv'
    BY <1>0, <2>1, <2>3 DEF RecentInv
  <2>6. QED
    BY <1>2, <2>2, <2>4, <2>5 DEF PhasesInv
<1>4. CASE passed' = {} /\ UNCHANGED reading
  BY <1>1, <1>4, PRestart
<1>5. QED
  BY <1>1, <1>3, <1>4

\* N_BLOCKS empty blocks below the tip of this node: what is not empty up to there
\* is deep enough.
LEMMA PReadBlocks ==
  ASSUME PhasesInv, NEW n \in Node, ReadBlocks(n)
  PROVE  PhasesInv'
<1>0. ChainInv /\ PoolInv /\ WatchInv /\ PendingInv /\ RecentInv /\ RangeInv
  BY DEF PhasesInv
<1>1. /\ phase \in {"warm-up", "cool-down"} /\ reading = {n} /\ reading' = {}
      /\ passed' = IF RecentBlocksEmpty(tip[n]) THEN passed \cup {n} ELSE {}
      /\ UNCHANGED <<nodes, phase, numbers>>
  BY DEF ReadBlocks, Watching
<1>2. ChainInv' /\ PoolInv' /\ \A tx : Uncommitted(tx)' = Uncommitted(tx)
  BY <1>0, <1>1, NodesStay
<1>3. Len(blocks) \in Nat /\ tip[n] \in 0..Len(blocks) /\ N_BLOCKS \in Nat
  BY <1>0, LenProperties, LagAssumption DEF ChainInv
<1>4. CASE RecentBlocksEmpty(tip[n])
  <2>1. UNCHANGED <<blocks, tip, pool, phase, zero_load_number, fixed_tip_number>>
        /\ passed' = passed \cup {n}
    BY <1>1, <1>4 DEF nodes, numbers
  <2>2. WatchInv' /\ RangeInv'
    BY <1>0, <1>1, <1>2, <2>1 DEF WatchInv, RangeInv
  <2>3. Node \ (passed \cup reading) = Node \ (passed' \cup reading')
    BY <1>1, <2>1
  <2>4. PendingInv'
    BY <1>0, <1>2, <2>1, <2>3 DEF PendingInv
  <2>5. RecentInv'
    <3>1. SUFFICES ASSUME NEW b \in 1..Len(blocks), blocks[b] # {}
                   PROVE  \/ b + N_BLOCKS <= Len(blocks)
                          \/ \E m \in Node \ passed' : b <= tip[m]
                          \/ \E m \in Node \ (passed' \cup reading') :
                               \E tx \in blocks[b] : tx \in pool[m]
      BY <2>1 DEF RecentInv
    <3>2. CASE \E m \in Node \ passed : b <= tip[m]
      <4>1. PICK m \in Node \ passed : b <= tip[m]
        BY <3>2
      <4>2. CASE m = n
        <5>1. b \notin (tip[n] - N_BLOCKS + 1)..tip[n]
          BY <1>4, <3>1 DEF RecentBlocksEmpty
        <5>2. b + N_BLOCKS <= tip[n]
          BY <1>3, <4>1, <4>2, <5>1
        <5>3. QED
          BY <1>3, <5>2
      <4>3. CASE m # n
        BY <2>1, <4>1, <4>3
      <4>4. QED
        BY <4>2, <4>3
    <3>3. QED
      BY <1>0, <2>3, <3>1, <3>2 DEF RecentInv
  <2>6. QED
    BY <1>2, <2>2, <2>4, <2>5 DEF PhasesInv
<1>5. CASE ~RecentBlocksEmpty(tip[n])
  BY <1>1, <1>5, PRestart
<1>6. QED
  BY <1>4, <1>5

\* Zero load: nothing is pending, and every node has what is not empty.
LEMMA ZeroLoad ==
  ASSUME PhasesInv, passed = Node
  PROVE  /\ \A n \in Node : \A tx \in pool[n] : ~Uncommitted(tx)
         /\ \A b \in 1..Len(blocks) : blocks[b] # {} => b < FixedHeader
         /\ FixedHeader \in 0..Len(blocks)
<1>0. ChainInv /\ PendingInv /\ RecentInv
  BY DEF PhasesInv
<1>1. FixedHeader \in 0..Len(blocks) /\ Len(blocks) < FixedHeader + N_BLOCKS
  BY <1>0, FixedHeaderFacts
<1>2. \A n \in Node : \A tx \in pool[n] : ~Uncommitted(tx)
  BY <1>0 DEF PendingInv
<1>3. ASSUME NEW b \in 1..Len(blocks), blocks[b] # {}
      PROVE  b < FixedHeader
  <2>1. b + N_BLOCKS <= Len(blocks)
    BY <1>0, <1>3 DEF RecentInv
  <2>2. Len(blocks) \in Nat /\ N_BLOCKS \in Nat
    BY <1>0, LenProperties, LagAssumption DEF ChainInv
  <2>3. QED
    BY <1>1, <2>1, <2>2
<1>4. QED
  BY <1>1, <1>2, <1>3

LEMMA PStartLoad ==
  ASSUME PhasesInv, StartLoad
  PROVE  PhasesInv'
<1>0. ChainInv /\ PoolInv /\ WatchInv /\ PendingInv /\ RecentInv /\ RangeInv
  BY DEF PhasesInv
<1>1. /\ phase = "warm-up" /\ passed = Node
      /\ zero_load_number' = FixedHeader
      /\ phase' = "bench" /\ passed' = {}
      /\ UNCHANGED <<nodes, reading, fixed_tip_number>>
  BY DEF StartLoad
<1>2. ChainInv' /\ PoolInv' /\ \A tx : Uncommitted(tx)' = Uncommitted(tx)
  BY <1>0, <1>1, NodesStay
<1>3. /\ \A n \in Node : \A tx \in pool[n] : ~Uncommitted(tx)
      /\ \A b \in 1..Len(blocks) : blocks[b] # {} => b < FixedHeader
      /\ FixedHeader \in 0..Len(blocks)
  BY <1>1, ZeroLoad
<1>4. UNCHANGED <<blocks, tip, pool, reading>> /\ reading = {}
  BY <1>0, <1>1 DEF nodes, WatchInv
<1>5. WatchInv'
  BY <1>0, <1>1, <1>3, <1>4 DEF WatchInv
<1>6. PendingInv'
  BY <1>2, <1>3, <1>4 DEF PendingInv
<1>7. RecentInv'
  BY <1>0, <1>1, <1>4 DEF RecentInv
<1>8. RangeInv'
  <2>1. FixedHeader \in Nat /\ Len(blocks) \in Nat
    BY <1>0, <1>3, LenProperties DEF ChainInv
  <2>2. ASSUME NEW b \in 1..Len(blocks)
        PROVE  IF b <= FixedHeader THEN blocks[b] \cap Txs = {} ELSE blocks[b] \cap Old = {}
    <3>1. CASE b <= FixedHeader
      BY <1>0, <1>1, <3>1 DEF RangeInv
    <3>2. CASE ~(b <= FixedHeader)
      <4>1. blocks[b] = {}
        BY <1>3, <2>1, <3>2
      <4>2. QED
        BY <3>2, <4>1
    <3>3. QED
      BY <3>1, <3>2
  <2>3. QED
    BY <1>1, <1>2, <1>3, <1>4, <2>2 DEF RangeInv
<1>9. QED
  BY <1>2, <1>5, <1>6, <1>7, <1>8 DEF PhasesInv

LEMMA PStopLoad ==
  ASSUME PhasesInv, StopLoad
  PROVE  PhasesInv'
<1>0. ChainInv /\ PoolInv /\ WatchInv /\ PendingInv /\ RecentInv /\ RangeInv
  BY DEF PhasesInv
<1>1. phase = "bench" /\ phase' = "cool-down" /\ UNCHANGED <<nodes, passed, reading, numbers>>
  BY DEF StopLoad
<1>2. ChainInv' /\ PoolInv' /\ \A tx : Uncommitted(tx)' = Uncommitted(tx)
  BY <1>0, <1>1, NodesStay
<1>3. WatchInv' /\ PendingInv' /\ RecentInv' /\ RangeInv'
  BY <1>0, <1>1, <1>2 DEF WatchInv, PendingInv, RecentInv, RangeInv, nodes, numbers
<1>4. QED
  BY <1>2, <1>3 DEF PhasesInv

LEMMA PReport ==
  ASSUME PhasesInv, Report
  PROVE  PhasesInv'
<1>0. ChainInv /\ PoolInv /\ WatchInv /\ PendingInv /\ RecentInv /\ RangeInv
  BY DEF PhasesInv
<1>1. /\ phase = "cool-down" /\ passed = Node
      /\ fixed_tip_number' = FixedHeader
      /\ phase' = "report"
      /\ UNCHANGED <<nodes, passed, reading, zero_load_number>>
  BY DEF Report
<1>2. ChainInv' /\ PoolInv' /\ \A tx : Uncommitted(tx)' = Uncommitted(tx)
  BY <1>0, <1>1, NodesStay
<1>3. /\ \A b \in 1..Len(blocks) : blocks[b] # {} => b < FixedHeader
      /\ FixedHeader \in 0..Len(blocks)
  BY <1>1, ZeroLoad
<1>4. UNCHANGED <<blocks, tip, pool>>
  BY <1>1 DEF nodes
<1>5. WatchInv'
  BY <1>0, <1>1, <1>3, <1>4 DEF WatchInv
<1>6. PendingInv' /\ RecentInv'
  BY <1>0, <1>1, <1>2, <1>4 DEF PendingInv, RecentInv
<1>7. RangeInv'
  BY <1>0, <1>1, <1>2, <1>3, <1>4 DEF RangeInv
<1>8. QED
  BY <1>2, <1>5, <1>6, <1>7 DEF PhasesInv

LEMMA PStutter ==
  ASSUME PhasesInv, UNCHANGED vars
  PROVE  PhasesInv'
<1>0. ChainInv /\ PoolInv /\ WatchInv /\ PendingInv /\ RecentInv /\ RangeInv
  BY DEF PhasesInv
<1>1. UNCHANGED <<nodes, phase, passed, reading, numbers>>
  BY DEF vars, nodes, numbers
<1>2. ChainInv' /\ PoolInv' /\ \A tx : Uncommitted(tx)' = Uncommitted(tx)
  BY <1>0, <1>1, NodesStay
<1>3. WatchInv' /\ PendingInv' /\ RecentInv' /\ RangeInv'
  BY <1>0, <1>1, <1>2 DEF WatchInv, PendingInv, RecentInv, RangeInv, nodes, numbers
<1>4. QED
  BY <1>2, <1>3 DEF PhasesInv

LEMMA PStep ==
  ASSUME PhasesInv, [Next]_vars
  PROVE  PhasesInv'
<1>1. CASE Next
  BY <1>1, PMine, PAdopt, PRelay, PReadPool, PReadBlocks, PSend, PStartLoad, PStopLoad, PReport,
     Zenon DEF Next
<1>2. CASE UNCHANGED vars
  BY <1>2, PStutter
<1>3. QED
  BY <1>1, <1>2

LEMMA PhasesInvHolds == Spec => []PhasesInv
<1>1. Init => PhasesInv
  BY PInit
<1>2. PhasesInv /\ [Next]_vars => PhasesInv'
  BY PStep
<1>3. QED
  BY <1>1, <1>2, PTL DEF Spec

----------------------------------------------------------------------------
(* Theorems *)

\* is_zero_load looks at one node after another and at each of them once, and the
\* numbers that it leads to are those of blocks that exist.
THEOREM TypeOKHolds == Spec => []TypeOK
<1>1. ASSUME PhasesInv
      PROVE  TypeOK
  <2>0. ChainInv /\ PoolInv /\ WatchInv
    BY <1>1 DEF PhasesInv
  <2>1. Len(blocks) \in Nat /\ Len(blocks) <= MaxBlocks
    BY <2>0, LenProperties DEF ChainInv
  <2>2. zero_load_number \in 0..MaxBlocks /\ fixed_tip_number \in 0..MaxBlocks
    BY <2>0, <2>1, MaxBlocksAssumption DEF WatchInv
  <2>3. reading \in SUBSET (Node \ passed) /\ Cardinality(reading) <= 1
    <3>1. CASE reading = {}
      BY <3>1, FS_EmptySet
    <3>2. CASE \E n \in Node \ passed : reading = {n}
      <4>1. PICK n \in Node \ passed : reading = {n}
        BY <3>2
      <4>2. Cardinality({n}) = 1
        BY FS_Singleton
      <4>3. QED
        BY <4>1, <4>2
    <3>3. QED
      BY <2>0, <3>1, <3>2 DEF WatchInv
  <2>4. QED
    BY <2>0, <2>2, <2>3 DEF TypeOK, ChainInv, PoolInv, WatchInv, All
<1>2. QED
  BY <1>1, PhasesInvHolds, PTL

LEMMA PendingIsUncommitted ==
  ASSUME NEW tx
  PROVE  tx \in Pending <=> Uncommitted(tx) /\ \E n \in Node : tx \in pool[n]
<1>1. tx \in Committed(Len(blocks)) <=> ~Uncommitted(tx)
  BY CommittedBy DEF Uncommitted
<1>2. QED
  BY <1>1 DEF Pending

\* Nothing of others is in a pool, or in a block above zero_load_number (main.rs),
\* once is_zero_load has found the nodes idle one by one: transactions move while
\* it looks, but a chain is never N_BLOCKS behind.
THEOREM NoOldTransactionsAreReportedHolds == Spec => []NoOldTransactionsAreReported
<1>1. ASSUME PhasesInv
      PROVE  NoOldTransactionsAreReported
  <2>0. WatchInv /\ ChainInv /\ RangeInv
    BY <1>1 DEF PhasesInv
  <2>1. SUFFICES ASSUME phase # "warm-up"
                 PROVE  /\ Old \cap Pending = {}
                        /\ \A b \in (zero_load_number + 1)..Len(blocks) : blocks[b] \cap Old = {}
    BY DEF NoOldTransactionsAreReported
  <2>2. Old \cap Pending = {}
    BY <2>0, <2>1, PendingIsUncommitted DEF RangeInv
  <2>3. ASSUME NEW b \in (zero_load_number + 1)..Len(blocks)
        PROVE  blocks[b] \cap Old = {}
    <3>1. b \in 1..Len(blocks) /\ ~(b <= zero_load_number)
      BY <2>0 DEF WatchInv
    <3>2. QED
      BY <2>0, <2>1, <3>1 DEF RangeInv
  <2>4. QED
    BY <2>2, <2>3
<1>2. QED
  BY <1>1, PhasesInvHolds, PTL

\* The blocks zero_load_number + 1 .. fixed_tip_number that stat() is called for
\* (main.rs) have all that the bench sent.
THEOREM AllTransactionsAreReportedHolds == Spec => []AllTransactionsAreReported
<1>1. ASSUME PhasesInv
      PROVE  AllTransactionsAreReported
  <2>0. ChainInv /\ WatchInv /\ PendingInv /\ RangeInv
    BY <1>1 DEF PhasesInv
  <2>1. SUFFICES ASSUME phase = "report"
                 PROVE  /\ Txs \cap Pending = {}
                        /\ \A b \in 1..Len(blocks) :
                             blocks[b] \cap Txs # {} =>
                               zero_load_number < b /\ b < fixed_tip_number
    BY DEF AllTransactionsAreReported
  <2>2. Txs \cap Pending = {}
    <3>1. passed = Node
      BY <2>0, <2>1 DEF WatchInv
    <3>2. QED
      BY <2>0, <3>1, PendingIsUncommitted DEF PendingInv
  <2>3. ASSUME NEW b \in 1..Len(blocks), blocks[b] \cap Txs # {}
        PROVE  zero_load_number < b /\ b < fixed_tip_number
    <3>1. b < fixed_tip_number
      BY <2>0, <2>1, <2>3 DEF RangeInv
    <3>2. ~(b <= zero_load_number)
      BY <2>0, <2>1, <2>3 DEF RangeInv
    <3>3. Len(blocks) \in Nat /\ zero_load_number \in 0..Len(blocks)
      BY <2>0, LenProperties DEF ChainInv, WatchInv
    <3>4. QED
      BY <3>1, <3>2, <3>3
  <2>4. QED
    BY <2>2, <2>3
<1>2. QED
  BY <1>1, PhasesInvHolds, PTL
=============================================================================

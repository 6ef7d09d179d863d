------------------------- MODULE BenchPipelineProofs -------------------------
(***************************************************************************)
(* Theorems about the bench pipeline, for any number of users and nodes,   *)
(* any n_inout, cache, channel and pool sizes, and any chain.              *)
(***************************************************************************)
EXTENDS BenchPipeline, FiniteSetTheorems, SequenceTheorems, TLAPS

Node == 1..NNodes
Block == [spent : SUBSET Cells, created : SUBSET Cells]

\* The cells that are in the chain of every node.  All that the pipeline and
\* the pools hold comes from here, and a cell stays here for good.
Settled == {c \in Cells : \A n \in Node : c \in Nodes!Created(tip[n])}

\* A cell has the number of the block that made it, and no later block in its
\* out point.
Numbered(c, b) == c.number = b /\ c.out_point \in OutPoint(b)

NodesInv ==
  /\ blocks \in Seq(Block) /\ Len(blocks) <= MaxBlocks
  /\ tip \in [Node -> 0..Len(blocks)]
  /\ pool \in [Node -> SUBSET TP!Transaction]
  /\ \A b \in 1..Len(blocks) : \A c \in blocks[b].created : Numbered(c, b)
  /\ \A n \in Node : \A tx \in pool[n] : tx.inputs \subseteq Settled

\* The tips read so far in this round were at least min_tip_number, and tips
\* only grow.
PollInv ==
  /\ step \in 1..(NNodes + NUsers) /\ min_tip_number \in 0..MaxBlocks
  /\ \A n \in Node : n < step => min_tip_number <= tip[n]
  /\ found \subseteq Settled
  /\ seen_out_points \in Seq(Settled) /\ Len(seen_out_points) <= LCP!SeenCap
  /\ found \cap LCP!Seen = {}

PipelineInv ==
  /\ cell_queue \in Seq(Settled) /\ Len(cell_queue) <= CellCap
  /\ live_cells \subseteq Settled /\ backlogs \subseteq Settled
  /\ cells_open \in BOOLEAN /\ receiver_alive \in BOOLEAN /\ running \in BOOLEAN
  /\ tx_queue \in Seq(TP!Transaction) /\ Len(tx_queue) <= TxCap
  /\ unsent \subseteq TP!Transaction
  /\ \A k \in 1..Len(tx_queue) : tx_queue[k].inputs \subseteq Settled
  /\ \A tx \in unsent : tx.inputs \subseteq Settled

LoopInv ==
  /\ state \in {"recv", "send", "done", "panicked"}
  /\ i \in Node
  /\ hand \subseteq TP!Transaction
  /\ \A tx \in hand : tx.inputs \subseteq Settled
  /\ evicted \subseteq Settled

BInv == NodesInv /\ PollInv /\ PipelineInv /\ LoopInv

----------------------------------------------------------------------------
(* Who holds a cell *)

QueuedCell(c) == \E k \in 1..Len(cell_queue) : cell_queue[k] = c
QueuedInput(c) == \E k \in 1..Len(tx_queue) : c \in tx_queue[k].inputs
UnsentInput(c) == \E tx \in unsent : c \in tx.inputs
HandInput(c) == \E tx \in hand : c \in tx.inputs
Used(c) ==
  \/ c \in Nodes!Spent(Len(blocks))
  \/ \E n \in Node : \E tx \in pool[n] : c \in tx.inputs

OneQueuedCell(c) ==
  \A j, k \in 1..Len(cell_queue) : cell_queue[j] = c /\ cell_queue[k] = c => j = k
OneQueuedInput(c) ==
  \A j, k \in 1..Len(tx_queue) :
    c \in tx_queue[j].inputs /\ c \in tx_queue[k].inputs => j = k

\* One holder at most, and only of a cell that the cache still knows
ClaimedOnce(c) ==
  /\ c \notin backlogs /\ OneQueuedCell(c) /\ OneQueuedInput(c)
  /\ QueuedCell(c) => /\ c \notin live_cells /\ ~QueuedInput(c) /\ ~UnsentInput(c)
                      /\ ~HandInput(c) /\ ~Used(c) /\ c \in LCP!Seen
  /\ c \in live_cells => /\ ~QueuedInput(c) /\ ~UnsentInput(c)
                         /\ ~HandInput(c) /\ ~Used(c) /\ c \in LCP!Seen
  /\ UnsentInput(c) => ~QueuedInput(c) /\ ~HandInput(c) /\ ~Used(c) /\ c \in LCP!Seen
  /\ QueuedInput(c) => ~HandInput(c) /\ ~Used(c) /\ c \in LCP!Seen
  /\ HandInput(c) => ~Used(c) /\ c \in LCP!Seen
  /\ Used(c) => c \in LCP!Seen

\* only eviction makes the bench claim a cell again
ClaimInv == \A c \in Cells \ evicted : ClaimedOnce(c)

----------------------------------------------------------------------------
(* Cells and their out points *)

Ids == {c.out_point[1] : c \in Genesis}

LEMMA PathsAreSequences ==
  ASSUME NEW b \in Nat, NEW path
  PROVE  path \in Paths(b) <=> path \in Seq(1..b) /\ Len(path) <= b
<1>1. ASSUME path \in Paths(b)
      PROVE  path \in Seq(1..b) /\ Len(path) <= b
  <2>1. PICK m \in 0..b : path \in [1..m -> 1..b]
    BY <1>1 DEF Paths
  <2>2. m \in Nat
    OBVIOUS
  <2>3. path \in Seq(1..b) /\ Len(path) = m
    BY <2>1, <2>2
  <2>4. QED
    BY <2>3
<1>2. ASSUME path \in Seq(1..b), Len(path) <= b
      PROVE  path \in Paths(b)
  <2>1. path \in [1..Len(path) -> 1..b] /\ Len(path) \in 0..b
    BY <1>2, LenProperties
  <2>2. QED
    BY <2>1 DEF Paths
<1>3. QED
  BY <1>1, <1>2

LEMMA GenesisCell ==
  ASSUME NEW c \in Genesis
  PROVE  /\ c.out_point \in Seq(Ids) /\ c.number = 0 /\ c.index \in TxIndexes
         /\ c.lock \in [user : Users, kind : {"data", "type", "data1"}]
         /\ c = [out_point |-> c.out_point, number |-> c.number, index |-> c.index,
                 lock |-> c.lock]
<1>1. c \in [out_point : {<<c.out_point[1]>>}, number : {0}, index : TxIndexes,
             lock : [user : 1..NUsers, kind : {"data", "type", "data1"}]]
  BY GenesisAssumption
<1>2. c.out_point = <<c.out_point[1]>> /\ c.out_point[1] \in Ids
  BY <1>1 DEF Ids
<1>3. c.out_point \in Seq(Ids)
  BY <1>2
<1>4. QED
  BY <1>1, <1>3 DEF Users

LEMMA OutPointIntro ==
  ASSUME NEW b, NEW c \in Genesis, NEW path \in Paths(b)
  PROVE  c.out_point \o path \in OutPoint(b)
<1>1. c.out_point \o path \in {c.out_point \o q : q \in Paths(b)}
  OBVIOUS
<1>2. \E S \in {{d.out_point \o q : q \in Paths(b)} : d \in Genesis} : c.out_point \o path \in S
  BY <1>1
<1>3. QED
  BY <1>2 DEF OutPoint

LEMMA OutPointGrows ==
  ASSUME NEW b \in Nat, NEW d \in Nat, b <= d
  PROVE  OutPoint(b) \subseteq OutPoint(d)
<1>1. ASSUME NEW path \in Paths(b)
      PROVE  path \in Paths(d)
  <2>1. path \in Seq(1..b) /\ Len(path) <= b
    BY PathsAreSequences
  <2>2. path \in Seq(1..d)
    BY <2>1, SeqMonotonic
  <2>3. Len(path) <= d
    BY <2>1, LenProperties
  <2>4. QED
    BY <2>2, <2>3, PathsAreSequences
<1>2. QED
  BY <1>1 DEF OutPoint

LEMMA GenesisOutPoint ==
  ASSUME NEW c \in Genesis
  PROVE  c.out_point \in OutPoint(0)
<1>1. c.out_point = c.out_point \o <<>>
  BY GenesisCell, ConcatEmptySeq
<1>2. <<>> \in Paths(0)
  <2>1. <<>> \in Seq(1..0) /\ Len(<<>>) <= 0 /\ 0 \in Nat
    OBVIOUS
  <2>2. QED
    BY <2>1, PathsAreSequences, Zenon
<1>3. QED
  BY <1>1, <1>2, OutPointIntro

\* The out point of an output goes one block further than its input's.
LEMMA OutPointOfOutput ==
  ASSUME NEW b \in Nat, NEW p \in OutPoint(b)
  PROVE  Append(p, b + 1) \in OutPoint(b + 1)
<1>1. PICK c \in Genesis, path \in Paths(b) : p = c.out_point \o path
  BY DEF OutPoint
<1> DEFINE S == Ids \cup Nat
<1>2. path \in Seq(1..b) /\ Len(path) <= b /\ Len(path) \in Nat
  BY PathsAreSequences, LenProperties
<1>3. c.out_point \in Seq(S) /\ path \in Seq(S)
  <2>1. Ids \subseteq S /\ 1..b \subseteq S
    OBVIOUS
  <2>2. QED
    BY <1>2, <2>1, GenesisCell, SeqMonotonic
<1>4. b + 1 \in S
  OBVIOUS
<1>5. Append(c.out_point \o path, b + 1) = c.out_point \o Append(path, b + 1)
  <2> HIDE DEF S
  <2>1. \A s, t \in Seq(S) : \A e \in S : Append(s \o t, e) = s \o Append(t, e)
    OBVIOUS
  <2>2. QED
    BY <1>3, <1>4, <2>1
<1>6. Append(path, b + 1) \in Paths(b + 1)
  <2>1. path \in Seq(1..b + 1) /\ b + 1 \in 1..b + 1
    BY <1>2, SeqMonotonic
  <2>2. Append(path, b + 1) \in Seq(1..b + 1) /\ Len(Append(path, b + 1)) = Len(path) + 1
    BY <2>1, AppendProperties
  <2>3. Len(path) + 1 <= b + 1 /\ b + 1 \in Nat
    BY <1>2
  <2>4. QED
    BY <2>2, <2>3, PathsAreSequences
<1>7. QED
  BY <1>1, <1>5, <1>6, OutPointIntro, Zenon

\* Every genesis cell is a cell.
LEMMA GenesisIsCells == Genesis \subseteq Cells
<1>1. SUFFICES ASSUME NEW c \in Genesis PROVE c \in Cells
  OBVIOUS
<1>2. c.out_point \in OutPoint(MaxBlocks)
  BY GenesisOutPoint, OutPointGrows, CapsAssumption
<1>3. c.number \in 0..MaxBlocks
  BY GenesisCell, CapsAssumption
<1>4. QED
  BY <1>2, <1>3, GenesisCell DEF Cells

----------------------------------------------------------------------------
(* The chain and its cells *)

\* A cell was created at or below a number when it is a genesis cell or comes
\* from one of the blocks up to there.
LEMMA CreatedBy ==
  ASSUME NEW m, NEW c
  PROVE  c \in Nodes!Created(m) <=>
           c \in Genesis \/ \E b \in 1..m : c \in blocks[b].created
BY DEF Nodes!Created

LEMMA SpentBy ==
  ASSUME NEW m, NEW c
  PROVE  c \in Nodes!Spent(m) <=> \E b \in 1..m : c \in blocks[b].spent
BY DEF Nodes!Spent

LEMMA SettledCells == Settled \subseteq Cells
BY DEF Settled

\* What the first node has and is no newer than the tips is settled: a cell has
\* the number of its block, and the chain of a node is all of the blocks up to
\* its tip.
LEMMA OldCellsAreSettled ==
  ASSUME NodesInv, NEW number \in Nat, \A n \in Node : number <= tip[n],
         NEW c \in Nodes!Created(tip[1]), c.number <= number
  PROVE  c \in Settled
<1>1. 1 \in Node /\ tip[1] \in 0..Len(blocks) /\ Len(blocks) \in Nat
  BY RoundAssumption DEF Node, NodesInv
<1>2. CASE c \in Genesis
  <2>1. c \in Cells
    BY <1>2, GenesisIsCells
  <2>2. \A n \in Node : c \in Nodes!Created(tip[n])
    BY <1>2, CreatedBy
  <2>3. QED
    BY <2>1, <2>2 DEF Settled
<1>3. CASE c \notin Genesis
  <2>1. PICK b \in 1..tip[1] : c \in blocks[b].created
    BY <1>3, CreatedBy
  <2>2. b \in 1..Len(blocks) /\ blocks[b] \in Block
    BY <1>1, ElementOfSeq DEF NodesInv
  <2>3. c \in Cells /\ c.number = b
    BY <2>1, <2>2 DEF Block, NodesInv, Numbered
  <2>4. ASSUME NEW n \in Node
        PROVE  c \in Nodes!Created(tip[n])
    <3>1. tip[n] \in Nat /\ number <= tip[n]
      BY DEF NodesInv
    <3>2. b \in 1..tip[n]
      BY <2>2, <2>3, <3>1
    <3>3. QED
      BY <2>1, <3>2, CreatedBy
  <2>5. QED
    BY <2>3, <2>4 DEF Settled
<1>4. QED
  BY <1>2, <1>3

\* A settled cell has an out point of the blocks so far.
LEMMA SettledOutPoint ==
  ASSUME NodesInv, NEW c \in Settled
  PROVE  c.out_point \in OutPoint(Len(blocks))
<1>1. 1 \in Node /\ tip[1] \in 0..Len(blocks) /\ Len(blocks) \in Nat
  BY RoundAssumption DEF Node, NodesInv
<1>2. c \in Nodes!Created(tip[1])
  BY <1>1 DEF Settled
<1>3. CASE c \in Genesis
  BY <1>1, <1>3, GenesisOutPoint, OutPointGrows
<1>4. CASE c \notin Genesis
  <2>1. PICK b \in 1..tip[1] : c \in blocks[b].created
    BY <1>2, <1>4, CreatedBy
  <2>2. b \in 1..Len(blocks) /\ b \in Nat /\ b <= Len(blocks)
    BY <1>1
  <2>3. c.out_point \in OutPoint(b)
    BY <2>1, <2>2 DEF NodesInv, Numbered
  <2>4. QED
    BY <1>1, <2>2, <2>3, OutPointGrows
<1>5. QED
  BY <1>3, <1>4

\* Chains only grow, so that what is settled stays so.
LEMMA SettledGrows ==
  ASSUME NodesInv, blocks' \in Seq(Block), Len(blocks) <= Len(blocks'),
         \A b \in 1..Len(blocks) : blocks'[b] = blocks[b],
         \A n \in Node : tip'[n] \in Nat /\ tip[n] <= tip'[n]
  PROVE  /\ Settled \subseteq Settled'
         /\ \A n \in Node : Nodes!Created(tip[n]) \subseteq Nodes!Created(tip[n])'
<1>1. ASSUME NEW n \in Node, NEW c \in Nodes!Created(tip[n])
      PROVE  c \in Nodes!Created(tip[n])'
  <2>1. tip[n] \in 0..Len(blocks) /\ Len(blocks) \in Nat /\ tip'[n] \in Nat /\ tip[n] <= tip'[n]
    BY DEF NodesInv
  <2>2. CASE c \in Genesis
    BY <2>2 DEF Nodes!Created
  <2>3. CASE c \notin Genesis
    <3>1. PICK b \in 1..tip[n] : c \in blocks[b].created
      BY <1>1, <2>3, CreatedBy
    <3>2. b \in 1..tip'[n] /\ blocks'[b] = blocks[b]
      BY <2>1
    <3>3. QED
      BY <3>1, <3>2 DEF Nodes!Created
  <2>4. QED
    BY <2>2, <2>3
<1>2. QED
  BY <1>1 DEF Settled

----------------------------------------------------------------------------
(* The cache of seen out points *)

LEMMA SeenBy ==
  ASSUME NEW S, seen_out_points \in Seq(S), NEW c
  PROVE  c \in LCP!Seen <=> \E k \in 1..Len(seen_out_points) : seen_out_points[k] = c
BY DEF LCP!Seen

\* LruCache::put of a cell that is not in the cache: it goes to the front, and
\* the least recently used one makes room.
LEMMA PutFacts ==
  ASSUME NEW S, NEW cache \in Seq(S), NEW cell \in S,
         \A k \in 1..Len(cache) : cache[k] # cell, Len(cache) <= LCP!SeenCap
  PROVE  LET put == LCP!Put(cache, cell)
         IN /\ put \in Seq(S) /\ Len(put) <= LCP!SeenCap /\ Len(put) >= 1
            /\ put[1] = cell
            /\ \A k \in 2..Len(put) : k - 1 \in 1..Len(cache) /\ put[k] = cache[k - 1]
<1>1. LCP!SeenCap \in Nat \ {0} /\ Len(cache) \in Nat
  BY RoundAssumption, CapsAssumption DEF LCP!SeenCap
<1>2. PICK n : n = IF Len(cache) < LCP!SeenCap THEN Len(cache) ELSE LCP!SeenCap - 1
  OBVIOUS
<1>3. n \in 0..Len(cache) /\ n + 1 <= LCP!SeenCap
  BY <1>1, <1>2
<1>4. LCP!RemoveFirst(cache, cell) = cache
  BY DEF LCP!RemoveFirst
<1>5. LCP!Put(cache, cell) = <<cell>> \o SubSeq(cache, 1, n)
  BY <1>2, <1>4 DEF LCP!Put
<1>6. /\ SubSeq(cache, 1, n) \in Seq(S) /\ Len(SubSeq(cache, 1, n)) = n
      /\ \A k \in 1..n : SubSeq(cache, 1, n)[k] = cache[k]
  <2>1. \A k \in 1..n : cache[k] \in S
    BY <1>1, <1>3, ElementOfSeq
  <2>2. QED
    BY <1>1, <1>3, <2>1, SubSeqProperties
<1>7. PICK rest \in Seq(S) : rest = SubSeq(cache, 1, n)
  BY <1>6
<1>8. PICK put : put = <<cell>> \o rest
  OBVIOUS
<1>9. /\ put \in Seq(S) /\ Len(put) = n + 1 /\ put[1] = cell
      /\ \A k \in 2..n + 1 : put[k] = rest[k - 1]
  BY <1>3, <1>6, <1>7, <1>8
<1>10. \A k \in 2..Len(put) : k - 1 \in 1..Len(cache) /\ put[k] = cache[k - 1]
  BY <1>1, <1>3, <1>6, <1>7, <1>9
<1>11. Len(put) <= LCP!SeenCap /\ Len(put) >= 1
  BY <1>3, <1>9
<1>12. QED
  BY <1>5, <1>7, <1>8, <1>9, <1>10, <1>11

----------------------------------------------------------------------------
(* The invariant: the live cell producer *)

LEMMA BInit ==
  ASSUME Init
  PROVE  BInv
<1>0. Nodes!Init /\ LCP!Init /\ TP!Init
  BY DEF Init
<1>1. NodesInv
  <2>1. blocks = <<>> /\ blocks \in Seq(Block) /\ Len(blocks) = 0
    BY <1>0 DEF Nodes!Init
  <2>2. tip \in [Node -> 0..0]
    BY <1>0 DEF Nodes!Init, Node, Nodes!Node
  <2>3. pool = [n \in Node |-> {}]
    BY <1>0 DEF Nodes!Init, Node, Nodes!Node
  <2>4. QED
    BY <2>1, <2>2, <2>3, CapsAssumption DEF NodesInv
<1>2. PollInv
  <2>1. step = 1 /\ min_tip_number = 0 /\ found = {} /\ seen_out_points = <<>>
    BY <1>0 DEF LCP!Init
  <2>2. 1 \in 1..(NNodes + NUsers) /\ 0 \in 0..MaxBlocks /\ 0 <= LCP!SeenCap
    BY RoundAssumption, CapsAssumption DEF LCP!SeenCap
  <2>3. \A n \in Node : ~(n < 1)
    BY DEF Node
  <2>4. <<>> \in Seq(Settled) /\ Len(<<>>) = 0
    OBVIOUS
  <2>5. QED
    BY <2>1, <2>2, <2>3, <2>4 DEF PollInv
<1>3. PipelineInv
  <2>1. /\ cell_queue = <<>> /\ tx_queue = <<>>
        /\ live_cells = {} /\ backlogs = {} /\ unsent = {}
        /\ cells_open = TRUE /\ receiver_alive = TRUE /\ running = TRUE
    BY <1>0 DEF TP!Init
  <2>2. <<>> \in Seq(Settled) /\ <<>> \in Seq(TP!Transaction) /\ Len(<<>>) = 0
    OBVIOUS
  <2>3. QED
    BY <2>1, <2>2, CapsAssumption DEF PipelineInv
<1>4. LoopInv
  BY RoundAssumption DEF Init, LoopInv, Node
<1>5. QED
  BY <1>1, <1>2, <1>3, <1>4 DEF BInv

\* A part of the invariant stands when what it speaks of does not change.
LEMMA NodesStay ==
  ASSUME NodesInv, UNCHANGED nodes
  PROVE  NodesInv' /\ Settled' = Settled /\ tip' = tip
<1>1. blocks' = blocks /\ tip' = tip /\ pool' = pool
  BY DEF nodes
<1>2. Settled' = Settled
  BY <1>1 DEF Settled, Nodes!Created
<1>3. NodesInv'
  BY <1>1, <1>2 DEF NodesInv
<1>4. QED
  BY <1>1, <1>2, <1>3

LEMMA PollStays ==
  ASSUME PollInv, Settled' = Settled, tip' = tip,
         UNCHANGED <<step, min_tip_number, found, seen_out_points>>
  PROVE  PollInv'
BY DEF PollInv, LCP!Seen

LEMMA PipelineStays ==
  ASSUME PipelineInv, Settled' = Settled,
         UNCHANGED <<cell_queue, live_cells, backlogs, unsent, tx_queue, cells_open,
                     receiver_alive, running>>
  PROVE  PipelineInv'
BY DEF PipelineInv

LEMMA LoopStays ==
  ASSUME LoopInv, Settled' = Settled, UNCHANGED <<state, hand, i, evicted>>
  PROVE  LoopInv'
BY DEF LoopInv

\* The first tip of a round is taken as it is, the others only lower it.
LEMMA BPollTip ==
  ASSUME BInv, PollTip
  PROVE  BInv'
<1>0. NodesInv /\ PollInv /\ PipelineInv /\ LoopInv
  BY DEF BInv
<1>1. UNCHANGED <<nodes, cells_open, produce, loop, cell_queue, tx_queue, receiver_alive, evicted>>
  BY DEF PollTip
<1>2. NodesInv' /\ Settled' = Settled /\ tip' = tip
  BY <1>0, <1>1, NodesStay
<1>3. PipelineInv' /\ LoopInv'
  BY <1>0, <1>1, <1>2, PipelineStays, LoopStays DEF produce, loop
<1>4. PollInv'
  <2>1. /\ step \in 1..(NNodes + NUsers) /\ step <= NNodes
        /\ step \in Node /\ step \in Nat /\ NNodes \in Nat \ {0} /\ NUsers \in Nat \ {0}
    BY <1>0, RoundAssumption DEF PollInv, PollTip, Node
  <2>2. PICK number : number = tip[step]
    OBVIOUS
  <2>3. number \in 0..Len(blocks) /\ Len(blocks) \in Nat /\ number \in 0..MaxBlocks
    BY <1>0, <2>1, <2>2, CapsAssumption DEF NodesInv
  <2>4. min_tip_number \in Nat /\ min_tip_number <= MaxBlocks
    BY <1>0, CapsAssumption DEF PollInv
  <2>5. /\ min_tip_number' = IF step > 1 /\ min_tip_number < number THEN min_tip_number ELSE number
        /\ step' = step + 1
        /\ UNCHANGED <<found, seen_out_points>>
    BY <2>1, <2>2 DEF PollTip, LCP!ReadTip, LCP!NextStep
  <2>6. /\ min_tip_number' \in 0..MaxBlocks
        /\ min_tip_number' <= number
        /\ step > 1 => min_tip_number' <= min_tip_number
    BY <2>1, <2>3, <2>4, <2>5, CapsAssumption
  <2>7. step' \in 1..(NNodes + NUsers)
    BY <2>1, <2>5
  <2>8. ASSUME NEW n \in Node, n < step'
        PROVE  min_tip_number' <= tip[n]
    <3>1. n \in Nat /\ n >= 1 /\ tip[n] \in Nat
      BY <1>0, RoundAssumption DEF Node, NodesInv
    <3>2. CASE n = step
      BY <2>2, <2>6, <3>2
    <3>3. CASE n < step
      <4>1. min_tip_number <= tip[n] /\ step > 1
        BY <1>0, <2>1, <3>1, <3>3 DEF PollInv
      <4>2. QED
        BY <2>4, <2>6, <3>1, <4>1, CapsAssumption
    <3>4. QED
      BY <2>1, <2>5, <2>8, <3>1, <3>2, <3>3
  <2>9. /\ found' \subseteq Settled'
        /\ seen_out_points' \in Seq(Settled') /\ Len(seen_out_points') <= LCP!SeenCap
        /\ found' \cap LCP!Seen' = {}
    BY <1>0, <1>2, <2>5 DEF PollInv, LCP!Seen
  <2>10. QED
    BY <1>2, <2>6, <2>7, <2>8, <2>9 DEF PollInv
<1>5. QED
  BY <1>2, <1>3, <1>4 DEF BInv

\* The scan lets through what is no newer than the tips of this round.
LEMMA BPollUser ==
  ASSUME BInv, PollUser
  PROVE  BInv'
<1>0. NodesInv /\ PollInv /\ PipelineInv /\ LoopInv
  BY DEF BInv
<1>1. UNCHANGED <<nodes, cells_open, produce, loop, cell_queue, tx_queue, receiver_alive, evicted>>
  BY DEF PollUser
<1>2. NodesInv' /\ Settled' = Settled /\ tip' = tip
  BY <1>0, <1>1, NodesStay
<1>3. PipelineInv' /\ LoopInv'
  BY <1>0, <1>1, <1>2, PipelineStays, LoopStays DEF produce, loop
<1>4. PollInv'
  <2>1. /\ step \in 1..(NNodes + NUsers) /\ step > NNodes
        /\ step \in Nat /\ NNodes \in Nat \ {0} /\ NUsers \in Nat \ {0}
    BY <1>0, RoundAssumption DEF PollInv, PollUser
  <2>2. /\ found' = {c \in Spendable(step - NNodes) \ LCP!Seen : c.number <= min_tip_number}
        /\ step' = IF step = NNodes + NUsers THEN 1 ELSE step + 1
        /\ UNCHANGED <<min_tip_number, seen_out_points>>
    BY DEF PollUser, LCP!Scan, LCP!Unseen, LCP!NextStep
  <2>3. \A n \in Node : min_tip_number <= tip[n]
    BY <1>0, <2>1 DEF PollInv, Node
  <2>4. found' \subseteq Settled
    <3>1. SUFFICES ASSUME NEW c \in found' PROVE c \in Settled
      OBVIOUS
    <3>2. c \in Nodes!Created(tip[1]) /\ c.number <= min_tip_number
      BY <2>2 DEF Spendable, Nodes!LiveAt
    <3>3. min_tip_number \in Nat
      BY <1>0 DEF PollInv
    <3>4. QED
      BY <1>0, <2>3, <3>2, <3>3, OldCellsAreSettled
  <2>5. found' \cap LCP!Seen' = {}
    BY <2>2 DEF LCP!Seen
  <2>6. /\ step' \in 1..(NNodes + NUsers)
        /\ \A n \in Node : min_tip_number' <= tip'[n]
    BY <1>2, <2>1, <2>2, <2>3
  <2>7. /\ min_tip_number' \in 0..MaxBlocks
        /\ seen_out_points' \in Seq(Settled') /\ Len(seen_out_points') <= LCP!SeenCap
    BY <1>0, <1>2, <2>2 DEF PollInv
  <2>8. QED
    BY <1>2, <2>4, <2>5, <2>6, <2>7 DEF PollInv
<1>5. QED
  BY <1>2, <1>3, <1>4 DEF BInv

\* What one send does to the cache and to what is left to send
LEMMA CacheAfterSend ==
  ASSUME PollInv, NEW cell \in found, LCP!SendCell(cell)
  PROVE  /\ found' = found \ {cell}
         /\ UNCHANGED <<step, min_tip_number>>
         /\ seen_out_points' \in Seq(Settled) /\ Len(seen_out_points') <= LCP!SeenCap
         /\ cell \in LCP!Seen'
         /\ LCP!Seen' \subseteq LCP!Seen \cup {cell}
<1>1. /\ found' = found \ {cell} /\ UNCHANGED <<step, min_tip_number>>
      /\ seen_out_points' = LCP!Put(seen_out_points, cell)
  BY DEF LCP!SendCell
<1>2. /\ seen_out_points \in Seq(Settled) /\ Len(seen_out_points) <= LCP!SeenCap
      /\ cell \in Settled /\ cell \notin LCP!Seen
  BY DEF PollInv
<1>3. \A k \in 1..Len(seen_out_points) : seen_out_points[k] # cell
  BY <1>2, SeenBy
<1>4. /\ seen_out_points' \in Seq(Settled) /\ Len(seen_out_points') <= LCP!SeenCap
      /\ Len(seen_out_points') >= 1 /\ seen_out_points'[1] = cell
      /\ \A k \in 2..Len(seen_out_points') :
           /\ k - 1 \in 1..Len(seen_out_points)
           /\ seen_out_points'[k] = seen_out_points[k - 1]
  BY <1>1, <1>2, <1>3, PutFacts
<1>5. DOMAIN seen_out_points' = 1..Len(seen_out_points') /\ Len(seen_out_points') \in Nat
  BY <1>4, LenProperties
<1>6. 1 \in DOMAIN seen_out_points'
  BY <1>4, <1>5
<1>7. cell \in LCP!Seen'
  BY <1>4, <1>6 DEF LCP!Seen
<1>8. ASSUME NEW c \in LCP!Seen', c # cell
      PROVE  c \in LCP!Seen
  <2>1. PICK k \in 1..Len(seen_out_points') : seen_out_points'[k] = c
    BY <1>5, <1>8 DEF LCP!Seen
  <2>2. k \in 2..Len(seen_out_points')
    BY <1>4, <1>5, <1>8, <2>1
  <2>3. k - 1 \in 1..Len(seen_out_points) /\ seen_out_points[k - 1] = c
    BY <1>4, <2>1, <2>2
  <2>4. QED
    BY <1>2, <2>3, SeenBy
<1>9. QED
  BY <1>1, <1>4, <1>7, <1>8

LEMMA BSendCell ==
  ASSUME BInv, SendCell
  PROVE  BInv'
<1>0. NodesInv /\ PollInv /\ PipelineInv /\ LoopInv
  BY DEF BInv
<1>1. PICK cell \in found :
         /\ LCP!SendCell(cell) /\ TP!Feed(cell)
         /\ evicted' = evicted \cup (LCP!Seen \ LCP!Seen')
         /\ UNCHANGED <<nodes, loop>>
  BY DEF SendCell
<1>2. NodesInv' /\ Settled' = Settled /\ tip' = tip
  BY <1>0, <1>1, NodesStay
<1>3. /\ found' = found \ {cell}
      /\ UNCHANGED <<step, min_tip_number>>
      /\ seen_out_points' \in Seq(Settled) /\ Len(seen_out_points') <= LCP!SeenCap
      /\ LCP!Seen' \subseteq LCP!Seen \cup {cell}
  BY <1>0, <1>1, CacheAfterSend
<1>4. cell \in Settled
  BY <1>0 DEF PollInv
<1>5. PollInv'
  <2>1. found' \subseteq Settled /\ found' \cap LCP!Seen' = {}
    BY <1>0, <1>3 DEF PollInv
  <2>2. \A n \in Node : n < step' => min_tip_number' <= tip'[n]
    BY <1>0, <1>2, <1>3 DEF PollInv
  <2>3. step' \in 1..(NNodes + NUsers) /\ min_tip_number' \in 0..MaxBlocks
    BY <1>0, <1>3 DEF PollInv
  <2>4. QED
    BY <1>2, <1>3, <2>1, <2>2, <2>3 DEF PollInv
<1>6. PipelineInv'
  <2>1. UNCHANGED <<cells_open, live_cells, backlogs, unsent, tx_queue, receiver_alive, running>>
    BY <1>1 DEF TP!Feed
  <2>2. cell_queue' \in Seq(Settled) /\ Len(cell_queue') <= CellCap
    <3>1. cell_queue \in Seq(Settled) /\ Len(cell_queue) <= CellCap /\ Len(cell_queue) \in Nat
      BY <1>0, LenProperties DEF PipelineInv
    <3>2. CASE running
      <4>1. cell_queue' = Append(cell_queue, cell) /\ Len(cell_queue) < CellCap
        BY <1>1, <3>2 DEF TP!Feed
      <4>2. cell_queue' \in Seq(Settled) /\ Len(cell_queue') = Len(cell_queue) + 1
        BY <1>4, <3>1, <4>1, AppendProperties
      <4>3. QED
        BY <3>1, <4>1, <4>2, CapsAssumption
    <3>3. CASE ~running
      BY <1>1, <3>1, <3>3 DEF TP!Feed
    <3>4. QED
      BY <3>2, <3>3
  <2>3. QED
    BY <1>0, <1>2, <2>1, <2>2 DEF PipelineInv
<1>7. LoopInv'
  <2>1. LCP!Seen \subseteq Settled
    BY <1>0, SeenBy, ElementOfSeq DEF PollInv
  <2>2. evicted' \subseteq Settled
    BY <1>0, <1>1, <2>1 DEF LoopInv
  <2>3. QED
    BY <1>0, <1>1, <1>2, <2>2 DEF LoopInv, loop
<1>8. QED
  BY <1>2, <1>5, <1>6, <1>7 DEF BInv

LEMMA BPollPanics ==
  ASSUME BInv, PollPanics
  PROVE  BInv'
<1>0. NodesInv /\ PollInv /\ PipelineInv /\ LoopInv
  BY DEF BInv
<1>1. NodesInv' /\ Settled' = Settled /\ tip' = tip
  BY <1>0, NodesStay DEF PollPanics
<1>2. PollInv' /\ LoopInv'
  BY <1>0, <1>1, PollStays, LoopStays DEF PollPanics, loop
<1>3. PipelineInv'
  BY <1>0, <1>1 DEF PollPanics, TP!CloseCells, PipelineInv
<1>4. QED
  BY <1>1, <1>2, <1>3 DEF BInv

----------------------------------------------------------------------------
(* The invariant: the transaction producer *)

\* Of the first cell of the channel, held with the others or left out
LEMMA BReceive ==
  ASSUME PipelineInv, Settled \subseteq Cells, TP!Receive, Settled' = Settled
  PROVE  PipelineInv'
<1>1. /\ running /\ unsent = {} /\ cell_queue # <<>>
      /\ UNCHANGED <<cells_open, tx_queue, receiver_alive, running>>
  BY DEF TP!Receive
<1>2. PICK cell : cell = Head(cell_queue)
  OBVIOUS
<1>3. PICK held : held = TP!Hold(live_cells, cell)
  OBVIOUS
<1>4. /\ cell \in Settled
      /\ cell_queue' \in Seq(Settled) /\ Len(cell_queue') <= CellCap
  <2>1. cell_queue \in Seq(Settled) /\ Len(cell_queue) \in Nat /\ Len(cell_queue) <= CellCap
    BY LenProperties DEF PipelineInv
  <2>2. cell_queue' = Tail(cell_queue)
    BY DEF TP!Receive
  <2>3. /\ Head(cell_queue) \in Settled /\ Tail(cell_queue) \in Seq(Settled)
        /\ Len(Tail(cell_queue)) = Len(cell_queue) - 1
    BY <1>1, <2>1, HeadTailProperties
  <2>4. QED
    BY <1>2, <2>1, <2>2, <2>3, CapsAssumption
<1>5. held \subseteq Settled
  BY <1>3, <1>4 DEF TP!Hold, PipelineInv
<1>6. backlogs' \subseteq Settled
  BY <1>2, <1>4 DEF TP!Receive, TP!Defer, PipelineInv
<1>7. cell.lock.user \in Users
  BY <1>4 DEF Cells
<1>8. live_cells' \subseteq Settled
  BY <1>2, <1>3, <1>5 DEF TP!Receive
<1>9. unsent' \subseteq {[inputs |-> held, payee |-> cell.lock.user]}
  BY <1>1, <1>2, <1>3 DEF TP!Receive
<1>10. unsent' \subseteq TP!Transaction /\ \A tx \in unsent' : tx.inputs \subseteq Settled
  BY <1>5, <1>7, <1>9 DEF TP!Transaction
<1>11. QED
  BY <1>1, <1>4, <1>6, <1>8, <1>10 DEF PipelineInv

LEMMA BDrain ==
  ASSUME PipelineInv, TP!Drain
  PROVE  live_cells' \subseteq Settled /\ backlogs' \subseteq Settled
BY DEF TP!Drain, PipelineInv

LEMMA BSend ==
  ASSUME PipelineInv, TP!Send, Settled' = Settled
  PROVE  PipelineInv'
<1>1. PICK tx \in unsent : tx_queue' = Append(tx_queue, tx)
  BY DEF TP!Send
<1>2. /\ unsent' = {} /\ Len(tx_queue) < TxCap
      /\ UNCHANGED <<cell_queue, cells_open, receiver_alive, running>>
  BY DEF TP!Send
<1>3. live_cells' \subseteq Settled /\ backlogs' \subseteq Settled
  BY BDrain DEF TP!Send
<1>4. /\ tx_queue \in Seq(TP!Transaction) /\ Len(tx_queue) \in Nat
      /\ tx \in TP!Transaction /\ tx.inputs \subseteq Settled
  BY LenProperties DEF PipelineInv
<1>5. /\ tx_queue' \in Seq(TP!Transaction) /\ Len(tx_queue') = Len(tx_queue) + 1
      /\ \A k \in 1..Len(tx_queue) : tx_queue'[k] = tx_queue[k]
      /\ tx_queue'[Len(tx_queue) + 1] = tx
  BY <1>1, <1>4, AppendProperties
<1>6. \A k \in 1..Len(tx_queue') : tx_queue'[k].inputs \subseteq Settled
  <2>1. SUFFICES ASSUME NEW k \in 1..Len(tx_queue')
                 PROVE  tx_queue'[k].inputs \subseteq Settled
    OBVIOUS
  <2>2. k \in 1..Len(tx_queue) \/ k = Len(tx_queue) + 1
    BY <1>4, <1>5
  <2>3. QED
    BY <1>4, <1>5, <2>2 DEF PipelineInv
<1>7. Len(tx_queue') <= TxCap
  BY <1>2, <1>4, <1>5, CapsAssumption
<1>8. QED
  BY <1>2, <1>3, <1>5, <1>6, <1>7 DEF PipelineInv

LEMMA BReturn ==
  ASSUME PipelineInv, TP!Return, Settled' = Settled
  PROVE  PipelineInv'
<1>1. /\ running' = FALSE /\ live_cells' = {} /\ backlogs' = {} /\ unsent' = {}
      /\ cell_queue' = <<>>
      /\ UNCHANGED <<cells_open, tx_queue, receiver_alive>>
  BY DEF TP!Return
<1>2. <<>> \in Seq(Settled) /\ Len(<<>>) = 0
  OBVIOUS
<1>3. cell_queue' \in Seq(Settled) /\ Len(cell_queue') <= CellCap
  BY <1>1, <1>2, CapsAssumption
<1>4. running' \in BOOLEAN /\ live_cells' \subseteq Settled /\ backlogs' \subseteq Settled
  BY <1>1
<1>5. unsent' \subseteq TP!Transaction /\ \A tx \in unsent' : tx.inputs \subseteq Settled
  BY <1>1
<1>6. QED
  BY <1>1, <1>3, <1>4, <1>5 DEF PipelineInv

LEMMA BProduce ==
  ASSUME BInv, Produce
  PROVE  BInv'
<1>0. NodesInv /\ PollInv /\ PipelineInv /\ LoopInv
  BY DEF BInv
<1>1. TP!Produce /\ UNCHANGED <<nodes, poll, loop, evicted>>
  BY DEF Produce
<1>2. NodesInv' /\ Settled' = Settled /\ tip' = tip
  BY <1>0, <1>1, NodesStay
<1>3. PollInv' /\ LoopInv'
  BY <1>0, <1>1, <1>2, PollStays, LoopStays DEF poll, loop
<1>4. PipelineInv'
  BY <1>0, <1>1, <1>2, SettledCells, BReceive, BSend, BReturn
     DEF TP!Produce, TP!SendFails, TP!RecvFails
<1>5. QED
  BY <1>2, <1>3, <1>4 DEF BInv

----------------------------------------------------------------------------
(* The invariant: the bench loop *)

LEMMA BTakeTransaction ==
  ASSUME BInv, TakeTransaction
  PROVE  BInv'
<1>0. NodesInv /\ PollInv /\ PipelineInv /\ LoopInv
  BY DEF BInv
<1>1. /\ tx_queue # <<>> /\ tx_queue' = Tail(tx_queue)
      /\ UNCHANGED <<cell_queue, cells_open, live_cells, backlogs, unsent, receiver_alive, running>>
      /\ hand' = {Head(tx_queue)} /\ i' = (i % NNodes) + 1 /\ state' = "send"
      /\ UNCHANGED <<nodes, poll, evicted>>
  BY DEF TakeTransaction, TP!Take
<1>2. NodesInv' /\ Settled' = Settled /\ tip' = tip
  BY <1>0, <1>1, NodesStay
<1>3. PollInv'
  BY <1>0, <1>1, <1>2, PollStays DEF poll
<1>4. PICK tx : tx = Head(tx_queue)
  OBVIOUS
<1>5. /\ tx \in TP!Transaction /\ tx.inputs \subseteq Settled
      /\ tx_queue' \in Seq(TP!Transaction) /\ Len(tx_queue') <= TxCap
      /\ \A k \in 1..Len(tx_queue') : tx_queue'[k].inputs \subseteq Settled
  <2>1. tx_queue \in Seq(TP!Transaction) /\ Len(tx_queue) \in Nat /\ Len(tx_queue) <= TxCap
    BY <1>0, LenProperties DEF PipelineInv
  <2>2. /\ Head(tx_queue) \in TP!Transaction /\ Tail(tx_queue) \in Seq(TP!Transaction)
        /\ Len(Tail(tx_queue)) = Len(tx_queue) - 1
        /\ \A k \in 1..Len(Tail(tx_queue)) : Tail(tx_queue)[k] = tx_queue[k + 1]
    BY <1>1, <2>1, HeadTailProperties
  <2>3. 1 \in 1..Len(tx_queue) /\ Head(tx_queue) = tx_queue[1]
    BY <1>1, <2>1, EmptySeq
  <2>4. tx.inputs \subseteq Settled
    BY <1>0, <1>4, <2>3 DEF PipelineInv
  <2>5. \A k \in 1..Len(tx_queue') : k + 1 \in 1..Len(tx_queue) /\ tx_queue'[k] = tx_queue[k + 1]
    BY <1>1, <2>1, <2>2
  <2>6. \A k \in 1..Len(tx_queue') : tx_queue'[k].inputs \subseteq Settled
    BY <1>0, <2>5 DEF PipelineInv
  <2>7. Len(tx_queue') <= TxCap
    BY <1>1, <2>1, <2>2, CapsAssumption
  <2>8. QED
    BY <1>1, <1>4, <2>2, <2>4, <2>6, <2>7
<1>6. PipelineInv'
  BY <1>0, <1>1, <1>2, <1>5 DEF PipelineInv
<1>7. LoopInv'
  <2>1. i' \in Node
    BY <1>0, <1>1, RoundAssumption DEF LoopInv, Node
  <2>2. hand' \subseteq TP!Transaction /\ \A t \in hand' : t.inputs \subseteq Settled
    BY <1>1, <1>4, <1>5
  <2>3. QED
    BY <1>0, <1>1, <1>2, <2>1, <2>2 DEF LoopInv
<1>8. QED
  BY <1>2, <1>3, <1>6, <1>7 DEF BInv

\* A pool that takes a transaction of settled inputs
LEMMA PoolTakes ==
  ASSUME NodesInv, NEW n \in Node, NEW tx \in TP!Transaction, tx.inputs \subseteq Settled,
         Nodes!Submit(n, tx)
  PROVE  NodesInv' /\ Settled' = Settled /\ tip' = tip
<1>1. /\ blocks' = blocks /\ tip' = tip
      /\ \/ pool' = pool
         \/ pool' = [pool EXCEPT ![n] = @ \cup {tx}]
  BY DEF Nodes!Submit
<1>2. Settled' = Settled
  BY <1>1 DEF Settled, Nodes!Created
<1>3. /\ pool' \in [Node -> SUBSET TP!Transaction]
      /\ \A m \in Node : \A t \in pool'[m] : t = tx \/ t \in pool[m]
  BY <1>1 DEF NodesInv
<1>4. \A m \in Node : \A t \in pool'[m] : t.inputs \subseteq Settled
  BY <1>3 DEF NodesInv
<1>5. QED
  BY <1>1, <1>2, <1>3, <1>4 DEF NodesInv

LEMMA BSendTransaction ==
  ASSUME BInv, SendTransaction
  PROVE  BInv'
<1>0. NodesInv /\ PollInv /\ PipelineInv /\ LoopInv
  BY DEF BInv
<1>1. PICK tx \in hand :
         /\ Nodes!Submit(i, tx)
         /\ hand' \in {hand, {}} /\ state' \in {"send", "recv", "done"}
         /\ UNCHANGED <<poll, produce, cell_queue, tx_queue, receiver_alive, i, evicted>>
  BY DEF SendTransaction
<1>2. NodesInv' /\ Settled' = Settled /\ tip' = tip
  BY <1>0, <1>1, PoolTakes DEF LoopInv
<1>3. PollInv' /\ PipelineInv'
  BY <1>0, <1>1, <1>2, PollStays, PipelineStays DEF poll, produce
<1>4. LoopInv'
  BY <1>0, <1>1, <1>2 DEF LoopInv
<1>5. QED
  BY <1>2, <1>3, <1>4 DEF BInv

LEMMA BRecvTimeout ==
  ASSUME BInv, RecvTimeout
  PROVE  BInv'
<1>0. NodesInv /\ PollInv /\ PipelineInv /\ LoopInv
  BY DEF BInv
<1>1. state' = "panicked"
      /\ UNCHANGED <<nodes, poll, produce, hand, i, cell_queue, tx_queue, receiver_alive, evicted>>
  BY DEF RecvTimeout
<1>2. NodesInv' /\ Settled' = Settled /\ tip' = tip
  BY <1>0, <1>1, NodesStay
<1>3. PollInv' /\ PipelineInv'
  BY <1>0, <1>1, <1>2, PollStays, PipelineStays DEF poll, produce
<1>4. LoopInv'
  BY <1>0, <1>1, <1>2 DEF LoopInv
<1>5. QED
  BY <1>2, <1>3, <1>4 DEF BInv

LEMMA BLeave ==
  ASSUME BInv, Leave
  PROVE  BInv'
<1>0. NodesInv /\ PollInv /\ PipelineInv /\ LoopInv
  BY DEF BInv
<1>1. /\ receiver_alive' = FALSE /\ tx_queue' = <<>>
      /\ UNCHANGED <<cell_queue, cells_open, live_cells, backlogs, unsent, running>>
      /\ UNCHANGED <<nodes, poll, loop, evicted>>
  BY DEF Leave, TP!DropReceiver
<1>2. NodesInv' /\ Settled' = Settled /\ tip' = tip
  BY <1>0, <1>1, NodesStay
<1>3. PollInv' /\ LoopInv'
  BY <1>0, <1>1, <1>2, PollStays, LoopStays DEF poll, loop
<1>4. PipelineInv'
  <2>1. tx_queue' \in Seq(TP!Transaction) /\ Len(tx_queue') = 0 /\ Len(tx_queue') <= TxCap
    BY <1>1, CapsAssumption
  <2>2. receiver_alive' \in BOOLEAN
    BY <1>1
  <2>3. \A k \in 1..Len(tx_queue') : tx_queue'[k].inputs \subseteq Settled
    BY <2>1
  <2>4. QED
    BY <1>0, <1>1, <1>2, <2>1, <2>2, <2>3 DEF PipelineInv
<1>5. QED
  BY <1>2, <1>3, <1>4 DEF BInv

----------------------------------------------------------------------------
(* The invariant: the nodes *)

\* What the bench holds stays settled when the chains grow.
LEMMA BenchWaits ==
  ASSUME NodesInv, PollInv, PipelineInv, LoopInv, Settled \subseteq Settled',
         \A n \in Node : tip'[n] \in Nat /\ tip[n] <= tip'[n],
         UNCHANGED <<poll, produce, loop, cell_queue, tx_queue, receiver_alive, evicted>>
  PROVE  PollInv' /\ PipelineInv' /\ LoopInv'
<1>1. Seq(Settled) \subseteq Seq(Settled')
  BY SeqMonotonic
<1>2. PollInv'
  <2>1. UNCHANGED <<step, min_tip_number, found, seen_out_points>>
    BY DEF poll
  <2>2. \A n \in Node : n < step' => min_tip_number' <= tip'[n]
    <3>1. SUFFICES ASSUME NEW n \in Node, n < step PROVE min_tip_number <= tip'[n]
      BY <2>1
    <3>2. /\ min_tip_number <= tip[n] /\ min_tip_number \in Nat /\ tip[n] \in Nat
          /\ tip'[n] \in Nat /\ tip[n] <= tip'[n]
      BY <3>1 DEF PollInv, NodesInv
    <3>3. QED
      BY <3>2
  <2>3. found' \cap LCP!Seen' = {}
    BY <2>1 DEF PollInv, LCP!Seen
  <2>4. QED
    BY <1>1, <2>1, <2>2, <2>3 DEF PollInv
<1>3. PipelineInv'
  <2>1. UNCHANGED <<cell_queue, live_cells, backlogs, unsent, tx_queue, cells_open,
                    receiver_alive, running>>
    BY DEF poll, produce
  <2>2. \A k \in 1..Len(tx_queue') : tx_queue'[k].inputs \subseteq Settled'
    BY <2>1 DEF PipelineInv
  <2>3. \A tx \in unsent' : tx.inputs \subseteq Settled'
    BY <2>1 DEF PipelineInv
  <2>4. QED
    BY <1>1, <2>1, <2>2, <2>3 DEF PipelineInv
<1>4. LoopInv'
  BY DEF LoopInv, loop
<1>5. QED
  BY <1>2, <1>3, <1>4

\* The outputs in a new block are cells of that block.
LEMMA OutputsFacts ==
  ASSUME NodesInv, Len(blocks) < MaxBlocks,
         NEW tx \in TP!Transaction, tx.inputs \subseteq Settled, NEW index \in TxIndexes
  PROVE  /\ Nodes!Outputs(tx, Len(blocks) + 1, index) \subseteq Cells
         /\ \A c \in Nodes!Outputs(tx, Len(blocks) + 1, index) : Numbered(c, Len(blocks) + 1)
<1>1. SUFFICES ASSUME NEW c \in Nodes!Outputs(tx, Len(blocks) + 1, index)
               PROVE  c \in Cells /\ Numbered(c, Len(blocks) + 1)
  OBVIOUS
<1>2. Len(blocks) \in Nat /\ Len(blocks) + 1 \in 0..MaxBlocks
  BY LenProperties, CapsAssumption DEF NodesInv
<1>3. PICK cell \in tx.inputs :
         c = [out_point |-> Append(cell.out_point, Len(blocks) + 1),
              number |-> Len(blocks) + 1, index |-> index,
              lock |-> Nodes!OutputLock(tx.payee, cell)]
  BY DEF Nodes!Outputs
<1>4. cell.out_point \in OutPoint(Len(blocks))
  BY SettledOutPoint
<1>5. c.out_point \in OutPoint(Len(blocks) + 1)
  BY <1>2, <1>3, <1>4, OutPointOfOutput
<1>6. c.out_point \in OutPoint(MaxBlocks)
  BY <1>2, <1>5, CapsAssumption, OutPointGrows
<1>7. Nodes!OutputLock(tx.payee, cell) \in [user : Users, kind : {"data", "type", "data1"}]
  BY DEF Nodes!OutputLock, TP!Transaction
<1>8. QED
  BY <1>2, <1>3, <1>5, <1>6, <1>7 DEF Cells, Numbered

LEMMA BMine ==
  ASSUME NodesInv, NEW n \in Node, Nodes!Mine(n)
  PROVE  /\ NodesInv' /\ Settled \subseteq Settled'
         /\ \A m \in Node : tip'[m] \in Nat /\ tip[m] <= tip'[m]
<1>1. PICK tx \in pool[n], index \in TxIndexes :
         /\ blocks' = Append(blocks, [spent |-> tx.inputs,
                                      created |-> Nodes!Outputs(tx, Len(blocks) + 1, index)])
         /\ tip' = [tip EXCEPT ![n] = @ + 1]
         /\ pool' = [pool EXCEPT ![n] = @ \ {tx}]
  BY DEF Nodes!Mine
<1>2. tip[n] = Len(blocks) /\ Len(blocks) < MaxBlocks
  BY DEF Nodes!Mine
<1>3. tx \in TP!Transaction /\ tx.inputs \subseteq Settled
  BY DEF NodesInv
<1>4. PICK block : block = [spent |-> tx.inputs,
                            created |-> Nodes!Outputs(tx, Len(blocks) + 1, index)]
  OBVIOUS
<1>5. /\ block.created = Nodes!Outputs(tx, Len(blocks) + 1, index)
      /\ block.created \subseteq Cells /\ block \in Block
      /\ \A c \in block.created : Numbered(c, Len(blocks) + 1)
  <2>1. tx.inputs \subseteq Cells
    BY <1>3, SettledCells
  <2>2. QED
    BY <1>2, <1>3, <1>4, <2>1, OutputsFacts DEF Block
<1>6. Len(blocks) \in Nat /\ blocks \in Seq(Block)
  BY LenProperties DEF NodesInv
<1>7. /\ blocks' \in Seq(Block) /\ Len(blocks') = Len(blocks) + 1
      /\ \A b \in 1..Len(blocks) : blocks'[b] = blocks[b]
      /\ blocks'[Len(blocks) + 1] = block
  BY <1>1, <1>4, <1>5, <1>6, AppendProperties
<1>8. tip' \in [Node -> 0..Len(blocks')]
  BY <1>1, <1>2, <1>6, <1>7 DEF NodesInv
<1>9. \A m \in Node : tip'[m] \in Nat /\ tip[m] <= tip'[m]
  BY <1>1, <1>2, <1>6 DEF NodesInv
<1>10. Settled \subseteq Settled'
  BY <1>6, <1>7, <1>9, SettledGrows
<1>11. Len(blocks') <= MaxBlocks
  BY <1>2, <1>6, <1>7, CapsAssumption
<1>12. ASSUME NEW b \in 1..Len(blocks'), NEW c \in blocks'[b].created
       PROVE  Numbered(c, b)
  <2>1. CASE b \in 1..Len(blocks)
    BY <1>7, <1>12, <2>1 DEF NodesInv
  <2>2. CASE b = Len(blocks) + 1
    BY <1>5, <1>7, <1>12, <2>2
  <2>3. QED
    BY <1>6, <1>7, <2>1, <2>2
<1>13. /\ pool' \in [Node -> SUBSET TP!Transaction]
       /\ \A m \in Node : pool'[m] \subseteq pool[m]
  BY <1>1 DEF NodesInv
<1>14. \A m \in Node : \A t \in pool'[m] : t.inputs \subseteq Settled'
  BY <1>10, <1>13 DEF NodesInv
<1>15. NodesInv'
  BY <1>7, <1>8, <1>11, <1>12, <1>13, <1>14 DEF NodesInv
<1>16. QED
  BY <1>9, <1>10, <1>15

LEMMA BAdopt ==
  ASSUME NodesInv, NEW n \in Node, Nodes!Adopt(n)
  PROVE  /\ NodesInv' /\ Settled \subseteq Settled'
         /\ \A m \in Node : tip'[m] \in Nat /\ tip[m] <= tip'[m]
<1>1. /\ tip[n] < Len(blocks) /\ blocks' = blocks
      /\ tip' = [tip EXCEPT ![n] = @ + 1]
  BY DEF Nodes!Adopt
<1>2. blocks \in Seq(Block) /\ Len(blocks) \in Nat /\ Len(blocks) <= MaxBlocks
  BY LenProperties DEF NodesInv
<1>3. tip' \in [Node -> 0..Len(blocks')]
  BY <1>1, <1>2 DEF NodesInv
<1>4. \A m \in Node : tip'[m] \in Nat /\ tip[m] <= tip'[m]
  BY <1>1, <1>2 DEF NodesInv
<1>5. Settled \subseteq Settled'
  BY <1>1, <1>2, <1>4, SettledGrows
<1>6. /\ pool' \in [Node -> SUBSET TP!Transaction]
      /\ \A m \in Node : pool'[m] \subseteq pool[m]
  BY DEF Nodes!Adopt, NodesInv
<1>7. \A m \in Node : \A t \in pool'[m] : t.inputs \subseteq Settled'
  BY <1>5, <1>6 DEF NodesInv
<1>8. \A b \in 1..Len(blocks') : \A c \in blocks'[b].created : Numbered(c, b)
  BY <1>1 DEF NodesInv
<1>9. NodesInv'
  BY <1>1, <1>2, <1>3, <1>6, <1>7, <1>8 DEF NodesInv
<1>10. QED
  BY <1>4, <1>5, <1>9

LEMMA BNetwork ==
  ASSUME BInv, Network
  PROVE  BInv'
<1>0. NodesInv /\ PollInv /\ PipelineInv /\ LoopInv
  BY DEF BInv
<1>1. UNCHANGED <<poll, produce, loop, cell_queue, tx_queue, receiver_alive, evicted>>
  BY DEF Network
<1>2. PICK n \in Node : Nodes!Mine(n) \/ Nodes!Adopt(n) \/ \E m \in Node : Nodes!Relay(n, m)
  BY DEF Network, Nodes!Next, Node, Nodes!Node
<1>3. /\ NodesInv' /\ Settled \subseteq Settled'
      /\ \A m \in Node : tip'[m] \in Nat /\ tip[m] <= tip'[m]
  <2>1. CASE Nodes!Mine(n)
    BY <1>0, <2>1, BMine
  <2>2. CASE Nodes!Adopt(n)
    BY <1>0, <2>2, BAdopt
  <2>3. CASE \E m \in Node : Nodes!Relay(n, m)
    <3>1. PICK m \in Node, tx \in pool[n] : Nodes!Submit(m, tx)
      BY <2>3 DEF Nodes!Relay
    <3>2. tx \in TP!Transaction /\ tx.inputs \subseteq Settled
      BY <1>0 DEF NodesInv
    <3>3. NodesInv' /\ Settled' = Settled /\ tip' = tip
      BY <1>0, <3>1, <3>2, PoolTakes
    <3>4. \A k \in Node : tip[k] \in Nat
      BY <1>0 DEF NodesInv
    <3>5. QED
      BY <3>3, <3>4
  <2>4. QED
    BY <1>2, <2>1, <2>2, <2>3
<1>4. PollInv' /\ PipelineInv' /\ LoopInv'
  BY <1>0, <1>1, <1>3, BenchWaits
<1>5. QED
  BY <1>3, <1>4 DEF BInv

LEMMA BStutter ==
  ASSUME BInv, UNCHANGED vars
  PROVE  BInv'
<1>0. NodesInv /\ PollInv /\ PipelineInv /\ LoopInv
  BY DEF BInv
<1>1. UNCHANGED <<nodes, poll, produce, loop, cell_queue, tx_queue, receiver_alive, evicted>>
  BY DEF vars
<1>2. NodesInv' /\ Settled' = Settled /\ tip' = tip
  BY <1>0, <1>1, NodesStay
<1>3. PollInv' /\ PipelineInv' /\ LoopInv'
  BY <1>0, <1>1, <1>2, PollStays, PipelineStays, LoopStays DEF poll, produce, loop
<1>4. QED
  BY <1>2, <1>3 DEF BInv

LEMMA BStep ==
  ASSUME BInv, [Next]_vars
  PROVE  BInv'
BY BPollTip, BPollUser, BSendCell, BPollPanics, BProduce, BTakeTransaction, BSendTransaction,
   BRecvTimeout, BLeave, BNetwork, BStutter, Zenon DEF Next, Poll

LEMMA BInvHolds == Spec => []BInv
<1>1. Init => BInv
  BY BInit
<1>2. BInv /\ [Next]_vars => BInv'
  BY BStep
<1>3. QED
  BY <1>1, <1>2, PTL DEF Spec

----------------------------------------------------------------------------
(* What holds whatever is evicted *)

\* The two channels and the LRU cache of bench.rs stay within their capacities,
\* and all that goes through them is a cell of the chain.
THEOREM TypeOKHolds == Spec => []TypeOK
<1>1. ASSUME BInv
      PROVE  TypeOK
  <2>0. NodesInv /\ PollInv /\ PipelineInv /\ LoopInv
    BY <1>1 DEF BInv
  <2>1. TP!TypeOK
    <3>1. cell_queue \in Seq(Cells)
      BY <2>0, SettledCells, SeqMonotonic DEF PipelineInv
    <3>2. live_cells \in SUBSET Cells /\ backlogs \in SUBSET Cells
      BY <2>0, SettledCells DEF PipelineInv
    <3>3. QED
      BY <2>0, <3>1, <3>2 DEF PipelineInv, TP!TypeOK
  <2>2. LCP!Seen \subseteq Cells
    <3>1. SUFFICES ASSUME NEW c \in LCP!Seen PROVE c \in Cells
      OBVIOUS
    <3>2. seen_out_points \in Seq(Settled)
      BY <2>0 DEF PollInv
    <3>3. PICK k \in 1..Len(seen_out_points) : seen_out_points[k] = c
      BY <3>2, SeenBy
    <3>4. QED
      BY <3>2, <3>3, ElementOfSeq, SettledCells
  <2>3. found \subseteq Cells /\ evicted \subseteq Cells
    BY <2>0, SettledCells DEF PollInv, LoopInv
  <2>4. /\ Len(seen_out_points) <= LCP!SeenCap
        /\ step \in 1..(NNodes + NUsers) /\ min_tip_number \in 0..MaxBlocks
    BY <2>0 DEF PollInv
  <2>5. /\ hand \in SUBSET TP!Transaction
        /\ i \in 1..NNodes /\ state \in {"recv", "send", "done", "panicked"}
    BY <2>0 DEF LoopInv, Node
  <2>6. QED
    BY <2>1, <2>2, <2>3, <2>4, <2>5 DEF TypeOK
<1>2. QED
  BY <1>1, BInvHolds, PTL

\* The filter of LiveCellProducer::run compares with tips that the nodes have
\* left behind since, and yet each transaction is sent only to a node whose chain
\* has all of its inputs, whichever node it goes to and however late.
THEOREM InputsKnownToEveryNodeHolds == Spec => []InputsKnownToEveryNode
<1>1. ASSUME BInv
      PROVE  InputsKnownToEveryNode
  <2>0. PipelineInv /\ LoopInv
    BY <1>1 DEF BInv
  <2>1. ASSUME NEW tx \in Underway
        PROVE  tx.inputs \subseteq Settled
    <3>1. CASE tx \in unsent \cup hand
      BY <2>0, <3>1 DEF PipelineInv, LoopInv
    <3>2. CASE tx \in {tx_queue[k] : k \in DOMAIN tx_queue}
      <4>1. DOMAIN tx_queue = 1..Len(tx_queue)
        BY <2>0, LenProperties DEF PipelineInv
      <4>2. QED
        BY <2>0, <3>2, <4>1 DEF PipelineInv
    <3>3. QED
      BY <3>1, <3>2 DEF Underway
  <2>2. QED
    BY <2>1 DEF InputsKnownToEveryNode, Settled, Node
<1>2. QED
  BY <1>1, BInvHolds, PTL

\* A dry pipeline stays dry: neither thread of bench.rs, nor the loop of main.rs,
\* nor any node finds anything to do with cells that are all in the cache.
THEOREM StarvationIsForeverHolds == Spec => StarvationIsForever
<1>1. ASSUME Starved, [Next]_vars
      PROVE  Starved'
  <2>0. /\ found = {} /\ cell_queue = <<>> /\ unsent = {} /\ tx_queue = <<>> /\ hand = {}
        /\ \A n \in 1..NNodes : pool[n] = {} /\ tip[n] = Len(blocks)
        /\ Nodes!LiveAt(Len(blocks)) \subseteq LCP!Seen
    BY <1>1 DEF Starved
  <2>1. ASSUME UNCHANGED nodes, seen_out_points' = seen_out_points,
               found' = {}, cell_queue' = <<>>, unsent' = {}, tx_queue' = <<>>, hand' = {}
        PROVE  Starved'
    <3>1. blocks' = blocks /\ tip' = tip /\ pool' = pool
      BY <2>1 DEF nodes
    <3>2. Nodes!LiveAt(Len(blocks))' \subseteq LCP!Seen'
      BY <2>0, <2>1, <3>1 DEF Nodes!LiveAt, Nodes!Created, Nodes!Spent, LCP!Seen
    <3>3. QED
      BY <2>0, <2>1, <3>1, <3>2 DEF Starved
  <2>2. CASE PollTip
    BY <2>0, <2>1, <2>2 DEF PollTip, LCP!ReadTip, produce, loop
  <2>3. CASE PollUser
    <3>1. tip[1] = Len(blocks)
      BY <2>0, RoundAssumption
    <3>2. Spendable(step - NNodes) \subseteq LCP!Seen
      BY <2>0, <3>1 DEF Spendable
    <3>3. found' = {}
      BY <2>3, <3>2 DEF PollUser, LCP!Scan, LCP!Unseen
    <3>4. QED
      BY <2>0, <2>1, <2>3, <3>3 DEF PollUser, LCP!Scan, produce, loop
  <2>4. CASE SendCell
    BY <2>0, <2>4 DEF SendCell
  <2>5. CASE PollPanics
    BY <2>0, <2>1, <2>5 DEF PollPanics, TP!CloseCells, loop
  <2>6. CASE Produce
    <3>1. TP!RecvFails /\ UNCHANGED <<nodes, poll, loop, evicted>>
      BY <2>0, <2>6 DEF Produce, TP!Produce, TP!Receive, TP!Send, TP!SendFails
    <3>2. QED
      BY <2>0, <2>1, <3>1 DEF TP!RecvFails, TP!Return, poll, loop
  <2>7. CASE TakeTransaction
    BY <2>0, <2>7 DEF TakeTransaction, TP!Take
  <2>8. CASE SendTransaction
    BY <2>0, <2>8 DEF SendTransaction
  <2>9. CASE RecvTimeout
    BY <2>0, <2>1, <2>9 DEF RecvTimeout, poll, produce
  <2>10. CASE Leave
    BY <2>0, <2>1, <2>10 DEF Leave, TP!DropReceiver, poll, loop
  <2>11. CASE Network
    <3>1. PICK n \in 1..NNodes :
             Nodes!Mine(n) \/ Nodes!Adopt(n) \/ \E m \in 1..NNodes : Nodes!Relay(n, m)
      BY <2>11 DEF Network, Nodes!Next, Nodes!Node
    <3>2. ~Nodes!Mine(n)
      BY <2>0 DEF Nodes!Mine
    <3>3. ~Nodes!Adopt(n)
      <4>1. CASE Nodes!Adopt(n)
        <5>1. Len(blocks) < Len(blocks)
          BY <2>0, <4>1 DEF Nodes!Adopt
        <5>2. QED
          BY <2>0, <5>1
      <4>2. QED
        BY <4>1
    <3>4. ~ \E m \in 1..NNodes : Nodes!Relay(n, m)
      BY <2>0 DEF Nodes!Relay
    <3>5. QED
      BY <3>1, <3>2, <3>3, <3>4
  <2>12. CASE UNCHANGED vars
    BY <2>0, <2>1, <2>12 DEF vars, poll, produce, loop
  <2>13. QED
    BY <1>1, <2>2, <2>3, <2>4, <2>5, <2>6, <2>7, <2>8, <2>9, <2>10, <2>11, <2>12, Zenon
       DEF Next, Poll
<1>2. QED
  BY <1>1, PTL DEF Spec, StarvationIsForever

----------------------------------------------------------------------------
(* A cell that is never evicted is claimed once: the channels *)

LEMMA CellQueueTail ==
  ASSUME NEW S, cell_queue \in Seq(S), cell_queue # <<>>, cell_queue' = Tail(cell_queue), NEW c
  PROVE  /\ QueuedCell(Head(cell_queue))
         /\ QueuedCell(c)' => QueuedCell(c)
         /\ OneQueuedCell(c) => OneQueuedCell(c)'
         /\ OneQueuedCell(c) /\ c = Head(cell_queue) => ~QueuedCell(c)'
<1>1. /\ Len(cell_queue) \in Nat \ {0} /\ Len(cell_queue') = Len(cell_queue) - 1
      /\ \A k \in 1..Len(cell_queue') : cell_queue'[k] = cell_queue[k + 1]
      /\ Head(cell_queue) = cell_queue[1]
  BY HeadTailProperties, EmptySeq
<1>2. QueuedCell(Head(cell_queue))
  BY <1>1 DEF QueuedCell
<1>3. \A k \in 1..Len(cell_queue') :
        k + 1 \in 1..Len(cell_queue) /\ k \in Nat /\ cell_queue'[k] = cell_queue[k + 1]
  BY <1>1
<1>4. QueuedCell(c)' => QueuedCell(c)
  BY <1>3 DEF QueuedCell
<1>5. OneQueuedCell(c) => OneQueuedCell(c)'
  <2>1. SUFFICES ASSUME OneQueuedCell(c), NEW j \in 1..Len(cell_queue'),
                        NEW k \in 1..Len(cell_queue'), cell_queue'[j] = c, cell_queue'[k] = c
                 PROVE  j = k
    BY DEF OneQueuedCell
  <2>2. j + 1 = k + 1
    BY <1>3, <2>1 DEF OneQueuedCell
  <2>3. QED
    BY <2>2
<1>6. OneQueuedCell(c) /\ c = Head(cell_queue) => ~QueuedCell(c)'
  <2>1. SUFFICES ASSUME OneQueuedCell(c), c = Head(cell_queue),
                        NEW k \in 1..Len(cell_queue'), cell_queue'[k] = c
                 PROVE  FALSE
    BY DEF QueuedCell
  <2>2. 1 \in 1..Len(cell_queue) /\ cell_queue[1] = c /\ cell_queue[k + 1] = c
    BY <1>1, <1>3, <2>1
  <2>3. k + 1 = 1
    BY <1>3, <2>1, <2>2 DEF OneQueuedCell
  <2>4. QED
    BY <2>3
<1>7. QED
  BY <1>2, <1>4, <1>5, <1>6

LEMMA TxQueueTail ==
  ASSUME NEW S, tx_queue \in Seq(S), tx_queue # <<>>, tx_queue' = Tail(tx_queue), NEW c
  PROVE  /\ c \in Head(tx_queue).inputs => QueuedInput(c)
         /\ QueuedInput(c)' => QueuedInput(c)
         /\ OneQueuedInput(c) => OneQueuedInput(c)'
         /\ OneQueuedInput(c) /\ c \in Head(tx_queue).inputs => ~QueuedInput(c)'
<1>1. /\ Len(tx_queue) \in Nat \ {0} /\ Len(tx_queue') = Len(tx_queue) - 1
      /\ \A k \in 1..Len(tx_queue') : tx_queue'[k] = tx_queue[k + 1]
      /\ Head(tx_queue) = tx_queue[1]
  BY HeadTailProperties, EmptySeq
<1>2. c \in Head(tx_queue).inputs => QueuedInput(c)
  BY <1>1 DEF QueuedInput
<1>3. \A k \in 1..Len(tx_queue') :
        k + 1 \in 1..Len(tx_queue) /\ k \in Nat /\ tx_queue'[k] = tx_queue[k + 1]
  BY <1>1
<1>4. QueuedInput(c)' => QueuedInput(c)
  BY <1>3 DEF QueuedInput
<1>5. OneQueuedInput(c) => OneQueuedInput(c)'
  <2>1. SUFFICES ASSUME OneQueuedInput(c), NEW j \in 1..Len(tx_queue'),
                        NEW k \in 1..Len(tx_queue'),
                        c \in tx_queue'[j].inputs, c \in tx_queue'[k].inputs
                 PROVE  j = k
    BY DEF OneQueuedInput
  <2>2. j + 1 = k + 1
    BY <1>3, <2>1 DEF OneQueuedInput
  <2>3. QED
    BY <2>2
<1>6. OneQueuedInput(c) /\ c \in Head(tx_queue).inputs => ~QueuedInput(c)'
  <2>1. SUFFICES ASSUME OneQueuedInput(c), c \in Head(tx_queue).inputs,
                        NEW k \in 1..Len(tx_queue'), c \in tx_queue'[k].inputs
                 PROVE  FALSE
    BY DEF QueuedInput
  <2>2. 1 \in 1..Len(tx_queue) /\ c \in tx_queue[1].inputs /\ c \in tx_queue[k + 1].inputs
    BY <1>1, <1>3, <2>1
  <2>3. k + 1 = 1
    BY <1>3, <2>1, <2>2 DEF OneQueuedInput
  <2>4. QED
    BY <2>3
<1>7. QED
  BY <1>2, <1>4, <1>5, <1>6

LEMMA CellQueueAppend ==
  ASSUME NEW S, cell_queue \in Seq(S), NEW cell \in S, cell_queue' = Append(cell_queue, cell), NEW c
  PROVE  /\ QueuedCell(c)' => QueuedCell(c) \/ c = cell
         /\ OneQueuedCell(c) /\ (c = cell => ~QueuedCell(c)) => OneQueuedCell(c)'
<1>1. /\ Len(cell_queue) \in Nat /\ Len(cell_queue') = Len(cell_queue) + 1
      /\ \A k \in 1..Len(cell_queue) : cell_queue'[k] = cell_queue[k]
      /\ cell_queue'[Len(cell_queue) + 1] = cell
  BY AppendProperties, LenProperties
<1>2. \A k \in 1..Len(cell_queue') :
        \/ k \in 1..Len(cell_queue) /\ cell_queue'[k] = cell_queue[k]
        \/ k = Len(cell_queue) + 1 /\ cell_queue'[k] = cell
  BY <1>1
<1>3. QED
  BY <1>2 DEF QueuedCell, OneQueuedCell

LEMMA TxQueueAppend ==
  ASSUME NEW S, tx_queue \in Seq(S), NEW tx \in S, tx_queue' = Append(tx_queue, tx), NEW c
  PROVE  /\ QueuedInput(c)' => QueuedInput(c) \/ c \in tx.inputs
         /\ OneQueuedInput(c) /\ (c \in tx.inputs => ~QueuedInput(c)) => OneQueuedInput(c)'
<1>1. /\ Len(tx_queue) \in Nat /\ Len(tx_queue') = Len(tx_queue) + 1
      /\ \A k \in 1..Len(tx_queue) : tx_queue'[k] = tx_queue[k]
      /\ tx_queue'[Len(tx_queue) + 1] = tx
  BY AppendProperties, LenProperties
<1>2. \A k \in 1..Len(tx_queue') :
        \/ k \in 1..Len(tx_queue) /\ tx_queue'[k] = tx_queue[k]
        \/ k = Len(tx_queue) + 1 /\ tx_queue'[k] = tx
  BY <1>1
<1>3. QED
  BY <1>2 DEF QueuedInput, OneQueuedInput

----------------------------------------------------------------------------
(* A cell that is never evicted is claimed once: the steps *)

\* Every step of the nodes: a use of a cell is the use of a pooled transaction,
\* and nothing else moves.
LEMMA ClaimWaits ==
  ASSUME NEW c, ClaimedOnce(c), Used(c)' => Used(c),
         UNCHANGED <<seen_out_points, cell_queue, live_cells, backlogs, unsent, tx_queue, hand>>
  PROVE  ClaimedOnce(c)'
<1>1. OneQueuedCell(c)' = OneQueuedCell(c) /\ OneQueuedInput(c)' = OneQueuedInput(c)
  BY DEF OneQueuedCell, OneQueuedInput
<1>2. /\ QueuedCell(c)' = QueuedCell(c) /\ QueuedInput(c)' = QueuedInput(c)
      /\ UnsentInput(c)' = UnsentInput(c) /\ HandInput(c)' = HandInput(c)
      /\ LCP!Seen' = LCP!Seen
  BY DEF QueuedCell, QueuedInput, UnsentInput, HandInput, LCP!Seen
<1>3. QED
  BY <1>1, <1>2, Zenon DEF ClaimedOnce

\* What is used of the chain and the pools depends on nothing else.
LEMMA UsedStays ==
  ASSUME UNCHANGED nodes, NEW c
  PROVE  Used(c)' = Used(c)
BY DEF nodes, Used, Nodes!Spent

\* A found cell is not in the cache, hence nowhere: its copy in the channel is
\* the only one.
LEMMA ClaimSendCell ==
  ASSUME BInv, SendCell, NEW c, ClaimedOnce(c), c \notin evicted'
  PROVE  ClaimedOnce(c)'
<1>0. PollInv /\ PipelineInv
  BY DEF BInv
<1>1. PICK cell \in found :
         /\ LCP!SendCell(cell) /\ TP!Feed(cell)
         /\ evicted' = evicted \cup (LCP!Seen \ LCP!Seen')
         /\ UNCHANGED <<nodes, loop>>
  BY DEF SendCell
<1>2. UNCHANGED <<live_cells, backlogs, unsent, tx_queue, hand>>
  BY <1>1 DEF TP!Feed, loop
<1>3. /\ OneQueuedInput(c)' = OneQueuedInput(c) /\ QueuedInput(c)' = QueuedInput(c)
      /\ UnsentInput(c)' = UnsentInput(c) /\ HandInput(c)' = HandInput(c)
      /\ Used(c)' = Used(c)
  BY <1>1, <1>2, UsedStays DEF OneQueuedInput, QueuedInput, UnsentInput, HandInput
<1>4. cell \in LCP!Seen' /\ cell \notin LCP!Seen
  BY <1>0, <1>1, CacheAfterSend DEF PollInv
<1>5. c \in LCP!Seen => c \in LCP!Seen'
  BY <1>1
<1>6. c = cell => ~QueuedCell(c)
  BY <1>4 DEF ClaimedOnce
<1>7. (QueuedCell(c)' => QueuedCell(c) \/ c = cell) /\ OneQueuedCell(c)'
  <2>1. cell_queue \in Seq(Settled) /\ cell \in Settled
    BY <1>0 DEF PipelineInv, PollInv
  <2>2. OneQueuedCell(c)
    BY DEF ClaimedOnce
  <2>3. CASE cell_queue' = Append(cell_queue, cell)
    BY <1>6, <2>1, <2>2, <2>3, CellQueueAppend
  <2>4. CASE cell_queue' = cell_queue
    BY <2>2, <2>4 DEF QueuedCell, OneQueuedCell
  <2>5. QED
    BY <1>1, <2>3, <2>4 DEF TP!Feed
<1>8. CASE c = cell
  <2>1. /\ c \notin live_cells /\ ~QueuedInput(c) /\ ~UnsentInput(c) /\ ~HandInput(c) /\ ~Used(c)
        /\ c \notin backlogs /\ OneQueuedInput(c)
    BY <1>4, <1>8 DEF ClaimedOnce
  <2>2. c \notin live_cells' /\ c \notin backlogs'
    BY <1>2, <2>1
  <2>3. QED
    BY <1>3, <1>4, <1>7, <1>8, <2>1, <2>2, Zenon DEF ClaimedOnce
<1>9. CASE c # cell
  <2>1. QueuedCell(c)' => QueuedCell(c)
    BY <1>7, <1>9
  <2>2. (c \in live_cells') = (c \in live_cells) /\ (c \in backlogs') = (c \in backlogs)
    BY <1>2
  <2>3. QED
    BY <1>3, <1>5, <1>7, <2>1, <2>2, Zenon DEF ClaimedOnce
<1>10. QED
  BY <1>8, <1>9

\* The one copy moves from the channel to where the transaction is made.
LEMMA ClaimReceive ==
  ASSUME PipelineInv, TP!Receive, NEW c, ClaimedOnce(c),
         UNCHANGED <<nodes, seen_out_points, hand>>
  PROVE  ClaimedOnce(c)'
<1>1. /\ unsent = {} /\ cell_queue # <<>> /\ cell_queue' = Tail(cell_queue)
      /\ UNCHANGED tx_queue
  BY DEF TP!Receive
<1>2. /\ OneQueuedInput(c)' = OneQueuedInput(c) /\ QueuedInput(c)' = QueuedInput(c)
      /\ HandInput(c)' = HandInput(c) /\ Used(c)' = Used(c)
      /\ LCP!Seen' = LCP!Seen
  BY <1>1, UsedStays DEF OneQueuedInput, QueuedInput, HandInput, LCP!Seen
<1>3. PICK cell : cell = Head(cell_queue)
  OBVIOUS
<1>4. PICK held : held = TP!Hold(live_cells, cell)
  OBVIOUS
<1>5. /\ QueuedCell(cell)
      /\ QueuedCell(c)' => QueuedCell(c)
      /\ OneQueuedCell(c)' /\ (c = cell => ~QueuedCell(c)')
  <2>1. cell_queue \in Seq(Settled)
    BY DEF PipelineInv
  <2>2. OneQueuedCell(c)
    BY DEF ClaimedOnce
  <2>3. /\ QueuedCell(Head(cell_queue))
        /\ QueuedCell(c)' => QueuedCell(c)
        /\ OneQueuedCell(c) => OneQueuedCell(c)'
        /\ OneQueuedCell(c) /\ c = Head(cell_queue) => ~QueuedCell(c)'
    BY <1>1, <2>1, CellQueueTail
  <2>4. QED
    BY <1>3, <2>2, <2>3
<1>6. c \in held => c \in live_cells \/ c = cell
  BY <1>4 DEF TP!Hold
<1>7. c \notin backlogs'
  <2>1. c = cell => c \notin live_cells
    BY <1>5 DEF ClaimedOnce
  <2>2. backlogs' = TP!Defer(live_cells, backlogs, cell)
    BY <1>3 DEF TP!Receive
  <2>3. c \in backlogs' => c \in backlogs \/ (c = cell /\ c \in live_cells)
    BY <2>2 DEF TP!Defer
  <2>4. QED
    BY <2>1, <2>3 DEF ClaimedOnce
<1>8. \/ live_cells' = {} /\ unsent' = {[inputs |-> held, payee |-> cell.lock.user]}
      \/ live_cells' = held /\ unsent' = {}
  BY <1>1, <1>3, <1>4 DEF TP!Receive
<1>9. /\ c \in live_cells' => c \in live_cells \/ c = cell
      /\ UnsentInput(c)' => c \in live_cells \/ c = cell
      /\ ~(c \in live_cells' /\ UnsentInput(c)')
  BY <1>6, <1>8 DEF UnsentInput
<1>10. (c \in live_cells \/ c = cell) =>
         ~QueuedCell(c)' /\ ~QueuedInput(c) /\ ~HandInput(c) /\ ~Used(c) /\ c \in LCP!Seen
  BY <1>5 DEF ClaimedOnce
<1>11. QueuedCell(c)' => /\ ~QueuedInput(c) /\ ~HandInput(c) /\ ~Used(c) /\ c \in LCP!Seen
                         /\ c # cell /\ c \notin live_cells
  BY <1>5 DEF ClaimedOnce
<1>12. /\ OneQueuedInput(c)
       /\ QueuedInput(c) => ~HandInput(c) /\ ~Used(c) /\ c \in LCP!Seen
       /\ HandInput(c) => ~Used(c) /\ c \in LCP!Seen
       /\ Used(c) => c \in LCP!Seen
  BY DEF ClaimedOnce
<1>13. QED
  BY <1>2, <1>5, <1>7, <1>9, <1>10, <1>11, <1>12, Zenon DEF ClaimedOnce

\* The refill from the backlogs brings nothing that was not evicted.
LEMMA ClaimSend ==
  ASSUME PipelineInv, TP!Send, NEW c, ClaimedOnce(c),
         UNCHANGED <<nodes, seen_out_points, hand>>
  PROVE  ClaimedOnce(c)'
<1>1. PICK tx \in unsent : tx_queue' = Append(tx_queue, tx)
  BY DEF TP!Send
<1>2. unsent' = {} /\ cell_queue' = cell_queue
  BY DEF TP!Send
<1>3. /\ OneQueuedCell(c)' = OneQueuedCell(c) /\ QueuedCell(c)' = QueuedCell(c)
      /\ HandInput(c)' = HandInput(c) /\ Used(c)' = Used(c) /\ ~UnsentInput(c)'
      /\ LCP!Seen' = LCP!Seen
  BY <1>2, UsedStays DEF OneQueuedCell, QueuedCell, HandInput, UnsentInput, LCP!Seen
<1>4. c \notin backlogs' /\ (c \in live_cells' => c \in live_cells)
  BY DEF ClaimedOnce, TP!Send, TP!Drain
<1>5. c \in tx.inputs => UnsentInput(c)
  BY DEF UnsentInput
<1>6. (QueuedInput(c)' => QueuedInput(c) \/ UnsentInput(c)) /\ OneQueuedInput(c)'
  <2>1. tx_queue \in Seq(TP!Transaction) /\ tx \in TP!Transaction
    BY DEF PipelineInv
  <2>2. OneQueuedInput(c) /\ (c \in tx.inputs => ~QueuedInput(c))
    BY <1>5 DEF ClaimedOnce
  <2>3. QED
    BY <1>1, <1>5, <2>1, <2>2, TxQueueAppend
<1>7. QED
  BY <1>3, <1>4, <1>6, Zenon DEF ClaimedOnce

\* run() returns and drops what it holds.
LEMMA ClaimReturn ==
  ASSUME TP!Return, NEW c, ClaimedOnce(c), UNCHANGED <<nodes, seen_out_points, hand>>
  PROVE  ClaimedOnce(c)'
<1>1. live_cells' = {} /\ backlogs' = {} /\ unsent' = {} /\ cell_queue' = <<>> /\ tx_queue' = tx_queue
  BY DEF TP!Return
<1>2. /\ OneQueuedInput(c)' = OneQueuedInput(c) /\ QueuedInput(c)' = QueuedInput(c)
      /\ HandInput(c)' = HandInput(c) /\ Used(c)' = Used(c)
      /\ LCP!Seen' = LCP!Seen
  BY <1>1, UsedStays DEF OneQueuedInput, QueuedInput, HandInput, LCP!Seen
<1>3. ~QueuedCell(c)' /\ OneQueuedCell(c)' /\ ~UnsentInput(c)'
  BY <1>1 DEF QueuedCell, OneQueuedCell, UnsentInput
<1>4. c \notin live_cells' /\ c \notin backlogs'
  BY <1>1
<1>5. QED
  BY <1>2, <1>3, <1>4, Zenon DEF ClaimedOnce

\* recv_timeout() moves the transaction from the channel to the loop.
LEMMA ClaimTake ==
  ASSUME PipelineInv, TakeTransaction, NEW c, ClaimedOnce(c)
  PROVE  ClaimedOnce(c)'
<1>1. /\ tx_queue # <<>> /\ tx_queue' = Tail(tx_queue) /\ hand' = {Head(tx_queue)}
      /\ UNCHANGED <<nodes, poll, cell_queue, live_cells, backlogs, unsent>>
  BY DEF TakeTransaction, TP!Take
<1>2. UNCHANGED seen_out_points
  BY <1>1 DEF poll
<1>3. /\ OneQueuedCell(c)' = OneQueuedCell(c) /\ QueuedCell(c)' = QueuedCell(c)
      /\ UnsentInput(c)' = UnsentInput(c) /\ Used(c)' = Used(c)
      /\ LCP!Seen' = LCP!Seen
  BY <1>1, <1>2, UsedStays DEF OneQueuedCell, QueuedCell, UnsentInput, LCP!Seen
<1>4. /\ HandInput(c)' => QueuedInput(c) /\ ~QueuedInput(c)'
      /\ QueuedInput(c)' => QueuedInput(c)
      /\ OneQueuedInput(c)'
  <2>1. tx_queue \in Seq(TP!Transaction)
    BY DEF PipelineInv
  <2>2. OneQueuedInput(c)
    BY DEF ClaimedOnce
  <2>3. /\ c \in Head(tx_queue).inputs => QueuedInput(c)
        /\ QueuedInput(c)' => QueuedInput(c)
        /\ OneQueuedInput(c) => OneQueuedInput(c)'
        /\ OneQueuedInput(c) /\ c \in Head(tx_queue).inputs => ~QueuedInput(c)'
    BY <1>1, <2>1, TxQueueTail
  <2>4. HandInput(c)' => c \in Head(tx_queue).inputs
    BY <1>1 DEF HandInput
  <2>5. QED
    BY <2>2, <2>3, <2>4
<1>5. (c \in live_cells') = (c \in live_cells) /\ (c \in backlogs') = (c \in backlogs)
  BY <1>1
<1>6. QED
  BY <1>3, <1>4, <1>5, Zenon DEF ClaimedOnce

\* A node that takes a transaction uses its inputs, and no others.
LEMMA UsedAfterSubmit ==
  ASSUME NodesInv, NEW n, NEW tx, Nodes!Submit(n, tx), NEW c
  PROVE  /\ Used(c)' => Used(c) \/ c \in tx.inputs
         /\ Nodes!Verdict(n, tx) # "Ok" => Used(c)' = Used(c)
<1>1. /\ blocks' = blocks
      /\ \/ pool' = pool
         \/ pool' = [pool EXCEPT ![n] = @ \cup {tx}]
      /\ Nodes!Verdict(n, tx) # "Ok" => pool' = pool
  BY DEF Nodes!Submit
<1>2. Nodes!Spent(Len(blocks))' = Nodes!Spent(Len(blocks))
  BY <1>1 DEF Nodes!Spent
<1>3. \A m \in Node : \A t \in pool'[m] : t = tx \/ t \in pool[m]
  BY <1>1 DEF NodesInv
<1>4. QED
  BY <1>1, <1>2, <1>3 DEF Used

\* The loop lets go of a transaction when its node has answered.
LEMMA ClaimSendTransaction ==
  ASSUME BInv, SendTransaction, NEW c, ClaimedOnce(c)
  PROVE  ClaimedOnce(c)'
<1>0. NodesInv
  BY DEF BInv
<1>1. PICK tx \in hand :
         /\ Nodes!Submit(i, tx)
         /\ IF Nodes!Verdict(i, tx) = "PoolIsFull" THEN UNCHANGED hand ELSE hand' = {}
  BY DEF SendTransaction
<1>2. UNCHANGED <<poll, produce, cell_queue, tx_queue>>
  BY DEF SendTransaction
<1>3. UNCHANGED <<seen_out_points, cell_queue, live_cells, backlogs, unsent, tx_queue>>
  BY <1>2 DEF poll, produce
<1>4. CASE Nodes!Verdict(i, tx) = "PoolIsFull"
  <2>1. Used(c)' = Used(c) /\ hand' = hand
    BY <1>0, <1>1, <1>4, UsedAfterSubmit
  <2>2. QED
    BY <1>3, <2>1, ClaimWaits
<1>5. CASE Nodes!Verdict(i, tx) # "PoolIsFull"
  <2>1. hand' = {} /\ ~HandInput(c)'
    BY <1>1, <1>5 DEF HandInput
  <2>2. Used(c)' => Used(c) \/ HandInput(c)
    BY <1>0, <1>1, UsedAfterSubmit DEF HandInput
  <2>3. /\ OneQueuedCell(c)' = OneQueuedCell(c) /\ QueuedCell(c)' = QueuedCell(c)
        /\ OneQueuedInput(c)' = OneQueuedInput(c) /\ QueuedInput(c)' = QueuedInput(c)
        /\ UnsentInput(c)' = UnsentInput(c) /\ LCP!Seen' = LCP!Seen
    BY <1>3 DEF OneQueuedCell, QueuedCell, OneQueuedInput, QueuedInput, UnsentInput, LCP!Seen
  <2>4. (c \in live_cells') = (c \in live_cells) /\ (c \in backlogs') = (c \in backlogs)
    BY <1>3
  <2>5. QED
    BY <2>1, <2>2, <2>3, <2>4, Zenon DEF ClaimedOnce
<1>6. QED
  BY <1>4, <1>5

\* The transactions left in the channel are dropped with its receiver.
LEMMA ClaimLeave ==
  ASSUME Leave, NEW c, ClaimedOnce(c)
  PROVE  ClaimedOnce(c)'
<1>1. /\ tx_queue' = <<>> /\ UNCHANGED <<nodes, poll, loop>>
      /\ UNCHANGED <<cell_queue, live_cells, backlogs, unsent>>
  BY DEF Leave, TP!DropReceiver
<1>2. UNCHANGED <<seen_out_points, hand>>
  BY <1>1 DEF poll, loop
<1>3. /\ OneQueuedCell(c)' = OneQueuedCell(c) /\ QueuedCell(c)' = QueuedCell(c)
      /\ UnsentInput(c)' = UnsentInput(c) /\ HandInput(c)' = HandInput(c)
      /\ Used(c)' = Used(c) /\ LCP!Seen' = LCP!Seen
  BY <1>1, <1>2, UsedStays
     DEF OneQueuedCell, QueuedCell, UnsentInput, HandInput, LCP!Seen
<1>4. ~QueuedInput(c)' /\ OneQueuedInput(c)'
  BY <1>1 DEF QueuedInput, OneQueuedInput
<1>5. (c \in live_cells') = (c \in live_cells) /\ (c \in backlogs') = (c \in backlogs)
  BY <1>1
<1>6. QED
  BY <1>3, <1>4, <1>5, Zenon DEF ClaimedOnce

\* Mining moves the use of a cell from a pool to the chain.
LEMMA UsedByNetwork ==
  ASSUME NodesInv, Network, NEW c, Used(c)'
  PROVE  Used(c)
<1>1. PICK n \in Node : Nodes!Mine(n) \/ Nodes!Adopt(n) \/ \E m \in Node : Nodes!Relay(n, m)
  BY DEF Network, Nodes!Next, Node, Nodes!Node
<1>2. CASE Nodes!Mine(n)
  <2>1. PICK tx \in pool[n], index \in TxIndexes :
          /\ blocks' = Append(blocks, [spent |-> tx.inputs,
                                       created |-> Nodes!Outputs(tx, Len(blocks) + 1, index)])
          /\ pool' = [pool EXCEPT ![n] = @ \ {tx}]
    BY <1>2 DEF Nodes!Mine
  <2>2. PICK block : block = [spent |-> tx.inputs,
                              created |-> Nodes!Outputs(tx, Len(blocks) + 1, index)]
    OBVIOUS
  <2>3. blocks \in Seq(Block) /\ Len(blocks) \in Nat
    BY LenProperties DEF NodesInv
  <2>4. /\ Len(blocks') = Len(blocks) + 1
        /\ \A b \in 1..Len(blocks) : blocks'[b] = blocks[b]
        /\ blocks'[Len(blocks) + 1] = block
    <3>1. \A s \in Seq(Block \cup {block}) :
            /\ Len(Append(s, block)) = Len(s) + 1
            /\ \A b \in 1..Len(s) : Append(s, block)[b] = s[b]
            /\ Append(s, block)[Len(s) + 1] = block
      BY AppendProperties
    <3>2. blocks \in Seq(Block \cup {block})
      BY <2>3, SeqMonotonic
    <3>3. QED
      BY <2>1, <2>2, <3>1, <3>2
  <2>5. \A m \in Node : pool'[m] \subseteq pool[m]
    BY <2>1 DEF NodesInv
  <2>6. CASE c \in Nodes!Spent(Len(blocks))'
    <3>1. PICK b \in 1..Len(blocks') : c \in blocks'[b].spent
      BY <2>6 DEF Nodes!Spent
    <3>2. CASE b \in 1..Len(blocks)
      <4>1. c \in Nodes!Spent(Len(blocks))
        BY <2>4, <3>1, <3>2, SpentBy
      <4>2. QED
        BY <4>1 DEF Used
    <3>3. CASE b = Len(blocks) + 1
      <4>1. c \in tx.inputs
        BY <2>2, <2>4, <3>1, <3>3
      <4>2. QED
        BY <4>1 DEF Used
    <3>4. QED
      BY <2>3, <2>4, <3>2, <3>3
  <2>7. CASE \E m \in Node : \E t \in pool'[m] : c \in t.inputs
    BY <2>5, <2>7 DEF Used
  <2>8. QED
    BY <2>6, <2>7 DEF Used
<1>3. CASE Nodes!Adopt(n)
  <2>1. blocks' = blocks /\ \A m \in Node : pool'[m] \subseteq pool[m]
    BY <1>3 DEF Nodes!Adopt, NodesInv
  <2>2. Nodes!Spent(Len(blocks))' = Nodes!Spent(Len(blocks))
    BY <2>1 DEF Nodes!Spent
  <2>3. QED
    BY <2>1, <2>2 DEF Used
<1>4. CASE \E m \in Node : Nodes!Relay(n, m)
  <2>1. PICK m \in Node, tx \in pool[n] : Nodes!Submit(m, tx)
    BY <1>4 DEF Nodes!Relay
  <2>2. Used(c) \/ c \in tx.inputs
    BY <2>1, UsedAfterSubmit
  <2>3. QED
    BY <2>2 DEF Used
<1>5. QED
  BY <1>1, <1>2, <1>3, <1>4

LEMMA ClaimInit ==
  ASSUME Init
  PROVE  ClaimInv
<1>1. /\ blocks = <<>> /\ pool = [n \in Node |-> {}]
      /\ cell_queue = <<>> /\ tx_queue = <<>> /\ live_cells = {} /\ backlogs = {}
      /\ unsent = {} /\ hand = {}
  BY DEF Init, Nodes!Init, TP!Init, Node, Nodes!Node
<1>2. ASSUME NEW c
      PROVE  ClaimedOnce(c)
  <2>1. ~QueuedCell(c) /\ ~QueuedInput(c) /\ OneQueuedCell(c) /\ OneQueuedInput(c)
    BY <1>1 DEF QueuedCell, QueuedInput, OneQueuedCell, OneQueuedInput
  <2>2. ~UnsentInput(c) /\ ~HandInput(c)
    BY <1>1 DEF UnsentInput, HandInput
  <2>3. ~Used(c)
    <3>1. c \notin Nodes!Spent(Len(blocks))
      BY <1>1 DEF Nodes!Spent
    <3>2. QED
      BY <1>1, <3>1 DEF Used
  <2>4. QED
    BY <1>1, <2>1, <2>2, <2>3 DEF ClaimedOnce
<1>3. QED
  BY <1>2 DEF ClaimInv

LEMMA ClaimStep ==
  ASSUME BInv, ClaimInv, [Next]_vars
  PROVE  ClaimInv'
<1>0. NodesInv /\ PipelineInv
  BY DEF BInv
<1>1. SUFFICES ASSUME NEW c \in Cells, c \notin evicted'
               PROVE  ClaimedOnce(c)'
  BY DEF ClaimInv
<1>2. evicted \subseteq evicted'
  BY DEF Next, Poll, PollTip, PollUser, SendCell, PollPanics, Produce, TakeTransaction,
         SendTransaction, RecvTimeout, Leave, Network, vars
<1>3. ClaimedOnce(c)
  BY <1>1, <1>2 DEF ClaimInv
<1>4. ASSUME UNCHANGED <<nodes, seen_out_points, cell_queue, live_cells, backlogs, unsent,
                         tx_queue, hand>>
      PROVE  ClaimedOnce(c)'
  BY <1>3, <1>4, ClaimWaits, UsedStays
<1>5. CASE PollTip
  BY <1>4, <1>5 DEF PollTip, LCP!ReadTip, produce, loop
<1>6. CASE PollUser
  BY <1>4, <1>6 DEF PollUser, LCP!Scan, produce, loop
<1>7. CASE SendCell
  BY <1>1, <1>3, <1>7, ClaimSendCell
<1>8. CASE PollPanics
  BY <1>4, <1>8 DEF PollPanics, TP!CloseCells, loop
<1>9. CASE Produce
  <2>1. TP!Produce /\ UNCHANGED <<nodes, seen_out_points, hand>>
    BY <1>9 DEF Produce, poll, loop
  <2>2. QED
    BY <1>0, <1>3, <2>1, ClaimReceive, ClaimSend, ClaimReturn
       DEF TP!Produce, TP!SendFails, TP!RecvFails
<1>10. CASE TakeTransaction
  BY <1>0, <1>3, <1>10, ClaimTake
<1>11. CASE SendTransaction
  BY <1>3, <1>11, ClaimSendTransaction
<1>12. CASE RecvTimeout
  BY <1>4, <1>12 DEF RecvTimeout, poll, produce
<1>13. CASE Leave
  BY <1>3, <1>13, ClaimLeave
<1>14. CASE Network
  <2>1. UNCHANGED <<seen_out_points, cell_queue, live_cells, backlogs, unsent, tx_queue, hand>>
    BY <1>14 DEF Network, poll, produce, loop
  <2>2. QED
    BY <1>0, <1>3, <1>14, <2>1, ClaimWaits, UsedByNetwork
<1>15. CASE UNCHANGED vars
  BY <1>4, <1>15 DEF vars, poll, produce, loop
<1>16. QED
  BY <1>5, <1>6, <1>7, <1>8, <1>9, <1>10, <1>11, <1>12, <1>13, <1>14, <1>15, Zenon
     DEF Next, Poll

LEMMA ClaimInvHolds == Spec => [](BInv /\ ClaimInv)
<1>1. Init => BInv /\ ClaimInv
  BY BInit, ClaimInit
<1>2. BInv /\ ClaimInv /\ [Next]_vars => BInv' /\ ClaimInv'
  BY BStep, ClaimStep
<1>3. QED
  BY <1>1, <1>2, PTL DEF Spec

----------------------------------------------------------------------------
(* A cell that is never evicted is claimed once: the theorems *)

LEMMA CountOfOne ==
  ASSUME NEW S, \A j, k \in S : j = k
  PROVE  Cardinality(S) = IF S = {} THEN 0 ELSE 1
<1>1. CASE S = {}
  BY <1>1, FS_EmptySet
<1>2. CASE S # {}
  <2>1. PICK j : j \in S
    BY <1>2
  <2>2. S = {j}
    BY <2>1
  <2>3. QED
    BY <1>2, <2>2, FS_Singleton
<1>3. QED
  BY <1>1, <1>2

LEMMA ChainOfCells ==
  ASSUME NodesInv
  PROVE  Nodes!Created(Len(blocks)) \subseteq Cells
<1>1. SUFFICES ASSUME NEW c \in Nodes!Created(Len(blocks)), c \notin Genesis
               PROVE  c \in Cells
  BY GenesisIsCells
<1>2. PICK b \in 1..Len(blocks) : c \in blocks[b].created
  BY <1>1, CreatedBy
<1>3. blocks[b] \in Block
  BY ElementOfSeq DEF NodesInv
<1>4. QED
  BY <1>2, <1>3 DEF Block

\* The cache of seen out points is all that keeps the bench from claiming a cell
\* again before its transaction is in the chain that is scanned: from the channel
\* of bench.rs over the maps, the other channel, the loop of main.rs and the pools
\* to the chain, a cell that was never evicted is in one place.
THEOREM ClaimedOnceUnlessEvictedHolds == Spec => []ClaimedOnceUnlessEvicted
<1>1. ASSUME BInv, ClaimInv
      PROVE  ClaimedOnceUnlessEvicted
  <2>0. NodesInv /\ PipelineInv
    BY <1>1 DEF BInv
  <2>1. SUFFICES ASSUME NEW c \in Nodes!Created(Len(blocks)), c \notin evicted
                 PROVE  Claims(c) <= 1
    BY DEF ClaimedOnceUnlessEvicted
  <2>2. ClaimedOnce(c)
    BY <1>1, <2>0, <2>1, ChainOfCells DEF ClaimInv
  <2>3. DOMAIN cell_queue = 1..Len(cell_queue) /\ DOMAIN tx_queue = 1..Len(tx_queue)
    BY <2>0, LenProperties DEF PipelineInv
  <2>4. Cardinality({k \in DOMAIN cell_queue : cell_queue[k] = c}) = OneIf(QueuedCell(c))
    <3>1. \A j, k \in {k \in DOMAIN cell_queue : cell_queue[k] = c} : j = k
      BY <2>2, <2>3 DEF ClaimedOnce, OneQueuedCell
    <3>2. {k \in DOMAIN cell_queue : cell_queue[k] = c} = {} <=> ~QueuedCell(c)
      BY <2>3 DEF QueuedCell
    <3>3. QED
      BY <3>1, <3>2, CountOfOne DEF OneIf
  <2>5. Cardinality({k \in DOMAIN tx_queue : c \in tx_queue[k].inputs}) = OneIf(QueuedInput(c))
    <3>1. \A j, k \in {k \in DOMAIN tx_queue : c \in tx_queue[k].inputs} : j = k
      BY <2>2, <2>3 DEF ClaimedOnce, OneQueuedInput
    <3>2. {k \in DOMAIN tx_queue : c \in tx_queue[k].inputs} = {} <=> ~QueuedInput(c)
      BY <2>3 DEF QueuedInput
    <3>3. QED
      BY <3>1, <3>2, CountOfOne DEF OneIf
  <2>6. Claims(c) = OneIf(QueuedCell(c)) + OneIf(c \in live_cells) + OneIf(c \in backlogs)
                      + OneIf(QueuedInput(c)) + OneIf(UnsentInput(c)) + OneIf(HandInput(c))
                      + OneIf(Used(c))
    BY <2>4, <2>5 DEF Claims, UnsentInput, HandInput, Used, Node
  <2>7. /\ c \notin backlogs
        /\ QueuedCell(c) => /\ c \notin live_cells /\ ~QueuedInput(c) /\ ~UnsentInput(c)
                            /\ ~HandInput(c) /\ ~Used(c)
        /\ c \in live_cells => ~QueuedInput(c) /\ ~UnsentInput(c) /\ ~HandInput(c) /\ ~Used(c)
        /\ UnsentInput(c) => ~QueuedInput(c) /\ ~HandInput(c) /\ ~Used(c)
        /\ QueuedInput(c) => ~HandInput(c) /\ ~Used(c)
        /\ HandInput(c) => ~Used(c)
    BY <2>2, Zenon DEF ClaimedOnce
  <2>8. QED
    BY <2>6, <2>7 DEF OneIf
<1>2. QED
  BY <1>1, ClaimInvHolds, PTL

\* send_transaction() answers "TransactionFailedToResolve" only to a double spend:
\* the inputs of the transaction in hand are in the chain of every node, and one
\* that no pool and no block has used resolves.
THEOREM DiscardsAreDoubleSpendsHolds == Spec => []DiscardsAreDoubleSpends
<1>1. ASSUME BInv, ClaimInv
      PROVE  DiscardsAreDoubleSpends
  <2>0. NodesInv /\ LoopInv
    BY <1>1 DEF BInv
  <2>1. SUFFICES ASSUME NEW tx \in hand, tx.inputs \cap evicted = {}
                 PROVE  Nodes!Verdict(i, tx) # "TransactionFailedToResolve"
    BY DEF DiscardsAreDoubleSpends
  <2>2. i \in Node /\ tip[i] \in 0..Len(blocks) /\ Len(blocks) \in Nat
    BY <2>0, LenProperties DEF LoopInv, NodesInv
  <2>3. \A c \in tx.inputs : c \in Settled /\ ~Used(c)
    <3>1. SUFFICES ASSUME NEW c \in tx.inputs PROVE c \in Settled /\ ~Used(c)
      OBVIOUS
    <3>2. c \in Settled /\ HandInput(c)
      BY <2>0 DEF LoopInv, HandInput
    <3>3. ClaimedOnce(c)
      BY <1>1, <2>1, <3>2, SettledCells DEF ClaimInv
    <3>4. QED
      BY <3>2, <3>3 DEF ClaimedOnce
  <2>4. tx.inputs \subseteq Nodes!LiveAt(tip[i])
    <3>1. SUFFICES ASSUME NEW c \in tx.inputs PROVE c \in Nodes!LiveAt(tip[i])
      OBVIOUS
    <3>2. c \in Nodes!Created(tip[i])
      BY <2>2, <2>3 DEF Settled
    <3>3. c \notin Nodes!Spent(tip[i])
      <4>1. c \notin Nodes!Spent(Len(blocks))
        BY <2>3 DEF Used
      <4>2. \A b \in 1..tip[i] : b \in 1..Len(blocks)
        BY <2>2
      <4>3. QED
        BY <4>1, <4>2, SpentBy
    <3>4. QED
      BY <3>2, <3>3 DEF Nodes!LiveAt
  <2>5. \A other \in pool[i] : other.inputs \cap tx.inputs = {}
    BY <2>2, <2>3 DEF Used
  <2>6. Nodes!Resolves(i, tx)
    BY <2>4, <2>5 DEF Nodes!Resolves
  <2>7. QED
    BY <2>6 DEF Nodes!Verdict
<1>2. QED
  BY <1>1, ClaimInvHolds, PTL
=============================================================================

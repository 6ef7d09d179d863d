---------------------------- MODULE ClientProofs ----------------------------
(***************************************************************************)
(* Theorems about what the testkit runs beside a node: the synchronisation *)
(* of its indexer, for any chain, any reorganisations and any number of    *)
(* blocks, and its subscription client, for any number of requests and of  *)
(* notifications and any pieces in which the connection delivers bytes.    *)
(***************************************************************************)
EXTENDS IndexerSync, Subscription, SequenceTheorems, NaturalsInduction, WellFoundedInduction, TLAPS

\* any block, whatever its number
Block == Seq(Sibling)

SyncType ==
  /\ tip_block \in Block
  /\ reorgs \in Nat
  /\ indexer \in Seq(Block)
  /\ answer \in [block : Block, known : {"none", "block", "unasked"}]
  /\ syncing \in BOOLEAN

\* Block k of the indexer has number k - 1, and the blocks below it are its ancestors.
Ancestors ==
  \A k \in 1..Len(indexer) :
    /\ Len(indexer[k]) = k - 1
    /\ \A j \in 1..k : indexer[j] = At(indexer[k], j - 1)

\* What the node has answered is a block that may follow the tip of the indexer, or that
\* its own tip has no higher number.
Asked ==
  /\ answer.known = "unasked" => answer = NotAsked
  /\ answer # NotAsked => indexer # <<>>
  /\ answer.known = "block" => Len(answer.block) = Len(Tip) + 1
  /\ answer.known = "none" => Len(answer.block) <= Len(Tip)

\* Without a reorganisation, all that the loop has seen is on the main chain.
NothingStale ==
  reorgs = 0 =>
    /\ indexer # <<>> => OnMain(Tip)
    /\ answer.known = "block" => OnMain(answer.block)

SyncInv == SyncType /\ Ancestors /\ Asked /\ NothingStale

----------------------------------------------------------------------------
(* Blocks and their ancestors *)

\* The ancestor of b with number n has the first n elements of b.
LEMMA AtNumber ==
  ASSUME NEW b \in Block, NEW n \in 0..Len(b)
  PROVE  /\ At(b, n) \in Block
         /\ Len(At(b, n)) = n
         /\ \A i \in 1..n : At(b, n)[i] = b[i]
<1>1. \A i \in 1..n : b[i] \in Sibling
  BY DEF Block
<1>2. QED
  BY <1>1, SubSeqProperties DEF At, Block

\* The ancestor of an ancestor is an ancestor.
LEMMA AtAt ==
  ASSUME NEW b \in Block, NEW m \in 0..Len(b), NEW n \in 0..m
  PROVE  At(At(b, m), n) = At(b, n)
<1>1. /\ At(b, m) \in Block /\ Len(At(b, m)) = m
      /\ \A i \in 1..m : At(b, m)[i] = b[i]
  BY AtNumber
<1>2. n \in 0..Len(b) /\ n \in 0..Len(At(b, m))
  BY <1>1 DEF Block
<1>3. /\ At(b, n) \in Block /\ Len(At(b, n)) = n
      /\ \A i \in 1..n : At(b, n)[i] = b[i]
  BY <1>2, AtNumber
<1>4. /\ At(At(b, m), n) \in Block /\ Len(At(At(b, m), n)) = n
      /\ \A i \in 1..n : At(At(b, m), n)[i] = At(b, m)[i]
  BY <1>1, <1>2, AtNumber
<1>5. \A i \in 1..n : At(At(b, m), n)[i] = At(b, n)[i]
  BY <1>1, <1>3, <1>4
<1>6. QED
  BY <1>3, <1>4, <1>5, SeqEqual DEF Block

\* A block is its own ancestor, and its parent the one with the number before.
LEMMA AtSelf ==
  ASSUME NEW b \in Block
  PROVE  At(b, Len(b)) = b /\ Front(b) = At(b, Len(b) - 1)
BY SubSeqFull DEF At, Front, Block

\* A prefix is an ancestor.
LEMMA PrefixIsAncestor ==
  ASSUME NEW b \in Block, NEW c \in Block
  PROVE  IsPrefix(b, c) <=> Len(b) <= Len(c) /\ b = At(c, Len(b))
<1>1. SubSeq(b, 1, Len(b)) = b
  BY SubSeqFull DEF Block
<1>2. QED
  BY <1>1 DEF IsPrefix, At

\* An ancestor of a block is on every chain that the block is on.
LEMMA AncestorOnChain ==
  ASSUME NEW b \in Block, NEW c \in Block, NEW n \in 0..Len(b), IsPrefix(b, c)
  PROVE  IsPrefix(At(b, n), c) /\ At(b, n) = At(c, n)
<1>1. Len(b) \in Nat /\ Len(c) \in Nat
  BY DEF Block
<1>2. Len(b) <= Len(c) /\ b = At(c, Len(b))
  BY PrefixIsAncestor
<1>3. At(b, n) \in Block /\ Len(At(b, n)) = n
  BY AtNumber
<1>4. At(At(c, Len(b)), n) = At(c, n)
  BY <1>1, <1>2, AtAt
<1>5. n <= Len(c)
  BY <1>1, <1>2
<1>6. QED
  BY <1>2, <1>3, <1>4, <1>5, PrefixIsAncestor

\* What is on the main chain stays there when the chain grows.
LEMMA PrefixOfGrown ==
  ASSUME NEW b \in Block, NEW c \in Block, NEW s \in Sibling, IsPrefix(b, c)
  PROVE  IsPrefix(b, Append(c, s))
<1>1. /\ Append(c, s) \in Block /\ Len(Append(c, s)) = Len(c) + 1
      /\ \A i \in 1..Len(c) : Append(c, s)[i] = c[i]
  BY DEF Block
<1>2. Len(b) \in Nat /\ Len(c) \in Nat
  BY DEF Block
<1>3. Len(b) <= Len(c) /\ b = At(c, Len(b))
  BY PrefixIsAncestor
<1>4. Len(b) \in 0..Len(c) /\ Len(b) \in 0..Len(Append(c, s))
  BY <1>1, <1>2, <1>3
<1>5. \A i \in 1..Len(b) : At(c, Len(b))[i] = c[i]
  BY <1>4, AtNumber
<1>6. /\ At(Append(c, s), Len(b)) \in Block /\ Len(At(Append(c, s), Len(b))) = Len(b)
      /\ \A i \in 1..Len(b) : At(Append(c, s), Len(b))[i] = Append(c, s)[i]
  BY <1>1, <1>4, AtNumber
<1>7. \A i \in 1..Len(b) : b[i] = At(Append(c, s), Len(b))[i]
  BY <1>1, <1>2, <1>3, <1>5, <1>6
<1>8. b = At(Append(c, s), Len(b))
  BY <1>6, <1>7, SeqEqual DEF Block
<1>9. Len(b) <= Len(Append(c, s))
  BY <1>1, <1>2, <1>3
<1>10. QED
  BY <1>1, <1>8, <1>9, PrefixIsAncestor, Zenon

----------------------------------------------------------------------------
(* The sequence of the blocks in the indexer *)

\* What is left of a sequence without its last element
LEMMA FrontProperties ==
  ASSUME NEW S, NEW s \in Seq(S), s # <<>>
  PROVE  /\ Front(s) \in Seq(S) /\ Len(Front(s)) = Len(s) - 1
         /\ \A k \in 1..Len(Front(s)) : Front(s)[k] = s[k]
<1>1. PICK n \in Nat : n = Len(s) - 1
  BY EmptySeq
<1>2. \A k \in 1..n : s[k] \in S
  BY <1>1, ElementOfSeq
<1>3. /\ SubSeq(s, 1, n) \in Seq(S)
      /\ Len(SubSeq(s, 1, n)) = IF 1 <= n THEN n - 1 + 1 ELSE 0
      /\ \A k \in 1..n - 1 + 1 : SubSeq(s, 1, n)[k] = s[1 + k - 1]
  BY <1>2, SubSeqProperties
<1>4. Len(SubSeq(s, 1, n)) = n /\ \A k \in 1..n : SubSeq(s, 1, n)[k] = s[k]
  BY <1>3
<1>5. Front(s) = SubSeq(s, 1, n)
  BY <1>1 DEF Front
<1>6. QED
  BY <1>1, <1>3, <1>4, <1>5

\* The tip is the last block, and its number one less than their number.
LEMMA TipOfIndexer ==
  ASSUME SyncType, Ancestors, indexer # <<>>
  PROVE  /\ Len(indexer) \in Nat \ {0}
         /\ Tip = indexer[Len(indexer)] /\ Tip \in Block
         /\ Len(Tip) = Len(indexer) - 1
<1>0. indexer \in Seq(Block)
  BY DEF SyncType
<1>1. Len(indexer) \in Nat \ {0}
  BY <1>0, EmptySeq
<1>2. Tip = indexer[Len(indexer)] /\ Tip \in Block
  BY <1>0, <1>1, ElementOfSeq DEF Tip, Last
<1>3. QED
  BY <1>1, <1>2 DEF Ancestors

\* A block whose parent is the tip goes on top of it.
LEMMA Appended ==
  ASSUME SyncType, Ancestors, indexer # <<>>,
         NEW b \in Block, Front(b) = Tip, Len(b) = Len(Tip) + 1,
         indexer' = Append(indexer, b)
  PROVE  /\ indexer' \in Seq(Block) /\ indexer' # <<>>
         /\ Tip' = b
         /\ Ancestors'
<1>1. /\ Len(indexer) \in Nat \ {0}
      /\ Tip = indexer[Len(indexer)] /\ Tip \in Block
      /\ Len(Tip) = Len(indexer) - 1
  BY TipOfIndexer
<1>2. /\ indexer' \in Seq(Block) /\ indexer' # <<>> /\ Len(indexer') = Len(indexer) + 1
      /\ \A k \in 1..Len(indexer) : indexer'[k] = indexer[k]
      /\ indexer'[Len(indexer) + 1] = b
  <2>1. indexer \in Seq(Block)
    BY DEF SyncType
  <2>2. QED
    BY <2>1, AppendProperties
<1>3. Tip' = b
  BY <1>2 DEF Tip, Last
<1>4. Tip = At(b, Len(Tip))
  BY <1>1, AtSelf
<1>5. ASSUME NEW k \in 1..Len(indexer')
      PROVE  /\ Len(indexer'[k]) = k - 1
             /\ \A j \in 1..k : indexer'[j] = At(indexer'[k], j - 1)
  <2>1. CASE k \in 1..Len(indexer)
    <3>1. indexer'[k] = indexer[k] /\ \A j \in 1..k : indexer'[j] = indexer[j]
      BY <1>1, <1>2, <2>1
    <3>2. QED
      BY <3>1, <2>1 DEF Ancestors
  <2>2. CASE k = Len(indexer) + 1
    <3>1. indexer'[k] = b /\ Len(b) = k - 1
      BY <1>1, <1>2, <2>2
    <3>2. ASSUME NEW j \in 1..k
          PROVE  indexer'[j] = At(b, j - 1)
      <4>1. CASE j = k
        BY <3>1, <4>1, AtSelf
      <4>2. CASE j \in 1..Len(indexer)
        <5>1. indexer'[j] = At(Tip, j - 1)
          BY <1>1, <1>2, <4>2 DEF Ancestors
        <5>2. j - 1 \in 0..Len(Tip) /\ Len(Tip) \in 0..Len(b)
          BY <1>1, <4>2
        <5>3. At(At(b, Len(Tip)), j - 1) = At(b, j - 1)
          BY <5>2, AtAt
        <5>4. QED
          BY <5>1, <5>3, <1>4
      <4>3. QED
        BY <4>1, <4>2, <2>2, <1>1
    <3>3. QED
      BY <3>1, <3>2
  <2>3. QED
    BY <2>1, <2>2, <1>1, <1>2
<1>6. QED
  BY <1>2, <1>3, <1>5 DEF Ancestors

\* A rollback takes the tip, and leaves its ancestors.
LEMMA RolledBack ==
  ASSUME SyncType, Ancestors, indexer # <<>>, indexer' = Front(indexer)
  PROVE  /\ indexer' \in Seq(Block) /\ Len(indexer') = Len(indexer) - 1
         /\ indexer' # <<>> => Tip' = At(Tip, Len(Tip) - 1)
         /\ Ancestors'
<1>1. /\ Len(indexer) \in Nat \ {0}
      /\ Tip = indexer[Len(indexer)] /\ Tip \in Block
      /\ Len(Tip) = Len(indexer) - 1
  BY TipOfIndexer
<1>2. /\ indexer' \in Seq(Block) /\ Len(indexer') = Len(indexer) - 1
      /\ \A k \in 1..Len(indexer') : indexer'[k] = indexer[k]
  <2>1. indexer \in Seq(Block)
    BY DEF SyncType
  <2>2. QED
    BY <2>1, FrontProperties
<1>3. indexer' # <<>> => Tip' = At(Tip, Len(Tip) - 1)
  <2>1. SUFFICES ASSUME indexer' # <<>> PROVE Tip' = At(Tip, Len(Tip) - 1)
    OBVIOUS
  <2>2. Len(indexer') \in Nat \ {0}
    BY <1>2, <2>1, EmptySeq
  <2>3. Tip' = indexer[Len(indexer) - 1]
    BY <1>1, <1>2, <2>2 DEF Tip, Last
  <2>4. Len(indexer) \in 1..Len(indexer) /\ Len(indexer) - 1 \in 1..Len(indexer)
    BY <1>1, <1>2, <2>2
  <2>5. indexer[Len(indexer) - 1] = At(indexer[Len(indexer)], Len(indexer) - 2)
    BY <1>1, <2>4 DEF Ancestors
  <2>6. QED
    BY <1>1, <2>3, <2>5
<1>4. Ancestors'
  <2>1. SUFFICES ASSUME NEW k \in 1..Len(indexer')
                 PROVE  /\ Len(indexer'[k]) = k - 1
                        /\ \A j \in 1..k : indexer'[j] = At(indexer'[k], j - 1)
    BY DEF Ancestors
  <2>2. k \in 1..Len(indexer)
    BY <1>1, <1>2
  <2>3. indexer'[k] = indexer[k] /\ \A j \in 1..k : indexer'[j] = indexer[j]
    BY <1>1, <1>2
  <2>4. QED
    BY <2>2, <2>3 DEF Ancestors
<1>5. QED
  BY <1>2, <1>3, <1>4

----------------------------------------------------------------------------
(* The invariant *)

LEMMA BlocksAreBlocks == Blocks \subseteq Block
<1>1. SUFFICES ASSUME NEW b \in Blocks PROVE b \in Block
  OBVIOUS
<1>2. PICK m \in 0..MaxNumber : b \in [1..m -> Sibling]
  BY DEF Blocks, BoundedSeq, SeqOf
<1>3. m \in Nat
  OBVIOUS
<1>4. QED
  BY <1>2, <1>3 DEF Block

LEMMA GenesisBlock ==
  ASSUME NEW b \in Block
  PROVE  At(b, 0) = <<>> /\ <<>> \in Block /\ IsPrefix(<<>>, b)
<1>1. At(b, 0) = <<>> /\ <<>> \in Block /\ Len(<<>>) = 0
  BY SubSeqEmpty DEF At, Block
<1>2. Len(b) \in Nat
  BY DEF Block
<1>3. QED
  BY <1>1, <1>2, PrefixIsAncestor

\* a store that holds a block and its ancestors
LEMMA ChainFacts ==
  ASSUME NEW b \in Block
  PROVE  /\ Chain(b) \in Seq(Block) /\ Len(Chain(b)) = Len(b) + 1
         /\ \A k \in 1..Len(b) + 1 : Chain(b)[k] = At(b, k - 1)
         /\ Chain(b)[Len(b) + 1] = b
         /\ \A k \in 1..Len(b) + 1 :
              /\ Len(Chain(b)[k]) = k - 1
              /\ \A j \in 1..k : Chain(b)[j] = At(Chain(b)[k], j - 1)
<1>1. PICK n \in Nat : n = Len(b)
  BY DEF Block
<1>2. \A k \in 1..n + 1 : k - 1 \in 0..n
  OBVIOUS
<1>3. \A k \in 1..n + 1 : At(b, k - 1) \in Block /\ Len(At(b, k - 1)) = k - 1
  BY <1>1, <1>2, AtNumber
<1>4. Chain(b) \in [1..n + 1 -> Block] /\ \A k \in 1..n + 1 : Chain(b)[k] = At(b, k - 1)
  BY <1>1, <1>3 DEF Chain
<1>5. Chain(b) \in Seq(Block) /\ Len(Chain(b)) = n + 1
  BY <1>4
<1>6. Chain(b)[n + 1] = b
  <2>1. n + 1 \in 1..n + 1 /\ (n + 1) - 1 = n
    BY <1>1
  <2> QED
    BY <1>1, <1>4, <2>1, AtSelf
<1>7. ASSUME NEW k \in 1..n + 1, NEW j \in 1..k
      PROVE  Chain(b)[j] = At(Chain(b)[k], j - 1)
  <2>1. j \in 1..n + 1 /\ j - 1 \in 0..k - 1 /\ k - 1 \in 0..n
    OBVIOUS
  <2>2. At(At(b, k - 1), j - 1) = At(b, j - 1)
    BY <1>1, <2>1, AtAt
  <2> QED
    BY <1>4, <2>1, <2>2
<1> QED
  BY <1>1, <1>3, <1>4, <1>5, <1>6, <1>7

LEMMA SyncInit ==
  ASSUME Init
  PROVE  SyncInv
<1>0. tip_block \in Block /\ <<>> \in Block /\ answer = NotAsked /\ syncing = TRUE
  BY BlocksAreBlocks DEF Init, Block
<1>1. NotAsked \in [block : Block, known : {"none", "block", "unasked"}]
      /\ NotAsked.known = "unasked"
  BY <1>0 DEF NotAsked
<1>2. CASE indexer = <<>> /\ reorgs = 0
  <2>1. <<>> \in Seq(Block) /\ Len(<<>>) = 0
    OBVIOUS
  <2>2. SyncType
    BY <1>0, <1>1, <1>2, <2>1 DEF SyncType
  <2>3. Ancestors
    BY <1>2, <2>1 DEF Ancestors
  <2>4. Asked /\ NothingStale
    BY <1>0, <1>1, <1>2 DEF Asked, NothingStale
  <2> QED
    BY <2>2, <2>3, <2>4 DEF SyncInv
<1>3. ASSUME NEW b \in Blocks, indexer = Chain(b), reorgs = IF OnMain(b) THEN 0 ELSE 1
      PROVE  SyncInv
  <2>1. PICK c \in Block : c = b
    BY BlocksAreBlocks
  <2>2. /\ Chain(c) \in Seq(Block) /\ Len(Chain(c)) = Len(c) + 1
        /\ Chain(c)[Len(c) + 1] = c
        /\ \A k \in 1..Len(c) + 1 :
             /\ Len(Chain(c)[k]) = k - 1
             /\ \A j \in 1..k : Chain(c)[j] = At(Chain(c)[k], j - 1)
    BY ChainFacts
  <2>3. SyncType
    BY <1>0, <1>1, <1>3, <2>1, <2>2 DEF SyncType
  <2>4. Ancestors
    BY <1>3, <2>1, <2>2 DEF Ancestors
  <2>5. Tip = c
    BY <1>3, <2>1, <2>2 DEF Tip, Last
  <2>6. Asked /\ NothingStale
    BY <1>0, <1>1, <1>3, <2>1, <2>5 DEF Asked, NothingStale
  <2> QED
    BY <2>3, <2>4, <2>6 DEF SyncInv
<1> QED
  BY <1>2, <1>3 DEF Init

\* Nothing but the chain of the node moves.
LEMMA SyncGrow ==
  ASSUME SyncInv, Grow
  PROVE  SyncInv'
<1>0. SyncType /\ Ancestors /\ Asked /\ NothingStale
  BY DEF SyncInv
<1>1. PICK s \in Sibling : tip_block' = Append(tip_block, s)
  BY DEF Grow
<1>2. SyncType'
  <2>1. tip_block' \in Block
    BY <1>0, <1>1, AppendProperties DEF SyncType, Block
  <2>2. QED
    BY <2>1, <1>0 DEF SyncType, Grow
<1>3. Ancestors' /\ Asked' /\ Tip' = Tip
  BY <1>0 DEF Ancestors, Asked, Tip, Grow
<1>4. NothingStale'
  <2>1. ASSUME NEW b \in Block, OnMain(b)
        PROVE  OnMain(b)'
    BY <1>0, <1>1, <2>1, PrefixOfGrown DEF OnMain, SyncType
  <2>2. indexer # <<>> => Tip \in Block
    BY <1>0, TipOfIndexer
  <2>3. answer.block \in Block
    BY <1>0 DEF SyncType
  <2>4. OnMain(Tip) /\ indexer # <<>> => IsPrefix(Tip', tip_block')
    BY <1>3, <2>1, <2>2 DEF OnMain
  <2>5. OnMain(answer.block) => IsPrefix(answer'.block, tip_block')
    BY <2>1, <2>3 DEF OnMain, Grow
  <2>6. QED
    BY <1>0, <2>4, <2>5 DEF NothingStale, OnMain, Grow
<1>5. QED
  BY <1>2, <1>3, <1>4 DEF SyncInv

\* From here on, NothingStale says nothing.
LEMMA SyncReorg ==
  ASSUME SyncInv, Reorg
  PROVE  SyncInv'
<1>0. SyncType /\ Ancestors /\ Asked
  BY DEF SyncInv
<1>1. reorgs' \in Nat /\ reorgs' # 0
  <2>1. reorgs \in Nat /\ reorgs' = reorgs + 1
    BY <1>0 DEF SyncType, Reorg
  <2>2. QED
    BY <2>1
<1>2. SyncType'
  <2>1. tip_block' \in Block
    BY BlocksAreBlocks DEF Reorg
  <2>2. QED
    BY <2>1, <1>0, <1>1 DEF SyncType, Reorg
<1>3. Ancestors' /\ Asked'
  BY <1>0 DEF Ancestors, Asked, Tip, Reorg
<1>4. NothingStale'
  BY <1>1 DEF NothingStale
<1>5. QED
  BY <1>2, <1>3, <1>4 DEF SyncInv

LEMMA SyncGenesis ==
  ASSUME SyncInv, Genesis
  PROVE  SyncInv'
<1>0. SyncType /\ Ancestors /\ Asked /\ NothingStale
  BY DEF SyncInv
<1>1. indexer' = << <<>> >> /\ <<>> \in Block
  BY <1>0, GenesisBlock DEF Genesis, SyncType
<1>2. indexer' \in Seq(Block) /\ Len(indexer') = 1 /\ indexer'[1] = <<>> /\ indexer' # <<>>
  BY <1>1
<1>3. Tip' = <<>>
  BY <1>2 DEF Tip, Last
<1>4. SyncType'
  BY <1>0, <1>2 DEF SyncType, Genesis
<1>5. Ancestors'
  <2>1. At(<<>>, 0) = <<>> /\ Len(<<>>) = 0
    BY <1>1, GenesisBlock
  <2>2. ASSUME NEW k \in 1..Len(indexer')
        PROVE  /\ Len(indexer'[k]) = k - 1
               /\ \A j \in 1..k : indexer'[j] = At(indexer'[k], j - 1)
    <3>1. k = 1 /\ k - 1 = 0 /\ 1..k = {1}
      BY <1>2
    <3>2. QED
      BY <1>2, <2>1, <3>1
  <2>3. QED
    BY <2>2 DEF Ancestors
<1>6. answer' = NotAsked
  <2>1. answer = NotAsked
    BY <1>0 DEF Asked, Genesis
  <2>2. QED
    BY <2>1 DEF Genesis
<1>7. Asked'
  BY <1>2, <1>6 DEF Asked, NotAsked
<1>8. NothingStale'
  <2>1. IsPrefix(<<>>, tip_block')
    BY <1>0, GenesisBlock DEF SyncType, Genesis
  <2>2. QED
    BY <1>3, <1>6, <2>1 DEF NothingStale, OnMain, NotAsked
<1>9. QED
  BY <1>4, <1>5, <1>7, <1>8 DEF SyncInv

LEMMA Answered ==
  ASSUME SyncInv, answer.known \in {"none", "block"}
  PROVE  indexer # <<>>
<1>1. NotAsked.known = "unasked"
  BY DEF NotAsked
<1>2. answer # NotAsked
  BY <1>1
<1>3. QED
  BY <1>2 DEF SyncInv, Asked

LEMMA SyncAsk ==
  ASSUME SyncInv, Ask
  PROVE  SyncInv'
<1>0. SyncType /\ Ancestors /\ Asked /\ NothingStale /\ indexer # <<>>
  BY DEF SyncInv, Ask
<1>1. /\ Len(Tip) \in Nat /\ Tip \in Block
      /\ tip_block \in Block /\ Len(tip_block) \in Nat
  <2>1. Tip \in Block
    BY <1>0, TipOfIndexer
  <2>2. tip_block \in Block
    BY <1>0 DEF SyncType
  <2>3. QED
    BY <2>1, <2>2 DEF Block
<1>2. Ancestors' /\ Tip' = Tip /\ UNCHANGED <<tip_block, reorgs, indexer, syncing>>
  <2>1. UNCHANGED <<tip_block, reorgs, indexer, syncing>>
    BY DEF Ask
  <2>2. QED
    BY <1>0, <2>1 DEF Ancestors, Tip
<1>3. CASE Len(tip_block) > Len(Tip)
  <2>1. PICK b : b = At(tip_block, Len(Tip) + 1)
    OBVIOUS
  <2>2. answer' = Known(b)
    BY <1>3, <2>1 DEF Ask
  <2>3. Len(Tip) + 1 \in 0..Len(tip_block) /\ Len(tip_block) \in 0..Len(tip_block)
    BY <1>1, <1>3
  <2>4. b \in Block /\ Len(b) = Len(Tip) + 1
    BY <1>1, <2>1, <2>3, AtNumber
  <2>5. b = At(tip_block, Len(b)) /\ Len(b) <= Len(tip_block)
    BY <1>1, <2>1, <2>3, <2>4
  <2>6. IsPrefix(b, tip_block)
    BY <1>1, <2>4, <2>5, PrefixIsAncestor
  <2>7. SyncType'
    BY <1>0, <1>2, <2>2, <2>4 DEF SyncType, Known
  <2>8. Asked'
    BY <1>0, <1>2, <2>2, <2>4 DEF Asked, Known
  <2>9. NothingStale'
    BY <1>0, <1>2, <2>2, <2>6 DEF NothingStale, OnMain, Known
  <2>10. QED
    BY <1>2, <2>7, <2>8, <2>9 DEF SyncInv
<1>4. CASE ~(Len(tip_block) > Len(Tip))
  <2>1. answer' = NoBlock(tip_block)
    BY <1>4 DEF Ask
  <2>2. SyncType'
    BY <1>0, <1>1, <1>2, <2>1 DEF SyncType, NoBlock
  <2>3. Asked'
    <3>1. Len(tip_block) <= Len(Tip)
      BY <1>1, <1>4
    <3> QED
      BY <1>0, <1>2, <2>1, <3>1 DEF Asked, NoBlock
  <2>4. NothingStale'
    BY <1>0, <1>2, <2>1 DEF NothingStale, OnMain, NoBlock
  <2>5. QED
    BY <1>2, <2>2, <2>3, <2>4 DEF SyncInv
<1>5. QED
  BY <1>3, <1>4

LEMMA NothingAsked ==
  ASSUME answer' = NotAsked, SyncType
  PROVE  /\ answer' \in [block : Block, known : {"none", "block", "unasked"}]
         /\ Asked'
         /\ answer'.known # "block"
<1>1. <<>> \in Block
  BY DEF Block
<1>2. QED
  BY <1>1 DEF Asked, NotAsked

LEMMA SyncAppendBlock ==
  ASSUME SyncInv, AppendBlock
  PROVE  SyncInv'
<1>0. SyncType /\ Ancestors /\ Asked /\ NothingStale
  BY DEF SyncInv
<1>1. PICK b \in Block : b = answer.block
  BY <1>0 DEF SyncType
<1>2. indexer # <<>> /\ Len(b) = Len(Tip) + 1 /\ Front(b) = Tip /\ indexer' = Append(indexer, b)
  BY <1>0, <1>1, Answered DEF Asked, AppendBlock
<1>3. /\ indexer' \in Seq(Block) /\ indexer' # <<>>
      /\ Tip' = b
      /\ Ancestors'
  BY <1>0, <1>2, Appended
<1>4. /\ answer' \in [block : Block, known : {"none", "block", "unasked"}]
      /\ Asked' /\ answer'.known # "block"
  BY <1>0, NothingAsked DEF AppendBlock
<1>5. SyncType'
  BY <1>0, <1>3, <1>4 DEF SyncType, AppendBlock
<1>6. NothingStale'
  BY <1>0, <1>1, <1>3, <1>4 DEF NothingStale, OnMain, AppendBlock
<1>7. QED
  BY <1>3, <1>4, <1>5, <1>6 DEF SyncInv

\* The tip is left for its parent, which is on every chain that it is on.
LEMMA SyncRolledBack ==
  ASSUME SyncInv, indexer # <<>>, indexer' = Front(indexer), answer' = NotAsked,
         UNCHANGED <<tip_block, reorgs, syncing>>
  PROVE  SyncInv'
<1>0. SyncType /\ Ancestors /\ Asked /\ NothingStale
  BY DEF SyncInv
<1>1. /\ indexer' \in Seq(Block) /\ Len(indexer') = Len(indexer) - 1
      /\ indexer' # <<>> => Tip' = At(Tip, Len(Tip) - 1)
      /\ Ancestors'
  BY <1>0, RolledBack
<1>2. /\ answer' \in [block : Block, known : {"none", "block", "unasked"}]
      /\ Asked' /\ answer'.known # "block"
  BY <1>0, NothingAsked
<1>3. SyncType'
  BY <1>0, <1>1, <1>2 DEF SyncType
<1>4. NothingStale'
  <2>1. SUFFICES ASSUME reorgs = 0, indexer' # <<>>
                 PROVE  IsPrefix(Tip', tip_block)
    BY <1>2 DEF NothingStale, OnMain
  <2>2. IsPrefix(Tip, tip_block)
    BY <1>0, <2>1 DEF NothingStale, OnMain
  <2>3. /\ Tip \in Block /\ Len(Tip) = Len(indexer) - 1
        /\ tip_block \in Block
    BY <1>0, TipOfIndexer DEF SyncType
  <2>4. Len(indexer') \in Nat \ {0} /\ Len(Tip) \in Nat
    BY <1>1, <2>1, <2>3, EmptySeq DEF Block
  <2>5. Len(Tip) - 1 \in 0..Len(Tip)
    BY <1>1, <2>3, <2>4
  <2>6. IsPrefix(At(Tip, Len(Tip) - 1), tip_block)
    BY <2>2, <2>3, <2>5, AncestorOnChain
  <2>7. QED
    BY <1>1, <2>1, <2>6
<1>5. QED
  BY <1>1, <1>2, <1>3, <1>4 DEF SyncInv

\* The three ways in which the loop ends, goes back or is called again
LEMMA SyncRollBack ==
  ASSUME SyncInv, RollBack
  PROVE  SyncInv'
<1>1. indexer # <<>>
  BY Answered DEF RollBack
<1>2. QED
  BY <1>1, SyncRolledBack DEF RollBack

LEMMA SyncRollBackStaleTip ==
  ASSUME SyncInv, RollBackStaleTip
  PROVE  SyncInv'
<1>1. indexer # <<>>
  BY Answered DEF RollBackStaleTip
<1>2. QED
  BY <1>1, SyncRolledBack DEF RollBackStaleTip

LEMMA SyncBreak ==
  ASSUME SyncInv, Break
  PROVE  SyncInv'
<1>0. SyncType /\ Ancestors /\ Asked /\ NothingStale
  BY DEF SyncInv
<1>1. /\ answer' \in [block : Block, known : {"none", "block", "unasked"}]
      /\ Asked' /\ answer'.known # "block"
  BY <1>0, NothingAsked DEF Break
<1>2. Ancestors' /\ Tip' = Tip
  BY <1>0 DEF Ancestors, Tip, Break
<1>3. SyncType'
  BY <1>0, <1>1 DEF SyncType, Break
<1>4. NothingStale'
  BY <1>0, <1>1, <1>2 DEF NothingStale, OnMain, Break
<1>5. QED
  BY <1>1, <1>2, <1>3, <1>4 DEF SyncInv

\* Neither the chain nor the indexer changes.
LEMMA SyncOthers ==
  ASSUME SyncInv, Call \/ UNCHANGED vars
  PROVE  SyncInv'
<1>1. SyncType /\ Ancestors /\ Asked /\ NothingStale
  BY DEF SyncInv
<1>2. UNCHANGED <<tip_block, reorgs, indexer, answer>> /\ syncing' \in BOOLEAN /\ Tip' = Tip
  BY <1>1 DEF Call, vars, SyncType, Tip
<1>3. SyncType'
  BY <1>1, <1>2 DEF SyncType
<1>4. Ancestors' /\ Asked' /\ NothingStale'
  BY <1>1, <1>2 DEF Ancestors, Asked, NothingStale, OnMain
<1>5. QED
  BY <1>3, <1>4 DEF SyncInv

LEMMA SyncStep ==
  ASSUME SyncInv, [Next]_vars
  PROVE  SyncInv'
BY SyncGrow, SyncReorg, SyncGenesis, SyncAsk, SyncAppendBlock, SyncRollBack, SyncBreak,
   SyncRollBackStaleTip, SyncOthers, Zenon DEF Next, Loop

LEMMA SyncInvHolds == Spec => []SyncInv
<1>1. Init => SyncInv
  BY SyncInit
<1>2. SyncInv /\ [Next]_vars => SyncInv'
  BY SyncStep
<1>3. QED
  BY <1>1, <1>2, PTL DEF Spec

----------------------------------------------------------------------------
(* What the wait promises *)

\* Each block in the indexer is the child of the one below it, whatever the
\* node did between the RPCs of wait_for_indexer_synced (indexer.rs).
THEOREM IndexerIsAChainHolds == Spec => []IndexerIsAChain
<1>1. ASSUME SyncInv
      PROVE  IndexerIsAChain
  <2>0. SyncType /\ Ancestors /\ Asked
    BY <1>1 DEF SyncInv
  <2>1. ASSUME NEW k \in 1..Len(indexer)
        PROVE  Len(indexer[k]) = k - 1 /\ (k > 1 => Front(indexer[k]) = indexer[k - 1])
    <3>1. Len(indexer[k]) = k - 1 /\ \A j \in 1..k : indexer[j] = At(indexer[k], j - 1)
      BY <2>0 DEF Ancestors
    <3>2. indexer[k] \in Block
      BY <2>0, ElementOfSeq DEF SyncType
    <3>3. Front(indexer[k]) = At(indexer[k], k - 1 - 1)
      BY <3>1, <3>2, AtSelf
    <3>4. k > 1 => k - 1 \in 1..k
      OBVIOUS
    <3>5. QED
      BY <3>1, <3>3, <3>4
  <2>2. QED
    BY <2>0, <2>1 DEF IndexerIsAChain, Asked
<1>2. QED
  BY <1>1, SyncInvHolds, PTL

\* Only the tip is compared, but when wait_for_indexer_synced (indexer.rs)
\* returns every block in the indexer is on the main chain of the node, up to the
\* number at least that the node had at the loop's last get_block_by_number, and to
\* the node's tip if the node has not moved since then.
THEOREM EndsOnTheMainChainHolds == Spec => EndsOnTheMainChain
<1> DEFINE Ends == syncing /\ ~syncing' =>
             /\ indexer' # <<>>
             /\ \A k \in 1..Len(indexer') : IsPrefix(indexer'[k], tip_block')
             /\ Len(answer.block) <= Len(Last(indexer'))
             /\ answer.block = tip_block' => Last(indexer') = tip_block'
<1>1. ASSUME SyncInv, [Next]_vars
      PROVE  Ends
  <2>1. SUFFICES ASSUME Break PROVE Ends
    BY <1>1 DEF Next, Loop, Grow, Reorg, Genesis, Ask, AppendBlock, RollBack, RollBackStaleTip,
                Call, vars
  <2>2. SyncType /\ Ancestors /\ indexer # <<>> /\ Asked /\ answer.known = "none"
    BY <1>1, <2>1, Answered DEF SyncInv, Break
  <2>3. /\ Len(indexer) \in Nat \ {0}
        /\ Tip = indexer[Len(indexer)] /\ Tip \in Block
        /\ Len(Tip) = Len(indexer) - 1
        /\ tip_block \in Block
    BY <2>2, TipOfIndexer DEF SyncType
  <2>4. IsPrefix(Tip, tip_block)
    BY <2>1 DEF Break, OnMain
  <2>5. ASSUME NEW k \in 1..Len(indexer)
        PROVE  IsPrefix(indexer[k], tip_block)
    <3>1. Len(indexer) \in 1..Len(indexer) /\ k \in 1..Len(indexer)
      BY <2>3
    <3>2. indexer[k] = At(Tip, k - 1)
      BY <2>2, <2>3, <3>1 DEF Ancestors
    <3>3. k - 1 \in 0..Len(Tip)
      BY <2>3
    <3>4. QED
      BY <2>3, <2>4, <3>2, <3>3, AncestorOnChain
  <2>6. Len(answer.block) <= Len(Tip)
    BY <2>2 DEF Asked
  <2>7. answer.block = tip_block => Tip = tip_block
    <3>1. Len(Tip) \in Nat /\ Len(tip_block) \in Nat
      BY <2>3 DEF Block
    <3>2. Len(Tip) <= Len(tip_block) /\ Tip = At(tip_block, Len(Tip))
      BY <2>3, <2>4, PrefixIsAncestor
    <3>3. tip_block = At(tip_block, Len(tip_block))
      BY <2>3, AtSelf
    <3>4. answer.block = tip_block => Len(Tip) = Len(tip_block)
      BY <2>6, <3>1, <3>2
    <3> QED
      BY <3>2, <3>3, <3>4
  <2>8. indexer' = indexer /\ tip_block' = tip_block
    BY <2>1 DEF Break
  <2>9. QED
    BY <2>2, <2>5, <2>6, <2>7, <2>8 DEF Tip
<1>2. QED
  BY <1>1, SyncInvHolds, PTL DEF Spec, EndsOnTheMainChain

\* On a chain that was never reorganised, each block that get_block_by_number()
\* has returned still follows the indexer's tip: neither rollback of
\* wait_for_indexer_synced (indexer.rs) is ever reached.
THEOREM RollsBackOnlyAfterReorgHolds == Spec => RollsBackOnlyAfterReorg
<1> DEFINE OnlyAfterReorg == Len(indexer') < Len(indexer) => reorgs > 0
<1>1. ASSUME SyncInv, [Next]_vars
      PROVE  OnlyAfterReorg
  <2>0. SyncType /\ Ancestors /\ Asked /\ NothingStale
    BY <1>1 DEF SyncInv
  <2>1. Len(indexer) \in Nat /\ reorgs \in Nat
    <3>1. indexer \in Seq(Block) /\ reorgs \in Nat
      BY <2>0 DEF SyncType
    <3>2. QED
      BY <3>1, LenProperties
  <2>2. CASE Grow \/ Reorg \/ Ask \/ Break \/ Call \/ UNCHANGED vars
    <3>1. indexer' = indexer
      BY <2>2 DEF Grow, Reorg, Ask, Break, Call, vars
    <3>2. QED
      BY <2>1, <3>1
  <2>3. CASE Genesis
    <3>1. Len(indexer) = 0 /\ Len(indexer') = 1
      BY <2>3 DEF Genesis
    <3>2. QED
      BY <3>1
  <2>4. CASE AppendBlock
    <3>1. indexer \in Seq(Block) /\ indexer' = Append(indexer, answer.block) /\ answer.block \in Block
      BY <2>0, <2>4 DEF SyncType, AppendBlock
    <3>2. Len(indexer') = Len(indexer) + 1
      BY <3>1, AppendProperties
    <3>3. QED
      BY <2>1, <3>2
  <2>5. CASE RollBack
    <3>1. SUFFICES ASSUME reorgs = 0 PROVE FALSE
      BY <2>1
    <3>2. indexer # <<>> /\ answer.known = "block" /\ Front(answer.block) # Tip
      BY <1>1, <2>5, Answered DEF RollBack
    <3>3. /\ Tip \in Block /\ answer.block \in Block /\ tip_block \in Block
          /\ Len(answer.block) = Len(Tip) + 1
          /\ IsPrefix(Tip, tip_block) /\ IsPrefix(answer.block, tip_block)
      BY <2>0, <3>1, <3>2, TipOfIndexer DEF SyncType, Asked, NothingStale, OnMain
    <3>4. Len(Tip) \in Nat
      BY <3>3 DEF Block
    <3>5. Front(answer.block) = At(answer.block, Len(Tip))
      BY <3>3, <3>4, AtSelf
    <3>6. At(answer.block, Len(Tip)) = At(tip_block, Len(Tip))
      BY <3>3, <3>4, AncestorOnChain
    <3>7. Tip = At(tip_block, Len(Tip))
      BY <3>3, PrefixIsAncestor
    <3>8. QED
      BY <3>2, <3>5, <3>6, <3>7
  <2>6. CASE RollBackStaleTip
    <3>1. indexer # <<>> /\ ~OnMain(Tip)
      BY <1>1, <2>6, Answered DEF RollBackStaleTip
    <3>2. reorgs # 0
      BY <2>0, <3>1 DEF NothingStale
    <3>3. QED
      BY <2>1, <3>2
  <2>7. QED
    BY <1>1, <2>2, <2>3, <2>4, <2>5, <2>6, Zenon DEF Next, Loop
<1>2. QED
  BY <1>1, SyncInvHolds, PTL DEF Spec, RollsBackOnlyAfterReorg

\* Rollbacks stop at the genesis block: Indexer::rollback() is never called on
\* an indexer that holds no other block, so that tip() stays Some.
THEOREM GenesisBlockStays == Spec => [][ indexer # <<>> => indexer' # <<>> ]_vars
<1> DEFINE Stays == indexer # <<>> => indexer' # <<>>
<1>1. ASSUME SyncInv, [Next]_vars
      PROVE  Stays
  <2>0. SyncType /\ Ancestors /\ Asked
    BY <1>1 DEF SyncInv
  <2>1. ASSUME indexer # <<>>, indexer' = Front(indexer), indexer' = <<>>
        PROVE  Tip = <<>>
    <3>1. /\ Tip \in Block /\ Len(Tip) = Len(indexer) - 1
          /\ Len(indexer') = Len(indexer) - 1
      BY <2>0, <2>1, TipOfIndexer, RolledBack
    <3>2. Len(Tip) = 0
      BY <2>1, <3>1
    <3>3. QED
      BY <3>1, <3>2 DEF Block
  <2>2. CASE RollBack
    <3>1. indexer # <<>> /\ answer.known = "block" /\ Front(answer.block) # Tip
      BY <1>1, <2>2, Answered DEF RollBack
    <3>2. answer.block \in Block /\ Len(answer.block) = Len(Tip) + 1
      BY <2>0, <3>1 DEF SyncType, Asked
    <3>3. Tip = <<>> => Len(answer.block) - 1 = 0
      BY <3>2
    <3>4. Front(answer.block) = At(answer.block, Len(answer.block) - 1)
      BY <3>2, AtSelf
    <3>5. Tip # <<>>
      BY <3>1, <3>2, <3>3, <3>4, GenesisBlock
    <3>6. QED
      BY <2>1, <2>2, <3>5 DEF RollBack
  <2>3. CASE RollBackStaleTip
    <3>1. ~IsPrefix(Tip, tip_block) /\ tip_block \in Block
      BY <2>0, <2>3 DEF RollBackStaleTip, OnMain, SyncType
    <3>2. Tip # <<>>
      BY <3>1, GenesisBlock
    <3>3. QED
      BY <2>1, <2>3, <3>2 DEF RollBackStaleTip
  <2>4. CASE AppendBlock
    <3>1. indexer \in Seq(Block) /\ indexer' = Append(indexer, answer.block) /\ answer.block \in Block
      BY <2>0, <2>4 DEF SyncType, AppendBlock
    <3>2. QED
      BY <3>1, AppendProperties
  <2>5. CASE Grow \/ Reorg \/ Genesis \/ Ask \/ Break \/ Call \/ UNCHANGED vars
    BY <2>5 DEF Grow, Reorg, Genesis, Ask, Break, Call, vars
  <2>6. QED
    BY <1>1, <2>2, <2>3, <2>4, <2>5, Zenon DEF Next, Loop
<1>2. QED
  BY <1>1, SyncInvHolds, PTL DEF Spec

----------------------------------------------------------------------------
(* Sequences of sequences *)

\* joining is associative; the statement is one predicate, for the steps that only carry it
Associates(a, b, c) == (a \o b) \o c = a \o (b \o c)
LEMMA ConcatsAssociate ==
  ASSUME NEW S, NEW a \in Seq(S), NEW b \in Seq(S), NEW c \in Seq(S)
  PROVE  Associates(a, b, c)
BY ConcatAssociative, SMT DEF Associates

\* the well-founded order of the numbers, for arguments by a least counterexample
LEMMA LeastNumber ==
  ASSUME NEW T \in SUBSET Nat, T # {}
  PROVE  \E x \in T : \A y \in T : x <= y
<1> DEFINE Less == {ss \in Nat \X Nat : ss[1] < ss[2]}
<1>1. IsWellFoundedOn(Less, Nat)
  BY NatLessThanWellFounded DEF OpToRel
<1>2. PICK x \in T : \A y \in T : ~ (<<y, x>> \in Less)
  <2> HIDE DEF Less
  <2> QED
    BY <1>1, WFMin
<1>3. ASSUME NEW y \in T, y < x
      PROVE  FALSE
  <2>1. <<y, x>> \in Nat \X Nat /\ <<y, x>>[1] < <<y, x>>[2]
    BY <1>3
  <2>2. <<y, x>> \in Less
    BY <2>1
  <2>3. QED
    BY <1>2, <2>2
<1>4. QED
  BY <1>3

\* the first m of the sequences q, joined from the first on
Joins(f, q, m) == f = [i \in 1..m |-> IF i = 1 THEN q[i] ELSE f[i - 1] \o q[i]]

\* FlattenSeq chooses such a function: there is one
LEMMA JoinsExist ==
  ASSUME NEW q, NEW n \in Nat
  PROVE  \E f : Joins(f, q, n)
<1> DEFINE T == {m \in Nat : ~\E f : Joins(f, q, m)}
<1> SUFFICES ASSUME T # {} PROVE FALSE
  OBVIOUS
<1>1. PICK m \in T : \A k \in T : m <= k
  <2> HIDE DEF T
  <2>1. T \in SUBSET Nat
    BY DEF T
  <2> QED
    BY <2>1, LeastNumber
<1>2. CASE m = 0
  <2>1. Joins([i \in 1..0 |-> 0], q, 0)
    BY DEF Joins
  <2> QED
    BY <1>2, <2>1
<1>3. CASE m # 0
  <2>1. m - 1 \in Nat /\ m - 1 \notin T
    BY <1>1, <1>3
  <2>2. PICK f : Joins(f, q, m - 1)
    BY <2>1
  <2> DEFINE g == [i \in 1..m |-> IF i = m THEN (IF m = 1 THEN q[1] ELSE f[m - 1] \o q[m]) ELSE f[i]]
  <2>3. \A i \in 1..m : g[i] = IF i = 1 THEN q[i] ELSE g[i - 1] \o q[i]
    <3> SUFFICES ASSUME NEW i \in 1..m PROVE g[i] = IF i = 1 THEN q[i] ELSE g[i - 1] \o q[i]
      OBVIOUS
    <3>1. m \in Nat /\ i \in Nat
      OBVIOUS
    <3>2. CASE i = m /\ m = 1
      BY <3>1, <3>2
    <3>3. CASE i = m /\ m # 1
      <4>1. i - 1 \in 1..m /\ i - 1 # m
        BY <1>3, <3>1, <3>3
      <4>2. g[i - 1] = f[i - 1]
        BY <4>1
      <4> QED
        BY <3>3, <4>2
    <3>4. CASE i # m
      <4>1. i \in 1..(m - 1) /\ g[i] = f[i]
        BY <3>1, <3>4
      <4>2. f[i] = IF i = 1 THEN q[i] ELSE f[i - 1] \o q[i]
        BY <2>2, <4>1 DEF Joins
      <4>3. i # 1 => i - 1 \in 1..m /\ i - 1 # m
        BY <3>1
      <4>4. i # 1 => g[i - 1] = f[i - 1]
        BY <4>3
      <4> QED
        BY <4>1, <4>2, <4>4
    <3> QED
      BY <3>2, <3>3, <3>4
  <2>4. Joins(g, q, m)
    <3>1. g = [i \in 1..m |-> g[i]]
      OBVIOUS
    <3> HIDE DEF g
    <3> QED
      BY <2>3, <3>1 DEF Joins
  <2> QED
    BY <2>4
<1> QED
  BY <1>2, <1>3

\* one sequence more
LEMMA FlattenOneMore ==
  ASSUME NEW S, NEW n \in Nat, NEW q \in [1..(n + 1) -> Seq(S)]
  PROVE  /\ FlattenSeq(q) \in Seq(S)
         /\ FlattenSeq(q) = FlattenSeq([k \in 1..n |-> q[k]]) \o q[n + 1]
<1> DEFINE p == [k \in 1..n |-> q[k]]
<1>1. n + 1 \in Nat /\ n + 1 # 0 /\ n + 1 \in 1..(n + 1) /\ \A k \in 1..n : k \in 1..(n + 1) /\ k # n + 1
  OBVIOUS
<1>2. /\ q \in Seq(Seq(S)) /\ Len(q) = n + 1
      /\ p \in Seq(Seq(S)) /\ Len(p) = n
  <2>1. p \in [1..n -> Seq(S)]
    BY <1>1
  <2> QED
    BY <1>1, <2>1, IsASeq, LenProperties
<1> DEFINE flatten(r) == CHOOSE g : g = [i \in 1..Len(r) |-> IF i = 1 THEN r[i] ELSE g[i - 1] \o r[i]]
<1> DEFINE f == flatten(q)
           g == flatten(p)
<1>3. Joins(f, q, n + 1) /\ FlattenSeq(q) = f[n + 1]
  <2>1. PICK h : Joins(h, q, n + 1)
    BY <1>1, JoinsExist
  <2>2. Joins(f, q, n + 1)
    BY <1>2, <2>1 DEF Joins
  <2>3. FlattenSeq(q) = f[n + 1]
    BY <1>1, <1>2 DEF FlattenSeq
  <2> QED
    BY <2>2, <2>3
<1>4. Joins(g, p, n) /\ (n # 0 => FlattenSeq(p) = g[n])
  <2>1. PICK h : Joins(h, p, n)
    BY <1>1, JoinsExist
  <2>2. Joins(g, p, n)
    <3> HIDE DEF p
    <3> QED
      BY <1>2, <2>1 DEF Joins
  <2>3. n # 0 => FlattenSeq(p) = g[n]
    <3> HIDE DEF p
    <3> QED
      BY <1>1, <1>2 DEF FlattenSeq
  <2> QED
    BY <2>2, <2>3
<1>5. \A k \in 1..n : p[k] = q[k]
  OBVIOUS
<1>6. n = 0 => FlattenSeq(p) = <<>>
  <2> SUFFICES ASSUME n = 0 PROVE FlattenSeq(p) = <<>>
    OBVIOUS
  <2>1. p = <<>>
    BY <1>2
  <2> QED
    BY <1>2, <2>1 DEF FlattenSeq
<1> HIDE DEF f, g, p
<1> DEFINE T == {m \in 1..(n + 1) : ~(f[m] \in Seq(S) /\ (m # n + 1 => f[m] = g[m]))}
<1>7. T = {}
  <2> SUFFICES ASSUME T # {} PROVE FALSE
    OBVIOUS
  <2>1. PICK m \in T : \A k \in T : m <= k
    <3> HIDE DEF T
    <3>1. T \in SUBSET Nat
      BY DEF T
    <3> QED
      BY <3>1, LeastNumber
  <2>2. f[m] = IF m = 1 THEN q[m] ELSE f[m - 1] \o q[m]
    BY <1>3 DEF Joins
  <2>3. m # n + 1 => m \in 1..n
    OBVIOUS
  <2>4. m # n + 1 => g[m] = IF m = 1 THEN p[m] ELSE g[m - 1] \o p[m]
    BY <1>4, <2>3 DEF Joins
  <2>5. CASE m = 1
    BY <1>5, <2>2, <2>3, <2>4, <2>5
  <2>6. CASE m # 1
    <3>1. m - 1 \in 1..(n + 1) /\ m - 1 # n + 1 /\ m - 1 \notin T
      <4>1. m \in 1..(n + 1)
        OBVIOUS
      <4> HIDE DEF T
      <4>2. m - 1 \in 1..(n + 1) /\ m - 1 # n + 1 /\ ~(m <= m - 1)
        BY <2>6, <4>1
      <4> QED
        BY <2>1, <4>2
    <3>2. f[m - 1] \in Seq(S) /\ f[m - 1] = g[m - 1] /\ q[m] \in Seq(S)
      BY <3>1
    <3>3. f[m - 1] \o q[m] \in Seq(S)
      BY <3>2, ConcatProperties
    <3> QED
      BY <1>5, <2>2, <2>3, <2>4, <2>6, <3>2, <3>3
  <2> QED
    BY <2>5, <2>6
<1>8. f[n + 1] \in Seq(S)
  BY <1>1, <1>7
<1>9. n # 0 => f[n] = g[n]
  <2> SUFFICES ASSUME n # 0 PROVE f[n] = g[n]
    OBVIOUS
  <2>1. n \in 1..(n + 1) /\ n # n + 1
    OBVIOUS
  <2>2. n \notin T
    BY <1>7 DEF T
  <2> QED
    BY <2>1, <2>2
<1>10. f[n + 1] = IF n = 0 THEN q[n + 1] ELSE f[n] \o q[n + 1]
  <2>1. n + 1 = 1 <=> n = 0
    OBVIOUS
  <2>2. n + 1 - 1 = n
    OBVIOUS
  <2>3. f[n + 1] = IF n + 1 = 1 THEN q[n + 1] ELSE f[n + 1 - 1] \o q[n + 1]
    <3>1. PICK m \in 1..(n + 1) : m = n + 1
      BY <1>1
    <3>2. f[m] = IF m = 1 THEN q[m] ELSE f[m - 1] \o q[m]
      BY <1>3, <3>1 DEF Joins
    <3> QED
      BY <3>1, <3>2
  <2> QED
    BY <2>1, <2>2, <2>3
<1>11. FlattenSeq(q) = FlattenSeq(p) \o q[n + 1]
  <2>1. CASE n = 0
    <3>1. q[n + 1] \in Seq(S)
      BY <1>1
    <3>2. <<>> \o q[n + 1] = q[n + 1]
      BY <3>1, ConcatEmptySeq
    <3> QED
      BY <1>3, <1>6, <1>10, <2>1, <3>2
  <2>2. CASE n # 0
    BY <1>3, <1>4, <1>9, <1>10, <2>2
  <2> QED
    BY <2>1, <2>2
<1> QED
  BY <1>3, <1>8, <1>11 DEF p

\* of no sequences
LEMMA FlattenNone == ASSUME NEW q, DOMAIN q = {}, q = [k \in DOMAIN q |-> q[k]] PROVE FlattenSeq(q) = <<>>
<1>1. q = <<>>
  <2>1. q = [k \in {} |-> q[k]] /\ <<>> = [k \in {} |-> q[k]]
    OBVIOUS
  <2> QED
    BY <2>1
<1> QED
  BY <1>1 DEF FlattenSeq

\* what is joined is a sequence
LEMMA FlattenType ==
  ASSUME NEW S, NEW q \in Seq(Seq(S))
  PROVE  FlattenSeq(q) \in Seq(S)
<1>1. PICK n \in Nat : n = Len(q) /\ q \in [1..n -> Seq(S)]
  BY LenProperties
<1>2. CASE n = 0
  <2>1. q = <<>>
    BY <1>1, <1>2
  <2> QED
    BY <2>1 DEF FlattenSeq
<1>3. CASE n # 0
  <2>1. PICK m \in Nat : n = m + 1
    <3>1. n - 1 \in Nat /\ n = (n - 1) + 1
      BY <1>3
    <3> QED
      BY <3>1
  <2> QED
    BY <1>1, <2>1, FlattenOneMore
<1> QED
  BY <1>2, <1>3

\* a function on the numbers up to n is a sequence
LEMMA FunctionIsSeq ==
  ASSUME NEW S, NEW n \in Nat, NEW f \in [1..n -> S]
  PROVE  f \in Seq(S) /\ Len(f) = n /\ DOMAIN f = 1..n
  OBVIOUS

\* joining is a homomorphism
LEMMA FlattenConcat ==
  ASSUME NEW S, NEW s \in Seq(Seq(S)), NEW t \in Seq(Seq(S))
  PROVE  FlattenSeq(s \o t) = FlattenSeq(s) \o FlattenSeq(t)
<1> DEFINE T == {n \in Nat : \E r \in Seq(Seq(S)) :
                    Len(r) = n /\ FlattenSeq(s \o r) # FlattenSeq(s) \o FlattenSeq(r)}
<1> SUFFICES ASSUME T # {} PROVE FALSE
  <2>1. PICK n \in Nat : n = Len(t)
    OBVIOUS
  <2> QED
    BY <2>1
<1>1. PICK n \in T : \A k \in T : n <= k
  <2> HIDE DEF T
  <2>1. T \in SUBSET Nat
    BY DEF T
  <2> QED
    BY <2>1, LeastNumber
<1>2. PICK r \in Seq(Seq(S)) : Len(r) = n /\ FlattenSeq(s \o r) # FlattenSeq(s) \o FlattenSeq(r)
  BY <1>1
<1>3. PICK l \in Nat : l = Len(s) /\ DOMAIN s = 1..l /\ s \in [1..l -> Seq(S)]
  BY LenProperties
<1>4. n \in Nat /\ DOMAIN r = 1..n /\ r \in [1..n -> Seq(S)]
  BY <1>1, <1>2, LenProperties
<1>5. FlattenSeq(s) \in Seq(S)
  BY FlattenType
<1>6. CASE n = 0
  <2>1. r = <<>>
    BY <1>2, <1>6
  <2>2. s \o r = s /\ FlattenSeq(r) = <<>>
    BY <2>1, ConcatEmptySeq DEF FlattenSeq
  <2> QED
    BY <1>2, <1>5, <2>2, ConcatEmptySeq
<1>7. CASE n # 0
  <2>1. PICK m \in Nat : n = m + 1 /\ m \notin T
    <3>1. n - 1 \in Nat /\ n = (n - 1) + 1 /\ ~(n <= n - 1)
      BY <1>4, <1>7
    <3> HIDE DEF T
    <3> QED
      BY <1>1, <3>1
  <2> DEFINE p == [k \in 1..m |-> r[k]]
             w == s \o r
  <2>2. p \in Seq(Seq(S)) /\ Len(p) = m /\ r[n] \in Seq(S) /\ DOMAIN p = 1..m
    <3>1. \A k \in 1..m : k \in 1..n
      BY <2>1
    <3>2. p \in [1..m -> Seq(S)]
      BY <1>4, <3>1
    <3>3. n \in 1..n
      BY <1>4, <1>7
    <3> QED
      BY <1>4, <3>2, <3>3, IsASeq, LenProperties
  <2>3. FlattenSeq(s \o p) = FlattenSeq(s) \o FlattenSeq(p)
    BY <2>1, <2>2
  <2>4. FlattenSeq(r) = FlattenSeq(p) \o r[n]
    BY <1>4, <2>1, FlattenOneMore
  <2> HIDE DEF p, T
  <2>5. w \in [1..(l + n) -> Seq(S)] /\ \A k \in 1..(l + n) : w[k] = IF k <= l THEN s[k] ELSE r[k - l]
    <3>1. w \in Seq(Seq(S)) /\ Len(w) = l + n
      BY <1>2, <1>3, ConcatProperties
    <3>2. w \in [1..(l + n) -> Seq(S)]
      BY <3>1, LenProperties
    <3> QED
      BY <1>2, <1>3, <3>2, ConcatProperties
  <2>6. [k \in 1..(l + m) |-> w[k]] = s \o p
    <3> DEFINE u == s \o p
               v == [k \in 1..(l + m) |-> w[k]]
    <3>1. u \in Seq(Seq(S)) /\ Len(u) = l + m /\ \A k \in 1..(l + m) : u[k] = IF k <= l THEN s[k] ELSE p[k - l]
      BY <1>3, <2>2, ConcatProperties
    <3>2. u \in [1..(l + m) -> Seq(S)]
      BY <3>1, LenProperties
    <3>3. \A k \in 1..(l + m) : k \in 1..(l + n) /\ (~(k <= l) => k - l \in 1..m)
      BY <2>1
    <3>4. \A k \in 1..m : p[k] = r[k]
      BY DEF p
    <3> HIDE DEF u
    <3>5. \A k \in 1..(l + m) : u[k] = v[k]
      BY <2>5, <3>1, <3>3, <3>4
    <3> QED
      BY <3>2, <3>5 DEF u
  <2>7. FlattenSeq(w) = FlattenSeq(s \o p) \o r[n]
    <3>1. l + n = (l + m) + 1 /\ l + m \in Nat
      BY <2>1
    <3>2. w[l + n] = r[n]
      <4>1. l + n \in 1..(l + n) /\ ~(l + n <= l) /\ l + n - l = n
        BY <1>4, <1>7
      <4> HIDE DEF w
      <4>2. w[l + n] = r[l + n - l]
        BY <1>4, <2>5, <4>1
      <4> QED
        BY <4>1, <4>2
    <3> HIDE DEF w
    <3>3. FlattenSeq(w) = FlattenSeq([k \in 1..(l + m) |-> w[k]]) \o w[(l + m) + 1]
      BY <2>5, <3>1, FlattenOneMore
    <3> QED
      BY <2>6, <3>1, <3>2, <3>3
  <2>8. FlattenSeq(p) \in Seq(S)
    BY <2>2, FlattenType
  <2>9. (FlattenSeq(s) \o FlattenSeq(p)) \o r[n] = FlattenSeq(s) \o (FlattenSeq(p) \o r[n])
    <3>1. PICK a \in Seq(S), b \in Seq(S), c \in Seq(S) :
            a = FlattenSeq(s) /\ b = FlattenSeq(p) /\ c = r[n]
      BY <1>5, <2>2, <2>8
    <3>2. Associates(a, b, c)
      BY ConcatsAssociate
    <3>3. (a \o b) \o c = a \o (b \o c)
      BY <3>2 DEF Associates
    <3> QED
      BY <3>1, <3>3
  <2> QED
    BY <1>2, <2>3, <2>4, <2>7, <2>9
<1> QED
  BY <1>6, <1>7

\* of sequences of which at most one is not empty
LEMMA FlattenOne ==
  ASSUME NEW S, NEW n \in Nat, NEW q \in [1..n -> Seq(S)], NEW p \in Nat,
         \A k \in 1..n : k # p => q[k] = <<>>
  PROVE  FlattenSeq(q) = IF p \in 1..n THEN q[p] ELSE <<>>
<1> DEFINE first(m) == [k \in 1..m |-> q[k]]
           T == {m \in 0..n : FlattenSeq(first(m)) # IF p \in 1..m THEN q[p] ELSE <<>>}
<1>1. first(n) = q
  OBVIOUS
<1> SUFFICES ASSUME T # {} PROVE FALSE
  <2>1. n \in 0..n
    OBVIOUS
  <2> HIDE DEF first
  <2> QED
    BY <1>1, <2>1
<1>2. PICK m \in T : \A k \in T : m <= k
  <2> HIDE DEF T
  <2>1. T \in SUBSET Nat
    BY DEF T
  <2> QED
    BY <2>1, LeastNumber
<1>3. m \in 0..n /\ FlattenSeq(first(m)) # IF p \in 1..m THEN q[p] ELSE <<>>
  <2> HIDE DEF first
  <2> QED
    OBVIOUS
<1>4. CASE m = 0
  <2>1. FlattenSeq(first(m)) = <<>>
    <3>1. DOMAIN first(m) = {} /\ first(m) = [k \in DOMAIN first(m) |-> first(m)[k]]
      BY <1>4
    <3> HIDE DEF first
    <3> QED
      BY <3>1, FlattenNone
  <2> QED
    BY <1>3, <1>4, <2>1
<1>5. CASE m # 0
  <2>1. PICK l \in Nat : m = l + 1
    <3>1. m - 1 \in Nat /\ m = (m - 1) + 1
      BY <1>3, <1>5
    <3> QED
      BY <3>1
  <2>2. l \in 0..n /\ ~(m <= l) /\ m \in 1..n /\ \A k \in 1..l : k \in 1..m
    BY <1>3, <2>1
  <2>3. l \notin T
    <3> HIDE DEF T
    <3> QED
      BY <1>2, <2>2
  <2>4. FlattenSeq(first(l)) = IF p \in 1..l THEN q[p] ELSE <<>>
    <3> HIDE DEF first
    <3> QED
      BY <2>2, <2>3
  <2>5. first(m) \in [1..(l + 1) -> Seq(S)] /\ first(m)[l + 1] = q[m]
        /\ [k \in 1..l |-> first(m)[k]] = first(l)
    <3>1. \A k \in 1..m : k \in 1..n
      BY <1>3
    <3> QED
      BY <2>1, <2>2, <3>1
  <2> HIDE DEF first, T
  <2>6. FlattenSeq(first(m)) = FlattenSeq(first(l)) \o q[m]
    BY <2>5, FlattenOneMore
  <2>7. q[m] \in Seq(S) /\ (p \in 1..n => q[p] \in Seq(S))
    BY <2>2
  <2>8. CASE p = m
    <3>1. p \notin 1..l /\ p \in 1..m
      BY <2>1, <2>8
    <3> QED
      BY <1>3, <2>4, <2>6, <2>7, <2>8, <3>1, ConcatEmptySeq
  <2>9. CASE p # m
    <3>1. p \in 1..l <=> p \in 1..m
      BY <2>1, <2>9
    <3>2. q[m] = <<>>
      BY <2>2, <2>9
    <3>3. p \in 1..l => q[p] \in Seq(S)
      BY <2>2, <2>7
    <3> QED
      BY <1>3, <2>4, <2>6, <3>1, <3>2, <3>3, ConcatEmptySeq
  <2> QED
    BY <2>8, <2>9
<1> QED
  BY <1>4, <1>5

----------------------------------------------------------------------------
(* Messages and their bytes *)

Msg == {Notification(i, n) : i \in Nat, n \in Nat} \cup {Success(i) : i \in Nat} \cup {Failure}
Classes == {"open", "close", "quote", "escape", "space", "other"}
ByteSet == {b \in [class : Classes, value : Msg \cup {<<>>}] : b.class = "other" => b.value \in Msg}

\* without the space after it
Size(m) == IF IsNotification(m) THEN 11 ELSE 3
\* where a message carries its value
Place(m) == IF IsNotification(m) THEN 6 ELSE 2

\* what tells the messages apart
LEMMA MsgFacts ==
  /\ \A m \in Msg : IsNotification(m) => m[2] \in Nat
  /\ \A m \in Msg : ~IsNotification(m) /\ m # Failure => m[2] \in Nat /\ m = Success(m[2])
  /\ \A i \in Nat : /\ ~IsNotification(Success(i)) /\ Success(i) # Failure
                     /\ Success(i) \in Msg /\ Success(i)[2] = i
  /\ \A i \in Nat, n \in Nat : /\ IsNotification(Notification(i, n)) /\ Notification(i, n) \in Msg
                               /\ Notification(i, n)[2] = i
  /\ ~IsNotification(Failure) /\ Failure \in Msg
<1>1. \A i \in Nat : Success(i) \in Msg
  BY DEF Msg
<1>2. \A i \in Nat, n \in Nat : Notification(i, n) \in Msg
  BY DEF Msg
<1>3. Failure \in Msg
  BY DEF Msg
<1>4. \A i \in Nat : ~IsNotification(Success(i)) /\ Success(i) # Failure /\ Success(i)[2] = i
  BY DEF IsNotification, Success, Failure
<1>5. \A i \in Nat, n \in Nat : IsNotification(Notification(i, n)) /\ Notification(i, n)[2] = i
  BY DEF IsNotification, Notification
<1>6. ~IsNotification(Failure)
  BY DEF IsNotification, Failure
<1>7. \A m \in Msg :
        \/ \E i \in Nat, n \in Nat : m = Notification(i, n)
        \/ \E i \in Nat : m = Success(i)
        \/ m = Failure
  BY DEF Msg
<1> QED
  BY <1>1, <1>2, <1>3, <1>4, <1>5, <1>6, <1>7

\* what tells the bytes apart
LEMMA ByteFacts ==
  /\ \A c \in Classes \ {"other"} : B(c) \in ByteSet /\ B(c).class = c
  /\ \A m \in Msg : /\ Byte("other", m) \in ByteSet /\ Byte("other", m).class = "other"
                     /\ Byte("other", m).value = m
BY DEF ByteSet, B, Byte, Classes

\* a message byte by byte
LEMMA BytesOfNotification ==
  ASSUME NEW m \in Msg, IsNotification(m)
  PROVE  /\ Bytes(m) \in [1..12 -> ByteSet]
         /\ Bytes(m)[1] = B("open") /\ Bytes(m)[2] = B("quote") /\ Bytes(m)[3] = B("open")
         /\ Bytes(m)[4] = B("escape") /\ Bytes(m)[5] = B("quote") /\ Bytes(m)[6] = Byte("other", m)
         /\ Bytes(m)[7] = B("escape") /\ Bytes(m)[8] = B("quote") /\ Bytes(m)[9] = B("close")
         /\ Bytes(m)[10] = B("quote") /\ Bytes(m)[11] = B("close") /\ Bytes(m)[12] = B("space")
<1>1. Bytes(m) = <<B("open"), B("quote"), B("open"), B("escape"), B("quote"), Byte("other", m),
         B("escape"), B("quote"), B("close"), B("quote"), B("close"), B("space")>>
  BY DEF Bytes
<1>2. PICK a \in ByteSet, b \in ByteSet, c \in ByteSet, d \in ByteSet, e \in ByteSet, f \in ByteSet :
        /\ a = B("open") /\ b = B("quote") /\ c = B("escape") /\ d = Byte("other", m)
        /\ e = B("close") /\ f = B("space")
  BY ByteFacts DEF Classes
<1>3. Bytes(m) = <<a, b, a, c, b, d, c, b, e, b, e, f>>
  BY <1>1, <1>2
<1>4. <<a, b, a, c, b, d, c, b, e, b, e, f>> \in [1..12 -> ByteSet]
  OBVIOUS
<1> QED
  BY <1>2, <1>3, <1>4

\* an answer byte by byte
LEMMA BytesOfAnswer ==
  ASSUME NEW m \in Msg, ~IsNotification(m)
  PROVE  /\ Bytes(m) \in [1..4 -> ByteSet]
         /\ Bytes(m)[1] = B("open") /\ Bytes(m)[2] = Byte("other", m) /\ Bytes(m)[3] = B("close")
         /\ Bytes(m)[4] = B("space")
<1>1. Bytes(m) = <<B("open"), Byte("other", m), B("close"), B("space")>>
  BY DEF Bytes
<1>2. PICK a \in ByteSet, d \in ByteSet, e \in ByteSet, f \in ByteSet :
        a = B("open") /\ d = Byte("other", m) /\ e = B("close") /\ f = B("space")
  BY ByteFacts DEF Classes
<1>3. Bytes(m) = <<a, d, e, f>>
  BY <1>1, <1>2
<1>4. <<a, d, e, f>> \in [1..4 -> ByteSet]
  OBVIOUS
<1> QED
  BY <1>2, <1>3, <1>4

\* what both have in common
LEMMA BytesFacts ==
  ASSUME NEW m \in Msg
  PROVE  /\ Bytes(m) \in [1..(Size(m) + 1) -> ByteSet] /\ Bytes(m) \in Seq(ByteSet)
         /\ Len(Bytes(m)) = Size(m) + 1 /\ Size(m) \in {3, 11}
         /\ Place(m) \in 1..Size(m) /\ Bytes(m)[Place(m)] = Byte("other", m)
         /\ \A k \in 1..(Size(m) + 1) : k # Place(m) => Bytes(m)[k].class # "other"
         /\ Bytes(m)[Size(m) + 1] = B("space")
<1>1. CASE IsNotification(m)
  <2>1. Size(m) = 11 /\ Size(m) + 1 = 12 /\ Place(m) = 6 /\ Place(m) \in 1..Size(m)
    BY <1>1 DEF Size, Place
  <2>2. \A k \in 1..12 : k # 6 => Bytes(m)[k].class # "other"
    <3> SUFFICES ASSUME NEW k \in 1..12, k # 6 PROVE Bytes(m)[k].class # "other"
      OBVIOUS
    <3>1. \/ k = 1 \/ k = 2 \/ k = 3 \/ k = 4 \/ k = 5 \/ k = 7 \/ k = 8 \/ k = 9
          \/ k = 10 \/ k = 11 \/ k = 12
      OBVIOUS
    <3>2. \E c \in Classes \ {"other"} : Bytes(m)[k] = B(c)
      BY <1>1, <3>1, BytesOfNotification DEF Classes
    <3> QED
      BY <3>2, ByteFacts
  <2>3. Bytes(m) \in [1..12 -> ByteSet]
    BY <1>1, BytesOfNotification
  <2>4. Bytes(m) \in Seq(ByteSet) /\ Len(Bytes(m)) = 12
    BY <2>3, FunctionIsSeq
  <2>5. Bytes(m)[6] = Byte("other", m) /\ Bytes(m)[12] = B("space")
    BY <1>1, BytesOfNotification
  <2> QED
    BY <2>1, <2>2, <2>3, <2>4, <2>5
<1>2. CASE ~IsNotification(m)
  <2>1. Size(m) = 3 /\ Size(m) + 1 = 4 /\ Place(m) = 2 /\ Place(m) \in 1..Size(m)
    BY <1>2 DEF Size, Place
  <2>2. \A k \in 1..4 : k # 2 => Bytes(m)[k].class # "other"
    <3> SUFFICES ASSUME NEW k \in 1..4, k # 2 PROVE Bytes(m)[k].class # "other"
      OBVIOUS
    <3>1. k = 1 \/ k = 3 \/ k = 4
      OBVIOUS
    <3>2. \E c \in Classes \ {"other"} : Bytes(m)[k] = B(c)
      BY <1>2, <3>1, BytesOfAnswer DEF Classes
    <3> QED
      BY <3>2, ByteFacts
  <2>3. Bytes(m) \in [1..4 -> ByteSet]
    BY <1>2, BytesOfAnswer
  <2>4. Bytes(m) \in Seq(ByteSet) /\ Len(Bytes(m)) = 4
    BY <2>3, FunctionIsSeq
  <2>5. Bytes(m)[2] = Byte("other", m) /\ Bytes(m)[4] = B("space")
    BY <1>2, BytesOfAnswer
  <2> QED
    BY <2>1, <2>2, <2>3, <2>4, <2>5
<1> QED
  BY <1>1, <1>2

----------------------------------------------------------------------------
(* Notifications under way, and the stream *)

Carried(b) == IF b.class = "other" /\ IsNotification(b.value) THEN <<b.value>> ELSE <<>>
CarriedBy(s) == [k \in DOMAIN s |-> Carried(s[k])]

\* the bytes of the messages q
EachBytes(q) == [k \in DOMAIN q |-> Bytes(q[k])]
Wire(q) == FlattenSeq(EachBytes(q))

\* the space after a message that was taken stays at the head
Lead == {<<>>, <<B("space")>>}

\* InFlight joins what each byte carries
LEMMA CarriedFacts ==
  ASSUME NEW s \in Seq(ByteSet)
  PROVE  CarriedBy(s) \in Seq(Seq(Msg)) /\ InFlight(s) = FlattenSeq(CarriedBy(s))
<1>1. PICK n \in Nat : s \in [1..n -> ByteSet] /\ DOMAIN s = 1..n
  BY LenProperties
<1>2. \A b \in ByteSet : Carried(b) \in Seq(Msg)
  BY DEF ByteSet, Carried
<1>3. CarriedBy(s) \in [1..n -> Seq(Msg)]
  BY <1>1, <1>2 DEF CarriedBy
<1>4. CarriedBy(s) \in Seq(Seq(Msg))
  BY <1>3, FunctionIsSeq
<1> QED
  BY <1>4 DEF CarriedBy, Carried, InFlight

\* the notifications in a stream and in what follows it
LEMMA InFlightConcat ==
  ASSUME NEW s \in Seq(ByteSet), NEW t \in Seq(ByteSet)
  PROVE  InFlight(s \o t) = InFlight(s) \o InFlight(t) /\ InFlight(s) \in Seq(Msg)
<1>1. PICK m \in Nat, n \in Nat : /\ m = Len(s) /\ DOMAIN s = 1..m
                                 /\ n = Len(t) /\ DOMAIN t = 1..n
  OBVIOUS
<1> DEFINE u == s \o t
           a == CarriedBy(s)
           b == CarriedBy(t)
           c == CarriedBy(u)
<1>2. u \in Seq(ByteSet) /\ DOMAIN u = 1..(m + n) /\ \A k \in 1..(m + n) : u[k] = IF k <= m THEN s[k] ELSE t[k - m]
  BY <1>1, ConcatProperties
<1>3. a \in Seq(Seq(Msg)) /\ b \in Seq(Seq(Msg))
  BY CarriedFacts
<1>4. /\ DOMAIN a = 1..m /\ Len(a) = m /\ \A k \in 1..m : a[k] = Carried(s[k])
      /\ DOMAIN b = 1..n /\ Len(b) = n /\ \A k \in 1..n : b[k] = Carried(t[k])
  <2>1. DOMAIN a = 1..m /\ \A k \in 1..m : a[k] = Carried(s[k])
    BY <1>1 DEF CarriedBy
  <2>2. DOMAIN b = 1..n /\ \A k \in 1..n : b[k] = Carried(t[k])
    BY <1>1 DEF CarriedBy
  <2> HIDE DEF a, b
  <2> QED
    BY <1>3, <2>1, <2>2
<1> HIDE DEF u, a, b
<1>5. c = [k \in 1..(m + n) |-> Carried(u[k])]
  BY <1>2 DEF CarriedBy
<1>6. c = a \o b
  <2> DEFINE d == a \o b
  <2>1. d \in Seq(Seq(Msg)) /\ Len(d) = m + n /\ \A k \in 1..(m + n) : d[k] = IF k <= m THEN a[k] ELSE b[k - m]
    <3>1. Len(a) = m /\ Len(b) = n
      BY <1>4
    <3> QED
      BY <1>3, <3>1, ConcatProperties
  <2>2. \A k \in 1..(m + n) : (k <= m => k \in 1..m) /\ (~(k <= m) => k - m \in 1..n)
    OBVIOUS
  <2> HIDE DEF c, d
  <2>3. \A k \in 1..(m + n) : c[k] = d[k]
    <3> SUFFICES ASSUME NEW k \in 1..(m + n) PROVE c[k] = d[k]
      OBVIOUS
    <3>1. c[k] = Carried(u[k])
      BY <1>5
    <3>2. CASE k <= m
      <4>1. u[k] = s[k] /\ d[k] = a[k]
        BY <1>2, <2>1, <3>2
      <4>2. a[k] = Carried(s[k])
        BY <1>4, <2>2, <3>2
      <4> QED
        BY <3>1, <4>1, <4>2
    <3>3. CASE ~(k <= m)
      <4>1. u[k] = t[k - m] /\ d[k] = b[k - m]
        BY <1>2, <2>1, <3>3
      <4>2. b[k - m] = Carried(t[k - m])
        BY <1>4, <2>2, <3>3
      <4> QED
        BY <3>1, <4>1, <4>2
    <3> QED
      BY <3>2, <3>3
  <2>4. d \in [1..(m + n) -> Seq(Msg)]
    BY <2>1, LenProperties
  <2> QED
    BY <1>5, <2>3, <2>4 DEF d
<1>7. FlattenSeq(c) = FlattenSeq(a) \o FlattenSeq(b) /\ FlattenSeq(a) \in Seq(Msg)
  BY <1>3, <1>6, FlattenConcat, FlattenType
<1>8. InFlight(s) = FlattenSeq(a) /\ InFlight(t) = FlattenSeq(b)
  BY CarriedFacts DEF a, b
<1>9. InFlight(u) = FlattenSeq(c)
  BY <1>2, CarriedFacts
<1> QED
  BY <1>7, <1>8, <1>9 DEF u

\* of one message, and of the space that is left of one
LEMMA InFlightOfBytes ==
  ASSUME NEW m \in Msg
  PROVE  InFlight(Bytes(m)) = IF IsNotification(m) THEN <<m>> ELSE <<>>
<1> DEFINE s == Bytes(m)
           q == CarriedBy(s)
           p == Place(m)
<1>1. PICK n \in Nat : n = Size(m) + 1 /\ p \in 1..n /\ p \in Nat
  BY BytesFacts
<1>2. s \in [1..n -> ByteSet] /\ s \in Seq(ByteSet) /\ s[p] = Byte("other", m)
      /\ \A k \in 1..n : k # p => s[k].class # "other"
  BY <1>1, BytesFacts
<1> HIDE DEF s, p
<1>3. q \in [1..n -> Seq(Msg)]
  <2>1. q \in Seq(Seq(Msg)) /\ DOMAIN q = 1..n
    BY <1>2, CarriedFacts DEF CarriedBy
  <2> HIDE DEF q
  <2> QED
    BY <2>1
<1>4. \A k \in 1..n : k # p => q[k] = <<>>
  BY <1>2 DEF CarriedBy, Carried
<1>5. q[p] = IF IsNotification(m) THEN <<m>> ELSE <<>>
  BY <1>1, <1>2, ByteFacts DEF CarriedBy, Carried
<1>6. InFlight(s) = FlattenSeq(q)
  BY <1>2, CarriedFacts
<1> HIDE DEF q
<1>7. FlattenSeq(q) = q[p]
  BY <1>1, <1>3, <1>4, FlattenOne
<1> QED
  BY <1>5, <1>6, <1>7 DEF s

\* the space that is left of a message carries nothing
LEMMA InFlightOfLead ==
  ASSUME NEW lead \in Lead
  PROVE  lead \in Seq(ByteSet) /\ InFlight(lead) = <<>>
<1>1. PICK n \in 0..1 : n = Len(lead) /\ lead \in [1..n -> ByteSet] /\ \A k \in 1..n : lead[k].class # "other"
  <2>1. B("space") \in ByteSet /\ B("space").class # "other"
    BY ByteFacts DEF Classes
  <2>2. CASE lead = <<>>
    <3>1. 0 \in 0..1 /\ 0 = Len(lead) /\ lead \in [1..0 -> ByteSet] /\ 1..0 = {}
      BY <2>2
    <3> QED
      BY <3>1
  <2>3. CASE lead = <<B("space")>>
    <3>1. 1 \in 0..1 /\ 1 = Len(lead) /\ lead \in [1..1 -> ByteSet] /\ \A k \in 1..1 : lead[k] = B("space")
      BY <2>1, <2>3
    <3> QED
      BY <2>1, <3>1
  <2> QED
    BY <2>2, <2>3 DEF Lead
<1>2. lead \in Seq(ByteSet)
  BY <1>1, FunctionIsSeq
<1> DEFINE q == CarriedBy(lead)
<1>3. q \in [1..n -> Seq(Msg)] /\ \A k \in 1..n : q[k] = <<>>
  <2>1. q = [k \in 1..n |-> Carried(lead[k])]
    BY <1>1 DEF CarriedBy
  <2>2. \A k \in 1..n : Carried(lead[k]) = <<>>
    BY <1>1 DEF Carried
  <2>3. <<>> \in Seq(Msg)
    OBVIOUS
  <2> HIDE DEF q
  <2> QED
    BY <2>1, <2>2, <2>3
<1>4. InFlight(lead) = FlattenSeq(q)
  BY <1>2, CarriedFacts
<1> HIDE DEF q
<1>5. FlattenSeq(q) = <<>>
  <2>1. n \in Nat /\ 0 \in Nat /\ 0 \notin 1..n
    BY <1>1
  <2> QED
    BY <1>3, <2>1, FlattenOne
<1> QED
  BY <1>2, <1>4, <1>5

\* the messages as sequences of bytes
LEMMA EachBytesFacts ==
  ASSUME NEW q \in Seq(Msg)
  PROVE  /\ EachBytes(q) \in Seq(Seq(ByteSet)) /\ Len(EachBytes(q)) = Len(q)
         /\ \A k \in 1..Len(q) : EachBytes(q)[k] = Bytes(q[k])
         /\ Wire(q) \in Seq(ByteSet)
<1>1. PICK n \in Nat : q \in [1..n -> Msg] /\ DOMAIN q = 1..n /\ n = Len(q)
  BY LenProperties
<1>2. \A m \in Msg : Bytes(m) \in Seq(ByteSet)
  BY BytesFacts
<1>3. EachBytes(q) \in [1..n -> Seq(ByteSet)] /\ \A k \in 1..n : EachBytes(q)[k] = Bytes(q[k])
  BY <1>1, <1>2 DEF EachBytes
<1>4. EachBytes(q) \in Seq(Seq(ByteSet)) /\ Len(EachBytes(q)) = n
  BY <1>3, FunctionIsSeq
<1>5. Wire(q) \in Seq(ByteSet)
  BY <1>4, FlattenType DEF Wire
<1> QED
  BY <1>1, <1>3, <1>4, <1>5

\* the bytes of no message, of one, and of more
LEMMA WireNone == Wire(<<>>) = <<>>
<1>1. EachBytes(<<>>) = <<>>
  <2>1. DOMAIN <<>> = {} /\ <<>> = [k \in {} |-> Bytes(<<>>[k])]
    OBVIOUS
  <2> QED
    BY <2>1 DEF EachBytes
<1> QED
  BY <1>1 DEF Wire, FlattenSeq

\* the bytes of one message
LEMMA WireOne == ASSUME NEW m \in Msg PROVE Wire(<<m>>) = Bytes(m)
<1> DEFINE q == EachBytes(<<m>>)
<1>1. q \in [1..1 -> Seq(ByteSet)] /\ q[1] = Bytes(m)
  <2>1. Bytes(m) \in Seq(ByteSet)
    BY BytesFacts
  <2>2. DOMAIN <<m>> = 1..1 /\ <<m>>[1] = m /\ 1 \in 1..1
    OBVIOUS
  <2>3. \A k \in 1..1 : k = 1
    OBVIOUS
  <2> QED
    BY <2>1, <2>2, <2>3 DEF EachBytes
<1> HIDE DEF q
<1>2. 1 \in Nat /\ 1 \in 1..1 /\ \A k \in 1..1 : k # 1 => q[k] = <<>>
  OBVIOUS
<1>3. FlattenSeq(q) = q[1]
  <2>1. PICK n \in Nat : n = 1
    OBVIOUS
  <2>2. q \in [1..n -> Seq(ByteSet)] /\ n \in 1..n /\ \A k \in 1..n : k # n => q[k] = <<>>
    BY <1>1, <1>2, <2>1
  <2>3. FlattenSeq(q) = IF n \in 1..n THEN q[n] ELSE <<>>
    BY <2>2, FlattenOne
  <2> QED
    BY <2>1, <2>2, <2>3
<1> QED
  BY <1>1, <1>3 DEF Wire, q

\* the bytes of more messages follow each other
LEMMA WireConcat ==
  ASSUME NEW p \in Seq(Msg), NEW q \in Seq(Msg)
  PROVE  Wire(p \o q) = Wire(p) \o Wire(q)
<1>1. PICK m \in Nat, n \in Nat : m = Len(p) /\ n = Len(q)
  OBVIOUS
<1> DEFINE r == p \o q
           a == EachBytes(p)
           b == EachBytes(q)
           c == EachBytes(r)
           d == a \o b
<1>2. r \in Seq(Msg) /\ Len(r) = m + n /\ \A k \in 1..(m + n) : r[k] = IF k <= m THEN p[k] ELSE q[k - m]
  BY <1>1, ConcatProperties
<1>3. /\ a \in Seq(Seq(ByteSet)) /\ Len(a) = m /\ \A k \in 1..m : a[k] = Bytes(p[k])
      /\ b \in Seq(Seq(ByteSet)) /\ Len(b) = n /\ \A k \in 1..n : b[k] = Bytes(q[k])
  BY <1>1, EachBytesFacts
<1> HIDE DEF r
<1>4. c \in Seq(Seq(ByteSet)) /\ Len(c) = m + n /\ \A k \in 1..(m + n) : c[k] = Bytes(r[k])
  BY <1>2, EachBytesFacts
<1> HIDE DEF a, b, c
<1>5. d \in Seq(Seq(ByteSet)) /\ Len(d) = m + n /\ \A k \in 1..(m + n) : d[k] = IF k <= m THEN a[k] ELSE b[k - m]
  BY <1>3, ConcatProperties
<1>6. \A k \in 1..(m + n) : (k <= m => k \in 1..m) /\ (~(k <= m) => k - m \in 1..n)
  OBVIOUS
<1> HIDE DEF d
<1>7. \A k \in 1..(m + n) : c[k] = d[k]
  <2> SUFFICES ASSUME NEW k \in 1..(m + n) PROVE c[k] = d[k]
    OBVIOUS
  <2>1. CASE k <= m
    <3>1. c[k] = Bytes(r[k]) /\ r[k] = p[k] /\ k \in 1..m
      BY <1>2, <1>4, <1>6, <2>1
    <3>2. d[k] = a[k] /\ a[k] = Bytes(p[k])
      BY <1>3, <1>5, <2>1, <3>1
    <3> QED
      BY <3>1, <3>2
  <2>2. CASE ~(k <= m)
    <3>1. c[k] = Bytes(r[k]) /\ r[k] = q[k - m] /\ k - m \in 1..n
      BY <1>2, <1>4, <1>6, <2>2
    <3>2. d[k] = b[k - m] /\ b[k - m] = Bytes(q[k - m])
      BY <1>3, <1>5, <2>2, <3>1
    <3> QED
      BY <3>1, <3>2
  <2> QED
    BY <2>1, <2>2
<1>8. c = d
  <2>1. c \in [1..(m + n) -> Seq(ByteSet)] /\ d \in [1..(m + n) -> Seq(ByteSet)]
    BY <1>4, <1>5, LenProperties
  <2> QED
    BY <1>7, <2>1
<1>9. FlattenSeq(d) = FlattenSeq(a) \o FlattenSeq(b)
  BY <1>3, FlattenConcat DEF d
<1> QED
  BY <1>8, <1>9 DEF Wire, a, b, c, r

----------------------------------------------------------------------------
(* The codec *)

\* the scan of the first n bytes of s
Scans(f, s, n) == f = [k \in 0..n |-> IF k = 0 THEN Scanned ELSE Scan(f[k - 1], s[k])]

\* decode chooses such a function: there is one
LEMMA ScansExist ==
  ASSUME NEW s, NEW n \in Nat
  PROVE  \E f : Scans(f, s, n)
<1> DEFINE T == {m \in Nat : ~\E f : Scans(f, s, m)}
<1> SUFFICES ASSUME T # {} PROVE FALSE
  OBVIOUS
<1>1. PICK m \in T : \A k \in T : m <= k
  <2> HIDE DEF T
  <2>1. T \in SUBSET Nat
    BY DEF T
  <2> QED
    BY <2>1, LeastNumber
<1>2. CASE m = 0
  <2> DEFINE g == [k \in 0..m |-> Scanned]
  <2>1. \A k \in 0..m : g[k] = IF k = 0 THEN Scanned ELSE Scan(g[k - 1], s[k])
    BY <1>2
  <2>2. g = [k \in 0..m |-> g[k]]
    OBVIOUS
  <2> HIDE DEF g
  <2>3. Scans(g, s, m)
    BY <2>1, <2>2 DEF Scans
  <2> QED
    BY <2>3
<1>3. CASE m # 0
  <2>1. m - 1 \in Nat /\ m - 1 \notin T
    BY <1>1, <1>3
  <2>2. PICK f : Scans(f, s, m - 1)
    BY <2>1
  <2> DEFINE g == [k \in 0..m |-> IF k = m THEN Scan(f[m - 1], s[m]) ELSE f[k]]
  <2>3. \A k \in 0..m : g[k] = IF k = 0 THEN Scanned ELSE Scan(g[k - 1], s[k])
    <3> SUFFICES ASSUME NEW k \in 0..m
                 PROVE  g[k] = IF k = 0 THEN Scanned ELSE Scan(g[k - 1], s[k])
      OBVIOUS
    <3>1. m \in Nat /\ k \in Nat
      OBVIOUS
    <3>2. CASE k = m
      <4>1. k - 1 \in 0..m /\ k - 1 # m /\ k # 0
        BY <1>3, <3>1, <3>2
      <4>2. g[k - 1] = f[k - 1]
        BY <4>1
      <4> QED
        BY <3>2, <4>1, <4>2
    <3>3. CASE k # m
      <4>1. k \in 0..(m - 1) /\ g[k] = f[k]
        BY <3>1, <3>3
      <4>2. f[k] = IF k = 0 THEN Scanned ELSE Scan(f[k - 1], s[k])
        BY <2>2, <4>1 DEF Scans
      <4>3. k # 0 => k - 1 \in 0..m /\ k - 1 # m
        BY <3>1
      <4>4. k # 0 => g[k - 1] = f[k - 1]
        BY <4>3
      <4> QED
        BY <4>1, <4>2, <4>4
    <3> QED
      BY <3>2, <3>3
  <2>4. g = [k \in 0..m |-> g[k]]
    OBVIOUS
  <2> HIDE DEF g
  <2>5. Scans(g, s, m)
    BY <2>3, <2>4 DEF Scans
  <2> QED
    BY <2>5
<1> QED
  BY <1>2, <1>3

\* decode looks at the bytes one by one
LEMMA DecodeIsLast ==
  ASSUME NEW buf, NEW n \in Nat, n = Len(buf)
  PROVE  \E f : /\ f[0] = Scanned /\ \A k \in 1..n : f[k] = Scan(f[k - 1], buf[k])
                /\ decode(buf) = f[n].end
<1>1. PICK f : Scans(f, buf, n)
  BY ScansExist
<1> DEFINE scan == CHOOSE g : g = [k \in 0..n |-> IF k = 0 THEN Scanned ELSE Scan(g[k - 1], buf[k])]
<1>2. decode(buf) = scan[n].end
  BY DEF decode
<1>3. Scans(scan, buf, n)
  BY <1>1 DEF Scans
<1> HIDE DEF scan
<1>4. \A k \in 0..n : scan[k] = IF k = 0 THEN Scanned ELSE Scan(scan[k - 1], buf[k])
  BY <1>3 DEF Scans
<1>5. 0 \in 0..n /\ \A k \in 1..n : k \in 0..n /\ k # 0
  OBVIOUS
<1> QED
  BY <1>2, <1>4, <1>5

\* between messages, after l spaces, and k bytes into a message
Between(l) ==
  [depth |-> 0, str |-> "outside", start_idx |-> 1, whitespaces |-> l, idx |-> l, end |-> 0]
Within(l, k, str) ==
  [depth |-> 1, str |-> str, start_idx |-> l + 1, whitespaces |-> l, idx |-> l + k, end |-> 0]

\* one byte on
LEMMA ScanOpens ==
  ASSUME NEW l \in 0..1
  PROVE  Scan(Between(l), B("open")) = Within(l, 1, "outside")
BY DEF Scan, Between, Within, B, Byte, InString

\* between two messages the codec counts the space
LEMMA ScanSpace == Scan(Scanned, B("space")) = Between(1) /\ Scanned = Between(0)
BY DEF Scan, Scanned, Between, B, Byte, InString

\* a byte within a message does not end it
LEMMA ScanWithin ==
  ASSUME NEW l \in 0..1, NEW k \in 1..10, NEW v
  PROVE  /\ Scan(Within(l, k, "outside"), B("quote")) = Within(l, k + 1, "inside")
         /\ Scan(Within(l, k, "inside"), B("quote")) = Within(l, k + 1, "outside")
         /\ Scan(Within(l, k, "escaped"), B("quote")) = Within(l, k + 1, "inside")
         /\ Scan(Within(l, k, "inside"), B("escape")) = Within(l, k + 1, "escaped")
         /\ Scan(Within(l, k, "inside"), B("open")) = Within(l, k + 1, "inside")
         /\ Scan(Within(l, k, "inside"), B("close")) = Within(l, k + 1, "inside")
         /\ Scan(Within(l, k, "inside"), Byte("other", v)) = Within(l, k + 1, "inside")
         /\ Scan(Within(l, k, "outside"), Byte("other", v)) = Within(l, k + 1, "outside")
<1>1. l + k + 1 = l + (k + 1)
  OBVIOUS
<1>2. Scan(Within(l, k, "outside"), B("quote")) = Within(l, k + 1, "inside")
  BY <1>1 DEF Scan, Within, B, Byte, InString
<1>3. Scan(Within(l, k, "inside"), B("quote")) = Within(l, k + 1, "outside")
  BY <1>1 DEF Scan, Within, B, Byte, InString
<1>4. Scan(Within(l, k, "escaped"), B("quote")) = Within(l, k + 1, "inside")
  BY <1>1 DEF Scan, Within, B, Byte, InString
<1>5. Scan(Within(l, k, "inside"), B("escape")) = Within(l, k + 1, "escaped")
  BY <1>1 DEF Scan, Within, B, Byte, InString
<1>6. Scan(Within(l, k, "inside"), B("open")) = Within(l, k + 1, "inside")
  BY <1>1 DEF Scan, Within, B, Byte, InString
<1>7. Scan(Within(l, k, "inside"), B("close")) = Within(l, k + 1, "inside")
  BY <1>1 DEF Scan, Within, B, Byte, InString
<1>8. Scan(Within(l, k, "inside"), Byte("other", v)) = Within(l, k + 1, "inside")
  BY <1>1 DEF Scan, Within, B, Byte, InString
<1>9. Scan(Within(l, k, "outside"), Byte("other", v)) = Within(l, k + 1, "outside")
  BY <1>1 DEF Scan, Within, B, Byte, InString
<1> QED
  BY <1>2, <1>3, <1>4, <1>5, <1>6, <1>7, <1>8, <1>9

\* the byte that closes a message
LEMMA ScanCloses ==
  ASSUME NEW l \in 0..1, NEW k \in 2..10
  PROVE  Scan(Within(l, k, "outside"), B("close")).end = l + (k + 1)
<1>1. l + k + 1 = l + (k + 1) /\ l + k + 1 # l + 1 /\ l + k + 1 - (l + 1) + 1 > l
  OBVIOUS
<1> QED
  BY <1>1 DEF Scan, Within, B, Byte, InString

\* f is the scan of the n bytes of buf, and the first bytes of buf are l spaces and
\* the beginning of message m
ScansAll(f, buf, n) == \A k \in 1..n : f[k] = Scan(f[k - 1], buf[k])
BeginsWith(buf, n, l, m) == \A k \in 1..Size(m) : l + k <= n => buf[l + k] = Bytes(m)[k]

\* what was found stays found
LEMMA EndStays ==
  ASSUME NEW f, NEW buf, NEW n \in Nat, NEW e \in 1..n, f[e].end = e, ScansAll(f, buf, n)
  PROVE  f[n].end = e
<1> DEFINE T == {k \in e..n : f[k] # f[e]}
<1>1. n \in e..n
  OBVIOUS
<1> SUFFICES ASSUME T # {} PROVE FALSE
  BY <1>1
<1>2. PICK m \in T : \A k \in T : m <= k
  <2> HIDE DEF T
  <2>1. T \in SUBSET Nat
    BY DEF T
  <2> QED
    BY <2>1, LeastNumber
<1>3. m \in e..n /\ m # e
  OBVIOUS
<1>4. m - 1 \in e..n /\ ~(m <= m - 1) /\ m \in 1..n
  BY <1>3
<1>5. m - 1 \notin T
  <2> HIDE DEF T
  <2> QED
    BY <1>2, <1>4
<1>6. f[m - 1] = f[e]
  BY <1>4, <1>5
<1>7. f[m] = Scan(f[m - 1], buf[m])
  BY <1>4 DEF ScansAll
<1>8. f[e].end # 0
  OBVIOUS
<1>9. f[m] = f[e]
  BY <1>6, <1>7, <1>8 DEF Scan
<1> QED
  BY <1>9

\* the scan of a message: it ends with the byte that closes it
LEMMA ScanOfNotification ==
  ASSUME NEW m \in Msg, IsNotification(m), NEW l \in 0..1, NEW n \in Nat, NEW f, NEW buf,
         f[l] = Between(l), l <= n,
         ScansAll(f, buf, n), BeginsWith(buf, n, l, m)
  PROVE  /\ \A k \in 0..10 : l + k <= n => f[l + k].end = 0
         /\ l + 11 <= n => f[l + 11].end = l + 11
<1> DEFINE G(k) == f[l + k]
           D(k) == Bytes(m)[k]
<1>0. \A k \in 0..10 : l + (k + 1) <= n => l + k <= n /\ G(k + 1) = Scan(G(k), D(k + 1))
  <2> SUFFICES ASSUME NEW k \in 0..10, l + (k + 1) <= n
               PROVE  l + k <= n /\ G(k + 1) = Scan(G(k), D(k + 1))
    OBVIOUS
  <2>1. PICK j \in 1..11 : j = k + 1
    OBVIOUS
  <2>2. l + j \in 1..n /\ (l + j) - 1 = l + k /\ l + k <= n
    BY <2>1
  <2>3. f[l + j] = Scan(f[(l + j) - 1], buf[l + j])
    BY <2>2 DEF ScansAll
  <2>4. j \in 1..Size(m) /\ l + j <= n
    BY <2>1 DEF Size
  <2>5. buf[l + j] = Bytes(m)[j]
    BY <2>4 DEF BeginsWith
  <2> QED
    BY <2>1, <2>2, <2>3, <2>5
<1> HIDE DEF G, D
<1>1. l + 1 <= n => G(1) = Within(l, 1, "outside")
  <2>1. G(0) = Between(l)
    BY DEF G
  <2>2. l + 1 <= n => G(1) = Scan(G(0), D(1))
    <3>1. PICK j \in 0..10 : j = 0 /\ j + 1 = 1
      OBVIOUS
    <3> QED
      BY <1>0, <3>1
  <2>3. D(1) = B("open")
    BY BytesOfNotification DEF D
  <2> QED
    BY <2>1, <2>2, <2>3, ScanOpens
<1>2. l + 2 <= n => G(2) = Within(l, 2, "inside")
  <2>1. l + 2 <= n => l + 1 <= n /\ G(2) = Scan(G(1), D(2))
    <3>1. PICK j \in 0..10 : j = 1 /\ j + 1 = 2
      OBVIOUS
    <3> QED
      BY <1>0, <3>1
  <2>2. D(2) = B("quote")
    BY BytesOfNotification DEF D
  <2>3. PICK j \in 1..10 : j = 1 /\ j + 1 = 2
    OBVIOUS
  <2>4. Scan(Within(l, j, "outside"), B("quote")) = Within(l, j + 1, "inside")
    BY ScanWithin
  <2> QED
    BY <1>1, <2>1, <2>2, <2>3, <2>4
<1>3. l + 3 <= n => G(3) = Within(l, 3, "inside")
  <2>1. l + 3 <= n => l + 2 <= n /\ G(3) = Scan(G(2), D(3))
    <3>1. PICK j \in 0..10 : j = 2 /\ j + 1 = 3
      OBVIOUS
    <3> QED
      BY <1>0, <3>1
  <2>2. D(3) = B("open")
    BY BytesOfNotification DEF D
  <2>3. PICK j \in 1..10 : j = 2 /\ j + 1 = 3
    OBVIOUS
  <2>4. Scan(Within(l, j, "inside"), B("open")) = Within(l, j + 1, "inside")
    BY ScanWithin
  <2> QED
    BY <1>2, <2>1, <2>2, <2>3, <2>4
<1>4. l + 4 <= n => G(4) = Within(l, 4, "escaped")
  <2>1. l + 4 <= n => l + 3 <= n /\ G(4) = Scan(G(3), D(4))
    <3>1. PICK j \in 0..10 : j = 3 /\ j + 1 = 4
      OBVIOUS
    <3> QED
      BY <1>0, <3>1
  <2>2. D(4) = B("escape")
    BY BytesOfNotification DEF D
  <2>3. PICK j \in 1..10 : j = 3 /\ j + 1 = 4
    OBVIOUS
  <2>4. Scan(Within(l, j, "inside"), B("escape")) = Within(l, j + 1, "escaped")
    BY ScanWithin
  <2> QED
    BY <1>3, <2>1, <2>2, <2>3, <2>4
<1>5. l + 5 <= n => G(5) = Within(l, 5, "inside")
  <2>1. l + 5 <= n => l + 4 <= n /\ G(5) = Scan(G(4), D(5))
    <3>1. PICK j \in 0..10 : j = 4 /\ j + 1 = 5
      OBVIOUS
    <3> QED
      BY <1>0, <3>1
  <2>2. D(5) = B("quote")
    BY BytesOfNotification DEF D
  <2>3. PICK j \in 1..10 : j = 4 /\ j + 1 = 5
    OBVIOUS
  <2>4. Scan(Within(l, j, "escaped"), B("quote")) = Within(l, j + 1, "inside")
    BY ScanWithin
  <2> QED
    BY <1>4, <2>1, <2>2, <2>3, <2>4
<1>6. l + 6 <= n => G(6) = Within(l, 6, "inside")
  <2>1. l + 6 <= n => l + 5 <= n /\ G(6) = Scan(G(5), D(6))
    <3>1. PICK j \in 0..10 : j = 5 /\ j + 1 = 6
      OBVIOUS
    <3> QED
      BY <1>0, <3>1
  <2>2. D(6) = Byte("other", m)
    BY BytesOfNotification DEF D
  <2>3. PICK j \in 1..10 : j = 5 /\ j + 1 = 6
    OBVIOUS
  <2>4. Scan(Within(l, j, "inside"), Byte("other", m)) = Within(l, j + 1, "inside")
    BY ScanWithin
  <2> QED
    BY <1>5, <2>1, <2>2, <2>3, <2>4
<1>7. l + 7 <= n => G(7) = Within(l, 7, "escaped")
  <2>1. l + 7 <= n => l + 6 <= n /\ G(7) = Scan(G(6), D(7))
    <3>1. PICK j \in 0..10 : j = 6 /\ j + 1 = 7
      OBVIOUS
    <3> QED
      BY <1>0, <3>1
  <2>2. D(7) = B("escape")
    BY BytesOfNotification DEF D
  <2>3. PICK j \in 1..10 : j = 6 /\ j + 1 = 7
    OBVIOUS
  <2>4. Scan(Within(l, j, "inside"), B("escape")) = Within(l, j + 1, "escaped")
    BY ScanWithin
  <2> QED
    BY <1>6, <2>1, <2>2, <2>3, <2>4
<1>8. l + 8 <= n => G(8) = Within(l, 8, "inside")
  <2>1. l + 8 <= n => l + 7 <= n /\ G(8) = Scan(G(7), D(8))
    <3>1. PICK j \in 0..10 : j = 7 /\ j + 1 = 8
      OBVIOUS
    <3> QED
      BY <1>0, <3>1
  <2>2. D(8) = B("quote")
    BY BytesOfNotification DEF D
  <2>3. PICK j \in 1..10 : j = 7 /\ j + 1 = 8
    OBVIOUS
  <2>4. Scan(Within(l, j, "escaped"), B("quote")) = Within(l, j + 1, "inside")
    BY ScanWithin
  <2> QED
    BY <1>7, <2>1, <2>2, <2>3, <2>4
<1>9. l + 9 <= n => G(9) = Within(l, 9, "inside")
  <2>1. l + 9 <= n => l + 8 <= n /\ G(9) = Scan(G(8), D(9))
    <3>1. PICK j \in 0..10 : j = 8 /\ j + 1 = 9
      OBVIOUS
    <3> QED
      BY <1>0, <3>1
  <2>2. D(9) = B("close")
    BY BytesOfNotification DEF D
  <2>3. PICK j \in 1..10 : j = 8 /\ j + 1 = 9
    OBVIOUS
  <2>4. Scan(Within(l, j, "inside"), B("close")) = Within(l, j + 1, "inside")
    BY ScanWithin
  <2> QED
    BY <1>8, <2>1, <2>2, <2>3, <2>4
<1>10. l + 10 <= n => G(10) = Within(l, 10, "outside")
  <2>1. l + 10 <= n => l + 9 <= n /\ G(10) = Scan(G(9), D(10))
    <3>1. PICK j \in 0..10 : j = 9 /\ j + 1 = 10
      OBVIOUS
    <3> QED
      BY <1>0, <3>1
  <2>2. D(10) = B("quote")
    BY BytesOfNotification DEF D
  <2>3. PICK j \in 1..10 : j = 9 /\ j + 1 = 10
    OBVIOUS
  <2>4. Scan(Within(l, j, "inside"), B("quote")) = Within(l, j + 1, "outside")
    BY ScanWithin
  <2> QED
    BY <1>9, <2>1, <2>2, <2>3, <2>4
<1>11. l + 11 <= n => G(11).end = l + 11
  <2>1. l + 11 <= n => l + 10 <= n /\ G(11) = Scan(G(10), D(11))
    <3>1. PICK j \in 0..10 : j = 10 /\ j + 1 = 11
      OBVIOUS
    <3> QED
      BY <1>0, <3>1
  <2>2. D(11) = B("close")
    BY BytesOfNotification DEF D
  <2>3. PICK j \in 2..10 : j = 10 /\ j + 1 = 11
    OBVIOUS
  <2>4. Scan(Within(l, j, "outside"), B("close")).end = l + (j + 1)
    BY ScanCloses
  <2> QED
    BY <1>10, <2>1, <2>2, <2>3, <2>4
<1>12. \A k \in 0..10 : l + k <= n => G(k).end = 0
  <2> SUFFICES ASSUME NEW k \in 0..10, l + k <= n PROVE G(k).end = 0
    OBVIOUS
  <2>1. \A s : Within(l, k, s).end = 0
    BY DEF Within
  <2>2. k = 0 \/ k = 1 \/ k = 2 \/ k = 3 \/ k = 4 \/ k = 5 \/ k = 6 \/ k = 7 \/ k = 8 \/ k = 9 \/ k = 10
    OBVIOUS
  <2>3. G(0).end = 0
    BY DEF G, Between
  <2> QED
    BY <1>1, <1>2, <1>3, <1>4, <1>5, <1>6, <1>7, <1>8, <1>9, <1>10, <2>1, <2>2, <2>3
<1> QED
  BY <1>11, <1>12 DEF G

\* the codec after each byte of an answer
LEMMA ScanOfAnswer ==
  ASSUME NEW m \in Msg, ~IsNotification(m), NEW l \in 0..1, NEW n \in Nat, NEW f, NEW buf,
         f[l] = Between(l), l <= n,
         ScansAll(f, buf, n), BeginsWith(buf, n, l, m)
  PROVE  /\ \A k \in 0..2 : l + k <= n => f[l + k].end = 0
         /\ l + 3 <= n => f[l + 3].end = l + 3
<1> DEFINE G(k) == f[l + k]
           D(k) == Bytes(m)[k]
<1>0. \A k \in 0..2 : l + (k + 1) <= n => l + k <= n /\ G(k + 1) = Scan(G(k), D(k + 1))
  <2> SUFFICES ASSUME NEW k \in 0..2, l + (k + 1) <= n
               PROVE  l + k <= n /\ G(k + 1) = Scan(G(k), D(k + 1))
    OBVIOUS
  <2>1. PICK j \in 1..3 : j = k + 1
    OBVIOUS
  <2>2. l + j \in 1..n /\ (l + j) - 1 = l + k /\ l + k <= n
    BY <2>1
  <2>3. f[l + j] = Scan(f[(l + j) - 1], buf[l + j])
    BY <2>2 DEF ScansAll
  <2>4. j \in 1..Size(m) /\ l + j <= n
    BY <2>1 DEF Size
  <2>5. buf[l + j] = Bytes(m)[j]
    BY <2>4 DEF BeginsWith
  <2> QED
    BY <2>1, <2>2, <2>3, <2>5
<1> HIDE DEF G, D
<1>1. l + 1 <= n => G(1) = Within(l, 1, "outside")
  <2>1. G(0) = Between(l)
    BY DEF G
  <2>2. l + 1 <= n => G(1) = Scan(G(0), D(1))
    <3>1. PICK j \in 0..2 : j = 0 /\ j + 1 = 1
      OBVIOUS
    <3> QED
      BY <1>0, <3>1
  <2>3. D(1) = B("open")
    BY BytesOfAnswer DEF D
  <2> QED
    BY <2>1, <2>2, <2>3, ScanOpens
<1>2. l + 2 <= n => G(2) = Within(l, 2, "outside")
  <2>1. l + 2 <= n => l + 1 <= n /\ G(2) = Scan(G(1), D(2))
    <3>1. PICK j \in 0..2 : j = 1 /\ j + 1 = 2
      OBVIOUS
    <3> QED
      BY <1>0, <3>1
  <2>2. D(2) = Byte("other", m)
    BY BytesOfAnswer DEF D
  <2>3. PICK j \in 1..10 : j = 1 /\ j + 1 = 2
    OBVIOUS
  <2>4. Scan(Within(l, j, "outside"), Byte("other", m)) = Within(l, j + 1, "outside")
    BY ScanWithin
  <2> QED
    BY <1>1, <2>1, <2>2, <2>3, <2>4
<1>3. l + 3 <= n => G(3).end = l + 3
  <2>1. l + 3 <= n => l + 2 <= n /\ G(3) = Scan(G(2), D(3))
    <3>1. PICK j \in 0..2 : j = 2 /\ j + 1 = 3
      OBVIOUS
    <3> QED
      BY <1>0, <3>1
  <2>2. D(3) = B("close")
    BY BytesOfAnswer DEF D
  <2>3. PICK j \in 2..10 : j = 2 /\ j + 1 = 3
    OBVIOUS
  <2>4. Scan(Within(l, j, "outside"), B("close")).end = l + (j + 1)
    BY ScanCloses
  <2> QED
    BY <1>2, <2>1, <2>2, <2>3, <2>4
<1>4. \A k \in 0..2 : l + k <= n => G(k).end = 0
  <2> SUFFICES ASSUME NEW k \in 0..2, l + k <= n PROVE G(k).end = 0
    OBVIOUS
  <2>1. \A s : Within(l, k, s).end = 0
    BY DEF Within
  <2>2. k = 0 \/ k = 1 \/ k = 2
    OBVIOUS
  <2>3. G(0).end = 0
    BY DEF G, Between
  <2> QED
    BY <1>1, <1>2, <2>1, <2>2, <2>3
<1> QED
  BY <1>3, <1>4 DEF G

\* The codec finds a message, behind the space of the message before, as soon as all
\* of it is there
LEMMA DecodesMessage ==
  ASSUME NEW m \in Msg, NEW l \in 0..1, NEW buf, NEW n \in Nat, n = Len(buf),
         l = 1 /\ n >= 1 => buf[1] = B("space"),
         BeginsWith(buf, n, l, m)
  PROVE  decode(buf) = IF l + Size(m) <= n THEN l + Size(m) ELSE 0
<1>1. PICK f : /\ f[0] = Scanned /\ ScansAll(f, buf, n)
               /\ decode(buf) = f[n].end
  BY DecodeIsLast DEF ScansAll
<1>2. PICK z \in 1..11 : z = Size(m) /\ z \in {3, 11} /\ z - 1 \in Nat
  BY BytesFacts
<1>3. CASE n < l
  <2>1. n = 0 /\ ~(l + z <= n)
    BY <1>3
  <2>2. Scanned.end = 0
    BY DEF Scanned
  <2> QED
    BY <1>1, <1>2, <2>1, <2>2
<1>4. CASE l <= n
  <2>1. f[l] = Between(l)
    <3>1. CASE l = 0
      BY <1>1, <3>1, ScanSpace
    <3>2. CASE l = 1
      <4>1. 1 \in 1..n /\ n >= 1 /\ 1 - 1 = 0
        BY <1>4, <3>2
      <4>2. f[1] = Scan(f[0], buf[1])
        BY <1>1, <4>1 DEF ScansAll
      <4> QED
        BY <1>1, <3>2, <4>1, <4>2, ScanSpace
    <3> QED
      BY <3>1, <3>2
  <2>2. /\ \A k \in 0..(z - 1) : l + k <= n => f[l + k].end = 0
        /\ l + z <= n => f[l + z].end = l + z
    <3>1. CASE IsNotification(m)
      <4>1. z = 11 /\ z - 1 = 10
        BY <1>2, <3>1 DEF Size
      <4>2. /\ \A k \in 0..10 : l + k <= n => f[l + k].end = 0
            /\ l + 11 <= n => f[l + 11].end = l + 11
        BY <1>1, <1>4, <2>1, <3>1, ScanOfNotification
      <4> QED
        BY <4>1, <4>2
    <3>2. CASE ~IsNotification(m)
      <4>1. z = 3 /\ z - 1 = 2
        BY <1>2, <3>2 DEF Size
      <4>2. /\ \A k \in 0..2 : l + k <= n => f[l + k].end = 0
            /\ l + 3 <= n => f[l + 3].end = l + 3
        BY <1>1, <1>4, <2>1, <3>2, ScanOfAnswer
      <4> QED
        BY <4>1, <4>2
    <3> QED
      BY <3>1, <3>2
  <2>3. CASE l + z <= n
    <3>1. PICK e \in 1..n : e = l + z
      BY <2>3
    <3>2. f[e].end = e
      BY <2>2, <2>3, <3>1
    <3>3. f[n].end = e
      BY <1>1, <3>2, EndStays
    <3> QED
      BY <1>1, <1>2, <2>3, <3>1, <3>3
  <2>4. CASE ~(l + z <= n)
    <3>1. PICK k \in 0..(z - 1) : n = l + k
      <4>1. n - l \in 0..(z - 1) /\ n = l + (n - l)
        BY <1>2, <1>4, <2>4
      <4> QED
        BY <4>1
    <3>2. f[n].end = 0
      BY <2>2, <3>1
    <3> QED
      BY <1>1, <1>2, <2>4, <3>2
  <2> QED
    BY <2>3, <2>4
<1> QED
  BY <1>3, <1>4

\* and no message in a space
LEMMA DecodesNone ==
  ASSUME NEW buf, NEW n \in 0..1, n = Len(buf), n = 1 => buf[1] = B("space")
  PROVE  decode(buf) = 0
<1>1. PICK f : /\ f[0] = Scanned /\ ScansAll(f, buf, n)
               /\ decode(buf) = f[n].end
  BY DecodeIsLast DEF ScansAll
<1>2. CASE n = 0
  BY <1>1, <1>2 DEF Scanned
<1>3. CASE n = 1
  <2>1. f[1] = Scan(f[0], buf[1])
    <3>1. 1 \in 1..n /\ 1 - 1 = 0
      BY <1>3
    <3> QED
      BY <1>1, <3>1 DEF ScansAll
  <2>2. Between(1).end = 0
    BY DEF Between
  <2> QED
    BY <1>1, <1>3, <2>1, <2>2, ScanSpace
<1> QED
  BY <1>2, <1>3

\* four sequences
FourJoin(a, b, c, d) == a \o ((b \o c) \o d) = (a \o b) \o (c \o d)
LEMMA ConcatFour ==
  ASSUME NEW a \in Seq(ByteSet), NEW b \in Seq(ByteSet), NEW c \in Seq(ByteSet), NEW d \in Seq(ByteSet)
  PROVE  FourJoin(a, b, c, d)
<1>1. Associates(b, c, d)
  BY ConcatsAssociate
<1>2. PICK x \in Seq(ByteSet) : x = c \o d
  BY ConcatProperties
<1>3. Associates(a, b, x)
  BY ConcatsAssociate
<1> QED
  BY <1>1, <1>2, <1>3 DEF FourJoin, Associates

\* one sequence cut in two ways
SameJoin(s, t, u, v) == s \o t = u \o v
Agree(s, u) == \A k \in DOMAIN s : k \in DOMAIN u => s[k] = u[k]
CutAt(s, t, u, v) ==
  /\ SubSeq(s, 1, Len(u)) = u
  /\ SubSeq(s, Len(u) + 1, Len(s)) \o t = v
  /\ SubSeq(s, Len(u) + 1, Len(s)) \in Seq(ByteSet)
LEMMA CutTwice ==
  ASSUME NEW s \in Seq(ByteSet), NEW t \in Seq(ByteSet), NEW u \in Seq(ByteSet), NEW v \in Seq(ByteSet),
         SameJoin(s, t, u, v)
  PROVE  Agree(s, u) /\ (Len(u) <= Len(s) => CutAt(s, t, u, v))
<1>1. PICK a \in Nat, b \in Nat, c \in Nat, d \in Nat :
        /\ a = Len(s) /\ DOMAIN s = 1..a /\ b = Len(t) /\ DOMAIN t = 1..b
        /\ c = Len(u) /\ DOMAIN u = 1..c /\ d = Len(v) /\ DOMAIN v = 1..d
  OBVIOUS
<1> DEFINE w == s \o t
           x == u \o v
<1>2. w \in Seq(ByteSet) /\ Len(w) = a + b /\ \A k \in 1..(a + b) : w[k] = IF k <= a THEN s[k] ELSE t[k - a]
  BY <1>1, ConcatProperties
<1>3. x \in Seq(ByteSet) /\ Len(x) = c + d /\ \A k \in 1..(c + d) : x[k] = IF k <= c THEN u[k] ELSE v[k - c]
  BY <1>1, ConcatProperties
<1>4. w = x
  BY DEF SameJoin
<1> HIDE DEF w, x
<1>5. a + b = c + d
  BY <1>2, <1>3, <1>4
<1>6. ASSUME NEW k \in 1..a, k \in 1..c
      PROVE  s[k] = u[k]
  <2>1. k \in 1..(a + b) /\ k \in 1..(c + d) /\ k <= a /\ k <= c
    BY <1>6
  <2>2. w[k] = s[k] /\ x[k] = u[k]
    BY <1>2, <1>3, <2>1
  <2> QED
    BY <1>4, <2>2
<1>7. ASSUME c <= a
      PROVE  SubSeq(s, 1, c) = u /\ SubSeq(s, c + 1, a) \o t = v /\ SubSeq(s, c + 1, a) \in Seq(ByteSet)
  <2> DEFINE head == SubSeq(s, 1, c)
             tail == SubSeq(s, c + 1, a)
             r == tail \o t
  <2>1. head \in Seq(ByteSet) /\ Len(head) = c /\ \A k \in 1..c : head[k] = s[k]
    <3>1. \A k \in 1..c : k \in 1..a
      BY <1>7
    <3>2. \A k \in 1..c : s[k] \in ByteSet
      BY <1>1, <3>1
    <3>3. head \in Seq(ByteSet) /\ Len(head) = (IF 1 <= c THEN c - 1 + 1 ELSE 0)
          /\ \A k \in 1..(c - 1 + 1) : head[k] = s[1 + k - 1]
      BY <3>2, SubSeqProperties
    <3>4. c - 1 + 1 = c /\ (~(1 <= c) => c = 0) /\ \A k \in 1..c : 1 + k - 1 = k
      OBVIOUS
    <3> HIDE DEF head
    <3> QED
      BY <3>3, <3>4
  <2>2. tail \in Seq(ByteSet) /\ Len(tail) = a - c /\ \A k \in 1..(a - c) : tail[k] = s[c + k]
    <3>1. \A k \in (c + 1)..a : k \in 1..a
      OBVIOUS
    <3>2. \A k \in (c + 1)..a : s[k] \in ByteSet
      BY <1>1, <3>1
    <3>3. tail \in Seq(ByteSet) /\ Len(tail) = (IF c + 1 <= a THEN a - (c + 1) + 1 ELSE 0)
          /\ \A k \in 1..(a - (c + 1) + 1) : tail[k] = s[(c + 1) + k - 1]
      <4>1. PICK first \in Int, last \in Int : first = c + 1 /\ last = a
        OBVIOUS
      <4>2. \A k \in first..last : s[k] \in ByteSet
        BY <3>2, <4>1
      <4>3. /\ SubSeq(s, first, last) \in Seq(ByteSet)
            /\ Len(SubSeq(s, first, last)) = (IF first <= last THEN last - first + 1 ELSE 0)
            /\ \A k \in 1..(last - first + 1) : SubSeq(s, first, last)[k] = s[first + k - 1]
        BY <4>2, SubSeqProperties
      <4> QED
        BY <4>1, <4>3
    <3>4. a - (c + 1) + 1 = a - c /\ (~(c + 1 <= a) => a - c = 0) /\ \A k \in 1..(a - c) : (c + 1) + k - 1 = c + k
      BY <1>7
    <3> HIDE DEF tail
    <3> QED
      BY <3>3, <3>4
  <2>3. head = u
    <3> HIDE DEF head
    <3>1. \A k \in 1..c : head[k] = u[k]
      <4>1. \A k \in 1..c : k \in 1..a
        BY <1>7
      <4> QED
        BY <1>6, <2>1, <4>1
    <3>2. head \in [1..c -> ByteSet] /\ u \in [1..c -> ByteSet]
      BY <1>1, <2>1, LenProperties
    <3> QED
      BY <3>1, <3>2
  <2>4. PICK e \in Nat : e = a - c
    BY <1>7
  <2> HIDE DEF tail
  <2>5. r \in Seq(ByteSet) /\ Len(r) = e + b /\ \A k \in 1..(e + b) : r[k] = IF k <= e THEN tail[k] ELSE t[k - e]
    <3>1. Len(tail) = e /\ Len(t) = b /\ tail \in Seq(ByteSet)
      BY <1>1, <2>2, <2>4
    <3> QED
      BY <3>1, ConcatProperties
  <2>6. e + b = d
    BY <1>5, <2>4
  <2> HIDE DEF r
  <2>7. \A k \in 1..d : r[k] = v[k]
    <3> SUFFICES ASSUME NEW k \in 1..d PROVE r[k] = v[k]
      OBVIOUS
    <3>1. c + k \in 1..(a + b) /\ c + k \in 1..(c + d) /\ ~(c + k <= c) /\ c + k - c = k
      BY <1>5
    <3>2. x[c + k] = v[k]
      BY <1>3, <3>1
    <3>3. CASE k <= e
      <4>1. c + k <= a /\ k \in 1..(a - c)
        BY <2>4, <3>3
      <4>2. w[c + k] = s[c + k] /\ r[k] = tail[k] /\ tail[k] = s[c + k]
        BY <1>2, <2>2, <2>5, <2>6, <3>1, <3>3, <4>1
      <4> QED
        BY <1>4, <3>2, <4>2
    <3>4. CASE ~(k <= e)
      <4>1. ~(c + k <= a) /\ c + k - a = k - e
        BY <2>4, <3>4
      <4>2. w[c + k] = t[c + k - a]
        BY <1>2, <3>1, <4>1
      <4>3. r[k] = t[k - e]
        BY <2>5, <2>6, <3>4
      <4> QED
        BY <1>4, <3>2, <4>1, <4>2, <4>3
    <3> QED
      BY <3>3, <3>4
  <2>8. r = v
    <3>1. r \in [1..d -> ByteSet] /\ v \in [1..d -> ByteSet]
      BY <1>1, <2>5, <2>6, LenProperties
    <3> QED
      BY <2>7, <3>1
  <2> QED
    BY <2>2, <2>3, <2>8 DEF r, head, tail
<1>8. Agree(s, u)
  BY <1>1, <1>6 DEF Agree
<1> QED
  BY <1>1, <1>7, <1>8 DEF CutAt

\* a message without the space after it
Body(m) == [k \in 1..Size(m) |-> Bytes(m)[k]]

\* a message is its body and the space
LEMMA BodyFacts ==
  ASSUME NEW m \in Msg
  PROVE  /\ Body(m) \in Seq(ByteSet) /\ Len(Body(m)) = Size(m)
         /\ Bytes(m) = Body(m) \o <<B("space")>>
<1>1. PICK z \in Nat : z = Size(m) /\ Bytes(m) \in [1..(z + 1) -> ByteSet] /\ Bytes(m)[z + 1] = B("space")
  BY BytesFacts
<1>2. \A k \in 1..z : k \in 1..(z + 1)
  OBVIOUS
<1>3. Body(m) \in [1..z -> ByteSet] /\ \A k \in 1..z : Body(m)[k] = Bytes(m)[k]
  BY <1>1, <1>2 DEF Body
<1>4. Body(m) \in Seq(ByteSet) /\ Len(Body(m)) = z
  BY <1>3, FunctionIsSeq
<1> DEFINE s == <<B("space")>>
           r == Body(m) \o s
<1>5. s \in Seq(ByteSet) /\ Len(s) = 1 /\ s[1] = B("space")
  BY ByteFacts DEF Classes
<1> HIDE DEF s
<1>6. r \in Seq(ByteSet) /\ Len(r) = z + 1 /\ \A k \in 1..(z + 1) : r[k] = IF k <= z THEN Body(m)[k] ELSE s[k - z]
  <2>1. PICK x \in Seq(ByteSet) : x = Body(m)
    BY <1>4
  <2>2. x \o s \in Seq(ByteSet) /\ Len(x \o s) = Len(x) + Len(s)
        /\ \A k \in 1..(Len(x) + Len(s)) : (x \o s)[k] = IF k <= Len(x) THEN x[k] ELSE s[k - Len(x)]
    BY <1>5, ConcatProperties
  <2> QED
    BY <1>4, <1>5, <2>1, <2>2
<1> HIDE DEF r
<1>7. \A k \in 1..(z + 1) : r[k] = Bytes(m)[k]
  <2> SUFFICES ASSUME NEW k \in 1..(z + 1) PROVE r[k] = Bytes(m)[k]
    OBVIOUS
  <2>1. CASE k <= z
    <3>1. k \in 1..z
      BY <2>1
    <3> QED
      BY <1>3, <1>6, <2>1, <3>1
  <2>2. CASE ~(k <= z)
    <3>1. k = z + 1 /\ k - z = 1
      BY <2>2
    <3> QED
      BY <1>1, <1>5, <1>6, <2>2, <3>1
  <2> QED
    BY <2>1, <2>2
<1>8. r \in [1..(z + 1) -> ByteSet]
  BY <1>6, LenProperties
<1>9. r = Bytes(m)
  BY <1>1, <1>7, <1>8
<1> QED
  BY <1>1, <1>4, <1>9 DEF r, s

\* a frame, which may begin with a space, carries its message
LEMMA FrameFacts ==
  ASSUME NEW m \in Msg, NEW lead \in Lead
  PROVE  /\ \E l \in 0..1 :
              /\ l = Len(lead) /\ (l = 1 => (lead \o Body(m))[1] = B("space"))
              /\ Len(lead \o Body(m)) = l + Size(m)
              /\ \A k \in 1..Size(m) : (lead \o Body(m))[l + k] = Bytes(m)[k]
         /\ lead \o Body(m) \in Seq(ByteSet)
         /\ Message(lead \o Body(m)) = m
<1>1. PICK z \in Nat : z = Size(m) /\ Place(m) \in 1..z
  BY BytesFacts
<1>2. Body(m) \in Seq(ByteSet) /\ Len(Body(m)) = z /\ \A k \in 1..z : Body(m)[k] = Bytes(m)[k]
  BY <1>1, BodyFacts DEF Body
<1>3. PICK l \in 0..1 : l = Len(lead) /\ \A k \in 1..l : lead[k] = B("space")
  <2>1. CASE lead = <<>>
    <3>1. 0 \in 0..1 /\ 0 = Len(lead) /\ 1..0 = {}
      BY <2>1
    <3> QED
      BY <3>1
  <2>2. CASE lead = <<B("space")>>
    <3>1. 1 \in 0..1 /\ 1 = Len(lead) /\ lead[1] = B("space") /\ \A k \in 1..1 : k = 1
      BY <2>2
    <3> QED
      BY <3>1
  <2> QED
    BY <2>1, <2>2 DEF Lead
<1> DEFINE u == lead \o Body(m)
<1>4. u \in Seq(ByteSet) /\ Len(u) = l + z /\ \A k \in 1..(l + z) : u[k] = IF k <= l THEN lead[k] ELSE Body(m)[k - l]
  <2>1. lead \in Seq(ByteSet)
    BY InFlightOfLead
  <2> QED
    BY <1>2, <1>3, <2>1, ConcatProperties
<1> HIDE DEF u
<1>5. \A k \in 1..z : u[l + k] = Bytes(m)[k]
  <2> SUFFICES ASSUME NEW k \in 1..z PROVE u[l + k] = Bytes(m)[k]
    OBVIOUS
  <2>1. PICK j \in 1..(l + z) : j = l + k /\ ~(j <= l) /\ j - l = k
    OBVIOUS
  <2>2. u[j] = Body(m)[j - l]
    BY <1>4, <2>1
  <2> QED
    BY <1>2, <2>1, <2>2
<1>6. l = 1 => u[1] = B("space")
  <2> SUFFICES ASSUME l = 1 PROVE u[1] = B("space")
    OBVIOUS
  <2>1. 1 \in 1..(l + z) /\ 1 <= l /\ 1 \in 1..l
    OBVIOUS
  <2> QED
    BY <1>3, <1>4, <2>1
<1>7. Message(u) = m
  <2> DEFINE p == l + Place(m)
  <2>1. p \in 1..(l + z) /\ DOMAIN u = 1..(l + z)
    BY <1>1, <1>4
  <2>2. u[p] = Byte("other", m)
    BY <1>1, <1>5, BytesFacts
  <2>3. \A k \in 1..(l + z) : u[k].class = "other" => k = p
    <3> SUFFICES ASSUME NEW k \in 1..(l + z), k # p PROVE u[k].class # "other"
      OBVIOUS
    <3>1. CASE k <= l
      <4>1. k \in 1..l
        BY <3>1
      <4> QED
        BY <1>3, <1>4, <3>1, <4>1, ByteFacts DEF Classes
    <3>2. CASE ~(k <= l)
      <4>1. PICK j \in 1..z : k = l + j
        <5>1. k - l \in 1..z /\ k = l + (k - l)
          BY <3>2
        <5> QED
          BY <5>1
      <4>2. j # Place(m)
        BY <4>1
      <4>3. j \in 1..(Size(m) + 1)
        BY <1>1
      <4>4. Bytes(m)[j].class # "other"
        BY <4>2, <4>3, BytesFacts
      <4> QED
        BY <1>5, <4>1, <4>4
    <3> QED
      BY <3>1, <3>2
  <2>4. Byte("other", m).class = "other" /\ Byte("other", m).value = m
    BY ByteFacts
  <2> HIDE DEF p
  <2>5. (CHOOSE k \in DOMAIN u : u[k].class = "other") = p
    BY <2>1, <2>2, <2>3, <2>4
  <2> QED
    BY <2>2, <2>4, <2>5 DEF Message
<1> QED
  BY <1>1, <1>3, <1>4, <1>5, <1>6, <1>7 DEF u

\* the bytes that have arrived and those that are under way are the messages q
Carries(buf, rest, lead, q) == buf \o rest = lead \o Wire(q)

\* The codec takes the first message of the stream, whole, and leaves the space after it
LEMMA TakesTheFirst ==
  ASSUME NEW buf \in Seq(ByteSet), NEW rest \in Seq(ByteSet), NEW lead \in Lead, NEW q \in Seq(Msg),
         Carries(buf, rest, lead, q), decode(buf) # 0
  PROVE  /\ q # <<>>
         /\ Message(SubSeq(buf, 1, decode(buf))) = Head(q)
         /\ SubSeq(buf, 1, decode(buf)) \in Seq(ByteSet)
         /\ Carries(SubSeq(buf, decode(buf) + 1, Len(buf)), rest, <<B("space")>>, Tail(q))
         /\ SubSeq(buf, decode(buf) + 1, Len(buf)) \in Seq(ByteSet)
<1>1. PICK n \in Nat : n = Len(buf) /\ DOMAIN buf = 1..n
  OBVIOUS
<1>2. lead \in Seq(ByteSet) /\ Wire(q) \in Seq(ByteSet)
  BY InFlightOfLead, EachBytesFacts
<1>3. q # <<>>
  <2> SUFFICES ASSUME q = <<>> PROVE FALSE
    OBVIOUS
  <2>1. buf \o rest = lead \o <<>>
    BY WireNone DEF Carries
  <2>2. lead \o <<>> = lead
    BY <1>2, ConcatEmptySeq
  <2>3. PICK j \in Nat : j = Len(rest) /\ Len(buf \o rest) = n + j
    BY <1>1, ConcatProperties
  <2>4. n + j = Len(lead)
    BY <2>1, <2>2, <2>3
  <2>5. CASE lead = <<>>
    <3>1. n = 0
      BY <2>4, <2>5
    <3> QED
      BY <1>1, <3>1, DecodesNone
  <2>6. CASE lead = <<B("space")>>
    <3>1. n \in 0..1
      BY <2>4, <2>6
    <3>2. n = 1 => buf[1] = B("space")
      <4> SUFFICES ASSUME n = 1 PROVE buf[1] = B("space")
        OBVIOUS
      <4>1. 1 \in DOMAIN buf /\ 1 \in DOMAIN lead /\ lead[1] = B("space")
        <5>1. 1 \in DOMAIN <<B("space")>> /\ <<B("space")>>[1] = B("space")
          OBVIOUS
        <5>2. 1 \in 1..n
          BY <1>1
        <5> QED
          BY <1>1, <2>6, <5>1, <5>2
      <4>2. <<>> \in Seq(ByteSet)
        OBVIOUS
      <4>3. buf[1] = lead[1]
        <5>1. SameJoin(buf, rest, lead, <<>>)
          BY <2>1 DEF SameJoin
        <5>2. Agree(buf, lead)
          BY <1>2, <4>2, <5>1, CutTwice
        <5> QED
          BY <4>1, <5>2 DEF Agree
      <4> QED
        BY <4>1, <4>3
    <3> QED
      BY <1>1, <3>1, <3>2, DecodesNone
  <2> QED
    BY <2>5, <2>6 DEF Lead
<1> DEFINE m == Head(q)
           u == lead \o Body(m)
           v == <<B("space")>> \o Wire(Tail(q))
<1>4. m \in Msg /\ Tail(q) \in Seq(Msg) /\ q = <<m>> \o Tail(q)
  BY <1>3, HeadTailProperties
<1> HIDE DEF m
<1>5. PICK l \in 0..1 : /\ l = Len(lead) /\ (l = 1 => u[1] = B("space"))
                        /\ Len(u) = l + Size(m)
                        /\ \A k \in 1..Size(m) : u[l + k] = Bytes(m)[k]
  BY <1>4, FrameFacts
<1>6. u \in Seq(ByteSet) /\ Message(u) = m
  BY <1>4, FrameFacts
<1>7. v \in Seq(ByteSet) /\ lead \o Wire(q) = u \o v
  <2>1. PICK b \in Seq(ByteSet), s \in Seq(ByteSet), w \in Seq(ByteSet) :
          b = Body(m) /\ s = <<B("space")>> /\ w = Wire(Tail(q))
    <3>1. <<B("space")>> \in Seq(ByteSet)
      BY ByteFacts DEF Classes
    <3> QED
      BY <1>4, <3>1, BodyFacts, EachBytesFacts
  <2>2. Wire(q) = Bytes(m) \o w
    <3>1. <<m>> \in Seq(Msg)
      BY <1>4
    <3>2. Wire(<<m>> \o Tail(q)) = Wire(<<m>>) \o Wire(Tail(q))
      BY <1>4, <3>1, WireConcat
    <3> QED
      BY <1>4, <2>1, <3>2, WireOne
  <2>3. Bytes(m) = b \o s
    BY <1>4, <2>1, BodyFacts
  <2>4. lead \o ((b \o s) \o w) = (lead \o b) \o (s \o w)
    <3>1. FourJoin(lead, b, s, w)
      BY <1>2, ConcatFour
    <3> QED
      BY <3>1 DEF FourJoin
  <2>5. s \o w \in Seq(ByteSet)
    BY ConcatProperties
  <2> QED
    BY <2>1, <2>2, <2>3, <2>4, <2>5
<1> HIDE DEF u, v
<1>8. PICK c \in Nat : c = Len(u) /\ DOMAIN u = 1..c /\ c = l + Size(m)
  BY <1>5, <1>6
<1>9. buf \o rest = u \o v
  BY <1>7 DEF Carries
<1>10. \A k \in 1..n : k \in 1..c => buf[k] = u[k]
  <2>1. \A k \in DOMAIN buf : k \in DOMAIN u => buf[k] = u[k]
    <3>1. u \in Seq(ByteSet) /\ v \in Seq(ByteSet)
      BY <1>6, <1>7
    <3> QED
      <4>1. SameJoin(buf, rest, u, v)
        BY <1>9 DEF SameJoin
      <4> QED
        BY <3>1, <4>1, CutTwice DEF Agree
  <2> QED
    BY <1>1, <1>8, <2>1
<1>11. PICK z \in 1..11 : z = Size(m)
  BY <1>4, BytesFacts
<1>12. decode(buf) = IF c <= n THEN c ELSE 0
  <2>1. BeginsWith(buf, n, l, m)
    <3> SUFFICES ASSUME NEW k \in 1..z, l + k <= n PROVE buf[l + k] = Bytes(m)[k]
      BY <1>11 DEF BeginsWith
    <3>1. PICK j \in 1..n : j = l + k /\ j \in 1..c
      BY <1>8, <1>11
    <3>2. buf[j] = u[j]
      BY <1>10, <3>1
    <3> QED
      BY <1>5, <1>11, <3>1, <3>2
  <2>2. l = 1 /\ n >= 1 => buf[1] = B("space")
    <3> SUFFICES ASSUME l = 1, n >= 1 PROVE buf[1] = B("space")
      OBVIOUS
    <3>1. 1 \in 1..n /\ 1 \in 1..c
      BY <1>8, <1>11
    <3> QED
      BY <1>5, <1>10, <3>1
  <2>3. decode(buf) = IF l + Size(m) <= n THEN l + Size(m) ELSE 0
    BY <1>1, <1>4, <2>1, <2>2, DecodesMessage
  <2> QED
    BY <1>8, <2>3
<1>13. c <= n /\ decode(buf) = c
  BY <1>12
<1>14. SubSeq(buf, 1, c) = u /\ SubSeq(buf, c + 1, n) \o rest = v /\ SubSeq(buf, c + 1, n) \in Seq(ByteSet)
  <2>1. u \in Seq(ByteSet) /\ v \in Seq(ByteSet)
    BY <1>6, <1>7
  <2>2. Len(u) <= Len(buf)
    BY <1>1, <1>8, <1>13
  <2>3. /\ SubSeq(buf, 1, Len(u)) = u /\ SubSeq(buf, Len(u) + 1, Len(buf)) \o rest = v
        /\ SubSeq(buf, Len(u) + 1, Len(buf)) \in Seq(ByteSet)
    <3>1. SameJoin(buf, rest, u, v)
      BY <1>9 DEF SameJoin
    <3>2. CutAt(buf, rest, u, v)
      BY <2>1, <2>2, <3>1, CutTwice
    <3> QED
      BY <3>2 DEF CutAt
  <2> QED
    BY <1>1, <1>8, <2>3
<1> QED
  BY <1>1, <1>3, <1>6, <1>13, <1>14 DEF v, m, Carries

----------------------------------------------------------------------------
(* The messages that the node has sent and the client has not seen *)

\* the notifications among them
Owed(q) == InFlight(Wire(q))
NotesOf(m) == IF IsNotification(m) THEN <<m>> ELSE <<>>

\* messages under way are the first one and the others
LEMMA MessageFirst ==
  ASSUME NEW q \in Seq(Msg), q # <<>>
  PROVE  /\ Head(q) \in Msg /\ Tail(q) \in Seq(Msg)
         /\ q = <<Head(q)>> \o Tail(q)
BY HeadTailProperties

\* what is owed grows with a notification, not with an answer
LEMMA OwedAppend ==
  ASSUME NEW q \in Seq(Msg), NEW m \in Msg
  PROVE  Owed(Append(q, m)) = Owed(q) \o NotesOf(m) /\ Owed(q) \in Seq(Msg)
<1>1. PICK r \in Seq(Msg) : r = <<m>>
  <2>1. <<m>> \in Seq(Msg)
    OBVIOUS
  <2> QED
    BY <2>1
<1>2. Append(q, m) = q \o r
  BY <1>1, AppendIsConcat
<1>3. Wire(q \o r) = Wire(q) \o Wire(r)
  BY WireConcat
<1>4. Wire(r) = Bytes(m)
  BY <1>1, WireOne
<1>5. Wire(q) \in Seq(ByteSet) /\ Bytes(m) \in Seq(ByteSet)
  BY EachBytesFacts, BytesFacts
<1>6. PICK w \in Seq(ByteSet), b \in Seq(ByteSet) : w = Wire(q) /\ b = Bytes(m)
  BY <1>5
<1>7. InFlight(w \o b) = InFlight(w) \o InFlight(b) /\ InFlight(w) \in Seq(Msg)
  BY InFlightConcat
<1>8. InFlight(b) = NotesOf(m)
  BY <1>6, InFlightOfBytes DEF NotesOf
<1> QED
  BY <1>2, <1>3, <1>4, <1>6, <1>7, <1>8 DEF Owed

\* what is owed shrinks with the first message
LEMMA OwedTail ==
  ASSUME NEW q \in Seq(Msg), q # <<>>
  PROVE  Owed(q) = NotesOf(Head(q)) \o Owed(Tail(q)) /\ Owed(Tail(q)) \in Seq(Msg)
<1>1. PICK m \in Msg, r \in Seq(Msg), t \in Seq(Msg) : m = Head(q) /\ r = <<m>> /\ t = Tail(q)
  <2>1. PICK m \in Msg : m = Head(q)
    BY MessageFirst
  <2>2. <<m>> \in Seq(Msg)
    OBVIOUS
  <2> QED
    BY <2>1, <2>2, MessageFirst
<1>2. q = r \o t
  BY <1>1, MessageFirst
<1>3. Wire(r \o t) = Wire(r) \o Wire(t)
  BY WireConcat
<1>4. Wire(r) = Bytes(m)
  BY <1>1, WireOne
<1>5. PICK w \in Seq(ByteSet), b \in Seq(ByteSet) : w = Wire(t) /\ b = Bytes(m)
  BY EachBytesFacts, BytesFacts
<1>6. InFlight(b \o w) = InFlight(b) \o InFlight(w) /\ InFlight(w) \in Seq(Msg)
  BY InFlightConcat
<1>7. InFlight(b) = NotesOf(m)
  BY <1>5, InFlightOfBytes DEF NotesOf
<1> QED
  BY <1>1, <1>2, <1>3, <1>4, <1>5, <1>6, <1>7 DEF Owed

\* they are the notifications of the stream
LEMMA OwedIsInFlight ==
  ASSUME NEW buf \in Seq(ByteSet), NEW rest \in Seq(ByteSet), NEW lead \in Lead, NEW q \in Seq(Msg),
         Carries(buf, rest, lead, q)
  PROVE  InFlight(buf \o rest) = Owed(q)
<1>1. PICK w \in Seq(ByteSet), l \in Seq(ByteSet) : w = Wire(q) /\ l = lead
  BY EachBytesFacts, InFlightOfLead
<1>2. InFlight(l \o w) = InFlight(l) \o InFlight(w) /\ InFlight(w) \in Seq(Msg)
  BY InFlightConcat
<1>3. InFlight(l) = <<>>
  BY <1>1, InFlightOfLead
<1>4. <<>> \o InFlight(w) = InFlight(w)
  BY <1>2, ConcatEmptySeq
<1> QED
  BY <1>1, <1>2, <1>3, <1>4 DEF Carries, Owed

\* the node sends one more
LEMMA CarriesOneMore ==
  ASSUME NEW buf \in Seq(ByteSet), NEW rest \in Seq(ByteSet), NEW lead \in Lead, NEW q \in Seq(Msg),
         NEW m \in Msg, Carries(buf, rest, lead, q)
  PROVE  Carries(buf, rest \o Bytes(m), lead, Append(q, m)) /\ rest \o Bytes(m) \in Seq(ByteSet)
<1>1. PICK r \in Seq(Msg), w \in Seq(ByteSet), b \in Seq(ByteSet), l \in Seq(ByteSet) :
        r = <<m>> /\ w = Wire(q) /\ b = Bytes(m) /\ l = lead
  <2>1. <<m>> \in Seq(Msg)
    OBVIOUS
  <2> QED
    BY <2>1, EachBytesFacts, BytesFacts, InFlightOfLead
<1>2. Append(q, m) = q \o r
  BY <1>1, AppendIsConcat
<1>3. Wire(q \o r) = Wire(q) \o Wire(r)
  BY WireConcat
<1>4. Wire(r) = b
  BY <1>1, WireOne
<1>5. (buf \o rest) \o b = buf \o (rest \o b)
  <2>1. Associates(buf, rest, b)
    BY ConcatsAssociate
  <2> QED
    BY <2>1 DEF Associates
<1>6. (l \o w) \o b = l \o (w \o b)
  <2>1. Associates(l, w, b)
    BY ConcatsAssociate
  <2> QED
    BY <2>1 DEF Associates
<1>7. buf \o rest = l \o w
  BY <1>1 DEF Carries
<1>8. rest \o b \in Seq(ByteSet)
  BY ConcatProperties
<1>9. buf \o (rest \o b) = l \o (w \o b)
  <2>1. PICK x : x = buf \o rest
    OBVIOUS
  <2> QED
    BY <1>5, <1>6, <1>7
<1> QED
  BY <1>1, <1>2, <1>3, <1>4, <1>8, <1>9 DEF Carries

\* at most one answer is under way
NotesOnly(q) == \A a \in 1..Len(q) : IsNotification(q[a])
OneAnswer(q) == \A a, b \in 1..Len(q) : ~IsNotification(q[a]) /\ ~IsNotification(q[b]) => a = b
\* of a subscription
Announces(q, i) == \E a \in 1..Len(q) : q[a] = Success(i)
\* of a subscription that ends with its announcement
Silent(q, i) ==
  \A a, b \in 1..Len(q) :
    q[a] = Success(i) /\ a < b => ~(IsNotification(q[b]) /\ q[b][2] = i)
\* a notification comes after the answer that tells of its subscription
KnownAhead(q, D) ==
  \A a \in 1..Len(q) :
    IsNotification(q[a]) => \/ q[a][2] \in D
                            \/ \E b \in 1..Len(q) : b < a /\ q[b] = Success(q[a][2])

\* one more message
LEMMA AppendFacts ==
  ASSUME NEW q \in Seq(Msg), NEW m \in Msg
  PROVE  \E r \in Seq(Msg), n \in Nat :
           /\ r = Append(q, m) /\ n = Len(q) /\ Len(r) = n + 1 /\ r[n + 1] = m
           /\ \A a \in 1..n : r[a] = q[a]
<1> DEFINE s == Append(q, m)
<1>1. s \in Seq(Msg) /\ Len(s) = Len(q) + 1 /\ s[Len(q) + 1] = m /\ \A a \in 1..Len(q) : s[a] = q[a]
  BY AppendProperties
<1>2. PICK n \in Nat : n = Len(q)
  OBVIOUS
<1> HIDE DEF s
<1>3. s \in Seq(Msg) /\ Len(s) = n + 1 /\ s[n + 1] = m /\ \A a \in 1..n : s[a] = q[a]
  BY <1>1, <1>2
<1>4. PICK r \in Seq(Msg) : r = s
  BY <1>3
<1> QED
  BY <1>2, <1>3, <1>4 DEF s

\* one message less
LEMMA TailFacts ==
  ASSUME NEW q \in Seq(Msg), q # <<>>
  PROVE  \E r \in Seq(Msg), n \in Nat :
           /\ r = Tail(q) /\ n = Len(r) /\ Len(q) = n + 1 /\ q[1] = Head(q)
           /\ \A a \in 1..n : r[a] = q[a + 1]
<1> DEFINE s == Tail(q)
<1>1. s \in Seq(Msg) /\ Len(s) = Len(q) - 1 /\ Head(q) = q[1]
      /\ \A a \in 1..Len(s) : s[a] = q[a + 1]
  BY HeadTailProperties
<1> HIDE DEF s
<1>2. PICK n \in Nat : n = Len(s)
  BY <1>1
<1>3. Len(q) = n + 1
  <2>1. PICK l \in Nat : l = Len(q)
    OBVIOUS
  <2> QED
    BY <1>1, <1>2, <2>1
<1>4. PICK r \in Seq(Msg) : r = s
  BY <1>1
<1> QED
  BY <1>1, <1>2, <1>3, <1>4 DEF s

\* how the answers under way change with one more message
LEMMA AnswersAppend ==
  ASSUME NEW q \in Seq(Msg), NEW m \in Msg
  PROVE  /\ NotesOnly(q) /\ IsNotification(m) => NotesOnly(Append(q, m))
         /\ NotesOnly(q) => OneAnswer(Append(q, m))
         /\ OneAnswer(q) /\ IsNotification(m) => OneAnswer(Append(q, m))
<1>1. PICK r \in Seq(Msg), n \in Nat :
        /\ r = Append(q, m) /\ n = Len(q) /\ Len(r) = n + 1 /\ r[n + 1] = m
        /\ \A a \in 1..n : r[a] = q[a]
  BY AppendFacts
<1>2. \A a \in 1..(n + 1) : a \in 1..n \/ a = n + 1
  OBVIOUS
<1>3. NotesOnly(q) /\ IsNotification(m) => NotesOnly(r)
  BY <1>1, <1>2 DEF NotesOnly
<1>4. NotesOnly(q) => OneAnswer(r)
  BY <1>1, <1>2 DEF NotesOnly, OneAnswer
<1>5. OneAnswer(q) /\ IsNotification(m) => OneAnswer(r)
  BY <1>1, <1>2 DEF OneAnswer
<1> QED
  BY <1>1, <1>3, <1>4, <1>5

\* how they change with one message less
LEMMA AnswersTail ==
  ASSUME NEW q \in Seq(Msg), q # <<>>
  PROVE  /\ NotesOnly(q) => IsNotification(Head(q)) /\ NotesOnly(Tail(q))
         /\ OneAnswer(q) => OneAnswer(Tail(q))
         /\ OneAnswer(q) /\ ~IsNotification(Head(q)) => NotesOnly(Tail(q))
<1>1. PICK r \in Seq(Msg), n \in Nat :
        /\ r = Tail(q) /\ n = Len(r) /\ Len(q) = n + 1 /\ q[1] = Head(q)
        /\ \A a \in 1..n : r[a] = q[a + 1]
  BY TailFacts
<1>2. 1 \in 1..(n + 1) /\ \A a \in 1..n : a + 1 \in 1..(n + 1) /\ a + 1 # 1
  OBVIOUS
<1>3. NotesOnly(q) => IsNotification(Head(q)) /\ NotesOnly(r)
  BY <1>1, <1>2 DEF NotesOnly
<1>4. OneAnswer(q) => OneAnswer(r)
  <2> SUFFICES ASSUME OneAnswer(q), NEW a \in 1..n, NEW b \in 1..n,
                      ~IsNotification(r[a]), ~IsNotification(r[b])
               PROVE  a = b
    BY <1>1 DEF OneAnswer
  <2>1. a + 1 = b + 1
    BY <1>1, <1>2 DEF OneAnswer
  <2> QED
    BY <2>1
<1>5. OneAnswer(q) /\ ~IsNotification(Head(q)) => NotesOnly(r)
  BY <1>1, <1>2 DEF OneAnswer, NotesOnly
<1> QED
  BY <1>1, <1>3, <1>4, <1>5

\* a notification of a subscription that is known or announced may follow
LEMMA KnownAppend ==
  ASSUME NEW q \in Seq(Msg), NEW m \in Msg, NEW D
  PROVE  /\ \A i \in Nat : Announces(Append(q, m), i) <=> Announces(q, i) \/ m = Success(i)
         /\ KnownAhead(q, D) /\ (IsNotification(m) => m[2] \in D \/ Announces(q, m[2]))
              => KnownAhead(Append(q, m), D)
<1>1. PICK r \in Seq(Msg), n \in Nat :
        /\ r = Append(q, m) /\ n = Len(q) /\ Len(r) = n + 1 /\ r[n + 1] = m
        /\ \A a \in 1..n : r[a] = q[a]
  BY AppendFacts
<1>2. n + 1 \in 1..(n + 1)
      /\ \A a \in 1..(n + 1) : (a \in 1..n /\ a # n + 1) \/ (a = n + 1 /\ \A b \in 1..n : b < a)
  OBVIOUS
<1>3. \A a \in 1..n : a \in 1..(n + 1)
  OBVIOUS
<1>4. \A i \in Nat : Announces(r, i) <=> Announces(q, i) \/ m = Success(i)
  BY <1>1, <1>2, <1>3 DEF Announces
<1>5. ASSUME KnownAhead(q, D), IsNotification(m) => m[2] \in D \/ Announces(q, m[2])
      PROVE  KnownAhead(r, D)
  <2> SUFFICES ASSUME NEW a \in 1..(n + 1), IsNotification(r[a])
               PROVE  \/ r[a][2] \in D
                      \/ \E b \in 1..(n + 1) : b < a /\ r[b] = Success(r[a][2])
    BY <1>1 DEF KnownAhead
  <2>1. CASE a \in 1..n
    <3>1. r[a] = q[a]
      BY <1>1, <2>1
    <3>2. \/ q[a][2] \in D
          \/ \E b \in 1..n : b < a /\ q[b] = Success(q[a][2])
      BY <1>1, <1>5, <2>1, <3>1 DEF KnownAhead
    <3> QED
      BY <1>1, <1>3, <3>1, <3>2
  <2>2. CASE a = n + 1
    <3>1. m[2] \in D \/ \E b \in 1..n : q[b] = Success(m[2])
      BY <1>1, <1>5, <2>2 DEF Announces
    <3> QED
      BY <1>1, <1>2, <1>3, <2>2, <3>1
  <2> QED
    BY <1>2, <2>1, <2>2
<1> QED
  BY <1>1, <1>4, <1>5

\* an answer that is taken makes its subscription known
LEMMA KnownTail ==
  ASSUME NEW q \in Seq(Msg), q # <<>>, NEW D, NEW F
  PROVE  /\ \A i \in Nat : Announces(q, i) <=> Head(q) = Success(i) \/ Announces(Tail(q), i)
         /\ KnownAhead(q, D) /\ D \subseteq F /\ (\A i \in Nat : Head(q) = Success(i) => i \in F)
              => KnownAhead(Tail(q), F)
<1>1. PICK r \in Seq(Msg), n \in Nat :
        /\ r = Tail(q) /\ n = Len(r) /\ Len(q) = n + 1 /\ q[1] = Head(q)
        /\ \A a \in 1..n : r[a] = q[a + 1]
  BY TailFacts
<1>2. 1 \in 1..(n + 1) /\ \A a \in 1..(n + 1) : a = 1 \/ (a - 1 \in 1..n /\ a = (a - 1) + 1)
  OBVIOUS
<1>3. \A a \in 1..n : a + 1 \in 1..(n + 1)
  OBVIOUS
<1>4. \A i \in Nat : Announces(q, i) <=> Head(q) = Success(i) \/ Announces(r, i)
  <2> SUFFICES ASSUME NEW i \in Nat
               PROVE  Announces(q, i) <=> Head(q) = Success(i) \/ Announces(r, i)
    OBVIOUS
  <2>1. ASSUME Announces(q, i), Head(q) # Success(i) PROVE Announces(r, i)
    <3>1. PICK a \in 1..(n + 1) : q[a] = Success(i)
      BY <1>1, <2>1 DEF Announces
    <3>2. PICK b \in 1..n : a = b + 1
      <4>1. a # 1
        BY <1>1, <2>1, <3>1
      <4> QED
        BY <1>2, <4>1
    <3> QED
      BY <1>1, <3>1, <3>2 DEF Announces
  <2>2. ASSUME Announces(r, i) PROVE Announces(q, i)
    BY <1>1, <1>3, <2>2 DEF Announces
  <2>3. ASSUME Head(q) = Success(i) PROVE Announces(q, i)
    BY <1>1, <1>2, <2>3 DEF Announces
  <2> QED
    BY <2>1, <2>2, <2>3
<1>5. ASSUME KnownAhead(q, D), D \subseteq F, \A i \in Nat : Head(q) = Success(i) => i \in F
      PROVE  KnownAhead(r, F)
  <2> SUFFICES ASSUME NEW a \in 1..n, IsNotification(r[a])
               PROVE  \/ r[a][2] \in F
                      \/ \E b \in 1..n : b < a /\ r[b] = Success(r[a][2])
    BY <1>1 DEF KnownAhead
  <2>1. PICK c \in 1..(n + 1) : c = a + 1 /\ q[c] = r[a]
    BY <1>1, <1>3
  <2>2. \/ q[c][2] \in D
        \/ \E b \in 1..(n + 1) : b < c /\ q[b] = Success(q[c][2])
    BY <1>1, <1>5, <2>1 DEF KnownAhead
  <2>3. CASE q[c][2] \in D
    BY <1>5, <2>1, <2>3
  <2>4. ASSUME NEW b \in 1..(n + 1), b < c, q[b] = Success(q[c][2])
        PROVE  \/ r[a][2] \in F
               \/ \E d \in 1..n : d < a /\ r[d] = Success(r[a][2])
    <3>1. CASE b = 1
      <4>1. r[a][2] \in Nat
        <5>1. r[a] \in Msg
          BY <1>1
        <5> QED
          BY <5>1, MsgFacts
      <4> QED
        BY <1>1, <1>5, <2>1, <2>4, <3>1, <4>1
    <3>2. CASE b # 1
      <4>1. PICK d \in 1..n : b = d + 1 /\ d < a
        BY <1>2, <2>1, <2>4, <3>2
      <4> QED
        BY <1>1, <2>1, <2>4, <4>1
    <3> QED
      BY <3>1, <3>2
  <2> QED
    BY <2>2, <2>3, <2>4
<1> QED
  BY <1>1, <1>4, <1>5

\* the subscription of the first message is known
LEMMA KnownHead ==
  ASSUME NEW q \in Seq(Msg), q # <<>>, NEW D, KnownAhead(q, D), IsNotification(Head(q))
  PROVE  Head(q)[2] \in D
<1>1. PICK n \in Nat : Len(q) = n + 1 /\ q[1] = Head(q)
  BY TailFacts
<1>2. 1 \in 1..(n + 1) /\ \A b \in 1..(n + 1) : ~(b < 1)
  OBVIOUS
<1> QED
  BY <1>1, <1>2 DEF KnownAhead

\* notifications announce nothing
LEMMA NoneAnnounced ==
  ASSUME NEW q \in Seq(Msg), NotesOnly(q)
  PROVE  \A i \in Nat : ~Announces(q, i)
<1> SUFFICES ASSUME NEW i \in Nat, NEW a \in 1..Len(q), q[a] = Success(i) PROVE FALSE
  BY DEF Announces
<1> QED
  BY MsgFacts DEF NotesOnly

\* nothing follows the end of a subscription
LEMMA SilentAppend ==
  ASSUME NEW q \in Seq(Msg), NEW m \in Msg, NEW i \in Nat,
         Silent(q, i) \/ ~Announces(q, i),
         Announces(q, i) => ~(IsNotification(m) /\ m[2] = i)
  PROVE  Silent(Append(q, m), i)
<1>1. PICK r \in Seq(Msg), n \in Nat :
        /\ r = Append(q, m) /\ n = Len(q) /\ Len(r) = n + 1 /\ r[n + 1] = m
        /\ \A a \in 1..n : r[a] = q[a]
  BY AppendFacts
<1>2. SUFFICES ASSUME NEW a \in 1..(n + 1), NEW b \in 1..(n + 1), r[a] = Success(i), a < b,
                      IsNotification(r[b]), r[b][2] = i
               PROVE  FALSE
  BY <1>1 DEF Silent
<1>3. a \in 1..n
  BY <1>2
<1>4. Announces(q, i)
  BY <1>1, <1>2, <1>3 DEF Announces
<1>5. CASE b = n + 1
  BY <1>1, <1>2, <1>4, <1>5
<1>6. CASE b # n + 1
  <2>1. b \in 1..n
    BY <1>6
  <2> QED
    BY <1>1, <1>2, <1>3, <1>4, <2>1 DEF Silent
<1> QED
  BY <1>5, <1>6

\* the end of a subscription comes closer
LEMMA SilentTail ==
  ASSUME NEW q \in Seq(Msg), q # <<>>, NEW i \in Nat, Silent(q, i)
  PROVE  /\ Silent(Tail(q), i)
         /\ Head(q) = Success(i) =>
              \A a \in 1..Len(Tail(q)) : ~(IsNotification(Tail(q)[a]) /\ Tail(q)[a][2] = i)
<1>1. PICK r \in Seq(Msg), n \in Nat :
        /\ r = Tail(q) /\ n = Len(r) /\ Len(q) = n + 1 /\ q[1] = Head(q)
        /\ \A a \in 1..n : r[a] = q[a + 1]
  BY TailFacts
<1>2. 1 \in 1..(n + 1) /\ \A a \in 1..n : a + 1 \in 1..(n + 1) /\ 1 < a + 1
  OBVIOUS
<1>3. Silent(r, i)
  <2> SUFFICES ASSUME NEW a \in 1..n, NEW b \in 1..n, r[a] = Success(i), a < b,
                      IsNotification(r[b]), r[b][2] = i
               PROVE  FALSE
    BY <1>1 DEF Silent
  <2>1. PICK c \in 1..(n + 1), d \in 1..(n + 1) : c = a + 1 /\ d = b + 1 /\ c < d
    BY <1>2
  <2>2. q[c] = Success(i) /\ IsNotification(q[d]) /\ q[d][2] = i
    BY <1>1, <2>1
  <2> QED
    BY <1>1, <2>1, <2>2 DEF Silent
<1>4. ASSUME Head(q) = Success(i), NEW a \in 1..n, IsNotification(r[a]), r[a][2] = i
      PROVE  FALSE
  <2>1. PICK c \in 1..(n + 1) : c = a + 1 /\ 1 < c
    BY <1>2
  <2>2. IsNotification(q[c]) /\ q[c][2] = i /\ q[1] = Success(i)
    BY <1>1, <1>4, <2>1
  <2> QED
    BY <1>1, <1>2, <2>1, <2>2 DEF Silent
<1> QED
  BY <1>1, <1>3, <1>4

\* a subscription without notifications is not needed in the list
LEMMA KnownWithout ==
  ASSUME NEW q \in Seq(Msg), NEW D, NEW i, NotesOnly(q), KnownAhead(q, D),
         \A a \in 1..Len(q) : ~(IsNotification(q[a]) /\ q[a][2] = i)
  PROVE  KnownAhead(q, D \ {i})
<1>1. \A a \in 1..Len(q) : q[a] \in Msg
  OBVIOUS
<1> SUFFICES ASSUME NEW a \in 1..Len(q), IsNotification(q[a])
             PROVE  q[a][2] \in D \ {i}
  BY DEF KnownAhead
<1>2. q[a][2] \in Nat
  BY <1>1, MsgFacts
<1>3. \A b \in 1..Len(q) : q[b] # Success(q[a][2])
  BY <1>1, <1>2, MsgFacts DEF NotesOnly
<1>4. q[a][2] \in D
  BY <1>3 DEF KnownAhead
<1> QED
  BY <1>4

\* a notification that goes from one place to the next is still accounted for
Accounts(a, b, c, d) == a \o b \o c = d

\* the node sends a notification
LEMMA AccountsAppend ==
  ASSUME NEW a \in Seq(Msg), NEW b \in Seq(Msg), NEW c \in Seq(Msg), NEW d \in Seq(Msg),
         NEW n \in Seq(Msg), Accounts(a, b, c, d)
  PROVE  Accounts(a, b, c \o n, d \o n)
<1>1. PICK e \in Seq(Msg) : e = a \o b
  BY ConcatProperties
<1>2. (e \o c) \o n = e \o (c \o n)
  <2>1. Associates(e, c, n)
    BY ConcatsAssociate
  <2> QED
    BY <2>1 DEF Associates
<1>3. e \o c = d
  BY <1>1 DEF Accounts
<1>4. e \o (c \o n) = d \o n
  <2>1. PICK x : x = e \o c
    OBVIOUS
  <2> QED
    BY <1>2, <1>3
<1> QED
  BY <1>1, <1>4 DEF Accounts

\* one is set aside
LEMMA AccountsAside ==
  ASSUME NEW a \in Seq(Msg), NEW b \in Seq(Msg), NEW c \in Seq(Msg), NEW d \in Seq(Msg),
         NEW n \in Seq(Msg), Accounts(a, b, n \o c, d)
  PROVE  Accounts(a, b \o n, c, d) /\ b \o n \in Seq(Msg)
<1>1. PICK e \in Seq(Msg), f \in Seq(Msg) : e = a \o b /\ f = b \o n
  BY ConcatProperties
<1>2. (e \o n) \o c = e \o (n \o c)
  <2>1. Associates(e, n, c)
    BY ConcatsAssociate
  <2> QED
    BY <2>1 DEF Associates
<1>3. (a \o b) \o n = a \o (b \o n)
  <2>1. Associates(a, b, n)
    BY ConcatsAssociate
  <2> QED
    BY <2>1 DEF Associates
<1>4. e \o n = a \o f
  BY <1>1, <1>3
<1>5. e \o (n \o c) = d
  BY <1>1 DEF Accounts
<1>6. (a \o f) \o c = d
  BY <1>2, <1>4, <1>5
<1> QED
  BY <1>1, <1>6 DEF Accounts

\* one is yielded
LEMMA AccountsYield ==
  ASSUME NEW a \in Seq(Msg), NEW b \in Seq(Msg), NEW c \in Seq(Msg), NEW d \in Seq(Msg),
         NEW n \in Seq(Msg), Accounts(a, n \o b, c, d)
  PROVE  Accounts(a \o n, b, c, d) /\ a \o n \in Seq(Msg)
<1>1. PICK e \in Seq(Msg), f \in Seq(Msg) : e = a \o n /\ f = n \o b
  BY ConcatProperties
<1>2. (a \o n) \o b = a \o (n \o b)
  <2>1. Associates(a, n, b)
    BY ConcatsAssociate
  <2> QED
    BY <2>1 DEF Associates
<1>3. e \o b = a \o f
  BY <1>1, <1>2
<1>4. (a \o f) \o c = d
  BY <1>1 DEF Accounts
<1>5. (e \o b) \o c = d
  BY <1>3, <1>4
<1> QED
  BY <1>1, <1>5 DEF Accounts

----------------------------------------------------------------------------
(* The inductive invariant of the client *)

Frames == {f \in Seq(ByteSet) : Message(f) \in Msg /\ IsNotification(Message(f))}
Requests ==
  {Idle, [of |-> "failed"], [of |-> "panicked"]}
  \cup [of : {"subscribe"}, topic : Topics, answered : BOOLEAN]
  \cup [of : {"unsubscribe"}, id : Nat, answered : BOOLEAN]

ClientType ==
  /\ inner \in Seq(ByteSet) /\ stream \in Seq(ByteSet)
  /\ sent \in Seq(Msg) /\ got \in Seq(Msg)
  /\ pending_recv \in Seq(Frames)
  /\ DOMAIN subscriptions \subseteq Nat /\ DOMAIN topic_list \subseteq Nat
  /\ rpc_id \in Nat /\ request \in Requests

Asides(p) == [k \in DOMAIN p |-> Message(p[k])]
KnownAside(p, D) == \A k \in 1..Len(p) : Message(p[k])[2] \in D
HasAnswer == request.of \in {"subscribe", "unsubscribe"} /\ request.answered

\* an answer is under way only while a request waits for it, and no two are
AnswerInv(q) == NotesOnly(q) \/ (HasAnswer /\ OneAnswer(q))
\* every notification was yielded, set aside or is under way
OnceInv(q) ==
  (~dropped /\ request.of # "panicked") => Accounts(got, Asides(pending_recv), Owed(q), sent)
\* the request ends this subscription and the node has done so
EndsNow(q, i) ==
  /\ request.of = "unsubscribe" /\ request.id = i
  /\ i \notin DOMAIN subscriptions /\ i \in ended /\ Silent(q, i)
\* the node's subscriptions are in the list or announced by the answer under way, which
\* is ahead of their notifications; a subscription that ends stays in the list until the
\* answer is taken, and the answer is behind its notifications
KnownInv(q) ==
  /\ \A i \in DOMAIN subscriptions : i \in DOMAIN topic_list \/ Announces(q, i)
  /\ KnownAhead(q, DOMAIN topic_list)
  /\ \A i \in Nat : Announces(q, i) => \/ request.of = "subscribe"
                                       \/ EndsNow(q, i)
  /\ KnownAside(pending_recv, DOMAIN topic_list \cup ended)
StreamInv(q) == AnswerInv(q) /\ OnceInv(q) /\ KnownInv(q)
ClientInv ==
  /\ ClientType
  /\ \E q \in Seq(Msg), lead \in Lead : Carries(inner, stream, lead, q) /\ StreamInv(q)

\* frames that were set aside
LEMMA AsidesFacts ==
  ASSUME NEW p \in Seq(Frames)
  PROVE  Asides(p) \in Seq(Msg) /\ (p = <<>> => Asides(p) = <<>>) /\ Len(Asides(p)) = Len(p)
         /\ \A k \in 1..Len(p) : Asides(p)[k] = Message(p[k]) /\ IsNotification(Message(p[k]))
<1>1. PICK n \in Nat : n = Len(p) /\ DOMAIN p = 1..n /\ \A k \in 1..n : p[k] \in Frames
  OBVIOUS
<1>2. \A k \in 1..n : Message(p[k]) \in Msg /\ IsNotification(Message(p[k]))
  BY <1>1 DEF Frames
<1>3. Asides(p) \in [1..n -> Msg] /\ \A k \in 1..n : Asides(p)[k] = Message(p[k])
  BY <1>1, <1>2 DEF Asides
<1>4. Asides(p) \in Seq(Msg) /\ Len(Asides(p)) = n
  BY <1>3, FunctionIsSeq
<1>5. p = <<>> => Asides(p) = <<>>
  <2> SUFFICES ASSUME p = <<>> PROVE Asides(p) = <<>>
    OBVIOUS
  <2>1. n = 0
    BY <1>1
  <2>2. PICK a \in Seq(Msg) : a = Asides(p) /\ Len(a) = 0
    BY <1>4, <2>1
  <2>3. a = <<>>
    BY <2>2, EmptySeq
  <2> QED
    BY <2>2, <2>3
<1> QED
  BY <1>1, <1>2, <1>3, <1>4, <1>5

\* one more is set aside
LEMMA AsidesAppend ==
  ASSUME NEW p \in Seq(Frames), NEW f \in Frames, NEW D
  PROVE  /\ Append(p, f) \in Seq(Frames)
         /\ Asides(Append(p, f)) = Asides(p) \o <<Message(f)>>
         /\ KnownAside(p, D) /\ Message(f)[2] \in D => KnownAside(Append(p, f), D)
<1> DEFINE r == Append(p, f)
<1>1. PICK n \in Nat : n = Len(p)
  OBVIOUS
<1>2. r \in Seq(Frames) /\ Len(r) = n + 1 /\ r[n + 1] = f /\ \A k \in 1..n : r[k] = p[k]
  BY <1>1, AppendProperties
<1> HIDE DEF r
<1>3. \A k \in 1..(n + 1) : (k \in 1..n /\ k <= n) \/ (k = n + 1 /\ ~(k <= n) /\ k - n = 1)
  OBVIOUS
<1>4. KnownAside(p, D) /\ Message(f)[2] \in D => KnownAside(r, D)
  BY <1>1, <1>2, <1>3 DEF KnownAside
<1>5. /\ Asides(p) \in Seq(Msg) /\ Len(Asides(p)) = n /\ \A k \in 1..n : Asides(p)[k] = Message(p[k])
      /\ Asides(r) \in Seq(Msg) /\ Len(Asides(r)) = n + 1
      /\ \A k \in 1..(n + 1) : Asides(r)[k] = Message(r[k])
  <2>1. \A k \in 1..n : Asides(p)[k] = Message(p[k])
    BY <1>1, AsidesFacts
  <2>2. \A k \in 1..(n + 1) : Asides(r)[k] = Message(r[k])
    BY <1>2, AsidesFacts
  <2> QED
    BY <1>1, <1>2, <2>1, <2>2, AsidesFacts
<1>6. PICK a \in Seq(Msg), b \in Seq(Msg), m \in Msg, o \in Seq(Msg) :
        a = Asides(p) /\ b = Asides(r) /\ m = Message(f) /\ o = <<m>>
  <2>1. PICK m \in Msg : m = Message(f)
    BY DEF Frames
  <2>2. <<m>> \in Seq(Msg)
    OBVIOUS
  <2> QED
    BY <1>5, <2>1, <2>2
<1>7. Append(a, m) \in Seq(Msg) /\ Len(Append(a, m)) = n + 1 /\ Append(a, m)[n + 1] = m
      /\ \A k \in 1..n : Append(a, m)[k] = a[k]
  BY <1>5, <1>6, AppendProperties
<1>8. \A k \in 1..(n + 1) : b[k] = Append(a, m)[k]
  BY <1>2, <1>3, <1>5, <1>6, <1>7
<1>9. b = Append(a, m)
  <2>1. b \in [1..(n + 1) -> Msg] /\ Append(a, m) \in [1..(n + 1) -> Msg]
    BY <1>5, <1>6, <1>7, LenProperties
  <2> QED
    BY <1>8, <2>1
<1>10. Append(a, m) = a \o o
  BY <1>6, AppendIsConcat
<1> QED
  BY <1>2, <1>4, <1>6, <1>9, <1>10 DEF r

\* the first is taken
LEMMA AsidesTail ==
  ASSUME NEW p \in Seq(Frames), p # <<>>, NEW D
  PROVE  /\ Tail(p) \in Seq(Frames) /\ Message(Head(p)) \in Msg
         /\ Asides(p) = <<Message(Head(p))>> \o Asides(Tail(p))
         /\ KnownAside(p, D) => KnownAside(Tail(p), D) /\ Message(Head(p))[2] \in D
<1> DEFINE r == Tail(p)
<1>1. r \in Seq(Frames) /\ Len(r) = Len(p) - 1 /\ Head(p) = p[1] /\ Head(p) \in Frames
      /\ \A k \in 1..Len(r) : r[k] = p[k + 1]
  BY HeadTailProperties
<1> HIDE DEF r
<1>2. PICK n \in Nat : n = Len(r) /\ Len(p) = n + 1
  <2>1. PICK n \in Nat, l \in Nat : n = Len(r) /\ l = Len(p)
    BY <1>1
  <2> QED
    BY <1>1, <2>1
<1>3. 1 \in 1..(n + 1) /\ \A k \in 1..n : k + 1 \in 1..(n + 1)
  OBVIOUS
<1>4. KnownAside(p, D) => KnownAside(r, D) /\ Message(Head(p))[2] \in D
  BY <1>1, <1>2, <1>3 DEF KnownAside
<1>5. /\ Asides(r) \in Seq(Msg) /\ Len(Asides(r)) = n /\ \A k \in 1..n : Asides(r)[k] = Message(r[k])
      /\ Asides(p) \in Seq(Msg) /\ Len(Asides(p)) = n + 1
      /\ \A k \in 1..(n + 1) : Asides(p)[k] = Message(p[k])
  <2>1. \A k \in 1..n : Asides(r)[k] = Message(r[k])
    BY <1>1, <1>2, AsidesFacts
  <2>2. \A k \in 1..(n + 1) : Asides(p)[k] = Message(p[k])
    BY <1>2, AsidesFacts
  <2> QED
    BY <1>1, <1>2, <2>1, <2>2, AsidesFacts
<1>6. PICK a \in Seq(Msg), b \in Seq(Msg), m \in Msg : a = Asides(r) /\ b = Asides(p) /\ m = Message(Head(p))
  <2>1. Message(Head(p)) \in Msg
    BY <1>1 DEF Frames
  <2> QED
    BY <1>5, <2>1
<1>7. b # <<>> /\ Tail(b) \in Seq(Msg) /\ Len(Tail(b)) = n /\ \A k \in 1..n : Tail(b)[k] = b[k + 1]
  <2>1. b # <<>>
    BY <1>5, <1>6
  <2>2. PICK s \in Seq(Msg), l \in Nat :
          s = Tail(b) /\ l = Len(s) /\ Len(b) = l + 1 /\ \A k \in 1..l : s[k] = b[k + 1]
    BY <2>1, TailFacts
  <2>3. l = n
    BY <1>5, <1>6, <2>2
  <2> QED
    BY <2>1, <2>2, <2>3
<1>8. Tail(b) = a
  <2>1. \A k \in 1..n : Tail(b)[k] = a[k]
    BY <1>1, <1>2, <1>3, <1>5, <1>6, <1>7
  <2>2. PICK s \in Seq(Msg) : s = Tail(b) /\ Len(s) = n
    BY <1>7
  <2>3. s \in [1..n -> Msg] /\ a \in [1..n -> Msg]
    BY <1>5, <1>6, <2>2, LenProperties
  <2> QED
    BY <2>1, <2>2, <2>3
<1>9. Head(b) = m
  <2>1. b[1] = m
    BY <1>1, <1>3, <1>5, <1>6
  <2>2. Head(b) = b[1]
    BY <1>7, TailFacts
  <2> QED
    BY <2>1, <2>2
<1>10. b = <<Head(b)>> \o Tail(b)
  BY <1>7, MessageFirst
<1> QED
  BY <1>1, <1>4, <1>6, <1>8, <1>9, <1>10 DEF r

\* the frame that is taken holds the first message
LEMMA TakesAMessage ==
  ASSUME ClientType, NEW lead \in Lead, NEW q \in Seq(Msg), Carries(inner, stream, lead, q),
         decode(inner) # 0, TakeFrame, stream' = stream
  PROVE  /\ q # <<>> /\ Frame \in Seq(ByteSet) /\ Message(Frame) = Head(q)
         /\ inner' \in Seq(ByteSet)
         /\ \E l \in Lead : Carries(inner', stream', l, Tail(q))
<1>1. PICK buf \in Seq(ByteSet), rest \in Seq(ByteSet) :
        buf = inner /\ rest = stream
  BY DEF ClientType
<1>2. Carries(buf, rest, lead, q) /\ decode(buf) # 0
  BY <1>1
<1>3. /\ q # <<>>
      /\ Message(SubSeq(buf, 1, decode(buf))) = Head(q)
      /\ SubSeq(buf, 1, decode(buf)) \in Seq(ByteSet)
      /\ Carries(SubSeq(buf, decode(buf) + 1, Len(buf)), rest, <<B("space")>>, Tail(q))
      /\ SubSeq(buf, decode(buf) + 1, Len(buf)) \in Seq(ByteSet)
  BY <1>2, TakesTheFirst
<1>4. Frame = SubSeq(buf, 1, decode(buf)) /\ inner' = SubSeq(buf, decode(buf) + 1, Len(buf)) /\ stream' = rest
  BY <1>1 DEF Frame, TakeFrame
<1>5. <<B("space")>> \in Lead
  BY DEF Lead
<1> QED
  BY <1>3, <1>4, <1>5

\* the ids of a map after an entry came or went
LEMMA EnlistDomain ==
  ASSUME NEW i, NEW t, NEW f
  PROVE  DOMAIN Enlist(f, i, t) = {i} \cup DOMAIN f
BY DEF Enlist
LEMMA DelistDomain ==
  ASSUME NEW i, NEW f
  PROVE  DOMAIN Restrict(f, DOMAIN f \ {i}) = DOMAIN f \ {i}
BY DEF Restrict

\* what a request is for
LEMMA RequestFacts ==
  ASSUME ClientType
  PROVE  /\ HasAnswer <=> (request.of \in {"subscribe", "unsubscribe"} /\ request.answered)
         /\ request = Idle => ~HasAnswer /\ request.of = "nothing"
         /\ request.of = "subscribe" => request \in [of : {"subscribe"}, topic : Topics, answered : BOOLEAN]
         /\ request.of = "unsubscribe" => request \in [of : {"unsubscribe"}, id : Nat, answered : BOOLEAN]
<1>1. request = Idle => request.of = "nothing"
  BY DEF Idle
<1>2. request = Idle => ~HasAnswer
  BY <1>1 DEF HasAnswer
<1>3. request.of = "subscribe" => request \in [of : {"subscribe"}, topic : Topics, answered : BOOLEAN]
  <2>1. \A x \in {Idle, [of |-> "failed"], [of |-> "panicked"]} : x.of # "subscribe"
    BY DEF Idle
  <2>2. \A x \in [of : {"unsubscribe"}, id : Nat, answered : BOOLEAN] : x.of # "subscribe"
    OBVIOUS
  <2> QED
    BY <2>1, <2>2 DEF ClientType, Requests
<1>4. request.of = "unsubscribe" => request \in [of : {"unsubscribe"}, id : Nat, answered : BOOLEAN]
  <2>1. \A x \in {Idle, [of |-> "failed"], [of |-> "panicked"]} : x.of # "unsubscribe"
    BY DEF Idle
  <2>2. \A x \in [of : {"subscribe"}, topic : Topics, answered : BOOLEAN] : x.of # "unsubscribe"
    OBVIOUS
  <2> QED
    BY <2>1, <2>2 DEF ClientType, Requests
<1> QED
  BY <1>1, <1>2, <1>3, <1>4 DEF HasAnswer

\* what the node sends is under way
LEMMA SendsAMessage ==
  ASSUME ClientType, NEW lead \in Lead, NEW q \in Seq(Msg), Carries(inner, stream, lead, q),
         NEW m \in Msg, inner' = inner, stream' = stream \o Bytes(m)
  PROVE  /\ inner' \in Seq(ByteSet) /\ stream' \in Seq(ByteSet)
         /\ Append(q, m) \in Seq(Msg)
         /\ Carries(inner', stream', lead, Append(q, m))
<1>1. PICK buf \in Seq(ByteSet), rest \in Seq(ByteSet) : buf = inner /\ rest = stream
  BY DEF ClientType
<1>2. Carries(buf, rest, lead, q)
  BY <1>1
<1>3. Carries(buf, rest \o Bytes(m), lead, Append(q, m)) /\ rest \o Bytes(m) \in Seq(ByteSet)
  BY <1>2, CarriesOneMore
<1>4. Append(q, m) \in Seq(Msg)
  BY AppendProperties
<1> QED
  BY <1>1, <1>3, <1>4

\* the notifications that OnceInv speaks of
LEMMA OnceTyped ==
  ASSUME ClientType, NEW q \in Seq(Msg)
  PROVE  /\ got \in Seq(Msg) /\ Asides(pending_recv) \in Seq(Msg)
         /\ Owed(q) \in Seq(Msg) /\ sent \in Seq(Msg)
<1>1. Wire(q) \in Seq(ByteSet)
  BY EachBytesFacts
<1>2. Owed(q) \in Seq(Msg)
  BY <1>1, InFlightConcat DEF Owed
<1>3. Asides(pending_recv) \in Seq(Msg)
  BY AsidesFacts DEF ClientType
<1> QED
  BY <1>2, <1>3 DEF ClientType

\* the bytes that arrive and those that do not are the stream
LEMMA SplitsIn ==
  ASSUME NEW s \in Seq(ByteSet), NEW n \in 1..Len(s)
  PROVE  \E h \in Seq(ByteSet), t \in Seq(ByteSet) :
           h = SubSeq(s, 1, n) /\ t = SubSeq(s, n + 1, Len(s)) /\ h \o t = s
<1>1. PICK l \in Nat : l = Len(s) /\ DOMAIN s = 1..l
  OBVIOUS
<1> DEFINE h == SubSeq(s, 1, n)
           t == SubSeq(s, n + 1, l)
           u == h \o t
<1>2. h \in Seq(ByteSet) /\ Len(h) = n /\ \A k \in 1..n : h[k] = s[k]
  <2>1. PICK f \in Int, g \in Int : f = 1 /\ g = n
    BY <1>1
  <2>2. \A k \in f..g : s[k] \in ByteSet
    BY <1>1, <2>1
  <2>3. /\ SubSeq(s, f, g) \in Seq(ByteSet)
        /\ Len(SubSeq(s, f, g)) = (IF f <= g THEN g - f + 1 ELSE 0)
        /\ \A k \in 1..(g - f + 1) : SubSeq(s, f, g)[k] = s[f + k - 1]
    BY <2>2, SubSeqProperties
  <2>4. g - f + 1 = n /\ f <= g /\ \A k \in 1..n : f + k - 1 = k
    BY <1>1, <2>1
  <2> QED
    BY <2>1, <2>3, <2>4
<1>3. t \in Seq(ByteSet) /\ Len(t) = l - n /\ \A k \in 1..(l - n) : t[k] = s[n + k]
  <2>1. PICK f \in Int, g \in Int : f = n + 1 /\ g = l
    BY <1>1
  <2>2. \A k \in f..g : s[k] \in ByteSet
    BY <1>1, <2>1
  <2>3. /\ SubSeq(s, f, g) \in Seq(ByteSet)
        /\ Len(SubSeq(s, f, g)) = (IF f <= g THEN g - f + 1 ELSE 0)
        /\ \A k \in 1..(g - f + 1) : SubSeq(s, f, g)[k] = s[f + k - 1]
    BY <2>2, SubSeqProperties
  <2>4. g - f + 1 = l - n /\ (~(f <= g) => l - n = 0) /\ \A k \in 1..(l - n) : f + k - 1 = n + k
    BY <1>1, <2>1
  <2> QED
    BY <2>1, <2>3, <2>4
<1>4. PICK e \in Nat : e = l - n /\ n + e = l
  <2>1. l - n \in Nat /\ n + (l - n) = l
    BY <1>1
  <2> QED
    BY <2>1
<1> HIDE DEF h, t
<1>5. u \in Seq(ByteSet) /\ Len(u) = n + e /\ \A k \in 1..(n + e) : u[k] = IF k <= n THEN h[k] ELSE t[k - n]
  <2>1. Len(h) = n /\ Len(t) = e /\ h \in Seq(ByteSet) /\ t \in Seq(ByteSet)
    BY <1>2, <1>3, <1>4
  <2> QED
    BY <2>1, ConcatProperties
<1> HIDE DEF u
<1>6. \A k \in 1..l : u[k] = s[k]
  <2> SUFFICES ASSUME NEW k \in 1..l PROVE u[k] = s[k]
    OBVIOUS
  <2>1. CASE k <= n
    <3>1. k \in 1..n /\ k \in 1..(n + e)
      BY <1>4, <2>1
    <3> QED
      BY <1>2, <1>5, <2>1, <3>1
  <2>2. CASE ~(k <= n)
    <3>1. k - n \in 1..(l - n) /\ k \in 1..(n + e) /\ n + (k - n) = k
      BY <1>4, <2>2
    <3> QED
      BY <1>3, <1>5, <2>2, <3>1
  <2> QED
    BY <2>1, <2>2
<1>7. u = s
  <2>1. u \in [1..l -> ByteSet] /\ s \in [1..l -> ByteSet]
    BY <1>1, <1>4, <1>5, LenProperties
  <2> QED
    BY <1>6, <2>1
<1>8. h \o t = s
  BY <1>7 DEF u
<1>9. t = SubSeq(s, n + 1, Len(s)) /\ h = SubSeq(s, 1, n)
  BY <1>1 DEF t, h
<1> QED
  BY <1>2, <1>3, <1>8, <1>9

\* The node notifies
LEMMA NotifyStep ==
  ASSUME ClientType, NEW lead \in Lead, NEW q \in Seq(Msg), Carries(inner, stream, lead, q),
         StreamInv(q), NEW i \in DOMAIN subscriptions, Notify(i)
  PROVE  ClientInv'
<1>1. /\ inner' = inner /\ subscriptions' = subscriptions /\ topic_list' = topic_list
      /\ pending_recv' = pending_recv /\ request' = request /\ rpc_id' = rpc_id
      /\ got' = got /\ dropped' = dropped /\ ended' = ended
  BY DEF Notify, handle
<1>2. i \in Nat
  BY DEF ClientType
<1>3. PICK m \in Msg : /\ IsNotification(m) /\ m[2] = i
                       /\ sent' = Append(sent, m) /\ stream' = stream \o Bytes(m)
  <2>1. Len(sent) \in Nat
    BY DEF ClientType
  <2>2. Notification(i, Len(sent)) \in Msg /\ IsNotification(Notification(i, Len(sent)))
        /\ Notification(i, Len(sent))[2] = i
    BY <1>2, <2>1, MsgFacts
  <2> QED
    BY <2>2 DEF Notify
<1>4. PICK r \in Seq(Msg) : r = Append(q, m) /\ Carries(inner', stream', lead, r)
                            /\ inner' \in Seq(ByteSet) /\ stream' \in Seq(ByteSet)
  BY <1>1, <1>3, SendsAMessage
<1>5. PICK o \in Seq(Msg) : o = <<m>> /\ sent' = sent \o o /\ NotesOf(m) = o
  <2>1. PICK o \in Seq(Msg) : o = <<m>>
    <3>1. <<m>> \in Seq(Msg)
      OBVIOUS
    <3> QED
      BY <3>1
  <2>2. Append(sent, m) = sent \o <<m>>
    BY AppendIsConcat DEF ClientType
  <2> QED
    BY <1>3, <2>1, <2>2 DEF NotesOf
<1>6. ClientType'
  <2>1. Append(sent, m) \in Seq(Msg)
    BY AppendProperties DEF ClientType
  <2> QED
    BY <1>1, <1>3, <1>4, <2>1 DEF ClientType
<1>7. AnswerInv(r)'
  <2>1. NotesOnly(q) => NotesOnly(r)
    BY <1>3, <1>4, AnswersAppend
  <2>2. OneAnswer(q) => OneAnswer(r)
    BY <1>3, <1>4, AnswersAppend
  <2> QED
    BY <1>1, <2>1, <2>2 DEF StreamInv, AnswerInv, HasAnswer
<1>8. OnceInv(r)'
  <2>1. Owed(r) = Owed(q) \o o
    BY <1>4, <1>5, OwedAppend
  <2>2. PICK a \in Seq(Msg), b \in Seq(Msg), c \in Seq(Msg), d \in Seq(Msg) :
          a = got /\ b = Asides(pending_recv) /\ c = Owed(q) /\ d = sent
    BY OnceTyped
  <2>3. Accounts(a, b, c, d) => Accounts(a, b, c \o o, d \o o)
    BY AccountsAppend
  <2> QED
    BY <1>1, <1>5, <2>1, <2>2, <2>3 DEF StreamInv, OnceInv
<1>9. KnownInv(r)'
  <2>1. KnownInv(q)
    BY DEF StreamInv
  <2>2. i \in DOMAIN topic_list \/ Announces(q, i)
    BY <2>1 DEF KnownInv
  <2>3. KnownAhead(r, DOMAIN topic_list)
    <3>1. KnownAhead(q, DOMAIN topic_list)
      BY <2>1 DEF KnownInv
    <3> QED
      BY <1>3, <1>4, <2>2, <3>1, KnownAppend
  <2>4. \A j \in Nat : Announces(r, j) <=> Announces(q, j)
    <3>1. \A j \in Nat : Announces(r, j) <=> Announces(q, j) \/ m = Success(j)
      BY <1>4, KnownAppend
    <3>2. \A j \in Nat : m # Success(j)
      BY <1>3, MsgFacts
    <3> QED
      BY <3>1, <3>2
  <2>5. DOMAIN subscriptions \subseteq Nat
    BY DEF ClientType
  <2>6. ASSUME NEW j \in Nat, EndsNow(q, j) PROVE EndsNow(r, j)
    <3>1. Silent(q, j) /\ j \notin DOMAIN subscriptions
      BY <2>6 DEF EndsNow
    <3>2. m[2] # j
      BY <1>3, <3>1
    <3>3. Silent(Append(q, m), j)
      BY <3>1, <3>2, SilentAppend
    <3> QED
      BY <1>4, <2>6, <3>3 DEF EndsNow
  <2>7. \A j \in Nat : Announces(r, j) => request.of = "subscribe" \/ EndsNow(r, j)
    BY <2>1, <2>4, <2>6 DEF KnownInv
  <2> QED
    BY <1>1, <2>1, <2>3, <2>4, <2>5, <2>7 DEF KnownInv, EndsNow
<1> QED
  BY <1>4, <1>6, <1>7, <1>8, <1>9 DEF ClientInv, StreamInv

\* The node answers the request
LEMMA RespondStep ==
  ASSUME ClientType, NEW lead \in Lead, NEW q \in Seq(Msg), Carries(inner, stream, lead, q),
         StreamInv(q), Respond
  PROVE  ClientInv'
<1>1. /\ inner' = inner /\ topic_list' = topic_list /\ pending_recv' = pending_recv
      /\ rpc_id' = rpc_id /\ sent' = sent /\ got' = got /\ dropped' = dropped
  BY DEF Respond
<1>2. /\ ~HasAnswer /\ HasAnswer' /\ request' \in Requests /\ request'.of = request.of
      /\ request.of \in {"subscribe", "unsubscribe"}
      /\ request.of = "unsubscribe" => request.id \in Nat /\ request'.id = request.id
  <2>1. /\ request.of \in {"subscribe", "unsubscribe"} /\ ~request.answered
        /\ request' = [request EXCEPT !.answered = TRUE]
    BY DEF Respond
  <2>2. CASE request.of = "subscribe"
    <3>1. request \in [of : {"subscribe"}, topic : Topics, answered : BOOLEAN]
      BY <2>2, RequestFacts
    <3>2. request' \in [of : {"subscribe"}, topic : Topics, answered : BOOLEAN] /\ request'.answered
          /\ request'.of = "subscribe"
      BY <2>1, <3>1
    <3> QED
      BY <2>1, <2>2, <3>2 DEF HasAnswer, Requests
  <2>3. CASE request.of = "unsubscribe"
    <3>1. request \in [of : {"unsubscribe"}, id : Nat, answered : BOOLEAN]
      BY <2>3, RequestFacts
    <3>2. request' \in [of : {"unsubscribe"}, id : Nat, answered : BOOLEAN] /\ request'.answered
          /\ request'.of = "unsubscribe" /\ request.id \in Nat /\ request'.id = request.id
      BY <2>1, <3>1
    <3> QED
      BY <2>1, <2>3, <3>2 DEF HasAnswer, Requests
  <2> QED
    BY <2>1, <2>2, <2>3
<1>3. PICK m \in Msg :
        /\ ~IsNotification(m) /\ stream' = stream \o Bytes(m)
        /\ DOMAIN subscriptions' \subseteq Nat
        /\ ended \subseteq ended'
        /\ \A j \in DOMAIN subscriptions' : j \in DOMAIN subscriptions \/ m = Success(j)
        /\ \A j \in Nat : m = Success(j) =>
             \/ request.of = "subscribe"
             \/ /\ request.of = "unsubscribe" /\ request.id = j
                /\ j \notin DOMAIN subscriptions' /\ j \in ended'
  <2>0. rpc_id \in Nat /\ DOMAIN subscriptions \subseteq Nat
    BY DEF ClientType
  <2>1. CASE /\ request.of = "subscribe" /\ subscriptions' = Enlist(subscriptions, rpc_id, request.topic)
             /\ stream' = stream \o Bytes(Success(rpc_id)) /\ UNCHANGED ended
    <3>1. DOMAIN subscriptions' = {rpc_id} \cup DOMAIN subscriptions
      <4>1. DOMAIN Enlist(subscriptions, rpc_id, request.topic) = {rpc_id} \cup DOMAIN subscriptions
        BY EnlistDomain
      <4> QED
        BY <2>1, <4>1
    <3>2. Success(rpc_id) \in Msg /\ ~IsNotification(Success(rpc_id))
      BY <2>0, MsgFacts
    <3> QED
      BY <2>0, <2>1, <3>1, <3>2
  <2>2. CASE /\ request.of = "unsubscribe"
             /\ subscriptions' = Restrict(subscriptions, DOMAIN subscriptions \ {request.id})
             /\ stream' = stream \o Bytes(Success(request.id)) /\ ended' = ended \cup {request.id}
    <3>1. DOMAIN subscriptions' = DOMAIN subscriptions \ {request.id}
      <4>1. DOMAIN Restrict(subscriptions, DOMAIN subscriptions \ {request.id}) = DOMAIN subscriptions \ {request.id}
        BY DelistDomain
      <4> QED
        BY <2>2, <4>1
    <3>2. request.id \in Nat
      BY <1>2, <2>2
    <3>3. Success(request.id) \in Msg /\ ~IsNotification(Success(request.id))
      BY <3>2, MsgFacts
    <3>4. \A j \in Nat : Success(request.id) = Success(j) => request.id = j
      BY <3>2, MsgFacts
    <3> QED
      BY <2>0, <2>2, <3>1, <3>3, <3>4
  <2>3. CASE stream' = stream \o Bytes(Failure) /\ UNCHANGED <<subscriptions, ended>>
    <3>1. Failure \in Msg /\ ~IsNotification(Failure) /\ \A j \in Nat : Failure # Success(j)
      BY MsgFacts
    <3> QED
      BY <2>0, <2>3, <3>1
  <2> QED
    BY <2>1, <2>2, <2>3 DEF Respond
<1>4. PICK r \in Seq(Msg) : r = Append(q, m) /\ Carries(inner', stream', lead, r)
                            /\ inner' \in Seq(ByteSet) /\ stream' \in Seq(ByteSet)
  BY <1>1, <1>3, SendsAMessage
<1>5. ClientType'
  BY <1>1, <1>2, <1>3, <1>4 DEF ClientType
<1>6. NotesOnly(q)
  BY <1>2 DEF StreamInv, AnswerInv
<1>7. AnswerInv(r)'
  <2>1. OneAnswer(r)
    BY <1>4, <1>6, AnswersAppend
  <2> QED
    BY <1>2, <2>1 DEF AnswerInv
<1>8. OnceInv(r)'
  <2>1. NotesOf(m) = <<>>
    BY <1>3 DEF NotesOf
  <2>2. Owed(r) = Owed(q) \o <<>> /\ Owed(q) \in Seq(Msg)
    BY <1>4, <2>1, OwedAppend
  <2>3. Owed(r) = Owed(q)
    BY <2>2, ConcatEmptySeq
  <2> QED
    BY <1>1, <1>2, <2>3 DEF StreamInv, OnceInv
<1>9. KnownInv(r)'
  <2>1. KnownInv(q)
    BY DEF StreamInv
  <2>2. KnownAhead(r, DOMAIN topic_list)
    <3>1. KnownAhead(q, DOMAIN topic_list)
      BY <2>1 DEF KnownInv
    <3> QED
      BY <1>3, <1>4, <3>1, KnownAppend
  <2>3. \A j \in Nat : Announces(r, j) <=> Announces(q, j) \/ m = Success(j)
    BY <1>4, KnownAppend
  <2>4. \A j \in DOMAIN subscriptions' : j \in DOMAIN topic_list \/ Announces(r, j)
    BY <1>3, <2>1, <2>3 DEF KnownInv
  <2>5. \A j \in Nat : ~Announces(q, j)
    BY <1>6, NoneAnnounced
  <2>6. ASSUME NEW j \in Nat, Announces(r, j), request.of # "subscribe" PROVE EndsNow(r, j)'
    <3>1. m = Success(j)
      BY <2>3, <2>5, <2>6
    <3>2. Silent(Append(q, m), j)
      BY <1>3, <2>5, SilentAppend
    <3> QED
      BY <1>2, <1>3, <1>4, <2>6, <3>1, <3>2 DEF EndsNow
  <2>7. KnownAside(pending_recv, DOMAIN topic_list \cup ended')
    BY <1>3, <2>1 DEF KnownInv, KnownAside
  <2> QED
    BY <1>1, <1>2, <2>2, <2>4, <2>6, <2>7 DEF KnownInv
<1> QED
  BY <1>4, <1>5, <1>7, <1>8, <1>9 DEF ClientInv, StreamInv

\* Bytes arrive
LEMMA ArriveStep ==
  ASSUME ClientType, NEW lead \in Lead, NEW q \in Seq(Msg), Carries(inner, stream, lead, q),
         StreamInv(q), Arrive
  PROVE  ClientInv'
<1>1. /\ subscriptions' = subscriptions /\ topic_list' = topic_list
      /\ pending_recv' = pending_recv /\ request' = request /\ rpc_id' = rpc_id
      /\ sent' = sent /\ got' = got /\ dropped' = dropped /\ ended' = ended
  BY DEF Arrive, handle
<1>2. PICK n \in 1..Len(stream) : /\ inner' = inner \o SubSeq(stream, 1, n)
                                  /\ stream' = SubSeq(stream, n + 1, Len(stream))
  BY DEF Arrive
<1>3. PICK buf \in Seq(ByteSet), rest \in Seq(ByteSet) : buf = inner /\ rest = stream
  BY DEF ClientType
<1>4. PICK head \in Seq(ByteSet), tail \in Seq(ByteSet) :
        head = SubSeq(rest, 1, n) /\ tail = SubSeq(rest, n + 1, Len(rest)) /\ head \o tail = rest
  BY <1>2, <1>3, SplitsIn
<1>5. (buf \o head) \o tail = buf \o (head \o tail) /\ buf \o head \in Seq(ByteSet)
  <2>1. Associates(buf, head, tail)
    BY ConcatsAssociate
  <2>2. buf \o head \in Seq(ByteSet)
    BY ConcatProperties
  <2> QED
    BY <2>1, <2>2 DEF Associates
<1>6. (buf \o head) \o tail = buf \o rest
  BY <1>4, <1>5
<1>7. inner' = buf \o head /\ stream' = tail
  BY <1>2, <1>3, <1>4
<1>8. Carries(inner', stream', lead, q)
  BY <1>3, <1>6, <1>7 DEF Carries
<1>9. ClientType'
  BY <1>1, <1>5, <1>7 DEF ClientType
<1>10. StreamInv(q)'
  BY <1>1 DEF StreamInv, AnswerInv, OnceInv, KnownInv, EndsNow, HasAnswer
<1> QED
  BY <1>8, <1>9, <1>10 DEF ClientInv

\* The client asks
LEMMA SendRequestStep ==
  ASSUME ClientType, NEW lead \in Lead, NEW q \in Seq(Msg), Carries(inner, stream, lead, q),
         StreamInv(q), NEW r \in Requests, r.of # "panicked", SendRequest(r)
  PROVE  ClientInv'
<1>1. /\ request = Idle /\ request' = r /\ rpc_id' = rpc_id + 1
      /\ subscriptions' = subscriptions /\ stream' = stream /\ sent' = sent /\ inner' = inner
      /\ topic_list' = topic_list /\ pending_recv' = pending_recv /\ got' = got
      /\ dropped' = dropped /\ ended' = ended
  BY DEF SendRequest, server
<1>2. ~HasAnswer /\ request.of = "nothing"
  BY <1>1, RequestFacts
<1>3. ClientType'
  <2>1. rpc_id + 1 \in Nat
    BY DEF ClientType
  <2> QED
    BY <1>1, <2>1 DEF ClientType
<1>4. NotesOnly(q)
  BY <1>2 DEF StreamInv, AnswerInv
<1>5. AnswerInv(q)'
  BY <1>4 DEF AnswerInv
<1>6. OnceInv(q)'
  BY <1>1, <1>2 DEF StreamInv, OnceInv
<1>7. KnownInv(q)'
  <2>1. KnownInv(q)
    BY DEF StreamInv
  <2>2. \A i \in Nat : ~Announces(q, i)
    BY <1>4, NoneAnnounced
  <2> QED
    BY <1>1, <2>1, <2>2 DEF KnownInv
<1> QED
  BY <1>1, <1>3, <1>5, <1>6, <1>7 DEF ClientInv, StreamInv

\* subscribe asks
LEMMA subscribeStep ==
  ASSUME ClientType, NEW lead \in Lead, NEW q \in Seq(Msg), Carries(inner, stream, lead, q),
         StreamInv(q), NEW topic \in Topics, subscribe(topic)
  PROVE  ClientInv'
<1>1. PICK r \in Requests : r.of # "panicked" /\ SendRequest(r)
  <2> DEFINE r == [of |-> "subscribe", topic |-> topic, answered |-> FALSE]
  <2>1. r \in [of : {"subscribe"}, topic : Topics, answered : BOOLEAN] /\ r.of # "panicked"
    OBVIOUS
  <2>2. SendRequest(r)
    BY DEF subscribe
  <2> HIDE DEF r
  <2> QED
    BY <2>1, <2>2 DEF Requests
<1> QED
  BY <1>1, SendRequestStep

\* so does unsubscribe
LEMMA unsubscribeStep ==
  ASSUME ClientType, NEW lead \in Lead, NEW q \in Seq(Msg), Carries(inner, stream, lead, q),
         StreamInv(q), NEW i \in DOMAIN topic_list, unsubscribe(i)
  PROVE  ClientInv'
<1>1. PICK r \in Requests : r.of # "panicked" /\ SendRequest(r)
  <2> DEFINE r == [of |-> "unsubscribe", id |-> i, answered |-> FALSE]
  <2>1. i \in Nat
    BY DEF ClientType
  <2>2. r \in [of : {"unsubscribe"}, id : Nat, answered : BOOLEAN] /\ r.of # "panicked"
    BY <2>1
  <2>3. SendRequest(r)
    BY DEF unsubscribe
  <2> HIDE DEF r
  <2> QED
    BY <2>2, <2>3 DEF Requests
<1> QED
  BY <1>1, SendRequestStep

\* The request takes a message and sets it aside
LEMMA SetAsideStep ==
  ASSUME ClientType, NEW lead \in Lead, NEW q \in Seq(Msg), Carries(inner, stream, lead, q),
         StreamInv(q), RecvAnswer, IsNotification(Message(Frame))
  PROVE  ClientInv'
<1>1. /\ decode(inner) # 0 /\ TakeFrame /\ pending_recv' = Append(pending_recv, Frame)
      /\ topic_list' = topic_list /\ request' = request
      /\ subscriptions' = subscriptions /\ stream' = stream /\ sent' = sent /\ rpc_id' = rpc_id
      /\ got' = got /\ dropped' = dropped /\ ended' = ended
  BY DEF RecvAnswer, SetAside, server
<1>2. /\ q # <<>> /\ Frame \in Seq(ByteSet) /\ Message(Frame) = Head(q) /\ inner' \in Seq(ByteSet)
      /\ \E l \in Lead : Carries(inner', stream', l, Tail(q))
  BY <1>1, TakesAMessage
<1>3. PICK r \in Seq(Msg), m \in Msg, l \in Lead :
        r = Tail(q) /\ m = Head(q) /\ Carries(inner', stream', l, r)
  BY <1>2, MessageFirst
<1>4. Frame \in Frames /\ IsNotification(m) /\ Message(Frame) = m
  BY <1>2, <1>3 DEF Frames
<1>5. pending_recv \in Seq(Frames)
  BY DEF ClientType
<1>6. pending_recv' \in Seq(Frames) /\ Asides(pending_recv') = Asides(pending_recv) \o <<m>>
  <2>1. /\ Append(pending_recv, Frame) \in Seq(Frames)
        /\ Asides(Append(pending_recv, Frame)) = Asides(pending_recv) \o <<Message(Frame)>>
    BY <1>4, <1>5, AsidesAppend
  <2> QED
    BY <1>1, <1>4, <2>1
<1>7. ClientType'
  BY <1>1, <1>2, <1>6 DEF ClientType
<1>8. AnswerInv(r)'
  <2>1. (NotesOnly(q) => NotesOnly(r)) /\ (OneAnswer(q) => OneAnswer(r))
    BY <1>2, <1>3, AnswersTail
  <2> QED
    BY <1>1, <2>1 DEF StreamInv, AnswerInv, HasAnswer
<1>9. OnceInv(r)'
  <2>1. PICK o \in Seq(Msg) : o = <<m>>
    <3>1. <<m>> \in Seq(Msg)
      OBVIOUS
    <3> QED
      BY <3>1
  <2>2. Owed(q) = o \o Owed(r)
    <3>1. NotesOf(m) = o
      BY <1>4, <2>1 DEF NotesOf
    <3> QED
      BY <1>2, <1>3, <3>1, OwedTail
  <2>3. PICK a \in Seq(Msg), b \in Seq(Msg), c \in Seq(Msg), d \in Seq(Msg) :
          a = got /\ b = Asides(pending_recv) /\ c = Owed(r) /\ d = sent
    BY OnceTyped
  <2>4. Accounts(a, b, o \o c, d) => Accounts(a, b \o o, c, d)
    BY AccountsAside
  <2> QED
    BY <1>1, <1>6, <2>1, <2>2, <2>3, <2>4 DEF StreamInv, OnceInv
<1>10. KnownInv(r)'
  <2>1. KnownInv(q)
    BY DEF StreamInv
  <2>2. KnownAhead(q, DOMAIN topic_list)
    BY <2>1 DEF KnownInv
  <2>3. \A i \in Nat : m # Success(i)
    BY <1>4, MsgFacts
  <2>4. \A i \in Nat : Announces(q, i) <=> Announces(r, i)
    <3>1. \A i \in Nat : Announces(q, i) <=> Head(q) = Success(i) \/ Announces(Tail(q), i)
      BY <1>2, KnownTail
    <3> QED
      BY <1>3, <2>3, <3>1
  <2>5. m[2] \in DOMAIN topic_list
    BY <1>2, <1>3, <1>4, <2>2, KnownHead
  <2>6. KnownAhead(r, DOMAIN topic_list)
    BY <1>2, <1>3, <2>2, <2>3, KnownTail
  <2>7. KnownAside(pending_recv', DOMAIN topic_list \cup ended)
    <3>1. KnownAside(pending_recv, DOMAIN topic_list \cup ended)
      BY <2>1 DEF KnownInv
    <3>2. PICK D : D = DOMAIN topic_list \cup ended
      OBVIOUS
    <3>3. KnownAside(Append(pending_recv, Frame), D)
      BY <1>4, <1>5, <2>5, <3>1, <3>2, AsidesAppend
    <3> QED
      BY <1>1, <3>2, <3>3
  <2>8. DOMAIN subscriptions \subseteq Nat
    BY DEF ClientType
  <2>9. ASSUME NEW i \in Nat, EndsNow(q, i) PROVE EndsNow(r, i)
    <3>1. Silent(Tail(q), i)
      BY <1>2, <2>9, SilentTail DEF EndsNow
    <3> QED
      BY <1>3, <2>9, <3>1 DEF EndsNow
  <2>10. \A i \in Nat : Announces(r, i) => request.of = "subscribe" \/ EndsNow(r, i)
    BY <2>1, <2>4, <2>9 DEF KnownInv
  <2> QED
    BY <1>1, <2>1, <2>4, <2>6, <2>7, <2>8, <2>10 DEF KnownInv, EndsNow
<1> QED
  BY <1>3, <1>7, <1>8, <1>9, <1>10 DEF ClientInv, StreamInv

\* The request takes its answer
LEMMA AnswerStep ==
  ASSUME ClientType, NEW lead \in Lead, NEW q \in Seq(Msg), Carries(inner, stream, lead, q),
         StreamInv(q), RecvAnswer, ~IsNotification(Message(Frame))
  PROVE  ClientInv'
<1> DEFINE m == Message(Frame)
<1>1. /\ request.of \in {"subscribe", "unsubscribe"}
      /\ decode(inner) # 0 /\ TakeFrame /\ pending_recv' = pending_recv
      /\ request' = (IF m = Failure /\ request.of = "subscribe" THEN [of |-> "failed"] ELSE Idle)
      /\ topic_list' = (IF m = Failure THEN topic_list
                        ELSE IF request.of = "subscribe" THEN Enlist(topic_list, m[2], request.topic)
                        ELSE Restrict(topic_list, DOMAIN topic_list \ {request.id}))
      /\ subscriptions' = subscriptions /\ stream' = stream /\ sent' = sent /\ rpc_id' = rpc_id
      /\ got' = got /\ dropped' = dropped /\ ended' = ended
  BY DEF RecvAnswer, Listed, server
<1>2. /\ q # <<>> /\ m = Head(q) /\ inner' \in Seq(ByteSet)
      /\ \E l \in Lead : Carries(inner', stream', l, Tail(q))
  BY <1>1, TakesAMessage
<1> HIDE DEF m
<1>3. PICK r \in Seq(Msg), l \in Lead : r = Tail(q) /\ Carries(inner', stream', l, r) /\ m \in Msg
  BY <1>2, MessageFirst
<1>4. ~IsNotification(m) /\ (m # Failure => m[2] \in Nat /\ m = Success(m[2]))
  BY <1>3, MsgFacts DEF m
<1>5. request' \in Requests /\ request'.of # "panicked" /\ request.of # "panicked"
  BY <1>1 DEF Requests, Idle
<1>6. DOMAIN topic_list \subseteq Nat /\ DOMAIN topic_list' \subseteq Nat
  <2>1. DOMAIN topic_list \subseteq Nat
    BY DEF ClientType
  <2>2. DOMAIN Restrict(topic_list, DOMAIN topic_list \ {request.id}) \subseteq Nat
    <3>1. DOMAIN Restrict(topic_list, DOMAIN topic_list \ {request.id}) = DOMAIN topic_list \ {request.id}
      BY DelistDomain
    <3> QED
      BY <2>1, <3>1
  <2>3. m # Failure => DOMAIN Enlist(topic_list, m[2], request.topic) \subseteq Nat
    <3>1. DOMAIN Enlist(topic_list, m[2], request.topic) = {m[2]} \cup DOMAIN topic_list
      BY EnlistDomain
    <3> QED
      BY <1>4, <2>1, <3>1
  <2> QED
    BY <1>1, <2>1, <2>2, <2>3
<1>7. ClientType'
  BY <1>1, <1>2, <1>5, <1>6 DEF ClientType
<1>8. NotesOnly(r)
  <2>1. OneAnswer(q)
    <3>1. ~NotesOnly(q)
      BY <1>2, <1>4, AnswersTail
    <3> QED
      BY <3>1 DEF StreamInv, AnswerInv
  <2> QED
    BY <1>2, <1>3, <1>4, <2>1, AnswersTail
<1>9. AnswerInv(r)'
  BY <1>8 DEF AnswerInv
<1>10. OnceInv(r)'
  <2>1. NotesOf(m) = <<>>
    BY <1>4 DEF NotesOf
  <2>2. Owed(q) = <<>> \o Owed(r) /\ Owed(r) \in Seq(Msg)
    BY <1>2, <1>3, <2>1, OwedTail
  <2>3. Owed(q) = Owed(r)
    BY <2>2, ConcatEmptySeq
  <2> QED
    BY <1>1, <1>5, <2>3 DEF StreamInv, OnceInv
<1>11. KnownInv(r)'
  <2>1. KnownInv(q)
    BY DEF StreamInv
  <2>2. \A i \in Nat : Announces(q, i) <=> m = Success(i) \/ Announces(r, i)
    BY <1>2, <1>3, KnownTail
  <2>3. \A i \in Nat : ~Announces(r, i)
    BY <1>8, NoneAnnounced
  <2>4. DOMAIN subscriptions \subseteq Nat
    BY DEF ClientType
  <2>5. KnownAhead(q, DOMAIN topic_list)
    BY <2>1 DEF KnownInv
  <2>6. PICK D, F : D = DOMAIN topic_list /\ F = DOMAIN topic_list'
    OBVIOUS
  <2>7. CASE m = Failure
    <3>1. F = D /\ \A i \in Nat : m # Success(i)
      BY <1>1, <2>6, <2>7, MsgFacts
    <3>2. KnownAhead(Tail(q), D)
      BY <1>2, <2>5, <2>6, <3>1, KnownTail
    <3>3. \A i \in DOMAIN subscriptions : i \in F
      BY <2>1, <2>2, <2>3, <2>4, <2>6, <3>1 DEF KnownInv
    <3> QED
      BY <1>1, <1>3, <2>1, <2>3, <2>6, <3>1, <3>2, <3>3 DEF KnownInv
  <2>8. CASE m # Failure /\ request.of = "subscribe"
    <3>1. F = {m[2]} \cup D
      <4>1. topic_list' = Enlist(topic_list, m[2], request.topic)
        BY <1>1, <2>8
      <4>2. DOMAIN Enlist(topic_list, m[2], request.topic) = {m[2]} \cup DOMAIN topic_list
        BY EnlistDomain
      <4> QED
        BY <2>6, <4>1, <4>2
    <3>2. \A i \in Nat : m = Success(i) => i \in F
      <4>1. \A i \in Nat : m = Success(i) => i = m[2]
        BY MsgFacts
      <4> QED
        BY <3>1, <4>1
    <3>3. KnownAhead(Tail(q), F)
      BY <1>2, <2>5, <2>6, <3>1, <3>2, KnownTail
    <3>4. \A i \in DOMAIN subscriptions : i \in F
      BY <2>1, <2>2, <2>3, <2>4, <2>6, <3>1, <3>2 DEF KnownInv
    <3>5. KnownAside(pending_recv, F \cup ended)
      BY <2>1, <2>6, <3>1 DEF KnownInv, KnownAside
    <3> QED
      BY <1>1, <1>3, <2>3, <2>6, <3>3, <3>4, <3>5 DEF KnownInv
  <2>9. CASE m # Failure /\ request.of # "subscribe"
    <3>1. PICK i \in Nat : i = m[2] /\ m = Success(i)
      BY <1>4, <2>9
    <3>2. EndsNow(q, i)
      BY <2>1, <2>2, <2>9, <3>1 DEF KnownInv
    <3>3. F = D \ {i}
      <4>1. topic_list' = Restrict(topic_list, DOMAIN topic_list \ {request.id})
        BY <1>1, <2>9
      <4>2. DOMAIN Restrict(topic_list, DOMAIN topic_list \ {request.id})
              = DOMAIN topic_list \ {request.id}
        BY DelistDomain
      <4> QED
        BY <2>6, <3>2, <4>1, <4>2 DEF EndsNow
    <3>4. \A j \in Nat : m = Success(j) => j = i
      BY <3>1, MsgFacts
    <3>5. PICK E : E = D \cup {i} /\ F = E \ {i}
      BY <3>3
    <3>6. KnownAhead(r, F)
      <4>1. KnownAhead(Tail(q), E)
        BY <1>2, <2>5, <2>6, <3>4, <3>5, KnownTail
      <4>2. \A a \in 1..Len(Tail(q)) : ~(IsNotification(Tail(q)[a]) /\ Tail(q)[a][2] = i)
        BY <1>2, <3>1, <3>2, SilentTail DEF EndsNow
      <4> QED
        BY <1>3, <1>8, <3>5, <4>1, <4>2, KnownWithout
    <3>7. \A j \in DOMAIN subscriptions : j \in F
      BY <2>1, <2>2, <2>3, <2>4, <2>6, <3>2, <3>3, <3>4 DEF KnownInv, EndsNow
    <3>8. KnownAside(pending_recv, F \cup ended)
      BY <2>1, <2>6, <3>2, <3>3 DEF KnownInv, KnownAside, EndsNow
    <3> QED
      BY <1>1, <1>3, <2>3, <2>6, <3>6, <3>7, <3>8 DEF KnownInv
  <2> QED
    BY <2>7, <2>8, <2>9
<1> QED
  BY <1>3, <1>7, <1>9, <1>10, <1>11 DEF ClientInv, StreamInv

\* The conversion into a client
LEMMA IntoClientStep ==
  ASSUME ClientType, NEW lead \in Lead, NEW q \in Seq(Msg), Carries(inner, stream, lead, q),
         StreamInv(q), IntoClient
  PROVE  ClientInv'
<1>1. /\ dropped' = TRUE /\ pending_recv' = <<>>
      /\ subscriptions' = subscriptions /\ stream' = stream /\ sent' = sent /\ inner' = inner
      /\ topic_list' = topic_list /\ request' = request /\ rpc_id' = rpc_id
      /\ got' = got /\ ended' = ended
  BY DEF IntoClient, server
<1>2. ClientType'
  <2>1. <<>> \in Seq(Frames)
    OBVIOUS
  <2> QED
    BY <1>1, <2>1 DEF ClientType
<1>3. AnswerInv(q)'
  BY <1>1 DEF StreamInv, AnswerInv, HasAnswer
<1>4. OnceInv(q)'
  BY <1>1 DEF OnceInv
<1>5. KnownInv(q)'
  <2>1. \A D : KnownAside(<<>>, D)
    BY DEF KnownAside
  <2> QED
    BY <1>1, <2>1 DEF StreamInv, KnownInv, EndsNow
<1> QED
  BY <1>1, <1>2, <1>3, <1>4, <1>5 DEF ClientInv, StreamInv

\* The stream yields what was set aside
LEMMA PollPendingStep ==
  ASSUME ClientType, NEW lead \in Lead, NEW q \in Seq(Msg), Carries(inner, stream, lead, q),
         StreamInv(q), PollPending
  PROVE  ClientInv' /\ (request'.of = "panicked" => Message(Head(pending_recv))[2] \in ended)
<1> DEFINE m == Message(Head(pending_recv))
<1>1. /\ request = Idle /\ pending_recv # <<>> /\ pending_recv' = Tail(pending_recv)
      /\ subscriptions' = subscriptions /\ stream' = stream /\ sent' = sent /\ inner' = inner
      /\ topic_list' = topic_list /\ rpc_id' = rpc_id /\ dropped' = dropped /\ ended' = ended
  BY DEF PollPending, server
<1>2. IF m[2] \in DOMAIN topic_list THEN got' = Append(got, m) /\ request' = request
      ELSE request' = [of |-> "panicked"] /\ got' = got
  BY DEF PollPending, Yield
<1>3. pending_recv \in Seq(Frames) /\ got \in Seq(Msg)
  BY DEF ClientType
<1>4. /\ pending_recv' \in Seq(Frames) /\ m \in Msg
      /\ Asides(pending_recv) = <<m>> \o Asides(pending_recv')
      /\ KnownAside(pending_recv', DOMAIN topic_list \cup ended)
      /\ m[2] \in DOMAIN topic_list \cup ended
  <2> HIDE DEF m
  <2>0. PICK D : D = DOMAIN topic_list \cup ended /\ KnownAside(pending_recv, D)
    BY DEF StreamInv, KnownInv
  <2>1. PICK p \in Seq(Frames) : p = pending_recv /\ p # <<>>
    BY <1>1, <1>3
  <2>2. /\ Tail(p) \in Seq(Frames) /\ Message(Head(p)) \in Msg
        /\ Asides(p) = <<Message(Head(p))>> \o Asides(Tail(p))
        /\ KnownAside(p, D) => KnownAside(Tail(p), D) /\ Message(Head(p))[2] \in D
    BY <2>1, AsidesTail
  <2> QED
    BY <1>1, <2>0, <2>1, <2>2 DEF m
<1> HIDE DEF m
<1>5. ~HasAnswer /\ request.of = "nothing" /\ NotesOnly(q)
  BY <1>1, RequestFacts DEF StreamInv, AnswerInv
<1>6. AnswerInv(q)'
  BY <1>5 DEF AnswerInv
<1>7. PICK o \in Seq(Msg) : o = <<m>> /\ Append(got, m) = got \o o /\ Append(got, m) \in Seq(Msg)
  <2>1. <<m>> \in Seq(Msg)
    BY <1>4
  <2>2. Append(got, m) = got \o <<m>> /\ Append(got, m) \in Seq(Msg)
    BY <1>3, <1>4, AppendIsConcat, AppendProperties
  <2> QED
    BY <2>1, <2>2
<1>8. KnownInv(q)'
  <2>1. \A i \in Nat : ~Announces(q, i)
    BY <1>5, NoneAnnounced
  <2> QED
    BY <1>1, <1>4, <2>1 DEF StreamInv, KnownInv
<1>9. CASE m[2] \in DOMAIN topic_list
  <2>1. got' = got \o o /\ request' = request /\ got' \in Seq(Msg)
    BY <1>2, <1>7, <1>9
  <2>2. ClientType'
    BY <1>1, <1>4, <2>1 DEF ClientType
  <2>3. OnceInv(q)'
    <3>1. PICK a \in Seq(Msg), b \in Seq(Msg), c \in Seq(Msg), d \in Seq(Msg) :
            a = got /\ b = Asides(pending_recv') /\ c = Owed(q) /\ d = sent
      <4>1. Asides(pending_recv') \in Seq(Msg)
        BY <1>4, AsidesFacts
      <4> QED
        BY <4>1, OnceTyped
    <3>2. Accounts(a, o \o b, c, d) => Accounts(a \o o, b, c, d)
      BY AccountsYield
    <3> QED
      BY <1>1, <1>4, <1>7, <2>1, <3>1, <3>2 DEF StreamInv, OnceInv
  <2>4. request'.of # "panicked"
    BY <1>5, <2>1
  <2> QED
    BY <1>1, <1>6, <1>8, <2>2, <2>3, <2>4 DEF ClientInv, StreamInv
<1>10. CASE m[2] \notin DOMAIN topic_list
  <2>1. request' = [of |-> "panicked"] /\ got' = got
    BY <1>2, <1>10
  <2>2. ClientType'
    BY <1>1, <1>4, <2>1 DEF ClientType, Requests
  <2>3. OnceInv(q)'
    BY <2>1 DEF OnceInv
  <2>4. m[2] \in ended
    BY <1>4, <1>10
  <2> QED
    BY <1>1, <1>6, <1>8, <2>2, <2>3, <2>4 DEF ClientInv, StreamInv, m
<1> QED
  BY <1>9, <1>10

\* The stream yields what has arrived
LEMMA PollStreamStep ==
  ASSUME ClientType, NEW lead \in Lead, NEW q \in Seq(Msg), Carries(inner, stream, lead, q),
         StreamInv(q), PollStream
  PROVE  ClientInv' /\ request'.of # "panicked"
<1> DEFINE m == Message(Frame)
<1>1. /\ request = Idle /\ pending_recv = <<>> /\ pending_recv' = pending_recv
      /\ decode(inner) # 0 /\ TakeFrame
      /\ subscriptions' = subscriptions /\ stream' = stream /\ sent' = sent
      /\ topic_list' = topic_list /\ rpc_id' = rpc_id /\ dropped' = dropped /\ ended' = ended
  BY DEF PollStream, server
<1>2. IF m[2] \in DOMAIN topic_list THEN got' = Append(got, m) /\ request' = request
      ELSE request' = [of |-> "panicked"] /\ got' = got
  BY DEF PollStream, Yield
<1>3. /\ q # <<>> /\ m = Head(q) /\ inner' \in Seq(ByteSet)
      /\ \E l \in Lead : Carries(inner', stream', l, Tail(q))
  BY <1>1, TakesAMessage
<1> HIDE DEF m
<1>4. PICK r \in Seq(Msg), l \in Lead : r = Tail(q) /\ Carries(inner', stream', l, r) /\ m \in Msg
  BY <1>3, MessageFirst
<1>5. ~HasAnswer /\ request.of = "nothing" /\ NotesOnly(q)
  BY <1>1, RequestFacts DEF StreamInv, AnswerInv
<1>6. IsNotification(m) /\ NotesOnly(r)
  BY <1>3, <1>4, <1>5, AnswersTail
<1>7. AnswerInv(r)'
  BY <1>6 DEF AnswerInv
<1>8. got \in Seq(Msg) /\ Asides(pending_recv) = <<>>
  BY <1>1, AsidesFacts DEF ClientType
<1>9. PICK o \in Seq(Msg) : o = <<m>> /\ Append(got, m) = got \o o /\ Append(got, m) \in Seq(Msg)
  <2>1. <<m>> \in Seq(Msg)
    BY <1>4
  <2>2. Append(got, m) = got \o <<m>> /\ Append(got, m) \in Seq(Msg)
    BY <1>4, <1>8, AppendIsConcat, AppendProperties
  <2> QED
    BY <2>1, <2>2
<1>10. Owed(q) = o \o Owed(r)
  <2>1. NotesOf(m) = o
    BY <1>6, <1>9 DEF NotesOf
  <2> QED
    BY <1>3, <1>4, <2>1, OwedTail
<1>11. /\ m[2] \in DOMAIN topic_list /\ KnownAhead(r, DOMAIN topic_list)
       /\ \A i \in Nat : Announces(q, i) <=> Announces(r, i)
  <2>1. KnownAhead(q, DOMAIN topic_list)
    BY DEF StreamInv, KnownInv
  <2>2. \A i \in Nat : m # Success(i)
    BY <1>6, MsgFacts
  <2>3. \A i \in Nat : Announces(q, i) <=> Head(q) = Success(i) \/ Announces(Tail(q), i)
    BY <1>3, KnownTail
  <2>4. m[2] \in DOMAIN topic_list
    BY <1>3, <1>6, <2>1, KnownHead
  <2>5. KnownAhead(r, DOMAIN topic_list)
    BY <1>3, <1>4, <2>1, <2>2, KnownTail
  <2> QED
    BY <1>3, <1>4, <2>2, <2>3, <2>4, <2>5
<1>12. got' = got \o o /\ request' = request /\ got' \in Seq(Msg)
  BY <1>2, <1>9, <1>11
<1>13. ClientType'
  BY <1>1, <1>3, <1>12 DEF ClientType
<1>14. OnceInv(r)'
  <2>1. PICK a \in Seq(Msg), b \in Seq(Msg), c \in Seq(Msg), d \in Seq(Msg) :
          a = got /\ b = Asides(pending_recv) /\ c = Owed(r) /\ d = sent
    BY OnceTyped
  <2>2. Accounts(a, b, o \o c, d) => Accounts(a, b \o o, c, d)
    BY AccountsAside
  <2>3. b \o o = o \o b
    BY <1>8, <2>1, ConcatEmptySeq
  <2>4. Accounts(a, o \o b, c, d) => Accounts(a \o o, b, c, d)
    BY AccountsYield
  <2>5. Accounts(a, b, o \o c, d) => Accounts(a \o o, b, c, d)
    BY <2>2, <2>3, <2>4
  <2> QED
    BY <1>1, <1>9, <1>10, <1>12, <2>1, <2>5 DEF StreamInv, OnceInv
<1>15. KnownInv(r)'
  <2>1. DOMAIN subscriptions \subseteq Nat
    BY DEF ClientType
  <2>2. \A i \in Nat : ~Announces(q, i)
    BY <1>5, NoneAnnounced
  <2> QED
    BY <1>1, <1>11, <1>12, <2>1, <2>2 DEF StreamInv, KnownInv
<1>16. request'.of # "panicked"
  BY <1>5, <1>12
<1> QED
  BY <1>4, <1>7, <1>13, <1>14, <1>15, <1>16 DEF ClientInv, StreamInv

----------------------------------------------------------------------------
(* The theorems *)

\* the invariant holds of a client without subscriptions
LEMMA ClientStarts == ClientInit => ClientInv
<1> SUFFICES ASSUME ClientInit PROVE ClientInv
  OBVIOUS
<1>1. <<>> \in Seq(ByteSet) /\ <<>> \in Seq(Msg) /\ <<>> \in Seq(Frames) /\ DOMAIN <<>> = {} /\ Len(<<>>) = 0
  OBVIOUS
<1>2. ClientType
  BY <1>1 DEF ClientInit, ClientType, Requests
<1>3. <<>> \o <<>> = <<>>
  BY <1>1, ConcatEmptySeq
<1>4. <<>> \in Lead /\ Carries(inner, stream, <<>>, <<>>)
  BY <1>3, WireNone DEF ClientInit, Carries, Lead
<1>5. NotesOnly(<<>>) /\ (\A i \in Nat : ~Announces(<<>>, i)) /\ KnownAhead(<<>>, {}) /\ KnownAside(<<>>, {})
  <2>1. \A a \in 1..0 : FALSE
    OBVIOUS
  <2> QED
    BY <1>1, <2>1 DEF NotesOnly, Announces, KnownAhead, KnownAside
<1>6. Asides(<<>>) = <<>>
  BY <1>1, AsidesFacts
<1>7. Owed(<<>>) = <<>>
  <2>1. <<>> \in Lead
    BY DEF Lead
  <2> QED
    BY <2>1, WireNone, InFlightOfLead DEF Owed
<1>8. OnceInv(<<>>)
  BY <1>3, <1>6, <1>7 DEF OnceInv, Accounts, ClientInit
<1>9. KnownInv(<<>>)
  <2>1. \A D : KnownAside(<<>>, D) /\ KnownAhead(<<>>, D)
    BY <1>1 DEF KnownAside, KnownAhead
  <2> QED
    BY <1>1, <1>5, <2>1 DEF KnownInv, ClientInit
<1> QED
  BY <1>1, <1>2, <1>4, <1>5, <1>8, <1>9 DEF ClientInv, StreamInv, AnswerInv

\* every step keeps it
LEMMA ClientSteps == ClientInv /\ [ClientNext]_svars => ClientInv'
<1> SUFFICES ASSUME ClientInv, [ClientNext]_svars PROVE ClientInv'
  OBVIOUS
<1>1. ClientType
  BY DEF ClientInv
<1>2. PICK q \in Seq(Msg), lead \in Lead : Carries(inner, stream, lead, q) /\ StreamInv(q)
  BY DEF ClientInv
<1>3. ASSUME NEW i \in DOMAIN subscriptions, Notify(i) PROVE ClientInv'
  BY <1>1, <1>2, <1>3, NotifyStep
<1>4. CASE Respond
  BY <1>1, <1>2, <1>4, RespondStep
<1>5. CASE Arrive
  BY <1>1, <1>2, <1>5, ArriveStep
<1>6. ASSUME NEW topic \in Topics, subscribe(topic) PROVE ClientInv'
  BY <1>1, <1>2, <1>6, subscribeStep
<1>7. ASSUME NEW i \in DOMAIN topic_list, unsubscribe(i) PROVE ClientInv'
  BY <1>1, <1>2, <1>7, unsubscribeStep
<1>8. CASE RecvAnswer
  <2>1. CASE IsNotification(Message(Frame))
    BY <1>1, <1>2, <1>8, <2>1, SetAsideStep
  <2>2. CASE ~IsNotification(Message(Frame))
    BY <1>1, <1>2, <1>8, <2>2, AnswerStep
  <2> QED
    BY <2>1, <2>2
<1>9. CASE IntoClient
  BY <1>1, <1>2, <1>9, IntoClientStep
<1>10. CASE PollPending
  BY <1>1, <1>2, <1>10, PollPendingStep
<1>11. CASE PollStream
  BY <1>1, <1>2, <1>11, PollStreamStep
<1>12. CASE UNCHANGED svars
  <2>1. /\ subscriptions' = subscriptions /\ stream' = stream /\ sent' = sent /\ inner' = inner
        /\ topic_list' = topic_list /\ pending_recv' = pending_recv /\ request' = request
        /\ rpc_id' = rpc_id /\ got' = got /\ dropped' = dropped /\ ended' = ended
    BY <1>12 DEF svars, server, handle
  <2>2. ClientType'
    BY <1>1, <2>1 DEF ClientType
  <2>3. StreamInv(q)'
    BY <1>2, <2>1 DEF StreamInv, AnswerInv, OnceInv, KnownInv, EndsNow, HasAnswer
  <2>4. Carries(inner', stream', lead, q)
    BY <1>2, <2>1
  <2> QED
    BY <2>2, <2>3, <2>4 DEF ClientInv
<1> QED
  BY <1>3, <1>4, <1>5, <1>6, <1>7, <1>8, <1>9, <1>10, <1>11, <1>12 DEF ClientNext

\* The client's invariant: the bytes that have arrived and those under way are whole
\* messages, at most one of them an answer; subscribe/mod.rs:126-163, 338-395.
THEOREM ClientInvariant == ClientSpec => []ClientInv
<1>1. ClientInit => ClientInv
  BY ClientStarts
<1>2. ClientInv /\ [ClientNext]_svars => ClientInv'
  BY ClientSteps
<1> QED
  BY <1>1, <1>2, PTL DEF ClientSpec

\* what arrived and what is under way is what is owed
LEMMA OnceFollows == ClientInv => EachNotificationOnce
<1> SUFFICES ASSUME ClientInv, ~dropped, request.of # "panicked"
             PROVE  got \o SetAsideNow \o InFlight(inner \o stream) = sent
  BY DEF EachNotificationOnce
<1>1. ClientType
  BY DEF ClientInv
<1>2. PICK q \in Seq(Msg), lead \in Lead : Carries(inner, stream, lead, q) /\ StreamInv(q)
  BY DEF ClientInv
<1>3. PICK buf \in Seq(ByteSet), rest \in Seq(ByteSet) : buf = inner /\ rest = stream
  BY <1>1 DEF ClientType
<1>4. InFlight(buf \o rest) = Owed(q)
  <2>1. Carries(buf, rest, lead, q)
    BY <1>2, <1>3
  <2> QED
    BY <2>1, OwedIsInFlight
<1>5. Accounts(got, Asides(pending_recv), Owed(q), sent)
  BY <1>2 DEF StreamInv, OnceInv
<1>6. PICK a, b, c, d : /\ a = got /\ b = Asides(pending_recv) /\ c = Owed(q) /\ d = sent
                        /\ Accounts(a, b, c, d)
  BY <1>5
<1>7. a \o b \o c = d
  BY <1>6 DEF Accounts
<1>8. b = SetAsideNow
  BY <1>6 DEF Asides, SetAsideNow
<1>9. c = InFlight(inner \o stream)
  BY <1>3, <1>4, <1>6
<1> QED
  BY <1>6, <1>7, <1>8, <1>9

\* Every notification of the node is yielded once and in order, however the connection
\* cuts the bytes and whichever requests were waiting, unless a conversion threw away
\* what was set aside; subscribe/mod.rs:126-163, 338-344, 391-395.
THEOREM EachNotificationOnceHolds == ClientSpec => []EachNotificationOnce
<1>1. ClientInv => EachNotificationOnce
  BY OnceFollows
<1> QED
  BY <1>1, ClientInvariant, PTL

\* a step that makes the client panic
LEMMA PanicsOver ==
  ASSUME ClientInv, ClientNext, request.of # "panicked", request'.of = "panicked"
  PROVE  /\ pending_recv # <<>> /\ pending_recv' = Tail(pending_recv)
         /\ Message(Head(pending_recv))[2] \in ended
<1>1. ClientType
  BY DEF ClientInv
<1>2. PICK q \in Seq(Msg), lead \in Lead : Carries(inner, stream, lead, q) /\ StreamInv(q)
  BY DEF ClientInv
<1>3. request' # request /\ request' # Idle
  BY DEF Idle
<1>4. ASSUME NEW i \in DOMAIN subscriptions, Notify(i) PROVE FALSE
  BY <1>3, <1>4 DEF Notify, handle
<1>5. CASE Respond
  <2>1. request'.of = request.of
    <3>1. request.of \in {"subscribe", "unsubscribe"} /\ request' = [request EXCEPT !.answered = TRUE]
      BY <1>5 DEF Respond
    <3>2. \/ request \in [of : {"subscribe"}, topic : Topics, answered : BOOLEAN]
          \/ request \in [of : {"unsubscribe"}, id : Nat, answered : BOOLEAN]
      BY <1>1, <3>1, RequestFacts
    <3> QED
      BY <3>1, <3>2
  <2> QED
    BY <2>1
<1>6. CASE Arrive
  BY <1>3, <1>6 DEF Arrive, handle
<1>7. ASSUME NEW topic \in Topics, subscribe(topic) PROVE FALSE
  <2>1. request' = [of |-> "subscribe", topic |-> topic, answered |-> FALSE]
    BY <1>7 DEF subscribe, SendRequest
  <2> QED
    BY <2>1
<1>8. ASSUME NEW i \in DOMAIN topic_list, unsubscribe(i) PROVE FALSE
  <2>1. request' = [of |-> "unsubscribe", id |-> i, answered |-> FALSE]
    BY <1>8 DEF unsubscribe, SendRequest
  <2> QED
    BY <2>1
<1>9. CASE RecvAnswer
  <2>1. request' \in {request, Idle, [of |-> "failed"]}
    BY <1>9 DEF RecvAnswer
  <2> QED
    BY <1>3, <2>1
<1>10. CASE IntoClient
  BY <1>3, <1>10 DEF IntoClient
<1>11. CASE PollPending
  <2>1. pending_recv # <<>> /\ pending_recv' = Tail(pending_recv)
    BY <1>11 DEF PollPending
  <2>2. Message(Head(pending_recv))[2] \in ended
    BY <1>1, <1>2, <1>11, PollPendingStep
  <2> QED
    BY <2>1, <2>2
<1>12. CASE PollStream
  BY <1>1, <1>2, <1>12, PollStreamStep
<1> QED
  BY <1>4, <1>5, <1>6, <1>7, <1>8, <1>9, <1>10, <1>11, <1>12 DEF ClientNext

\* poll_next panics, subscribe/mod.rs:387, over nothing but a notification that a request
\* had set aside, of a subscription that the client has ended since; whatever it reads
\* from the connection has its topic in the list.
THEOREM PanicsOnlyOverEndedAndSetAsideHolds == ClientSpec => PanicsOnlyOverEndedAndSetAside
<1>1. ClientInv /\ [ClientNext]_svars =>
        [request.of # "panicked" /\ request'.of = "panicked" =>
           /\ pending_recv # <<>> /\ pending_recv' = Tail(pending_recv)
           /\ Message(Head(pending_recv))[2] \in ended]_svars
  BY PanicsOver
<1>2. ClientSpec => []ClientInv
  BY ClientInvariant
<1> QED
  BY <1>1, <1>2, PTL DEF ClientSpec, PanicsOnlyOverEndedAndSetAside

=============================================================================

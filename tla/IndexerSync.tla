---------------------------- MODULE IndexerSync ----------------------------
(***************************************************************************)
(* Node::wait_for_indexer_synced (ckb-testkit/src/node/indexer.rs): the    *)
(* embedded indexer follows the main chain of its node, block by block,    *)
(* with one RPC to find out whether to append, to roll back or to stop.    *)
(* The node grows and reorganises its chain between any two of them.       *)
(*                                                                         *)
(* A block is the sequence of what distinguishes it and its ancestors from *)
(* their siblings, as its hash commits to all of them: the parent of b is  *)
(* Front(b), its number is Len(b), the genesis block is <<>>.  The indexer *)
(* is the sequence of the blocks it holds; the library appends and rolls   *)
(* back what it is told to, and checks nothing.                            *)
(***************************************************************************)
EXTENDS Naturals, Sequences, SequencesExt

CONSTANTS
  Sibling,     \* what distinguishes blocks with one parent
  MaxNumber,   \* bound: height of the chain
  MaxReorgs    \* bound: reorganisations

VARIABLES
  tip_block,   \* tip of the node's main chain
  reorgs,      \* reorganisations so far
  indexer,     \* blocks in the indexer, the genesis block first
  answer,      \* what get_block_by_number(tip + 1) has returned
  syncing      \* the loop goes on

vars == <<tip_block, reorgs, indexer, answer, syncing>>

Blocks == BoundedSeq(Sibling, MaxNumber)

\* The block with number n of the chain that ends in b
At(b, n) == SubSeq(b, 1, n)
OnMain(b) == IsPrefix(b, tip_block)

Known(b) == [block |-> b, known |-> "block"]
\* no block above the indexer's tip; b, the tip that the node had then, is for the
\* properties only
NoBlock(b) == [block |-> b, known |-> "none"]
NotAsked == [block |-> <<>>, known |-> "unasked"]

\* b and its ancestors
Chain(b) == [k \in 1..Len(b) + 1 |-> At(b, k - 1)]

\* The store is new, or one that an earlier run has left in the working directory; the
\* node may have left its chain meanwhile.
Init ==
  /\ tip_block \in Blocks
  /\ \/ indexer = <<>> /\ reorgs = 0
     \/ \E b \in Blocks : /\ indexer = Chain(b)
                          /\ reorgs = IF OnMain(b) THEN 0 ELSE 1
  /\ answer = NotAsked
  /\ syncing = TRUE

----------------------------------------------------------------------------
(* The node *)

Grow ==
  /\ Len(tip_block) < MaxNumber
  /\ \E s \in Sibling : tip_block' = Append(tip_block, s)
  /\ UNCHANGED <<reorgs, indexer, answer, syncing>>

\* a heavier branch, which may be the shorter one, becomes the main chain
Reorg ==
  /\ reorgs < MaxReorgs /\ reorgs' = reorgs + 1
  /\ \E b \in Blocks :
       /\ ~IsPrefix(tip_block, b) /\ ~IsPrefix(b, tip_block)
       /\ tip_block' = b
  /\ UNCHANGED <<indexer, answer, syncing>>

----------------------------------------------------------------------------
(* The loop *)

Tip == Last(indexer)

\* an empty indexer gets the genesis block
Genesis ==
  /\ syncing /\ indexer = <<>>
  /\ indexer' = <<At(tip_block, 0)>>
  /\ UNCHANGED <<tip_block, reorgs, answer, syncing>>

\* mutant: the tip block, whatever its number
AskTipBlock ==
  /\ syncing /\ indexer # <<>> /\ answer = NotAsked
  /\ answer' = IF Len(tip_block) > Len(Tip) THEN Known(tip_block)
                                            ELSE NoBlock(tip_block)
  /\ UNCHANGED <<tip_block, reorgs, indexer, syncing>>

\* get_block_by_number(tip_number + 1)
Ask ==
  /\ syncing /\ indexer # <<>> /\ answer = NotAsked
  /\ answer' = IF Len(tip_block) > Len(Tip) THEN Known(At(tip_block, Len(Tip) + 1))
                                            ELSE NoBlock(tip_block)
  /\ UNCHANGED <<tip_block, reorgs, indexer, syncing>>

\* mutant: the parent is not compared
AppendAny ==
  /\ answer.known = "block"
  /\ indexer' = Append(indexer, answer.block)
  /\ answer' = NotAsked
  /\ UNCHANGED <<tip_block, reorgs, syncing>>

AppendBlock ==
  /\ answer.known = "block" /\ Front(answer.block) = Tip
  /\ indexer' = Append(indexer, answer.block)
  /\ answer' = NotAsked
  /\ UNCHANGED <<tip_block, reorgs, syncing>>

RollBack ==
  /\ answer.known = "block" /\ Front(answer.block) # Tip
  /\ indexer' = Front(indexer)
  /\ answer' = NotAsked
  /\ UNCHANGED <<tip_block, reorgs, syncing>>

\* mutant: a missing block is taken for the end, whatever the tip is
BreakWithoutHash ==
  /\ answer.known = "none"
  /\ syncing' = FALSE
  /\ answer' = NotAsked
  /\ UNCHANGED <<tip_block, reorgs, indexer>>

\* get_block_hash(tip_number) returns the indexer's own tip
Break ==
  /\ answer.known = "none"
  /\ OnMain(Tip)
  /\ syncing' = FALSE
  /\ answer' = NotAsked
  /\ UNCHANGED <<tip_block, reorgs, indexer>>

\* mutant: the loop tries again without a rollback
StayOnStaleTip ==
  /\ answer.known = "none"
  /\ ~OnMain(Tip)
  /\ answer' = NotAsked
  /\ UNCHANGED <<tip_block, reorgs, indexer, syncing>>

\* it returns another hash, or none: the tip is not on the main chain
RollBackStaleTip ==
  /\ answer.known = "none"
  /\ ~OnMain(Tip)
  /\ indexer' = Front(indexer)
  /\ answer' = NotAsked
  /\ UNCHANGED <<tip_block, reorgs, syncing>>

Loop == Genesis \/ Ask \/ AppendBlock \/ RollBack \/ Break \/ RollBackStaleTip

\* Node::indexer() is called again
Call ==
  /\ ~syncing /\ syncing' = TRUE
  /\ UNCHANGED <<tip_block, reorgs, indexer, answer>>

Next == Grow \/ Reorg \/ Loop \/ Call

Spec == Init /\ [][Next]_vars /\ WF_vars(Loop)

----------------------------------------------------------------------------
(* Properties *)

\* The indexer holds a chain from the genesis block, each block on top of its
\* parent, whatever the node did between the RPCs: cells of two branches are
\* never mixed, and the node is only asked about a tip that exists.
IndexerIsAChain ==
  /\ \A k \in 1..Len(indexer) :
       /\ Len(indexer[k]) = k - 1
       /\ k > 1 => Front(indexer[k]) = indexer[k - 1]
  /\ answer # NotAsked => indexer # <<>>

\* The loop only ever compares the indexer's tip, but when the wait ends every
\* block in the indexer is on the main chain, so that the cells it returns are
\* those of one state of the chain.  It is not an old state: the indexer has reached
\* the number that the node's tip had at the loop's last get_block_by_number, and it
\* has the node's tip itself if the node stood still from then on.
EndsOnTheMainChain ==
  [][ syncing /\ ~syncing' =>
        /\ indexer' # <<>>
        /\ \A k \in 1..Len(indexer') : IsPrefix(indexer'[k], tip_block')
        /\ Len(answer.block) <= Len(Last(indexer'))
        /\ answer.block = tip_block' => Last(indexer') = tip_block' ]_vars

\* A chain that only grows is never rolled back, however fast it grows between
\* the two RPCs that the loop compares with, and while the program does not run.
RollsBackOnlyAfterReorg ==
  [][ Len(indexer') < Len(indexer) => reorgs > 0 ]_vars

\* Once the node stops growing and reorganising, which its bounds make it do
\* here, every wait ends: rollbacks and appends do not alternate for ever.
WaitEnds == syncing ~> ~syncing
=============================================================================

------------------------------ MODULE BenchNodes ------------------------------
(***************************************************************************)
(* The CKB nodes under load, as far as ckb-bench can tell: one chain that  *)
(* the nodes adopt block by block at their own pace, and a transaction     *)
(* pool in each.  The node is an external program; this is what the bench  *)
(* relies on when it calls get_tip_block_number, the indexer and           *)
(* send_transaction.  A block holds one bench transaction: blocks without  *)
(* any change nothing the bench looks at, and a block with several is      *)
(* several blocks in a row here.                                           *)
(***************************************************************************)
EXTENDS Naturals, Sequences, FiniteSets

CONSTANTS
  NNodes,
  Genesis,          \* the cells the dispatch subcommand left behind, number 0
  TxIndexes,        \* positions in its block a transaction may have; 0 is the cellbase
  EnabledData1,     \* CKB_BENCH_ENABLE_DATA1_SCRIPT
  PoolCap,          \* transactions a pool holds before it answers PoolIsFull
  MaxBlocks         \* bound: blocks mined

Node == 1..NNodes

VARIABLES
  blocks,   \* the chain above genesis: [spent, created] of each block
  tip,      \* tip number of each node
  pool      \* transactions in the pool of each node

vars == <<blocks, tip, pool>>

Init ==
  /\ blocks = <<>>
  /\ tip = [n \in Node |-> 0]
  /\ pool = [n \in Node |-> {}]

Created(number) == Genesis \cup UNION {blocks[b].created : b \in 1..number}
Spent(number) == UNION {blocks[b].spent : b \in 1..number}

\* The live cells in the state of block `number`
LiveAt(number) == Created(number) \ Spent(number)

\* The lock of the output that pairs with an input cell: the position of the
\* cell's transaction picks the script, all outputs go to one payee.
OutputLock(payee, cell) ==
  [user |-> payee,
   kind |-> CASE cell.index % 3 = 0 -> "data"
              [] cell.index % 3 = 1 -> "type"
              [] OTHER -> IF EnabledData1 THEN "data1" ELSE "data"]

\* The out point of an output is its transaction and a position in it, here
\* the out point of the input it pairs with and the block.
Outputs(tx, number, index) ==
  {[out_point |-> Append(cell.out_point, number), number |-> number, index |-> index,
    lock |-> OutputLock(tx.payee, cell)] : cell \in tx.inputs}

----------------------------------------------------------------------------
(* send_transaction *)

Resolves(n, tx) ==
  /\ tx.inputs \subseteq LiveAt(tip[n])
  /\ \A other \in pool[n] : other.inputs \cap tx.inputs = {}

Verdict(n, tx) ==
  CASE tx \in pool[n] -> "PoolRejectedDuplicatedTransaction"
    [] tx \notin pool[n] /\ ~Resolves(n, tx) -> "TransactionFailedToResolve"
    [] Resolves(n, tx) /\ Cardinality(pool[n]) >= PoolCap -> "PoolIsFull"
    [] OTHER -> "Ok"

Submit(n, tx) ==
  /\ pool' = IF Verdict(n, tx) = "Ok" THEN [pool EXCEPT ![n] = @ \cup {tx}]
                                      ELSE pool
  /\ UNCHANGED <<blocks, tip>>

----------------------------------------------------------------------------
(* What the nodes do among themselves *)

Relay(from, to) ==
  \E tx \in pool[from] :
    /\ Verdict(to, tx) = "Ok"
    /\ Submit(to, tx)

\* A node at the end of the chain mines a block and adopts it.
Mine(n) ==
  /\ tip[n] = Len(blocks) /\ Len(blocks) < MaxBlocks
  /\ \E tx \in pool[n], index \in TxIndexes :
       /\ blocks' = Append(blocks, [spent |-> tx.inputs,
                                    created |-> Outputs(tx, Len(blocks) + 1, index)])
       /\ tip' = [tip EXCEPT ![n] = @ + 1]
       /\ pool' = [pool EXCEPT ![n] = @ \ {tx}]

\* Another node adopts the next block; what it spends leaves the pool.
Adopt(n) ==
  /\ tip[n] < Len(blocks)
  /\ tip' = [tip EXCEPT ![n] = @ + 1]
  /\ pool' = [pool EXCEPT ![n] =
                {tx \in @ : tx.inputs \cap blocks[tip[n] + 1].spent = {}}]
  /\ UNCHANGED blocks

Next == \E n \in Node : Mine(n) \/ Adopt(n) \/ \E m \in Node : Relay(n, m)
=============================================================================

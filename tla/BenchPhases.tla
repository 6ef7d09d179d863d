---------------------------- MODULE BenchPhases ----------------------------
(***************************************************************************)
(* The phases of the bench subcommand (ckb-bench/src/main.rs): it waits    *)
(* until the nodes are at zero load, sends transactions, waits for zero    *)
(* load again, and reports on the blocks in between.  Zero load is what    *)
(* Watcher::is_zero_load (watcher.rs) finds, one RPC after another, while  *)
(* the nodes mine, relay and catch up.                                     *)
(*                                                                         *)
(* The chain is a sequence of sets of transactions that every node adopts  *)
(* block by block.  A node never falls more than MaxLag blocks behind,     *)
(* which is less than what zero load asks for: the nodes are in sync when  *)
(* the phases begin (wait_for_nodes_sync) and stay connected.              *)
(***************************************************************************)
EXTENDS Naturals, Sequences, FiniteSets

CONSTANTS
  Node,
  Old,        \* transactions of others, sent before the bench
  Txs,        \* transactions of the bench
  N_BLOCKS,   \* empty blocks that make zero load; 20 in the code
  MaxLag,     \* blocks that a node may be behind the chain
  MaxBlocks   \* bound: blocks mined

ASSUME LagAssumption == MaxLag \in Nat /\ N_BLOCKS \in Nat /\ MaxLag < N_BLOCKS
ASSUME TxsAssumption == Old \cap Txs = {}
ASSUME NodeAssumption == Node # {}
ASSUME MaxBlocksAssumption == MaxBlocks \in Nat

VARIABLES
  blocks, tip, pool,   \* the nodes
  phase,               \* "warm-up", "bench", "cool-down" or "report"
  passed,              \* nodes that this call of is_zero_load found idle
  reading,             \* the node whose pool was found empty, {} if none
  zero_load_number,    \* the fixed header's number before the load
  fixed_tip_number     \* and after it

vars == <<blocks, tip, pool, phase, passed, reading, zero_load_number, fixed_tip_number>>
nodes == <<blocks, tip, pool>>
numbers == <<zero_load_number, fixed_tip_number>>

Init ==
  /\ blocks = <<>> /\ tip = [n \in Node |-> 0]
  /\ pool \in [Node -> SUBSET Old]
  /\ phase = "warm-up" /\ passed = {} /\ reading = {}
  /\ zero_load_number = 0 /\ fixed_tip_number = 0

Committed(number) == UNION {blocks[b] : b \in 1..number}

----------------------------------------------------------------------------
(* The nodes *)

Mine(n) ==
  /\ tip[n] = Len(blocks) /\ Len(blocks) < MaxBlocks
  /\ \A m \in Node : Len(blocks) < tip[m] + MaxLag
  /\ \E txs \in SUBSET pool[n] :
       /\ blocks' = Append(blocks, txs)
       /\ pool' = [pool EXCEPT ![n] = @ \ txs]
  /\ tip' = [tip EXCEPT ![n] = @ + 1]
  /\ UNCHANGED <<phase, passed, reading, numbers>>

Adopt(n) ==
  /\ tip[n] < Len(blocks)
  /\ tip' = [tip EXCEPT ![n] = @ + 1]
  /\ pool' = [pool EXCEPT ![n] = @ \ blocks[tip[n] + 1]]
  /\ UNCHANGED <<blocks, phase, passed, reading, numbers>>

Relay(n, m) ==
  /\ \E tx \in pool[n] \ (pool[m] \cup Committed(tip[m])) :
       pool' = [pool EXCEPT ![m] = @ \cup {tx}]
  /\ UNCHANGED <<blocks, tip, phase, passed, reading, numbers>>

----------------------------------------------------------------------------
(* is_zero_load *)

Watching == phase \in {"warm-up", "cool-down"}

\* mutant: the pools are not looked at
SkipPool(n) ==
  /\ Watching /\ reading = {} /\ n \notin passed
  /\ reading' = {n}
  /\ UNCHANGED <<nodes, phase, passed, numbers>>

\* tx_pool_info of node n; anything in the pool ends the call with false
ReadPool(n) ==
  /\ Watching /\ reading = {} /\ n \notin passed
  /\ \/ pool[n] = {} /\ reading' = {n} /\ UNCHANGED passed
     \/ pool[n] # {} /\ passed' = {} /\ UNCHANGED reading
  /\ UNCHANGED <<nodes, phase, numbers>>

\* mutant: one block less is enough
FewerRecentBlocksEmpty(number) ==
  /\ number > N_BLOCKS
  /\ \A b \in (number - N_BLOCKS + 2)..number : blocks[b] = {}

\* The loop over the recent blocks ends above the genesis block.
RecentBlocksEmpty(number) ==
  /\ number > N_BLOCKS
  /\ \A b \in (number - N_BLOCKS + 1)..number : blocks[b] = {}

\* the tip of node n, and the blocks up to it, which no longer change
ReadBlocks(n) ==
  /\ Watching /\ reading = {n}
  /\ reading' = {}
  /\ passed' = IF RecentBlocksEmpty(tip[n]) THEN passed \cup {n} ELSE {}
  /\ UNCHANGED <<nodes, phase, numbers>>

----------------------------------------------------------------------------
(* The bench subcommand *)

\* get_fixed_header: the highest block that all nodes have.  Tips only grow,
\* so the tips read one by one give no less than reading them at once here.  All
\* nodes follow one chain, so their headers of that number are equal and the loop
\* that compares them, downwards from it (chain.rs:53-61), ends with the first.
FixedHeader == CHOOSE number \in {tip[n] : n \in Node} : \A n \in Node : number <= tip[n]

StartLoad ==
  /\ phase = "warm-up" /\ passed = Node
  /\ zero_load_number' = FixedHeader
  /\ phase' = "bench" /\ passed' = {}
  /\ UNCHANGED <<nodes, reading, fixed_tip_number>>

\* the bench loop sends a transaction to node n, which accepts it
Send(n) ==
  /\ phase = "bench"
  /\ \E tx \in Txs \ (Committed(Len(blocks)) \cup UNION {pool[m] : m \in Node}) :
       pool' = [pool EXCEPT ![n] = @ \cup {tx}]
  /\ UNCHANGED <<blocks, tip, phase, passed, reading, numbers>>

\* the bench time is over
StopLoad ==
  /\ phase = "bench"
  /\ phase' = "cool-down"
  /\ UNCHANGED <<nodes, passed, reading, numbers>>

Report ==
  /\ phase = "cool-down" /\ passed = Node
  /\ fixed_tip_number' = FixedHeader
  /\ phase' = "report"
  /\ UNCHANGED <<nodes, passed, reading, zero_load_number>>

Next ==
  \/ \E n \in Node :
       \/ Mine(n) \/ Adopt(n) \/ \E m \in Node : Relay(n, m)
       \/ ReadPool(n) \/ ReadBlocks(n)
       \/ Send(n)
  \/ StartLoad \/ StopLoad \/ Report

Spec == Init /\ [][Next]_vars

----------------------------------------------------------------------------
(* Properties *)

\* A call looks at one node at a time, and at each node once.
TypeOK ==
  /\ blocks \in Seq(SUBSET (Old \cup Txs)) /\ Len(blocks) <= MaxBlocks
  /\ tip \in [Node -> 0..Len(blocks)]
  /\ pool \in [Node -> SUBSET (Old \cup Txs)]
  /\ phase \in {"warm-up", "bench", "cool-down", "report"}
  /\ passed \in SUBSET Node /\ reading \in SUBSET (Node \ passed)
  /\ Cardinality(reading) <= 1
  /\ zero_load_number \in 0..MaxBlocks /\ fixed_tip_number \in 0..MaxBlocks

Pending == (UNION {pool[n] : n \in Node}) \ Committed(Len(blocks))

\* The report is about the bench alone: what others sent before it is
\* committed at or below zero_load_number.
NoOldTransactionsAreReported ==
  phase # "warm-up" =>
    /\ Old \cap Pending = {}
    /\ \A b \in (zero_load_number + 1)..Len(blocks) : blocks[b] \cap Old = {}

\* The report is about the whole bench: what the bench sent is committed in
\* the blocks zero_load_number + 1 .. fixed_tip_number, and nothing of it is
\* left in a pool.  If there is any, stat() gets a range of two blocks at
\* least, as its assertion from_number < to_number demands.
AllTransactionsAreReported ==
  phase = "report" =>
    /\ Txs \cap Pending = {}
    /\ \A b \in 1..Len(blocks) :
         blocks[b] \cap Txs # {} =>
           zero_load_number < b /\ b < fixed_tip_number
=============================================================================

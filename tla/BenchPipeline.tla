--------------------------- MODULE BenchPipeline ---------------------------
(***************************************************************************)
(* `ckb-bench bench`: the live cell producer and the transaction producer, *)
(* each in its thread, the loop of the main thread that sends their        *)
(* transactions to the nodes in turn, and the nodes.  The cells that the   *)
(* transactions create are found and spent again, as long as it lasts.     *)
(***************************************************************************)
EXTENDS Naturals, Sequences, FiniteSets

CONSTANTS NUsers, NNodes, NInOut, ExtraSeen, CellCap, TxCap,
          Genesis, TxIndexes, EnabledData1, PoolCap, MaxBlocks,
          RpcMayFail   \* an RPC of the live cell producer may fail

ASSUME RoundAssumption == NNodes \in Nat \ {0} /\ NUsers \in Nat \ {0}
ASSUME NInOutAssumption == NInOut \in Nat \ {0}
ASSUME CapsAssumption ==
  /\ CellCap \in Nat \ {0} /\ TxCap \in Nat \ {0} /\ PoolCap \in Nat \ {0}
  /\ ExtraSeen \in Nat /\ MaxBlocks \in Nat
\* Each cell is known by an id; dispatch's transactions left it.
ASSUME GenesisAssumption ==
  \A c \in Genesis :
    c \in [out_point : {<<c.out_point[1]>>}, number : {0}, index : TxIndexes,
          lock : [user : 1..NUsers, kind : {"data", "type", "data1"}]]

VARIABLES
  blocks, tip, pool,                                \* the nodes
  step, min_tip_number, found, seen_out_points,     \* the live cell producer
  cells_open, cell_queue, live_cells, backlogs, unsent, \* the transaction producer
  tx_queue, receiver_alive, running,
  state,      \* of the bench loop: "recv", "send", "done" or "panicked"
  hand,       \* the transaction the bench loop is sending, if any
  i,          \* the node it goes to
  evicted     \* history: cells that have dropped out of the LRU cache

nodes == <<blocks, tip, pool>>
poll == <<step, min_tip_number, found, seen_out_points, cells_open>>
produce == <<live_cells, backlogs, unsent, running>>
loop == <<state, hand, i>>
vars == <<nodes, poll, produce, loop, cell_queue, tx_queue, receiver_alive, evicted>>

Users == 1..NUsers

\* the id of a cell of the genesis block, and the blocks down to its descendant
Paths(number) == UNION {[1..m -> 1..number] : m \in 0..number}
OutPoint(number) == UNION {{c.out_point \o path : path \in Paths(number)} : c \in Genesis}

Cells == [out_point : OutPoint(MaxBlocks), number : 0..MaxBlocks, index : TxIndexes,
          lock : [user : Users, kind : {"data", "type", "data1"}]]

Nodes == INSTANCE BenchNodes
LCP == INSTANCE LiveCellProducer
TP == INSTANCE TransactionProducer

Init ==
  /\ Nodes!Init
  /\ LCP!Init
  /\ TP!Init
  /\ state = "recv" /\ hand = {} /\ i = 1
  /\ evicted = {}

----------------------------------------------------------------------------
(* The live cell producer.  It goes on when the transaction producer has   *)
(* returned, and ends only when one of its RPCs fails, with a panic.       *)

Spendable(user) ==
  {c \in Nodes!LiveAt(tip[1]) : c.lock.user = user}

PollTip ==
  /\ cells_open /\ step <= NNodes
  /\ LCP!ReadTip(tip[step])
  /\ UNCHANGED <<nodes, cells_open, produce, loop, cell_queue, tx_queue, receiver_alive, evicted>>

PollUser ==
  /\ cells_open /\ step > NNodes
  /\ LCP!Scan(Spendable(step - NNodes))
  /\ UNCHANGED <<nodes, cells_open, produce, loop, cell_queue, tx_queue, receiver_alive, evicted>>

SendCell ==
  \E cell \in found :
    /\ LCP!SendCell(cell)
    /\ TP!Feed(cell)
    /\ evicted' = evicted \cup (LCP!Seen \ LCP!Seen')
    /\ UNCHANGED <<nodes, loop>>

\* get_tip_block_number(), the indexer or get_cell_meta() fails
PollPanics ==
  /\ RpcMayFail /\ found = {}
  /\ TP!CloseCells
  /\ UNCHANGED <<nodes, step, min_tip_number, found, seen_out_points, loop, evicted>>

Poll == PollTip \/ PollUser \/ SendCell

----------------------------------------------------------------------------
(* The transaction producer *)

Produce ==
  /\ TP!Produce
  /\ UNCHANGED <<nodes, poll, loop, evicted>>

----------------------------------------------------------------------------
(* The bench loop *)

\* recv_timeout() returns a transaction, for the next node in turn
TakeTransaction ==
  /\ state = "recv"
  /\ TP!Take
  /\ hand' = {Head(tx_queue)}
  /\ i' = (i % NNodes) + 1
  /\ state' = "send"
  /\ UNCHANGED <<nodes, poll, evicted>>

\* maybe_retry_send_transaction() tries the same node again while its pool is
\* full; any other answer ends with the loop's check of the bench time.
SendTransaction ==
  /\ state = "send"
  /\ \E tx \in hand :
       /\ Nodes!Submit(i, tx)
       /\ IF Nodes!Verdict(i, tx) = "PoolIsFull"
          THEN UNCHANGED <<state, hand>>
          ELSE hand' = {} /\ state' \in {"recv", "done"}
  /\ UNCHANGED <<poll, produce, cell_queue, tx_queue, receiver_alive, i, evicted>>

\* Nothing in the pipeline, the pools or the chain can become a transaction:
\* every live cell is in the cache of seen cells, and nothing else moves.
Starved ==
  /\ found = {} /\ cell_queue = <<>> /\ unsent = {} /\ tx_queue = <<>> /\ hand = {}
  /\ \A n \in 1..NNodes : pool[n] = {} /\ tip[n] = Len(blocks)
  /\ Nodes!LiveAt(Len(blocks)) \subseteq LCP!Seen

\* mutant: recv() instead of recv_timeout(), and a disconnect goes unnoticed
RecvForever == FALSE

\* Three minutes are longer than any step of the pipeline takes, so that
\* recv_timeout() fails only when no transaction will ever come: the pipeline
\* is dry, or its thread has returned and dropped the sender.
RecvTimeout ==
  /\ state = "recv" /\ tx_queue = <<>>
  /\ Starved \/ ~running
  /\ state' = "panicked"
  /\ UNCHANGED <<nodes, poll, produce, hand, i, cell_queue, tx_queue, receiver_alive, evicted>>

\* the end of the bench subcommand, or the unwinding of its panic
Leave ==
  /\ state \in {"done", "panicked"}
  /\ TP!DropReceiver
  /\ UNCHANGED <<nodes, poll, loop, evicted>>

----------------------------------------------------------------------------

Network ==
  /\ Nodes!Next
  /\ UNCHANGED <<poll, produce, loop, cell_queue, tx_queue, receiver_alive, evicted>>

Next ==
  \/ Poll \/ PollPanics
  \/ Produce
  \/ TakeTransaction \/ SendTransaction \/ RecvTimeout \/ Leave
  \/ Network

Spec == Init /\ [][Next]_vars

\* Each thread goes on, some miner mines, and every node catches up.
Fairness ==
  /\ WF_vars(Poll) /\ WF_vars(Produce)
  /\ WF_vars(TakeTransaction) /\ WF_vars(SendTransaction) /\ WF_vars(RecvTimeout)
  /\ WF_vars((\E n \in 1..NNodes : Nodes!Mine(n)) /\ Network)
  /\ \A n \in 1..NNodes : WF_vars(Nodes!Adopt(n) /\ Network)

FairSpec == Spec /\ Fairness

----------------------------------------------------------------------------
(* Properties *)

\* The channels, the cache and the counters stay within their bounds.
TypeOK ==
  /\ TP!TypeOK
  /\ hand \in SUBSET TP!Transaction
  /\ found \subseteq Cells /\ LCP!Seen \subseteq Cells /\ evicted \subseteq Cells
  /\ Len(seen_out_points) <= LCP!SeenCap
  /\ step \in 1..(NNodes + NUsers) /\ min_tip_number \in 0..MaxBlocks
  /\ i \in 1..NNodes /\ state \in {"recv", "send", "done", "panicked"}

Underway == unsent \cup hand \cup {tx_queue[k] : k \in DOMAIN tx_queue}

\* A transaction on its way to whichever node spends only cells that every
\* node has in its chain: the least tip number read before the scan is still
\* a lower bound when the transaction is sent, however the nodes moved.
InputsKnownToEveryNode ==
  \A tx \in Underway : \A c \in tx.inputs : \A n \in 1..NNodes :
    c \in Nodes!Created(tip[n])

OneIf(condition) == IF condition THEN 1 ELSE 0

\* The number of ways in which the pipeline, the pools and the chain hold or
\* have spent a cell.
Claims(c) ==
  Cardinality({k \in DOMAIN cell_queue : cell_queue[k] = c})
    + OneIf(c \in live_cells) + OneIf(c \in backlogs)
    + Cardinality({k \in DOMAIN tx_queue : c \in tx_queue[k].inputs})
    + OneIf(\E tx \in unsent : c \in tx.inputs) + OneIf(\E tx \in hand : c \in tx.inputs)
    + OneIf(\/ c \in Nodes!Spent(Len(blocks))
            \/ \E n \in 1..NNodes : \E tx \in pool[n] : c \in tx.inputs)

\* A cell that has stayed in the cache of seen out points is claimed at most
\* once, from the channel to the chain: only eviction makes the bench spend
\* a cell twice.
ClaimedOnceUnlessEvicted ==
  \A c \in Nodes!Created(Len(blocks)) \ evicted : Claims(c) <= 1

\* "double spending, discard this transaction" (main.rs): a refused
\* transaction has an input that was evicted and claimed again.  Without
\* eviction no transaction is refused.
DiscardsAreDoubleSpends ==
  \A tx \in hand :
    Nodes!Verdict(i, tx) = "TransactionFailedToResolve" => tx.inputs \cap evicted # {}

\* Once the pipeline has run dry it stays dry, whatever its threads do.
StarvationIsForever == [][Starved => Starved']_vars

\* .expect("timeout to wait transaction_receiver"): the loop always gets
\* another transaction.
NeverTimesOut == state # "panicked"

\* The bench loop never hangs: it ends, fails, or blocks with bench
\* transactions keep coming.
NeverHangs == <>(Len(blocks) = MaxBlocks \/ state \in {"done", "panicked"})

\* The load goes on: blocks with bench transactions keep coming until the
\* bench time is over.
LoadGoesOn == <>(Len(blocks) = MaxBlocks \/ state = "done")
=============================================================================

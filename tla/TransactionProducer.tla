------------------------ MODULE TransactionProducer ------------------------
(***************************************************************************)
(* The thread that turns live cells into signed n-in-n-out transactions    *)
(* (ckb-bench/src/bench.rs, TransactionProducer), with the two bounded     *)
(* channels it works between.                                              *)
(*                                                                         *)
(* A cell is a value that stands for its out point: the chain fixes the    *)
(* lock and the position of a cell for its out point, so two cells with    *)
(* the same out point are equal.  The maps live_cells (by lock hash) and   *)
(* backlogs (by out point) are modelled by the sets of their values.       *)
(***************************************************************************)
EXTENDS Naturals, Sequences, FiniteSets

CONSTANTS
  Cells,         \* records with at least a lock (and a lock has a user) and an index
  Users,
  NInOut,        \* --n-inout
  CellCap,       \* capacity of the live cell channel, bounded(10000000)
  TxCap          \* capacity of the transaction channel, bounded(1000000)

ASSUME NInOutAssumption == NInOut \in Nat \ {0}
ASSUME CellsAssumption == \A c \in Cells : c.lock.user \in Users
ASSUME CapsAssumption == CellCap \in Nat \ {0} /\ TxCap \in Nat \ {0}

VARIABLES
  cell_queue,     \* live cells sent and not yet received
  cells_open,     \* the live cell sender still exists
  live_cells,     \* values of the map lock hash -> waiting cell
  backlogs,       \* values of the map out point -> cell
  unsent,         \* the signed transaction that waits in send(), if any
  tx_queue,       \* transactions sent and not yet received
  receiver_alive, \* the transaction receiver still exists
  running         \* run() has not returned

vars == <<cell_queue, cells_open, live_cells, backlogs, unsent, tx_queue,
          receiver_alive, running>>

Transaction == [inputs : SUBSET Cells, payee : Users]

\* The channels stay within their capacities.
TypeOK ==
  /\ cell_queue \in Seq(Cells) /\ Len(cell_queue) <= CellCap
  /\ live_cells \in SUBSET Cells
  /\ backlogs \in SUBSET Cells
  /\ unsent \in SUBSET Transaction
  /\ tx_queue \in Seq(Transaction) /\ Len(tx_queue) <= TxCap
  /\ cells_open \in BOOLEAN /\ receiver_alive \in BOOLEAN /\ running \in BOOLEAN

Init ==
  /\ cell_queue = <<>> /\ cells_open = TRUE
  /\ live_cells = {} /\ backlogs = {}
  /\ unsent = {}
  /\ tx_queue = <<>> /\ receiver_alive = TRUE
  /\ running = TRUE

----------------------------------------------------------------------------
(* The producer thread *)

DistinctLocks(cells) == \A c, d \in cells : c.lock = d.lock => c = d

\* mutant: the map is keyed by out point instead of lock hash
HoldByOutPoint(waiting, cell) == waiting \cup {cell}

\* Entry::Vacant inserts, Entry::Occupied leaves the waiting cell
Hold(waiting, cell) ==
  IF \E d \in waiting : d.lock = cell.lock THEN waiting ELSE waiting \cup {cell}

\* mutant: a second cell of a waiting lock is kept for later
DeferOther(waiting, deferred, cell) ==
  IF cell \notin waiting /\ \E d \in waiting : d.lock = cell.lock
  THEN deferred \cup {cell} ELSE deferred

\* Entry::Occupied by the same out point goes to the backlogs; a second cell
\* of a waiting lock goes nowhere
Defer(waiting, deferred, cell) ==
  IF cell \in waiting THEN deferred \cup {cell} ELSE deferred

\* mutant: live_cells is not swapped out when its transaction is built
ReceiveWithoutSwap ==
  /\ running /\ unsent = {} /\ cell_queue # <<>>
  /\ live_cells' = Hold(live_cells, Head(cell_queue))
  /\ unsent' = IF Cardinality(live_cells') >= NInOut
               THEN {[inputs |-> live_cells', payee |-> Head(cell_queue).lock.user]}
               ELSE {}
  /\ cell_queue' = Tail(cell_queue)
  /\ UNCHANGED <<backlogs, cells_open, tx_queue, receiver_alive, running>>

\* mutant: live_cells has to exceed n_inout
ReceiveMoreThanNInOut ==
  /\ running /\ unsent = {} /\ cell_queue # <<>>
  /\ LET held == Hold(live_cells, Head(cell_queue))
     IN IF Cardinality(held) > NInOut
        THEN /\ unsent' = {[inputs |-> held, payee |-> Head(cell_queue).lock.user]}
             /\ live_cells' = {}
        ELSE live_cells' = held /\ UNCHANGED unsent
  /\ cell_queue' = Tail(cell_queue)
  /\ UNCHANGED <<backlogs, cells_open, tx_queue, receiver_alive, running>>

Receive ==
  /\ running /\ unsent = {} /\ cell_queue # <<>>
  /\ LET cell == Head(cell_queue)
         held == Hold(live_cells, cell)
     IN /\ cell_queue' = Tail(cell_queue)
        /\ backlogs' = Defer(live_cells, backlogs, cell)
        /\ \/ /\ Cardinality(held) >= NInOut
              /\ unsent' = {[inputs |-> held, payee |-> cell.lock.user]}
              /\ live_cells' = {}
           \/ /\ Cardinality(held) < NInOut
              /\ live_cells' = held
              /\ UNCHANGED unsent
  /\ UNCHANGED <<cells_open, tx_queue, receiver_alive, running>>

\* The backlogs go back into live_cells in the map's order, which is arbitrary:
\* `kept` is what found its lock vacant.
Drain ==
  \E kept \in SUBSET backlogs :
    /\ DistinctLocks(live_cells \cup kept)
    /\ \A c \in backlogs : \E d \in live_cells \cup kept : d.lock = c.lock
    /\ live_cells' = live_cells \cup kept
    /\ backlogs' = backlogs \cap live_cells

\* mutant: an unbounded transaction channel
SendUnbounded ==
  /\ running /\ receiver_alive
  /\ \E tx \in unsent : tx_queue' = Append(tx_queue, tx)
  /\ unsent' = {}
  /\ Drain
  /\ UNCHANGED <<cell_queue, cells_open, receiver_alive, running>>

Send ==
  /\ running /\ receiver_alive
  /\ Len(tx_queue) < TxCap
  /\ \E tx \in unsent : tx_queue' = Append(tx_queue, tx)
  /\ unsent' = {}
  /\ Drain
  /\ UNCHANGED <<cell_queue, cells_open, receiver_alive, running>>

\* run() returns: its maps and the live cell receiver are dropped
Return ==
  /\ running' = FALSE
  /\ live_cells' = {} /\ backlogs' = {} /\ unsent' = {}
  /\ cell_queue' = <<>>
  /\ UNCHANGED <<cells_open, tx_queue, receiver_alive>>

\* mutant: the error of send() is ignored, as LiveCellProducer does
SendFailureIgnored ==
  /\ running /\ unsent # {} /\ ~receiver_alive
  /\ unsent' = {}
  /\ Drain
  /\ UNCHANGED <<cell_queue, cells_open, tx_queue, receiver_alive, running>>

SendFails == running /\ unsent # {} /\ ~receiver_alive /\ Return

RecvFails ==
  /\ running /\ unsent = {}
  /\ cell_queue = <<>> /\ ~cells_open
  /\ Return

Produce == Receive \/ Send \/ SendFails \/ RecvFails

----------------------------------------------------------------------------
(* The two ends of the channels, which other threads hold *)

\* a cell arrives; send() to a returned receiver is an error the sender ignores
Feed(cell) ==
  /\ cells_open
  /\ running => Len(cell_queue) < CellCap
  /\ cell_queue' = IF running THEN Append(cell_queue, cell) ELSE cell_queue
  /\ UNCHANGED <<cells_open, live_cells, backlogs, unsent, tx_queue,
                 receiver_alive, running>>

CloseCells ==
  /\ cells_open /\ cells_open' = FALSE
  /\ UNCHANGED <<cell_queue, live_cells, backlogs, unsent, tx_queue,
                 receiver_alive, running>>

Take ==
  /\ receiver_alive /\ tx_queue # <<>>
  /\ tx_queue' = Tail(tx_queue)
  /\ UNCHANGED <<cell_queue, cells_open, live_cells, backlogs, unsent,
                 receiver_alive, running>>

DropReceiver ==
  /\ receiver_alive /\ receiver_alive' = FALSE
  /\ tx_queue' = <<>>
  /\ UNCHANGED <<cell_queue, cells_open, live_cells, backlogs, unsent, running>>

Next ==
  \/ Produce
  \/ \E cell \in Cells : Feed(cell)
  \/ CloseCells
  \/ Take
  \/ DropReceiver

\* run() is a thread that never sleeps between its channel operations
Spec == Init /\ [][Next]_vars /\ WF_vars(Produce)

----------------------------------------------------------------------------
(* Properties *)

\* Every transaction handed to send() or queued has exactly n_inout inputs, of
\* n_inout different locks, although the refill from the backlogs never
\* compares live_cells with n_inout ("2-in-2-out transactions", usage.md).
ExactlyNInOut ==
  \A tx \in unsent \cup {tx_queue[i] : i \in DOMAIN tx_queue} :
    /\ IsFiniteSet(tx.inputs) /\ Cardinality(tx.inputs) = NInOut
    /\ DistinctLocks(tx.inputs)

\* What waits in the backlogs is a second copy of a cell that the next
\* transaction spends: the refill after a send never loses a cell to a lock
\* collision, and never fills live_cells to n_inout by itself.
BacklogsAreCopies ==
  /\ backlogs \subseteq live_cells \cup UNION {tx.inputs : tx \in unsent}
  /\ DistinctLocks(live_cells)
  /\ Cardinality(live_cells) < NInOut

Copies(c) ==
  (IF c \in live_cells THEN 1 ELSE 0) + (IF c \in backlogs THEN 1 ELSE 0)
    + (IF \E tx \in unsent : c \in tx.inputs THEN 1 ELSE 0)

\* The producer implements the ledger: a cell is spent at most as often as it
\* was received, and a held copy is never lost while run() goes on.
Ledger == INSTANCE CellLedger
            WITH stock <- [c \in Cells |-> Copies(c)],
                 emitted <- [i \in DOMAIN tx_queue |-> tx_queue[i].inputs]

SpendsEachCopyOnce == Ledger!Spec

\* When the bench loop has dropped its receiver, a producer that still has
\* something to send, or no more cells to come, returns; it does not hang in
\* a full channel.
StopsWithTheBench ==
  (~receiver_alive /\ (unsent # {} \/ ~cells_open)) ~> ~running
=============================================================================

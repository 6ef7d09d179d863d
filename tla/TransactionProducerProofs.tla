---------------------- MODULE TransactionProducerProofs ----------------------
(***************************************************************************)
(* Theorems about TransactionProducer, for every set of cells and every    *)
(* n_inout and channel capacity.                                           *)
(***************************************************************************)
EXTENDS TransactionProducer, FiniteSetTheorems, TLAPS

\* The inductive invariant adds to BacklogsAreCopies that the sets counted are
\* finite, that a refill finds live_cells empty, and that the backlogs alone
\* are too few for a transaction: the cell that completed one was no copy.
HeldInv ==
  /\ IsFiniteSet(live_cells)
  /\ Cardinality(live_cells) < NInOut
  /\ DistinctLocks(live_cells)
  /\ backlogs \subseteq live_cells \cup UNION {tx.inputs : tx \in unsent}
  /\ IsFiniteSet(backlogs) /\ Cardinality(backlogs) < NInOut
  /\ unsent # {} => live_cells = {}

WellFormed(tx) ==
  /\ IsFiniteSet(tx.inputs) /\ Cardinality(tx.inputs) = NInOut
  /\ DistinctLocks(tx.inputs)

UnsentInv ==
  /\ \A tx, other \in unsent : tx = other
  /\ \A tx \in unsent : WellFormed(tx)

QueuedInv == \A i \in DOMAIN tx_queue : WellFormed(tx_queue[i])

IInv == TypeOK /\ HeldInv /\ UnsentInv /\ QueuedInv

-----------------------------------------------------------------------------
(* The helpers *)

\* Holding a cell keeps the locks distinct, and adds at most that cell.
LEMMA HoldFacts ==
  ASSUME NEW waiting, IsFiniteSet(waiting), DistinctLocks(waiting), NEW cell,
         NEW n \in Nat, Cardinality(waiting) < n
  PROVE  LET held == Hold(waiting, cell)
         IN /\ IsFiniteSet(held) /\ DistinctLocks(held)
            /\ Cardinality(held) \in Nat /\ Cardinality(held) <= n
            /\ waiting \subseteq held /\ held \subseteq waiting \cup {cell}
<1>1. CASE \E d \in waiting : d.lock = cell.lock
  BY <1>1, FS_CardinalityType DEF Hold
<1>2. CASE ~ \E d \in waiting : d.lock = cell.lock
  <2>1. Hold(waiting, cell) = waiting \cup {cell}
    BY <1>2 DEF Hold
  <2>2. DistinctLocks(waiting \cup {cell})
    BY <1>2 DEF DistinctLocks
  <2>3. cell \notin waiting
    BY <1>2
  <2>4. /\ IsFiniteSet(waiting \cup {cell})
        /\ Cardinality(waiting \cup {cell}) = Cardinality(waiting) + 1
    BY <2>3, FS_AddElement
  <2>5. Cardinality(waiting) \in Nat
    BY FS_CardinalityType
  <2> QED
    BY <2>1, <2>2, <2>4, <2>5
<1> QED
  BY <1>1, <1>2

\* A refill of empty live_cells from backlogs of distinct locks keeps every
\* backlog cell and leaves no backlog.
LEMMA DrainFacts ==
  ASSUME live_cells = {}, DistinctLocks(backlogs), Drain
  PROVE  live_cells' = backlogs /\ backlogs' = {}
<1>1. PICK kept \in SUBSET backlogs :
         /\ \A c \in backlogs : \E d \in kept : d.lock = c.lock
         /\ live_cells' = kept
         /\ backlogs' = {}
  BY DEF Drain
<1>2. \A c \in backlogs : c \in kept
  BY <1>1 DEF DistinctLocks
<1> QED
  BY <1>1, <1>2

-----------------------------------------------------------------------------
(* The invariant *)

LEMMA InitIInv == Init => IInv
<1> SUFFICES ASSUME Init PROVE IInv
  OBVIOUS
<1> USE DEF Init
<1>1. TypeOK
  BY CapsAssumption DEF TypeOK
<1>2. HeldInv
  BY FS_EmptySet, NInOutAssumption DEF HeldInv, DistinctLocks
<1>3. UnsentInv /\ QueuedInv
  BY DEF UnsentInv, QueuedInv
<1> QED
  BY <1>1, <1>2, <1>3 DEF IInv

\* Receiving a cell: either it waits with the others, fewer than n_inout of
\* them, or it completes a transaction of exactly n_inout inputs.
LEMMA ReceiveIInv ==
  ASSUME IInv, Receive
  PROVE  IInv'
<1> DEFINE cell == Head(cell_queue)
           held == Hold(live_cells, cell)
           tx == [inputs |-> held, payee |-> cell.lock.user]
<1>1. /\ cell \in Cells /\ cell.lock.user \in Users
      /\ cell_queue' \in Seq(Cells) /\ Len(cell_queue') <= CellCap
  BY CellsAssumption, CapsAssumption DEF IInv, TypeOK, Receive
<1>2. /\ IsFiniteSet(held) /\ DistinctLocks(held)
      /\ Cardinality(held) \in Nat /\ Cardinality(held) <= NInOut
      /\ live_cells \subseteq held /\ held \subseteq live_cells \cup {cell}
  BY HoldFacts, NInOutAssumption DEF IInv, HeldInv
<1>3. held \in SUBSET Cells
  BY <1>1, <1>2 DEF IInv, TypeOK
<1>4. backlogs \subseteq live_cells
  BY DEF IInv, HeldInv, Receive
<1>5. /\ backlogs' \subseteq held
      /\ IsFiniteSet(backlogs') /\ Cardinality(backlogs') < NInOut
  <2>1. backlogs' \subseteq live_cells
    BY <1>4 DEF Receive, Defer
  <2>2. IsFiniteSet(live_cells) /\ Cardinality(live_cells) < NInOut
    BY DEF IInv, HeldInv
  <2>3. /\ IsFiniteSet(backlogs')
        /\ Cardinality(backlogs') <= Cardinality(live_cells)
        /\ Cardinality(backlogs') \in Nat /\ Cardinality(live_cells) \in Nat
    BY <2>1, <2>2, FS_Subset, FS_CardinalityType
  <2> QED
    BY <1>2, <2>1, <2>2, <2>3, NInOutAssumption
<1>6. /\ backlogs' \in SUBSET Cells
      /\ UNCHANGED <<cells_open, tx_queue, receiver_alive, running>>
  BY <1>3, <1>5 DEF Receive
<1>7. CASE Cardinality(held) >= NInOut
  <2>1. unsent' = {tx} /\ live_cells' = {}
    BY <1>2, <1>7, NInOutAssumption DEF Receive
  <2>2. Cardinality(held) = NInOut
    BY <1>2, <1>7, NInOutAssumption
  <2>3. TypeOK'
    BY <1>1, <1>3, <1>6, <2>1 DEF IInv, TypeOK, Transaction
  <2>4. HeldInv'
    <3>1. IsFiniteSet({}) /\ Cardinality({}) = 0
      BY FS_EmptySet
    <3>2. UNION {t.inputs : t \in unsent'} = held
      BY <2>1
    <3> QED
      BY <1>5, <2>1, <3>1, <3>2, NInOutAssumption DEF HeldInv, DistinctLocks
  <2>5. UnsentInv' /\ QueuedInv'
    BY <1>2, <1>6, <2>1, <2>2 DEF IInv, UnsentInv, QueuedInv, WellFormed
  <2> QED
    BY <2>3, <2>4, <2>5 DEF IInv
<1>8. CASE Cardinality(held) < NInOut
  <2>1. unsent' = {} /\ live_cells' = held
    BY <1>2, <1>8, NInOutAssumption DEF Receive
  <2>2. TypeOK'
    BY <1>1, <1>3, <1>6, <2>1 DEF IInv, TypeOK
  <2>3. HeldInv'
    BY <1>2, <1>5, <1>8, <2>1 DEF HeldInv
  <2>4. UnsentInv' /\ QueuedInv'
    BY <1>6, <2>1 DEF IInv, UnsentInv, QueuedInv, WellFormed
  <2> QED
    BY <2>2, <2>3, <2>4 DEF IInv
<1> QED
  BY <1>2, <1>7, <1>8, NInOutAssumption

\* What the unsent transaction leaves behind when it is sent: the backlogs,
\* which are copies of its inputs and thus at most n_inout of distinct locks.
LEMMA SendFacts ==
  ASSUME IInv, Send
  PROVE  \E tx \in unsent :
           /\ unsent = {tx} /\ WellFormed(tx) /\ tx \in Transaction
           /\ backlogs \subseteq tx.inputs
           /\ tx_queue' = Append(tx_queue, tx)
           /\ live_cells' = backlogs /\ DistinctLocks(backlogs)
           /\ backlogs' = {} /\ unsent' = {}
<1>1. PICK tx \in unsent : tx_queue' = Append(tx_queue, tx)
  BY DEF Send
<1>2. unsent = {tx} /\ WellFormed(tx) /\ tx \in Transaction /\ live_cells = {}
  BY DEF IInv, UnsentInv, HeldInv, TypeOK
<1>3. backlogs \subseteq tx.inputs
  BY <1>2 DEF IInv, HeldInv
<1>4. DistinctLocks(backlogs)
  BY <1>2, <1>3 DEF WellFormed, DistinctLocks
<1>5. live_cells' = backlogs /\ backlogs' = {}
  BY <1>2, <1>4, DrainFacts DEF Send
<1> QED
  BY <1>1, <1>2, <1>3, <1>4, <1>5 DEF Send

LEMMA SendIInv ==
  ASSUME IInv, Send
  PROVE  IInv'
<1>1. PICK tx \in unsent :
        /\ unsent = {tx} /\ WellFormed(tx) /\ tx \in Transaction
        /\ backlogs \subseteq tx.inputs
        /\ tx_queue' = Append(tx_queue, tx)
        /\ live_cells' = backlogs /\ DistinctLocks(backlogs)
        /\ backlogs' = {} /\ unsent' = {}
  BY SendFacts
<1>2. /\ UNCHANGED <<cell_queue, cells_open, receiver_alive, running>>
      /\ Len(tx_queue) < TxCap
  BY DEF Send
<1>3. /\ tx_queue' \in Seq(Transaction) /\ Len(tx_queue') = Len(tx_queue) + 1
      /\ \A i \in DOMAIN tx_queue' :
           tx_queue'[i] = IF i \in DOMAIN tx_queue THEN tx_queue[i] ELSE tx
  BY <1>1 DEF IInv, TypeOK
<1>4. TypeOK'
  BY <1>1, <1>2, <1>3, CapsAssumption DEF IInv, TypeOK
<1>5. HeldInv'
  <2>1. IsFiniteSet({}) /\ Cardinality({}) = 0
    BY FS_EmptySet
  <2> QED
    BY <1>1, <2>1, NInOutAssumption DEF IInv, HeldInv
<1>6. UnsentInv' /\ QueuedInv'
  BY <1>1, <1>3 DEF IInv, UnsentInv, QueuedInv, WellFormed
<1> QED
  BY <1>4, <1>5, <1>6 DEF IInv

\* A returned producer holds nothing.
LEMMA ReturnIInv ==
  ASSUME IInv, Return
  PROVE  IInv'
<1>1. TypeOK'
  <2>1. cell_queue' \in Seq(Cells) /\ Len(cell_queue') <= CellCap
    BY CapsAssumption DEF Return
  <2> QED
    BY <2>1 DEF Return, IInv, TypeOK
<1>2. HeldInv'
  BY FS_EmptySet, NInOutAssumption DEF Return, HeldInv, DistinctLocks
<1>3. UnsentInv' /\ QueuedInv'
  BY DEF Return, IInv, UnsentInv, QueuedInv, WellFormed
<1> QED
  BY <1>1, <1>2, <1>3 DEF IInv

\* The other ends of the channels move only the channels.
LEMMA ChannelIInv ==
  ASSUME IInv, (\E c \in Cells : Feed(c)) \/ CloseCells \/ Take \/ DropReceiver
  PROVE  IInv'
<1>1. UNCHANGED <<live_cells, backlogs, unsent, running>>
  BY DEF Feed, CloseCells, Take, DropReceiver
<1>2. HeldInv' /\ UnsentInv'
  BY <1>1 DEF IInv, HeldInv, UnsentInv
<1>3. TypeOK' /\ QueuedInv'
  <2>1. CASE \E c \in Cells : Feed(c)
    BY <1>1, <2>1, CapsAssumption DEF Feed, IInv, TypeOK, QueuedInv
  <2>2. CASE CloseCells
    BY <1>1, <2>2 DEF CloseCells, IInv, TypeOK, QueuedInv
  <2>3. CASE Take
    <3>1. /\ tx_queue' \in Seq(Transaction) /\ Len(tx_queue') <= TxCap
          /\ \A i \in DOMAIN tx_queue' :
               i + 1 \in DOMAIN tx_queue /\ tx_queue'[i] = tx_queue[i + 1]
      BY <2>3, CapsAssumption DEF Take, IInv, TypeOK
    <3> QED
      BY <1>1, <2>3, <3>1 DEF Take, IInv, TypeOK, QueuedInv
  <2>4. CASE DropReceiver
    <3>1. /\ tx_queue' \in Seq(Transaction) /\ Len(tx_queue') <= TxCap
          /\ DOMAIN tx_queue' = {}
      BY <2>4, CapsAssumption DEF DropReceiver
    <3> QED
      BY <1>1, <2>4, <3>1 DEF DropReceiver, IInv, TypeOK, QueuedInv
  <2> QED
    BY <2>1, <2>2, <2>3, <2>4
<1> QED
  BY <1>2, <1>3 DEF IInv

LEMMA NextIInv ==
  ASSUME IInv, [Next]_vars
  PROVE  IInv'
<1>1. CASE Receive
  BY <1>1, ReceiveIInv
<1>2. CASE Send
  BY <1>2, SendIInv
<1>3. CASE SendFails \/ RecvFails
  BY <1>3, ReturnIInv DEF SendFails, RecvFails
<1>4. CASE (\E c \in Cells : Feed(c)) \/ CloseCells \/ Take \/ DropReceiver
  BY <1>4, ChannelIInv
<1>5. CASE UNCHANGED vars
  BY <1>5 DEF vars, IInv, TypeOK, HeldInv, UnsentInv, QueuedInv, WellFormed
<1> QED
  BY <1>1, <1>2, <1>3, <1>4, <1>5 DEF Next, Produce

\* The inductive invariant holds in every behaviour of the producer.
THEOREM Invariance == Spec => []IInv
<1>1. Init => IInv
  BY InitIInv
<1>2. IInv /\ [Next]_vars => IInv'
  BY NextIInv
<1> QED
  BY <1>1, <1>2, PTL DEF Spec

\* The channels stay within their capacities and hold cells and transactions.
THEOREM TypeCorrect == Spec => []TypeOK
<1>1. IInv => TypeOK
  BY DEF IInv
<1> QED
  BY <1>1, Invariance, PTL

\* run() in bench.rs: whatever cells arrive, in whatever order and how often,
\* every transaction has exactly n_inout inputs of n_inout different locks.
THEOREM InputsExact == Spec => []ExactlyNInOut
<1>1. IInv => ExactlyNInOut
  BY DEF IInv, UnsentInv, QueuedInv, WellFormed, ExactlyNInOut
<1> QED
  BY <1>1, Invariance, PTL

\* run() in bench.rs: the backlogs only ever hold second copies of cells that
\* wait or are about to be sent, fewer than n_inout of them.
THEOREM BacklogsCopied == Spec => []BacklogsAreCopies
<1>1. IInv => BacklogsAreCopies
  BY DEF IInv, HeldInv, BacklogsAreCopies
<1> QED
  BY <1>1, Invariance, PTL

-----------------------------------------------------------------------------
(* The producer implements CellLedger *)

Stock == [c \in Cells |-> Copies(c)]
Emitted == [i \in DOMAIN tx_queue |-> tx_queue[i].inputs]

\* A received cell is one more copy of it, or dropped behind its lock or
\* behind a backlog copy of itself.
LEMMA ReceiveRefines ==
  ASSUME IInv, Receive
  PROVE  (\E c \in Cells : Ledger!Accept(c)) \/ UNCHANGED Ledger!vars
<1> DEFINE cell == Head(cell_queue)
           held == Hold(live_cells, cell)
           tx == [inputs |-> held, payee |-> cell.lock.user]
<1>1. cell \in Cells /\ unsent = {} /\ UNCHANGED Emitted
  BY DEF IInv, TypeOK, Receive, Emitted
<1>2. \A c \in Cells : Copies(c) = (IF c \in live_cells THEN 1 ELSE 0)
                                     + (IF c \in backlogs THEN 1 ELSE 0)
  BY <1>1 DEF Copies
<1>3. ASSUME NEW c \in Cells
      PROVE  Copies(c)' = (IF c \in held THEN 1 ELSE 0)
                            + (IF c \in backlogs' THEN 1 ELSE 0)
  <2>1. \/ unsent' = {} /\ live_cells' = held
        \/ live_cells' = {} /\ unsent' = {tx}
    BY <1>1 DEF Receive
  <2>2. tx.inputs = held
    OBVIOUS
  <2>3. CASE unsent' = {} /\ live_cells' = held
    BY <2>3 DEF Copies
  <2>4. CASE live_cells' = {} /\ unsent' = {tx}
    <3>1. (\E t \in unsent' : c \in t.inputs) <=> c \in held
      BY <2>2, <2>4
    <3> QED
      BY <2>4, <3>1 DEF Copies
  <2> QED
    BY <2>1, <2>3, <2>4
<1>4. CASE held # live_cells \/ backlogs' # backlogs
  <2>1. \/ /\ cell \notin live_cells /\ held = live_cells \cup {cell}
           /\ backlogs' = backlogs
        \/ /\ cell \notin backlogs /\ held = live_cells
           /\ backlogs' = backlogs \cup {cell}
    BY <1>4 DEF Receive, Hold, Defer
  <2>2. \A c \in Cells : Copies(c)' = IF c = cell THEN Copies(c) + 1 ELSE Copies(c)
    BY <1>2, <1>3, <2>1
  <2>3. Stock' = [Stock EXCEPT ![cell] = @ + 1]
    BY <1>1, <2>2 DEF Stock
  <2> QED
    BY <1>1, <2>3 DEF Ledger!Accept, Stock, Emitted
<1>5. CASE held = live_cells /\ backlogs' = backlogs
  <2>1. UNCHANGED Stock
    BY <1>2, <1>3, <1>5 DEF Stock
  <2> QED
    BY <1>1, <2>1 DEF Ledger!vars, Stock, Emitted
<1> QED
  BY <1>4, <1>5

\* A transaction sent spends one copy of each input; the backlog copies stay.
LEMMA SendRefines ==
  ASSUME IInv, Send
  PROVE  \E inputs \in SUBSET Cells : Ledger!Emit(inputs)
<1>1. PICK tx \in unsent :
        /\ unsent = {tx} /\ WellFormed(tx) /\ tx \in Transaction
        /\ backlogs \subseteq tx.inputs
        /\ tx_queue' = Append(tx_queue, tx)
        /\ live_cells' = backlogs /\ DistinctLocks(backlogs)
        /\ backlogs' = {} /\ unsent' = {}
  BY SendFacts
<1>2. live_cells = {} /\ tx_queue \in Seq(Transaction)
  BY <1>1 DEF IInv, HeldInv, TypeOK
<1>3. \A c \in Cells :
        /\ Copies(c) = (IF c \in backlogs THEN 1 ELSE 0)
                         + (IF c \in tx.inputs THEN 1 ELSE 0)
        /\ Copies(c)' = IF c \in backlogs THEN 1 ELSE 0
  BY <1>1, <1>2 DEF Copies
<1>4. Stock' = [c \in Cells |-> IF c \in tx.inputs THEN Stock[c] - 1 ELSE Stock[c]]
  BY <1>1, <1>3 DEF Stock
<1>5. \A c \in tx.inputs : Stock[c] > 0
  BY <1>1, <1>3 DEF Stock, Transaction
<1>6. Emitted' = Append(Emitted, tx.inputs)
  BY <1>1, <1>2 DEF Emitted, Transaction
<1>7. tx.inputs \in SUBSET Cells /\ Ledger!DistinctLocks(tx.inputs)
  BY <1>1 DEF Transaction, WellFormed, DistinctLocks, Ledger!DistinctLocks
<1>8. Ledger!Emit(tx.inputs)
  <2>1. /\ Ledger!IsFiniteSet(tx.inputs)
        /\ Ledger!Cardinality(tx.inputs) = NInOut
    <3>1. IsFiniteSet(tx.inputs) /\ Cardinality(tx.inputs) = NInOut
      BY <1>1 DEF WellFormed
    <3>2. Ledger!IsFiniteSet(tx.inputs) <=> IsFiniteSet(tx.inputs)
      BY DEF IsFiniteSet, Ledger!IsFiniteSet
    <3>3. Ledger!Cardinality(tx.inputs) = Cardinality(tx.inputs)
      BY DEF Cardinality, Ledger!Cardinality, IsFiniteSet, Ledger!IsFiniteSet
    <3> QED
      BY <3>1, <3>2, <3>3
  <2>2. \A c \in tx.inputs : [d \in Cells |-> Copies(d)][c] > 0
    BY <1>5 DEF Stock
  <2>3. [c \in Cells |-> Copies(c)]'
          = [c \in Cells |-> IF c \in tx.inputs
                             THEN [d \in Cells |-> Copies(d)][c] - 1
                             ELSE [d \in Cells |-> Copies(d)][c]]
    BY <1>4 DEF Stock
  <2>4. [i \in DOMAIN tx_queue |-> tx_queue[i].inputs]'
          = Append([i \in DOMAIN tx_queue |-> tx_queue[i].inputs], tx.inputs)
    BY <1>6 DEF Emitted
  <2> QED
    BY <1>7, <2>1, <2>2, <2>3, <2>4 DEF Ledger!Emit
<1> QED
  BY <1>7, <1>8

LEMMA ReturnRefines ==
  ASSUME Return
  PROVE  Ledger!Return
<1>1. \A c \in Cells : Copies(c)' = 0
  BY DEF Return, Copies
<1> QED
  BY <1>1 DEF Return, Ledger!Return, Ledger!EmptyStock

LEMMA ChannelRefines ==
  ASSUME IInv, (\E c \in Cells : Feed(c)) \/ CloseCells \/ Take \/ DropReceiver
  PROVE  Ledger!Deliver \/ Ledger!Abandon \/ UNCHANGED Ledger!vars
<1>1. UNCHANGED Stock
  BY DEF Feed, CloseCells, Take, DropReceiver, Stock, Copies
<1>2. CASE (\E c \in Cells : Feed(c)) \/ CloseCells
  <2>1. UNCHANGED Emitted
    BY <1>2 DEF Feed, CloseCells, Emitted
  <2> QED
    BY <1>1, <2>1 DEF Ledger!vars, Stock, Emitted
<1>3. CASE Take
  <2>1. tx_queue \in Seq(Transaction) /\ tx_queue # <<>> /\ tx_queue' = Tail(tx_queue)
    BY <1>3 DEF Take, IInv, TypeOK
  <2>2. Emitted # <<>> /\ Emitted' = Tail(Emitted)
    BY <2>1 DEF Emitted, Transaction
  <2> QED
    BY <1>1, <2>2 DEF Ledger!Deliver, Stock, Emitted
<1>4. CASE DropReceiver
  <2>1. Emitted' = <<>>
    BY <1>4 DEF DropReceiver, Emitted
  <2> QED
    BY <1>1, <2>1 DEF Ledger!Abandon, Stock, Emitted
<1> QED
  BY <1>2, <1>3, <1>4

\* run() in bench.rs implements the ledger: no cell is spent more often than
\* it was received, and while run() goes on a held copy leaves only by being
\* spent.
THEOREM ProducerImplementsLedger == Spec => SpendsEachCopyOnce
<1>1. Init => Ledger!Init
  BY DEF Init, Ledger!Init, Ledger!EmptyStock, Copies
<1>2. IInv /\ [Next]_vars => [Ledger!Next]_(Ledger!vars)
  <2> SUFFICES ASSUME IInv, [Next]_vars
               PROVE  [Ledger!Next]_(Ledger!vars)
    OBVIOUS
  <2>1. CASE Receive
    BY <2>1, ReceiveRefines DEF Ledger!Next
  <2>2. CASE Send
    BY <2>2, SendRefines DEF Ledger!Next
  <2>3. CASE SendFails \/ RecvFails
    BY <2>3, ReturnRefines DEF SendFails, RecvFails, Ledger!Next
  <2>4. CASE (\E c \in Cells : Feed(c)) \/ CloseCells \/ Take \/ DropReceiver
    BY <2>4, ChannelRefines DEF Ledger!Next
  <2>5. CASE UNCHANGED vars
    BY <2>5 DEF vars, Ledger!vars, Copies
  <2> QED
    BY <2>1, <2>2, <2>3, <2>4, <2>5 DEF Next, Produce
<1> QED
  BY <1>1, <1>2, Invariance, PTL DEF Spec, SpendsEachCopyOnce, Ledger!Spec

=============================================================================

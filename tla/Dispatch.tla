------------------------------ MODULE Dispatch ------------------------------
(***************************************************************************)
(* The dispatch subcommand (ckb-bench/src/prepare.rs, dispatch): the       *)
(* owner's cells are split into cells_per_user cells for each user by a    *)
(* chain of transactions, each spending the change of earlier ones, and    *)
(* the program waits until all of them are committed.  The node commits    *)
(* them in its own time and may drop what is in its pool.                  *)
(***************************************************************************)
EXTENDS Integers, Sequences, FiniteSets, SequencesExt

CONSTANTS
  Owners,             \* sequences of cells the owner may start with: records [lock, capacity]
  NUsers, CellsPerUser, CapacityPerCell,
  MAX_OUT_COUNT,      \* outputs for users in a transaction; 1000 in the code
  FEE_RATE_OF_OUTPUT, \* 1000 in the code
  MinChange,          \* capacity a change cell needs, 67 CKBytes in the code
  MaxDrops            \* bound: times the pool loses a transaction

Fee == MAX_OUT_COUNT * FEE_RATE_OF_OUTPUT

ASSUME CapacityAssumption ==
  /\ CapacityPerCell \in Nat \ {0} /\ MAX_OUT_COUNT \in Nat \ {0}
  /\ MinChange \in Nat /\ FEE_RATE_OF_OUTPUT \in Nat
  /\ NUsers \in Nat \ {0} /\ CellsPerUser \in Nat \ {0}
ASSUME OwnersAssumption ==   \* every cell occupies more than the fee
  /\ MinChange > Fee
  /\ Owners \subseteq Seq([lock : {"type", "data", "data1"}, capacity : Nat])
  /\ \A first \in Owners : \A k \in DOMAIN first : first[k].capacity > Fee

VARIABLES
  owner,          \* the owner's cells at first
  live_cells,     \* queue of the owner's cells: records [tx, k, capacity]
  inputs,         \* cells taken from it for the next transaction
  i_out,          \* outputs for users so far
  txs,            \* the transactions sent, in order
  rest,           \* those not yet seen committed
  last_txs_len,   \* how many those were a minute ago
  pool, committed, drops,   \* the node; transactions are positions in txs
  phase

vars == <<owner, live_cells, inputs, i_out, txs, rest, last_txs_len,
          pool, committed, drops, phase>>
node == <<pool, committed, drops>>

total_outs == NUsers * CellsPerUser

Sum(numbers) ==
  LET sum[k \in 0..Len(numbers)] == IF k = 0 THEN 0 ELSE sum[k - 1] + numbers[k]
  IN sum[Len(numbers)]
Capacity(cells) == Sum([k \in DOMAIN cells |-> cells[k].capacity])

Init ==
  /\ owner \in Owners
  /\ live_cells = 
       [k \in DOMAIN owner |-> [tx |-> 0, k |-> k, capacity |-> owner[k].capacity]]
  /\ inputs = <<>> /\ i_out = 0
  /\ txs = <<>> /\ rest = {} /\ last_txs_len = 0
  /\ pool = {} /\ committed = {} /\ drops = 0
  /\ phase = "precheck"

----------------------------------------------------------------------------
(* Sending *)

\* the first assertion
Precheck ==
  /\ phase = "precheck"
  /\ phase' = IF Capacity(owner) > total_outs * CapacityPerCell + total_outs * FEE_RATE_OF_OUTPUT
              THEN "send" ELSE "refused"
  /\ UNCHANGED <<owner, live_cells, inputs, i_out, txs, rest, last_txs_len, node>>

\* transactions that transaction t spends the change of
Parents(t) == {txs[t].inputs[k].tx : k \in DOMAIN txs[t].inputs} \ {0}

\* mutant: the last transaction is as full as the others
OutputsUncapped(capacity) ==
  IF capacity \div CapacityPerCell < MAX_OUT_COUNT
  THEN capacity \div CapacityPerCell ELSE MAX_OUT_COUNT

\* n_outs: as many outputs for users as the capacity allows, up to
\* MAX_OUT_COUNT and to what is missing
Outputs(capacity) ==
  LET n == IF capacity \div CapacityPerCell < MAX_OUT_COUNT
           THEN capacity \div CapacityPerCell ELSE MAX_OUT_COUNT
  IN IF i_out + n >= total_outs THEN total_outs - i_out ELSE n

\* the change goes to the owner if it is enough for a cell, else to the miner
Change(capacity) == IF capacity >= MinChange THEN capacity ELSE 0

\* mutant: the cell stays in the queue
GatherWithoutPop ==
  /\ phase = "send" /\ live_cells # <<>>
  /\ LET taken == Append(inputs, Head(live_cells))
     IN (Capacity(taken) - Fee) \div CapacityPerCell = 0 /\ inputs' = taken
  /\ UNCHANGED <<owner, live_cells, i_out, txs, rest, last_txs_len, node, phase>>

\* Too little for one user: the next cell is added to the inputs.
Gather ==
  /\ phase = "send" /\ live_cells # <<>>
  /\ LET taken == Append(inputs, Head(live_cells))
     IN (Capacity(taken) - Fee) \div CapacityPerCell = 0 /\ inputs' = taken
  /\ live_cells' = Tail(live_cells)
  /\ UNCHANGED <<owner, i_out, txs, rest, last_txs_len, node, phase>>

\* mutant: the change is not spent
SendWithoutChange ==
  /\ phase = "send" /\ live_cells # <<>>
  /\ LET taken == Append(inputs, Head(live_cells))
         outputs_capacity == Capacity(taken) - Fee
         n_outs == Outputs(outputs_capacity)
         tx == [inputs |-> taken, n_outs |-> n_outs, change |-> 0]
     IN /\ outputs_capacity \div CapacityPerCell > 0
        /\ txs' = Append(txs, tx)
        /\ i_out' = i_out + n_outs
  /\ live_cells' = Tail(live_cells)
  /\ pool' = pool \cup {Len(txs')} /\ rest' = rest \cup {Len(txs')}
  /\ inputs' = <<>>
  /\ phase' = IF i_out' = total_outs THEN "wait" ELSE "send"
  /\ last_txs_len' = Len(txs')
  /\ UNCHANGED <<owner, committed, drops>>

\* mutant: the change is locked by the type of the script's cell
LockChangeViaType(c) == IF c.tx = 0 THEN owner[c.k].lock ELSE "type"
\* single_secp256k1_lock_script_via_data: the lock of the change
LockOf(c) == IF c.tx = 0 THEN owner[c.k].lock ELSE "data"

\* The node refuses a transaction that spends what it has dropped, or that lacks a
\* witness: there is one, the first, for all inputs, and each lock among the inputs
\* looks for one at the first input that it guards.
Accepts(taken) ==
  /\ {c.tx : c \in ToSet(taken)} \subseteq {0} \cup pool \cup committed
  /\ \A j, k \in DOMAIN taken : LockOf(taken[j]) = LockOf(taken[k])

\* A transaction is built and sent; its change joins the queue unless it was
\* the last.  A refusal panics.
Send ==
  /\ phase = "send" /\ live_cells # <<>>
  /\ LET taken == Append(inputs, Head(live_cells))
         outputs_capacity == Capacity(taken) - Fee
         n_outs == Outputs(outputs_capacity)
         change == Change(outputs_capacity - n_outs * CapacityPerCell)
         t == Len(txs) + 1
     IN /\ outputs_capacity \div CapacityPerCell > 0
        /\ \/ /\ Accepts(taken)
              /\ txs' = Append(txs, [inputs |-> taken, n_outs |-> n_outs, change |-> change])
              /\ pool' = pool \cup {t} /\ rest' = rest \cup {t}
              /\ inputs' = <<>>
              /\ i_out' = i_out + n_outs
              /\ live_cells' = IF change > 0 /\ i_out' # total_outs
                               THEN Append(Tail(live_cells),
                                           [tx |-> t, k |-> 0, capacity |-> change])
                               ELSE Tail(live_cells)
              /\ phase' = IF i_out' = total_outs THEN "wait" ELSE "send"
              /\ last_txs_len' = t
           \/ /\ ~Accepts(taken)
              /\ phase' = "panicked"
              /\ UNCHANGED <<live_cells, inputs, i_out, txs, rest, last_txs_len, pool>>
  /\ UNCHANGED <<owner, committed, drops>>

\* the owner's cells are used up
RunOut ==
  /\ phase = "send" /\ live_cells = <<>>
  /\ phase' = "wait"
  /\ UNCHANGED <<owner, live_cells, inputs, i_out, txs, rest, last_txs_len, node>>

----------------------------------------------------------------------------
(* Waiting for the commits *)

\* get_transaction for each transaction; then the last assertion
Poll ==
  /\ phase = "wait"
  /\ rest' = rest \ committed
  /\ phase' = CASE rest' # {} -> "wait"
                [] rest' = {} /\ i_out >= total_outs -> "finished"
                [] OTHER -> "short"
  /\ UNCHANGED <<owner, live_cells, inputs, i_out, txs, last_txs_len, node>>

\* send_transaction of t: it needs its parents, and a repetition changes nothing
Resubmit(transactions, t) ==
  IF Parents(t) \subseteq transactions \cup committed /\ t \notin committed
  THEN transactions \cup {t} ELSE transactions

\* the pool after all that are not yet committed were sent again, in their order
Resent ==
  LET resent[t \in 0..Len(txs)] ==
        IF t = 0 THEN pool
        ELSE IF t \in rest THEN Resubmit(resent[t - 1], t) ELSE resent[t - 1]
  IN resent[Len(txs)]

\* mutant: the timer is reset and nothing sent
ResendNothing ==
  /\ phase = "wait" /\ rest # {}
  /\ last_txs_len' = Cardinality(rest)
  /\ UNCHANGED <<owner, live_cells, inputs, i_out, txs, rest, committed, drops, phase, pool>>

\* A minute has passed; if no transaction was committed in it, all are sent
\* again in their order.
Resend ==
  /\ phase = "wait" /\ rest # {}
  /\ last_txs_len' = Cardinality(rest)
  /\ pool' = IF last_txs_len = Cardinality(rest) THEN Resent ELSE pool
  /\ UNCHANGED <<owner, live_cells, inputs, i_out, txs, rest, committed, drops, phase>>

----------------------------------------------------------------------------
(* The node *)

Commit ==
  /\ \E t \in pool :
       /\ Parents(t) \subseteq committed
       /\ committed' = committed \cup {t}
       /\ pool' = pool \ {t}
  /\ UNCHANGED <<owner, live_cells, inputs, i_out, txs, rest, last_txs_len, drops, phase>>

\* Transactions leave the pool, with those that spend their outputs
Drop ==
  /\ drops < MaxDrops /\ drops' = drops + 1
  /\ \E gone \in SUBSET pool :
       /\ gone # {}
       /\ \A t \in pool : Parents(t) \cap gone # {} => t \in gone
       /\ pool' = pool \ gone
  /\ UNCHANGED <<owner, live_cells, inputs, i_out, txs, rest, last_txs_len, committed, phase>>

Next == Precheck \/ Gather \/ Send \/ RunOut \/ Poll \/ Resend \/ Commit \/ Drop

Fairness ==
  /\ WF_vars(Precheck) /\ WF_vars(Gather \/ Send \/ RunOut)
  /\ WF_vars(Poll) /\ WF_vars(Resend) /\ WF_vars(Commit)

Spec == Init /\ [][Next]_vars /\ Fairness

----------------------------------------------------------------------------
(* Properties *)

Spent(t) == {[tx |-> c.tx, k |-> c.k] : c \in ToSet(txs[t].inputs)}

\* No cell of the owner is spent by two transactions, each transaction spends
\* what was there before it, and pays the fee.
SpendsEachCellOnce ==
  \A t \in DOMAIN txs :
    /\ \A u \in DOMAIN txs : t # u => Spent(t) \cap Spent(u) = {}
    /\ \A c \in ToSet(txs[t].inputs) : c.tx < t
    /\ \A j, k \in DOMAIN txs[t].inputs : txs[t].inputs[j] = txs[t].inputs[k] => j = k
    /\ Capacity(txs[t].inputs) - txs[t].n_outs * CapacityPerCell - txs[t].change >= Fee

\* When dispatch ends well, the users have all their cells, no more, and they
\* are in the chain.
UsersGetTheirCells ==
  /\ Sum([t \in DOMAIN txs |-> txs[t].n_outs]) = i_out
  /\ i_out <= total_outs
  /\ phase = "finished" => i_out = total_outs /\ committed = DOMAIN txs

\* The last assertion fails only because of what the precheck leaves out: the
\* fee of MAX_OUT_COUNT outputs in every transaction, and change that is too
\* small for a cell.
ShortOnlyByFees ==
  phase = "short" =>
    Capacity(owner) < total_outs * CapacityPerCell
                   + (Len(txs) + 1) * Fee + Len(txs) * MinChange

\* The assertion about the sending (prepare.rs:127-132) holds as long as the pool drops
\* nothing and all cells that may come together have one lock: those of the owner and,
\* from the first change on, that of the change.
LocksInPlay ==
  {owner[k].lock : k \in DOMAIN owner}
    \cup {"data" : t \in {u \in DOMAIN txs : txs[u].change > 0}}
PanicsOnlyAfterDropOrMix ==
  phase = "panicked" => drops > 0 \/ \E a, b \in LocksInPlay : a # b

\* The wait ends although the node drops transactions meanwhile.
DispatchEnds == <>(phase \in {"refused", "panicked", "finished", "short"})
=============================================================================

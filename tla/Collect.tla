------------------------------- MODULE Collect -------------------------------
(***************************************************************************)
(* The collect subcommand (ckb-bench/src/prepare.rs, collect): the cells   *)
(* of all users go back to the owner, user after user, in transactions of  *)
(* about inputs_len_soft_limit inputs.  A transaction is signed by groups  *)
(* of inputs with one lock, as the lock script will look for it.           *)
(***************************************************************************)
EXTENDS Naturals, Sequences, FiniteSets, SequencesExt

CONSTANTS
  n_users,
  MaxCells,                \* of one lock of one user
  inputs_len_soft_limit    \* 1000 in the code

ASSUME CollectAssumption ==
  n_users \in Nat /\ MaxCells \in Nat /\ inputs_len_soft_limit \in Nat \ {0}

VARIABLES
  cells,            \* of each user: how many of each lock
  i_user,           \* the user whose turn it is
  to_chunk,         \* live_cells of this user that no chunk had yet
  pending_inputs,
  collected,        \* the transactions sent: records [inputs, witnesses]
  progress

cvars == <<cells, i_user, to_chunk, pending_inputs, collected, progress>>

Users == 1..n_users
HashTypes == {"type", "data", "data1"}

CollectInit ==
  /\ cells \in [Users -> [HashTypes -> 0..MaxCells]]
  /\ i_user = 1 /\ to_chunk = <<>> /\ pending_inputs = <<>> /\ collected = <<>>
  /\ progress = "user"

----------------------------------------------------------------------------
(* The users' cells *)

Lock(u, t) == <<u, t>>
CellsOf(u, t) == [k \in 1..cells[u][t] |-> [lock |-> Lock(u, t), k |-> k]]
\* mutant: the cells in the order in which they were made
CellsByAge(u) ==
  SetToSortSeq(UNION {ToSet(CellsOf(u, t)) : t \in HashTypes}, LAMBDA c, d : c.k < d.k)
\* get_spendable_single_secp256k1_cells: lock after lock
LiveCells(u) == CellsOf(u, "type") \o CellsOf(u, "data") \o CellsOf(u, "data1")

\* live_cells.chunks(inputs_len_soft_limit): what the next chunk has
ChunkLen == IF Len(to_chunk) < inputs_len_soft_limit THEN Len(to_chunk) ELSE inputs_len_soft_limit
NextOfUser(rest) == IF rest = <<>> THEN i_user + 1 ELSE i_user

----------------------------------------------------------------------------
(* One transaction *)

\* the first input of its lock
FirstOf(inputs, k) == \A j \in 1..(k - 1) : inputs[j].lock # inputs[k].lock
\* script_groups: the inputs of one lock
Count(inputs, lock) == Cardinality({k \in DOMAIN inputs : inputs[k].lock = lock})

Placeholder == [by |-> "nobody"]
\* the owner of the lock signs the witnesses of its group
Signature(lock, cnt) == [by |-> lock, over |-> cnt]
GroupWitnesses(lock, cnt) ==
  [w \in 1..cnt |-> IF w = 1 THEN Signature(lock, cnt) ELSE Placeholder]
\* group after group, in the order in which their locks first occur
witnesses(inputs) ==
  FlattenSeq([k \in DOMAIN inputs |->
                IF FirstOf(inputs, k)
                THEN GroupWitnesses(inputs[k].lock, Count(inputs, inputs[k].lock))
                ELSE <<>>])

\* the node takes it, at once or after retries while its pool is full, or refuses it
collect_inputs(inputs, next) ==
  \/ /\ collected' = Append(collected, [inputs |-> inputs, witnesses |-> witnesses(inputs)])
     /\ progress' = next
  \/ progress' = "panicked" /\ UNCHANGED collected

----------------------------------------------------------------------------
(* collect *)

NextUser ==
  /\ progress = "user" /\ i_user \in Users /\ to_chunk = <<>>
  /\ to_chunk' = LiveCells(i_user)
  /\ i_user' = NextOfUser(LiveCells(i_user))
  /\ UNCHANGED <<cells, pending_inputs, collected, progress>>

NextChunk ==
  /\ progress = "user" /\ to_chunk # <<>>
  /\ LET chunk == SubSeq(to_chunk, 1, ChunkLen)
         rest == SubSeq(to_chunk, ChunkLen + 1, Len(to_chunk))
         inputs == pending_inputs \o chunk
     IN /\ to_chunk' = rest /\ i_user' = NextOfUser(rest)
        /\ IF Len(inputs) >= inputs_len_soft_limit
           THEN collect_inputs(inputs, "user") /\ pending_inputs' = <<>>
           ELSE pending_inputs' = inputs /\ UNCHANGED <<collected, progress>>
  /\ UNCHANGED cells

LastInputs ==
  /\ progress = "user" /\ i_user \notin Users /\ to_chunk = <<>>
  /\ IF pending_inputs # <<>> THEN collect_inputs(pending_inputs, "finished")
     ELSE progress' = "finished" /\ UNCHANGED collected
  /\ pending_inputs' = <<>>
  /\ UNCHANGED <<cells, i_user, to_chunk>>

CollectNext == NextUser \/ NextChunk \/ LastInputs

CollectSpec == CollectInit /\ [][CollectNext]_cvars

----------------------------------------------------------------------------
(* Property *)

InputsOf(transactions) == FlattenSeq([t \in DOMAIN transactions |-> transactions[t].inputs])

\* What the chain verifies of a transaction: the witness beside the first input of a
\* lock is signed for all of them, the others are as they were signed
\* (prepare.rs:305-365).  And when collect ends it has spent each cell once.
CollectsEachCellSigned ==
  /\ \A t \in DOMAIN collected :
       LET tx == collected[t]
       IN /\ Len(tx.witnesses) = Len(tx.inputs)
          /\ Len(tx.inputs) < 2 * inputs_len_soft_limit
          /\ \A k \in DOMAIN tx.inputs :
               tx.witnesses[k] =
                 IF FirstOf(tx.inputs, k)
                 THEN Signature(tx.inputs[k].lock, Count(tx.inputs, tx.inputs[k].lock))
                 ELSE Placeholder
  /\ progress = "finished" =>
       InputsOf(collected) = FlattenSeq([u \in Users |-> LiveCells(u)])
=============================================================================

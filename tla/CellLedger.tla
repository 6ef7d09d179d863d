----------------------------- MODULE CellLedger -----------------------------
(***************************************************************************)
(* What a transaction producer of ckb-bench promises to the bench loop,    *)
(* with nothing of how it does so: it holds copies of the live cells it    *)
(* was handed, and emits transactions that spend n_inout held copies of    *)
(* n_inout different locks.  No copy is spent twice, and a copy once       *)
(* accepted leaves the stock only by being spent or when the producer      *)
(* returns.                                                                *)
(***************************************************************************)
EXTENDS Naturals, Sequences, FiniteSets

CONSTANTS Cells,    \* the cells the producer may be handed
          NInOut    \* --n-inout

VARIABLES stock,    \* how many copies of each cell the producer holds
          emitted   \* the input sets of the transactions not yet received

vars == <<stock, emitted>>

EmptyStock == [c \in Cells |-> 0]

DistinctLocks(cells) == \A c, d \in cells : c.lock = d.lock => c = d

Init ==
  /\ stock = EmptyStock
  /\ emitted = <<>>

Accept(c) ==
  /\ stock' = [stock EXCEPT ![c] = @ + 1]
  /\ UNCHANGED emitted

Emit(inputs) ==
  /\ IsFiniteSet(inputs) /\ Cardinality(inputs) = NInOut
  /\ DistinctLocks(inputs)
  /\ \A c \in inputs : stock[c] > 0
  /\ stock' = [c \in Cells |-> IF c \in inputs THEN stock[c] - 1 ELSE stock[c]]
  /\ emitted' = Append(emitted, inputs)

Deliver ==
  /\ emitted # <<>>
  /\ emitted' = Tail(emitted)
  /\ UNCHANGED stock

\* run() returned and its maps are gone
Return ==
  /\ stock' = EmptyStock
  /\ UNCHANGED emitted

\* the receiver is gone, and what was queued for it
Abandon ==
  /\ emitted' = <<>>
  /\ UNCHANGED stock

Next ==
  \/ \E c \in Cells : Accept(c)
  \/ \E inputs \in SUBSET Cells : Emit(inputs)
  \/ Deliver
  \/ Return
  \/ Abandon

Spec == Init /\ [][Next]_vars
=============================================================================

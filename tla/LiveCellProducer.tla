-------------------------- MODULE LiveCellProducer --------------------------
(***************************************************************************)
(* The thread that polls the nodes for spendable cells and sends each one  *)
(* it has not seen lately to the transaction producer                      *)
(* (ckb-bench/src/bench.rs, LiveCellProducer).  What its RPCs return is a  *)
(* parameter of the actions; its channel is the caller's.                  *)
(*                                                                         *)
(* One round reads the tip number of every node, one RPC after the other,  *)
(* and then scans every user on the first node.  `step` counts through the *)
(* round: 1..NNodes are the tips, NNodes+1..NNodes+NUsers the users.       *)
(***************************************************************************)
EXTENDS Naturals, Sequences, FiniteSets, SequencesExt

CONSTANTS NNodes, NUsers,
          ExtraSeen   \* the LRU cache holds n_users + ExtraSeen; 10 in the code

VARIABLES
  step,             \* the next RPC of the round
  min_tip_number,   \* least tip number read in this round
  found,            \* cells that passed the filter and are still to be sent
  seen_out_points   \* the LRU cache, most recently used first

vars == <<step, min_tip_number, found, seen_out_points>>

SeenCap == NUsers + ExtraSeen
Seen == {seen_out_points[i] : i \in DOMAIN seen_out_points}

Init ==
  /\ step = 1
  /\ min_tip_number = 0
  /\ found = {}
  /\ seen_out_points = <<>>

\* mutant: a cache that never evicts
PutUnbounded(cache, cell) == <<cell>> \o RemoveFirst(cache, cell)

\* LruCache::put: a key is in the cache once
Put(cache, cell) ==
  LET others == RemoveFirst(cache, cell)
  IN <<cell>> \o SubSeq(others, 1, IF Len(others) < SeenCap
                                   THEN Len(others) ELSE SeenCap - 1)

NextStep == IF step = NNodes + NUsers THEN 1 ELSE step + 1

\* mutant: the tip of nodes[0] counts, the node that is scanned
ReadFirstTip(number) ==
  /\ found = {} /\ step <= NNodes
  /\ min_tip_number' = IF step > 1 THEN min_tip_number ELSE number
  /\ step' = NextStep
  /\ UNCHANGED <<found, seen_out_points>>

\* get_tip_block_number of node `step` returns `number`
ReadTip(number) ==
  /\ found = {} /\ step <= NNodes
  /\ min_tip_number' = IF step > 1 /\ min_tip_number < number
                       THEN min_tip_number ELSE number
  /\ step' = NextStep
  /\ UNCHANGED <<found, seen_out_points>>

\* mutants: the filter without its first and without its second half
UnseenOrNot(cells) == {c \in cells : c.number <= min_tip_number}
UnseenAnyNumber(cells) == cells \ Seen

\* The filter looks into the cache without refreshing what it finds there.
Unseen(cells) ==
  {c \in cells \ Seen : c.number <= min_tip_number}

\* the spendable cells of user step - NNodes are `cells`
Scan(cells) ==
  /\ found = {} /\ step > NNodes
  /\ found' = Unseen(cells)
  /\ step' = NextStep
  /\ UNCHANGED <<min_tip_number, seen_out_points>>

\* One cell of the batch enters the cache and is sent; the result of send()
\* is ignored.
SendCell(cell) ==
  /\ cell \in found
  /\ seen_out_points' = Put(seen_out_points, cell)
  /\ found' = found \ {cell}
  /\ UNCHANGED <<step, min_tip_number>>
=============================================================================

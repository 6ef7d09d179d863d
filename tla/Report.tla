------------------------------- MODULE Report -------------------------------
(***************************************************************************)
(* The on-chain report of a benchmark (ckb-bench/src/stat.rs, stat): a     *)
(* window slides over the blocks from_number..to_number, and the window    *)
(* with the most transactions per second is reported.                      *)
(*                                                                         *)
(* The blocks do not change while they are read: to_number is a number     *)
(* that all nodes agree on.  A timestamp may be below that of the parent   *)
(* block: the node only asks for more than the median of the last ones.    *)
(* n_inout, delay_time and the averages, which follow from the totals, are *)
(* left out.                                                               *)
(***************************************************************************)
EXTENDS Integers, Sequences, FiniteSetsExt

CONSTANTS
  Gaps,       \* time between a block and its parent
  Loads,      \* records [txs, size]: transactions of a block, its bytes
  NBlocks,    \* bound: blocks from from_number to to_number
  StatTime    \* stat_time, half the bench time

ASSUME NBlocksAssumption == NBlocks \in Nat /\ NBlocks > 1   \* from_number < to_number
ASSUME StatTimeAssumption == StatTime \in Nat \ {0}
ASSUME BlocksAssumption ==   \* every block has a cellbase
  Gaps \subseteq Int /\ Loads \subseteq [txs : Nat \ {0}, size : Nat]

VARIABLES
  blocks,                   \* records [timestamp, txs, size]; from_number is 1
  i, j,                     \* the window: blocks i..j-1 are counted
  total_transactions, total_transactions_size,
  best_report,
  reporting                 \* the loop goes on

vars == <<blocks, i, j, total_transactions, total_transactions_size, best_report, reporting>>

to_number == NBlocks

Sum(numbers, first, last) ==
  LET sum[k \in (first - 1)..last] == IF k = first - 1 THEN 0 ELSE sum[k - 1] + numbers[k]
  IN sum[last]

Chains ==
  {[k \in 1..NBlocks |->
      [timestamp |-> Sum(gaps, 2, k),
       txs |-> loads[k].txs, size |-> loads[k].size]] :
   gaps \in [2..NBlocks -> Gaps], loads \in [1..NBlocks -> Loads]}

\* Report::default()
NoReport == [from |-> 0, to |-> 0, tps |-> 0, txs |-> 0, size |-> 0]

Init ==
  /\ blocks \in Chains
  /\ i = 1 /\ j = 1
  /\ total_transactions = 0 /\ total_transactions_size = 0
  /\ best_report = NoReport
  /\ reporting = TRUE

\* saturating_sub
Elapsed(first, last) ==
  LET time == blocks[last].timestamp - blocks[first].timestamp
  IN IF time < 0 THEN 0 ELSE time

\* mutant: a window may be as long as stat_time
FitsLoosely(k) == Elapsed(i, k) <= StatTime

\* Block k may join the window
Fits(k) == Elapsed(i, k) < StatTime

\* the quotient of two floating point numbers as u64: a division by zero gives
\* infinity, and the conversion of that is u64::MAX
Infinite == 1000000000
PerSecond(amount, time) ==
  IF time = 0 THEN Infinite ELSE (amount * 1000) \div time

\* the inner loop takes the next block
Extend ==
  /\ reporting
  /\ j <= to_number /\ Fits(j)
  /\ total_transactions' = total_transactions + blocks[j].txs
  /\ total_transactions_size' = total_transactions_size + blocks[j].size
  /\ j' = j + 1
  /\ UNCHANGED <<blocks, i, best_report, reporting>>

\* the last block is counted and then closes its own window
LastBlock == IF j > to_number THEN to_number ELSE j

\* Only a strictly better window replaces the best.
Keep(end) ==
  LET tps == PerSecond(total_transactions, Elapsed(i, end))
  IN IF tps > best_report.tps
     THEN [from |-> i, to |-> end, tps |-> tps,
           txs |-> total_transactions, size |-> total_transactions_size]
     ELSE best_report

\* mutant: the block that leaves the window stays in the count
CloseWithoutLeaving ==
  /\ reporting
  /\ j <= to_number => ~Fits(j)
  /\ best_report' = Keep(LastBlock)
  /\ j' = LastBlock
  /\ reporting' = (LastBlock < to_number)
  /\ i' = IF LastBlock < to_number THEN i + 1 ELSE i
  /\ UNCHANGED <<blocks, total_transactions, total_transactions_size>>

\* the rest of the outer loop: rate the window and let its first block leave
Close ==
  /\ reporting
  /\ j <= to_number => ~Fits(j)
  /\ best_report' = Keep(LastBlock)
  /\ j' = LastBlock
  /\ \/ LastBlock >= to_number /\ reporting' = FALSE /\ UNCHANGED <<i, total_transactions>>
     \/ /\ LastBlock < to_number
        /\ total_transactions' = total_transactions - blocks[i].txs
        /\ i' = i + 1
        /\ UNCHANGED reporting
  /\ UNCHANGED <<blocks, total_transactions_size>>

Next == Extend \/ Close

Spec == Init /\ [][Next]_vars

----------------------------------------------------------------------------
(* Properties *)

Transactions(first, last) == Sum([k \in DOMAIN blocks |-> blocks[k].txs], first, last)
Bytes(first, last) == Sum([k \in DOMAIN blocks |-> blocks[k].size], first, last)

\* The running total is that of the blocks in the window, so that the
\* subtraction never goes below zero (total_transactions is unsigned), and
\* the window never runs empty before its end.
WindowAddsUp ==
  reporting => /\ i <= j /\ j <= to_number + 1
               /\ total_transactions = Transactions(i, j - 1)

\* The first block that is stat_time later, or the last block
End(first) ==
  LET later == {k \in first..to_number : Elapsed(first, k) >= StatTime}
  IN IF later = {} THEN to_number ELSE Min(later)

\* The last block of the window that starts at `first`
WindowEnd(first) ==
  IF \E k \in first..to_number : Elapsed(first, k) >= StatTime
  THEN End(first) - 1 ELSE to_number

\* and its transactions per second
Rate(first) ==
  PerSecond(Transactions(first, WindowEnd(first)), Elapsed(first, End(first)))

Monotone == \A k \in 2..to_number : blocks[k].timestamp >= blocks[k - 1].timestamp

\* Sliding the window finds what looking at each window from scratch finds:
\* the reported rate is the highest of all windows up to the first one that
\* reaches the end of the chain, if no timestamp is below its parent's.  The report is
\* about that window, or empty if none has one transaction in a second.
ReportsTheBestWindow ==
  ~reporting /\ Monotone =>
    /\ \A first \in 1..i : Rate(first) <= best_report.tps
    /\ \/ best_report = NoReport
       \/ /\ best_report.from \in 1..i
          /\ best_report.tps = Rate(best_report.from)
          /\ best_report.to = End(best_report.from)
          /\ best_report.txs = Transactions(best_report.from, WindowEnd(best_report.from))
    /\ End(i) = to_number /\ \A first \in 1..(i - 1) : End(first) < to_number

\* "Total transactions size" (Report in stat.rs), beside "Total transactions":
\* the two totals of a report are those of the same blocks.
SizeIsOfTheSameBlocks ==
  ~reporting /\ best_report # NoReport =>
    \E last \in best_report.from..best_report.to :
      /\ best_report.txs = Transactions(best_report.from, last)
      /\ best_report.size = Bytes(best_report.from, last)
=============================================================================

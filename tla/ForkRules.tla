------------------------------ MODULE ForkRules ------------------------------
(***************************************************************************)
(* What a node accepts before and after the 2021 hard fork, as far as the  *)
(* cases of ckb-integration-test depend on it.  The rules belong to the    *)
(* node, which is not part of the repository; they are taken from what the *)
(* cases and their tables say of it.  "on" tells whether the block or the  *)
(* pool that is asked applies the rules of 2021.  Each operator returns    *)
(* the set of errors; an empty set is Ok.                                  *)
(***************************************************************************)
EXTENDS Integers, Sequences, FiniteSets, SequencesExt

EPOCH_LENGTH == 1000      \* genesis_epoch_length of the test specifications
MEDIAN_COUNT == 37        \* median_time_block_count
Never == 1000000

Fails(error, condition) == IF condition THEN {error} ELSE {}

\* A block may carry a transaction proposed 2 to 10 blocks before it
ProposalWindow(number) == (number - 10)..(number - 2)

\* Median of the timestamps of block n and the 36 before it; stamped is the
\* range of blocks whose timestamp is T + number, T being 0; the others have
\* the time of the day
MedianTime(stamped, n) ==
  IF n - MEDIAN_COUNT + 1 >= stamped.from /\ n <= stamped.to
  THEN n - MEDIAN_COUNT \div 2 ELSE Never + n

\* RFC0028: a relative timestamp counts from the median time before the block
\* of the input, since the fork from the time of that block
RelativeTimeErrors(on, stamped, input, number, secs) ==
  LET base == IF on THEN input ELSE MedianTime(stamped, input - 1)
  IN Fails("Immature", base + 1000 * secs > MedianTime(stamped, number - 1))

\* RFC0029: a dependency is a cell or the name of a group of cells; data gives
\* what a cell holds.  Duplicates are found before scripts run.
ScriptErrors(on, hash_type, cell_deps, group, data) ==
  LET Expanded(name) == IF name \in DOMAIN group THEN group[name] ELSE <<name>>
      cells == FlattenSeq([k \in DOMAIN cell_deps |-> Expanded(cell_deps[k])])
      ambiguous == IF on THEN \E j, k \in DOMAIN cells : data[cells[j]] # data[cells[k]]
                         ELSE Len(cells) > 1
  IN IF ~IsInjective(cell_deps) THEN {"DuplicateCellDeps"}
     ELSE Fails("MultipleMatches", hash_type = "type" /\ ambiguous)

\* RFC0030: an epoch with fraction, absolute or counted from the input
SinceEpochErrors(on, since, input, number) ==
  LET wellFormed == since.index < since.length \/ (since.index = 0 /\ since.length = 0)
      length == IF since.length = 0 THEN 1 ELSE since.length
      index  == IF since.length = 0 THEN 0 ELSE since.index
      mature == IF since.relative
                THEN (number - input - since.number * EPOCH_LENGTH) * length
                       >= index * EPOCH_LENGTH
                ELSE \/ number \div EPOCH_LENGTH > since.number
                     \/ /\ number \div EPOCH_LENGTH = since.number
                        /\ (number % EPOCH_LENGTH) * length >= index * EPOCH_LENGTH
  IN IF on /\ ~wellFormed THEN {"InvalidSince"} ELSE Fails("Immature", ~mature)

\* RFC0031: the extension field of a block
ExtensionErrors(on, size) ==
  CASE size = -1       -> {}
    [] ~on             -> {"UnknownFields"}
    [] on /\ size = 0  -> {"EmptyBlockExtension"}
    [] on /\ size > 96 -> {"ExceededMaximumBlockExtensionBytes"}
    [] OTHER           -> {}

\* RFC0032: the virtual machine that runs a script
SelectedVM(on, hash_type) ==
  IF hash_type = "data1" \/ (on /\ hash_type = "type") THEN "VM1" ELSE "VM0"
VMErrors(on, hash_type) == Fails("Invalid VM Version", ~on /\ hash_type = "data1")

\* RFC0034: exec exists in VM 1, and finds its callee where the transaction
\* carries it
ExecErrors(on, hash_type, callees, source, place) ==
  VMErrors(on, hash_type)
  \cup Fails("InvalidEcall", SelectedVM(on, hash_type) = "VM0")
  \cup Fails("TransactionScriptError", hash_type = "data1" /\ <<source, place>> \notin callees)

\* RFC0036: before the fork a header dependency has to be as mature as a
\* cellbase; maturity in blocks
HeaderErrors(on, header, maturity, number) ==
  Fails("ImmatureHeader", ~on /\ number < header + maturity)
=============================================================================

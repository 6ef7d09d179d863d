------------------------------ MODULE ForkCases ------------------------------
(***************************************************************************)
(* The hard fork suites of ckb-integration-test (src/case/rfc00xx), as the *)
(* steps that each takes on a node.  A suite is a sequence of steps: mine  *)
(* to a height, deploy a cell, clone the node, build blocks according to   *)
(* instructions, submit a block, send transactions.  A step that makes a   *)
(* request has the result that the suite asserts: "Ok" or an error.        *)
(*                                                                         *)
(* A transaction has a name, its inputs and what the rule under test looks *)
(* at.  An input is the output of a named transaction, the cellbase of a   *)
(* block or one of the spendable cells, counted from the first (0, 1, ...) *)
(* or the last one (-1, -2, ...).                                          *)
(***************************************************************************)
EXTENDS ForkRules

CONSTANT EpochDbTip   \* height of the database Epoch2V2TestData
ASSUME EpochDbAssumption == EpochDbTip \in 2 * EPOCH_LENGTH .. 3 * EPOCH_LENGTH - 40

estimate_start_number_of_epoch(epoch) == epoch * EPOCH_LENGTH
FORK == estimate_start_number_of_epoch(3)

\* Steps
MineTo(height) == [op |-> "mine_to", height |-> height]
CloneNode == [op |-> "clone_node"]
Deploy(name, capacity) == [op |-> "deploy", name |-> name, capacity |-> capacity]
BuildStamped(stamped, target, ins, expected) ==
  [op |-> "build", stamped |-> stamped, target |-> target, ins |-> ins,
   expected |-> expected]
NoStamps == [from |-> 1, to |-> 0]
Build(target, ins, expected) == BuildStamped(NoStamps, target, ins, expected)
SubmitBlock(size, expected) ==
  [op |-> "submit_block", extension_size |-> size, expected |-> expected]
SendTransactions(txs, expected) ==
  [op |-> "send_transactions", txs |-> txs, expected |-> expected]

\* Instructions
Propose(number, tx) == [number |-> number, propose |-> TRUE, tx |-> tx]
Commit(number, tx)  == [number |-> number, propose |-> FALSE, tx |-> tx]

\* Transactions
Spendable(k)  == [of |-> "spendable", k |-> k]
OutputOf(tx)  == [of |-> tx, k |-> 0]
Cellbase(n)   == [of |-> "cellbase", k |-> n]
Tx(name, input, rule) == [name |-> name, inputs |-> <<input>>, rule |-> rule]
NoRule == [kind |-> "none"]
always_success_transaction(name, cell) == Tx(name, cell, NoRule)

----------------------------------------------------------------------------
(* RFC0028: since from a relative timestamp *)

\* HeaderTimestamp instructions: these blocks have timestamp T + number
construct_chain_instructions == [from |-> 1, to |-> FORK - 1]

build_transaction_0028(input_tx) ==
  Tx("tx", OutputOf(input_tx.name), [kind |-> "time", secs |-> 1])

Case0028(committed, height, expected) ==
  LET input_tx == always_success_transaction("input_tx", Spendable(0))
      tx == build_transaction_0028(input_tx)
  IN <<CloneNode,
       BuildStamped(construct_chain_instructions, FORK,
         <<Propose(committed - 2, input_tx), Commit(committed, input_tx),
           Propose(height - 2, tx), Commit(height, tx)>>, expected)>>

cases_before_switch ==
  <<Case0028(1998, FORK - 1, "Ok"), Case0028(1999, FORK - 1, "Ok"),
    Case0028(2000, FORK - 1, "Immature")>>
cases_after_switch ==
  <<Case0028(1980, FORK, "Ok"), Case0028(1981, FORK, "Ok"),
    Case0028(1982, FORK, "Immature")>>

\* mutant: nothing is asked of the block at the fork
RFC0028OnlyBefore == FlattenSeq(cases_before_switch)

RFC0028 == FlattenSeq(cases_before_switch \o cases_after_switch)

RFC0028Chained ==
  LET tip == FORK + MEDIAN_COUNT
      tx1 == always_success_transaction("tx1", Spendable(0))
      tx2 == Tx("tx2", OutputOf("tx1"), NoRule)   \* since: 0 blocks, relative
  IN <<MineTo(tip),
       Build(tip + 3, <<Propose(tip + 1, tx1), Propose(tip + 1, tx2),
                        Commit(tip + 3, tx1), Commit(tip + 3, tx2)>>, "Ok")>>

----------------------------------------------------------------------------
(* RFC0029: scripts that several dependencies match *)

CellDeps ==
  <<<<"a1">>, <<"a1", "a1">>, <<"a1", "a2">>, <<"a1", "b1">>,
    <<"group_a1">>, <<"group_a1_a1">>, <<"group_a1_a2">>, <<"group_a1_b1">>,
    <<"group_a1", "a1">>, <<"group_a1", "a2">>, <<"group_a1", "b1">>,
    <<"group_a1", "group_a2">>, <<"group_a1", "group_b1">>>>
Group ==   \* a deployed cell is a group or stands for itself
  [group_a1 |-> <<"a1">>, group_a2 |-> <<"a2">>, group_b1 |-> <<"b1">>,
   group_a1_a1 |-> <<"a1", "a1">>, group_a1_a2 |-> <<"a1", "a2">>,
   group_a1_b1 |-> <<"a1", "b1">>]
Data == [a1 |-> "always_success", a2 |-> "always_success", b1 |-> "another"]

\* capacities in units that make the always_success cells need two cells
Deploy0029 ==
  [k \in 1..9 |->
    Deploy(<<"a1", "a2", "b1", "group_a1", "group_a2", "group_b1",
             "group_a1_a1", "group_a1_a2", "group_a1_b1">>[k],
           IF k <= 3 THEN 10 ELSE 3)]

build_transaction_0029(hash_type, cell_deps) ==
  Tx("tx", Spendable(0), [kind |-> "deps", hash_type |-> hash_type, cell_deps |-> cell_deps])

Case0029(height, hash_type, cell_deps, expected) ==
  LET tx == build_transaction_0029(hash_type, cell_deps)
  IN <<CloneNode, Build(height, <<Propose(height - 2, tx), Commit(height, tx)>>, expected)>>

\* one block of the table: the positions of CellDeps that fail
Cases0029(height, hash_type, multiple) ==
  FlattenSeq([k \in DOMAIN CellDeps |->
    Case0029(height, hash_type, CellDeps[k],
             IF CellDeps[k] = <<"a1", "a1">> THEN "DuplicateCellDeps"
             ELSE IF k \in multiple THEN "MultipleMatches" ELSE "Ok")])
DataBefore == Cases0029(FORK - 1, "data", {})
TypeBefore == Cases0029(FORK - 1, "type", {3, 4} \cup 6..13)
DataAfter  == Cases0029(FORK, "data", {})
TypeAfter  == Cases0029(FORK, "type", {4, 8, 11, 13})

RFC0029 == Deploy0029 \o DataBefore \o TypeBefore \o DataAfter \o TypeAfter
----------------------------------------------------------------------------
(* RFC0030: since from an epoch with fraction; mature is the height of the *)
(* epoch the table expects, 0 an expected error                            *)

Abs(number, index, length) ==
  [relative |-> FALSE, number |-> number, index |-> index, length |-> length]
Rel(number, index, length) ==
  [relative |-> TRUE, number |-> number, index |-> index, length |-> length]
epoch_to_height(number, index, length) == number * length + index

Normal2019 ==
  <<<<Abs(2, 0, 0), 2000>>, <<Abs(2, 1, 0), 2000>>, <<Abs(2, 0, 1), 2000>>,
    <<Abs(1, 1, 1), 2000>>, <<Abs(1, 2, 1), 2000>>, <<Abs(2, 1, 2), 2500>>,
    <<Rel(1, 0, 0), 2000>>, <<Rel(1, 1, 0), 2000>>, <<Rel(1, 0, 1), 2000>>,
    <<Rel(0, 1, 1), 2000>>, <<Rel(0, 5, 4), 2250>>, <<Rel(0, 1, 2), 1500>>>>
Edge2019 ==
  <<<<Abs(2, 999, 1000), epoch_to_height(2, 999, 1000)>>,
    <<Abs(3, 0, 1000), 0>>, <<Abs(3, 0, 0), 0>>, <<Abs(3, 0, 1), 0>>,
    <<Abs(3, 1, 0), 0>>, <<Abs(3, 1, 1), 0>>, <<Abs(3, 1001, 1000), 0>>,
    <<Rel(1, 999, 1000), epoch_to_height(2, 999, 1000)>>,
    <<Rel(2, 0, 1000), 0>>, <<Rel(2, 0, 0), 0>>, <<Rel(2, 0, 1), 0>>,
    <<Rel(2, 1, 0), 0>>, <<Rel(2, 1, 1), 0>>, <<Rel(2, 1001, 1000), 0>>>>

\* the same since values again, with what 2021 makes of them
Normal2021 ==
  [k \in DOMAIN Normal2019 |->
    IF k - 1 \in {1, 3, 4, 7, 9, 10} THEN <<Normal2019[k][1], 0>> ELSE Normal2019[k]]
Edge2021 ==
  [k \in DOMAIN Edge2019 |->
    IF k + 11 \in 13..15 \cup 20..22
    THEN <<Edge2019[k][1], epoch_to_height(3, 0, 1000)>> ELSE Edge2019[k]]

build_transaction_0030(since) ==
  Tx("tx", Cellbase(EPOCH_LENGTH), [kind |-> "epoch", since |-> since])

\* A case with an expected error takes no step
Case0030(since, mature_height) ==
  LET tx == build_transaction_0030(since)
      immature_height == mature_height - 1
  IN IF mature_height = 0 THEN <<>> ELSE
     <<CloneNode,
       Build(immature_height,
         <<Propose(immature_height - 2, tx), Commit(immature_height, tx)>>, "Immature"),
       Build(mature_height, <<Commit(mature_height, tx)>>, "Ok")>>

RFC0030 ==
  LET cases == Normal2019 \o Edge2019 \o Normal2021 \o Edge2021
  IN <<MineTo(estimate_start_number_of_epoch(1))>>
     \o FlattenSeq([k \in DOMAIN cases |-> Case0030(cases[k][1], cases[k][2])])

----------------------------------------------------------------------------
(* RFC0031: the extension of a block; size -1 is None *)

ExtensionSizes == <<-1, 0, 1, 16, 32, 64, 96, 97>>
Case0031(height, size, expected) ==
  <<CloneNode, MineTo(height - 1), SubmitBlock(size, expected)>>
ExtensionBefore ==
  [k \in DOMAIN ExtensionSizes |->
    Case0031(FORK - 1, ExtensionSizes[k], IF k = 1 THEN "Ok" ELSE "UnknownFields")]
ExtensionAfter ==
  [k \in DOMAIN ExtensionSizes |->
    Case0031(FORK, ExtensionSizes[k],
             IF k = 2 THEN "EmptyBlockExtension"
             ELSE IF k = 8 THEN "ExceededMaximumBlockExtensionBytes" ELSE "Ok")]

RFC0031 == <<MineTo(FORK - 6)>> \o FlattenSeq(ExtensionBefore \o ExtensionAfter)

----------------------------------------------------------------------------
(* RFC0032: virtual machine selection, told from the cycles *)

HARDFORK_DELAY_WINDOW == 10
\* VM0 and VM1 stand for VM0_CYCLES and VM1_CYCLES
build_transaction_0032(hash_type, height) ==
  Tx("tx", Cellbase(height), [kind |-> "vm", hash_type |-> hash_type])

\* setup_node starts a node of its own for each case
Case0032(hash_type, height, expected) ==
  <<[op |-> "fresh_node"], MineTo(height),
    SendTransactions(<<build_transaction_0032(hash_type, height)>>, expected)>>
VMBefore ==
  LET height == FORK - HARDFORK_DELAY_WINDOW - 1
  IN Case0032("data", height, "VM0") \o Case0032("type", height, "VM0")
     \o Case0032("data1", height, "Invalid VM Version")
VMAfter ==
  LET height == FORK + HARDFORK_DELAY_WINDOW + 1
  IN Case0032("data", height, "VM0") \o Case0032("type", height, "VM1")
     \o Case0032("data1", height, "VM1")

RFC0032 == VMBefore \o VMAfter

----------------------------------------------------------------------------
(* RFC0034: exec of a callee that the transaction carries somewhere *)

ExecTx(source, place, hash_type) ==
  LET callees == IF place = "Witness"
                 THEN {<<"Input", "Witness">>, <<"Output", "Witness">>}
                 ELSE IF source = "Output" THEN {<<"Output", "CellData">>}
                 ELSE {<<source, "CellData">>}
      input == IF source = "Input" /\ place = "CellData" THEN OutputOf("dep_tx")
               ELSE Spendable(-2)
  IN Tx("tx", input, [kind |-> "exec", hash_type |-> hash_type, callees |-> callees,
                      source |-> source, place |-> place])

\* Spendable(-1) and Spendable(-2) are hundred cells each, split off one
\* after the other
build_transactions_0034(source, place, hash_type) ==
  <<Tx("dep_tx", Spendable(-1), NoRule), ExecTx(source, place, hash_type)>>

Case0034(source, place, hash_type, expected) ==
  <<CloneNode,
    SendTransactions(build_transactions_0034(source, place, hash_type), expected)>>
Cases0034(hash_type, expected, last_expected) ==
  Case0034("Input", "CellData", hash_type, expected)
  \o Case0034("Input", "Witness", hash_type, expected)
  \o Case0034("Output", "CellData", hash_type, expected)
  \o Case0034("Output", "Witness", hash_type, expected)
  \o Case0034("CellDep", "CellData", hash_type, expected)
  \o Case0034("CellDep", "Witness", hash_type, last_expected)

RFC0034 ==
  <<MineTo(FORK + 10), Deploy("exec_callee", 7), Deploy("exec_caller", 7)>>
  \o Cases0034("data", "InvalidEcall", "InvalidEcall")
  \o Cases0034("data1", "Ok", "TransactionScriptError")

----------------------------------------------------------------------------
(* RFC0036: a header dependency on the tip of the cloned node *)

CELLBASE_MATURITY == 6   \* blocks; 10/1800 of an epoch, rounded up

build_transaction_0036(tip) ==
  Tx("tx", Spendable(0), [kind |-> "header", header |-> tip])

Case0036(height, expected) ==
  LET tx == build_transaction_0036(FORK - 6)
  IN <<CloneNode, Build(height, <<Propose(height - 2, tx), Commit(height, tx)>>, expected)>>

RFC0036 ==
  <<MineTo(FORK - 6)>> \o Case0036(FORK - 1, "ImmatureHeader") \o Case0036(FORK, "Ok")
=============================================================================

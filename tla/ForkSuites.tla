------------------------------ MODULE ForkSuites ------------------------------
(***************************************************************************)
(* The runner of the hard fork suites and the testkit's block builder:     *)
(* build_according_to_instructions, clone_node, pull_node (node/builder.rs), *)
(* mine_to (node/mining.rs) and Deployer::deploy.  The transaction pool of *)
(* a node, which makes the block templates, follows the chain in its own   *)
(* time.  A suite stops at the first assertion that fails.                 *)
(*                                                                         *)
(* A chain is its height with the blocks that carry something.  Blocks     *)
(* without instructions are built one after the other with nothing to tell *)
(* them apart, and are one step here.                                      *)
(***************************************************************************)
EXTENDS ForkCases

CONSTANTS
  Activations,    \* heights at which the node may switch to the rules of 2021
  NCells,         \* spendable cells of node2021
  CELL_CAPACITY   \* capacity of each of them
ASSUME CellsAssumption == NCells \in Nat \ {0} /\ CELL_CAPACITY \in Nat \ {0}

VARIABLES
  suite, activation,   \* what runs, on a node that switches where
  pc, phase,           \* the step it is at: "run", "build", "passed", "panicked"
  chain,               \* of node2021 and of its clone for the case
  here,                \* the node that is driven
  pool_tip,            \* height its transaction pool knows
  instructions_map,    \* of the builder: the instructions for each number
  target_height, next_template_number

runner == <<suite, activation, here>>
builder == <<instructions_map, target_height, next_template_number>>
vars == <<runner, pc, phase, chain, pool_tip, builder>>

Suites ==
  [RFC0028 |-> RFC0028, RFC0028Chained |-> RFC0028Chained, RFC0029 |-> RFC0029,
   RFC0030 |-> RFC0030, RFC0031 |-> RFC0031, RFC0032 |-> RFC0032,
   RFC0034 |-> RFC0034, RFC0036 |-> RFC0036]

\* initial_database of the suite
DbTip(s) == IF s \in {"RFC0028", "RFC0030"} THEN 0 ELSE EpochDbTip
FreshChain(s) ==
  [tip |-> DbTip(s), blocks |-> {}, stamped |-> NoStamps, side |-> 0]

Init ==
  /\ suite \in DOMAIN Suites /\ activation \in Activations
  /\ pc = 1 /\ phase = "run"
  /\ chain = [node2021 |-> FreshChain(suite), case |-> FreshChain(suite)]
  /\ here = "node2021" /\ pool_tip = DbTip(suite)
  /\ instructions_map = <<>> /\ target_height = 0 /\ next_template_number = 0

----------------------------------------------------------------------------
(* Cells and what the node says of transactions *)

Txs(ch) == UNION {ToSet(b.txs) : b \in ch.blocks}
Spent(txs) == UNION {ToSet(tx.inputs) : tx \in txs}

get_spendable_always_success_cells(ch) ==
  SelectSeq([k \in 1..NCells |-> [of |-> "cell", k |-> k]],
            LAMBDA cell : cell \notin Spent(Txs(ch)))

\* the cell an input of a case stands for
Resolve(ch, input) ==
  LET cells == get_spendable_always_success_cells(ch)
  IN IF input.of # "spendable" THEN input
     ELSE cells[IF input.k >= 0 THEN input.k + 1 ELSE Len(cells) + 1 + input.k]
Resolved(ch, tx) ==
  [tx EXCEPT !.inputs = [k \in DOMAIN @ |-> Resolve(ch, @[k])]]

Created(ch, cell) ==
  IF cell.of = "cellbase" THEN cell.k
  ELSE CHOOSE n \in {b.number : b \in ch.blocks} \cup {0} :
         \A b \in ch.blocks : (\E tx \in ToSet(b.txs) : tx.name = cell.of) => n = b.number

Known(ch, before, name) == \E tx \in Txs(ch) \cup before : tx.name = name
Live(ch, before, cell) ==
  /\ \/ cell.of = "cell"
     \/ cell.of = "cellbase" /\ cell.k <= ch.tip
     \/ Known(ch, before, cell.of)
  /\ cell \notin Spent(Txs(ch) \cup before)

DepsOf(tx) ==
  IF tx.rule.kind = "deps" THEN ToSet(tx.rule.cell_deps)
  ELSE IF tx.rule.kind = "exec" THEN {"exec_callee", "exec_caller"} ELSE {}

RuleErrors(ch, tx, number) ==
  LET on == number >= activation   rule == tx.rule   input == Created(ch, tx.inputs[1])
  IN CASE rule.kind = "none" -> {}
       [] rule.kind = "capacity" ->
            Fails("CapacityOverflow", Len(tx.inputs) * CELL_CAPACITY < rule.capacity)
       [] rule.kind = "time" ->
            RelativeTimeErrors(on, ch.stamped, input, number, rule.secs)
       [] rule.kind = "deps" ->
            ScriptErrors(on, rule.hash_type, rule.cell_deps, Group, Data)
       [] rule.kind = "epoch" -> SinceEpochErrors(on, rule.since, input, number)
       [] rule.kind = "vm"    -> VMErrors(on, rule.hash_type)
       [] rule.kind = "exec"  ->
            ExecErrors(on, rule.hash_type, rule.callees, rule.source, rule.place)
       [] rule.kind = "header" ->
            HeaderErrors(on, rule.header, CELLBASE_MATURITY, number)

\* a transaction after the transactions "before", in a block or in the pool
TxErrors(ch, before, tx, number) ==
  IF /\ \A cell \in ToSet(tx.inputs) : Live(ch, before, cell)
     /\ \A dep \in DepsOf(tx) : Known(ch, before, dep)
  THEN RuleErrors(ch, tx, number) ELSE {"Unknown"}

Proposed(ch, tx, number) ==
  \E b \in ch.blocks : b.number \in ProposalWindow(number) /\ tx.name \in b.proposals

BlockErrors(ch, block) ==
  UNION {TxErrors(ch, ToSet(SubSeq(block.txs, 1, k - 1)), block.txs[k], block.number)
           \cup Fails("NotProposed", ~Proposed(ch, block.txs[k], block.number))
           : k \in DOMAIN block.txs}

----------------------------------------------------------------------------
(* Steps of a suite *)

Step == Suites[suite][pc]
At(op) == phase = "run" /\ pc <= Len(Suites[suite]) /\ Step.op = op

Expected == IF Step.op = "deploy" THEN "Ok" ELSE Step.expected

\* assert_result_eq!
Returns(result) ==
  /\ pc' = pc + 1
  /\ phase' = IF result = Expected THEN "run" ELSE "panicked"

\* mine waits for the pool after each block, but not before the first one: a
\* template the pool has made too early yields a sibling of a block, and the
\* chain is one block short in the end
Mined(ch, height) ==
  IF ch.tip >= height THEN ch
  ELSE IF pool_tip = ch.tip THEN [ch EXCEPT !.tip = height]
  ELSE [ch EXCEPT !.tip = height - 1, !.side = @ + 1]

mine_to ==
  /\ At("mine_to")
  /\ LET ch == chain[here]   mined == Mined(ch, Step.height)
     IN /\ chain' = [chain EXCEPT ![here] = mined]
        /\ pool_tip' = IF mined = ch THEN pool_tip ELSE mined.tip
  /\ pc' = pc + 1
  /\ UNCHANGED <<runner, phase, builder>>

\* target takes the blocks of source above the last one they share
pull_node(target, source) ==
  LET UpTo(ch, n) == {b \in ch.blocks : b.number <= n}
      different == (target.blocks \ source.blocks) \cup (source.blocks \ target.blocks)
      fixed_number == Min({target.tip} \cup {b.number - 1 : b \in different})
  IN [source EXCEPT !.blocks = UpTo(target, fixed_number)
                                 \cup (@ \ UpTo(source, fixed_number)),
                    !.side = 0]

clone_node ==
  /\ At("clone_node")
  /\ chain' = [chain EXCEPT !.case = pull_node(FreshChain(suite), chain.node2021)]
  /\ here' = "case" /\ pool_tip' = DbTip(suite)
  /\ pc' = pc + 1
  /\ UNCHANGED <<suite, activation, phase, builder>>

setup_node ==
  /\ At("fresh_node")
  /\ chain' = [chain EXCEPT ![here] = FreshChain(suite)]
  /\ pool_tip' = DbTip(suite) /\ pc' = pc + 1
  /\ UNCHANGED <<runner, phase, builder>>

\* mutant: leaves out the cell that is spent in part
PickInputsRoundedDown(ch, capacity) ==
  LET cells == get_spendable_always_success_cells(ch)
      picked == {k \in DOMAIN cells : k * CELL_CAPACITY <= capacity}
  IN [k \in picked |-> cells[k]]

\* the cells that deploy spends: when they add up to just the capacity it
\* takes one more
PickInputs(ch, capacity) ==
  LET cells == get_spendable_always_success_cells(ch)
      picked == {k \in DOMAIN cells : (k - 1) * CELL_CAPACITY <= capacity}
  IN [k \in picked |-> cells[k]]

deploy_instructions(ch) ==
  LET tx == [name |-> Step.name, inputs |-> PickInputs(ch, Step.capacity),
             rule |-> [kind |-> "capacity", capacity |-> Step.capacity]]
  IN <<Propose(ch.tip + 1, tx), Commit(ch.tip + 3, tx)>>

----------------------------------------------------------------------------
(* build_according_to_instructions *)

\* the instructions for each number that has some
InstructionsMap(ch, ins) ==
  LET resolved == [k \in DOMAIN ins |-> [ins[k] EXCEPT !.tx = Resolved(ch, @)]]
  IN [n \in {ins[k].number : k \in DOMAIN ins} |-> SelectSeq(resolved, LAMBDA i : i.number = n)]

\* mutant: waits for the template of the block that is already there
StartBuildAtTip(ins, target, stamped) ==
  LET ch == chain[here]
  IN /\ phase' = IF /\ \A i \in ToSet(ins) : ch.tip < i.number /\ i.number <= target
                    /\ stamped.from <= stamped.to => ch.tip < stamped.from
                 THEN "build" ELSE "panicked"
     /\ instructions_map' = InstructionsMap(ch, ins)
     /\ target_height' = target /\ next_template_number' = ch.tip
     /\ chain' = IF stamped.from <= stamped.to
                 THEN [chain EXCEPT ![here].stamped = stamped] ELSE chain
     /\ UNCHANGED <<runner, pc, pool_tip>>

\* the assertions and the map of the instructions; the timestamps of a range
\* of blocks that are still to be built are noted at once
StartBuild(ins, target, stamped) ==
  LET ch == chain[here]
  IN /\ phase' = IF /\ \A i \in ToSet(ins) : ch.tip < i.number /\ i.number <= target
                    /\ stamped.from <= stamped.to => ch.tip < stamped.from
                 THEN "build" ELSE "panicked"
     /\ instructions_map' = InstructionsMap(ch, ins)
     /\ target_height' = target /\ next_template_number' = ch.tip + 1
     /\ chain' = IF stamped.from <= stamped.to
                 THEN [chain EXCEPT ![here].stamped = stamped] ELSE chain
     /\ UNCHANGED <<runner, pc, pool_tip>>

deploy == /\ At("deploy")
          /\ StartBuild(deploy_instructions(chain[here]), chain[here].tip + 3, NoStamps)

build_according_to_instructions ==
  At("build") /\ StartBuild(Step.ins, Step.target, Step.stamped)

template_number == pool_tip + 1
\* mutant: takes any template
TemplateFitsLoosely == phase = "build" /\ template_number <= target_height

\* a template of another number is thrown away
TemplateFits ==
  phase = "build" /\ template_number <= target_height
    /\ template_number = next_template_number

Later == {n \in DOMAIN instructions_map : n > template_number}
Instructed == template_number \in DOMAIN instructions_map

\* submit_block: a block above the tip extends the chain, another one is a sibling
Submitted(ch, number, blocks) ==
  IF number > ch.tip THEN [ch EXCEPT !.tip = number, !.blocks = @ \cup blocks]
  ELSE [ch EXCEPT !.side = @ + 1]

\* blocks as the pool makes them, up to the next one with an instruction
BuildPlain ==
  /\ TemplateFits /\ ~Instructed
  /\ LET last == CHOOSE n \in {m - 1 : m \in Later} \cup {target_height} :
                   \A m \in Later : n < m
     IN /\ chain' = [chain EXCEPT ![here] = Submitted(@, last, {})]
        /\ next_template_number' = last + 1
  /\ UNCHANGED <<runner, pc, phase, pool_tip, instructions_map, target_height>>

InstructedBlock ==
  LET here_now == instructions_map[template_number]
      commits == SelectSeq(here_now, LAMBDA i : ~i.propose)
  IN [number |-> template_number,
      proposals |-> {i.tx.name : i \in {j \in ToSet(here_now) : j.propose}},
      txs |-> [k \in DOMAIN commits |-> commits[k].tx]]

BuildInstructed ==
  /\ TemplateFits /\ Instructed
  /\ LET ch == chain[here]   errors == BlockErrors(ch, InstructedBlock)
     IN \/ /\ errors = {}
           /\ chain' = [chain EXCEPT ![here] =
                          Submitted(ch, template_number, {InstructedBlock})]
           /\ instructions_map' = Restrict(instructions_map,
                                           DOMAIN instructions_map \ {template_number})
           /\ next_template_number' = template_number + 1
           /\ UNCHANGED <<pc, phase>>
        \/ /\ \E error \in errors : Returns(error)
           /\ UNCHANGED <<chain, instructions_map, next_template_number>>
  /\ UNCHANGED <<runner, pool_tip, target_height>>

BuildEnd ==
  /\ phase = "build" /\ template_number > target_height
  /\ Returns("Ok")
  /\ UNCHANGED <<runner, chain, pool_tip, builder>>

----------------------------------------------------------------------------
(* The other requests *)

\* RFC0031: the template with an extension
submit_block ==
  /\ At("submit_block")
  /\ LET ch == chain[here]
         errors == ExtensionErrors(template_number >= activation, Step.extension_size)
     IN \/ /\ errors = {} /\ Returns("Ok")
           /\ chain' = [chain EXCEPT ![here] = Submitted(ch, template_number, {})]
        \/ /\ \E error \in errors : Returns(error)
           /\ UNCHANGED chain
  /\ UNCHANGED <<runner, pool_tip, builder>>

\* the pool resolves and verifies transactions on the blocks it knows
PoolChain ==
  [chain[here] EXCEPT !.tip = pool_tip, !.blocks = {b \in @ : b.number <= pool_tip}]

SendResults(txs) ==
  LET Errors(k) == TxErrors(PoolChain, {Resolved(chain[here], txs[j]) : j \in 1..k - 1},
                            Resolved(chain[here], txs[k]), template_number)
      bad == {k \in DOMAIN txs : Errors(k) # {}}
      rule == Last(txs).rule
  IN IF bad # {} THEN Errors(Min(bad))
     ELSE IF rule.kind = "vm" THEN {SelectedVM(template_number >= activation, rule.hash_type)}
     ELSE {"Ok"}

\* RFC0034 sends at once; RFC0032 reads the cycles of the pool before and
\* after, which waits for the pool
send_transactions ==
  /\ At("send_transactions")
  /\ suite = "RFC0032" => pool_tip = chain[here].tip
  /\ \E result \in SendResults(Step.txs) : Returns(result)
  /\ UNCHANGED <<runner, chain, pool_tip, builder>>

UpdatePool ==
  /\ phase \in {"run", "build"} /\ pool_tip # chain[here].tip
  /\ pool_tip' = chain[here].tip
  /\ UNCHANGED <<runner, pc, phase, chain, builder>>

Pass ==
  /\ phase = "run" /\ pc = Len(Suites[suite]) + 1
  /\ phase' = "passed"
  /\ UNCHANGED <<runner, pc, chain, pool_tip, builder>>

Runner ==
  \/ mine_to \/ clone_node \/ setup_node \/ deploy \/ build_according_to_instructions
  \/ BuildPlain \/ BuildInstructed \/ BuildEnd \/ submit_block \/ send_transactions
  \/ Pass

Next == Runner \/ UpdatePool

\* the runner goes on as it can, and the pool catches up
Spec == Init /\ [][Next]_vars /\ WF_vars(Runner) /\ WF_vars(UpdatePool)

----------------------------------------------------------------------------
(* Properties *)

\* A node that switches at the fork passes each suite, whatever the order of
\* the checks in the node that finds several errors.  Only the suites that
\* use the pool of a clone at once may fail, when it is behind the chain.
FailsOnlyBehindThePool ==
  phase = "panicked" /\ activation = FORK => suite \in {"RFC0031", "RFC0034"}

\* A suite that passes has seen the switch, as exactly as its cases can tell:
\* RFC0030 leaves out the cases with an expected error, RFC0032 and RFC0034
\* stay away from the switch, the header of RFC0036 may be mature anyway, and
\* the blocks of RFC0031 may be one below the height that they are meant for.
PassesOnlyAtTheFork ==
  phase = "passed" =>
    CASE suite \in {"RFC0028", "RFC0029"} -> activation = FORK
      [] suite = "RFC0031" -> activation \in FORK - 1..FORK
      [] suite = "RFC0030" -> activation > 2250
      [] suite = "RFC0032" -> activation \in 2991..3012
      [] suite = "RFC0034" -> activation <= 3017
      [] suite = "RFC0036" -> activation >= FORK
      [] OTHER -> TRUE

\* The builder never makes a sibling of a block, though its templates come
\* from a pool that may be behind
BuildsOnTheTip == [][phase = "build" => \A n \in DOMAIN chain : chain'[n].side = chain[n].side]_vars

\* Every suite comes to an end
SuiteEnds == <>(phase \in {"passed", "panicked"})
=============================================================================

# Verification of ckb-integration-test

TLA+ models of the programs in this repository, model-checked with TLC, and
theorems about most of them, proved with TLAPS.  `PROJECT.json` lists the components, the runs, the
definition-to-source map, the hazards and the theorems.

## The system

The repository holds test tools for CKB, a blockchain node that is not part of it.

| Component | State | Operations | Talks to |
|---|---|---|---|
| **Live cell producer** (`ckb-bench/src/bench.rs`) | LRU cache of seen out points, the tips read in a round | poll the tips, scan each user, filter, send | RPC of the nodes, live cell channel |
| **Transaction producer** (`bench.rs`) | `live_cells` by lock, `backlogs` by out point | receive a cell, build and send a transaction, refill from the backlogs | live cell channel, transaction channel |
| **Bench loop** (`main.rs`, `utils.rs`) | next node, bench time | receive with timeout, send to the nodes in turn, retry while a pool is full | transaction channel, RPC |
| **Zero-load watcher** (`watcher.rs`) | none | look at the pool and the recent blocks of every node | RPC; gates the bench loop on both sides |
| **Report** (`stat.rs`) | window over the blocks, best report | slide the window, keep the best | RPC |
| **Dispatch and collect** (`prepare.rs`) | cells of the owner, transactions not yet committed | split the owner's cells among the users; wait, resend; gather them again | RPC |
| **Miner, stat, CLI** (`main.rs`) | | mine a block, sleep; print | RPC |
| **Subscription client** (`ckb-testkit/src/subscribe`) | pending notifications, topic names and ids | subscribe, poll, unsubscribe | a TCP stream of the node |
| **P2P connector** (`ckb-testkit/src/connector`) | sessions, opened protocols, a mailbox for each | service callbacks, send, receive with timeout | the p2p service thread |
| **Node waits** (`ckb-testkit/src/node{,s}`) | the embedded indexer | wait for sync, for the indexer, for the pool; fixed header | RPC |
| **Block building** (`node/builder.rs`, `node/mining.rs`) | blocks still to build, the template's number | build according to instructions, mine, clone and pull a chain | RPC of one node, whose transaction pool lags behind its chain |
| **P2P helpers** (`node/p2p.rs`, `nodes/p2p.rs`) | | connect or disconnect two nodes, or all pairs | RPC of two nodes at a time |
| **Process control, RPC wrappers, users** (`ckb-testkit`) | | | RPC, child processes |
| **Integration tests** (`ckb-integration-test`) | the step of the test, what it has read | hard fork suites; relay, discovery and identify cases; networking tests | all of the above |
| devtools, ckb-sync-mainnet, test data | | shell, Ansible, Terraform | |

### Where it is hard

The load generator is a pipeline of three threads around nodes that move on
their own: live cell producer -> bounded channel -> transaction producer ->
bounded channel -> bench loop -> nodes -> (blocks) -> live cell producer.
What a transaction creates is polled and spent again.  Each thread acts on
state that was read earlier: tips that have moved, cells that have been spent
since, nodes that have not seen a block yet.  The feedback loop has two
regimes:

* *more live cells than the cache of seen out points holds*: entries are evicted
  while their cells are in flight, cells are polled twice, and transactions
  double spend;
* *all live cells fit into the cache*: nothing is ever polled twice, and every
  cell that is dropped on the way is lost until something is evicted.  A
  transaction with n inputs has n outputs, so nothing new comes from outside.

Correct means: no transaction is malformed or spends what the nodes do not know;
a refusal by a node has the reason the code takes for granted (double spending);
the threads end when one of them does; and the load goes on.

Around the pipeline, the bench waits on both sides until the nodes are at zero
load, by RPCs that each see a different moment, and then reports on the blocks
in between; the cells come from an embedded indexer that follows a chain which
reorganises between two RPCs.

In ckb-testkit and the tests made with it:

* *Connector.*  The p2p service calls the handlers of sessions and of protocols
  from separate tasks.  A protocol may open before its session is known, a
  message may come after its session is gone, a handler panics and poisons the
  lock that the test reads by.
* *Subscription.*  Answers and notifications of all topics share one stream, in
  pieces of any size; a notification may belong to a topic that was just ended.
* *Network tests.*  Each helper asks one node after the other while the nodes
  connect and synchronise; `waiting_for_sync` waits for tips that were read
  before, and a node in initial block download listens only to those it dialed.
* *Hard fork suites.*  They stand at exact heights and build block by block from
  the templates of a pool that may be one or many blocks behind; the question is
  whether they can tell a node that switches at the fork from one that does not.

Correct means there: a test fails only for what the node does or for a timeout,
never by itself; and when it passes, it has seen what it is about.

## Modules

| Module | What it is |
|---|---|
| `CellLedger` | abstract: copies of cells come in, transactions spend exactly `NInOut` of them |
| `TransactionProducer` | the producer thread and its two channels |
| `TransactionProducerProofs` | theorems about it |
| `LiveCellProducer` | the polling thread; what the RPCs return is a parameter of its actions |
| `BenchNodes` | external: the nodes as the bench sees them (chain, tips, pools, `send_transaction`) |
| `BenchPipeline` | the three composed with the bench loop |
| `BenchPipelineProofs` | theorems about it: where cells are, who holds them, why nothing is refused but double spends |
| `BenchPhases` | warm-up, load, cool-down and report: `is_zero_load` against nodes that move |
| `BenchPhasesProofs` | theorems about it: the report covers exactly the bench |
| `Dispatch`, `Collect` | `dispatch` and `collect` of `prepare.rs`: the chain of transactions and the wait for their commit; the way back |
| `DispatchProofs` | theorems about `dispatch`: cells spent once, users served, short only by fees, why a transaction is refused; and `collect`: every cell, signed as the chain verifies it |
| `Report` | the sliding window of `stat()` |
| `ReportProofs` | theorems about it: the running total, and the best of all windows |
| `IndexerSync` | `wait_for_indexer_synced` against a node that grows and reorganises |
| `ClientProofs` | theorems about the indexer (a chain at all times, on the main chain at the end) and about `Subscription` (each notification once, what a panic is over) |
| `ForkRules` | external: what a node accepts before and after the fork |
| `ForkCases` | the steps and case tables of the suites RFC0028 to RFC0036 |
| `ForkSuites` | their runner: block builder, deployer, chain replay, the pool's lag |
| `ForkSuitesProofs` | theorem about it: the builder builds on the tip |
| `Connector` | the connector: p2p service, shared state, handlers |
| `ConnectorCases` | the tests that talk to a node through it, and that node (external) |
| `ConnectorProofs` | theorems about the connector in every case, and about the cases: what a verdict says of the node |
| `NodesSync` | the tests about nodes that connect and synchronise, with their helpers |
| `Subscription` | the subscription client and its codec |
| `Testkit` | `ConnectorCases`, `NodesSync` and `Subscription`, one of them at a time |
| `MC*` | instances for TLC |

`ForkSuites` extends `ForkCases`, which extends `ForkRules`; `ConnectorCases`
extends `Connector`; `Testkit` and `MCDispatch` put parts side by side that never
run together, choosing one in the initial state.

A definition that a comment calls a *mutant*, or begins with "as if", is the definition
after it with a plausible bug; `PROJECT.json` says which property each one breaks.

### Transaction producer

`TransactionProducer` has one action for each way in which `run()` goes from one
channel operation to the next.  `Receive` is the body of the loop from `recv()`
to `send()`: hold or defer the cell, and build a transaction when there are
`NInOut` locks.  `Send` is the successful `send()` with the refill from the
backlogs, `SendFails` and `RecvFails` are the two ends.  `Feed`, `CloseCells`,
`Take` and `DropReceiver` belong to the other ends of the channels.

The maps are modelled by their sets of values.  The code's maps have one value
for each key, so `Hold` keeps one cell for each lock, and the drain order of the
backlog map, which is arbitrary in Rust, is the choice of `kept` in `Drain`.  A
cell stands for its out point.  Signing, capacities and `since` are left out.

### Live cell producer

`step` counts the RPCs of a round: `ReadTip` for each node, then `Scan` for each
user.  A scan filters its whole result before the first cell is sent
(`collect()`), which is why `found` is a variable.  `Put` is `LruCache::put`;
the filter uses `contains`, which does not refresh an entry.  The query of one
user is atomic: the indexer is synced first, and cells spent between its two
lookups are simply missing from the answer.

### Pipeline

`BenchPipeline` instantiates both producers and the nodes on shared variables.
The bench loop is `TakeTransaction`, `SendTransaction` (each try of
`maybe_retry_send_transaction`) and `RecvTimeout`.  Abstractions:

* `recv_timeout` waits three minutes.  It fails in the model only if no
  transaction will ever come, because the pipeline is dry (`Starved`) or the
  producer has returned; other timeouts would need a step that takes minutes.
* The bench time may be over after any transaction (`state' = "done"`).
* The counters `benched_transactions` and `duplicated_transactions` are only
  logged.  An error other than a double spend is logged and otherwise treated
  alike.
* Chain: all nodes follow one chain at their own pace, without reorganisations
  (`IndexerSync` has those), one bench transaction in a block, and blocks
  without any are skipped.  Pools hold `PoolCap` transactions.
* `RpcMayFail` switches on the panic of the live cell producer on a failed RPC.
* `evicted` is a history variable.

### Phases, report, indexer

In `BenchPhases` a call of `is_zero_load` is a sequence of `ReadPool` and
`ReadBlocks` steps, one pair for each node in any order, since the nodes are in
a hash map; `false` starts over.  Reading the recent blocks is one step, as
blocks below a tip do not change.  Transactions are in a pool or a block at all
times.  `MaxLag < N_BLOCKS` says that a node is never as far behind as zero load
is long (20 blocks).  `get_fixed_header` compares the headers of the nodes from the lowest
tip downwards; without forks the first comparison ends it, and only that is modelled.
The smoking test of the code skips both waits and then
promises nothing, so it is not modelled.

`Report` has one action for an iteration of the inner loop and one for the rest
of the outer loop.  The averages and `n_inout` are left out.  The first report that
`stat()` compares with is empty, with no transaction per second, and a window replaces
only a report it is strictly better than.

In `IndexerSync` a block is the sequence of choices that led to it, so that it
determines its ancestors as a hash does.  Each RPC is a step; an append or a
rollback is the step after it, and the node moves in between.  The indexer starts with a
new store or with one that an earlier run has left in the working directory; if the node
has left that chain meanwhile, this counts as a reorganisation.  The answer that there is
no block carries the node's tip of that moment, for the properties only: at the end of
the wait the indexer has reached that tip's number, and has the tip itself unless the
node went on before the loop asked for the hash.

### Dispatch

`Gather` and `Send` are the two ways through the loop that builds transactions,
`Poll` and `Resend` the loop that waits.  Capacities are numbers; a transaction
records its input cells, how many outputs are for users, and its change.  The
node commits and drops (`Commit`, `Drop`) at any time from the first send on; a
dropped transaction takes its children along.  The outputs go to the users in
ranges of `CellsPerUser`, so only their number matters.  The owner's first cells have one
of three locks and come in their order, as `get_spendable_single_secp256k1_cells` returns
them; change has the lock via data.  The transaction has one witness for all inputs, so
the node accepts it only if they share a lock (`Accepts`).

Note that the precheck does not imply the last assertion: the phase `"short"` is
reached, for instance by cells of 66, 75 and 147 with four outputs of 70 and a
fee of 2 in a transaction.  `ShortOnlyByFees` bounds how far the precheck is off.

### Collect

`NextUser` and `NextChunk` are the two loops of `collect`, `LastInputs` what comes
after them; `to_chunk` is what the inner loop has still to cut up.  Transactions carry the locks of their inputs and who signed which
witness; `script_groups` and `witnesses` follow the code.  The fee is left out:
nothing depends on it.

### Hard fork suites

A suite is a sequence of steps (`MineTo`, `Deploy`, `CloneNode`, `Build`,
`SubmitBlock`, `SendTransactions`), written out in `ForkCases` from the tests' own
tables, with the result each step asserts.  `ForkSuites` has an action for each kind
of step.  `build_according_to_instructions` is `StartBuild` (the assertions and the
map of instructions), then `BuildPlain` and `BuildInstructed` for each template that
fits, then `BuildEnd`.  Blocks without instructions are alike, so a stretch of them
is one step.  A chain is its height and the blocks that carry something; `side`
counts siblings of blocks, which a builder that took an old template would make.

`pool_tip` is the height the transaction pool knows; `UpdatePool` catches up at any
time.  `activation` is the height at which the node switches: at the fork, a block
early or late, elsewhere, or never.  What the node says of a transaction or block
comes from `ForkRules`, which gives *all* its errors; which one it reports is open.

### Connector and its cases

`calls` has one queue for the session events and one for each protocol, as the
service keeps a task for each; a task runs its next call as soon as nobody reads the
shared state.  `OpenSession`, `OpenProtocol`, `Deliver` and `CloseSession` are the
service; `SessionOpen`, `SessionClose`, `connected`, `received` and `disconnected`
the handlers, each whole under the write lock.  `received` without a mailbox panics
and poisons the lock: later handlers change nothing, and the test's next look at the
state is a panic too.

`ConnectorCases` is one case of relaying, flooding, long address lists, the identify
protocol or the identical key pair.  The node conforms to what the case is about or
not (`Behaviours`), and may close the session at any time (`flaky`).  The peer version
of a relay case changes nothing in the code, so it is no part of a case.  Timeouts
expire at any time; `late` remembers one that expired while what the test waited for
was still under way, so that properties can tell a slow node from a wrong verdict.
The read lock that `IdentifyConnection` keeps during its wait is `reading`.  `removed`
is a history variable.  Building and compressing messages is left out.

### Network tests

`NodesSync` runs the scripts of basic networking and of RFC0035's v2019, connection
and discovery.  Each read of a helper is a step: `p2p_connect` of all pairs reads two
tips and dials (`ReadLower`, `DialPair`), `waiting_for_sync` reads number and block of
each tip (`ReadNumber`, `ReadBlock`) and then asks for the headers (`CheckHeader`,
which starts over at the first that is missing).  `order` is how the hash map of the
nodes happens to be walked.  A block is the chain that ends in it, blocks mined in one
call are one block, and a test's database is one block.

`pool` is the chain that a node's transaction pool has seen.  `mine` takes its first
template from it, and an old one makes a sibling, which the node does not prefer
(`MineStep`); then, and at the end of `waiting_for_sync` for each node, the test waits for
the pool: `ReadTip` reads the tip, `PoolSeen` finds the pool there, `PoolTimeout` is the
panic after ten seconds.  A pool that nobody waits for is not seen to catch up, so
`UpdatePool` happens only during a wait; this is the worst case for what is mined next.

A connection stands for both nodes at once.  In the code the other node may list its peer
a moment later, and then the pair is dialed twice, which changes nothing.  `synced` and `late` are history variables.

### Subscription

Bytes have a class (open, close, quote, escape, space, other), all that
`StreamCodec::decode` looks at; `Scan` is its loop body for one byte, and
`InString` its two flags for strings.  A notification
carries escaped quotes and braces within a string, as the node sends them.  `Arrive`
delivers any prefix of the stream.  `RecvAnswer` is one turn of the loop that
waits for an answer, `PollPending` and `PollStream` are `poll_next`, `IntoClient` the conversion
that keeps the connection and nothing else.  `dropped`, `ended`, `sent` and `got` are
history variables.  The codec's separator, which no caller sets, is left out.

## Runs

| Run | Instance | Shows |
|---|---|---|
| `tx_producer` | 4 cells, 3 locks, 2 users, n-inout 3, channels of 2 | exact inputs, backlogs, refinement of `CellLedger`, shutdown; any cell may arrive any number of times |
| `bench_eviction` | 3 cells, cache of 2, 2 nodes, n-inout 2 | with eviction, double spends are the only refusals, and no transaction reaches a node before its inputs |
| `bench_starved` | 3 cells, cache of 3, 3 blocks | running dry is permanent, and it is noticed |
| `bench_single` | 3 cells, cache of 4, n-inout 1 | with one input the load never stops |
| `bench_timeout` | 2 cells, cache of 12, 1 node, n-inout 2 | **violation**: the receive timeout fires (below) |
| `bench_phases` | 2 nodes, zero load 3 blocks, lag 2, 10 blocks, 2 + 1 transactions | the report covers exactly the bench |
| `report` | all chains of 5 blocks, 5 gaps, 2 loads | sliding window = definition |
| `report_size` | the same with 4 blocks | **violation**: bytes and transactions of different blocks (below) |
| `dispatch` | dispatch: every sequence of 1 to 3 of 5 capacities with 3 locks in order, 2 x 2 cells, 2 drops; collect: 2 users, 3 locks, up to 2 cells of each, about 3 inputs in a transaction | cells spent once, users served exactly, short only by fees, refused only after drops or over mixed locks, the wait ends; every cell comes back, signed as the chain verifies it |
| `fork_suites` | 8 suites, 13 heights of the switch, 20 cells, databases of 2100 blocks | a node that switches at the fork passes, but for two suites that run ahead of the pool; how exactly a suite that passes has located the switch; no siblings; an end |
| `testkit` | one session, five protocols, floods of 3; four tests on 2 to 5 nodes; 2 topics, 2 notifications, 3 requests | the connector's state agrees with the service; verdicts are right but for late answers; what waiting_for_sync waited for stays, and what is mined next is built on it; notifications whole, once, in order, and a panic only over one set aside of an ended subscription; every test ends |
| `indexer_sync` | 2 branches at each block, height 4, 2 reorganisations | a chain at all times, on the main chain at the end, always an end |

Why the bounds are enough.  `tx_producer`: four cells give a lock collision
between different cells (dropped), repeated copies of one cell (deferred) and
enough locks for a transaction of three; the channels of two fill up.
`bench_*`: three cells, two of one lock, against a cache of two (evicts), three
or four (never evicts); two nodes make the round robin, lag and relaying
matter; two or three blocks let outputs be found and spent again.
`bench_phases` needs 4 blocks of warm-up, 2 with load and 3 of cool-down.
`report`: windows of one to five blocks, equal and decreasing timestamps, and a
gap as long as the window itself, or so long that its window has less than one
transaction in a second.  `fork_suites`: the suites at their real heights
(an epoch of 1000 blocks, the fork at 3000), so that an off-by-one is one block; the
13 activations stand on both sides of every height at which a suite's verdict changes.
`testkit`: a connector dials once and gets one session; a flood of 3 lets the node
close before, within and after it; two notifications and three requests give two
subscriptions and the end of one, with notifications before, between and after the
answers.  In the network tests the bounds are the tests' own.  `dispatch`: three cells
of up to three locks, in every order that the queue may have, give transactions with inputs
of one, of two and of three locks, with change among them or not.  `indexer_sync`: an indexer
left by an earlier run is behind, ahead of or beside the node's chain.  Deadlock is not checked where the system
stops by itself (end of the bench, bounds of the nodes).

### Fairness

`TransactionProducer!Spec` has weak fairness of `Produce`: its thread blocks only
in channel operations.  `BenchPipeline!FairSpec` adds weak fairness of the other
two threads, of some node mining when a pool has a transaction, and of every node
adopting the blocks of the others; that is what a running test network does, and
what the bench waits for.  Nothing forces the bench to end, RPCs to fail or
transactions to be relayed.  `IndexerSync!Spec` has weak fairness of the loop;
the node stops moving because it is bounded.  `Dispatch!Spec` has weak fairness of the
program's steps and of `Commit`: a miner is running, and drops are bounded.
`ForkSuites!Spec` has weak fairness of the runner and of the pool that catches up: the
builder asks for templates without a timeout.  `TestkitSpec` has weak fairness of the
test's thread and of the timeout of `waiting_for_sync`, whose 60 seconds pass while it
asks over and over; nothing is asked of nodes, their pools or the service.  The wait for
a pool ends by the pool or by its timeout, both of them steps of the test's thread.

### Findings

1. `bench_timeout`.  All outputs of a transaction go to the user of the cell that
   was received last, and equal positions modulo 3 give equal locks.  The
   producer then holds one of two cells with the same lock and drops the other,
   which stays in the cache of seen out points.  If all live cells fit into that
   cache (they do with one cell per user, `n_users + 10`), the load can stop for
   good, and the bench dies in `.expect("timeout to wait transaction_receiver")`.
2. `report_size`.  `stat()` subtracts the transactions of a block that leaves the
   window, but not its bytes, so `total_transactions_size` and what is derived
   from it are those of more blocks than `total_transactions`.
3. `testkit`, `PanicsOnlyOverEndedAndSetAside`: `unsubscribe` sets the notifications aside
   that come before its answer, so that the stream yields them later
   (`subscribe/mod.rs:338`), and `poll_next` panics on those of the topic that is gone
   (`subscribe/mod.rs:387`).
4. `testkit`, `PassTellsTheNode`: `connect` says that it blocks until all protocols are
   opened, but compares the count of all opened ones with the count without Identify
   (`connector/mod.rs:221`); an identify case may pass without its protocol.
5. `testkit`, `FailsOnlyWhenLate`: `IdentifyConnection` waits for a message with the read
   lock that the handler of the message needs to write (`identify/connection.rs:81`).
   What has not come before the lock cannot come.
6. `testkit`, `PassTellsTheNode`: the same test passes client version and network
   identifier in each other's place (`identify/connection.rs:75`), and passes on nodes
   that disconnect over it.
7. `testkit`, `PassTellsTheNode`: the relay cases never use their peer version
   (`rfc0035/relay_transaction.rs:270`), and the explanation of a failure has the two
   protocols the other way round.
8. `fork_suites`, `PassesOnlyAtTheFork`: the loop of RFC0030 skips every case that
   expects an error (`rfc0030/rfc0030.rs:159`).
9. `dispatch`, `PanicsOnlyAfterDropOrMix`: a transaction of `dispatch` has one witness for all its
   inputs (`prepare.rs:112`), and may take cells of two lock scripts when the first is
   too small for one user.  The node refuses it, and the assertion that it was sent fails
   (`prepare.rs:127`).

In 3 to 9 the property holds as stated: it has the disjunct that the finding needs,
and says that nothing else goes wrong.  In 3 and 9 TLC shows within a few steps that the
exception is needed: the properties that leave it out, `request.of # "panicked"` and
`phase # "panicked"`, are violated.

## Proofs

Each proof module has an inductive invariant made of named parts, one lemma for each
action that says it keeps the invariant, and the theorems that follow.  The constants
are arbitrary within the named assumptions of the model, which TLC evaluates in the
runs; nothing else is assumed.

### Transaction producer

`TransactionProducerProofs` proves, for every set of cells and users, every
`NInOut > 0` and every channel capacity:

* `Invariance`: the inductive invariant `IInv`, which adds to the type invariant
  - `HeldInv`: `live_cells` has one cell for each lock and fewer than `NInOut`
    cells, none while a transaction waits in `send()`; the backlogs are among
    `live_cells` and the inputs of that transaction, and fewer than `NInOut`,
  - `UnsentInv`: there is at most one such transaction, and it has exactly `NInOut`
    inputs of different locks,
  - `QueuedInv`: so has every queued transaction.

  `ExactlyNInOut` is not inductive by itself: that the refill from the backlogs
  keeps `live_cells` below `NInOut` follows only from the backlogs being copies
  of the cells just spent.
* `TypeCorrect`, `InputsExact`, `BacklogsCopied`: what `tx_producer` checks.
* `ProducerImplementsLedger`: refinement of `CellLedger`, each action mapped to one
  of the ledger's or to a stutter.  A received cell is an `Accept` unless it is
  dropped, building a transaction leaves the copies where they are, `Send` is an
  `Emit`.

They assume that `NInOut` and the capacities are positive and that cells have a lock
of a user.

### Pipeline

`BenchPipelineProofs` is about any numbers of users and nodes, any `NInOut`, caches,
channels, pools and chain.  `BInv` says where cells are:

* `NodesInv`, `PollInv`, `PipelineInv`, `LoopInv`: everything the pipeline holds (cells
  found, cached, queued, held, deferred; inputs queued, in the sender's hand or in a
  pool) is *settled*, in the chain of every node.  `InputsKnownToEveryNode` is not
  inductive alone: a cell is settled because a poll reads all tips first and scans
  up to the least of them, so `PollInv` relates each tip read in this round to
  `min_tip_number`, while the nodes move on.  `TypeOKHolds` and
  `InputsKnownToEveryNodeHolds` follow.
* `ClaimInv`: a cell that was never evicted has at most one holder on the way from the
  poll to a block, and is in the cache of seen out points whenever it has one.  This
  gives `ClaimedOnceUnlessEvictedHolds`.  It needs that the outputs of a block are new
  cells: an out point contains the numbers of the blocks that led to it (`Numbered`), and
  `GenesisAssumption` says that those of the first cells contain none.
* `DiscardsAreDoubleSpendsHolds`: a transaction that a node cannot resolve has an evicted
  input.  All inputs are settled, so the node has seen them and one must be spent; by
  `ClaimInv` it was polled a second time.  Without eviction nothing is discarded.
* `StarvationIsForeverHolds`: the action property that a dry pipeline stays dry.

### Phases

`BenchPhasesProofs` is about any set of nodes, any transactions and any number of blocks
for zero load above the lag (`LagAssumption`).  `is_zero_load` reads the nodes one by one, so no
state shows all it has found.  The invariant says what the nodes not read yet must
show: `PendingInv`, an uncommitted transaction is in a pool still to be read;
`RecentInv`, a block with transactions that is not deep has one in such a pool, or is in
the chain of a node that has not passed.  When all have passed both are false, which
`RangeInv` keeps for the report: nothing old is above `zero_load_number`, nothing of the
bench is at `fixed_tip_number` or above.  `NoOldTransactionsAreReportedHolds` and
`AllTransactionsAreReportedHolds` are the two ends of the report's range.
`NodeAssumption` (a node) and `MaxBlocksAssumption` are needed for `get_fixed_header` to
have a minimum.

### Indexer

The first part of `ClientProofs` has no bound on heights or reorganisations in its invariant `SyncInv`:
each block of the indexer has all its ancestors below it (`Ancestors`), the block that
`get_block_by_number` returned has the number after the tip (`Asked`), and only a
reorganisation makes what was read stale (`NothingStale`).  It begins with a new store or
with the chain of any block (`Chain`).  Between the two RPCs of a
step the node may have left the branch; the proof that an append keeps the chain is
that the code compares the parent's hash, which determines the parent.
`IndexerIsAChainHolds`, `EndsOnTheMainChainHolds`, `RollsBackOnlyAfterReorgHolds`, and
`GenesisBlockStays`: the rollback loop cannot empty the indexer.

### Subscription client

The second part of `ClientProofs` is about any topics, any number of requests and of
notifications, and a connection that delivers its bytes in any pieces:

* *Codec.*  `decode` chooses a recursive function, the scan of the buffer.  `ScansExist`
  shows that there is one, `ScanOfNotification` and `ScanOfAnswer` follow it through a
  message, and `DecodesMessage` concludes: a buffer that begins with a message, after at
  most one space, has a frame as soon as the message's last bracket is there, and not
  before.  The brackets and quotes within a notification's string do not end it.
* *Stream.*  `Wire(q)` is the bytes of the messages `q`.  Buffer and stream together are
  always `Wire(q)` for some `q`, with the space that the last frame left (`Carries`);
  `TakesTheFirst` says that a frame holds the first message and leaves the others.
  `InFlight` joins what the bytes carry with `FlattenSeq`; `FlattenConcat` makes it
  the notifications of `q`, `Owed(q)`.
* `ClientInvariant`: the invariant `ClientInv`.  There is such a `q`, and it has at
  most one answer, while a request waits for it (`AnswerInv`); got, set aside and owed
  notifications are the ones sent (`OnceInv`); and each notification in `q` finds its
  subscription in the list, or the answer that announces it comes first (`KnownInv`).
  That this survives the end of a subscription is the node's order of messages: the answer
  to `unsubscribe` is followed by no notification of the subscription it ends (`EndsNow`,
  `Silent`), so the topic leaves the list when the stream has no more of it.  What remains
  is among the notifications set aside.  Then one lemma for each action.
* `EachNotificationOnceHolds` and `PanicsOnlyOverEndedAndSetAsideHolds` follow from it: a
  notification from the stream is always in the list, so a panic is over one that was set
  aside, and of an ended subscription.  They assume nothing of the constants.

### Block builder

`ForkSuitesProofs` proves `BuildsOnTheTipHolds` for any cells, heights of activation and
height of the database: whenever the builder submits a block, it extends the chain.
The invariant is that during a build `next_template_number` is the number after the
tip (`BuilderInv`); a template of the lagging pool that fits it cannot make a sibling.
The rest of the invariant is that heights are numbers, which is a statement about every step of
the eight suites: `AllSuites` goes through the tables of `ForkCases`.  They are joined by
`FlattenSeq`, which chooses a recursive function; `JoinsExist` shows that there is one,
and `Flattened` follows it, both by a least counterexample.

### Report

`ReportProofs` is about any number of blocks, with any gaps (negative ones, too), any
loads and any `stat_time`.  `Inv` has three parts beside the types:

* `WindowAddsUp`, proved by `WindowAddsUpHolds`: the running total is that of the blocks
  in the window.  A window never runs empty before the last block, because a block
  always fits into the window that begins with it.
* `FitsInv`: with timestamps that do not go back, every block counted in the window fits
  it, and those of the windows before have left for the next.  So the window that
  closes is the one that looking from scratch finds (`ClosedWindow`).
* `BestInv`: the report is the best of the windows closed so far, or empty.

`ReportsTheBestWindowHolds` needs one thing more: when the window reaches the last block,
the windows that would begin later are not rated by the code, and the theorem does not
speak of them.  The report is empty if no window has one transaction in a second, and
the theorem says so.  Lemmas about `Sum` (`SumEnds`: a sum with one term more at either end)
are arguments by a least counterexample.  The assumptions say that there are two blocks or more, that
`stat_time` is positive, and that a block has its cellbase.

### Dispatch and collect

`DispatchProofs` is about any owner, any number of users and of outputs in a transaction,
any fee rate, and a node that commits and drops as it likes.  `Inv` keeps two accounts
of the loop that builds transactions:

* `CellsInv` and `SpentInv`, of cells: a cell, known by the transaction that made it and
  its place, is once in the queue, among the inputs, or spent by one transaction, which
  pays the fee.  Nothing is spent before it is made, so change is new (`NewKey`).
* `ValueInv`, of capacity: what the owner had is in the queue, among the inputs, in the
  users' cells, or was paid, at most `Fee + MinChange` with each transaction; and the
  inputs that wait for another cell are too little for one user.

`PhaseInv` says what each phase has reached: with outputs missing, the wait begins only
when the queue is empty; every transaction is in `rest` or committed, also after
drops and resends.  `AcceptedInv` says why the node refuses: as long as nothing is dropped,
all that was sent is in the pool or the chain, and each cell in the queue or among the inputs
was made by it or was the owner's at first, with a lock that is *in play* (`LockInPlay`).
A refusal is then over two different locks, which gives `PanicsOnlyAfterDropOrMixHolds`.
`SpendsEachCellOnceHolds`, `UsersGetTheirCellsHolds` and
`ShortOnlyByFeesHolds` follow.  The lemmas about sums (`SumAppend`, `SumTail`) and about the
pool after a resend (`ResentWereSent`) are arguments by a least counterexample about
the recursive functions of the model.  The theorems need of `OwnersAssumption` only that
capacities are numbers.

Of `collect`, for any number of users, of cells and of inputs in a transaction,
`CollectInvariant` is the invariant `CollectInv`:

* `OrderInv`: the inputs left over and those still to be cut up are *in turn*, by user
  and then by lock, and fewer are left over than the soft limit.
* `SignedInv`: a transaction has its witnesses where the chain looks for them.  The code
  puts the witnesses of each script group one after the other, in the order of the
  groups; this is right only if the inputs of a group are contiguous, and they are
  because they are in turn (`InTurnIsGrouped`).
* `EachOnceInv`: the inputs collected, left over and still to come, in this order, are the
  cells of the users so far, each once.

`CollectsEachCellSignedHolds` follows.  `CollectAssumption` says that the soft limit is
positive.

### Connector

`ConnectorProofs` proves, for all sets of sessions and of protocols, every case, every
behaviour of the node and every order of the service's tasks, with queues of any
length:

* `Invariance`: the inductive invariant `CInv`.  Neither property is inductive: both
  hold because of what is still due.  With `Positions(t, c, s)`, where calls `c` of
  session `s` stand in the queue of task `t`, it says
  - `SessionInv`: only an open session has open protocols, only a closed one is
    removed or about to be, an open one is known or about to be;
  - `LastInv`: `disconnected` is the last call of its session and protocol, and due
    only after the session closed;
  - `OpenInv`: an open protocol has a mailbox or its `connected` is due, and before
    each message due there is the mailbox, or its `connected`, or the session has
    been removed;
  - `ClosedInv`: a protocol with a mailbox, or one whose `connected` is due, is open
    or its `disconnected` is due later.

  `DueFacts`, `CloseFacts` and `RunFacts` say how an append and a handled call move
  the positions; `AddsSession`, `RemovesSession` and `RemovesProtocol` what the
  session manager's operations do to mailboxes.  Then one lemma for each action.
* `PanicsAreLate`: `PanicsOnlyAfterSessionClose`, from `OpenInv` at the head of a queue.
* `AgreementWhenQuiet`: `AgreesWhenQuiet`; with empty queues `OpenInv` and `ClosedInv`
  are the two inclusions.

They assume `ConnectorAssumption`: there is a session id, the cases' protocols are
supported, and no protocol is the task of the sessions.

### Verdicts

The second part of `ConnectorProofs` goes on with the test and the node behind the connector: any
heights, any length of a flood, any set of protocols and any behaviour of the node.
`VerdictsHold` is the invariant `VInv`, on top of `CInv`:

* `PeerInv`: the service opens one session, and each protocol of it once; a refused peer
  has nothing due.  Without it, `CInv` allows states in which a second session
  would answer for the first.
* `TestInv`: what the test has sent is on the wire, read by the node, or was lost with a
  session that is closed (`WireInv`, `RelayInv`); the node closes only for the reasons its behaviour
  gives it (`CloseInv`); and what the test waits for is there, under way, or will not
  come (`StartedInv`, `HearInv`).
* `VerdictInv`: `RightVerdict` of the result, for the outcomes of each kind of case.

`FailsOnlyWhenLateHolds` and `PassTellsTheNodeHolds` then compare the verdict with the
expectation of the case, row by row of the tables (`Expected`).  The theorems have the
exceptions that the findings below `Runs` need, and no others.  `CasesAssumption` types
the parameters of the cases.

### Only model-checked

* Liveness: `StopsWithTheBench`, `NeverHangs`, `LoadGoesOn`, `WaitEnds`, `MCDispatchEnds`,
  `SuiteEnds`, `EveryTestEnds`.  Fairness and ENABLED are beyond the prover.
* `FailsOnlyBehindThePool`, `PassesOnlyAtTheFork`: the verdicts of tables with
  hundreds of concrete steps, which a proof could only execute one by one.
* The properties of `NodesSync`: its tests have no parameters, and TLC visits all of their states.

## Not modelled

* The CKB node, its indexer library, the p2p library: external, as far as the
  code relies on them.
* Argument parsing, key derivation, logging, process control, RPC serialisation.
* A second session of one connector.  `add_protocol` makes an entry also for a session that
  is closed, and nobody removes it (`connector/shared.rs:52`); it has no mailbox
  (`AgreesWhenQuiet`), and the cases dial once.
* `p2p_connect_uncheck` and `p2p_connect_and_wait_ban`, which no test uses; the ten
  seconds of `get_tip_tx_pool_info`; the codec's separator; helpers that open a subscription.
* The runner's choice of tests, and the generation of test data.
* The miner and `stat` subcommands: a loop that mines and sleeps, and printing.
* Operations scripts (`ckb-bench/devtools`, `ckb-sync-mainnet`).

## Plan

1. Done: the bench pipeline with its abstract ledger and proofs, phases, report,
   indexer, dispatch and collect.
2. Done: the hard fork suites; the connector with its cases and proofs; the network
   tests; the subscription client.
3. Done: proofs about the pipeline, the phases, the indexer, the block builder, dispatch
   and the verdicts of the connector's cases.
4. Done, proofs: the report's window; `collect`; the subscription client.
5. Done: `wait_for_tx_pool` with its timeout in the network tests, the locks of `dispatch`,
   an indexer with a store of an earlier run.
6. Left: reorganisations in `BenchPhases` and `BenchPipeline`.

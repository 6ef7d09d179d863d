------------------------------ MODULE NodesSync ------------------------------
(***************************************************************************)
(* The integration tests about nodes that connect and synchronise (basic   *)
(* networking, and rfc0035's v2019, connection and discovery), with the    *)
(* runner's before_run and the helpers of the testkit they are made of:    *)
(* p2p_connect and p2p_disconnect, of two nodes and of all, mine,          *)
(* get_tip_block, wait_for_tx_pool and waiting_for_sync.  Each helper asks *)
(* one node after the other while the nodes connect and synchronise in     *)
(* their own time, and their pools follow the chain in theirs.             *)
(*                                                                         *)
(* A block is the chain that ends in it, and a chain names the miners of   *)
(* its blocks.  The blocks of a test's database are one block, "old", and  *)
(* blocks that are mined in one call are one block.                        *)
(***************************************************************************)
EXTENDS Naturals, Sequences, FiniteSets, SequencesExt

VARIABLES
  test, pc,       \* the test that runs, and the step it is at
  order,          \* in which the map of the nodes is walked
  at,             \* how far the step has walked it, 0 before it starts
  asked,          \* what get_tip_block or wait_for_tx_pool has read, or what
                  \* p2p_connect waits for
  highest,        \* waiting_for_sync: tips, then highest_hashes
  chain, pool,    \* of each node, and the chain that its pool has seen
  dialed,         \* <<a, b>>: a is connected to b, which it dialed
  synced,         \* blocks that a waiting_for_sync came back for
  result, late    \* how the test ended; a timeout was too short

script == <<test, pc, order>>
net == <<chain, pool, dialed>>
vars == <<script, at, asked, highest, net, synced, result, late>>

Mine(n) == [op |-> "mine", a |-> n, b |-> n]
Dial(a, b) == [op |-> "dial", a |-> a, b |-> b]
Op(o, a, b) == [op |-> o, a |-> a, b |-> b]
All(o) == Op(o, "", "")

Four == {"node2019", "node2019_2", "node2021", "node2021_2"}
NodesOf(t) == CASE t = "BasicNetworking" -> {"node2019", "node2021"}
                [] t = "RFC0035V2021Discovery" -> {"node2021_1", "node2021_2", "node2021_3"}
                [] OTHER -> Four
Everyone == Four \cup NodesOf("RFC0035V2021Discovery") \cup {"fresh_node2021"}
Is2021(n) == n \notin {"node2019", "node2019_2"}

before_run(t) ==
  IF t = "RFC0035V2021Connection"
  THEN <<All("mine each"), All("connect"), Mine("node2019"), All("sync")>> ELSE <<>>

BasicNetworking ==
  <<Mine("node2019"), Mine("node2021"), Dial("node2019", "node2021"),
    Mine("node2019"), All("sync"), Mine("node2021"), All("sync")>>
RFC0035V2019 ==
  LET Synchronise(n) == <<All("disconnect"), Mine(n), All("connect"), All("sync")>>
      Relay(n) == <<All("connect"), Mine(n), All("sync")>>
  IN Synchronise("node2019") \o Synchronise("node2021") \o Relay("node2019") \o Relay("node2021")
RFC0035V2021Connection ==
  <<Mine("node2021"), All("sync"), Mine("node2021"), All("parted"),
    Dial("fresh_node2021", "node2021"), Op("same tip", "fresh_node2021", "node2021")>>
RFC0035V2021Discovery ==
  <<All("mine each"), All("alone"), Dial("node2021_2", "node2021_1"),
    Dial("node2021_3", "node2021_1"), Op("peers", "node2021_2", "node2021_3")>>

Tests == {"BasicNetworking", "RFC0035V2019", "RFC0035V2021Connection", "RFC0035V2021Discovery"}
run(t) == CASE t = "BasicNetworking" -> BasicNetworking
            [] t = "RFC0035V2019" -> RFC0035V2019
            [] t = "RFC0035V2021Connection" -> RFC0035V2021Connection
            [] t = "RFC0035V2021Discovery" -> RFC0035V2021Discovery
Script(t) == before_run(t) \o run(t)

nodes == NodesOf(test)
N == Len(order)
\* the k-th of two nested walks over the nodes
Pair(k) == <<order[((k - 1) \div N) + 1], order[((k - 1) % N) + 1]>>
Idle == [of |-> "nothing"]

Init ==
  /\ test \in Tests /\ pc = 1 /\ order \in SetToSeqs(NodesOf(test))
  /\ at = 0 /\ asked = Idle /\ highest = {}
  /\ chain = [n \in Everyone |-> IF n = "fresh_node2021" THEN <<>> ELSE <<"old">>]
  /\ pool = chain /\ dialed = {} /\ synced = {} /\ result = "none" /\ late = FALSE

\* the step the test is at
Step == Script(test)[pc]
At(o) == result = "none" /\ Step.op = o

----------------------------------------------------------------------------
(* The nodes *)

\* a connection that one side lists already and the other not yet is left out: only
\* one side is asked (p2p.rs:5-10), and to dial such a peer again changes nothing
Linked(a, b) == <<a, b>> \in dialed \/ <<b, a>> \in dialed
Ibd(n) == chain[n] = <<>> \/ Last(chain[n]) = "old"
\* a node takes blocks from a peer with a higher chain; in initial block
\* download only from one it dialed
CanAdopt(n, m) ==
  /\ Linked(n, m) /\ Len(chain[m]) > Len(chain[n]) /\ (Ibd(n) => <<n, m>> \in dialed)
Adopt(n, m) ==
  /\ CanAdopt(n, m)
  /\ \E k \in (Len(chain[n]) + 1)..Len(chain[m]) :
       chain' = [chain EXCEPT ![n] = SubSeq(chain[m], 1, k)]
  /\ UNCHANGED <<script, at, asked, highest, pool, dialed, synced, result, late>>

\* the last block of RFC0035V2021Connection activates the fork
Activated(n) == test = "RFC0035V2021Connection" /\ Len(chain[n]) = 5
CanPart(a, b) ==
  Linked(a, b) /\ Is2021(a) # Is2021(b) /\ (Activated(a) \/ Activated(b))
Part(a, b) ==
  /\ CanPart(a, b) /\ dialed' = dialed \ {<<a, b>>, <<b, a>>}
  /\ UNCHANGED <<script, at, asked, highest, chain, pool, synced, result, late>>

\* add_node and remove_node take effect
Establish ==
  /\ asked.of = "connection" /\ dialed' = dialed \cup {asked.pair}
  /\ dialed' # dialed
  /\ UNCHANGED <<script, at, asked, highest, chain, pool, synced, result, late>>
Release ==
  /\ asked.of = "release" /\ Linked(asked.pair[1], asked.pair[2])
  /\ dialed' = dialed \ {asked.pair, <<asked.pair[2], asked.pair[1]>>}
  /\ UNCHANGED <<script, at, asked, highest, chain, pool, synced, result, late>>

\* a node that was dialed tells those who dialed it of each other
CanTell(a, b) == a # b /\ ~Linked(a, b) /\ \E n \in nodes : <<a, n>> \in dialed /\ <<b, n>> \in dialed
Tell(a, b) ==
  /\ CanTell(a, b) /\ dialed' = dialed \cup {<<a, b>>}
  /\ UNCHANGED <<script, at, asked, highest, chain, pool, synced, result, late>>

\* The pool learns of the tip, some time after the chain has it.  The steps of a pool
\* that no test waits for are left out: it may always be as far behind as it can be.
PoolOf == IF At("mine") THEN Step.a ELSE order[at]
UpdatePool ==
  /\ asked.of = "pool" /\ pool[PoolOf] # chain[PoolOf]
  /\ pool' = [pool EXCEPT ![PoolOf] = chain[PoolOf]]
  /\ UNCHANGED <<script, at, asked, highest, chain, dialed, synced, result, late>>

Net ==
  \/ Establish \/ Release \/ UpdatePool
  \/ \E e \in dialed : Adopt(e[1], e[2]) \/ Adopt(e[2], e[1]) \/ Part(e[1], e[2])
  \/ test = "RFC0035V2021Discovery" /\ \E a, b \in nodes : Tell(a, b)

----------------------------------------------------------------------------
(* The helpers, one call at a time *)

Done ==
  /\ pc' = pc + 1 /\ at' = 0 /\ asked' = Idle
  /\ result' = (IF pc = Len(Script(test)) THEN "passed" ELSE "none")
  /\ UNCHANGED <<test, order, late>>
Stay == UNCHANGED <<script, result, late>>
\* a wait gives up, and its caller panics
GivesUp(coming) ==
  /\ result' = "panicked" /\ late' = (late \/ coming)
  /\ UNCHANGED <<script, at, asked, highest, net, synced>>

\* The first template is for the block after what the pool has seen; an old one makes
\* a sibling, which the node does not prefer.  Then submit_block waits for the pool.
mine(n) ==
  /\ chain' = (IF pool[n] = chain[n] THEN [chain EXCEPT ![n] = Append(@, n)] ELSE chain)
  /\ asked' = [of |-> "submitted"]
MineStep ==
  /\ asked = Idle /\ At("mine") /\ mine(Step.a)
  /\ Stay /\ UNCHANGED <<at, highest, pool, dialed, synced>>
MineEach ==
  /\ asked = Idle /\ At("mine each") /\ at < N /\ mine(order[at + 1]) /\ at' = at + 1
  /\ Stay /\ UNCHANGED <<highest, pool, dialed, synced>>
MineEnd ==
  /\ asked = Idle /\ At("mine each") /\ at = N
  /\ Done /\ UNCHANGED <<highest, net, synced>>

\* wait_for_tx_pool of one node: its tip, then the tip of its pool; as long as they
\* differ, up to 10 s from the pool's last step, both again
ReadTip ==
  /\ \/ asked.of = "submitted"
     \/ asked.of = "pool" /\ asked.tip # pool[PoolOf] /\ asked.tip # chain[PoolOf]
  /\ asked' = [of |-> "pool", tip |-> chain[PoolOf]]
  /\ Stay /\ UNCHANGED <<at, highest, net, synced>>
PoolSeen ==
  /\ asked.of = "pool" /\ asked.tip = pool[PoolOf]
  /\ IF At("mine") THEN Done
     ELSE asked' = (IF At("sync") THEN [of |-> "synced"] ELSE Idle) /\ Stay /\ UNCHANGED at
  /\ UNCHANGED <<highest, net, synced>>
PoolTimeout == asked.of = "pool" /\ asked.tip # pool[PoolOf] /\ GivesUp(TRUE)

\* Node::p2p_connect: add_node, then up to 20 s until the peer is listed
DialStep ==
  /\ asked = Idle /\ At("dial")
  /\ asked' = [of |-> "connection", pair |-> <<Step.a, Step.b>>]
  /\ Stay /\ UNCHANGED <<at, highest, net, synced>>
DialEnd ==
  /\ asked # Idle /\ At("dial") /\ Linked(Step.a, Step.b)
  /\ Done /\ UNCHANGED <<highest, net, synced>>
ConnectTimeout ==
  /\ asked.of = "connection" /\ ~Linked(asked.pair[1], asked.pair[2]) /\ GivesUp(TRUE)

\* Nodes::p2p_connect and Nodes::p2p_disconnect pass over a pair that needs nothing
Pairwise == At("connect") \/ At("disconnect")
NextPair ==
  /\ asked = Idle /\ Pairwise /\ at < N * N
  /\ LET e == Pair(at + 1)
     IN e[1] = e[2] \/ At(IF Linked(e[1], e[2]) THEN "connect" ELSE "disconnect")
  /\ at' = at + 1
  /\ Stay /\ UNCHANGED <<asked, highest, net, synced>>
PairsDone == Pairwise /\ asked = Idle /\ at = N * N /\ Done /\ UNCHANGED <<highest, net, synced>>
\* two that are not connected: the tip of the one, then of the other, and the lower dials
ReadLower ==
  /\ asked = Idle /\ At("connect") /\ at < N * N
  /\ LET e == Pair(at + 1)
     IN /\ e[1] # e[2] /\ ~Linked(e[1], e[2])
        /\ asked' = [of |-> "lower", pair |-> e, tip |-> Len(chain[e[1]])]
  /\ at' = at + 1
  /\ Stay /\ UNCHANGED <<highest, net, synced>>
\* as if the higher node dialed
DialerSwapped(tip, e) == IF tip < Len(chain[e[2]]) THEN <<e[2], e[1]>> ELSE e
Dialer(tip, e) == IF tip < Len(chain[e[2]]) THEN e ELSE <<e[2], e[1]>>
DialPair ==
  /\ asked.of = "lower" /\ At("connect")
  /\ asked' = [of |-> "connection", pair |-> Dialer(asked.tip, asked.pair)]
  /\ Stay /\ UNCHANGED <<at, highest, net, synced>>
\* remove_node, then up to 5 s until neither lists the other
RemovePair ==
  /\ asked = Idle /\ At("disconnect") /\ at < N * N
  /\ Linked(Pair(at + 1)[1], Pair(at + 1)[2])
  /\ asked' = [of |-> "release", pair |-> Pair(at + 1)] /\ at' = at + 1
  /\ Stay /\ UNCHANGED <<highest, net, synced>>
DisconnectTimeout ==
  /\ asked.of = "release" /\ Linked(asked.pair[1], asked.pair[2]) /\ GivesUp(TRUE)
PairDone ==
  /\ Pairwise
  /\ \/ asked.of = "connection" /\ Linked(asked.pair[1], asked.pair[2])
     \/ asked.of = "release" /\ ~Linked(asked.pair[1], asked.pair[2])
  /\ asked' = Idle
  /\ Stay /\ UNCHANGED <<at, highest, net, synced>>

----------------------------------------------------------------------------
(* Nodes::waiting_for_sync *)

\* get_tip_block of each node: the number, then the block of that number
ReadNumber ==
  /\ asked = Idle /\ At("sync")
  /\ asked' = [of |-> "number", tip |-> Len(chain[order[at + 1]])] /\ at' = at + 1
  /\ Stay /\ UNCHANGED <<highest, net, synced>>
HighestOf(blocks) == {b \in blocks : \A other \in blocks : Len(other) <= Len(b)}
ReadBlock ==
  /\ asked.of = "number" /\ At("sync")
  /\ LET tips == highest \cup {SubSeq(chain[order[at]], 1, asked.tip)}
     IN IF at < N
        THEN highest' = tips /\ asked' = Idle /\ UNCHANGED at
        ELSE highest' = HighestOf(tips) /\ asked' = [of |-> "headers"] /\ at' = 0
  /\ Stay /\ UNCHANGED <<net, synced>>

\* get_header knows the blocks of the node's main chain
HasHeader(n, hash) == IsPrefix(hash, chain[n])
Hash(k) == SetToSeq(highest)[((k - 1) \div N) + 1]
\* as if one node that knows a header were enough
CheckAnyHeader ==
  /\ asked.of = "headers" /\ At("sync") /\ at < N * Cardinality(highest)
  /\ at' = (IF HasHeader(order[(at % N) + 1], Hash(at + 1)) THEN N * Cardinality(highest) ELSE 0)
  /\ Stay /\ UNCHANGED <<asked, highest, net, synced>>
CheckHeader ==
  /\ asked.of = "headers" /\ At("sync") /\ at < N * Cardinality(highest)
  /\ at' = (IF HasHeader(order[(at % N) + 1], Hash(at + 1)) THEN at + 1 ELSE 0)
  /\ Stay /\ UNCHANGED <<asked, highest, net, synced>>
HeadersKnown ==
  /\ asked.of = "headers" /\ At("sync") /\ at = N * Cardinality(highest)
  /\ asked' = [of |-> "synced"] /\ at' = 0
  /\ Stay /\ UNCHANGED <<highest, net, synced>>
\* as if waiting_for_sync ended here
PoolsNotAsked ==
  /\ asked.of = "synced" /\ At("sync") /\ at < N /\ at' = N
  /\ Stay /\ UNCHANGED <<asked, highest, net, synced>>
\* then the pool of one node after the other
NextPool ==
  /\ asked.of = "synced" /\ At("sync") /\ at < N /\ at' = at + 1
  /\ asked' = [of |-> "submitted"]
  /\ Stay /\ UNCHANGED <<highest, net, synced>>
SyncEnd ==
  /\ asked.of = "synced" /\ At("sync") /\ at = N
  /\ synced' = synced \cup highest /\ highest' = {}
  /\ Done /\ UNCHANGED net
SyncTimeout ==
  /\ asked.of = "headers" /\ At("sync") /\ at < N * Cardinality(highest)
  /\ GivesUp(\/ \E n, m \in nodes : CanAdopt(n, m)
             \/ \A n \in nodes, hash \in highest : HasHeader(n, hash))

----------------------------------------------------------------------------
(* The waits of single tests *)

Parted == \A a, b \in nodes : Linked(a, b) => Is2021(a) = Is2021(b)
Holds ==
  \/ At("parted") /\ Parted
  \/ At("alone") /\ \A a, b \in nodes : ~Linked(a, b)
  \/ At("same tip") /\ Len(chain[Step.a]) = Len(chain[Step.b])
  \/ At("peers") /\ Linked(Step.a, Step.b)
WaitEnd == Holds /\ Done /\ UNCHANGED <<highest, net, synced>>
WaitTimeout ==
  /\ ~Holds
  /\ \/ /\ At("parted")
        /\ GivesUp(\E a, b \in nodes : CanPart(a, b) \/ CanAdopt(a, b))
     \/ At("same tip") /\ GivesUp(\E m \in Everyone : CanAdopt(Step.a, m))
     \/ At("peers") /\ GivesUp(CanTell(Step.a, Step.b))

Test ==
  \/ MineStep \/ MineEach \/ MineEnd \/ ReadTip \/ PoolSeen \/ PoolTimeout \/ DialStep \/ DialEnd \/ ConnectTimeout
  \/ NextPair \/ PairsDone \/ ReadLower \/ DialPair \/ RemovePair
  \/ DisconnectTimeout \/ PairDone
  \/ ReadNumber \/ ReadBlock \/ CheckHeader \/ HeadersKnown \/ NextPool \/ SyncEnd \/ SyncTimeout
  \/ WaitEnd \/ WaitTimeout

Next == result = "none" /\ (Test \/ Net)
\* the test runs, and the 60 s of waiting_for_sync pass while it asks again
Fairness == WF_vars(result = "none" /\ Test) /\ WF_vars(result = "none" /\ SyncTimeout)
Spec == Init /\ [][Next]_vars /\ Fairness

----------------------------------------------------------------------------
(* Properties *)

\* A test about the network panics only over a timeout that was too short, never
\* because a node is left without a peer to take blocks from, or because two nodes
\* stand at the same height on different chains (nodes/chain.rs:12-28, nodes/p2p.rs:9).
PanicsOnlyWhenLate == result = "panicked" => late

\* A block that waiting_for_sync came back for stays in the main chain of all nodes,
\* whatever a test mines afterwards on whichever node (v2019.rs:56-80).
SyncedStays ==
  \A b \in synced : \A n \in nodes : IsPrefix(b, chain[n])

\* What a test mines extends the node's main chain: the first template is not an old one,
\* although the pool follows a chain that other nodes move (mining.rs:8, chain.rs:40-42).
MinesOnTheTip ==
  (At("mine") \/ (At("mine each") /\ at < N)) /\ asked = Idle =>
    LET n == IF At("mine") THEN Step.a ELSE order[at + 1] IN pool[n] = chain[n]
=============================================================================

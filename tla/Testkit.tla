------------------------------- MODULE Testkit -------------------------------
(***************************************************************************)
(* What a test of the testkit may be doing: talking to a node through a    *)
(* connector (ConnectorCases), bringing its nodes together (NodesSync) or  *)
(* listening to a subscription (Subscription).  One part runs, the others  *)
(* stay as they start.                                                     *)
(***************************************************************************)
EXTENDS ConnectorCases, Subscription

VARIABLES
  part,   \* which of the three runs
  \* of NodesSync
  test, step, order, at, asked, highest, chain, pool, dialed, synced, outcome, early

Network == INSTANCE NodesSync WITH pc <- step, result <- outcome, late <- early

nvars == <<test, step, order, at, asked, highest, chain, pool, dialed, synced, outcome, early>>
all == <<part, vars, nvars, svars>>

\* a part that does not run starts in a state of its own
Parts == {"nodes", "peer", "client"}
TestkitInit ==
  /\ part \in Parts /\ Init /\ Network!Init /\ ClientInit
  /\ part # "nodes" => /\ test = "BasicNetworking"
                       /\ order = (CHOOSE o \in SetToSeqs(Network!NodesOf(test)) : TRUE)
  /\ part # "peer" => /\ case = (CHOOSE c \in Cases : TRUE)
                      /\ node = (CHOOSE b \in Behaviours(case) : TRUE)

TestkitNext ==
  \/ part = "nodes" /\ Network!Next /\ UNCHANGED <<part, vars, svars>>
  \/ part = "peer" /\ Next /\ UNCHANGED <<part, nvars, svars>>
  \/ part = "client" /\ ClientNext /\ UNCHANGED <<part, vars, nvars>>

\* the test's own thread is scheduled, and the clock of its waits goes on
TestkitSpec ==
  /\ TestkitInit /\ [][TestkitNext]_all
  /\ WF_all(part = "nodes" /\ outcome = "none" /\ Network!Test /\ UNCHANGED <<part, vars, svars>>)
  /\ WF_all(part = "nodes" /\ outcome = "none" /\ Network!SyncTimeout
            /\ UNCHANGED <<part, vars, svars>>)
  /\ WF_all(part = "peer" /\ pc # "done" /\ Test /\ UNCHANGED <<part, nvars, svars>>)

----------------------------------------------------------------------------
(* The parts' properties, beside those of the client *)

\* Of the network tests: a test panics only over a timeout that was too short
\* (nodes/chain.rs:12-28, nodes/p2p.rs:9).
PanicsOnlyWhenLate == Network!PanicsOnlyWhenLate
\* Of the network tests: what waiting_for_sync came back for stays in all main chains.
SyncedStays == Network!SyncedStays
\* Of the network tests: no block is mined upon the template of a pool that is behind.
MinesOnTheTip == Network!MinesOnTheTip

\* Every case of a connector and every test about the network ends, although their
\* waits nest, one is made with a lock, and waiting_for_sync starts over whenever a
\* node does not know a header (nodes/chain.rs:31-44).
EveryTestEnds ==
  <>(/\ part = "nodes" => outcome # "none"
     /\ part = "peer" => pc = "done")
=============================================================================

---------------------------- MODULE ConnectorCases ----------------------------
(***************************************************************************)
(* The integration tests that talk to a node through a connector: relaying *)
(* a transaction (rfc0035/relay_transaction.rs), flooding and long address *)
(* lists (discovery/), and the identify protocol (identify/).  One case is *)
(* run, on one node; the connector works beside the test.                  *)
(*                                                                         *)
(* Timeouts expire at any time.  The variable "late" remembers a timeout   *)
(* that expired while what the test waited for was still under way.        *)
(***************************************************************************)
EXTENDS Connector

CONSTANTS
  FORK_HEIGHT,   \* where the node switches, RFC0035_BLOCK_NUMBER
  WINDOW,        \* HARDFORK_DELAY_WINDOW
  Flood          \* messages of a flood

\* The cases stand on both sides of the fork, a flood is more than one message,
\* and connect() waits for the protocols they talk by, except Identify.
ASSUME CasesAssumption ==
  /\ FORK_HEIGHT \in Nat /\ WINDOW \in Nat /\ WINDOW < FORK_HEIGHT
  /\ Flood \in Nat /\ Flood > 1
  /\ {"Sync", "Relay", "RelayV2", "Discovery"} \cap IgnoredProtocols = {}

VARIABLES
  case, node,          \* the case, and how the node behaves
  pc, left, seen,      \* of the test: step, messages to send, wait_until's answer
  wire,                \* messages to the node that it did not read yet
  heard,               \* number of those it read
  spoke,               \* the node sent its unasked message
  pending, banned,     \* the node's transaction pool and ban list
  result, late

tvars == <<case, node, pc, left, seen, wire, heard, spoke, pending, banned, result, late>>
vars == <<cvars, tvars>>

----------------------------------------------------------------------------
(* The cases *)

Relaying(h, p, type, cycles, expected) ==
  [kind |-> "relay", height |-> h, protocols |-> {p, "Sync"}, talk |-> p,
   type |-> type, cycles |-> cycles, message |-> "hash", times |-> 1, expected |-> expected]

\* the peer version of a case changes nothing: the connector is the same
RelayBefore ==
  LET c(p, t, v, r) == Relaying(FORK_HEIGHT - WINDOW - 1, p, t, v, r)
  IN { c("Relay", "Data", "vm0", "Ok"),       c("Relay", "Data", "vm1", "RelayTransactionFailed"),
       c("Relay", "Type", "vm0", "Ok"),       c("Relay", "Type", "vm1", "RelayTransactionFailed"),
       c("Relay", "Data1", "vm0", "RelayTransactionFailed"),
       c("Relay", "Data1", "vm1", "RelayTransactionFailed"),
       c("RelayV2", "Data", "vm0", "RelayTransactionHashFailed") }
RelayAfter ==
  LET c(p, t, v, r) == Relaying(FORK_HEIGHT + WINDOW + 1, p, t, v, r)
  IN { c("RelayV2", "Data", "vm0", "Ok"),  c("RelayV2", "Data", "vm1", "RelayTransactionFailed"),
       c("RelayV2", "Type", "vm1", "Ok"),  c("RelayV2", "Type", "vm0", "RelayTransactionFailed"),
       c("RelayV2", "Data1", "vm1", "Ok"), c("RelayV2", "Data1", "vm0", "RelayTransactionFailed"),
       c("Relay", "Data", "vm0", "RelayTransactionHashFailed") }

Talking(kind, ps, message, times, expected) ==
  [kind |-> kind, height |-> 1, protocols |-> ps, talk |-> CHOOSE p \in ps : p # "Sync",
   type |-> "", cycles |-> "", message |-> message, times |-> times, expected |-> expected]

FloodAttack ==
  LET c(m, n, r) == Talking("flood", {"Discovery", "Sync"}, m, n, r)
  IN { c("get_nodes", 1, "Ok"), c("get_nodes", Flood, "disconnected"),
       c("announce", 1, "Ok"),  c("announce", Flood, "Ok"),
       c("nodes", 1, "Ok"),     c("nodes", Flood, "disconnected") }
ManipulatedAddresses ==
  LET c(m, r) == Talking("addresses", {"Discovery", "Sync"}, m, 1, r)
  IN { c("nodes_1000", "Ok"), c("announced_5000", "disconnected"), c("nodes_5000", "disconnected") }

\* client_version stands where send_identify_message takes the network's name
Connection ==
  { Talking("identify", {"Sync", "Identify"}, client_version, 1, "Ok") :
      client_version \in {"v0_43", "v0_100", ""} }
\* of the second of two connectors with one key
IdenticalKeyPair == { Talking("key_pair", {"Sync", "Identify"}, "", 0, "timeout") }

Cases == RelayBefore \cup RelayAfter \cup FloodAttack \cup ManipulatedAddresses
           \cup Connection \cup IdenticalKeyPair

----------------------------------------------------------------------------
(* The node *)

Forked(c) == c.height >= FORK_HEIGHT
Asks(c) == c.talk = (IF Forked(c) THEN "RelayV2" ELSE "Relay")
Accepts(c) ==
  /\ c.cycles = (IF c.type = "Data1" \/ (c.type = "Type" /\ Forked(c)) THEN "vm1" ELSE "vm0")
  /\ c.type = "Data1" => Forked(c)
\* which message of the case it does not put up with
Misbehaves(c) ==
  CASE c.kind = "flood" -> c.message # "announce" /\ c.times > 1
    [] c.kind = "addresses" -> c.message # "nodes_1000"
    [] c.kind = "identify" -> c.message # "network"
    [] c.kind = "key_pair" -> TRUE
    [] OTHER -> FALSE
Answer(c) ==
  IF c.kind = "relay" THEN (IF Accepts(c) THEN "accept" ELSE "ban")
  ELSE IF Misbehaves(c) THEN "disconnect" ELSE "tolerate"

Behaviours(c) ==
  [asks : IF c.kind = "relay" THEN BOOLEAN ELSE {FALSE},
   answer : IF c.kind = "relay" THEN {"accept", "ban", "drop"} ELSE {"tolerate", "disconnect"},
   flaky : BOOLEAN]
Conforms == ~node.flaky /\ node.answer = Answer(case) /\ (case.kind = "relay" => node.asks = Asks(case))

\* the only dial of a connector gives its only session
S == CHOOSE s \in Sessions : TRUE
Refused == case.kind = "key_pair" /\ node.answer = "disconnect"

NodeOpensSession == pc # "dial" /\ OpenSession(S) /\ UNCHANGED tvars
NodeOpensProtocol(p) == ~Refused /\ OpenProtocol(S, p) /\ UNCHANGED tvars
NodeCloses ==
  /\ node.flaky \/ Refused
  /\ CloseSession(S) /\ UNCHANGED tvars
\* an announcement, or its own identify message
NodeSpeaks ==
  /\ case.kind \in {"relay", "identify"} /\ ~spoke /\ spoke' = TRUE
  /\ Deliver(S, case.talk, IF case.kind = "relay" THEN "other" ELSE "identify")
  /\ UNCHANGED <<case, node, pc, left, seen, wire, heard, pending, banned, result, late>>

NodeReads ==
  /\ wire # <<>> /\ session[S] = "open"
  /\ wire' = Tail(wire) /\ heard' = heard + 1
NodeKeeps == UNCHANGED <<case, node, pc, left, seen, spoke, result, late>>

NodeAsks ==
  /\ NodeReads /\ Head(wire) = "hash" /\ NodeKeeps /\ UNCHANGED <<pending, banned>>
  /\ IF node.asks THEN Deliver(S, case.talk, "ask") ELSE UNCHANGED cvars
NodeDecides ==
  /\ NodeReads /\ Head(wire) = "tx" /\ NodeKeeps
  /\ pending' = (node.answer = "accept") /\ banned' = (node.answer = "ban")
  /\ IF node.answer = "ban" THEN CloseSession(S) ELSE UNCHANGED cvars
\* it answers a request for nodes, and closes at a message it does not accept
NodeHears ==
  /\ NodeReads /\ Head(wire) \notin {"hash", "tx"} /\ NodeKeeps /\ UNCHANGED <<pending, banned>>
  /\ IF node.answer = "disconnect" /\ heard' >= Min({2, case.times}) THEN CloseSession(S)
     ELSE IF case.message = "get_nodes" THEN Deliver(S, case.talk, "other")
     ELSE UNCHANGED cvars

Node ==
  \/ NodeOpensSession \/ NodeCloses \/ NodeSpeaks
  \/ \E p \in protocols : NodeOpensProtocol(p)
  \/ NodeAsks \/ NodeDecides \/ NodeHears

----------------------------------------------------------------------------
(* The test *)

Goto(l) == pc' = l /\ UNCHANGED result
Return(r) == pc' = "done" /\ result' = r
Same == UNCHANGED <<case, node, heard, spoke, pending, banned>>
\* of a timeout: it was too early for what was under way
Expires(l, coming) == pc = l /\ late' = (late \/ coming)
Within(l) == pc = l /\ UNCHANGED late

\* every look at the shared state is unreachable!() once it is poisoned
Panic ==
  /\ pc \in {"connect", "talk", "ask", "tx"} /\ poisoned /\ Return("panicked")
  /\ Same /\ UNCHANGED <<cvars, left, seen, wire, late>>

\* an error of the send is unwrapped, returned, or kept as the result
Send(m) == wire' = (IF case.talk \in opened[S] THEN Append(wire, m) ELSE wire)

Dial ==
  /\ Within("dial") /\ Goto("connect")
  /\ Same /\ UNCHANGED <<cvars, left, seen, wire>>
Connected ==
  /\ Within("connect") /\ ~poisoned
  /\ \E s \in SessionsOfNode : EnoughOpened(s)
  /\ IF case.kind = "key_pair" THEN Return("Ok") ELSE Goto("talk")
  /\ Same /\ UNCHANGED <<cvars, left, seen, wire>>
ConnectTimeout ==
  /\ Expires("connect", session[S] # "closed" /\ ~Refused) /\ ~poisoned /\ Return("timeout")
  /\ Same /\ UNCHANGED <<cvars, left, seen, wire>>

\* the transaction's hash, the flood, the address list or the identify message
SendMessage ==
  /\ Within("talk") /\ ~poisoned /\ left > 0 /\ SessionsOfNode # {}
  /\ Send(case.message) /\ left' = left - 1
  /\ Goto(IF left' > 0 THEN "talk"
          ELSE CASE case.kind = "relay" -> "ask"
                 [] case.kind = "identify" -> "lock"
                 [] OTHER -> "ban")
  /\ Same /\ UNCHANGED <<cvars, seen>>
SendFails ==
  /\ Within("talk") /\ ~poisoned /\ SessionsOfNode = {}
  /\ CASE case.kind = "relay" -> Return("panicked")
       [] case.kind = "flood" -> pc' = "ban" /\ result' = "disconnected"
       [] case.kind = "addresses" -> Return("disconnected")
       [] case.kind = "identify" ->   \* the session goes before or after the look at it
            \E r \in {"Ok", "disconnected"} : Return(r)
  /\ Same /\ UNCHANGED <<cvars, left, seen, wire>>

\* wait_until(20, recv_timeout(20 s)): another round after an error or
\* after another message
\* as if any message ended the wait
ReceiveFirst ==
  /\ Within("ask") /\ ~poisoned
  /\ \E s \in SessionsOfNode :
       /\ case.talk \in get_opened_protocol_ids(s) /\ mailbox[s][case.talk] # <<>>
       /\ mailbox' = [mailbox EXCEPT ![s][case.talk] = Tail(@)]
       /\ IF Head(mailbox[s][case.talk]) = "ask" THEN Goto("tx") ELSE Return("RelayTransactionHashFailed")
  /\ Same /\ UNCHANGED <<service, calls, session_manager, poisoned, reading, removed, left, seen, wire>>
Receive ==
  /\ Within("ask") /\ ~poisoned
  /\ \E s \in SessionsOfNode :
       /\ case.talk \in get_opened_protocol_ids(s) /\ mailbox[s][case.talk] # <<>>
       /\ mailbox' = [mailbox EXCEPT ![s][case.talk] = Tail(@)]
       /\ Goto(IF Head(mailbox[s][case.talk]) = "ask" THEN "tx" ELSE "ask")
  /\ Same /\ UNCHANGED <<service, calls, session_manager, poisoned, reading, removed, left, seen, wire>>
Asked ==
  /\ session[S] = "open" /\ node.asks
  /\ \/ wire # <<>>
     \/ \E k \in DOMAIN calls[case.talk] : calls[case.talk][k].data = "ask"
     \/ \E k \in DOMAIN mailbox[S][case.talk] : mailbox[S][case.talk][k] = "ask"
ReceiveTimeout ==
  /\ Expires("ask", Asked) /\ ~poisoned /\ Return("RelayTransactionHashFailed")
  /\ Same /\ UNCHANGED <<cvars, left, seen, wire>>

SendTx ==
  /\ Within("tx") /\ ~poisoned
  /\ IF SessionsOfNode # {} THEN Send("tx") /\ Goto("pool")
     ELSE Return("panicked") /\ UNCHANGED wire
  /\ Same /\ UNCHANGED <<cvars, left, seen>>
IsPending ==
  /\ Within("pool") /\ pending /\ seen' = TRUE /\ Goto("ban")
  /\ Same /\ UNCHANGED <<cvars, left, wire>>
PoolTimeout ==
  /\ Expires("pool", wire # <<>> \/ pending) /\ seen' = FALSE /\ Goto("ban")
  /\ Same /\ UNCHANGED <<cvars, left, wire>>

\* wait_until(5, get_banned_addresses), then for other cases
\* wait_until(5, no peers)
IsBanned ==
  /\ Within("ban") /\ banned
  /\ Return(IF case.kind = "relay" THEN "RelayTransactionFailed" ELSE "banned")
  /\ Same /\ UNCHANGED <<cvars, left, seen, wire>>
\* as if the pool's answer were not looked at
BanTimeoutUnseen ==
  /\ Expires("ban", case.kind = "relay" /\ (wire # <<>> \/ banned))
  /\ IF case.kind = "relay" THEN Return("Ok") ELSE Goto("peers")
  /\ Same /\ UNCHANGED <<cvars, left, seen, wire>>
BanTimeout ==
  /\ Expires("ban", case.kind = "relay" /\ (wire # <<>> \/ banned))
  /\ IF case.kind = "relay" THEN Return(IF seen THEN "Ok" ELSE "RelayTransactionFailed")
     ELSE Goto("peers")
  /\ Same /\ UNCHANGED <<cvars, left, seen, wire>>
HasNoPeers ==
  /\ Within("peers") /\ session[S] = "closed" /\ Return("disconnected")
  /\ Same /\ UNCHANGED <<cvars, left, seen, wire>>
PeersTimeout ==
  /\ Expires("peers", wire # <<>> \/ session[S] = "closed")
  /\ pc' = "done" /\ result' = (IF result = "none" THEN "Ok" ELSE result)
  /\ Same /\ UNCHANGED <<cvars, left, seen, wire>>

\* IdentifyConnection waits for the message with the read lock
Lock ==
  /\ Within("lock")
  /\ IF ~poisoned /\ \E s \in SessionsOfNode : case.talk \in get_opened_protocol_ids(s)
     THEN Goto("locked") /\ reading' = TRUE
     ELSE Return("Ok") /\ UNCHANGED reading
  /\ Same /\ UNCHANGED <<service, calls, shared, removed, left, seen, wire>>
Unlock(r) ==
  /\ reading' = FALSE /\ Return(r)
  /\ Same /\ UNCHANGED <<service, calls, shared, removed, left, seen, wire>>
ReceiveLocked == Within("locked") /\ mailbox[S][case.talk] # <<>> /\ Unlock("Ok")
\* as if the wait with the lock had no timeout
LockedForEver == Expires("locked", FALSE) /\ FALSE /\ Unlock("panicked")
LockedTimeout == Expires("locked", mailbox[S][case.talk] # <<>>) /\ Unlock("panicked")

Test ==
  \/ Panic \/ Dial \/ Connected \/ ConnectTimeout
  \/ SendMessage \/ SendFails \/ Receive \/ ReceiveTimeout
  \/ SendTx \/ IsPending \/ PoolTimeout \/ IsBanned \/ BanTimeout
  \/ HasNoPeers \/ PeersTimeout \/ Lock \/ ReceiveLocked \/ LockedTimeout

----------------------------------------------------------------------------

Init ==
  /\ case \in Cases /\ node \in Behaviours(case) /\ InitConnector(case.protocols)
  /\ pc = "dial" /\ left = case.times /\ seen = FALSE
  /\ wire = <<>> /\ heard = 0 /\ spoke = FALSE /\ pending = FALSE /\ banned = FALSE
  /\ result = "none" /\ late = FALSE

\* the connector is dropped at the end of the case
Next == pc # "done" /\ (Test \/ Node \/ (Handle /\ UNCHANGED tvars))
Spec == Init /\ [][Next]_vars /\ WF_vars(Test)

----------------------------------------------------------------------------
(* Properties *)

\* A node that does what the case is about fails it (run_case's result is not the
\* expected one) only for a timeout that was too short, over the panic of a handler,
\* or because its identify message came after the test took the lock that the
\* handler of the message needs (identify/connection.rs:81-87).
FailsOnlyWhenLate ==
  (pc = "done" /\ Conforms /\ result # case.expected) =>
    \/ late \/ poisoned
    \/ case.kind = "identify" /\ mailbox[S][case.talk] = <<>>

\* What a case in time says of the node when it passes: with "Ok" of a relay that
\* the node asked for the transaction and kept it, with the failure that it refused
\* it, and for the others that the peer was kept or dropped.  An identify case passes
\* with a message, or because connect() came back before its protocol was open: the
\* protocol is not counted as expected, but as opened (connector/mod.rs:211-221).
PassTellsTheNode ==
  (pc = "done" /\ result = case.expected /\ ~late) =>
    CASE case.kind = "relay" /\ result = "Ok" -> node.asks /\ node.answer = "accept"
      [] result = "RelayTransactionHashFailed" -> ~node.asks \/ session[S] = "closed"
      [] result = "RelayTransactionFailed" -> ~pending
      [] case.kind = "identify" ->
             spoke \/ \A s \in SessionsOfNode : case.talk \notin get_opened_protocol_ids(s)
      [] result = "disconnected" -> session[S] = "closed"
      [] result = "timeout" -> Refused \/ session[S] = "closed"
      [] OTHER -> session[S] = "open"
=============================================================================

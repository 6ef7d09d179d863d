------------------------------ MODULE Connector ------------------------------
(***************************************************************************)
(* The connector of the testkit: a fake peer made of a p2p service and the *)
(* state it shares with the test (connector/shared.rs).  The service calls *)
(* the handlers of sessions and of protocols back from tasks of its own;   *)
(* each task handles its calls in order, and nothing orders the tasks      *)
(* among each other.  All handlers take the write lock of the shared       *)
(* state, the test the read lock.                                          *)
(***************************************************************************)
EXTENDS Naturals, Sequences, FiniteSets, SequencesExt

CONSTANTS
  Sessions,          \* ids a connection may get
  Protocols,         \* SupportProtocols in use
  IgnoredProtocols   \* those connect() does not count

\* There is an id for a connection, the protocols of all cases are supported
\* ones, and a protocol is told from the task of the sessions.
ASSUME ConnectorAssumption ==
  /\ Sessions # {}
  /\ {"Sync", "Relay", "RelayV2", "Discovery", "Identify"} \subseteq Protocols
  /\ "session" \notin Protocols

VARIABLES
  protocols,         \* of this connector, its protocol_metas
  session, opened,   \* the service: state of each session, its open protocols
  calls,             \* callbacks due: of the sessions, and of each protocol
  session_manager,   \* session |-> protocols with a mailbox
  mailbox,           \* of a protocol of a session
  poisoned,          \* a handler panicked with the write lock
  reading,           \* the test keeps the read lock
  removed            \* sessions that were removed from the session manager

service == <<protocols, session, opened>>
shared == <<session_manager, mailbox, poisoned>>
cvars == <<service, calls, shared, reading, removed>>

Call(c, s, d) == [call |-> c, session |-> s, data |-> d]
NoData == "none"

InitConnector(ps) ==
  /\ protocols = ps
  /\ session = [s \in Sessions |-> "none"] /\ opened = [s \in Sessions |-> {}]
  /\ calls = [t \in Protocols \cup {"session"} |-> <<>>]
  /\ session_manager = [s \in {} |-> {}] /\ mailbox = [s \in Sessions |-> [p \in Protocols |-> <<>>]]
  /\ poisoned = FALSE /\ reading = FALSE /\ removed = {}

----------------------------------------------------------------------------
(* The shared state *)

Insert(sm, s, ps) == [k \in DOMAIN sm \cup {s} |-> IF k = s THEN ps ELSE sm[k]]
\* as if an entry that is known were replaced
add_session_again(sm, s) == Insert(sm, s, {})
add_session(sm, s) == IF s \in DOMAIN sm THEN sm ELSE Insert(sm, s, {})
remove_session(sm, s) == Restrict(sm, DOMAIN sm \ {s})
\* as if a protocol never came before its session
add_protocol_to_known(sm, s, p) ==
  IF s \in DOMAIN sm THEN [sm EXCEPT ![s] = @ \cup {p}] ELSE sm
add_protocol(sm, s, p) ==
  Insert(sm, s, (IF s \in DOMAIN sm THEN sm[s] ELSE {}) \cup {p})
remove_protocol(sm, s, p) ==
  IF s \in DOMAIN sm THEN [sm EXCEPT ![s] = @ \ {p}] ELSE sm
has_sender(sm, s, p) == s \in DOMAIN sm /\ p \in sm[s]

\* get_session: all sessions have the address of the node
SessionsOfNode == DOMAIN session_manager
get_opened_protocol_ids(s) == session_manager[s]

\* what connect() waits for
EnoughOpened(s) ==
  Cardinality(get_opened_protocol_ids(s)) >= Cardinality(protocols \ IgnoredProtocols)

----------------------------------------------------------------------------
(* The service: what happens to sessions and protocols, and when *)

Due(t, c) == [calls EXCEPT ![t] = Append(@, c)]

OpenSession(s) ==
  /\ session[s] = "none"
  /\ session' = [session EXCEPT ![s] = "open"]
  /\ calls' = Due("session", Call("open", s, NoData))
  /\ UNCHANGED <<protocols, opened, shared, reading, removed>>

OpenProtocol(s, p) ==
  /\ session[s] = "open" /\ p \in protocols \ opened[s]
  /\ opened' = [opened EXCEPT ![s] = @ \cup {p}]
  /\ calls' = Due(p, Call("connected", s, NoData))
  /\ UNCHANGED <<protocols, session, shared, reading, removed>>

Deliver(s, p, d) ==
  /\ session[s] = "open" /\ p \in opened[s]
  /\ calls' = Due(p, Call("received", s, d))
  /\ UNCHANGED <<service, shared, reading, removed>>

CloseSession(s) ==
  /\ session[s] = "open"
  /\ session' = [session EXCEPT ![s] = "closed"]
  /\ opened' = [opened EXCEPT ![s] = {}]
  /\ calls' = [t \in DOMAIN calls |->
       IF t = "session" THEN Append(calls[t], Call("close", s, NoData))
       ELSE IF t \in opened[s] THEN Append(calls[t], Call("disconnected", s, NoData))
       ELSE calls[t]]
  /\ UNCHANGED <<protocols, shared, reading, removed>>

----------------------------------------------------------------------------
(* The handlers *)

\* the task t runs its next call, once it has the write lock; a poisoned
\* lock is skipped
Runs(t, c) ==
  /\ calls[t] # <<>> /\ Head(calls[t]).call = c /\ ~reading
  /\ calls' = [calls EXCEPT ![t] = Tail(@)]
  /\ UNCHANGED <<service, reading>>
Changes(sm) ==
  /\ session_manager' = (IF poisoned THEN session_manager ELSE sm)
  /\ UNCHANGED poisoned

SessionOpen ==
  LET s == Head(calls["session"]).session
  IN /\ Runs("session", "open") /\ Changes(add_session(session_manager, s))
     /\ UNCHANGED <<mailbox, removed>>

SessionClose ==
  LET s == Head(calls["session"]).session
  IN /\ Runs("session", "close") /\ Changes(remove_session(session_manager, s))
     /\ removed' = removed \cup {s} /\ UNCHANGED mailbox

connected(p) ==
  LET s == Head(calls[p]).session
  IN /\ Runs(p, "connected") /\ Changes(add_protocol(session_manager, s, p))
     /\ mailbox' = (IF poisoned THEN mailbox ELSE [mailbox EXCEPT ![s][p] = <<>>])
     /\ UNCHANGED removed

disconnected(p) ==
  LET s == Head(calls[p]).session
  IN /\ Runs(p, "disconnected") /\ Changes(remove_protocol(session_manager, s, p))
     /\ UNCHANGED <<mailbox, removed>>

\* without a mailbox the handler panics, and the lock it holds is poisoned
received(p) ==
  LET c == Head(calls[p]) s == c.session
  IN /\ Runs(p, "received")
     /\ poisoned' = (poisoned \/ ~has_sender(session_manager, s, p))
     /\ mailbox' = (IF poisoned' THEN mailbox
                    ELSE [mailbox EXCEPT ![s][p] = Append(@, c.data)])
     /\ UNCHANGED <<session_manager, removed>>

Handle ==
  \/ SessionOpen
  \/ SessionClose
  \/ \E p \in protocols : connected(p) \/ received(p) \/ disconnected(p)

----------------------------------------------------------------------------
(* Properties *)

\* Once every callback is handled the session manager agrees with the service:
\* an open session has mailboxes for just its open protocols.  A closed session
\* has none; it may still be listed, since the first protocol of a session adds
\* the session again when it is handled after the close (shared.rs:48-58).
AgreesWhenQuiet ==
  (~poisoned /\ \A t \in DOMAIN calls : calls[t] = <<>>) =>
    \A s \in Sessions :
      /\ session[s] = "open" => /\ s \in DOMAIN session_manager
                                /\ session_manager[s] = opened[s]
      /\ s \in DOMAIN session_manager => session_manager[s] = opened[s]

\* A handler panics over a message without a mailbox (simple_protocol_handler.rs:75)
\* only if the close of its session overtook the message: never because the protocol
\* was opened before the session was known, or spoke at once.
PanicsOnlyAfterSessionClose ==
  poisoned => removed # {}
=============================================================================

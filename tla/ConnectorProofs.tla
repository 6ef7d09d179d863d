--------------------------- MODULE ConnectorProofs ---------------------------
(***************************************************************************)
(* Theorems about the connector in every case of ConnectorCases, whatever  *)
(* the node does, for any sessions and protocols; and about the verdicts:  *)
(* what a case that passes says of the node, and why a case fails on a     *)
(* node that conforms, for any heights and floods.                         *)
(***************************************************************************)
EXTENDS ConnectorCases, FiniteSetTheorems, TLAPS

\* all that the connector's callbacks depend on and change
state == <<protocols, session, opened, calls, session_manager, poisoned, removed>>

Data == {"none", "other", "identify", "ask"}
ProtocolCalls == {"connected", "received", "disconnected"}
Calls == [call : {"open", "close"} \cup ProtocolCalls, session : Sessions, data : Data]
Tasks == Protocols \cup {"session"}

CType ==
  /\ protocols \in SUBSET Protocols
  /\ session \in [Sessions -> {"none", "open", "closed"}]
  /\ opened \in [Sessions -> SUBSET protocols]
  /\ calls \in [Tasks -> Seq(Calls)]
  /\ DOMAIN session_manager \subseteq Sessions
  /\ session_manager \in [DOMAIN session_manager -> SUBSET Protocols]
  /\ poisoned \in BOOLEAN /\ removed \in SUBSET Sessions

\* where the calls c of session s are among those that are due for task t
Positions(t, c, s) ==
  {k \in DOMAIN calls[t] : calls[t][k].call = c /\ calls[t][k].session = s}

\* A session without a connection has no open protocols, and its events are due in order.
SessionInv(s) ==
  /\ session[s] # "open" => opened[s] = {}
  /\ s \in removed => session[s] = "closed"
  /\ Positions("session", "close", s) # {} => session[s] = "closed"
  /\ (session[s] = "open" /\ ~poisoned) =>
       s \in DOMAIN session_manager \/ Positions("session", "open", s) # {}

\* The calls of a protocol end with the disconnection of their session.
LastInv(s, p) ==
  \A k \in Positions(p, "disconnected", s) :
    /\ session[s] = "closed"
    /\ \A c \in ProtocolCalls : \A j \in Positions(p, c, s) : j <= k

\* An open protocol has a mailbox, or its connection is due, before all of its messages.
OpenInv(s, p) ==
  ~poisoned =>
    /\ p \in opened[s] =>
         has_sender(session_manager, s, p) \/ Positions(p, "connected", s) # {}
    /\ \A k \in Positions(p, "received", s) :
         \/ s \in removed \/ has_sender(session_manager, s, p)
         \/ \E j \in Positions(p, "connected", s) : j < k

\* A protocol with a mailbox, now or soon, is open, or its disconnection is due later.
ClosedInv(s, p) ==
  /\ (~poisoned /\ has_sender(session_manager, s, p)) =>
       p \in opened[s] \/ Positions(p, "disconnected", s) # {}
  /\ \A k \in Positions(p, "connected", s) :
       p \in opened[s] \/ \E j \in Positions(p, "disconnected", s) : j > k

CInv ==
  /\ CType
  /\ PanicsOnlyAfterSessionClose
  /\ \A s \in Sessions : SessionInv(s)
  /\ \A s \in Sessions, p \in Protocols :
       LastInv(s, p) /\ OpenInv(s, p) /\ ClosedInv(s, p)

-----------------------------------------------------------------------------
(* What is due, after a call joins a queue and after one is handled *)

LEMMA DueFacts ==
  ASSUME CType, NEW t \in Tasks, NEW c \in Calls, calls' = Due(t, c)
  PROVE  /\ calls' \in [Tasks -> Seq(Calls)]
         /\ \A u \in Tasks : \A n, s :
              Positions(u, n, s)' =
                IF u = t /\ c.call = n /\ c.session = s
                THEN Positions(u, n, s) \cup {Len(calls[t]) + 1} ELSE Positions(u, n, s)
         /\ \A n, s : \A k \in Positions(t, n, s) : k \in Nat /\ k < Len(calls[t]) + 1
<1>1. /\ calls[t] \in Seq(Calls) /\ calls \in [Tasks -> Seq(Calls)]
      /\ calls' = [calls EXCEPT ![t] = Append(calls[t], c)]
  BY DEF CType, Due
<1>2. Append(calls[t], c) \in Seq(Calls)
  BY <1>1
<1>3. calls' \in [Tasks -> Seq(Calls)]
  BY <1>1, <1>2
<1>4. /\ DOMAIN calls[t] = 1..Len(calls[t]) /\ Len(calls[t]) \in Nat
      /\ DOMAIN calls'[t] = 1..(Len(calls[t]) + 1)
      /\ \A k \in DOMAIN calls[t] : calls'[t][k] = calls[t][k]
      /\ calls'[t][Len(calls[t]) + 1] = c
  BY <1>1
<1>5. ASSUME NEW u \in Tasks, NEW n, NEW s
      PROVE  Positions(u, n, s)' =
               IF u = t /\ c.call = n /\ c.session = s
               THEN Positions(u, n, s) \cup {Len(calls[t]) + 1} ELSE Positions(u, n, s)
  <2>1. CASE u = t
    BY <1>4, <2>1 DEF Positions
  <2>2. CASE u # t
    BY <1>1, <2>2 DEF Positions
  <2> QED
    BY <2>1, <2>2
<1>6. \A n, s : \A k \in Positions(t, n, s) : k \in Nat /\ k < Len(calls[t]) + 1
  BY <1>4 DEF Positions
<1> QED
  BY <1>3, <1>5, <1>6

LEMMA RunFacts ==
  ASSUME CType, NEW t \in Tasks, NEW n, Runs(t, n)
  PROVE  /\ calls' \in [Tasks -> Seq(Calls)]
         /\ Head(calls[t]) \in Calls
         /\ 1 \in Positions(t, n, Head(calls[t]).session)
         /\ \A m, s : 1 \in Positions(t, m, s) => m = n /\ s = Head(calls[t]).session
         /\ \A m, s : \A k \in Positions(t, m, s) : k \in Nat \ {0}
         /\ \A m, s : \A k \in Positions(t, m, s) : k # 1 => k - 1 \in Positions(t, m, s)'
         /\ \A m, s : \A k \in Positions(t, m, s)' : k \in Nat \ {0} /\ k + 1 \in Positions(t, m, s)
         /\ \A u \in Tasks : \A m, s : u # t => Positions(u, m, s)' = Positions(u, m, s)
<1>1. /\ calls[t] \in Seq(Calls) /\ calls \in [Tasks -> Seq(Calls)] /\ calls[t] # <<>>
      /\ calls' = [calls EXCEPT ![t] = Tail(calls[t])] /\ Head(calls[t]).call = n
  BY DEF CType, Runs
<1>2. /\ Tail(calls[t]) \in Seq(Calls) /\ Head(calls[t]) \in Calls
      /\ Len(calls[t]) \in Nat \ {0} /\ DOMAIN calls[t] = 1..Len(calls[t])
      /\ Head(calls[t]) = calls[t][1]
  BY <1>1
<1>3. calls' \in [Tasks -> Seq(Calls)] /\ calls'[t] = Tail(calls[t])
  BY <1>1, <1>2
<1>4. /\ DOMAIN calls'[t] = 1..(Len(calls[t]) - 1)
      /\ \A k \in DOMAIN calls'[t] : calls'[t][k] = calls[t][k + 1]
  BY <1>1, <1>2, <1>3
<1>5. /\ 1 \in Positions(t, n, Head(calls[t]).session)
      /\ \A m, s : 1 \in Positions(t, m, s) => m = n /\ s = Head(calls[t]).session
      /\ \A m, s : \A k \in Positions(t, m, s) : k \in Nat \ {0}
  BY <1>1, <1>2 DEF Positions
<1>6. ASSUME NEW m, NEW s
      PROVE  Positions(t, m, s)' = {k \in Nat \ {0} : k + 1 \in Positions(t, m, s)}
  BY <1>2, <1>4 DEF Positions
<1>7. \A u \in Tasks : \A m, s : u # t => Positions(u, m, s)' = Positions(u, m, s)
  BY <1>1 DEF Positions
<1>8. ASSUME NEW m, NEW s, NEW k \in Positions(t, m, s), k # 1
      PROVE  k - 1 \in Positions(t, m, s)'
  <2>1. k - 1 \in Nat \ {0} /\ (k - 1) + 1 = k
    BY <1>5, <1>8
  <2> QED
    BY <1>6, <2>1
<1> QED
  BY <1>2, <1>3, <1>5, <1>6, <1>7, <1>8

-----------------------------------------------------------------------------
(* The service: it appends to the queues *)

LEMMA OpenSessionInv ==
  ASSUME CInv, NEW x \in Sessions, OpenSession(x)
  PROVE  CInv'
<1> DEFINE c == Call("open", x, NoData)
<1>1. /\ CType /\ c \in Calls /\ c.call = "open" /\ c.session = x /\ "session" \in Tasks
      /\ calls' = Due("session", c) /\ session[x] = "none"
      /\ session' = [session EXCEPT ![x] = "open"]
      /\ UNCHANGED <<protocols, opened, session_manager, poisoned, removed>>
  BY DEF CInv, OpenSession, shared, Call, NoData, Calls, Data, Tasks
<1>2. /\ calls' \in [Tasks -> Seq(Calls)]
      /\ \A u \in Tasks : \A n, s :
           Positions(u, n, s)' =
             IF u = "session" /\ "open" = n /\ x = s
             THEN Positions(u, n, s) \cup {Len(calls["session"]) + 1} ELSE Positions(u, n, s)
  BY <1>1, DueFacts
<1>3. CType' /\ PanicsOnlyAfterSessionClose'
  BY <1>1, <1>2 DEF CInv, CType, PanicsOnlyAfterSessionClose
<1>4. ASSUME NEW s \in Sessions PROVE SessionInv(s)'
  <2>1. SessionInv(s)
    BY DEF CInv
  <2>2. session'[s] = IF s = x THEN "open" ELSE session[s]
    BY <1>1 DEF CType
  <2>3. Positions("session", "close", s)' = Positions("session", "close", s)
    BY <1>1, <1>2
  <2>4. /\ Positions("session", "open", s) \subseteq Positions("session", "open", s)'
        /\ s = x => Positions("session", "open", s)' # {}
    BY <1>1, <1>2
  <2> QED
    BY <1>1, <2>1, <2>2, <2>3, <2>4 DEF SessionInv
<1>5. ASSUME NEW s \in Sessions, NEW p \in Protocols
      PROVE  (LastInv(s, p) /\ OpenInv(s, p) /\ ClosedInv(s, p))'
  <2>1. LastInv(s, p) /\ OpenInv(s, p) /\ ClosedInv(s, p)
    BY DEF CInv
  <2>2. p \in Tasks /\ p # "session"
    BY ConnectorAssumption DEF Tasks
  <2>3. \A n : Positions(p, n, s)' = Positions(p, n, s)
    BY <1>2, <2>2
  <2>4. session[s] = "closed" => session'[s] = "closed"
    BY <1>1 DEF CType
  <2> QED
    BY <1>1, <2>1, <2>3, <2>4 DEF LastInv, OpenInv, ClosedInv
<1> QED
  BY <1>3, <1>4, <1>5 DEF CInv

LEMMA OpenProtocolInv ==
  ASSUME CInv, NEW x \in Sessions, NEW q \in protocols, OpenProtocol(x, q)
  PROVE  CInv'
<1> DEFINE c == Call("connected", x, NoData)
<1>1. /\ CType /\ c \in Calls /\ c.call = "connected" /\ c.session = x
      /\ q \in Protocols /\ q \in Tasks /\ q # "session"
      /\ calls' = Due(q, c) /\ session[x] = "open"
      /\ opened' = [opened EXCEPT ![x] = opened[x] \cup {q}]
      /\ UNCHANGED <<protocols, session, session_manager, poisoned, removed>>
  BY ConnectorAssumption
     DEF CInv, CType, OpenProtocol, shared, Call, NoData, Calls, Data, ProtocolCalls, Tasks
<1>2. /\ calls' \in [Tasks -> Seq(Calls)]
      /\ \A u \in Tasks : \A n, s :
           Positions(u, n, s)' =
             IF u = q /\ "connected" = n /\ x = s
             THEN Positions(u, n, s) \cup {Len(calls[q]) + 1} ELSE Positions(u, n, s)
      /\ \A n, s : \A k \in Positions(q, n, s) : k \in Nat /\ k < Len(calls[q]) + 1
  BY <1>1, DueFacts
<1>3. CType' /\ PanicsOnlyAfterSessionClose'
  BY <1>1, <1>2 DEF CInv, CType, PanicsOnlyAfterSessionClose
<1>4. ASSUME NEW s \in Sessions PROVE SessionInv(s)'
  <2>1. SessionInv(s)
    BY DEF CInv
  <2>2. \A n : Positions("session", n, s)' = Positions("session", n, s)
    BY <1>1, <1>2 DEF Tasks
  <2>3. session[s] # "open" => opened'[s] = opened[s]
    BY <1>1 DEF CType
  <2> QED
    BY <1>1, <2>1, <2>2, <2>3 DEF SessionInv
<1>5. ASSUME NEW s \in Sessions, NEW p \in Protocols
      PROVE  (LastInv(s, p) /\ OpenInv(s, p) /\ ClosedInv(s, p))'
  <2>1. LastInv(s, p) /\ OpenInv(s, p) /\ ClosedInv(s, p)
    BY DEF CInv
  <2>2. p \in Tasks
    BY DEF Tasks
  <2>3. opened'[s] = IF s = x THEN opened[s] \cup {q} ELSE opened[s]
    BY <1>1 DEF CType
  <2>4. /\ Positions(p, "disconnected", s)' = Positions(p, "disconnected", s)
        /\ Positions(p, "received", s)' = Positions(p, "received", s)
        /\ Positions(p, "connected", s) \subseteq Positions(p, "connected", s)'
    BY <1>2, <2>2
  <2>5. CASE s = x /\ p = q
    <3>1. Positions(p, "disconnected", s) = {}
      BY <1>1, <2>1, <2>5 DEF LastInv
    <3>2. p \in opened'[s] /\ Positions(p, "connected", s)' # {}
      BY <1>2, <2>2, <2>3, <2>5
    <3>3. LastInv(s, p)'
      BY <2>4, <3>1 DEF LastInv
    <3>4. OpenInv(s, p)'
      BY <1>1, <2>1, <2>4, <3>2 DEF OpenInv
    <3>5. ClosedInv(s, p)'
      BY <3>2 DEF ClosedInv
    <3> QED
      BY <3>3, <3>4, <3>5
  <2>6. CASE ~(s = x /\ p = q)
    <3>1. \A n : Positions(p, n, s)' = Positions(p, n, s)
      BY <1>2, <2>2, <2>6
    <3>2. p \in opened'[s] <=> p \in opened[s]
      BY <2>3, <2>6
    <3> QED
      BY <1>1, <2>1, <3>1, <3>2 DEF LastInv, OpenInv, ClosedInv
  <2> QED
    BY <2>5, <2>6
<1> QED
  BY <1>3, <1>4, <1>5 DEF CInv

LEMMA DeliverInv ==
  ASSUME CInv, NEW x \in Sessions, NEW q \in Protocols, NEW d \in Data, Deliver(x, q, d)
  PROVE  CInv'
<1> DEFINE c == Call("received", x, d)
<1>1. /\ CType /\ c \in Calls /\ c.call = "received" /\ c.session = x
      /\ q \in Tasks /\ q # "session"
      /\ calls' = Due(q, c) /\ session[x] = "open" /\ q \in opened[x]
      /\ UNCHANGED <<protocols, session, opened, session_manager, poisoned, removed>>
  BY ConnectorAssumption
     DEF CInv, Deliver, service, shared, Call, Calls, ProtocolCalls, Tasks
<1>2. /\ calls' \in [Tasks -> Seq(Calls)]
      /\ \A u \in Tasks : \A n, s :
           Positions(u, n, s)' =
             IF u = q /\ "received" = n /\ x = s
             THEN Positions(u, n, s) \cup {Len(calls[q]) + 1} ELSE Positions(u, n, s)
      /\ \A n, s : \A k \in Positions(q, n, s) : k \in Nat /\ k < Len(calls[q]) + 1
  BY <1>1, DueFacts
<1>3. CType' /\ PanicsOnlyAfterSessionClose'
  BY <1>1, <1>2 DEF CInv, CType, PanicsOnlyAfterSessionClose
<1>4. ASSUME NEW s \in Sessions PROVE SessionInv(s)'
  <2>1. SessionInv(s)
    BY DEF CInv
  <2>2. \A n : Positions("session", n, s)' = Positions("session", n, s)
    BY <1>1, <1>2 DEF Tasks
  <2> QED
    BY <1>1, <2>1, <2>2 DEF SessionInv
<1>5. ASSUME NEW s \in Sessions, NEW p \in Protocols
      PROVE  (LastInv(s, p) /\ OpenInv(s, p) /\ ClosedInv(s, p))'
  <2>1. LastInv(s, p) /\ OpenInv(s, p) /\ ClosedInv(s, p)
    BY DEF CInv
  <2>2. p \in Tasks
    BY DEF Tasks
  <2>3. /\ Positions(p, "disconnected", s)' = Positions(p, "disconnected", s)
        /\ Positions(p, "connected", s)' = Positions(p, "connected", s)
    BY <1>2, <2>2
  <2>4. ClosedInv(s, p)'
    BY <1>1, <2>1, <2>3 DEF ClosedInv
  <2>5. CASE s = x /\ p = q
    <3>1. Positions(p, "disconnected", s) = {}
      BY <1>1, <2>1, <2>5 DEF LastInv
    <3>2. LastInv(s, p)'
      BY <2>3, <3>1 DEF LastInv
    <3>3. Positions(p, "received", s)' = Positions(p, "received", s) \cup {Len(calls[q]) + 1}
      BY <1>2, <2>2, <2>5
    <3>4. \A k \in Positions(p, "connected", s) : k < Len(calls[q]) + 1
      BY <1>2, <2>5
    <3>5. OpenInv(s, p)'
      BY <1>1, <2>1, <2>3, <2>5, <3>3, <3>4 DEF OpenInv
    <3> QED
      BY <2>4, <3>2, <3>5
  <2>6. CASE ~(s = x /\ p = q)
    <3>1. \A n : Positions(p, n, s)' = Positions(p, n, s)
      BY <1>2, <2>2, <2>6
    <3> QED
      BY <1>1, <2>1, <2>4, <3>1 DEF LastInv, OpenInv
  <2> QED
    BY <2>5, <2>6
<1> QED
  BY <1>3, <1>4, <1>5 DEF CInv

LEMMA CloseFacts ==
  ASSUME CType, NEW x \in Sessions, CloseSession(x)
  PROVE  /\ calls' \in [Tasks -> Seq(Calls)]
         /\ \A t \in Tasks : \A n, s :
              Positions(t, n, s)' =
                IF s = x /\ ((t = "session" /\ n = "close")
                             \/ (t # "session" /\ t \in opened[x] /\ n = "disconnected"))
                THEN Positions(t, n, s) \cup {Len(calls[t]) + 1} ELSE Positions(t, n, s)
         /\ \A t \in Tasks : \A n, s : \A k \in Positions(t, n, s) : k \in Nat /\ k < Len(calls[t]) + 1
<1> DEFINE c(t) == IF t = "session" THEN Call("close", x, NoData)
                   ELSE Call("disconnected", x, NoData)
           joins(t) == t = "session" \/ t \in opened[x]
<1>1. /\ calls \in [Tasks -> Seq(Calls)]
      /\ calls' = [t \in Tasks |-> IF joins(t) THEN Append(calls[t], c(t)) ELSE calls[t]]
  BY DEF CType, CloseSession
<1>2. \A t : c(t) \in Calls /\ c(t).session = x
             /\ c(t).call = (IF t = "session" THEN "close" ELSE "disconnected")
  BY DEF Call, Calls, NoData, Data, ProtocolCalls
<1>3. ASSUME NEW t \in Tasks
      PROVE  calls[t] \in Seq(Calls) /\ Append(calls[t], c(t)) \in Seq(Calls)
  <2>1. calls[t] \in Seq(Calls) /\ c(t) \in Calls
    BY <1>1, <1>2
  <2> HIDE DEF c
  <2> QED
    BY <2>1
<1>4. calls' \in [Tasks -> Seq(Calls)]
  <2> HIDE DEF c, joins
  <2> QED
    BY <1>1, <1>3
<1>5. ASSUME NEW t \in Tasks, NEW n, NEW s
      PROVE  /\ \A k \in Positions(t, n, s) : k \in Nat /\ k < Len(calls[t]) + 1
             /\ Positions(t, n, s)' =
                  IF s = x /\ joins(t) /\ c(t).call = n
                  THEN Positions(t, n, s) \cup {Len(calls[t]) + 1} ELSE Positions(t, n, s)
  <2>1. /\ calls[t] \in Seq(Calls) /\ DOMAIN calls[t] = 1..Len(calls[t]) /\ Len(calls[t]) \in Nat
        /\ c(t).session = x
    <3>1. c(t).session = x
      BY <1>2
    <3> HIDE DEF c, joins
    <3>2. calls[t] \in Seq(Calls)
      BY <1>3
    <3>3. DOMAIN calls[t] = 1..Len(calls[t]) /\ Len(calls[t]) \in Nat
      BY <3>2
    <3> QED
      BY <3>1, <3>2, <3>3
  <2>2. \A k \in Positions(t, n, s) : k \in Nat /\ k < Len(calls[t]) + 1
    BY <2>1 DEF Positions
  <2> HIDE DEF c, joins
  <2>3. CASE joins(t)
    <3>1. /\ calls'[t] = Append(calls[t], c(t))
          /\ DOMAIN calls'[t] = 1..(Len(calls[t]) + 1)
          /\ \A k \in DOMAIN calls[t] : calls'[t][k] = calls[t][k]
          /\ calls'[t][Len(calls[t]) + 1] = c(t)
      BY <1>1, <2>1, <2>3
    <3> QED
      BY <2>1, <2>2, <2>3, <3>1 DEF Positions
  <2>4. CASE ~joins(t)
    BY <1>1, <2>2, <2>4 DEF Positions
  <2> QED
    BY <2>3, <2>4
<1> QED
  BY <1>2, <1>4, <1>5

LEMMA CloseSessionInv ==
  ASSUME CInv, NEW x \in Sessions, CloseSession(x)
  PROVE  CInv'
<1>1. /\ CType /\ session[x] = "open"
      /\ session' = [session EXCEPT ![x] = "closed"] /\ opened' = [opened EXCEPT ![x] = {}]
      /\ UNCHANGED <<protocols, session_manager, poisoned, removed>>
  BY DEF CInv, CloseSession, shared
<1>2. /\ calls' \in [Tasks -> Seq(Calls)]
      /\ \A t \in Tasks : \A n, s :
           Positions(t, n, s)' =
             IF s = x /\ ((t = "session" /\ n = "close")
                          \/ (t # "session" /\ t \in opened[x] /\ n = "disconnected"))
             THEN Positions(t, n, s) \cup {Len(calls[t]) + 1} ELSE Positions(t, n, s)
      /\ \A t \in Tasks : \A n, s : \A k \in Positions(t, n, s) : k \in Nat /\ k < Len(calls[t]) + 1
  BY <1>1, CloseFacts
<1>3. CType' /\ PanicsOnlyAfterSessionClose'
  BY <1>1, <1>2 DEF CInv, CType, PanicsOnlyAfterSessionClose
<1>4. ASSUME NEW s \in Sessions
      PROVE  /\ session'[s] = IF s = x THEN "closed" ELSE session[s]
             /\ opened'[s] = IF s = x THEN {} ELSE opened[s]
  BY <1>1 DEF CType
<1>5. ASSUME NEW s \in Sessions PROVE SessionInv(s)'
  <2>1. SessionInv(s)
    BY DEF CInv
  <2>2. Positions("session", "open", s)' = Positions("session", "open", s)
    BY <1>2 DEF Tasks
  <2>3. s # x => Positions("session", "close", s)' = Positions("session", "close", s)
    BY <1>2 DEF Tasks
  <2> QED
    BY <1>1, <1>4, <2>1, <2>2, <2>3 DEF SessionInv
<1>6. ASSUME NEW s \in Sessions, NEW p \in Protocols
      PROVE  (LastInv(s, p) /\ OpenInv(s, p) /\ ClosedInv(s, p))'
  <2>1. LastInv(s, p) /\ OpenInv(s, p) /\ ClosedInv(s, p)
    BY DEF CInv
  <2>2. p \in Tasks /\ p # "session" /\ Len(calls[p]) \in Nat
    BY <1>1, ConnectorAssumption DEF Tasks, CType
  <2>3. /\ Positions(p, "received", s)' = Positions(p, "received", s)
        /\ Positions(p, "connected", s)' = Positions(p, "connected", s)
        /\ \A n : \A k \in Positions(p, n, s) : k \in Nat /\ k < Len(calls[p]) + 1
    BY <1>2, <2>2
  <2>4. OpenInv(s, p)'
    BY <1>1, <1>4, <2>1, <2>3 DEF OpenInv
  <2>5. CASE s = x
    <3>1. Positions(p, "disconnected", s) = {} /\ session'[s] = "closed"
      BY <1>1, <1>4, <2>1, <2>5 DEF LastInv
    <3>2. Positions(p, "disconnected", s)' =
            IF p \in opened[x] THEN {Len(calls[p]) + 1} ELSE {}
      BY <1>2, <2>2, <2>5, <3>1
    <3>3. LastInv(s, p)'
      <4> SUFFICES ASSUME NEW k \in Positions(p, "disconnected", s)', NEW n \in ProtocolCalls,
                          NEW j \in Positions(p, n, s)'
                   PROVE  j <= k
        BY <3>1 DEF LastInv
      <4>1. k = Len(calls[p]) + 1
        BY <3>2
      <4>2. CASE n = "disconnected"
        BY <2>2, <3>2, <4>1, <4>2
      <4>3. CASE n \in {"connected", "received"}
        BY <2>2, <2>3, <4>1, <4>3
      <4> QED
        BY <4>2, <4>3 DEF ProtocolCalls
    <3>4. ClosedInv(s, p)'
      BY <1>1, <2>1, <2>3, <2>5, <3>1, <3>2 DEF ClosedInv
    <3> QED
      BY <2>4, <3>3, <3>4
  <2>6. CASE s # x
    <3>1. \A n : Positions(p, n, s)' = Positions(p, n, s)
      BY <1>2, <2>2, <2>6
    <3> QED
      BY <1>1, <1>4, <2>1, <2>4, <2>6, <3>1 DEF LastInv, ClosedInv
  <2> QED
    BY <2>5, <2>6
<1> QED
  BY <1>3, <1>5, <1>6 DEF CInv

-----------------------------------------------------------------------------
(* The session manager *)

LEMMA AddsSession ==
  ASSUME NEW sm, DOMAIN sm \subseteq Sessions, sm \in [DOMAIN sm -> SUBSET Protocols],
         NEW x \in Sessions,
         NEW new, new = add_session(sm, x)
  PROVE  /\ DOMAIN new = DOMAIN sm \cup {x} /\ new \in [DOMAIN new -> SUBSET Protocols]
         /\ \A s, p : has_sender(new, s, p) <=> has_sender(sm, s, p)
BY DEF add_session, Insert, has_sender

LEMMA RemovesSession ==
  ASSUME NEW sm, DOMAIN sm \subseteq Sessions, sm \in [DOMAIN sm -> SUBSET Protocols],
         NEW x \in Sessions,
         NEW new, new = remove_session(sm, x)
  PROVE  /\ DOMAIN new = DOMAIN sm \ {x} /\ new \in [DOMAIN new -> SUBSET Protocols]
         /\ \A s, p : has_sender(new, s, p) <=> has_sender(sm, s, p) /\ s # x
BY DEF remove_session, Restrict, has_sender

LEMMA RemovesProtocol ==
  ASSUME NEW sm, DOMAIN sm \subseteq Sessions, sm \in [DOMAIN sm -> SUBSET Protocols],
         NEW x \in Sessions, NEW q \in Protocols,
         NEW new, new = remove_protocol(sm, x, q)
  PROVE  /\ DOMAIN new = DOMAIN sm /\ new \in [DOMAIN new -> SUBSET Protocols]
         /\ \A s, p : has_sender(new, s, p) <=> has_sender(sm, s, p) /\ ~(s = x /\ p = q)
BY DEF remove_protocol, has_sender

-----------------------------------------------------------------------------
(* The handlers of sessions *)

LEMMA SessionOpenInv ==
  ASSUME CInv, SessionOpen
  PROVE  CInv'
<1>0. PICK x : x = Head(calls["session"]).session
  OBVIOUS
<1>1. /\ CType /\ "session" \in Tasks /\ Runs("session", "open")
      /\ session_manager' = (IF poisoned THEN session_manager ELSE add_session(session_manager, x))
      /\ UNCHANGED <<protocols, session, opened, poisoned, removed>>
  BY <1>0 DEF CInv, SessionOpen, Changes, Runs, service, Tasks
<1>2. /\ calls' \in [Tasks -> Seq(Calls)] /\ Head(calls["session"]) \in Calls
      /\ 1 \in Positions("session", "open", x)
      /\ \A m, s : 1 \in Positions("session", m, s) => m = "open" /\ s = x
      /\ \A m, s : \A k \in Positions("session", m, s) : k \in Nat \ {0}
      /\ \A m, s : \A k \in Positions("session", m, s) : k # 1 => k - 1 \in Positions("session", m, s)'
      /\ \A m, s : \A k \in Positions("session", m, s)' : k \in Nat \ {0} /\ k + 1 \in Positions("session", m, s)
      /\ \A u \in Tasks : \A m, s : u # "session" => Positions(u, m, s)' = Positions(u, m, s)
  BY <1>0, <1>1, RunFacts
<1>3. x \in Sessions
  BY <1>0, <1>2 DEF Calls
<1>4. /\ ~poisoned => DOMAIN session_manager' = DOMAIN session_manager \cup {x}
      /\ poisoned => DOMAIN session_manager' = DOMAIN session_manager
      /\ DOMAIN session_manager' \subseteq Sessions
      /\ session_manager' \in [DOMAIN session_manager' -> SUBSET Protocols]
      /\ \A s, p : has_sender(session_manager', s, p) <=> has_sender(session_manager, s, p)
  <2>1. DOMAIN session_manager \subseteq Sessions
        /\ session_manager \in [DOMAIN session_manager -> SUBSET Protocols]
    BY <1>1 DEF CType
  <2>2. CASE poisoned
    BY <1>1, <2>1, <2>2
  <2>3. CASE ~poisoned
    <3>1. session_manager' = add_session(session_manager, x)
      BY <1>1, <2>3
    <3>2. /\ DOMAIN session_manager' = DOMAIN session_manager \cup {x}
          /\ session_manager' \in [DOMAIN session_manager' -> SUBSET Protocols]
          /\ \A s, p : has_sender(session_manager', s, p) <=> has_sender(session_manager, s, p)
      BY <1>3, <2>1, <3>1, AddsSession
    <3> QED
      BY <1>3, <2>1, <2>3, <3>2
  <2> QED
    BY <2>2, <2>3
<1>5. CType' /\ PanicsOnlyAfterSessionClose'
  BY <1>1, <1>2, <1>4 DEF CInv, CType, PanicsOnlyAfterSessionClose
<1>6. ASSUME NEW s \in Sessions PROVE SessionInv(s)'
  <2>1. SessionInv(s)
    BY DEF CInv
  <2>2. Positions("session", "close", s)' # {} => Positions("session", "close", s) # {}
    BY <1>2
  <2>3. CASE s = x
    BY <1>1, <1>4, <2>1, <2>2, <2>3 DEF SessionInv
  <2>4. CASE s # x
    <3>1. Positions("session", "open", s) # {} => Positions("session", "open", s)' # {}
      BY <1>2, <2>4
    <3> QED
      BY <1>1, <1>4, <2>1, <2>2, <3>1 DEF SessionInv
  <2> QED
    BY <2>3, <2>4
<1>7. ASSUME NEW s \in Sessions, NEW p \in Protocols
      PROVE  (LastInv(s, p) /\ OpenInv(s, p) /\ ClosedInv(s, p))'
  <2>1. LastInv(s, p) /\ OpenInv(s, p) /\ ClosedInv(s, p)
    BY DEF CInv
  <2>2. \A n : Positions(p, n, s)' = Positions(p, n, s)
    BY <1>2, ConnectorAssumption DEF Tasks
  <2> QED
    BY <1>1, <1>4, <2>1, <2>2 DEF LastInv, OpenInv, ClosedInv
<1> QED
  BY <1>5, <1>6, <1>7 DEF CInv

LEMMA SessionCloseInv ==
  ASSUME CInv, SessionClose
  PROVE  CInv'
<1>0. PICK x : x = Head(calls["session"]).session
  OBVIOUS
<1>1. /\ CType /\ "session" \in Tasks /\ Runs("session", "close")
      /\ session_manager' = (IF poisoned THEN session_manager ELSE remove_session(session_manager, x))
      /\ removed' = removed \cup {x}
      /\ UNCHANGED <<protocols, session, opened, poisoned>>
  BY <1>0 DEF CInv, SessionClose, Changes, Runs, service, Tasks
<1>2. /\ calls' \in [Tasks -> Seq(Calls)] /\ Head(calls["session"]) \in Calls
      /\ 1 \in Positions("session", "close", x)
      /\ \A m, s : 1 \in Positions("session", m, s) => m = "close" /\ s = x
      /\ \A m, s : \A k \in Positions("session", m, s) : k \in Nat \ {0}
      /\ \A m, s : \A k \in Positions("session", m, s) : k # 1 => k - 1 \in Positions("session", m, s)'
      /\ \A m, s : \A k \in Positions("session", m, s)' : k \in Nat \ {0} /\ k + 1 \in Positions("session", m, s)
      /\ \A u \in Tasks : \A m, s : u # "session" => Positions(u, m, s)' = Positions(u, m, s)
  BY <1>0, <1>1, RunFacts
<1>3. x \in Sessions
  BY <1>0, <1>2 DEF Calls
<1>4. /\ DOMAIN session_manager' \subseteq Sessions
      /\ session_manager' \in [DOMAIN session_manager' -> SUBSET Protocols]
      /\ \A s : s # x => (s \in DOMAIN session_manager' <=> s \in DOMAIN session_manager)
      /\ \A s, p : s # x =>
           (has_sender(session_manager', s, p) <=> has_sender(session_manager, s, p))
      /\ \A s, p : has_sender(session_manager', s, p) => has_sender(session_manager, s, p)
  <2>1. DOMAIN session_manager \subseteq Sessions
        /\ session_manager \in [DOMAIN session_manager -> SUBSET Protocols]
    BY <1>1 DEF CType
  <2>2. CASE poisoned
    BY <1>1, <2>1, <2>2
  <2>3. CASE ~poisoned
    <3>1. session_manager' = remove_session(session_manager, x)
      BY <1>1, <2>3
    <3>2. /\ DOMAIN session_manager' = DOMAIN session_manager \ {x}
          /\ session_manager' \in [DOMAIN session_manager' -> SUBSET Protocols]
          /\ \A s, p : has_sender(session_manager', s, p) <=> has_sender(session_manager, s, p) /\ s # x
      BY <1>3, <2>1, <3>1, RemovesSession
    <3> QED
      BY <1>3, <2>1, <2>3, <3>2
  <2> QED
    BY <2>2, <2>3
<1>5. session[x] = "closed" /\ opened[x] = {}
  BY <1>2, <1>3 DEF CInv, SessionInv
<1>6. CType' /\ PanicsOnlyAfterSessionClose'
  BY <1>1, <1>2, <1>3, <1>4 DEF CInv, CType, PanicsOnlyAfterSessionClose
<1>7. ASSUME NEW s \in Sessions PROVE SessionInv(s)'
  <2>1. SessionInv(s)
    BY DEF CInv
  <2>2. /\ Positions("session", "close", s)' # {} => Positions("session", "close", s) # {}
        /\ Positions("session", "open", s) # {} => Positions("session", "open", s)' # {}
    BY <1>2
  <2>3. CASE s = x
    BY <1>1, <1>5, <2>3 DEF SessionInv
  <2>4. CASE s # x
    BY <1>1, <1>4, <2>1, <2>2, <2>4 DEF SessionInv
  <2> QED
    BY <2>3, <2>4
<1>8. ASSUME NEW s \in Sessions, NEW p \in Protocols
      PROVE  (LastInv(s, p) /\ OpenInv(s, p) /\ ClosedInv(s, p))'
  <2>1. LastInv(s, p) /\ OpenInv(s, p) /\ ClosedInv(s, p)
    BY DEF CInv
  <2>2. \A n : Positions(p, n, s)' = Positions(p, n, s)
    BY <1>2, ConnectorAssumption DEF Tasks
  <2>3. LastInv(s, p)'
    BY <1>1, <2>1, <2>2 DEF LastInv
  <2>4. OpenInv(s, p)'
    <3>1. CASE s = x
      BY <1>1, <1>5, <3>1 DEF OpenInv
    <3>2. CASE s # x
      BY <1>1, <1>4, <2>1, <2>2, <3>2 DEF OpenInv
    <3> QED
      BY <3>1, <3>2
  <2>5. ClosedInv(s, p)'
    BY <1>1, <1>4, <2>1, <2>2 DEF ClosedInv
  <2> QED
    BY <2>3, <2>4, <2>5
<1> QED
  BY <1>6, <1>7, <1>8 DEF CInv

-----------------------------------------------------------------------------
(* The handlers of protocols *)

LEMMA connectedInv ==
  ASSUME CInv, NEW q \in protocols, connected(q)
  PROVE  CInv'
<1>0. PICK x : x = Head(calls[q]).session
  OBVIOUS
<1>1. /\ CType /\ q \in Protocols /\ q \in Tasks /\ q # "session" /\ Runs(q, "connected")
      /\ session_manager' = (IF poisoned THEN session_manager ELSE add_protocol(session_manager, x, q))
      /\ UNCHANGED <<protocols, session, opened, poisoned, removed>>
  BY <1>0, ConnectorAssumption DEF CInv, CType, connected, Changes, Runs, service, Tasks
<1>2. /\ calls' \in [Tasks -> Seq(Calls)] /\ Head(calls[q]) \in Calls
      /\ 1 \in Positions(q, "connected", x)
      /\ \A m, s : 1 \in Positions(q, m, s) => m = "connected" /\ s = x
      /\ \A m, s : \A k \in Positions(q, m, s) : k \in Nat \ {0}
      /\ \A m, s : \A k \in Positions(q, m, s) : k # 1 => k - 1 \in Positions(q, m, s)'
      /\ \A m, s : \A k \in Positions(q, m, s)' : k \in Nat \ {0} /\ k + 1 \in Positions(q, m, s)
      /\ \A u \in Tasks : \A m, s : u # q => Positions(u, m, s)' = Positions(u, m, s)
  BY <1>0, <1>1, RunFacts
<1>3. x \in Sessions
  BY <1>0, <1>2 DEF Calls
<1>4. /\ DOMAIN session_manager \subseteq DOMAIN session_manager'
      /\ DOMAIN session_manager' \subseteq Sessions
      /\ session_manager' \in [DOMAIN session_manager' -> SUBSET Protocols]
      /\ ~poisoned => \A s, p : has_sender(session_manager', s, p) <=> has_sender(session_manager, s, p) \/ (s = x /\ p = q)
  <2>1. DOMAIN session_manager \subseteq Sessions
        /\ session_manager \in [DOMAIN session_manager -> SUBSET Protocols]
    BY <1>1 DEF CType
  <2>2. CASE poisoned
    BY <1>1, <2>1, <2>2
  <2>3. CASE ~poisoned
    <3>0. q \in Protocols
      BY <1>1
    <3>1. session_manager' = add_protocol(session_manager, x, q)
      BY <1>1, <2>3
    <3>2. /\ DOMAIN session_manager' = DOMAIN session_manager \cup {x}
          /\ session_manager' \in [DOMAIN session_manager' -> SUBSET Protocols]
      BY <1>3, <2>1, <3>0, <3>1 DEF add_protocol, Insert
    <3>3. \A s, p : has_sender(session_manager', s, p) <=>
                      has_sender(session_manager, s, p) \/ (s = x /\ p = q)
      BY <1>3, <2>1, <3>0, <3>1 DEF add_protocol, Insert, has_sender
    <3> QED
      BY <1>3, <2>1, <2>3, <3>2, <3>3
  <2> QED
    BY <2>2, <2>3
<1>5. CType' /\ PanicsOnlyAfterSessionClose'
  BY <1>1, <1>2, <1>4 DEF CInv, CType, PanicsOnlyAfterSessionClose
<1>6. ASSUME NEW s \in Sessions PROVE SessionInv(s)'
  <2>1. SessionInv(s)
    BY DEF CInv
  <2>2. \A n : Positions("session", n, s)' = Positions("session", n, s)
    BY <1>1, <1>2 DEF Tasks
  <2> QED
    BY <1>1, <1>4, <2>1, <2>2 DEF SessionInv
<1>7. ASSUME NEW s \in Sessions, NEW p \in Protocols
      PROVE  (LastInv(s, p) /\ OpenInv(s, p) /\ ClosedInv(s, p))'
  <2>1. LastInv(s, p) /\ OpenInv(s, p) /\ ClosedInv(s, p)
    BY DEF CInv
  <2>2. p \in Tasks /\ (p # q => \A n : Positions(p, n, s)' = Positions(p, n, s))
    BY <1>2 DEF Tasks
  <2>3. CASE p # q
    BY <1>1, <1>4, <2>1, <2>2, <2>3 DEF LastInv, OpenInv, ClosedInv
  <2>4. CASE p = q
    <3>1. LastInv(s, p)'
      BY <1>1, <1>2, <2>1, <2>4 DEF LastInv
    <3>2. OpenInv(s, p)'
      <4>1. CASE s = x
        BY <1>1, <1>4, <2>4, <4>1 DEF OpenInv
      <4>2. CASE s # x
        BY <1>1, <1>2, <1>4, <2>1, <2>4, <4>2 DEF OpenInv
      <4> QED
        BY <4>1, <4>2
    <3>3. ClosedInv(s, p)'
      <4>1. \A k \in Positions(p, "disconnected", s) : k - 1 \in Positions(p, "disconnected", s)'
        BY <1>2, <2>4
      <4>2. ASSUME NEW k \in Positions(p, "connected", s),
                   p \notin opened[s]
            PROVE  \E j \in Positions(p, "disconnected", s)' : j + 1 > k
        BY <1>2, <2>1, <2>4, <4>1, <4>2 DEF ClosedInv
      <4>3. (~poisoned /\ has_sender(session_manager, s, p)) =>
              p \in opened[s] \/ Positions(p, "disconnected", s)' # {}
        BY <2>1, <4>1 DEF ClosedInv
      <4>4. (~poisoned /\ has_sender(session_manager, s, p))' =>
              p \in opened[s] \/ Positions(p, "disconnected", s)' # {}
        BY <1>1, <1>2, <1>4, <2>4, <4>2, <4>3
      <4>5. ASSUME NEW k \in Positions(p, "connected", s)', p \notin opened[s]
            PROVE  \E j \in Positions(p, "disconnected", s)' : j > k
        <5>1. k \in Nat /\ k + 1 \in Positions(p, "connected", s)
          BY <1>2, <2>4
        <5>2. PICK j \in Positions(p, "disconnected", s)' : j + 1 > k + 1
          BY <4>2, <4>5, <5>1
        <5> QED
          BY <1>2, <2>4, <5>1, <5>2
      <4> QED
        BY <1>1, <4>4, <4>5 DEF ClosedInv
    <3> QED
      BY <3>1, <3>2, <3>3
  <2> QED
    BY <2>3, <2>4
<1> QED
  BY <1>5, <1>6, <1>7 DEF CInv

LEMMA disconnectedInv ==
  ASSUME CInv, NEW q \in protocols, disconnected(q)
  PROVE  CInv'
<1>0. PICK x : x = Head(calls[q]).session
  OBVIOUS
<1>1. /\ CType /\ q \in Protocols /\ q \in Tasks /\ q # "session" /\ Runs(q, "disconnected")
      /\ session_manager' = (IF poisoned THEN session_manager ELSE remove_protocol(session_manager, x, q))
      /\ UNCHANGED <<protocols, session, opened, poisoned, removed>>
  BY <1>0, ConnectorAssumption DEF CInv, CType, disconnected, Changes, Runs, service, Tasks
<1>2. /\ calls' \in [Tasks -> Seq(Calls)] /\ Head(calls[q]) \in Calls
      /\ 1 \in Positions(q, "disconnected", x)
      /\ \A m, s : 1 \in Positions(q, m, s) => m = "disconnected" /\ s = x
      /\ \A m, s : \A k \in Positions(q, m, s) : k \in Nat \ {0}
      /\ \A m, s : \A k \in Positions(q, m, s) : k # 1 => k - 1 \in Positions(q, m, s)'
      /\ \A m, s : \A k \in Positions(q, m, s)' : k \in Nat \ {0} /\ k + 1 \in Positions(q, m, s)
      /\ \A u \in Tasks : \A m, s : u # q => Positions(u, m, s)' = Positions(u, m, s)
  BY <1>0, <1>1, RunFacts
<1>3. x \in Sessions
  BY <1>0, <1>2 DEF Calls
<1>4. /\ DOMAIN session_manager \subseteq DOMAIN session_manager'
      /\ DOMAIN session_manager' \subseteq Sessions
      /\ session_manager' \in [DOMAIN session_manager' -> SUBSET Protocols]
      /\ ~poisoned => \A s, p : has_sender(session_manager', s, p) <=> has_sender(session_manager, s, p) /\ ~(s = x /\ p = q)
  <2>1. DOMAIN session_manager \subseteq Sessions
        /\ session_manager \in [DOMAIN session_manager -> SUBSET Protocols]
    BY <1>1 DEF CType
  <2>2. CASE poisoned
    BY <1>1, <2>1, <2>2
  <2>3. CASE ~poisoned
    <3>0. q \in Protocols
      BY <1>1
    <3>1. session_manager' = remove_protocol(session_manager, x, q)
      BY <1>1, <2>3
    <3>2. /\ DOMAIN session_manager' = DOMAIN session_manager
          /\ session_manager' \in [DOMAIN session_manager' -> SUBSET Protocols]
          /\ \A s, p : has_sender(session_manager', s, p) <=>
                         has_sender(session_manager, s, p) /\ ~(s = x /\ p = q)
      BY <1>3, <2>1, <3>0, <3>1, RemovesProtocol
    <3> QED
      BY <1>3, <2>1, <2>3, <3>2
  <2> QED
    BY <2>2, <2>3
<1>5. CType' /\ PanicsOnlyAfterSessionClose'
  BY <1>1, <1>2, <1>4 DEF CInv, CType, PanicsOnlyAfterSessionClose
\* it is the last call of its session
<1>8. /\ opened[x] = {}
      /\ \A n \in ProtocolCalls : Positions(q, n, x)' = {}
  <2>1. LastInv(x, q) /\ SessionInv(x)
    BY <1>1, <1>3 DEF CInv
  <2>2. session[x] = "closed" /\ \A n \in ProtocolCalls : \A j \in Positions(q, n, x) : j = 1
    BY <1>2, <2>1 DEF LastInv
  <2>3. ASSUME NEW n \in ProtocolCalls, NEW k \in Positions(q, n, x)' PROVE FALSE
    BY <1>2, <2>2
  <2> QED
    BY <2>1, <2>2, <2>3 DEF SessionInv
<1>6. ASSUME NEW s \in Sessions PROVE SessionInv(s)'
  <2>1. SessionInv(s)
    BY DEF CInv
  <2>2. \A n : Positions("session", n, s)' = Positions("session", n, s)
    BY <1>1, <1>2 DEF Tasks
  <2> QED
    BY <1>1, <1>4, <2>1, <2>2 DEF SessionInv
<1>7. ASSUME NEW s \in Sessions, NEW p \in Protocols
      PROVE  (LastInv(s, p) /\ OpenInv(s, p) /\ ClosedInv(s, p))'
  <2>1. LastInv(s, p) /\ OpenInv(s, p) /\ ClosedInv(s, p)
    BY DEF CInv
  <2>2. p \in Tasks /\ (p # q => \A n : Positions(p, n, s)' = Positions(p, n, s))
    BY <1>2 DEF Tasks
  <2>3. CASE p # q
    BY <1>1, <1>4, <2>1, <2>2, <2>3 DEF LastInv, OpenInv, ClosedInv
  <2>4. CASE p = q
    <3>1. LastInv(s, p)'
      BY <1>1, <1>2, <2>1, <2>4 DEF LastInv
    <3>2. OpenInv(s, p)'
      <4>1. CASE s = x
        BY <1>1, <1>8, <2>4, <4>1 DEF OpenInv, ProtocolCalls
      <4>2. CASE s # x
        <5>1. \A k \in Positions(p, "connected", s) : k - 1 \in Positions(p, "connected", s)'
          BY <1>2, <2>4, <4>2
        <5>2. ~poisoned' => /\ ~poisoned
                            /\ has_sender(session_manager', s, p) <=> has_sender(session_manager, s, p)
          BY <1>1, <1>4, <4>2
        <5>3. ~poisoned' /\ p \in opened'[s] =>
               has_sender(session_manager', s, p) \/ Positions(p, "connected", s)' # {}
          BY <1>1, <2>1, <5>1, <5>2 DEF OpenInv
        <5>4. ASSUME ~poisoned', NEW k \in Positions(p, "received", s)',
                    ~(s \in removed \/ has_sender(session_manager', s, p))
             PROVE  \E j \in Positions(p, "connected", s)' : j < k
          <6>1. k \in Nat /\ k + 1 \in Positions(p, "received", s)
            BY <1>2, <2>4
          <6>2. ~poisoned /\ ~has_sender(session_manager, s, p) /\ s \notin removed
            BY <5>2, <5>4
          <6>3. PICK j \in Positions(p, "connected", s) : j < k + 1
            BY <2>1, <6>1, <6>2 DEF OpenInv
          <6>4. j \in Nat /\ j - 1 \in Positions(p, "connected", s)' /\ j - 1 < k
            BY <1>2, <2>4, <5>1, <6>1, <6>3
          <6> QED
            BY <6>4
        <5> QED
          BY <1>1, <5>3, <5>4 DEF OpenInv
      <4> QED
        BY <4>1, <4>2
    <3>3. ClosedInv(s, p)'
      <4>1. CASE s = x
        BY <1>1, <1>4, <1>8, <2>4, <4>1 DEF ClosedInv, ProtocolCalls
      <4>2. CASE s # x
        BY <1>1, <1>2, <1>4, <2>1, <2>4, <4>2 DEF ClosedInv
      <4> QED
        BY <4>1, <4>2
    <3> QED
      BY <3>1, <3>2, <3>3
  <2> QED
    BY <2>3, <2>4
<1> QED
  BY <1>5, <1>6, <1>7 DEF CInv

LEMMA receivedInv ==
  ASSUME CInv, NEW q \in protocols, received(q)
  PROVE  CInv'
<1>0. PICK x : x = Head(calls[q]).session
  OBVIOUS
<1>1. /\ CType /\ q \in Protocols /\ q \in Tasks /\ q # "session" /\ Runs(q, "received")
      /\ poisoned' = (poisoned \/ ~has_sender(session_manager, x, q))
      /\ UNCHANGED <<protocols, session, opened, session_manager, removed>>
  BY <1>0, ConnectorAssumption DEF CInv, CType, received, Changes, Runs, service, Tasks
<1>2. /\ calls' \in [Tasks -> Seq(Calls)] /\ Head(calls[q]) \in Calls
      /\ 1 \in Positions(q, "received", x)
      /\ \A m, s : 1 \in Positions(q, m, s) => m = "received" /\ s = x
      /\ \A m, s : \A k \in Positions(q, m, s) : k \in Nat \ {0}
      /\ \A m, s : \A k \in Positions(q, m, s) : k # 1 => k - 1 \in Positions(q, m, s)'
      /\ \A m, s : \A k \in Positions(q, m, s)' : k \in Nat \ {0} /\ k + 1 \in Positions(q, m, s)
      /\ \A u \in Tasks : \A m, s : u # q => Positions(u, m, s)' = Positions(u, m, s)
  BY <1>0, <1>1, RunFacts
<1>3. x \in Sessions
  BY <1>0, <1>2 DEF Calls
\* nothing is due before the message: it has a mailbox, or its session was removed
<1>8. poisoned \/ x \in removed \/ has_sender(session_manager, x, q)
  <2>1. OpenInv(x, q)
    BY <1>1, <1>3 DEF CInv
  <2>2. \A j \in Positions(q, "connected", x) : ~(j < 1)
    BY <1>2
  <2> QED
    BY <1>2, <2>1, <2>2 DEF OpenInv
<1>4. /\ poisoned' \in BOOLEAN /\ poisoned => poisoned'
      /\ DOMAIN session_manager \subseteq DOMAIN session_manager'
  BY <1>1 DEF CType
<1>5. CType' /\ PanicsOnlyAfterSessionClose'
  BY <1>1, <1>2, <1>4, <1>8 DEF CInv, CType, PanicsOnlyAfterSessionClose
<1>6. ASSUME NEW s \in Sessions PROVE SessionInv(s)'
  <2>1. SessionInv(s)
    BY DEF CInv
  <2>2. \A n : Positions("session", n, s)' = Positions("session", n, s)
    BY <1>1, <1>2 DEF Tasks
  <2> QED
    BY <1>1, <1>4, <2>1, <2>2 DEF SessionInv
<1>7. ASSUME NEW s \in Sessions, NEW p \in Protocols
      PROVE  (LastInv(s, p) /\ OpenInv(s, p) /\ ClosedInv(s, p))'
  <2>1. LastInv(s, p) /\ OpenInv(s, p) /\ ClosedInv(s, p)
    BY DEF CInv
  <2>2. p \in Tasks /\ (p # q => \A n : Positions(p, n, s)' = Positions(p, n, s))
    BY <1>2 DEF Tasks
  <2>3. CASE p # q
    BY <1>1, <1>4, <2>1, <2>2, <2>3 DEF LastInv, OpenInv, ClosedInv
  <2>4. CASE p = q
    <3>1. LastInv(s, p)'
      BY <1>1, <1>2, <2>1, <2>4 DEF LastInv
    <3>2. OpenInv(s, p)'
      <4>1. \A k \in Positions(p, "connected", s) : k - 1 \in Positions(p, "connected", s)'
        BY <1>2, <2>4
      <4>2. ~poisoned' => /\ ~poisoned
                          /\ has_sender(session_manager', s, p) <=> has_sender(session_manager, s, p)
        BY <1>1, <1>4
      <4>3. ~poisoned' /\ p \in opened'[s] =>
             has_sender(session_manager', s, p) \/ Positions(p, "connected", s)' # {}
        BY <1>1, <2>1, <4>1, <4>2 DEF OpenInv
      <4>4. ASSUME ~poisoned', NEW k \in Positions(p, "received", s)',
                  ~(s \in removed \/ has_sender(session_manager', s, p))
           PROVE  \E j \in Positions(p, "connected", s)' : j < k
        <5>1. k \in Nat /\ k + 1 \in Positions(p, "received", s)
          BY <1>2, <2>4
        <5>2. ~poisoned /\ ~has_sender(session_manager, s, p) /\ s \notin removed
          BY <4>2, <4>4
        <5>3. PICK j \in Positions(p, "connected", s) : j < k + 1
          BY <2>1, <5>1, <5>2 DEF OpenInv
        <5>4. j \in Nat /\ j - 1 \in Positions(p, "connected", s)' /\ j - 1 < k
          BY <1>2, <2>4, <4>1, <5>1, <5>3
        <5> QED
          BY <5>4
      <4> QED
        BY <1>1, <4>3, <4>4 DEF OpenInv
    <3>3. ClosedInv(s, p)'
      <4>1. \A k \in Positions(p, "disconnected", s) : k - 1 \in Positions(p, "disconnected", s)'
        BY <1>2, <2>4
      <4>2. (~poisoned /\ has_sender(session_manager, s, p))' =>
              p \in opened'[s] \/ Positions(p, "disconnected", s)' # {}
        BY <1>1, <2>1, <4>1 DEF ClosedInv
      <4>3. ASSUME NEW k \in Positions(p, "connected", s)', p \notin opened[s]
            PROVE  \E j \in Positions(p, "disconnected", s)' : j > k
        <5>1. k \in Nat /\ k + 1 \in Positions(p, "connected", s)
          BY <1>2, <2>4
        <5>2. PICK j \in Positions(p, "disconnected", s) : j > k + 1
          BY <2>1, <4>3, <5>1 DEF ClosedInv
        <5>3. j \in Nat /\ j - 1 \in Positions(p, "disconnected", s)' /\ j - 1 > k
          BY <1>2, <2>4, <4>1, <5>1, <5>2
        <5> QED
          BY <5>3
      <4> QED
        BY <1>1, <4>2, <4>3 DEF ClosedInv
    <3> QED
      BY <3>1, <3>2, <3>3
  <2> QED
    BY <2>3, <2>4
<1> QED
  BY <1>5, <1>6, <1>7 DEF CInv

-----------------------------------------------------------------------------
(* The cases *)

LEMMA CaseProtocols == \A c \in Cases : c.protocols \in SUBSET Protocols
<1>1. \A kind, ps, m, n, r : Talking(kind, ps, m, n, r).protocols = ps
  BY DEF Talking
<1>2. \A c \in RelayBefore : c.protocols \in SUBSET Protocols
  BY ConnectorAssumption DEF RelayBefore, Relaying
<1>3. \A c \in RelayAfter : c.protocols \in SUBSET Protocols
  BY ConnectorAssumption DEF RelayAfter, Relaying
<1>4. \A c \in FloodAttack : c.protocols \in SUBSET Protocols
  <2> SUFFICES ASSUME NEW c \in FloodAttack PROVE c.protocols \in SUBSET Protocols
    OBVIOUS
  <2>1. \E k, m, n, r : c = Talking(k, {"Discovery", "Sync"}, m, n, r)
    BY Zenon DEF FloodAttack
  <2>2. c.protocols = {"Discovery", "Sync"}
    BY <1>1, <2>1
  <2> QED
    BY <2>2, ConnectorAssumption
<1>5. \A c \in ManipulatedAddresses : c.protocols \in SUBSET Protocols
  <2> SUFFICES ASSUME NEW c \in ManipulatedAddresses PROVE c.protocols \in SUBSET Protocols
    OBVIOUS
  <2>1. \E k, m, n, r : c = Talking(k, {"Discovery", "Sync"}, m, n, r)
    BY Zenon DEF ManipulatedAddresses
  <2>2. c.protocols = {"Discovery", "Sync"}
    BY <1>1, <2>1
  <2> QED
    BY <2>2, ConnectorAssumption
<1>6. \A c \in Connection : c.protocols \in SUBSET Protocols
  <2> SUFFICES ASSUME NEW c \in Connection PROVE c.protocols \in SUBSET Protocols
    OBVIOUS
  <2>1. \E k, m, n, r : c = Talking(k, {"Sync", "Identify"}, m, n, r)
    BY Zenon DEF Connection
  <2>2. c.protocols = {"Sync", "Identify"}
    BY <1>1, <2>1
  <2> QED
    BY <2>2, ConnectorAssumption
<1>7. \A c \in IdenticalKeyPair : c.protocols \in SUBSET Protocols
  <2> SUFFICES ASSUME NEW c \in IdenticalKeyPair PROVE c.protocols \in SUBSET Protocols
    OBVIOUS
  <2>1. \E k, m, n, r : c = Talking(k, {"Sync", "Identify"}, m, n, r)
    BY Zenon DEF IdenticalKeyPair
  <2>2. c.protocols = {"Sync", "Identify"}
    BY <1>1, <2>1
  <2> QED
    BY <2>2, ConnectorAssumption
<1> QED
  BY <1>2, <1>3, <1>4, <1>5, <1>6, <1>7 DEF Cases

LEMMA InitCInv == Init => CInv
<1> SUFFICES ASSUME Init PROVE CInv
  OBVIOUS
<1>1. /\ protocols \in SUBSET Protocols
      /\ session = [s \in Sessions |-> "none"] /\ opened = [s \in Sessions |-> {}]
      /\ calls = [t \in Tasks |-> <<>>] /\ session_manager = [s \in {} |-> {}]
      /\ poisoned = FALSE /\ removed = {}
  BY CaseProtocols DEF Init, InitConnector, Tasks
<1>2. CType /\ PanicsOnlyAfterSessionClose
  <2>1. <<>> \in Seq(Calls)
    OBVIOUS
  <2>2. calls \in [Tasks -> Seq(Calls)]
    BY <1>1, <2>1
  <2>3. /\ session \in [Sessions -> {"none", "open", "closed"}]
        /\ opened \in [Sessions -> SUBSET protocols]
    BY <1>1
  <2>4. /\ DOMAIN session_manager \subseteq Sessions
        /\ session_manager \in [DOMAIN session_manager -> SUBSET Protocols]
    BY <1>1
  <2> QED
    BY <1>1, <2>2, <2>3, <2>4 DEF CType, PanicsOnlyAfterSessionClose
<1>3. \A t \in Tasks : \A n, s : Positions(t, n, s) = {}
  <2>1. \A t \in Tasks : DOMAIN calls[t] = {}
    BY <1>1
  <2> QED
    BY <2>1 DEF Positions
<1>4. \A s \in Sessions : SessionInv(s)
  BY <1>1, <1>3 DEF SessionInv, Tasks
<1>5. ASSUME NEW s \in Sessions, NEW p \in Protocols
      PROVE  LastInv(s, p) /\ OpenInv(s, p) /\ ClosedInv(s, p)
  BY <1>1, <1>3 DEF LastInv, OpenInv, ClosedInv, has_sender, Tasks
<1> QED
  BY <1>2, <1>4, <1>5 DEF CInv

\* The test, and a node that keeps the connection, leave the connector's state alone.
LEMMA StutterInv ==
  ASSUME CInv, UNCHANGED state
  PROVE  CInv'
BY DEF state, CInv, CType, PanicsOnlyAfterSessionClose, SessionInv, LastInv, OpenInv, ClosedInv,
       Positions, has_sender

LEMMA TestKeepsState ==
  ASSUME Test
  PROVE  UNCHANGED state
BY DEF Test, state, cvars, service, shared, Same, Unlock,
       Panic, Dial, Connected, ConnectTimeout, SendMessage, SendFails, Receive, ReceiveTimeout,
       SendTx, IsPending, PoolTimeout, IsBanned, BanTimeout, HasNoPeers, PeersTimeout,
       Lock, ReceiveLocked, LockedTimeout

LEMMA NodeInv ==
  ASSUME CInv, Node
  PROVE  CInv'
<1>1. S \in Sessions /\ opened[S] \in SUBSET Protocols /\ protocols \in SUBSET Protocols
  BY ConnectorAssumption DEF S, CInv, CType
<1>2. ASSUME NEW p, NEW d \in Data, Deliver(S, p, d) PROVE CInv'
  <2>1. p \in Protocols
    BY <1>1, <1>2 DEF Deliver
  <2> QED
    BY <1>1, <1>2, <2>1, DeliverInv
<1>3. ASSUME UNCHANGED cvars PROVE CInv'
  BY <1>3, StutterInv DEF state, cvars, service, shared
<1>4. "other" \in Data /\ "identify" \in Data /\ "ask" \in Data
  BY DEF Data
<1>5. CASE NodeOpensSession
  BY <1>1, <1>5, OpenSessionInv DEF NodeOpensSession
<1>6. CASE \E p \in protocols : NodeOpensProtocol(p)
  BY <1>1, <1>6, OpenProtocolInv DEF NodeOpensProtocol
<1>7. CASE NodeCloses
  BY <1>1, <1>7, CloseSessionInv DEF NodeCloses
<1>8. CASE NodeSpeaks
  BY <1>2, <1>4, <1>8 DEF NodeSpeaks
<1>9. CASE NodeAsks
  BY <1>2, <1>3, <1>4, <1>9 DEF NodeAsks
<1>10. CASE NodeDecides
  BY <1>1, <1>3, <1>10, CloseSessionInv DEF NodeDecides
<1>11. CASE NodeHears
  BY <1>1, <1>2, <1>3, <1>4, <1>11, CloseSessionInv DEF NodeHears
<1> QED
  BY <1>5, <1>6, <1>7, <1>8, <1>9, <1>10, <1>11 DEF Node

LEMMA HandleInv ==
  ASSUME CInv, Handle
  PROVE  CInv'
<1>1. CASE SessionOpen
  BY <1>1, SessionOpenInv
<1>2. CASE SessionClose
  BY <1>2, SessionCloseInv
<1>3. ASSUME NEW p \in protocols, connected(p) \/ received(p) \/ disconnected(p) PROVE CInv'
  BY <1>3, connectedInv, receivedInv, disconnectedInv
<1> QED
  BY <1>1, <1>2, <1>3 DEF Handle

\* The connector's invariant holds in every case, whatever the node does and in
\* whatever order the tasks of the service call the handlers.
THEOREM Invariance == Spec => []CInv
<1>1. CInv /\ [Next]_vars => CInv'
  <2> SUFFICES ASSUME CInv, [Next]_vars PROVE CInv'
    OBVIOUS
  <2>1. CASE Test
    BY <2>1, TestKeepsState, StutterInv
  <2>2. CASE Node
    BY <2>2, NodeInv
  <2>3. CASE Handle
    BY <2>3, HandleInv
  <2>4. CASE UNCHANGED vars
    BY <2>4, StutterInv DEF state, vars, cvars, service, shared
  <2> QED
    BY <2>1, <2>2, <2>3, <2>4 DEF Next
<1> QED
  BY InitCInv, <1>1, PTL DEF Spec

\* A handler panics over a message without a mailbox (simple_protocol_handler.rs:75)
\* only if the close of its session overtook the message, for any protocols.
THEOREM PanicsAreLate == Spec => []PanicsOnlyAfterSessionClose
<1>1. CInv => PanicsOnlyAfterSessionClose
  BY DEF CInv
<1> QED
  BY <1>1, Invariance, PTL

\* With all callbacks handled, an open session has a mailbox for just its open
\* protocols, and a closed one that is still listed has none (shared.rs:26-72).
THEOREM AgreementWhenQuiet == Spec => []AgreesWhenQuiet
<1>1. CInv => AgreesWhenQuiet
  <2> SUFFICES ASSUME CInv, ~poisoned, \A t \in DOMAIN calls : calls[t] = <<>>,
                      NEW s \in Sessions
               PROVE  /\ session[s] = "open" => s \in DOMAIN session_manager
                      /\ s \in DOMAIN session_manager => session_manager[s] = opened[s]
    BY DEF AgreesWhenQuiet
  <2>1. CType /\ SessionInv(s)
    BY DEF CInv
  <2>2. \A t \in Tasks : \A n : Positions(t, n, s) = {}
    BY <2>1 DEF CType, Positions
  <2>3. session[s] = "open" => s \in DOMAIN session_manager
    BY <2>1, <2>2 DEF SessionInv, Tasks
  <2>4. ASSUME s \in DOMAIN session_manager PROVE session_manager[s] = opened[s]
    <3>1. session_manager[s] \in SUBSET Protocols /\ opened[s] \in SUBSET Protocols
      BY <2>1, <2>4 DEF CType
    <3>2. ASSUME NEW p \in Protocols PROVE p \in session_manager[s] <=> p \in opened[s]
      <4>1. OpenInv(s, p) /\ ClosedInv(s, p) /\ p \in Tasks
        BY DEF CInv, Tasks
      <4>2. has_sender(session_manager, s, p) <=> p \in session_manager[s]
        BY <2>4 DEF has_sender
      <4> QED
        BY <2>2, <4>1, <4>2 DEF OpenInv, ClosedInv
    <3> QED
      BY <3>1, <3>2
  <2> QED
    BY <2>3, <2>4
<1> QED
  BY <1>1, Invariance, PTL

----------------------------------------------------------------------------
(* Verdicts: the test and the node beside the connector *)

Labels == {"dial", "connect", "talk", "ask", "tx", "pool", "ban", "peers", "lock", "locked", "done"}
\* connect() came back
Started == pc \notin {"dial", "connect", "done"}

is(kind) == case.kind = kind
Relays == is("relay")
\* the cases that look at the node's peers in the end
Judges == is("flood") \/ is("addresses")

DueCalls(t) == {calls[t][k] : k \in DOMAIN calls[t]}

TestType ==
  /\ case \in Cases /\ node \in Behaviours(case) /\ protocols = case.protocols
  /\ pc \in Labels /\ left \in Nat /\ heard \in Nat
  /\ wire \in Seq({case.message, "tx"})
  /\ mailbox \in [Sessions -> [Protocols -> Seq(Data)]]
  /\ {seen, spoke, pending, banned, late} \subseteq BOOLEAN

-----------------------------------------------------------------------------
(* The connector during a case: it has one session, S *)

OnlySession ==
  /\ DOMAIN session_manager \subseteq {S}
  /\ \A t \in Tasks : \A c \in DueCalls(t) : c.session = S
  /\ session[S] = "none" => DOMAIN session_manager = {} /\ \A t \in Tasks : DueCalls(t) = {}
  /\ \A s \in DOMAIN session_manager : session_manager[s] \subseteq protocols

\* A protocol is connected once, so that its mailbox is never emptied again.
OpensOnce(p) ==
  /\ Positions(p, "connected", S) # {} => ~has_sender(session_manager, S, p)
  /\ \A j, k \in Positions(p, "connected", S) : j = k
  /\ p \notin opened[S] /\ session[S] # "closed" =>
       Positions(p, "connected", S) = {} /\ ~has_sender(session_manager, S, p)

\* The connector hears nothing before the node speaks.
Silent ==
  is("identify") /\ ~spoke =>
    ~poisoned /\ \A p \in Protocols : Positions(p, "received", S) = {} /\ mailbox[S][p] = <<>>

AsksFor(d) == d = "ask" => node.asks
OnlyAsksIfItDoes ==
  \A p \in Protocols :
    /\ \A c \in DueCalls(p) : AsksFor(c.data)
    /\ \A k \in DOMAIN mailbox[S][p] : AsksFor(mailbox[S][p][k])

\* A node that refuses the connection opens no protocol.
RefusedInv ==
  Refused => /\ opened[S] = {} /\ \A p \in Protocols : DueCalls(p) = {}
             /\ \A s \in DOMAIN session_manager : session_manager[s] = {}

PeerInv ==
  /\ OnlySession /\ (\A p \in Protocols : OpensOnce(p))
  /\ Silent /\ OnlyAsksIfItDoes /\ RefusedInv

-----------------------------------------------------------------------------
(* The test *)

PcInv ==
  /\ pc \in {"ask", "tx", "pool"} => Relays
  /\ pc \in {"lock", "locked"} => is("identify")
  /\ pc = "ban" => Relays \/ Judges
  /\ pc = "peers" => Judges
  /\ pc = "talk" => ~is("key_pair") /\ left > 0
  /\ pc # "done" => \/ result = "none"
                    \/ result = "disconnected" /\ session[S] = "closed"
                       /\ is("flood") /\ pc \in {"ban", "peers"}
  /\ pc \in {"ask", "tx", "pool", "ban", "peers"} /\ result = "none" => left = 0

WireInv ==
  /\ pc \in {"dial", "connect"} => wire = <<>> /\ left = case.times /\ heard = 0
  /\ (pc \in {"dial", "connect", "talk"} \/ ~Relays) => heard + Len(wire) + left <= case.times
  /\ \A k \in DOMAIN wire : wire[k] = "tx" => Relays /\ pc \in {"pool", "ban", "done"}

\* Once connect() came back the protocol of the case is open as long as the session.
StartedInv ==
  Started =>
    /\ session[S] # "none"
    /\ session[S] = "open" => S \in DOMAIN session_manager
    /\ Relays \/ Judges => /\ Positions(case.talk, "connected", S) = {}
                           /\ session[S] = "open" => case.talk \in opened[S]

\* The node's answers, and what the test has seen of them
RelayInv ==
  /\ pending \/ seen => node.answer = "accept"
  /\ banned => node.answer = "ban"
  /\ Relays /\ pc \in {"tx", "pool", "ban"} => node.asks
  /\ pc = "ask" /\ ~poisoned /\ session[S] = "open" /\ node.asks => Asked
  /\ pc = "ban" /\ Relays /\ ~seen /\ ~late => wire = <<>> /\ ~pending
  /\ Relays /\ pc \in {"pool", "ban"} /\ ~node.flaky /\ node.answer = "accept" =>
       pending \/ \E k \in DOMAIN wire : wire[k] = "tx"

\* Without reason a node that is not flaky keeps the session.
CloseInv ==
  session[S] = "closed" /\ ~node.flaky /\ ~Refused =>
    \/ Relays /\ node.answer = "ban" /\ pc \in {"pool", "ban", "done"}
    \/ ~Relays /\ node.answer = "disconnect" /\ heard > 0

\* What was sent is under way or read, and a node that disconnects did not read enough.
HearInv ==
  Judges /\ session[S] = "open" =>
    /\ Started => heard + Len(wire) + left = case.times
    /\ node.answer = "disconnect" => heard < Min({2, case.times})

-----------------------------------------------------------------------------
(* The case tables *)

Verdict(c) ==
  CASE c.kind = "relay" -> IF ~Asks(c) THEN "RelayTransactionHashFailed"
                           ELSE IF Accepts(c) THEN "Ok" ELSE "RelayTransactionFailed"
    [] c.kind \in {"flood", "addresses"} -> IF Misbehaves(c) THEN "disconnected" ELSE "Ok"
    [] c.kind = "identify" -> "Ok"
    [] OTHER -> "timeout"

\* What all cases have in common.  Each expects the verdict on a node that conforms.
CaseShape(c) ==
  /\ c.kind \in {"relay", "flood", "addresses", "identify", "key_pair"}
  /\ c.times \in Nat /\ (c.kind # "key_pair" => c.times > 0)
  /\ c.kind \notin {"flood", "key_pair"} => c.times = 1
  /\ c.kind = "relay" => c.message = "hash"
  /\ c.kind # "relay" => c.message \notin {"hash", "tx"}
  /\ c.kind = "identify" => c.message \notin {"network", "get_nodes"}
  /\ c.protocols \in SUBSET Protocols /\ c.talk \in c.protocols
  /\ "Sync" \in c.protocols /\ IsFiniteSet(c.protocols)
  /\ c.kind \in {"relay", "flood", "addresses"} => c.protocols \cap IgnoredProtocols = {}
  /\ c.expected = Verdict(c)

LEMMA PairIsFinite == \A a, b : IsFiniteSet({a, b})
<1> SUFFICES ASSUME NEW a, NEW b PROVE IsFiniteSet({a, b})
  OBVIOUS
<1>1. IsFiniteSet({} \cup {a})
  BY FS_EmptySet, FS_AddElement
<1>2. IsFiniteSet(({} \cup {a}) \cup {b})
  BY <1>1, FS_AddElement
<1> QED
  BY <1>2, ({} \cup {a}) \cup {b} = {a, b}

LEMMA RelayShape ==
  ASSUME NEW h \in {FORK_HEIGHT - WINDOW - 1, FORK_HEIGHT + WINDOW + 1},
         NEW p \in {"Relay", "RelayV2"},
         NEW t \in {"Data", "Type", "Data1"}, NEW v \in {"vm0", "vm1"}, NEW r,
         r = Verdict(Relaying(h, p, t, v, r))
  PROVE  CaseShape(Relaying(h, p, t, v, r))
<1>1. IsFiniteSet({p, "Sync"})
  BY PairIsFinite
<1> QED
  BY <1>1, ConnectorAssumption, CasesAssumption DEF CaseShape, Relaying

LEMMA TalkShape ==
  ASSUME NEW kind \in {"flood", "addresses", "identify", "key_pair"}, NEW q, q # "Sync",
         NEW m \in {"get_nodes", "announce", "nodes", "nodes_1000", "announced_5000", "nodes_5000",
                    "v0_43", "v0_100", ""},
         NEW n \in Nat, NEW r,
         kind \in {"flood", "addresses"} => q = "Discovery",
         kind \in {"identify", "key_pair"} => q = "Identify",
         kind # "key_pair" => n > 0, kind \notin {"flood", "key_pair"} => n = 1,
         kind = "identify" => m # "get_nodes",
         r = Verdict(Talking(kind, {q, "Sync"}, m, n, r))
  PROVE  CaseShape(Talking(kind, {q, "Sync"}, m, n, r))
<1>1. IsFiniteSet({q, "Sync"})
  BY PairIsFinite
<1>2. (CHOOSE p \in {q, "Sync"} : p # "Sync") = q
  OBVIOUS
<1>3. PICK c : c = Talking(kind, {q, "Sync"}, m, n, r)
  OBVIOUS
<1>4. /\ c.kind = kind /\ c.protocols = {q, "Sync"} /\ c.talk = q
      /\ c.message = m /\ c.times = n /\ c.expected = r
  BY <1>2, <1>3 DEF Talking
<1>5. /\ c.times \in Nat /\ q \in {"Discovery", "Identify"}
      /\ c.kind \in {"flood", "addresses"} => q = "Discovery"
  BY <1>4
<1>7. /\ c.protocols \in SUBSET Protocols
      /\ c.kind \in {"flood", "addresses"} => c.protocols \cap IgnoredProtocols = {}
  BY <1>4, <1>5, ConnectorAssumption, CasesAssumption
<1>6. c.expected = Verdict(c)
  BY <1>3, <1>4
<1> QED
  BY <1>1, <1>3, <1>4, <1>5, <1>6, <1>7 DEF CaseShape

LEMMA CaseFacts == \A c \in Cases : CaseShape(c)
<1>1. ASSUME NEW c \in RelayBefore PROVE CaseShape(c)
  <2> DEFINE h == FORK_HEIGHT - WINDOW - 1
  <2>1. h \in Int /\ h < FORK_HEIGHT
    BY CasesAssumption
  <2>2. \A p, t, v, r : Relaying(h, p, t, v, r) =
          [kind |-> "relay", height |-> h, protocols |-> {p, "Sync"}, talk |-> p, type |-> t,
           cycles |-> v, message |-> "hash", times |-> 1, expected |-> r]
    BY DEF Relaying
  <2>3. \A p, t, v, r :
          Verdict(Relaying(h, p, t, v, r)) =
            IF p # "Relay" THEN "RelayTransactionHashFailed"
            ELSE IF t # "Data1" /\ v = "vm0" THEN "Ok" ELSE "RelayTransactionFailed"
    <3> HIDE DEF h
    <3> QED
      BY <2>1, <2>2, CasesAssumption DEF Verdict, Asks, Accepts, Forked
  <2>4. \E p \in {"Relay", "RelayV2"}, t \in {"Data", "Type", "Data1"}, v \in {"vm0", "vm1"} : \E r :
          /\ c = Relaying(h, p, t, v, r)
          /\ r = IF p # "Relay" THEN "RelayTransactionHashFailed"
                 ELSE IF t # "Data1" /\ v = "vm0" THEN "Ok" ELSE "RelayTransactionFailed"
    BY <1>1, Zenon DEF RelayBefore
  <2> QED
    BY <2>3, <2>4, RelayShape
<1>2. ASSUME NEW c \in RelayAfter PROVE CaseShape(c)
  <2> DEFINE h == FORK_HEIGHT + WINDOW + 1
  <2>1. h \in Int /\ h >= FORK_HEIGHT
    BY CasesAssumption
  <2>2. \A p, t, v, r : Relaying(h, p, t, v, r) =
          [kind |-> "relay", height |-> h, protocols |-> {p, "Sync"}, talk |-> p, type |-> t,
           cycles |-> v, message |-> "hash", times |-> 1, expected |-> r]
    BY DEF Relaying
  <2>3. \A p, v, r : \A t \in {"Data", "Type", "Data1"} :
          Verdict(Relaying(h, p, t, v, r)) =
            IF p # "RelayV2" THEN "RelayTransactionHashFailed"
            ELSE IF v = (IF t = "Data" THEN "vm0" ELSE "vm1")
                 THEN "Ok" ELSE "RelayTransactionFailed"
    <3> HIDE DEF h
    <3> QED
      BY <2>1, <2>2, CasesAssumption DEF Verdict, Asks, Accepts, Forked
  <2>4. \E p \in {"Relay", "RelayV2"}, t \in {"Data", "Type", "Data1"}, v \in {"vm0", "vm1"} : \E r :
          /\ c = Relaying(h, p, t, v, r)
          /\ r = IF p # "RelayV2" THEN "RelayTransactionHashFailed"
                 ELSE IF v = (IF t = "Data" THEN "vm0" ELSE "vm1")
                      THEN "Ok" ELSE "RelayTransactionFailed"
    BY <1>2, Zenon DEF RelayAfter
  <2> QED
    BY <2>3, <2>4, RelayShape
<1>3. ASSUME NEW c \in FloodAttack PROVE CaseShape(c)
  <2>1. \A m, n, r : Verdict(Talking("flood", {"Discovery", "Sync"}, m, n, r)) =
          IF m # "announce" /\ n > 1 THEN "disconnected" ELSE "Ok"
    BY DEF Verdict, Talking, Misbehaves
  <2>2. PICK m \in {"get_nodes", "announce", "nodes"} : \E n \in {1, Flood} : \E r :
          /\ c = Talking("flood", {"Discovery", "Sync"}, m, n, r)
          /\ r = IF m # "announce" /\ n > 1 THEN "disconnected" ELSE "Ok"
    BY <1>3, CasesAssumption DEF FloodAttack
  <2>3. PICK n \in {1, Flood} : \E r :
          /\ c = Talking("flood", {"Discovery", "Sync"}, m, n, r)
          /\ r = IF m # "announce" /\ n > 1 THEN "disconnected" ELSE "Ok"
    BY <2>2
  <2>4. PICK r : /\ c = Talking("flood", {"Discovery", "Sync"}, m, n, r)
                 /\ r = IF m # "announce" /\ n > 1 THEN "disconnected" ELSE "Ok"
    BY <2>3
  <2>5. n \in Nat /\ n > 0 /\ r = Verdict(Talking("flood", {"Discovery", "Sync"}, m, n, r))
    BY <2>1, <2>4, CasesAssumption
  <2>6. CaseShape(Talking("flood", {"Discovery", "Sync"}, m, n, r))
    BY <2>5, TalkShape
  <2> QED
    BY <2>4, <2>6
<1>4. ASSUME NEW c \in ManipulatedAddresses PROVE CaseShape(c)
  <2>1. \A m, r : Verdict(Talking("addresses", {"Discovery", "Sync"}, m, 1, r)) =
          IF m # "nodes_1000" THEN "disconnected" ELSE "Ok"
    BY DEF Verdict, Talking, Misbehaves
  <2>2. PICK m \in {"nodes_1000", "announced_5000", "nodes_5000"} : \E r :
          /\ c = Talking("addresses", {"Discovery", "Sync"}, m, 1, r)
          /\ r = IF m # "nodes_1000" THEN "disconnected" ELSE "Ok"
    BY <1>4 DEF ManipulatedAddresses
  <2>3. PICK r : /\ c = Talking("addresses", {"Discovery", "Sync"}, m, 1, r)
                 /\ r = IF m # "nodes_1000" THEN "disconnected" ELSE "Ok"
    BY <2>2
  <2>4. r = Verdict(Talking("addresses", {"Discovery", "Sync"}, m, 1, r))
    BY <2>1, <2>3
  <2>5. CaseShape(Talking("addresses", {"Discovery", "Sync"}, m, 1, r))
    <3>1. 1 \in Nat /\ 1 > 0
      OBVIOUS
    <3> QED
      BY <2>4, <3>1, TalkShape
  <2> QED
    BY <2>3, <2>5
<1>5. ASSUME NEW c \in Connection PROVE CaseShape(c)
  <2>0. 1 \in Nat /\ 1 > 0
    OBVIOUS
  <2>1. \A m : Verdict(Talking("identify", {"Identify", "Sync"}, m, 1, "Ok")) = "Ok"
    BY DEF Verdict, Talking
  <2>2. PICK m \in {"v0_43", "v0_100", ""} : c = Talking("identify", {"Identify", "Sync"}, m, 1, "Ok")
    <3>1. {"Sync", "Identify"} = {"Identify", "Sync"}
      OBVIOUS
    <3> QED
      BY <1>5, <3>1, Zenon DEF Connection
  <2>3. CaseShape(Talking("identify", {"Identify", "Sync"}, m, 1, "Ok"))
    <3>2. m # "get_nodes"
      BY Zenon
    <3> QED
      BY <2>0, <2>1, <3>2, TalkShape
  <2> QED
    BY <2>2, <2>3
<1>6. ASSUME NEW c \in IdenticalKeyPair PROVE CaseShape(c)
  <2>1. Verdict(Talking("key_pair", {"Identify", "Sync"}, "", 0, "timeout")) = "timeout"
    BY DEF Verdict, Talking
  <2>2. c = Talking("key_pair", {"Identify", "Sync"}, "", 0, "timeout")
    <3>1. {"Sync", "Identify"} = {"Identify", "Sync"}
      OBVIOUS
    <3> QED
      BY <1>6, <3>1, Zenon DEF IdenticalKeyPair
  <2>3. CaseShape(Talking("key_pair", {"Identify", "Sync"}, "", 0, "timeout"))
    BY <2>1, TalkShape
  <2> QED
    BY <2>2, <2>3
<1> QED
  BY <1>1, <1>2, <1>3, <1>4, <1>5, <1>6, Zenon DEF Cases

-----------------------------------------------------------------------------
(* What the service and the handlers do during a case *)

\* an "ask" that was handled, or will be
AskAhead(p) ==
  \/ \E c \in DueCalls(p) : c.data = "ask"
  \/ \E k \in DOMAIN mailbox[S][p] : mailbox[S][p][k] = "ask"

\* A step of the connector, as far as the test depends on it
PeerStep ==
  /\ \/ session'[S] = session[S]
     \/ session[S] = "none" /\ session'[S] = "open"
     \/ session[S] = "open" /\ session'[S] = "closed"
  /\ session'[S] = "open" => opened[S] \subseteq opened'[S]
  /\ session'[S] = "open" /\ S \in DOMAIN session_manager => S \in DOMAIN session_manager'
  /\ ~poisoned' => ~poisoned
  /\ \A p \in Protocols : Positions(p, "connected", S) = {} =>
       /\ p \in opened[S] \/ session[S] = "closed" => Positions(p, "connected", S)' = {}
       /\ session'[S] = "open" /\ ~poisoned' /\ AskAhead(p) => AskAhead(p)'
  /\ mailbox' \in [Sessions -> [Protocols -> Seq(Data)]]

LEMMA SessionExists == S \in Sessions
BY ConnectorAssumption DEF S

LEMMA DueElements ==
  ASSUME CType, NEW t \in Tasks, NEW c \in Calls, calls' = Due(t, c)
  PROVE  /\ calls' \in [Tasks -> Seq(Calls)]
         /\ \A u \in Tasks : DueCalls(u)' = IF u = t THEN DueCalls(u) \cup {c} ELSE DueCalls(u)
<1>1. /\ calls[t] \in Seq(Calls) /\ calls \in [Tasks -> Seq(Calls)]
      /\ calls' = [calls EXCEPT ![t] = Append(calls[t], c)]
  BY DEF CType, Due
<1>2. /\ DOMAIN calls[t] = 1..Len(calls[t]) /\ Len(calls[t]) \in Nat
      /\ DOMAIN calls'[t] = 1..(Len(calls[t]) + 1)
      /\ \A k \in DOMAIN calls[t] : calls'[t][k] = calls[t][k]
      /\ calls'[t][Len(calls[t]) + 1] = c
  BY <1>1
<1>3. DOMAIN calls'[t] = DOMAIN calls[t] \cup {Len(calls[t]) + 1}
  BY <1>2
<1>4. ASSUME NEW u \in Tasks
      PROVE  DueCalls(u)' = IF u = t THEN DueCalls(u) \cup {c} ELSE DueCalls(u)
  <2>1. CASE u = t
    BY <1>2, <1>3, <2>1 DEF DueCalls
  <2>2. CASE u # t
    BY <1>1, <2>2 DEF DueCalls
  <2> QED
    BY <2>1, <2>2
<1> QED
  BY <1>4, DueFacts

LEMMA RunElements ==
  ASSUME CType, NEW t \in Tasks, NEW n, Runs(t, n)
  PROVE  /\ Head(calls[t]) \in DueCalls(t)
         /\ \A u \in Tasks : DueCalls(u)' \subseteq DueCalls(u)
         /\ \A u \in Tasks : u # t => DueCalls(u)' = DueCalls(u)
         /\ \A c \in DueCalls(t) : c = Head(calls[t]) \/ c \in DueCalls(t)'
<1>1. /\ calls[t] \in Seq(Calls) /\ calls \in [Tasks -> Seq(Calls)] /\ calls[t] # <<>>
      /\ calls' = [calls EXCEPT ![t] = Tail(calls[t])]
  BY DEF CType, Runs
<1>2. /\ Len(calls[t]) \in Nat \ {0} /\ DOMAIN calls[t] = 1..Len(calls[t])
      /\ Head(calls[t]) = calls[t][1]
      /\ DOMAIN calls'[t] = 1..(Len(calls[t]) - 1)
      /\ \A k \in DOMAIN calls'[t] : calls'[t][k] = calls[t][k + 1]
  BY <1>1
<1>3. \A u \in Tasks : u # t => DueCalls(u)' = DueCalls(u)
  BY <1>1 DEF DueCalls
<1>4. Head(calls[t]) \in DueCalls(t)
  BY <1>2 DEF DueCalls
<1>5. ASSUME NEW c \in DueCalls(t)' PROVE c \in DueCalls(t)
  <2>1. PICK k \in DOMAIN calls'[t] : c = calls'[t][k]
    BY <1>5 DEF DueCalls
  <2>2. k + 1 \in DOMAIN calls[t] /\ c = calls[t][k + 1]
    BY <1>2, <2>1
  <2> QED
    BY <2>2 DEF DueCalls
<1>6. ASSUME NEW c \in DueCalls(t), c # Head(calls[t]) PROVE c \in DueCalls(t)'
  <2>1. PICK k \in DOMAIN calls[t] : c = calls[t][k]
    BY DEF DueCalls
  <2>2. k - 1 \in DOMAIN calls'[t] /\ c = calls'[t][k - 1]
    BY <1>2, <1>6, <2>1
  <2> QED
    BY <2>2 DEF DueCalls
<1> QED
  BY <1>3, <1>4, <1>5, <1>6

LEMMA CloseElements ==
  ASSUME CType, NEW x \in Sessions, CloseSession(x)
  PROVE  \A t \in Tasks :
           /\ DueCalls(t) \subseteq DueCalls(t)'
           /\ \A c \in DueCalls(t)' : c \in DueCalls(t) \/ (c.session = x /\ c.data = NoData)
           /\ t # "session" /\ t \notin opened[x] => DueCalls(t)' = DueCalls(t)
<1> DEFINE c(t) == IF t = "session" THEN Call("close", x, NoData)
                   ELSE Call("disconnected", x, NoData)
           joins(t) == t = "session" \/ t \in opened[x]
<1>1. /\ calls \in [Tasks -> Seq(Calls)]
      /\ calls' = [t \in Tasks |-> IF joins(t) THEN Append(calls[t], c(t)) ELSE calls[t]]
  BY DEF CType, CloseSession
<1>2. \A t : c(t).session = x /\ c(t).data = NoData /\ c(t) \in Calls
  BY DEF Call, Calls, NoData, Data, ProtocolCalls
<1> SUFFICES ASSUME NEW t \in Tasks
             PROVE  /\ DueCalls(t) \subseteq DueCalls(t)'
                    /\ \A d \in DueCalls(t)' : d \in DueCalls(t) \/ (d.session = x /\ d.data = NoData)
                    /\ ~joins(t) => DueCalls(t)' = DueCalls(t)
  OBVIOUS
<1>3. PICK last : last = c(t)
  OBVIOUS
<1>4. last \in Calls /\ last.session = x /\ last.data = NoData
  BY <1>2, <1>3
<1>5. calls'[t] = IF joins(t) THEN Append(calls[t], last) ELSE calls[t]
  BY <1>1, <1>3
<1> HIDE DEF c, joins
<1>6. calls[t] \in Seq(Calls)
  BY <1>1
<1>7. CASE joins(t)
  <2>1. /\ DOMAIN calls[t] = 1..Len(calls[t]) /\ Len(calls[t]) \in Nat
        /\ DOMAIN calls'[t] = 1..(Len(calls[t]) + 1)
        /\ \A k \in DOMAIN calls[t] : calls'[t][k] = calls[t][k]
        /\ calls'[t][Len(calls[t]) + 1] = last
    BY <1>4, <1>5, <1>6, <1>7
  <2>2. DOMAIN calls'[t] = DOMAIN calls[t] \cup {Len(calls[t]) + 1}
    BY <2>1
  <2>3. DueCalls(t)' = DueCalls(t) \cup {last}
    BY <2>1, <2>2 DEF DueCalls
  <2> QED
    BY <1>4, <1>7, <2>3
<1>8. CASE ~joins(t)
  BY <1>5, <1>8 DEF DueCalls
<1> QED
  BY <1>7, <1>8

LEMMA OpenSessionPeer ==
  ASSUME CInv, PeerInv, TestType, OpenSession(S), UNCHANGED <<case, node, spoke>>
  PROVE  PeerInv' /\ PeerStep
<1> DEFINE c == Call("open", S, NoData)
<1>1. /\ CType /\ S \in Sessions /\ c \in Calls /\ c.session = S /\ c.call = "open" /\ c.data = NoData
      /\ "session" \in Tasks /\ "session" \notin Protocols /\ Protocols \subseteq Tasks
      /\ calls' = Due("session", c) /\ session[S] = "none"
      /\ session' = [session EXCEPT ![S] = "open"]
      /\ UNCHANGED <<protocols, opened, session_manager, mailbox, poisoned, removed>>
  BY SessionExists, ConnectorAssumption
     DEF CInv, OpenSession, shared, Call, NoData, Calls, Data, Tasks
<1>2. /\ \A u \in Tasks : DueCalls(u)' = IF u = "session" THEN DueCalls(u) \cup {c} ELSE DueCalls(u)
      /\ \A p \in Protocols : \A n : Positions(p, n, S)' = Positions(p, n, S)
  BY <1>1, DueElements, DueFacts
<1>3. session'[S] = "open"
  BY <1>1 DEF CType
<1> HIDE DEF c
<1>4. OnlySession'
  BY <1>1, <1>2, <1>3 DEF PeerInv, OnlySession
<1>5. \A p \in Protocols : OpensOnce(p)'
  BY <1>1, <1>2, <1>3 DEF PeerInv, OpensOnce
<1>6. Silent' /\ OnlyAsksIfItDoes' /\ RefusedInv'
  BY <1>1, <1>2 DEF PeerInv, Silent, OnlyAsksIfItDoes, AsksFor, RefusedInv, Refused, is
<1>7. PeerStep
  BY <1>1, <1>2, <1>3 DEF PeerStep, AskAhead, TestType
<1> QED
  BY <1>4, <1>5, <1>6, <1>7 DEF PeerInv

LEMMA OpenProtocolPeer ==
  ASSUME CInv, PeerInv, TestType, NEW q \in protocols, ~Refused, OpenProtocol(S, q),
         UNCHANGED <<case, node, spoke>>
  PROVE  PeerInv' /\ PeerStep
<1> DEFINE c == Call("connected", S, NoData)
<1>1. /\ CType /\ S \in Sessions /\ c \in Calls
      /\ c.session = S /\ c.call = "connected" /\ c.data = NoData
      /\ q \in Protocols /\ q \in Tasks /\ Protocols \subseteq Tasks
      /\ calls' = Due(q, c) /\ session[S] = "open" /\ q \notin opened[S]
      /\ opened' = [opened EXCEPT ![S] = opened[S] \cup {q}]
      /\ UNCHANGED <<protocols, session, session_manager, mailbox, poisoned, removed>>
  BY SessionExists
     DEF CInv, CType, OpenProtocol, shared, Call, NoData, Calls, Data, ProtocolCalls, Tasks
<1>2. /\ \A u \in Tasks : DueCalls(u)' = IF u = q THEN DueCalls(u) \cup {c} ELSE DueCalls(u)
      /\ \A p \in Protocols : \A n : (p # q \/ n # "connected") =>
           Positions(p, n, S)' = Positions(p, n, S)
      /\ Positions(q, "connected", S)' = Positions(q, "connected", S) \cup {Len(calls[q]) + 1}
  BY <1>1, DueElements, DueFacts
<1>3. opened'[S] = opened[S] \cup {q}
  BY <1>1 DEF CType
<1> HIDE DEF c
<1>4. OnlySession'
  BY <1>1, <1>2 DEF PeerInv, OnlySession
<1>5. \A p \in Protocols : OpensOnce(p)'
  BY <1>1, <1>2, <1>3 DEF PeerInv, OpensOnce
<1>6. Silent' /\ OnlyAsksIfItDoes'
  BY <1>1, <1>2 DEF PeerInv, Silent, OnlyAsksIfItDoes, AsksFor, NoData, is
<1>8. RefusedInv'
  BY DEF RefusedInv, Refused
<1>7. PeerStep
  BY <1>1, <1>2, <1>3 DEF PeerStep, AskAhead, TestType
<1> QED
  BY <1>4, <1>5, <1>6, <1>7, <1>8 DEF PeerInv

LEMMA DeliverPeer ==
  ASSUME CInv, PeerInv, TestType, NEW q \in Protocols, NEW d \in Data, Deliver(S, q, d), AsksFor(d),
         UNCHANGED <<case, node>>, is("identify") => spoke', spoke => spoke'
  PROVE  PeerInv' /\ PeerStep /\ (d = "ask" => AskAhead(q)')
<1> DEFINE c == Call("received", S, d)
<1>1. /\ CType /\ S \in Sessions /\ c \in Calls
      /\ c.session = S /\ c.call = "received" /\ c.data = d
      /\ q \in Tasks /\ Protocols \subseteq Tasks
      /\ calls' = Due(q, c) /\ session[S] = "open" /\ q \in opened[S]
      /\ UNCHANGED <<protocols, session, opened, session_manager, mailbox, poisoned, removed>>
  BY SessionExists
     DEF CInv, Deliver, service, shared, Call, Calls, ProtocolCalls, Tasks
<1>2. /\ \A u \in Tasks : DueCalls(u)' = IF u = q THEN DueCalls(u) \cup {c} ELSE DueCalls(u)
      /\ \A p \in Protocols : Positions(p, "connected", S)' = Positions(p, "connected", S)
  BY <1>1, DueElements, DueFacts
<1> HIDE DEF c
<1>4. OnlySession'
  BY <1>1, <1>2 DEF PeerInv, OnlySession
<1>5. \A p \in Protocols : OpensOnce(p)'
  BY <1>1, <1>2 DEF PeerInv, OpensOnce
<1>6. Silent' /\ OnlyAsksIfItDoes'
  BY <1>1, <1>2 DEF PeerInv, Silent, OnlyAsksIfItDoes, AsksFor, is
<1>8. RefusedInv'
  BY <1>1 DEF PeerInv, RefusedInv, Refused
<1>7. PeerStep /\ (d = "ask" => AskAhead(q)')
  BY <1>1, <1>2 DEF PeerStep, AskAhead, TestType
<1> QED
  BY <1>4, <1>5, <1>6, <1>7, <1>8 DEF PeerInv

LEMMA CloseSessionPeer ==
  ASSUME CInv, PeerInv, TestType, CloseSession(S), UNCHANGED <<case, node, spoke>>
  PROVE  PeerInv' /\ PeerStep
<1>1. /\ CType /\ S \in Sessions /\ "session" \notin Protocols /\ Protocols \subseteq Tasks
      /\ session[S] = "open"
      /\ session' = [session EXCEPT ![S] = "closed"] /\ opened' = [opened EXCEPT ![S] = {}]
      /\ UNCHANGED <<protocols, session_manager, mailbox, poisoned, removed>>
  BY SessionExists, ConnectorAssumption DEF CInv, CloseSession, shared, Tasks
<1>2. \A t \in Tasks :
        /\ DueCalls(t) \subseteq DueCalls(t)'
        /\ \A c \in DueCalls(t)' : c \in DueCalls(t) \/ (c.session = S /\ c.data = NoData)
        /\ t # "session" /\ t \notin opened[S] => DueCalls(t)' = DueCalls(t)
  BY <1>1, CloseElements
<1>3. \A p \in Protocols : \A n : n # "disconnected" =>
        Positions(p, n, S)' = Positions(p, n, S)
  BY <1>1, CloseFacts
<1>4. session'[S] = "closed" /\ opened'[S] = {}
  BY <1>1 DEF CType
<1>5. OnlySession'
  BY <1>1, <1>2, <1>4 DEF PeerInv, OnlySession
<1>6. \A p \in Protocols : OpensOnce(p)'
  BY <1>1, <1>3, <1>4 DEF PeerInv, OpensOnce
<1>7. Silent' /\ OnlyAsksIfItDoes'
  BY <1>1, <1>2, <1>3 DEF PeerInv, Silent, OnlyAsksIfItDoes, AsksFor, NoData, is
<1>8. RefusedInv'
  BY <1>1, <1>2, <1>4 DEF PeerInv, RefusedInv, Refused
<1>9. PeerStep
  <2>1. \A p \in Protocols : DueCalls(p) \subseteq DueCalls(p)'
    BY <1>1, <1>2
  <2> QED
    BY <1>1, <1>3, <1>4, <2>1 DEF PeerStep, AskAhead, TestType
<1> QED
  BY <1>5, <1>6, <1>7, <1>8, <1>9 DEF PeerInv

LEMMA SessionOpenPeer ==
  ASSUME CInv, PeerInv, TestType, SessionOpen, UNCHANGED tvars
  PROVE  PeerInv' /\ PeerStep
<1>1. /\ CType /\ S \in Sessions /\ "session" \in Tasks /\ "session" \notin Protocols
      /\ Protocols \subseteq Tasks /\ Runs("session", "open")
      /\ UNCHANGED <<protocols, session, opened, mailbox, poisoned, removed, case, node, spoke>>
  BY SessionExists, ConnectorAssumption DEF CInv, SessionOpen, Changes, Runs, service, Tasks, tvars
<1>2. /\ Head(calls["session"]) \in DueCalls("session")
      /\ \A t \in Tasks : DueCalls(t)' \subseteq DueCalls(t)
      /\ \A p \in Protocols : DueCalls(p)' = DueCalls(p)
      /\ \A p \in Protocols : \A n : Positions(p, n, S)' = Positions(p, n, S)
  BY <1>1, RunElements, RunFacts
<1>3. Head(calls["session"]).session = S /\ session[S] # "none"
  BY <1>1, <1>2 DEF PeerInv, OnlySession
<1>4. /\ DOMAIN session_manager \subseteq {S} /\ DOMAIN session_manager' \subseteq {S}
      /\ S \in DOMAIN session_manager => S \in DOMAIN session_manager'
      /\ \A p : has_sender(session_manager', S, p) <=> has_sender(session_manager, S, p)
  <2>1. /\ DOMAIN session_manager \subseteq Sessions /\ DOMAIN session_manager \subseteq {S}
        /\ session_manager \in [DOMAIN session_manager -> SUBSET Protocols]
    BY <1>1 DEF CType, PeerInv, OnlySession
  <2>2. CASE poisoned
    BY <2>1, <2>2 DEF SessionOpen, Changes
  <2>3. CASE ~poisoned
    <3>1. session_manager' = add_session(session_manager, S)
      BY <1>3, <2>3 DEF SessionOpen, Changes
    <3>2. /\ DOMAIN session_manager' = DOMAIN session_manager \cup {S}
          /\ \A s, p : has_sender(session_manager', s, p) <=> has_sender(session_manager, s, p)
      BY <1>1, <2>1, <3>1, AddsSession
    <3> QED
      BY <2>1, <3>2
  <2> QED
    BY <2>2, <2>3
<1>5. OnlySession'
  <2>1. \A s \in DOMAIN session_manager' : session_manager'[s] \subseteq protocols
    BY <1>4 DEF PeerInv, OnlySession, has_sender
  <2> QED
    BY <1>1, <1>2, <1>3, <1>4, <2>1 DEF PeerInv, OnlySession
<1>6. \A p \in Protocols : OpensOnce(p)'
  BY <1>1, <1>2, <1>4 DEF PeerInv, OpensOnce
<1>7. Silent' /\ OnlyAsksIfItDoes'
  BY <1>1, <1>2 DEF PeerInv, Silent, OnlyAsksIfItDoes, AsksFor, is
<1>8. RefusedInv'
  <2>1. (\A s \in DOMAIN session_manager : session_manager[s] = {}) =>
          \A s \in DOMAIN session_manager' : session_manager'[s] = {}
    BY <1>4 DEF has_sender
  <2> QED
    BY <1>1, <1>2, <2>1 DEF PeerInv, RefusedInv, Refused
<1>9. PeerStep
  BY <1>1, <1>2, <1>4 DEF PeerStep, AskAhead, TestType
<1> QED
  BY <1>5, <1>6, <1>7, <1>8, <1>9 DEF PeerInv

LEMMA SessionClosePeer ==
  ASSUME CInv, PeerInv, TestType, SessionClose, UNCHANGED tvars
  PROVE  PeerInv' /\ PeerStep
<1>1. /\ CType /\ S \in Sessions /\ "session" \in Tasks /\ "session" \notin Protocols
      /\ Protocols \subseteq Tasks /\ Runs("session", "close")
      /\ UNCHANGED <<protocols, session, opened, mailbox, poisoned, case, node, spoke>>
  BY SessionExists, ConnectorAssumption DEF CInv, SessionClose, Changes, Runs, service, Tasks, tvars
<1>2. /\ Head(calls["session"]) \in DueCalls("session")
      /\ \A t \in Tasks : DueCalls(t)' \subseteq DueCalls(t)
      /\ \A p \in Protocols : DueCalls(p)' = DueCalls(p)
      /\ \A p \in Protocols : \A n : Positions(p, n, S)' = Positions(p, n, S)
      /\ Positions("session", "close", Head(calls["session"]).session) # {}
  BY <1>1, RunElements, RunFacts
<1>3. Head(calls["session"]).session = S /\ session[S] = "closed"
  BY <1>1, <1>2 DEF PeerInv, OnlySession, CInv, SessionInv
<1>4. /\ DOMAIN session_manager \subseteq {S} /\ DOMAIN session_manager' \subseteq {S}
      /\ \A p : has_sender(session_manager', S, p) => has_sender(session_manager, S, p)
  <2>1. /\ DOMAIN session_manager \subseteq Sessions /\ DOMAIN session_manager \subseteq {S}
        /\ session_manager \in [DOMAIN session_manager -> SUBSET Protocols]
    BY <1>1 DEF CType, PeerInv, OnlySession
  <2>2. CASE poisoned
    BY <2>1, <2>2 DEF SessionClose, Changes
  <2>3. CASE ~poisoned
    <3>1. session_manager' = remove_session(session_manager, S)
      BY <1>3, <2>3 DEF SessionClose, Changes
    <3>2. /\ DOMAIN session_manager' = DOMAIN session_manager \ {S}
          /\ \A s, p : has_sender(session_manager', s, p) <=>
                        has_sender(session_manager, s, p) /\ s # S
      <4>1. PICK sm, new : sm = session_manager /\ new = session_manager'
        OBVIOUS
      <4>2. /\ DOMAIN sm \subseteq Sessions /\ sm \in [DOMAIN sm -> SUBSET Protocols]
            /\ S \in Sessions /\ new = remove_session(sm, S)
        BY <1>1, <2>1, <3>1, <4>1
      <4>3. /\ DOMAIN new = DOMAIN sm \ {S}
            /\ \A s, p : has_sender(new, s, p) <=> has_sender(sm, s, p) /\ s # S
        BY <4>2, RemovesSession
      <4> QED
        BY <4>1, <4>3
    <3> QED
      BY <2>1, <3>2
  <2> QED
    BY <2>2, <2>3
<1>5. OnlySession'
  <2>1. \A s \in DOMAIN session_manager' : session_manager'[s] \subseteq protocols
    BY <1>4 DEF PeerInv, OnlySession, has_sender
  <2> QED
    BY <1>1, <1>2, <1>3, <1>4, <2>1 DEF PeerInv, OnlySession
<1>6. \A p \in Protocols : OpensOnce(p)'
  BY <1>1, <1>2, <1>4 DEF PeerInv, OpensOnce
<1>7. Silent' /\ OnlyAsksIfItDoes'
  BY <1>1, <1>2 DEF PeerInv, Silent, OnlyAsksIfItDoes, AsksFor, is
<1>8. RefusedInv'
  <2>1. (\A s \in DOMAIN session_manager : session_manager[s] = {}) =>
          \A s \in DOMAIN session_manager' : session_manager'[s] = {}
    BY <1>4 DEF has_sender
  <2> QED
    BY <1>1, <1>2, <2>1 DEF PeerInv, RefusedInv, Refused
<1>9. PeerStep
  BY <1>1, <1>2, <1>3 DEF PeerStep, AskAhead, TestType
<1> QED
  BY <1>5, <1>6, <1>7, <1>8, <1>9 DEF PeerInv

\* The protocol handlers: each runs the head of its queue, which is of session S.
LEMMA ProtocolRuns ==
  ASSUME CInv, PeerInv, NEW q \in protocols, NEW n, Runs(q, n)
  PROVE  /\ CType /\ S \in Sessions /\ q \in Protocols /\ Protocols \subseteq Tasks
         /\ Head(calls[q]) \in DueCalls(q) /\ Head(calls[q]) \in Calls
         /\ Head(calls[q]).session = S /\ session[S] # "none" /\ ~Refused
         /\ 1 \in Positions(q, n, S) /\ (n # "connected" => 1 \notin Positions(q, "connected", S))
         /\ \A t \in Tasks : DueCalls(t)' \subseteq DueCalls(t)
         /\ \A p \in Protocols : p # q => DueCalls(p)' = DueCalls(p)
         /\ \A c \in DueCalls(q) : c = Head(calls[q]) \/ c \in DueCalls(q)'
         /\ \A p \in Protocols : p # q => \A m : Positions(p, m, S)' = Positions(p, m, S)
         /\ \A m : \A k \in Positions(q, m, S)' : k \in Nat \ {0} /\ k + 1 \in Positions(q, m, S)
<1>1. CType /\ S \in Sessions /\ q \in Protocols /\ q \in Tasks /\ Protocols \subseteq Tasks
  BY SessionExists DEF CInv, CType, Tasks
<1>2. Head(calls[q]) \in DueCalls(q)
  BY <1>1, RunElements
<1>3. Head(calls[q]).session = S /\ session[S] # "none" /\ ~Refused
  BY <1>1, <1>2 DEF PeerInv, OnlySession, RefusedInv
<1>4. 1 \in Positions(q, n, S) /\ (n # "connected" => 1 \notin Positions(q, "connected", S))
  BY <1>1, <1>3, RunFacts
<1>5. /\ \A p \in Protocols : p # q => \A m : Positions(p, m, S)' = Positions(p, m, S)
      /\ \A m : \A k \in Positions(q, m, S)' : k \in Nat \ {0} /\ k + 1 \in Positions(q, m, S)
      /\ Head(calls[q]) \in Calls
  BY <1>1, RunFacts
<1> QED
  BY <1>1, <1>2, <1>3, <1>4, <1>5, RunElements

LEMMA connectedPeer ==
  ASSUME CInv, PeerInv, TestType, NEW q \in protocols, connected(q), UNCHANGED tvars
  PROVE  PeerInv' /\ PeerStep
<1>1. /\ Runs(q, "connected")
      /\ UNCHANGED <<protocols, session, opened, poisoned, removed, case, node, spoke>>
      /\ session_manager' = IF poisoned THEN session_manager
                            ELSE add_protocol(session_manager, Head(calls[q]).session, q)
      /\ mailbox' = IF poisoned THEN mailbox
                    ELSE [mailbox EXCEPT ![Head(calls[q]).session][q] = <<>>]
  BY DEF connected, Changes, Runs, service, tvars
<1>2. /\ CType /\ S \in Sessions /\ q \in Protocols /\ Protocols \subseteq Tasks
      /\ Head(calls[q]) \in DueCalls(q) /\ Head(calls[q]).session = S
      /\ session[S] # "none" /\ ~Refused
      /\ 1 \in Positions(q, "connected", S)
      /\ \A t \in Tasks : DueCalls(t)' \subseteq DueCalls(t)
      /\ \A p \in Protocols : p # q => DueCalls(p)' = DueCalls(p)
      /\ \A p \in Protocols : p # q => \A m : Positions(p, m, S)' = Positions(p, m, S)
      /\ \A m : \A k \in Positions(q, m, S)' : k \in Nat \ {0} /\ k + 1 \in Positions(q, m, S)
  BY <1>1, ProtocolRuns
<1>3. /\ DOMAIN session_manager \subseteq {S} /\ DOMAIN session_manager' \subseteq {S}
      /\ S \in DOMAIN session_manager => S \in DOMAIN session_manager'
      /\ \A p : has_sender(session_manager', S, p) =>
           has_sender(session_manager, S, p) \/ p = q
  BY <1>1, <1>2 DEF PeerInv, OnlySession, add_protocol, Insert, has_sender
<1>4. Positions(q, "connected", S)' = {}
  <2>1. \A j, k \in Positions(q, "connected", S) : j = k
    BY <1>2 DEF PeerInv, OpensOnce
  <2>2. \A k \in Positions(q, "connected", S)' : k \in Nat \ {0} /\ k + 1 = 1
    BY <1>2, <2>1
  <2> QED
    BY <2>2
<1>5. /\ mailbox' \in [Sessions -> [Protocols -> Seq(Data)]]
      /\ \A p \in Protocols : mailbox'[S][p] = mailbox[S][p] \/ (p = q /\ mailbox'[S][p] = <<>>)
  <2>1. <<>> \in Seq(Data) /\ mailbox \in [Sessions -> [Protocols -> Seq(Data)]]
    BY DEF TestType
  <2> QED
    BY <1>1, <1>2, <2>1
<1>6. OnlySession'
  <2>1. \A s \in DOMAIN session_manager' : session_manager'[s] \subseteq protocols
    BY <1>3 DEF PeerInv, OnlySession, has_sender
  <2> QED
    BY <1>1, <1>2, <1>3, <2>1 DEF PeerInv, OnlySession
<1>7. ASSUME NEW p \in Protocols PROVE OpensOnce(p)'
  <2>1. OpensOnce(p)
    BY DEF PeerInv
  <2>2. CASE p = q
    <3>1. p \in opened[S] \/ session[S] = "closed"
      BY <1>2, <2>1, <2>2 DEF OpensOnce
    <3> QED
      BY <1>1, <1>4, <2>2, <3>1 DEF OpensOnce
  <2>3. CASE p # q
    BY <1>1, <1>2, <1>3, <2>1, <2>3 DEF OpensOnce
  <2> QED
    BY <2>2, <2>3
<1>8. Silent'
  <2> SUFFICES ASSUME is("identify"), ~spoke
               PROVE  ~poisoned' /\ \A p \in Protocols :
                        Positions(p, "received", S)' = {} /\ mailbox'[S][p] = <<>>
    BY <1>1 DEF Silent, is
  <2>1. ~poisoned /\ \A p \in Protocols : Positions(p, "received", S) = {} /\ mailbox[S][p] = <<>>
    BY DEF PeerInv, Silent
  <2>2. \A p \in Protocols : Positions(p, "received", S)' = {}
    BY <1>2, <2>1
  <2> QED
    BY <1>1, <1>5, <2>1, <2>2
<1>9. OnlyAsksIfItDoes'
  <2>1. \A p \in Protocols : \A k \in DOMAIN mailbox'[S][p] :
          k \in DOMAIN mailbox[S][p] /\ mailbox'[S][p][k] = mailbox[S][p][k]
    BY <1>5
  <2>2. \A p \in Protocols : /\ \A c \in DueCalls(p) : AsksFor(c.data)
                            /\ \A k \in DOMAIN mailbox[S][p] : AsksFor(mailbox[S][p][k])
    BY DEF PeerInv, OnlyAsksIfItDoes
  <2>3. \A d : AsksFor(d)' <=> AsksFor(d)
    BY <1>1 DEF AsksFor
  <2>4. ASSUME NEW p \in Protocols
        PROVE  /\ \A c \in DueCalls(p)' : AsksFor(c.data)
               /\ \A k \in DOMAIN mailbox'[S][p] : AsksFor(mailbox'[S][p][k])
    <3>1. DueCalls(p)' \subseteq DueCalls(p)
      BY <1>2
    <3> QED
      BY <2>1, <2>2, <3>1
  <2> QED
    BY <1>1, <2>4 DEF OnlyAsksIfItDoes, AsksFor
<1>10. RefusedInv'
  BY <1>1, <1>2 DEF RefusedInv, Refused
<1>11. PeerStep
  <2>1. \A p \in Protocols : Positions(p, "connected", S) = {} => p # q
    BY <1>2
  <2>2. ASSUME NEW p \in Protocols, Positions(p, "connected", S) = {}
        PROVE  /\ Positions(p, "connected", S)' = {}
               /\ AskAhead(p) => AskAhead(p)'
    <3>1. p # q
      BY <2>1, <2>2
    <3>2. Positions(p, "connected", S)' = Positions(p, "connected", S)
      BY <1>2, <3>1
    <3>3. mailbox'[S][p] = mailbox[S][p]
      BY <1>5, <3>1
    <3>4. \A c \in DueCalls(p) : c.data = "ask" => c \in DueCalls(p)'
      BY <1>2, <3>1
    <3> QED
      BY <2>2, <3>2, <3>3, <3>4 DEF AskAhead
  <2>3. /\ session'[S] = session[S] /\ opened' = opened /\ (~poisoned' => ~poisoned)
        /\ S \in DOMAIN session_manager => S \in DOMAIN session_manager'
    BY <1>1, <1>3
  <2> QED
    BY <1>5, <2>2, <2>3 DEF PeerStep
<1> QED
  BY <1>6, <1>7, <1>8, <1>9, <1>10, <1>11 DEF PeerInv

LEMMA disconnectedPeer ==
  ASSUME CInv, PeerInv, TestType, NEW q \in protocols, disconnected(q), UNCHANGED tvars
  PROVE  PeerInv' /\ PeerStep
<1>1. /\ Runs(q, "disconnected")
      /\ UNCHANGED <<protocols, session, opened, mailbox, poisoned, removed, case, node, spoke>>
      /\ session_manager' = IF poisoned THEN session_manager
                            ELSE remove_protocol(session_manager, Head(calls[q]).session, q)
  BY DEF disconnected, Changes, Runs, service, tvars
<1>2. /\ CType /\ S \in Sessions /\ q \in Protocols /\ Protocols \subseteq Tasks
      /\ Head(calls[q]) \in DueCalls(q) /\ Head(calls[q]).session = S
      /\ session[S] # "none" /\ ~Refused
      /\ 1 \in Positions(q, "disconnected", S)
      /\ \A t \in Tasks : DueCalls(t)' \subseteq DueCalls(t)
      /\ \A p \in Protocols : p # q => DueCalls(p)' = DueCalls(p)
      /\ \A c \in DueCalls(q) : c = Head(calls[q]) \/ c \in DueCalls(q)'
      /\ \A p \in Protocols : p # q => \A m : Positions(p, m, S)' = Positions(p, m, S)
      /\ \A m : \A k \in Positions(q, m, S)' : k \in Nat \ {0} /\ k + 1 \in Positions(q, m, S)
  BY <1>1, ProtocolRuns
<1>3. session[S] = "closed"
  BY <1>2 DEF CInv, LastInv
<1>4. /\ DOMAIN session_manager \subseteq {S} /\ DOMAIN session_manager' \subseteq {S}
      /\ \A p : has_sender(session_manager', S, p) => has_sender(session_manager, S, p)
  BY <1>1, <1>2 DEF PeerInv, OnlySession, remove_protocol, has_sender
<1>5. OnlySession'
  <2>1. \A s \in DOMAIN session_manager' : session_manager'[s] \subseteq protocols
    BY <1>4 DEF PeerInv, OnlySession, has_sender
  <2> QED
    BY <1>1, <1>2, <1>4, <2>1 DEF PeerInv, OnlySession
<1>6. ASSUME NEW p \in Protocols PROVE OpensOnce(p)'
  <2>1. OpensOnce(p)
    BY DEF PeerInv
  <2>2. CASE p = q
    <3>1. \A k \in Positions(q, "connected", S)' :
            k \in Nat \ {0} /\ k + 1 \in Positions(q, "connected", S)
      BY <1>2
    <3>2. \A j, k \in Positions(q, "connected", S)' : j = k
      BY <2>1, <2>2, <3>1 DEF OpensOnce
    <3> QED
      BY <1>1, <1>3, <1>4, <2>1, <2>2, <3>1, <3>2 DEF OpensOnce
  <2>3. CASE p # q
    BY <1>1, <1>2, <1>4, <2>1, <2>3 DEF OpensOnce
  <2> QED
    BY <2>2, <2>3
<1>7. Silent'
  <2>1. \A p \in Protocols : Positions(p, "received", S) = {} => Positions(p, "received", S)' = {}
    BY <1>2
  <2> QED
    BY <1>1, <2>1 DEF PeerInv, Silent, is
<1>8. OnlyAsksIfItDoes'
  BY <1>1, <1>2 DEF PeerInv, OnlyAsksIfItDoes, AsksFor
<1>9. RefusedInv'
  BY <1>1, <1>2 DEF RefusedInv, Refused
<1>10. PeerStep
  <2>1. \A p \in Protocols : Positions(p, "connected", S) = {} => Positions(p, "connected", S)' = {}
    BY <1>2
  <2> QED
    BY <1>1, <1>3, <2>1 DEF PeerStep, TestType
<1> QED
  BY <1>5, <1>6, <1>7, <1>8, <1>9, <1>10 DEF PeerInv

LEMMA receivedPeer ==
  ASSUME CInv, PeerInv, TestType, NEW q \in protocols, received(q), UNCHANGED tvars
  PROVE  PeerInv' /\ PeerStep
<1>0. PICK c : c = Head(calls[q])
  OBVIOUS
<1>1. /\ Runs(q, "received")
      /\ UNCHANGED <<protocols, session, opened, session_manager, removed, case, node, spoke>>
      /\ poisoned' = (poisoned \/ ~has_sender(session_manager, c.session, q))
      /\ mailbox' = IF poisoned' THEN mailbox
                    ELSE [mailbox EXCEPT ![c.session][q] = Append(mailbox[c.session][q], c.data)]
  BY <1>0 DEF received, Runs, service, tvars
<1>2. /\ CType /\ S \in Sessions /\ q \in Protocols /\ Protocols \subseteq Tasks
      /\ c \in DueCalls(q) /\ c \in Calls /\ c.session = S
      /\ session[S] # "none" /\ ~Refused
      /\ 1 \in Positions(q, "received", S)
      /\ \A t \in Tasks : DueCalls(t)' \subseteq DueCalls(t)
      /\ \A p \in Protocols : p # q => DueCalls(p)' = DueCalls(p)
      /\ \A d \in DueCalls(q) : d = c \/ d \in DueCalls(q)'
      /\ \A p \in Protocols : p # q => \A m : Positions(p, m, S)' = Positions(p, m, S)
      /\ \A m : \A k \in Positions(q, m, S)' : k \in Nat \ {0} /\ k + 1 \in Positions(q, m, S)
  BY <1>0, <1>1, ProtocolRuns
<1>3. c.data \in Data
  BY <1>2 DEF Calls
<1>4. mailbox \in [Sessions -> [Protocols -> Seq(Data)]] /\ mailbox[S][q] \in Seq(Data)
  BY <1>2 DEF TestType
<1>5. PICK longer : longer = Append(mailbox[S][q], c.data)
  OBVIOUS
<1>6. /\ longer \in Seq(Data) /\ DOMAIN longer = DOMAIN mailbox[S][q] \cup {Len(mailbox[S][q]) + 1}
      /\ \A k \in DOMAIN mailbox[S][q] : longer[k] = mailbox[S][q][k]
      /\ longer[Len(mailbox[S][q]) + 1] = c.data
  <2>1. /\ longer \in Seq(Data) /\ DOMAIN longer = 1..(Len(mailbox[S][q]) + 1)
        /\ DOMAIN mailbox[S][q] = 1..Len(mailbox[S][q]) /\ Len(mailbox[S][q]) \in Nat
        /\ \A k \in DOMAIN mailbox[S][q] : longer[k] = mailbox[S][q][k]
        /\ longer[Len(mailbox[S][q]) + 1] = c.data
    BY <1>3, <1>4, <1>5
  <2> QED
    BY <2>1
<1>7. /\ mailbox' \in [Sessions -> [Protocols -> Seq(Data)]]
      /\ poisoned' => mailbox' = mailbox
      /\ ~poisoned' => mailbox'[S][q] = longer
      /\ \A p \in Protocols : p # q => mailbox'[S][p] = mailbox[S][p]
  BY <1>1, <1>2, <1>4, <1>5, <1>6
<1>8. OnlySession'
  BY <1>1, <1>2 DEF PeerInv, OnlySession
<1>9. ASSUME NEW p \in Protocols PROVE OpensOnce(p)'
  <2>1. OpensOnce(p)
    BY DEF PeerInv
  <2>2. CASE p = q
    <3>1. \A k \in Positions(q, "connected", S)' :
            k \in Nat \ {0} /\ k + 1 \in Positions(q, "connected", S)
      BY <1>2
    <3>2. \A j, k \in Positions(q, "connected", S)' : j = k
      BY <2>1, <2>2, <3>1 DEF OpensOnce
    <3> QED
      BY <1>1, <2>1, <2>2, <3>1, <3>2 DEF OpensOnce
  <2>3. CASE p # q
    BY <1>1, <1>2, <2>1, <2>3 DEF OpensOnce
  <2> QED
    BY <2>2, <2>3
<1>10. Silent'
  BY <1>1, <1>2 DEF PeerInv, Silent, is
<1>11. OnlyAsksIfItDoes'
  <2>1. \A p \in Protocols : \A d \in DueCalls(p)' : AsksFor(d.data)
    BY <1>2 DEF PeerInv, OnlyAsksIfItDoes
  <2>2. ASSUME NEW p \in Protocols, NEW k \in DOMAIN mailbox'[S][p] PROVE AsksFor(mailbox'[S][p][k])
    <3>1. AsksFor(c.data) /\ \A j \in DOMAIN mailbox[S][p] : AsksFor(mailbox[S][p][j])
      BY <1>2 DEF PeerInv, OnlyAsksIfItDoes
    <3>2. CASE mailbox'[S][p] = mailbox[S][p]
      BY <3>1, <3>2
    <3>3. CASE p = q /\ mailbox'[S][p] = longer
      BY <1>6, <3>1, <3>3
    <3> QED
      BY <1>7, <3>2, <3>3
  <2> QED
    BY <1>1, <2>1, <2>2 DEF OnlyAsksIfItDoes, AsksFor
<1>12. RefusedInv'
  BY <1>1, <1>2 DEF RefusedInv, Refused
<1>13. PeerStep
  <2>1. \A p \in Protocols : Positions(p, "connected", S) = {} => Positions(p, "connected", S)' = {}
    BY <1>2
  <2>2. ASSUME NEW p \in Protocols, ~poisoned', AskAhead(p) PROVE AskAhead(p)'
    <3>1. CASE p # q
      BY <1>2, <1>7, <2>2, <3>1 DEF AskAhead
    <3>2. CASE p = q /\ c.data = "ask"
      BY <1>6, <1>7, <2>2, <3>2 DEF AskAhead
    <3>3. CASE p = q /\ c.data # "ask"
      BY <1>2, <1>6, <1>7, <2>2, <3>3 DEF AskAhead
    <3> QED
      BY <3>1, <3>2, <3>3
  <2> QED
    BY <1>1, <1>7, <2>1, <2>2 DEF PeerStep
<1> QED
  BY <1>8, <1>9, <1>10, <1>11, <1>12, <1>13 DEF PeerInv

LEMMA HandlePeer ==
  ASSUME CInv, PeerInv, TestType, Handle, UNCHANGED tvars
  PROVE  PeerInv' /\ PeerStep
BY SessionOpenPeer, SessionClosePeer, connectedPeer, disconnectedPeer, receivedPeer DEF Handle

-----------------------------------------------------------------------------
(* What the node does, and the test *)

TestInv == TestType /\ PcInv /\ WireInv /\ StartedInv /\ RelayInv /\ CloseInv /\ HearInv

LEMMA AskedMeans ==
  Asked <=> session[S] = "open" /\ node.asks /\ (wire # <<>> \/ AskAhead(case.talk))
BY DEF Asked, AskAhead, DueCalls

LEMMA MinTwo == \A n \in Nat : Min({2, n}) = IF n < 2 THEN n ELSE 2
<1> SUFFICES ASSUME NEW n \in Nat PROVE Min({2, n}) = IF n < 2 THEN n ELSE 2
  OBVIOUS
<1>1. PICK m : m = IF n < 2 THEN n ELSE 2
  OBVIOUS
<1>2. m \in {2, n} /\ \A y \in {2, n} : m <= y
  BY <1>1
<1>3. \A x \in {2, n} : (\A y \in {2, n} : x <= y) => x = m
  BY <1>1
<1>4. Min({2, n}) = CHOOSE x \in {2, n} : \A y \in {2, n} : x <= y
  BY DEF Min
<1> QED
  BY <1>1, <1>2, <1>3, <1>4

\* the case that is run
LEMMA TheCase ==
  ASSUME TestType
  PROVE  /\ CaseShape(case) /\ case.talk \in Protocols
         /\ node.answer \in {"accept", "ban", "drop", "tolerate", "disconnect"}
         /\ Relays <=> node.answer \in {"accept", "ban", "drop"}
<1>1. case \in Cases /\ node \in Behaviours(case)
  BY DEF TestType
<1>2. CaseShape(case)
  BY <1>1, CaseFacts
<1>3. case.talk \in Protocols
  BY <1>2 DEF CaseShape
<1>4. /\ node.answer \in {"accept", "ban", "drop", "tolerate", "disconnect"}
      /\ Relays <=> node.answer \in {"accept", "ban", "drop"}
  BY <1>1 DEF Behaviours, Relays, is
<1> QED
  BY <1>2, <1>3, <1>4

\* The connector goes on, the test and what the node has of it do not.
LEMMA PeerKeepsTest ==
  ASSUME CInv, TestInv, PeerStep, UNCHANGED <<protocols, case, node, pc, left, seen, wire, heard,
                                              pending, banned, result, late>>,
         spoke' \in BOOLEAN, pc # "done",
         session'[S] = "closed" => session[S] = "closed" \/ node.flaky \/ Refused
  PROVE  TestInv'
<1>1. /\ CaseShape(case) /\ case.talk \in Protocols /\ S \in Sessions
      /\ session[S] \in {"none", "open", "closed"}
  BY TheCase, SessionExists DEF TestInv, CInv, CType
<1>2. TestType'
  BY DEF TestInv, TestType, PeerStep
<1>3. PcInv'
  BY DEF TestInv, PcInv, PeerStep, Relays, Judges, is
<1>4. WireInv'
  BY DEF TestInv, WireInv, Relays, Judges, is
<1>5. StartedInv'
  BY <1>1 DEF TestInv, StartedInv, Started, PeerStep, Relays, Judges, is
<1>6. RelayInv'
  <2>1. pc = "ask" /\ ~poisoned' /\ session'[S] = "open" /\ node.asks => Asked'
    <3> SUFFICES ASSUME pc = "ask", ~poisoned', session'[S] = "open", node.asks
                 PROVE  wire # <<>> \/ AskAhead(case.talk)'
      BY AskedMeans DEF Asked, AskAhead, DueCalls
    <3>1. Relays /\ Started
      BY DEF TestInv, PcInv, Started
    <3>2. session[S] = "open" /\ ~poisoned /\ Positions(case.talk, "connected", S) = {}
      BY <3>1 DEF TestInv, StartedInv, PeerStep
    <3>3. wire # <<>> \/ AskAhead(case.talk)
      BY <3>2, AskedMeans DEF TestInv, RelayInv
    <3> QED
      BY <1>1, <3>2, <3>3 DEF PeerStep
  <2> QED
    BY <2>1 DEF TestInv, RelayInv, Relays, is
<1>7. CloseInv'
  BY DEF TestInv, CloseInv, Refused, Relays, is
<1>8. HearInv'
  <2>1. session[S] = "none" /\ Judges => ~Started /\ heard = 0 /\ 0 < Min({2, case.times})
    <3>1. session[S] = "none" => pc \in {"dial", "connect"}
      BY DEF TestInv, StartedInv, Started
    <3>2. Judges => case.times \in Nat /\ case.times > 0
      BY <1>1 DEF CaseShape, Judges, is
    <3>3. Judges => 0 < Min({2, case.times})
      BY <3>2, MinTwo
    <3> QED
      BY <3>1, <3>3 DEF TestInv, WireInv, Started
  <2> QED
    BY <1>1, <2>1 DEF TestInv, HearInv, PeerStep, Started, Judges, is
<1> QED
  BY <1>2, <1>3, <1>4, <1>5, <1>6, <1>7, <1>8 DEF TestInv

LEMMA PeerStutters ==
  ASSUME PeerInv, TestType, UNCHANGED <<state, case, node, spoke, mailbox>>
  PROVE  PeerInv' /\ PeerStep
<1>1. /\ UNCHANGED <<protocols, session, opened, calls, session_manager, poisoned>>
      /\ UNCHANGED <<case, node, spoke, mailbox>>
  BY DEF state
<1>2. /\ \A t : DueCalls(t)' = DueCalls(t)
      /\ \A t, n : Positions(t, n, S)' = Positions(t, n, S)
  BY <1>1 DEF DueCalls, Positions
<1>3. OnlySession'
  BY <1>1, <1>2 DEF PeerInv, OnlySession
<1>4. \A p \in Protocols : OpensOnce(p)'
  BY <1>1, <1>2 DEF PeerInv, OpensOnce
<1>5. Silent' /\ OnlyAsksIfItDoes' /\ RefusedInv'
  BY <1>1, <1>2 DEF PeerInv, Silent, OnlyAsksIfItDoes, AsksFor, RefusedInv, Refused, is
<1>6. PeerStep
  BY <1>1, <1>2 DEF PeerStep, AskAhead, TestType
<1> QED
  BY <1>3, <1>4, <1>5, <1>6 DEF PeerInv

\* the node reads the first message
LEMMA ReadFacts ==
  ASSUME TestType, wire # <<>>, wire' = Tail(wire)
  PROVE  /\ wire' \in Seq({case.message, "tx"}) /\ Len(wire) \in Nat /\ Len(wire') \in Nat
         /\ Len(wire') + 1 = Len(wire)
         /\ Head(wire) = wire[1] /\ 1 \in DOMAIN wire /\ Head(wire) \in {case.message, "tx"}
         /\ \A k \in DOMAIN wire' : k + 1 \in DOMAIN wire /\ wire'[k] = wire[k + 1]
         /\ \A k \in DOMAIN wire : k = 1 \/ (k - 1 \in DOMAIN wire' /\ wire'[k - 1] = wire[k])
<1>1. wire \in Seq({case.message, "tx"})
  BY DEF TestType
<1>2. /\ wire' \in Seq({case.message, "tx"}) /\ Len(wire) \in Nat \ {0} /\ Len(wire') = Len(wire) - 1
      /\ DOMAIN wire = 1..Len(wire) /\ DOMAIN wire' = 1..Len(wire')
      /\ Head(wire) = wire[1] /\ Head(wire) \in {case.message, "tx"}
      /\ \A k \in 1..Len(wire') : wire'[k] = wire[k + 1]
  BY <1>1
<1> QED
  BY <1>2

LEMMA NodeAsksTest ==
  ASSUME CInv, PeerInv, TestInv, NodeAsks, pc # "done"
  PROVE  PeerInv' /\ TestInv'
<1>1. /\ CaseShape(case) /\ case.talk \in Protocols /\ S \in Sessions
      /\ session[S] = "open" /\ heard \in Nat /\ left \in Nat
  BY TheCase, SessionExists DEF TestInv, TestType, NodeAsks, NodeReads
<1>2. /\ UNCHANGED <<protocols, session, case, node, pc, left, seen, spoke, pending, banned,
                     result, late>>
      /\ heard' = heard + 1 /\ wire # <<>> /\ wire' = Tail(wire) /\ Head(wire) = "hash"
  BY DEF NodeAsks, NodeReads, NodeKeeps, Deliver, cvars, service
<1>3. /\ wire' \in Seq({case.message, "tx"}) /\ Len(wire) \in Nat /\ Len(wire') \in Nat
      /\ Len(wire') + 1 = Len(wire)
      /\ wire[1] = "hash" /\ case.message = "hash"
      /\ \A k \in DOMAIN wire' : k + 1 \in DOMAIN wire /\ wire'[k] = wire[k + 1]
      /\ \A k \in DOMAIN wire : k = 1 \/ (k - 1 \in DOMAIN wire' /\ wire'[k - 1] = wire[k])
  BY <1>2, ReadFacts DEF TestInv
<1>4. Relays /\ ~is("identify") /\ ~Judges
  BY <1>1, <1>3 DEF CaseShape, Relays, Judges, is
<1>5. PeerInv' /\ PeerStep /\ (node.asks => AskAhead(case.talk)')
  <2>1. CASE node.asks
    <3>1. Deliver(S, case.talk, "ask") /\ "ask" \in Data /\ AsksFor("ask")
      BY <2>1 DEF NodeAsks, Data, AsksFor
    <3> QED
      BY <1>1, <1>2, <1>4, <3>1, DeliverPeer DEF TestInv
  <2>2. CASE ~node.asks
    <3>1. UNCHANGED cvars
      BY <2>2 DEF NodeAsks
    <3> QED
      BY <1>2, <2>2, <3>1, PeerStutters DEF cvars, service, shared, state, TestInv
  <2> QED
    BY <2>1, <2>2
<1>6. TestType'
  BY <1>1, <1>2, <1>3, <1>5 DEF TestInv, TestType, PeerStep
<1>7. PcInv'
  BY <1>2 DEF TestInv, PcInv, Relays, Judges, is
<1>8. WireInv'
  <2>1. pc \notin {"dial", "connect"}
    BY <1>2 DEF TestInv, WireInv
  <2>2. pc = "talk" => heard' + Len(wire') + left <= case.times
    BY <1>1, <1>2, <1>3, <1>4 DEF TestInv, WireInv
  <2> QED
    BY <1>2, <1>3, <1>4, <2>1, <2>2 DEF TestInv, WireInv, Relays, is
<1>9. StartedInv'
  BY <1>1, <1>2, <1>5 DEF TestInv, StartedInv, Started, PeerStep, Relays, Judges, is
<1>10. RelayInv'
  <2>1. pc = "ask" /\ node.asks => Asked'
    BY <1>1, <1>2, <1>5, AskedMeans DEF Asked, AskAhead, DueCalls
  <2> QED
    BY <1>2, <1>3, <2>1 DEF TestInv, RelayInv, Relays, is
<1>11. CloseInv'
  BY <1>1, <1>2 DEF CloseInv
<1>12. HearInv'
  BY <1>2, <1>4 DEF HearInv, Judges, is
<1> QED
  BY <1>5, <1>6, <1>7, <1>8, <1>9, <1>10, <1>11, <1>12 DEF TestInv

LEMMA NodeDecidesTest ==
  ASSUME CInv, PeerInv, TestInv, NodeDecides, pc # "done"
  PROVE  PeerInv' /\ TestInv'
<1>1. /\ CaseShape(case) /\ case.talk \in Protocols /\ S \in Sessions
      /\ session[S] = "open" /\ heard \in Nat /\ left \in Nat
  BY TheCase, SessionExists DEF TestInv, TestType, NodeDecides, NodeReads
<1>2. /\ UNCHANGED <<protocols, case, node, pc, left, seen, spoke, result, late>>
      /\ heard' = heard + 1 /\ wire # <<>> /\ wire' = Tail(wire) /\ Head(wire) = "tx"
      /\ pending' = (node.answer = "accept") /\ banned' = (node.answer = "ban")
  BY DEF NodeDecides, NodeReads, NodeKeeps, CloseSession, cvars, service
<1>3. /\ wire' \in Seq({case.message, "tx"}) /\ wire[1] = "tx" /\ 1 \in DOMAIN wire
      /\ \A k \in DOMAIN wire' : k + 1 \in DOMAIN wire /\ wire'[k] = wire[k + 1]
  BY <1>2, ReadFacts DEF TestInv
<1>4. Relays /\ pc \in {"pool", "ban"} /\ ~Judges
  BY <1>2, <1>3 DEF TestInv, WireInv, Relays, Judges, is
<1>5. PeerInv' /\ PeerStep /\ (session'[S] = "closed" => node.answer = "ban")
  <2>1. CASE node.answer = "ban"
    BY <1>2, <2>1, CloseSessionPeer DEF NodeDecides, TestInv
  <2>2. CASE node.answer # "ban"
    <3>1. UNCHANGED cvars
      BY <2>2 DEF NodeDecides
    <3> QED
      BY <1>1, <1>2, <3>1, PeerStutters DEF cvars, service, shared, state, TestInv
  <2> QED
    BY <2>1, <2>2
<1>6. TestType'
  BY <1>1, <1>2, <1>3, <1>5 DEF TestInv, TestType, PeerStep
<1>7. PcInv'
  BY <1>2, <1>4 DEF TestInv, PcInv, Relays, Judges, is
<1>8. WireInv'
  BY <1>2, <1>3, <1>4 DEF TestInv, WireInv, Relays, is
<1>9. StartedInv'
  BY <1>1, <1>2, <1>5 DEF TestInv, StartedInv, Started, PeerStep, Relays, Judges, is
<1>10. RelayInv'
  <2>1. pc = "ban" /\ Relays => seen \/ late
    BY <1>2 DEF TestInv, RelayInv
  <2>2. (pending' \/ seen) => node.answer = "accept"
    BY <1>2 DEF TestInv, RelayInv
  <2> QED
    BY <1>2, <1>4, <2>1, <2>2 DEF TestInv, RelayInv, Relays, is
<1>11. CloseInv'
  BY <1>2, <1>4, <1>5 DEF CloseInv, Relays, is
<1>12. HearInv'
  BY <1>2, <1>4 DEF HearInv, Judges, is
<1> QED
  BY <1>5, <1>6, <1>7, <1>8, <1>9, <1>10, <1>11, <1>12 DEF TestInv

LEMMA NodeHearsTest ==
  ASSUME CInv, PeerInv, TestInv, NodeHears, pc # "done"
  PROVE  PeerInv' /\ TestInv'
<1>1. /\ CaseShape(case) /\ case.talk \in Protocols /\ S \in Sessions
      /\ session[S] = "open" /\ heard \in Nat /\ left \in Nat /\ case.times \in Nat
  BY TheCase, SessionExists DEF TestInv, TestType, NodeHears, NodeReads, CaseShape
<1>2. /\ UNCHANGED <<protocols, case, node, pc, left, seen, spoke, pending, banned, result, late>>
      /\ heard' = heard + 1 /\ wire # <<>> /\ wire' = Tail(wire) /\ Head(wire) \notin {"hash", "tx"}
  BY DEF NodeHears, NodeReads, NodeKeeps, Deliver, CloseSession, cvars, service
<1>3. /\ wire' \in Seq({case.message, "tx"}) /\ Len(wire) \in Nat /\ Len(wire') \in Nat
      /\ Len(wire') + 1 = Len(wire) /\ Head(wire) = case.message
      /\ \A k \in DOMAIN wire' : k + 1 \in DOMAIN wire /\ wire'[k] = wire[k + 1]
  BY <1>2, ReadFacts DEF TestInv
<1>4. ~Relays
  BY <1>1, <1>2, <1>3 DEF CaseShape, Relays, is
<1>5. PeerInv' /\ PeerStep
      /\ (session'[S] = "closed" => node.answer = "disconnect")
      /\ (session'[S] = "open" /\ node.answer = "disconnect" => ~(heard' >= Min({2, case.times})))
  <2>1. CASE node.answer = "disconnect" /\ heard' >= Min({2, case.times})
    <3>1. CloseSession(S)
      BY <2>1 DEF NodeHears
    <3>2. session'[S] = "closed"
      BY <1>1, <3>1 DEF CloseSession, CInv, CType
    <3> QED
      BY <1>2, <2>1, <3>1, <3>2, CloseSessionPeer DEF TestInv
  <2>2. CASE ~(node.answer = "disconnect" /\ heard' >= Min({2, case.times})) /\ case.message = "get_nodes"
    <3>1. Deliver(S, case.talk, "other") /\ "other" \in Data /\ AsksFor("other")
      BY <1>2, <2>2 DEF NodeHears, Data, AsksFor
    <3>2. ~is("identify")
      BY <1>1, <2>2 DEF CaseShape, is
    <3>3. UNCHANGED session
      BY <3>1 DEF Deliver, service
    <3> QED
      BY <1>1, <1>2, <2>2, <3>1, <3>2, <3>3, DeliverPeer DEF TestInv
  <2>3. CASE ~(node.answer = "disconnect" /\ heard' >= Min({2, case.times})) /\ case.message # "get_nodes"
    <3>1. UNCHANGED cvars
      BY <1>2, <2>3 DEF NodeHears
    <3> QED
      BY <1>1, <1>2, <2>3, <3>1, PeerStutters DEF cvars, service, shared, state, TestInv
  <2> QED
    BY <2>1, <2>2, <2>3
<1>6. TestType'
  BY <1>1, <1>2, <1>3, <1>5 DEF TestInv, TestType, PeerStep
<1>7. PcInv'
  BY <1>1, <1>2, <1>4 DEF TestInv, PcInv, Relays, Judges, is
<1>8. WireInv'
  <2>1. pc \notin {"dial", "connect"}
    BY <1>2 DEF TestInv, WireInv
  <2>2. heard' + Len(wire') + left <= case.times
    BY <1>1, <1>2, <1>3, <1>4 DEF TestInv, WireInv
  <2> QED
    BY <1>2, <1>3, <1>4, <2>1, <2>2 DEF TestInv, WireInv, Relays, is
<1>9. StartedInv'
  BY <1>1, <1>2, <1>5 DEF TestInv, StartedInv, Started, PeerStep, Relays, Judges, is
<1>10. RelayInv'
  BY <1>2, <1>4 DEF TestInv, RelayInv, PcInv, Relays, is
<1>11. CloseInv'
  BY <1>1, <1>2, <1>4, <1>5 DEF CloseInv, Relays, is
<1>12. HearInv'
  <2>1. Judges => Min({2, case.times}) \in Nat
    BY <1>1, MinTwo
  <2>2. Started /\ Judges => heard' + Len(wire') + left = case.times
    BY <1>1, <1>2, <1>3 DEF TestInv, HearInv
  <2>3. Judges /\ session'[S] = "open" /\ node.answer = "disconnect" => heard' < Min({2, case.times})
    BY <1>1, <1>2, <1>5, <2>1
  <2> QED
    BY <1>2, <2>2, <2>3 DEF HearInv, Started, Judges, is
<1> QED
  BY <1>5, <1>6, <1>7, <1>8, <1>9, <1>10, <1>11, <1>12 DEF TestInv

\* Each step of the node keeps what is known of the connector and of the test.
LEMMA NodeTest ==
  ASSUME CInv, PeerInv, TestInv, Node, pc # "done"
  PROVE  PeerInv' /\ TestInv'
<1>1. CInv /\ TestType /\ S \in Sessions /\ CType /\ case.talk \in Protocols
  BY TheCase, SessionExists DEF TestInv, CInv
<1>2. CASE NodeOpensSession
  <2>1. /\ OpenSession(S) /\ UNCHANGED <<protocols, case, node, pc, left, seen, wire, heard,
                                         spoke, pending, banned, result, late>>
        /\ session'[S] = "open"
    BY <1>1, <1>2 DEF NodeOpensSession, OpenSession, tvars, CType
  <2>2. PeerInv' /\ PeerStep
    BY <1>1, <2>1, OpenSessionPeer
  <2> QED
    BY <1>1, <2>1, <2>2, PeerKeepsTest DEF TestType
<1>3. CASE \E p \in protocols : NodeOpensProtocol(p)
  <2>1. PICK p \in protocols : NodeOpensProtocol(p)
    BY <1>3
  <2>2. /\ OpenProtocol(S, p) /\ ~Refused
        /\ UNCHANGED <<protocols, session, case, node, pc, left, seen, wire, heard,
                       spoke, pending, banned, result, late>>
    BY <2>1 DEF NodeOpensProtocol, OpenProtocol, tvars
  <2>3. PeerInv' /\ PeerStep
    BY <1>1, <2>2, OpenProtocolPeer
  <2> QED
    BY <1>1, <2>2, <2>3, PeerKeepsTest DEF TestType
<1>4. CASE NodeCloses
  <2>1. /\ CloseSession(S) /\ (node.flaky \/ Refused)
        /\ UNCHANGED <<protocols, case, node, pc, left, seen, wire, heard,
                       spoke, pending, banned, result, late>>
    BY <1>4 DEF NodeCloses, CloseSession, tvars
  <2>2. PeerInv' /\ PeerStep
    BY <1>1, <2>1, CloseSessionPeer
  <2> QED
    BY <1>1, <2>1, <2>2, PeerKeepsTest DEF TestType
<1>5. CASE NodeSpeaks
  <2>1. PICK d \in Data : d # "ask" /\ Deliver(S, case.talk, d)
    BY <1>5 DEF NodeSpeaks, Data
  <2>2. /\ spoke' = TRUE /\ AsksFor(d)
        /\ UNCHANGED <<protocols, session, case, node, pc, left, seen, wire, heard,
                       pending, banned, result, late>>
    BY <1>5, <2>1 DEF NodeSpeaks, Deliver, service, AsksFor
  <2>3. PeerInv' /\ PeerStep
    BY <1>1, <2>1, <2>2, DeliverPeer
  <2> QED
    BY <1>1, <2>2, <2>3, PeerKeepsTest
<1> QED
  BY <1>2, <1>3, <1>4, <1>5, NodeAsksTest, NodeDecidesTest, NodeHearsTest DEF Node

LEMMA HandleTest ==
  ASSUME CInv, PeerInv, TestInv, Handle, UNCHANGED tvars, pc # "done"
  PROVE  PeerInv' /\ TestInv'
<1>1. PeerInv' /\ PeerStep
  BY HandlePeer DEF TestInv
<1>2. /\ UNCHANGED <<protocols, session, case, node, pc, left, seen, wire, heard,
                     spoke, pending, banned, result, late>>
  BY DEF tvars, Handle, SessionOpen, SessionClose, connected, received, disconnected, Runs, service
<1>3. spoke' \in BOOLEAN
  BY <1>2 DEF TestInv, TestType
<1> QED
  BY <1>1, <1>2, <1>3, PeerKeepsTest

-----------------------------------------------------------------------------
(* The steps of the test *)

\* A step of the test that does not take from a mailbox
Looks ==
  /\ UNCHANGED <<state, mailbox, case, node, heard, spoke, pending, banned>>

LEMMA LookPeer ==
  ASSUME PeerInv, TestInv, Looks
  PROVE  PeerInv' /\ UNCHANGED <<protocols, session, opened, session_manager, poisoned>>
         /\ \A t, n : Positions(t, n, S)' = Positions(t, n, S)
<1>1. UNCHANGED <<state, case, node, spoke, mailbox>>
  BY DEF Looks
<1>2. UNCHANGED <<protocols, session, opened, calls, session_manager, poisoned>>
  BY DEF Looks, state
<1>3. PeerInv'
  BY <1>1, PeerStutters DEF TestInv
<1> QED
  BY <1>2, <1>3 DEF Positions

\* the test returns
LEMMA ReturnTest ==
  ASSUME CInv, PeerInv, TestInv, Looks, pc' = "done", UNCHANGED <<left, wire, seen>>,
         late' \in BOOLEAN
  PROVE  PeerInv' /\ TestInv'
<1>1. PeerInv' /\ UNCHANGED <<protocols, session, opened, session_manager, poisoned>>
  BY LookPeer
<1>2. UNCHANGED <<mailbox, case, node, heard, spoke, pending, banned>>
  BY DEF Looks
<1>3. TestType'
  BY <1>1, <1>2 DEF TestInv, TestType, Labels
<1>4. PcInv' /\ StartedInv'
  BY DEF PcInv, StartedInv, Started
<1>5. WireInv'
  BY <1>2 DEF TestInv, WireInv, Relays, is
<1>6. RelayInv'
  BY <1>2 DEF TestInv, RelayInv
<1>7. CloseInv'
  BY <1>1, <1>2 DEF TestInv, CloseInv, Refused, Relays, is
<1>8. HearInv'
  BY <1>1, <1>2 DEF TestInv, HearInv, Started, Judges, is
<1> QED
  BY <1>1, <1>3, <1>4, <1>5, <1>6, <1>7, <1>8 DEF TestInv

\* What a message does to what was sent
LEMMA SendFacts ==
  ASSUME TestType, NEW m \in {case.message, "tx"}, Send(m)
  PROVE  /\ wire' \in Seq({case.message, "tx"}) /\ Len(wire) \in Nat /\ Len(wire') \in Nat
         /\ Len(wire') <= Len(wire) + 1
         /\ \A k \in DOMAIN wire' : wire'[k] = m \/ (k \in DOMAIN wire /\ wire'[k] = wire[k])
         /\ \A k \in DOMAIN wire : k \in DOMAIN wire' /\ wire'[k] = wire[k]
         /\ case.talk \in opened[S] => /\ Len(wire') = Len(wire) + 1 /\ wire' # <<>>
                                       /\ \E k \in DOMAIN wire' : wire'[k] = m
<1>1. wire \in Seq({case.message, "tx"})
  BY DEF TestType
<1>2. CASE case.talk \in opened[S]
  <2>1. wire' = Append(wire, m)
    BY <1>2 DEF Send
  <2>2. /\ wire' \in Seq({case.message, "tx"}) /\ Len(wire) \in Nat /\ Len(wire') = Len(wire) + 1
        /\ DOMAIN wire = 1..Len(wire) /\ DOMAIN wire' = 1..(Len(wire) + 1)
        /\ wire'[Len(wire) + 1] = m
        /\ \A k \in 1..Len(wire) : wire'[k] = wire[k]
    BY <1>1, <2>1
  <2>3. Len(wire) + 1 \in DOMAIN wire' /\ wire' # <<>>
    BY <2>2
  <2> QED
    BY <2>2, <2>3
<1>3. CASE case.talk \notin opened[S]
  <2>1. wire' = wire
    BY <1>3 DEF Send
  <2> QED
    BY <1>1, <1>3, <2>1
<1> QED
  BY <1>2, <1>3

\* connect() came back: with all protocols of the case open, but for Identify.
LEMMA ConnectedStarts ==
  ASSUME CInv, PeerInv, TestInv, Connected, ~is("key_pair")
  PROVE  /\ session[S] # "none" /\ S \in DOMAIN session_manager
         /\ Relays \/ Judges => /\ Positions(case.talk, "connected", S) = {}
                                /\ session[S] = "open" => case.talk \in opened[S]
<1>1. CaseShape(case) /\ case.talk \in Protocols /\ S \in Sessions /\ protocols = case.protocols
  BY TheCase, SessionExists DEF TestInv, TestType
<1>2. PICK x \in DOMAIN session_manager : EnoughOpened(x)
  BY DEF Connected, SessionsOfNode
<1>3. x = S /\ session[S] # "none"
  BY <1>2 DEF PeerInv, OnlySession
<1>4. ASSUME Relays \/ Judges
      PROVE  /\ Positions(case.talk, "connected", S) = {}
             /\ session[S] = "open" => case.talk \in opened[S]
  <2>1. IsFiniteSet(protocols) /\ protocols \ IgnoredProtocols = protocols /\ case.talk \in protocols
    BY <1>1, <1>4 DEF CaseShape, Relays, Judges, is
  <2>2. session_manager[S] \subseteq protocols
    BY <1>2, <1>3 DEF PeerInv, OnlySession
  <2>3. Cardinality(session_manager[S]) >= Cardinality(protocols)
    BY <1>2, <1>3, <2>1 DEF EnoughOpened, get_opened_protocol_ids
  <2>4. /\ Cardinality(session_manager[S]) <= Cardinality(protocols)
        /\ Cardinality(session_manager[S]) = Cardinality(protocols) => session_manager[S] = protocols
    BY <2>1, <2>2, FS_Subset
  <2>5. session_manager[S] = protocols
    <3>1. Cardinality(session_manager[S]) \in Nat /\ Cardinality(protocols) \in Nat
      BY <2>1, <2>2, FS_Subset, FS_CardinalityType
    <3> QED
      BY <2>3, <2>4, <3>1
  <2>6. has_sender(session_manager, S, case.talk)
    BY <1>2, <1>3, <2>1, <2>5 DEF has_sender
  <2>7. Positions(case.talk, "connected", S) = {}
    BY <1>1, <2>6 DEF PeerInv, OpensOnce
  <2>8. session[S] = "open" => case.talk \in opened[S]
    <3>1. ~poisoned
      BY DEF Connected
    <3>2. case.talk \in opened[S] \/ Positions(case.talk, "disconnected", S) # {}
      BY <1>1, <2>6, <3>1 DEF CInv, ClosedInv
    <3>3. Positions(case.talk, "disconnected", S) # {} => session[S] = "closed"
      BY <1>1 DEF CInv, LastInv
    <3> QED
      BY <3>2, <3>3
  <2> QED
    BY <2>7, <2>8
<1> QED
  BY <1>2, <1>3, <1>4

LEMMA DialTest ==
  ASSUME CInv, PeerInv, TestInv, Looks, Dial
  PROVE  TestInv'
<1>1. UNCHANGED <<protocols, session, opened, session_manager, poisoned, mailbox, case, node,
                  heard, spoke, pending, banned, left, seen, wire, late, result>>
      /\ pc = "dial" /\ pc' = "connect"
  BY LookPeer DEF Looks, Dial, Within, Goto
<1>2. TestType' /\ PcInv' /\ WireInv' /\ StartedInv'
  BY <1>1 DEF TestInv, TestType, Labels, PcInv, WireInv, StartedInv, Started, Relays, is
<1>3. RelayInv' /\ CloseInv' /\ HearInv'
  BY <1>1 DEF TestInv, RelayInv, CloseInv, HearInv, Started, Refused, Relays, Judges, is
<1> QED
  BY <1>2, <1>3 DEF TestInv

LEMMA ConnectedTest ==
  ASSUME CInv, PeerInv, TestInv, Looks, Connected
  PROVE  TestInv'
<1>1. UNCHANGED <<protocols, session, opened, session_manager, poisoned, mailbox, case, node,
                  heard, spoke, pending, banned, left, seen, wire, late>>
      /\ (\A t, n : Positions(t, n, S)' = Positions(t, n, S))
      /\ pc = "connect" /\ ~poisoned
  BY LookPeer DEF Looks, Connected, Within
<1>2. CASE is("key_pair")
  <2>1. pc' = "done"
    BY <1>2 DEF Connected, Return, is
  <2> QED
    BY <1>1, <2>1, ReturnTest DEF TestInv, TestType
<1>3. CASE ~is("key_pair")
  <2>1. pc' = "talk" /\ UNCHANGED result
    BY <1>3 DEF Connected, Goto, is
  <2>2. CaseShape(case)
    BY TheCase DEF TestInv
  <2>3. wire = <<>> /\ left = case.times /\ heard = 0 /\ left > 0 /\ left \in Nat
    BY <1>1, <1>3, <2>2 DEF TestInv, WireInv, CaseShape, is
  <2>4. TestType' /\ PcInv' /\ WireInv'
    BY <1>1, <1>3, <2>1, <2>3 DEF TestInv, TestType, Labels, PcInv, WireInv, Relays, Judges, is
  <2>5. StartedInv'
    BY <1>1, <1>3, <2>1, ConnectedStarts DEF StartedInv, Started, Relays, Judges, is
  <2>6. RelayInv' /\ CloseInv'
    BY <1>1, <2>1 DEF TestInv, RelayInv, CloseInv, Refused, Relays, is
  <2>7. HearInv'
    BY <1>1, <2>1, <2>3 DEF TestInv, HearInv, Started, Judges, is
  <2> QED
    BY <2>4, <2>5, <2>6, <2>7 DEF TestInv
<1> QED
  BY <1>2, <1>3

LEMMA KeptByTest ==
  ASSUME PeerInv, TestInv, Looks
  PROVE  /\ UNCHANGED <<protocols, session, opened, session_manager, poisoned, mailbox, case,
                        node, heard, spoke, pending, banned>>
         /\ UNCHANGED Refused /\ UNCHANGED Relays /\ UNCHANGED Judges
         /\ \A kind : is(kind)' = is(kind)
         /\ \A t, n : Positions(t, n, S)' = Positions(t, n, S)
         /\ UNCHANGED AskAhead(case.talk)
<1>1. /\ UNCHANGED <<protocols, session, opened, session_manager, poisoned, mailbox, case,
                     node, heard, spoke, pending, banned>>
      /\ UNCHANGED calls
      /\ \A t, n : Positions(t, n, S)' = Positions(t, n, S)
  BY LookPeer DEF Looks, state
<1>2. UNCHANGED AskAhead(case.talk)
  BY <1>1 DEF AskAhead, DueCalls
<1> QED
  BY <1>1, <1>2 DEF Refused, Relays, Judges, is

LEMMA SendFailsTest ==
  ASSUME CInv, PeerInv, TestInv, Looks, SendFails
  PROVE  TestInv'
<1>1. /\ pc = "talk" /\ UNCHANGED <<left, seen, wire, late>> /\ SessionsOfNode = {}
      /\ session[S] = "closed" /\ ~is("key_pair") /\ CaseShape(case)
  <2>1. pc = "talk" /\ UNCHANGED <<left, seen, wire, late>> /\ SessionsOfNode = {}
    BY DEF SendFails, Within
  <2>2. session[S] \in {"none", "open", "closed"} /\ CaseShape(case)
    BY TheCase, SessionExists DEF TestInv, CInv, CType
  <2> QED
    BY <2>1, <2>2 DEF TestInv, StartedInv, Started, PcInv, SessionsOfNode
<1>2. late' \in BOOLEAN
  BY <1>1 DEF TestInv, TestType
<1>3. CASE ~is("flood")
  <2>1. is("relay") \/ is("addresses") \/ is("identify")
    BY <1>1, <1>3 DEF CaseShape, is
  <2>2. pc' = "done"
    BY <2>1 DEF SendFails, Return, is
  <2> QED
    BY <1>1, <1>2, <2>2, ReturnTest
<1>4. CASE is("flood")
  <2>1. pc' = "ban" /\ result' = "disconnected" /\ ~Relays /\ Judges
    BY <1>4 DEF SendFails, Return, Relays, Judges, is
  <2>2. TestType'
    BY <1>1, <2>1, KeptByTest DEF TestInv, TestType, Labels
  <2>3. PcInv' /\ WireInv' /\ StartedInv'
    BY <1>1, <1>4, <2>1, KeptByTest DEF TestInv, PcInv, WireInv, StartedInv, Started
  <2>4. RelayInv'
    <3>1. pending \/ seen => node.answer = "accept"
      BY DEF TestInv, RelayInv
    <3>2. banned => node.answer = "ban"
      BY DEF TestInv, RelayInv
    <3>3. UNCHANGED <<seen, pending, banned, node>> /\ ~Relays' /\ pc' # "ask"
      BY <1>1, <2>1, KeptByTest
    <3> QED
      BY <3>1, <3>2, <3>3 DEF RelayInv
  <2>5. CloseInv'
    BY <1>1, <2>1, KeptByTest DEF TestInv, CloseInv
  <2>6. HearInv'
    BY <1>1, <2>1, KeptByTest DEF TestInv, HearInv
  <2> QED
    BY <2>2, <2>3, <2>4, <2>5, <2>6 DEF TestInv
<1> QED
  BY <1>3, <1>4

LEMMA SendMessageTest ==
  ASSUME CInv, PeerInv, TestInv, Looks, SendMessage
  PROVE  TestInv'
<1>1. /\ pc = "talk" /\ UNCHANGED <<result, seen, late>> /\ left' = left - 1 /\ left > 0
      /\ Send(case.message)
      /\ pc' = IF left' > 0 THEN "talk" ELSE IF is("relay") THEN "ask"
               ELSE IF is("identify") THEN "lock" ELSE "ban"
  BY DEF SendMessage, Within, Goto, is
<1>2. /\ CaseShape(case) /\ S \in Sessions /\ session[S] \in {"none", "open", "closed"}
      /\ left \in Nat /\ heard \in Nat /\ left' \in Nat
  BY <1>1, TheCase, SessionExists DEF TestInv, TestType, CInv, CType
<1>3. /\ wire' \in Seq({case.message, "tx"}) /\ Len(wire) \in Nat /\ Len(wire') \in Nat
      /\ Len(wire') <= Len(wire) + 1
      /\ \A k \in DOMAIN wire' : wire'[k] = case.message \/ (k \in DOMAIN wire /\ wire'[k] = wire[k])
      /\ case.talk \in opened[S] => Len(wire') = Len(wire) + 1 /\ wire' # <<>>
  BY <1>1, SendFacts DEF TestInv
<1>4. case.message # "tx" /\ case.times \in Nat
  BY <1>2 DEF CaseShape
<1>5. pc' \in {"talk", "ask", "lock", "ban"} /\ result = "none" /\ ~is("key_pair")
  BY <1>1 DEF TestInv, PcInv
<1>6. /\ Relays \/ Judges \/ is("identify") \/ is("key_pair")
      /\ Relays => ~Judges /\ ~is("identify")
      /\ Judges => ~is("identify")
  BY <1>2 DEF CaseShape, Relays, Judges, is
<1>7. TestType'
  BY <1>1, <1>2, <1>3, <1>5, KeptByTest DEF TestInv, TestType, Labels
<1>8. PcInv'
  <2>1. pc' = "talk" => left' > 0
    BY <1>1
  <2>2. pc' # "talk" => left' = 0
    BY <1>1, <1>2
  <2>3. /\ pc' = "ask" => Relays
        /\ pc' = "lock" => is("identify")
        /\ pc' = "ban" => Judges
    BY <1>1, <1>5, <1>6 DEF Relays
  <2> QED
    BY <1>1, <1>5, <2>1, <2>2, <2>3, KeptByTest DEF PcInv
<1>9. WireInv'
  <2>1. heard + Len(wire') + left' <= case.times
    BY <1>1, <1>2, <1>3, <1>4 DEF TestInv, WireInv
  <2>2. ASSUME NEW k \in DOMAIN wire' PROVE wire'[k] # "tx"
    BY <1>1, <1>3, <1>4 DEF TestInv, WireInv
  <2> QED
    BY <1>5, <2>1, <2>2, KeptByTest DEF WireInv
<1>10. StartedInv'
  BY <1>1, <1>5, KeptByTest DEF TestInv, StartedInv, Started
<1>11. RelayInv'
  <2>1. pc' = "ask" /\ session[S] = "open" => wire' # <<>>
    BY <1>1, <1>3, <1>5 DEF TestInv, StartedInv, Started, Relays
  <2>2. pc' = "ask" /\ session'[S] = "open" /\ node'.asks => Asked'
    BY <2>1, KeptByTest DEF Asked
  <2>3. pc' = "ban" => ~Relays
    BY <1>1 DEF Relays
  <2> QED
    BY <1>1, <1>5, <2>2, <2>3, KeptByTest DEF TestInv, RelayInv
<1>12. CloseInv'
  BY <1>1, KeptByTest DEF TestInv, CloseInv
<1>13. HearInv'
  <2>1. Judges /\ session[S] = "open" => heard + Len(wire') + left' = case.times
    <3> SUFFICES ASSUME Judges, session[S] = "open" PROVE heard + Len(wire') + left' = case.times
      OBVIOUS
    <3>1. heard + Len(wire) + left = case.times /\ case.talk \in opened[S]
      BY <1>1 DEF TestInv, HearInv, StartedInv, Started
    <3>2. Len(wire') = Len(wire) + 1
      BY <1>3, <3>1
    <3>3. \A a, b \in Nat : heard + a + left = b => heard + (a + 1) + (left - 1) = b
      BY <1>2
    <3> QED
      BY <1>1, <1>3, <1>4, <3>1, <3>2, <3>3
  <2> QED
    BY <2>1, KeptByTest DEF TestInv, HearInv
<1> QED
  BY <1>7, <1>8, <1>9, <1>10, <1>11, <1>12, <1>13 DEF TestInv

LEMMA SendTxTest ==
  ASSUME CInv, PeerInv, TestInv, Looks, SendTx
  PROVE  TestInv'
<1>1. pc = "tx" /\ UNCHANGED <<seen, late, left>> /\ late' \in BOOLEAN
  BY DEF SendTx, Within, TestInv, TestType
<1>2. CASE SessionsOfNode = {}
  BY <1>1, <1>2, ReturnTest DEF SendTx, Return
<1>3. CASE SessionsOfNode # {}
  <2>1. Send("tx") /\ pc' = "pool" /\ UNCHANGED result
    BY <1>3 DEF SendTx, Goto
  <2>2. CaseShape(case) /\ session[S] \in {"none", "open", "closed"}
    BY TheCase, SessionExists DEF TestInv, CInv, CType
  <2>3. /\ wire' \in Seq({case.message, "tx"})
        /\ case.talk \in opened[S] => \E k \in DOMAIN wire' : wire'[k] = "tx"
    BY <2>1, SendFacts DEF TestInv
  <2>4. Relays /\ ~Judges /\ ~Refused
    BY <1>1 DEF TestInv, PcInv, Relays, Judges, Refused, is
  <2>5. TestType' /\ PcInv' /\ WireInv'
    BY <1>1, <2>1, <2>3, <2>4, KeptByTest DEF TestInv, TestType, Labels, PcInv, WireInv
  <2>6. StartedInv'
    BY <1>1, <2>1, <2>4, KeptByTest DEF TestInv, StartedInv, Started
  <2>7. RelayInv'
    <3>1. ~node.flaky /\ node.answer = "accept" => session[S] # "closed"
      BY <2>4 DEF TestInv, CloseInv
    <3>2. session[S] = "open" => case.talk \in opened[S]
      BY <1>1, <2>4 DEF TestInv, StartedInv, Started
    <3>3. session[S] # "none"
      BY <1>1 DEF TestInv, StartedInv, Started
    <3>4. ~node.flaky /\ node.answer = "accept" => \E k \in DOMAIN wire' : wire'[k] = "tx"
      BY <2>2, <2>3, <3>1, <3>2, <3>3
    <3>5. /\ UNCHANGED <<seen, pending, banned, node, late>> /\ Relays'
          /\ pc' = "pool"
      BY <1>1, <2>1, <2>4, KeptByTest
    <3>6. node.asks
      BY <1>1, <2>4 DEF TestInv, RelayInv
    <3>7. (pending \/ seen => node.answer = "accept") /\ (banned => node.answer = "ban")
      BY DEF TestInv, RelayInv
    <3> QED
      BY <3>4, <3>5, <3>6, <3>7 DEF RelayInv
  <2>8. CloseInv'
    BY <1>1, <2>1, <2>4, KeptByTest DEF TestInv, CloseInv
  <2>9. HearInv'
    BY <1>1, <2>1, <2>4, KeptByTest DEF TestInv, HearInv
  <2> QED
    BY <2>5, <2>6, <2>7, <2>8, <2>9 DEF TestInv
<1> QED
  BY <1>2, <1>3

LEMMA PoolTest ==
  ASSUME CInv, PeerInv, TestInv, Looks, IsPending \/ PoolTimeout
  PROVE  TestInv'
<1>1. /\ pc = "pool" /\ pc' = "ban" /\ UNCHANGED <<result, left, wire>> /\ late' \in BOOLEAN
      /\ \/ seen' = TRUE /\ pending /\ late' = late
         \/ seen' = FALSE /\ late' = (late \/ wire # <<>> \/ pending)
  BY DEF IsPending, PoolTimeout, Within, Expires, Goto, TestInv, TestType
<1>2. Relays /\ ~Judges /\ result = "none" /\ left = 0
  BY <1>1 DEF TestInv, PcInv, Relays, Judges, is
<1>3. TestType' /\ PcInv' /\ WireInv'
  BY <1>1, <1>2, KeptByTest DEF TestInv, TestType, Labels, PcInv, WireInv
<1>4. StartedInv'
  BY <1>1, <1>2, KeptByTest DEF TestInv, StartedInv, Started
<1>6. CloseInv'
  BY <1>1, <1>2, KeptByTest DEF TestInv, CloseInv
<1>7. HearInv'
  BY <1>1, <1>2, KeptByTest DEF TestInv, HearInv
<1>5. RelayInv'
  <2>1. pending \/ seen' => node.answer = "accept"
    BY <1>1 DEF TestInv, RelayInv
  <2>2. ~seen' /\ ~late' => wire = <<>> /\ ~pending
    BY <1>1
  <2> QED
    <3>1. UNCHANGED <<pending, banned, node, wire>> /\ Relays' /\ pc' = "ban"
      BY <1>1, <1>2, KeptByTest
    <3>2. node.asks /\ (banned => node.answer = "ban")
      BY <1>1, <1>2 DEF TestInv, RelayInv
    <3>3. ~node.flaky /\ node.answer = "accept" => pending \/ \E k \in DOMAIN wire : wire[k] = "tx"
      BY <1>1, <1>2 DEF TestInv, RelayInv
    <3> QED
      BY <2>1, <2>2, <3>1, <3>2, <3>3 DEF RelayInv
<1> QED
  BY <1>3, <1>4, <1>5, <1>6, <1>7 DEF TestInv

\* The test takes a message from the mailbox: an "ask", or one it does not wait for.
LEMMA ReceiveTest ==
  ASSUME CInv, PeerInv, TestInv, UNCHANGED state, Receive
  PROVE  PeerInv' /\ TestInv'
<1> DEFINE messages == mailbox[S][case.talk]
<1>1. /\ pc = "ask" /\ UNCHANGED <<case, node, heard, spoke, pending, banned, left, seen, wire,
                                   late, result>>
      /\ UNCHANGED <<protocols, session, opened, calls, session_manager, poisoned>>
  BY DEF Receive, Within, Same, Goto, state
<1>2. /\ messages # <<>> /\ ~poisoned
      /\ mailbox' = [mailbox EXCEPT ![S][case.talk] = Tail(messages)]
      /\ pc' = IF Head(messages) = "ask" THEN "tx" ELSE "ask"
  <2>1. PICK x \in SessionsOfNode :
          /\ mailbox[x][case.talk] # <<>>
          /\ mailbox' = [mailbox EXCEPT ![x][case.talk] = Tail(mailbox[x][case.talk])]
          /\ pc' = IF Head(mailbox[x][case.talk]) = "ask" THEN "tx" ELSE "ask"
    BY DEF Receive, Goto
  <2>2. x = S
    BY DEF PeerInv, OnlySession, SessionsOfNode
  <2> QED
    BY <2>1, <2>2 DEF Receive
<1>3. /\ S \in Sessions /\ case.talk \in Protocols /\ Relays /\ ~Judges /\ ~is("identify")
      /\ mailbox \in [Sessions -> [Protocols -> Seq(Data)]]
  BY <1>1, TheCase, SessionExists DEF TestInv, TestType, PcInv, Relays, Judges, is
<1>4. messages \in Seq(Data)
  BY <1>3
<1>5. /\ Tail(messages) \in Seq(Data) /\ Head(messages) = messages[1] /\ 1 \in DOMAIN messages
      /\ \A k \in DOMAIN Tail(messages) : k + 1 \in DOMAIN messages /\ Tail(messages)[k] = messages[k + 1]
      /\ \A k \in DOMAIN messages :
           k = 1 \/ (k - 1 \in DOMAIN Tail(messages) /\ Tail(messages)[k - 1] = messages[k])
  <2> HIDE DEF messages
  <2>1. /\ Tail(messages) \in Seq(Data) /\ Head(messages) = messages[1]
        /\ Len(messages) \in Nat \ {0} /\ Len(Tail(messages)) = Len(messages) - 1
        /\ DOMAIN messages = 1..Len(messages) /\ DOMAIN Tail(messages) = 1..Len(Tail(messages))
        /\ \A k \in 1..Len(Tail(messages)) : Tail(messages)[k] = messages[k + 1]
    BY <1>2, <1>4
  <2> QED
    BY <2>1
<1>6. /\ mailbox' \in [Sessions -> [Protocols -> Seq(Data)]]
      /\ mailbox'[S][case.talk] = Tail(messages)
      /\ \A p \in Protocols : p # case.talk => mailbox'[S][p] = mailbox[S][p]
  <2> HIDE DEF messages
  <2> QED
    BY <1>2, <1>3, <1>5
<1> HIDE DEF messages
<1>7. /\ \A t : DueCalls(t)' = DueCalls(t)
      /\ \A t, n : Positions(t, n, S)' = Positions(t, n, S)
  BY <1>1 DEF DueCalls, Positions
<1>8. \A k \in DOMAIN messages : AsksFor(messages[k])
  BY <1>3 DEF PeerInv, OnlyAsksIfItDoes, messages
<1>9. PeerInv'
  <2>1. OnlySession'
    BY <1>1, <1>7 DEF PeerInv, OnlySession
  <2>2. \A p \in Protocols : OpensOnce(p)'
    BY <1>1, <1>7 DEF PeerInv, OpensOnce
  <2>3. Silent' /\ RefusedInv'
    BY <1>1, <1>3, <1>7 DEF PeerInv, Silent, RefusedInv, Refused, is
  <2>4. OnlyAsksIfItDoes'
    <3> SUFFICES ASSUME NEW p \in Protocols
                 PROVE  /\ \A c \in DueCalls(p) : AsksFor(c.data)
                        /\ \A k \in DOMAIN mailbox'[S][p] : AsksFor(mailbox'[S][p][k])
      BY <1>1, <1>7 DEF OnlyAsksIfItDoes, AsksFor
    <3>1. \A c \in DueCalls(p) : AsksFor(c.data)
      BY DEF PeerInv, OnlyAsksIfItDoes
    <3>2. CASE p # case.talk
      BY <1>6, <3>1, <3>2 DEF PeerInv, OnlyAsksIfItDoes
    <3>3. CASE p = case.talk
      <4>1. mailbox'[S][p] = Tail(messages)
        BY <1>6, <3>3
      <4>2. \A k \in DOMAIN Tail(messages) : AsksFor(Tail(messages)[k])
        BY <1>5, <1>8
      <4> QED
        BY <3>1, <4>1, <4>2
    <3> QED
      BY <3>2, <3>3
  <2> QED
    BY <2>1, <2>2, <2>3, <2>4 DEF PeerInv
<1>10. pc' \in {"ask", "tx"} /\ Relays' /\ ~Judges' /\ UNCHANGED Refused
  BY <1>1, <1>2, <1>3 DEF Relays, Judges, Refused, is
<1>11. TestType' /\ WireInv'
  BY <1>1, <1>3, <1>6, <1>10 DEF TestInv, TestType, Labels, WireInv
<1>12. PcInv'
  BY <1>1, <1>10 DEF TestInv, PcInv
<1>13. StartedInv'
  BY <1>1, <1>3, <1>7, <1>10 DEF TestInv, StartedInv, Started
<1>14. RelayInv'
  <2>1. pc' = "tx" => node.asks
    <3>1. pc' = "tx" => messages[1] = "ask"
      BY <1>2, <1>5
    <3> QED
      BY <1>5, <1>8, <3>1 DEF AsksFor
  <2>2. pc' = "ask" /\ ~poisoned /\ session[S] = "open" /\ node.asks => Asked'
    <3> SUFFICES ASSUME pc' = "ask", session[S] = "open", node.asks PROVE Asked'
      BY <1>1
    <3>1. Asked
      BY <1>1, <1>2 DEF TestInv, RelayInv
    <3>2. CASE \E k \in DOMAIN messages : messages[k] = "ask"
      <4>1. PICK k \in DOMAIN messages : messages[k] = "ask"
        BY <3>2
      <4>2. k # 1
        BY <1>2, <1>5, <4>1
      <4>3. k - 1 \in DOMAIN Tail(messages) /\ Tail(messages)[k - 1] = "ask"
        BY <1>5, <4>1, <4>2
      <4>4. \E j \in DOMAIN mailbox'[S][case.talk] : mailbox'[S][case.talk][j] = "ask"
        BY <1>6, <4>3
      <4> QED
        BY <1>1, <4>4 DEF Asked
    <3>3. CASE ~\E k \in DOMAIN messages : messages[k] = "ask"
      BY <1>1, <3>1, <3>3 DEF Asked, messages
    <3> QED
      BY <3>2, <3>3
  <2>3. (pending \/ seen => node.answer = "accept") /\ (banned => node.answer = "ban")
    BY DEF TestInv, RelayInv
  <2> QED
    BY <1>1, <1>10, <2>1, <2>2, <2>3 DEF RelayInv
<1>15. CloseInv'
  <2>1. session[S] = "closed" /\ ~node.flaky /\ ~Refused => FALSE
    BY <1>1, <1>3 DEF TestInv, CloseInv
  <2> QED
    BY <1>1, <1>10, <2>1 DEF CloseInv
<1>16. HearInv'
  BY <1>10 DEF HearInv
<1> QED
  BY <1>9, <1>11, <1>12, <1>13, <1>14, <1>15, <1>16 DEF TestInv

LEMMA BanTimeoutTest ==
  ASSUME CInv, PeerInv, TestInv, Looks, BanTimeout
  PROVE  TestInv'
<1>1. pc = "ban" /\ late' \in BOOLEAN /\ UNCHANGED <<left, seen, wire>>
  BY DEF BanTimeout, Expires, TestInv, TestType
<1>2. CASE Relays
  BY <1>1, <1>2, ReturnTest DEF BanTimeout, Return, Relays, is
<1>3. CASE ~Relays
  <2>1. pc' = "peers" /\ UNCHANGED result /\ Judges /\ ~Relays'
    <3>1. Judges
      BY <1>1, <1>3 DEF TestInv, PcInv
    <3>2. pc' = "peers" /\ UNCHANGED result
      BY <1>3 DEF BanTimeout, Goto, Relays, is
    <3> QED
      BY <1>3, <3>1, <3>2, KeptByTest
  <2>2. TestType' /\ PcInv' /\ WireInv'
    BY <1>1, <2>1, KeptByTest DEF TestInv, TestType, Labels, PcInv, WireInv
  <2>3. StartedInv'
    BY <1>1, <2>1, KeptByTest DEF TestInv, StartedInv, Started
  <2>4. RelayInv'
    <3>1. (pending \/ seen => node.answer = "accept") /\ (banned => node.answer = "ban")
      BY DEF TestInv, RelayInv
    <3>2. UNCHANGED <<pending, seen, banned, node>>
      BY <1>1, KeptByTest
    <3> QED
      BY <2>1, <3>1, <3>2 DEF RelayInv
  <2>5. CloseInv'
    BY <1>1, <2>1, KeptByTest DEF TestInv, CloseInv
  <2>6. HearInv'
    BY <1>1, <2>1, KeptByTest DEF TestInv, HearInv, Started
  <2> QED
    BY <2>2, <2>3, <2>4, <2>5, <2>6 DEF TestInv
<1> QED
  BY <1>2, <1>3

LEMMA LockTest ==
  ASSUME CInv, PeerInv, TestInv, Looks, Lock
  PROVE  TestInv'
<1>1. pc = "lock" /\ late' \in BOOLEAN /\ UNCHANGED <<left, seen, wire, late>>
  BY DEF Lock, Within, TestInv, TestType
<1>2. CASE pc' = "done"
  BY <1>1, <1>2, ReturnTest
<1>3. CASE pc' # "done"
  <2>1. pc' = "locked" /\ UNCHANGED result
    BY <1>3 DEF Lock, Goto, Return
  <2>2. is("identify") /\ ~Relays' /\ ~Judges'
    <3>1. is("identify") /\ ~Relays /\ ~Judges
      BY <1>1 DEF TestInv, PcInv, Relays, Judges, is
    <3> QED
      BY <3>1, KeptByTest
  <2>3. TestType' /\ PcInv' /\ WireInv'
    BY <1>1, <2>1, <2>2, KeptByTest DEF TestInv, TestType, Labels, PcInv, WireInv
  <2>4. StartedInv'
    BY <1>1, <2>1, <2>2, KeptByTest DEF TestInv, StartedInv, Started
  <2>5. RelayInv'
    <3>1. (pending \/ seen => node.answer = "accept") /\ (banned => node.answer = "ban")
      BY DEF TestInv, RelayInv
    <3>2. UNCHANGED <<pending, seen, banned, node>>
      BY <1>1, KeptByTest
    <3> QED
      BY <2>1, <2>2, <3>1, <3>2 DEF RelayInv
  <2>6. CloseInv'
    BY <1>1, <2>1, <2>2, KeptByTest DEF TestInv, CloseInv
  <2>7. HearInv'
    BY <2>2 DEF HearInv
  <2> QED
    BY <2>3, <2>4, <2>5, <2>6, <2>7 DEF TestInv
<1> QED
  BY <1>2, <1>3

\* Each step of the test keeps what is known.
LEMMA TestTest ==
  ASSUME CInv, PeerInv, TestInv, Test
  PROVE  PeerInv' /\ TestInv'
<1>1. UNCHANGED state
  BY TestKeepsState
<1>2. CASE Receive
  BY <1>1, <1>2, ReceiveTest
<1>3. CASE ~Receive
  <2>1. Looks
    BY <1>1, <1>3 DEF Test, Looks, Same, Unlock, cvars, shared,
       Panic, Dial, Connected, ConnectTimeout, SendMessage, SendFails, ReceiveTimeout,
       SendTx, IsPending, PoolTimeout, IsBanned, BanTimeout, HasNoPeers, PeersTimeout,
       Lock, ReceiveLocked, LockedTimeout
  <2>2. PeerInv'
    BY <2>1, LookPeer
  <2>3. late \in BOOLEAN /\ (late \/ Asked) \in BOOLEAN
    BY DEF TestInv, TestType
  <2>4. CASE Panic \/ ConnectTimeout \/ ReceiveTimeout \/ IsBanned \/ HasNoPeers \/ PeersTimeout
               \/ ReceiveLocked \/ LockedTimeout
    <3>1. pc' = "done" /\ UNCHANGED <<left, wire, seen>> /\ late' \in BOOLEAN
      BY <2>3, <2>4 DEF Panic, ConnectTimeout, ReceiveTimeout, IsBanned, HasNoPeers, PeersTimeout,
         ReceiveLocked, LockedTimeout, Unlock, Return, Within, Expires
    <3> QED
      BY <2>1, <3>1, ReturnTest
  <2>5. CASE Dial \/ Connected
    BY <2>1, <2>2, <2>5, DialTest, ConnectedTest
  <2>6. CASE SendMessage \/ SendFails
    BY <2>1, <2>2, <2>6, SendMessageTest, SendFailsTest
  <2>7. CASE SendTx \/ IsPending \/ PoolTimeout \/ BanTimeout \/ Lock
    BY <2>1, <2>2, <2>7, SendTxTest, PoolTest, BanTimeoutTest, LockTest
  <2> QED
    BY <1>3, <2>4, <2>5, <2>6, <2>7 DEF Test
<1> QED
  BY <1>2, <1>3

LEMMA InitTest == Init => PeerInv /\ TestInv
<1> SUFFICES ASSUME Init PROVE PeerInv /\ TestInv
  OBVIOUS
<1>1. /\ case \in Cases /\ node \in Behaviours(case) /\ InitConnector(case.protocols)
      /\ pc = "dial" /\ left = case.times /\ seen = FALSE
      /\ wire = <<>> /\ heard = 0 /\ spoke = FALSE /\ pending = FALSE /\ banned = FALSE
      /\ result = "none" /\ late = FALSE
  BY DEF Init
<1>2. /\ protocols = case.protocols /\ poisoned = FALSE /\ DOMAIN session_manager = {}
      /\ session = [s \in Sessions |-> "none"] /\ opened = [s \in Sessions |-> {}]
      /\ calls = [t \in Tasks |-> <<>>]
      /\ mailbox = [s \in Sessions |-> [p \in Protocols |-> <<>>]]
  BY <1>1 DEF InitConnector, Tasks
<1>3. CaseShape(case) /\ S \in Sessions /\ Protocols \subseteq Tasks
  BY <1>1, CaseFacts, SessionExists DEF Tasks
<1>4. /\ session[S] = "none" /\ opened[S] = {}
      /\ \A p \in Protocols : mailbox[S][p] = <<>>
      /\ \A t \in Tasks : DueCalls(t) = {} /\ \A n : Positions(t, n, S) = {}
  BY <1>2, <1>3 DEF DueCalls, Positions
<1>5. case.times \in Nat
  BY <1>3 DEF CaseShape
<1>6. PeerInv
  <2>1. OnlySession
    BY <1>2, <1>4 DEF OnlySession
  <2>2. \A p \in Protocols : OpensOnce(p)
    BY <1>2, <1>3, <1>4 DEF OpensOnce, has_sender
  <2>3. Silent /\ OnlyAsksIfItDoes
    BY <1>2, <1>3, <1>4 DEF Silent, OnlyAsksIfItDoes
  <2>4. RefusedInv
    BY <1>2, <1>3, <1>4 DEF RefusedInv
  <2> QED
    BY <2>1, <2>2, <2>3, <2>4 DEF PeerInv
<1>7. TestType
  <2>1. mailbox \in [Sessions -> [Protocols -> Seq(Data)]] /\ wire \in Seq({case.message, "tx"})
    BY <1>1, <1>2
  <2> QED
    BY <1>1, <1>2, <1>5, <2>1 DEF TestType, Labels
<1>8. PcInv /\ WireInv /\ StartedInv
  <2>1. Len(wire) = 0
    BY <1>1
  <2> QED
    BY <1>1, <1>5, <2>1 DEF PcInv, WireInv, StartedInv, Started
<1>9. RelayInv /\ CloseInv
  BY <1>1, <1>4 DEF RelayInv, CloseInv
<1>10. HearInv
  BY <1>4 DEF HearInv
<1> QED
  BY <1>6, <1>7, <1>8, <1>9, <1>10 DEF TestInv

-----------------------------------------------------------------------------
(* The verdicts *)

\* What a case expects, and of a node that conforms
LEMMA Expected ==
  ASSUME TestType
  PROVE  /\ Relays => case.expected \in {"RelayTransactionHashFailed", "Ok", "RelayTransactionFailed"}
         /\ Judges => case.expected \in {"disconnected", "Ok"}
         /\ is("identify") => case.expected = "Ok"
         /\ is("key_pair") => case.expected = "timeout"
         /\ Conforms /\ Relays => /\ case.expected = IF ~node.asks THEN "RelayTransactionHashFailed"
                                                     ELSE IF node.answer = "accept" THEN "Ok"
                                                     ELSE "RelayTransactionFailed"
                                  /\ node.answer \in {"accept", "ban"}
         /\ Conforms /\ Judges =>
              case.expected = IF node.answer = "disconnect" THEN "disconnected" ELSE "Ok"
         /\ Conforms /\ is("key_pair") => Refused
<1>1. CaseShape(case)
  BY TheCase
<1>2. case.expected = Verdict(case)
  BY <1>1 DEF CaseShape
<1>3. CASE Relays
  <2>1. case.kind = "relay" /\ ~Judges /\ ~is("identify") /\ ~is("key_pair")
    BY <1>3 DEF Relays, Judges, is
  <2>2. Verdict(case) = IF ~Asks(case) THEN "RelayTransactionHashFailed"
                        ELSE IF Accepts(case) THEN "Ok" ELSE "RelayTransactionFailed"
    BY <2>1 DEF Verdict
  <2>3. Conforms => node.asks = Asks(case) /\ node.answer = IF Accepts(case) THEN "accept" ELSE "ban"
    BY <2>1 DEF Conforms, Answer
  <2> QED
    BY <1>2, <1>3, <2>1, <2>2, <2>3
<1>4. CASE Judges
  <2>1. case.kind \in {"flood", "addresses"} /\ ~Relays /\ ~is("identify") /\ ~is("key_pair")
    BY <1>4 DEF Relays, Judges, is
  <2>2. Verdict(case) = IF Misbehaves(case) THEN "disconnected" ELSE "Ok"
    BY <2>1 DEF Verdict
  <2>3. Conforms => node.answer = IF Misbehaves(case) THEN "disconnect" ELSE "tolerate"
    BY <2>1 DEF Conforms, Answer
  <2> QED
    BY <1>2, <1>4, <2>1, <2>2, <2>3
<1>5. CASE is("identify")
  <2>1. case.kind = "identify" /\ ~Relays /\ ~Judges /\ ~is("key_pair")
    BY <1>5 DEF Relays, Judges, is
  <2>2. Verdict(case) = "Ok"
    BY <2>1 DEF Verdict
  <2> QED
    BY <1>2, <1>5, <2>1, <2>2
<1>6. CASE is("key_pair")
  <2>1. case.kind = "key_pair" /\ ~Relays /\ ~Judges /\ ~is("identify")
    BY <1>6 DEF Relays, Judges, is
  <2>2. Verdict(case) = "timeout"
    BY <2>1 DEF Verdict
  <2>3. Misbehaves(case)
    BY <2>1 DEF Misbehaves
  <2>4. Conforms => Refused
    BY <2>1, <2>3 DEF Conforms, Answer, Refused
  <2> QED
    BY <1>2, <1>6, <2>1, <2>2, <2>4
<1> QED
  BY <1>1, <1>3, <1>4, <1>5, <1>6 DEF CaseShape, Relays, Judges, is

\* What the two properties say of result r, l telling of a timeout that was too short
RightVerdict(r, l) ==
  /\ Conforms /\ r # case.expected =>
       l \/ poisoned \/ (is("identify") /\ mailbox[S][case.talk] = <<>>)
  /\ r = case.expected /\ ~l =>
       /\ Relays /\ r = "Ok" => node.asks /\ node.answer = "accept"
       /\ Relays /\ r = "RelayTransactionHashFailed" => ~node.asks \/ session[S] = "closed"
       /\ Relays /\ r = "RelayTransactionFailed" => ~pending
       /\ is("identify") =>
            spoke \/ \A s \in SessionsOfNode : case.talk \notin get_opened_protocol_ids(s)
       /\ Judges /\ r = "disconnected" => session[S] = "closed"
       /\ is("key_pair") => Refused \/ session[S] = "closed"
       /\ Judges /\ r = "Ok" => session[S] = "open"

VerdictInv == pc = "done" => RightVerdict(result, late)

LEMMA VerdictMeans ==
  ASSUME TestType, VerdictInv
  PROVE  FailsOnlyWhenLate /\ PassTellsTheNode
<1>1. CaseShape(case) /\ (Relays \/ Judges \/ is("identify") \/ is("key_pair"))
  BY TheCase DEF CaseShape, Relays, Judges, is
<1>2. FailsOnlyWhenLate
  BY DEF VerdictInv, RightVerdict, FailsOnlyWhenLate, is
<1>3. PassTellsTheNode
  <2> SUFFICES ASSUME pc = "done", result = case.expected, ~late
               PROVE  PassTellsTheNode
    BY DEF PassTellsTheNode
  <2>1. CASE Relays
    <3>1. /\ case.kind = "relay"
          /\ result \in {"RelayTransactionHashFailed", "Ok", "RelayTransactionFailed"}
      BY <2>1, Expected DEF Relays, is
    <3> QED
      BY <2>1, <3>1 DEF VerdictInv, RightVerdict, PassTellsTheNode
  <2>2. CASE Judges
    <3>1. case.kind \in {"flood", "addresses"} /\ result \in {"disconnected", "Ok"}
      BY <2>2, Expected DEF Judges, is
    <3> QED
      BY <2>2, <3>1 DEF VerdictInv, RightVerdict, PassTellsTheNode
  <2>3. CASE is("identify")
    <3>1. case.kind = "identify" /\ result = "Ok"
      BY <2>3, Expected DEF is
    <3> QED
      BY <2>3, <3>1 DEF VerdictInv, RightVerdict, PassTellsTheNode
  <2>4. CASE is("key_pair")
    <3>1. case.kind = "key_pair" /\ result = "timeout"
      BY <2>4, Expected DEF is
    <3> QED
      BY <2>4, <3>1 DEF VerdictInv, RightVerdict, PassTellsTheNode
  <2> QED
    BY <1>1, <2>1, <2>2, <2>3, <2>4
<1> QED
  BY <1>2, <1>3

\* The session went although no case gave a reason to close it.
LEMMA NoReason ==
  ASSUME TestInv, Conforms, session[S] = "closed", ~Refused, pc \notin {"pool", "ban", "done"}
  PROVE  ~Relays /\ node.answer = "disconnect" /\ heard > 0
BY DEF TestInv, CloseInv, Conforms

\* The verdict of each way a case ends
LEMMA EarlyVerdict ==
  ASSUME CInv, PeerInv, TestInv,
         Panic \/ Connected \/ ConnectTimeout \/ SendFails, pc' = "done"
  PROVE  RightVerdict(result', late')
<1>1. /\ CaseShape(case) /\ S \in Sessions
      /\ session[S] \in {"none", "open", "closed"} /\ case.times \in Nat /\ heard \in Nat
      /\ left \in Nat /\ (Relays \/ Judges \/ is("identify") \/ is("key_pair"))
  BY TheCase, SessionExists DEF TestInv, TestType, CInv, CType, CaseShape, Relays, Judges, is
<1>2. CASE Panic
  <2>1. result' = "panicked" /\ poisoned
    BY <1>2 DEF Panic, Return
  <2>2. case.expected # "panicked"
    BY <1>1, Expected DEF TestInv
  <2> QED
    BY <2>1, <2>2 DEF RightVerdict
<1>3. CASE Connected
  <2>1. is("key_pair") /\ result' = "Ok"
    BY <1>3 DEF Connected, Return, Goto, is
  <2>2. case.expected = "timeout" /\ (Conforms => Refused)
    BY <2>1, Expected DEF TestInv
  <2>3. ~Refused
    <3> SUFFICES ASSUME Refused PROVE FALSE
      OBVIOUS
    <3>1. PICK x \in DOMAIN session_manager :
            Cardinality(session_manager[x]) >= Cardinality(protocols \ IgnoredProtocols)
      BY <1>3 DEF Connected, SessionsOfNode, EnoughOpened, get_opened_protocol_ids
    <3>2. session_manager[x] = {}
      BY <3>1 DEF PeerInv, RefusedInv
    <3>3. /\ "Sync" \in protocols \ IgnoredProtocols
          /\ IsFiniteSet(protocols \ IgnoredProtocols)
      BY <1>1, CasesAssumption, FS_Subset DEF CaseShape, TestInv, TestType
    <3>4. /\ Cardinality(protocols \ IgnoredProtocols) \in Nat
          /\ Cardinality(protocols \ IgnoredProtocols) # 0
      BY <3>3, FS_CardinalityType, FS_EmptySet
    <3>5. Cardinality(session_manager[x]) = 0
      BY <3>2, FS_EmptySet
    <3> QED
      BY <3>1, <3>4, <3>5
  <2> QED
    BY <2>1, <2>2, <2>3 DEF RightVerdict
<1>4. CASE ConnectTimeout
  <2>1. /\ pc = "connect" /\ result' = "timeout"
        /\ late' = (late \/ (session[S] # "closed" /\ ~Refused))
    BY <1>4 DEF ConnectTimeout, Expires, Return
  <2>2. ~is("key_pair") => case.expected # "timeout" /\ ~Refused
    BY <1>1, Expected DEF TestInv, Refused, is
  <2>3. is("key_pair") => case.expected = "timeout" /\ ~Relays /\ ~Judges /\ ~is("identify")
    BY Expected DEF TestInv, Relays, Judges, is
  <2>4. ~Conforms \/ session[S] # "closed" \/ Refused
    <3>1. heard = 0
      BY <2>1 DEF TestInv, WireInv
    <3> QED
      BY <2>1, <3>1, NoReason
  <2> QED
    BY <2>1, <2>2, <2>3, <2>4 DEF RightVerdict
<1>5. CASE SendFails
  <2>1. /\ pc = "talk" /\ late' = late /\ SessionsOfNode = {}
    BY <1>5 DEF SendFails, Within
  <2>2. session[S] = "closed" /\ ~is("key_pair") /\ ~Refused /\ left > 0
    BY <1>1, <2>1 DEF TestInv, StartedInv, Started, PcInv, SessionsOfNode, Refused, is
  <2>3. Conforms => ~Relays /\ node.answer = "disconnect" /\ heard > 0
    BY <2>1, <2>2, NoReason
  <2>4. CASE Relays
    <3>1. result' = "panicked"
      BY <1>5, <2>4 DEF SendFails, Return, Relays, is
    <3> QED
      BY <2>3, <2>4, <3>1, Expected DEF TestInv, RightVerdict
  <2>5. CASE Judges
    <3>1. is("addresses")
      BY <1>5, <2>1, <2>5 DEF SendFails, Judges, is
    <3>2. result' = "disconnected" /\ ~Relays /\ ~is("identify")
      BY <1>5, <3>1 DEF SendFails, Return, Relays, is
    <3>3. Conforms => case.expected = "disconnected"
      BY <2>3, <2>5, Expected DEF TestInv
    <3> QED
      BY <2>2, <2>5, <3>2, <3>3 DEF RightVerdict
  <2>6. CASE is("identify")
    <3>1. result' \in {"Ok", "disconnected"} /\ ~Relays /\ ~Judges
      BY <1>5, <2>6 DEF SendFails, Return, Relays, Judges, is
    <3>2. ~(heard > 0)
      <4>1. case.times = 1
        BY <1>1, <2>6 DEF CaseShape, is
      <4>2. heard + Len(wire) + left <= case.times /\ Len(wire) \in Nat
        BY <2>1 DEF TestInv, WireInv, TestType
      <4> QED
        BY <1>1, <2>2, <4>1, <4>2
    <3> QED
      BY <2>1, <2>2, <2>3, <2>6, <3>1, <3>2 DEF RightVerdict
  <2> QED
    BY <1>1, <2>2, <2>4, <2>5, <2>6
<1> QED
  BY <1>2, <1>3, <1>4, <1>5

LEMMA RelayVerdict ==
  ASSUME CInv, PeerInv, TestInv, Relays,
         ReceiveTimeout \/ SendTx \/ IsBanned \/ BanTimeout, pc' = "done"
  PROVE  RightVerdict(result', late')
<1>1. /\ session[S] \in {"none", "open", "closed"} /\ ~Refused
      /\ ~Judges /\ ~is("identify") /\ ~is("key_pair")
      /\ case.expected # "panicked"
  BY SessionExists, Expected DEF TestInv, CInv, CType, Refused, Relays, Judges, is
<1>2. Conforms =>
        /\ case.expected = IF ~node.asks THEN "RelayTransactionHashFailed"
                           ELSE IF node.answer = "accept" THEN "Ok"
                           ELSE "RelayTransactionFailed"
        /\ node.answer \in {"accept", "ban"}
  BY Expected DEF TestInv
<1>3. CASE ReceiveTimeout
  <2>1. /\ pc = "ask" /\ ~poisoned /\ result' = "RelayTransactionHashFailed"
        /\ late' = (late \/ Asked)
    BY <1>3 DEF ReceiveTimeout, Expires, Return
  <2>2. session[S] = "open" /\ node.asks => Asked
    BY <2>1 DEF TestInv, RelayInv
  <2>3. session[S] # "none" /\ (Conforms => session[S] # "closed")
    BY <1>1, <2>1, NoReason DEF TestInv, StartedInv, Started
  <2> QED
    BY <1>1, <1>2, <2>1, <2>2, <2>3 DEF RightVerdict
<1>4. CASE SendTx
  <2>1. pc = "tx" /\ result' = "panicked" /\ SessionsOfNode = {}
    BY <1>4 DEF SendTx, Within, Goto, Return
  <2>2. session[S] = "closed"
    BY <1>1, <2>1 DEF TestInv, StartedInv, Started, SessionsOfNode
  <2>3. ~Conforms
    BY <1>1, <2>1, <2>2, NoReason
  <2> QED
    BY <1>1, <2>1, <2>3 DEF RightVerdict
<1>5. CASE IsBanned
  <2>1. pc = "ban" /\ result' = "RelayTransactionFailed" /\ banned
    BY <1>5 DEF IsBanned, Within, Return, Relays, is
  <2>2. node.answer = "ban" /\ ~pending /\ node.asks
    BY <2>1 DEF TestInv, RelayInv
  <2> QED
    BY <1>1, <1>2, <2>1, <2>2 DEF RightVerdict
<1>6. CASE BanTimeout
  <2>1. /\ pc = "ban" /\ late' = (late \/ (wire # <<>> \/ banned))
        /\ result' = IF seen THEN "Ok" ELSE "RelayTransactionFailed"
    BY <1>6 DEF BanTimeout, Expires, Return, Relays, is
  <2>2. node.asks /\ (seen => node.answer = "accept")
    BY <2>1 DEF TestInv, RelayInv
  <2>3. ~seen /\ ~late => wire = <<>> /\ ~pending
    BY <2>1 DEF TestInv, RelayInv
  <2>4. wire = <<>> => ~\E k \in DOMAIN wire : wire[k] = "tx"
    OBVIOUS
  <2>5. ~seen /\ ~late /\ Conforms => node.answer # "accept"
    BY <2>1, <2>3, <2>4 DEF TestInv, RelayInv, Conforms
  <2>6. CASE seen
    BY <1>1, <1>2, <2>1, <2>2, <2>6 DEF RightVerdict
  <2>7. CASE ~seen
    BY <1>1, <1>2, <2>1, <2>2, <2>3, <2>5, <2>7 DEF RightVerdict
  <2> QED
    BY <2>6, <2>7
<1> QED
  BY <1>3, <1>4, <1>5, <1>6

LEMMA PeersVerdict ==
  ASSUME CInv, PeerInv, TestInv, Judges, HasNoPeers \/ PeersTimeout
  PROVE  RightVerdict(result', late')
<1>1. /\ session[S] \in {"none", "open", "closed"} /\ pc = "peers" /\ ~Refused
      /\ ~Relays /\ ~is("identify") /\ ~is("key_pair") /\ CaseShape(case)
  BY TheCase, SessionExists
  DEF TestInv, CInv, CType, Refused, Relays, Judges, is, HasNoPeers, PeersTimeout, Within, Expires
<1>2. case.expected \in {"disconnected", "Ok"}
  BY Expected DEF TestInv
<1>3. Conforms => case.expected = IF node.answer = "disconnect" THEN "disconnected" ELSE "Ok"
  BY Expected DEF TestInv
<1>4. Conforms /\ session[S] = "closed" => node.answer = "disconnect"
  BY <1>1, NoReason
<1>5. CASE HasNoPeers
  <2>1. result' = "disconnected" /\ session[S] = "closed"
    BY <1>5 DEF HasNoPeers, Return
  <2> QED
    BY <1>1, <1>3, <1>4, <2>1 DEF RightVerdict
<1>6. CASE PeersTimeout
  <2>1. /\ late' = (late \/ (wire # <<>> \/ session[S] = "closed"))
        /\ result' = IF result = "none" THEN "Ok" ELSE result
    BY <1>6 DEF PeersTimeout, Expires
  <2>2. session[S] # "none"
    BY <1>1 DEF TestInv, StartedInv, Started
  <2>3. session[S] # "closed" => result = "none" /\ left = 0
    BY <1>1 DEF TestInv, PcInv
  <2>4. wire = <<>> /\ session[S] = "open" => node.answer # "disconnect"
    <3> SUFFICES ASSUME wire = <<>>, session[S] = "open", node.answer = "disconnect"
                 PROVE  FALSE
      OBVIOUS
    <3>1. heard + Len(wire) + left = case.times /\ heard < Min({2, case.times})
      BY <1>1 DEF TestInv, HearInv, Started
    <3>2. Len(wire) = 0 /\ left = 0 /\ heard \in Nat /\ case.times \in Nat
      BY <1>1, <2>3 DEF TestInv, TestType, CaseShape
    <3> QED
      BY <3>1, <3>2, MinTwo
  <2> QED
    BY <1>1, <1>2, <1>3, <2>1, <2>2, <2>3, <2>4 DEF RightVerdict
<1> QED
  BY <1>5, <1>6

LEMMA IdentifyVerdict ==
  ASSUME CInv, PeerInv, TestInv, is("identify"), Lock \/ ReceiveLocked \/ LockedTimeout,
         pc' = "done"
  PROVE  RightVerdict(result', late')
<1>1. case.expected = "Ok" /\ ~Relays /\ ~Judges /\ ~is("key_pair") /\ case.talk \in Protocols
  BY TheCase, Expected DEF TestInv, Relays, Judges, is
<1>2. ~spoke => ~poisoned /\ mailbox[S][case.talk] = <<>>
  BY <1>1 DEF PeerInv, Silent
<1>3. CASE Lock
  <2>1. /\ result' = "Ok"
        /\ poisoned \/ \A s \in SessionsOfNode : case.talk \notin get_opened_protocol_ids(s)
    BY <1>3 DEF Lock, Goto, Return
  <2> QED
    BY <1>1, <1>2, <2>1 DEF RightVerdict
<1>4. CASE ReceiveLocked
  <2>1. result' = "Ok" /\ mailbox[S][case.talk] # <<>>
    BY <1>4 DEF ReceiveLocked, Unlock, Return
  <2> QED
    BY <1>1, <1>2, <2>1 DEF RightVerdict
<1>5. CASE LockedTimeout
  <2>1. result' = "panicked" /\ late' = (late \/ mailbox[S][case.talk] # <<>>)
    BY <1>5 DEF LockedTimeout, Expires, Unlock, Return
  <2> QED
    BY <1>1, <2>1 DEF RightVerdict
<1> QED
  BY <1>3, <1>4, <1>5

\* A step of the test that ends it returns the right verdict.
LEMMA ReturnsVerdict ==
  ASSUME CInv, PeerInv, TestInv, Test, pc' = "done"
  PROVE  VerdictInv'
<1>1. ~Receive
  BY DEF Receive, Goto
<1>2. Looks
  BY <1>1, TestKeepsState DEF Test, Looks, Same, Unlock, cvars, shared,
     Panic, Dial, Connected, ConnectTimeout, SendMessage, SendFails, ReceiveTimeout,
     SendTx, IsPending, PoolTimeout, IsBanned, BanTimeout, HasNoPeers, PeersTimeout,
     Lock, ReceiveLocked, LockedTimeout
<1>3. UNCHANGED <<session, session_manager, poisoned, mailbox, case, node, spoke, pending>>
  BY <1>2, KeptByTest
<1>4. RightVerdict(result', late') => VerdictInv'
  BY <1>3 DEF VerdictInv, RightVerdict, SessionsOfNode, Conforms, get_opened_protocol_ids,
              Refused, Relays, Judges, is, Asks, Answer
<1>5. ~(Dial \/ SendMessage \/ IsPending \/ PoolTimeout)
  BY DEF Dial, SendMessage, IsPending, PoolTimeout, Goto
<1>6. CASE Panic \/ Connected \/ ConnectTimeout \/ SendFails
  BY <1>4, <1>6, EarlyVerdict
<1>7. CASE ReceiveTimeout \/ SendTx
  <2>1. Relays
    BY <1>7 DEF ReceiveTimeout, SendTx, Within, Expires, TestInv, PcInv
  <2> QED
    BY <1>4, <1>7, <2>1, RelayVerdict
<1>8. CASE IsBanned \/ BanTimeout
  <2>1. Relays
    <3>1. Relays \/ Judges
      BY <1>8 DEF IsBanned, BanTimeout, Within, Expires, TestInv, PcInv
    <3>2. Judges => ~banned /\ ~Relays
      BY TheCase DEF TestInv, RelayInv, Relays, Judges, is
    <3> QED
      BY <1>8, <3>1, <3>2 DEF IsBanned, BanTimeout, Goto, Relays, is
  <2> QED
    BY <1>4, <1>8, <2>1, RelayVerdict
<1>9. CASE HasNoPeers \/ PeersTimeout
  <2>1. Judges
    BY <1>9 DEF HasNoPeers, PeersTimeout, Within, Expires, TestInv, PcInv
  <2> QED
    BY <1>4, <1>9, <2>1, PeersVerdict
<1>10. CASE Lock \/ ReceiveLocked \/ LockedTimeout
  <2>1. is("identify")
    BY <1>10 DEF Lock, ReceiveLocked, LockedTimeout, Within, Expires, TestInv, PcInv
  <2> QED
    BY <1>4, <1>10, <2>1, IdentifyVerdict
<1> QED
  BY <1>1, <1>5, <1>6, <1>7, <1>8, <1>9, <1>10 DEF Test

-----------------------------------------------------------------------------

VInv == PeerInv /\ TestInv /\ VerdictInv

\* What is known of the connector and of the test holds throughout a case, and the
\* verdict in the end is right (run_case of the case modules).
THEOREM VerdictsHold == Spec => []VInv
<1>1. Init => VInv
  BY InitTest DEF VInv, VerdictInv, Init
<1>2. CInv /\ VInv /\ [Next]_vars => VInv'
  <2> SUFFICES ASSUME CInv, VInv, [Next]_vars PROVE VInv'
    OBVIOUS
  <2>1. CASE Next
    <3>1. pc # "done"
      BY <2>1 DEF Next
    <3>2. CASE Test
      <4>1. PeerInv' /\ TestInv'
        BY <3>2, TestTest DEF VInv
      <4>2. VerdictInv'
        BY <3>2, ReturnsVerdict DEF VInv, VerdictInv
      <4> QED
        BY <4>1, <4>2 DEF VInv
    <3>3. CASE Node
      <4>1. PeerInv' /\ TestInv'
        BY <3>1, <3>3, NodeTest DEF VInv
      <4>2. pc' = pc
        BY <3>3 DEF Node, NodeOpensSession, NodeCloses, NodeSpeaks, NodeOpensProtocol, tvars,
           NodeAsks, NodeDecides, NodeHears, NodeKeeps
      <4> QED
        BY <3>1, <4>1, <4>2 DEF VInv, VerdictInv
    <3>4. CASE Handle /\ UNCHANGED tvars
      <4>1. PeerInv' /\ TestInv'
        BY <3>1, <3>4, HandleTest DEF VInv
      <4>2. pc' = pc
        BY <3>4 DEF tvars
      <4> QED
        BY <3>1, <4>1, <4>2 DEF VInv, VerdictInv
    <3> QED
      BY <2>1, <3>2, <3>3, <3>4 DEF Next
  <2>2. CASE UNCHANGED vars
    <3>1. /\ UNCHANGED <<state, case, node, spoke, mailbox>>
          /\ UNCHANGED <<protocols, session, opened, calls, session_manager, mailbox, poisoned>>
          /\ UNCHANGED <<case, node, pc, left, seen, wire, heard, spoke, pending, banned, result,
                         late>>
      BY <2>2 DEF vars, cvars, tvars, service, shared, state
    <3>2. PeerInv'
      BY <3>1, PeerStutters DEF VInv, TestInv
    <3>3. /\ UNCHANGED Refused /\ UNCHANGED Relays /\ UNCHANGED Judges /\ UNCHANGED Started
          /\ (\A kind : is(kind)' = is(kind)) /\ UNCHANGED Asked
          /\ \A t, n : Positions(t, n, S)' = Positions(t, n, S)
      BY <3>1 DEF Refused, Relays, Judges, Started, is, Asked, Positions
    <3>4. TestType' /\ PcInv' /\ WireInv'
      BY <3>1, <3>3 DEF VInv, TestInv, TestType, PcInv, WireInv
    <3>5. StartedInv' /\ CloseInv' /\ HearInv'
      BY <3>1, <3>3 DEF VInv, TestInv, StartedInv, CloseInv, HearInv
    <3>6. RelayInv'
      BY <3>1, <3>3 DEF VInv, TestInv, RelayInv
    <3>7. VerdictInv'
      BY <3>1, <3>3 DEF VInv, VerdictInv, RightVerdict, SessionsOfNode, Conforms, Asks, Answer,
                        get_opened_protocol_ids
    <3> QED
      BY <3>2, <3>4, <3>5, <3>6, <3>7 DEF VInv, TestInv
  <2> QED
    BY <2>1, <2>2
<1> QED
  BY <1>1, <1>2, Invariance, PTL DEF Spec

\* A node that does what the case is about fails it only for a timeout that was too
\* short, over a handler's panic, or for an identify message behind the test's own
\* lock (identify/connection.rs:81-87), for any heights, floods and protocols.
THEOREM FailsOnlyWhenLateHolds == Spec => []FailsOnlyWhenLate
<1>1. VInv => FailsOnlyWhenLate
  BY VerdictMeans DEF VInv, TestInv
<1> QED
  BY <1>1, VerdictsHold, PTL

\* A case that passes in time says of the node what its verdict claims: that it asked
\* for the transaction and kept or refused it (relay_transaction.rs), or that it kept
\* or dropped the peer (discovery/, identify/).
THEOREM PassTellsTheNodeHolds == Spec => []PassTellsTheNode
<1>1. VInv => PassTellsTheNode
  BY VerdictMeans DEF VInv, TestInv
<1> QED
  BY <1>1, VerdictsHold, PTL
=============================================================================

----------------------------- MODULE Subscription -----------------------------
(***************************************************************************)
(* The subscription client of the testkit (subscribe/mod.rs): requests,    *)
(* their answers and the notifications of all topics share one connection. *)
(* The node, which answers requests in order and notifies at any time, is  *)
(* external.  The connection delivers its bytes in pieces of any size, and *)
(* StreamCodec finds the messages among them.                              *)
(***************************************************************************)
EXTENDS Integers, Sequences, FiniteSets, SequencesExt

CONSTANTS
  Topics,      \* that may be subscribed
  MaxEvents,   \* notifications of a run
  MaxRequests  \* requests of a run

VARIABLES
  subscriptions,  \* of the node: id |-> topic
  stream,         \* bytes from the node that are still under way
  inner,          \* bytes that have arrived, the codec's buffer
  topic_list,     \* of the handle: id |-> topic
  pending_recv,   \* frames set aside while a request waited for its answer
  request,        \* what the client waits for
  rpc_id,         \* requests so far
  sent, got,      \* notifications the node sent, and those the stream yielded
  dropped,        \* frames that a conversion into a client threw away
  ended           \* subscriptions that were ended

server == <<subscriptions, stream, sent>>
handle == <<topic_list, pending_recv, request, rpc_id>>
svars == <<server, inner, handle, got, dropped, ended>>

----------------------------------------------------------------------------
(* Bytes and messages *)

Byte(c, v) == [class |-> c, value |-> v]
B(c) == Byte(c, <<>>)
IsNotification(m) == m[1] = "notification"
\* a notification carries its result as a string of JSON; the node ends every
\* message with a newline
Bytes(m) ==
  IF IsNotification(m)
  THEN <<B("open"), B("quote"), B("open"), B("escape"), B("quote"), Byte("other", m),
         B("escape"), B("quote"), B("close"), B("quote"), B("close"), B("space")>>
  ELSE <<B("open"), Byte("other", m), B("close"), B("space")>>
\* what serde finds in a frame
Message(frame) == frame[CHOOSE k \in DOMAIN frame : frame[k].class = "other"].value
Notification(i, n) == <<"notification", i, n>>
Success(i) == <<"success", i>>
Failure == <<"failure", 0>>

\* StreamCodec::decode without a separator, one byte on; "end" is the frame's length.
\* in_str and is_escaped, which is set only in a string, are one field: a byte is outside
\* of strings, inside of one, or escaped in one
Scanned == [depth |-> 0, str |-> "outside", start_idx |-> 1, whitespaces |-> 0,
            idx |-> 0, end |-> 0]
InString(str, class) ==
  IF str = "outside" THEN IF class = "quote" THEN "inside" ELSE "outside"
  ELSE IF str = "inside" /\ class = "quote" THEN "outside"
  ELSE IF str = "inside" /\ class = "escape" THEN "escaped" ELSE "inside"
Scan(s, b) ==
  LET i == s.idx + 1
      opens == b.class = "open" /\ s.str = "outside"
      closes == b.class = "close" /\ s.str = "outside"
      depth == IF opens THEN s.depth + 1 ELSE IF closes THEN s.depth - 1 ELSE s.depth
      start == IF opens /\ s.depth = 0 THEN i ELSE s.start_idx
      spaces == IF b.class = "space" THEN s.whitespaces + 1 ELSE s.whitespaces
  IN IF s.end # 0 THEN s
     ELSE [depth |-> depth, str |-> InString(s.str, b.class), start_idx |-> start,
           whitespaces |-> spaces, idx |-> i,
           end |-> IF depth = 0 /\ i # start /\ i - start + 1 > spaces THEN i ELSE 0]
\* the length of the first frame, 0 if there is none yet
decode(buf) ==
  LET scan[k \in 0..Len(buf)] == IF k = 0 THEN Scanned ELSE Scan(scan[k - 1], buf[k])
  IN scan[Len(buf)].end
Frame == SubSeq(inner, 1, decode(inner))
TakeFrame == inner' = SubSeq(inner, decode(inner) + 1, Len(inner))

----------------------------------------------------------------------------
(* The node and the connection *)

Idle == [of |-> "nothing"]
\* a map of subscriptions with one more
Enlist(list, i, topic) == [j \in DOMAIN list \cup {i} |-> IF j = i THEN topic ELSE list[j]]

ClientInit ==
  /\ subscriptions = <<>> /\ stream = <<>> /\ inner = <<>>
  /\ topic_list = <<>> /\ pending_recv = <<>> /\ request = Idle /\ rpc_id = 0
  /\ sent = <<>> /\ got = <<>> /\ dropped = FALSE /\ ended = {}

Notify(i) ==
  /\ Len(sent) < MaxEvents
  /\ LET m == Notification(i, Len(sent)) IN sent' = Append(sent, m) /\ stream' = stream \o Bytes(m)
  /\ UNCHANGED <<subscriptions, inner, handle, got, dropped, ended>>

Respond ==
  /\ request.of \in {"subscribe", "unsubscribe"} /\ ~request.answered
  /\ request' = [request EXCEPT !.answered = TRUE]
  /\ \/ request.of = "subscribe" /\ subscriptions' = Enlist(subscriptions, rpc_id, request.topic)
        /\ stream' = stream \o Bytes(Success(rpc_id)) /\ UNCHANGED ended
     \/ request.of = "unsubscribe"
        /\ subscriptions' = Restrict(subscriptions, DOMAIN subscriptions \ {request.id})
        /\ stream' = stream \o Bytes(Success(request.id)) /\ ended' = ended \cup {request.id}
     \/ stream' = stream \o Bytes(Failure) /\ UNCHANGED <<subscriptions, ended>>
  /\ UNCHANGED <<inner, topic_list, pending_recv, rpc_id, sent, got, dropped>>

Arrive ==
  /\ \E n \in 1..Len(stream) : /\ inner' = inner \o SubSeq(stream, 1, n)
                               /\ stream' = SubSeq(stream, n + 1, Len(stream))
  /\ UNCHANGED <<subscriptions, handle, sent, got, dropped, ended>>

----------------------------------------------------------------------------
(* The client *)

SendRequest(r) ==
  /\ request = Idle /\ rpc_id < MaxRequests
  /\ request' = r /\ rpc_id' = rpc_id + 1
  /\ UNCHANGED <<server, inner, topic_list, pending_recv, got, dropped, ended>>
subscribe(topic) ==
  /\ \A i \in DOMAIN topic_list : topic_list[i] # topic
  /\ SendRequest([of |-> "subscribe", topic |-> topic, answered |-> FALSE])
unsubscribe(i) == SendRequest([of |-> "unsubscribe", id |-> i, answered |-> FALSE])

\* as if a subscription began a list of its own
ListedAlone(i, topic) == Enlist(<<>>, i, topic)
Listed(i, topic) == Enlist(topic_list, i, topic)
\* as if a notification that came before an answer were lost
SetNothingAside(frame) == UNCHANGED pending_recv
SetAside(frame) == pending_recv' = Append(pending_recv, frame)
\* the loop of a request: anything but an answer is set aside; a refused
\* subscription takes the handle with it
RecvAnswer ==
  /\ request.of \in {"subscribe", "unsubscribe"} /\ decode(inner) # 0 /\ TakeFrame
  /\ LET m == Message(Frame)
     IN IF IsNotification(m) THEN SetAside(Frame) /\ UNCHANGED <<topic_list, request>>
        ELSE /\ request' = (IF m = Failure /\ request.of = "subscribe"
                            THEN [of |-> "failed"] ELSE Idle)
             /\ topic_list' = (IF m = Failure THEN topic_list
                               ELSE IF request.of = "subscribe"
                               THEN Listed(m[2], request.topic)
                               ELSE Restrict(topic_list, DOMAIN topic_list \ {request.id}))
             /\ UNCHANGED pending_recv
  /\ UNCHANGED <<server, rpc_id, got, dropped, ended>>

\* try_into and the end of unsubscribe_all keep the connection and nothing else
IntoClient ==
  /\ request = Idle /\ topic_list = <<>> /\ pending_recv # <<>>
  /\ dropped' = TRUE /\ pending_recv' = <<>>
  /\ UNCHANGED <<server, inner, topic_list, request, rpc_id, got, ended>>

\* poll_next; a notification whose subscription is not in the list is a panic
Yield(m) ==
  IF m[2] \in DOMAIN topic_list
  THEN got' = Append(got, m) /\ UNCHANGED request
  ELSE request' = [of |-> "panicked"] /\ UNCHANGED got
PollPending ==
  /\ request = Idle /\ pending_recv # <<>>
  /\ Yield(Message(Head(pending_recv))) /\ pending_recv' = Tail(pending_recv)
  /\ UNCHANGED <<server, inner, topic_list, rpc_id, dropped, ended>>
PollStream ==
  /\ request = Idle /\ pending_recv = <<>> /\ decode(inner) # 0
  /\ Yield(Message(Frame)) /\ TakeFrame
  /\ UNCHANGED <<server, topic_list, pending_recv, rpc_id, dropped, ended>>

ClientNext ==
  \/ \E i \in DOMAIN subscriptions : Notify(i)
  \/ Respond \/ Arrive
  \/ \E topic \in Topics : subscribe(topic)
  \/ \E i \in DOMAIN topic_list : unsubscribe(i)
  \/ RecvAnswer \/ IntoClient \/ PollPending \/ PollStream
ClientSpec == ClientInit /\ [][ClientNext]_svars

----------------------------------------------------------------------------
(* Properties *)

\* Every notification is found whole in the stream and is yielded once, in the order
\* of the node, whichever request was waiting when it came (mod.rs:126-163, 338-344,
\* 391-395); only a conversion into a client loses those that were set aside.
InFlight(bytes) ==
  FlattenSeq([k \in DOMAIN bytes |->
                IF bytes[k].class = "other" /\ IsNotification(bytes[k].value)
                THEN <<bytes[k].value>> ELSE <<>>])
SetAsideNow == [k \in DOMAIN pending_recv |-> Message(pending_recv[k])]
EachNotificationOnce ==
  (~dropped /\ request.of # "panicked") =>
    got \o SetAsideNow \o InFlight(inner \o stream) = sent

\* poll_next panics (mod.rs:387) over nothing but a notification that a request had set
\* aside, of a subscription that this client itself has ended since: one that is read
\* from the connection always finds its topic in the list, although the node began the
\* subscription before the client listed it and ended it before the client removed it.
PanicsOnlyOverEndedAndSetAside ==
  [][request.of # "panicked" /\ request'.of = "panicked" =>
       /\ pending_recv # <<>> /\ pending_recv' = Tail(pending_recv)
       /\ Message(Head(pending_recv))[2] \in ended]_svars
=============================================================================

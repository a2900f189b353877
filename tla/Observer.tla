------------------------------ MODULE Observer ------------------------------
(***************************************************************************)
(* apps/observer/wire_observer.cpp watches the packets of the order        *)
(* connection, cuts both directions into messages and sends one line per   *)
(* message to services/control/server.js, which pairs orders and ACKs in   *)
(* its audit log.  A message travels in two pieces: the first holds the    *)
(* type byte and the sequence number, the second the rest.  The observer   *)
(* looks at the ports and the flags of a segment and at nothing else: it   *)
(* knows neither connections nor TCP's sequence numbers, so that a missed  *)
(* segment, one sent again and one of an older connection go unnoticed.    *)
(* The control service may crash and come back.  Feed packets and health   *)
(* lines, which only count, are left out.                                  *)
(***************************************************************************)
EXTENDS Integers, Sequences, FiniteSets, Functions

CONSTANTS
  MaxSessions,   \* bound: order connections
  NumOrders,     \* bound: orders on one connection
  BufSize,       \* StreamBuffer, in pieces
  MaxSegment,    \* bound: pieces in one TCP segment
  MaxMishaps,    \* bound: segments missed, out of turn or cut by a clearing
  PipeSize,      \* lines the telemetry socket holds before send blocks
  MaxPending,    \* MAX_PENDING_ORDERS
  MaxCrashes     \* bound: crashes of the control service

ASSUME ObserverAssumption ==
  /\ {MaxSessions, NumOrders, BufSize, MaxSegment, PipeSize, MaxPending} \subseteq Nat \ {0}
  /\ {MaxMishaps, MaxCrashes} \subseteq Nat

VARIABLES
  sess,                        \* the last order connection opened
  passed, returned,            \* pieces of orders and ACKs sent on it
  over,                        \* the directions it has ended
  order_stream, ack_stream,
  telemetry_fd,                \* "due", "closed", "open" or "broken"
  pipe,                        \* lines the control service has not read
  running, crashes,            \* control service
  pendingOrders,
  audit,                       \* the record the last step wrote
  odd,                         \* messages whose second piece may pass for a type
  got, seen, losses,           \* history of the last connection's orders
  tainted, mishaps             \* history: connections disturbed, and how often

wire == <<sess, passed, returned, over>>
streams == <<order_stream, ack_stream>>
service == <<running, crashes, pendingOrders, audit>>
history == <<got, seen, losses, tainted, mishaps>>
vars == <<wire, streams, telemetry_fd, pipe, service, odd, history>>

Sessions == 1..MaxSessions
Numbers == 1..NumOrders
Piece == [sess : Sessions, seq : Numbers, part : {1, 2}]
Message == [sess : Sessions, seq : Numbers]

NoMessage == [sess |-> 0, seq |-> 0]
NoRecord == [order |-> NoMessage, ack |-> NoMessage]

\* The pieces i+1 .. i+n of one direction of connection c.
Segment(c, i, n) ==
  [k \in 1..n |-> [sess |-> c, seq |-> (i + k + 1) \div 2,
                   part |-> IF (i + k) % 2 = 1 THEN 1 ELSE 2]]

-----------------------------------------------------------------------------
(* Reassembly. *)
LastPieces(q, n) == IF Len(q) > n THEN SubSeq(q, Len(q) - n + 1, Len(q)) ELSE q

\* append_bytes starts again when the buffer would overflow.
append_bytes(stream, data) ==
  IF Len(stream) + Len(data) > BufSize THEN LastPieces(data, BufSize)
  ELSE stream \o data

TypeFits(c) == c.part = 1 \/ c.seq \in odd

drain_orders_FrameByFrame(buf) ==
  LET step[i \in 1..(Len(buf) + 1)] ==
        IF i >= Len(buf) THEN [found |-> <<>>, rest |-> SubSeq(buf, i, Len(buf))]
        ELSE [found |-> IF TypeFits(buf[i]) THEN <<buf[i]>> \o step[i + 2].found
                        ELSE step[i + 2].found,
              rest |-> step[i + 2].rest]
  IN  step[1]

\* A type byte starts a message, whatever follows it; without one the next byte
\* is tried.
drain_orders(buf) ==
  LET step[i \in 1..(Len(buf) + 1)] ==
        IF i >= Len(buf) THEN [found |-> <<>>, rest |-> SubSeq(buf, i, Len(buf))]
        ELSE IF TypeFits(buf[i])
        THEN [step[i + 2] EXCEPT !.found = <<buf[i]>> \o @]
        ELSE step[i + 1]
  IN  step[1]

\* The same loop with the type of an ACK.
drain_acks(buf) == drain_orders(buf)

-----------------------------------------------------------------------------
(* Telemetry connection. *)

\* maybe_reconnect: at once at the start, later when a second has passed.
Reconnected ==
  CASE telemetry_fd = "due"    -> {IF running THEN "open" ELSE "closed"}
    [] telemetry_fd = "closed" -> {"closed"} \cup (IF running THEN {"open"} ELSE {})
    [] OTHER                   -> {telemetry_fd}

\* What a message starting with piece c reads as: its own number, or any.
ReadAs(c) ==
  [sess : {c.sess}, seq : IF c.part = 1 THEN {c.seq} ELSE Numbers]

\* send_json for each message found: a line each, or the connection is closed
\* and the rest dropped.
Emit(kind, found) ==
  \E fd \in Reconnected :
    IF found = <<>> \/ fd # "open"
    THEN /\ telemetry_fd' = IF found = <<>> THEN fd ELSE "closed"
         /\ UNCHANGED pipe
    ELSE /\ Len(pipe) < PipeSize
         /\ telemetry_fd' = fd
         /\ \E m \in [DOMAIN found -> Message] :
              /\ \A i \in DOMAIN found : m[i] \in ReadAs(found[i])
              /\ pipe' = pipe \o [i \in DOMAIN found |-> [kind |-> kind, msg |-> m[i]]]

-----------------------------------------------------------------------------
(* The packets the observer meets. *)
clear_stream_Never(stream) == stream

clear_stream(stream) == <<>>

\* SYN, FIN and RST of either direction clear both streams, before the data of
\* the same segment is appended.
Kept(flag, stream) == IF flag THEN clear_stream(stream) ELSE stream

\* The next pieces of the last connection: all that TCP's two ends take in.
InTurn(c, i, sent) == c = sess /\ i = sent

\* Connection c may send its pieces i+1 .. i+n: the next ones, until it ends the
\* direction, earlier ones again, or any of an older connection, whose progress is
\* forgotten.
MaySend(dir, c, i, n, sent, end) ==
  \/ InTurn(c, i, sent) /\ i + n <= end /\ dir \notin over
  \/ mishaps < MaxMishaps /\ i + n <= IF c = sess THEN sent ELSE 2 * NumOrders

\* Something happens to the streams of the connections cs that TCP hides from
\* its two ends.
Mishap(happens, cs) ==
  /\ happens => mishaps < MaxMishaps
  /\ mishaps' = IF happens THEN mishaps + 1 ELSE mishaps
  /\ tainted' = IF happens THEN tainted \cup cs ELSE tainted

\* A segment with orders; fin if it ends its direction.
OrderSegment ==
  \E c \in 1..sess, i \in 0..(2 * NumOrders), n \in 1..MaxSegment, fin \in BOOLEAN :
    /\ MaySend("orders", c, i, n, passed, 2 * NumOrders)
    /\ passed' = IF InTurn(c, i, passed) THEN passed + n ELSE passed
    /\ over' = IF fin /\ c = sess THEN over \cup {"orders"} ELSE over
    /\ ack_stream' = Kept(fin, ack_stream)
    /\ LET buf == append_bytes(Kept(fin, order_stream), Segment(c, i, n))
           d == drain_orders(buf)
           hurt == ~InTurn(c, i, passed) \/ Len(buf) < Len(order_stream) + n
       IN  /\ order_stream' = d.rest
           /\ Emit("order", d.found)
           /\ seen' = seen \cup {x.seq : x \in {y \in Range(d.found) :
                                                 y.part = 1 /\ y.sess = sess}}
           /\ got' = got \cup Range(buf)
           /\ losses' = IF hurt THEN losses + 1 ELSE losses
           /\ Mishap(hurt \/ ack_stream' # ack_stream, {c, sess})
    /\ audit' = NoRecord
    /\ UNCHANGED <<sess, returned, running, crashes, pendingOrders, odd>>

\* A clearing of half an order.
OrdersCut == losses' = IF order_stream' # order_stream THEN losses + 1 ELSE losses

\* A segment with ACKs of orders that have gone over the wire.
AckSegment ==
  \E c \in 1..sess, i \in 0..(2 * NumOrders), n \in 1..MaxSegment, fin \in BOOLEAN :
    /\ MaySend("acks", c, i, n, returned, 2 * (passed \div 2))
    /\ returned' = IF InTurn(c, i, returned) THEN returned + n ELSE returned
    /\ over' = IF fin /\ c = sess THEN over \cup {"acks"} ELSE over
    /\ order_stream' = Kept(fin, order_stream)
    /\ OrdersCut
    /\ LET buf == append_bytes(Kept(fin, ack_stream), Segment(c, i, n))
           d == drain_acks(buf)
           hurt == ~InTurn(c, i, returned) \/ Len(buf) < Len(ack_stream) + n
       IN  /\ ack_stream' = d.rest
           /\ Emit("ack", d.found)
           /\ Mishap(hurt \/ order_stream' # order_stream, {c, sess})
    /\ audit' = NoRecord
    /\ UNCHANGED <<sess, passed, running, crashes, pendingOrders, odd, got, seen>>

\* FIN, RST or the answer to a SYN, without data, of this connection or of one
\* that is gone.
ControlSegment ==
  /\ \E ended \in SUBSET {"orders", "acks"} : over' = over \cup ended
  /\ order_stream' = clear_stream(order_stream)
  /\ ack_stream' = clear_stream(ack_stream)
  /\ OrdersCut
  /\ Mishap(streams' # streams, {sess})
  /\ telemetry_fd' \in Reconnected
  /\ audit' = NoRecord
  /\ UNCHANGED <<sess, passed, returned, pipe, running, crashes, pendingOrders,
                 odd, got, seen>>

\* The SYN of the next connection.
NewConnection ==
  /\ sess < MaxSessions
  /\ sess' = sess + 1
  /\ passed' = 0 /\ returned' = 0 /\ over' = {}
  /\ order_stream' = clear_stream(order_stream)
  /\ ack_stream' = clear_stream(ack_stream)
  /\ got' = {} /\ seen' = {} /\ losses' = 0
  /\ telemetry_fd' \in Reconnected
  /\ audit' = NoRecord
  /\ UNCHANGED <<pipe, running, crashes, pendingOrders, odd, tainted, mishaps>>

\* The packet socket has no room: a segment is missed, or the exchange's short
\* send leaves out the rest of an ACK.
OrdersMissed ==
  \E n \in 1..MaxSegment :
    /\ MaySend("orders", sess, passed, n, passed, 2 * NumOrders)
    /\ passed' = passed + n
    /\ losses' = losses + 1
    /\ Mishap(TRUE, {sess})
    /\ audit' = NoRecord
    /\ UNCHANGED <<sess, returned, over, streams, telemetry_fd, pipe, running,
                   crashes, pendingOrders, odd, got, seen>>

AcksMissed ==
  \E n \in 1..MaxSegment :
    /\ MaySend("acks", sess, returned, n, returned, 2 * (passed \div 2))
    /\ returned' = returned + n
    /\ Mishap(TRUE, {sess})
    /\ audit' = NoRecord
    /\ UNCHANGED <<sess, passed, over, streams, telemetry_fd, pipe, running,
                   crashes, pendingOrders, odd, got, seen, losses>>

-----------------------------------------------------------------------------
(* Control service. *)

\* A Map keeps the place of a key that is set again.
Remembered_FirstStays(q, msg) ==
  IF \E i \in DOMAIN q : q[i].seq = msg.seq THEN q ELSE Append(q, msg)

Remembered(q, msg) ==
  IF \E i \in DOMAIN q : q[i].seq = msg.seq
  THEN [i \in DOMAIN q |-> IF q[i].seq = msg.seq THEN msg ELSE q[i]]
  ELSE Append(q, msg)

Excess(q) == IF Len(q) > MaxPending THEN Len(q) - MaxPending ELSE 0

\* prunePendingOrders drops orders at the front: those over the limit and any
\* number of old ones, but never the one just set.
Pruned(q, new) ==
  {SubSeq(q, n + 1, Len(q)) :
     n \in {k \in Excess(q)..Len(q) : \A i \in 1..k : q[i] # new}}

\* handleTelemetryEvent.
HandleOrder ==
  /\ running /\ pipe # <<>> /\ Head(pipe).kind = "order"
  /\ LET msg == Head(pipe).msg
     IN  pendingOrders' \in Pruned(Remembered(pendingOrders, msg), msg)
  /\ pipe' = Tail(pipe)
  /\ audit' = NoRecord
  /\ UNCHANGED <<wire, streams, telemetry_fd, running, crashes, odd, history>>

\* The pending orders once the kth is deleted.
Without(q, k) == SubSeq(q, 1, k - 1) \o SubSeq(q, k + 1, Len(q))

\* emitOrderAckAudit.
HandleAck ==
  /\ running /\ pipe # <<>> /\ Head(pipe).kind = "ack"
  /\ LET ack == Head(pipe).msg
         hit == {k \in DOMAIN pendingOrders : pendingOrders[k].seq = ack.seq}
     IN  \/ hit = {} /\ audit' = NoRecord /\ UNCHANGED pendingOrders
         \/ \E k \in hit :
              /\ pendingOrders' = Without(pendingOrders, k)
              /\ audit' = [order |-> pendingOrders[k], ack |-> ack]
  /\ pipe' = Tail(pipe)
  /\ UNCHANGED <<wire, streams, telemetry_fd, running, crashes, odd, history>>

\* The service dies with everything it knew; the observer finds out when it
\* sends the next line.
Crash ==
  /\ running /\ crashes < MaxCrashes
  /\ running' = FALSE
  /\ crashes' = crashes + 1
  /\ pipe' = <<>> /\ pendingOrders' = <<>>
  /\ telemetry_fd' = IF telemetry_fd = "open" THEN "broken" ELSE telemetry_fd
  /\ audit' = NoRecord
  /\ UNCHANGED <<wire, streams, odd, history>>

Start ==
  /\ ~running
  /\ running' = TRUE
  /\ audit' = NoRecord
  /\ UNCHANGED <<wire, streams, telemetry_fd, pipe, crashes, pendingOrders, odd,
                 history>>

Init ==
  /\ sess = 1
  /\ passed = 0 /\ returned = 0 /\ over = {}
  /\ order_stream = <<>> /\ ack_stream = <<>>
  /\ telemetry_fd = "due" /\ pipe = <<>>
  /\ running \in BOOLEAN /\ crashes = 0
  /\ pendingOrders = <<>> /\ audit = NoRecord
  /\ odd \in SUBSET Numbers
  /\ got = {} /\ seen = {} /\ losses = 0 /\ tainted = {} /\ mishaps = 0

Next ==
  \/ OrderSegment \/ AckSegment \/ ControlSegment \/ NewConnection
  \/ OrdersMissed \/ AcksMissed
  \/ HandleOrder \/ HandleAck \/ Crash \/ Start

Spec == Init /\ [][Next]_vars

-----------------------------------------------------------------------------
\* Every variable has its type: the streams keep less than a message and the
\* control service no more than MAX_PENDING_ORDERS orders, each number once.
TypeOK ==
  /\ sess \in Sessions
  /\ passed \in 0..(2 * NumOrders) /\ returned \in 0..passed
  /\ over \subseteq {"orders", "acks"}
  /\ \A q \in {order_stream, ack_stream} : q \in Seq(Piece) /\ Len(q) <= 1
  /\ telemetry_fd \in {"due", "closed", "open", "broken"}
  /\ pipe \in Seq([kind : {"order", "ack"}, msg : Message])
  /\ running \in BOOLEAN /\ crashes \in 0..MaxCrashes
  /\ pendingOrders \in Seq(Message) /\ Len(pendingOrders) <= MaxPending
  /\ \A i, j \in DOMAIN pendingOrders :
       pendingOrders[i].seq = pendingOrders[j].seq => i = j
  /\ audit \in [order : Message, ack : Message] \cup {NoRecord}
  /\ odd \subseteq Numbers
  /\ got \subseteq Piece /\ seen \subseteq Numbers
  /\ mishaps \in 0..MaxMishaps /\ losses \in 0..mishaps /\ tainted \subseteq Sessions

\* However TCP cuts the stream, whatever the connection before left behind and
\* whatever clears the streams, drain_orders finds every order of a connection,
\* unless order bytes were missed, came out of turn or were cleared half read.
EveryOrderSeen == losses = 0 => seen = 1..(passed \div 2)

Arrived == {q \in Numbers : \A k \in {1, 2} : [sess |-> sess, seq |-> q, part |-> k] \in got}

\* Missed pieces, a retransmission, an overflowing buffer and a clearing in the
\* middle of an order cost more than themselves, because half an order is completed
\* with bytes of the next one, but not more than one order that arrived each, and
\* one for every order whose bytes look like a type.
ResyncCost == Cardinality(Arrived \ seen) <= losses + Cardinality(odd)

\* The audit pairs an ACK with the order it answers, across order connections
\* that all number from 1 and crashes of the control service, unless a mishap
\* disturbed the ACK's connection; the pending orders stay bounded and their
\* numbers distinct (TypeOK).
AuditMatches ==
  /\ TypeOK
  /\ (audit # NoRecord /\ audit.ack.sess \notin tainted) => audit.order = audit.ack
=============================================================================

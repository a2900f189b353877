----------------------------- MODULE OrderPath -----------------------------
(***************************************************************************)
(* The way of an order: OMS (src/engine/oms/oms.cpp), the ORDER_TO_EXC     *)
(* ring, the TCP path of apps/client/order_sender.c, the connection, and   *)
(* apps/server/order_receiver.c with its ACKs.  TCP cuts the byte stream   *)
(* anywhere, so a wire_order and a wire_ack travel as two chunks: the      *)
(* first holds the type and the sequence number, the second the rest.      *)
(* A connection may break at any time and the sender opens the next one.   *)
(***************************************************************************)
EXTENDS Integers, Sequences, Functions

CONSTANTS
  NumOrders,     \* bound: orders submitted
  RingSize,      \* ORDER_TO_EXC_SIZE
  CursorMod,     \* 2^32: the cursors of the ring wrap
  MaxSessions,   \* bound: connections made
  OrderCap,      \* chunks of orders the socket buffers hold
  AckCap,        \* chunks of ACKs the socket buffers hold
  AckPoll,       \* ACK_POLL_MASK + 1
  AckBatch       \* ACKs that fit into the buffer of drain_acks

ASSUME OrderPathAssumption ==
  /\ {NumOrders, RingSize, CursorMod, MaxSessions, OrderCap, AckCap, AckPoll,
      AckBatch} \subseteq Nat \ {0}
  /\ CursorMod % RingSize = 0 /\ CursorMod > RingSize

VARIABLES
  next_order_id, next_write, next_read, data,      \* OMS and ring
  spc, msg, remaining,                     \* sender: order in hand
  next_seq, acked_seq, ack_poll_ticks, carry,
  sess, alive, up, down,                   \* connections
  served, serving, sbuf, expected_seq,     \* receiver; session served last
  bad_csum, seq_gaps, duplicates,
  sent, accepted, lastAck,                 \* history
  cut                                      \* history: sessions with a cut ACK

ring == <<next_order_id, next_write, next_read, data>>
acks == <<acked_seq, carry>>
sender == <<spc, msg, remaining, next_seq, ack_poll_ticks>>
server == <<served, serving, sbuf, expected_seq, bad_csum, seq_gaps,
            duplicates, accepted, lastAck>>
vars == <<ring, acks, sender, sess, alive, up, down, server, sent, cut>>

Orders == 1..NumOrders
Sessions == 1..MaxSessions
Garbage == NumOrders + 1        \* a number read out of a misframed ACK
OrderChunk == [order : Orders, seq : Orders, part : {1, 2}]
AckChunk == [seq : 0..NumOrders, part : {1, 2}]
NoOrder == [order |-> 0, seq |-> 0]
MinOf(a, b) == IF a < b THEN a ELSE b

\* Places of the ring in use, computed from cursors that wrap.
Occupied == (next_write - next_read) % CursorMod

RingFull_OffByOne == Occupied > RingSize

RingFull == Occupied >= RingSize

\* The OMS writes the slot and then advances next_write; a full ring refuses.
\* Order ids are consecutive because only accepted orders take one.
Submit ==
  /\ next_order_id <= NumOrders
  /\ ~RingFull
  /\ data' = [data EXCEPT ![next_write % RingSize] = next_order_id]
  /\ next_order_id' = next_order_id + 1
  /\ next_write' = (next_write + 1) % CursorMod
  /\ UNCHANGED <<next_read, acks, sender, sess, alive, up, down, server, sent, cut>>

-----------------------------------------------------------------------------
(***************************************************************************)
(* drain_acks: one recv that does not block, then the whole ACKs of the    *)
(* buffer; the rest is carried over.  A frame that starts in the middle of *)
(* an ACK has an arbitrary type byte: ignored, or an arbitrary number.     *)
(***************************************************************************)
Frames(buf) == 1..(Len(buf) \div 2)

ReadAcks(buf) ==
  LET heads == {buf[2 * i - 1] : i \in Frames(buf)}
      seqs  == {h.seq : h \in {c \in heads : c.part = 1}} \cup {acked_seq}
      best  == CHOOSE x \in seqs : \A y \in seqs : y <= x
  IN  acked_seq' \in {best} \cup
                     {IF h.part = 2 THEN Garbage ELSE best : h \in heads}

Carried(buf) == SubSeq(buf, 2 * (Len(buf) \div 2) + 1, Len(buf))

drain_acks ==
  \E n \in 0..MinOf(Len(down[sess]), 2 * AckBatch - Len(carry)) :
    LET buf == carry \o SubSeq(down[sess], 1, n)
    IN  IF n = 0 THEN UNCHANGED <<acks, down>>
        ELSE /\ ReadAcks(buf)
             /\ carry' = Carried(buf)
             /\ down' = [down EXCEPT ![sess] = SubSeq(@, n + 1, Len(@))]

Waiting == next_read # next_write

Polls_WithOrders(tick) == tick = 0 /\ Waiting

\* ACKs are polled every AckPoll turns, with and without an order to send.
Polls(tick) == tick = 0

\* One turn of order_sender_thread up to the first send.
Loop ==
  /\ spc = "loop"
  /\ ack_poll_ticks' = (ack_poll_ticks + 1) % AckPoll
  /\ IF Polls(ack_poll_ticks') THEN drain_acks ELSE UNCHANGED <<acks, down>>
  /\ IF Waiting
     THEN /\ spc' = "send"
          /\ msg' = [order |-> data[next_read % RingSize], seq |-> next_seq]
          /\ remaining' = 2
     ELSE UNCHANGED <<spc, msg, remaining>>
  /\ UNCHANGED <<ring, next_seq, sess, alive, up, server, sent, cut>>

Chunk(m, part) == [order |-> m.order, seq |-> m.seq, part |-> part]

\* The kernel took one chunk; after the last one the order leaves the ring.
Taken ==
  /\ remaining' = remaining - 1
  /\ IF remaining = 1
     THEN /\ spc' = "loop"
          /\ msg' = NoOrder
          /\ next_seq' = next_seq + 1
          /\ next_read' = (next_read + 1) % CursorMod
          /\ sent' = [sent EXCEPT ![sess] = Append(@, msg.order)]
     ELSE UNCHANGED <<spc, msg, next_seq, next_read, sent>>
  /\ UNCHANGED <<next_order_id, next_write, data, ack_poll_ticks, acks, sess,
                 alive, down, server, cut>>

SendTaken ==
  /\ spc = "send" /\ alive
  /\ Len(up[sess]) < OrderCap
  /\ up' = [up EXCEPT ![sess] = Append(@, Chunk(msg, 3 - remaining))]
  /\ Taken

\* EAGAIN: the sender reads ACKs and tries again.
SendBlocked ==
  /\ spc = "send" /\ alive
  /\ Len(up[sess]) >= OrderCap
  /\ drain_acks
  /\ UNCHANGED <<ring, sender, sess, alive, up, server, sent, cut>>

\* The connection is gone and the sender's kernel does not know it yet.
SendVanishes ==
  /\ spc = "send" /\ ~alive
  /\ Taken
  /\ UNCHANGED up

FirstSeq_Continues == next_seq

FirstSeq == 1

Resume_Unacked == (next_read - (next_seq - 1 - acked_seq)) % CursorMod

\* Only the order in hand is sent again, not those without an ACK.
Resume == next_read

\* Any other error: reconnect, number the session from 1, send this order
\* again from its first byte.  The carried bytes of drain_acks stay.
SendFails ==
  /\ spc = "send" /\ ~alive
  /\ sess' = sess + 1
  /\ alive' = TRUE
  /\ next_seq' = FirstSeq
  /\ acked_seq' = 0
  /\ next_read' = Resume
  /\ remaining' = 2
  /\ msg' = [msg EXCEPT !.seq = FirstSeq]
  /\ cut' = IF carry = <<>> THEN cut ELSE cut \cup {sess'}
  /\ UNCHANGED <<next_order_id, next_write, data, spc, ack_poll_ticks, carry, up,
                 down, server, sent>>

Sender == Loop \/ SendTaken \/ SendBlocked \/ SendVanishes \/ SendFails

\* The connection breaks: what had reached the other side can still be read.
Break ==
  /\ alive /\ sess < MaxSessions
  /\ alive' = FALSE
  /\ \E i \in 0..Len(up[sess]), j \in 0..Len(down[sess]) :
       /\ up' = [up EXCEPT ![sess] = SubSeq(@, 1, i)]
       /\ down' = [down EXCEPT ![sess] = SubSeq(@, 1, j)]
  /\ UNCHANGED <<ring, acks, sender, sess, server, sent, cut>>

-----------------------------------------------------------------------------
Live(s) == s = sess /\ alive

OldBytes == sbuf

\* handle_client's buffer starts empty.
NoBytes == <<>>

\* Connections wait in the backlog and are served one after the other; each
\* expects number 1 first.
Accept ==
  /\ ~serving /\ served < sess
  /\ served' = served + 1
  /\ serving' = TRUE
  /\ expected_seq' = 1
  /\ sbuf' = NoBytes
  /\ UNCHANGED <<ring, acks, sender, sess, alive, up, down, bad_csum,
                 seq_gaps, duplicates, accepted, lastAck, sent, cut>>

\* recv: any part of what is in the stream.
Recv ==
  /\ serving /\ Len(sbuf) < 2
  /\ \E n \in 1..Len(up[served]) :
       /\ sbuf' = sbuf \o SubSeq(up[served], 1, n)
       /\ up' = [up EXCEPT ![served] = SubSeq(@, n + 1, Len(@))]
  /\ UNCHANGED <<ring, acks, sender, sess, alive, down, served, serving,
                 expected_seq, bad_csum, seq_gaps, duplicates, accepted,
                 lastAck, sent, cut>>

\* send_ack does not block and ignores the result: of the ACKs in seqs, the
\* chunks that fit go out, and on a broken connection none.
AckBytes(seq) == <<[seq |-> seq, part |-> 1], [seq |-> seq, part |-> 2]>>
Room == IF Live(served) THEN AckCap - Len(down[served]) ELSE 0

send_ack(seq) ==
  /\ down' = [down EXCEPT ![served] =
                @ \o SubSeq(AckBytes(seq), 1, MinOf(Room, 2))]
  /\ lastAck' = [sess |-> served, seq |-> seq, whole |-> Room >= 2]
  /\ cut' = IF Room = 1 THEN cut \cup {served} ELSE cut

\* The two ACKs of a gap: the number expected before it, then the order's.
send_acks(first, seq) ==
  LET n == MinOf(Room, 2)
      k == MinOf(Room - n, 2)
  IN  /\ down' = [down EXCEPT ![served] =
                    @ \o SubSeq(AckBytes(first), 1, n)
                      \o SubSeq(AckBytes(seq), 1, k)]
      /\ lastAck' = [sess |-> served, seq |-> seq, whole |-> k = 2]
      /\ cut' = IF Room \in {1, 3} THEN cut \cup {served} ELSE cut

ValidChecksum(f) == f[1].part = 1 /\ f[2] = [f[1] EXCEPT !.part = 2]

AcceptOrder(f) ==
  /\ accepted' = Append(accepted, [order |-> f[1].order, sess |-> served])
  /\ expected_seq' = f[1].seq + 1

AckOf_Next(seq) == seq + 1

AckOf(seq) == seq

\* One wire_order of handle_client's inner loop.
Frame ==
  /\ serving /\ Len(sbuf) >= 2
  /\ sbuf' = SubSeq(sbuf, 3, Len(sbuf))
  /\ LET seq == sbuf[1].seq
     IN  IF ~ValidChecksum(sbuf)
         THEN /\ bad_csum' = bad_csum + 1
              /\ send_ack(seq)
              /\ UNCHANGED <<accepted, expected_seq, seq_gaps, duplicates>>
         ELSE IF seq < expected_seq
         THEN /\ duplicates' = duplicates + 1
              /\ send_ack(expected_seq - 1)
              /\ UNCHANGED <<accepted, expected_seq, seq_gaps, bad_csum>>
         ELSE IF seq > expected_seq
         THEN /\ seq_gaps' = seq_gaps + 1
              /\ AcceptOrder(sbuf) /\ send_acks(expected_seq - 1, AckOf(seq))
              /\ UNCHANGED <<bad_csum, duplicates>>
         ELSE /\ AcceptOrder(sbuf) /\ send_ack(AckOf(seq))
              /\ UNCHANGED <<bad_csum, seq_gaps, duplicates>>
  /\ UNCHANGED <<ring, acks, sender, sess, alive, up, served, serving, sent>>

SessionOver_Never == FALSE

SessionOver == ~Live(served) /\ up[served] = <<>>

\* recv fails or returns 0: the rest of an order is forgotten with the session.
Disconnect ==
  /\ serving /\ Len(sbuf) < 2 /\ SessionOver
  /\ serving' = FALSE
  /\ UNCHANGED <<ring, acks, sender, sess, alive, up, down, served, sbuf,
                 expected_seq, bad_csum, seq_gaps, duplicates, accepted,
                 lastAck, sent, cut>>

Receiver == Accept \/ Recv \/ Frame \/ Disconnect

Init ==
  /\ next_order_id = 1 /\ next_write = 0 /\ next_read = 0
  /\ data = [i \in 0..(RingSize - 1) |-> 0]
  /\ spc = "loop" /\ msg = NoOrder /\ remaining = 0
  /\ next_seq = 1 /\ acked_seq = 0 /\ ack_poll_ticks = 0 /\ carry = <<>>
  /\ sess = 1 /\ alive = TRUE
  /\ up = [s \in Sessions |-> <<>>] /\ down = [s \in Sessions |-> <<>>]
  /\ served = 0 /\ serving = FALSE /\ sbuf = <<>> /\ expected_seq = 1
  /\ bad_csum = 0 /\ seq_gaps = 0 /\ duplicates = 0
  /\ sent = [s \in Sessions |-> <<>>] /\ accepted = <<>>
  /\ lastAck = [sess |-> 0, seq |-> 0, whole |-> FALSE] /\ cut = {}

Next == Submit \/ Sender \/ Break \/ Receiver

Spec == Init /\ [][Next]_vars

\* Both threads spin or block on their socket only; bytes that have arrived
\* are read by one of the polls of drain_acks.
FairSpec == /\ Spec
            /\ WF_vars(Sender) /\ WF_vars(Receiver)
            /\ SF_vars(Loop /\ down' # down)

-----------------------------------------------------------------------------
\* Every variable has its type; the ring never holds more than RingSize orders.
TypeOK ==
  /\ next_order_id \in 1..(NumOrders + 1)
  /\ {next_write, next_read} \subseteq 0..(CursorMod - 1)
  /\ Occupied <= RingSize
  /\ data \in [0..(RingSize - 1) -> 0..NumOrders]
  /\ spc \in {"loop", "send"} /\ remaining \in 0..2
  /\ msg \in [order : Orders, seq : Orders] \cup {NoOrder}
  /\ next_seq \in 1..(NumOrders + 1) /\ acked_seq \in 0..Garbage
  /\ ack_poll_ticks \in 0..(AckPoll - 1)
  /\ carry \in Seq(AckChunk) /\ Len(carry) <= 1
  /\ sess \in Sessions /\ alive \in BOOLEAN
  /\ up \in [Sessions -> Seq(OrderChunk)]
  /\ down \in [Sessions -> Seq(AckChunk)]
  /\ \A s \in Sessions : Len(up[s]) <= OrderCap /\ Len(down[s]) <= AckCap
  /\ served \in 0..sess /\ serving \in BOOLEAN
  /\ sbuf \in Seq(OrderChunk) /\ Len(sbuf) <= OrderCap + 1
  /\ expected_seq \in 1..(NumOrders + 1)
  /\ {bad_csum, seq_gaps, duplicates} \subseteq Nat /\ cut \subseteq Sessions

AcceptedIn(s) == {a.order : a \in {x \in Range(accepted) : x.sess = s}}
InStream(s) == (IF serving /\ s = served THEN sbuf ELSE <<>>) \o up[s]

\* The stream of s holds the orders after the a-th up to the k-th of its
\* connection, one behind the other, and perhaps the first half of one more.
Arriving(s, a, k) ==
  LET z == InStream(s)
  IN  /\ Len(z) \div 2 = k - a
      /\ \A j \in 1..(k - a) : z[2 * j].part = 2 /\ z[2 * j].order = sent[s][a + j]
      /\ \A j \in 1..(k - a + 1) : 2 * j - 1 <= Len(z) => z[2 * j - 1].part = 1

\* The exchange accepts every order at most once and in the order of
\* submission, although an order cut off by a broken connection is sent again.
AcceptedOnceInOrder ==
  \A i, j \in DOMAIN accepted : i < j => accepted[i].order < accepted[j].order

\* The sender numbers each connection from 1 and so does the receiver: it
\* never meets a bad checksum, a gap or a duplicate.
SessionsAgree == bad_csum = 0 /\ seq_gaps = 0 /\ duplicates = 0

\* Orders are lost by a broken connection only, and then only the last ones:
\* of what the kernel took for a connection the first a orders are accepted and
\* the next ones, up to the k-th, arriving; while the connection lives, all.
\* (In which order they are accepted is AcceptedOnceInOrder.)
LostOnlyByBreak ==
  \A s \in Sessions : \E k \in 0..Len(sent[s]) : \E a \in 0..k :
    /\ AcceptedIn(s) = {sent[s][i] : i \in 1..a}
    /\ Arriving(s, a, k)
    /\ Live(s) => k = Len(sent[s])

\* The connections together carry every order taken from the ring exactly once
\* and in order, also when the cursors wrap: the ring is never overfull (TypeOK)
\* and no slot is overwritten before it is sent.
EveryOrderHandedOver ==
  /\ TypeOK
  /\ UNION {Range(sent[s]) : s \in Sessions} = 1..(next_order_id - 1 - Occupied)
  /\ \A s, t \in Sessions : \A i \in DOMAIN sent[s], j \in DOMAIN sent[t] :
       s < t \/ (s = t /\ i < j) => sent[s][i] < sent[t][j]

\* What acked_seq covers, the receiver accepted on this connection, unless an
\* ACK of it was cut short or half an ACK was carried into it.
AckedWasAccepted ==
  sess \notin cut =>
    \A i \in 1..acked_seq : i <= Len(sent[sess]) /\ sent[sess][i] \in AcceptedIn(sess)

\* What the comment on send_ack says: a partially sent ACK is tolerable because the
\* next ACK supersedes it.  Once a whole ACK has followed and the sender has read
\* everything, acked_seq would be at least its number.  TLC refutes it: half an
\* ACK shifts the framing of all that follow.
AckSupersedes ==
  (lastAck.sess = sess /\ lastAck.whole /\ alive /\ down[sess] = <<>>)
    => acked_seq >= lastAck.seq

\* Every order submitted is accepted, unless its connection broke: neither the
\* bounded buffers nor the one-client-at-a-time receiver can hold it up.
OrdersArrive ==
  \A o \in Orders :
    (next_order_id > o) ~>
      (\E s \in Sessions : \/ o \in AcceptedIn(s)
                           \/ ~Live(s) /\ o \in Range(sent[s]))

\* An ACK sent whole is read while its connection lives, by the idle sender too.
AcksArrive ==
  \A o \in Orders :
    (lastAck.sess = sess /\ lastAck.whole /\ lastAck.seq >= o)
      ~> (acked_seq >= o \/ sess \in cut \/ ~alive)
=============================================================================

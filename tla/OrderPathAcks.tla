--------------------------- MODULE OrderPathAcks ---------------------------
(***************************************************************************)
(* Proofs about OrderPath, continued: what a broken connection may lose,   *)
(* and what order_sender may conclude from the ACKs it has read.           *)
(***************************************************************************)
EXTENDS OrderPathProofs

\* A complete order that is arriving is the one handed over under its number.
Linked(s, c) == c.part = 2 => c.seq \in 1..Len(sent[s]) /\ sent[s][c.seq] = c.order

\* The first a orders of a connection.
FirstOf(s, a) == {sent[s][i] : i \in 1..a}

\* Of each connection the first orders are accepted; of one that is not served to
\* its end, those before the number that is read next.
AcceptedFirst(s) ==
  \E a \in 0..Len(sent[s]) : /\ AcceptedIn(s) = FirstOf(s, a)
                             /\ s \in Unread => a = First(s) - 1

\* Sessions the receiver is through with.
Past == {s \in Sessions : s < served \/ (s = served /\ ~serving)}

\* The sender numbers what it hands over, and what arrives and what is accepted are
\* the orders handed over under those numbers.
LinkInv ==
  /\ next_seq = Len(sent[sess]) + 1
  /\ \A s \in Unread : \A j \in 1..Len(Stream[s]) : Linked(s, Stream[s][j])
  /\ \A s \in Past : up[s] = <<>>
  /\ \A s \in Sessions : AcceptedFirst(s)

\* What the sender has still to read of the ACKs of its connection: both halves of
\* each, one ACK after the other.
Pending == carry \o down[sess]

\* First and second halves alternate, and belong together.
AckFramed(z) ==
  \A j \in 1..Len(z) :
    /\ 2 * j - 1 <= Len(z) => z[2 * j - 1].part = 1
    /\ 2 * j <= Len(z) => z[2 * j].part = 2 /\ z[2 * j].seq = z[2 * j - 1].seq

\* As long as no ACK was cut: what is acknowledged and what is pending was expected
\* before, and the last ACK that went out whole has been read or is the last pending.
PendingInv ==
  /\ served < sess => acked_seq = 0 /\ Pending = <<>>
  /\ served = sess => /\ acked_seq < expected_seq
                      /\ \A j \in 1..Len(Pending) : Pending[j].seq < expected_seq
  /\ AckFramed(Pending)
  /\ alive => \E h \in 0..Len(Pending) : Len(Pending) = 2 * h
  /\ alive /\ lastAck.sess = sess /\ lastAck.whole =>
       \/ acked_seq >= lastAck.seq
       \/ Len(Pending) > 0 /\ Pending[Len(Pending)].seq = lastAck.seq

\* ACKs are sent on connections that were accepted, and tell what PendingInv says.
AckInv ==
  /\ lastAck \in [sess : Nat, seq : Nat, whole : BOOLEAN] /\ lastAck.sess <= served
  /\ \A s \in Sessions : s > served => down[s] = <<>>
  /\ sess \notin cut => PendingInv

\* Whatever happens, what was handed over on a connection stays, and more may follow:
\* only the last chunk of the order in hand adds to it.
LEMMA SentStays ==
  ASSUME IInv, SentInv, [Next]_vars
  PROVE  \A s \in Sessions :
           /\ Len(sent[s]) \in Nat /\ Len(sent'[s]) \in Nat /\ Len(sent[s]) <= Len(sent'[s])
           /\ \A i \in 1..Len(sent[s]) : i \in 1..Len(sent'[s]) /\ sent'[s][i] = sent[s][i]
<1>1. sent \in [Sessions -> Seq(Orders)] /\ sess \in Sessions
  BY Zenon DEF SentInv, IInv, TypeInv
<1>2. \A s \in Sessions : Len(sent[s]) \in Nat
  BY <1>1
<1>3. CASE sent' = sent
  BY <1>2, <1>3
<1>4. CASE spc = "send" /\ sent' = [sent EXCEPT ![sess] = Append(@, msg.order)]
  <2>1. PICK n \in Orders : n = msg.order
    <3>1. Occupied > 0 /\ msg.order = NextId
      BY <1>4, Zenon DEF IInv, HandInv
    <3> QED BY <3>1, HandBounds, Zenon
  <2>2. PICK q \in Seq(Orders) : q = sent[sess]
    BY <1>1
  <2>3. PICK l \in Nat : l = Len(q)
    BY <2>2
  <2>4. sent'[sess] = Append(q, n) /\ \A s \in Sessions : s # sess => sent'[s] = sent[s]
    BY <1>1, <1>4, <2>1, <2>2, Zenon
  <2>5. Len(Append(q, n)) = l + 1 /\ \A i \in 1..l : Append(q, n)[i] = q[i]
    BY <2>3, AppendProperties
  <2>6. l <= l + 1 /\ l + 1 \in Nat /\ \A i \in 1..l : i \in 1..(l + 1)
    OBVIOUS
  <2>7. ASSUME NEW s \in Sessions, s # sess
        PROVE  /\ Len(sent[s]) \in Nat /\ Len(sent[s]) <= Len(sent[s]) /\ sent'[s] = sent[s]
    BY <1>2, <2>4, <2>7
  <2> QED BY <2>2, <2>3, <2>4, <2>5, <2>6, <2>7, Zenon
<1>5. CASE spc = "send" /\ Taken
  BY <1>3, <1>4, <1>5, Zenon DEF Taken
<1>6. CASE ~(SendTaken \/ SendVanishes)
  <2>1. sent' = sent
    BY <1>6, ZenonT(30) DEF Next, Sender, Receiver, Submit, Loop, SendBlocked, SendFails, Break,
                            Accept, Recv, Frame, Disconnect, vars
  <2> QED BY <1>3, <2>1, Zenon
<1>7. CASE SendTaken \/ SendVanishes
  BY <1>5, <1>7, Zenon DEF SendTaken, SendVanishes
<1> QED BY <1>6, <1>7, Zenon

\* A session stays unread or is left behind.
LEMMA UnreadShrinks ==
  ASSUME IInv, [Next]_vars
  PROVE  Unread' \subseteq Unread /\ Unread' \subseteq Sessions
<1>1. served \in Int /\ Sessions \subseteq Int
  BY Bounds, Zenon
<1>2. served' = served \/ served' = served + 1
  BY ZenonT(30) DEF Next, Sender, Receiver, Submit, Loop, SendTaken, SendVanishes, Taken, SendBlocked,
         SendFails, Break, Accept, Recv, Frame, Disconnect, server, vars
<1>3. ASSUME NEW s \in Int, s >= served' PROVE s >= served
  BY <1>1, <1>2, <1>3
<1> QED BY <1>1, <1>3, Zenon DEF Unread

\* The chunks of a stream were in it before, except for one that order_sender sent.
LEMMA StreamStep ==
  ASSUME IInv, [Next]_vars, NEW s \in Unread', NEW j \in 1..Len(Stream'[s])
  PROVE  /\ s \in Unread
         /\ \/ \E i \in 1..Len(Stream[s]) : Stream'[s][j] = Stream[s][i]
            \/ SendTaken /\ s = sess /\ Stream'[s][j] = Chunk(msg, 3 - remaining)
<1>1. /\ Stream \in [Sessions -> Seq(Chunks)] /\ sess \in Sessions /\ served \in Int
      /\ \A t \in Sessions : Len(Stream[t]) \in Nat
      /\ TypeInv /\ s \in Sessions /\ Sessions \subseteq Int
  BY Bounds, Zenon DEF IInv, TypeInv, Unread
<1>2. s \in Unread
  BY UnreadShrinks, Zenon
<1>3. CASE Stream' = Stream
  BY <1>2, <1>3, Zenon
<1>4. CASE SendTaken
  <2>1. PICK c : c = Chunk(msg, 3 - remaining)
    OBVIOUS
  <2>2. spc = "send" /\ up' = [up EXCEPT ![sess] = Append(@, c)] /\ UNCHANGED <<serving, served, sbuf>>
    BY <1>4, <2>1, Zenon DEF SendTaken, Taken, server
  <2>3. c \in Chunks
    <3>1. msg \in [order : Int, seq : Int] /\ remaining \in {1, 2}
      BY <1>1, <2>2, Zenon DEF IInv, TypeInv, HandInv
    <3>2. 3 - remaining \in {1, 2}
      BY <3>1
    <3> QED BY <2>1, <3>1, <3>2 DEF Chunk, Chunks
  <2>4. Stream' = [Stream EXCEPT ![sess] = Append(@, c)]
    BY <1>1, <2>2, <2>3, AppendStream, Zenon
  <2>5. CASE s = sess
    <3>1. PICK z \in Seq(Chunks) : z = Stream[s]
      BY <1>1
    <3>2. Stream'[s] = Append(z, c)
      BY <1>1, <2>4, <2>5, <3>1, Zenon
    <3>3. PICK l \in Nat : l = Len(z)
      BY <3>1
    <3>4. /\ Len(Append(z, c)) = l + 1 /\ Append(z, c)[l + 1] = c
          /\ \A i \in 1..l : Append(z, c)[i] = z[i]
      BY <2>3, <3>3, AppendProperties
    <3>5. j \in 1..(l + 1)
      BY <3>2, <3>4, Zenon
    <3>6. j \in 1..l \/ j = l + 1
      BY <3>5
    <3> QED BY <1>2, <1>4, <2>1, <2>5, <3>1, <3>2, <3>3, <3>4, <3>6, Zenon
  <2>6. CASE s # sess
    <3>1. Stream'[s] = Stream[s]
      BY <1>1, <2>4, <2>6, Zenon
    <3> QED BY <1>2, <3>1, Zenon
  <2> QED BY <2>5, <2>6, Zenon
\* The end is cut off, or the first order.
<1>5. CASE \E t \in Sessions, k \in Nat :
             k <= Len(Stream[t]) /\ Stream' = [Stream EXCEPT ![t] = SubSeq(@, 1, k)]
  <2>1. PICK t \in Sessions : \E k \in Nat :
             k <= Len(Stream[t]) /\ Stream' = [Stream EXCEPT ![t] = SubSeq(@, 1, k)]
    BY <1>5, Zenon
  <2>2. PICK k \in Nat : k <= Len(Stream[t]) /\ Stream' = [Stream EXCEPT ![t] = SubSeq(@, 1, k)]
    BY <2>1, Zenon
  <2>3. CASE s = t
    <3>1. PICK z \in Seq(Chunks) : z = Stream[s]
      BY <1>1
    <3>2. Stream'[s] = SubSeq(z, 1, k) /\ k <= Len(z)
      BY <1>1, <2>2, <2>3, <3>1, Zenon
    <3>3. Len(SubSeq(z, 1, k)) = k /\ \A i \in 1..k : SubSeq(z, 1, k)[i] = z[i]
      BY <3>2
    <3>4. j \in 1..k
      BY <3>2, <3>3, Zenon
    <3>5. j \in 1..Len(z)
      BY <3>2, <3>4
    <3> QED BY <1>2, <3>1, <3>2, <3>3, <3>4, <3>5, Zenon
  <2>4. CASE s # t
    <3>1. Stream'[s] = Stream[s]
      BY <1>1, <2>2, <2>4, Zenon
    <3> QED BY <1>2, <3>1, Zenon
  <2> QED BY <2>3, <2>4, Zenon
<1>6. CASE Frame
  <2>1. served \in Sessions
    BY <1>6, ServedSession, Zenon DEF Frame
  <2>2. Stream' = [Stream EXCEPT ![served] = SubSeq(@, 3, Len(@))] /\ Len(Stream[served]) >= 2
    BY <1>1, <1>6, <2>1, FrameStream, Zenon
  <2>3. CASE s = served
    <3>1. PICK z \in Seq(Chunks) : z = Stream[s]
      BY <1>1
    <3>2. Stream'[s] = SubSeq(z, 3, Len(z)) /\ Len(z) >= 2
      BY <1>1, <2>2, <2>3, <3>1, Zenon
    <3>3. /\ Len(SubSeq(z, 3, Len(z))) = Len(z) - 2
          /\ \A i \in 1..(Len(z) - 2) : SubSeq(z, 3, Len(z))[i] = z[i + 2]
      BY <3>2, DropTwo, Zenon
    <3>4. j \in 1..(Len(z) - 2)
      BY <3>2, <3>3, Zenon
    <3>5. j + 2 \in 1..Len(z)
      BY <3>2, <3>4
    <3> QED BY <1>2, <3>1, <3>2, <3>3, <3>4, <3>5, Zenon
  <2>4. CASE s # served
    <3>1. Stream'[s] = Stream[s]
      BY <1>1, <2>2, <2>4, Zenon
    <3> QED BY <1>2, <3>1, Zenon
  <2> QED BY <2>3, <2>4, Zenon
<1>7. CASE Break
  <2>1. UNCHANGED <<serving, served, sbuf>>
    BY <1>7, Zenon DEF Break, server
  <2>2. PICK i \in 0..Len(up[sess]) : up' = [up EXCEPT ![sess] = SubSeq(@, 1, i)]
    BY <1>7, Zenon DEF Break
  <2>3. PICK k \in 0..Len(Stream[sess]) : Stream' = [Stream EXCEPT ![sess] = SubSeq(@, 1, k)]
    BY <1>1, <2>1, <2>2, CutStream, Zenon
  <2>4. k \in Nat /\ k <= Len(Stream[sess])
    BY <1>1
  <2> QED BY <1>1, <1>5, <2>3, <2>4, Zenon
<1>8. CASE Disconnect
  <2>1. served \in Sessions
    BY <1>8, ServedSession, Zenon DEF Disconnect
  <2>2. Stream' = [Stream EXCEPT ![served] = SubSeq(@, 1, 0)]
    BY <1>1, <1>8, <2>1, DisconnectStream, Zenon
  <2>3. 0 \in Nat /\ 0 <= Len(Stream[served])
    BY <1>1, <2>1
  <2> QED BY <1>5, <2>1, <2>2, <2>3, Zenon
<1>9. CASE Accept
  BY <1>1, <1>3, <1>9, AcceptStream, Zenon
<1>10. CASE Recv
  <2>1. served \in Sessions
    BY <1>10, ServedSession, Zenon DEF Recv
  <2> QED BY <1>1, <1>3, <1>10, <2>1, RecvStream, Zenon
<1>11. CASE ~(SendTaken \/ Break \/ Accept \/ Recv \/ Frame \/ Disconnect)
  <2>1. UNCHANGED <<up, serving, served, sbuf>>
    BY <1>11, ZenonT(30) DEF Next, Sender, Receiver, Submit, Loop, SendBlocked, SendVanishes, Taken,
                             SendFails, server, vars
  <2> QED BY <1>3, <2>1, StreamSame, Zenon
<1> QED BY <1>4, <1>6, <1>7, <1>8, <1>9, <1>10, <1>11, Zenon

\* The sender's number is that of the next order it hands over.
LEMMA NumberKept ==
  ASSUME IInv, SentInv, next_seq = Len(sent[sess]) + 1, [Next]_vars
  PROVE  next_seq' = Len(sent'[sess']) + 1
<1>1. sent \in [Sessions -> Seq(Orders)] /\ sess \in Sessions /\ sess \in Nat /\ MaxSessions \in Nat
  <2>1. sent \in [Sessions -> Seq(Orders)] /\ sess \in Sessions /\ MaxSessions \in Nat
    BY ConstantTypes, Zenon DEF SentInv, IInv, TypeInv
  <2> QED BY <2>1 DEF Sessions
<1>2. CASE SendTaken \/ SendVanishes
  <2>1. spc = "send" /\ Taken
    BY <1>2, Zenon DEF SendTaken, SendVanishes
  <2>2. sess' = sess
    BY <2>1, Zenon DEF Taken
  <2>3. CASE remaining = 1
    <3>1. next_seq' = next_seq + 1 /\ sent' = [sent EXCEPT ![sess] = Append(@, msg.order)]
      BY <2>1, <2>3, Zenon DEF Taken
    <3>2. PICK q \in Seq(Orders) : q = sent[sess]
      BY <1>1
    <3>3. PICK o \in Orders : o = msg.order
      <4>1. Occupied > 0 /\ msg.order = NextId
        BY <2>1, Zenon DEF IInv, HandInv
      <4> QED BY <4>1, HandBounds, Zenon
    <3>4. Len(Append(q, o)) = Len(q) + 1
      BY <3>2, <3>3
    <3>5. sent'[sess'] = Append(q, o)
      BY <1>1, <2>2, <3>1, <3>2, <3>3, Zenon
    <3> QED BY <3>1, <3>2, <3>4, <3>5, Zenon
  <2>4. CASE remaining # 1
    <3>1. next_seq' = next_seq /\ sent' = sent
      BY <2>1, <2>4, Zenon DEF Taken
    <3> QED BY <2>2, <3>1, Zenon
  <2> QED BY <2>3, <2>4, Zenon
<1>3. CASE SendFails
  <2>1. sess' = sess + 1 /\ next_seq' = 1 /\ sent' = sent /\ ~alive
    BY <1>3, Zenon DEF SendFails, FirstSeq
  <2>2. sess < MaxSessions
    BY <2>1, Zenon DEF IInv, ConnInv
  <2>3. sess + 1 \in Sessions /\ sess + 1 > sess
    BY <1>1, <2>2 DEF Sessions
  <2>4. sent[sess + 1] = <<>>
    BY <2>3, Zenon DEF SentInv
  <2>5. 1 = Len(<<>>) + 1
    OBVIOUS
  <2> QED BY <2>1, <2>4, <2>5, Zenon
<1>4. CASE ~(SendTaken \/ SendVanishes \/ SendFails)
  <2>1. UNCHANGED <<next_seq, sess, sent>>
    BY <1>4, ZenonT(30) DEF Next, Sender, Receiver, Submit, Loop, SendBlocked, Break, Accept, Recv, Frame,
                            Disconnect, sender, vars
  <2> QED BY <2>1, Zenon
<1> QED BY <1>2, <1>3, <1>4, Zenon

\* A chunk that arrives belongs to the order handed over under its number.
LEMMA LinkedKept ==
  ASSUME IInv, SentInv, LinkInv, [Next]_vars, NEW s \in Unread', NEW j \in 1..Len(Stream'[s])
  PROVE  Linked(s, Stream[s][j])'
<1>1. PICK c : c = Stream'[s][j]
  OBVIOUS
<1>2. s \in Sessions
  BY UnreadShrinks, Zenon
<1>3. CASE s \in Unread /\ \E i \in 1..Len(Stream[s]) : c = Stream[s][i]
  <2>1. Linked(s, c)
    BY <1>3, Zenon DEF LinkInv
  <2>2. CASE c.part = 2
    <3>1. c.seq \in 1..Len(sent[s]) /\ sent[s][c.seq] = c.order
      BY <2>1, <2>2, Zenon DEF Linked
    <3>2. c.seq \in 1..Len(sent'[s]) /\ sent'[s][c.seq] = c.order
      BY <1>2, <3>1, SentStays, Zenon
    <3> QED BY <1>1, <3>2, Zenon DEF Linked
  <2>3. CASE c.part # 2
    BY <1>1, <2>3, Zenon DEF Linked
  <2> QED BY <2>2, <2>3, Zenon
<1>4. CASE SendTaken /\ s = sess /\ c = Chunk(msg, 3 - remaining)
  <2>1. spc = "send" /\ Taken
    BY <1>4, Zenon DEF SendTaken
  <2>2. remaining \in {1, 2} /\ Occupied > 0 /\ msg.order = NextId /\ msg.seq = next_seq
    BY <2>1, Zenon DEF IInv, HandInv
  <2>3. c.part = 3 - remaining /\ c.seq = next_seq /\ c.order = msg.order
    BY <1>4, <2>2 DEF Chunk
  <2>4. CASE remaining = 1
    <3>1. sent' = [sent EXCEPT ![sess] = Append(@, msg.order)]
      BY <2>1, <2>4, Zenon DEF Taken
    <3>2. PICK o \in Orders : o = msg.order
      BY <2>2, HandBounds, Zenon
    <3>3. PICK q \in Seq(Orders) : q = sent[sess]
      BY <1>2, <1>4 DEF SentInv
    <3>4. sent'[s] = Append(q, o)
      <4>1. sent \in [Sessions -> Seq(Orders)]
        BY Zenon DEF SentInv
      <4> QED BY <1>2, <1>4, <3>1, <3>2, <3>3, <4>1, Zenon
    <3>5. next_seq = Len(q) + 1
      BY <3>3, Zenon DEF LinkInv
    <3>6. /\ Len(q) + 1 \in 1..Len(Append(q, o))
          /\ Append(q, o)[Len(q) + 1] = o
      BY <3>2, <3>3
    <3> QED BY <1>1, <2>3, <3>2, <3>4, <3>5, <3>6, Zenon DEF Linked
  <2>5. CASE remaining = 2
    <3>1. c.part # 2
      BY <2>3, <2>5
    <3> QED BY <1>1, <3>1, Zenon DEF Linked
  <2> QED BY <2>2, <2>4, <2>5, Zenon
<1> QED BY <1>1, <1>3, <1>4, StreamStep, Zenon

\* Nothing is left in a connection the receiver is through with.
LEMMA PastEmpty ==
  ASSUME IInv, LinkInv, [Next]_vars, NEW s \in Past'
  PROVE  up'[s] = <<>>
<1>1. /\ TypeInv /\ ConnInv /\ up \in [Sessions -> Seq(Chunks)] /\ sess \in Sessions
      /\ served \in Int /\ Sessions \subseteq Int
  BY Bounds, Zenon DEF IInv, TypeInv
<1>2. s \in Sessions /\ (s < served' \/ (s = served' /\ ~serving'))
  BY Zenon DEF Past
<1>3. \A t \in Past : up[t] = <<>>
  BY Zenon DEF LinkInv
<1>4. alive => sess \notin Past
  <2>1. served \in 0..sess
    BY <1>1, Zenon DEF TypeInv
  <2>2. sess \in Nat
    BY <1>1, ConstantTypes DEF Sessions
  <2>3. ~(sess < served)
    BY <2>1, <2>2
  <2> QED BY <1>1, <2>3, Zenon DEF Past, ConnInv
<1>5. CASE Accept
  <2>1. served' = served + 1 /\ serving' = TRUE /\ ~serving /\ up' = up
    BY <1>5, Zenon DEF Accept
  <2>2. s < served + 1
    BY <1>2, <2>1, Zenon
  <2>3. s < served \/ s = served
    BY <1>1, <1>2, <2>2
  <2> QED BY <1>2, <1>3, <2>1, <2>3, Zenon DEF Past
<1>6. CASE Disconnect
  <2>1. served' = served /\ up' = up /\ up[served] = <<>>
    BY <1>6, Zenon DEF Disconnect, SessionOver
  <2> QED BY <1>2, <1>3, <2>1, Zenon DEF Past
<1>7. CASE served' = served /\ serving' = serving
  <2>1. s \in Past
    BY <1>2, <1>7, Zenon DEF Past
  <2>2. CASE up' = up
    BY <1>3, <2>1, <2>2, Zenon
  <2>3. CASE \E t \in Sessions \ Past : \E v : up' = [up EXCEPT ![t] = v]
    BY <1>1, <1>2, <1>3, <2>1, <2>3, Zenon
  <2>4. CASE SendTaken \/ Break
    <3>1. alive /\ \E v : up' = [up EXCEPT ![sess] = v]
      BY <2>4, Zenon DEF SendTaken, Break
    <3> QED BY <1>1, <1>4, <2>3, <3>1, Zenon
  <2>5. CASE Recv
    <3>1. serving /\ \E v : up' = [up EXCEPT ![served] = v]
      BY <2>5, Zenon DEF Recv
    <3>2. served \in Sessions
      BY <3>1, ServedSession, Zenon
    <3>3. ~(served < served)
      BY <1>1
    <3> QED BY <2>3, <3>1, <3>2, <3>3, Zenon DEF Past
  <2>6. CASE ~(SendTaken \/ Break \/ Recv)
    <3>1. up' = up
      BY <2>6, ZenonT(30) DEF Next, Sender, Receiver, Submit, Loop, SendBlocked, SendVanishes,
                              SendFails, Accept, Frame, Disconnect, vars
    <3> QED BY <2>2, <3>1, Zenon
  <2> QED BY <2>4, <2>5, <2>6, Zenon
<1>8. CASE ~(Accept \/ Disconnect)
  <2>1. served' = served /\ serving' = serving
    BY <1>8, ZenonT(30) DEF Next, Sender, Receiver, Submit, Loop, SendTaken, SendVanishes, Taken,
                            SendBlocked, SendFails, Break, Recv, Frame, server, vars
  <2> QED BY <1>7, <2>1, Zenon
<1> QED BY <1>5, <1>6, <1>8, Zenon

\* The elements of a sequence with one more at its end.
LEMMA RangeAppend ==
  ASSUME NEW S, NEW q \in Seq(S), NEW e \in S
  PROVE  \A x : x \in Range(Append(q, e)) <=> x \in Range(q) \/ x = e
<1>1. PICK n \in Nat : n = Len(q)
  OBVIOUS
<1>2. DOMAIN q = 1..n /\ DOMAIN Append(q, e) = 1..(n + 1)
  BY <1>1
<1>3. Append(q, e)[n + 1] = e /\ \A i \in 1..n : Append(q, e)[i] = q[i]
  BY <1>1
<1>4. n + 1 \in 1..(n + 1) /\ (\A i \in 1..n : i \in 1..(n + 1))
      /\ \A i \in 1..(n + 1) : i \in 1..n \/ i = n + 1
  OBVIOUS
<1>5. ASSUME NEW x \in Range(Append(q, e)) PROVE x \in Range(q) \/ x = e
  BY <1>2, <1>3, <1>4, <1>5, Zenon DEF Range
<1>6. ASSUME NEW x \in Range(q) PROVE x \in Range(Append(q, e))
  BY <1>2, <1>3, <1>4, <1>6, Zenon DEF Range
<1>7. e \in Range(Append(q, e))
  BY <1>2, <1>3, <1>4, Zenon DEF Range
<1> QED BY <1>5, <1>6, <1>7, Zenon

\* The first a orders of a connection stay what they are.
LEMMA FirstStays ==
  ASSUME IInv, SentInv, [Next]_vars, NEW s \in Sessions, NEW a \in 0..Len(sent[s])
  PROVE  FirstOf(s, a)' = FirstOf(s, a) /\ a \in 0..Len(sent'[s])
<1>1. Len(sent[s]) \in Nat /\ Len(sent'[s]) \in Nat /\ Len(sent[s]) <= Len(sent'[s])
  BY SentStays, Zenon
<1>2. a \in 0..Len(sent'[s]) /\ \A i \in 1..a : i \in 1..Len(sent[s])
  BY <1>1
<1>3. \A i \in 1..a : sent'[s][i] = sent[s][i]
  BY <1>2, SentStays, Zenon
<1> QED BY <1>2, <1>3, Zenon DEF FirstOf

\* Of each connection the first orders are accepted, with the next one too.
LEMMA AcceptedKept ==
  ASSUME IInv, IInv', SentInv, LinkInv, [Next]_vars, NEW s \in Sessions
  PROVE  AcceptedFirst(s)'
<1>1. PICK a \in 0..Len(sent[s]) : /\ AcceptedIn(s) = FirstOf(s, a)
                                   /\ s \in Unread => a = First(s) - 1
  BY Zenon DEF LinkInv, AcceptedFirst
<1>2. FirstOf(s, a)' = FirstOf(s, a) /\ a \in 0..Len(sent'[s]) /\ (s \in Unread' => s \in Unread)
  BY FirstStays, UnreadShrinks, Zenon
<1>3. served \in Int /\ s \in Int /\ TypeInv
  BY Bounds, Zenon DEF IInv
<1>4. CASE accepted' = accepted /\ (s \in Unread' => First(s)' = First(s))
  <2>1. AcceptedIn(s)' = AcceptedIn(s)
    BY <1>4, Zenon DEF AcceptedIn, Range
  <2> QED BY <1>1, <1>2, <1>4, <2>1, Zenon DEF AcceptedFirst
<1>5. CASE Accept
  <2>1. accepted' = accepted /\ served' = served + 1 /\ expected_seq' = 1
    BY <1>5, Zenon DEF Accept
  <2>2. ASSUME s \in Unread' PROVE First(s)' = First(s)
    <3>1. s >= served + 1
      BY <2>1, <2>2, Zenon DEF Unread
    <3>2. s # served
      BY <1>3, <3>1
    <3> QED BY <2>1, <3>2, Zenon DEF First
  <2> QED BY <1>4, <2>1, <2>2, Zenon
<1>6. CASE Frame
  <2>1. /\ served \in Sessions /\ served' = served /\ AcceptOrder(sbuf) /\ expected_seq = sbuf[1].seq
        /\ sent' = sent
    BY <1>6, FrameAccepts, Zenon DEF Frame
  <2>2. PICK o, e : o = sbuf[1].order /\ e = expected_seq
    OBVIOUS
  <2>3. accepted' = Append(accepted, [order |-> o, sess |-> served]) /\ expected_seq' = e + 1
    BY <2>1, <2>2, Zenon DEF AcceptOrder
  <2>4. sbuf[1] = Stream[served][1] /\ Len(Stream[served]) >= 2
    BY <1>3, <1>6, <2>1, FrameStream, Zenon
  <2>5. PICK c : c = Stream[served][2]
    OBVIOUS
  <2>6. Stream[served][1] \in Chunks /\ c.part = 2 /\ c.seq = e /\ c.order = o
    BY <2>1, <2>2, <2>4, <2>5, HeadOrder, Zenon
  <2>7. o \in Int /\ e \in Nat /\ served \in Nat
    <3>1. o \in Int
      BY <2>2, <2>4, <2>6, Zenon DEF Chunks
    <3> QED BY <1>3, <2>2, <2>1, <3>1, ConstantTypes DEF TypeInv, Sessions
  <2>8. PICK r \in [order : Int, sess : Nat] : r = [order |-> o, sess |-> served]
    BY <2>7, Zenon
  <2>9. r.sess = served /\ r.order = o
    BY <2>8
  <2>10. \A x : x \in Range(accepted') <=> x \in Range(accepted) \/ x = r
    <3>1. accepted \in Seq([order : Int, sess : Nat])
      BY <1>3, Zenon DEF TypeInv
    <3>2. accepted' = Append(accepted, r)
      BY <2>3, <2>8, Zenon
    <3>3. \A x : x \in Range(Append(accepted, r)) <=> x \in Range(accepted) \/ x = r
      <4>1. PICK T : accepted \in Seq(T) /\ r \in T
        BY <3>1, Zenon
      <4>2. PICK q \in Seq(T) : q = accepted
        BY <4>1, Zenon
      <4>3. PICK d \in T : d = r
        BY <4>1, Zenon
      <4>4. \A x : x \in Range(Append(q, d)) <=> x \in Range(q) \/ x = d
        BY RangeAppend, Zenon
      <4> QED BY <4>2, <4>3, <4>4, Zenon
    <3> QED BY <3>2, <3>3, Zenon
  <2>11. CASE s # served
    <3>1. AcceptedIn(s)' = AcceptedIn(s)
      BY <2>9, <2>10, <2>11, Zenon DEF AcceptedIn
    <3>2. First(s)' = First(s)
      BY <2>1, <2>11, Zenon DEF First
    <3> QED BY <1>1, <1>2, <3>1, <3>2, Zenon DEF AcceptedFirst
  <2>12. CASE s = served
    <3>1. AcceptedIn(s)' = AcceptedIn(s) \cup {o}
      BY <2>9, <2>10, <2>12, Zenon DEF AcceptedIn
    <3>2. s \in Unread
      BY <1>3, <2>1, <2>12 DEF Unread
    <3>3. First(s) = e /\ First(s)' = e + 1 /\ a = e - 1
      BY <1>1, <2>1, <2>2, <2>3, <2>12, <3>2, Zenon DEF First
    <3>4. 2 \in 1..Len(Stream[s])
      <4>1. Len(Stream[s]) \in Nat
        BY Bounds, Zenon
      <4> QED BY <2>4, <2>12, <4>1
    <3>5. Linked(s, c)
      BY <2>5, <2>12, <3>2, <3>4, Zenon DEF LinkInv
    <3>6. e \in 1..Len(sent[s]) /\ sent[s][e] = o
      BY <2>6, <3>5, Zenon DEF Linked
    <3>7. Len(sent[s]) \in Nat
      BY SentStays, Zenon
    <3>8. /\ e \in 0..Len(sent[s]) /\ e = (e + 1) - 1
          /\ \A i \in 1..(e - 1) : i \in 1..e
          /\ \A i \in 1..e : i \in 1..(e - 1) \/ i = e
          /\ e \in 1..e
      BY <3>6, <3>7
    <3>9. FirstOf(s, e) = FirstOf(s, e - 1) \cup {o}
      BY <3>6, <3>8, Zenon DEF FirstOf
    <3>10. AcceptedIn(s)' = FirstOf(s, e)' /\ e \in 0..Len(sent'[s])
      <4>1. FirstOf(s, e)' = FirstOf(s, e)
        BY <2>1, Zenon DEF FirstOf
      <4>2. AcceptedIn(s) = FirstOf(s, e - 1)
        BY <1>1, <3>3, Zenon
      <4> QED BY <2>1, <3>1, <3>8, <3>9, <4>1, <4>2, Zenon
    <3> QED BY <3>3, <3>8, <3>10, Zenon DEF AcceptedFirst
  <2> QED BY <2>11, <2>12, Zenon
<1>7. CASE ~(Accept \/ Frame)
  <2>1. UNCHANGED <<accepted, served, expected_seq>>
    BY <1>7, ZenonT(30) DEF Next, Sender, Receiver, Submit, Loop, SendTaken, SendVanishes, Taken,
                            SendBlocked, SendFails, Break, Recv, Disconnect, server, vars
  <2>2. First(s)' = First(s)
    BY <2>1, Zenon DEF First
  <2> QED BY <1>4, <2>1, <2>2, Zenon
<1> QED BY <1>5, <1>6, <1>7, Zenon

\* Every step keeps what links the streams to the orders handed over.
LEMMA LinkKept ==
  ASSUME IInv, IInv', SentInv, LinkInv, [Next]_vars
  PROVE  LinkInv'
<1>1. next_seq' = Len(sent'[sess']) + 1
  BY NumberKept, Zenon DEF LinkInv
<1> QED BY <1>1, LinkedKept, PastEmpty, AcceptedKept, Zenon DEF LinkInv

\* Nothing was handed over yet.
LEMMA LinkInit ==
  ASSUME Init
  PROVE  LinkInv
<1>1. /\ sess = 1 /\ next_seq = 1 /\ served = 0 /\ serving = FALSE /\ accepted = <<>>
      /\ sent = [s \in Sessions |-> <<>>] /\ up = [s \in Sessions |-> <<>>] /\ expected_seq = 1
  BY Zenon DEF Init
<1>2. 1 \in Sessions /\ \A s \in Sessions : s \in Nat /\ s > 0 /\ ~(s < 0) /\ s # 0
  BY ConstantTypes DEF Sessions
<1>3. Len(<<>>) = 0 /\ 1 = 0 + 1 /\ Range(<<>>) = {} /\ 0 \in 0..0 /\ 0 = 1 - 1 /\ \A i \in 1..0 : FALSE
  BY DEF Range
<1>4. \A s \in Sessions : sent[s] = <<>> /\ up[s] = <<>> /\ First(s) = 1
  BY <1>1, <1>2, Zenon DEF First
<1>5. \A s \in Sessions : Stream[s] = <<>>
  <2>1. <<>> \o <<>> = <<>>
    OBVIOUS
  <2>2. \A s \in Sessions : InStream(s) = <<>>
    BY <1>1, <1>4, <2>1, Zenon DEF InStream
  <2> QED BY <2>2, Zenon DEF Stream
<1>6. \A s \in Sessions : AcceptedIn(s) = {} /\ FirstOf(s, 0) = {}
  BY <1>1, <1>3, Zenon DEF AcceptedIn, FirstOf
<1>7. \A s \in Sessions : AcceptedFirst(s)
  BY <1>3, <1>4, <1>6, Zenon DEF AcceptedFirst
<1>8. \A s \in Past : FALSE
  BY <1>1, <1>2, Zenon DEF Past
<1>9. next_seq = Len(sent[sess]) + 1
  BY <1>1, <1>2, <1>3, <1>4, Zenon
<1>10. \A s \in Unread : s \in Sessions
  BY Zenon DEF Unread
<1>11. \A s \in Unread : \A j \in 1..Len(Stream[s]) : Linked(s, Stream[s][j])
  BY <1>3, <1>5, <1>10, Zenon
<1> QED BY <1>7, <1>8, <1>9, <1>11, Zenon DEF LinkInv

\* From the accepted orders on, what is complete in a stream are the next orders of
\* its connection; while the connection lives, up to the last.
LEMMA LostHolds ==
  ASSUME IInv, SentInv, LinkInv
  PROVE  LostOnlyByBreak
<1> SUFFICES ASSUME NEW s \in Sessions
             PROVE  \E k \in 0..Len(sent[s]) : \E a \in 0..k :
                      /\ AcceptedIn(s) = {sent[s][i] : i \in 1..a}
                      /\ Arriving(s, a, k)
                      /\ Live(s) => k = Len(sent[s])
  BY Zenon DEF LostOnlyByBreak
<1>1. PICK a \in 0..Len(sent[s]) : /\ AcceptedIn(s) = FirstOf(s, a)
                                   /\ s \in Unread => a = First(s) - 1
  BY Zenon DEF LinkInv, AcceptedFirst
<1>2. AcceptedIn(s) = {sent[s][i] : i \in 1..a}
  BY <1>1, Zenon DEF FirstOf
<1>3. PICK l \in Nat : l = Len(sent[s])
  <2>1. sent \in [Sessions -> Seq(Orders)]
    BY Zenon DEF SentInv
  <2> QED BY <2>1
<1>4. a \in Nat /\ a <= l
  BY <1>1, <1>3
<1>5. served \in Int /\ s \in Int /\ TypeInv /\ ConnInv /\ First(s) \in Int /\ sess \in Nat
  <2>1. sess \in Nat
    BY Bounds, ConstantTypes DEF Sessions
  <2> QED BY <2>1, Bounds, Zenon DEF IInv
<1>6. PICK z \in Seq(Chunks) : z = Stream[s] /\ z = InStream(s)
  <2>1. Stream[s] \in Seq(Chunks)
    BY Bounds
  <2> QED BY <2>1, Zenon DEF Stream
<1>7. CASE s \in Past
  <2>1. up[s] = <<>> /\ ~(serving /\ s = served)
    <3>1. ~(served < served)
      BY <1>5
    <3> QED BY <1>7, <3>1, Zenon DEF LinkInv, Past
  <2>2. <<>> \o <<>> = <<>>
    OBVIOUS
  <2>3. z = <<>>
    BY <1>6, <2>1, <2>2, Zenon DEF InStream
  <2>4. /\ Len(z) \div 2 = a - a
        /\ \A j \in 1..(a - a) : FALSE
        /\ \A j \in 1..(a - a + 1) : ~(2 * j - 1 <= Len(z))
        /\ a \in 0..l /\ a \in 0..a
    BY <1>4, <2>3
  <2>5. Arriving(s, a, a)
    BY <1>6, <2>4, Zenon DEF Arriving
  <2>6. ~Live(s)
    <3>1. served \in 0..sess
      BY <1>5, Zenon DEF TypeInv
    <3>2. ~(sess < served)
      BY <1>5, <3>1
    <3> QED BY <1>5, <1>7, <3>2, Zenon DEF Live, Past, ConnInv
  <2> QED BY <1>2, <1>3, <2>4, <2>5, <2>6, Zenon
<1>8. CASE s \notin Past
  <2>1. s \in Unread
    <3>1. s >= served
      BY <1>5, <1>8 DEF Past
    <3> QED BY <3>1, Zenon DEF Unread
  <2>2. Framed(z, First(s)) /\ \A j \in 1..Len(z) : Linked(s, z[j])
    BY <1>6, <2>1, Zenon DEF IInv, FrameInv, LinkInv
  <2>3. PICK f \in Int : f = First(s) /\ a = f - 1
    BY <1>1, <1>5, <2>1
  <2>4. PICK n \in Nat : n = Len(z)
    BY <1>6
  <2>5. PICK h \in Nat : h = n \div 2 /\ (n = 2 * h \/ n = 2 * h + 1)
    BY <2>4
  <2>6. ASSUME NEW j \in 1..h PROVE z[2 * j].part = 2 /\ z[2 * j].order = sent[s][a + j] /\ a + j \in 1..l
    <3>1. j \in 1..n /\ 2 * j <= n /\ 2 * j \in 1..n /\ f + j - 1 = a + j
      BY <2>3, <2>5, <2>6
    <3>2. z[2 * j].part = 2 /\ z[2 * j].seq = a + j
      BY <2>2, <2>3, <2>4, <3>1, Zenon DEF Framed
    <3>3. Linked(s, z[2 * j])
      BY <2>2, <2>4, <3>1, Zenon
    <3> QED BY <1>3, <3>2, <3>3, Zenon DEF Linked
  <2>7. a + h \in 0..l /\ a \in 0..(a + h) /\ (a + h) - a = h
    <3>1. CASE h = 0
      BY <1>4, <3>1
    <3>2. CASE h # 0
      <4>1. h \in 1..h
        BY <3>2
      <4>2. a + h \in 1..l
        BY <2>6, <4>1, Zenon
      <4> QED BY <1>3, <1>4, <4>2
    <3> QED BY <3>1, <3>2, Zenon
  <2>8. ASSUME NEW j \in 1..(h + 1), 2 * j - 1 <= n PROVE z[2 * j - 1].part = 1
    <3>1. j \in 1..n
      BY <2>8
    <3> QED BY <2>2, <2>4, <2>8, <3>1, Zenon DEF Framed
  <2>9. Arriving(s, a, a + h)
    BY <1>6, <2>4, <2>5, <2>6, <2>7, <2>8, Zenon DEF Arriving
  <2>10. ASSUME Live(s) PROVE a + h = l
    <3>1. s = sess /\ alive
      BY <2>10, Zenon DEF Live
    <3>2. 2 * f + n = 2 * next_seq + InHand
      BY <1>6, <2>3, <2>4, <3>1, Zenon DEF IInv, HandInv
    <3>3. next_seq = l + 1
      BY <1>3, <3>1, Zenon DEF LinkInv
    <3>4. InHand = 0 \/ InHand = 1
      BY DEF InHand, IInv, HandInv
    <3>5. PICK d \in Nat : d = InHand /\ d <= 1
      BY <3>4
    <3>6. 2 * f + n = 2 * (l + 1) + d
      BY <3>2, <3>3, <3>5, Zenon
    <3>7. (n = 2 * h \/ n = 2 * h + 1) /\ a = f - 1
      BY <2>3, <2>5, Zenon
    <3> QED BY <3>5, <3>6, <3>7
  <2> QED BY <1>2, <1>3, <2>7, <2>9, <2>10, Zenon
<1> QED BY <1>7, <1>8, Zenon

-----------------------------------------------------------------------------
(* What was acknowledged. *)
\* Whole ACKs read from the front leave whole ACKs and what was behind them.
LEMMA AckDrop ==
  ASSUME NEW z, NEW y, Len(z) \in Nat, NEW h \in Nat, 2 * h <= Len(z), AckFramed(z),
         Len(y) = Len(z) - 2 * h, \A j \in 1..(Len(z) - 2 * h) : y[j] = z[j + 2 * h]
  PROVE  AckFramed(y)
<1>1. PICK n \in Nat : n = Len(z)
  OBVIOUS
<1> SUFFICES ASSUME NEW j \in 1..(n - 2 * h)
             PROVE  /\ 2 * j - 1 <= n - 2 * h => y[2 * j - 1].part = 1
                    /\ 2 * j <= n - 2 * h => y[2 * j].part = 2 /\ y[2 * j].seq = y[2 * j - 1].seq
  BY <1>1, Zenon DEF AckFramed
<1>2. PICK i \in Nat : i = j + h
  OBVIOUS
<1>3. 2 * j - 1 + 2 * h = 2 * i - 1 /\ 2 * j + 2 * h = 2 * i
  BY <1>2
<1>4. ASSUME 2 * j - 1 <= n - 2 * h PROVE y[2 * j - 1].part = 1 /\ y[2 * j - 1] = z[2 * i - 1]
  <2>1. 2 * j - 1 \in 1..(n - 2 * h) /\ i \in 1..n /\ 2 * i - 1 <= n
    BY <1>1, <1>2, <1>4
  <2>2. y[2 * j - 1] = z[2 * i - 1]
    BY <1>1, <1>3, <2>1, Zenon
  <2> QED BY <1>1, <2>1, <2>2, Zenon DEF AckFramed
<1>5. ASSUME 2 * j <= n - 2 * h PROVE y[2 * j].part = 2 /\ y[2 * j].seq = y[2 * j - 1].seq
  <2>1. /\ 2 * j \in 1..(n - 2 * h) /\ i \in 1..n /\ 2 * i <= n
        /\ 2 * j - 1 <= n - 2 * h
    BY <1>1, <1>2, <1>5
  <2>2. y[2 * j] = z[2 * i]
    BY <1>1, <1>3, <2>1, Zenon
  <2> QED BY <1>1, <1>4, <2>1, <2>2, Zenon DEF AckFramed
<1> QED BY <1>4, <1>5, Zenon

\* The end cut off: the rest is framed as before.
LEMMA AckCut ==
  ASSUME NEW z, NEW y, Len(z) \in Nat, NEW k \in 0..Len(z), AckFramed(z),
         Len(y) = k, \A j \in 1..k : y[j] = z[j]
  PROVE  AckFramed(y)
<1>1. PICK n \in Nat : n = Len(z) /\ k \in Nat /\ k <= n
  OBVIOUS
<1> SUFFICES ASSUME NEW j \in 1..k
             PROVE  /\ 2 * j - 1 <= k => y[2 * j - 1].part = 1
                    /\ 2 * j <= k => y[2 * j].part = 2 /\ y[2 * j].seq = y[2 * j - 1].seq
  BY Zenon DEF AckFramed
<1>2. j \in 1..n
  BY <1>1
<1>3. 2 * j - 1 <= k => 2 * j - 1 \in 1..k /\ 2 * j - 1 <= n
  BY <1>1
<1>4. 2 * j <= k => 2 * j \in 1..k /\ 2 * j <= n /\ 2 * j - 1 <= k
  BY <1>1
<1> QED BY <1>1, <1>2, <1>3, <1>4, Zenon DEF AckFramed

\* One more ACK after g whole ones.
LEMMA AckAdd ==
  ASSUME NEW z, NEW y, NEW g \in Nat, Len(z) = 2 * g, AckFramed(z), Len(y) = 2 * g + 2,
         \A j \in 1..(2 * g) : y[j] = z[j],
         y[2 * g + 1].part = 1, y[2 * g + 2].part = 2, y[2 * g + 2].seq = y[2 * g + 1].seq
  PROVE  AckFramed(y)
<1> SUFFICES ASSUME NEW j \in 1..(2 * g + 2)
             PROVE  /\ 2 * j - 1 <= 2 * g + 2 => y[2 * j - 1].part = 1
                    /\ 2 * j <= 2 * g + 2 => y[2 * j].part = 2 /\ y[2 * j].seq = y[2 * j - 1].seq
  BY Zenon DEF AckFramed
<1>1. CASE j <= g
  <2>1. /\ j \in 1..(2 * g) /\ 2 * j - 1 <= 2 * g /\ 2 * j <= 2 * g
        /\ 2 * j - 1 \in 1..(2 * g) /\ 2 * j \in 1..(2 * g)
    BY <1>1
  <2> QED BY <2>1, Zenon DEF AckFramed
<1>2. CASE j = g + 1
  <2>1. 2 * j - 1 = 2 * g + 1 /\ 2 * j = 2 * g + 2
    BY <1>2
  <2> QED BY <2>1, Zenon
<1>3. CASE j > g + 1
  <2>1. ~(2 * j - 1 <= 2 * g + 2) /\ ~(2 * j <= 2 * g + 2)
    BY <1>3
  <2> QED BY <2>1, Zenon
<1>4. j <= g \/ j = g + 1 \/ j > g + 1
  OBVIOUS
<1> QED BY <1>1, <1>2, <1>3, <1>4, Zenon

\* The front of two sequences put together is the first one.
LEMMA FrontOf ==
  ASSUME NEW S, NEW z \in Seq(S), NEW t \in Seq(S)
  PROVE  /\ Len(z \o t) \in Nat /\ Len(z) <= Len(z \o t)
         /\ \A i \in 1..Len(z) : (z \o t)[i] = z[i]
<1>1. PICK a \in Nat, b \in Nat : a = Len(z) /\ b = Len(t)
  OBVIOUS
<1>2. /\ Len(z \o t) = Len(z) + Len(t)
      /\ \A j \in 1..(Len(z) + Len(t)) : (z \o t)[j] = IF j <= Len(z) THEN z[j] ELSE t[j - Len(z)]
  BY ConcatProperties
<1>3. a + b \in Nat /\ a <= a + b /\ \A i \in 1..a : i \in 1..(a + b) /\ i <= a
  OBVIOUS
<1> QED BY <1>1, <1>2, <1>3, Zenon

\* y is z without its first d elements.
Drops(z, y, d) == /\ Len(y) = Len(z) - d
                  /\ \A j \in 1..(Len(z) - d) : y[j] = z[j + d]

\* Elements dropped from the front of the first are dropped from both together.
LEMMA DropFront ==
  ASSUME NEW S, NEW z \in Seq(S), NEW t \in Seq(S), NEW d \in 0..Len(z)
  PROVE  Drops(z \o t, SubSeq(z, d + 1, Len(z)) \o t, d)
<1>1. PICK a \in Nat, b \in Nat : a = Len(z) /\ b = Len(t)
  OBVIOUS
<1>2. PICK k \in Nat \ {0} : k = d + 1 /\ d \in Nat /\ d <= a
  BY <1>1
<1>3. PICK w \in Seq(S) : /\ w = SubSeq(z, k, a) /\ Len(w) = a - d
                          /\ \A i \in 1..(a - d) : w[i] = z[i + d]
  <2>1. /\ SubSeq(z, k, a) \in Seq(S)
        /\ Len(SubSeq(z, k, a)) = IF k <= a THEN a - k + 1 ELSE 0
        /\ \A i \in 1..(a - k + 1) : SubSeq(z, k, a)[i] = z[k + i - 1]
    <3>1. a <= Len(z)
      BY <1>1
    <3> QED BY <3>1, Slice
  <2>2. a - k + 1 = a - d /\ (~(k <= a) => a - d = 0) /\ \A i \in 1..(a - d) : k + i - 1 = i + d
    BY <1>2
  <2>3. Len(SubSeq(z, k, a)) = a - d
    BY <2>1, <2>2, Zenon
  <2>4. \A i \in 1..(a - d) : SubSeq(z, k, a)[i] = z[i + d]
    BY <2>1, <2>2, Zenon
  <2> QED BY <2>1, <2>3, <2>4, Zenon
<1>4. PICK P, y : P = z \o t /\ y = w \o t
  BY Zenon
<1>5. Len(P) = a + b /\ \A j \in 1..(a + b) : P[j] = IF j <= a THEN z[j] ELSE t[j - a]
  <2>1. /\ Len(z \o t) = Len(z) + Len(t)
        /\ \A j \in 1..(Len(z) + Len(t)) : (z \o t)[j] = IF j <= Len(z) THEN z[j] ELSE t[j - Len(z)]
    BY ConcatProperties
  <2> QED BY <1>1, <1>4, <2>1, Zenon
<1>6. PICK c \in Nat : c = a - d
  BY <1>2
<1>7. Len(y) = c + b /\ \A j \in 1..(c + b) : y[j] = IF j <= c THEN w[j] ELSE t[j - c]
  <2>1. /\ Len(w \o t) = Len(w) + Len(t)
        /\ \A j \in 1..(Len(w) + Len(t)) : (w \o t)[j] = IF j <= Len(w) THEN w[j] ELSE t[j - Len(w)]
    BY ConcatProperties
  <2> QED BY <1>1, <1>3, <1>4, <1>6, <2>1, ZenonT(30)
<1>8. c + b = (a + b) - d
  BY <1>2, <1>6
<1>9. ASSUME NEW j \in 1..(c + b) PROVE y[j] = P[j + d]
  <2>1. PICK k2 \in 1..(a + b) : k2 = j + d /\ (j <= c <=> k2 <= a) /\ (j <= c => j \in 1..c) /\ j - c = k2 - a
    BY <1>2, <1>6, <1>9
  <2> QED BY <1>3, <1>5, <1>6, <1>7, <2>1, Zenon
<1>10. Drops(P, y, d)
  BY <1>5, <1>7, <1>8, <1>9, Zenon DEF Drops
<1> QED BY <1>1, <1>2, <1>3, <1>4, <1>10, Zenon

\* drain_acks took the numbers of the first h ACKs and left the rest.
Drained(h) ==
  /\ Len(Pending) \in Nat /\ Len(Pending) > 0 /\ 2 * h <= Len(Pending)
  /\ Len(Pending') = Len(Pending) - 2 * h
  /\ \A j \in 1..(Len(Pending) - 2 * h) : Pending'[j] = Pending[j + 2 * h]
  /\ \A i \in 1..h : Pending[2 * i - 1].seq <= acked_seq'
  /\ acked_seq <= acked_seq'
  /\ acked_seq' = acked_seq \/ \E i \in 1..h : acked_seq' = Pending[2 * i - 1].seq

\* drain_acks takes the numbers of the ACKs it has whole and leaves the others pending.
LEMMA DrainPending ==
  ASSUME AckTypes, sess \in Sessions, drain_acks, AckFramed(Pending), sess' = sess
  PROVE  \/ UNCHANGED <<acked_seq, carry, down>>
         \/ \E h \in Nat : Drained(h)
<1>1. /\ down \in [Sessions -> Seq(AckChunk)] /\ carry \in Seq(AckChunk)
      /\ acked_seq \in 0..Garbage
  BY Zenon DEF AckTypes
<1>2. PICK n \in 0..MinOf(Len(down[sess]), 2 * AckBatch - Len(carry)) :
        LET buf == carry \o SubSeq(down[sess], 1, n)
        IN  IF n = 0 THEN UNCHANGED <<acks, down>>
            ELSE /\ ReadAcks(buf) /\ carry' = Carried(buf)
                 /\ down' = [down EXCEPT ![sess] = SubSeq(@, n + 1, Len(@))]
  BY Zenon DEF drain_acks
<1>3. CASE n = 0
  BY <1>2, <1>3, Zenon DEF acks
<1>4. CASE n # 0
  <2>1. PICK u \in Seq(AckChunk) : u = down[sess]
    BY <1>1, Zenon
  <2>2. n \in 1..Len(u)
    <3>1. PICK a \in Nat, b \in Nat : a = Len(u) /\ b = Len(carry)
      BY <1>1
    <3>2. n \in 0..MinOf(a, 2 * AckBatch - b)
      BY <1>2, <2>1, <3>1, Zenon
    <3> QED BY <1>4, <3>1, <3>2, MoreConstants DEF MinOf
  <2>3. SubSeq(u, 1, n) \in Seq(AckChunk)
    <3>1. n \in Nat /\ n <= Len(u) /\ 1 \in Nat \ {0}
      BY <2>2
    <3> QED BY <3>1, Slice, Zenon
  <2>4. PICK buf \in Seq(AckChunk) : buf = carry \o SubSeq(u, 1, n)
    BY <1>1, <2>3, ConcatProperties, Zenon
  <2>5. /\ ReadAcks(buf) /\ carry' = Carried(buf)
        /\ down' = [down EXCEPT ![sess] = SubSeq(u, n + 1, Len(u))]
    BY <1>2, <1>4, <2>1, <2>4, Zenon
  <2>6. PICK m \in Nat : m = Len(buf)
    BY <2>4
  <2>7. PICK h \in Nat : h = m \div 2 /\ 2 * h <= m
    <3>1. m \div 2 \in Nat /\ 2 * (m \div 2) <= m
      OBVIOUS
    <3> QED BY <3>1, Zenon
  <2>t. PICK t \in Seq(AckChunk) : t = SubSeq(u, n + 1, Len(u))
    <3>1. n + 1 \in Nat \ {0}
      BY <2>2
    <3> QED BY <3>1, Rest, Zenon
  <2>8. PICK P, y : P = buf \o t /\ y = SubSeq(buf, 2 * h + 1, Len(buf)) \o t
    BY Zenon
  <2>9. P = Pending /\ y = Pending'
    <3>1. carry' = SubSeq(buf, 2 * h + 1, Len(buf))
      BY <2>5, <2>6, <2>7, Zenon DEF Carried
    <3>2. down'[sess'] = SubSeq(u, n + 1, Len(u))
      BY <1>1, <2>5, Zenon
    <3>3. buf \o t = carry \o u
      BY <1>1, <2>2, <2>4, <2>t, MoveConcat, Zenon
    <3> QED BY <2>1, <2>8, <2>t, <3>1, <3>2, <3>3, Zenon DEF Pending
  <2>10. /\ Len(P) \in Nat /\ m <= Len(P) /\ Len(y) = Len(P) - 2 * h
         /\ \A j \in 1..(Len(P) - 2 * h) : y[j] = P[j + 2 * h]
         /\ \A i \in 1..m : buf[i] = P[i]
    <3>1. Len(P) \in Nat /\ m <= Len(P) /\ \A i \in 1..m : buf[i] = P[i]
      BY <2>6, <2>8, FrontOf, Zenon
    <3>2. 2 * h \in 0..Len(buf)
      BY <2>6, <2>7
    <3>3. PICK d \in 0..Len(buf) : d = 2 * h
      BY <3>2, Zenon
    <3>4. Drops(buf \o t, SubSeq(buf, d + 1, Len(buf)) \o t, d)
      BY DropFront, Zenon
    <3>5. Drops(P, y, 2 * h)
      BY <2>8, <3>3, <3>4, Zenon
    <3> QED BY <3>1, <3>5, Zenon DEF Drops
  <2>11. m > 0
    <3>1. Len(carry \o SubSeq(u, 1, n)) = Len(carry) + Len(SubSeq(u, 1, n))
      BY <1>1, <2>3, ConcatProperties, Zenon
    <3>2. Len(SubSeq(u, 1, n)) = n
      BY <2>2
    <3> QED BY <1>1, <2>2, <2>4, <2>6, <3>1, <3>2
  <2>12. ASSUME NEW i \in 1..h PROVE buf[2 * i - 1] = P[2 * i - 1] /\ P[2 * i - 1].part = 1
    <3>1. 2 * i - 1 \in 1..m /\ i \in 1..Len(P) /\ 2 * i - 1 <= Len(P)
      BY <2>7, <2>10, <2>12
    <3> QED BY <2>9, <2>10, <3>1, Zenon DEF AckFramed
  <2>13. AckHeads(buf) = {P[2 * i - 1] : i \in 1..h}
    BY <2>6, <2>7, <2>12, Zenon DEF AckHeads, Frames
  <2>14. ASSUME NEW x \in AckHeads(buf) PROVE x.part = 1
    <3>1. PICK i \in 1..h : x = P[2 * i - 1]
      BY <2>13, <2>14, Zenon
    <3> QED BY <2>12, <3>1, Zenon
  <2>15. AckSeqs(buf) = {P[2 * i - 1].seq : i \in 1..h} \cup {acked_seq}
    BY <2>13, <2>14, ZenonT(30) DEF AckSeqs
  <2>16. 1 # 2
    OBVIOUS
  <2>17. acked_seq' \in AckSeqs(buf) /\ \A x \in AckSeqs(buf) : x <= acked_seq'
    BY <1>1, <2>5, <2>14, <2>16, ReadIs, Zenon
  <2>18. Len(P) > 0 /\ 2 * h <= Len(P)
    <3>1. PICK l \in Nat : l = Len(P) /\ m <= l
      BY <2>10, Zenon
    <3>2. 2 * h <= m
      BY <2>7, Zenon
    <3> QED BY <2>11, <3>1, <3>2
  <2> QED BY <2>9, <2>10, <2>15, <2>17, <2>18, Zenon DEF Drained
<1> QED BY <1>3, <1>4, Zenon

\* Reading ACKs keeps what is pending.
LEMMA PendingDrained ==
  ASSUME IInv, AckTypes, AckInv, PendingInv, drain_acks,
         UNCHANGED <<sess, alive, served, expected_seq, lastAck, cut>>
  PROVE  PendingInv'
<1>1. sess \in Sessions /\ served \in Int /\ expected_seq \in Nat /\ acked_seq \in Nat /\ sess \in Int
  <2>1. sess \in Sessions /\ served \in Int /\ Sessions \subseteq Int
    BY Bounds, Zenon
  <2>2. expected_seq \in Nat
    BY Zenon DEF IInv, TypeInv
  <2>3. acked_seq \in Nat
    BY MoreConstants DEF AckTypes, Garbage
  <2> QED BY <2>1, <2>2, <2>3, Zenon
<1>2. CASE UNCHANGED <<acked_seq, carry, down>>
  <2>1. Pending' = Pending
    BY <1>2, Zenon DEF Pending
  <2> QED BY <1>2, <2>1, Zenon DEF PendingInv, AckFramed
<1>3. CASE \E h \in Nat : Drained(h)
  <2>1. PICK h \in Nat : Drained(h)
    BY <1>3, Zenon
  <2>2. PICK P, y : P = Pending /\ y = Pending'
    OBVIOUS
  <2>3. PICK n \in Nat : n = Len(P) /\ n > 0 /\ 2 * h <= n
    BY <2>1, <2>2, Zenon DEF Drained
  <2>4. Len(y) = n - 2 * h /\ \A j \in 1..(n - 2 * h) : y[j] = P[j + 2 * h]
    BY <2>1, <2>2, <2>3, Zenon DEF Drained
  <2>5. AckFramed(P) /\ AckFramed(y)
    <3>1. AckFramed(P)
      BY <2>2, Zenon DEF PendingInv
    <3> QED BY <2>3, <2>4, <3>1, AckDrop, Zenon
  <2>6. ~(served < sess)
    <3>1. Len(<<>>) = 0 /\ ~(0 > 0)
      OBVIOUS
    <3> QED BY <2>2, <2>3, <3>1, Zenon DEF PendingInv
  <2>7. ASSUME served = sess
        PROVE  acked_seq' < expected_seq /\ \A j \in 1..(n - 2 * h) : y[j].seq < expected_seq
    <3>1. acked_seq < expected_seq /\ \A j \in 1..n : P[j].seq < expected_seq
      BY <2>2, <2>3, <2>7, Zenon DEF PendingInv
    <3>2. \A i \in 1..h : 2 * i - 1 \in 1..n
      BY <2>3
    <3>3. \A j \in 1..(n - 2 * h) : j + 2 * h \in 1..n
      BY <2>3
    <3> QED BY <2>1, <2>2, <2>4, <3>1, <3>2, <3>3, Zenon DEF Drained
  <2>8. ASSUME alive PROVE \E g \in 0..Len(y) : Len(y) = 2 * g
    <3>1. PICK g \in 0..n : n = 2 * g
      BY <2>2, <2>3, <2>8, Zenon DEF PendingInv
    <3>2. g - h \in 0..(n - 2 * h) /\ n - 2 * h = 2 * (g - h)
      BY <2>3, <3>1
    <3> QED BY <2>4, <3>2, Zenon
  <2>9. ASSUME alive, lastAck.sess = sess, lastAck.whole
        PROVE  acked_seq' >= lastAck.seq \/ (Len(y) > 0 /\ y[Len(y)].seq = lastAck.seq)
    <3>1. PICK x \in Nat : x = lastAck.seq
      BY Zenon DEF AckInv
    <3>2. acked_seq >= x \/ P[n].seq = x
      BY <2>2, <2>3, <2>9, <3>1, Zenon DEF PendingInv
    <3>3. acked_seq' \in Nat
      <4>1. acked_seq' \in 0..Garbage
        BY <1>1, DrainTypes, Zenon
      <4> QED BY <4>1, MoreConstants DEF Garbage
    <3>4. CASE acked_seq >= x
      <4>1. acked_seq <= acked_seq'
        BY <2>1, Zenon DEF Drained
      <4> QED BY <1>1, <3>1, <3>3, <3>4, <4>1
    <3>5. CASE P[n].seq = x /\ n > 2 * h
      <4>1. n - 2 * h \in 1..(n - 2 * h) /\ (n - 2 * h) + 2 * h = n /\ n - 2 * h > 0
        BY <2>3, <3>5
      <4>2. y[n - 2 * h] = P[n]
        BY <2>4, <4>1, Zenon
      <4> QED BY <2>4, <3>1, <3>5, <4>1, <4>2, Zenon
    <3>6. CASE P[n].seq = x /\ ~(n > 2 * h)
      <4>1. n = 2 * h /\ h \in 1..n /\ h \in 1..h /\ 2 * h <= n
        BY <2>3, <3>6
      <4>2. P[2 * h].seq = P[2 * h - 1].seq
        BY <2>3, <2>5, <4>1, Zenon DEF AckFramed
      <4>3. P[2 * h - 1].seq <= acked_seq'
        BY <2>1, <2>2, <4>1, Zenon DEF Drained
      <4>4. x <= acked_seq'
        BY <3>6, <4>1, <4>2, <4>3, Zenon
      <4> QED BY <3>1, <3>3, <4>4, Zenon
    <3> QED BY <3>2, <3>4, <3>5, <3>6, Zenon
  <2>10. y = Pending' /\ Len(y) = n - 2 * h
    BY <2>2, <2>4, Zenon
  <2>11. AckFramed(Pending)' = AckFramed(y)
    BY <2>10, Zenon DEF AckFramed
  <2> QED BY <2>5, <2>6, <2>7, <2>8, <2>9, <2>10, <2>11, Zenon DEF PendingInv
<1>4. AckFramed(Pending)
  BY Zenon DEF PendingInv
<1> QED BY <1>1, <1>2, <1>3, <1>4, DrainPending, Zenon

\* A broken connection keeps a first part of the ACKs on their way.
LEMMA PendingBroken ==
  ASSUME IInv, AckTypes, PendingInv, Break
  PROVE  PendingInv'
<1>1. /\ down \in [Sessions -> Seq(AckChunk)] /\ carry \in Seq(AckChunk) /\ sess \in Sessions
      /\ alive' = FALSE /\ UNCHANGED <<acked_seq, carry, sess, served, expected_seq>>
  BY Zenon DEF AckTypes, IInv, TypeInv, Break, acks, server
<1>2. PICK i \in 0..Len(down[sess]) : down' = [down EXCEPT ![sess] = SubSeq(@, 1, i)]
  BY Zenon DEF Break
<1>3. PICK u \in Seq(AckChunk) : u = down[sess]
  BY <1>1
<1>4. PICK P \in Seq(AckChunk) : P = carry \o u /\ P = Pending /\ Len(P) = Len(carry) + Len(u)
  <2>1. carry \o u \in Seq(AckChunk) /\ Len(carry \o u) = Len(carry) + Len(u)
    BY <1>1, ConcatProperties, Zenon
  <2> QED BY <1>3, <2>1, Zenon DEF Pending
<1>5. PICK k \in 0..Len(P) : k = Len(carry) + i
  BY <1>1, <1>2, <1>3, <1>4
<1>6. PICK y : y = Pending' /\ y = SubSeq(P, 1, k)
  <2>1. down'[sess'] = SubSeq(u, 1, i)
    BY <1>1, <1>2, <1>3, Zenon
  <2>2. carry \o SubSeq(u, 1, i) = SubSeq(carry \o u, 1, Len(carry) + i)
    BY <1>1, <1>2, <1>3, CutConcat, Zenon
  <2> QED BY <1>1, <1>4, <1>5, <2>1, <2>2, Zenon DEF Pending
<1>7. PICK n \in Nat : n = Len(P)
  BY <1>4
<1>8. Len(y) = k /\ \A j \in 1..k : y[j] = P[j]
  BY <1>4, <1>5, <1>6
<1>9. AckFramed(y)
  <2>1. AckFramed(P)
    BY <1>4, Zenon DEF PendingInv
  <2> QED BY <1>5, <1>7, <1>8, <2>1, AckCut, Zenon
<1>10. AckFramed(Pending)' = AckFramed(y)
  <2>1. Pending' = y
    BY <1>6, Zenon
  <2> QED BY <2>1, Zenon DEF AckFramed
<1>11. ASSUME served < sess PROVE acked_seq = 0 /\ y = <<>>
  <2>1. acked_seq = 0 /\ P = <<>>
    BY <1>4, <1>11, Zenon DEF PendingInv
  <2>2. k = 0
    BY <1>5, <2>1
  <2> QED BY <1>6, <2>1, <2>2
<1>12. ASSUME served = sess
       PROVE  acked_seq < expected_seq /\ \A j \in 1..k : y[j].seq < expected_seq
  <2>1. acked_seq < expected_seq /\ \A j \in 1..n : P[j].seq < expected_seq
    BY <1>4, <1>7, <1>12, Zenon DEF PendingInv
  <2>2. \A j \in 1..k : j \in 1..n
    BY <1>5, <1>7
  <2> QED BY <1>8, <2>1, <2>2, Zenon
<1> QED BY <1>1, <1>6, <1>8, <1>9, <1>10, <1>11, <1>12, Zenon DEF PendingInv

\* A new connection starts without ACKs, unless half an ACK is carried into it.
LEMMA PendingAnew ==
  ASSUME IInv, AckInv, SendFails, sess' \notin cut'
  PROVE  PendingInv'
<1>1. /\ sess' = sess + 1 /\ ~alive /\ acked_seq' = 0 /\ UNCHANGED <<carry, down, served, lastAck>>
      /\ carry = <<>>
  <2>1. /\ sess' = sess + 1 /\ ~alive /\ acked_seq' = 0 /\ UNCHANGED <<carry, down, served, lastAck>>
        /\ cut' = IF carry = <<>> THEN cut ELSE cut \cup {sess'}
    BY Zenon DEF SendFails, server
  <2> QED BY <2>1, Zenon
<1>2. sess \in Nat /\ MaxSessions \in Nat /\ served \in Int /\ served <= sess /\ sess < MaxSessions
  <2>1. sess \in Sessions /\ served \in 0..sess /\ MaxSessions \in Nat /\ sess < MaxSessions
    BY <1>1, ConstantTypes, Zenon DEF IInv, TypeInv, ConnInv
  <2> QED BY <2>1 DEF Sessions
<1>3. /\ sess + 1 \in Sessions /\ sess + 1 > served /\ served < sess + 1 /\ served # sess + 1
  BY <1>2 DEF Sessions
<1>4. down[sess + 1] = <<>>
  BY <1>3, Zenon DEF AckInv
<1>5. <<>> \o <<>> = <<>> /\ Len(<<>>) = 0 /\ 0 \in 0..0 /\ 0 = 2 * 0 /\ \A j \in 1..0 : FALSE
  OBVIOUS
<1>6. Pending' = <<>>
  BY <1>1, <1>4, <1>5, Zenon DEF Pending
<1>7. AckFramed(<<>>)
  BY <1>5, Zenon DEF AckFramed
<1>8. AckFramed(Pending)' = AckFramed(<<>>)
  BY <1>6, Zenon DEF AckFramed
<1>9. lastAck.sess # sess + 1
  <2>1. lastAck.sess \in Nat /\ lastAck.sess <= served
    BY Zenon DEF AckInv
  <2> QED BY <1>2, <2>1
<1> QED BY <1>1, <1>3, <1>5, <1>6, <1>7, <1>8, <1>9, Zenon DEF PendingInv

\* A connection that is accepted has no ACKs yet.
LEMMA PendingAccepted ==
  ASSUME IInv, PendingInv, Accept
  PROVE  PendingInv'
<1>1. /\ served < sess /\ served' = served + 1 /\ expected_seq' = 1
      /\ UNCHANGED <<acked_seq, carry, down, sess, alive, lastAck>>
  BY Zenon DEF Accept, acks
<1>2. Pending' = Pending
  BY <1>1, Zenon DEF Pending
<1>3. acked_seq = 0 /\ Pending = <<>>
  BY <1>1, Zenon DEF PendingInv
<1>4. 0 < 1 /\ Len(<<>>) = 0 /\ \A j \in 1..0 : FALSE
  OBVIOUS
<1>5. AckFramed(Pending)' = AckFramed(Pending)
  BY <1>2, Zenon DEF AckFramed
<1> QED BY <1>1, <1>2, <1>3, <1>4, <1>5, Zenon DEF PendingInv

\* An order is acknowledged: with a whole ACK, or without one.
LEMMA PendingFramed ==
  ASSUME IInv, IInv', WireTypes, AckTypes, AckInv, PendingInv, Frame, sess' \notin cut'
  PROVE  PendingInv'
<1>1. PICK e \in Nat : e = expected_seq
  BY Zenon DEF IInv, TypeInv
<1>2. /\ served \in Sessions /\ served' = served /\ send_ack(e) /\ expected_seq' = e + 1
      /\ UNCHANGED <<acked_seq, carry, sess, alive>>
  BY <1>1, FrameAccepts, Zenon DEF AcceptOrder
<1>3. /\ down \in [Sessions -> Seq(AckChunk)] /\ carry \in Seq(AckChunk) /\ sess \in Sessions
      /\ Len(down[served]) <= AckCap /\ AckCap \in Nat /\ acked_seq \in Nat
  <2>1. acked_seq \in Nat
    BY MoreConstants DEF AckTypes, Garbage
  <2> QED BY <1>2, <2>1, MoreConstants, Zenon DEF AckTypes, IInv, TypeInv
<1>4. /\ down' = [down EXCEPT ![served] = @ \o SubSeq(AckBytes(e), 1, MinOf(Room, 2))]
      /\ lastAck' = [sess |-> served, seq |-> e, whole |-> Room >= 2]
      /\ cut' = IF Room = 1 THEN cut \cup {served} ELSE cut
  BY <1>2, Zenon DEF send_ack
<1>5. lastAck'.sess = served /\ lastAck'.seq = e /\ lastAck'.whole = (Room >= 2)
  BY <1>4
<1>6. /\ served < sess => acked_seq = 0 /\ Pending = <<>>
      /\ served = sess => /\ acked_seq < e /\ \A j \in 1..Len(Pending) : Pending[j].seq < e
      /\ AckFramed(Pending)
      /\ alive => \E h \in 0..Len(Pending) : Len(Pending) = 2 * h
  BY <1>1, Zenon DEF PendingInv
<1>7. CASE served # sess
  <2>1. Pending' = Pending
    BY <1>2, <1>3, <1>4, <1>7, Zenon DEF Pending
  <2>2. AckFramed(Pending)' = AckFramed(Pending)
    BY <2>1, Zenon DEF AckFramed
  <2> QED BY <1>2, <1>5, <1>6, <1>7, <2>1, <2>2, Zenon DEF PendingInv
<1>8. CASE served = sess
  <2>1. PICK u \in Seq(AckChunk) : u = down[served]
    BY <1>2, <1>3
  <2>2. PICK P \in Seq(AckChunk) : P = carry \o u /\ P = Pending
    <3>1. carry \o u \in Seq(AckChunk)
      BY <1>3, ConcatProperties, Zenon
    <3> QED BY <1>8, <2>1, <3>1, Zenon DEF Pending
  <2>3. PICK n \in Nat : n = Len(P)
    BY <2>2
  <2>4. PICK r \in Nat : r = Room /\ r # 1 /\ (r # 0 => alive)
    <3>1. Room # 1
      BY <1>2, <1>4, <1>8, Zenon
    <3>2. PICK l \in Nat : l = Len(u) /\ l <= AckCap
      BY <1>3, <2>1
    <3>3. (Room = AckCap - l /\ alive) \/ Room = 0
      BY <2>1, <3>2, Zenon DEF Room, Live
    <3>4. AckCap - l \in Nat /\ 0 \in Nat
      BY <1>3, <3>2
    <3> QED BY <3>1, <3>3, <3>4, Zenon
  <2>5. acked_seq < e + 1 /\ \A x \in Nat : x < e => x < e + 1
    BY <1>1, <1>3, <1>6, <1>8
  <2>6. ASSUME NEW j \in 1..n PROVE P[j].seq < e + 1
    <3>1. P[j] \in AckChunk
      BY <2>3, ElementOfSeq, Zenon
    <3>2. P[j].seq \in Nat
      BY <3>1, MoreConstants DEF AckChunk
    <3> QED BY <1>6, <1>8, <2>2, <2>3, <2>5, <3>2, Zenon
  <2>7. ~(sess < sess)
    <3>1. sess \in Int
      BY Bounds, Zenon
    <3> QED BY <3>1
  \* No room: the ACK is dropped.
  <2>8. CASE r = 0
    <3>1. MinOf(r, 2) = 0 /\ ~(r >= 2)
      BY <2>8 DEF MinOf
    <3>2. SubSeq(AckBytes(e), 1, 0) = <<>>
      BY DEF AckBytes
    <3>3. u \o <<>> = u
      OBVIOUS
    <3>4. down'[sess'] = u
      BY <1>2, <1>3, <1>4, <1>8, <2>1, <2>4, <3>1, <3>2, <3>3, Zenon
    <3>5. Pending' = P
      BY <1>2, <2>2, <3>4, Zenon DEF Pending
    <3>6. AckFramed(Pending)' = AckFramed(Pending)
      <4>1. Pending' = Pending
        BY <2>2, <3>5, Zenon
      <4> QED BY <4>1, Zenon DEF AckFramed
    <3>7. ~lastAck'.whole
      BY <1>5, <2>4, <3>1, Zenon
    <3> QED BY <1>2, <1>6, <1>8, <2>2, <2>3, <2>5, <2>6, <2>7, <3>5, <3>6, <3>7, Zenon DEF PendingInv
  \* The ACK goes out whole.
  <2>9. CASE r >= 2
    <3>1. MinOf(r, 2) = 2 /\ r # 0
      BY <2>9 DEF MinOf
    <3>2. PICK x \in AckChunk, y \in AckChunk :
             x = [seq |-> e, part |-> 1] /\ y = [seq |-> e, part |-> 2]
      <4>1. e \in 0..NumOrders
        <5>1. sbuf \in Seq(OrderChunk) /\ Len(sbuf) >= 2 /\ e = sbuf[1].seq
          BY <1>1, FrameAccepts, Zenon DEF WireTypes
        <5>2. sbuf[1] \in OrderChunk
          BY <5>1
        <5> QED BY <5>1, <5>2, MoreConstants DEF OrderChunk, Orders
      <4> QED BY <4>1, Zenon DEF AckChunk
    <3>3. x.seq = e /\ x.part = 1 /\ y.seq = e /\ y.part = 2
      BY <3>2
    <3>4. PICK b \in Seq(AckChunk) : b = <<x, y>> /\ Len(b) = 2 /\ b[1] = x /\ b[2] = y
      <4>1. <<x, y>> \in Seq(AckChunk) /\ Len(<<x, y>>) = 2 /\ <<x, y>>[1] = x /\ <<x, y>>[2] = y
        OBVIOUS
      <4> QED BY <4>1, Zenon
    <3>5. SubSeq(AckBytes(e), 1, MinOf(Room, 2)) = b
      <4>1. AckBytes(e) = b
        BY <3>2, <3>4, Zenon DEF AckBytes
      <4>2. SubSeq(b, 1, Len(b)) = b
        BY SubSeqFull, Zenon
      <4> QED BY <2>4, <3>1, <3>4, <4>1, <4>2, Zenon
    <3>6. Pending' = P \o b
      <4>1. down'[sess'] = u \o b
        BY <1>2, <1>3, <1>4, <1>8, <2>1, <3>5, Zenon
      <4>2. Associates(carry, u, b)
        BY <1>3, ConcatParts, Zenon
      <4> QED BY <1>2, <2>2, <4>1, <4>2, Zenon DEF Pending, Associates
    <3>7. PICK z : z = Pending' /\ z = P \o b
      BY <3>6, Zenon
    <3>8. PICK g \in Nat : n = 2 * g
      <4>1. \E h \in 0..n : n = 2 * h
        BY <1>6, <2>2, <2>3, <2>4, <3>1, Zenon
      <4> QED BY <4>1
    <3>9. /\ Len(z) = n + 2
          /\ \A j \in 1..(n + 2) : z[j] = IF j <= n THEN P[j] ELSE b[j - n]
      <4>1. /\ Len(P \o b) = Len(P) + Len(b)
            /\ \A j \in 1..(Len(P) + Len(b)) :
                 (P \o b)[j] = IF j <= Len(P) THEN P[j] ELSE b[j - Len(P)]
        BY ConcatProperties, Zenon
      <4> QED BY <2>3, <3>4, <3>7, <4>1, Zenon
    <3>10. (\A j \in 1..n : z[j] = P[j]) /\ z[n + 1] = x /\ z[n + 2] = y
      <4>1. /\ \A j \in 1..n : j \in 1..(n + 2) /\ j <= n
            /\ n + 1 \in 1..(n + 2) /\ ~(n + 1 <= n) /\ (n + 1) - n = 1
            /\ n + 2 \in 1..(n + 2) /\ ~(n + 2 <= n) /\ (n + 2) - n = 2
        OBVIOUS
      <4> QED BY <3>4, <3>9, <4>1, Zenon
    <3>11. AckFramed(z)
      <4>1. Len(P) = 2 * g /\ Len(z) = 2 * g + 2 /\ AckFramed(P)
        BY <1>6, <2>2, <2>3, <3>8, <3>9, Zenon
      <4>2. /\ \A j \in 1..(2 * g) : z[j] = P[j]
            /\ z[2 * g + 1].part = 1 /\ z[2 * g + 2].part = 2 /\ z[2 * g + 2].seq = z[2 * g + 1].seq
        BY <3>3, <3>8, <3>10, Zenon
      <4> QED BY <4>1, <4>2, AckAdd, Zenon
    <3>12. AckFramed(Pending)' = AckFramed(z)
      <4>1. Pending' = z
        BY <3>7, Zenon
      <4> QED BY <4>1, Zenon DEF AckFramed
    <3>13. ASSUME NEW j \in 1..(n + 2) PROVE z[j].seq < e + 1
      <4>1. j \in 1..n \/ j = n + 1 \/ j = n + 2
        OBVIOUS
      <4>2. e < e + 1
        BY <1>1
      <4> QED BY <2>6, <3>3, <3>10, <4>1, <4>2, Zenon
    <3>14. g + 1 \in 0..(n + 2) /\ n + 2 = 2 * (g + 1) /\ n + 2 > 0
      BY <3>8
    <3>15. z[Len(z)].seq = lastAck'.seq
      BY <1>5, <3>3, <3>9, <3>10, Zenon
    <3> QED BY <1>2, <1>8, <2>5, <2>7, <3>7, <3>9, <3>11, <3>12, <3>13, <3>14, <3>15, Zenon DEF PendingInv
  <2> QED BY <2>4, <2>8, <2>9
<1> QED BY <1>7, <1>8, Zenon

\* A step that leaves the ACKs alone.
LEMMA PendingSame ==
  ASSUME PendingInv, UNCHANGED <<acked_seq, carry, down, sess, alive, served, expected_seq, lastAck>>
  PROVE  PendingInv'
<1>1. Pending' = Pending
  BY Zenon DEF Pending
<1> QED BY <1>1, Zenon DEF PendingInv, AckFramed

\* What a step does to the ACKs: it is one of four that do, reads some, or nothing.
LEMMA AckSteps ==
  ASSUME [Next]_vars, ~(SendFails \/ Break \/ Accept \/ Frame)
  PROVE  /\ UNCHANGED <<sess, alive, served, expected_seq, lastAck, cut>>
         /\ drain_acks \/ UNCHANGED <<acked_seq, carry, down>>
BY ZenonT(30) DEF Next, Sender, Receiver, Submit, Loop, SendTaken, SendBlocked, SendVanishes, Taken,
                  Recv, Disconnect, acks, server, vars

\* A session after the next accepted connection is after the accepted one.
LEMMA StillLater ==
  ASSUME NEW a \in Int, NEW b, NEW s \in Int, b = a \/ b = a + 1, s > b
  PROVE  s > a
OBVIOUS

\* ACKs are sent on connections that were accepted.
LEMMA DownEmpty ==
  ASSUME IInv, IInv', AckTypes, AckInv, [Next]_vars, NEW s \in Sessions, s > served'
  PROVE  down'[s] = <<>>
<1>1. /\ served \in Int /\ s \in Int /\ sess \in Sessions /\ down \in [Sessions -> Seq(AckChunk)]
  BY Bounds, Zenon DEF AckTypes
<1>2. s > served
  <2>1. served' = served \/ served' = served + 1
    BY ZenonT(30) DEF Next, Sender, Receiver, Submit, Loop, SendTaken, SendVanishes, Taken, SendBlocked,
           SendFails, Break, Accept, Recv, Frame, Disconnect, server, vars
  <2> QED BY <1>1, <2>1, StillLater, Zenon
<1>3. down[s] = <<>>
  BY <1>2, Zenon DEF AckInv
<1>4. CASE down' = down
  BY <1>3, <1>4, Zenon
<1>5. CASE Break
  <2>1. PICK j \in 0..Len(down[sess]) : down' = [down EXCEPT ![sess] = SubSeq(@, 1, j)]
    BY <1>5, Zenon DEF Break
  <2>2. CASE s = sess
    <3>1. down'[s] = SubSeq(<<>>, 1, j) /\ j \in 0..Len(<<>>)
      BY <1>1, <1>3, <2>1, <2>2, Zenon
    <3> QED BY <3>1
  <2>3. CASE s # sess
    BY <1>1, <1>3, <2>1, <2>3, Zenon
  <2> QED BY <2>2, <2>3, Zenon
<1>6. CASE Frame
  <2>1. \E v : down' = [down EXCEPT ![served] = v]
    BY <1>6, FrameAccepts, Zenon DEF send_ack
  <2>2. s # served
    BY <1>1, <1>2
  <2> QED BY <1>1, <1>3, <2>1, <2>2, Zenon
<1>7. CASE drain_acks
  <2>1. PICK n \in 0..MinOf(Len(down[sess]), 2 * AckBatch - Len(carry)) :
          \/ n = 0 /\ down' = down
          \/ n # 0 /\ \E v : down' = [down EXCEPT ![sess] = v]
    BY <1>7, Zenon DEF drain_acks
  <2>2. CASE s = sess
    <3>1. n \in 0..MinOf(0, 2 * AckBatch - Len(carry))
      <4>1. Len(<<>>) = 0
        OBVIOUS
      <4> QED BY <1>3, <2>1, <2>2, <4>1, Zenon
    <3>2. PICK b \in Nat : b = Len(carry)
      BY DEF AckTypes
    <3>3. n = 0
      BY <3>1, <3>2, MoreConstants DEF MinOf
    <3> QED BY <1>3, <2>1, <3>3, Zenon
  <2>3. CASE s # sess
    BY <1>1, <1>3, <2>1, <2>3, Zenon
  <2> QED BY <2>2, <2>3, Zenon
<1>8. CASE SendFails \/ Accept
  <2>1. down' = down
    BY <1>8, Zenon DEF SendFails, Accept
  <2> QED BY <1>4, <2>1, Zenon
<1> QED BY <1>4, <1>5, <1>6, <1>7, <1>8, AckSteps, Zenon

\* Every step keeps what the sender may conclude from the ACKs.
LEMMA AckInvKept ==
  ASSUME IInv, IInv', WireTypes, AckTypes, AckInv, [Next]_vars
  PROVE  AckInv'
<1>1. \A s \in Sessions : s > served' => down'[s] = <<>>
  BY DownEmpty, Zenon
<1>2. lastAck \in [sess : Nat, seq : Nat, whole : BOOLEAN] /\ lastAck.sess <= served
  BY Zenon DEF AckInv
<1>3. lastAck' \in [sess : Nat, seq : Nat, whole : BOOLEAN] /\ lastAck'.sess <= served'
  <2>1. CASE Frame
    <3>1. /\ served' = served /\ served \in Sessions
          /\ lastAck' = [sess |-> served, seq |-> sbuf[1].seq, whole |-> Room >= 2]
          /\ expected_seq = sbuf[1].seq
      BY <2>1, FrameAccepts, Zenon DEF send_ack
    <3>2. served \in Nat
      BY <3>1, ConstantTypes DEF Sessions
    <3>3. expected_seq \in Nat
      BY Zenon DEF IInv, TypeInv
    <3>4. (Room >= 2) \in BOOLEAN
      OBVIOUS
    <3> QED BY <3>1, <3>2, <3>3, <3>4
  <2>2. CASE Accept
    <3>1. lastAck' = lastAck /\ served' = served + 1
      BY <2>2, Zenon DEF Accept
    <3>2. lastAck.sess <= served + 1
      <4>1. served \in Int /\ lastAck.sess \in Nat
        BY <1>2, Bounds, Zenon
      <4> QED BY <1>2, <4>1
    <3> QED BY <1>2, <3>1, <3>2, Zenon
  <2>3. CASE SendFails \/ Break
    <3>1. lastAck' = lastAck /\ served' = served
      BY <2>3, Zenon DEF SendFails, Break, server
    <3> QED BY <1>2, <3>1, Zenon
  <2> QED BY <1>2, <2>1, <2>2, <2>3, AckSteps, Zenon
<1>4. ASSUME sess' \notin cut' PROVE PendingInv'
  <2>1. CASE SendFails
    BY <1>4, <2>1, PendingAnew, Zenon
  <2>2. ASSUME ~SendFails PROVE PendingInv
    <3>1. sess' = sess
      BY <2>2, ZenonT(30) DEF Next, Sender, Receiver, Submit, Loop, SendTaken, SendBlocked, SendVanishes,
             Taken, Break, Accept, Recv, Frame, Disconnect, vars
    <3>2. cut \subseteq cut'
      <4>1. CASE Frame
        BY <4>1, FrameAccepts, Zenon DEF send_ack
      <4>2. CASE Break \/ Accept
        BY <4>2, Zenon DEF Break, Accept
      <4> QED BY <2>2, <4>1, <4>2, AckSteps, Zenon
    <3> QED BY <1>4, <3>1, <3>2, Zenon DEF AckInv
  <2>3. CASE Break
    BY <2>3, <2>2, PendingBroken, PendingAnew, <2>1, Zenon
  <2>4. CASE Accept
    BY <2>4, <2>2, PendingAccepted, <2>1, Zenon
  <2>5. CASE Frame
    BY <1>4, <2>5, <2>2, PendingFramed, <2>1, Zenon
  <2>6. CASE ~(SendFails \/ Break \/ Accept \/ Frame)
    BY <2>2, <2>6, AckSteps, PendingDrained, PendingSame, Zenon
  <2> QED BY <2>1, <2>3, <2>4, <2>5, <2>6, Zenon
<1> QED BY <1>1, <1>3, <1>4, Zenon DEF AckInv

\* No ACK was sent yet.
LEMMA AckInvInit ==
  ASSUME Init
  PROVE  AckInv
<1>1. /\ carry = <<>> /\ down = [s \in Sessions |-> <<>>] /\ sess = 1 /\ served = 0 /\ acked_seq = 0
      /\ lastAck = [sess |-> 0, seq |-> 0, whole |-> FALSE]
  BY Zenon DEF Init
<1>2. 1 \in Sessions
  BY ConstantTypes DEF Sessions
<1>3. <<>> \o <<>> = <<>> /\ Len(<<>>) = 0 /\ 0 \in 0..0 /\ 0 = 2 * 0 /\ (\A j \in 1..0 : FALSE) /\ 0 # 1
  OBVIOUS
<1>4. Pending = <<>>
  BY <1>1, <1>2, <1>3, Zenon DEF Pending
<1>5. AckFramed(<<>>)
  BY <1>3, Zenon DEF AckFramed
<1>6. /\ lastAck \in [sess : Nat, seq : Nat, whole : BOOLEAN] /\ lastAck.sess <= served
      /\ lastAck.sess = 0
  BY <1>1
<1>7. PendingInv
  BY <1>1, <1>3, <1>4, <1>5, <1>6, Zenon DEF PendingInv
<1>8. \A s \in Sessions : down[s] = <<>>
  BY <1>1, Zenon
<1> QED BY <1>6, <1>7, <1>8, Zenon DEF AckInv

\* What is acknowledged is among the orders accepted on the connection.
LEMMA AckedHolds ==
  ASSUME IInv, SentInv, LinkInv, AckTypes, AckInv
  PROVE  AckedWasAccepted
<1> SUFFICES ASSUME sess \notin cut, NEW i \in 1..acked_seq
             PROVE  i <= Len(sent[sess]) /\ sent[sess][i] \in AcceptedIn(sess)
  BY Zenon DEF AckedWasAccepted
<1>1. PendingInv
  BY Zenon DEF AckInv
<1>2. /\ acked_seq \in Nat /\ sess \in Sessions /\ served \in Int /\ sess \in Int /\ served <= sess
      /\ expected_seq \in Nat
  <2>1. acked_seq \in Nat
    BY MoreConstants DEF AckTypes, Garbage
  <2>2. sess \in Sessions /\ served \in 0..sess /\ expected_seq \in Nat
    BY Zenon DEF IInv, TypeInv
  <2> QED BY <2>1, <2>2, ConstantTypes DEF Sessions
<1>3. acked_seq # 0
  BY <1>2
<1>4. ~(served < sess)
  BY <1>1, <1>3, Zenon DEF PendingInv
<1>5. served = sess /\ sess >= served
  BY <1>2, <1>4
<1>6. acked_seq < expected_seq
  BY <1>1, <1>5, Zenon DEF PendingInv
<1>7. PICK a \in 0..Len(sent[sess]) : /\ AcceptedIn(sess) = FirstOf(sess, a)
                                      /\ sess \in Unread => a = First(sess) - 1
  BY <1>2, Zenon DEF LinkInv, AcceptedFirst
<1>8. a = expected_seq - 1
  BY <1>2, <1>5, <1>7, Zenon DEF Unread, First
<1>9. PICK l \in Nat : l = Len(sent[sess])
  BY <1>2 DEF SentInv
<1>10. i \in 1..a /\ i <= l
  <2>1. a \in Nat /\ i \in Nat /\ 1 <= i /\ i <= acked_seq
    BY <1>2, <1>7, <1>9
  <2>2. a <= l
    BY <1>7, <1>9
  <2>3. i <= a
    BY <1>2, <1>6, <1>8, <2>1
  <2> QED BY <2>1, <2>2, <2>3
<1> QED BY <1>7, <1>9, <1>10, Zenon DEF FirstOf

\* AckSupersedes for connections whose ACKs were sent whole or not at all.
DroppedAcksSuperseded == sess \notin cut => AckSupersedes

\* With nothing left to read, the last whole ACK has been read.
LEMMA SupersedesHolds ==
  ASSUME IInv, AckTypes, AckInv
  PROVE  DroppedAcksSuperseded
<1> SUFFICES ASSUME lastAck.sess = sess, lastAck.whole, alive, down[sess] = <<>>, sess \notin cut
             PROVE  acked_seq >= lastAck.seq
  BY Zenon DEF AckSupersedes, DroppedAcksSuperseded
<1>1. PendingInv
  BY Zenon DEF AckInv
<1>2. PICK c \in Seq(AckChunk) : c = carry /\ Len(c) <= 1
  BY Zenon DEF AckTypes
<1>3. c \o <<>> = c
  OBVIOUS
<1>4. Pending = c
  BY <1>2, <1>3, Zenon DEF Pending
<1>5. PICK n \in Nat : n = Len(c) /\ n <= 1
  BY <1>2
<1>6. PICK h \in 0..n : n = 2 * h
  BY <1>1, <1>4, <1>5, Zenon DEF PendingInv
<1>7. ~(n > 0)
  BY <1>5, <1>6
<1> QED BY <1>1, <1>4, <1>5, <1>7, Zenon DEF PendingInv

\* What links the streams to the orders handed over, and the ACKs to the orders
\* accepted, holds in every reachable state.
THEOREM LinksInductive == Spec => [](SentInv /\ LinkInv /\ WireTypes /\ AckTypes /\ AckInv)
<1> DEFINE G == SentInv /\ LinkInv /\ WireTypes /\ AckTypes /\ AckInv
<1>1. Init => G
  BY SentInit, LinkInit, TypesInit, AckInvInit, Zenon
<1>2. IInv /\ IInv' /\ G /\ [Next]_vars => G'
  BY SentKept, LinkKept, WireKept, AckKept, AckInvKept, Zenon
<1> QED BY <1>1, <1>2, OrdersInductive, PTL DEF Spec

\* Orders are lost by a broken connection only, and then only the last ones handed
\* over on it, for every number of orders, connections and broken connections, every
\* size of ring and buffers, and wherever recv cuts the stream.
THEOREM OrdersLost == Spec => []LostOnlyByBreak
<1>1. IInv /\ SentInv /\ LinkInv => LostOnlyByBreak
  BY LostHolds, Zenon
<1> QED BY <1>1, OrdersInductive, LinksInductive, PTL

\* What acked_seq covers, order_receiver accepted on this connection, unless an ACK
\* of it was cut short or half an ACK was carried into it.
THEOREM AcksAccepted == Spec => []AckedWasAccepted
<1>1. IInv /\ SentInv /\ LinkInv /\ AckTypes /\ AckInv => AckedWasAccepted
  BY AckedHolds, Zenon
<1> QED BY <1>1, OrdersInductive, LinksInductive, PTL

\* The true part of the comment on send_ack: an ACK that went out whole supersedes
\* the ones that found no room before it, as long as none was cut.
THEOREM AcksSupersede == Spec => []DroppedAcksSuperseded
<1>1. IInv /\ AckTypes /\ AckInv => DroppedAcksSuperseded
  BY SupersedesHolds, Zenon
<1> QED BY <1>1, OrdersInductive, LinksInductive, PTL
=============================================================================

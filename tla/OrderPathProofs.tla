-------------------------- MODULE OrderPathProofs --------------------------
(***************************************************************************)
(* Proofs about OrderPath for every number of orders and connections, ring *)
(* and buffer sizes: sender and receiver agree on the sequence numbers of  *)
(* every connection, orders are accepted once, in order of submission, and *)
(* every order taken from the ring was handed over on one connection.      *)
(***************************************************************************)
EXTENDS OrderPath, WellFoundedInduction, TLAPS

(***************************************************************************)
(* The facts about sequences the order path rests on: the socket's bytes,  *)
(* the receiver's buffer and the orders handed over are sequences that     *)
(* grow at the tail and are cut.                                           *)
(***************************************************************************)

\* A sequence is a function on the positions up to its length.
LEMMA LenProperties ==
  ASSUME NEW S, NEW seq \in Seq(S)
  PROVE  /\ Len(seq) \in Nat
         /\ seq \in [1..Len(seq) -> S]
         /\ DOMAIN seq = 1..Len(seq)
  BY SMT

\* What a sequence holds at a position is one of its elements.
LEMMA ElementOfSeq ==
  ASSUME NEW S, NEW seq \in Seq(S), NEW n \in 1..Len(seq)
  PROVE  seq[n] \in S
  BY SMT

\* Sequences that agree everywhere are the same.
LEMMA SeqEqual ==
  ASSUME NEW S, NEW s \in Seq(S), NEW t \in Seq(S),
         Len(s) = Len(t), \A i \in 1..Len(s) : s[i] = t[i]
  PROVE  s = t
  BY SMT

\* One sequence after another.
LEMMA ConcatProperties ==
  ASSUME NEW S, NEW s1 \in Seq(S), NEW s2 \in Seq(S)
  PROVE  /\ s1 \o s2 \in Seq(S)
         /\ Len(s1 \o s2) = Len(s1) + Len(s2)
         /\ \A i \in 1..(Len(s1) + Len(s2)) :
              (s1 \o s2)[i] = IF i <= Len(s1) THEN s1[i] ELSE s2[i - Len(s1)]
  BY SMT

\* Nothing before or after a sequence.
LEMMA ConcatEmptySeq ==
  ASSUME NEW S, NEW seq \in Seq(S)
  PROVE  /\ seq \o << >> = seq
         /\ << >> \o seq = seq
  BY SMT

\* Cutting a piece out of a sequence.
LEMMA SubSeqProperties ==
  ASSUME NEW S, NEW s, NEW m \in Int, NEW n \in Int,
         \A i \in m..n : s[i] \in S
  PROVE  /\ SubSeq(s, m, n) \in Seq(S)
         /\ Len(SubSeq(s, m, n)) = IF m <= n THEN n - m + 1 ELSE 0
         /\ \A i \in 1..(n - m + 1) : SubSeq(s, m, n)[i] = s[m + i - 1]
  BY SMT

\* A piece that ends before it begins.
LEMMA SubSeqEmpty ==
  ASSUME NEW s, NEW m \in Int, NEW n \in Int, n < m
  PROVE  SubSeq(s, m, n) = << >>
  BY SMT

\* The whole sequence as a piece of itself.
LEMMA SubSeqFull ==
  ASSUME NEW S, NEW seq \in Seq(S)
  PROVE  SubSeq(seq, 1, Len(seq)) = seq
  BY SMT

\* Adding at the tail.
LEMMA AppendProperties ==
  ASSUME NEW S, NEW seq \in Seq(S), NEW elt \in S
  PROVE  /\ Append(seq, elt) \in Seq(S)
         /\ Append(seq, elt) # << >>
         /\ Len(Append(seq, elt)) = Len(seq) + 1
         /\ \A i \in 1..Len(seq) : Append(seq, elt)[i] = seq[i]
         /\ Append(seq, elt)[Len(seq) + 1] = elt
  BY SMT

\* Adding one element is appending a sequence of one.
LEMMA AppendIsConcat ==
  ASSUME NEW S, NEW seq \in Seq(S), NEW elt \in S
  PROVE  Append(seq, elt) = seq \o <<elt>>
  BY SMT

Chunks == [order : Int, seq : Int, part : {1, 2}]

\* The number of the order at next_read, and how far a cursor is from there.
NextId == next_order_id - Occupied
Ahead(p) == (p - next_read) % CursorMod

\* What each receiver session has still to read, and the number it reads first.
Stream == [s \in Sessions |-> InStream(s)]
First(s) == IF s = served THEN expected_seq ELSE 1
InHand == IF spc = "send" THEN 2 - remaining ELSE 0

TypeInv ==
  /\ next_order_id \in Nat /\ next_write \in 0..(CursorMod - 1)
  /\ next_read \in 0..(CursorMod - 1) /\ data \in [0..(RingSize - 1) -> Int]
  /\ spc \in {"loop", "send"} /\ msg \in [order : Int, seq : Int] /\ remaining \in 0..2
  /\ next_seq \in Nat /\ sess \in Sessions /\ alive \in BOOLEAN
  /\ up \in [Sessions -> Seq(Chunks)] /\ sbuf \in Seq(Chunks)
  /\ served \in 0..sess /\ serving \in BOOLEAN /\ expected_seq \in Nat
  /\ accepted \in Seq([order : Int, sess : Nat])

\* The ring holds consecutive orders, from NextId at next_read on.
RingInv ==
  /\ Occupied <= RingSize
  /\ \A p \in 0..(CursorMod - 1) :
       Ahead(p) < Occupied => data[p % RingSize] = NextId + Ahead(p)

ConnInv ==
  /\ ~alive => sess < MaxSessions
  /\ alive /\ served = sess => serving
  /\ serving => served > 0
  /\ \A s \in Sessions : s > sess => up[s] = <<>>

\* The order in hand is the one at next_read.  While the connection lives, the
\* stream ends where the sender is.
HandInv ==
  /\ spc = "send" => /\ Occupied > 0 /\ remaining \in {1, 2}
                     /\ msg.order = NextId /\ msg.seq = next_seq
  /\ alive => 2 * First(sess) + Len(Stream[sess]) = 2 * next_seq + InHand
  /\ alive /\ spc = "send" /\ remaining = 1 =>
       Stream[sess][Len(Stream[sess])].order = msg.order

\* First and second chunks alternate, numbered from n.
Framed(z, n) ==
  \A j \in 1..Len(z) :
    /\ 2 * j - 1 <= Len(z) => z[2 * j - 1].seq = n + j - 1 /\ z[2 * j - 1].part = 1
    /\ 2 * j <= Len(z) => /\ z[2 * j].seq = n + j - 1 /\ z[2 * j].part = 2
                          /\ z[2 * j].order = z[2 * j - 1].order

Unread == {s \in Sessions : s >= served}

FrameInv == \A s \in Unread : Framed(Stream[s], First(s))

\* Complete orders rise within a stream, from one stream to the next, from what
\* was accepted to the streams, and up to the next order of the ring.
OrderInv ==
  /\ AcceptedOnceInOrder
  /\ \A a \in DOMAIN accepted : accepted[a].order < NextId
  /\ \A a \in DOMAIN accepted, s \in Unread : \A i \in 1..Len(Stream[s]) :
       accepted[a].order < Stream[s][i].order
  /\ \A s \in Unread : \A i, j \in 1..Len(Stream[s]) :
       i < j /\ Stream[s][i].part = 2 => Stream[s][i].order < Stream[s][j].order
  /\ \A s, t \in Unread : \A i \in 1..Len(Stream[s]), j \in 1..Len(Stream[t]) :
       s < t /\ Stream[s][i].part = 2 => Stream[s][i].order < Stream[t][j].order
  /\ \A s \in Unread : \A i \in 1..Len(Stream[s]) :
       /\ Stream[s][i].order <= NextId
       /\ Stream[s][i].part = 2 => Stream[s][i].order < NextId

IInv == /\ TypeInv /\ ConnInv /\ RingInv /\ HandInv /\ FrameInv /\ OrderInv
        /\ SessionsAgree

-----------------------------------------------------------------------------
\* The constants are positive, and the cursors wrap at a multiple of the ring's size.
LEMMA ConstantTypes ==
  /\ RingSize \in Nat \ {0} /\ CursorMod \in Nat \ {0} /\ MaxSessions \in Nat \ {0}
  /\ CursorMod % RingSize = 0 /\ CursorMod > RingSize /\ NumOrders \in Nat \ {0}
BY OrderPathAssumption DEF OrderPathAssumption

(* Wrapping cursors. *)
\* A cursor below m moves on by one, or back to 0 at m.
LEMMA Succ ==
  ASSUME NEW m \in Nat \ {0}, NEW x \in 0..(m - 1)
  PROVE  (x + 1) % m = IF x + 1 = m THEN 0 ELSE x + 1
OBVIOUS

\* How far cursor x is from cursor y, around the wrap.
LEMMA Distance ==
  ASSUME NEW m \in Nat \ {0}, NEW x \in 0..(m - 1), NEW y \in 0..(m - 1)
  PROVE  (x - y) % m = IF x >= y THEN x - y ELSE x - y + m
OBVIOUS

\* A remainder is a cursor.
LEMMA InRange == ASSUME NEW m \in Nat \ {0}, NEW x \in Int PROVE x % m \in 0..(m - 1)
OBVIOUS

\* A positive multiple of m is at least m.
LEMMA Multiple ==
  ASSUME NEW m \in Nat \ {0}, NEW k \in Int, m * k > 0
  PROVE  m * k >= m
<1>1. k > 0
  OBVIOUS
<1>2. k - 1 >= 0 /\ m * k = m * (k - 1) + m
  BY <1>1
<1>3. m * (k - 1) >= 0
  BY <1>2
<1> QED BY <1>2, <1>3

\* Numbers with the same slot differ by a multiple of the ring's size.
LEMMA Congruent ==
  ASSUME NEW m \in Nat \ {0}, NEW x \in Int, NEW y \in Int, x % m = y % m
  PROVE  (x - y) % m = 0
OBVIOUS

\* What leaves no remainder is a multiple.
LEMMA Divides ==
  ASSUME NEW m \in Nat \ {0}, NEW x \in Int, x % m = 0
  PROVE  \E k \in Int : x = m * k
OBVIOUS

\* Two cursors less than the size m of the ring apart, around the wrap at c or
\* not (c = 0), have different slots.
LEMMA SlotsDiffer ==
  ASSUME NEW m \in Nat \ {0}, NEW c \in Nat, c % m = 0, NEW x \in Nat, NEW y \in Nat,
         x + c > y, x + c - y < m
  PROVE  x % m # y % m
<1> SUFFICES ASSUME x % m = y % m PROVE FALSE
  OBVIOUS
<1>1. x \in Int /\ y \in Int /\ x - y \in Int /\ c \in Int
  OBVIOUS
<1>2. (x - y) % m = 0
  BY <1>1, Congruent, Zenon
<1>3. PICK k \in Int : x - y = m * k
  BY <1>1, <1>2, Divides, Zenon
<1>4. PICK d \in Int : c = m * d
  BY <1>1, Divides, Zenon
<1>5. x + c - y = m * (k + d)
  BY <1>3, <1>4
<1> QED BY <1>5, Multiple

\* Ahead and Occupied without the remainder, and their ranges.
LEMMA Cursors ==
  ASSUME TypeInv, NEW p \in 0..(CursorMod - 1)
  PROVE  /\ Ahead(p) = IF p >= next_read THEN p - next_read ELSE p - next_read + CursorMod
         /\ Occupied = IF next_write >= next_read THEN next_write - next_read
                       ELSE next_write - next_read + CursorMod
         /\ Ahead(p) \in 0..(CursorMod - 1) /\ Occupied \in 0..(CursorMod - 1)
         /\ NextId \in Int /\ p % RingSize \in 0..(RingSize - 1)
<1>1. CursorMod \in Nat \ {0} /\ RingSize \in Nat \ {0} /\ p \in Int
  BY ConstantTypes
<1>2. next_write \in 0..(CursorMod - 1) /\ next_read \in 0..(CursorMod - 1) /\ next_order_id \in Nat
  BY DEF TypeInv
<1>3. Ahead(p) = IF p >= next_read THEN p - next_read ELSE p - next_read + CursorMod
  BY <1>1, <1>2, Distance DEF Ahead
<1>4. Occupied = IF next_write >= next_read THEN next_write - next_read
                 ELSE next_write - next_read + CursorMod
  BY <1>1, <1>2, Distance DEF Occupied
<1>5. p % RingSize \in 0..(RingSize - 1)
  BY <1>1, InRange
<1> QED BY <1>1, <1>2, <1>3, <1>4, <1>5 DEF NextId

\* submit adds the next order at the end.
LEMMA SubmitRing ==
  ASSUME TypeInv, RingInv, Submit
  PROVE  /\ next_order_id' \in Nat /\ next_write' \in 0..(CursorMod - 1)
         /\ data' \in [0..(RingSize - 1) -> Int]
         /\ Occupied' = Occupied + 1 /\ NextId' = NextId /\ RingInv'
<1>1. /\ CursorMod \in Nat \ {0} /\ RingSize \in Nat \ {0} /\ CursorMod > RingSize
      /\ CursorMod % RingSize = 0
  BY ConstantTypes
<1>2. /\ next_write \in 0..(CursorMod - 1) /\ next_read \in 0..(CursorMod - 1)
      /\ next_order_id \in Nat /\ data \in [0..(RingSize - 1) -> Int]
  BY DEF TypeInv
<1>3. /\ Occupied < RingSize /\ next_order_id' = next_order_id + 1 /\ next_read' = next_read
      /\ next_write' = (next_write + 1) % CursorMod
      /\ data' = [data EXCEPT ![next_write % RingSize] = next_order_id]
  BY <1>1, <1>2, Cursors DEF Submit, RingFull
<1>4. next_write' = IF next_write + 1 = CursorMod THEN 0 ELSE next_write + 1
  BY <1>1, <1>2, <1>3, Succ, ZenonT(30)
<1>5. next_write' \in 0..(CursorMod - 1)
  BY <1>1, <1>2, <1>4
<1>6. Occupied' = IF next_write' >= next_read THEN next_write' - next_read
                  ELSE next_write' - next_read + CursorMod
  BY <1>1, <1>2, <1>3, <1>5, Distance, Zenon DEF Occupied
<1>7. /\ Occupied = IF next_write >= next_read THEN next_write - next_read
                    ELSE next_write - next_read + CursorMod
      /\ Occupied \in Nat /\ NextId \in Int /\ next_write % RingSize \in 0..(RingSize - 1)
  BY <1>2, Cursors
<1>8. Occupied' = Occupied + 1
  BY <1>1, <1>2, <1>3, <1>4, <1>6, <1>7
<1>9. NextId' = NextId
  <2>1. PICK n \in Nat : n = next_order_id
    BY <1>2, Zenon
  <2>2. PICK o \in Nat : o = Occupied
    BY <1>7, Zenon
  <2>3. next_order_id' = n + 1 /\ Occupied' = o + 1
    BY <1>3, <1>8, <2>1, <2>2, Zenon
  <2>4. (n + 1) - (o + 1) = n - o
    OBVIOUS
  <2> QED BY <2>1, <2>2, <2>3, <2>4, Zenon DEF NextId
<1>10. ASSUME NEW p \in 0..(CursorMod - 1), Ahead(p)' < Occupied'
       PROVE  data'[p % RingSize] = NextId' + Ahead(p)'
  <2>1. Ahead(p)' = Ahead(p)
    BY <1>3 DEF Ahead
  <2>2. /\ Ahead(p) = IF p >= next_read THEN p - next_read ELSE p - next_read + CursorMod
        /\ Ahead(p) \in Nat /\ p % RingSize \in 0..(RingSize - 1)
    BY Cursors
  <2>3. CASE p = next_write
    <3>1. Ahead(p) = Occupied
      BY <2>3 DEF Ahead, Occupied
    <3>2. data'[p % RingSize] = next_order_id
      BY <1>2, <1>3, <2>2, <2>3
    <3> QED BY <1>2, <1>7, <1>9, <2>1, <3>1, <3>2 DEF NextId
  <2>4. CASE p # next_write
    <3>1. Ahead(p) < Occupied
      BY <1>1, <1>2, <1>7, <1>8, <1>10, <2>1, <2>2, <2>4
    <3>2. p % RingSize # next_write % RingSize
      <4>1. p \in Nat /\ next_write \in Nat /\ 0 \in Nat /\ CursorMod \in Nat /\ 0 % RingSize = 0
        BY <1>1, <1>2
      <4>2. CASE next_write > p
        <5>1. next_write + 0 > p /\ next_write + 0 - p < RingSize
          BY <1>1, <1>2, <1>3, <1>7, <2>2, <3>1, <4>1, <4>2, SMTT(30)
        <5> QED BY <1>1, <4>1, <5>1, SlotsDiffer, Zenon
      <4>3. CASE next_write < p
        <5>1. next_write + CursorMod > p /\ next_write + CursorMod - p < RingSize
          BY <1>1, <1>2, <1>3, <1>7, <2>2, <3>1, <4>1, <4>3, SMTT(30)
        <5> QED BY <1>1, <4>1, <5>1, SlotsDiffer, Zenon
      <4> QED BY <2>4, <4>1, <4>2, <4>3
    <3>3. data'[p % RingSize] = data[p % RingSize]
      BY <1>2, <1>3, <2>2, <3>2, SMTT(30)
    <3> QED BY <1>9, <2>1, <3>1, <3>3 DEF RingInv
  <2> QED BY <2>3, <2>4
<1>11. RingInv'
  BY <1>1, <1>3, <1>7, <1>8, <1>10, SMTT(30) DEF RingInv
<1>12. data' \in [0..(RingSize - 1) -> Int]
  BY <1>2, <1>3, <1>7
<1> QED BY <1>2, <1>3, <1>5, <1>8, <1>9, <1>11, <1>12

\* The order at next_read leaves the ring.
LEMMA TakenRing ==
  ASSUME TypeInv, RingInv, Occupied > 0, next_read' = (next_read + 1) % CursorMod,
         UNCHANGED <<next_order_id, next_write, data>>
  PROVE  /\ next_read' \in 0..(CursorMod - 1) /\ Occupied' = Occupied - 1
         /\ NextId' = NextId + 1 /\ RingInv'
<1>1. CursorMod \in Nat \ {0} /\ RingSize \in Nat \ {0}
  BY ConstantTypes
<1>2. /\ next_write \in 0..(CursorMod - 1) /\ next_read \in 0..(CursorMod - 1)
      /\ next_order_id \in Nat
  BY DEF TypeInv
<1>3. next_read' = IF next_read + 1 = CursorMod THEN 0 ELSE next_read + 1
  BY <1>1, <1>2, Succ
<1>4. next_read' \in 0..(CursorMod - 1)
  BY <1>1, <1>2, <1>3
<1>5. Occupied' = IF next_write >= next_read' THEN next_write - next_read'
                  ELSE next_write - next_read' + CursorMod
  BY <1>1, <1>2, <1>4, Distance, Zenon DEF Occupied
<1>6. /\ Occupied = IF next_write >= next_read THEN next_write - next_read
                    ELSE next_write - next_read + CursorMod
      /\ Occupied \in Nat /\ NextId \in Int
  BY <1>2, Cursors
<1>7. Occupied' = Occupied - 1
  BY <1>1, <1>2, <1>3, <1>5, <1>6
<1>8. NextId' = NextId + 1
  BY <1>2, <1>6, <1>7 DEF NextId
<1>9. ASSUME NEW p \in 0..(CursorMod - 1), Ahead(p)' < Occupied'
      PROVE  data'[p % RingSize] = NextId' + Ahead(p)'
  <2>1. Ahead(p)' = IF p >= next_read' THEN p - next_read' ELSE p - next_read' + CursorMod
    BY <1>1, <1>4, Distance, Zenon DEF Ahead
  <2>2. Ahead(p) = IF p >= next_read THEN p - next_read ELSE p - next_read + CursorMod
    BY Cursors
  <2>3. Ahead(p)' = Ahead(p) - 1 /\ Ahead(p) < Occupied /\ Ahead(p) \in Int
    BY <1>1, <1>2, <1>3, <1>6, <1>7, <1>9, <2>1, <2>2, SMTT(30)
  <2>4. data[p % RingSize] = NextId + Ahead(p)
    BY <2>3 DEF RingInv
  <2> QED BY <1>6, <1>8, <2>3, <2>4
<1>10. RingInv'
  BY <1>1, <1>6, <1>7, <1>9 DEF RingInv
<1> QED BY <1>4, <1>7, <1>8, <1>10

-----------------------------------------------------------------------------
(* Sequences. *)
\* Length, type and elements of SubSeq.
LEMMA Slice ==
  ASSUME NEW S, NEW z \in Seq(S), NEW m \in Nat \ {0}, NEW n \in Nat, n <= Len(z)
  PROVE  /\ SubSeq(z, m, n) \in Seq(S)
         /\ Len(SubSeq(z, m, n)) = IF m <= n THEN n - m + 1 ELSE 0
         /\ \A i \in 1..(n - m + 1) : SubSeq(z, m, n)[i] = z[m + i - 1]
<1>1. \A i \in m..n : z[i] \in S
  BY ElementOfSeq
<1>2. m \in Int /\ n \in Int
  OBVIOUS
<1> QED BY <1>1, <1>2, SubSeqProperties, SMTT(30)

\* The end cut off the second of two sequences is cut off both together.
LEMMA CutConcat ==
  ASSUME NEW S, NEW q \in Seq(S), NEW u \in Seq(S), NEW i \in 0..Len(u)
  PROVE  q \o SubSeq(u, 1, i) = SubSeq(q \o u, 1, Len(q) + i)
<1>1. Len(q) \in Nat /\ Len(u) \in Nat /\ i \in Nat /\ Len(q) + i \in Nat
  OBVIOUS
<1>2. /\ q \o u \in Seq(S) /\ Len(q \o u) = Len(q) + Len(u)
      /\ \A j \in 1..(Len(q) + Len(u)) : (q \o u)[j] = IF j <= Len(q) THEN q[j] ELSE u[j - Len(q)]
  BY ConcatProperties
<1>3. PICK z \in Seq(S) : z = q \o u
  BY <1>2, Zenon
<1>4. SubSeq(u, 1, i) \in Seq(S)
  BY <1>1, Slice
<1>5. PICK v \in Seq(S) : v = SubSeq(u, 1, i)
  BY <1>4, Zenon
<1>6. Len(v) = i /\ \A j \in 1..i : v[j] = u[j]
  BY <1>1, <1>5, Slice
<1>7. /\ q \o v \in Seq(S) /\ Len(q \o v) = Len(q) + i
      /\ \A j \in 1..(Len(q) + i) : (q \o v)[j] = IF j <= Len(q) THEN q[j] ELSE v[j - Len(q)]
  BY <1>6, ConcatProperties, Zenon
<1>8. PICK a \in Seq(S) : a = q \o v
  BY <1>7, Zenon
<1>9. SubSeq(z, 1, Len(q) + i) \in Seq(S)
  BY <1>1, <1>2, <1>3, Slice, SMTT(30)
<1>10. PICK b \in Seq(S) : b = SubSeq(z, 1, Len(q) + i)
  BY <1>9, Zenon
<1>11. Len(b) = Len(q) + i /\ \A j \in 1..(Len(q) + i) : b[j] = z[j]
  BY <1>1, <1>2, <1>3, <1>10, Slice, SMTT(30)
<1>12. ASSUME NEW j \in 1..(Len(q) + i) PROVE a[j] = b[j]
  <2>1. /\ a[j] = IF j <= Len(q) THEN q[j] ELSE v[j - Len(q)]
        /\ b[j] = IF j <= Len(q) THEN q[j] ELSE u[j - Len(q)]
    BY <1>1, <1>2, <1>3, <1>7, <1>8, <1>11, SMTT(30)
  <2>2. j > Len(q) => j - Len(q) \in 1..i
    BY <1>1
  <2>3. j > Len(q) => v[j - Len(q)] = u[j - Len(q)]
    BY <1>6, <2>2, Zenon
  <2> QED BY <1>1, <2>1, <2>3, SMTT(30)
<1>13. Len(a) = Len(b) /\ \A j \in 1..Len(a) : a[j] = b[j]
  BY <1>7, <1>8, <1>11, <1>12, SMTT(30)
<1> QED BY <1>3, <1>5, <1>8, <1>10, <1>13, SeqEqual, Zenon

\* What is left of a sequence without its first two elements.
LEMMA DropTwo ==
  ASSUME NEW S, NEW z \in Seq(S), Len(z) >= 2
  PROVE  /\ SubSeq(z, 3, Len(z)) \in Seq(S) /\ Len(SubSeq(z, 3, Len(z))) = Len(z) - 2
         /\ \A i \in 1..(Len(z) - 2) : SubSeq(z, 3, Len(z))[i] = z[i + 2]
<1>1. PICK n \in Nat : n = Len(z)
  OBVIOUS
<1>2. /\ SubSeq(z, 3, n) \in Seq(S)
      /\ Len(SubSeq(z, 3, n)) = IF 3 <= n THEN n - 3 + 1 ELSE 0
      /\ \A i \in 1..(n - 3 + 1) : SubSeq(z, 3, n)[i] = z[3 + i - 1]
  <2>1. 3 \in Nat \ {0} /\ n <= Len(z)
    BY <1>1
  <2> QED BY <2>1, Slice
<1>3. PICK m \in Nat : m = Len(SubSeq(z, 3, n))
  BY <1>2
<1>4. m = IF 3 <= n THEN n - 3 + 1 ELSE 0
  BY <1>2, <1>3, Zenon
<1>5. m = n - 2 /\ n - 3 + 1 = n - 2
  BY <1>1, <1>4
<1>6. ASSUME NEW i \in 1..(n - 2) PROVE SubSeq(z, 3, n)[i] = z[i + 2]
  <2>1. 3 + i - 1 = i + 2
    OBVIOUS
  <2>2. SubSeq(z, 3, n)[i] = z[3 + i - 1]
    BY <1>2, <1>5, Zenon
  <2> QED BY <2>1, <2>2, Zenon
<1> QED BY <1>1, <1>2, <1>3, <1>5, <1>6, Zenon

\* The first two elements dropped from the first of two sequences.
LEMMA DropConcat ==
  ASSUME NEW S, NEW q \in Seq(S), NEW u \in Seq(S), Len(q) >= 2
  PROVE  SubSeq(q, 3, Len(q)) \o u = SubSeq(q \o u, 3, Len(q \o u))
<1>1. Len(q) \in Nat /\ Len(u) \in Nat /\ 3 \in Nat \ {0}
  OBVIOUS
<1>2. /\ q \o u \in Seq(S) /\ Len(q \o u) = Len(q) + Len(u)
      /\ \A j \in 1..(Len(q) + Len(u)) : (q \o u)[j] = IF j <= Len(q) THEN q[j] ELSE u[j - Len(q)]
  BY ConcatProperties
<1>3. PICK z \in Seq(S) : z = q \o u
  BY <1>2, Zenon
<1>a. Len(z) = Len(q) + Len(u) /\ Len(z) \in Nat /\ Len(z) <= Len(z)
  BY <1>1, <1>2, <1>3
<1>b. \A j \in 1..(Len(q) + Len(u)) : z[j] = IF j <= Len(q) THEN q[j] ELSE u[j - Len(q)]
  BY <1>2, <1>3, Zenon
<1>4. SubSeq(q, 3, Len(q)) \in Seq(S)
  BY DropTwo
<1>5. PICK v \in Seq(S) : v = SubSeq(q, 3, Len(q))
  BY <1>4, Zenon
<1>6. Len(v) = Len(q) - 2 /\ \A j \in 1..(Len(q) - 2) : v[j] = q[j + 2]
  BY <1>5, DropTwo, Zenon
<1>c. /\ v \o u \in Seq(S) /\ Len(v \o u) = Len(v) + Len(u)
      /\ \A j \in 1..(Len(v) + Len(u)) :
           (v \o u)[j] = IF j <= Len(v) THEN v[j] ELSE u[j - Len(v)]
  BY ConcatProperties
<1>7. /\ v \o u \in Seq(S) /\ Len(v \o u) = Len(q) - 2 + Len(u)
      /\ \A j \in 1..(Len(q) - 2 + Len(u)) :
           (v \o u)[j] = IF j <= Len(q) - 2 THEN v[j] ELSE u[j - (Len(q) - 2)]
  BY <1>6, <1>c, Zenon
<1>8. PICK a \in Seq(S) : a = v \o u
  BY <1>7, Zenon
<1>9. SubSeq(z, 3, Len(z)) \in Seq(S)
  BY <1>1, <1>a, Slice
<1>10. PICK b \in Seq(S) : b = SubSeq(z, 3, Len(z))
  BY <1>9, Zenon
<1>11. /\ Len(z) = Len(q) + Len(u) /\ Len(b) = Len(q) - 2 + Len(u)
       /\ \A j \in 1..(Len(q) - 2 + Len(u)) : b[j] = z[j + 2]
  BY <1>1, <1>a, <1>10, Slice
<1>12. ASSUME NEW j \in 1..(Len(q) - 2 + Len(u)) PROVE a[j] = b[j]
  <2>0. j + 2 \in 1..(Len(q) + Len(u))
    BY <1>1
  <2>a. z[j + 2] = IF j + 2 <= Len(q) THEN q[j + 2] ELSE u[j + 2 - Len(q)]
    <3>1. PICK k \in 1..(Len(q) + Len(u)) : k = j + 2
      BY <2>0, Zenon
    <3>2. z[k] = IF k <= Len(q) THEN q[k] ELSE u[k - Len(q)]
      BY <1>b
    <3> QED BY <3>1, <3>2
  <2>b. j - (Len(q) - 2) = j + 2 - Len(q)
    BY <1>1
  <2>1. /\ a[j] = IF j <= Len(q) - 2 THEN v[j] ELSE u[j + 2 - Len(q)]
        /\ b[j] = IF j + 2 <= Len(q) THEN q[j + 2] ELSE u[j + 2 - Len(q)]
    BY <1>7, <1>8, <1>11, <2>a, <2>b, Zenon
  <2>2. /\ j <= Len(q) - 2 => j \in 1..(Len(q) - 2)
        /\ j <= Len(q) - 2 <=> j + 2 <= Len(q)
    BY <1>1
  <2>3. j <= Len(q) - 2 => v[j] = q[j + 2]
    BY <1>6, <2>2, Zenon
  <2>4. CASE j <= Len(q) - 2
    BY <2>1, <2>2, <2>3, <2>4, Zenon
  <2>5. CASE ~(j <= Len(q) - 2)
    BY <2>1, <2>2, <2>5, Zenon
  <2> QED BY <2>4, <2>5
<1>13. Len(a) = Len(b) /\ \A j \in 1..Len(a) : a[j] = b[j]
  BY <1>7, <1>8, <1>11, <1>12, Zenon
<1>14. a = b
  BY <1>13, SeqEqual
<1> QED BY <1>3, <1>5, <1>8, <1>10, <1>14, Zenon

\* Two parts put at the end one after the other are the whole put at the end.
Associates(q, x, y) == (q \o x) \o y = q \o (x \o y)

LEMMA ConcatParts ==
  ASSUME NEW S, NEW q \in Seq(S), NEW x \in Seq(S), NEW y \in Seq(S)
  PROVE  Associates(q, x, y)
BY DEF Associates

\* Moving the front of the second sequence to the end of the first changes nothing.
LEMMA MoveConcat ==
  ASSUME NEW S, NEW q \in Seq(S), NEW u \in Seq(S), NEW n \in 1..Len(u)
  PROVE  (q \o SubSeq(u, 1, n)) \o SubSeq(u, n + 1, Len(u)) = q \o u
<1>1. Len(u) \in Nat /\ n \in Nat /\ n + 1 \in Nat \ {0} /\ 1 \in Nat \ {0} /\ n <= Len(u)
  OBVIOUS
<1>2. SubSeq(u, 1, n) \in Seq(S) /\ SubSeq(u, n + 1, Len(u)) \in Seq(S)
  BY <1>1, Slice
<1>3. SubSeq(u, 1, n) \o SubSeq(u, n + 1, Len(u)) = u
  BY <1>1, SMT
<1>5. Associates(q, SubSeq(u, 1, n), SubSeq(u, n + 1, Len(u)))
  BY <1>2, ConcatParts, Zenon
<1> QED BY <1>3, <1>5, Zenon DEF Associates

\* Append to the second of two sequences is Append to both together.
LEMMA AppendLast ==
  ASSUME NEW S, NEW q \in Seq(S), NEW r \in Seq(S), NEW c \in S
  PROVE  q \o Append(r, c) = Append(q \o r, c)
<1>1. <<c>> \in Seq(S) /\ q \o r \in Seq(S)
  BY ConcatProperties
<1>2. Append(r, c) = r \o <<c>>
  BY AppendIsConcat
<1>3. Append(q \o r, c) = (q \o r) \o <<c>>
  BY <1>1, AppendIsConcat
<1>4. (q \o r) \o <<c>> = q \o (r \o <<c>>)
  <2>1. PICK x \in Seq(S) : x = <<c>>
    BY <1>1, Zenon
  <2>2. Associates(q, r, x)
    BY ConcatParts, Zenon
  <2> QED BY <2>1, <2>2, Zenon DEF Associates
<1> QED BY <1>2, <1>3, <1>4, Zenon

-----------------------------------------------------------------------------
(* What the actions do to the streams. *)
Begun(s) == IF serving /\ s = served THEN sbuf ELSE <<>>

\* A stream is what the receiver holds of it, then what the connection holds.
LEMMA Streams ==
  /\ Stream = [s \in Sessions |-> Begun(s) \o up[s]]
  /\ Stream' = [s \in Sessions |-> Begun(s)' \o up'[s]]
BY Zenon DEF Stream, InStream, Begun

\* Streams are sequences of chunks.
LEMMA StreamTypes ==
  ASSUME TypeInv
  PROVE  /\ Stream \in [Sessions -> Seq(Chunks)]
         /\ \A s \in Sessions : /\ Begun(s) \in Seq(Chunks) /\ up[s] \in Seq(Chunks)
                                /\ Stream[s] = Begun(s) \o up[s]
<1>1. ASSUME NEW s \in Sessions
      PROVE  Begun(s) \in Seq(Chunks) /\ up[s] \in Seq(Chunks)
  BY DEF TypeInv, Begun
<1>2. ASSUME NEW s \in Sessions PROVE Begun(s) \o up[s] \in Seq(Chunks)
  BY <1>1, ConcatProperties
<1> QED BY <1>1, <1>2, Streams

\* A chunk the kernel takes is put at the end of its stream.
LEMMA AppendStream ==
  ASSUME TypeInv, NEW c \in Chunks, up' = [up EXCEPT ![sess] = Append(@, c)],
         UNCHANGED <<serving, served, sbuf>>
  PROVE  Stream' = [Stream EXCEPT ![sess] = Append(@, c)]
<1>0. sess \in Sessions /\ up = [s \in Sessions |-> up[s]]
  BY DEF TypeInv
<1>1. ASSUME NEW s \in Sessions
      PROVE  Stream'[s] = IF s = sess THEN Append(Stream[s], c) ELSE Stream[s]
  <2>1. Begun(s)' = Begun(s)
    BY DEF Begun
  <2>2. Stream'[s] = Begun(s) \o up'[s] /\ Stream[s] = Begun(s) \o up[s]
    BY <2>1, Streams, Zenon
  <2>3. up'[s] = IF s = sess THEN Append(up[s], c) ELSE up[s]
    BY <1>0
  <2>4. Begun(s) \o Append(up[s], c) = Append(Begun(s) \o up[s], c)
    <3>1. PICK b \in Seq(Chunks) : b = Begun(s)
      BY StreamTypes, Zenon
    <3>2. PICK u \in Seq(Chunks) : u = up[s]
      BY StreamTypes, Zenon
    <3>3. b \o Append(u, c) = Append(b \o u, c)
      BY AppendLast
    <3> QED BY <3>1, <3>2, <3>3, Zenon
  <2> QED BY <2>2, <2>3, <2>4, Zenon
<1> QED BY <1>0, <1>1, Streams, Zenon

\* A broken connection cuts the end of its stream off.
LEMMA CutStream ==
  ASSUME TypeInv, NEW i \in 0..Len(up[sess]), up' = [up EXCEPT ![sess] = SubSeq(@, 1, i)],
         UNCHANGED <<serving, served, sbuf>>
  PROVE  \E k \in 0..Len(Stream[sess]) : Stream' = [Stream EXCEPT ![sess] = SubSeq(@, 1, k)]
<1>0. sess \in Sessions /\ up = [s \in Sessions |-> up[s]]
  BY DEF TypeInv
<1>1. Begun(sess) \in Seq(Chunks) /\ up[sess] \in Seq(Chunks) /\ Stream[sess] = Begun(sess) \o up[sess]
  BY <1>0, StreamTypes
<1>2. PICK k : k = Len(Begun(sess)) + i
  OBVIOUS
<1>3. Begun(sess) \o SubSeq(up[sess], 1, i) = SubSeq(Stream[sess], 1, k)
  BY <1>1, <1>2, CutConcat, Zenon
<1>4. k \in 0..Len(Stream[sess])
  <2>1. /\ Len(Stream[sess]) = Len(Begun(sess)) + Len(up[sess])
        /\ Len(Begun(sess)) \in Nat /\ Len(up[sess]) \in Nat
    BY <1>1, ConcatProperties
  <2> QED BY <1>2, <2>1
<1>5. ASSUME NEW s \in Sessions
      PROVE  Stream'[s] = IF s = sess THEN SubSeq(Stream[s], 1, k) ELSE Stream[s]
  <2>1. Begun(s)' = Begun(s)
    BY SMTT(30) DEF Begun
  <2>2. Stream'[s] = Begun(s) \o up'[s] /\ Stream[s] = Begun(s) \o up[s]
    BY <2>1, Streams, SMTT(30)
  <2>3. up'[s] = IF s = sess THEN SubSeq(up[s], 1, i) ELSE up[s]
    BY <1>0
  <2> QED BY <1>3, <2>2, <2>3, Zenon
<1>6. Stream' = [Stream EXCEPT ![sess] = SubSeq(@, 1, k)]
  BY <1>0, <1>5, Streams, Zenon
<1> QED BY <1>4, <1>6, Zenon

\* accept and recv change nothing about what there is to read.
LEMMA AcceptStream ==
  ASSUME TypeInv, Accept
  PROVE  Stream' = Stream
<1>1. ASSUME NEW s \in Sessions PROVE Begun(s)' = Begun(s)
  BY DEF Begun, Accept, NoBytes
<1>2. up' = up
  BY DEF Accept
<1> QED BY <1>1, <1>2, Streams, Zenon

\* recv moves chunks from the connection to the buffer.
LEMMA RecvStream ==
  ASSUME TypeInv, Recv, served \in Sessions
  PROVE  Stream' = Stream /\ up' \in [Sessions -> Seq(Chunks)] /\ sbuf' \in Seq(Chunks)
<1>0. /\ serving /\ serving' = serving /\ served' = served
      /\ up \in [Sessions -> Seq(Chunks)] /\ sbuf \in Seq(Chunks)
  BY DEF Recv, TypeInv
<1>1. PICK n \in 1..Len(up[served]) :
        /\ sbuf' = sbuf \o SubSeq(up[served], 1, n)
        /\ up' = [up EXCEPT ![served] = SubSeq(@, n + 1, Len(@))]
  BY Zenon DEF Recv
<1>2. PICK u \in Seq(Chunks) : u = up[served]
  BY <1>0
<1>3. Len(u) \in Nat /\ n \in Nat /\ n <= Len(u) /\ n + 1 \in Nat \ {0} /\ 1 \in Nat \ {0}
  BY <1>2
<1>4. SubSeq(u, 1, n) \in Seq(Chunks)
  BY <1>3, Slice
<1>5. SubSeq(u, n + 1, Len(u)) \in Seq(Chunks)
  BY <1>3, Slice
<1>6. (sbuf \o SubSeq(u, 1, n)) \o SubSeq(u, n + 1, Len(u)) = sbuf \o u
  BY <1>0, <1>1, <1>2, MoveConcat, ZenonT(30)
<1>7. sbuf' \in Seq(Chunks)
  BY <1>0, <1>1, <1>2, <1>4, ConcatProperties
<1>8. up' \in [Sessions -> Seq(Chunks)] /\ up'[served] = SubSeq(u, n + 1, Len(u))
  BY <1>0, <1>1, <1>2, <1>5
<1>9. ASSUME NEW s \in Sessions PROVE Begun(s)' \o up'[s] = Begun(s) \o up[s]
  <2>1. CASE s = served
    <3>1. Begun(s)' = sbuf' /\ Begun(s) = sbuf
      BY <1>0, <2>1 DEF Begun
    <3> QED BY <1>1, <1>2, <1>6, <1>8, <2>1, <3>1, Zenon
  <2>2. CASE s # served
    <3>1. Begun(s)' = <<>> /\ Begun(s) = <<>>
      BY <1>0, <2>2 DEF Begun
    <3>2. up'[s] = up[s]
      BY <1>0, <1>1, <2>2
    <3> QED BY <3>1, <3>2, Zenon
  <2> QED BY <2>1, <2>2, Zenon
<1> QED BY <1>7, <1>8, <1>9, Streams, Zenon

\* An order leaves its stream when it is framed.
LEMMA FrameStream ==
  ASSUME TypeInv, Frame, served \in Sessions
  PROVE  /\ Stream' = [Stream EXCEPT ![served] = SubSeq(@, 3, Len(@))]
         /\ Len(Stream[served]) >= 2 /\ sbuf' \in Seq(Chunks)
         /\ sbuf[1] = Stream[served][1] /\ sbuf[2] = Stream[served][2]
<1>0. /\ serving /\ serving' = serving /\ served' = served /\ up' = up
      /\ Len(sbuf) >= 2 /\ sbuf' = SubSeq(sbuf, 3, Len(sbuf))
  BY DEF Frame
<1>1. sbuf \in Seq(Chunks) /\ up[served] \in Seq(Chunks) /\ Len(sbuf) \in Nat
  BY DEF TypeInv
<1>2. Begun(served) = sbuf /\ Begun(served)' = sbuf' /\ Stream[served] = sbuf \o up[served]
  BY <1>0, Streams, SMTT(30) DEF Begun
<1>3. sbuf' \o up[served] = SubSeq(Stream[served], 3, Len(Stream[served]))
  <2>1. SubSeq(sbuf, 3, Len(sbuf)) \o up[served]
          = SubSeq(sbuf \o up[served], 3, Len(sbuf \o up[served]))
    BY <1>0, <1>1, DropConcat, Zenon
  <2> QED BY <1>0, <1>2, <2>1, Zenon
<1>4. ASSUME NEW s \in Sessions
      PROVE  Stream'[s] = IF s = served THEN SubSeq(Stream[s], 3, Len(Stream[s])) ELSE Stream[s]
  <2>1. Stream'[s] = Begun(s)' \o up[s] /\ Stream[s] = Begun(s) \o up[s]
    BY <1>0, Streams, ZenonT(30)
  <2>2. CASE s = served
    <3>1. Begun(s)' = sbuf'
      BY <1>0, <2>2 DEF Begun
    <3> QED BY <1>3, <2>1, <2>2, <3>1, Zenon
  <2>3. CASE s # served
    <3>1. Begun(s)' = Begun(s)
      BY <1>0, <2>3 DEF Begun
    <3> QED BY <2>1, <2>3, <3>1, Zenon
  <2> QED BY <2>2, <2>3
<1>5. Stream' = [Stream EXCEPT ![served] = SubSeq(@, 3, Len(@))]
  BY <1>4, Streams, Zenon
<1>6. /\ Len(Stream[served]) = Len(sbuf) + Len(up[served]) /\ Len(up[served]) \in Nat
      /\ \A j \in 1..(Len(sbuf) + Len(up[served])) :
           Stream[served][j] = IF j <= Len(sbuf) THEN sbuf[j] ELSE up[served][j - Len(sbuf)]
  BY <1>1, <1>2, ConcatProperties
<1>7. Len(Stream[served]) >= 2 /\ sbuf[1] = Stream[served][1] /\ sbuf[2] = Stream[served][2]
  <2>1. PICK m \in Nat : m = Len(sbuf)
    BY <1>1, Zenon
  <2>2. PICK n \in Nat : n = Len(up[served])
    BY <1>6, Zenon
  <2>3. m >= 2 /\ Len(Stream[served]) = m + n
    BY <1>0, <1>6, <2>1, <2>2, Zenon
  <2>4. m + n >= 2 /\ 1 \in 1..(m + n) /\ 2 \in 1..(m + n) /\ 1 <= m /\ 2 <= m
    BY <2>3
  <2> QED BY <1>6, <2>1, <2>2, <2>3, <2>4, Zenon
<1>8. sbuf' \in Seq(Chunks)
  <2>1. 3 \in Nat \ {0} /\ Len(sbuf) <= Len(sbuf)
    BY <1>1
  <2> QED BY <1>0, <1>1, <2>1, Slice
<1> QED BY <1>5, <1>7, <1>8, SMTT(30)

\* A session that is over leaves nothing to read.
LEMMA DisconnectStream ==
  ASSUME TypeInv, Disconnect, served \in Sessions
  PROVE  Stream' = [Stream EXCEPT ![served] = SubSeq(@, 1, 0)]
<1>0. /\ serving' = FALSE /\ served' = served /\ up' = up /\ sbuf' = sbuf /\ up[served] = <<>>
  BY DEF Disconnect, SessionOver
<1>1. ASSUME NEW s \in Sessions PROVE Stream'[s] = IF s = served THEN <<>> ELSE Stream[s]
  <2>1. Begun(s)' = <<>> /\ (s # served => Begun(s) = <<>>)
    BY <1>0 DEF Begun
  <2>2. Stream'[s] = <<>> \o up[s] /\ Stream[s] = Begun(s) \o up[s]
    BY <1>0, <2>1, Streams, Zenon
  <2>3. <<>> \o up[s] = up[s]
    BY StreamTypes, ConcatEmptySeq
  <2> QED BY <1>0, <2>1, <2>2, <2>3, Zenon
<1>2. SubSeq(Stream[served], 1, 0) = <<>>
  BY SubSeqEmpty
<1> QED BY <1>1, <1>2, Streams, Zenon

-----------------------------------------------------------------------------
(* What that does to the invariant. *)
\* The chunk that is due next keeps a stream framed.
LEMMA FramedAppend ==
  ASSUME NEW z \in Seq(Chunks), NEW c \in Chunks, NEW n \in Int, Framed(z, n),
         \/ c.part = 1 /\ 2 * n + Len(z) = 2 * c.seq
         \/ c.part = 2 /\ 2 * n + Len(z) = 2 * c.seq + 1 /\ c.order = z[Len(z)].order
  PROVE  Framed(Append(z, c), n)
<1>0. Append(z, c) \in Seq(Chunks)
  BY AppendProperties
<1>1. PICK y \in Seq(Chunks) : y = Append(z, c)
  BY <1>0, Zenon
<1>2. /\ Len(y) = Len(z) + 1 /\ Len(z) \in Nat /\ c.seq \in Int
      /\ \A i \in 1..Len(z) : y[i] = z[i]
  BY <1>1, AppendProperties DEF Chunks
<1>3. y[Len(z) + 1] = c
  BY <1>1, AppendProperties, SMTT(30)
<1> SUFFICES ASSUME NEW j \in 1..Len(y)
             PROVE  /\ 2 * j - 1 <= Len(y) => y[2 * j - 1].seq = n + j - 1 /\ y[2 * j - 1].part = 1
                    /\ 2 * j <= Len(y) => /\ y[2 * j].seq = n + j - 1 /\ y[2 * j].part = 2
                                          /\ y[2 * j].order = y[2 * j - 1].order
  BY <1>1, SMTT(30) DEF Framed
<1>a. PICK k \in Int : k = c.seq
  BY <1>2
<1>b. PICK l \in Nat : l = Len(z)
  BY <1>2
<1>c. \/ c.part = 1 /\ 2 * n + l = 2 * k
      \/ c.part = 2 /\ 2 * n + l = 2 * k + 1 /\ c.order = z[l].order
  BY <1>a, <1>b, Zenon
<1>d. j \in Int
  BY <1>2, SMTT(30)
<1>4. CASE 2 * j <= Len(z)
  <2>a. 2 * j - 1 \in 1..Len(z) /\ 2 * j \in 1..Len(z)
    BY <1>2, <1>4, <1>d
  <2>b. PICK a \in 1..Len(z) : a = 2 * j - 1
    BY <2>a, Zenon
  <2>c. PICK b \in 1..Len(z) : b = 2 * j
    BY <2>a, Zenon
  <2>1. a = 2 * j - 1 /\ b = 2 * j
    BY <2>b, <2>c, Zenon
  <2>2. /\ z[a].seq = n + j - 1 /\ z[a].part = 1 /\ z[b].seq = n + j - 1
        /\ z[b].part = 2 /\ z[b].order = z[a].order
    BY <1>2, <1>4, <2>1 DEF Framed
  <2>3. y[a] = z[a] /\ y[b] = z[b]
    BY <1>2, <2>1, ZenonT(30)
  <2> QED BY <2>1, <2>2, <2>3, SMTT(30)
<1>5. CASE 2 * j = Len(z) + 1
  <2>1. PICK a \in 1..Len(z), b \in 1..Len(y) : a = 2 * j - 1 /\ b = 2 * j /\ a = Len(z) /\ b = Len(z) + 1
    BY <1>2, <1>5
  <2>2. z[a].seq = n + j - 1 /\ z[a].part = 1
    BY <1>2, <1>5, <2>1, SMTT(30) DEF Framed
  <2>3. y[a] = z[a] /\ y[b] = c
    BY <1>2, <1>3, <2>1, ZenonT(30)
  <2>4. c.part = 2 /\ c.seq = n + j - 1 /\ c.order = z[a].order
    <3>1. 2 * n + l # 2 * k
      BY <1>5, <1>b, <1>d
    <3>2. c.part = 2 /\ 2 * n + l = 2 * k + 1 /\ c.order = z[l].order
      BY <1>c, <3>1, Zenon
    <3>3. k = n + j - 1
      BY <1>5, <1>b, <1>d, <3>2, SMTT(30)
    <3> QED BY <1>a, <1>b, <2>1, <3>2, <3>3, Zenon
  <2> QED BY <2>1, <2>2, <2>3, <2>4, Zenon
<1>6. CASE 2 * j = Len(z) + 2
  <2>1. PICK a \in 1..Len(y) : a = 2 * j - 1 /\ a = Len(z) + 1
    BY <1>2, <1>6, SMTT(30)
  <2>2. y[a] = c /\ ~(2 * j <= Len(y))
    BY <1>2, <1>3, <1>6, <2>1, SMTT(30)
  <2>3. c.part = 1 /\ c.seq = n + j - 1
    <3>1. 2 * n + l # 2 * k + 1
      BY <1>6, <1>b, <1>d, SMTT(30)
    <3>2. c.part = 1 /\ 2 * n + l = 2 * k
      BY <1>c, <3>1, Zenon
    <3>3. k = n + j - 1
      BY <1>6, <1>b, <1>d, <3>2, SMTT(30)
    <3> QED BY <1>a, <3>2, <3>3, Zenon
  <2> QED BY <2>1, <2>2, <2>3, SMTT(30)
<1>7. CASE 2 * j > Len(z) + 2
  BY <1>2, <1>7, SMTT(30)
<1>8. \/ 2 * j <= Len(z) \/ 2 * j = Len(z) + 1 \/ 2 * j = Len(z) + 2 \/ 2 * j > Len(z) + 2
  <2>1. \/ 2 * j <= l \/ 2 * j = l + 1 \/ 2 * j = l + 2 \/ 2 * j > l + 2
    BY <1>d
  <2> QED BY <1>b, <2>1, Zenon
<1> QED BY <1>4, <1>5, <1>6, <1>7, <1>8, Zenon

\* A framed stream stays framed when its end is cut off.
LEMMA FramedCut ==
  ASSUME NEW z \in Seq(Chunks), NEW n \in Int, NEW k \in 0..Len(z), Framed(z, n)
  PROVE  Framed(SubSeq(z, 1, k), n)
<1>1. Len(z) \in Nat /\ k \in Nat /\ k <= Len(z) /\ 1 \in Nat \ {0}
  OBVIOUS
<1>2. SubSeq(z, 1, k) \in Seq(Chunks)
  BY <1>1, Slice
<1>3. PICK y \in Seq(Chunks) : y = SubSeq(z, 1, k)
  BY <1>2, Zenon
<1>4. Len(y) = k /\ \A i \in 1..k : y[i] = z[i]
  BY <1>1, <1>3, Slice
<1>5. ASSUME NEW j \in 1..k, 2 * j - 1 <= k
      PROVE  y[2 * j - 1].seq = n + j - 1 /\ y[2 * j - 1].part = 1
  <2>1. 2 * j - 1 \in 1..k /\ j \in 1..Len(z) /\ 2 * j - 1 <= Len(z)
    BY <1>1, <1>5
  <2>2. y[2 * j - 1] = z[2 * j - 1]
    BY <1>4, <2>1, Zenon
  <2>3. z[2 * j - 1].seq = n + j - 1 /\ z[2 * j - 1].part = 1
    BY <2>1, Zenon DEF Framed
  <2> QED BY <2>2, <2>3, Zenon
<1>6. ASSUME NEW j \in 1..k, 2 * j <= k
      PROVE  /\ y[2 * j].seq = n + j - 1 /\ y[2 * j].part = 2
             /\ y[2 * j].order = y[2 * j - 1].order
  <2>1. 2 * j \in 1..k /\ 2 * j - 1 \in 1..k /\ j \in 1..Len(z) /\ 2 * j <= Len(z)
    BY <1>1, <1>6
  <2>2. y[2 * j - 1] = z[2 * j - 1] /\ y[2 * j] = z[2 * j]
    BY <1>4, <2>1, Zenon
  <2>3. /\ z[2 * j].seq = n + j - 1 /\ z[2 * j].part = 2
        /\ z[2 * j].order = z[2 * j - 1].order
    BY <2>1, Zenon DEF Framed
  <2> QED BY <2>2, <2>3, Zenon
<1> QED BY <1>3, <1>4, <1>5, <1>6, Zenon DEF Framed

\* Without its first order a framed stream is numbered from one more.
LEMMA FramedDrop ==
  ASSUME NEW z \in Seq(Chunks), NEW n \in Int, Framed(z, n), Len(z) >= 2
  PROVE  Framed(SubSeq(z, 3, Len(z)), n + 1)
<1>1. SubSeq(z, 3, Len(z)) \in Seq(Chunks)
  BY DropTwo
<1>2. PICK y \in Seq(Chunks) : y = SubSeq(z, 3, Len(z))
  BY <1>1, Zenon
<1>3. Len(y) = Len(z) - 2 /\ Len(z) \in Nat /\ \A i \in 1..(Len(z) - 2) : y[i] = z[i + 2]
  BY <1>2, DropTwo
<1>4. ASSUME NEW j \in 1..Len(y), 2 * j - 1 <= Len(y)
      PROVE  y[2 * j - 1].seq = n + 1 + j - 1 /\ y[2 * j - 1].part = 1
  <2>1. /\ 2 * j - 1 \in 1..(Len(z) - 2) /\ j + 1 \in 1..Len(z) /\ 2 * (j + 1) - 1 <= Len(z)
        /\ 2 * j - 1 + 2 = 2 * (j + 1) - 1 /\ n + (j + 1) - 1 = n + 1 + j - 1
    BY <1>3, <1>4
  <2>2. y[2 * j - 1] = z[2 * (j + 1) - 1]
    BY <1>3, <2>1, Zenon
  <2>3. z[2 * (j + 1) - 1].seq = n + (j + 1) - 1 /\ z[2 * (j + 1) - 1].part = 1
    BY <2>1, Zenon DEF Framed
  <2> QED BY <2>1, <2>2, <2>3, Zenon
<1>5. ASSUME NEW j \in 1..Len(y), 2 * j <= Len(y)
      PROVE  /\ y[2 * j].seq = n + 1 + j - 1 /\ y[2 * j].part = 2
             /\ y[2 * j].order = y[2 * j - 1].order
  <2>1. /\ 2 * j - 1 \in 1..(Len(z) - 2) /\ 2 * j \in 1..(Len(z) - 2) /\ j + 1 \in 1..Len(z)
        /\ 2 * (j + 1) <= Len(z) /\ 2 * j - 1 + 2 = 2 * (j + 1) - 1
        /\ 2 * j + 2 = 2 * (j + 1) /\ n + (j + 1) - 1 = n + 1 + j - 1
    BY <1>3, <1>5
  <2>2. y[2 * j - 1] = z[2 * (j + 1) - 1] /\ y[2 * j] = z[2 * (j + 1)]
    BY <1>3, <2>1, Zenon
  <2>3. /\ z[2 * (j + 1)].seq = n + (j + 1) - 1 /\ z[2 * (j + 1)].part = 2
        /\ z[2 * (j + 1)].order = z[2 * (j + 1) - 1].order
    BY <2>1, Zenon DEF Framed
  <2> QED BY <2>1, <2>2, <2>3, Zenon
<1> QED BY <1>2, <1>4, <1>5, Zenon DEF Framed

\* Types of the quantities the invariant compares.
LEMMA Bounds ==
  ASSUME IInv
  PROVE  /\ NextId \in Int /\ Unread \subseteq Sessions /\ Stream \in [Sessions -> Seq(Chunks)]
         /\ \A s \in Sessions : /\ Len(Stream[s]) \in Nat
                                /\ First(s) \in Int
                                /\ \A i \in 1..Len(Stream[s]) : Stream[s][i] \in Chunks
         /\ Sessions \subseteq Int /\ served \in Int /\ sess \in Sessions
<1>1. TypeInv /\ next_read \in 0..(CursorMod - 1)
  BY DEF IInv, TypeInv
<1>2. NextId \in Int
  BY <1>1, Cursors
<1>3. Stream \in [Sessions -> Seq(Chunks)]
  BY <1>1, StreamTypes
<1>4. ASSUME NEW s \in Sessions
      PROVE  Len(Stream[s]) \in Nat /\ \A i \in 1..Len(Stream[s]) : Stream[s][i] \in Chunks
  <2>1. PICK z \in Seq(Chunks) : z = Stream[s]
    BY <1>3
  <2>2. Len(z) \in Nat /\ \A i \in 1..Len(z) : z[i] \in Chunks
    BY ElementOfSeq
  <2> QED BY <2>1, <2>2, Zenon
<1>5. /\ Sessions \subseteq Int /\ served \in Int /\ sess \in Sessions
      /\ \A s \in Sessions : First(s) \in Int
  BY <1>1 DEF TypeInv, Sessions, First
<1> QED BY <1>2, <1>3, <1>4, <1>5 DEF Unread

\* The accepted orders are a sequence of numbered records.
LEMMA AcceptedTypes ==
  ASSUME TypeInv
  PROVE  /\ DOMAIN accepted = 1..Len(accepted) /\ Len(accepted) \in Nat
         /\ \A a \in DOMAIN accepted : accepted[a].order \in Int
<1>1. PICK z \in Seq([order : Int, sess : Nat]) : z = accepted
  BY DEF TypeInv
<1>2. DOMAIN z = 1..Len(z) /\ Len(z) \in Nat
  BY LenProperties
<1>3. ASSUME NEW a \in DOMAIN z PROVE z[a].order \in Int
  <2>1. z[a] \in [order : Int, sess : Nat]
    BY <1>2, ElementOfSeq, Zenon
  <2> QED BY <2>1
<1> QED BY <1>1, <1>2, <1>3, Zenon

\* Chains of bounds on order numbers.
LEMMA BelowAll ==
  \A a, b, d \in Int : /\ a <= b /\ b <= d => a <= d
                       /\ a < b /\ b <= d => a < d
<1> SUFFICES ASSUME NEW a \in Int, NEW b \in Int, NEW d \in Int
             PROVE  (a <= b /\ b <= d => a <= d) /\ (a < b /\ b <= d => a < d)
  BY Zenon
<1>1. a <= b /\ b <= d => a <= d
  OBVIOUS
<1>2. a < b /\ b <= d => a < d
  OBVIOUS
<1> QED BY <1>1, <1>2, Zenon

\* Streams that lose their ends, or nothing, keep the order of orders.
LEMMA ShorterOrdered ==
  ASSUME IInv, accepted' = accepted, Unread' \subseteq Unread, NextId' \in Int, NextId <= NextId',
         \A s \in Unread' : /\ Len(Stream'[s]) \in 0..Len(Stream[s])
                            /\ \A i \in 1..Len(Stream'[s]) : Stream'[s][i] = Stream[s][i]
  PROVE  OrderInv'
<1>1. NextId \in Int /\ Unread \subseteq Sessions /\ Sessions \subseteq Int
  BY Bounds
<1>2. ASSUME NEW s \in Unread', NEW i \in 1..Len(Stream'[s])
      PROVE  /\ s \in Unread /\ i \in 1..Len(Stream[s]) /\ Stream'[s][i] = Stream[s][i]
             /\ Stream[s][i].order \in Int
  <2>1. s \in Unread /\ s \in Sessions /\ Len(Stream[s]) \in Nat /\ Stream'[s][i] = Stream[s][i]
    BY <1>1, Bounds
  <2>2. i \in 1..Len(Stream[s])
    BY <2>1
  <2>3. Stream[s][i] \in Chunks
    BY <2>1, <2>2, Bounds, Zenon
  <2> QED BY <2>1, <2>2, <2>3, SMTT(30) DEF Chunks
<1>3. \A a \in DOMAIN accepted : accepted[a].order < NextId' /\ accepted[a].order \in Int
  <2>1. ASSUME NEW a \in DOMAIN accepted PROVE accepted[a].order \in Int
    BY AcceptedTypes DEF IInv
  <2> QED BY <1>1, <2>1 DEF IInv, OrderInv
<1>4. AcceptedOnceInOrder'
  BY DEF IInv, OrderInv, AcceptedOnceInOrder
<1>5. ASSUME NEW a \in DOMAIN accepted, NEW s \in Unread', NEW i \in 1..Len(Stream'[s])
      PROVE  accepted[a].order < Stream'[s][i].order
  BY <1>2, Zenon DEF IInv, OrderInv
<1>6. ASSUME NEW s \in Unread', NEW i \in 1..Len(Stream'[s]), NEW j \in 1..Len(Stream'[s]),
             i < j, Stream'[s][i].part = 2
      PROVE  Stream'[s][i].order < Stream'[s][j].order
  BY <1>2, <1>6, ZenonT(30) DEF IInv, OrderInv
<1>7. ASSUME NEW s \in Unread', NEW t \in Unread',
             NEW i \in 1..Len(Stream'[s]), NEW j \in 1..Len(Stream'[t]),
             s < t, Stream'[s][i].part = 2
      PROVE  Stream'[s][i].order < Stream'[t][j].order
  <2>1. /\ s \in Unread /\ i \in 1..Len(Stream[s]) /\ Stream'[s][i] = Stream[s][i]
        /\ t \in Unread /\ j \in 1..Len(Stream[t]) /\ Stream'[t][j] = Stream[t][j]
    BY <1>2, Zenon
  <2>2. Stream[s][i].order < Stream[t][j].order
    BY <1>7, <2>1, ZenonT(30) DEF IInv, OrderInv
  <2> QED BY <2>1, <2>2, Zenon
<1>8. ASSUME NEW s \in Unread', NEW i \in 1..Len(Stream'[s])
      PROVE  /\ Stream'[s][i].order <= NextId'
             /\ Stream'[s][i].part = 2 => Stream'[s][i].order < NextId'
  <2>1. /\ Stream[s][i].order <= NextId
        /\ Stream[s][i].part = 2 => Stream[s][i].order < NextId
    BY <1>2, Zenon DEF IInv, OrderInv
  <2>2. Stream'[s][i].order \in Int /\ Stream'[s][i] = Stream[s][i]
    BY <1>2, Zenon
  <2> QED BY <1>1, <2>1, <2>2, BelowAll, Zenon
<1> QED BY <1>3, <1>4, <1>5, <1>6, <1>7, <1>8, Zenon DEF OrderInv

\* An action that leaves streams, sessions and accepted orders alone.
LEMMA Kept ==
  ASSUME IInv, Stream' = Stream, NextId' \in Int, NextId <= NextId',
         UNCHANGED <<served, expected_seq, accepted>>
  PROVE  FrameInv' /\ OrderInv'
<1>1. Unread' = Unread /\ \A s \in Sessions : First(s)' = First(s)
  BY DEF Unread, First
<1>2. FrameInv'
  BY <1>1, Bounds DEF IInv, FrameInv
<1>3. OrderInv'
  <2>1. \A s \in Unread' : /\ Len(Stream'[s]) \in 0..Len(Stream[s])
                           /\ \A i \in 1..Len(Stream'[s]) : Stream'[s][i] = Stream[s][i]
    BY <1>1, Bounds
  <2> QED BY <1>1, <2>1, ShorterOrdered
<1> QED BY <1>2, <1>3

\* A stream that loses its end keeps the invariant.
LEMMA CutKept ==
  ASSUME IInv, NEW x \in Sessions, NEW k \in 0..Len(Stream[x]),
         Stream' = [Stream EXCEPT ![x] = SubSeq(@, 1, k)], NextId' = NextId,
         UNCHANGED <<served, expected_seq, accepted>>
  PROVE  FrameInv' /\ OrderInv'
<1>1. Unread' = Unread /\ \A s \in Sessions : First(s)' = First(s)
  BY DEF Unread, First
<1>2. /\ Stream \in [Sessions -> Seq(Chunks)] /\ Unread \subseteq Sessions /\ NextId \in Int
      /\ \A s \in Sessions : Len(Stream[s]) \in Nat /\ First(s) \in Int
  BY Bounds, SMTT(30)
<1>3. PICK z \in Seq(Chunks) : z = Stream[x]
  BY <1>2
<1>4. /\ Stream'[x] = SubSeq(z, 1, k) /\ k \in 0..Len(z)
      /\ \A s \in Sessions : s # x => Stream'[s] = Stream[s]
  BY <1>2, <1>3
<1>5. Len(SubSeq(z, 1, k)) = k /\ \A i \in 1..k : SubSeq(z, 1, k)[i] = z[i]
  <2>1. 1 \in Nat \ {0} /\ k \in Nat /\ k <= Len(z)
    BY <1>4
  <2> QED BY <2>1, Slice
<1>6. \A s \in Unread' : /\ Len(Stream'[s]) \in 0..Len(Stream[s])
                         /\ \A i \in 1..Len(Stream'[s]) : Stream'[s][i] = Stream[s][i]
  <2> SUFFICES ASSUME NEW s \in Sessions
               PROVE  /\ Len(Stream'[s]) \in 0..Len(Stream[s])
                      /\ \A i \in 1..Len(Stream'[s]) : Stream'[s][i] = Stream[s][i]
    BY <1>1, <1>2
  <2>1. CASE s = x
    BY <1>3, <1>4, <1>5, <2>1, ZenonT(30)
  <2>2. CASE s # x
    BY <1>2, <1>4, <2>2
  <2> QED BY <2>1, <2>2
<1>7. OrderInv'
  BY <1>1, <1>2, <1>6, ShorterOrdered
<1>8. ASSUME NEW s \in Unread PROVE Framed(Stream'[s], First(s))
  <2>1. Framed(Stream[s], First(s)) /\ s \in Sessions /\ First(s) \in Int
    BY <1>2 DEF IInv, FrameInv
  <2>2. CASE s = x
    BY <1>3, <1>4, <2>1, <2>2, FramedCut, Zenon
  <2>3. CASE s # x
    BY <1>4, <2>1, <2>3, Zenon
  <2> QED BY <2>2, <2>3
<1>9. FrameInv'
  BY <1>1, <1>2, <1>8 DEF FrameInv
<1> QED BY <1>7, <1>9

\* A chunk of the order at next_read is put behind everything else.
LEMMA AppendKept ==
  ASSUME IInv, alive, spc = "send", NEW c \in Chunks, c = Chunk(msg, 3 - remaining),
         Stream' = [Stream EXCEPT ![sess] = Append(@, c)],
         IF remaining = 1 THEN NextId' = NextId + 1 ELSE NextId' = NextId,
         UNCHANGED <<served, expected_seq, accepted>>
  PROVE  FrameInv' /\ OrderInv'
<1>1. Unread' = Unread /\ \A s \in Sessions : First(s)' = First(s)
  BY DEF Unread, First
<1>2. /\ Stream \in [Sessions -> Seq(Chunks)] /\ Unread \subseteq Sessions /\ NextId \in Int
      /\ Sessions \subseteq Int /\ served \in Int /\ sess \in Sessions
      /\ \A s \in Sessions : /\ Len(Stream[s]) \in Nat /\ First(s) \in Int
                             /\ \A i \in 1..Len(Stream[s]) : Stream[s][i] \in Chunks
  BY Bounds, Zenon
<1>3. /\ remaining \in {1, 2} /\ msg.order = NextId /\ msg.seq = next_seq /\ next_seq \in Nat
      /\ 2 * First(sess) + Len(Stream[sess]) = 2 * next_seq + 2 - remaining
      /\ remaining = 1 => Stream[sess][Len(Stream[sess])].order = NextId
  BY DEF IInv, HandInv, InHand, TypeInv
<1>4. c.order = NextId /\ c.seq = next_seq /\ c.part = 3 - remaining
  BY <1>3 DEF Chunk
<1>5. PICK z \in Seq(Chunks) : z = Stream[sess]
  BY <1>2
<1>6. /\ Stream'[sess] = Append(z, c)
      /\ \A s \in Sessions : s # sess => Stream'[s] = Stream[s]
  BY <1>2, <1>5, Zenon
<1>7. /\ Len(Stream'[sess]) = Len(z) + 1 /\ Len(z) \in Nat
      /\ \A i \in 1..Len(z) : Stream'[sess][i] = Stream[sess][i]
      /\ Stream'[sess][Len(z) + 1] = c
  BY <1>5, <1>6, AppendProperties, SMTT(30)
<1>8. FrameInv'
  <2>1. \/ c.part = 1 /\ 2 * First(sess) + Len(z) = 2 * c.seq
        \/ c.part = 2 /\ 2 * First(sess) + Len(z) = 2 * c.seq + 1 /\ c.order = z[Len(z)].order
    <3>1. CASE remaining = 1
      <4>1. c.part = 2 /\ 2 * First(sess) + Len(z) = 2 * c.seq + 1
        BY <1>2, <1>3, <1>4, <1>5, <3>1, SMTT(30)
      <4>2. c.order = z[Len(z)].order
        BY <1>3, <1>4, <1>5, <3>1, ZenonT(30)
      <4> QED BY <4>1, <4>2, Zenon
    <3>2. CASE remaining = 2
      BY <1>2, <1>3, <1>4, <1>5, <3>2, SMTT(30)
    <3> QED BY <1>3, <3>1, <3>2, Zenon
  <2>2. ASSUME NEW s \in Unread PROVE Framed(Stream'[s], First(s))
    <3>1. Framed(Stream[s], First(s)) /\ s \in Sessions /\ First(s) \in Int
      BY <1>2 DEF IInv, FrameInv
    <3>2. CASE s = sess
      <4>1. Framed(z, First(sess)) /\ First(sess) \in Int
        BY <1>5, <3>1, <3>2, Zenon
      <4>2. Framed(Append(z, c), First(sess))
        BY <2>1, <4>1, FramedAppend, Zenon
      <4> QED BY <1>6, <3>2, <4>2, Zenon
    <3>3. CASE s # sess
      BY <1>6, <3>1, <3>3, ZenonT(30)
    <3> QED BY <3>2, <3>3
  <2> QED BY <1>1, <1>2, <2>2, Zenon DEF FrameInv
<1>9. OrderInv'
  <2>1. NextId' \in Int /\ NextId <= NextId' /\ (c.part = 2 => NextId < NextId')
    BY <1>2, <1>3, <1>4, SMTT(30)
  <2>2. \A a \in DOMAIN accepted : accepted[a].order < NextId /\ accepted[a].order \in Int
    BY AcceptedTypes, Zenon DEF IInv, OrderInv
  \* What is in a stream was there before, or is the new chunk at the end.
  <2>3. ASSUME NEW s \in Unread, NEW i \in 1..Len(Stream'[s])
        PROVE  /\ \/ i \in 1..Len(Stream[s]) /\ Stream'[s][i] = Stream[s][i]
                  \/ s = sess /\ i = Len(z) + 1 /\ Stream'[s][i] = c
               /\ Stream'[s][i].order \in Int
    <3>1. CASE s = sess
      <4>1. i \in 1..Len(z) \/ i = Len(z) + 1
        BY <1>7, <3>1
      <4>2. \/ i \in 1..Len(Stream[s]) /\ Stream'[s][i] = Stream[s][i]
            \/ s = sess /\ i = Len(z) + 1 /\ Stream'[s][i] = c
        BY <1>5, <1>7, <3>1, <4>1, Zenon
      <4> QED BY <1>2, <4>2, Zenon DEF Chunks
    <3>2. CASE s # sess
      BY <1>2, <1>6, <3>2, Zenon DEF Chunks
    <3> QED BY <3>1, <3>2
  <2>4. ASSUME NEW s \in Unread, NEW i \in 1..Len(Stream[s])
        PROVE  /\ Stream[s][i].order <= NextId /\ Stream[s][i].order \in Int
               /\ Stream[s][i].part = 2 => Stream[s][i].order < NextId
    BY <1>2, ZenonT(30) DEF IInv, OrderInv, Chunks
  <2>5. AcceptedOnceInOrder'
    BY DEF IInv, OrderInv, AcceptedOnceInOrder
  <2>6. \A a \in DOMAIN accepted : accepted[a].order < NextId'
    BY <1>2, <2>1, <2>2, SMTT(30)
  <2>7. ASSUME NEW a \in DOMAIN accepted, NEW s \in Unread, NEW i \in 1..Len(Stream'[s])
        PROVE  accepted[a].order < Stream'[s][i].order
    <3>1. i \in 1..Len(Stream[s]) => accepted[a].order < Stream[s][i].order
      BY SMTT(30) DEF IInv, OrderInv
    <3> QED BY <1>4, <2>2, <2>3, <3>1, Zenon
  <2>8. ASSUME NEW s \in Unread, NEW i \in 1..Len(Stream'[s]), NEW j \in 1..Len(Stream'[s]),
               i < j, Stream'[s][i].part = 2
        PROVE  Stream'[s][i].order < Stream'[s][j].order
    <3>1. CASE j \in 1..Len(Stream[s])
      <4>1. i \in 1..Len(Stream[s]) /\ Stream'[s][i] = Stream[s][i] /\ Stream'[s][j] = Stream[s][j]
        <5>1. i \in 1..Len(Stream[s])
          BY <1>2, <2>8, <3>1
        <5>2. CASE s = sess
          BY <1>5, <1>7, <3>1, <5>1, <5>2, Zenon
        <5>3. CASE s # sess
          BY <1>2, <1>6, <5>1, <5>3, Zenon
        <5> QED BY <5>1, <5>2, <5>3, Zenon
      <4> QED BY <2>8, <4>1, <3>1, ZenonT(30) DEF IInv, OrderInv
    <3>2. CASE j \notin 1..Len(Stream[s])
      <4>1. s = sess /\ j = Len(z) + 1 /\ Stream'[s][j] = c
        BY <2>3, <3>2, Zenon
      <4>2. i # Len(z) + 1
        BY <1>7, <2>8, <4>1
      <4>3. i \in 1..Len(Stream[s]) /\ Stream'[s][i] = Stream[s][i]
        BY <2>3, <4>2, Zenon
      <4> QED BY <1>4, <2>4, <2>8, <4>1, <4>3, Zenon
    <3> QED BY <3>1, <3>2
  <2>9. ASSUME NEW s \in Unread, NEW t \in Unread,
               NEW i \in 1..Len(Stream'[s]), NEW j \in 1..Len(Stream'[t]),
               s < t, Stream'[s][i].part = 2
        PROVE  Stream'[s][i].order < Stream'[t][j].order
    <3>1. s # sess
      <4> SUFFICES ASSUME s = sess PROVE FALSE
        BY Zenon
      <4>1. t > sess /\ t # served /\ t \in Sessions /\ t # sess
        BY <1>2, <2>9, SMTT(30) DEF Unread
      <4>2. up[t] = <<>> /\ Begun(t) = <<>>
        BY <4>1 DEF IInv, ConnInv, Begun
      <4>3. Stream[t] = <<>> \o <<>>
        BY <4>1, <4>2, Streams, ZenonT(30)
      <4>4. Len(Stream[t]) = 0 /\ Stream'[t] = Stream[t]
        BY <1>6, <4>1, <4>3
      <4>5. j \in 1..0
        BY <4>4, Zenon
      <4> QED BY <4>5
    <3>2. i \in 1..Len(Stream[s]) /\ Stream'[s][i] = Stream[s][i]
      BY <2>3, <3>1, Zenon
    <3>3. CASE j \in 1..Len(Stream[t]) /\ Stream'[t][j] = Stream[t][j]
      BY <2>9, <3>2, <3>3, Zenon DEF IInv, OrderInv
    <3>4. CASE Stream'[t][j] = c
      BY <1>4, <2>4, <2>9, <3>2, <3>4, Zenon
    <3> QED BY <2>3, <3>3, <3>4, Zenon
  <2>10. ASSUME NEW s \in Unread, NEW i \in 1..Len(Stream'[s])
         PROVE  /\ Stream'[s][i].order <= NextId'
                /\ Stream'[s][i].part = 2 => Stream'[s][i].order < NextId'
    <3>1. CASE i \in 1..Len(Stream[s]) /\ Stream'[s][i] = Stream[s][i]
      <4>1. /\ Stream[s][i].order <= NextId /\ Stream[s][i].order \in Int
            /\ Stream[s][i].part = 2 => Stream[s][i].order < NextId
        BY <2>4, <3>1, Zenon
      <4> QED BY <1>2, <2>1, <3>1, <4>1, BelowAll, Zenon
    <3>2. CASE Stream'[s][i] = c
      BY <1>2, <1>4, <2>1, <3>2, ZenonT(30)
    <3> QED BY <2>3, <3>1, <3>2, ZenonT(30)
  <2> QED BY <1>1, <2>5, <2>6, <2>7, <2>8, <2>9, <2>10, SMTT(30) DEF OrderInv
<1> QED BY <1>8, <1>9

\* The first two chunks of a stream are the order the receiver expects.
LEMMA HeadOrder ==
  ASSUME IInv, served \in Sessions, Len(Stream[served]) >= 2
  PROVE  /\ Stream[served][1] \in Chunks /\ Stream[served][2] \in Chunks
         /\ Stream[served][1].part = 1 /\ Stream[served][2].part = 2
         /\ Stream[served][1].seq = expected_seq /\ Stream[served][2].seq = expected_seq
         /\ Stream[served][2].order = Stream[served][1].order
<1>1. served \in Unread /\ First(served) = expected_seq /\ expected_seq \in Nat
  <2>1. served \in Int /\ expected_seq \in Nat
    BY Bounds DEF IInv, TypeInv
  <2> QED BY <2>1 DEF Unread, First
<1>2. PICK z \in Seq(Chunks) : z = Stream[served]
  BY Bounds
<1>3. Framed(z, expected_seq) /\ Len(z) >= 2 /\ Len(z) \in Nat
  BY <1>1, <1>2 DEF IInv, FrameInv
<1>4. z[1] \in Chunks /\ z[2] \in Chunks
  BY <1>2, <1>3, ElementOfSeq
<1>5. /\ 1 \in 1..Len(z) /\ 2 * 1 - 1 <= Len(z) /\ 2 * 1 <= Len(z) /\ 2 * 1 = 2
      /\ 2 * 1 - 1 = 1 /\ expected_seq + 1 - 1 = expected_seq
  BY <1>1, <1>3
<1>6. /\ z[1].seq = expected_seq /\ z[1].part = 1
      /\ z[2].seq = expected_seq /\ z[2].part = 2 /\ z[2].order = z[1].order
  <2>1. /\ z[2 * 1 - 1].seq = expected_seq + 1 - 1 /\ z[2 * 1 - 1].part = 1
        /\ z[2 * 1].seq = expected_seq + 1 - 1 /\ z[2 * 1].part = 2
        /\ z[2 * 1].order = z[2 * 1 - 1].order
    BY <1>3, <1>5, Zenon DEF Framed
  <2> QED BY <1>5, <2>1, Zenon
<1> QED BY <1>2, <1>4, <1>6, Zenon

\* The order at the head of the stream that is served is accepted.
LEMMA DropKept ==
  ASSUME IInv, served \in Sessions, Len(Stream[served]) >= 2, NextId' = NextId,
         Stream' = [Stream EXCEPT ![served] = SubSeq(@, 3, Len(@))], served' = served,
         accepted' = Append(accepted, [order |-> Stream[served][1].order, sess |-> served]),
         expected_seq' = expected_seq + 1
  PROVE  FrameInv' /\ OrderInv'
<1>1. /\ Stream \in [Sessions -> Seq(Chunks)] /\ Unread \subseteq Sessions /\ NextId \in Int
      /\ Sessions \subseteq Int
      /\ \A s \in Sessions : /\ Len(Stream[s]) \in Nat /\ First(s) \in Int
                             /\ \A i \in 1..Len(Stream[s]) : Stream[s][i] \in Chunks
  BY Bounds, SMTT(30)
<1>2. /\ Unread' = Unread /\ served \in Unread /\ expected_seq \in Nat /\ First(served) = expected_seq
      /\ \A s \in Sessions : First(s)' = IF s = served THEN First(s) + 1 ELSE First(s)
  BY <1>1 DEF Unread, First, IInv, TypeInv
<1>3. PICK z \in Seq(Chunks) : z = Stream[served]
  BY <1>1, SMTT(30)
<1>4. /\ Stream'[served] = SubSeq(z, 3, Len(z)) /\ Len(z) >= 2 /\ Len(z) \in Nat
      /\ \A s \in Sessions : s # served => Stream'[s] = Stream[s]
  BY <1>1, <1>3
<1>5. /\ Len(Stream'[served]) = Len(z) - 2
      /\ \A i \in 1..(Len(z) - 2) : Stream'[served][i] = z[i + 2]
  BY <1>4, DropTwo, ZenonT(30)
<1>6. FrameInv'
  <2>1. ASSUME NEW s \in Unread PROVE Framed(Stream'[s], First(s)')
    <3>1. Framed(Stream[s], First(s)) /\ s \in Sessions /\ First(s) \in Int
      BY <1>1 DEF IInv, FrameInv
    <3>2. CASE s = served
      <4>1. First(s)' = First(s) + 1
        BY <1>2, <3>2
      <4>2. Framed(SubSeq(z, 3, Len(z)), First(s) + 1)
        BY <1>3, <1>4, <3>1, <3>2, FramedDrop, Zenon
      <4> QED BY <1>4, <3>2, <4>1, <4>2, Zenon
    <3>3. CASE s # served
      <4>1. First(s)' = First(s) /\ Stream'[s] = Stream[s]
        BY <1>2, <1>4, <3>1, <3>3, SMTT(30)
      <4> QED BY <3>1, <4>1, Zenon
    <3> QED BY <3>2, <3>3
  <2> QED BY <1>2, <2>1 DEF FrameInv
<1>7. OrderInv'
  \* Every chunk left was there before, the ones of this stream two places on.
  <2>1. ASSUME NEW s \in Unread, NEW i \in 1..Len(Stream'[s])
        PROVE  \E k \in 1..Len(Stream[s]) : /\ Stream'[s][i] = Stream[s][k]
                                            /\ k = IF s = served THEN i + 2 ELSE i
    <3>1. CASE s = served
      <4>1. i \in 1..(Len(z) - 2)
        BY <1>5, <3>1, Zenon
      <4>2. PICK k \in 1..Len(z) : k = i + 2
        BY <1>4, <4>1
      <4>3. Stream'[s][i] = z[k]
        BY <1>5, <3>1, <4>1, <4>2, ZenonT(30)
      <4> QED BY <1>3, <3>1, <4>2, <4>3, Zenon
    <3>2. CASE s # served
      BY <1>1, <1>4, <3>2, Zenon
    <3> QED BY <3>1, <3>2
  <2>2. PICK o \in Int : o = Stream[served][1].order
    <3>1. Stream[served][1] \in Chunks
      BY HeadOrder, Zenon
    <3> QED BY <3>1 DEF Chunks
  <2>3. /\ 1 \in 1..Len(Stream[served]) /\ 2 \in 1..Len(Stream[served])
        /\ Stream[served][2].part = 2 /\ Stream[served][2].order = o
    <3>1. 1 \in 1..Len(Stream[served]) /\ 2 \in 1..Len(Stream[served])
      BY <1>3, <1>4
    <3> QED BY <2>2, <3>1, HeadOrder, Zenon
  <2>4. o < NextId
    BY <1>2, <2>3, Zenon DEF IInv, OrderInv
  <2>5. \A a \in DOMAIN accepted : accepted[a].order < o
    BY <1>2, <2>2, <2>3, Zenon DEF IInv, OrderInv
  <2>6. ASSUME NEW s \in Unread, NEW i \in 1..Len(Stream'[s]) PROVE o < Stream'[s][i].order
    <3>1. PICK k \in 1..Len(Stream[s]) : /\ Stream'[s][i] = Stream[s][k]
                                         /\ k = IF s = served THEN i + 2 ELSE i
      BY <2>1, Zenon
    <3>2. CASE s = served
      <4>1. 2 < k
        <5>1. i \in 1..(Len(z) - 2)
          BY <1>5, <3>2, Zenon
        <5> QED BY <1>4, <3>1, <3>2, <5>1
      <4> QED BY <1>2, <2>3, <3>1, <3>2, <4>1, Zenon DEF IInv, OrderInv
    <3>3. CASE s # served
      <4>1. served < s
        BY <1>1, <3>3 DEF Unread
      <4> QED BY <1>2, <2>3, <3>1, <4>1, ZenonT(30) DEF IInv, OrderInv
    <3> QED BY <3>2, <3>3
  \* The accepted orders are the old ones and o.
  <2>7. /\ \A a \in DOMAIN accepted' : \/ a \in DOMAIN accepted /\ accepted'[a] = accepted[a]
                                       \/ a = Len(accepted) + 1 /\ accepted'[a].order = o
        /\ DOMAIN accepted = 1..Len(accepted) /\ DOMAIN accepted' = 1..(Len(accepted) + 1)
        /\ Len(accepted) \in Nat
    <3>1. PICK q \in Seq([order : Int, sess : Nat]) : q = accepted
      BY Zenon DEF IInv, TypeInv
    <3>a. served \in Nat
      BY DEF IInv, TypeInv
    <3>2. PICK e \in [order : Int, sess : Nat] : e = [order |-> o, sess |-> served]
      BY <3>a, Zenon
    <3>3. accepted' = Append(q, e) /\ e.order = o
      BY <2>2, <3>1, <3>2, Zenon
    <3>4. /\ Len(Append(q, e)) = Len(q) + 1 /\ Append(q, e)[Len(q) + 1] = e
          /\ \A a \in 1..Len(q) : Append(q, e)[a] = q[a]
          /\ DOMAIN q = 1..Len(q) /\ DOMAIN Append(q, e) = 1..(Len(q) + 1) /\ Len(q) \in Nat
      BY AppendProperties, LenProperties
    <3>5. \A a \in 1..(Len(q) + 1) : a \in 1..Len(q) \/ a = Len(q) + 1
      BY <3>4, SMTT(30)
    <3> QED BY <3>1, <3>3, <3>4, <3>5, Zenon
  <2>8. AcceptedOnceInOrder'
    <3> SUFFICES ASSUME NEW i \in DOMAIN accepted', NEW j \in DOMAIN accepted', i < j
                 PROVE  accepted'[i].order < accepted'[j].order
      BY SMTT(30) DEF AcceptedOnceInOrder
    <3>1. i \in DOMAIN accepted /\ accepted'[i] = accepted[i]
      <4>1. i # Len(accepted) + 1
        BY <2>7
      <4> QED BY <2>7, <4>1, Zenon
    <3>2. CASE j \in DOMAIN accepted /\ accepted'[j] = accepted[j]
      BY <3>1, <3>2, Zenon DEF IInv, OrderInv, AcceptedOnceInOrder
    <3>3. CASE accepted'[j].order = o
      BY <2>5, <3>1, <3>3, Zenon
    <3> QED BY <2>7, <3>2, <3>3, Zenon
  <2>9. ASSUME NEW a \in DOMAIN accepted' PROVE accepted'[a].order < NextId
    BY <2>4, <2>7, Zenon DEF IInv, OrderInv
  <2>10. ASSUME NEW a \in DOMAIN accepted', NEW s \in Unread, NEW i \in 1..Len(Stream'[s])
         PROVE  accepted'[a].order < Stream'[s][i].order
    <3>1. CASE a \in DOMAIN accepted /\ accepted'[a] = accepted[a]
      BY <2>1, <3>1, ZenonT(30) DEF IInv, OrderInv
    <3>2. CASE accepted'[a].order = o
      BY <2>6, <3>2, Zenon
    <3> QED BY <2>7, <3>1, <3>2, Zenon
  <2>11. ASSUME NEW s \in Unread, NEW i \in 1..Len(Stream'[s]), NEW j \in 1..Len(Stream'[s]),
                i < j, Stream'[s][i].part = 2
         PROVE  Stream'[s][i].order < Stream'[s][j].order
    <3>1. PICK k \in 1..Len(Stream[s]) : /\ Stream'[s][i] = Stream[s][k]
                                         /\ k = IF s = served THEN i + 2 ELSE i
      BY <2>1, Zenon
    <3>2. PICK l \in 1..Len(Stream[s]) : /\ Stream'[s][j] = Stream[s][l]
                                         /\ l = IF s = served THEN j + 2 ELSE j
      BY <2>1, Zenon
    <3>3. k < l
      <4>1. i \in Int /\ j \in Int
        <5>1. CASE s = served
          <6>1. i \in 1..(Len(z) - 2) /\ j \in 1..(Len(z) - 2)
            BY <1>5, <5>1, Zenon
          <6> QED BY <1>4, <6>1
        <5>2. CASE s # served
          BY <1>1, <3>1, <3>2, <5>2, SMTT(30)
        <5> QED BY <5>1, <5>2, Zenon
      <4> QED BY <2>11, <3>1, <3>2, <4>1, SMTT(30)
    <3> QED BY <2>11, <3>1, <3>2, <3>3, ZenonT(30) DEF IInv, OrderInv
  <2>12. ASSUME NEW s \in Unread, NEW t \in Unread,
                NEW i \in 1..Len(Stream'[s]), NEW j \in 1..Len(Stream'[t]),
                s < t, Stream'[s][i].part = 2
         PROVE  Stream'[s][i].order < Stream'[t][j].order
    <3>1. PICK k \in 1..Len(Stream[s]) : Stream'[s][i] = Stream[s][k]
      BY <2>1, Zenon
    <3>2. PICK l \in 1..Len(Stream[t]) : Stream'[t][j] = Stream[t][l]
      BY <2>1, SMTT(30)
    <3> QED BY <2>12, <3>1, <3>2, ZenonT(30) DEF IInv, OrderInv
  <2>13. ASSUME NEW s \in Unread, NEW i \in 1..Len(Stream'[s])
         PROVE  /\ Stream'[s][i].order <= NextId
                /\ Stream'[s][i].part = 2 => Stream'[s][i].order < NextId
    <3>1. PICK k \in 1..Len(Stream[s]) : Stream'[s][i] = Stream[s][k]
      BY <2>1
    <3>2. /\ Stream[s][k].order <= NextId
          /\ Stream[s][k].part = 2 => Stream[s][k].order < NextId
      BY Zenon DEF IInv, OrderInv
    <3> QED BY <3>1, <3>2, Zenon
  <2>14. Unread' = Unread
    BY <1>2
  <2>15. \A a \in DOMAIN accepted', s \in Unread : \A i \in 1..Len(Stream'[s]) :
           accepted'[a].order < Stream'[s][i].order
    BY <2>10, Zenon
  <2>16. \A s \in Unread : \A i, j \in 1..Len(Stream'[s]) :
           i < j /\ Stream'[s][i].part = 2 => Stream'[s][i].order < Stream'[s][j].order
    BY <2>11, Zenon
  <2>17. \A s, t \in Unread : \A i \in 1..Len(Stream'[s]), j \in 1..Len(Stream'[t]) :
           s < t /\ Stream'[s][i].part = 2 => Stream'[s][i].order < Stream'[t][j].order
    BY <2>12, ZenonT(30)
  <2>18. \A s \in Unread : \A i \in 1..Len(Stream'[s]) :
           /\ Stream'[s][i].order <= NextId
           /\ Stream'[s][i].part = 2 => Stream'[s][i].order < NextId
    BY <2>13, Zenon
  <2> QED BY <2>8, <2>9, <2>14, <2>15, <2>16, <2>17, <2>18, ZenonT(60) DEF OrderInv
<1> QED BY <1>6, <1>7, SMTT(30)

-----------------------------------------------------------------------------
(* The invariant is inductive: one lemma per action. *)
\* A step that leaves the ring alone keeps its invariant.
LEMMA RingSame ==
  ASSUME RingInv, UNCHANGED ring
  PROVE  Occupied' = Occupied /\ NextId' = NextId /\ RingInv'
BY DEF ring, RingInv, Ahead, Occupied, NextId

\* A step that leaves buffers and sessions alone keeps the streams.
LEMMA StreamSame ==
  ASSUME UNCHANGED <<up, serving, served, sbuf>>
  PROVE  Stream' = Stream
BY Zenon DEF Stream, InStream

\* A step that leaves the sender and the streams alone keeps HandInv.
LEMMA HandSame ==
  ASSUME HandInv, NextId' = NextId, Occupied > 0 => Occupied' > 0, Stream' = Stream,
         UNCHANGED <<spc, msg, remaining, next_seq, sess, alive, served, expected_seq>>
  PROVE  HandInv'
BY DEF HandInv, First, InHand

\* A step that leaves connections and counters alone keeps what is said of them.
LEMMA ConnSame ==
  ASSUME ConnInv, SessionsAgree, UNCHANGED <<sess, alive, up, served, serving>>,
         UNCHANGED <<bad_csum, seq_gaps, duplicates>>
  PROVE  ConnInv' /\ SessionsAgree'
BY Zenon DEF ConnInv, SessionsAgree

\* OMS submit keeps the invariant.
LEMMA SubmitKeeps == ASSUME IInv, Submit PROVE IInv'
<1>1. TypeInv /\ RingInv /\ HandInv /\ ConnInv /\ SessionsAgree
  BY DEF IInv
<1>2. /\ UNCHANGED <<spc, msg, remaining, next_seq, sess, alive, up, served, serving, sbuf,
                     expected_seq, accepted, next_read>>
      /\ UNCHANGED <<bad_csum, seq_gaps, duplicates>>
  BY DEF Submit, sender, server
<1>3. /\ next_order_id' \in Nat /\ next_write' \in 0..(CursorMod - 1)
      /\ data' \in [0..(RingSize - 1) -> Int]
      /\ Occupied' = Occupied + 1 /\ NextId' = NextId /\ RingInv'
  BY <1>1, SubmitRing
<1>4. Stream' = Stream
  BY <1>2, StreamSame, Zenon
<1>5. Occupied \in Nat /\ NextId \in Int /\ NextId' \in Int /\ NextId <= NextId'
  <2>1. next_read \in 0..(CursorMod - 1)
    BY <1>1, SMTT(30) DEF TypeInv
  <2> QED BY <1>1, <1>3, <2>1, Cursors, SMTT(30)
<1>6. TypeInv'
  BY <1>1, <1>2, <1>3, ZenonT(30) DEF TypeInv
<1>7. ConnInv' /\ SessionsAgree'
  BY <1>1, <1>2, ConnSame, ZenonT(30)
<1>8. HandInv'
  BY <1>1, <1>2, <1>3, <1>4, <1>5, HandSame, SMTT(30)
<1>9. FrameInv' /\ OrderInv'
  BY <1>2, <1>4, <1>5, Kept, Zenon
<1> QED BY <1>3, <1>6, <1>7, <1>8, <1>9, Zenon DEF IInv

\* The thread takes the order at next_read in hand.
LEMMA LoopKeeps == ASSUME IInv, Loop PROVE IInv'
<1>1. TypeInv /\ RingInv /\ HandInv /\ ConnInv /\ SessionsAgree
  BY DEF IInv
<1>2. /\ UNCHANGED <<next_seq, sess, alive, up, served, serving, sbuf, expected_seq, accepted>>
      /\ UNCHANGED <<bad_csum, seq_gaps, duplicates>> /\ UNCHANGED ring /\ spc = "loop"
      /\ IF Waiting
         THEN /\ spc' = "send" /\ remaining' = 2
              /\ msg' = [order |-> data[next_read % RingSize], seq |-> next_seq]
         ELSE UNCHANGED <<spc, msg, remaining>>
  BY Zenon DEF Loop, server
<1>3. Occupied' = Occupied /\ NextId' = NextId /\ RingInv'
  BY <1>1, <1>2, RingSame, Zenon
<1>4. Stream' = Stream
  BY <1>2, StreamSame
<1>5. /\ next_read \in 0..(CursorMod - 1) /\ next_write \in 0..(CursorMod - 1)
      /\ data \in [0..(RingSize - 1) -> Int] /\ next_seq \in Nat
  BY <1>1 DEF TypeInv
<1>6. /\ Ahead(next_read) = 0 /\ next_read % RingSize \in 0..(RingSize - 1) /\ NextId \in Int
      /\ Occupied = IF next_write >= next_read THEN next_write - next_read
                    ELSE next_write - next_read + CursorMod
  <2>1. PICK p \in 0..(CursorMod - 1) : p = next_read
    BY <1>5
  <2>2. /\ Ahead(p) = IF p >= next_read THEN p - next_read ELSE p - next_read + CursorMod
        /\ p % RingSize \in 0..(RingSize - 1) /\ NextId \in Int
        /\ Occupied = IF next_write >= next_read THEN next_write - next_read
                      ELSE next_write - next_read + CursorMod
    BY <1>1, Cursors, Zenon
  <2>3. Ahead(p) = 0
    BY <1>5, <2>1, <2>2, ConstantTypes, SMTT(30)
  <2> QED BY <2>1, <2>2, <2>3, Zenon
<1>7. data[next_read % RingSize] \in Int
  BY <1>5, <1>6, Zenon
<1>8. TypeInv'
  <2>1. /\ msg' \in [order : Int, seq : Int] /\ spc' \in {"loop", "send"}
        /\ remaining' \in 0..2
    BY <1>1, <1>2, <1>5, <1>7, SMTT(30) DEF TypeInv
  <2>2. UNCHANGED <<next_order_id, next_write, next_read, data>>
    BY <1>2 DEF ring
  <2> QED BY <1>1, <1>2, <2>1, <2>2, Zenon DEF TypeInv
<1>9. ConnInv' /\ SessionsAgree'
  BY <1>1, <1>2, ConnSame, ZenonT(30)
<1>10. HandInv'
  <2>1. CASE Waiting
    <3>1. Occupied > 0
      BY <1>5, <1>6, <2>1, ConstantTypes, SMTT(30) DEF Waiting
    <3>2. data[next_read % RingSize] = NextId
      BY <1>1, <1>5, <1>6, <3>1, SMTT(30) DEF RingInv
    <3> QED BY <1>1, <1>2, <1>3, <1>4, <2>1, <3>1, <3>2, SMTT(30) DEF HandInv, First, InHand
  <2>2. CASE ~Waiting
    BY <1>1, <1>2, <1>3, <1>4, <2>2, HandSame, Zenon
  <2> QED BY <2>1, <2>2, Zenon
<1>11. FrameInv' /\ OrderInv'
  <2>1. NextId' \in Int /\ NextId <= NextId'
    BY <1>3, <1>6, SMTT(30)
  <2> QED BY <1>2, <1>4, <2>1, Kept, Zenon
<1> QED BY <1>3, <1>8, <1>9, <1>10, <1>11, Zenon DEF IInv

\* What a send that the kernel takes does to ring and sender.
LEMMA TakenFacts ==
  ASSUME IInv, spc = "send", Taken
  PROVE  /\ UNCHANGED <<next_order_id, next_write, data, sess, alive, served, serving, sbuf,
                        expected_seq, accepted>>
         /\ UNCHANGED <<bad_csum, seq_gaps, duplicates>>
         /\ remaining' = remaining - 1 /\ remaining \in {1, 2} /\ msg' \in [order : Int, seq : Int]
         /\ next_read' \in 0..(CursorMod - 1) /\ next_seq' \in Nat /\ spc' \in {"loop", "send"}
         /\ RingInv' /\ NextId \in Int
         /\ remaining = 1 => NextId' = NextId + 1 /\ spc' = "loop" /\ next_seq' = next_seq + 1
         /\ remaining = 2 => /\ NextId' = NextId /\ Occupied' = Occupied
                             /\ UNCHANGED <<spc, msg, next_seq>>
<1>1. TypeInv /\ RingInv /\ HandInv /\ Occupied > 0 /\ remaining \in {1, 2}
  BY Zenon DEF IInv, HandInv
<1>2. /\ UNCHANGED <<next_order_id, next_write, data, sess, alive, served, serving, sbuf,
                     expected_seq, accepted>>
      /\ UNCHANGED <<bad_csum, seq_gaps, duplicates>> /\ remaining' = remaining - 1
  BY DEF Taken, server
<1>3. /\ next_read \in 0..(CursorMod - 1) /\ msg \in [order : Int, seq : Int] /\ next_seq \in Nat
      /\ spc \in {"loop", "send"}
  BY <1>1 DEF TypeInv
<1>4. NextId \in Int
  BY Bounds, Zenon
<1>5. CASE remaining = 1
  <2>1. /\ spc' = "loop" /\ msg' = NoOrder /\ next_seq' = next_seq + 1
        /\ next_read' = (next_read + 1) % CursorMod
    BY <1>5, Zenon DEF Taken
  <2>2. next_read' \in 0..(CursorMod - 1) /\ NextId' = NextId + 1 /\ RingInv'
    BY <1>1, <1>2, <2>1, TakenRing, Zenon
  <2>3. msg' \in [order : Int, seq : Int]
    BY <2>1, SMTT(30) DEF NoOrder
  <2> QED BY <1>1, <1>2, <1>3, <1>4, <1>5, <2>1, <2>2, <2>3, SMTT(30)
<1>6. CASE remaining = 2
  <2>1. UNCHANGED <<spc, msg, next_seq, next_read>>
    BY <1>6 DEF Taken
  <2>2. UNCHANGED ring
    BY <1>2, <2>1 DEF ring
  <2>3. Occupied' = Occupied /\ NextId' = NextId /\ RingInv'
    BY <1>1, <2>2, RingSame, Zenon
  <2> QED BY <1>1, <1>2, <1>3, <1>4, <1>6, <2>1, <2>3, SMTT(30)
<1> QED BY <1>1, <1>5, <1>6, Zenon

\* A chunk that the kernel takes on a living connection keeps the invariant.
LEMMA SendTakenKeeps == ASSUME IInv, SendTaken PROVE IInv'
<1>1. TypeInv /\ HandInv /\ ConnInv /\ SessionsAgree
  BY DEF IInv
<1>2. /\ spc = "send" /\ alive /\ Taken
      /\ up' = [up EXCEPT ![sess] = Append(@, Chunk(msg, 3 - remaining))]
  BY Zenon DEF SendTaken
<1>3. /\ UNCHANGED <<next_order_id, next_write, data, sess, alive, served, serving, sbuf,
                     expected_seq, accepted>>
      /\ UNCHANGED <<bad_csum, seq_gaps, duplicates>>
      /\ remaining' = remaining - 1 /\ remaining \in {1, 2} /\ msg' \in [order : Int, seq : Int]
      /\ next_read' \in 0..(CursorMod - 1) /\ next_seq' \in Nat /\ spc' \in {"loop", "send"}
      /\ RingInv' /\ NextId \in Int
      /\ remaining = 1 => NextId' = NextId + 1 /\ spc' = "loop" /\ next_seq' = next_seq + 1
      /\ remaining = 2 => /\ NextId' = NextId /\ Occupied' = Occupied
                          /\ UNCHANGED <<spc, msg, next_seq>>
  BY <1>2, TakenFacts, Zenon
<1>4. Chunk(msg, 3 - remaining) \in Chunks
  <2>1. msg.order \in Int /\ msg.seq \in Int /\ 3 - remaining \in {1, 2}
    BY <1>1, <1>3 DEF TypeInv
  <2> QED BY <2>1 DEF Chunk, Chunks
<1>5. PICK c \in Chunks : c = Chunk(msg, 3 - remaining)
  BY <1>4, Zenon
<1>6. up' = [up EXCEPT ![sess] = Append(@, c)]
  BY <1>2, <1>5, Zenon
<1>7. Stream' = [Stream EXCEPT ![sess] = Append(@, c)]
  BY <1>1, <1>3, <1>6, AppendStream, ZenonT(30)
<1>8. up \in [Sessions -> Seq(Chunks)] /\ sess \in Sessions /\ Sessions \subseteq Int
  BY <1>1, SMTT(30) DEF TypeInv, Sessions
<1>9. TypeInv'
  <2>1. up' \in [Sessions -> Seq(Chunks)]
    <3>1. Append(up[sess], c) \in Seq(Chunks)
      BY <1>8, AppendProperties, Zenon
    <3> QED BY <1>6, <1>8, <3>1, Zenon
  <2>2. remaining' \in 0..2
    BY <1>3, SMTT(30)
  <2> QED BY <1>1, <1>3, <2>1, <2>2, ZenonT(30) DEF TypeInv
<1>10. ConnInv' /\ SessionsAgree'
  <2>1. \A s \in Sessions : s > sess => up'[s] = up[s]
    <3>1. \A s \in Sessions : s > sess => s # sess
      BY <1>8
    <3> QED BY <1>6, <1>8, <3>1, Zenon
  <2> QED BY <1>1, <1>3, <2>1 DEF ConnInv, SessionsAgree
<1>11. HandInv'
  <2>1. PICK z \in Seq(Chunks) : z = Stream[sess]
    BY <1>8, Bounds
  <2>2. Stream'[sess] = Append(z, c)
    BY <1>7, <1>8, <2>1, Bounds, Zenon
  <2>3. Len(Stream'[sess]) = Len(z) + 1 /\ Len(z) \in Nat /\ Append(z, c)[Len(z) + 1] = c
    BY <2>2, AppendProperties, SMTT(30)
  <2>4. Stream'[sess][Len(Stream'[sess])].order = msg.order
    BY <1>5, <2>2, <2>3, SMTT(30) DEF Chunk
  <2>a. PICK n \in Nat : n = Len(z)
    BY <2>3, SMTT(30)
  <2>5. /\ 2 * First(sess) + n = 2 * next_seq + 2 - remaining /\ next_seq \in Nat
        /\ First(sess)' = First(sess) /\ First(sess) \in Int
        /\ Occupied > 0 /\ msg.order = NextId /\ msg.seq = next_seq
    BY <1>1, <1>2, <1>3, <1>8, <2>1, <2>a, Bounds, ZenonT(30) DEF HandInv, InHand, First, TypeInv
  <2>b. PICK f \in Int : f = First(sess)
    BY <2>5
  <2>c. /\ 2 * f + n = 2 * next_seq + 2 - remaining /\ First(sess)' = f
        /\ Len(Stream'[sess]) = n + 1
    BY <2>3, <2>5, <2>a, <2>b, ZenonT(30)
  <2>6. CASE remaining = 1
    <3>1. spc' = "loop" /\ sess' = sess /\ alive' = alive /\ InHand' = 0
      BY <1>3, <2>6, Zenon DEF InHand
    <3>a. next_seq' = next_seq + 1
      BY <1>3, <2>6, Zenon
    <3>b. 2 * f + (n + 1) = 2 * (next_seq + 1)
      BY <2>5, <2>6, <2>c
    <3>2. 2 * First(sess)' + Len(Stream'[sess]) = 2 * next_seq'
      BY <2>c, <3>a, <3>b, ZenonT(30)
    <3> QED BY <1>3, <3>1, <3>2, SMTT(30) DEF HandInv
  <2>7. CASE remaining = 2
    <3>1. spc' = "send" /\ sess' = sess /\ alive' = alive /\ InHand' = 1 /\ remaining' = 1
      BY <1>2, <1>3, <2>7, SMTT(30) DEF InHand
    <3>a. next_seq' = next_seq
      BY <1>3, <2>7, Zenon
    <3>b. 2 * f + (n + 1) = 2 * next_seq + 1
      BY <2>5, <2>7, <2>c
    <3>2. 2 * First(sess)' + Len(Stream'[sess]) = 2 * next_seq' + 1
      BY <2>c, <3>a, <3>b, Zenon
    <3> QED BY <1>3, <2>4, <2>5, <2>7, <3>1, <3>2, ZenonT(30) DEF HandInv
  <2> QED BY <1>3, <2>6, <2>7
<1>12. FrameInv' /\ OrderInv'
  <2>1. IF remaining = 1 THEN NextId' = NextId + 1 ELSE NextId' = NextId
    BY <1>3, Zenon
  <2> QED BY <1>2, <1>3, <1>5, <1>7, <2>1, AppendKept, ZenonT(30)
<1> QED BY <1>3, <1>9, <1>10, <1>11, <1>12, SMTT(30) DEF IInv

\* So does one that the kernel takes for a connection already broken.
LEMMA SendVanishesKeeps == ASSUME IInv, SendVanishes PROVE IInv'
<1>1. TypeInv /\ HandInv /\ ConnInv /\ SessionsAgree
  BY DEF IInv
<1>2. spc = "send" /\ ~alive /\ Taken /\ up' = up
  BY Zenon DEF SendVanishes
<1>3. /\ UNCHANGED <<next_order_id, next_write, data, sess, alive, served, serving, sbuf,
                     expected_seq, accepted>>
      /\ UNCHANGED <<bad_csum, seq_gaps, duplicates>>
      /\ remaining' = remaining - 1 /\ remaining \in {1, 2} /\ msg' \in [order : Int, seq : Int]
      /\ next_read' \in 0..(CursorMod - 1) /\ next_seq' \in Nat /\ spc' \in {"loop", "send"}
      /\ RingInv' /\ NextId \in Int
      /\ remaining = 1 => NextId' = NextId + 1 /\ spc' = "loop" /\ next_seq' = next_seq + 1
      /\ remaining = 2 => /\ NextId' = NextId /\ Occupied' = Occupied
                          /\ UNCHANGED <<spc, msg, next_seq>>
  BY <1>2, TakenFacts, Zenon
<1>4. Stream' = Stream
  BY <1>2, <1>3, StreamSame, SMTT(30)
<1>5. TypeInv'
  <2>1. remaining' \in 0..2
    BY <1>3
  <2> QED BY <1>1, <1>2, <1>3, <2>1, ZenonT(30) DEF TypeInv
<1>6. ConnInv' /\ SessionsAgree'
  BY <1>1, <1>2, <1>3, ConnSame, ZenonT(30)
<1>7. HandInv'
  BY <1>1, <1>2, <1>3, SMTT(30) DEF HandInv
<1>8. FrameInv' /\ OrderInv'
  <2>1. NextId' \in Int /\ NextId <= NextId'
    BY <1>3
  <2> QED BY <1>3, <1>4, <2>1, Kept, Zenon
<1> QED BY <1>3, <1>5, <1>6, <1>7, <1>8 DEF IInv

\* drain_acks, and a step that changes nothing, touch nothing of the invariant.
LEMMA QuietKeeps ==
  ASSUME IInv, UNCHANGED <<ring, sender, sess, alive, up, server>>
  PROVE  IInv'
<1>1. TypeInv /\ RingInv /\ HandInv /\ ConnInv /\ SessionsAgree
  BY DEF IInv
<1>2. /\ UNCHANGED <<spc, msg, remaining, next_seq, sess, alive, up, served, serving, sbuf,
                     expected_seq, accepted>>
      /\ UNCHANGED <<next_order_id, next_write, next_read, data>> /\ UNCHANGED ring
      /\ UNCHANGED <<bad_csum, seq_gaps, duplicates>>
  BY Zenon DEF ring, sender, server
<1>3. Occupied' = Occupied /\ NextId' = NextId /\ RingInv'
  BY <1>1, <1>2, RingSame, Zenon
<1>4. Stream' = Stream
  BY <1>2, StreamSame, Zenon
<1>5. TypeInv'
  BY <1>1, <1>2, SMTT(30) DEF TypeInv
<1>6. ConnInv' /\ SessionsAgree'
  BY <1>1, <1>2, ConnSame, ZenonT(30)
<1>7. HandInv'
  BY <1>1, <1>2, <1>3, <1>4, HandSame, Zenon
<1>8. FrameInv' /\ OrderInv'
  <2>1. NextId' \in Int /\ NextId <= NextId'
    BY <1>3, Bounds, SMTT(30)
  <2> QED BY <1>2, <1>4, <2>1, Kept, Zenon
<1> QED BY <1>3, <1>5, <1>6, <1>7, <1>8, Zenon DEF IInv

\* Reconnecting and starting the order in hand again keeps the invariant.
LEMMA SendFailsKeeps == ASSUME IInv, SendFails PROVE IInv'
<1>1. TypeInv /\ RingInv /\ HandInv /\ ConnInv /\ SessionsAgree
  BY DEF IInv
<1>2. /\ spc = "send" /\ ~alive /\ sess' = sess + 1 /\ alive' = TRUE /\ next_seq' = 1
      /\ remaining' = 2 /\ msg' = [msg EXCEPT !.seq = 1] /\ UNCHANGED ring
      /\ UNCHANGED <<next_order_id, next_write, next_read, data>>
      /\ UNCHANGED <<spc, up, served, serving, sbuf, expected_seq, accepted>>
      /\ UNCHANGED <<bad_csum, seq_gaps, duplicates>>
  BY DEF SendFails, FirstSeq, Resume, ring, server
<1>3. Occupied' = Occupied /\ NextId' = NextId /\ RingInv'
  BY <1>1, <1>2, RingSame
<1>4. Stream' = Stream
  BY <1>2, StreamSame
<1>5. /\ sess' \in Sessions /\ sess \in Sessions /\ served \in 0..sess /\ Sessions \subseteq Int
      /\ up[sess'] = <<>> /\ served # sess' /\ served \in 0..sess'
  <2>1. /\ sess < MaxSessions /\ sess \in 1..MaxSessions /\ served \in 0..sess
        /\ MaxSessions \in Nat \ {0} /\ Sessions = 1..MaxSessions
    BY <1>1, <1>2, ConstantTypes DEF ConnInv, TypeInv, Sessions
  <2>2. sess' \in Sessions /\ sess' > sess /\ Sessions \subseteq Int /\ served # sess' /\ served \in 0..sess'
    BY <1>2, <2>1
  <2>3. up[sess'] = <<>>
    BY <1>1, <2>2 DEF ConnInv
  <2> QED BY <2>1, <2>2, <2>3, SMTT(30)
<1>6. TypeInv'
  <2>1. msg' \in [order : Int, seq : Int]
    <3>1. PICK m \in [order : Int, seq : Int] : m = msg
      BY <1>1 DEF TypeInv
    <3>2. [m EXCEPT !.seq = 1] \in [order : Int, seq : Int]
      OBVIOUS
    <3> QED BY <1>2, <3>1, <3>2
  <2>2. remaining' \in 0..2 /\ next_seq' \in Nat /\ alive' \in BOOLEAN
    BY <1>2
  <2> QED BY <1>1, <1>2, <1>5, <2>1, <2>2, ZenonT(30) DEF TypeInv
<1>7. ConnInv' /\ SessionsAgree'
  <2>1. \A s \in Sessions : s > sess' => s > sess
    BY <1>2, <1>5
  <2> QED BY <1>1, <1>2, <1>5, <2>1 DEF ConnInv, SessionsAgree
\* The new connection is empty, and the receiver is not there yet.
<1>8. HandInv'
  <2>1. Len(Stream'[sess']) = 0
    <3>1. Begun(sess') = <<>>
      BY <1>5 DEF Begun
    <3>2. Stream[sess'] = Begun(sess') \o up[sess']
      BY <1>5, Streams, Zenon
    <3>3. Stream'[sess'] = <<>> \o <<>>
      BY <1>4, <1>5, <3>1, <3>2, Zenon
    <3> QED BY <3>3
  <2>2. First(sess)' = 1 /\ InHand' = 0
    BY <1>2, <1>5 DEF First, InHand
  <2>3. msg'.order = msg.order /\ msg'.seq = 1
    BY <1>1, <1>2 DEF TypeInv
  <2>4. spc = "send" /\ Occupied > 0 /\ msg.order = NextId
    BY <1>1, <1>2 DEF HandInv
  <2> QED BY <1>2, <1>3, <2>1, <2>2, <2>3, <2>4 DEF HandInv
<1>9. FrameInv' /\ OrderInv'
  <2>1. NextId' \in Int /\ NextId <= NextId'
    BY <1>3, Bounds
  <2> QED BY <1>2, <1>4, <2>1, Kept, SMTT(30)
<1> QED BY <1>3, <1>6, <1>7, <1>8, <1>9 DEF IInv

\* A connection that breaks keeps the invariant: streams lose their ends only.
LEMMA BreakKeeps == ASSUME IInv, Break PROVE IInv'
<1>1. TypeInv /\ RingInv /\ HandInv /\ ConnInv /\ SessionsAgree
  BY DEF IInv
<1>2. /\ sess < MaxSessions /\ alive' = FALSE /\ UNCHANGED ring
      /\ UNCHANGED <<next_order_id, next_write, next_read, data>>
      /\ UNCHANGED <<spc, msg, remaining, next_seq, sess, served, serving, sbuf, expected_seq,
                     accepted>>
      /\ UNCHANGED <<bad_csum, seq_gaps, duplicates>>
  BY DEF Break, ring, sender, server
<1>3. PICK i \in 0..Len(up[sess]) : up' = [up EXCEPT ![sess] = SubSeq(@, 1, i)]
  BY Zenon DEF Break
<1>4. Occupied' = Occupied /\ NextId' = NextId /\ RingInv'
  BY <1>1, <1>2, RingSame, Zenon
<1>5. up \in [Sessions -> Seq(Chunks)] /\ sess \in Sessions /\ Sessions \subseteq Int
  BY <1>1 DEF TypeInv, Sessions
<1>6. TypeInv'
  <2>1. PICK u \in Seq(Chunks) : u = up[sess]
    BY <1>5
  <2>2. 1 \in Nat \ {0} /\ i \in Nat /\ i <= Len(u)
    BY <1>3, <2>1
  <2>3. SubSeq(u, 1, i) \in Seq(Chunks)
    BY <2>2, Slice
  <2>4. up' \in [Sessions -> Seq(Chunks)]
    BY <1>3, <1>5, <2>1, <2>3, SMTT(30)
  <2> QED BY <1>1, <1>2, <2>4, Zenon DEF TypeInv
<1>7. ConnInv' /\ SessionsAgree'
  <2>1. \A s \in Sessions : s > sess => up'[s] = up[s]
    <3>1. ASSUME NEW s \in Sessions, s > sess PROVE s # sess
      BY <1>5, <3>1
    <3>2. ASSUME NEW s \in Sessions, s # sess PROVE up'[s] = up[s]
      BY <1>3, <1>5, <3>2, Zenon
    <3> QED BY <3>1, <3>2, Zenon
  <2>2. ConnInv'
    BY <1>1, <1>2, <2>1, Zenon DEF ConnInv
  <2> QED BY <1>1, <1>2, <2>2, Zenon DEF SessionsAgree
<1>8. HandInv'
  BY <1>1, <1>2, <1>4 DEF HandInv
<1>9. FrameInv' /\ OrderInv'
  <2>1. PICK k \in 0..Len(Stream[sess]) : Stream' = [Stream EXCEPT ![sess] = SubSeq(@, 1, k)]
    BY <1>1, <1>2, <1>3, CutStream, Zenon
  <2> QED BY <1>2, <1>4, <1>5, <2>1, CutKept, Zenon
<1> QED BY <1>4, <1>6, <1>7, <1>8, <1>9, Zenon DEF IInv

\* accept of the next waiting connection keeps the invariant.
LEMMA AcceptKeeps == ASSUME IInv, Accept PROVE IInv'
<1>1. TypeInv /\ RingInv /\ HandInv /\ ConnInv /\ SessionsAgree
  BY DEF IInv
<1>2. /\ served < sess /\ served' = served + 1 /\ serving' = TRUE /\ expected_seq' = 1
      /\ sbuf' = <<>> /\ UNCHANGED ring
      /\ UNCHANGED <<next_order_id, next_write, next_read, data>>
      /\ UNCHANGED <<spc, msg, remaining, next_seq, sess, alive, up, accepted>>
      /\ UNCHANGED <<bad_csum, seq_gaps, duplicates>>
  BY DEF Accept, NoBytes, ring, sender
<1>3. Occupied' = Occupied /\ NextId' = NextId /\ RingInv'
  BY <1>1, <1>2, RingSame
<1>4. Stream' = Stream
  BY <1>1, AcceptStream, Zenon
<1>5. sess \in Nat /\ served \in Nat /\ served' \in 0..sess
  <2>1. sess \in Sessions /\ served \in 0..sess
    BY <1>1, Zenon DEF TypeInv
  <2>2. served < sess /\ served' = served + 1
    BY <1>2, Zenon
  <2>3. sess \in Nat
    BY <2>1, Bounds
  <2> QED BY <2>1, <2>2, <2>3
<1>6. TypeInv'
  <2>1. sbuf' \in Seq(Chunks) /\ expected_seq' \in Nat /\ serving' \in BOOLEAN
    BY <1>2
  <2> QED BY <1>1, <1>2, <1>5, <2>1, ZenonT(30) DEF TypeInv
<1>7. ConnInv' /\ SessionsAgree'
  <2>1. served' > 0
    BY <1>2, <1>5
  <2>2. ConnInv'
    BY <1>1, <1>2, <2>1, Zenon DEF ConnInv
  <2> QED BY <1>1, <1>2, <2>2, Zenon DEF SessionsAgree
\* A session that was waiting is numbered from 1 before and after.
<1>8. Unread' \subseteq Unread /\ \A s \in Unread' : First(s)' = First(s)
  <2>1. Sessions \subseteq Int
    BY Bounds
  <2>2. ASSUME NEW s \in Sessions, s >= served'
        PROVE  s >= served /\ First(s)' = First(s)
    <3>1. s > served
      BY <1>2, <1>5, <2>1, <2>2, SMTT(30)
    <3> QED BY <1>2, <1>5, <2>1, <3>1 DEF First
  <2> QED BY <2>2 DEF Unread
<1>9. HandInv'
  <2>1. First(sess)' = First(sess)
    BY <1>2, <1>5 DEF First
  <2>2. InHand' = InHand
    BY <1>2, Zenon DEF InHand
  <2> QED BY <1>1, <1>2, <1>3, <1>4, <2>1, <2>2, Zenon DEF HandInv
<1>10. FrameInv'
  BY <1>4, <1>8, Zenon DEF FrameInv, IInv
<1>11. OrderInv'
  <2>1. /\ NextId' \in Int /\ NextId <= NextId'
        /\ \A s \in Unread' : /\ Len(Stream'[s]) \in 0..Len(Stream[s])
                              /\ \A i \in 1..Len(Stream'[s]) : Stream'[s][i] = Stream[s][i]
    BY <1>3, <1>4, <1>8, Bounds
  <2> QED BY <1>2, <1>8, <2>1, ShorterOrdered, Zenon
<1> QED BY <1>3, <1>6, <1>7, <1>9, <1>10, <1>11, SMTT(30) DEF IInv

\* A connection that is served is one of the sessions.
LEMMA ServedSession == ASSUME IInv, serving PROVE served \in Sessions
<1>1. served \in 0..sess /\ sess \in 1..MaxSessions /\ served > 0 /\ MaxSessions \in Nat \ {0}
  BY ConstantTypes, Zenon DEF IInv, TypeInv, ConnInv, Sessions
<1> QED BY <1>1 DEF Sessions

\* recv keeps the invariant.
LEMMA RecvKeeps == ASSUME IInv, Recv PROVE IInv'
<1>1. TypeInv /\ RingInv /\ HandInv /\ ConnInv /\ SessionsAgree
  BY DEF IInv
<1>2. /\ serving /\ UNCHANGED ring
      /\ UNCHANGED <<next_order_id, next_write, next_read, data>>
      /\ UNCHANGED <<spc, msg, remaining, next_seq, sess, alive, served, serving, expected_seq,
                     accepted>>
      /\ UNCHANGED <<bad_csum, seq_gaps, duplicates>>
  BY DEF Recv, ring, sender
<1>3. Occupied' = Occupied /\ NextId' = NextId /\ RingInv'
  BY <1>1, <1>2, RingSame, Zenon
<1>4. served \in Sessions
  BY <1>2, ServedSession
<1>5. Stream' = Stream /\ up' \in [Sessions -> Seq(Chunks)] /\ sbuf' \in Seq(Chunks)
  BY <1>1, <1>4, RecvStream, Zenon
<1>6. TypeInv'
  BY <1>1, <1>2, <1>5, Zenon DEF TypeInv
<1>7. ConnInv' /\ SessionsAgree'
  <2>1. PICK n : up' = [up EXCEPT ![served] = SubSeq(@, n + 1, Len(@))]
    BY Zenon DEF Recv
  <2>2. \A s \in Sessions : s > sess => s # served
    BY <1>1 DEF TypeInv, Sessions
  <2>3. \A s \in Sessions : s > sess => up'[s] = up[s]
    BY <1>1, <2>1, <2>2, SMTT(30) DEF TypeInv
  <2> QED BY <1>1, <1>2, <2>3 DEF ConnInv, SessionsAgree
<1>8. HandInv'
  BY <1>1, <1>2, <1>3, <1>5, HandSame, ZenonT(30)
<1>9. FrameInv' /\ OrderInv'
  <2>1. NextId' \in Int /\ NextId <= NextId'
    BY <1>3, Bounds
  <2> QED BY <1>2, <1>5, <2>1, Kept, ZenonT(30)
<1> QED BY <1>3, <1>6, <1>7, <1>8, <1>9 DEF IInv

\* handle_client finds the order it expects: the first three branches are not taken.
LEMMA FrameKeeps == ASSUME IInv, Frame PROVE IInv'
<1>1. TypeInv /\ RingInv /\ HandInv /\ ConnInv /\ SessionsAgree
  BY DEF IInv
<1>2. /\ serving /\ UNCHANGED ring
      /\ UNCHANGED <<next_order_id, next_write, next_read, data>>
      /\ UNCHANGED <<spc, msg, remaining, next_seq, sess, alive, up, served, serving>>
  BY DEF Frame, ring, sender
<1>3. Occupied' = Occupied /\ NextId' = NextId /\ RingInv'
  BY <1>1, <1>2, RingSame
<1>4. served \in Sessions
  BY <1>2, ServedSession, Zenon
<1>5. /\ Stream' = [Stream EXCEPT ![served] = SubSeq(@, 3, Len(@))]
      /\ Len(Stream[served]) >= 2 /\ sbuf' \in Seq(Chunks)
      /\ sbuf[1] = Stream[served][1] /\ sbuf[2] = Stream[served][2]
  BY <1>1, <1>4, FrameStream
<1>6. /\ sbuf[1] \in Chunks /\ sbuf[2] \in Chunks /\ sbuf[1].part = 1 /\ sbuf[2].part = 2
      /\ sbuf[1].seq = expected_seq /\ sbuf[2].seq = expected_seq
      /\ sbuf[2].order = sbuf[1].order
  BY <1>4, <1>5, HeadOrder, Zenon
<1>7. ValidChecksum(sbuf) /\ ~(sbuf[1].seq < expected_seq) /\ ~(sbuf[1].seq > expected_seq)
  <2>1. expected_seq \in Nat
    BY <1>1 DEF TypeInv
  <2>2. sbuf[2] = [sbuf[1] EXCEPT !.part = 2]
    <3>1. PICK a \in Chunks : a = sbuf[1]
      BY <1>6, Zenon
    <3>2. PICK b \in Chunks : b = sbuf[2]
      BY <1>6, Zenon
    <3>3. a.seq = b.seq /\ a.order = b.order /\ b.part = 2
      BY <1>6, <3>1, <3>2
    <3>4. b = [a EXCEPT !.part = 2]
      BY <3>3 DEF Chunks
    <3> QED BY <3>1, <3>2, <3>4, Zenon
  <2> QED BY <1>6, <2>1, <2>2 DEF ValidChecksum
<1>8. AcceptOrder(sbuf) /\ UNCHANGED <<bad_csum, seq_gaps, duplicates>>
  BY <1>7, ZenonT(30) DEF Frame
<1>9. /\ accepted' = Append(accepted, [order |-> Stream[served][1].order, sess |-> served])
      /\ expected_seq' = expected_seq + 1 /\ expected_seq \in Nat
  BY <1>1, <1>5, <1>6, <1>8, Zenon DEF AcceptOrder, TypeInv
<1>10. TypeInv'
  <2>1. accepted' \in Seq([order : Int, sess : Nat])
    <3>1. PICK o \in Int : o = Stream[served][1].order
      BY <1>5, <1>6, SMTT(30) DEF Chunks
    <3>2. [order |-> o, sess |-> served] \in [order : Int, sess : Nat]
      BY <1>4 DEF Sessions
    <3>3. accepted \in Seq([order : Int, sess : Nat])
      BY <1>1, Zenon DEF TypeInv
    <3>4. Append(accepted, [order |-> o, sess |-> served]) \in Seq([order : Int, sess : Nat])
      BY <3>2, <3>3, AppendProperties, Zenon
    <3> QED BY <1>9, <3>1, <3>4, ZenonT(30)
  <2>2. expected_seq' \in Nat /\ sbuf' \in Seq(Chunks)
    BY <1>5, <1>9, SMTT(30)
  <2> QED BY <1>1, <1>2, <2>1, <2>2, SMTT(30) DEF TypeInv
<1>11. ConnInv' /\ SessionsAgree'
  BY <1>1, <1>2, <1>8, ConnSame, ZenonT(30)
<1>12. HandInv'
  <2>0. Stream \in [Sessions -> Seq(Chunks)] /\ sess \in Sessions
    BY Bounds, Zenon
  <2>1. CASE served # sess
    <3>1. Stream'[sess] = Stream[sess] /\ First(sess)' = First(sess)
      BY <1>2, <1>5, <2>0, <2>1, ZenonT(30) DEF First
    <3> QED BY <1>1, <1>2, <1>3, <3>1, SMTT(30) DEF HandInv, InHand
  <2>2. CASE served = sess
    <3>1. PICK z \in Seq(Chunks) : z = Stream[sess]
      BY <2>0, SMTT(30)
    <3>2. Stream'[sess] = SubSeq(z, 3, Len(z)) /\ Len(z) >= 2 /\ Len(z) \in Nat
      BY <1>5, <2>0, <2>2, <3>1, SMTT(30)
    <3>3. PICK n \in Nat : n = Len(z) /\ n >= 2
      BY <3>2
    <3>4. Len(Stream'[sess]) = n - 2 /\ \A i \in 1..(n - 2) : Stream'[sess][i] = z[i + 2]
      <4>1. /\ Len(SubSeq(z, 3, Len(z))) = Len(z) - 2
            /\ \A i \in 1..(Len(z) - 2) : SubSeq(z, 3, Len(z))[i] = z[i + 2]
        BY <3>2, DropTwo, Zenon
      <4> QED BY <3>2, <3>3, <4>1, ZenonT(30)
    <3>5. First(sess) = expected_seq /\ First(sess)' = expected_seq + 1
      BY <1>2, <1>9, <2>2, SMTT(30) DEF First
    <3>6. ASSUME alive
          PROVE  /\ 2 * First(sess)' + Len(Stream'[sess]) = 2 * next_seq + InHand
                 /\ spc = "send" /\ remaining = 1 =>
                      Stream'[sess][Len(Stream'[sess])].order = msg.order
      <4>1. 2 * First(sess) + Len(Stream[sess]) = 2 * next_seq + InHand
        BY <1>1, <3>6, Zenon DEF HandInv
      <4>2. 2 * expected_seq + n = 2 * next_seq + InHand
        BY <3>1, <3>3, <3>5, <4>1, ZenonT(30)
      <4>3. next_seq \in Nat /\ InHand \in Int
        BY <1>1, SMTT(30) DEF TypeInv, InHand
      <4>4. 2 * (expected_seq + 1) + (n - 2) = 2 * next_seq + InHand
        BY <1>9, <4>2, <4>3, SMTT(30)
      <4>5. ASSUME spc = "send", remaining = 1
            PROVE  Stream'[sess][Len(Stream'[sess])].order = msg.order
        <5>1. InHand = 1
          BY <4>5 DEF InHand
        <5>2. n # 2
          BY <1>9, <4>2, <4>3, <5>1, SMTT(30)
        <5>3. n - 2 \in 1..(n - 2) /\ n - 2 + 2 = n
          BY <3>3, <5>2
        <5>4. Stream'[sess][n - 2] = z[n]
          BY <3>4, <5>3, Zenon
        <5>5. z[n].order = msg.order
          BY <1>1, <3>1, <3>3, <3>6, <4>5, Zenon DEF HandInv
        <5> QED BY <3>4, <5>4, <5>5, Zenon
      <4> QED BY <3>4, <3>5, <4>4, <4>5, ZenonT(30)
    <3>7. InHand' = InHand
      BY <1>2, SMTT(30) DEF InHand
    <3> QED BY <1>1, <1>2, <1>3, <3>6, <3>7, SMTT(30) DEF HandInv
  <2> QED BY <2>1, <2>2, SMTT(30)
<1>13. FrameInv' /\ OrderInv'
  BY <1>2, <1>3, <1>4, <1>5, <1>9, DropKept, ZenonT(30)
<1> QED BY <1>3, <1>10, <1>11, <1>12, <1>13 DEF IInv

\* The end of a session keeps the invariant.
LEMMA DisconnectKeeps == ASSUME IInv, Disconnect PROVE IInv'
<1>1. TypeInv /\ RingInv /\ HandInv /\ ConnInv /\ SessionsAgree
  BY DEF IInv
<1>2. /\ serving /\ serving' = FALSE /\ UNCHANGED ring /\ (alive => served # sess)
      /\ UNCHANGED <<next_order_id, next_write, next_read, data>>
      /\ UNCHANGED <<spc, msg, remaining, next_seq, sess, alive, up, served, sbuf, expected_seq,
                     accepted>>
      /\ UNCHANGED <<bad_csum, seq_gaps, duplicates>>
  BY Zenon DEF Disconnect, SessionOver, Live, ring, sender
<1>3. Occupied' = Occupied /\ NextId' = NextId /\ RingInv'
  BY <1>1, <1>2, RingSame, Zenon
<1>4. served \in Sessions
  BY <1>2, ServedSession
<1>5. Stream' = [Stream EXCEPT ![served] = SubSeq(@, 1, 0)]
  BY <1>1, <1>4, DisconnectStream
<1>6. TypeInv'
  BY <1>1, <1>2, ZenonT(30) DEF TypeInv
<1>7. ConnInv' /\ SessionsAgree'
  BY <1>1, <1>2, ZenonT(30) DEF ConnInv, SessionsAgree
<1>8. HandInv'
  <2>1. Stream \in [Sessions -> Seq(Chunks)] /\ sess \in Sessions
    BY Bounds
  <2>2. alive => Stream'[sess] = Stream[sess] /\ First(sess)' = First(sess)
    BY <1>2, <1>5, <2>1 DEF First
  <2> QED BY <1>1, <1>2, <1>3, <2>2, ZenonT(30) DEF HandInv, InHand
<1>9. FrameInv' /\ OrderInv'
  <2>1. 0 \in 0..Len(Stream[served])
    BY <1>4, Bounds
  <2> QED BY <1>2, <1>3, <1>4, <1>5, <2>1, CutKept, ZenonT(30)
<1> QED BY <1>3, <1>6, <1>7, <1>8, <1>9 DEF IInv

\* The invariant holds when the processes start.
LEMMA InitHolds == ASSUME Init PROVE IInv
<1>1. /\ next_order_id = 1 /\ next_write = 0 /\ next_read = 0
      /\ data = [i \in 0..(RingSize - 1) |-> 0] /\ spc = "loop" /\ msg = NoOrder /\ remaining = 0
      /\ next_seq = 1 /\ sess = 1 /\ alive = TRUE /\ up = [s \in Sessions |-> <<>>]
      /\ served = 0 /\ serving = FALSE /\ sbuf = <<>> /\ expected_seq = 1 /\ accepted = <<>>
      /\ bad_csum = 0 /\ seq_gaps = 0 /\ duplicates = 0
  BY DEF Init
<1>2. CursorMod \in Nat \ {0} /\ RingSize \in Nat \ {0} /\ MaxSessions \in Nat \ {0}
  BY ConstantTypes, Zenon
<1>3. TypeInv
  BY <1>1, <1>2, SMTT(30) DEF TypeInv, Sessions, NoOrder
<1>4. ConnInv /\ SessionsAgree
  BY <1>1, SMTT(30) DEF ConnInv, SessionsAgree
<1>5. Occupied = 0
  BY <1>1, <1>2, SMTT(30) DEF Occupied
<1>7. RingInv
  <2>1. ASSUME NEW p \in 0..(CursorMod - 1) PROVE ~(Ahead(p) < Occupied)
    <3>1. Ahead(p) \in 0..(CursorMod - 1)
      BY <1>3, Cursors, Zenon
    <3> QED BY <1>2, <1>5, <3>1, SMTT(30)
  <2> QED BY <1>2, <1>5, <2>1, SMTT(30) DEF RingInv
<1>8. ASSUME NEW s \in Sessions PROVE Stream[s] = <<>> /\ Len(Stream[s]) = 0
  <2>1. Begun(s) = <<>> /\ up[s] = <<>>
    BY <1>1 DEF Begun
  <2>2. Stream[s] = Begun(s) \o up[s]
    BY Streams, Zenon
  <2>3. Stream[s] = <<>> \o <<>>
    BY <2>1, <2>2, ZenonT(30)
  <2> QED BY <2>3
<1>9. HandInv
  <2>1. sess \in Sessions /\ First(sess) = 1 /\ InHand = 0
    BY <1>1, <1>2, SMTT(30) DEF Sessions, First, InHand
  <2>2. Len(Stream[sess]) = 0
    BY <1>8, <2>1
  <2> QED BY <1>1, <2>1, <2>2, Zenon DEF HandInv
<1>10. ASSUME NEW s \in Unread, NEW i \in 1..Len(Stream[s]) PROVE FALSE
  <2>1. i \in 1..0
    BY <1>8, <1>10, Zenon DEF Unread
  <2> QED BY <2>1
<1>11. FrameInv
  BY <1>10, Zenon DEF FrameInv, Framed
<1>12. OrderInv
  <2>1. DOMAIN accepted = {}
    BY <1>1
  <2> QED BY <1>10, <2>1, Zenon DEF OrderInv, AcceptedOnceInOrder
<1> QED BY <1>3, <1>4, <1>7, <1>9, <1>11, <1>12, Zenon DEF IInv

\* The invariant holds in every state of OMS, sender, connections and receiver.
THEOREM OrdersInductive == Spec => []IInv
<1>1. Init => IInv
  BY InitHolds
<1>2. ASSUME IInv, [Next]_vars PROVE IInv'
  <2>1. CASE UNCHANGED vars
    <3>1. UNCHANGED <<ring, sender, sess, alive, up, server>>
      BY <2>1 DEF vars
    <3> QED BY <1>2, <3>1, QuietKeeps
  <2>2. CASE Submit
    BY <1>2, <2>2, SubmitKeeps
  <2>3. CASE Loop
    BY <1>2, <2>3, LoopKeeps, ZenonT(30)
  <2>4. CASE SendTaken
    BY <1>2, <2>4, SendTakenKeeps
  <2>5. CASE SendBlocked
    <3>1. UNCHANGED <<ring, sender, sess, alive, up, server>>
      BY <2>5, ZenonT(30) DEF SendBlocked
    <3> QED BY <1>2, <3>1, QuietKeeps
  <2>6. CASE SendVanishes
    BY <1>2, <2>6, SendVanishesKeeps
  <2>7. CASE SendFails
    BY <1>2, <2>7, SendFailsKeeps
  <2>8. CASE Break
    BY <1>2, <2>8, BreakKeeps
  <2>9. CASE Accept
    BY <1>2, <2>9, AcceptKeeps
  <2>10. CASE Recv
    BY <1>2, <2>10, RecvKeeps
  <2>11. CASE Frame
    BY <1>2, <2>11, FrameKeeps
  <2>12. CASE Disconnect
    BY <1>2, <2>12, DisconnectKeeps
  <2> QED BY <1>2, <2>1, <2>2, <2>3, <2>4, <2>5, <2>6, <2>7, <2>8, <2>9, <2>10, <2>11, <2>12, ZenonT(30)
          DEF Next, Sender, Receiver
<1> QED BY <1>1, <1>2, PTL DEF Spec

\* order_receiver never counts a bad checksum, a gap or a duplicate, however often
\* connections break: the sender starts each one at 1, as handle_client expects.
THEOREM SessionNumbersAgree == Spec => []SessionsAgree
<1>1. IInv => SessionsAgree
  BY Zenon DEF IInv
<1> QED BY <1>1, OrdersInductive, PTL

\* The exchange accepts no order twice and none before an earlier one, although
\* order_sender sends the order in hand again on the next connection.
THEOREM AcceptedOnce == Spec => []AcceptedOnceInOrder
<1>1. IInv => AcceptedOnceInOrder
  BY DEF IInv, OrderInv
<1> QED BY <1>1, OrdersInductive, PTL

-----------------------------------------------------------------------------
(* What was handed over. *)
\* Orders taken from the ring: those before NextId, each once, rising within a
\* connection and from one to the next.  A connection's numbers stay below NextId.
SentInv ==
  /\ next_order_id \in 1..(NumOrders + 1) /\ NextId >= 1 /\ next_seq \in 1..NextId
  /\ sent \in [Sessions -> Seq(Orders)]
  /\ \A s \in Sessions : s > sess => sent[s] = <<>>
  /\ \A s \in Sessions : \A i \in 1..Len(sent[s]) : sent[s][i] < NextId
  /\ \A o \in 1..(NextId - 1) : \E s \in Sessions : \E i \in 1..Len(sent[s]) : sent[s][i] = o
  /\ \A s, t \in Sessions : \A i \in 1..Len(sent[s]), j \in 1..Len(sent[t]) :
       s < t \/ (s = t /\ i < j) => sent[s][i] < sent[t][j]

\* The order in hand: what its numbers are bounded by.
LEMMA HandBounds ==
  ASSUME IInv, SentInv
  PROVE  /\ NextId \in Nat \ {0} /\ next_seq \in Nat \ {0} /\ NumOrders \in Nat \ {0}
         /\ Occupied \in Nat /\ next_order_id = NextId + Occupied
         /\ NextId <= NumOrders + 1 /\ next_seq <= NumOrders + 1
         /\ Occupied > 0 => NextId \in Orders /\ next_seq \in Orders
<1>1. next_read \in 0..(CursorMod - 1) /\ TypeInv /\ next_seq \in Nat
  BY DEF IInv, TypeInv
<1>2. Occupied \in 0..(CursorMod - 1) /\ NextId \in Int
  BY <1>1, Cursors, Zenon
<1>3. PICK o \in Nat, n \in Int, c \in Int : o = Occupied /\ n = NextId /\ c = next_order_id
  BY <1>2, SMTT(30) DEF SentInv
<1>4. n = c - o /\ n >= 1 /\ c \in 1..(NumOrders + 1) /\ next_seq \in 1..n
  BY <1>3, Zenon DEF NextId, SentInv
<1>5. NumOrders \in Nat \ {0}
  BY ConstantTypes
<1>6. n \in Nat \ {0} /\ c = n + o /\ n <= NumOrders + 1 /\ (o > 0 => n \in Orders)
  BY <1>3, <1>4, <1>5 DEF Orders
<1>7. /\ next_seq <= NumOrders + 1 /\ next_seq \in Nat \ {0}
      /\ o > 0 => next_seq \in Orders
  BY <1>1, <1>3, <1>4, <1>5 DEF Orders
<1> QED BY <1>1, <1>3, <1>5, <1>6, <1>7, Zenon

\* A step that hands nothing over.
LEMMA SentSame ==
  ASSUME IInv, SentInv, sent' = sent, NextId' = NextId, next_seq' \in 1..NextId,
         sess' = sess \/ sess' = sess + 1, next_order_id' \in 1..(NumOrders + 1)
  PROVE  SentInv'
<1>1. sess \in Nat
  <2>1. sess \in Sessions /\ MaxSessions \in Nat
    BY ConstantTypes DEF IInv, TypeInv
  <2> QED BY <2>1 DEF Sessions
<1>2. ASSUME NEW s \in Sessions, s > sess' PROVE sent[s] = <<>>
  <2>1. s > sess
    BY <1>1, <1>2, ConstantTypes DEF Sessions
  <2> QED BY <1>2, <2>1, Zenon DEF SentInv
<1> QED BY <1>2, Zenon DEF SentInv

\* The last chunk of the order in hand is taken: sent grows by NextId.
LEMMA SentGrows ==
  ASSUME IInv, SentInv, NextId' = NextId + 1, next_seq' = next_seq + 1, Occupied > 0,
         UNCHANGED <<sess, next_order_id>>,
         sent' = [sent EXCEPT ![sess] = Append(@, NextId)]
  PROVE  SentInv'
<1>1. PICK n \in Nat \ {0} : n = NextId
  BY HandBounds, Zenon
<1>2. /\ n \in Orders /\ next_seq \in 1..n /\ NextId' = n + 1
      /\ sess \in Sessions /\ sent \in [Sessions -> Seq(Orders)]
      /\ next_order_id \in 1..(NumOrders + 1)
  BY <1>1, HandBounds, Zenon DEF SentInv, IInv, TypeInv
<1>3. PICK q \in Seq(Orders) : q = sent[sess]
  BY <1>2
<1>4. PICK l \in Nat : l = Len(q)
  BY <1>3
<1>5. PICK r \in Seq(Orders) :
        /\ r = Append(q, n) /\ Len(r) = l + 1 /\ r[l + 1] = n
        /\ \A i \in 1..l : r[i] = q[i]
  <2>1. Append(q, n) \in Seq(Orders)
    BY <1>2, <1>3, AppendProperties, Zenon
  <2>2. /\ Len(Append(q, n)) = Len(q) + 1 /\ Append(q, n)[Len(q) + 1] = n
        /\ \A i \in 1..Len(q) : Append(q, n)[i] = q[i]
    BY <1>2, AppendProperties
  <2> QED BY <1>4, <2>1, <2>2, Zenon
<1>6. sent' = [sent EXCEPT ![sess] = r]
  BY <1>1, <1>3, <1>5, Zenon
<1>7. /\ sent' \in [Sessions -> Seq(Orders)] /\ sent'[sess] = r
      /\ \A s \in Sessions : s # sess => sent'[s] = sent[s]
  BY <1>2, <1>6
<1>8. /\ \A s \in Sessions : s > sess => sent[s] = <<>>
      /\ \A s \in Sessions : \A i \in 1..Len(sent[s]) : sent[s][i] < n
      /\ \A o \in 1..(n - 1) : \E s \in Sessions : \E i \in 1..Len(sent[s]) : sent[s][i] = o
      /\ \A s, t \in Sessions : \A i \in 1..Len(sent[s]), j \in 1..Len(sent[t]) :
           s < t \/ (s = t /\ i < j) => sent[s][i] < sent[t][j]
  BY <1>1, Zenon DEF SentInv
<1>9. sess \in Nat /\ (\A s \in Sessions : s \in Nat) /\ (\A o \in Orders : o \in Nat)
  BY <1>2, ConstantTypes DEF Sessions, Orders
<1>10. ASSUME NEW s \in Sessions, s > sess PROVE sent'[s] = <<>>
  BY <1>7, <1>8, <1>9, <1>10
\* An element of the longer sequences is an old one or n at the end of sess.
<1>11. ASSUME NEW s \in Sessions, NEW i \in 1..Len(sent'[s])
       PROVE  \/ i \in 1..Len(sent[s]) /\ sent'[s][i] = sent[s][i]
              \/ s = sess /\ i = l + 1 /\ sent'[s][i] = n
  <2>1. CASE s # sess
    BY <1>7, <1>11, <2>1, Zenon
  <2>2. CASE s = sess
    <3>1. i \in 1..(l + 1) /\ sent'[s][i] = r[i] /\ Len(sent[s]) = l /\ sent[s] = q
      BY <1>3, <1>4, <1>5, <1>7, <1>11, <2>2, Zenon
    <3>2. i = l + 1 \/ i \in 1..l
      BY <3>1
    <3> QED BY <1>5, <2>2, <3>1, <3>2, ZenonT(30)
  <2> QED BY <2>1, <2>2, Zenon
<1>12. ASSUME NEW s \in Sessions, NEW i \in 1..Len(sent[s])
       PROVE  /\ i \in 1..Len(sent'[s]) /\ sent'[s][i] = sent[s][i] /\ sent[s][i] \in Nat
              /\ sent[s][i] < n
  <2>1. CASE s # sess
    <3>1. sent[s][i] \in Orders
      BY <1>2, <1>12, ElementOfSeq
    <3> QED BY <1>7, <1>8, <1>9, <1>12, <2>1, <3>1, Zenon
  <2>2. CASE s = sess
    <3>1. i \in 1..l /\ sent[s] = q /\ sent'[s] = r
      BY <1>3, <1>4, <1>7, <2>2, Zenon
    <3>2. i \in 1..(l + 1)
      BY <3>1
    <3>3. q[i] \in Nat
      <4>1. q[i] \in Orders
        BY <1>4, <3>1, ElementOfSeq
      <4> QED BY <1>9, <4>1, Zenon
    <3> QED BY <1>5, <1>8, <3>1, <3>2, <3>3, Zenon
  <2> QED BY <2>1, <2>2, Zenon
<1>13. ASSUME NEW s \in Sessions, NEW i \in 1..Len(sent'[s]) PROVE sent'[s][i] < n + 1
  <2>1. CASE i \in 1..Len(sent[s]) /\ sent'[s][i] = sent[s][i]
    BY <1>12, <2>1
  <2>2. CASE sent'[s][i] = n
    BY <2>2
  <2> QED BY <1>11, <2>1, <2>2, Zenon
<1>14. ASSUME NEW o \in 1..n
       PROVE  \E s \in Sessions : \E i \in 1..Len(sent'[s]) : sent'[s][i] = o
  <2>1. CASE o = n
    <3>1. l + 1 \in 1..Len(sent'[sess]) /\ sent'[sess][l + 1] = n
      BY <1>4, <1>5, <1>7
    <3> QED BY <1>2, <2>1, <3>1, Zenon
  <2>2. CASE o # n
    <3>1. o \in 1..(n - 1)
      BY <2>2
    <3>2. PICK s \in Sessions : \E i \in 1..Len(sent[s]) : sent[s][i] = o
      BY <1>8, <3>1, Zenon
    <3>3. PICK i \in 1..Len(sent[s]) : sent[s][i] = o
      BY <3>2, Zenon
    <3> QED BY <1>12, <3>3, Zenon
  <2> QED BY <2>1, <2>2, Zenon
<1>15. ASSUME NEW s \in Sessions, NEW t \in Sessions, NEW i \in 1..Len(sent'[s]),
              NEW j \in 1..Len(sent'[t]), s < t \/ (s = t /\ i < j)
       PROVE  sent'[s][i] < sent'[t][j]
  <2>1. CASE i \in 1..Len(sent[s]) /\ sent'[s][i] = sent[s][i]
    <3>1. CASE j \in 1..Len(sent[t]) /\ sent'[t][j] = sent[t][j]
      BY <1>8, <1>15, <2>1, <3>1, Zenon
    <3>2. CASE sent'[t][j] = n
      BY <1>12, <2>1, <3>2, Zenon
    <3> QED BY <1>11, <3>1, <3>2, Zenon
  <2>2. CASE s = sess /\ i = l + 1
    <3>1. t = s /\ i < j
      <4>1. CASE s < t
        <5>1. t > sess
          BY <1>9, <2>2, <4>1, Zenon
        <5>2. sent'[t] = <<>>
          BY <1>10, <5>1
        <5>3. j \in 1..0
          BY <5>2, Zenon
        <5> QED BY <5>3
      <4> QED BY <1>15, <4>1, Zenon
    <3>2. j \in 1..(l + 1)
      BY <1>5, <1>7, <2>2, <3>1, Zenon
    <3> QED BY <1>4, <2>2, <3>1, <3>2
  <2> QED BY <1>11, <2>1, <2>2, Zenon
<1>16. NextId' >= 1 /\ next_seq' \in 1..NextId' /\ NextId' - 1 = n
  <2>1. PICK m \in 1..n : m = next_seq
    BY <1>2
  <2>2. m + 1 \in 1..(n + 1) /\ n + 1 >= 1 /\ n + 1 - 1 = n
    OBVIOUS
  <2>3. NextId' = n + 1 /\ next_seq' = m + 1
    BY <1>2, <2>1, Zenon
  <2> QED BY <2>2, <2>3
<1>17. next_order_id' \in 1..(NumOrders + 1) /\ sess' = sess
  BY <1>2, Zenon
<1>18. /\ \A s \in Sessions : s > sess' => sent'[s] = <<>>
       /\ \A s \in Sessions : \A i \in 1..Len(sent'[s]) : sent'[s][i] < NextId'
  BY <1>2, <1>10, <1>13, <1>17, Zenon
<1>19. \A o \in 1..(NextId' - 1) : \E s \in Sessions : \E i \in 1..Len(sent'[s]) : sent'[s][i] = o
  BY <1>14, <1>16, Zenon
<1>20. \A s, t \in Sessions : \A i \in 1..Len(sent'[s]), j \in 1..Len(sent'[t]) :
         s < t \/ (s = t /\ i < j) => sent'[s][i] < sent'[t][j]
  BY <1>15, Zenon
<1> QED BY <1>7, <1>16, <1>17, <1>18, <1>19, <1>20, Zenon DEF SentInv

\* A send that the kernel takes.
LEMMA SentTaken == ASSUME IInv, SentInv, spc = "send", Taken PROVE SentInv'
<1>1. /\ UNCHANGED <<sess, next_order_id>> /\ remaining \in {1, 2}
      /\ remaining = 1 => NextId' = NextId + 1 /\ next_seq' = next_seq + 1
      /\ remaining = 2 => NextId' = NextId /\ next_seq' = next_seq
  BY TakenFacts, Zenon
<1>2. Occupied > 0 /\ msg.order = NextId
  BY Zenon DEF IInv, HandInv
<1>3. CASE remaining = 1
  <2>1. sent' = [sent EXCEPT ![sess] = Append(@, NextId)]
    BY <1>2, <1>3, Zenon DEF Taken
  <2> QED BY <1>1, <1>2, <1>3, <2>1, SentGrows, Zenon
<1>4. CASE remaining = 2
  <2>1. sent' = sent
    BY <1>4 DEF Taken
  <2>2. next_seq' \in 1..NextId /\ next_order_id' \in 1..(NumOrders + 1)
    BY <1>1, <1>4, Zenon DEF SentInv
  <2> QED BY <1>1, <1>4, <2>1, <2>2, SentSame, Zenon
<1> QED BY <1>1, <1>3, <1>4

\* What was handed over stays as SentInv says.
LEMMA SentKept == ASSUME IInv, SentInv, [Next]_vars PROVE SentInv'
<1>1. next_order_id \in 1..(NumOrders + 1) /\ next_seq \in 1..NextId /\ NextId \in Nat \ {0}
  BY HandBounds, Zenon DEF SentInv
<1>2. CASE Submit
  <2>1. UNCHANGED <<sent, next_seq, sess>> /\ next_order_id' = next_order_id + 1
        /\ next_order_id <= NumOrders
    BY <1>2 DEF Submit, sender
  <2>2. NextId' = NextId
    BY <1>2, SubmitRing, Zenon DEF IInv
  <2>3. next_order_id' \in 1..(NumOrders + 1)
    BY <1>1, <2>1, ConstantTypes
  <2> QED BY <1>1, <2>1, <2>2, <2>3, SentSame, Zenon
<1>3. CASE SendTaken \/ SendVanishes
  <2>1. spc = "send" /\ Taken
    BY <1>3 DEF SendTaken, SendVanishes
  <2> QED BY <2>1, SentTaken, Zenon
<1>4. CASE SendFails
  <2>1. /\ UNCHANGED <<sent, next_order_id, next_write, data>> /\ next_seq' = 1
        /\ sess' = sess + 1 /\ next_read' = next_read
    BY <1>4 DEF SendFails, FirstSeq, Resume
  <2>2. NextId' = NextId
    BY <2>1 DEF NextId, Occupied
  <2>3. next_seq' \in 1..NextId
    BY <1>1, <2>1
  <2> QED BY <1>1, <2>1, <2>2, <2>3, SentSame, Zenon
<1>5. CASE ~(Submit \/ SendTaken \/ SendVanishes \/ SendFails)
  <2>1. UNCHANGED ring /\ UNCHANGED <<sent, next_seq, sess>>
    BY <1>5, ZenonT(30) DEF Next, Sender, Receiver, Loop, SendBlocked, Break, Accept, Recv, Frame,
                Disconnect, sender, vars
  <2>2. NextId' = NextId /\ next_order_id' = next_order_id
    BY <2>1 DEF ring, NextId, Occupied
  <2> QED BY <1>1, <2>1, <2>2, SentSame, Zenon
<1> QED BY <1>2, <1>3, <1>4, <1>5, Zenon

\* Nothing has been handed over before the first order.
LEMMA SentInit == ASSUME Init PROVE SentInv
<1>1. /\ next_order_id = 1 /\ next_write = 0 /\ next_read = 0 /\ next_seq = 1
      /\ sent = [s \in Sessions |-> <<>>]
  BY DEF Init
<1>2. CursorMod \in Nat \ {0} /\ NumOrders \in Nat \ {0}
  BY ConstantTypes
<1>3. NextId = 1
  <2>1. 0 % CursorMod = 0
    BY <1>2
  <2>2. Occupied = 0
    BY <1>1, <2>1 DEF Occupied
  <2> QED BY <1>1, <2>2 DEF NextId
<1>4. \A s \in Sessions : sent[s] = <<>> /\ Len(sent[s]) = 0
  BY <1>1
<1>5. sent \in [Sessions -> Seq(Orders)]
  BY <1>1
<1>6. \A i \in 1..0 : FALSE
  OBVIOUS
<1>7. 1..(NextId - 1) = 1..0 /\ NextId >= 1 /\ next_seq \in 1..NextId /\ next_order_id \in 1..(NumOrders + 1)
  BY <1>1, <1>2, <1>3
<1> QED BY <1>4, <1>5, <1>6, <1>7, Zenon DEF SentInv

-----------------------------------------------------------------------------
(* Types. *)
\* Orders on their way, within the buffers' sizes.
WireTypes ==
  /\ up \in [Sessions -> Seq(OrderChunk)] /\ \A s \in Sessions : Len(up[s]) <= OrderCap
  /\ sbuf \in Seq(OrderChunk) /\ Len(sbuf) <= OrderCap + 1
  /\ expected_seq \in 1..(NumOrders + 1)

\* ACKs on their way.
AckTypes ==
  /\ down \in [Sessions -> Seq(AckChunk)] /\ \A s \in Sessions : Len(down[s]) <= AckCap
  /\ carry \in Seq(AckChunk) /\ Len(carry) <= 1
  /\ acked_seq \in 0..Garbage /\ cut \subseteq Sessions

\* Bounds are natural numbers.
LEMMA MoreConstants ==
  /\ OrderCap \in Nat \ {0} /\ AckCap \in Nat \ {0} /\ AckPoll \in Nat \ {0}
  /\ AckBatch \in Nat \ {0} /\ NumOrders \in Nat \ {0} /\ MaxSessions \in Nat \ {0}
BY OrderPathAssumption DEF OrderPathAssumption

\* What is left of a sequence from k on.
LEMMA Rest ==
  ASSUME NEW S, NEW z \in Seq(S), NEW k \in Nat \ {0}
  PROVE  SubSeq(z, k, Len(z)) \in Seq(S) /\ Len(SubSeq(z, k, Len(z))) <= Len(z)
<1>1. PICK l \in Nat : l = Len(z)
  OBVIOUS
<1>2. l <= Len(z)
  BY <1>1
<1>3. SubSeq(z, k, l) \in Seq(S) /\ Len(SubSeq(z, k, l)) = IF k <= l THEN l - k + 1 ELSE 0
  BY <1>2, Slice
<1>4. Len(SubSeq(z, k, l)) <= l
  BY <1>3
<1> QED BY <1>1, <1>3, <1>4, Zenon

\* One more element, in a sequence shorter than its bound.
LEMMA AppendWithin ==
  ASSUME NEW S, NEW f \in [Sessions -> Seq(S)], NEW c \in Nat, NEW t \in Sessions,
         \A s \in Sessions : Len(f[s]) <= c, NEW z \in Seq(S), Len(z) <= c
  PROVE  /\ [f EXCEPT ![t] = z] \in [Sessions -> Seq(S)]
         /\ \A s \in Sessions : Len([f EXCEPT ![t] = z][s]) <= c
<1>1. PICK g : g = [f EXCEPT ![t] = z]
  BY Zenon
<1>2. g \in [Sessions -> Seq(S)] /\ g[t] = z /\ \A s \in Sessions : s # t => g[s] = f[s]
  BY <1>1
<1>3. \A s \in Sessions : Len(g[s]) <= c
  BY <1>2, Zenon
<1> QED BY <1>1, <1>2, <1>3, Zenon

\* Orders on their way keep their types.
LEMMA WireKept == ASSUME IInv, SentInv, WireTypes, [Next]_vars PROVE WireTypes'
<1>1. /\ up \in [Sessions -> Seq(OrderChunk)] /\ sbuf \in Seq(OrderChunk) /\ sess \in Sessions
      /\ \A s \in Sessions : Len(up[s]) <= OrderCap
      /\ Len(sbuf) <= OrderCap + 1 /\ expected_seq \in 1..(NumOrders + 1)
      /\ NumOrders \in Nat \ {0} /\ OrderCap \in Nat \ {0}
  BY MoreConstants, Zenon DEF WireTypes, IInv, TypeInv
<1>2. CASE SendTaken
  <2>1. /\ UNCHANGED <<sbuf, expected_seq>> /\ spc = "send" /\ Len(up[sess]) < OrderCap
        /\ up' = [up EXCEPT ![sess] = Append(@, Chunk(msg, 3 - remaining))]
    BY <1>2 DEF SendTaken, Taken, server
  <2>2. msg.order \in Orders /\ msg.seq \in Orders /\ remaining \in {1, 2}
    BY <2>1, HandBounds, Zenon DEF IInv, HandInv
  <2>3. PICK c \in OrderChunk : c = Chunk(msg, 3 - remaining)
    <3>1. 3 - remaining \in {1, 2}
      BY <2>2
    <3> QED BY <2>2, <3>1, Zenon DEF Chunk, OrderChunk
  <2>4. PICK z \in Seq(OrderChunk) : z = Append(up[sess], c) /\ Len(z) = Len(up[sess]) + 1
    <3>1. up[sess] \in Seq(OrderChunk)
      BY <1>1, Zenon
    <3>2. Append(up[sess], c) \in Seq(OrderChunk) /\ Len(Append(up[sess], c)) = Len(up[sess]) + 1
      BY <3>1, AppendProperties
    <3> QED BY <3>2, Zenon
  <2>5. Len(z) <= OrderCap
    BY <1>1, <2>1, <2>4
  <2>6. up' = [up EXCEPT ![sess] = z]
    BY <2>1, <2>3, <2>4, Zenon
  <2>7. up' \in [Sessions -> Seq(OrderChunk)] /\ \A s \in Sessions : Len(up'[s]) <= OrderCap
    <3>1. OrderCap \in Nat
      BY <1>1
    <3> QED BY <1>1, <2>5, <2>6, <3>1, AppendWithin, Zenon
  <2> QED BY <1>1, <2>1, <2>7, Zenon DEF WireTypes
<1>3. CASE Break
  <2>1. UNCHANGED <<sbuf, expected_seq>>
    BY <1>3 DEF Break, server
  <2>2. PICK i \in 0..Len(up[sess]) : up' = [up EXCEPT ![sess] = SubSeq(@, 1, i)]
    BY <1>3, Zenon DEF Break
  <2>3. PICK z \in Seq(OrderChunk) : z = SubSeq(up[sess], 1, i) /\ Len(z) <= OrderCap
    <3>1. PICK q \in Seq(OrderChunk) : q = up[sess] /\ Len(q) <= OrderCap /\ Len(q) \in Nat
      BY <1>1
    <3>2. i \in Nat /\ i <= Len(q) /\ 1 \in Nat \ {0}
      BY <3>1
    <3>3. SubSeq(q, 1, i) \in Seq(OrderChunk) /\ Len(SubSeq(q, 1, i)) = IF 1 <= i THEN i - 1 + 1 ELSE 0
      BY <3>2, Slice, ZenonT(30)
    <3>4. Len(SubSeq(q, 1, i)) <= OrderCap
      BY <1>1, <3>1, <3>2, <3>3
    <3> QED BY <3>1, <3>3, <3>4, Zenon
  <2>4. up' \in [Sessions -> Seq(OrderChunk)] /\ \A s \in Sessions : Len(up'[s]) <= OrderCap
    <3>1. OrderCap \in Nat /\ up' = [up EXCEPT ![sess] = z]
      BY <1>1, <2>2, <2>3
    <3> QED BY <1>1, <2>3, <3>1, AppendWithin
  <2> QED BY <1>1, <2>1, <2>4, Zenon DEF WireTypes
<1>4. CASE Accept
  <2>1. up' = up /\ sbuf' = <<>> /\ expected_seq' = 1
    BY <1>4 DEF Accept, NoBytes
  <2>2. <<>> \in Seq(OrderChunk) /\ Len(<<>>) <= OrderCap + 1 /\ 1 \in 1..(NumOrders + 1)
    BY <1>1
  <2> QED BY <1>1, <2>1, <2>2, Zenon DEF WireTypes
<1>5. CASE Recv
  <2>1. serving /\ Len(sbuf) < 2 /\ expected_seq' = expected_seq
    BY <1>5 DEF Recv
  <2>2. PICK n \in 1..Len(up[served]) :
          /\ sbuf' = sbuf \o SubSeq(up[served], 1, n)
          /\ up' = [up EXCEPT ![served] = SubSeq(@, n + 1, Len(@))]
    BY <1>5, Zenon DEF Recv
  <2>3. served \in Sessions
    BY <2>1, ServedSession, Zenon
  <2>4. PICK q \in Seq(OrderChunk) : q = up[served] /\ Len(q) <= OrderCap
    BY <1>1, <2>3, Zenon
  <2>5. PICK l \in Nat, b \in Nat : l = Len(q) /\ b = Len(sbuf) /\ b < 2
    BY <1>1, <2>1
  <2>6. n \in Nat /\ 1 <= n /\ n <= l /\ n + 1 \in Nat \ {0} /\ 1 \in Nat \ {0}
    BY <2>2, <2>4, <2>5
  <2>7. PICK a \in Seq(OrderChunk) : a = SubSeq(q, 1, n) /\ Len(a) = n - 1 + 1
    <3>1. SubSeq(q, 1, n) \in Seq(OrderChunk) /\ Len(SubSeq(q, 1, n)) = IF 1 <= n THEN n - 1 + 1 ELSE 0
      BY <2>5, <2>6, Slice, ZenonT(30)
    <3> QED BY <2>6, <3>1, Zenon
  <2>8. PICK z \in Seq(OrderChunk) : z = SubSeq(q, n + 1, l) /\ Len(z) <= OrderCap
    <3>1. SubSeq(q, n + 1, Len(q)) \in Seq(OrderChunk) /\ Len(SubSeq(q, n + 1, Len(q))) <= Len(q)
      BY <2>6, Rest
    <3>2. Len(SubSeq(q, n + 1, l)) <= OrderCap
      <4>1. PICK m \in Nat : m = Len(SubSeq(q, n + 1, l)) /\ m <= l
        <5>1. Len(SubSeq(q, n + 1, Len(q))) \in Nat
          BY <3>1, LenProperties, Zenon
        <5> QED BY <2>5, <3>1, <5>1, Zenon
      <4> QED BY <1>1, <2>4, <2>5, <4>1
    <3> QED BY <2>5, <3>1, <3>2, Zenon
  <2>9. sbuf \o a \in Seq(OrderChunk) /\ Len(sbuf \o a) = Len(sbuf) + Len(a)
    BY <1>1, ConcatProperties, Zenon
  <2>10. Len(sbuf \o a) <= OrderCap + 1
    BY <1>1, <2>4, <2>5, <2>6, <2>7, <2>9
  <2>11. sbuf' = sbuf \o a /\ up' = [up EXCEPT ![served] = z]
    BY <2>2, <2>4, <2>5, <2>7, <2>8, Zenon
  <2>12. up' \in [Sessions -> Seq(OrderChunk)] /\ \A s \in Sessions : Len(up'[s]) <= OrderCap
    <3>1. OrderCap \in Nat
      BY <1>1
    <3> QED BY <1>1, <2>3, <2>8, <2>11, <3>1, AppendWithin, Zenon
  <2> QED BY <1>1, <2>1, <2>9, <2>10, <2>11, <2>12, Zenon DEF WireTypes
<1>6. CASE Frame
  <2>1. /\ up' = up /\ Len(sbuf) >= 2 /\ sbuf' = SubSeq(sbuf, 3, Len(sbuf))
        /\ expected_seq' = expected_seq \/ expected_seq' = sbuf[1].seq + 1
    BY <1>6, ZenonT(30) DEF Frame, AcceptOrder
  <2>2. PICK l \in Nat : l = Len(sbuf) /\ l >= 2
    BY <1>1, <2>1
  <2>3. SubSeq(sbuf, 3, Len(sbuf)) \in Seq(OrderChunk) /\ Len(SubSeq(sbuf, 3, Len(sbuf))) <= Len(sbuf)
    <3>1. 3 \in Nat \ {0}
      OBVIOUS
    <3> QED BY <1>1, <3>1, Rest
  <2>4. Len(SubSeq(sbuf, 3, Len(sbuf))) <= OrderCap + 1
    <3>1. PICK m \in Nat : m = Len(SubSeq(sbuf, 3, Len(sbuf))) /\ m <= l
      BY <2>2, <2>3
    <3> QED BY <1>1, <2>2, <3>1
  <2>5. expected_seq' \in 1..(NumOrders + 1)
    <3>1. sbuf[1] \in OrderChunk
      BY <1>1, <2>2
    <3>2. sbuf[1].seq \in 1..NumOrders
      BY <3>1 DEF OrderChunk, Orders
    <3>3. sbuf[1].seq + 1 \in 1..(NumOrders + 1)
      <4>1. PICK x \in 1..NumOrders : x = sbuf[1].seq
        BY <3>2, Zenon
      <4>2. x + 1 \in 1..(NumOrders + 1)
        BY <1>1
      <4> QED BY <4>1, <4>2, Zenon
    <3> QED BY <1>1, <2>1, <3>3, Zenon
  <2> QED BY <1>1, <2>1, <2>2, <2>3, <2>4, <2>5, Zenon DEF WireTypes
<1>7. CASE ~(SendTaken \/ Break \/ Accept \/ Recv \/ Frame)
  <2>1. UNCHANGED <<up, sbuf, expected_seq>>
    BY <1>7, ZenonT(30) DEF Next, Sender, Receiver, Submit, Loop, SendBlocked, SendVanishes, Taken,
                          SendFails, Disconnect, server, vars
  <2> QED BY <1>1, <2>1, Zenon DEF WireTypes
<1> QED BY <1>2, <1>3, <1>4, <1>5, <1>6, <1>7, Zenon

\* The largest of some numbers up to N is one of them.
LEMMA MaxIs ==
  ASSUME NEW N \in Nat, NEW T \in SUBSET (0..N), T # {},
         NEW m, m = CHOOSE x \in T : \A y \in T : y <= x
  PROVE  m \in T /\ \A y \in T : y <= m
<1> DEFINE D == {n \in Nat : \E x \in T : n = N - x}
           R == OpToRel(<, Nat)
<1>1. D \subseteq Nat /\ D # {}
  <2>1. PICK x \in T : TRUE
    BY Zenon
  <2>2. N - x \in Nat
    BY <2>1
  <2> QED BY <2>1, <2>2, Zenon
<1>2. \A x, y \in Nat : ~(<<y, x>> \in R) => ~(y < x)
  BY Zenon DEF OpToRel
<1>3. \E d \in D : \A e \in D : ~(<<e, d>> \in R)
  <2> HIDE DEF D
  <2> QED BY <1>1, NatLessThanWellFounded, WFMin, Zenon
<1> HIDE DEF R
<1>4. PICK d \in D : \A e \in D : ~(e < d)
  BY <1>1, <1>2, <1>3, Zenon
<1>5. PICK x \in T : d = N - x
  BY <1>4
<1>6. ASSUME NEW y \in T PROVE y <= x
  <2>1. N - y \in D
    BY <1>6
  <2>2. ~(N - y < d)
    BY <1>4, <2>1, Zenon
  <2> QED BY <1>5, <2>2
<1> QED BY <1>6, Zenon

\* The first halves of the ACKs in a buffer, and the numbers drain_acks takes.
AckHeads(buf) == {buf[2 * i - 1] : i \in Frames(buf)}
AckSeqs(buf) == {h.seq : h \in {c \in AckHeads(buf) : c.part = 1}} \cup {acked_seq}

\* drain_acks reads the largest number, or garbage when an ACK is misframed.
LEMMA ReadIs ==
  ASSUME NEW buf \in Seq(AckChunk), acked_seq \in 0..Garbage, ReadAcks(buf)
  PROVE  /\ AckHeads(buf) \subseteq AckChunk
         /\ \/ acked_seq' \in AckSeqs(buf) /\ \A y \in AckSeqs(buf) : y <= acked_seq'
            \/ acked_seq' = Garbage /\ \E h \in AckHeads(buf) : h.part = 2
         /\ acked_seq' \in 0..Garbage
<1>1. PICK N \in Nat : N = Garbage /\ N = NumOrders + 1 /\ NumOrders \in Nat
  BY MoreConstants DEF Garbage
<1>2. PICK l \in Nat : l = Len(buf)
  OBVIOUS
<1>3. ASSUME NEW i \in Frames(buf) PROVE buf[2 * i - 1] \in AckChunk
  <2>1. i \in 1..(l \div 2)
    BY <1>2, <1>3 DEF Frames
  <2>2. 2 * i - 1 \in 1..l
    BY <2>1
  <2> QED BY <1>2, <2>2, ElementOfSeq
<1>4. AckHeads(buf) \subseteq AckChunk
  BY <1>3, Zenon DEF AckHeads
<1>5. AckSeqs(buf) \in SUBSET (0..N) /\ AckSeqs(buf) # {}
  <2>1. ASSUME NEW h \in AckChunk PROVE h.seq \in 0..N
    BY <1>1 DEF AckChunk
  <2> QED BY <1>1, <1>4, <2>1, Zenon DEF AckSeqs
<1>6. PICK best : best = CHOOSE x \in AckSeqs(buf) : \A y \in AckSeqs(buf) : y <= x
  OBVIOUS
<1>7. best \in AckSeqs(buf) /\ \A y \in AckSeqs(buf) : y <= best
  BY <1>5, <1>6, MaxIs, Zenon
<1>8. acked_seq' \in {best} \cup {IF h.part = 2 THEN Garbage ELSE best : h \in AckHeads(buf)}
  BY <1>6, Zenon DEF ReadAcks, AckSeqs, AckHeads
<1>9. \/ acked_seq' = best
      \/ acked_seq' = Garbage /\ \E h \in AckHeads(buf) : h.part = 2
  BY <1>8, Zenon
<1>10. Garbage \in 0..Garbage /\ best \in 0..Garbage
  BY <1>1, <1>5, <1>7
<1> QED BY <1>4, <1>7, <1>9, <1>10, Zenon

\* What drain_acks leaves behind.
LEMMA DrainTypes ==
  ASSUME AckTypes, sess \in Sessions, drain_acks
  PROVE  /\ acked_seq' \in 0..Garbage /\ carry' \in Seq(AckChunk) /\ Len(carry') <= 1
         /\ down' \in [Sessions -> Seq(AckChunk)] /\ \A s \in Sessions : Len(down'[s]) <= AckCap
<1>1. /\ down \in [Sessions -> Seq(AckChunk)] /\ \A s \in Sessions : Len(down[s]) <= AckCap
      /\ carry \in Seq(AckChunk) /\ Len(carry) <= 1 /\ acked_seq \in 0..Garbage
      /\ AckCap \in Nat
  BY MoreConstants, Zenon DEF AckTypes
<1>2. PICK n \in 0..MinOf(Len(down[sess]), 2 * AckBatch - Len(carry)) :
        LET buf == carry \o SubSeq(down[sess], 1, n)
        IN  IF n = 0 THEN UNCHANGED <<acks, down>>
            ELSE /\ ReadAcks(buf) /\ carry' = Carried(buf)
                 /\ down' = [down EXCEPT ![sess] = SubSeq(@, n + 1, Len(@))]
  BY Zenon DEF drain_acks
<1>3. CASE n = 0
  <2>1. UNCHANGED <<acked_seq, carry, down>>
    BY <1>2, <1>3 DEF acks
  <2> QED BY <1>1, <2>1, Zenon
<1>4. CASE n # 0
  <2>1. PICK q \in Seq(AckChunk) : q = down[sess] /\ Len(q) <= AckCap
    BY <1>1
  <2>2. PICK a \in Nat, b \in Nat : a = Len(q) /\ b = Len(carry) /\ b <= 1
    BY <1>1
  <2>3. n \in Nat \ {0} /\ n <= a
    <3>1. n \in 0..MinOf(a, 2 * AckBatch - b)
      BY <1>2, <2>1, <2>2, Zenon
    <3> QED BY <1>4, <2>2, <3>1, MoreConstants DEF MinOf
  <2>4. SubSeq(q, 1, n) \in Seq(AckChunk)
    <3>1. n \in Nat /\ n <= Len(q) /\ 1 \in Nat \ {0}
      BY <2>2, <2>3
    <3> QED BY <3>1, Slice, Zenon
  <2>5. PICK buf \in Seq(AckChunk) : buf = carry \o SubSeq(q, 1, n)
    BY <1>1, <2>4, ConcatProperties, Zenon
  <2>6. /\ ReadAcks(buf) /\ carry' = Carried(buf)
        /\ down' = [down EXCEPT ![sess] = SubSeq(q, n + 1, Len(q))]
    BY <1>2, <1>4, <2>1, <2>5, Zenon
  <2>7. acked_seq' \in 0..Garbage
    BY <1>1, <2>6, ReadIs, Zenon
  <2>8. carry' \in Seq(AckChunk) /\ Len(carry') <= 1
    <3>1. PICK l \in Nat : l = Len(buf)
      OBVIOUS
    <3>2. PICK k \in Nat \ {0} : k = 2 * (l \div 2) + 1 /\ l - k + 1 <= 1
      <4>1. l \div 2 \in Nat /\ l - 2 * (l \div 2) <= 1
        OBVIOUS
      <4> QED BY <4>1
    <3>3. carry' = SubSeq(buf, k, l) /\ l <= Len(buf)
      <4>1. carry' = SubSeq(buf, k, l)
        BY <2>6, <3>1, <3>2, Zenon DEF Carried
      <4> QED BY <3>1, <4>1
    <3>4. SubSeq(buf, k, l) \in Seq(AckChunk) /\ Len(SubSeq(buf, k, l)) = IF k <= l THEN l - k + 1 ELSE 0
      BY <3>3, Slice
    <3> QED BY <3>2, <3>3, <3>4
  <2>9. PICK z \in Seq(AckChunk) : z = SubSeq(q, n + 1, Len(q)) /\ Len(z) <= AckCap
    <3>1. n + 1 \in Nat \ {0}
      BY <2>3
    <3>2. SubSeq(q, n + 1, Len(q)) \in Seq(AckChunk) /\ Len(SubSeq(q, n + 1, Len(q))) <= Len(q)
      BY <3>1, Rest
    <3>3. PICK y \in Seq(AckChunk) : y = SubSeq(q, n + 1, Len(q)) /\ Len(y) <= Len(q)
      BY <3>2, Zenon
    <3>4. Len(y) <= AckCap
      BY <1>1, <2>1, <3>3
    <3> QED BY <3>3, <3>4, Zenon
  <2>10. down' \in [Sessions -> Seq(AckChunk)] /\ \A s \in Sessions : Len(down'[s]) <= AckCap
    <3>1. down' = [down EXCEPT ![sess] = z]
      BY <2>6, <2>9, Zenon
    <3> QED BY <1>1, <2>9, <3>1, AppendWithin, ZenonT(30)
  <2> QED BY <2>7, <2>8, <2>10, Zenon
<1> QED BY <1>3, <1>4, Zenon

\* The receiver meets the number it expects, accepts the order and acknowledges it.
LEMMA FrameAccepts ==
  ASSUME IInv, IInv', Frame
  PROVE  /\ served \in Sessions /\ serving /\ Len(sbuf) >= 2 /\ served' = served
         /\ send_ack(sbuf[1].seq) /\ AcceptOrder(sbuf) /\ expected_seq = sbuf[1].seq
         /\ UNCHANGED <<acked_seq, carry, sess, alive>>
<1>1. /\ serving /\ Len(sbuf) >= 2 /\ served' = served /\ UNCHANGED <<acked_seq, carry, sess, alive>>
  BY Zenon DEF Frame, acks
<1>2. served \in Sessions
  BY <1>1, ServedSession, Zenon
<1>3. bad_csum = 0 /\ seq_gaps = 0 /\ duplicates = 0 /\ bad_csum' = 0 /\ seq_gaps' = 0 /\ duplicates' = 0
  BY Zenon DEF IInv, SessionsAgree
<1>4. 0 + 1 # 0
  OBVIOUS
<1>5. ValidChecksum(sbuf) /\ ~(sbuf[1].seq < expected_seq) /\ ~(sbuf[1].seq > expected_seq)
  BY <1>3, <1>4, Zenon DEF Frame
<1>6. send_ack(AckOf(sbuf[1].seq)) /\ AcceptOrder(sbuf)
  BY <1>5, Zenon DEF Frame
<1>7. sbuf[1].seq \in Int /\ expected_seq \in Int
  <2>1. sbuf \in Seq(Chunks) /\ expected_seq \in Nat
    BY Zenon DEF IInv, TypeInv
  <2>2. sbuf[1] \in Chunks
    BY <1>1, <2>1
  <2> QED BY <2>1, <2>2 DEF Chunks
<1>8. expected_seq = sbuf[1].seq
  BY <1>5, <1>7
<1> QED BY <1>1, <1>2, <1>6, <1>8, Zenon DEF AckOf

\* An ACK that goes out whole, cut short or not at all.
LEMMA AckSent ==
  ASSUME AckTypes, served \in Sessions, NEW n \in 0..NumOrders, send_ack(n)
  PROVE  /\ down' \in [Sessions -> Seq(AckChunk)] /\ \A s \in Sessions : Len(down'[s]) <= AckCap
         /\ cut' \subseteq Sessions
<1>1. /\ down \in [Sessions -> Seq(AckChunk)] /\ \A s \in Sessions : Len(down[s]) <= AckCap
      /\ cut \subseteq Sessions /\ AckCap \in Nat
  BY MoreConstants, Zenon DEF AckTypes
<1>2. PICK q \in Seq(AckChunk) : q = down[served] /\ Len(q) <= AckCap
  BY <1>1
<1>3. PICK l \in Nat : l = Len(q)
  BY <1>2
<1>4. PICK r \in Nat : r = Room /\ l + r <= AckCap
  <2>1. AckCap - l \in Nat /\ l + (AckCap - l) <= AckCap /\ l + 0 <= AckCap /\ 0 \in Nat
    BY <1>1, <1>2, <1>3
  <2>2. Room = AckCap - l \/ Room = 0
    BY <1>2, <1>3, Zenon DEF Room
  <2> QED BY <2>1, <2>2, Zenon
<1>5. PICK m \in Nat : m = MinOf(Room, 2) /\ m <= 2 /\ l + m <= AckCap
  <2>1. MinOf(r, 2) \in Nat /\ MinOf(r, 2) <= 2 /\ l + MinOf(r, 2) <= AckCap
    BY <1>1, <1>4 DEF MinOf
  <2> QED BY <1>4, <2>1, Zenon
<1>6. PICK b \in Seq(AckChunk) : b = AckBytes(n) /\ Len(b) = 2
  <2>1. [seq |-> n, part |-> 1] \in AckChunk /\ [seq |-> n, part |-> 2] \in AckChunk
    BY DEF AckChunk
  <2>2. PICK x \in AckChunk, y \in AckChunk : x = [seq |-> n, part |-> 1] /\ y = [seq |-> n, part |-> 2]
    BY <2>1, Zenon
  <2>3. <<x, y>> \in Seq(AckChunk) /\ Len(<<x, y>>) = 2
    OBVIOUS
  <2> QED BY <2>2, <2>3, Zenon DEF AckBytes
<1>7. PICK a \in Seq(AckChunk) : a = SubSeq(b, 1, m) /\ Len(a) = m
  <2>1. m <= Len(b) /\ 1 \in Nat \ {0}
    <3>1. m <= 2
      BY <1>5, Zenon
    <3>2. m <= Len(b)
      BY <1>6, <3>1, Zenon
    <3> QED BY <3>2
  <2>2. SubSeq(b, 1, m) \in Seq(AckChunk) /\ Len(SubSeq(b, 1, m)) = IF 1 <= m THEN m - 1 + 1 ELSE 0
    BY <2>1, Slice
  <2>3. m = IF 1 <= m THEN m - 1 + 1 ELSE 0
    OBVIOUS
  <2> QED BY <2>2, <2>3, Zenon
<1>8. PICK z \in Seq(AckChunk) : z = q \o a /\ Len(z) = l + m
  <2>1. q \o a \in Seq(AckChunk) /\ Len(q \o a) = Len(q) + Len(a)
    BY ConcatProperties
  <2> QED BY <1>3, <1>7, <2>1, Zenon
<1>9. Len(z) <= AckCap
  BY <1>5, <1>8, Zenon
<1>10. down' = [down EXCEPT ![served] = z]
  BY <1>2, <1>5, <1>6, <1>7, <1>8, Zenon DEF send_ack
<1>11. down' \in [Sessions -> Seq(AckChunk)] /\ \A s \in Sessions : Len(down'[s]) <= AckCap
  BY <1>1, <1>9, <1>10, AppendWithin
<1>12. cut' \subseteq Sessions
  BY <1>1, Zenon DEF send_ack
<1> QED BY <1>11, <1>12, Zenon

\* ACKs on their way keep their types.
LEMMA AckKept == ASSUME IInv, IInv', WireTypes, AckTypes, [Next]_vars PROVE AckTypes'
<1>1. /\ down \in [Sessions -> Seq(AckChunk)] /\ \A s \in Sessions : Len(down[s]) <= AckCap
      /\ carry \in Seq(AckChunk) /\ Len(carry) <= 1 /\ acked_seq \in 0..Garbage
      /\ cut \subseteq Sessions /\ AckCap \in Nat \ {0} /\ NumOrders \in Nat \ {0}
      /\ sess \in Sessions /\ sess' \in Sessions
  BY MoreConstants, Zenon DEF AckTypes, IInv, TypeInv
<1>2. CASE cut' = cut /\ (drain_acks \/ UNCHANGED <<acked_seq, carry, down>>)
  <2>1. CASE drain_acks
    BY <1>1, <1>2, <2>1, DrainTypes, Zenon DEF AckTypes
  <2>2. CASE UNCHANGED <<acked_seq, carry, down>>
    BY <1>1, <1>2, <2>2, Zenon DEF AckTypes
  <2> QED BY <1>2, <2>1, <2>2, Zenon
<1>3. CASE SendFails
  <2>1. acked_seq' = 0 /\ carry' = carry /\ down' = down /\ cut' \subseteq cut \cup {sess'}
    BY <1>3, Zenon DEF SendFails
  <2>2. 0 \in 0..Garbage
    BY <1>1 DEF Garbage
  <2> QED BY <1>1, <2>1, <2>2, Zenon DEF AckTypes
<1>4. CASE Break
  <2>1. UNCHANGED <<acked_seq, carry, cut>>
    BY <1>4, Zenon DEF Break, acks
  <2>2. PICK j \in 0..Len(down[sess]) : down' = [down EXCEPT ![sess] = SubSeq(@, 1, j)]
    BY <1>4, Zenon DEF Break
  <2>3. PICK z \in Seq(AckChunk) : z = SubSeq(down[sess], 1, j) /\ Len(z) <= AckCap
    <3>1. PICK q \in Seq(AckChunk) : q = down[sess] /\ Len(q) <= AckCap /\ Len(q) \in Nat
      BY <1>1
    <3>2. j \in Nat /\ j <= Len(q) /\ 1 \in Nat \ {0}
      BY <3>1
    <3>3. SubSeq(q, 1, j) \in Seq(AckChunk) /\ Len(SubSeq(q, 1, j)) = IF 1 <= j THEN j - 1 + 1 ELSE 0
      BY <3>2, Slice, ZenonT(30)
    <3>4. Len(SubSeq(q, 1, j)) <= AckCap
      BY <1>1, <3>1, <3>2, <3>3
    <3> QED BY <3>1, <3>3, <3>4, Zenon
  <2>4. down' \in [Sessions -> Seq(AckChunk)] /\ \A s \in Sessions : Len(down'[s]) <= AckCap
    <3>1. AckCap \in Nat /\ down' = [down EXCEPT ![sess] = z]
      BY <1>1, <2>2, <2>3
    <3> QED BY <1>1, <2>3, <3>1, AppendWithin
  <2> QED BY <1>1, <2>1, <2>4, Zenon DEF AckTypes
<1>5. CASE Frame
  <2>1. /\ served \in Sessions /\ Len(sbuf) >= 2 /\ send_ack(sbuf[1].seq)
        /\ UNCHANGED <<acked_seq, carry>>
    BY <1>5, FrameAccepts, Zenon
  <2>2. sbuf[1].seq \in 0..NumOrders
    <3>1. sbuf \in Seq(OrderChunk)
      BY Zenon DEF WireTypes
    <3>2. sbuf[1] \in OrderChunk
      BY <2>1, <3>1
    <3> QED BY <1>1, <3>2 DEF OrderChunk, Orders
  <2>3. /\ down' \in [Sessions -> Seq(AckChunk)] /\ \A s \in Sessions : Len(down'[s]) <= AckCap
        /\ cut' \subseteq Sessions
    BY <2>1, <2>2, AckSent, Zenon
  <2> QED BY <1>1, <2>1, <2>3, Zenon DEF AckTypes
<1>6. CASE ~(SendFails \/ Break \/ Frame)
  <2>1. cut' = cut /\ (drain_acks \/ UNCHANGED <<acked_seq, carry, down>>)
    BY <1>6, Zenon DEF Next, Sender, Receiver, Submit, Loop, SendTaken, SendBlocked, SendVanishes,
                       Taken, Accept, Recv, Disconnect, acks, vars
  <2> QED BY <1>2, <2>1, Zenon
<1> QED BY <1>3, <1>4, <1>5, <1>6, Zenon

\* Slots of the ring, the order in hand and the turns to the next poll.
RestTypes ==
  /\ data \in [0..(RingSize - 1) -> 0..NumOrders]
  /\ msg \in [order : Orders, seq : Orders] \cup {NoOrder}
  /\ ack_poll_ticks \in 0..(AckPoll - 1)

\* They keep their types.
LEMMA RestKept == ASSUME IInv, IInv', SentInv, RestTypes, [Next]_vars PROVE RestTypes'
<1>1. /\ data \in [0..(RingSize - 1) -> 0..NumOrders]
      /\ msg \in [order : Orders, seq : Orders] \cup {NoOrder}
      /\ ack_poll_ticks \in 0..(AckPoll - 1)
  BY Zenon DEF RestTypes
<1>2. NumOrders \in Nat \ {0} /\ AckPoll \in Nat \ {0} /\ RingSize \in Nat \ {0} /\ 1 \in Orders
  BY MoreConstants, ConstantTypes DEF Orders
<1>3. CASE Submit
  <2>1. UNCHANGED <<msg, ack_poll_ticks>> /\ next_order_id <= NumOrders
    BY <1>3, Zenon DEF Submit, sender
  <2>2. next_order_id \in 0..NumOrders
    BY <1>2, <2>1 DEF SentInv
  <2>3. data' = [data EXCEPT ![next_write % RingSize] = next_order_id]
    BY <1>3, Zenon DEF Submit
  <2>4. data' \in [0..(RingSize - 1) -> 0..NumOrders]
    BY <1>1, <2>2, <2>3, Zenon
  <2> QED BY <1>1, <2>1, <2>4, Zenon DEF RestTypes
<1>4. CASE Loop
  <2>1. UNCHANGED ring /\ next_seq' = next_seq /\ data' = data
    BY <1>4, Zenon DEF Loop, ring
  <2>2. ack_poll_ticks' \in 0..(AckPoll - 1)
    <3>1. ack_poll_ticks' = (ack_poll_ticks + 1) % AckPoll
      BY <1>4, Zenon DEF Loop
    <3> QED BY <1>1, <1>2, <3>1
  <2>3. CASE Waiting
    <3>1. /\ spc' = "send"
          /\ msg' = [order |-> data[next_read % RingSize], seq |-> next_seq]
      BY <1>4, <2>3, Zenon DEF Loop
    <3>2. Occupied' = Occupied /\ NextId' = NextId
      BY <2>1, RingSame, Zenon DEF IInv
    <3>3. Occupied' > 0 /\ msg'.order = NextId'
      BY <3>1, Zenon DEF IInv, HandInv
    <3>4. NextId \in Orders /\ next_seq \in Orders
      BY <3>2, <3>3, HandBounds, Zenon
    <3>5. data[next_read % RingSize] = NextId
      BY <3>1, <3>2, <3>3, Zenon
    <3>6. msg' \in [order : Orders, seq : Orders]
      BY <3>1, <3>4, <3>5
    <3> QED BY <1>1, <2>1, <2>2, <3>6, Zenon DEF RestTypes
  <2>4. CASE ~Waiting
    <3>1. msg' = msg
      BY <1>4, <2>4, Zenon DEF Loop
    <3> QED BY <1>1, <2>1, <2>2, <3>1, Zenon DEF RestTypes
  <2> QED BY <2>3, <2>4, Zenon
<1>5. CASE SendTaken \/ SendVanishes
  <2>1. UNCHANGED <<data, ack_poll_ticks>> /\ (msg' = msg \/ msg' = NoOrder)
    BY <1>5, Zenon DEF SendTaken, SendVanishes, Taken
  <2> QED BY <1>1, <2>1, Zenon DEF RestTypes
<1>6. CASE SendFails
  <2>1. UNCHANGED <<data, ack_poll_ticks>> /\ spc = "send" /\ msg' = [msg EXCEPT !.seq = 1]
    BY <1>6, Zenon DEF SendFails, FirstSeq
  <2>2. msg.order \in Orders
    <3>1. Occupied > 0 /\ msg.order = NextId
      BY <2>1, Zenon DEF IInv, HandInv
    <3> QED BY <3>1, HandBounds, Zenon
  <2>3. msg \in [order : Orders, seq : Orders]
    <3>1. NoOrder.order \notin Orders
      BY <1>2 DEF NoOrder, Orders
    <3> QED BY <1>1, <2>2, <3>1, Zenon
  <2>4. msg' \in [order : Orders, seq : Orders]
    BY <1>2, <2>1, <2>3
  <2> QED BY <1>1, <2>1, <2>4, Zenon DEF RestTypes
<1>7. CASE ~(Submit \/ Loop \/ SendTaken \/ SendVanishes \/ SendFails)
  <2>1. UNCHANGED <<data, msg, ack_poll_ticks>>
    BY <1>7, Zenon DEF Next, Sender, Receiver, SendBlocked, Break, Accept, Recv, Frame, Disconnect,
                       ring, sender, vars
  <2> QED BY <1>1, <2>1, Zenon DEF RestTypes
<1> QED BY <1>3, <1>4, <1>5, <1>6, <1>7, Zenon

\* The groups are all there is to the types of the module.
LEMMA TypesTogether ==
  ASSUME IInv, SentInv, WireTypes, AckTypes, RestTypes
  PROVE  TypeOK
<1>1. /\ next_write \in 0..(CursorMod - 1) /\ next_read \in 0..(CursorMod - 1)
      /\ spc \in {"loop", "send"} /\ remaining \in 0..2 /\ sess \in Sessions /\ alive \in BOOLEAN
      /\ served \in 0..sess /\ serving \in BOOLEAN /\ Occupied <= RingSize
  BY Zenon DEF IInv, TypeInv, RingInv
<1>2. {bad_csum, seq_gaps, duplicates} \subseteq Nat
  BY DEF IInv, SessionsAgree
<1>3. next_seq \in 1..(NumOrders + 1)
  <2>1. next_seq \in Nat \ {0} /\ NumOrders \in Nat /\ next_seq <= NumOrders + 1
    BY HandBounds
  <2> QED BY <2>1
<1>4. next_order_id \in 1..(NumOrders + 1)
  BY Zenon DEF SentInv
<1> QED BY <1>1, <1>2, <1>3, <1>4, Zenon DEF TypeOK, WireTypes, AckTypes, RestTypes

\* All that has been taken from the ring has been handed over, in order.
LEMMA HandedOver ==
  ASSUME IInv, SentInv, WireTypes, AckTypes, RestTypes
  PROVE  EveryOrderHandedOver
<1>1. TypeOK
  BY TypesTogether, Zenon
<1>2. sent \in [Sessions -> Seq(Orders)]
  BY Zenon DEF SentInv
<1>3. ASSUME NEW s \in Sessions
      PROVE  /\ DOMAIN sent[s] = 1..Len(sent[s]) /\ Range(sent[s]) = {sent[s][i] : i \in 1..Len(sent[s])}
             /\ \A i \in 1..Len(sent[s]) : sent[s][i] \in Orders
  <2>1. PICK q \in Seq(Orders) : q = sent[s]
    BY <1>2, Zenon
  <2>2. DOMAIN q = 1..Len(q) /\ \A i \in 1..Len(q) : q[i] \in Orders
    BY <2>1
  <2> QED BY <2>1, <2>2, Zenon DEF Range
<1>4. PICK n \in Nat \ {0} : n = NextId /\ n - 1 = next_order_id - 1 - Occupied
  BY HandBounds
<1>5. ASSUME NEW s \in Sessions, NEW i \in 1..Len(sent[s]) PROVE sent[s][i] \in 1..(n - 1)
  <2>1. sent[s][i] \in Orders /\ sent[s][i] < n
    BY <1>3, <1>4, Zenon DEF SentInv
  <2> QED BY <2>1, MoreConstants DEF Orders
<1>6. \A o \in 1..(n - 1) : \E s \in Sessions : \E i \in 1..Len(sent[s]) : sent[s][i] = o
  BY <1>4, Zenon DEF SentInv
<1>7. UNION {Range(sent[s]) : s \in Sessions} = 1..(n - 1)
  <2>1. ASSUME NEW s \in Sessions, NEW x \in Range(sent[s]) PROVE x \in 1..(n - 1)
    <3>1. PICK i \in 1..Len(sent[s]) : x = sent[s][i]
      BY <1>3, <2>1, Zenon
    <3> QED BY <1>5, <3>1, Zenon
  <2>2. ASSUME NEW o \in 1..(n - 1) PROVE \E s \in Sessions : o \in Range(sent[s])
    <3>1. PICK s \in Sessions : \E i \in 1..Len(sent[s]) : sent[s][i] = o
      BY <1>6, Zenon
    <3>2. o \in Range(sent[s])
      BY <1>3, <3>1, Zenon
    <3> QED BY <3>2, Zenon
  <2> QED BY <2>1, <2>2, Zenon
<1>8. ASSUME NEW s \in Sessions, NEW t \in Sessions, NEW i \in DOMAIN sent[s], NEW j \in DOMAIN sent[t]
      PROVE  s < t \/ (s = t /\ i < j) => sent[s][i] < sent[t][j]
  <2>1. i \in 1..Len(sent[s])
    BY <1>3, <1>8, Zenon
  <2>2. j \in 1..Len(sent[t])
    BY <1>3, <1>8, Zenon
  <2> QED BY <2>1, <2>2, Zenon DEF SentInv
<1> QED BY <1>1, <1>4, <1>7, <1>8, Zenon DEF EveryOrderHandedOver

\* No order yet, and nothing on its way.
LEMMA TypesInit == ASSUME Init PROVE WireTypes /\ AckTypes /\ RestTypes
<1>1. /\ OrderCap \in Nat /\ AckCap \in Nat /\ AckPoll \in Nat \ {0} /\ NumOrders \in Nat
      /\ RingSize \in Nat
  BY MoreConstants, ConstantTypes
<1>2. /\ up = [s \in Sessions |-> <<>>] /\ sbuf = <<>> /\ expected_seq = 1
      /\ down = [s \in Sessions |-> <<>>] /\ carry = <<>> /\ acked_seq = 0 /\ cut = {}
      /\ data = [i \in 0..(RingSize - 1) |-> 0] /\ msg = NoOrder /\ ack_poll_ticks = 0
  BY Zenon DEF Init
<1>3. <<>> \in Seq(OrderChunk) /\ <<>> \in Seq(AckChunk) /\ Len(<<>>) = 0
  OBVIOUS
<1>4. /\ 0 <= OrderCap /\ 0 <= OrderCap + 1 /\ 0 <= AckCap /\ 0 <= 1 /\ 1 \in 1..(NumOrders + 1)
      /\ 0 \in 0..Garbage /\ 0 \in 0..NumOrders /\ 0 \in 0..(AckPoll - 1)
  BY <1>1 DEF Garbage
<1>5. WireTypes
  BY <1>2, <1>3, <1>4, Zenon DEF WireTypes
<1>6. AckTypes
  BY <1>2, <1>3, <1>4 DEF AckTypes
<1>7. RestTypes
  BY <1>2, <1>4 DEF RestTypes
<1> QED BY <1>5, <1>6, <1>7, Zenon

\* The connections together carry every order taken from the ring exactly once and
\* in order of submission, for every size of ring and buffers, every wrap of the
\* cursors and every number of broken connections.
THEOREM OrdersHandedOver == Spec => []EveryOrderHandedOver
<1> DEFINE G == SentInv /\ WireTypes /\ AckTypes /\ RestTypes
<1>1. Init => G
  BY SentInit, TypesInit, Zenon
<1>2. IInv /\ IInv' /\ G /\ [Next]_vars => G'
  BY SentKept, WireKept, AckKept, RestKept, Zenon
<1>3. IInv /\ G => EveryOrderHandedOver
  BY HandedOver, Zenon
<1> QED BY <1>1, <1>2, <1>3, OrdersInductive, PTL DEF Spec
=============================================================================

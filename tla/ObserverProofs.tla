--------------------------- MODULE ObserverProofs ---------------------------
(***************************************************************************)
(* Proofs about Observer for every number of connections and orders, every *)
(* cut of the streams and every size of the buffers: every order is found  *)
(* unless something was missed, and the audit pairs orders with their own  *)
(* ACKs.                                                                   *)
(***************************************************************************)
EXTENDS Observer, WellFoundedInduction, TLAPS

\* Piece x of one direction of the connection.
At(x) == [sess |-> sess, seq |-> (x + 1) \div 2, part |-> IF x % 2 = 1 THEN 1 ELSE 2]

\* What is left of the first n pieces when every message was found.
Half(n) == IF n % 2 = 1 THEN <<At(n)>> ELSE <<>>

\* Without a loss the streams hold half a message at most, and every order of
\* the connection was found.
Aligned ==
  /\ losses = 0 => order_stream = Half(passed) /\ seen = 1..(passed \div 2)
  /\ sess \notin tainted => losses = 0 /\ ack_stream = Half(returned)

\* The streams hold pieces of this connection, or of one that was disturbed.
Own ==
  \A q \in {order_stream, ack_stream} : \A i \in DOMAIN q : q[i].sess \in {sess} \cup tainted

\* A line that is not sent was dropped after a crash: nothing older is pending.
Dropped == telemetry_fd # "open" => pipe = <<>> /\ pendingOrders = <<>>

\* Line k is an order with the number q.
Names(k, q) == pipe[k].kind = "order" /\ pipe[k].msg.seq = q

\* When the lines before i are handled, no order but m is pending under its number.
LastIs(i, m) ==
  \/ \E j \in 1..(i - 1) : /\ pipe[j].kind = "order" /\ pipe[j].msg = m
                           /\ \A k \in (j + 1)..(i - 1) : ~Names(k, m.seq)
  \/ /\ \A k \in 1..(i - 1) : ~Names(k, m.seq)
     /\ \A k \in DOMAIN pendingOrders : pendingOrders[k].seq = m.seq => pendingOrders[k] = m

\* Every ACK under way, and every one the connection may still see, will find its
\* order or none.
Pairing ==
  /\ \A i \in DOMAIN pipe :
       pipe[i].kind = "ack" /\ pipe[i].msg.sess \notin tainted => LastIs(i, pipe[i].msg)
  /\ sess \notin tainted =>
       \A q \in 1..(passed \div 2) : LastIs(Len(pipe) + 1, [sess |-> sess, seq |-> q])

AuditPairs == (audit # NoRecord /\ audit.ack.sess \notin tainted) => audit.order = audit.ack

\* The inductive invariant.
WInv == TypeOK /\ Aligned /\ Own /\ Dropped /\ Pairing /\ AuditPairs

-----------------------------------------------------------------------------
(* Numbers and sequences. *)

\* A set of numbers that is not empty has a least member.
LEMMA LeastIn ==
  ASSUME NEW T, T \subseteq Nat, T # {}
  PROVE  \E x \in T : \A y \in T : x <= y
<1> DEFINE R == OpToRel(<, Nat)
<1>1. \E x \in T : \A y \in T : ~ (<<y, x>> \in R)
  BY NatLessThanWellFounded, WFMin, Zenon
<1>2. \A x, y \in Nat : ~(<<y, x>> \in R) => ~(y < x)
  BY Zenon DEF OpToRel
<1> HIDE DEF R
<1>3. PICK x \in T : \A y \in T : ~(y < x)
  BY <1>1, <1>2, Zenon
<1>4. \A y \in T : x <= y
  BY <1>3
<1> QED BY <1>4, Zenon

\* A set of numbers without 0 that, with n + 1, contains n, is empty.
LEMMA NoLeast ==
  ASSUME NEW T, T \subseteq Nat, 0 \notin T, \A n \in Nat : n + 1 \in T => n \in T
  PROVE  T = {}
<1> SUFFICES ASSUME T # {} PROVE FALSE
  BY Zenon
<1>1. PICK x \in T : \A y \in T : x <= y
  BY LeastIn, Zenon
<1>2. PICK n \in Nat : x = n + 1
  <2>1. x \in Nat /\ x # 0
    BY Zenon
  <2>2. x - 1 \in Nat /\ x = (x - 1) + 1
    BY <2>1
  <2> QED BY <2>2, Zenon
<1>3. n \in T
  BY <1>2, Zenon
<1>4. x <= n
  BY <1>1, <1>3, Zenon
<1> QED BY <1>2, <1>4

\* Two sequences put together.
LEMMA Joined ==
  ASSUME NEW S, NEW u \in Seq(S), NEW v \in Seq(S), NEW w, w = u \o v
  PROVE  /\ w \in Seq(S) /\ Len(w) = Len(u) + Len(v)
         /\ \A i \in 1..Len(u) : w[i] = u[i]
         /\ \A i \in 1..Len(v) : w[Len(u) + i] = v[i]
OBVIOUS

\* One more in front of a sequence.
LEMMA Prepended ==
  ASSUME NEW S, NEW b \in S, NEW q \in Seq(S), NEW u, u = <<b>> \o q
  PROVE  /\ u \in Seq(S) /\ Len(u) = Len(q) + 1 /\ u[1] = b
         /\ \A i \in 1..Len(q) : u[i + 1] = q[i]
OBVIOUS

\* A sequence is what it holds.
LEMMA SameSeq ==
  ASSUME NEW S, NEW u \in Seq(S), NEW v \in Seq(S), Len(u) = Len(v),
         \A i \in 1..Len(u) : u[i] = v[i]
  PROVE  u = v
OBVIOUS

\* The beginning of a sequence.
LEMMA FrontOf ==
  ASSUME NEW S, NEW u \in Seq(S), NEW n \in 0..Len(u)
  PROVE  /\ SubSeq(u, 1, n) \in Seq(S) /\ Len(SubSeq(u, 1, n)) = n
         /\ \A i \in 1..n : SubSeq(u, 1, n)[i] = u[i]
OBVIOUS

\* The end of a sequence.
LEMMA EndOf ==
  ASSUME NEW S, NEW u \in Seq(S), NEW n \in 0..Len(u)
  PROVE  /\ SubSeq(u, n + 1, Len(u)) \in Seq(S)
         /\ Len(SubSeq(u, n + 1, Len(u))) = Len(u) - n
         /\ \A i \in 1..(Len(u) - n) : SubSeq(u, n + 1, Len(u))[i] = u[n + i]
OBVIOUS

-----------------------------------------------------------------------------
(* Draining a buffer. *)

\* What the loop at place i of the buffer comes to.
Turn(buf, f, i) ==
  IF i >= Len(buf) THEN [found |-> <<>>, rest |-> SubSeq(buf, i, Len(buf))]
  ELSE IF TypeFits(buf[i])
  THEN [f[i + 2] EXCEPT !.found = <<buf[i]>> \o @]
  ELSE f[i + 1]

Drains(buf, f) == f = [i \in 1..(Len(buf) + 1) |-> Turn(buf, f, i)]

\* There is such a function for every buffer.
LEMMA DrainExists ==
  ASSUME NEW buf, Len(buf) \in Nat
  PROVE  \E f : Drains(buf, f)
<1>1. PICK l \in Nat : l = Len(buf)
  BY Zenon
<1> DEFINE Upper(n, f) ==
      /\ f = [i \in (l + 1 - n)..(l + 1) |-> f[i]]
      /\ \A i \in (l + 1 - n)..(l + 1) : f[i] = Turn(buf, f, i)
<1> DEFINE T == {n \in 0..l : ~\E f : Upper(n, f)}
<1>2. 0 \notin T
  <2>1. PICK v : v = [found |-> <<>>, rest |-> SubSeq(buf, l + 1, Len(buf))]
    BY Zenon
  <2>2. PICK f : f = [i \in (l + 1 - 0)..(l + 1) |-> v]
    BY Zenon
  <2>3. \A i \in (l + 1 - 0)..(l + 1) : i = l + 1 /\ i >= l
    OBVIOUS
  <2>4. \A i \in (l + 1 - 0)..(l + 1) : f[i] = v /\ Turn(buf, f, i) = v
    BY <1>1, <2>1, <2>2, <2>3, Zenon DEF Turn
  <2>5. f = [i \in (l + 1 - 0)..(l + 1) |-> f[i]]
    BY <2>2, Zenon
  <2> QED BY <2>4, <2>5, Zenon
<1>3. ASSUME NEW n \in Nat, n + 1 \in T PROVE n \in T
  <2>1. n + 1 \in 0..l
    BY <1>3, Zenon
  <2>2. n \in 0..l
    <3> HIDE DEF T
    <3> QED BY <2>1
  <2>3. ASSUME NEW f, Upper(n, f) PROVE \E g : Upper(n + 1, g)
    <3>1. PICK j \in Nat : j = l - n /\ l + 1 - n = j + 1 /\ l + 1 - (n + 1) = j
      BY <2>2
    <3>2. PICK g : g = [i \in j..(l + 1) |-> IF i = j THEN Turn(buf, f, j) ELSE f[i]]
      BY Zenon
    <3>3. \A i \in (j + 1)..(l + 1) : i \in j..(l + 1) /\ i # j
      BY <3>1
    <3>4. \A i \in (j + 1)..(l + 1) : g[i] = f[i]
      BY <3>2, <3>3, Zenon
    <3>5. j \in j..(l + 1) /\ \A i \in j..(l + 1) : i = j \/ i \in (j + 1)..(l + 1)
      BY <2>2, <3>1
    <3>6. \A i \in j..(l + 1) : ~(i >= l) => i + 1 \in (j + 1)..(l + 1) /\ i + 2 \in (j + 1)..(l + 1)
      BY <3>1
    <3>7. \A i \in j..(l + 1) : Turn(buf, g, i) = Turn(buf, f, i)
      BY <1>1, <3>4, <3>6, Zenon DEF Turn
    <3>8. g[j] = Turn(buf, f, j)
      BY <3>2, <3>5, Zenon
    <3>9. \A i \in (j + 1)..(l + 1) : f[i] = Turn(buf, f, i)
      BY <2>3, <3>1, Zenon
    <3>10. \A i \in j..(l + 1) : g[i] = Turn(buf, g, i)
      BY <3>4, <3>5, <3>7, <3>8, <3>9, Zenon
    <3>11. g = [i \in j..(l + 1) |-> g[i]]
      BY <3>2, Zenon
    <3> QED BY <3>1, <3>10, <3>11, Zenon
  <2> QED BY <1>3, <2>2, <2>3, Zenon
<1>4. T \subseteq Nat
  BY DEF T
<1>5. T = {}
  <2> HIDE DEF T
  <2> QED BY <1>2, <1>3, <1>4, NoLeast, Zenon
<1>6. l \in 0..l /\ l + 1 - l = 1
  OBVIOUS
<1>7. PICK f : Upper(l, f)
  BY <1>5, <1>6, Zenon
<1>8. f = [i \in 1..(l + 1) |-> f[i]] /\ \A i \in 1..(l + 1) : f[i] = Turn(buf, f, i)
  BY <1>6, <1>7, Zenon
<1>9. f = [i \in 1..(l + 1) |-> Turn(buf, f, i)]
  BY <1>8, Zenon
<1> QED BY <1>1, <1>9, Zenon DEF Drains

\* drain_orders is the first value of such a function.
LEMMA DrainIs ==
  ASSUME NEW buf, Len(buf) \in Nat
  PROVE  \E f : drain_orders(buf) = f[1] /\ \A i \in 1..(Len(buf) + 1) : f[i] = Turn(buf, f, i)
<1> DEFINE step == CHOOSE f : Drains(buf, f)
<1>1. Drains(buf, step)
  BY DrainExists, Zenon
<1>2. drain_orders(buf) = step[1]
  BY Zenon DEF drain_orders, Drains, Turn
<1> HIDE DEF step
<1>3. \A i \in 1..(Len(buf) + 1) : step[i] = Turn(buf, step, i)
  BY <1>1, Zenon DEF Drains
<1> QED BY <1>2, <1>3, Zenon

\* q consists of pieces of buf.
From(q, buf) == q \in Seq(Piece) /\ \A i \in DOMAIN q : \E j \in DOMAIN buf : q[i] = buf[j]

\* The loop finds pieces of the buffer and leaves one at most.
Drained(buf, v) ==
  /\ v = [found |-> v.found, rest |-> v.rest]
  /\ From(v.found, buf) /\ From(v.rest, buf) /\ Len(v.rest) <= 1

\* One more message found.
LEMMA FoundOne ==
  ASSUME NEW buf, NEW v, Drained(buf, v), NEW j \in DOMAIN buf, buf[j] \in Piece
  PROVE  Drained(buf, [v EXCEPT !.found = <<buf[j]>> \o @])
<1>1. PICK b \in Piece : b = buf[j]
  BY Zenon
<1>2. PICK q, r : v = [found |-> q, rest |-> r]
  BY Zenon DEF Drained
<1>3. v.found = q /\ v.rest = r
  BY <1>2
<1>4. q \in Seq(Piece) /\ \A i \in DOMAIN q : \E k \in DOMAIN buf : q[i] = buf[k]
  BY <1>3, Zenon DEF Drained, From
<1>5. PICK u : u = <<b>> \o q
  BY Zenon
<1>6. /\ u \in Seq(Piece)
      /\ \A i \in DOMAIN u : u[i] = b \/ \E k \in DOMAIN q : u[i] = q[k]
  <2>1. u \in Seq(Piece) /\ Len(u) = Len(q) + 1 /\ u[1] = b /\ \A i \in 1..Len(q) : u[i + 1] = q[i]
    BY <1>4, <1>5
  <2>2. ASSUME NEW i \in DOMAIN u, i # 1 PROVE \E k \in DOMAIN q : u[i] = q[k]
    <3>1. i - 1 \in 1..Len(q) /\ (i - 1) + 1 = i /\ 1..Len(q) = DOMAIN q
      BY <1>4, <2>1, <2>2
    <3>2. PICK k \in 1..Len(q) : k + 1 = i /\ k \in DOMAIN q
      BY <3>1, Zenon
    <3>3. u[k + 1] = q[k]
      BY <2>1, Zenon
    <3>4. u[i] = q[k]
      BY <3>2, <3>3, Zenon
    <3> QED BY <3>2, <3>4, Zenon
  <2> QED BY <2>1, <2>2, Zenon
<1>7. From(u, buf)
  <2>1. ASSUME NEW i \in DOMAIN u PROVE \E k \in DOMAIN buf : u[i] = buf[k]
    <3>1. CASE u[i] = b
      BY <1>1, <3>1, Zenon
    <3>2. CASE \E k \in DOMAIN q : u[i] = q[k]
      <4>1. PICK k \in DOMAIN q : u[i] = q[k]
        BY <3>2, Zenon
      <4>2. PICK l \in DOMAIN buf : q[k] = buf[l]
        BY <1>4, Zenon
      <4> QED BY <4>1, <4>2, Zenon
    <3> QED BY <1>6, <3>1, <3>2, Zenon
  <2> QED BY <1>6, <2>1, Zenon DEF From
<1>8. [v EXCEPT !.found = <<buf[j]>> \o @] = [found |-> u, rest |-> r]
  <2>1. <<buf[j]>> \o v.found = u
    BY <1>1, <1>3, <1>5, Zenon
  <2>2. [[found |-> q, rest |-> r] EXCEPT !.found = u] = [found |-> u, rest |-> r]
    OBVIOUS
  <2>3. [v EXCEPT !.found = u] = [found |-> u, rest |-> r]
    BY <1>2, <2>2, Zenon
  <2> QED BY <2>1, <2>3, Zenon
<1>9. PICK w : w = [found |-> u, rest |-> r]
  BY Zenon
<1>10. w.found = u /\ w.rest = r
  BY <1>9
<1>11. From(r, buf) /\ Len(r) <= 1
  BY <1>3, Zenon DEF Drained
<1>12. Drained(buf, w)
  BY <1>7, <1>9, <1>10, <1>11, Zenon DEF Drained
<1> QED BY <1>8, <1>9, <1>12, Zenon

\* The end of the buffer is left over.
LEMMA FoundNone ==
  ASSUME NEW buf \in Seq(Piece), NEW j \in 1..(Len(buf) + 1), j >= Len(buf)
  PROVE  Drained(buf, [found |-> <<>>, rest |-> SubSeq(buf, j, Len(buf))])
<1>1. PICK n \in 0..Len(buf) : j = n + 1
  <2>1. j - 1 \in 0..Len(buf) /\ j = (j - 1) + 1
    OBVIOUS
  <2> QED BY <2>1, Zenon
<1>2. PICK r : r = SubSeq(buf, n + 1, Len(buf))
  BY Zenon
<1>3. r \in Seq(Piece) /\ Len(r) = Len(buf) - n /\ \A i \in 1..(Len(buf) - n) : r[i] = buf[n + i]
  BY <1>2, EndOf, Zenon
<1>4. Len(r) <= 1
  BY <1>1, <1>3
<1>5. ASSUME NEW i \in DOMAIN r PROVE \E k \in DOMAIN buf : r[i] = buf[k]
  <2>1. i \in 1..(Len(buf) - n) /\ n + i \in DOMAIN buf
    BY <1>3
  <2> QED BY <1>3, <2>1, Zenon
<1>6. <<>> \in Seq(Piece) /\ DOMAIN <<>> = {}
  OBVIOUS
<1>7. From(<<>>, buf) /\ From(r, buf)
  BY <1>3, <1>5, <1>6, Zenon DEF From
<1>8. PICK w : w = [found |-> <<>>, rest |-> r]
  BY Zenon
<1>9. w.found = <<>> /\ w.rest = r
  BY <1>8
<1>10. Drained(buf, w)
  BY <1>4, <1>7, <1>8, <1>9, Zenon DEF Drained
<1> QED BY <1>1, <1>2, <1>8, <1>10, Zenon

LEMMA DrainSound ==
  ASSUME NEW buf \in Seq(Piece)
  PROVE  Drained(buf, drain_orders(buf))
<1>1. PICK l \in Nat : l = Len(buf) /\ DOMAIN buf = 1..l
  OBVIOUS
<1>2. PICK f : drain_orders(buf) = f[1] /\ \A i \in 1..(l + 1) : f[i] = Turn(buf, f, i)
  BY <1>1, DrainIs, Zenon
<1> DEFINE T == {n \in 0..l : ~Drained(buf, f[l + 1 - n])}
<1>3. T \subseteq Nat
  BY DEF T
<1>4. T = {}
  <2> SUFFICES ASSUME T # {} PROVE FALSE
    BY Zenon
  <2>1. PICK x \in T : \A y \in T : x <= y
    <3> HIDE DEF T
    <3> QED BY <1>3, LeastIn, Zenon
  <2>2. x \in 0..l /\ ~Drained(buf, f[l + 1 - x])
    BY <2>1, Zenon
  <2>3. \A y \in 0..l : ~(x <= y) => Drained(buf, f[l + 1 - y])
    BY <2>1, Zenon
  <2> HIDE DEF T
  <2>4. PICK j \in 1..(l + 1) : j = l + 1 - x
    BY <2>2
  <2>5. f[j] = Turn(buf, f, j)
    BY <1>2, Zenon
  <2>6. CASE j >= l
    BY <1>1, <2>2, <2>4, <2>5, <2>6, FoundNone, Zenon DEF Turn
  <2>7. CASE ~(j >= l)
    <3>1. /\ x - 1 \in 0..l /\ x - 2 \in 0..l /\ ~(x <= x - 1) /\ ~(x <= x - 2)
          /\ l + 1 - (x - 1) = j + 1 /\ l + 1 - (x - 2) = j + 2 /\ j \in 1..l
      BY <2>2, <2>4, <2>7
    <3>2. Drained(buf, f[j + 1]) /\ Drained(buf, f[j + 2])
      <4>1. Drained(buf, f[l + 1 - (x - 1)])
        BY <2>3, <3>1, Zenon
      <4>2. Drained(buf, f[l + 1 - (x - 2)])
        BY <2>3, <3>1, Zenon
      <4> QED BY <3>1, <4>1, <4>2, Zenon
    <3>3. buf[j] \in Piece
      BY <1>1, <3>1
    <3>4. Drained(buf, [f[j + 2] EXCEPT !.found = <<buf[j]>> \o @])
      BY <1>1, <3>1, <3>2, <3>3, FoundOne, Zenon
    <3>5. Drained(buf, f[j])
      BY <1>1, <2>5, <2>7, <3>2, <3>4, Zenon DEF Turn
    <3> QED BY <2>2, <2>4, <3>5, Zenon
  <2> QED BY <2>6, <2>7, Zenon
<1>5. l \in 0..l /\ l + 1 - l = 1
  OBVIOUS
<1> QED BY <1>2, <1>4, <1>5, Zenon

\* Every second place of buf, from the one behind 2 * h places.
Firsts(buf, n, h) == [k \in 1..(n - h) |-> buf[2 * (h + k) - 1]]

LEMMA FirstsSeq ==
  ASSUME NEW buf \in Seq(Piece), NEW n \in Nat, 2 * n <= Len(buf), NEW h \in 0..n
  PROVE  /\ Firsts(buf, n, h) \in Seq(Piece) /\ Len(Firsts(buf, n, h)) = n - h
         /\ \A k \in 1..(n - h) : Firsts(buf, n, h)[k] = buf[2 * (h + k) - 1]
<1>1. PICK m \in Nat : m = n - h
  OBVIOUS
<1>2. \A k \in 1..m : buf[2 * (h + k) - 1] \in Piece
  <2> TAKE k \in 1..m
  <2>1. 2 * (h + k) - 1 \in 1..Len(buf)
    BY <1>1
  <2> QED BY <2>1
<1>3. PICK q : q = [k \in 1..m |-> buf[2 * (h + k) - 1]]
  BY Zenon
<1>4. q \in Seq(Piece) /\ Len(q) = m /\ \A k \in 1..m : q[k] = buf[2 * (h + k) - 1]
  BY <1>2, <1>3
<1> QED BY <1>1, <1>3, <1>4, Zenon DEF Firsts

\* One message more at the front.
LEMMA FirstsNext ==
  ASSUME NEW buf \in Seq(Piece), NEW n \in Nat, 2 * n <= Len(buf), NEW h \in 0..n, h + 1 \in 0..n
  PROVE  <<buf[2 * h + 1]>> \o Firsts(buf, n, h + 1) = Firsts(buf, n, h)
<1>1. PICK m \in Nat : n - (h + 1) = m /\ n - h = m + 1
  OBVIOUS
<1>2. PICK g : g = h + 1 /\ g \in 0..n
  BY Zenon
<1>3. PICK q \in Seq(Piece) : q = Firsts(buf, n, g) /\ Len(q) = m
                           /\ \A k \in 1..m : q[k] = buf[2 * (g + k) - 1]
  <2>1. /\ Firsts(buf, n, g) \in Seq(Piece) /\ Len(Firsts(buf, n, g)) = n - g
        /\ \A k \in 1..(n - g) : Firsts(buf, n, g)[k] = buf[2 * (g + k) - 1]
    BY <1>2, FirstsSeq
  <2>2. n - g = m
    BY <1>1, <1>2
  <2> QED BY <2>1, <2>2, Zenon
<1>4. PICK r \in Seq(Piece) : r = Firsts(buf, n, h)
                           /\ Len(r) = m + 1 /\ \A k \in 1..(m + 1) : r[k] = buf[2 * (h + k) - 1]
  <2>1. /\ Firsts(buf, n, h) \in Seq(Piece) /\ Len(Firsts(buf, n, h)) = n - h
        /\ \A k \in 1..(n - h) : Firsts(buf, n, h)[k] = buf[2 * (h + k) - 1]
    BY FirstsSeq, Zenon
  <2> QED BY <1>1, <2>1, Zenon
<1>6. 2 * h + 1 \in 1..Len(buf)
  OBVIOUS
<1>7. PICK b \in Piece : b = buf[2 * h + 1]
  BY <1>6
<1>8. PICK u : u = <<b>> \o q
  BY Zenon
<1>11. u \in Seq(Piece) /\ Len(u) = Len(q) + 1 /\ u[1] = b /\ \A k \in 1..Len(q) : u[k + 1] = q[k]
  BY <1>8, Prepended
<1>12. Len(u) = m + 1 /\ \A k \in 1..m : u[k + 1] = q[k]
  BY <1>3, <1>11, Zenon
<1>9. ASSUME NEW k \in 1..(m + 1) PROVE u[k] = r[k]
  <2>1. CASE k = 1
    <3>1. 2 * (h + 1) - 1 = 2 * h + 1 /\ 1 \in 1..(m + 1)
      OBVIOUS
    <3>2. r[1] = buf[2 * (h + 1) - 1]
      BY <1>4, <3>1, Zenon
    <3> QED BY <1>7, <1>11, <2>1, <3>1, <3>2, Zenon
  <2>2. CASE k # 1
    <3>1. PICK i \in 1..m : k = i + 1
      <4>1. k - 1 \in 1..m /\ k = (k - 1) + 1
        BY <2>2
      <4> QED BY <4>1, Zenon
    <3>2. 2 * (g + i) - 1 = 2 * (h + k) - 1
      BY <1>2, <3>1
    <3>3. u[k] = q[i] /\ q[i] = buf[2 * (g + i) - 1]
      BY <1>3, <1>12, <3>1, Zenon
    <3>4. r[k] = buf[2 * (h + k) - 1]
      BY <1>4, Zenon
    <3> QED BY <3>2, <3>3, <3>4, Zenon
  <2> QED BY <2>1, <2>2, Zenon
<1>10. u = r
  BY <1>4, <1>9, <1>11, <1>12, SameSeq, Zenon
<1> QED BY <1>2, <1>3, <1>4, <1>7, <1>8, <1>10, Zenon

\* What is left of a buffer of whole messages.
Odd(buf) == IF Len(buf) % 2 = 1 THEN <<buf[Len(buf)]>> ELSE <<>>

\* In a buffer that begins with a message, every message is found.
LEMMA DrainAligned ==
  ASSUME NEW buf \in Seq(Piece), NEW n \in Nat, 2 * n = Len(buf) \/ 2 * n + 1 = Len(buf),
         \A h \in Nat : 2 * h + 1 <= Len(buf) => buf[2 * h + 1].part = 1
  PROVE  /\ drain_orders(buf).found = Firsts(buf, n, 0)
         /\ drain_orders(buf).rest = Odd(buf)
<1>1. PICK l \in Nat : l = Len(buf) /\ 2 * n <= l /\ l <= 2 * n + 1
  OBVIOUS
<1>2. PICK f : drain_orders(buf) = f[1] /\ \A i \in 1..(l + 1) : f[i] = Turn(buf, f, i)
  BY <1>1, DrainIs, Zenon
<1> DEFINE V(h) == [found |-> Firsts(buf, n, h), rest |-> Odd(buf)]
<1> DEFINE T == {m \in 0..n : f[2 * (n - m) + 1] # V(n - m)}
<1>3. T \subseteq Nat
  BY DEF T
<1>4. 0 \notin T
  <2>1. 2 * (n - 0) + 1 \in 1..(l + 1) /\ 2 * (n - 0) + 1 >= l /\ n - 0 = n /\ n \in 0..n
    BY <1>1
  <2>2. f[2 * n + 1] = [found |-> <<>>, rest |-> SubSeq(buf, 2 * n + 1, l)]
    BY <1>1, <1>2, <2>1, Zenon DEF Turn
  <2>3. Firsts(buf, n, n) = <<>>
    <3>1. Firsts(buf, n, n) \in Seq(Piece) /\ Len(Firsts(buf, n, n)) = n - n
      BY <1>1, <2>1, FirstsSeq, Zenon
    <3>2. n - n = 0
      OBVIOUS
    <3>3. PICK q \in Seq(Piece) : q = Firsts(buf, n, n) /\ Len(q) = 0
      BY <3>1, <3>2, Zenon
    <3>4. q = <<>>
      BY <3>3
    <3> QED BY <3>3, <3>4, Zenon
  <2>4. SubSeq(buf, 2 * n + 1, l) = Odd(buf)
    <3>1. CASE l = 2 * n
      <4>1. l % 2 # 1 /\ SubSeq(buf, 2 * n + 1, l) = <<>>
        BY <1>1, <3>1
      <4> QED BY <1>1, <4>1, Zenon DEF Odd
    <3>2. CASE l = 2 * n + 1
      <4>1. l % 2 = 1 /\ l \in 1..Len(buf)
        BY <1>1, <3>2
      <4>2. PICK b \in Piece : b = buf[l]
        BY <4>1
      <4>3. PICK w \in Seq(Piece) : w = SubSeq(buf, l, l) /\ Len(w) = 1 /\ w[1] = b
        <5>1. PICK k \in 0..Len(buf) : k + 1 = l /\ Len(buf) - k = 1 /\ k + 1 \in 1..Len(buf) /\ 1 \in 1..1
          <6>1. l - 1 \in 0..Len(buf) /\ (l - 1) + 1 = l /\ Len(buf) - (l - 1) = 1
            BY <1>1, <4>1
          <6>2. 1 \in 1..1
            OBVIOUS
          <6> QED BY <4>1, <6>1, <6>2, Zenon
        <5>2. /\ SubSeq(buf, k + 1, Len(buf)) \in Seq(Piece)
              /\ Len(SubSeq(buf, k + 1, Len(buf))) = Len(buf) - k
              /\ \A i \in 1..(Len(buf) - k) : SubSeq(buf, k + 1, Len(buf))[i] = buf[k + i]
          BY EndOf, Zenon
        <5>3. SubSeq(buf, l, l)[1] = b
          BY <1>1, <4>2, <5>1, <5>2, Zenon
        <5> QED BY <1>1, <5>1, <5>2, <5>3, Zenon
      <4>4. w = <<b>>
        <5>1. <<b>> \in Seq(Piece) /\ Len(<<b>>) = 1 /\ <<b>>[1] = b /\ \A i \in 1..1 : i = 1
          OBVIOUS
        <5>2. \A i \in 1..1 : w[i] = <<b>>[i]
          BY <4>3, <5>1, Zenon
        <5> QED BY <4>3, <5>1, <5>2, SameSeq, Zenon
      <4> QED BY <1>1, <3>2, <4>1, <4>2, <4>3, <4>4, Zenon DEF Odd
    <3> QED BY <1>1, <3>1, <3>2
  <2>5. f[2 * (n - 0) + 1] = V(n - 0)
    BY <2>1, <2>2, <2>3, <2>4, Zenon
  <2> QED BY <2>5, Zenon
<1>5. ASSUME NEW m \in Nat, m + 1 \in T PROVE m \in T
  <2>1. m + 1 \in 0..n /\ f[2 * (n - (m + 1)) + 1] # V(n - (m + 1))
    BY <1>5, Zenon
  <2> HIDE DEF T
  <2>2. PICK h \in Nat : h = n - (m + 1) /\ h + 1 = n - m /\ h \in 0..n /\ h + 1 \in 0..n /\ m \in 0..n
    BY <2>1
  <2>3. /\ 2 * h + 1 \in 1..(l + 1) /\ ~(2 * h + 1 >= l) /\ 2 * h + 1 <= l
        /\ (2 * h + 1) + 2 = 2 * (h + 1) + 1
    BY <1>1, <2>2
  <2>4. TypeFits(buf[2 * h + 1])
    BY <1>1, <2>3, Zenon DEF TypeFits
  <2>5. f[2 * h + 1] = [f[2 * (h + 1) + 1] EXCEPT !.found = <<buf[2 * h + 1]>> \o @]
    BY <1>1, <1>2, <2>3, <2>4, ZenonT(30) DEF Turn
  <2>6. SUFFICES ASSUME f[2 * (h + 1) + 1] = V(h + 1) PROVE FALSE
    BY <2>2, Zenon DEF T
  <2>7. PICK q, r : q = Firsts(buf, n, h + 1) /\ r = Odd(buf)
    BY Zenon
  <2>8. PICK u : u = Firsts(buf, n, h)
    BY Zenon
  <2>9. <<buf[2 * h + 1]>> \o q = u
    BY <1>1, <2>2, <2>7, <2>8, FirstsNext, Zenon
  <2>10. [found |-> q, rest |-> r].found = q
    OBVIOUS
  <2>11. [[found |-> q, rest |-> r] EXCEPT !.found = u] = [found |-> u, rest |-> r]
    OBVIOUS
  <2>12. f[2 * (h + 1) + 1] = [found |-> q, rest |-> r]
    BY <2>6, <2>7, Zenon
  <2>13. f[2 * h + 1] = [found |-> u, rest |-> r]
    BY <2>5, <2>9, <2>10, <2>11, <2>12, Zenon
  <2> QED BY <2>1, <2>2, <2>7, <2>8, <2>13, Zenon
<1>6. T = {}
  <2> HIDE DEF T
  <2> QED BY <1>3, <1>4, <1>5, NoLeast, Zenon
<1>7. n \in 0..n /\ 2 * (n - n) + 1 = 1 /\ n - n = 0
  OBVIOUS
<1>8. f[1] = V(0)
  BY <1>6, <1>7, Zenon
<1>9. PICK q, r : q = Firsts(buf, n, 0) /\ r = Odd(buf)
  BY Zenon
<1>10. drain_orders(buf) = [found |-> q, rest |-> r]
  BY <1>2, <1>8, <1>9, Zenon
<1> HIDE DEF V
<1>11. drain_orders(buf).found = q /\ drain_orders(buf).rest = r
  BY <1>10
<1> QED BY <1>9, <1>11, Zenon

-----------------------------------------------------------------------------
(* The pieces of a connection. *)

LEMMA Bounds ==
  /\ MaxSessions \in Nat \ {0} /\ NumOrders \in Nat \ {0} /\ BufSize \in Nat \ {0}
  /\ MaxSegment \in Nat \ {0} /\ MaxPending \in Nat \ {0} /\ MaxCrashes \in Nat
BY ObserverAssumption

\* Piece x of the connection: odd ones are the first of a message.
LEMMA PieceAt ==
  ASSUME sess \in Sessions, NEW x \in 1..(2 * NumOrders)
  PROVE  At(x) \in Piece /\ At(x).sess = sess
<1>1. PICK y \in Int : y = (x + 1) \div 2
  OBVIOUS
<1>2. y \in Numbers
  BY <1>1, Bounds DEF Numbers
<1>3. PICK r : r = [sess |-> sess, seq |-> y, part |-> IF x % 2 = 1 THEN 1 ELSE 2]
  BY Zenon
<1>4. r \in Piece /\ r.sess = sess
  BY <1>2, <1>3 DEF Piece
<1> QED BY <1>1, <1>3, <1>4, Zenon DEF At

\* The first piece of message q.
LEMMA FirstAt ==
  ASSUME NEW q \in Nat \ {0}
  PROVE  At(2 * q - 1) = [sess |-> sess, seq |-> q, part |-> 1]
<1>1. ((2 * q - 1) + 1) \div 2 = q /\ (2 * q - 1) % 2 = 1
  OBVIOUS
<1> QED BY <1>1, Zenon DEF At

LEMMA SegmentFacts ==
  ASSUME sess \in Sessions, NEW i \in Nat, NEW n \in Nat, i + n <= 2 * NumOrders
  PROVE  /\ Segment(sess, i, n) \in Seq(Piece) /\ Len(Segment(sess, i, n)) = n
         /\ \A k \in 1..n : Segment(sess, i, n)[k] = At(i + k)
<1>1. \A k \in 1..n : i + k \in 1..(2 * NumOrders)
  BY Bounds
<1>2. PICK q : q = [k \in 1..n |-> At(i + k)]
  BY Zenon
<1>3. \A k \in 1..n : At(i + k) \in Piece
  BY <1>1, PieceAt, Zenon
<1>4. q \in Seq(Piece) /\ Len(q) = n /\ \A k \in 1..n : q[k] = At(i + k)
  BY <1>2, <1>3
<1>5. Segment(sess, i, n) = q
  BY <1>2, Zenon DEF Segment, At
<1> QED BY <1>4, <1>5, Zenon

\* Half of a number.
LEMMA Halved ==
  ASSUME NEW x \in Nat
  PROVE  /\ x \div 2 \in Nat
         /\ (x % 2 = 1 /\ x = 2 * (x \div 2) + 1) \/ (x % 2 # 1 /\ x = 2 * (x \div 2))
OBVIOUS

\* A segment of n pieces follows the first p, which hold a messages.
Follows(p, n, a) ==
  /\ sess \in Sessions /\ p \in Nat /\ n \in Nat /\ p + n <= 2 * NumOrders
  /\ a \in Nat /\ a = p \div 2

\* Half a message and what follows it are pieces one after the other.
LEMMA HalfJoined ==
  ASSUME NEW p, NEW n, NEW a, Follows(p, n, a)
  PROVE  /\ Half(p) \o Segment(sess, p, n) \in Seq(Piece)
         /\ Len(Half(p) \o Segment(sess, p, n)) = p + n - 2 * a
         /\ \A j \in 1..(p + n - 2 * a) : (Half(p) \o Segment(sess, p, n))[j] = At(2 * a + j)
<1>0. /\ sess \in Sessions /\ p \in Nat /\ n \in Nat /\ p + n <= 2 * NumOrders
      /\ a \in Nat /\ a = p \div 2
  BY Zenon DEF Follows
<1> USE <1>0
<1>1. PICK q \in Seq(Piece) : q = Segment(sess, p, n) /\ Len(q) = n /\ \A k \in 1..n : q[k] = At(p + k)
  BY SegmentFacts, Zenon
<1>2. CASE p % 2 = 1 /\ p = 2 * a + 1
  <2>1. p \in 1..(2 * NumOrders)
    BY <1>2, Bounds
  <2>2. PICK b \in Piece : b = At(p)
    BY <2>1, PieceAt, Zenon
  <2>3. Half(p) = <<b>>
    BY <1>2, <2>2, Zenon DEF Half
  <2>4. PICK u : u = <<b>> \o q
    BY Zenon
  <2>5. u \in Seq(Piece) /\ Len(u) = n + 1 /\ u[1] = b /\ \A k \in 1..n : u[k + 1] = q[k]
    <3>1. u \in Seq(Piece) /\ Len(u) = Len(q) + 1 /\ u[1] = b /\ \A k \in 1..Len(q) : u[k + 1] = q[k]
      BY <2>4, Prepended
    <3> QED BY <1>1, <3>1, Zenon
  <2>6. p + n - 2 * a = n + 1
    BY <1>2
  <2>7. ASSUME NEW j \in 1..(n + 1) PROVE u[j] = At(2 * a + j)
    <3>1. CASE j = 1
      BY <1>2, <2>2, <2>5, <3>1, Zenon
    <3>2. CASE j # 1
      <4>1. PICK k \in 1..n : j = k + 1 /\ p + k = 2 * a + j
        <5>1. j - 1 \in 1..n /\ j = (j - 1) + 1 /\ p + (j - 1) = 2 * a + j
          BY <1>2, <3>2
        <5> QED BY <5>1, Zenon
      <4> QED BY <1>1, <2>5, <4>1, Zenon
    <3> QED BY <3>1, <3>2, Zenon
  <2> QED BY <1>1, <2>3, <2>4, <2>5, <2>6, <2>7, Zenon
<1>3. CASE p % 2 # 1 /\ p = 2 * a
  <2>1. Half(p) = <<>>
    BY <1>3, Zenon DEF Half
  <2>2. <<>> \o q = q
    OBVIOUS
  <2>3. p + n - 2 * a = n
    BY <1>3
  <2> QED BY <1>1, <1>3, <2>1, <2>2, <2>3, Zenon
<1> QED BY <1>2, <1>3, Halved, Zenon

\* All messages up to c were found, and half a message is left at most.
FoundAll(d, p, n, a, c) ==
  /\ d.rest = Half(p + n) /\ a <= c
  /\ d.found \in Seq(Piece) /\ Len(d.found) = c - a
  /\ \A k \in 1..(c - a) : d.found[k] = [sess |-> sess, seq |-> a + k, part |-> 1]

\* When a stream holds half a message and a segment arrives, all its messages are
\* found, and half a message is left at most.
LEMMA DrainHalf ==
  ASSUME NEW p, NEW n, NEW a, Follows(p, n, a), NEW c \in Nat, c = (p + n) \div 2
  PROVE  FoundAll(drain_orders(Half(p) \o Segment(sess, p, n)), p, n, a, c)
<1>a. /\ sess \in Sessions /\ p \in Nat /\ n \in Nat /\ p + n <= 2 * NumOrders
      /\ a \in Nat /\ a = p \div 2
  BY Zenon DEF Follows
<1>b. /\ Half(p) \o Segment(sess, p, n) \in Seq(Piece)
      /\ Len(Half(p) \o Segment(sess, p, n)) = p + n - 2 * a
      /\ \A j \in 1..(p + n - 2 * a) : (Half(p) \o Segment(sess, p, n))[j] = At(2 * a + j)
  BY HalfJoined
<1>0. PICK buf : buf = Half(p) \o Segment(sess, p, n)
  BY Zenon
<1>1. buf \in Seq(Piece) /\ Len(buf) = p + n - 2 * a /\ \A j \in 1..(p + n - 2 * a) : buf[j] = At(2 * a + j)
  BY <1>b, <1>0, Zenon
<1> USE <1>a
<1>2. PICK l \in Nat : l = Len(buf) /\ l = p + n - 2 * a
  BY <1>1
<1>3. \A j \in 1..l : buf[j] = At(2 * a + j)
  BY <1>1, <1>2, Zenon
<1>4. PICK m \in Nat : m = c - a /\ (2 * m = l \/ 2 * m + 1 = l) /\ a <= c
  <2>1. p + n = 2 * c \/ p + n = 2 * c + 1
    <3>1. PICK x \in Nat : x = p + n
      OBVIOUS
    <3> QED BY <3>1, Halved, Zenon
  <2>2. p = 2 * a \/ p = 2 * a + 1
    BY Halved, Zenon
  <2>3. a <= c /\ c - a \in Nat /\ (2 * (c - a) = l \/ 2 * (c - a) + 1 = l)
    BY <1>2, <2>1, <2>2
  <2> QED BY <2>3, Zenon
<1>5. ASSUME NEW h \in Nat, 2 * h + 1 <= Len(buf) PROVE buf[2 * h + 1].part = 1
  <2>1. 2 * h + 1 \in 1..l
    BY <1>2, <1>5
  <2>2. PICK q \in Nat \ {0} : q = a + h + 1 /\ 2 * a + (2 * h + 1) = 2 * q - 1
    OBVIOUS
  <2>3. buf[2 * h + 1] = [sess |-> sess, seq |-> q, part |-> 1]
    BY <1>3, <2>1, <2>2, FirstAt, Zenon
  <2> QED BY <2>3
<1>6. drain_orders(buf).found = Firsts(buf, m, 0) /\ drain_orders(buf).rest = Odd(buf)
  BY <1>1, <1>2, <1>4, <1>5, DrainAligned, Zenon
<1>7. /\ Firsts(buf, m, 0) \in Seq(Piece) /\ Len(Firsts(buf, m, 0)) = m
      /\ \A k \in 1..m : Firsts(buf, m, 0)[k] = buf[2 * k - 1]
  <2>1. 2 * m <= Len(buf) /\ 0 \in 0..m /\ m - 0 = m
    BY <1>2, <1>4
  <2>2. /\ Firsts(buf, m, 0) \in Seq(Piece) /\ Len(Firsts(buf, m, 0)) = m - 0
        /\ \A k \in 1..(m - 0) : Firsts(buf, m, 0)[k] = buf[2 * (0 + k) - 1]
    BY <1>1, <2>1, FirstsSeq, Zenon
  <2>3. \A k \in 1..m : 2 * (0 + k) - 1 = 2 * k - 1
    OBVIOUS
  <2> QED BY <2>1, <2>2, <2>3, Zenon
<1>8. ASSUME NEW k \in 1..m
      PROVE  Firsts(buf, m, 0)[k] = [sess |-> sess, seq |-> a + k, part |-> 1]
  <2>1. 2 * k - 1 \in 1..l
    BY <1>4
  <2>2. a + k \in Nat \ {0} /\ 2 * a + (2 * k - 1) = 2 * (a + k) - 1
    OBVIOUS
  <2>3. buf[2 * k - 1] = At(2 * (a + k) - 1)
    BY <1>3, <2>1, <2>2, Zenon
  <2> QED BY <1>7, <2>2, <2>3, FirstAt, Zenon
<1>9. Odd(buf) = Half(p + n)
  <2>1. CASE l % 2 = 1
    <3>1. (p + n) % 2 = 1 /\ l \in 1..l /\ 2 * a + l = p + n
      BY <1>2, <2>1
    <3> QED BY <1>2, <1>3, <2>1, <3>1, Zenon DEF Odd, Half
  <2>2. CASE l % 2 # 1
    <3>1. (p + n) % 2 # 1
      BY <1>2, <2>2
    <3> QED BY <1>2, <2>2, <3>1, Zenon DEF Odd, Half
  <2> QED BY <2>1, <2>2, Zenon
<1>10. PICK d : d = drain_orders(buf) /\ d.found = Firsts(buf, m, 0) /\ d.rest = Half(p + n)
  BY <1>6, <1>9, Zenon
<1>11. FoundAll(d, p, n, a, c)
  BY <1>4, <1>7, <1>8, <1>10, Zenon DEF FoundAll
<1> QED BY <1>0, <1>10, <1>11, Zenon

-----------------------------------------------------------------------------
(* Streams and lines. *)

\* Pieces of the connections S.
Mine(S, q) == q \in Seq(Piece) /\ \A i \in DOMAIN q : q[i].sess \in S

\* append_bytes keeps pieces of both, and all of them unless it starts again.
LEMMA BufferMine ==
  ASSUME NEW S, NEW stream, NEW data, Mine(S, stream), Mine(S, data)
  PROVE  /\ Mine(S, append_bytes(stream, data))
         /\ ~(Len(append_bytes(stream, data)) < Len(stream) + Len(data))
              => append_bytes(stream, data) = stream \o data
         /\ Len(append_bytes(stream, data)) <= Len(stream) + Len(data)
<1>1. stream \in Seq(Piece) /\ data \in Seq(Piece)
  BY Zenon DEF Mine
<1>2. PICK s \in Nat, n \in Nat : /\ s = Len(stream) /\ n = Len(data)
                               /\ DOMAIN stream = 1..s /\ DOMAIN data = 1..n
  BY <1>1
<1>3. \A i \in 1..s : stream[i].sess \in S
  BY <1>2, Zenon DEF Mine
<1>4. \A i \in 1..n : data[i].sess \in S
  BY <1>2, Zenon DEF Mine
<1>5. CASE ~(s + n > BufSize)
  <2>1. append_bytes(stream, data) = stream \o data
    BY <1>2, <1>5, Zenon DEF append_bytes
  <2>2. PICK u : u = stream \o data
    BY Zenon
  <2>3. /\ u \in Seq(Piece) /\ Len(u) = s + n /\ \A i \in 1..s : u[i] = stream[i]
        /\ \A i \in 1..n : u[s + i] = data[i]
    <3>1. /\ u \in Seq(Piece) /\ Len(u) = Len(stream) + Len(data)
          /\ \A i \in 1..Len(stream) : u[i] = stream[i]
          /\ \A i \in 1..Len(data) : u[Len(stream) + i] = data[i]
      BY <1>1, <2>2, Joined
    <3> QED BY <1>2, <3>1, Zenon
  <2>4. ASSUME NEW i \in DOMAIN u PROVE u[i].sess \in S
    <3>1. i \in 1..s \/ (i - s \in 1..n /\ s + (i - s) = i)
      BY <2>3
    <3> QED BY <1>3, <1>4, <2>3, <3>1, Zenon
  <2>5. s + n <= s + n
    OBVIOUS
  <2> QED BY <1>2, <2>1, <2>2, <2>3, <2>4, <2>5, Zenon DEF Mine
<1>6. CASE s + n > BufSize
  <2>1. append_bytes(stream, data) = LastPieces(data, BufSize)
    BY <1>2, <1>6, Zenon DEF append_bytes
  <2>2. CASE ~(n > BufSize)
    <3>1. append_bytes(stream, data) = data
      BY <1>2, <2>1, <2>2, Zenon DEF LastPieces
    <3>2. (~(n < s + n) => s = 0) /\ n <= s + n
      BY <1>2
    <3>3. s = 0 => <<>> = stream
      BY <1>1, <1>2
    <3>4. <<>> \o data = data
      BY <1>1
    <3> QED BY <1>2, <3>1, <3>2, <3>3, <3>4, Zenon
  <2>3. CASE n > BufSize
    <3>1. PICK k \in 0..Len(data) : n - BufSize = k /\ n - k = BufSize /\ BufSize \in Nat
      <4>1. n - BufSize \in 0..Len(data) /\ n - (n - BufSize) = BufSize /\ BufSize \in Nat
        BY <1>2, <2>3, Bounds
      <4> QED BY <4>1, Zenon
    <3>2. append_bytes(stream, data) = SubSeq(data, k + 1, Len(data))
      BY <1>2, <2>1, <2>3, <3>1, Zenon DEF LastPieces
    <3>3. PICK u : u = SubSeq(data, k + 1, Len(data))
      BY Zenon
    <3>4. u \in Seq(Piece) /\ Len(u) = n - k /\ \A i \in 1..(n - k) : u[i] = data[k + i]
      BY <1>1, <1>2, <3>3, EndOf, Zenon
    <3>5. ASSUME NEW i \in DOMAIN u PROVE u[i].sess \in S
      <4>1. i \in 1..(n - k) /\ k + i \in 1..n
        BY <1>2, <3>4
      <4> QED BY <1>4, <3>4, <4>1, Zenon
    <3>6. Len(u) < s + n /\ Len(u) <= s + n
      BY <1>6, <3>1, <3>4
    <3> QED BY <1>2, <3>2, <3>3, <3>4, <3>5, <3>6, Zenon DEF Mine
  <2> QED BY <2>2, <2>3, Zenon
<1> QED BY <1>5, <1>6, Zenon

\* What is found and what is left are pieces of the same connections.
LEMMA DrainMine ==
  ASSUME NEW S, NEW buf, Mine(S, buf)
  PROVE  /\ Mine(S, drain_orders(buf).found)
         /\ Mine(S, drain_orders(buf).rest) /\ Len(drain_orders(buf).rest) <= 1
<1>1. buf \in Seq(Piece) /\ \A i \in DOMAIN buf : buf[i].sess \in S
  BY Zenon DEF Mine
<1>2. Drained(buf, drain_orders(buf))
  BY <1>1, DrainSound, Zenon
<1> QED BY <1>1, <1>2, ZenonT(30) DEF Drained, From, Mine

Line == [kind : {"order", "ack"}, msg : Message]

Ends == {"due", "closed", "open", "broken"}

\* What the invariant says of the telemetry connection.
Lines == /\ telemetry_fd \in Ends /\ running \in BOOLEAN
         /\ pipe \in Seq(Line) /\ Dropped

\* Nothing is sent: there is nothing to send, or nothing pending either.
NotSent(found) ==
  pipe' = pipe /\ (found = <<>> \/ (pipe = <<>> /\ pendingOrders = <<>>))

\* A line is sent for each message found.
Sent(kind, found) ==
  /\ Len(pipe') = Len(pipe) + Len(found)
  /\ \A i \in 1..Len(pipe) : pipe'[i] = pipe[i]
  /\ \A i \in 1..Len(found) :
       /\ pipe'[Len(pipe) + i].kind = kind
       /\ pipe'[Len(pipe) + i].msg.sess = found[i].sess
       /\ found[i].part = 1 => pipe'[Len(pipe) + i].msg.seq = found[i].seq

\* An open connection stays open.
LEMMA ReconnectedFacts ==
  ASSUME telemetry_fd \in Ends, running \in BOOLEAN, NEW fd \in Reconnected
  PROVE  fd \in Ends /\ (telemetry_fd = "open" => fd = "open")
<1>1. CASE telemetry_fd = "due"
  BY <1>1 DEF Reconnected, Ends
<1>2. CASE telemetry_fd = "closed"
  BY <1>2 DEF Reconnected, Ends
<1>3. CASE telemetry_fd # "due" /\ telemetry_fd # "closed"
  BY <1>3 DEF Reconnected, Ends
<1> QED BY <1>1, <1>2, <1>3, Zenon

LEMMA EmitFacts ==
  ASSUME Lines, NEW kind \in {"order", "ack"}, NEW S, NEW found, Mine(S, found),
         Emit(kind, found), pendingOrders' = pendingOrders, running' = running
  PROVE  Lines' /\ (NotSent(found) \/ Sent(kind, found))
<1>0. PICK fd \in Reconnected :
        IF found = <<>> \/ fd # "open"
        THEN telemetry_fd' = (IF found = <<>> THEN fd ELSE "closed") /\ pipe' = pipe
        ELSE /\ telemetry_fd' = fd
             /\ \E m \in [DOMAIN found -> Message] :
                  /\ \A i \in DOMAIN found : m[i] \in ReadAs(found[i])
                  /\ pipe' = pipe \o [i \in DOMAIN found |-> [kind |-> kind, msg |-> m[i]]]
  BY Zenon DEF Emit
<1>1. fd \in Ends /\ (telemetry_fd = "open" => fd = "open")
  BY ReconnectedFacts, Zenon DEF Lines
<1>2. found \in Seq(Piece) /\ pipe \in Seq(Line)
  BY Zenon DEF Mine, Lines
<1>3. CASE found = <<>> \/ fd # "open"
  <2>1. telemetry_fd' = (IF found = <<>> THEN fd ELSE "closed") /\ pipe' = pipe
    BY <1>0, <1>3, Zenon
  <2>2. telemetry_fd' \in Ends
    BY <1>1, <2>1 DEF Ends
  <2>3. fd # "open" => pipe = <<>> /\ pendingOrders = <<>>
    BY <1>1, Zenon DEF Lines, Dropped
  <2>4. Dropped'
    BY <1>3, <2>1, <2>3, Zenon DEF Dropped
  <2>5. NotSent(found)
    BY <1>3, <2>1, <2>3, Zenon DEF NotSent
  <2> QED BY <1>2, <2>1, <2>2, <2>4, <2>5, Zenon DEF Lines
<1>4. CASE ~(found = <<>> \/ fd # "open")
  <2>1. telemetry_fd' = fd /\ fd = "open"
    BY <1>0, <1>4, Zenon
  <2>2. PICK m \in [DOMAIN found -> Message] :
          /\ \A i \in DOMAIN found : m[i] \in ReadAs(found[i])
          /\ pipe' = pipe \o [i \in DOMAIN found |-> [kind |-> kind, msg |-> m[i]]]
    BY <1>0, <1>4, Zenon
  <2>3. PICK l \in Nat, n \in Nat : l = Len(pipe) /\ n = Len(found) /\ DOMAIN found = 1..n
    BY <1>2
  <2>4. PICK q : q = [i \in 1..n |-> [kind |-> kind, msg |-> m[i]]]
    BY Zenon
  <2>5. \A i \in 1..n : m[i] \in Message
    BY <2>2, <2>3, Zenon
  <2>6. ASSUME NEW i \in 1..n
        PROVE  /\ [kind |-> kind, msg |-> m[i]] \in Line
               /\ [kind |-> kind, msg |-> m[i]].kind = kind /\ [kind |-> kind, msg |-> m[i]].msg = m[i]
    BY <2>5 DEF Line
  <2>7. q \in Seq(Line) /\ Len(q) = n
    BY <2>4, <2>6
  <2>8. \A i \in 1..n : q[i].kind = kind /\ q[i].msg = m[i]
    BY <2>4, <2>6, Zenon
  <2>9. ASSUME NEW i \in 1..n
        PROVE  m[i].sess = found[i].sess /\ (found[i].part = 1 => m[i].seq = found[i].seq)
    <3>1. m[i] \in ReadAs(found[i])
      BY <2>2, <2>3, Zenon
    <3>2. m[i] \in [sess : {found[i].sess}, seq : IF found[i].part = 1 THEN {found[i].seq} ELSE Numbers]
      BY <3>1, Zenon DEF ReadAs
    <3>3. PICK y : y = m[i]
      BY Zenon
    <3>4. PICK c : c = found[i]
      BY Zenon
    <3>5. y \in [sess : {c.sess}, seq : IF c.part = 1 THEN {c.seq} ELSE Numbers]
      BY <3>2, <3>3, <3>4, Zenon
    <3>6. y.sess = c.sess /\ (c.part = 1 => y.seq = c.seq)
      BY <3>5
    <3> QED BY <3>3, <3>4, <3>6, Zenon
  <2>10. pipe' = pipe \o q
    BY <2>2, <2>3, <2>4, Zenon
  <2>11. /\ pipe' \in Seq(Line) /\ Len(pipe') = Len(pipe) + Len(q)
         /\ \A i \in 1..Len(pipe) : pipe'[i] = pipe[i]
         /\ \A i \in 1..Len(q) : pipe'[Len(pipe) + i] = q[i]
    <3>0. PICK v \in Seq(Line), w \in Seq(Line) : v = pipe /\ w = q
      BY <1>2, <2>7, Zenon
    <3>1. PICK u : u = v \o w
      BY Zenon
    <3>2. /\ u \in Seq(Line) /\ Len(u) = Len(v) + Len(w)
          /\ \A i \in 1..Len(v) : u[i] = v[i]
          /\ \A i \in 1..Len(w) : u[Len(v) + i] = w[i]
      BY <3>1, Joined
    <3> QED BY <2>10, <3>0, <3>1, <3>2, Zenon
  <2>12. Sent(kind, found)
    <3>1. ASSUME NEW i \in 1..n
          PROVE  /\ pipe'[Len(pipe) + i].kind = kind /\ pipe'[Len(pipe) + i].msg.sess = found[i].sess
                 /\ found[i].part = 1 => pipe'[Len(pipe) + i].msg.seq = found[i].seq
      <4>1. pipe'[Len(pipe) + i] = q[i]
        BY <2>7, <2>11, Zenon
      <4>2. q[i].kind = kind /\ q[i].msg = m[i]
        BY <2>8, Zenon
      <4> QED BY <2>9, <4>1, <4>2, Zenon
    <3>2. Len(pipe') = Len(pipe) + Len(found) /\ \A i \in 1..Len(pipe) : pipe'[i] = pipe[i]
      BY <2>3, <2>7, <2>11, Zenon
    <3> QED BY <2>3, <3>1, <3>2, Zenon DEF Sent
  <2>13. Lines'
    BY <1>1, <2>1, <2>11, Zenon DEF Lines, Dropped
  <2> QED BY <2>12, <2>13, Zenon
<1> QED BY <1>3, <1>4, Zenon

-----------------------------------------------------------------------------
(* The order an ACK will find. *)

\* It depends on the lines before it and on the pending orders.
LEMMA LastKept ==
  ASSUME NEW i \in Nat, NEW m, LastIs(i, m), pendingOrders' = pendingOrders,
         \A k \in 1..(i - 1) : pipe'[k] = pipe[k]
  PROVE  LastIs(i, m)'
<1>1. \A j \in 1..(i - 1) : \A k \in (j + 1)..(i - 1) : k \in 1..(i - 1)
  OBVIOUS
<1>2. CASE \E j \in 1..(i - 1) : /\ pipe[j].kind = "order" /\ pipe[j].msg = m
                              /\ \A k \in (j + 1)..(i - 1) : ~Names(k, m.seq)
  BY <1>1, <1>2, Zenon DEF LastIs, Names
<1>3. CASE /\ \A k \in 1..(i - 1) : ~Names(k, m.seq)
           /\ \A k \in DOMAIN pendingOrders : pendingOrders[k].seq = m.seq => pendingOrders[k] = m
  BY <1>3, Zenon DEF LastIs, Names
<1> QED BY <1>2, <1>3, Zenon DEF LastIs

\* Lines that are not orders with the number change nothing.
LEMMA LastLater ==
  ASSUME NEW i \in Nat, NEW h \in Nat, i <= h, NEW m, LastIs(i, m)',
         \A k \in i..(h - 1) : ~Names(k, m.seq)'
  PROVE  LastIs(h, m)'
<1>1. \A k \in 1..(h - 1) : k \in 1..(i - 1) \/ k \in i..(h - 1)
  OBVIOUS
<1>2. ASSUME NEW j \in 1..(i - 1)
      PROVE  j \in 1..(h - 1) /\ \A k \in (j + 1)..(h - 1) : k \in (j + 1)..(i - 1) \/ k \in i..(h - 1)
  OBVIOUS
<1>3. CASE \E j \in 1..(i - 1) : /\ pipe'[j].kind = "order" /\ pipe'[j].msg = m
                              /\ \A k \in (j + 1)..(i - 1) : ~Names(k, m.seq)'
  <2>1. PICK j \in 1..(i - 1) : /\ pipe'[j].kind = "order" /\ pipe'[j].msg = m
                              /\ \A k \in (j + 1)..(i - 1) : ~Names(k, m.seq)'
    BY <1>3, Zenon
  <2>2. j \in 1..(h - 1) /\ \A k \in (j + 1)..(h - 1) : ~Names(k, m.seq)'
    BY <1>2, <2>1, Zenon
  <2> QED BY <2>1, <2>2, Zenon DEF LastIs
<1>4. CASE /\ \A k \in 1..(i - 1) : ~Names(k, m.seq)'
           /\ \A k \in DOMAIN pendingOrders' : pendingOrders'[k].seq = m.seq => pendingOrders'[k] = m
  BY <1>1, <1>4, Zenon DEF LastIs
<1> QED BY <1>3, <1>4, Zenon DEF LastIs

\* Numbers of lines.
LEMMA LineCount ==
  ASSUME pipe \in Seq(Line)
  PROVE  Len(pipe) \in Nat /\ DOMAIN pipe = 1..Len(pipe)
OBVIOUS

\* Without a line there is nothing to be found.
LEMMA LastNone ==
  ASSUME NEW m, pipe' = <<>>, pendingOrders' = <<>>
  PROVE  LastIs(1, m)'
<1>1. DOMAIN pendingOrders' = {} /\ 1..(1 - 1) = {}
  OBVIOUS
<1> QED BY <1>1, Zenon DEF LastIs

\* Lines that were there keep their order when lines are added.
LEMMA OldAcks ==
  ASSUME pipe \in Seq(Line), Pairing, tainted \subseteq tainted', pendingOrders' = pendingOrders,
         \A k \in 1..Len(pipe) : pipe'[k] = pipe[k],
         NEW i \in 1..Len(pipe), NEW m, m = pipe'[i].msg, pipe'[i].kind = "ack",
         m.sess \notin tainted'
  PROVE  LastIs(i, m)'
<1>1. m = pipe[i].msg
  BY Zenon
<1>2. pipe'[i] = pipe[i] /\ i \in DOMAIN pipe
  BY LineCount, Zenon
<1>3. LastIs(i, m)
  BY <1>1, <1>2, Zenon DEF Pairing
<1>4. i \in Nat /\ \A k \in 1..(i - 1) : k \in 1..Len(pipe)
  BY LineCount
<1> QED BY <1>3, <1>4, LastKept, Zenon

\* The order of a number of this connection is the last one under it, before and
\* after lines that are not orders with that number.
LEMMA OldNumber ==
  ASSUME pipe \in Seq(Line), Pairing, sess \notin tainted, pendingOrders' = pendingOrders,
         \A k \in 1..Len(pipe) : pipe'[k] = pipe[k],
         NEW q \in 1..(passed \div 2), NEW m, m = [sess |-> sess, seq |-> q],
         NEW h \in Nat, Len(pipe) + 1 <= h, \A k \in (Len(pipe) + 1)..(h - 1) : ~Names(k, q)'
  PROVE  LastIs(h, m)'
<1>1. PICK l \in Nat : l = Len(pipe)
  BY LineCount, Zenon
<1>2. LastIs(l + 1, m)
  BY <1>1, Zenon DEF Pairing
<1>3. l + 1 \in Nat /\ \A k \in 1..((l + 1) - 1) : k \in 1..l
  OBVIOUS
<1>4. LastIs(l + 1, m)'
  BY <1>1, <1>2, <1>3, LastKept, Zenon
<1>5. m.seq = q
  OBVIOUS
<1> QED BY <1>1, <1>3, <1>4, <1>5, LastLater, Zenon

\* To show Pairing after a step.
LEMMA PairingFrom ==
  ASSUME \A i \in DOMAIN pipe' : \A m :
           pipe'[i].kind = "ack" /\ pipe'[i].msg = m /\ m.sess \notin tainted' => LastIs(i, m)',
         NEW h, h = Len(pipe') + 1,
         sess' \notin tainted' => \A q \in 1..(passed' \div 2) : \A m :
           m = [sess |-> sess', seq |-> q] => LastIs(h, m)'
  PROVE  Pairing'
<1>1. ASSUME NEW i \in DOMAIN pipe', pipe'[i].kind = "ack", pipe'[i].msg.sess \notin tainted'
      PROVE  LastIs(i, pipe[i].msg)'
  <2>1. PICK m : m = pipe'[i].msg
    BY Zenon
  <2>2. LastIs(i, m)'
    BY <1>1, <2>1, Zenon
  <2> QED BY <2>1, <2>2, Zenon DEF LastIs, Names
<1>2. ASSUME sess' \notin tainted', NEW q \in 1..(passed' \div 2)
      PROVE  LastIs(Len(pipe) + 1, [sess |-> sess, seq |-> q])'
  <2>1. PICK m : m = [sess |-> sess', seq |-> q]
    BY Zenon
  <2>2. LastIs(h, m)'
    BY <1>2, <2>1, Zenon
  <2> QED BY <2>1, <2>2, Zenon DEF LastIs, Names
<1> QED BY <1>1, <1>2, Zenon DEF Pairing

\* A line behind line l + x.
LEMMA LineBehind ==
  ASSUME NEW l \in Nat, NEW n \in Nat, NEW x \in 1..n, NEW k \in (l + x + 1)..(l + n)
  PROVE  \E y \in 1..n : k = l + y /\ y > x
<1>1. k - l \in 1..n /\ k = l + (k - l) /\ k - l > x
  OBVIOUS
<1> QED BY <1>1, Zenon

\* Lines for orders.
LEMMA OrdersPair ==
  ASSUME Lines, Lines', Pairing, sess' = sess, tainted \subseteq tainted', pendingOrders' = pendingOrders,
         passed \in Nat, NEW a \in Nat, NEW c \in Nat, a = passed \div 2, c = passed' \div 2,
         NEW found, Len(found) \in Nat, NotSent(found) \/ Sent("order", found),
         sess \notin tainted' =>
           /\ Len(found) = c - a /\ a <= c
           /\ \A k \in 1..(c - a) : found[k] = [sess |-> sess, seq |-> a + k, part |-> 1]
  PROVE  Pairing'
<1>1. PICK l \in Nat, n \in Nat : l = Len(pipe) /\ n = Len(found) /\ DOMAIN pipe = 1..l
  BY LineCount, Zenon DEF Lines
<1>2. PICK z \in Nat : z = Len(pipe') /\ DOMAIN pipe' = 1..z
  <2>1. pipe' \in Seq(Line)
    BY Zenon DEF Lines
  <2> QED BY <2>1
<1>3. pipe \in Seq(Line)
  BY Zenon DEF Lines
<1>4. CASE NotSent(found)
  <2>1. pipe' = pipe /\ z = l /\ \A k \in 1..Len(pipe) : pipe'[k] = pipe[k]
    BY <1>1, <1>2, <1>4, Zenon DEF NotSent
  <2>2. ASSUME NEW i \in DOMAIN pipe', NEW m,
               pipe'[i].kind = "ack", pipe'[i].msg = m, m.sess \notin tainted'
        PROVE  LastIs(i, m)'
    BY <1>1, <1>3, <2>1, <2>2, OldAcks, Zenon
  <2>3. PICK h \in Nat : h = Len(pipe') + 1 /\ h = l + 1
    BY <1>2, <2>1
  <2>4. ASSUME sess' \notin tainted', NEW q \in 1..(passed' \div 2), NEW m, m = [sess |-> sess', seq |-> q]
        PROVE  LastIs(h, m)'
    <3>1. CASE pipe = <<>> /\ pendingOrders = <<>>
      <4>1. LastIs(1, m)'
        BY <2>1, <3>1, LastNone, Zenon
      <4>2. h = 1
        BY <1>1, <2>3, <3>1
      <4> QED BY <4>1, <4>2, Zenon
    <3>2. CASE found = <<>>
      <4>1. n = 0
        BY <1>1, <3>2
      <4>2. n = c - a
        BY <1>1, <2>4, Zenon
      <4>3. c = a
        BY <4>1, <4>2
      <4>4. q \in 1..(passed \div 2)
        BY <2>4, <4>3, Zenon
      <4>5. Len(pipe) + 1 <= h /\ \A k \in (Len(pipe) + 1)..(h - 1) : FALSE
        BY <1>1, <2>3
      <4>6. sess \notin tainted /\ m = [sess |-> sess, seq |-> q]
        BY <2>4, Zenon
      <4> QED BY <1>3, <2>1, <4>4, <4>5, <4>6, OldNumber, Zenon
    <3> QED BY <1>4, <3>1, <3>2, Zenon DEF NotSent
  <2> QED BY <2>2, <2>3, <2>4, PairingFrom, Zenon
<1>5. CASE Sent("order", found)
  <2>1. /\ Len(pipe') = Len(pipe) + Len(found) /\ \A k \in 1..Len(pipe) : pipe'[k] = pipe[k]
    BY <1>5, Zenon DEF Sent
  <2>7. ASSUME NEW i \in 1..n
        PROVE  /\ pipe'[l + i].kind = "order" /\ pipe'[l + i].msg.sess = found[i].sess
               /\ found[i].part = 1 => pipe'[l + i].msg.seq = found[i].seq
    <3>1. i \in 1..Len(found)
      BY <1>1, Zenon
    <3>2. /\ pipe'[Len(pipe) + i].kind = "order" /\ pipe'[Len(pipe) + i].msg.sess = found[i].sess
          /\ found[i].part = 1 => pipe'[Len(pipe) + i].msg.seq = found[i].seq
      BY <1>5, <3>1, Zenon DEF Sent
    <3> QED BY <1>1, <3>2, Zenon
  <2>2. z = l + n
    BY <1>1, <1>2, <2>1, Zenon
  <2>3. \A i \in 1..z : i \in 1..l \/ \E k \in 1..n : i = l + k
    <3> TAKE i \in 1..z
    <3>1. i \in 1..l \/ (i - l \in 1..n /\ i = l + (i - l))
      BY <2>2
    <3> QED BY <3>1, Zenon
  <2>4. ASSUME NEW i \in DOMAIN pipe', NEW m,
               pipe'[i].kind = "ack", pipe'[i].msg = m, m.sess \notin tainted'
        PROVE  LastIs(i, m)'
    <3>1. i \in 1..l
      <4>1. \A k \in 1..n : i # l + k
        <5> SUFFICES ASSUME NEW k \in 1..n, i = l + k PROVE FALSE
          BY Zenon
        <5>1. pipe'[l + k].kind = "order"
          BY <2>7, Zenon
        <5>2. pipe'[l + k].kind = "ack"
          BY <2>4, Zenon
        <5> QED BY <5>1, <5>2
      <4> QED BY <1>2, <2>3, <4>1, Zenon
    <3> QED BY <1>1, <1>3, <2>1, <2>4, <3>1, OldAcks, Zenon
  <2>5. PICK h \in Nat : h = Len(pipe') + 1 /\ h = l + n + 1
    BY <1>2, <2>2
  <2>h. h - 1 = l + n
    <3>1. (l + n + 1) - 1 = l + n
      OBVIOUS
    <3> QED BY <2>5, <3>1, Zenon
  <2>6. ASSUME sess' \notin tainted', NEW q \in 1..(passed' \div 2), NEW m, m = [sess |-> sess', seq |-> q]
        PROVE  LastIs(h, m)'
    <3>1. n = c - a /\ a <= c /\ sess \notin tainted /\ m = [sess |-> sess, seq |-> q] /\ q \in 1..c
      BY <1>1, <2>6, Zenon
    <3>2. ASSUME NEW k \in 1..n PROVE pipe'[l + k].msg.seq = a + k /\ pipe'[l + k].msg.sess = sess
      <4>1. found[k] = [sess |-> sess, seq |-> a + k, part |-> 1]
        BY <2>6, <3>1, Zenon
      <4>2. PICK x : x = found[k]
        BY Zenon
      <4>3. x.part = 1 /\ x.seq = a + k /\ x.sess = sess
        BY <4>1, <4>2
      <4>4. (x.part = 1 => pipe'[l + k].msg.seq = x.seq) /\ pipe'[l + k].msg.sess = x.sess
        BY <2>7, <4>2, Zenon
      <4> QED BY <4>3, <4>4, Zenon
    <3>3. m.seq = q /\ m.sess = sess
      BY <3>1
    <3>4. CASE q \in 1..a
      <4>1. Len(pipe) + 1 <= h
        BY <1>1, <2>5
      <4>2. ASSUME NEW k \in (Len(pipe) + 1)..(h - 1) PROVE ~Names(k, q)'
        <5>1. PICK x \in 1..n : k = l + x
          <6>1. k - l \in 1..n /\ k = l + (k - l)
            BY <1>1, <2>5
          <6> QED BY <6>1, Zenon
        <5>2. q # a + x
          BY <3>4
        <5> QED BY <3>2, <5>1, <5>2, Zenon DEF Names
      <4> QED BY <1>3, <2>1, <3>1, <3>4, <4>1, <4>2, OldNumber, Zenon
    <3>5. CASE q \notin 1..a
      <4>1. PICK x \in 1..n : q = a + x
        <5>1. q - a \in 1..n /\ q = a + (q - a)
          BY <3>1, <3>5
        <5> QED BY <5>1, Zenon
      <4>2. PICK j \in 1..(h - 1) : j = l + x
        <5>1. l + x \in 1..(h - 1)
          BY <2>5
        <5> QED BY <5>1, Zenon
      <4>3. pipe'[j].kind = "order" /\ pipe'[j].msg = m
        <5>1. PICK y : y = pipe'[j].msg
          BY Zenon
        <5>2. y.sess = sess /\ y.seq = q
          <6>1. pipe'[l + x].msg.sess = sess /\ pipe'[l + x].msg.seq = a + x
            BY <3>2, Zenon
          <6> QED BY <4>1, <4>2, <5>1, <6>1, Zenon
        <5>3. y \in Message
          <6>1. j \in 1..z /\ pipe' \in Seq(Line)
            <7>1. pipe' \in Seq(Line)
              BY Zenon DEF Lines
            <7> QED BY <2>2, <4>2, <7>1
          <6>2. PICK e \in Line : e = pipe'[j]
            BY <1>2, <6>1
          <6>3. e.msg \in Message
            BY DEF Line
          <6> QED BY <5>1, <6>2, <6>3, Zenon
        <5>4. y = m
          BY <3>1, <5>2, <5>3 DEF Message
        <5>5. pipe'[l + x].kind = "order"
          BY <2>7, Zenon
        <5> QED BY <4>2, <5>1, <5>4, <5>5, Zenon
      <4>4. ASSUME NEW k \in (j + 1)..(h - 1) PROVE ~Names(k, m.seq)'
        <5>1. PICK y \in 1..n : k = l + y /\ y > x
          <6>1. k \in (l + x + 1)..(l + n)
            BY <2>h, <4>2, Zenon
          <6> QED BY <6>1, LineBehind, Zenon
        <5>2. q # a + y
          BY <4>1, <5>1
        <5> QED BY <3>2, <3>3, <5>1, <5>2, Zenon DEF Names
      <4> QED BY <4>3, <4>4, Zenon DEF LastIs
    <3> QED BY <3>4, <3>5, Zenon
  <2> QED BY <2>4, <2>5, <2>6, PairingFrom, Zenon
<1> QED BY <1>4, <1>5, Zenon

\* Lines for ACKs.
LEMMA AcksPair ==
  ASSUME Lines, Lines', Pairing, sess' = sess, passed' = passed, tainted \subseteq tainted',
         pendingOrders' = pendingOrders,
         NEW found, Len(found) \in Nat, NotSent(found) \/ Sent("ack", found),
         \A k \in 1..Len(found) : found[k].sess \in {sess} \cup tainted',
         sess \notin tainted' =>
           \A k \in 1..Len(found) : found[k].part = 1 /\ found[k].seq \in 1..(passed \div 2)
  PROVE  Pairing'
<1>1. PICK l \in Nat, n \in Nat : l = Len(pipe) /\ n = Len(found) /\ DOMAIN pipe = 1..l
  BY LineCount, Zenon DEF Lines
<1>2. pipe \in Seq(Line) /\ pipe' \in Seq(Line)
  BY Zenon DEF Lines
<1>3. PICK z \in Nat : z = Len(pipe') /\ DOMAIN pipe' = 1..z
  BY <1>2
<1>4. \A k \in 1..Len(pipe) : pipe'[k] = pipe[k]
  BY Zenon DEF NotSent, Sent
<1>5. l <= z /\ \A i \in (l + 1)..z : Sent("ack", found) /\ \E k \in 1..n : i = l + k
  <2>1. CASE NotSent(found)
    <3>1. z = l
      BY <1>1, <1>3, <2>1, Zenon DEF NotSent
    <3> QED BY <3>1
  <2>2. CASE Sent("ack", found)
    <3>1. z = l + n
      BY <1>1, <1>3, <2>2, Zenon DEF Sent
    <3>2. ASSUME NEW i \in (l + 1)..z PROVE \E k \in 1..n : i = l + k
      <4>1. i - l \in 1..n /\ i = l + (i - l)
        BY <3>1
      <4> QED BY <4>1, Zenon
    <3>3. l <= z
      BY <3>1
    <3> QED BY <2>2, <3>2, <3>3, Zenon
  <2> QED BY <2>1, <2>2, Zenon
<1>6. ASSUME NEW k \in 1..n, Sent("ack", found)
      PROVE  /\ pipe'[l + k].kind = "ack" /\ pipe'[l + k].msg.sess = found[k].sess
             /\ found[k].part = 1 => pipe'[l + k].msg.seq = found[k].seq
  <2>1. k \in 1..Len(found)
    BY <1>1, Zenon
  <2>2. /\ pipe'[Len(pipe) + k].kind = "ack" /\ pipe'[Len(pipe) + k].msg.sess = found[k].sess
        /\ found[k].part = 1 => pipe'[Len(pipe) + k].msg.seq = found[k].seq
    BY <1>6, <2>1, Zenon DEF Sent
  <2> QED BY <1>1, <2>2, Zenon
<1>7. ASSUME NEW i \in (l + 1)..z, NEW q PROVE ~Names(i, q)'
  <2>1. PICK k \in 1..n : i = l + k /\ Sent("ack", found)
    BY <1>5, Zenon
  <2>2. pipe'[i].kind = "ack"
    BY <1>6, <2>1, Zenon
  <2> QED BY <2>2 DEF Names
<1>8. ASSUME sess \notin tainted', NEW q \in 1..(passed \div 2), NEW m, m = [sess |-> sess, seq |-> q],
             NEW h \in (l + 1)..(z + 1)
      PROVE  LastIs(h, m)'
  <2>1. h \in Nat /\ Len(pipe) + 1 <= h /\ \A k \in (Len(pipe) + 1)..(h - 1) : k \in (l + 1)..z
    BY <1>1
  <2>2. sess \notin tainted /\ \A k \in (Len(pipe) + 1)..(h - 1) : ~Names(k, q)'
    BY <1>7, <1>8, <2>1, Zenon
  <2> QED BY <1>2, <1>4, <1>8, <2>1, <2>2, OldNumber, Zenon
<1>9. ASSUME NEW i \in DOMAIN pipe', NEW m,
             pipe'[i].kind = "ack", pipe'[i].msg = m, m.sess \notin tainted'
      PROVE  LastIs(i, m)'
  <2>1. CASE i \in 1..l
    BY <1>1, <1>2, <1>4, <1>9, <2>1, OldAcks, Zenon
  <2>2. CASE i \notin 1..l
    <3>1. i \in (l + 1)..z /\ i \in (l + 1)..(z + 1)
      BY <1>3, <2>2
    <3>2. PICK k \in 1..n : i = l + k /\ Sent("ack", found)
      BY <1>5, <3>1, Zenon
    <3>3. m.sess = sess /\ (found[k].part = 1 => m.seq = found[k].seq)
      <4>1. m.sess = found[k].sess /\ (found[k].part = 1 => m.seq = found[k].seq)
        BY <1>6, <1>9, <3>2, Zenon
      <4>2. found[k].sess \in {sess} \cup tainted'
        BY <1>1, Zenon
      <4> QED BY <1>9, <4>1, <4>2, Zenon
    <3>4. sess \notin tainted' /\ k \in 1..Len(found)
      BY <1>1, <1>9, <3>3, Zenon
    <3>5. m.seq \in 1..(passed \div 2)
      BY <3>3, <3>4, Zenon
    <3>6. m = [sess |-> sess, seq |-> m.seq]
      <4>1. PICK e \in Line : e = pipe'[i]
        BY <1>2
      <4>2. e.msg \in Message
        BY DEF Line
      <4>3. m \in Message
        BY <1>9, <4>1, <4>2, Zenon
      <4> QED BY <3>3, <4>3 DEF Message
    <3> QED BY <1>8, <3>1, <3>4, <3>5, <3>6, Zenon
  <2> QED BY <2>1, <2>2, Zenon
<1>10. PICK h \in Nat : h = Len(pipe') + 1 /\ h \in (l + 1)..(z + 1)
  BY <1>3, <1>5
<1>11. ASSUME sess' \notin tainted', NEW q \in 1..(passed' \div 2), NEW m, m = [sess |-> sess', seq |-> q]
       PROVE  LastIs(h, m)'
  <2>1. sess \notin tainted' /\ q \in 1..(passed \div 2) /\ m = [sess |-> sess, seq |-> q]
    BY <1>11, Zenon
  <2> QED BY <1>8, <1>10, <2>1, Zenon
<1> QED BY <1>9, <1>10, <1>11, PairingFrom, Zenon

\* What the pending orders are when the first line was handled: the order of that
\* line replaces one with its number.
Noted ==
  \A k \in DOMAIN pendingOrders' :
    IF Names(1, pendingOrders'[k].seq) THEN pendingOrders'[k] = pipe[1].msg
    ELSE \E j \in DOMAIN pendingOrders : pendingOrders'[k] = pendingOrders[j]

\* The first line is handled.
LEMMA LastPopped ==
  ASSUME pipe \in Seq(Line), pipe # <<>>, pipe' = Tail(pipe), Noted,
         NEW i \in Nat, 1 <= i, i <= Len(pipe), NEW m, LastIs(i + 1, m)
  PROVE  LastIs(i, m)'
<1>1. PICK l \in Nat : l = Len(pipe)
  BY LineCount, Zenon
<1>2. \A k \in 1..(l - 1) : pipe'[k] = pipe[k + 1]
  BY <1>1
<1>3. ASSUME NEW k \in 1..(i - 1) PROVE pipe'[k] = pipe[k + 1] /\ k + 1 \in 1..((i + 1) - 1)
  <2>1. k \in 1..(l - 1) /\ k + 1 \in 1..((i + 1) - 1)
    BY <1>1
  <2> QED BY <1>2, <2>1, Zenon
<1>4. CASE \E j \in 1..((i + 1) - 1) : /\ pipe[j].kind = "order" /\ pipe[j].msg = m
                                     /\ \A k \in (j + 1)..((i + 1) - 1) : ~Names(k, m.seq)
  <2>1. PICK j \in 1..((i + 1) - 1) : /\ pipe[j].kind = "order" /\ pipe[j].msg = m
                                    /\ \A k \in (j + 1)..((i + 1) - 1) : ~Names(k, m.seq)
    BY <1>4, Zenon
  <2>2. CASE j = 1
    <3>1. ASSUME NEW k \in 1..(i - 1) PROVE ~Names(k, m.seq)'
      <4>1. k + 1 \in (j + 1)..((i + 1) - 1)
        BY <2>2
      <4> QED BY <1>3, <2>1, <4>1, Zenon DEF Names
    <3>2. Names(1, m.seq) /\ pipe[1].msg = m
      BY <2>1, <2>2, Zenon DEF Names
    <3>3. \A k \in DOMAIN pendingOrders' : pendingOrders'[k].seq = m.seq => pendingOrders'[k] = m
      BY <3>2, Zenon DEF Noted
    <3> QED BY <3>1, <3>3, Zenon DEF LastIs
  <2>3. CASE j # 1
    <3>1. PICK x \in 1..(i - 1) : j = x + 1
      <4>1. j - 1 \in 1..(i - 1) /\ j = (j - 1) + 1
        BY <2>3
      <4> QED BY <4>1, Zenon
    <3>2. pipe'[x].kind = "order" /\ pipe'[x].msg = m
      BY <1>3, <2>1, <3>1, Zenon
    <3>3. ASSUME NEW k \in (x + 1)..(i - 1) PROVE ~Names(k, m.seq)'
      <4>1. k \in 1..(i - 1) /\ k + 1 \in (j + 1)..((i + 1) - 1)
        BY <3>1
      <4> QED BY <1>3, <2>1, <4>1, Zenon DEF Names
    <3> QED BY <3>2, <3>3, Zenon DEF LastIs
  <2> QED BY <2>2, <2>3, Zenon
<1>5. CASE /\ \A k \in 1..((i + 1) - 1) : ~Names(k, m.seq)
           /\ \A k \in DOMAIN pendingOrders : pendingOrders[k].seq = m.seq => pendingOrders[k] = m
  <2>1. ASSUME NEW k \in 1..(i - 1) PROVE ~Names(k, m.seq)'
    BY <1>3, <1>5, Zenon DEF Names
  <2>2. 1 \in 1..((i + 1) - 1)
    OBVIOUS
  <2>3. ~Names(1, m.seq)
    BY <1>5, <2>2, Zenon
  <2>4. \A k \in DOMAIN pendingOrders' : pendingOrders'[k].seq = m.seq => pendingOrders'[k] = m
    BY <1>5, <2>3, Zenon DEF Noted
  <2> QED BY <2>1, <2>4, Zenon DEF LastIs
<1> QED BY <1>4, <1>5, Zenon DEF LastIs

LEMMA PopPair ==
  ASSUME pipe \in Seq(Line), pipe # <<>>, pipe' = Tail(pipe), Noted, Pairing,
         sess' = sess, passed' = passed, tainted' = tainted
  PROVE  Pairing'
<1>1. PICK l \in Nat : l = Len(pipe) /\ DOMAIN pipe = 1..l /\ l # 0
  OBVIOUS
<1>2. DOMAIN pipe' = 1..(l - 1) /\ Len(pipe') = l - 1 /\ \A k \in 1..(l - 1) : pipe'[k] = pipe[k + 1]
  BY <1>1
<1>3. ASSUME NEW i \in DOMAIN pipe', NEW m,
             pipe'[i].kind = "ack", pipe'[i].msg = m, m.sess \notin tainted'
      PROVE  LastIs(i, m)'
  <2>1. i \in Nat /\ 1 <= i /\ i <= Len(pipe) /\ i + 1 \in DOMAIN pipe /\ i \in 1..(l - 1)
    BY <1>1, <1>2
  <2>2. pipe[i + 1].kind = "ack" /\ pipe[i + 1].msg = m /\ m.sess \notin tainted
    BY <1>2, <1>3, <2>1, Zenon
  <2>3. LastIs(i + 1, m)
    BY <2>1, <2>2, Zenon DEF Pairing
  <2> QED BY <2>1, <2>3, LastPopped, Zenon
<1>4. l = Len(pipe') + 1
  BY <1>1, <1>2
<1>5. ASSUME sess' \notin tainted', NEW q \in 1..(passed' \div 2), NEW m, m = [sess |-> sess', seq |-> q]
      PROVE  LastIs(l, m)'
  <2>1. LastIs(l + 1, m)
    BY <1>1, <1>5, Zenon DEF Pairing
  <2>2. 1 <= l /\ l <= Len(pipe)
    BY <1>1
  <2> QED BY <2>1, <2>2, LastPopped, Zenon
<1> QED BY <1>3, <1>4, <1>5, PairingFrom, Zenon

-----------------------------------------------------------------------------
(* The steps of the observer. *)

\* What the invariant says of the wire and the lines.
LEMMA WInvParts ==
  ASSUME WInv
  PROVE  /\ Lines /\ sess \in Sessions /\ passed \in Nat /\ returned \in Nat
         /\ passed <= 2 * NumOrders /\ returned <= passed
<1>1. Lines
  BY Zenon DEF WInv, TypeOK, Lines, Line, Ends
<1>2. sess \in Sessions /\ passed \in 0..(2 * NumOrders) /\ returned \in 0..passed
  BY Zenon DEF WInv, TypeOK
<1>3. passed \in Nat /\ returned \in Nat /\ passed <= 2 * NumOrders /\ returned <= passed
  BY <1>2, Bounds
<1> QED BY <1>1, <1>2, <1>3, Zenon

\* What the invariant says of the streams.
LEMMA StreamsMine ==
  ASSUME WInv, NEW S, sess \in S, tainted \subseteq S
  PROVE  Mine(S, order_stream) /\ Mine(S, ack_stream)
BY Zenon DEF WInv, TypeOK, Own, Mine

\* Connection c, one of S, has the pieces i+1 .. i+n.
Holds(S, c, i, n) ==
  c \in Sessions /\ c \in S /\ i \in Nat /\ n \in Nat /\ i + n <= 2 * NumOrders

\* The pieces of a segment belong to its connection.
LEMMA SegmentMine ==
  ASSUME NEW S, NEW c, NEW i, NEW n, Holds(S, c, i, n)
  PROVE  Mine(S, Segment(c, i, n)) /\ Len(Segment(c, i, n)) = n
<1> USE DEF Holds
<1>1. ASSUME NEW k \in 1..n
      PROVE  \E e \in Piece : /\ e.sess = c
                              /\ e = [sess |-> c, seq |-> (i + k + 1) \div 2,
                                      part |-> IF (i + k) % 2 = 1 THEN 1 ELSE 2]
  <2>1. PICK y \in Int : y = (i + k + 1) \div 2
    OBVIOUS
  <2>2. y \in Numbers
    BY <2>1, Bounds DEF Numbers
  <2>3. PICK e : e = [sess |-> c, seq |-> y, part |-> IF (i + k) % 2 = 1 THEN 1 ELSE 2]
    BY Zenon
  <2>4. e \in Piece /\ e.sess = c
    BY <2>2, <2>3 DEF Piece
  <2> QED BY <2>1, <2>3, <2>4, Zenon
<1>2. PICK q : q = Segment(c, i, n)
  BY Zenon
<1>3. \A k \in 1..n : q[k] \in Piece /\ q[k].sess = c
  BY <1>1, <1>2, Zenon DEF Segment
<1>4. q = [k \in 1..n |-> q[k]]
  BY <1>2, Zenon DEF Segment
<1>5. q \in Seq(Piece) /\ Len(q) = n /\ DOMAIN q = 1..n
  BY <1>3, <1>4
<1> QED BY <1>2, <1>3, <1>5, Zenon DEF Mine

\* The stream takes the data, after a clearing if the flag is set.
Takes(S, flag, stream, data, buf) ==
  Mine(S, stream) /\ Mine(S, data) /\ buf = append_bytes(Kept(flag, stream), data)

\* Kept and append_bytes together: pieces of both, and all of them unless the
\* stream got shorter than it should be.
LEMMA KeptBuffer ==
  ASSUME NEW S, NEW flag, NEW stream, NEW data, NEW buf, Takes(S, flag, stream, data, buf)
  PROVE  /\ Mine(S, buf)
         /\ ~(Len(buf) < Len(stream) + Len(data)) => buf = stream \o data
<1>0. Mine(S, stream) /\ Mine(S, data) /\ buf = append_bytes(Kept(flag, stream), data)
  BY Zenon DEF Takes
<1>1. Kept(flag, stream) = stream \/ Kept(flag, stream) = <<>>
  BY Zenon DEF Kept, clear_stream
<1>2. CASE Kept(flag, stream) = stream
  BY <1>0, <1>2, BufferMine, Zenon
<1>3. CASE Kept(flag, stream) = <<>>
  <2>1. Mine(S, <<>>)
    <3>1. <<>> \in Seq(Piece) /\ DOMAIN <<>> = {}
      OBVIOUS
    <3> QED BY <3>1, Zenon DEF Mine
  <2>2. /\ Mine(S, buf) /\ Len(buf) <= Len(<<>>) + Len(data)
        /\ ~(Len(buf) < Len(<<>>) + Len(data)) => buf = <<>> \o data
    BY <1>0, <1>3, <2>1, BufferMine, Zenon
  <2>3. PICK s \in Nat, n \in Nat, l \in Nat : s = Len(stream) /\ n = Len(data) /\ l = Len(buf)
    <3>1. stream \in Seq(Piece) /\ data \in Seq(Piece) /\ buf \in Seq(Piece)
      BY <1>0, <2>2, Zenon DEF Mine
    <3>2. Len(stream) \in Nat /\ Len(data) \in Nat /\ Len(buf) \in Nat
      BY <3>1
    <3> QED BY <3>2, Zenon
  <2>4. Len(<<>>) = 0 /\ (s = 0 => stream = <<>>)
    <3>1. stream \in Seq(Piece)
      BY <1>0, Zenon DEF Mine
    <3> QED BY <2>3, <3>1
  <2>5. l <= 0 + n
    BY <2>2, <2>3, <2>4, Zenon
  <2>6. ~(l < s + n) => s = 0 /\ ~(l < 0 + n)
    BY <2>5
  <2> QED BY <2>2, <2>3, <2>4, <2>6, Zenon
<1> QED BY <1>1, <1>2, <1>3, Zenon

\* What is kept of half a message.
LEMMA KeptMine ==
  ASSUME NEW S, NEW flag, NEW stream, Mine(S, stream), Len(stream) <= 1
  PROVE  Mine(S, Kept(flag, stream)) /\ Len(Kept(flag, stream)) <= 1
<1>1. <<>> \in Seq(Piece) /\ DOMAIN <<>> = {} /\ Len(<<>>) <= 1
  OBVIOUS
<1> QED BY <1>1, Zenon DEF Mine, Kept, clear_stream

\* What the invariant says of the mishaps.
Counted == /\ mishaps \in 0..MaxMishaps /\ losses \in 0..mishaps
           /\ tainted \subseteq Sessions

\* Nothing is lost without a mishap.
LEMMA MishapFacts ==
  ASSUME Counted, NEW happens, NEW hurt, hurt => happens, NEW cs \in SUBSET Sessions,
         Mishap(happens, cs), losses' = IF hurt THEN losses + 1 ELSE losses
  PROVE  /\ Counted' /\ tainted \subseteq tainted' /\ (happens => cs \subseteq tainted')
         /\ ~happens => tainted' = tainted
         /\ losses' = 0 => ~hurt /\ losses = 0
<1>1. MaxMishaps \in Nat
  BY ObserverAssumption
<1>2. mishaps \in 0..MaxMishaps /\ losses \in 0..mishaps /\ tainted \subseteq Sessions
  BY Zenon DEF Counted
<1>3. tainted' = IF happens THEN tainted \cup cs ELSE tainted
  BY Zenon DEF Mishap
<1>4. CASE happens
  <2>1. mishaps < MaxMishaps /\ mishaps' = mishaps + 1
    BY <1>4, Zenon DEF Mishap
  <2>2. losses' = losses \/ losses' = losses + 1
    BY Zenon
  <2>3. mishaps' \in 0..MaxMishaps /\ losses' \in 0..mishaps'
    BY <1>1, <1>2, <2>1, <2>2
  <2>4. losses + 1 # 0
    BY <1>2
  <2> QED BY <1>2, <1>3, <1>4, <2>3, <2>4, Zenon DEF Counted
<1>5. CASE ~happens
  <2>1. mishaps' = mishaps /\ losses' = losses
    BY <1>5, Zenon DEF Mishap
  <2> QED BY <1>2, <1>3, <1>5, <2>1, Zenon DEF Counted
<1> QED BY <1>4, <1>5, Zenon

\* Connection c sends pieces of its own.
Sends(dir, c, i, n, sent, end) ==
  /\ i \in Nat /\ n \in Nat /\ n # 0 /\ sent \in Nat /\ end \in Nat
  /\ sent <= 2 * NumOrders /\ end <= 2 * NumOrders /\ MaySend(dir, c, i, n, sent, end)

\* It has them, in turn or not.
LEMMA SendFacts ==
  ASSUME NEW dir, NEW c, NEW i, NEW n, NEW sent, NEW end, Sends(dir, c, i, n, sent, end)
  PROVE  /\ i + n <= 2 * NumOrders
         /\ InTurn(c, i, sent) => c = sess /\ i = sent /\ sent + n <= end
<1>0. /\ i \in Nat /\ n \in Nat /\ n # 0 /\ sent \in Nat /\ end \in Nat
      /\ sent <= 2 * NumOrders /\ end <= 2 * NumOrders /\ MaySend(dir, c, i, n, sent, end)
  BY Zenon DEF Sends
<1>1. CASE InTurn(c, i, sent) /\ i + n <= end
  <2>1. i + n <= 2 * NumOrders
    BY <1>0, <1>1, Bounds
  <2> QED BY <1>1, <2>1, Zenon DEF InTurn
<1>2. CASE i + n <= IF c = sess THEN sent ELSE 2 * NumOrders
  <2>1. i + n <= 2 * NumOrders /\ (c = sess => i + n <= sent)
    BY <1>0, <1>2, Bounds
  <2>2. i = sent => ~(i + n <= sent)
    BY <1>0
  <2> QED BY <2>1, <2>2, Zenon DEF InTurn
<1> QED BY <1>0, <1>1, <1>2, Zenon DEF MaySend

\* The members of a sequence of pieces.
LEMMA RangePieces ==
  ASSUME NEW q \in Seq(Piece)
  PROVE  Range(q) \subseteq Piece /\ \A x : x \in Range(q) <=> \E k \in 1..Len(q) : q[k] = x
<1>1. DOMAIN q = 1..Len(q) /\ \A k \in 1..Len(q) : q[k] \in Piece
  OBVIOUS
<1> QED BY <1>1, Zenon DEF Range

\* The numbers of the orders found by one drain that met no loss.
LEMMA SeenGrows ==
  ASSUME NEW a \in Nat, NEW c \in Nat, a <= c, NEW f \in Seq(Piece), Len(f) = c - a,
         \A k \in 1..(c - a) : f[k] = [sess |-> sess, seq |-> a + k, part |-> 1]
  PROVE  1..a \cup {e.seq : e \in {x \in Range(f) : x.part = 1 /\ x.sess = sess}} = 1..c
<1> DEFINE E == {x \in Range(f) : x.part = 1 /\ x.sess = sess}
<1> DEFINE N == {e.seq : e \in E}
<1>1. \A x : x \in Range(f) <=> \E k \in 1..(c - a) : f[k] = x
  BY RangePieces, Zenon
<1>2. ASSUME NEW y \in N PROVE y \in 1..c
  <2>0. PICK x \in E : y = x.seq
    BY Zenon
  <2>1. PICK k \in 1..(c - a) : y = f[k].seq
    BY <1>1, <2>0, Zenon
  <2>2. PICK e : e = f[k] /\ e = [sess |-> sess, seq |-> a + k, part |-> 1]
    BY Zenon
  <2>3. e.seq = a + k
    BY <2>2
  <2>4. y = a + k
    BY <2>1, <2>2, <2>3, Zenon
  <2> QED BY <2>4
<1>3. ASSUME NEW y \in 1..c, y \notin 1..a PROVE y \in N
  <2>1. PICK k \in 1..(c - a) : y = a + k
    <3>1. y - a \in 1..(c - a) /\ y = a + (y - a)
      BY <1>3
    <3> QED BY <3>1, Zenon
  <2>2. PICK e : e = f[k] /\ e = [sess |-> sess, seq |-> a + k, part |-> 1]
    BY Zenon
  <2>3. e.seq = a + k /\ e.part = 1 /\ e.sess = sess
    BY <2>2
  <2>4. e \in E
    BY <1>1, <2>2, <2>3, Zenon
  <2> QED BY <2>1, <2>3, <2>4, Zenon
<1>4. \A y \in 1..a : y \in 1..c
  OBVIOUS
<1> HIDE DEF N
<1>5. 1..a \cup N = 1..c
  BY <1>2, <1>3, <1>4, Zenon
<1> QED BY <1>5, Zenon DEF N

LEMMA OrderSegmentKeeps ==
  ASSUME WInv, OrderSegment
  PROVE  WInv'
<1> DEFINE Took(c, i, n, fin, buf, d) ==
      /\ MaySend("orders", c, i, n, passed, 2 * NumOrders)
      /\ passed' = IF InTurn(c, i, passed) THEN passed + n ELSE passed
      /\ over' = IF fin /\ c = sess THEN over \cup {"orders"} ELSE over
      /\ ack_stream' = Kept(fin, ack_stream)
      /\ LET hurt == ~InTurn(c, i, passed) \/ Len(buf) < Len(order_stream) + n
         IN  /\ order_stream' = d.rest
             /\ Emit("order", d.found)
             /\ seen' = seen \cup {x.seq : x \in {y \in Range(d.found) :
                                                   y.part = 1 /\ y.sess = sess}}
             /\ got' = got \cup Range(buf)
             /\ losses' = IF hurt THEN losses + 1 ELSE losses
             /\ Mishap(hurt \/ ack_stream' # ack_stream, {c, sess})
      /\ audit' = NoRecord
      /\ UNCHANGED <<sess, returned, running, crashes, pendingOrders, odd>>
<1>0. PICK e \in 1..sess, i \in 0..(2 * NumOrders), n \in 1..MaxSegment, fin \in BOOLEAN :
        Took(e, i, n, fin, append_bytes(Kept(fin, order_stream), Segment(e, i, n)),
             drain_orders(append_bytes(Kept(fin, order_stream), Segment(e, i, n))))
  BY Zenon DEF OrderSegment
<1> HIDE DEF Took
<1>00. PICK data, buf, d : /\ data = Segment(e, i, n)
                         /\ buf = append_bytes(Kept(fin, order_stream), data)
                         /\ d = drain_orders(buf) /\ Took(e, i, n, fin, buf, d)
  BY <1>0, Zenon
<1> DEFINE hurt == ~InTurn(e, i, passed) \/ Len(buf) < Len(order_stream) + n
<1> DEFINE happens == hurt \/ ack_stream' # ack_stream
<1>1. /\ MaySend("orders", e, i, n, passed, 2 * NumOrders)
      /\ passed' = IF InTurn(e, i, passed) THEN passed + n ELSE passed
      /\ over' = IF fin /\ e = sess THEN over \cup {"orders"} ELSE over
      /\ ack_stream' = Kept(fin, ack_stream)
      /\ order_stream' = d.rest /\ Emit("order", d.found)
      /\ seen' = seen \cup {x.seq : x \in {y \in Range(d.found) : y.part = 1 /\ y.sess = sess}}
      /\ got' = got \cup Range(buf)
      /\ losses' = IF hurt THEN losses + 1 ELSE losses
      /\ Mishap(happens, {e, sess}) /\ audit' = NoRecord
      /\ UNCHANGED <<sess, returned, running, crashes, pendingOrders, odd>>
  BY <1>00, Zenon DEF Took
<1>2. /\ Lines /\ sess \in Sessions /\ passed \in Nat /\ returned \in Nat
      /\ passed <= 2 * NumOrders /\ returned <= passed
  BY WInvParts, Zenon
<1>3. n \in Nat /\ n # 0 /\ i \in Nat /\ e \in Sessions
  BY <1>2, Bounds DEF Sessions
<1>4. /\ running' = running /\ crashes' = crashes /\ pendingOrders' = pendingOrders
      /\ sess' = sess /\ returned' = returned /\ odd' = odd
  BY <1>1, Zenon
<1>5. /\ i + n <= 2 * NumOrders
      /\ InTurn(e, i, passed) => e = sess /\ i = passed /\ passed + n <= 2 * NumOrders
  <2>1. 2 * NumOrders \in Nat /\ 2 * NumOrders <= 2 * NumOrders
    BY Bounds
  <2>2. Sends("orders", e, i, n, passed, 2 * NumOrders)
    BY <1>1, <1>2, <1>3, <2>1, Zenon DEF Sends
  <2> QED BY <2>2, SendFacts
<1>6. /\ Counted' /\ tainted \subseteq tainted' /\ (happens => {e, sess} \subseteq tainted')
      /\ losses' = 0 => ~hurt /\ losses = 0
  <2>1. Counted /\ {e, sess} \in SUBSET Sessions
    BY <1>2, <1>3, Zenon DEF WInv, TypeOK, Counted
  <2>2. hurt => happens
    BY Zenon
  <2> HIDE DEF hurt, happens
  <2> QED BY <1>1, <2>1, <2>2, MishapFacts, Zenon
<1>7. PICK S : S = {sess} \cup tainted' /\ sess \in S /\ tainted \subseteq S /\ e \in S
  <2>1. e \in {sess} \cup tainted'
    BY <1>5, <1>6, Zenon
  <2>2. sess \in {sess} \cup tainted' /\ tainted \subseteq {sess} \cup tainted'
    BY <1>6, Zenon
  <2> QED BY <2>1, <2>2, Zenon
<1>8. Mine(S, order_stream) /\ Mine(S, ack_stream) /\ Mine(S, data) /\ Len(data) = n
  <2>1. Mine(S, order_stream) /\ Mine(S, ack_stream)
    BY <1>7, StreamsMine, Zenon
  <2>2. Mine(S, Segment(e, i, n)) /\ Len(Segment(e, i, n)) = n
    <3>1. Holds(S, e, i, n)
      BY <1>3, <1>5, <1>7, Zenon DEF Holds
    <3> QED BY <3>1, SegmentMine
  <2> QED BY <1>00, <2>1, <2>2, Zenon
<1>9. Mine(S, buf) /\ (~hurt => buf = order_stream \o data)
  <2>1. Takes(S, fin, order_stream, data, buf)
    BY <1>00, <1>8, Zenon DEF Takes
  <2>2. /\ Mine(S, buf)
        /\ ~(Len(buf) < Len(order_stream) + Len(data)) => buf = order_stream \o data
    BY <2>1, KeptBuffer, Zenon
  <2> QED BY <1>8, <2>2, Zenon
<1>10. Mine(S, d.found) /\ Mine(S, d.rest) /\ Len(d.rest) <= 1
  BY <1>00, <1>9, DrainMine, Zenon
<1>11. Lines' /\ (NotSent(d.found) \/ Sent("order", d.found))
  BY <1>1, <1>2, <1>4, <1>10, EmitFacts, Zenon
<1>12. passed' \in Nat /\ passed' <= 2 * NumOrders /\ passed <= passed'
       /\ (~hurt => passed' = passed + n)
  <2>1. CASE InTurn(e, i, passed)
    <3>1. passed' = passed + n /\ passed + n <= 2 * NumOrders
      BY <1>1, <1>5, <2>1, Zenon
    <3>2. passed' \in Nat /\ passed' <= 2 * NumOrders /\ passed <= passed'
      BY <1>2, <1>3, <3>1
    <3> QED BY <3>1, <3>2, Zenon
  <2>2. CASE ~InTurn(e, i, passed)
    <3>1. passed' = passed /\ hurt
      BY <1>1, <2>2, Zenon
    <3>2. passed <= passed
      BY <1>2
    <3> QED BY <1>2, <3>1, <3>2, Zenon
  <2> QED BY <2>1, <2>2, Zenon
<1>13. PICK a \in Nat, c \in Nat, p \in Nat : a = passed \div 2 /\ c = p \div 2 /\ p = passed'
  BY <1>2, <1>12, Halved, Zenon
<1>14. ASSUME losses' = 0
       PROVE  /\ d.rest = Half(p) /\ a <= c /\ Len(d.found) = c - a
              /\ \A k \in 1..(c - a) : d.found[k] = [sess |-> sess, seq |-> a + k, part |-> 1]
  <2>0. ~hurt /\ losses = 0
    BY <1>6, <1>14, Zenon
  <2>1. d = drain_orders(Half(passed) \o Segment(sess, passed, n))
    <3>1. e = sess /\ i = passed
      BY <1>5, <2>0, Zenon
    <3>2. order_stream = Half(passed)
      BY <2>0, Zenon DEF WInv, Aligned
    <3> QED BY <1>00, <1>9, <2>0, <3>1, <3>2, Zenon
  <2>2. p = passed + n /\ c = (passed + n) \div 2 /\ passed + n <= 2 * NumOrders
    BY <1>5, <1>12, <1>13, <2>0, Zenon
  <2>3. Follows(passed, n, a)
    BY <1>2, <1>3, <1>13, <2>2, Zenon DEF Follows
  <2>4. FoundAll(d, passed, n, a, c)
    BY <2>1, <2>2, <2>3, DrainHalf, Zenon
  <2> QED BY <2>2, <2>4, Zenon DEF FoundAll
<1>15. d.found \in Seq(Piece) /\ Len(d.found) \in Nat
  BY <1>10 DEF Mine
<1>16. ASSUME sess \notin tainted'
       PROVE  sess \notin tainted /\ losses' = 0 /\ ack_stream' = ack_stream
  <2>1. ~hurt /\ ack_stream' = ack_stream /\ sess \notin tainted
    BY <1>6, <1>16, Zenon
  <2>2. losses = 0
    BY <2>1, Zenon DEF WInv, Aligned
  <2> QED BY <1>1, <2>1, <2>2, Zenon
<1>17. Aligned'
  <2>1. ASSUME losses' = 0 PROVE order_stream' = Half(passed)' /\ seen' = 1..(passed' \div 2)
    <3>1. seen = 1..a
      BY <1>6, <1>13, <2>1, Zenon DEF WInv, Aligned
    <3>2. 1..a \cup {x.seq : x \in {y \in Range(d.found) : y.part = 1 /\ y.sess = sess}} = 1..c
      BY <1>14, <1>15, <2>1, SeenGrows, Zenon
    <3>3. Half(passed)' = Half(p)
      BY <1>4, <1>13, Zenon DEF Half, At
    <3> QED BY <1>1, <1>13, <1>14, <2>1, <3>1, <3>2, <3>3, Zenon
  <2>2. ASSUME sess' \notin tainted' PROVE losses' = 0 /\ ack_stream' = Half(returned)'
    <3>1. sess \notin tainted /\ losses' = 0 /\ ack_stream' = ack_stream
      BY <1>4, <1>16, <2>2, Zenon
    <3>2. ack_stream = Half(returned)
      BY <3>1, Zenon DEF WInv, Aligned
    <3>3. Half(returned)' = Half(returned)
      BY <1>4, Zenon DEF Half, At
    <3> QED BY <3>1, <3>2, <3>3, Zenon
  <2> QED BY <2>1, <2>2, Zenon DEF Aligned
<1>18. Mine(S, ack_stream') /\ Len(ack_stream') <= 1
  <2>1. Len(ack_stream) <= 1
    BY Zenon DEF WInv, TypeOK
  <2> QED BY <1>1, <1>8, <2>1, KeptMine, Zenon
<1>19. Own'
  BY <1>1, <1>4, <1>7, <1>10, <1>18, Zenon DEF Own, Mine
<1>20. Pairing'
  <2>1. sess \notin tainted' =>
          /\ Len(d.found) = c - a /\ a <= c
          /\ \A k \in 1..(c - a) : d.found[k] = [sess |-> sess, seq |-> a + k, part |-> 1]
    BY <1>14, <1>16, Zenon
  <2>2. c = passed' \div 2 /\ Pairing
    BY <1>13, Zenon DEF WInv
  <2> QED BY <1>2, <1>4, <1>6, <1>11, <1>13, <1>15, <2>1, <2>2, OrdersPair, Zenon
<1>21. AuditPairs'
  BY <1>1, Zenon DEF AuditPairs
<1>22. TypeOK'
  <2>1. passed' \in 0..(2 * NumOrders) /\ returned' \in 0..passed'
    BY <1>2, <1>4, <1>12, Bounds
  <2>2. \A q \in {order_stream', ack_stream'} : q \in Seq(Piece) /\ Len(q) <= 1
    BY <1>1, <1>10, <1>18, Zenon DEF Mine
  <2>3. got' \subseteq Piece
    <3>1. Range(buf) \subseteq Piece
      BY <1>9, RangePieces, Zenon DEF Mine
    <3>2. got \subseteq Piece
      BY Zenon DEF WInv, TypeOK
    <3> QED BY <1>1, <3>1, <3>2, Zenon
  <2>4. seen' \subseteq Numbers
    <3>1. \A x \in Piece : x.seq \in Numbers
      BY DEF Piece
    <3>2. Range(d.found) \subseteq Piece
      BY <1>15, RangePieces, Zenon
    <3>3. seen \subseteq Numbers
      BY Zenon DEF WInv, TypeOK
    <3>4. ASSUME NEW z \in {x.seq : x \in {y \in Range(d.found) : y.part = 1 /\ y.sess = sess}}
          PROVE  z \in Numbers
      <4>1. PICK x \in Range(d.found) : z = x.seq
        BY Zenon
      <4> QED BY <3>1, <3>2, <4>1, Zenon
    <3> QED BY <1>1, <3>3, <3>4, Zenon
  <2>5. over' \subseteq {"orders", "acks"}
    <3>1. over \subseteq {"orders", "acks"}
      BY Zenon DEF WInv, TypeOK
    <3> QED BY <1>1, <3>1, Zenon
  <2>6. telemetry_fd' \in {"due", "closed", "open", "broken"} /\ pipe' \in Seq([kind : {"order", "ack"}, msg : Message])
    BY <1>11, Zenon DEF Lines, Line, Ends
  <2>7. audit' \in [order : Message, ack : Message] \cup {NoRecord}
    BY <1>1, Zenon
  <2> QED BY <1>4, <1>6, <2>1, <2>2, <2>3, <2>4, <2>5, <2>6, <2>7, ZenonT(30) DEF WInv, TypeOK, Counted
<1> QED BY <1>11, <1>17, <1>19, <1>20, <1>21, <1>22, Zenon DEF WInv, Lines

\* Half of what half holds.
LEMMA HalfLess ==
  ASSUME NEW x \in Nat, NEW y \in Nat, NEW a \in Nat, a = y \div 2, x <= 2 * a
  PROVE  x <= y /\ x \div 2 <= a /\ x \div 2 \in Nat
OBVIOUS

\* What is cut of half an order counts as a loss.
LEMMA CutFacts ==
  ASSUME WInv, NEW happens, order_stream' # order_stream => happens,
         NEW cs \in SUBSET Sessions, sess \in cs, Mishap(happens, cs), OrdersCut,
         UNCHANGED <<sess, passed, seen>>
  PROVE  /\ Counted' /\ tainted \subseteq tainted' /\ (happens => cs \subseteq tainted')
         /\ losses' = 0 => order_stream' = Half(passed)' /\ seen' = 1..(passed' \div 2)
         /\ sess \notin tainted' =>
              ~happens /\ sess \notin tainted /\ losses' = 0 /\ ack_stream = Half(returned)
<1> DEFINE hurt == order_stream' # order_stream
<1>1. hurt => happens
  BY Zenon
<1>2. losses' = IF hurt THEN losses + 1 ELSE losses
  BY Zenon DEF OrdersCut
<1>3. Counted
  BY Zenon DEF WInv, TypeOK, Counted
<1>4. /\ Counted' /\ tainted \subseteq tainted' /\ (happens => cs \subseteq tainted')
      /\ losses' = 0 => ~hurt /\ losses = 0
  <2> HIDE DEF hurt
  <2> QED BY <1>1, <1>2, <1>3, MishapFacts, Zenon
<1>5. Half(passed)' = Half(passed)
  BY Zenon DEF Half, At
<1>6. ASSUME losses' = 0 PROVE order_stream' = Half(passed)' /\ seen' = 1..(passed' \div 2)
  BY <1>4, <1>5, <1>6, Zenon DEF WInv, Aligned
<1>7. ASSUME sess \notin tainted'
      PROVE  ~happens /\ sess \notin tainted /\ losses' = 0 /\ ack_stream = Half(returned)
  <2>1. ~happens /\ ~hurt /\ sess \notin tainted
    BY <1>1, <1>3, <1>4, <1>7, Zenon
  <2>2. losses = 0 /\ ack_stream = Half(returned)
    BY <2>1, Zenon DEF WInv, Aligned
  <2> QED BY <1>2, <2>1, <2>2, Zenon
<1> QED BY <1>4, <1>6, <1>7, Zenon

LEMMA AckSegmentKeeps ==
  ASSUME WInv, AckSegment
  PROVE  WInv'
<1> DEFINE Took(c, i, n, fin, buf, d) ==
      /\ MaySend("acks", c, i, n, returned, 2 * (passed \div 2))
      /\ returned' = IF InTurn(c, i, returned) THEN returned + n ELSE returned
      /\ over' = IF fin /\ c = sess THEN over \cup {"acks"} ELSE over
      /\ order_stream' = Kept(fin, order_stream)
      /\ OrdersCut
      /\ LET hurt == ~InTurn(c, i, returned) \/ Len(buf) < Len(ack_stream) + n
         IN  /\ ack_stream' = d.rest
             /\ Emit("ack", d.found)
             /\ Mishap(hurt \/ order_stream' # order_stream, {c, sess})
      /\ audit' = NoRecord
      /\ UNCHANGED <<sess, passed, running, crashes, pendingOrders, odd, got, seen>>
<1>0. PICK e \in 1..sess, i \in 0..(2 * NumOrders), n \in 1..MaxSegment, fin \in BOOLEAN :
        Took(e, i, n, fin, append_bytes(Kept(fin, ack_stream), Segment(e, i, n)),
             drain_orders(append_bytes(Kept(fin, ack_stream), Segment(e, i, n))))
  BY Zenon DEF AckSegment, drain_acks
<1> HIDE DEF Took
<1>00. PICK data, buf, d : /\ data = Segment(e, i, n)
                         /\ buf = append_bytes(Kept(fin, ack_stream), data)
                         /\ d = drain_orders(buf) /\ Took(e, i, n, fin, buf, d)
  BY <1>0, Zenon
<1> DEFINE hurt == ~InTurn(e, i, returned) \/ Len(buf) < Len(ack_stream) + n
<1> DEFINE happens == hurt \/ order_stream' # order_stream
<1>1. /\ MaySend("acks", e, i, n, returned, 2 * (passed \div 2))
      /\ returned' = IF InTurn(e, i, returned) THEN returned + n ELSE returned
      /\ over' = IF fin /\ e = sess THEN over \cup {"acks"} ELSE over
      /\ order_stream' = Kept(fin, order_stream) /\ OrdersCut
      /\ ack_stream' = d.rest /\ Emit("ack", d.found)
      /\ Mishap(happens, {e, sess}) /\ audit' = NoRecord
      /\ UNCHANGED <<sess, passed, running, crashes, pendingOrders, odd, got, seen>>
  BY <1>00, Zenon DEF Took
<1>2. /\ Lines /\ sess \in Sessions /\ passed \in Nat /\ returned \in Nat
      /\ passed <= 2 * NumOrders /\ returned <= passed
  BY WInvParts, Zenon
<1>3. n \in Nat /\ n # 0 /\ i \in Nat /\ e \in Sessions
  BY <1>2, Bounds DEF Sessions
<1>4. /\ running' = running /\ crashes' = crashes /\ pendingOrders' = pendingOrders
      /\ sess' = sess /\ passed' = passed /\ odd' = odd /\ got' = got /\ seen' = seen
  BY <1>1, Zenon
<1>5. PICK b \in Nat : b = passed \div 2 /\ 2 * b <= passed
  BY <1>2
<1>6. /\ i + n <= 2 * NumOrders
      /\ InTurn(e, i, returned) => e = sess /\ i = returned /\ returned + n <= 2 * b
  <2>1. 2 * b \in Nat /\ 2 * b <= 2 * NumOrders /\ returned <= 2 * NumOrders
    BY <1>2, <1>5, Bounds
  <2>2. Sends("acks", e, i, n, returned, 2 * b)
    BY <1>1, <1>2, <1>3, <1>5, <2>1, Zenon DEF Sends
  <2> QED BY <2>2, SendFacts
<1>7. /\ Counted' /\ tainted \subseteq tainted' /\ (happens => {e, sess} \subseteq tainted')
      /\ losses' = 0 => order_stream' = Half(passed)' /\ seen' = 1..(passed' \div 2)
      /\ sess \notin tainted' =>
           ~happens /\ sess \notin tainted /\ losses' = 0 /\ ack_stream = Half(returned)
  <2>1. {e, sess} \in SUBSET Sessions /\ sess \in {e, sess}
    BY <1>2, <1>3, Zenon
  <2>2. order_stream' # order_stream => happens
    BY Zenon
  <2> HIDE DEF hurt, happens
  <2>3. Mishap(happens, {e, sess}) /\ OrdersCut /\ UNCHANGED <<sess, passed, seen>>
    BY <1>1, <1>4, Zenon
  <2> QED BY <2>1, <2>2, <2>3, CutFacts, Zenon
<1>8. PICK S : S = {sess} \cup tainted' /\ sess \in S /\ tainted \subseteq S /\ e \in S
  <2>1. e \in {sess} \cup tainted'
    BY <1>6, <1>7, Zenon
  <2>2. sess \in {sess} \cup tainted' /\ tainted \subseteq {sess} \cup tainted'
    BY <1>7, Zenon
  <2> QED BY <2>1, <2>2, Zenon
<1>9. Mine(S, order_stream) /\ Mine(S, ack_stream) /\ Mine(S, data) /\ Len(data) = n
  <2>1. Mine(S, order_stream) /\ Mine(S, ack_stream)
    BY <1>8, StreamsMine, Zenon
  <2>2. Mine(S, Segment(e, i, n)) /\ Len(Segment(e, i, n)) = n
    <3>1. Holds(S, e, i, n)
      BY <1>3, <1>6, <1>8, Zenon DEF Holds
    <3> QED BY <3>1, SegmentMine
  <2> QED BY <1>00, <2>1, <2>2, Zenon
<1>10. Mine(S, buf) /\ (~hurt => buf = ack_stream \o data)
  <2>1. Takes(S, fin, ack_stream, data, buf)
    BY <1>00, <1>9, Zenon DEF Takes
  <2>2. /\ Mine(S, buf)
        /\ ~(Len(buf) < Len(ack_stream) + Len(data)) => buf = ack_stream \o data
    BY <2>1, KeptBuffer, Zenon
  <2> QED BY <1>9, <2>2, Zenon
<1>11. Mine(S, d.found) /\ Mine(S, d.rest) /\ Len(d.rest) <= 1
  BY <1>00, <1>10, DrainMine, Zenon
<1>12. Lines' /\ (NotSent(d.found) \/ Sent("ack", d.found))
  BY <1>1, <1>2, <1>4, <1>11, EmitFacts, Zenon
<1>13. PICK a \in Nat, c \in Nat, p \in Nat :
         /\ a = returned \div 2 /\ c = p \div 2 /\ p = returned' /\ p <= passed
         /\ ~hurt => p = returned + n /\ c <= b
  <2>1. returned \div 2 \in Nat
    BY <1>2
  <2>2. CASE InTurn(e, i, returned)
    <3>1. returned' = returned + n /\ returned + n <= 2 * b
      BY <1>1, <1>6, <2>2, Zenon
    <3>2. PICK p \in Nat : p = returned + n /\ p <= 2 * b
      BY <1>2, <1>3, <3>1
    <3>3. p <= passed /\ p \div 2 <= b /\ p \div 2 \in Nat
      BY <1>2, <1>5, <3>2, HalfLess, Zenon
    <3> QED BY <2>1, <3>1, <3>2, <3>3, Zenon
  <2>3. CASE ~InTurn(e, i, returned)
    <3>1. returned' = returned /\ hurt
      BY <1>1, <2>3, Zenon
    <3> QED BY <1>2, <2>1, <3>1, Zenon
  <2> QED BY <2>2, <2>3, Zenon
<1>14. ASSUME sess \notin tainted' PROVE ~hurt /\ FoundAll(d, returned, n, a, c)
  <2>0. ~hurt /\ ack_stream = Half(returned)
    BY <1>7, <1>14, Zenon
  <2>1. e = sess /\ i = returned /\ returned + n <= 2 * NumOrders
    BY <1>6, <2>0, Zenon
  <2>2. d = drain_orders(Half(returned) \o Segment(sess, returned, n))
    BY <1>00, <1>10, <2>0, <2>1, Zenon
  <2>3. Follows(returned, n, a) /\ c = (returned + n) \div 2
    BY <1>2, <1>3, <1>13, <2>0, <2>1, Zenon DEF Follows
  <2> QED BY <2>0, <2>2, <2>3, DrainHalf, Zenon
<1>15. Aligned'
  <2>1. ASSUME sess' \notin tainted' PROVE losses' = 0 /\ ack_stream' = Half(returned)'
    <3>1. sess \notin tainted' /\ losses' = 0
      BY <1>4, <1>7, <2>1, Zenon
    <3>2. d.rest = Half(p)
      BY <1>13, <1>14, <3>1, Zenon DEF FoundAll
    <3>3. Half(returned)' = Half(p)
      BY <1>4, <1>13, Zenon DEF Half, At
    <3> QED BY <1>1, <3>1, <3>2, <3>3, Zenon
  <2> QED BY <1>7, <2>1, Zenon DEF Aligned
<1>16. Mine(S, order_stream') /\ Len(order_stream') <= 1
  <2>1. Len(order_stream) <= 1
    BY Zenon DEF WInv, TypeOK
  <2> QED BY <1>1, <1>9, <2>1, KeptMine, Zenon
<1>17. Own'
  BY <1>1, <1>4, <1>8, <1>11, <1>16, Zenon DEF Own, Mine
<1>18. d.found \in Seq(Piece) /\ Len(d.found) \in Nat /\ DOMAIN d.found = 1..Len(d.found)
  BY <1>11 DEF Mine
<1>19. Pairing'
  <2>1. ASSUME sess \notin tainted', NEW k \in 1..Len(d.found)
        PROVE  d.found[k].part = 1 /\ d.found[k].seq \in 1..(passed \div 2)
    <3>1. k \in 1..(c - a) /\ a <= c /\ c <= b
      BY <1>13, <1>14, <2>1, Zenon DEF FoundAll
    <3>2. PICK x : x = d.found[k] /\ x = [sess |-> sess, seq |-> a + k, part |-> 1]
      BY <1>14, <2>1, <3>1, Zenon DEF FoundAll
    <3>3. x.part = 1 /\ x.seq = a + k
      BY <3>2
    <3>4. a + k \in 1..b
      BY <3>1
    <3> QED BY <1>5, <3>2, <3>3, <3>4, Zenon
  <2>2. \A k \in 1..Len(d.found) : d.found[k].sess \in {sess} \cup tainted'
    BY <1>8, <1>11, <1>18, Zenon DEF Mine
  <2>3. Pairing
    BY Zenon DEF WInv
  <2> QED BY <1>2, <1>4, <1>7, <1>12, <1>18, <2>1, <2>2, <2>3, AcksPair, Zenon
<1>20. AuditPairs'
  BY <1>1, Zenon DEF AuditPairs
<1>21. TypeOK'
  <2>1. returned' \in 0..passed'
    BY <1>2, <1>4, <1>13
  <2>2. \A q \in {order_stream', ack_stream'} : q \in Seq(Piece) /\ Len(q) <= 1
    BY <1>1, <1>11, <1>16, Zenon DEF Mine
  <2>3. over' \subseteq {"orders", "acks"}
    <3>1. over \subseteq {"orders", "acks"}
      BY Zenon DEF WInv, TypeOK
    <3> QED BY <1>1, <3>1, Zenon
  <2>4. telemetry_fd' \in {"due", "closed", "open", "broken"} /\ pipe' \in Seq([kind : {"order", "ack"}, msg : Message])
    BY <1>12, Zenon DEF Lines, Line, Ends
  <2>5. audit' \in [order : Message, ack : Message] \cup {NoRecord}
    BY <1>1, Zenon
  <2> QED BY <1>4, <1>7, <2>1, <2>2, <2>3, <2>4, <2>5, ZenonT(30) DEF WInv, TypeOK, Counted
<1> QED BY <1>12, <1>15, <1>17, <1>19, <1>20, <1>21, Zenon DEF WInv, Lines

\* Nothing changes for the ACKs under way.
LEMMA PairingSame ==
  ASSUME Pairing, tainted \subseteq tainted', UNCHANGED <<pipe, pendingOrders, sess, passed>>
  PROVE  Pairing'
<1>1. \A k, q : Names(k, q)' <=> Names(k, q)
  BY Zenon DEF Names
<1>2. ASSUME NEW i, NEW m, LastIs(i, m) PROVE LastIs(i, m)'
  BY <1>1, <1>2, Zenon DEF LastIs
<1>3. ASSUME NEW i \in DOMAIN pipe', NEW m,
             pipe'[i].kind = "ack", pipe'[i].msg = m, m.sess \notin tainted'
      PROVE  LastIs(i, m)'
  BY <1>2, <1>3, Zenon DEF Pairing
<1>4. PICK h : h = Len(pipe') + 1
  BY Zenon
<1>5. ASSUME sess' \notin tainted', NEW q \in 1..(passed' \div 2), NEW m, m = [sess |-> sess', seq |-> q]
      PROVE  LastIs(h, m)'
  <2>1. LastIs(h, m)
    BY <1>4, <1>5, Zenon DEF Pairing
  <2> QED BY <1>2, <2>1, Zenon
<1> QED BY <1>3, <1>4, <1>5, PairingFrom, Zenon

\* Both streams are cleared.
LEMMA ControlSegmentKeeps ==
  ASSUME WInv, ControlSegment
  PROVE  WInv'
<1> DEFINE happens == streams' # streams
<1>1. /\ order_stream' = <<>> /\ ack_stream' = <<>> /\ OrdersCut
      /\ Mishap(happens, {sess}) /\ telemetry_fd' \in Reconnected /\ audit' = NoRecord
      /\ UNCHANGED <<sess, passed, returned, pipe, running, crashes, pendingOrders, odd, got, seen>>
  BY Zenon DEF ControlSegment, clear_stream
<1>2. PICK ended \in SUBSET {"orders", "acks"} : over' = over \cup ended
  BY Zenon DEF ControlSegment
<1>3. Lines /\ sess \in Sessions
  BY WInvParts, Zenon
<1>4. /\ running' = running /\ crashes' = crashes /\ pendingOrders' = pendingOrders
      /\ odd' = odd /\ pipe' = pipe /\ sess' = sess /\ passed' = passed /\ returned' = returned
      /\ got' = got /\ seen' = seen
  BY <1>1, Zenon
<1>5. telemetry_fd' \in Ends /\ (telemetry_fd = "open" => telemetry_fd' = "open")
  BY <1>1, <1>3, ReconnectedFacts, Zenon DEF Lines
<1>6. /\ Counted' /\ tainted \subseteq tainted' /\ (happens => {sess} \subseteq tainted')
      /\ losses' = 0 => order_stream' = Half(passed)' /\ seen' = 1..(passed' \div 2)
      /\ sess \notin tainted' =>
           ~happens /\ sess \notin tainted /\ losses' = 0 /\ ack_stream = Half(returned)
  <2>1. {sess} \in SUBSET Sessions /\ sess \in {sess}
    BY <1>3, Zenon
  <2>2. order_stream' # order_stream => happens
    BY Zenon DEF streams
  <2> HIDE DEF happens
  <2>3. Mishap(happens, {sess}) /\ OrdersCut /\ UNCHANGED <<sess, passed, seen>>
    BY <1>1, <1>4, Zenon
  <2> QED BY <2>1, <2>2, <2>3, CutFacts, Zenon
<1>7. Aligned'
  <2>1. ASSUME sess' \notin tainted' PROVE losses' = 0 /\ ack_stream' = Half(returned)'
    <3>1. ~happens /\ losses' = 0 /\ ack_stream = Half(returned)
      BY <1>4, <1>6, <2>1, Zenon
    <3>2. ack_stream' = ack_stream
      BY <3>1, Zenon DEF streams
    <3>3. Half(returned)' = Half(returned)
      BY <1>4, Zenon DEF Half, At
    <3> QED BY <3>1, <3>2, <3>3, Zenon
  <2> QED BY <1>6, <2>1, Zenon DEF Aligned
<1>8. Own'
  <2>1. DOMAIN <<>> = {}
    OBVIOUS
  <2> QED BY <1>1, <2>1, Zenon DEF Own
<1>9. Dropped'
  BY <1>4, <1>5, Zenon DEF WInv, Dropped
<1>10. Pairing'
  BY <1>4, <1>6, PairingSame, Zenon DEF WInv
<1>11. AuditPairs'
  BY <1>1, Zenon DEF AuditPairs
<1>12. TypeOK'
  <2>1. <<>> \in Seq(Piece) /\ Len(<<>>) <= 1
    OBVIOUS
  <2>2. telemetry_fd' \in {"due", "closed", "open", "broken"}
    BY <1>5, Zenon DEF Ends
  <2>3. over' \subseteq {"orders", "acks"}
    <3>1. over \subseteq {"orders", "acks"}
      BY Zenon DEF WInv, TypeOK
    <3> QED BY <1>2, <3>1, Zenon
  <2>4. audit' \in [order : Message, ack : Message] \cup {NoRecord}
    BY <1>1, Zenon
  <2> QED BY <1>1, <1>4, <1>6, <2>1, <2>2, <2>3, <2>4, ZenonT(30) DEF WInv, TypeOK, Counted
<1> QED BY <1>7, <1>8, <1>9, <1>10, <1>11, <1>12, Zenon DEF WInv

\* A segment is missed: nothing more is said of this connection.
LEMMA MissedKeeps ==
  ASSUME WInv, Mishap(TRUE, {sess}), audit' = NoRecord,
         NEW hurt, losses' = IF hurt THEN losses + 1 ELSE losses, hurt \/ passed' = passed,
         passed' \in 0..(2 * NumOrders), returned' \in 0..passed',
         UNCHANGED <<sess, over, streams, telemetry_fd, pipe, running, crashes,
                     pendingOrders, odd, got, seen>>
  PROVE  WInv'
<1>1. Lines /\ sess \in Sessions
  BY WInvParts, Zenon
<1>2. /\ running' = running /\ crashes' = crashes /\ pendingOrders' = pendingOrders
      /\ sess' = sess /\ over' = over /\ odd' = odd
      /\ order_stream' = order_stream /\ ack_stream' = ack_stream
      /\ telemetry_fd' = telemetry_fd /\ pipe' = pipe /\ got' = got /\ seen' = seen
  BY Zenon DEF streams
<1>3. /\ Counted' /\ tainted \subseteq tainted' /\ sess' \in tainted'
      /\ losses' = 0 => ~hurt /\ losses = 0
  <2>1. Counted /\ {sess} \in SUBSET Sessions /\ (hurt => TRUE)
    BY <1>1, Zenon DEF WInv, TypeOK, Counted
  <2>2. /\ Counted' /\ tainted \subseteq tainted' /\ (TRUE => {sess} \subseteq tainted')
        /\ losses' = 0 => ~hurt /\ losses = 0
    BY <2>1, MishapFacts, Zenon
  <2> QED BY <1>2, <2>2, Zenon
<1>4. Aligned'
  <2>1. ASSUME losses' = 0 PROVE order_stream' = Half(passed)' /\ seen' = 1..(passed' \div 2)
    <3>1. passed' = passed /\ order_stream = Half(passed) /\ seen = 1..(passed \div 2)
      BY <1>3, <2>1, Zenon DEF WInv, Aligned
    <3>2. Half(passed)' = Half(passed)
      BY <1>2, <3>1, Zenon DEF Half, At
    <3> QED BY <1>2, <3>1, <3>2, Zenon
  <2> QED BY <1>3, <2>1, Zenon DEF Aligned
<1>5. Own' /\ Dropped' /\ AuditPairs'
  BY <1>2, <1>3, Zenon DEF WInv, Own, Dropped, AuditPairs
<1>6. Pairing'
  <2>1. DOMAIN pipe = 1..Len(pipe)
    BY <1>1, LineCount, Zenon DEF Lines
  <2>2. ASSUME NEW i \in DOMAIN pipe', NEW m,
               pipe'[i].kind = "ack", pipe'[i].msg = m, m.sess \notin tainted'
        PROVE  LastIs(i, m)'
    BY <1>1, <1>2, <1>3, <2>1, <2>2, OldAcks, Zenon DEF WInv, Lines
  <2>3. PICK h : h = Len(pipe') + 1
    BY Zenon
  <2> QED BY <1>3, <2>2, <2>3, PairingFrom, Zenon
<1>7. TypeOK'
  BY <1>2, <1>3, ZenonT(30) DEF WInv, TypeOK, Counted
<1> QED BY <1>4, <1>5, <1>6, <1>7, Zenon DEF WInv

LEMMA OrdersMissedKeeps ==
  ASSUME WInv, OrdersMissed
  PROVE  WInv'
<1>1. PICK n \in 1..MaxSegment :
        /\ MaySend("orders", sess, passed, n, passed, 2 * NumOrders)
        /\ passed' = passed + n /\ losses' = losses + 1 /\ Mishap(TRUE, {sess}) /\ audit' = NoRecord
        /\ UNCHANGED <<sess, returned, over, streams, telemetry_fd, pipe, running,
                       crashes, pendingOrders, odd, got, seen>>
  BY Zenon DEF OrdersMissed
<1>2. /\ passed \in Nat /\ returned \in Nat /\ passed <= 2 * NumOrders /\ returned <= passed
  BY WInvParts, Zenon
<1>3. n \in Nat /\ n # 0 /\ 2 * NumOrders \in Nat /\ 2 * NumOrders <= 2 * NumOrders
  BY Bounds
<1>4. passed + n <= 2 * NumOrders
  <2>1. Sends("orders", sess, passed, n, passed, 2 * NumOrders)
    BY <1>1, <1>2, <1>3, Zenon DEF Sends
  <2> QED BY <2>1, SendFacts
<1>5. passed' \in 0..(2 * NumOrders) /\ returned' \in 0..passed'
  BY <1>1, <1>2, <1>3, <1>4, Bounds
<1>6. losses' = IF TRUE THEN losses + 1 ELSE losses
  BY <1>1, Zenon
<1>7. UNCHANGED <<sess, over, streams, telemetry_fd, pipe, running, crashes,
                  pendingOrders, odd, got, seen>>
  BY <1>1, Zenon
<1> QED BY <1>1, <1>5, <1>6, <1>7, MissedKeeps, Zenon

LEMMA AcksMissedKeeps ==
  ASSUME WInv, AcksMissed
  PROVE  WInv'
<1>1. PICK n \in 1..MaxSegment :
        /\ MaySend("acks", sess, returned, n, returned, 2 * (passed \div 2))
        /\ returned' = returned + n /\ Mishap(TRUE, {sess}) /\ audit' = NoRecord
        /\ UNCHANGED <<sess, passed, over, streams, telemetry_fd, pipe, running,
                       crashes, pendingOrders, odd, got, seen, losses>>
  BY Zenon DEF AcksMissed
<1>2. /\ passed \in Nat /\ returned \in Nat /\ passed <= 2 * NumOrders /\ returned <= passed
  BY WInvParts, Zenon
<1>3. PICK b \in Nat : b = 2 * (passed \div 2) /\ b <= passed /\ b <= 2 * NumOrders
  BY <1>2, Bounds
<1>4. n \in Nat /\ n # 0 /\ returned <= 2 * NumOrders
  BY <1>2, Bounds
<1>5. InTurn(sess, returned, returned) /\ Sends("acks", sess, returned, n, returned, b)
  BY <1>1, <1>2, <1>3, <1>4, Zenon DEF InTurn, Sends
<1>6. returned + n <= b
  BY <1>5, SendFacts, Zenon
<1>7. passed' \in 0..(2 * NumOrders) /\ returned' \in 0..passed'
  <2>1. passed' = passed /\ returned' = returned + n
    BY <1>1, Zenon
  <2> QED BY <1>2, <1>3, <1>4, <1>6, <2>1, Bounds
<1>8. losses' = (IF FALSE THEN losses + 1 ELSE losses) /\ passed' = passed
  BY <1>1, Zenon
<1>9. UNCHANGED <<sess, over, streams, telemetry_fd, pipe, running, crashes,
                  pendingOrders, odd, got, seen>>
  BY <1>1, Zenon
<1> QED BY <1>1, <1>7, <1>8, <1>9, MissedKeeps, Zenon

\* The next connection begins with empty streams.
LEMMA NewConnectionKeeps ==
  ASSUME WInv, NewConnection
  PROVE  WInv'
<1>1. /\ sess < MaxSessions /\ sess' = sess + 1 /\ passed' = 0 /\ returned' = 0 /\ over' = {}
      /\ order_stream' = <<>> /\ ack_stream' = <<>>
      /\ got' = {} /\ seen' = {} /\ losses' = 0 /\ telemetry_fd' \in Reconnected
      /\ audit' = NoRecord
      /\ UNCHANGED <<pipe, running, crashes, pendingOrders, odd, tainted, mishaps>>
  BY Zenon DEF NewConnection, clear_stream
<1>2. Lines /\ sess \in Sessions
  BY WInvParts, Zenon
<1>3. /\ running' = running /\ crashes' = crashes /\ pendingOrders' = pendingOrders
      /\ odd' = odd /\ pipe' = pipe /\ tainted' = tainted /\ mishaps' = mishaps
  BY <1>1, Zenon
<1>4. telemetry_fd' \in Ends /\ (telemetry_fd = "open" => telemetry_fd' = "open")
  BY <1>1, <1>2, ReconnectedFacts, Zenon DEF Lines
<1>5. 0 \div 2 = 0 /\ 0 % 2 # 1 /\ 1..0 = {}
  OBVIOUS
<1>6. Aligned'
  <2>1. Half(passed)' = <<>> /\ Half(returned)' = <<>>
    BY <1>1, <1>5, Zenon DEF Half
  <2> QED BY <1>1, <1>5, <2>1, Zenon DEF Aligned
<1>7. Own'
  <2>1. DOMAIN <<>> = {}
    OBVIOUS
  <2> QED BY <1>1, <2>1, Zenon DEF Own
<1>8. Dropped'
  BY <1>3, <1>4, Zenon DEF WInv, Dropped
<1>9. Pairing'
  <2>1. DOMAIN pipe = 1..Len(pipe)
    BY <1>2, LineCount, Zenon DEF Lines
  <2>2. ASSUME NEW i \in DOMAIN pipe', NEW m,
               pipe'[i].kind = "ack", pipe'[i].msg = m, m.sess \notin tainted'
        PROVE  LastIs(i, m)'
    BY <1>2, <1>3, <2>1, <2>2, OldAcks, Zenon DEF WInv, Lines
  <2>3. PICK h : h = Len(pipe') + 1
    BY Zenon
  <2>4. \A q : q \notin 1..(passed' \div 2)
    BY <1>1, <1>5, Zenon
  <2> QED BY <2>2, <2>3, <2>4, PairingFrom, Zenon
<1>10. AuditPairs'
  BY <1>1, Zenon DEF AuditPairs
<1>11. TypeOK'
  <2>1. sess' \in Sessions /\ passed' \in 0..(2 * NumOrders) /\ returned' \in 0..passed'
    BY <1>1, <1>2, Bounds DEF Sessions
  <2>2. mishaps' \in 0..MaxMishaps /\ losses' \in 0..mishaps' /\ tainted' \subseteq Sessions
    <3>1. mishaps \in 0..MaxMishaps /\ tainted \subseteq Sessions
      BY Zenon DEF WInv, TypeOK
    <3>2. 0 \in 0..mishaps
      BY <3>1
    <3> QED BY <1>1, <1>3, <3>1, <3>2, Zenon
  <2>3. <<>> \in Seq(Piece) /\ Len(<<>>) <= 1
    OBVIOUS
  <2>4. telemetry_fd' \in {"due", "closed", "open", "broken"}
    BY <1>4, Zenon DEF Ends
  <2>5. /\ got' \subseteq Piece /\ seen' \subseteq Numbers /\ over' \subseteq {"orders", "acks"}
        /\ audit' \in [order : Message, ack : Message] \cup {NoRecord}
    BY <1>1, Zenon
  <2> QED BY <1>1, <1>3, <2>1, <2>2, <2>3, <2>4, <2>5, ZenonT(30) DEF WInv, TypeOK
<1> QED BY <1>6, <1>7, <1>8, <1>9, <1>10, <1>11, Zenon DEF WInv

-----------------------------------------------------------------------------
(* The steps of the control service. *)

\* Orders with distinct numbers.
Distinct(q) == q \in Seq(Message) /\ \A i, j \in DOMAIN q : q[i].seq = q[j].seq => i = j

\* r holds orders of q only.
OutOf(r, q) == Distinct(r) /\ \A k \in DOMAIN r : \E j \in DOMAIN q : r[k] = q[j]

\* r holds orders of q, and m under its number.
Updates(r, q, m) ==
  /\ Distinct(r)
  /\ \A k \in DOMAIN r : IF r[k].seq = m.seq THEN r[k] = m
                        ELSE \E j \in DOMAIN q : r[k] = q[j]

LEMMA RememberedFacts ==
  ASSUME NEW q, Distinct(q), NEW m \in Message
  PROVE  Updates(Remembered(q, m), q, m)
<1>0. PICK r : r = Remembered(q, m)
  BY Zenon
<1> SUFFICES /\ Distinct(r)
             /\ \A k \in DOMAIN r : IF r[k].seq = m.seq THEN r[k] = m
                                   ELSE \E j \in DOMAIN q : r[k] = q[j]
  BY <1>0, Zenon DEF Updates
<1>1. q \in Seq(Message)
  BY Zenon DEF Distinct
<1>2. PICK l \in Nat : l = Len(q) /\ DOMAIN q = 1..l /\ \A i \in 1..l : q[i] \in Message
  BY <1>1
<1>3. \A i, j \in 1..l : q[i].seq = q[j].seq => i = j
  BY <1>2, Zenon DEF Distinct
<1>4. CASE \E i \in DOMAIN q : q[i].seq = m.seq
  <2>1. r = [i \in 1..l |-> IF q[i].seq = m.seq THEN m ELSE q[i]]
    BY <1>0, <1>2, <1>4, Zenon DEF Remembered
  <2>2. DOMAIN r = 1..l /\ \A i \in 1..l : r[i] = IF q[i].seq = m.seq THEN m ELSE q[i]
    BY <2>1, Zenon
  <2>3. \A i \in 1..l : r[i].seq = q[i].seq /\ r[i] \in Message
    BY <1>2, <2>2, Zenon
  <2>4. r \in Seq(Message)
    <3>1. r = [i \in 1..l |-> r[i]]
      BY <2>1, <2>2, Zenon
    <3>2. r \in [1..l -> Message]
      BY <2>3, <3>1, Zenon
    <3> QED BY <3>2
  <2>5. Distinct(r)
    <3>1. \A i, j \in 1..l : r[i].seq = r[j].seq => i = j
      BY <1>3, <2>3, Zenon
    <3> QED BY <2>2, <2>4, <3>1, Zenon DEF Distinct
  <2>6. ASSUME NEW k \in DOMAIN r
        PROVE  IF r[k].seq = m.seq THEN r[k] = m ELSE \E j \in DOMAIN q : r[k] = q[j]
    BY <1>2, <2>2, <2>3, Zenon
  <2> QED BY <2>5, <2>6, Zenon
<1>5. CASE ~\E i \in DOMAIN q : q[i].seq = m.seq
  <2>1. r = Append(q, m)
    BY <1>0, <1>5, Zenon DEF Remembered
  <2>2. /\ r \in Seq(Message) /\ DOMAIN r = 1..(l + 1) /\ r[l + 1] = m
        /\ \A i \in 1..l : r[i] = q[i]
    BY <1>1, <1>2, <2>1
  <2>3. \A i \in 1..(l + 1) : i \in 1..l \/ i = l + 1
    OBVIOUS
  <2>4. \A i \in 1..l : q[i].seq # m.seq
    BY <1>2, <1>5, Zenon
  <2>5. ASSUME NEW i \in 1..(l + 1), NEW j \in 1..(l + 1), r[i].seq = r[j].seq PROVE i = j
    <3>1. CASE i \in 1..l /\ j \in 1..l
      BY <1>3, <2>2, <2>5, <3>1, Zenon
    <3>2. CASE i = l + 1 /\ j \in 1..l
      BY <2>2, <2>4, <2>5, <3>2, Zenon
    <3>3. CASE j = l + 1 /\ i \in 1..l
      BY <2>2, <2>4, <2>5, <3>3, Zenon
    <3>4. CASE i = l + 1 /\ j = l + 1
      BY <3>4, Zenon
    <3> QED BY <2>3, <3>1, <3>2, <3>3, <3>4, Zenon
  <2>6. Distinct(r)
    BY <2>2, <2>5, Zenon DEF Distinct
  <2>7. ASSUME NEW k \in DOMAIN r
        PROVE  IF r[k].seq = m.seq THEN r[k] = m ELSE \E j \in DOMAIN q : r[k] = q[j]
    <3>1. CASE k \in 1..l
      BY <1>2, <2>2, <2>4, <3>1, Zenon
    <3>2. CASE k = l + 1
      BY <2>2, <3>2, Zenon
    <3> QED BY <2>2, <2>3, <3>1, <3>2, Zenon
  <2> QED BY <2>6, <2>7, Zenon
<1> QED BY <1>4, <1>5, Zenon

\* What is left keeps its order.
LEMMA PrunedFacts ==
  ASSUME NEW q, Distinct(q), NEW m, NEW r \in Pruned(q, m)
  PROVE  OutOf(r, q) /\ Len(r) <= MaxPending
<1>1. q \in Seq(Message)
  BY Zenon DEF Distinct
<1>2. PICK l \in Nat : l = Len(q) /\ DOMAIN q = 1..l
  BY <1>1
<1>3. PICK n \in Excess(q)..Len(q) : r = SubSeq(q, n + 1, Len(q))
  BY Zenon DEF Pruned
<1>4. n \in 0..l /\ l - n <= MaxPending
  <2>1. CASE l > MaxPending
    <3>1. n \in (l - MaxPending)..l
      BY <1>2, <2>1, Zenon DEF Excess
    <3> QED BY <2>1, <3>1, Bounds
  <2>2. CASE ~(l > MaxPending)
    <3>1. n \in 0..l
      BY <1>2, <2>2, Zenon DEF Excess
    <3> QED BY <2>2, <3>1, Bounds
  <2> QED BY <2>1, <2>2, Zenon
<1>5. r \in Seq(Message) /\ Len(r) = l - n /\ \A i \in 1..(l - n) : r[i] = q[n + i]
  BY <1>1, <1>2, <1>3, <1>4, EndOf, Zenon
<1>6. DOMAIN r = 1..(l - n)
  BY <1>5
<1>7. \A i \in 1..(l - n) : n + i \in 1..l
  BY <1>4
<1>8. ASSUME NEW i \in 1..(l - n), NEW j \in 1..(l - n), r[i].seq = r[j].seq PROVE i = j
  <2>1. PICK x \in DOMAIN q, y \in DOMAIN q : x = n + i /\ y = n + j
    BY <1>2, <1>7, Zenon
  <2>2. q[x].seq = q[y].seq
    BY <1>5, <1>8, <2>1, Zenon
  <2>3. n + i = n + j
    BY <2>1, <2>2, Zenon DEF Distinct
  <2> QED BY <1>4, <2>3
<1>9. Distinct(r)
  BY <1>5, <1>6, <1>8, Zenon DEF Distinct
<1>10. \A k \in DOMAIN r : \E j \in DOMAIN q : r[k] = q[j]
  BY <1>2, <1>5, <1>6, <1>7, Zenon
<1>11. OutOf(r, q)
  BY <1>9, <1>10, Zenon DEF OutOf
<1> QED BY <1>4, <1>5, <1>11, Zenon

\* One order less.
LEMMA WithoutFacts ==
  ASSUME NEW q, Distinct(q), NEW n \in DOMAIN q
  PROVE  OutOf(Without(q, n), q) /\ Len(Without(q, n)) <= Len(q)
<1>0. PICK r : r = Without(q, n)
  BY Zenon
<1>1. q \in Seq(Message)
  BY Zenon DEF Distinct
<1>2. PICK l \in Nat : l = Len(q) /\ DOMAIN q = 1..l /\ n \in 1..l
  BY <1>1
<1>3. PICK u, v : u = SubSeq(q, 1, n - 1) /\ v = SubSeq(q, n + 1, Len(q)) /\ r = u \o v
  BY <1>0, Zenon DEF Without
<1>4. u \in Seq(Message) /\ Len(u) = n - 1 /\ \A i \in 1..(n - 1) : u[i] = q[i]
  <2>1. PICK x \in 0..Len(q) : x = n - 1
    BY <1>2
  <2> QED BY <1>1, <1>3, <2>1, FrontOf, Zenon
<1>5. v \in Seq(Message) /\ Len(v) = l - n /\ \A i \in 1..(l - n) : v[i] = q[n + i]
  <2>1. n \in 0..Len(q)
    BY <1>2
  <2> QED BY <1>1, <1>2, <1>3, <2>1, EndOf, Zenon
<1>6. /\ r \in Seq(Message) /\ Len(r) = Len(u) + Len(v)
      /\ \A i \in 1..Len(u) : r[i] = u[i]
      /\ \A i \in 1..Len(v) : r[Len(u) + i] = v[i]
  <2>1. u \in Seq(Message) /\ v \in Seq(Message) /\ r = u \o v
    BY <1>3, <1>4, <1>5, Zenon
  <2> QED BY <2>1, Joined
<1>7. Len(r) = l - 1 /\ DOMAIN r = 1..(l - 1)
  <2>1. Len(r) = (n - 1) + (l - n)
    BY <1>4, <1>5, <1>6, Zenon
  <2>2. Len(r) = l - 1
    BY <1>2, <2>1
  <2>3. r \in Seq(Message)
    BY <1>6, Zenon
  <2>4. DOMAIN r = 1..Len(r)
    BY <2>3
  <2> QED BY <2>2, <2>4, Zenon
<1> DEFINE place(i) == IF i < n THEN i ELSE i + 1
<1>8. ASSUME NEW i \in 1..(l - 1) PROVE place(i) \in 1..l /\ r[i] = q[place(i)]
  <2>1. CASE i < n
    <3>1. i \in 1..(n - 1) /\ i \in 1..l
      BY <1>2, <2>1
    <3> QED BY <1>4, <1>6, <2>1, <3>1, Zenon
  <2>2. CASE ~(i < n)
    <3>1. PICK x \in 1..(l - n) : i = (n - 1) + x /\ n + x = i + 1
      <4>1. i - (n - 1) \in 1..(l - n) /\ i = (n - 1) + (i - (n - 1)) /\ n + (i - (n - 1)) = i + 1
        BY <1>2, <2>2
      <4> QED BY <4>1, Zenon
    <3>2. i + 1 \in 1..l
      BY <1>2
    <3>3. r[Len(u) + x] = v[x] /\ v[x] = q[n + x]
      BY <1>5, <1>6, Zenon
    <3>4. r[i] = q[i + 1]
      BY <1>4, <3>1, <3>3, Zenon
    <3> QED BY <2>2, <3>2, <3>4, Zenon
  <2> QED BY <2>1, <2>2, Zenon
<1>9. \A i, j \in 1..(l - 1) : place(i) = place(j) => i = j
  BY <1>2
<1> HIDE DEF place
<1>10. ASSUME NEW i \in 1..(l - 1), NEW j \in 1..(l - 1), r[i].seq = r[j].seq PROVE i = j
  <2>1. PICK x \in DOMAIN q, y \in DOMAIN q : x = place(i) /\ y = place(j)
    BY <1>2, <1>8, Zenon
  <2>2. q[x].seq = q[y].seq
    BY <1>8, <1>10, <2>1, Zenon
  <2>3. x = y
    BY <2>2, Zenon DEF Distinct
  <2> QED BY <1>9, <2>1, <2>3, Zenon
<1>11. Distinct(r)
  BY <1>6, <1>7, <1>10, Zenon DEF Distinct
<1>12. Len(r) <= Len(q)
  BY <1>2, <1>7
<1>13. \A k \in DOMAIN r : \E j \in DOMAIN q : r[k] = q[j]
  BY <1>2, <1>7, <1>8, Zenon
<1>14. OutOf(r, q)
  BY <1>11, <1>13, Zenon DEF OutOf
<1> QED BY <1>0, <1>12, <1>14, Zenon

\* A line was handled: what is left to show.
LEMMA HandledKeeps ==
  ASSUME WInv, pipe # <<>>, pipe' = Tail(pipe), Noted, AuditPairs',
         UNCHANGED <<wire, streams, telemetry_fd, running, crashes, odd, history>>,
         Distinct(pendingOrders'), Len(pendingOrders') <= MaxPending,
         audit' \in [order : Message, ack : Message] \cup {NoRecord}
  PROVE  WInv'
<1>1. /\ sess' = sess /\ passed' = passed /\ returned' = returned /\ over' = over
      /\ order_stream' = order_stream /\ ack_stream' = ack_stream
      /\ telemetry_fd' = telemetry_fd /\ running' = running /\ crashes' = crashes
      /\ odd' = odd /\ got' = got /\ seen' = seen /\ losses' = losses /\ tainted' = tainted
      /\ mishaps' = mishaps
  BY Zenon DEF wire, streams, history
<1>2. Lines
  BY WInvParts, Zenon
<1>3. Pairing'
  BY <1>1, <1>2, PopPair, Zenon DEF WInv, Lines
<1>4. Dropped'
  BY <1>1, Zenon DEF WInv, Dropped
<1>5. Own'
  BY <1>1, Zenon DEF WInv, Own
<1>6. Aligned'
  <2>1. Half(passed)' = Half(passed) /\ Half(returned)' = Half(returned)
    BY <1>1, Zenon DEF Half, At
  <2> QED BY <1>1, <2>1, Zenon DEF WInv, Aligned
<1>7. TypeOK'
  <2>1. pipe' \in Seq(Line)
    BY <1>2 DEF Lines
  <2>2. pipe' \in Seq([kind : {"order", "ack"}, msg : Message])
    BY <2>1, Zenon DEF Line
  <2> QED BY <1>1, <2>2, Zenon DEF WInv, TypeOK, Distinct
<1> QED BY <1>3, <1>4, <1>5, <1>6, <1>7, Zenon DEF WInv

\* What the invariant says of the first line and the pending orders.
LEMMA FirstLine ==
  ASSUME WInv, pipe # <<>>, NEW e, e = Head(pipe)
  PROVE  /\ e = pipe[1] /\ e \in Line /\ e.msg \in Message /\ 1 \in DOMAIN pipe
         /\ Distinct(pendingOrders) /\ Len(pendingOrders) <= MaxPending
<1>1. pipe \in Seq(Line)
  BY WInvParts, Zenon DEF Lines
<1>2. e = pipe[1] /\ e \in Line /\ 1 \in DOMAIN pipe
  BY <1>1
<1>3. \A x \in Line : x.msg \in Message
  BY DEF Line
<1>4. Distinct(pendingOrders) /\ Len(pendingOrders) <= MaxPending
  BY Zenon DEF WInv, TypeOK, Distinct
<1> QED BY <1>2, <1>3, <1>4, Zenon

LEMMA HandleOrderKeeps ==
  ASSUME WInv, HandleOrder
  PROVE  WInv'
<1>1. PICK e, m : /\ e = Head(pipe) /\ m = e.msg /\ e.kind = "order" /\ pipe # <<>> /\ pipe' = Tail(pipe)
                  /\ pendingOrders' \in Pruned(Remembered(pendingOrders, m), m)
  BY Zenon DEF HandleOrder
<1>2. audit' = NoRecord /\ UNCHANGED <<wire, streams, telemetry_fd, running, crashes, odd, history>>
  BY Zenon DEF HandleOrder
<1>3. /\ e = pipe[1] /\ m \in Message
      /\ Distinct(pendingOrders) /\ Len(pendingOrders) <= MaxPending
  BY <1>1, FirstLine, Zenon
<1>4. PICK r : r = Remembered(pendingOrders, m)
  BY Zenon
<1>5. Updates(r, pendingOrders, m) /\ Distinct(r)
  <2>1. Updates(Remembered(pendingOrders, m), pendingOrders, m)
    BY <1>3, RememberedFacts, Zenon
  <2>2. Updates(r, pendingOrders, m)
    BY <1>4, <2>1, Zenon
  <2> QED BY <2>2, Zenon DEF Updates
<1>6. PICK s : s = pendingOrders' /\ s \in Pruned(r, m)
  BY <1>1, <1>4, Zenon
<1>7. Distinct(s) /\ Len(s) <= MaxPending /\ OutOf(s, r)
  <2>1. OutOf(s, r) /\ Len(s) <= MaxPending
    BY <1>5, <1>6, PrunedFacts, Zenon
  <2> QED BY <2>1, Zenon DEF OutOf
<1>8. Noted
  <2>1. pipe[1].msg = m /\ \A q : Names(1, q) <=> m.seq = q
    BY <1>1, <1>3, Zenon DEF Names
  <2>2. ASSUME NEW k \in DOMAIN s
        PROVE  IF Names(1, s[k].seq) THEN s[k] = pipe[1].msg
               ELSE \E j \in DOMAIN pendingOrders : s[k] = pendingOrders[j]
    <3>1. PICK j \in DOMAIN r : s[k] = r[j]
      BY <1>7, Zenon DEF OutOf
    <3>2. IF r[j].seq = m.seq THEN r[j] = m
          ELSE \E i \in DOMAIN pendingOrders : r[j] = pendingOrders[i]
      BY <1>5, Zenon DEF Updates
    <3> QED BY <2>1, <3>1, <3>2, Zenon
  <2> QED BY <1>6, <2>2, Zenon DEF Noted
<1>9. AuditPairs' /\ audit' \in [order : Message, ack : Message] \cup {NoRecord}
  BY <1>2, Zenon DEF AuditPairs
<1>10. UNCHANGED <<wire, streams, telemetry_fd, running, crashes, odd, history>>
  BY <1>2, Zenon
<1>11. Distinct(pendingOrders') /\ Len(pendingOrders') <= MaxPending
  BY <1>6, <1>7, Zenon
<1> QED BY <1>1, <1>8, <1>9, <1>10, <1>11, HandledKeeps, Zenon

LEMMA HandleAckKeeps ==
  ASSUME WInv, HandleAck
  PROVE  WInv'
<1>1. PICK e, m : /\ e = Head(pipe) /\ m = e.msg /\ e.kind = "ack" /\ pipe # <<>> /\ pipe' = Tail(pipe)
                  /\ \/ audit' = NoRecord /\ UNCHANGED pendingOrders
                     \/ \E k \in {x \in DOMAIN pendingOrders : pendingOrders[x].seq = m.seq} :
                          /\ pendingOrders' = Without(pendingOrders, k)
                          /\ audit' = [order |-> pendingOrders[k], ack |-> m]
  BY Zenon DEF HandleAck
<1>2. UNCHANGED <<wire, streams, telemetry_fd, running, crashes, odd, history>>
  BY Zenon DEF HandleAck
<1>3. /\ e = pipe[1] /\ m \in Message /\ 1 \in DOMAIN pipe
      /\ Distinct(pendingOrders) /\ Len(pendingOrders) <= MaxPending
  BY <1>1, FirstLine, Zenon
<1>4. \A q : ~Names(1, q)
  BY <1>1, <1>3 DEF Names
<1>5. tainted' = tainted
  BY <1>2, Zenon DEF history
<1>6. CASE audit' = NoRecord /\ UNCHANGED pendingOrders
  <2>1. Noted
    BY <1>4, <1>6, Zenon DEF Noted
  <2>2. AuditPairs' /\ audit' \in [order : Message, ack : Message] \cup {NoRecord}
    BY <1>6, Zenon DEF AuditPairs
  <2>3. Distinct(pendingOrders') /\ Len(pendingOrders') <= MaxPending
    BY <1>3, <1>6, Zenon
  <2> QED BY <1>1, <1>2, <2>1, <2>2, <2>3, HandledKeeps, Zenon
<1>7. ASSUME NEW k \in DOMAIN pendingOrders, pendingOrders[k].seq = m.seq,
             pendingOrders' = Without(pendingOrders, k),
             audit' = [order |-> pendingOrders[k], ack |-> m]
      PROVE  WInv'
  <2>1. PICK r : r = pendingOrders' /\ r = Without(pendingOrders, k)
    BY <1>7, Zenon
  <2>2. Distinct(r) /\ Len(r) <= Len(pendingOrders) /\ \A i \in DOMAIN r : \E j \in DOMAIN pendingOrders : r[i] = pendingOrders[j]
    <3>1. /\ OutOf(Without(pendingOrders, k), pendingOrders)
          /\ Len(Without(pendingOrders, k)) <= Len(pendingOrders)
      BY <1>3, WithoutFacts, Zenon
    <3>2. OutOf(r, pendingOrders) /\ Len(r) <= Len(pendingOrders)
      BY <2>1, <3>1, Zenon
    <3> QED BY <3>2, Zenon DEF OutOf
  <2>3. Noted
    BY <1>4, <2>1, <2>2, Zenon DEF Noted
  <2>4. Distinct(pendingOrders') /\ Len(pendingOrders') <= MaxPending
    <3>1. pendingOrders \in Seq(Message) /\ r \in Seq(Message)
      BY <1>3, <2>2, Zenon DEF Distinct
    <3>2. PICK x \in Nat, y \in Nat : x = Len(r) /\ y = Len(pendingOrders)
      BY <3>1
    <3>3. x <= y /\ y <= MaxPending
      BY <1>3, <2>2, <3>2, Zenon
    <3>4. x <= MaxPending
      BY <3>3, Bounds
    <3> QED BY <2>1, <2>2, <3>2, <3>4, Zenon
  <2>5. PICK o \in Message : o = pendingOrders[k]
    <3>1. pendingOrders \in Seq(Message)
      BY <1>3, Zenon DEF Distinct
    <3> QED BY <3>1
  <2>6. PICK a : a = audit' /\ a = [order |-> o, ack |-> m]
    BY <1>7, <2>5, Zenon
  <2>7. a \in [order : Message, ack : Message] /\ a.order = o /\ a.ack = m
    BY <1>3, <2>5, <2>6
  <2>8. ASSUME m.sess \notin tainted PROVE o = m
    <3>1. LastIs(1, m)
      BY <1>1, <1>3, <2>8, Zenon DEF WInv, Pairing
    <3>2. 1..(1 - 1) = {}
      OBVIOUS
    <3> QED BY <1>7, <2>5, <3>1, <3>2, Zenon DEF LastIs
  <2>9. AuditPairs'
    BY <1>5, <2>6, <2>7, <2>8, Zenon DEF AuditPairs
  <2>10. audit' \in [order : Message, ack : Message] \cup {NoRecord}
    BY <2>6, <2>7, Zenon
  <2> QED BY <1>1, <1>2, <2>3, <2>4, <2>9, <2>10, HandledKeeps, Zenon
<1> QED BY <1>1, <1>6, <1>7, Zenon

\* Nothing is under way and nothing pending after a crash.
LEMMA CrashKeeps ==
  ASSUME WInv, Crash
  PROVE  WInv'
<1>1. /\ running' = FALSE /\ crashes < MaxCrashes /\ crashes' = crashes + 1
      /\ pipe' = <<>> /\ pendingOrders' = <<>>
      /\ telemetry_fd' = IF telemetry_fd = "open" THEN "broken" ELSE telemetry_fd
      /\ audit' = NoRecord /\ UNCHANGED <<wire, streams, odd, history>>
  BY Zenon DEF Crash
<1>2. /\ sess' = sess /\ passed' = passed /\ returned' = returned /\ over' = over
      /\ order_stream' = order_stream /\ ack_stream' = ack_stream
      /\ odd' = odd /\ got' = got /\ seen' = seen /\ losses' = losses /\ tainted' = tainted
      /\ mishaps' = mishaps
  BY <1>1, Zenon DEF wire, streams, history
<1>3. DOMAIN <<>> = {} /\ 1 = Len(<<>>) + 1 /\ <<>> \in Seq(Message) /\ <<>> \in Seq(Line)
  OBVIOUS
<1>4. Pairing'
  <2>1. \A i : i \notin DOMAIN pipe'
    BY <1>1, <1>3, Zenon
  <2>2. \A m : LastIs(1, m)'
    BY <1>1, LastNone, Zenon
  <2>3. 1 = Len(pipe') + 1
    BY <1>1, <1>3, Zenon
  <2> QED BY <2>1, <2>2, <2>3, PairingFrom, Zenon
<1>5. Own' /\ Dropped' /\ AuditPairs'
  BY <1>1, <1>2, Zenon DEF WInv, Own, Dropped, AuditPairs
<1>6. Aligned'
  <2>1. Half(passed)' = Half(passed) /\ Half(returned)' = Half(returned)
    BY <1>2, Zenon DEF Half, At
  <2> QED BY <1>2, <2>1, Zenon DEF WInv, Aligned
<1>7. TypeOK'
  <2>1. crashes' \in 0..MaxCrashes
    <3>1. crashes \in 0..MaxCrashes
      BY Zenon DEF WInv, TypeOK
    <3> QED BY <1>1, <3>1, Bounds
  <2>2. telemetry_fd' \in {"due", "closed", "open", "broken"} /\ running' \in BOOLEAN
    BY <1>1, Zenon DEF WInv, TypeOK
  <2>3. Len(pendingOrders') <= MaxPending
    BY <1>1, Bounds
  <2>4. pipe' \in Seq([kind : {"order", "ack"}, msg : Message]) /\ pendingOrders' \in Seq(Message)
    BY <1>1, <1>3, Zenon DEF Line
  <2>5. /\ \A i : i \notin DOMAIN pendingOrders'
        /\ audit' \in [order : Message, ack : Message] \cup {NoRecord}
    BY <1>1, <1>3, Zenon
  <2> QED BY <1>2, <2>1, <2>2, <2>3, <2>4, <2>5, ZenonT(30) DEF WInv, TypeOK
<1> QED BY <1>4, <1>5, <1>6, <1>7, Zenon DEF WInv

\* Steps that change nothing but whether the service runs.
LEMMA StartKeeps ==
  ASSUME WInv, running' \in BOOLEAN, audit' \in {audit, NoRecord},
         UNCHANGED <<wire, streams, telemetry_fd, pipe, crashes, pendingOrders, odd, history>>
  PROVE  WInv'
<1>1. /\ sess' = sess /\ passed' = passed /\ returned' = returned /\ over' = over
      /\ order_stream' = order_stream /\ ack_stream' = ack_stream /\ mishaps' = mishaps
      /\ telemetry_fd' = telemetry_fd /\ pipe' = pipe /\ crashes' = crashes
      /\ pendingOrders' = pendingOrders
      /\ odd' = odd /\ got' = got /\ seen' = seen /\ losses' = losses /\ tainted' = tainted
  BY Zenon DEF wire, streams, history
<1>2. Pairing'
  BY <1>1, PairingSame, Zenon DEF WInv
<1>3. Own' /\ Dropped' /\ AuditPairs'
  BY <1>1, Zenon DEF WInv, Own, Dropped, AuditPairs
<1>4. Aligned'
  <2>1. Half(passed)' = Half(passed) /\ Half(returned)' = Half(returned)
    BY <1>1, Zenon DEF Half, At
  <2> QED BY <1>1, <2>1, Zenon DEF WInv, Aligned
<1>5. TypeOK'
  <2>1. audit' \in [order : Message, ack : Message] \cup {NoRecord}
    BY Zenon DEF WInv, TypeOK
  <2> QED BY <1>1, <2>1, ZenonT(30) DEF WInv, TypeOK
<1> QED BY <1>2, <1>3, <1>4, <1>5, Zenon DEF WInv

-----------------------------------------------------------------------------
(* The invariant and what follows from it. *)

LEMMA WInvInit == Init => WInv
<1> SUFFICES ASSUME Init PROVE WInv
  OBVIOUS
<1>1. /\ sess = 1 /\ passed = 0 /\ returned = 0 /\ over = {} /\ order_stream = <<>> /\ ack_stream = <<>>
      /\ telemetry_fd = "due" /\ pipe = <<>> /\ running \in BOOLEAN /\ crashes = 0
      /\ pendingOrders = <<>> /\ audit = NoRecord /\ odd \in SUBSET Numbers
      /\ got = {} /\ seen = {} /\ losses = 0 /\ tainted = {} /\ mishaps = 0
  BY Zenon DEF Init
<1>2. /\ DOMAIN <<>> = {} /\ Len(<<>>) = 0 /\ 0 <= 1 /\ 0 <= MaxPending
      /\ <<>> \in Seq(Message) /\ <<>> \in Seq(Line) /\ <<>> \in Seq(Piece)
  BY Bounds
<1>3. /\ 1 \in Sessions /\ 0 \in 0..(2 * NumOrders) /\ 0 \in 0..0 /\ 0 \in Nat
      /\ 0 \in 0..MaxCrashes /\ 0 \div 2 = 0 /\ 0 % 2 # 1 /\ 1..0 = {}
      /\ 0 \in 0..MaxMishaps
  BY Bounds, ObserverAssumption DEF Sessions
<1>4. Own /\ Dropped /\ AuditPairs
  BY <1>1, <1>2, Zenon DEF Own, Dropped, AuditPairs
<1>5. Aligned
  BY <1>1, <1>3, Zenon DEF Aligned, Half
<1>6. Pairing
  <2>1. \A q : q \notin 1..(passed \div 2)
    BY <1>1, <1>3, Zenon
  <2> QED BY <1>1, <1>2, <2>1, Zenon DEF Pairing
<1>7. TypeOK
  <2>1. pipe \in Seq([kind : {"order", "ack"}, msg : Message])
    BY <1>1, <1>2, Zenon DEF Line
  <2>2. /\ sess \in Sessions /\ passed \in 0..(2 * NumOrders) /\ returned \in 0..passed
        /\ crashes \in 0..MaxCrashes /\ mishaps \in 0..MaxMishaps /\ losses \in 0..mishaps
    BY <1>1, <1>3, Zenon
  <2>3. /\ telemetry_fd \in {"due", "closed", "open", "broken"} /\ running \in BOOLEAN
        /\ odd \subseteq Numbers /\ got \subseteq Piece /\ seen \subseteq Numbers
        /\ tainted \subseteq Sessions /\ over \subseteq {"orders", "acks"}
        /\ audit \in [order : Message, ack : Message] \cup {NoRecord}
    BY <1>1, Zenon
  <2>4. \A q \in {order_stream, ack_stream} : q \in Seq(Piece) /\ Len(q) <= 1
    BY <1>1, <1>2, Zenon
  <2>5. /\ pendingOrders \in Seq(Message) /\ Len(pendingOrders) <= MaxPending
        /\ \A i : i \notin DOMAIN pendingOrders
    BY <1>1, <1>2, Zenon
  <2> QED BY <2>1, <2>2, <2>3, <2>4, <2>5, ZenonT(30) DEF TypeOK
<1> QED BY <1>4, <1>5, <1>6, <1>7, Zenon DEF WInv

LEMMA WInvNext == WInv /\ [Next]_vars => WInv'
<1> SUFFICES ASSUME WInv, [Next]_vars PROVE WInv'
  OBVIOUS
<1>1. CASE OrderSegment
  BY <1>1, OrderSegmentKeeps, Zenon
<1>2. CASE AckSegment
  BY <1>2, AckSegmentKeeps, Zenon
<1>3. CASE OrdersMissed
  BY <1>3, OrdersMissedKeeps, Zenon
<1>4. CASE AcksMissed
  BY <1>4, AcksMissedKeeps, Zenon
<1>5. CASE NewConnection
  BY <1>5, NewConnectionKeeps, Zenon
<1>6. CASE HandleOrder
  BY <1>6, HandleOrderKeeps, Zenon
<1>7. CASE HandleAck
  BY <1>7, HandleAckKeeps, Zenon
<1>8. CASE Crash
  BY <1>8, CrashKeeps, Zenon
<1>9. CASE Start
  <2>1. /\ running' \in BOOLEAN /\ audit' \in {audit, NoRecord}
        /\ UNCHANGED <<wire, streams, telemetry_fd, pipe, crashes, pendingOrders, odd, history>>
    BY <1>9, Zenon DEF Start
  <2> QED BY <2>1, StartKeeps, Zenon
<1>10. CASE UNCHANGED vars
  <2>1. running \in BOOLEAN
    BY WInvParts, Zenon DEF Lines
  <2>2. /\ running' = running /\ audit' \in {audit, NoRecord}
        /\ UNCHANGED <<wire, streams, telemetry_fd, pipe, crashes, pendingOrders, odd, history>>
    BY <1>10, Zenon DEF vars, service
  <2>3. running' \in BOOLEAN
    BY <2>1, <2>2, Zenon
  <2> QED BY <2>2, <2>3, StartKeeps, Zenon
<1>11. CASE ControlSegment
  BY <1>11, ControlSegmentKeeps, Zenon
<1> QED BY <1>1, <1>2, <1>3, <1>4, <1>5, <1>6, <1>7, <1>8, <1>9, <1>10, <1>11, Zenon DEF Next

\* The invariant holds in every state the observer and the service reach.
THEOREM ObserverInvariant == Spec => []WInv
BY WInvInit, WInvNext, PTL DEF Spec

\* However TCP cuts the stream, and whatever clears the streams, drain_orders finds
\* every order of a connection unless its orders were disturbed.
THEOREM ObserverEveryOrderSeen == Spec => []EveryOrderSeen
<1>1. WInv => EveryOrderSeen
  BY Zenon DEF WInv, Aligned, EveryOrderSeen
<1> QED BY <1>1, ObserverInvariant, PTL

\* emitOrderAckAudit pairs every ACK with the order it answers, unless the ACK's
\* connection was disturbed.
THEOREM ObserverAuditMatches == Spec => []AuditMatches
<1>1. WInv => AuditMatches
  BY Zenon DEF WInv, AuditPairs, AuditMatches
<1> QED BY <1>1, ObserverInvariant, PTL

=============================================================================

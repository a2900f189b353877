----------------------------- MODULE FeedProofs -----------------------------
(***************************************************************************)
(* Proofs about Feed: the number of a message is its place in the file,    *)
(* packets are sound, and what is sent is in the rewinder's cache, for     *)
(* every file, every way reads cut it and every size of the buffers.       *)
(***************************************************************************)
EXTENDS Feed, FiniteSetTheorems, WellFoundedInduction, TLAPS

\* A set of numbers that is not empty has a least member.
LEMMA LeastOf ==
  ASSUME NEW T, T \subseteq Nat, T # {}
  PROVE  \E x \in T : \A y \in T : x <= y
<1> DEFINE R == OpToRel(<, Nat)
<1>1. \E x \in T : \A y \in T : ~ (<<y, x>> \in R)
  BY NatLessThanWellFounded, WFMin, Zenon
<1>2. \A x, y \in Nat : ~(<<y, x>> \in R) => ~(y < x)
  BY Zenon DEF OpToRel
<1> HIDE DEF R
<1>3. PICK x \in T : \A y \in T : ~(y < x)
  BY <1>1, <1>2, Zenon
<1>4. \A y \in T : x <= y
  BY <1>3
<1> QED BY <1>4, Zenon

\* A set of numbers without 0 that, with n + 1, contains n, is empty.
LEMMA Induction ==
  ASSUME NEW T, T \subseteq Nat, 0 \notin T, \A n \in Nat : n + 1 \in T => n \in T
  PROVE  T = {}
<1> SUFFICES ASSUME T # {} PROVE FALSE
  BY Zenon
<1>1. PICK x \in T : \A y \in T : x <= y
  BY LeastOf, Zenon
<1>2. PICK n \in Nat : x = n + 1
  <2>1. x \in Nat /\ x # 0
    BY Zenon
  <2>2. x - 1 \in Nat /\ x = (x - 1) + 1
    BY <2>1
  <2> QED BY <2>2, Zenon
<1>3. n \in T
  BY <1>2, Zenon
<1>4. x <= n
  BY <1>1, <1>3, Zenon
<1> QED BY <1>2, <1>4

-----------------------------------------------------------------------------
(* Lengths. *)

\* What a file is made of.
LEMMA FileFacts ==
  ASSUME file \in Files
  PROVE  /\ Len(file) \in Nat /\ DOMAIN file = 1..Len(file)
         /\ \A m \in 1..Len(file) :
              /\ file[m].size \in Nat \ {0} /\ file[m].ts \in Times
              /\ 2 + file[m].size <= MaxPayload /\ 2 + file[m].size <= BufSize
<1>1. PICK n \in 0..MaxMessages : file \in [1..n -> [size : Sizes, ts : Times]]
  BY DEF Files
<1>2. MaxMessages \in Nat /\ n \in Nat
  BY <1>1, FeedAssumption
<1>3. DOMAIN file = 1..n /\ Len(file) = n
  BY <1>1, <1>2
<1>4. ASSUME NEW m \in 1..n
      PROVE  /\ file[m].size \in Nat \ {0} /\ file[m].ts \in Times
             /\ 2 + file[m].size <= MaxPayload /\ 2 + file[m].size <= BufSize
  <2>1. file[m].size \in Sizes /\ file[m].ts \in Times
    BY <1>1
  <2>2. file[m].size \in Nat \ {0}
    BY <2>1, FeedAssumption, Zenon
  <2>3. 2 + file[m].size \in Lengths
    BY <2>1 DEF Lengths
  <2> QED BY <2>1, <2>2, <2>3, FeedAssumption
<1> QED BY <1>2, <1>3, <1>4, Zenon

\* f runs through the lengths of the first messages of q.
Adds(q, f) ==
  f = [k \in 0..Len(q) |-> IF k = 0 THEN 0 ELSE f[k - 1] + 2 + file[q[k]].size]

\* One step of the sum.
LEMMA AddsStep ==
  ASSUME NEW q, Len(q) \in Nat, NEW f, Adds(q, f)
  PROVE  f[0] = 0 /\ \A n \in Nat : n + 1 <= Len(q) => f[n + 1] = f[n] + 2 + file[q[n + 1]].size
<1>1. ASSUME NEW k \in 0..Len(q)
      PROVE  f[k] = IF k = 0 THEN 0 ELSE f[k - 1] + 2 + file[q[k]].size
  BY Zenon DEF Adds
<1>2. f[0] = 0
  <2>1. 0 \in 0..Len(q)
    OBVIOUS
  <2> QED BY <1>1, <2>1, Zenon
<1>3. ASSUME NEW n \in Nat, n + 1 <= Len(q)
      PROVE  f[n + 1] = f[n] + 2 + file[q[n + 1]].size
  <2>1. PICK k : k = n + 1
    OBVIOUS
  <2>2. k \in 0..Len(q) /\ k # 0 /\ k - 1 = n
    BY <1>3, <2>1
  <2>3. f[k] = f[k - 1] + 2 + file[q[k]].size
    BY <1>1, <2>2, Zenon
  <2> QED BY <2>1, <2>2, <2>3, Zenon
<1> QED BY <1>2, <1>3, Zenon

\* The sums of two payloads agree as long as the payloads do, and are numbers.
LEMMA AddsAgree ==
  ASSUME file \in Files, NEW q \in Seq(1..Len(file)), NEW r \in Seq(1..Len(file)),
         NEW f, NEW g, Adds(q, f), Adds(r, g),
         NEW j \in Nat, j <= Len(q), j <= Len(r), \A k \in 1..j : q[k] = r[k]
  PROVE  f[j] = g[j] /\ f[j] \in Nat
<1> DEFINE T == {n \in 0..j : ~(f[n] = g[n] /\ f[n] \in Nat)}
<1>0. Len(q) \in Nat /\ Len(r) \in Nat
  OBVIOUS
<1>1. 0 \notin T
  BY <1>0, AddsStep
<1>2. ASSUME NEW n \in Nat, n + 1 \in T PROVE n \in T
  <2>1. n \in 0..j /\ n + 1 \in 1..j /\ n + 1 <= Len(q) /\ n + 1 <= Len(r) /\ n + 1 \in 1..Len(q)
    <3>1. n + 1 \in 0..j
      BY <1>2, Zenon
    <3> HIDE DEF T
    <3> QED BY <1>0, <3>1
  <2>2. f[n + 1] = f[n] + 2 + file[q[n + 1]].size /\ g[n + 1] = g[n] + 2 + file[q[n + 1]].size
    <3>1. f[n + 1] = f[n] + 2 + file[q[n + 1]].size
      BY <1>0, <2>1, AddsStep, Zenon
    <3>2. g[n + 1] = g[n] + 2 + file[r[n + 1]].size
      BY <1>0, <2>1, AddsStep, Zenon
    <3>3. q[n + 1] = r[n + 1]
      BY <2>1, Zenon
    <3> QED BY <3>1, <3>2, <3>3, Zenon
  <2>3. q[n + 1] \in 1..Len(file)
    BY <2>1
  <2>4. file[q[n + 1]].size \in Nat
    <3>1. file[q[n + 1]].size \in Nat \ {0}
      BY <2>3, FileFacts, Zenon
    <3> QED BY <3>1
  <2>5. f[n] = g[n] /\ f[n] \in Nat => f[n + 1] = g[n + 1] /\ f[n + 1] \in Nat
    <3> SUFFICES ASSUME f[n] = g[n], f[n] \in Nat
                 PROVE  f[n + 1] = g[n + 1] /\ f[n + 1] \in Nat
      BY Zenon
    <3>1. f[n + 1] = g[n + 1]
      BY <2>2, Zenon
    <3>2. f[n] + 2 + file[q[n + 1]].size \in Nat
      <4>1. PICK c \in Nat : c = file[q[n + 1]].size
        BY <2>4, Zenon
      <4>2. PICK d \in Nat : d = f[n]
        BY Zenon
      <4>3. d + 2 + c \in Nat
        OBVIOUS
      <4> QED BY <4>1, <4>2, <4>3, Zenon
    <3> QED BY <2>2, <3>1, <3>2, Zenon
  <2> QED BY <1>2, <2>1, <2>5, Zenon
<1>3. T \subseteq Nat
  OBVIOUS
<1>4. T = {}
  <2> HIDE DEF T
  <2> QED BY <1>1, <1>2, <1>3, Induction, Zenon
<1>5. j \in 0..j
  OBVIOUS
<1> QED BY <1>4, <1>5, Zenon

\* Every payload has such sums.
LEMMA AddsExist ==
  ASSUME file \in Files, NEW q \in Seq(1..Len(file))
  PROVE  \E f : Adds(q, f)
<1> DEFINE Sums(n, f) ==
      /\ f \in [0..n -> Nat]
      /\ \A k \in 0..n : f[k] = IF k = 0 THEN 0 ELSE f[k - 1] + 2 + file[q[k]].size
<1> DEFINE T == {n \in 0..Len(q) : ~\E f : Sums(n, f)}
<1>0. Len(q) \in Nat
  OBVIOUS
<1>1. 0 \notin T
  <2>1. Sums(0, [k \in 0..0 |-> 0])
    OBVIOUS
  <2> QED BY <2>1, Zenon
<1>2. ASSUME NEW n \in Nat, n + 1 \in T PROVE n \in T
  <2>1. n + 1 \in 0..Len(q)
    BY <1>2, Zenon
  <2>2. n \in 0..Len(q) /\ n + 1 \in 1..Len(q)
    <3> HIDE DEF T
    <3> QED BY <1>0, <2>1
  <2>3. ASSUME NEW f, Sums(n, f) PROVE \E g : Sums(n + 1, g)
    <3>1. PICK c : c = file[q[n + 1]].size
      OBVIOUS
    <3>2. q[n + 1] \in 1..Len(file)
      BY <2>2
    <3>3. c \in Nat \ {0}
      BY <3>1, <3>2, FileFacts, Zenon
    <3>4. f[n] \in Nat
      BY <2>3
    <3> DEFINE g == [k \in 0..(n + 1) |-> IF k = n + 1 THEN f[n] + 2 + c ELSE f[k]]
    <3>5. g \in [0..(n + 1) -> Nat]
      BY <2>3, <3>3, <3>4
    <3>6. ASSUME NEW k \in 0..(n + 1)
          PROVE  g[k] = IF k = 0 THEN 0 ELSE g[k - 1] + 2 + file[q[k]].size
      <4>1. CASE k = n + 1
        BY <3>1, <4>1
      <4>2. CASE k # n + 1
        BY <2>3, <4>2
      <4> QED BY <4>1, <4>2, Zenon
    <3> HIDE DEF g
    <3> QED BY <3>5, <3>6, Zenon
  <2> QED BY <1>2, <2>2, <2>3, Zenon
<1>3. T \subseteq Nat
  OBVIOUS
<1>4. T = {}
  <2> HIDE DEF T
  <2> QED BY <1>1, <1>2, <1>3, Induction, Zenon
<1>5. Len(q) \in 0..Len(q)
  OBVIOUS
<1>6. PICK f : Sums(Len(q), f)
  BY <1>4, <1>5, Zenon
<1>7. DOMAIN f = 0..Len(q) /\ f = [k \in 0..Len(q) |-> f[k]]
  BY <1>6
<1>8. f = [k \in 0..Len(q) |-> IF k = 0 THEN 0 ELSE f[k - 1] + 2 + file[q[k]].size]
  BY <1>6, <1>7, Zenon
<1> QED BY <1>8, Zenon DEF Adds

\* Length is the last of these sums.
LEMMA LengthAdds ==
  ASSUME file \in Files, NEW q \in Seq(1..Len(file))
  PROVE  \E f : Adds(q, f) /\ Length(q) = f[Len(q)]
<1> DEFINE used == CHOOSE f : Adds(q, f)
<1>1. Adds(q, used)
  BY AddsExist, Zenon
<1>2. Length(q) = used[Len(q)]
  BY Zenon DEF Length, Adds
<1> QED BY <1>1, <1>2, Zenon

\* The length of no message, of one more message, and of one message.
LEMMA LengthEmpty ==
  ASSUME file \in Files
  PROVE  Length(<<>>) = 0
<1>1. <<>> \in Seq(1..Len(file)) /\ Len(<<>>) = 0
  OBVIOUS
<1>2. PICK f : Adds(<<>>, f) /\ Length(<<>>) = f[Len(<<>>)]
  BY <1>1, LengthAdds, Zenon
<1>3. f[0] = 0
  BY <1>1, <1>2, AddsStep
<1> QED BY <1>1, <1>2, <1>3, Zenon

LEMMA LengthAppend ==
  ASSUME file \in Files, NEW q \in Seq(1..Len(file)), NEW m \in 1..Len(file)
  PROVE  Length(q) \in Nat /\ Length(Append(q, m)) = Length(q) + 2 + file[m].size
<1>1. PICK r : r = Append(q, m)
  BY Zenon
<1>2. PICK n \in Nat : n = Len(q)
  OBVIOUS
<1>3. /\ r \in Seq(1..Len(file)) /\ Len(r) = n + 1 /\ r[n + 1] = m
      /\ \A k \in 1..n : q[k] = r[k]
  BY <1>1, <1>2
<1>4. PICK f : Adds(q, f) /\ Length(q) = f[n]
  BY <1>2, LengthAdds, Zenon
<1>5. PICK g : Adds(r, g) /\ Length(r) = g[n + 1]
  BY <1>3, LengthAdds, Zenon
<1>6. n <= Len(q) /\ n <= Len(r) /\ n + 1 <= Len(r) /\ Len(r) \in Nat
  BY <1>2, <1>3
<1>7. f[n] = g[n] /\ f[n] \in Nat
  BY <1>3, <1>4, <1>5, <1>6, AddsAgree, Zenon
<1>8. g[n + 1] = g[n] + 2 + file[m].size
  BY <1>3, <1>5, <1>6, AddsStep, Zenon
<1> QED BY <1>1, <1>4, <1>5, <1>7, <1>8, Zenon

LEMMA LengthNat ==
  ASSUME file \in Files, NEW q \in Seq(1..Len(file))
  PROVE  Length(q) \in Nat
<1>1. PICK f : Adds(q, f) /\ Length(q) = f[Len(q)]
  BY LengthAdds, Zenon
<1>2. PICK n \in Nat : n = Len(q)
  OBVIOUS
<1>3. n <= Len(q) /\ \A k \in 1..n : q[k] = q[k]
  BY <1>2
<1>4. f[n] \in Nat
  BY <1>1, <1>2, <1>3, AddsAgree, Zenon
<1> QED BY <1>1, <1>2, <1>4, Zenon

LEMMA LengthOne ==
  ASSUME file \in Files, NEW m \in 1..Len(file)
  PROVE  Length(<<m>>) = 2 + file[m].size
<1>1. <<>> \in Seq(1..Len(file)) /\ <<m>> = Append(<<>>, m)
  OBVIOUS
<1>2. Length(<<m>>) = 0 + 2 + file[m].size
  BY <1>1, LengthEmpty, LengthAppend, Zenon
<1>3. file[m].size \in Nat \ {0}
  BY FileFacts, Zenon
<1> QED BY <1>2, <1>3

-----------------------------------------------------------------------------
(* Runs of messages. *)

\* The messages from a to b, and one more.
LEMMA MessagesFacts ==
  ASSUME Len(file) \in Nat, NEW a \in Nat \ {0}, NEW b \in Nat, a <= b + 1, b <= Len(file)
  PROVE  /\ Messages(a, b) \in Seq(1..Len(file)) /\ Len(Messages(a, b)) = b - a + 1
         /\ \A j \in 1..(b - a + 1) : Messages(a, b)[j] = a + j - 1
<1>1. PICK n \in Nat : n = b - a + 1
  OBVIOUS
<1>2. PICK q : q = [k \in 1..n |-> a + k - 1]
  BY Zenon
<1>3. \A k \in 1..n : a + k - 1 \in 1..Len(file)
  BY <1>1
<1>4. q \in Seq(1..Len(file)) /\ Len(q) = n /\ \A j \in 1..n : q[j] = a + j - 1
  BY <1>2, <1>3
<1> QED BY <1>1, <1>2, <1>4, Zenon DEF Messages

LEMMA MessagesAppend ==
  ASSUME Len(file) \in Nat, NEW a \in Nat \ {0}, NEW b \in Nat, a <= b + 1, b + 1 <= Len(file)
  PROVE  Messages(a, b + 1) = Append(Messages(a, b), b + 1)
<1>1. PICK n \in Nat : n = b - a + 1 /\ n + 1 = (b + 1) - a + 1
  OBVIOUS
<1>2. PICK q : q = [k \in 1..n |-> a + k - 1]
  BY Zenon
<1>3. PICK r : r = [k \in 1..(n + 1) |-> a + k - 1]
  BY Zenon
<1>4. q \in Seq(Int) /\ Len(q) = n /\ r \in Seq(Int) /\ Len(r) = n + 1
  BY <1>2, <1>3
<1>5. /\ Append(q, b + 1) \in Seq(Int) /\ Len(Append(q, b + 1)) = n + 1
      /\ \A k \in 1..(n + 1) : Append(q, b + 1)[k] = r[k]
  <2>1. PICK m \in Int : m = b + 1
    OBVIOUS
  <2>2. /\ Append(q, m) \in Seq(Int) /\ Len(Append(q, m)) = n + 1
        /\ Append(q, m)[n + 1] = m /\ \A k \in 1..n : Append(q, m)[k] = q[k]
    BY <1>4
  <2>3. r[n + 1] = m /\ \A k \in 1..n : q[k] = r[k]
    BY <1>1, <1>2, <1>3, <2>1
  <2>4. \A k \in 1..(n + 1) : k \in 1..n \/ k = n + 1
    OBVIOUS
  <2> QED BY <2>1, <2>2, <2>3, <2>4, Zenon
<1>6. Append(q, b + 1) = r
  <2>1. PICK s \in Seq(Int) : s = Append(q, b + 1)
    BY <1>5, Zenon
  <2>2. Len(s) = Len(r) /\ \A k \in 1..Len(s) : s[k] = r[k]
    BY <1>4, <1>5, <2>1, Zenon
  <2>3. s = r
    BY <1>4, <2>2
  <2> QED BY <2>1, <2>3, Zenon
<1> QED BY <1>1, <1>2, <1>3, <1>6, Zenon DEF Messages

\* Bytes adds up the lengths of the messages.
LEMMA BytesNat ==
  ASSUME file \in Files, NEW a \in Nat \ {0}, NEW b \in Nat, a <= b + 1, b <= Len(file)
  PROVE  Bytes(a, b) \in Nat
BY FileFacts, MessagesFacts, LengthNat, Zenon DEF Bytes

LEMMA BytesNext ==
  ASSUME file \in Files, NEW a \in Nat \ {0}, NEW b \in Nat, a <= b + 1, b + 1 <= Len(file)
  PROVE  Bytes(a, b + 1) = Bytes(a, b) + 2 + file[b + 1].size
<1>1. Len(file) \in Nat
  BY FileFacts, Zenon
<1>2. b <= Len(file) /\ b + 1 \in 1..Len(file)
  BY <1>1
<1>3. PICK q \in Seq(1..Len(file)) : q = Messages(a, b)
  BY <1>1, <1>2, MessagesFacts, Zenon
<1>4. Messages(a, b + 1) = Append(q, b + 1)
  BY <1>1, <1>3, MessagesAppend, Zenon
<1>5. Length(Append(q, b + 1)) = Length(q) + 2 + file[b + 1].size
  BY <1>2, <1>3, LengthAppend, Zenon
<1> QED BY <1>3, <1>4, <1>5, Zenon DEF Bytes

LEMMA BytesNone ==
  ASSUME file \in Files, NEW b \in Nat
  PROVE  Bytes(b + 1, b) = 0
<1>1. Messages(b + 1, b) = <<>>
  BY DEF Messages
<1> QED BY <1>1, LengthEmpty, Zenon DEF Bytes

\* One message, and the bytes before a message and with it.
LEMMA BytesOne ==
  ASSUME file \in Files, NEW b \in Nat, b + 1 <= Len(file)
  PROVE  /\ Bytes(b + 1, b + 1) = 2 + file[b + 1].size
         /\ Bytes(1, b + 1) = Bytes(1, b) + 2 + file[b + 1].size
<1>1. b + 1 \in Nat \ {0} /\ b + 1 <= b + 1 /\ 1 \in Nat \ {0} /\ 1 <= b + 1
  OBVIOUS
<1>2. Bytes(b + 1, b + 1) = 0 + 2 + file[b + 1].size
  BY <1>1, BytesNext, BytesNone, Zenon
<1>3. b + 1 \in 1..Len(file)
  BY FileFacts
<1>4. file[b + 1].size \in Nat \ {0}
  BY <1>3, FileFacts, Zenon
<1>5. 0 + 2 + file[b + 1].size = 2 + file[b + 1].size
  BY <1>4
<1> QED BY <1>1, <1>2, <1>5, BytesNext, Zenon


\* The file grows with every message.
LEMMA BytesMonotone ==
  ASSUME file \in Files, NEW a \in Nat, NEW b \in Nat, a <= b, b <= Len(file)
  PROVE  Bytes(1, a) <= Bytes(1, b)
<1>0. Len(file) \in Nat
  BY FileFacts, Zenon
<1> DEFINE T == {n \in Nat : a + n <= Len(file) /\ ~(Bytes(1, a) <= Bytes(1, a + n))}
<1>1. ASSUME NEW n \in Nat, n <= Len(file) PROVE Bytes(1, n) \in Nat
  <2>1. 1 \in Nat \ {0} /\ 1 <= n + 1
    OBVIOUS
  <2> QED BY <1>1, <2>1, BytesNat, Zenon
<1>2. 0 \notin T
  <2>1. a <= Len(file) /\ a + 0 = a
    BY <1>0
  <2>2. Bytes(1, a) \in Nat
    BY <1>1, <2>1, Zenon
  <2>3. Bytes(1, a) <= Bytes(1, a)
    BY <2>2
  <2> QED BY <2>1, <2>3, Zenon
<1>3. ASSUME NEW n \in Nat, n + 1 \in T PROVE n \in T
  <2>1. a + (n + 1) <= Len(file) /\ ~(Bytes(1, a) <= Bytes(1, a + (n + 1)))
    BY <1>3, Zenon
  <2> HIDE DEF T
  <2>2. PICK m \in Nat : m = a + n /\ m + 1 = a + (n + 1)
    OBVIOUS
  <2>3. m + 1 <= Len(file) /\ m <= Len(file) /\ a <= Len(file) /\ m + 1 \in 1..Len(file)
    BY <1>0, <2>1, <2>2
  <2>4. Bytes(1, m + 1) = Bytes(1, m) + 2 + file[m + 1].size
    BY <2>3, BytesOne, Zenon
  <2>5. file[m + 1].size \in Nat \ {0}
    BY <2>3, FileFacts, Zenon
  <2>6. Bytes(1, a) \in Nat /\ Bytes(1, m) \in Nat
    BY <1>1, <2>3, Zenon
  <2>7. Bytes(1, a) <= Bytes(1, m) => Bytes(1, a) <= Bytes(1, m + 1)
    BY <2>4, <2>5, <2>6
  <2> QED BY <2>1, <2>2, <2>3, <2>7, Zenon DEF T
<1>4. T = {}
  <2>1. T \subseteq Nat
    OBVIOUS
  <2> HIDE DEF T
  <2> QED BY <1>2, <1>3, <2>1, Induction, Zenon
<1>5. PICK n \in Nat : b = a + n
  <2>1. b - a \in Nat /\ b = a + (b - a)
    OBVIOUS
  <2> QED BY <2>1, Zenon
<1> QED BY <1>4, <1>5, Zenon

-----------------------------------------------------------------------------
(* Places in the file. *)

\* The place of a message.
LEMMA RankNext ==
  /\ Rank(0) = 0
  /\ \A m \in Nat : /\ Rank(m) \in Nat
                    /\ Rank(m + 1) = Rank(m) + IF Sends(m + 1) THEN 1 ELSE 0
<1>1. Rank(0) = 0
  <2>1. {x \in 1..0 : Sends(x)} = {}
    OBVIOUS
  <2> QED BY <2>1, FS_EmptySet, Zenon DEF Rank
<1>2. ASSUME NEW m \in Nat
      PROVE  Rank(m) \in Nat /\ Rank(m + 1) = Rank(m) + IF Sends(m + 1) THEN 1 ELSE 0
  <2>1. PICK S : S = {x \in 1..m : Sends(x)}
    BY Zenon
  <2>2. IsFiniteSet(S) /\ m + 1 \notin S
    <3>1. IsFiniteSet(1..m) /\ S \in SUBSET (1..m)
      BY <2>1, FS_Interval
    <3>2. m + 1 \notin 1..m
      OBVIOUS
    <3> QED BY <3>1, <3>2, FS_Subset, Zenon
  <2>3. Cardinality(S) \in Nat
    BY <2>2, FS_CardinalityType, Zenon
  <2>4. CASE Sends(m + 1)
    <3>1. {x \in 1..(m + 1) : Sends(x)} = S \cup {m + 1}
      BY <2>1, <2>4
    <3>2. Cardinality(S \cup {m + 1}) = Cardinality(S) + 1
      BY <2>2, FS_AddElement, Zenon
    <3> QED BY <2>1, <2>3, <2>4, <3>1, <3>2, Zenon DEF Rank
  <2>5. CASE ~Sends(m + 1)
    <3>1. {x \in 1..(m + 1) : Sends(x)} = S
      BY <2>1, <2>5
    <3>2. Cardinality(S) = Cardinality(S) + 0
      BY <2>3
    <3> QED BY <2>1, <2>3, <2>5, <3>1, <3>2, Zenon DEF Rank
  <2> QED BY <2>4, <2>5, Zenon
<1> QED BY <1>1, <1>2, Zenon

\* bulk_feed sends every message.
LEMMA RankBulk ==
  ASSUME mode # "timestamp", NEW m \in Nat
  PROVE  Rank(m) = m
<1>1. {x \in 1..m : Sends(x)} = 1..m
  BY DEF Sends
<1>2. Cardinality(1..m) = m
  BY FS_Interval
<1> QED BY <1>1, <1>2, Zenon DEF Rank


-----------------------------------------------------------------------------
(* The inductive invariant. *)

\* The number that follows those of the cached packets.
After == IF pc = "send" THEN seq + Len(packet) ELSE seq

\* The numbers of the packets follow on, and the number of a message is its
\* place in the file.
Numbered ==
  /\ \A k \in DOMAIN cached : \A j \in DOMAIN cached[k].msgs :
       /\ Sends(cached[k].msgs[j])
       /\ cached[k].seq + j - 1 = Rank(cached[k].msgs[j])
  /\ \A k \in DOMAIN cached :
       cached[k].seq = IF k = 1 THEN 1 ELSE cached[k - 1].seq + Len(cached[k - 1].msgs)
  /\ After = IF cached = <<>> THEN 1 ELSE cached[Len(cached)].seq + Len(cached[Len(cached)].msgs)

\* The messages q can be sent with the number seq.
Due(q) == \A j \in DOMAIN q : Sends(q[j]) /\ seq + j - 1 = Rank(q[j])

\* A payload that keeps to the size and, with timestamps, to one time.
SoundPayload(q) ==
  /\ q # <<>> /\ Length(q) <= MaxPayload
  /\ mode = "timestamp" => \A j \in DOMAIN q : file[q[j]].ts = file[q[1]].ts

AllSound == \A k \in DOMAIN cached : SoundPayload(cached[k].msgs)

InPacket(m) == \E j \in DOMAIN packet : packet[j] = m

\* Messages that were passed over are cached or in hand.
Taken == \A m \in 1..(next - 1) : Sends(m) => IsCached(m) \/ InPacket(m)

\* How far the feed is in each phase.
Phase ==
  /\ pc \in {"read", "pack"} => mode # "timestamp" /\ seq = next /\ packet = <<>>
  /\ pc = "message" => mode = "timestamp"
  /\ pc \in {"message", "cache", "send"} =>
       /\ Due(packet) /\ seq + Len(packet) = Rank(next - 1) + 1
       /\ packet # <<>> => SoundPayload(packet)
  /\ pc \in {"cache", "send"} => packet # <<>>
  /\ pc = "read" => ~Fits(next)
  /\ pc \in {"end", "done"} => next = Len(file) + 1 /\ seq = Rank(Len(file)) + 1 /\ packet = <<>>
  /\ eos = IF pc = "done" THEN seq ELSE 0

\* The cache has every number given so far, and what is on the wire.
Covers ==
  /\ \A n \in 1..(After - 1) : Covered(n)
  /\ \A k \in DOMAIN cached : cached[k].seq + Len(cached[k].msgs) <= After
  /\ \A i \in DOMAIN wire : \E k \in DOMAIN cached : cached[k] = wire[i]
  /\ pc = "send" => \E k \in DOMAIN cached : cached[k] = Outgoing

FInv == TypeOK /\ Numbered /\ AllSound /\ Taken /\ Phase /\ Covers

-----------------------------------------------------------------------------
(* Caching and sending. *)

\* What is said of the file alone does not change.
LEMMA SameInput ==
  ASSUME UNCHANGED input
  PROVE  /\ \A m : Sends(m)' <=> Sends(m)
         /\ \A m : Rank(m)' = Rank(m)
         /\ \A q : Length(q)' = Length(q)
         /\ \A a, b : Bytes(a, b)' = Bytes(a, b)
         /\ \A q : SoundPayload(q)' <=> SoundPayload(q)
         /\ Len(file') = Len(file) /\ file' = file /\ mode' = mode /\ FileSize' = FileSize
<1>1. mode' = mode /\ file' = file /\ extra' = extra
  BY Zenon DEF input
<1>2. \A m : Sends(m)' <=> Sends(m)
  BY <1>1, Zenon DEF Sends
<1>3. \A m : Rank(m)' = Rank(m)
  BY <1>1, Zenon DEF Rank, Sends
<1>4. \A q : Length(q)' = Length(q)
  BY <1>1, Zenon DEF Length
<1>5. \A a, b : Bytes(a, b)' = Bytes(a, b)
  BY <1>4, Zenon DEF Bytes, Messages
<1>6. \A q : SoundPayload(q)' <=> SoundPayload(q)
  BY <1>1, <1>4, Zenon DEF SoundPayload
<1>7. FileSize' = FileSize
  BY <1>1, Zenon DEF FileSize, Bytes, Length
<1> QED BY <1>1, <1>2, <1>3, <1>4, <1>5, <1>6, <1>7, Zenon

\* The messages q are put in the cache.
Caches(q) == cached' = Append(cached, [seq |-> seq, msgs |-> q])

\* The cache after rewinder_cache_packet.
LEMMA EmitCached ==
  ASSUME TypeOK, NEW q, Caches(q)
  PROVE  /\ Len(cached) \in Nat /\ Len(cached') = Len(cached) + 1
         /\ DOMAIN cached = 1..Len(cached) /\ DOMAIN cached' = 1..(Len(cached) + 1)
         /\ Len(cached) + 1 \in DOMAIN cached'
         /\ cached'[Len(cached) + 1] = [seq |-> seq, msgs |-> q]
         /\ cached'[Len(cached) + 1].seq = seq /\ cached'[Len(cached) + 1].msgs = q
         /\ \A k \in 1..Len(cached) : cached'[k] = cached[k]
         /\ \A k \in DOMAIN cached' : k \in DOMAIN cached \/ k = Len(cached) + 1
         /\ DOMAIN cached \subseteq DOMAIN cached'
<1>1. PICK r : r = [seq |-> seq, msgs |-> q]
  BY Zenon
<1>f. r.seq = seq /\ r.msgs = q
  BY <1>1
<1>2. cached' = Append(cached, r) /\ cached \in Seq(Packet)
  BY <1>1, Zenon DEF Caches, TypeOK
<1>3. Len(cached) \in Nat /\ DOMAIN cached = 1..Len(cached)
  BY <1>2
<1>4. /\ Len(cached') = Len(cached) + 1 /\ DOMAIN cached' = 1..(Len(cached) + 1)
      /\ cached'[Len(cached) + 1] = r
      /\ \A k \in 1..Len(cached) : cached'[k] = cached[k]
  BY <1>2
<1>5. /\ \A k \in 1..(Len(cached) + 1) : k \in 1..Len(cached) \/ k = Len(cached) + 1
      /\ Len(cached) + 1 \in 1..(Len(cached) + 1)
      /\ 1..Len(cached) \subseteq 1..(Len(cached) + 1)
  BY <1>3
<1> QED BY <1>1, <1>f, <1>3, <1>4, <1>5, Zenon

\* The cached messages after rewinder_cache_packet.
LEMMA EmitHolds ==
  ASSUME TypeOK, NEW q, Caches(q)
  PROVE  /\ \A m : IsCached(m) => IsCached(m)'
         /\ \A j \in DOMAIN q : IsCached(q[j])'
<1>1. ASSUME NEW m, IsCached(m) PROVE IsCached(m)'
  <2>1. PICK k \in DOMAIN cached : \E i \in DOMAIN cached[k].msgs : cached[k].msgs[i] = m
    BY <1>1, Zenon DEF IsCached
  <2>2. k \in DOMAIN cached' /\ cached'[k] = cached[k]
    BY EmitCached, Zenon
  <2>3. \E l \in DOMAIN cached' : \E i \in DOMAIN cached'[l].msgs : cached'[l].msgs[i] = m
    BY <2>1, <2>2, Zenon
  <2> QED BY <2>3, Zenon DEF IsCached
<1>2. ASSUME NEW j \in DOMAIN q PROVE IsCached(q[j])'
  <2>1. Len(cached) + 1 \in DOMAIN cached'
    BY EmitCached, Zenon
  <2>2. cached'[Len(cached) + 1].msgs = q
    BY EmitCached, Zenon
  <2>3. \E k \in DOMAIN cached' : \E i \in DOMAIN cached'[k].msgs : cached'[k].msgs[i] = q[j]
    BY <1>2, <2>1, <2>2, Zenon
  <2> QED BY <2>3, Zenon DEF IsCached
<1> QED BY <1>1, <1>2, Zenon

\* The payloads stay sound.
LEMMA EmitSound ==
  ASSUME TypeOK, AllSound, NEW q, Caches(q), UNCHANGED input, SoundPayload(q)
  PROVE  AllSound'
<1> SUFFICES ASSUME NEW k \in DOMAIN cached' PROVE SoundPayload(cached[k].msgs)'
  BY Zenon DEF AllSound
<1>1. PICK p : p = cached'[k].msgs
  OBVIOUS
<1>2. SoundPayload(p)
  <2>1. CASE k \in DOMAIN cached
    <3>1. p = cached[k].msgs
      BY <1>1, <2>1, EmitCached, Zenon
    <3> QED BY <2>1, <3>1, Zenon DEF AllSound
  <2>2. CASE k = Len(cached) + 1
    <3>1. p = q
      BY <1>1, <2>2, EmitCached, Zenon
    <3> QED BY <3>1, Zenon
  <2> QED BY <2>1, <2>2, EmitCached, Zenon
<1>3. SoundPayload(p)'
  BY <1>2, SameInput, Zenon
<1> QED BY <1>1, <1>3, Zenon DEF SoundPayload


\* How often a packet is sent.
LEMMA CopiesFacts == Copies \in 0..2
BY DEF Copies

\* Two sequences one after the other.
LEMMA Concat ==
  ASSUME NEW S, NEW u \in Seq(S), NEW v \in Seq(S)
  PROVE  /\ u \o v \in Seq(S) /\ Len(u \o v) = Len(u) + Len(v)
         /\ \A i \in 1..(Len(u) + Len(v)) :
              (u \o v)[i] = IF i <= Len(u) THEN u[i] ELSE v[i - Len(u)]
OBVIOUS

\* One more at the end of a sequence.
LEMMA Appended ==
  ASSUME NEW S, NEW u \in Seq(S), NEW x \in S
  PROVE  /\ Append(u, x) \in Seq(S) /\ Append(u, x) # <<>>
         /\ Len(Append(u, x)) = Len(u) + 1 /\ DOMAIN Append(u, x) = 1..(Len(u) + 1)
         /\ Append(u, x)[Len(u) + 1] = x /\ \A j \in 1..Len(u) : Append(u, x)[j] = u[j]
OBVIOUS

\* The wire after sendto.
LEMMA EmitSends ==
  ASSUME TypeOK, Send, NEW r \in Packet, r = Outgoing
  PROVE  /\ wire' \in Seq(Packet)
         /\ \A i \in DOMAIN wire' : (i \in DOMAIN wire /\ wire'[i] = wire[i]) \/ wire'[i] = r
<1>1. PICK n \in Nat : n = Copies
  BY CopiesFacts
<1>2. PICK c : c = [k \in 1..n |-> r]
  BY Zenon
<1>3. wire' = wire \o c
  BY <1>1, <1>2, Zenon DEF Send
<1>4. c \in Seq(Packet) /\ Len(c) = n /\ \A k \in 1..n : c[k] = r
  BY <1>2
<1>5. wire \in Seq(Packet)
  BY Zenon DEF TypeOK
<1>6. PICK l \in Nat : l = Len(wire) /\ DOMAIN wire = 1..l
  BY <1>5
<1> HIDE DEF TypeOK
<1>7. wire' \in Seq(Packet) /\ Len(wire') = l + n
  BY <1>3, <1>4, <1>5, <1>6, Concat, Zenon
<1>8. DOMAIN wire' = 1..(l + n)
  BY <1>7
<1>9. \A i \in 1..(l + n) : wire'[i] = IF i <= l THEN wire[i] ELSE c[i - l]
  <2>1. \A i \in 1..(Len(wire) + Len(c)) :
          (wire \o c)[i] = IF i <= Len(wire) THEN wire[i] ELSE c[i - Len(wire)]
    BY <1>4, <1>5, Concat, Zenon
  <2> QED BY <1>3, <1>4, <1>6, <2>1, Zenon
<1>10. ASSUME NEW i \in 1..l PROVE i \in 1..(l + n) /\ wire'[i] = wire[i]
  <2>1. i \in 1..(l + n) /\ i <= l
    OBVIOUS
  <2> QED BY <1>9, <2>1, Zenon
<1>11. ASSUME NEW i \in 1..(l + n), i \notin 1..l PROVE wire'[i] = r
  <2>1. ~(i <= l) /\ i - l \in 1..n
    BY <1>11
  <2> QED BY <1>4, <1>9, <2>1, Zenon
<1> QED BY <1>6, <1>7, <1>8, <1>10, <1>11, Zenon

\* The types of a packet and of the cache.
LEMMA EmitTypes ==
  ASSUME TypeOK, NEW q \in Seq(1..Len(file)), Caches(q)
  PROVE  /\ [seq |-> seq, msgs |-> q] \in Packet /\ cached' \in Seq(Packet)
         /\ Len(q) \in Nat /\ seq + Len(q) \in Nat \ {0}
<1>1. Len(file) \in Nat /\ seq \in Nat \ {0} /\ cached \in Seq(Packet)
  BY FileFacts, Zenon DEF TypeOK
<1>2. q \in Seq(Nat \ {0})
  BY <1>1
<1>3. [seq |-> seq, msgs |-> q] \in Packet
  BY <1>1, <1>2 DEF Packet
<1>4. PICK r \in Packet : r = [seq |-> seq, msgs |-> q]
  BY <1>3, Zenon
<1>5. cached' = Append(cached, r)
  BY <1>4, Zenon DEF Caches
<1>6. cached' \in Seq(Packet)
  BY <1>1, <1>4, <1>5
<1>7. Len(q) \in Nat /\ seq + Len(q) \in Nat \ {0}
  BY <1>1, <1>2
<1> QED BY <1>3, <1>6, <1>7, Zenon

\* A number below s + c is below s or among the c numbers from s.
LEMMA BelowOrIn ==
  ASSUME NEW s \in Nat, NEW c \in Nat, NEW n \in 1..(s + c - 1)
  PROVE  n \in 1..(s - 1) \/ n \in s..(s + c - 1)
OBVIOUS

\* More can be asked for after rewinder_cache_packet: the numbers of the packet too.
LEMMA EmitCovers ==
  ASSUME TypeOK, Covers, After = seq, NEW q \in Seq(1..Len(file)), Caches(q),
         After' = seq + Len(q)
  PROVE  /\ \A n \in 1..(After' - 1) : Covered(n)'
         /\ \A k \in DOMAIN cached' : cached'[k].seq + Len(cached'[k].msgs) <= After'
         /\ \E k \in DOMAIN cached' : cached'[k] = [seq |-> seq, msgs |-> q]
         /\ \A k \in DOMAIN cached : k \in DOMAIN cached' /\ cached'[k] = cached[k]
<1>1. /\ Len(cached) + 1 \in DOMAIN cached' /\ cached'[Len(cached) + 1].seq = seq
      /\ cached'[Len(cached) + 1].msgs = q
      /\ cached'[Len(cached) + 1] = [seq |-> seq, msgs |-> q]
      /\ \A k \in DOMAIN cached : k \in DOMAIN cached' /\ cached'[k] = cached[k]
      /\ \A k \in DOMAIN cached' : k \in DOMAIN cached \/ k = Len(cached) + 1
  BY EmitCached, Zenon
<1>2. PICK s \in Nat, c \in Nat : s = seq /\ c = Len(q)
  <2>1. seq \in Nat
    <3>1. seq \in Nat \ {0}
      BY Zenon DEF TypeOK
    <3> QED BY <3>1
  <2> QED BY <2>1, EmitTypes, Zenon
<1>3. ASSUME NEW n \in 1..(After' - 1)
      PROVE  \E k \in DOMAIN cached' : n \in cached'[k].seq..(cached'[k].seq + Len(cached'[k].msgs) - 1)
  <2>1. n \in 1..(s + c - 1)
    <3>1. After' = s + c
      BY <1>2, Zenon
    <3> QED BY <1>3, <3>1
  <2>2. CASE n \in 1..(s - 1)
    <3>1. PICK k \in DOMAIN cached : n \in cached[k].seq..(cached[k].seq + Len(cached[k].msgs) - 1)
      BY <1>2, <2>2, Zenon DEF Covers, Covered
    <3> QED BY <1>1, <3>1, Zenon
  <2>3. CASE n \in s..(s + c - 1)
    BY <1>1, <1>2, <2>3, Zenon
  <2> QED BY <2>1, <2>2, <2>3, BelowOrIn, Zenon
<1>4. ASSUME NEW k \in DOMAIN cached' PROVE cached'[k].seq + Len(cached'[k].msgs) <= After'
  <2>1. CASE k \in DOMAIN cached
    <3>1. PICK x \in Nat : x = cached[k].seq + Len(cached[k].msgs)
      <4>1. cached[k] \in Packet
        <5>1. cached \in Seq(Packet)
          BY Zenon DEF TypeOK
        <5> QED BY <2>1, <5>1
      <4>2. PICK a \in Nat \ {0}, b \in Seq(Nat \ {0}) : a = cached[k].seq /\ b = cached[k].msgs
        BY <4>1 DEF Packet
      <4>3. a + Len(b) \in Nat
        OBVIOUS
      <4> QED BY <4>2, <4>3, Zenon
    <3>2. x <= s
      BY <1>2, <2>1, <3>1, Zenon DEF Covers
    <3>3. x <= s + c
      BY <3>2
    <3> QED BY <1>1, <1>2, <2>1, <3>1, <3>3, Zenon
  <2>2. CASE k = Len(cached) + 1
    <3>1. s + c <= s + c
      OBVIOUS
    <3> QED BY <1>1, <1>2, <2>2, <3>1, Zenon
  <2> QED BY <1>1, <1>4, <2>1, <2>2, Zenon
<1> QED BY <1>1, <1>3, <1>4, Zenon DEF Covered

\* The numbers follow on.
LEMMA EmitNumbered ==
  ASSUME TypeOK, Numbered, After = seq, NEW q \in Seq(1..Len(file)), Due(q), Caches(q),
         UNCHANGED input, After' = seq + Len(q)
  PROVE  Numbered'
<1>0. PICK n \in Nat : n = Len(cached)
  BY EmitCached, Zenon
<1>1. /\ DOMAIN cached = 1..n /\ DOMAIN cached' = 1..(n + 1) /\ Len(cached') = n + 1
      /\ n + 1 \in DOMAIN cached' /\ cached'[n + 1].seq = seq /\ cached'[n + 1].msgs = q
      /\ \A k \in 1..n : cached'[k] = cached[k]
      /\ \A k \in DOMAIN cached' : k \in 1..n \/ k = n + 1
  BY <1>0, EmitCached, Zenon
<1>2. ASSUME NEW k \in DOMAIN cached', NEW j \in DOMAIN cached'[k].msgs
      PROVE  Sends(cached'[k].msgs[j]) /\ cached'[k].seq + j - 1 = Rank(cached'[k].msgs[j])
  <2>1. CASE k \in 1..n
    <3>1. PICK i : i = j
      OBVIOUS
    <3>2. k \in DOMAIN cached /\ i \in DOMAIN cached[k].msgs /\ cached'[k] = cached[k]
      BY <1>1, <1>2, <2>1, <3>1, Zenon
    <3>3. Sends(cached[k].msgs[i]) /\ cached[k].seq + i - 1 = Rank(cached[k].msgs[i])
      BY <3>2, Zenon DEF Numbered
    <3> QED BY <3>1, <3>2, <3>3, Zenon
  <2>2. CASE k = n + 1
    <3>1. PICK i : i = j
      OBVIOUS
    <3>2. i \in DOMAIN q
      BY <1>1, <1>2, <2>2, <3>1, Zenon
    <3>3. Sends(q[i]) /\ seq + i - 1 = Rank(q[i])
      BY <3>2, Zenon DEF Due
    <3> QED BY <1>1, <2>2, <3>1, <3>3, Zenon
  <2> QED BY <1>1, <2>1, <2>2, Zenon
<1>3. ASSUME NEW k \in DOMAIN cached'
      PROVE  cached'[k].seq = IF k = 1 THEN 1 ELSE cached'[k - 1].seq + Len(cached'[k - 1].msgs)
  <2>1. CASE k \in 1..n
    <3>1. k = 1 \/ k - 1 \in 1..n
      BY <2>1
    <3> QED BY <1>1, <2>1, <3>1, Zenon DEF Numbered
  <2>2. CASE k = n + 1 /\ n = 0
    <3>1. cached = <<>>
      <4>1. cached \in Seq(Packet)
        BY Zenon DEF TypeOK
      <4>2. Len(cached) = 0
        BY <1>0, <2>2, Zenon
      <4> QED BY <4>1, <4>2
    <3>2. k = 1
      BY <2>2
    <3> QED BY <1>1, <2>2, <3>1, <3>2, Zenon DEF Numbered
  <2>3. CASE k = n + 1 /\ n # 0
    <3>1. k # 1 /\ k - 1 = n /\ n \in 1..n
      BY <2>3
    <3>2. cached # <<>>
      BY <1>0, <2>3
    <3> QED BY <1>0, <1>1, <2>3, <3>1, <3>2, Zenon DEF Numbered
  <2> QED BY <1>1, <2>1, <2>2, <2>3, Zenon
<1>4. After' = cached'[n + 1].seq + Len(cached'[n + 1].msgs) /\ cached' # <<>>
  <2>1. cached' # <<>>
    BY <1>1
  <2> QED BY <1>1, <2>1, Zenon
<1>5. ASSUME NEW k \in DOMAIN cached', NEW j \in DOMAIN cached'[k].msgs
      PROVE  Sends(cached[k].msgs[j])' /\ cached'[k].seq + j - 1 = Rank(cached[k].msgs[j])'
  <2>1. PICK m : m = cached'[k].msgs[j]
    OBVIOUS
  <2>2. Sends(m)' /\ cached'[k].seq + j - 1 = Rank(m)'
    BY <1>2, <1>5, <2>1, SameInput, Zenon
  <2> QED BY <2>1, <2>2, Zenon DEF Sends, Rank
<1> QED BY <1>1, <1>3, <1>4, <1>5, Zenon DEF Numbered

-----------------------------------------------------------------------------
(* The steps. *)

\* What a step must keep in range to keep the types.
LEMMA TypesNext ==
  ASSUME TypeOK, UNCHANGED input,
         have' \in 0..FileSize, next' \in 1..(Len(file) + 1),
         mode # "timestamp" => have' - Bytes(1, next' - 1) \in 0..BufSize,
         packet' \in Seq(1..Len(file)), seq' \in Nat \ {0},
         pc' \in {"read", "pack", "message", "cache", "send", "end", "done"},
         cached' \in Seq(Packet), wire' \in Seq(Packet), eos' \in Nat
  PROVE  TypeOK'
<1>1. file' = file /\ mode' = mode /\ extra' = extra /\ FileSize' = FileSize
  BY SameInput, Zenon DEF input
<1>2. Leftover' = have' - Bytes(1, next' - 1)
  BY <1>1, ZenonT(30) DEF Leftover, Bytes, Length
<1>3. mode \in {"normal", "lossy", "chaotic", "timestamp"} /\ file \in Files /\ extra \in Extra
  BY Zenon DEF TypeOK
<1>4. have' \in 0..FileSize' /\ next' \in 1..(Len(file') + 1) /\ packet' \in Seq(1..Len(file'))
      /\ (mode' # "timestamp" => Leftover' \in 0..BufSize)
  BY <1>1, <1>2, Zenon
<1>5. mode' \in {"normal", "lossy", "chaotic", "timestamp"} /\ file' \in Files /\ extra' \in Extra
  BY <1>1, <1>3, Zenon
<1> QED BY <1>4, <1>5, Zenon DEF TypeOK, Packet, Files

\* A step that caches nothing leaves what is said of the cache.
LEMMA CacheSame ==
  ASSUME UNCHANGED input, cached' = cached, After' = After, Numbered, AllSound, Covers
  PROVE  /\ Numbered' /\ AllSound' /\ \A m : IsCached(m)' <=> IsCached(m)
         /\ \A n \in 1..(After' - 1) : Covered(n)'
         /\ \A k \in DOMAIN cached' : cached'[k].seq + Len(cached'[k].msgs) <= After'
<1>2. ASSUME NEW k \in DOMAIN cached', NEW j \in DOMAIN cached'[k].msgs
      PROVE  Sends(cached[k].msgs[j])' /\ cached'[k].seq + j - 1 = Rank(cached[k].msgs[j])'
  <2>1. PICK m : m = cached[k].msgs[j]
    OBVIOUS
  <2>2. Sends(m) /\ cached[k].seq + j - 1 = Rank(m)
    BY <1>2, <2>1, Zenon DEF Numbered
  <2>3. Sends(m)' /\ cached'[k].seq + j - 1 = Rank(m)'
    BY <2>2, SameInput, Zenon
  <2> QED BY <2>1, <2>3, Zenon DEF Sends, Rank
<1>3. Numbered'
  BY <1>2, Zenon DEF Numbered
<1>4. ASSUME NEW k \in DOMAIN cached' PROVE SoundPayload(cached[k].msgs)'
  <2>1. PICK p : p = cached[k].msgs
    OBVIOUS
  <2>2. SoundPayload(p)'
    BY <1>4, <2>1, SameInput, Zenon DEF AllSound
  <2> QED BY <2>1, <2>2, Zenon DEF SoundPayload
<1>5. AllSound'
  BY <1>4, Zenon DEF AllSound
<1>6. /\ \A n \in 1..(After' - 1) : Covered(n)'
      /\ \A k \in DOMAIN cached' : cached'[k].seq + Len(cached'[k].msgs) <= After'
  BY Zenon DEF Covers, Covered
<1>7. \A m : IsCached(m)' <=> IsCached(m)
  BY Zenon DEF IsCached
<1> QED BY <1>3, <1>5, <1>6, <1>7, Zenon

\* A step that neither caches nor sends leaves what is said of the packets.
LEMMA SendsNothing ==
  ASSUME UNCHANGED <<input, seq, cached, wire>>, pc # "send", pc' # "send",
         Numbered, AllSound, Covers
  PROVE  Numbered' /\ AllSound' /\ Covers' /\ \A m : IsCached(m)' <=> IsCached(m)
<1>1. UNCHANGED input /\ seq' = seq /\ cached' = cached /\ wire' = wire
  BY Zenon
<1>2. After' = After
  BY <1>1, Zenon DEF After
<1>3. /\ Numbered' /\ AllSound' /\ \A m : IsCached(m)' <=> IsCached(m)
      /\ \A n \in 1..(After' - 1) : Covered(n)'
      /\ \A k \in DOMAIN cached' : cached'[k].seq + Len(cached'[k].msgs) <= After'
  BY <1>1, <1>2, CacheSame, Zenon
<1>4. \A i \in DOMAIN wire' : \E k \in DOMAIN cached' : cached'[k] = wire'[i]
  BY <1>1, Zenon DEF Covers
<1> QED BY <1>3, <1>4, Zenon DEF Covers

\* Messages that were passed over stay cached or in hand.
LEMMA TakenSame ==
  ASSUME Taken, UNCHANGED input, next' = next, packet' = packet,
         \A m : IsCached(m) => IsCached(m)'
  PROVE  Taken'
<1> SUFFICES ASSUME NEW m \in 1..(next' - 1), Sends(m)' PROVE IsCached(m)' \/ InPacket(m)'
  BY Zenon DEF Taken
<1>1. m \in 1..(next - 1) /\ Sends(m)
  BY SameInput, Zenon
<1>2. IsCached(m) \/ InPacket(m)
  BY <1>1, Zenon DEF Taken
<1> QED BY <1>2, Zenon DEF InPacket

\* The types one by one.
LEMMA TypeParts ==
  ASSUME TypeOK
  PROVE  /\ file \in Files /\ have \in 0..FileSize /\ next \in 1..(Len(file) + 1)
         /\ packet \in Seq(1..Len(file)) /\ seq \in Nat \ {0} /\ eos \in Nat
         /\ cached \in Seq(Packet) /\ wire \in Seq(Packet)
         /\ mode # "timestamp" => Leftover \in 0..BufSize
BY Zenon DEF TypeOK

\* Sizes are numbers.
LEMMA SizesAreNat ==
  ASSUME TypeOK
  PROVE  /\ Len(file) \in Nat /\ next \in Nat \ {0} /\ next - 1 \in Nat /\ next <= Len(file) + 1
         /\ FileSize \in Nat /\ have \in Nat /\ have <= FileSize /\ BufSize \in Nat
         /\ Bytes(1, next - 1) \in Nat /\ Leftover \in Int
         /\ Bytes(1, Len(file)) \in Nat /\ FileSize = Bytes(1, Len(file)) + extra
         /\ extra \in Nat /\ extra < BufSize
<1>1. file \in Files /\ have \in 0..FileSize /\ next \in 1..(Len(file) + 1) /\ extra \in Extra
  BY Zenon DEF TypeOK
<1>2. Len(file) \in Nat
  BY <1>1, FileFacts, Zenon
<1>3. next \in Nat \ {0} /\ next - 1 \in Nat /\ next <= Len(file) + 1
      /\ 1 <= (next - 1) + 1 /\ next - 1 <= Len(file) /\ 1 <= Len(file) + 1
      /\ Len(file) <= Len(file) /\ 1 \in Nat \ {0}
  BY <1>1, <1>2
<1>4. Bytes(1, next - 1) \in Nat /\ Bytes(1, Len(file)) \in Nat
  BY <1>1, <1>2, <1>3, BytesNat, Zenon
<1>5. extra \in Nat /\ extra < BufSize /\ BufSize \in Nat
  BY <1>1, FeedAssumption
<1>6. FileSize = Bytes(1, Len(file)) + extra
  BY Zenon DEF FileSize
<1>7. FileSize \in Nat
  BY <1>4, <1>5, <1>6
<1>8. have \in Nat /\ have <= FileSize
  BY <1>1, <1>7
<1>9. Leftover = have - Bytes(1, next - 1)
  BY Zenon DEF Leftover
<1>10. Leftover \in Int
  BY <1>4, <1>8, <1>9
<1> QED BY <1>2, <1>3, <1>4, <1>5, <1>6, <1>7, <1>8, <1>10, Zenon

\* Before the first read nothing is packed.
LEMMA InitInv == ASSUME Init PROVE FInv
<1>1. /\ mode \in {"normal", "lossy", "chaotic", "timestamp"} /\ file \in Files /\ extra \in Extra
      /\ have = 0 /\ next = 1 /\ packet = <<>> /\ seq = 1
      /\ pc = (IF mode = "timestamp" THEN "message" ELSE "read")
      /\ cached = <<>> /\ wire = <<>> /\ eos = 0
  BY Zenon DEF Init
<1>2. Len(file) \in Nat
  BY <1>1, FileFacts, Zenon
<1>3. next - 1 = 0 /\ next \in 1..(Len(file) + 1) /\ 1..(next - 1) = {} /\ 0 + 1 = 1
      /\ BufSize \in Nat /\ 0 \in 0..BufSize
  BY <1>1, <1>2, FeedAssumption
<1>4. Bytes(1, next - 1) = 0
  BY <1>1, <1>3, BytesNone, Zenon
<1>5. Leftover = 0
  <2>1. Leftover = 0 - 0
    BY <1>1, <1>4, Zenon DEF Leftover
  <2> QED BY <2>1
<1>6. have \in 0..FileSize
  <2>1. 1 \in Nat \ {0} /\ 1 <= Len(file) + 1 /\ Len(file) <= Len(file)
    BY <1>2
  <2>2. Bytes(1, Len(file)) \in Nat
    BY <1>1, <1>2, <2>1, BytesNat, Zenon
  <2>3. FileSize = Bytes(1, Len(file)) + extra /\ extra \in Nat
    BY <1>1, FeedAssumption DEF FileSize
  <2> QED BY <1>1, <2>2, <2>3
<1>7. /\ packet \in Seq(1..Len(file)) /\ cached \in Seq(Packet) /\ wire \in Seq(Packet)
      /\ DOMAIN packet = {} /\ DOMAIN cached = {} /\ DOMAIN wire = {} /\ Len(packet) = 0
      /\ seq \in Nat \ {0} /\ eos \in Nat
  BY <1>1
<1>8. TypeOK
  BY <1>1, <1>3, <1>5, <1>6, <1>7, Zenon DEF TypeOK
<1>9. Numbered /\ AllSound /\ Taken /\ Covers
  <2>1. pc # "send"
    BY <1>1
  <2>2. After = 1
    BY <1>1, <2>1, Zenon DEF After
  <2>3. 1..(After - 1) = {}
    BY <2>2
  <2> QED BY <1>1, <1>3, <1>7, <2>1, <2>2, <2>3, Zenon DEF Numbered, AllSound, Taken, Covers
<1>10. ASSUME Fits(next) PROVE FALSE
  <2>1. next <= Len(file) /\ Bytes(1, next) <= have
    BY <1>10, Zenon DEF Fits
  <2>2. 0 \in Nat /\ 0 + 1 <= Len(file) /\ next \in 1..Len(file)
    BY <1>1, <1>2, <2>1
  <2>3. Bytes(0 + 1, 0 + 1) = 2 + file[0 + 1].size
    BY <1>1, <2>2, BytesOne, Zenon
  <2>4. Bytes(1, next) = 2 + file[next].size
    BY <1>1, <1>3, <2>3, Zenon
  <2>5. file[next].size \in Nat \ {0}
    BY <1>1, <2>2, FileFacts, Zenon
  <2> QED BY <1>1, <2>1, <2>4, <2>5
<1>11. seq + Len(packet) = Rank(next - 1) + 1
  <2>1. Rank(next - 1) = 0
    BY <1>3, RankNext, Zenon
  <2> QED BY <1>1, <1>7, <2>1
<1>12. Due(packet)
  BY <1>7, Zenon DEF Due
<1>13. Phase
  <2>1. pc \notin {"end", "done"} /\ (pc \in {"read", "pack"} => mode # "timestamp")
        /\ (pc = "message" => mode = "timestamp") /\ pc # "done" /\ pc \notin {"cache", "send"}
    BY <1>1
  <2> QED BY <1>1, <1>10, <1>11, <1>12, <2>1, Zenon DEF Phase
<1> QED BY <1>8, <1>9, <1>13, Zenon DEF FInv

\* In bulk_feed the next number is the next message's place, and between packets
\* none is in hand.
LEMMA BulkPhase ==
  ASSUME Phase, pc = "read" \/ pc = "pack"
  PROVE  mode # "timestamp" /\ seq = next /\ packet = <<>> /\ pc # "done" /\ eos = 0
<1>1. pc \in {"read", "pack"} /\ pc # "done"
  OBVIOUS
<1> QED BY <1>1, Zenon DEF Phase

\* Whether the next message fits depends on what is read and packed only.
LEMMA SameFits ==
  ASSUME UNCHANGED input, have' = have, next' = next
  PROVE  Fits(next)' <=> Fits(next)
<1>1. file' = file
  BY Zenon DEF input
<1>n. PICK n : n = next /\ n = next'
  BY Zenon
<1>2. Bytes(1, next)' = Bytes(1, next)
  <2>1. Bytes(1, n)' = Bytes(1, n)
    BY SameInput, Zenon
  <2>2. Bytes(1, next)' = Bytes(1, n)'
    BY <1>n, Zenon DEF Bytes
  <2> QED BY <1>n, <2>1, <2>2, Zenon
<1>3. Bytes(next, next)' = Bytes(next, next)
  <2>1. Bytes(n, n)' = Bytes(n, n)
    BY SameInput, Zenon
  <2>2. Bytes(next, next)' = Bytes(n, n)'
    BY <1>n, Zenon DEF Bytes
  <2> QED BY <1>n, <2>1, <2>2, Zenon
<1> QED BY <1>1, <1>2, <1>3, Zenon DEF Fits

\* What is added below a bound stays in its range.
LEMMA UpTo ==
  ASSUME NEW h \in Nat, NEW n \in Nat, NEW f \in Nat, h + n <= f
  PROVE  h + n \in 0..f
<1>1. PICK s \in Nat : s = h + n /\ s <= f
  OBVIOUS
<1> QED BY <1>1

\* A read keeps the invariant: it adds what there is room for.
LEMMA ReadKeeps == ASSUME FInv, Read PROVE FInv'
<1>1. TypeOK /\ Numbered /\ AllSound /\ Taken /\ Phase /\ Covers
  BY Zenon DEF FInv
<1>2. /\ pc = "read" /\ pc' = "pack" /\ UNCHANGED <<input, seq, cached, wire>> /\ UNCHANGED input
      /\ next' = next /\ packet' = packet /\ seq' = seq /\ cached' = cached /\ wire' = wire
      /\ eos' = eos
  BY Zenon DEF Read
<1>3. PICK n \in 1..(BufSize - Leftover) : have + n <= FileSize /\ have' = have + n
  BY Zenon DEF Read
<1>4. /\ next \in 1..(Len(file) + 1) /\ packet \in Seq(1..Len(file)) /\ seq \in Nat \ {0}
      /\ cached \in Seq(Packet) /\ wire \in Seq(Packet) /\ eos \in Nat
      /\ (mode # "timestamp" => Leftover \in 0..BufSize)
  BY <1>1, TypeParts, Zenon
<1>5. mode # "timestamp" /\ seq = next /\ packet = <<>> /\ eos = 0
  BY <1>1, <1>2, BulkPhase, Zenon
<1>6. have' \in 0..FileSize
  <2>1. PICK f \in Nat, h \in Nat : f = FileSize /\ h = have
    BY <1>1, SizesAreNat, Zenon
  <2>2. h + n <= f /\ have' = h + n
    BY <1>3, <2>1, Zenon
  <2>3. n \in Nat
    <3>1. BufSize - Leftover \in Int
      <4>1. BufSize \in Nat /\ Leftover \in Int
        BY <1>1, SizesAreNat, Zenon
      <4> QED BY <4>1
    <3>2. PICK d \in Int : d = BufSize - Leftover
      BY <3>1, Zenon
    <3>3. n \in 1..d
      BY <1>3, <3>2, Zenon
    <3> QED BY <3>3
  <2>4. h + n \in 0..f
    BY <2>1, <2>2, <2>3, UpTo, Zenon
  <2> QED BY <2>1, <2>2, <2>4, Zenon
<1>7. have' - Bytes(1, next' - 1) \in 0..BufSize
  <2>1. PICK b \in Nat : b = Bytes(1, next - 1)
    BY <1>1, SizesAreNat, Zenon
  <2>2. Leftover = have - b /\ Bytes(1, next' - 1) = b
    BY <1>2, <2>1, Zenon DEF Leftover
  <2>3. have \in Nat /\ BufSize \in Nat /\ Leftover \in 0..BufSize
    BY <1>1, <1>4, <1>5, SizesAreNat, Zenon
  <2> QED BY <1>3, <2>2, <2>3
<1>8. TypeOK'
  <2>1. pc' \in {"read", "pack", "message", "cache", "send", "end", "done"}
    BY <1>2
  <2> QED BY <1>1, <1>2, <1>4, <1>6, <1>7, <2>1, TypesNext, Zenon
<1>9. Numbered' /\ AllSound' /\ Covers' /\ \A m : IsCached(m)' <=> IsCached(m)
  <2>1. pc # "send" /\ pc' # "send"
    BY <1>2
  <2> QED BY <1>1, <1>2, <2>1, SendsNothing, Zenon
<1>10. Taken'
  BY <1>1, <1>2, <1>9, TakenSame, Zenon
<1>11. Phase'
  <2>1. /\ pc' \notin {"message", "cache", "send"} /\ pc' # "read" /\ pc' \notin {"end", "done"}
        /\ pc' # "done" /\ pc' # "message" /\ pc' \notin {"cache", "send"}
    BY <1>2
  <2>2. mode' # "timestamp" /\ seq' = next' /\ packet' = <<>> /\ eos' = 0
    BY <1>2, <1>5, SameInput, Zenon
  <2> QED BY <2>1, <2>2, Zenon DEF Phase
<1> QED BY <1>8, <1>9, <1>10, <1>11, Zenon DEF FInv

\* A step that moves no message keeps the types.
LEMMA SameTypes ==
  ASSUME TypeOK, UNCHANGED input, have' = have, next' = next, packet' = packet, seq' = seq,
         cached' = cached, wire' = wire, eos' \in Nat,
         pc' \in {"read", "pack", "message", "cache", "send", "end", "done"}
  PROVE  TypeOK'
<1>1. /\ have \in 0..FileSize /\ next \in 1..(Len(file) + 1) /\ packet \in Seq(1..Len(file))
      /\ (mode # "timestamp" => have - Bytes(1, next - 1) \in 0..BufSize)
      /\ seq \in Nat \ {0} /\ cached \in Seq(Packet) /\ wire \in Seq(Packet)
  BY Zenon DEF TypeOK, Leftover
<1>2. /\ have' \in 0..FileSize /\ next' \in 1..(Len(file) + 1) /\ packet' \in Seq(1..Len(file))
      /\ (mode # "timestamp" => have' - Bytes(1, next' - 1) \in 0..BufSize)
      /\ seq' \in Nat \ {0} /\ cached' \in Seq(Packet) /\ wire' \in Seq(Packet)
  BY <1>1, Zenon
<1> HIDE DEF TypeOK
<1> QED BY <1>2, TypesNext, Zenon

\* The end of the packing loop keeps the invariant.
LEMMA PackEndsKeeps == ASSUME FInv, PackEnds PROVE FInv'
<1>1. TypeOK /\ Numbered /\ AllSound /\ Taken /\ Phase /\ Covers
  BY Zenon DEF FInv
<1>2. /\ pc = "pack" /\ pc' = "read" /\ UNCHANGED <<input, seq, cached, wire>> /\ UNCHANGED input
      /\ next' = next /\ packet' = packet /\ seq' = seq /\ cached' = cached /\ wire' = wire
      /\ eos' = eos /\ have' = have /\ ~Fits(next)
  BY Zenon DEF PackEnds
<1>3. mode # "timestamp" /\ seq = next /\ packet = <<>> /\ eos = 0
  BY <1>1, <1>2, BulkPhase, Zenon
<1>4. TypeOK'
  <2>1. pc' \in {"read", "pack", "message", "cache", "send", "end", "done"}
    BY <1>2
  <2>2. eos' \in Nat
    <3>1. eos \in Nat
      BY <1>1, TypeParts, Zenon
    <3> QED BY <1>2, <3>1, Zenon
  <2> QED BY <1>1, <1>2, <2>1, <2>2, SameTypes, Zenon
<1>5. Numbered' /\ AllSound' /\ Covers' /\ \A m : IsCached(m)' <=> IsCached(m)
  <2>1. pc # "send" /\ pc' # "send"
    BY <1>2
  <2> QED BY <1>1, <1>2, <2>1, SendsNothing, Zenon
<1>6. Taken'
  BY <1>1, <1>2, <1>5, TakenSame, Zenon
<1>7. Phase'
  <2>1. /\ pc' \notin {"message", "cache", "send"} /\ pc' \notin {"end", "done"}
        /\ pc' # "done" /\ pc' # "message" /\ pc' \notin {"cache", "send"}
    BY <1>2
  <2>2. mode' # "timestamp" /\ seq' = next' /\ packet' = <<>> /\ eos' = 0
    BY <1>2, <1>3, SameInput, Zenon
  <2>3. ~Fits(next)'
    BY <1>2, SameFits, Zenon
  <2> QED BY <2>1, <2>2, <2>3, Zenon DEF Phase
<1> QED BY <1>4, <1>5, <1>6, <1>7, Zenon DEF FInv

\* What fits in a part fits in the whole.
LEMMA StillBelow ==
  ASSUME NEW b \in Nat, NEW s \in Nat, NEW c \in Nat, NEW e \in Nat, b + s <= c
  PROVE  b + s <= c + e
OBVIOUS

\* What fits in the buffer fits in a full one.
LEMMA FitsBehind ==
  ASSUME NEW b \in Nat, NEW s \in Nat, NEW h \in Nat, NEW u \in Nat, h - b = u, s <= u
  PROVE  b + s <= h
OBVIOUS

\* A number that is at most one more than l and not below it is one more.
LEMMA NotBelow ==
  ASSUME NEW a \in Nat \ {0}, NEW l \in Nat, a <= l + 1, ~(a <= l)
  PROVE  a = l + 1
OBVIOUS

\* When there is nothing to read or no room to read it to, every complete message
\* is packed: what remains is shorter than a message.
LEMMA NothingLeft ==
  ASSUME TypeOK, Phase, pc = "read", have = FileSize \/ Leftover = BufSize
  PROVE  next = Len(file) + 1
<1>1. /\ Len(file) \in Nat /\ next \in Nat \ {0} /\ next - 1 \in Nat /\ next <= Len(file) + 1
      /\ have \in Nat /\ BufSize \in Nat /\ Bytes(1, next - 1) \in Nat
      /\ Bytes(1, Len(file)) \in Nat /\ FileSize = Bytes(1, Len(file)) + extra /\ extra \in Nat
      /\ Leftover = have - Bytes(1, next - 1)
  BY SizesAreNat, Zenon DEF Leftover
<1>2. file \in Files /\ ~Fits(next)
  BY Zenon DEF TypeOK, Phase
<1> HIDE DEF TypeOK, Phase
<1> SUFFICES ASSUME next <= Len(file) PROVE FALSE
  BY <1>1, NotBelow, Zenon
<1>3. PICK p \in Nat : p = next - 1 /\ p + 1 = next /\ p + 1 <= Len(file) /\ next \in 1..Len(file)
  <2>1. PICK n \in Nat \ {0}, l \in Nat : n = next /\ l = Len(file) /\ n <= l
    BY <1>1, Zenon
  <2>2. n - 1 \in Nat /\ (n - 1) + 1 = n /\ (n - 1) + 1 <= l /\ n \in 1..l
    BY <2>1
  <2> QED BY <2>1, <2>2, Zenon
<1>4. PICK z \in Nat, s \in Nat :
         z = file[next].size /\ s = 2 + z /\ s <= MaxPayload /\ s <= BufSize
  <2>1. PICK z \in Nat \ {0} : z = file[next].size /\ 2 + z <= MaxPayload /\ 2 + z <= BufSize
    BY <1>2, <1>3, FileFacts, Zenon
  <2>2. z \in Nat /\ 2 + z \in Nat
    OBVIOUS
  <2> QED BY <2>1, <2>2, Zenon
<1>5. Bytes(next, next) = s /\ Bytes(1, next) = Bytes(1, p) + 2 + z
  <2>1. Bytes(next, next) = 2 + file[next].size /\ Bytes(1, next) = Bytes(1, p) + 2 + file[next].size
    BY <1>2, <1>3, BytesOne, Zenon
  <2> QED BY <1>4, <2>1, Zenon
<1>6. PICK b \in Nat : b = Bytes(1, p)
  BY <1>1, <1>3, Zenon
<1>7. Bytes(1, next) = b + s
  <2>1. Bytes(1, next) = b + 2 + z
    BY <1>5, <1>6, Zenon
  <2>2. b + 2 + z = b + s
    <3>1. s = 2 + z
      BY <1>4, Zenon
    <3> QED BY <3>1
  <2> QED BY <2>1, <2>2, Zenon
<1>8. ~(b + s <= have)
  BY <1>2, <1>4, <1>5, <1>7, Zenon DEF Fits
<1>9. CASE have = FileSize
  <2>1. Bytes(1, next) <= Bytes(1, Len(file))
    <3>1. next \in Nat /\ Len(file) <= Len(file)
      BY <1>1
    <3> QED BY <1>1, <1>2, <3>1, BytesMonotone, Zenon
  <2>2. PICK c \in Nat : c = Bytes(1, Len(file))
    BY <1>1, Zenon
  <2>3. b + s <= c /\ have = c + extra /\ extra \in Nat
    BY <1>1, <1>7, <1>9, <2>1, <2>2, Zenon
  <2> QED BY <1>8, <2>3, StillBelow, Zenon
<1>10. CASE Leftover = BufSize
  <2>1. have - b = BufSize /\ have \in Nat /\ BufSize \in Nat /\ s <= BufSize
    BY <1>1, <1>3, <1>4, <1>6, <1>10, Zenon
  <2> QED BY <1>8, <2>1, FitsBehind, Zenon
<1> QED BY <1>9, <1>10, Zenon

\* The end of the file keeps the invariant.
LEMMA ReadEndsKeeps == ASSUME FInv, ReadEnds PROVE FInv'
<1>1. TypeOK /\ Numbered /\ AllSound /\ Taken /\ Phase /\ Covers
  BY Zenon DEF FInv
<1>2. /\ pc = "read" /\ pc' = "end" /\ UNCHANGED <<input, seq, cached, wire>> /\ UNCHANGED input
      /\ next' = next /\ packet' = packet /\ seq' = seq /\ cached' = cached /\ wire' = wire
      /\ eos' = eos /\ have' = have /\ (have = FileSize \/ Leftover = BufSize)
  BY Zenon DEF ReadEnds
<1>3. mode # "timestamp" /\ seq = next /\ packet = <<>> /\ eos = 0
  BY <1>1, <1>2, BulkPhase, Zenon
<1>4. next = Len(file) + 1 /\ Rank(Len(file)) = Len(file)
  <2>1. Len(file) \in Nat
    BY <1>1, SizesAreNat, Zenon
  <2> QED BY <1>1, <1>2, <1>3, <2>1, NothingLeft, RankBulk, Zenon
<1>5. TypeOK'
  <2>1. pc' \in {"read", "pack", "message", "cache", "send", "end", "done"}
    BY <1>2
  <2>2. eos' \in Nat
    <3>1. eos \in Nat
      BY <1>1, TypeParts, Zenon
    <3> QED BY <1>2, <3>1, Zenon
  <2> QED BY <1>1, <1>2, <2>1, <2>2, SameTypes, Zenon
<1>6. Numbered' /\ AllSound' /\ Covers' /\ \A m : IsCached(m)' <=> IsCached(m)
  <2>1. pc # "send" /\ pc' # "send"
    BY <1>2
  <2> QED BY <1>1, <1>2, <2>1, SendsNothing, Zenon
<1>7. Taken'
  BY <1>1, <1>2, <1>6, TakenSame, Zenon
<1>8. Phase'
  <2>1. /\ pc' \notin {"message", "cache", "send"} /\ pc' \notin {"read", "pack"} /\ pc' # "done"
        /\ pc' # "read" /\ pc' # "message" /\ pc' \notin {"cache", "send"}
    BY <1>2
  <2>2. PICK n : n = Len(file) /\ n = Len(file')
    BY <1>2, SameInput, Zenon
  <2>3. Rank(n)' = Rank(n)
    BY <1>2, SameInput, Zenon
  <2>4. Rank(Len(file))' = Rank(n)'
    BY <2>2, Zenon DEF Rank
  <2>5. next' = Len(file') + 1 /\ seq' = Rank(Len(file))' + 1 /\ packet' = <<>> /\ eos' = 0
    BY <1>2, <1>3, <1>4, <2>2, <2>3, <2>4, Zenon
  <2> QED BY <2>1, <2>5, Zenon DEF Phase
<1> QED BY <1>5, <1>6, <1>7, <1>8, Zenon DEF FInv

\* A packet of bulk_feed: the messages next..n, which fit.
LEMMA BulkPayload ==
  ASSUME TypeOK, Phase, pc = "pack", NEW n \in next..Len(file), Fits(n)
  PROVE  /\ Messages(next, n) \in Seq(1..Len(file)) /\ Len(Messages(next, n)) = n - next + 1
         /\ Due(Messages(next, n)) /\ SoundPayload(Messages(next, n))
         /\ \A m \in next..n : \E j \in DOMAIN Messages(next, n) : Messages(next, n)[j] = m
         /\ have - Bytes(1, n) \in 0..BufSize
<1>1. mode # "timestamp" /\ seq = next
  BY BulkPhase, Zenon
<1>2. /\ Len(file) \in Nat /\ next \in Nat \ {0} /\ have \in Nat /\ BufSize \in Nat
      /\ Bytes(1, next - 1) \in Nat /\ next - 1 \in Nat /\ file \in Files
      /\ Leftover \in 0..BufSize /\ Leftover = have - Bytes(1, next - 1)
  BY <1>1, SizesAreNat, TypeParts, Zenon DEF Leftover
<1>3. Bytes(1, n) <= have /\ Bytes(next, n) <= MaxPayload
  BY Zenon DEF Fits
<1>a. PICK a \in Nat \ {0}, l \in Nat : a = next /\ l = Len(file)
  BY <1>2, Zenon
<1>4. n \in a..l
  BY <1>a, Zenon
<1>5. /\ n \in Nat /\ a <= n + 1 /\ n <= l /\ n - a + 1 \in Nat \ {0} /\ 1 <= n + 1 /\ 1 \in Nat \ {0}
      /\ a - 1 \in Nat /\ a - 1 <= n
  BY <1>4
<1>6. /\ Messages(next, n) \in Seq(1..Len(file)) /\ Len(Messages(next, n)) = n - next + 1
      /\ \A j \in 1..(n - next + 1) : Messages(next, n)[j] = next + j - 1
  BY <1>2, <1>5, <1>a, MessagesFacts, Zenon
<1>7. PICK q \in Seq(1..Len(file)) :
        q = Messages(next, n) /\ Len(q) = n - a + 1 /\ \A j \in 1..(n - a + 1) : q[j] = a + j - 1
  BY <1>6, <1>a, Zenon
<1>8. DOMAIN q = 1..(n - a + 1) /\ q # <<>>
  <2>1. PICK k \in Nat \ {0} : k = n - a + 1 /\ Len(q) = k
    BY <1>5, <1>7, Zenon
  <2>2. DOMAIN q = 1..k /\ q # <<>>
    BY <2>1
  <2> QED BY <2>1, <2>2, Zenon
<1>9. Due(q)
  <2> SUFFICES ASSUME NEW j \in DOMAIN q PROVE Sends(q[j]) /\ seq + j - 1 = Rank(q[j])
    BY Zenon DEF Due
  <2>1. j \in 1..(n - a + 1) /\ q[j] = a + j - 1
    BY <1>7, <1>8, Zenon
  <2>2. a + j - 1 \in Nat
    BY <1>5, <2>1
  <2>3. Rank(q[j]) = q[j]
    BY <1>1, <2>1, <2>2, RankBulk, Zenon
  <2>4. Sends(q[j])
    BY <1>1, Zenon DEF Sends
  <2> QED BY <1>1, <1>a, <2>1, <2>3, <2>4, Zenon
<1>10. SoundPayload(q)
  BY <1>1, <1>3, <1>7, <1>8, Zenon DEF SoundPayload, Bytes
<1>11. ASSUME NEW m \in next..n PROVE \E j \in DOMAIN q : q[j] = m
  <2>1. m \in a..n
    BY <1>11, <1>a, Zenon
  <2>2. m - a + 1 \in 1..(n - a + 1) /\ a + (m - a + 1) - 1 = m
    BY <1>5, <2>1
  <2> QED BY <1>7, <1>8, <2>2, Zenon
<1>12. have - Bytes(1, n) \in 0..BufSize
  <2>1. Bytes(1, n) \in Nat
    BY <1>2, <1>5, <1>a, BytesNat, Zenon
  <2>2. Bytes(1, a - 1) <= Bytes(1, n)
    BY <1>2, <1>5, <1>a, BytesMonotone, Zenon
  <2>3. PICK b \in Nat, c \in Nat, h \in Nat, u \in Nat :
          b = Bytes(1, next - 1) /\ c = Bytes(1, n) /\ h = have /\ u = BufSize
    BY <1>2, <2>1, Zenon
  <2>4. b <= c /\ c <= h /\ h - b \in 0..u
    BY <1>2, <1>3, <1>a, <2>2, <2>3, Zenon
  <2>5. h - c \in 0..u
    BY <2>4
  <2> QED BY <2>3, <2>5, Zenon
<1> QED BY <1>6, <1>7, <1>9, <1>10, <1>11, <1>12, Zenon

\* A packet of bulk_feed keeps the invariant.
LEMMA PackKeeps == ASSUME FInv, Pack PROVE FInv'
<1>1. TypeOK /\ Numbered /\ AllSound /\ Taken /\ Phase /\ Covers
  BY Zenon DEF FInv
<1>2. /\ pc = "pack" /\ pc' = "cache" /\ UNCHANGED <<input, seq, cached, wire>> /\ UNCHANGED input
      /\ seq' = seq /\ cached' = cached /\ wire' = wire /\ eos' = eos /\ have' = have
  BY Zenon DEF Pack
<1>3. PICK n \in next..Len(file) : Fits(n) /\ packet' = Messages(next, n) /\ next' = n + 1
  BY Zenon DEF Pack
<1>4. PICK q \in Seq(1..Len(file)) :
        /\ q = packet' /\ Len(q) = n - next + 1 /\ Due(q) /\ SoundPayload(q)
        /\ \A m \in next..n : \E j \in DOMAIN q : q[j] = m
  BY <1>1, <1>2, <1>3, BulkPayload, Zenon
<1>5. have - Bytes(1, n) \in 0..BufSize
  BY <1>1, <1>2, <1>3, BulkPayload, Zenon
<1>6. Numbered' /\ AllSound' /\ Covers' /\ \A m : IsCached(m)' <=> IsCached(m)
  <2>1. pc # "send" /\ pc' # "send"
    BY <1>2
  <2> QED BY <1>1, <1>2, <2>1, SendsNothing, Zenon
<1>7. mode # "timestamp" /\ seq = next /\ packet = <<>> /\ eos = 0
  BY <1>1, <1>2, BulkPhase, Zenon
<1>a. PICK a \in Nat \ {0}, l \in Nat : a = next /\ l = Len(file)
  BY <1>1, SizesAreNat, Zenon
<1>b. n \in a..l
  BY <1>a, Zenon
<1>8. n \in Nat /\ n + 1 \in 1..(l + 1) /\ (n + 1) - 1 = n /\ a + (n - a + 1) = n + 1
  BY <1>b
<1>9. /\ next' \in 1..(Len(file) + 1) /\ next' - 1 = n /\ n \in Nat
      /\ seq + Len(q) = n + 1
  BY <1>3, <1>4, <1>7, <1>8, <1>a, Zenon
<1>10. TypeOK'
  <2>1. pc' \in {"read", "pack", "message", "cache", "send", "end", "done"}
    BY <1>2
  <2>2. have' - Bytes(1, next' - 1) \in 0..BufSize /\ have' \in 0..FileSize
    BY <1>1, <1>2, <1>5, <1>9, TypeParts, Zenon
  <2>3. /\ packet' \in Seq(1..Len(file)) /\ eos' \in Nat /\ seq' \in Nat \ {0}
        /\ cached' \in Seq(Packet) /\ wire' \in Seq(Packet)
    BY <1>1, <1>2, <1>4, TypeParts, Zenon
  <2> QED BY <1>1, <1>2, <1>9, <2>1, <2>2, <2>3, TypesNext, Zenon
<1>11. Taken'
  <2> SUFFICES ASSUME NEW m \in 1..(next' - 1), Sends(m)' PROVE IsCached(m)' \/ InPacket(m)'
    BY Zenon DEF Taken
  <2>1. m \in 1..n /\ Sends(m)
    BY <1>2, <1>9, SameInput, Zenon
  <2>2. m \in 1..(a - 1) \/ m \in a..n
    BY <1>b, <2>1
  <2>3. CASE m \in 1..(a - 1)
    <3>1. DOMAIN packet = {}
      BY <1>7
    <3>2. IsCached(m)
      BY <1>1, <1>a, <2>1, <2>3, <3>1, Zenon DEF Taken, InPacket
    <3> QED BY <1>6, <3>2, Zenon
  <2>4. CASE m \in a..n
    BY <1>4, <1>a, <2>4, Zenon DEF InPacket
  <2> QED BY <2>2, <2>3, <2>4, Zenon
<1>12. Phase'
  <2>1. /\ pc' # "message" /\ pc' # "read" /\ pc' \notin {"read", "pack"}
        /\ pc' \notin {"end", "done"} /\ pc' # "done"
    BY <1>2
  <2>2. Due(packet)'
    <3> SUFFICES ASSUME NEW j \in DOMAIN packet'
                 PROVE  Sends(packet[j])' /\ seq' + j - 1 = Rank(packet[j])'
      BY Zenon DEF Due
    <3>1. PICK m : m = packet'[j]
      OBVIOUS
    <3>2. Sends(m)' /\ seq' + j - 1 = Rank(m)'
      BY <1>2, <1>4, <3>1, SameInput, Zenon DEF Due
    <3> QED BY <3>1, <3>2, Zenon DEF Sends, Rank
  <2>3. SoundPayload(packet)' /\ packet' # <<>>
    <3>1. SoundPayload(q)'
      BY <1>2, <1>4, SameInput, Zenon
    <3> QED BY <1>4, <3>1, Zenon DEF SoundPayload
  <2>4. seq' + Len(packet') = Rank(next - 1)' + 1
    <3>1. Rank(n)' = n
      BY <1>2, <1>7, <1>9, SameInput, RankBulk, Zenon
    <3>2. Rank(next - 1)' = Rank(n)'
      BY <1>9, Zenon DEF Rank
    <3> QED BY <1>2, <1>4, <1>9, <3>1, <3>2, Zenon
  <2>5. eos' = 0
    BY <1>2, <1>7, Zenon
  <2> QED BY <2>1, <2>2, <2>3, <2>4, <2>5, Zenon DEF Phase
<1> QED BY <1>6, <1>10, <1>11, <1>12, Zenon DEF FInv

-----------------------------------------------------------------------------
(* The steps of timestamp_feed. *)

\* What the packet being filled must be after a message was taken.
LEMMA MessageNext ==
  ASSUME TypeOK, mode = "timestamp", UNCHANGED input, pc' = "message", have' = have, eos' = 0,
         next <= Len(file), next' = next + 1,
         packet' \in Seq(1..Len(file)), seq' \in Nat \ {0},
         cached' \in Seq(Packet), wire' \in Seq(Packet),
         Numbered', AllSound', Covers',
         \A j \in DOMAIN packet' : Sends(packet'[j]) /\ seq' + j - 1 = Rank(packet'[j]),
         seq' + Len(packet') = Rank(next) + 1,
         packet' # <<>> => SoundPayload(packet'),
         \A m \in 1..next : Sends(m) => IsCached(m)' \/ \E j \in DOMAIN packet' : packet'[j] = m
  PROVE  FInv'
<1>a. PICK a \in Nat \ {0}, l \in Nat : a = next /\ l = Len(file) /\ a <= l
  BY SizesAreNat, Zenon
<1>1. a + 1 \in 1..(l + 1) /\ (a + 1) - 1 = a
  BY <1>a
<1>2. next' \in 1..(Len(file) + 1) /\ next' - 1 = next
  BY <1>1, <1>a, Zenon
<1>3. TypeOK'
  <2>1. pc' \in {"read", "pack", "message", "cache", "send", "end", "done"}
    BY Zenon
  <2>2. have' \in 0..FileSize
    BY TypeParts, Zenon
  <2>3. eos' \in Nat
    OBVIOUS
  <2> QED BY <1>2, <2>1, <2>2, <2>3, TypesNext, Zenon
<1>4. Taken'
  <2> SUFFICES ASSUME NEW m \in 1..(next' - 1), Sends(m)' PROVE IsCached(m)' \/ InPacket(m)'
    BY Zenon DEF Taken
  <2>1. m \in 1..next /\ Sends(m)
    BY <1>2, SameInput, Zenon
  <2> QED BY <2>1, Zenon DEF InPacket
<1>5. Due(packet)'
  <2> SUFFICES ASSUME NEW j \in DOMAIN packet' PROVE Sends(packet[j])' /\ seq' + j - 1 = Rank(packet[j])'
    BY Zenon DEF Due
  <2>1. PICK m : m = packet'[j]
    OBVIOUS
  <2>2. Sends(m)' /\ seq' + j - 1 = Rank(m)'
    BY <2>1, SameInput, Zenon
  <2> QED BY <2>1, <2>2, Zenon DEF Sends, Rank
<1>6. packet' # <<>> => SoundPayload(packet)'
  <2>1. PICK q : q = packet'
    OBVIOUS
  <2>2. q # <<>> => SoundPayload(q)'
    BY <2>1, SameInput, Zenon
  <2> QED BY <2>1, <2>2, Zenon DEF SoundPayload
<1>7. seq' + Len(packet') = Rank(next - 1)' + 1
  <2>1. PICK m : m = next
    OBVIOUS
  <2>2. Rank(m)' = Rank(next)
    BY <2>1, SameInput, Zenon
  <2>3. Rank(next - 1)' = Rank(m)'
    BY <1>2, <2>1, Zenon DEF Rank
  <2> QED BY <2>2, <2>3, Zenon
<1>8. Phase'
  <2>1. /\ pc' \notin {"read", "pack"} /\ pc' # "read" /\ pc' \notin {"end", "done"}
        /\ pc' # "done" /\ pc' \notin {"cache", "send"}
    OBVIOUS
  <2>2. mode' = "timestamp"
    BY SameInput, Zenon
  <2> QED BY <1>5, <1>6, <1>7, <2>1, <2>2, Zenon DEF Phase
<1> QED BY <1>3, <1>4, <1>8, Zenon DEF FInv

\* The packet being filled, and the number the next message gets.
LEMMA MessagePhase ==
  ASSUME Phase, pc = "message"
  PROVE  /\ mode = "timestamp" /\ Due(packet) /\ seq + Len(packet) = Rank(next - 1) + 1
         /\ packet # <<>> => SoundPayload(packet)
         /\ eos = 0
<1>1. pc \in {"message", "cache", "send"} /\ pc # "done"
  OBVIOUS
<1> QED BY <1>1, Zenon DEF Phase

\* What is said of the packet in hand while it stays as it is.
LEMMA SamePacket ==
  ASSUME UNCHANGED input, next' = next, packet' = packet, seq' = seq
  PROVE  /\ Due(packet)' <=> Due(packet)
         /\ SoundPayload(packet)' <=> SoundPayload(packet)
         /\ Rank(next - 1)' = Rank(next - 1) /\ Rank(Len(file))' = Rank(Len(file))
<1>1. mode' = mode /\ file' = file
  BY Zenon DEF input
<1>2. Due(packet)' <=> Due(packet)
  BY <1>1, Zenon DEF Due, Sends, Rank
<1>3. SoundPayload(packet)' <=> SoundPayload(packet)
  BY <1>1, ZenonT(30) DEF SoundPayload, Length
<1>4. Rank(next - 1)' = Rank(next - 1) /\ Rank(Len(file))' = Rank(Len(file))
  BY <1>1, Zenon DEF Rank, Sends
<1> QED BY <1>2, <1>3, <1>4, Zenon

\* Where the message to be taken stands.
LEMMA MessageAt ==
  ASSUME FInv, pc = "message", next <= Len(file)
  PROVE  /\ next \in 1..Len(file) /\ file[next].size \in Nat /\ 2 + file[next].size <= MaxPayload
         /\ mode = "timestamp" /\ (Sends(next) <=> ~(file[next].size < MinSize))
         /\ Len(packet) \in Nat /\ seq \in Nat \ {0} /\ Rank(next) \in Nat
         /\ Sends(next) => seq + Len(packet) = Rank(next)
         /\ ~Sends(next) => seq + Len(packet) = Rank(next) + 1
<1>1. TypeOK /\ Phase
  BY Zenon DEF FInv
<1>2. file \in Files /\ packet \in Seq(1..Len(file)) /\ seq \in Nat \ {0}
  BY <1>1, TypeParts, Zenon
<1>3. PICK p \in Nat : next = p + 1 /\ p = next - 1 /\ next \in 1..Len(file)
  <2>1. PICK a \in Nat \ {0}, l \in Nat : a = next /\ l = Len(file) /\ a <= l
    BY <1>1, SizesAreNat, Zenon
  <2>2. a - 1 \in Nat /\ a = (a - 1) + 1 /\ a \in 1..l
    BY <2>1
  <2> QED BY <2>1, <2>2, Zenon
<1>4. mode = "timestamp" /\ seq + Len(packet) = Rank(p) + 1
  BY <1>1, <1>3, MessagePhase, Zenon
<1>5. PICK z \in Nat \ {0} : z = file[next].size /\ 2 + z <= MaxPayload
  BY <1>2, <1>3, FileFacts, Zenon
<1>6. Sends(next) <=> ~(z < MinSize)
  <2>1. Sends(next) <=> z >= MinSize
    BY <1>4, <1>5, Zenon DEF Sends
  <2>2. MinSize \in Nat
    BY FeedAssumption
  <2>3. z >= MinSize <=> ~(z < MinSize)
    BY <2>2
  <2> QED BY <2>1, <2>3, Zenon
<1>7. Len(packet) \in Nat
  BY <1>2
<1>8. PICK r \in Nat, s \in Nat : r = Rank(p) /\ s = Rank(next) /\ s = r + IF Sends(next) THEN 1 ELSE 0
  <2>1. p + 1 \in Nat
    OBVIOUS
  <2>2. Rank(p) \in Nat /\ Rank(p + 1) \in Nat /\ Rank(p + 1) = Rank(p) + IF Sends(p + 1) THEN 1 ELSE 0
    BY <2>1, RankNext, Zenon
  <2> QED BY <1>3, <2>2, Zenon
<1>9. r + 0 = r /\ z \in Nat
  OBVIOUS
<1>10. (Sends(next) => s = r + 1) /\ (~Sends(next) => s = r)
  BY <1>8, <1>9, Zenon
<1> QED BY <1>2, <1>3, <1>4, <1>5, <1>6, <1>7, <1>8, <1>9, <1>10, Zenon

\* What is up to a and is not a comes before it.
LEMMA BelowNext ==
  ASSUME NEW a \in Nat \ {0}, NEW m \in 1..a, m # a
  PROVE  m \in 1..(a - 1)
OBVIOUS

\* A message without a timestamp is passed over.
LEMMA MessageSkipped ==
  ASSUME FInv, Message, pc' = "message", next' = next + 1, packet' = packet,
         file[next].size < MinSize
  PROVE  FInv'
<1>1. TypeOK /\ Numbered /\ AllSound /\ Taken /\ Phase /\ Covers
  BY Zenon DEF FInv
<1>2. /\ pc = "message" /\ pc' = "message" /\ next <= Len(file) /\ next' = next + 1
      /\ UNCHANGED <<input, seq, cached, wire>> /\ UNCHANGED input
      /\ packet' = packet /\ seq' = seq /\ cached' = cached /\ wire' = wire
      /\ have' = have /\ eos' = 0
  BY <1>1, MessagePhase, Zenon DEF Message
<1>3. mode = "timestamp" /\ ~Sends(next) /\ seq + Len(packet) = Rank(next) + 1
  BY <1>2, MessageAt, Zenon
<1>4. Numbered' /\ AllSound' /\ Covers' /\ \A m : IsCached(m)' <=> IsCached(m)
  <2>1. pc # "send" /\ pc' # "send"
    BY <1>2
  <2> QED BY <1>1, <1>2, <2>1, SendsNothing, Zenon
<1>5. Due(packet) /\ (packet # <<>> => SoundPayload(packet))
  BY <1>1, <1>2, MessagePhase, Zenon
<1>6. \A j \in DOMAIN packet' : Sends(packet'[j]) /\ seq' + j - 1 = Rank(packet'[j])
  BY <1>2, <1>5, Zenon DEF Due
<1>7. ASSUME NEW m \in 1..next, Sends(m)
      PROVE  IsCached(m)' \/ \E j \in DOMAIN packet' : packet'[j] = m
  <2>1. m # next
    BY <1>3, <1>7, Zenon
  <2>2. m \in 1..(next - 1)
    BY <1>1, <2>1, SizesAreNat, BelowNext, Zenon
  <2>3. IsCached(m) \/ InPacket(m)
    BY <1>1, <1>7, <2>2, Zenon DEF Taken
  <2> QED BY <1>2, <1>4, <2>3, Zenon DEF InPacket
<1>8. /\ packet' \in Seq(1..Len(file)) /\ seq' \in Nat \ {0}
      /\ cached' \in Seq(Packet) /\ wire' \in Seq(Packet)
  BY <1>1, <1>2, TypeParts, Zenon
<1>9. seq' + Len(packet') = Rank(next) + 1 /\ (packet' # <<>> => SoundPayload(packet'))
  BY <1>2, <1>3, <1>5, Zenon
<1> QED BY <1>1, <1>2, <1>3, <1>4, <1>6, <1>7, <1>8, <1>9, MessageNext, Zenon

\* A message that closes the packet keeps the invariant.
LEMMA MessageCloses ==
  ASSUME FInv, Message, pc' = "cache", next' = next, packet' = packet, Closes(next)
  PROVE  FInv'
<1>1. TypeOK /\ Numbered /\ AllSound /\ Taken /\ Phase /\ Covers
  BY Zenon DEF FInv
<1>2. /\ pc = "message" /\ UNCHANGED <<input, seq, cached, wire>> /\ UNCHANGED input
      /\ seq' = seq /\ cached' = cached /\ wire' = wire /\ have' = have /\ eos' = eos
      /\ packet # <<>> /\ packet' = packet
  BY Zenon DEF Message, Closes
<1>3. /\ Due(packet) /\ SoundPayload(packet) /\ seq + Len(packet) = Rank(next - 1) + 1
      /\ eos = 0
  BY <1>1, <1>2, MessagePhase, Zenon
<1>4. Numbered' /\ AllSound' /\ Covers' /\ \A m : IsCached(m)' <=> IsCached(m)
  <2>1. pc # "send" /\ pc' # "send"
    BY <1>2
  <2> QED BY <1>1, <1>2, <2>1, SendsNothing, Zenon
<1>5. TypeOK'
  <2>1. pc' \in {"read", "pack", "message", "cache", "send", "end", "done"}
    OBVIOUS
  <2>2. eos' \in Nat
    BY <1>1, <1>2, TypeParts, Zenon
  <2> QED BY <1>1, <1>2, <2>1, <2>2, SameTypes, Zenon
<1>6. Taken'
  BY <1>1, <1>2, <1>4, TakenSame, Zenon
<1>7. Phase'
  <2>1. /\ pc' # "message" /\ pc' # "read" /\ pc' \notin {"read", "pack"}
        /\ pc' \notin {"end", "done"} /\ pc' # "done"
    OBVIOUS
  <2>2. Due(packet)' /\ SoundPayload(packet)' /\ Rank(next - 1)' = Rank(next - 1)
    BY <1>2, <1>3, SamePacket, Zenon
  <2>3. seq' + Len(packet') = Rank(next - 1)' + 1 /\ eos' = 0 /\ packet' # <<>>
    BY <1>2, <1>3, <2>2, Zenon
  <2> QED BY <2>1, <2>2, <2>3, Zenon DEF Phase
<1> QED BY <1>4, <1>5, <1>6, <1>7, Zenon DEF FInv

\* What makes a payload sound.
LEMMA SoundFrom ==
  ASSUME NEW q, q # <<>>, Length(q) <= MaxPayload,
         \A j \in DOMAIN q : file[q[j]].ts = file[q[1]].ts
  PROVE  SoundPayload(q)
BY Zenon DEF SoundPayload

\* The packet p, whose number is s, has room for the message m.
HasRoom(p, m, s) ==
  /\ Sends(m) /\ s + Len(p) = Rank(m)
  /\ \A j \in DOMAIN p : Sends(p[j]) /\ s + j - 1 = Rank(p[j])
  /\ p # <<>> => /\ SoundPayload(p) /\ file[m].ts = file[p[1]].ts
                 /\ Length(p) + 2 + file[m].size <= MaxPayload

\* q is p with the message m.
IsWith(q, p, m, s) ==
  /\ q = Append(p, m) /\ Len(q) = Len(p) + 1 /\ SoundPayload(q)
  /\ \A j \in DOMAIN q : Sends(q[j]) /\ s + j - 1 = Rank(q[j])
  /\ \E j \in DOMAIN q : q[j] = m
  /\ \A j \in DOMAIN p : j \in DOMAIN q /\ q[j] = p[j]

\* A message that belongs in the packet is put at its end.
LEMMA MoreMessages ==
  ASSUME file \in Files, mode = "timestamp", NEW p \in Seq(1..Len(file)), NEW m \in 1..Len(file),
         NEW s \in Nat, HasRoom(p, m, s)
  PROVE  \E q \in Seq(1..Len(file)) : IsWith(q, p, m, s)
<1>0. /\ Sends(m) /\ s + Len(p) = Rank(m)
      /\ \A j \in DOMAIN p : Sends(p[j]) /\ s + j - 1 = Rank(p[j])
      /\ p # <<>> => /\ SoundPayload(p) /\ file[m].ts = file[p[1]].ts
                     /\ Length(p) + 2 + file[m].size <= MaxPayload
  BY Zenon DEF HasRoom
<1>1. PICK q \in Seq(1..Len(file)) : q = Append(p, m)
  <2>1. Append(p, m) \in Seq(1..Len(file))
    BY SMT
  <2> QED BY <2>1, Zenon
<1>2. PICK n \in Nat : n = Len(p) /\ DOMAIN p = 1..n
  BY SMT
<1>3. Len(q) = n + 1 /\ q # <<>> /\ DOMAIN q = 1..(n + 1) /\ q[n + 1] = m
      /\ \A j \in 1..n : q[j] = p[j]
  <2>1. /\ Append(p, m) # <<>> /\ Len(Append(p, m)) = Len(p) + 1
        /\ DOMAIN Append(p, m) = 1..(Len(p) + 1) /\ Append(p, m)[Len(p) + 1] = m
        /\ \A j \in 1..Len(p) : Append(p, m)[j] = p[j]
    <3>1. PICK S : S = 1..Len(file)
      BY Zenon
    <3>2. p \in Seq(S) /\ m \in S
      BY <3>1, Zenon
    <3> QED BY <3>2, Appended, SMT
  <2> QED BY <1>1, <1>2, <2>1, Zenon
<1>4. \A j \in 1..(n + 1) : j \in 1..n \/ j = n + 1
  BY SMT
<1>5. 1..n \subseteq 1..(n + 1) /\ n + 1 \in 1..(n + 1) /\ s + (n + 1) - 1 = s + n
  BY SMT
<1>6. \A j \in DOMAIN p : j \in DOMAIN q /\ q[j] = p[j]
  BY <1>2, <1>3, <1>5, Zenon
<1>7. ASSUME NEW j \in DOMAIN q PROVE Sends(q[j]) /\ s + j - 1 = Rank(q[j])
  <2>1. CASE j \in 1..n
    BY <1>0, <1>2, <1>3, <2>1, Zenon
  <2>2. CASE j = n + 1
    BY <1>0, <1>2, <1>3, <1>5, <2>2, Zenon
  <2> QED BY <1>3, <1>4, <1>7, <2>1, <2>2, Zenon
<1>8. ASSUME p = <<>> PROVE SoundPayload(q)
  <2>1. n = 0
    BY <1>2, <1>8
  <2>2. DOMAIN q = {1} /\ q[1] = m
    BY <1>3, <2>1
  <2>3. q = <<m>>
    BY <1>1, <1>8
  <2>4. Length(q) <= MaxPayload
    <3>1. Length(q) = 2 + file[m].size
      BY <2>3, LengthOne, Zenon
    <3>2. 2 + file[m].size <= MaxPayload
      BY FileFacts, Zenon
    <3> QED BY <3>1, <3>2, Zenon
  <2>5. \A j \in DOMAIN q : file[q[j]].ts = file[q[1]].ts
    BY <2>2, Zenon
  <2> QED BY <1>3, <2>4, <2>5, SoundFrom, Zenon
<1>9. ASSUME p # <<>> PROVE SoundPayload(q)
  <2>1. Length(q) <= MaxPayload
    BY <1>0, <1>1, <1>9, LengthAppend, Zenon
  <2>2. 1 \in 1..n
    BY <1>2, <1>9
  <2>3. q[1] = p[1]
    BY <1>3, <2>2, Zenon
  <2>4. ASSUME NEW j \in DOMAIN q PROVE file[q[j]].ts = file[q[1]].ts
    <3>1. CASE j \in 1..n
      <4>1. file[p[j]].ts = file[p[1]].ts
        BY <1>0, <1>2, <1>9, <3>1, Zenon DEF SoundPayload
      <4> QED BY <1>3, <2>3, <3>1, <4>1, Zenon
    <3>2. CASE j = n + 1
      BY <1>0, <1>3, <1>9, <2>3, <3>2, Zenon
    <3> QED BY <1>3, <1>4, <2>4, <3>1, <3>2, Zenon
  <2> QED BY <1>3, <2>1, <2>4, SoundFrom, Zenon
<1>10. SoundPayload(q)
  BY <1>8, <1>9, Zenon
<1>11. Len(q) = Len(p) + 1 /\ \E j \in DOMAIN q : q[j] = m
  BY <1>2, <1>3, <1>5, Zenon
<1> QED BY <1>1, <1>6, <1>7, <1>10, <1>11, Zenon DEF IsWith

\* A message that is added to the packet keeps the invariant.
LEMMA MessageAdded ==
  ASSUME FInv, Message, pc' = "message", next' = next + 1, packet' = Append(packet, next),
         ~(file[next].size < MinSize), ~Closes(next)
  PROVE  FInv'
<1>1. TypeOK /\ Numbered /\ AllSound /\ Taken /\ Phase /\ Covers
  BY Zenon DEF FInv
<1>2. /\ pc = "message" /\ pc' = "message" /\ next <= Len(file) /\ next' = next + 1
      /\ UNCHANGED <<input, seq, cached, wire>> /\ UNCHANGED input
      /\ packet' = Append(packet, next) /\ seq' = seq /\ cached' = cached /\ wire' = wire
      /\ have' = have /\ eos' = 0
  BY <1>1, MessagePhase, Zenon DEF Message
<1>3. /\ next \in 1..Len(file) /\ mode = "timestamp" /\ Sends(next)
      /\ seq + Len(packet) = Rank(next) /\ file[next].size \in Nat /\ Len(packet) \in Nat
  BY <1>2, MessageAt, Zenon
<1>4. /\ file \in Files /\ packet \in Seq(1..Len(file)) /\ seq \in Nat \ {0}
      /\ cached \in Seq(Packet) /\ wire \in Seq(Packet)
  BY <1>1, TypeParts, Zenon
<1>5. Due(packet) /\ (packet # <<>> => SoundPayload(packet))
  BY <1>1, <1>2, MessagePhase, Zenon
<1>6. PICK p \in Seq(1..Len(file)), s \in Nat \ {0}, n \in Nat, m \in 1..Len(file) :
        p = packet /\ s = seq /\ n = Len(p) /\ m = next
  BY <1>3, <1>4, Zenon
<1>7. s \in Nat /\ s + (n + 1) = (s + n) + 1
  BY SMT
<1>8. ASSUME p # <<>>
      PROVE  file[m].ts = file[p[1]].ts /\ Length(p) + 2 + file[m].size <= MaxPayload
  <2>1. file[m].ts = file[p[1]].ts /\ ~(Length(p) + 2 + file[m].size > MaxPayload)
    BY <1>6, <1>8, Zenon DEF Closes
  <2>2. PICK b \in Nat, z \in Nat, x \in Nat : b = Length(p) /\ z = file[m].size /\ x = MaxPayload
    <3>1. MaxPayload \in Nat
      BY FeedAssumption
    <3> QED BY <1>3, <1>4, <1>6, <3>1, LengthNat, Zenon
  <2>3. ~(b + 2 + z > x) => b + 2 + z <= x
    BY SMT
  <2> QED BY <2>1, <2>2, <2>3, Zenon
<1>9. /\ \A j \in DOMAIN p : Sends(p[j]) /\ s + j - 1 = Rank(p[j])
      /\ p # <<>> => SoundPayload(p)
      /\ Sends(m) /\ s + Len(p) = Rank(m)
  BY <1>3, <1>5, <1>6, Zenon DEF Due
<1>10. PICK q \in Seq(1..Len(file)) : IsWith(q, p, m, s)
  <2>1. file \in Files /\ mode = "timestamp" /\ s \in Nat
    BY <1>3, <1>4, <1>7, Zenon
  <2>2. HasRoom(p, m, s)
    BY <1>8, <1>9, Zenon DEF HasRoom
  <2> QED BY <2>1, <2>2, MoreMessages, Zenon
<1>q. /\ q = Append(p, m) /\ Len(q) = Len(p) + 1 /\ SoundPayload(q)
      /\ \A j \in DOMAIN q : Sends(q[j]) /\ s + j - 1 = Rank(q[j])
      /\ \E j \in DOMAIN q : q[j] = m
      /\ \A j \in DOMAIN p : j \in DOMAIN q /\ q[j] = p[j]
  BY <1>10, Zenon DEF IsWith
<1>11. q = packet' /\ s = seq'
  BY <1>2, <1>6, <1>q, Zenon
<1>12. /\ packet' \in Seq(1..Len(file)) /\ SoundPayload(packet')
       /\ \A j \in DOMAIN packet' : Sends(packet'[j]) /\ seq' + j - 1 = Rank(packet'[j])
  BY <1>q, <1>11, Zenon
<1>13. seq' + Len(packet') = Rank(next) + 1
  <2>1. s + Len(q) = Rank(m) + 1
    BY <1>6, <1>7, <1>9, <1>q, Zenon
  <2> QED BY <1>6, <1>11, <2>1, Zenon
<1>14. Numbered' /\ AllSound' /\ Covers' /\ \A x : IsCached(x)' <=> IsCached(x)
  <2>1. pc # "send" /\ pc' # "send"
    BY <1>2
  <2> QED BY <1>1, <1>2, <2>1, SendsNothing, Zenon
<1>15. ASSUME NEW x \in 1..next, Sends(x)
       PROVE  IsCached(x)' \/ \E j \in DOMAIN packet' : packet'[j] = x
  <2>1. CASE x = next
    BY <1>6, <1>q, <1>11, <2>1, Zenon
  <2>2. CASE x # next
    <3>1. x \in 1..(next - 1)
      BY <1>1, <2>2, SizesAreNat, BelowNext, Zenon
    <3>2. IsCached(x) \/ \E j \in DOMAIN p : p[j] = x
      BY <1>1, <1>6, <1>15, <3>1, Zenon DEF Taken, InPacket
    <3>3. IsCached(x)' \/ \E j \in DOMAIN q : q[j] = x
      BY <1>q, <1>14, <3>2, Zenon
    <3> QED BY <1>11, <3>3, Zenon
  <2> QED BY <2>1, <2>2, Zenon
<1>16. seq' \in Nat \ {0} /\ cached' \in Seq(Packet) /\ wire' \in Seq(Packet)
  BY <1>2, <1>4, Zenon
<1> QED BY <1>1, <1>2, <1>3, <1>12, <1>13, <1>14, <1>15, <1>16, MessageNext, Zenon

\* Every message of timestamp_feed keeps the invariant.
LEMMA MessageKeeps == ASSUME FInv, Message PROVE FInv'
<1>1. pc = "message" /\ next <= Len(file)
  BY Zenon DEF Message
<1>2. file[next].size >= MinSize => ~(file[next].size < MinSize)
  <2>1. PICK z \in Nat, y \in Nat : z = file[next].size /\ y = MinSize
    <3>1. MinSize \in Nat
      BY FeedAssumption
    <3> QED BY <1>1, <3>1, MessageAt, Zenon
  <2>2. z >= y => ~(z < y)
    BY SMT
  <2> QED BY <2>1, <2>2, Zenon
<1>3. \/ /\ file[next].size < MinSize /\ pc' = "message" /\ next' = next + 1 /\ packet' = packet
      \/ /\ Closes(next) /\ pc' = "cache" /\ next' = next /\ packet' = packet
      \/ /\ file[next].size >= MinSize /\ ~Closes(next)
         /\ pc' = "message" /\ next' = next + 1 /\ packet' = Append(packet, next)
  BY Zenon DEF Message
<1> QED BY <1>2, <1>3, MessageSkipped, MessageCloses, MessageAdded, Zenon

\* After the last message the packet in hand is sent, then the session ends.
LEMMA MessagesEndKeeps == ASSUME FInv, MessagesEnd PROVE FInv'
<1>1. TypeOK /\ Numbered /\ AllSound /\ Taken /\ Phase /\ Covers
  BY Zenon DEF FInv
<1>2. /\ pc = "message" /\ pc' = (IF packet # <<>> THEN "cache" ELSE "end") /\ next > Len(file)
      /\ UNCHANGED <<input, seq, cached, wire>> /\ UNCHANGED input
      /\ seq' = seq /\ cached' = cached /\ wire' = wire
      /\ packet' = packet /\ have' = have /\ next' = next /\ eos' = eos
  BY Zenon DEF MessagesEnd
<1>3. next = Len(file) + 1 /\ next - 1 = Len(file)
  <2>1. PICK a \in Nat \ {0}, l \in Nat : a = next /\ l = Len(file) /\ a <= l + 1 /\ a > l
    BY <1>1, <1>2, SizesAreNat, Zenon
  <2>2. a = l + 1 /\ a - 1 = l
    BY <2>1
  <2> QED BY <2>1, <2>2, Zenon
<1>4. /\ mode = "timestamp" /\ Due(packet) /\ seq + Len(packet) = Rank(next - 1) + 1
      /\ packet # <<>> => SoundPayload(packet)
      /\ eos = 0
  BY <1>1, <1>2, MessagePhase, Zenon
<1>5. Numbered' /\ AllSound' /\ Covers' /\ \A m : IsCached(m)' <=> IsCached(m)
  <2>1. pc # "send" /\ pc' # "send"
    BY <1>2
  <2> QED BY <1>1, <1>2, <2>1, SendsNothing, Zenon
<1>6. TypeOK'
  <2>1. pc' \in {"read", "pack", "message", "cache", "send", "end", "done"}
    BY <1>2
  <2>2. eos' \in Nat
    BY <1>1, <1>2, TypeParts, Zenon
  <2> QED BY <1>1, <1>2, <2>1, <2>2, SameTypes, Zenon
<1>7. Taken'
  BY <1>1, <1>2, <1>5, TakenSame, Zenon
<1>8. /\ Due(packet)' <=> Due(packet)
      /\ SoundPayload(packet)' <=> SoundPayload(packet)
      /\ Rank(next - 1)' = Rank(next - 1) /\ Rank(Len(file))' = Rank(Len(file))
  BY <1>2, SamePacket, Zenon
<1>9. CASE packet # <<>>
  <2>1. pc' = "cache"
    BY <1>2, <1>9, Zenon
  <2>2. /\ pc' # "message" /\ pc' # "read" /\ pc' \notin {"read", "pack"}
        /\ pc' \notin {"end", "done"} /\ pc' # "done"
    BY <2>1
  <2>3. /\ Due(packet)' /\ SoundPayload(packet)' /\ eos' = 0 /\ packet' # <<>>
        /\ seq' + Len(packet') = Rank(next - 1)' + 1
    BY <1>2, <1>4, <1>8, <1>9, Zenon
  <2>4. Phase'
    BY <2>2, <2>3, Zenon DEF Phase
  <2> QED BY <1>5, <1>6, <1>7, <2>4, Zenon DEF FInv
<1>10. CASE packet = <<>>
  <2>1. pc' = "end"
    BY <1>2, <1>10, Zenon
  <2>2. /\ pc' # "message" /\ pc' # "read" /\ pc' \notin {"read", "pack"} /\ pc' # "done"
        /\ pc' \notin {"cache", "send"} /\ pc' \notin {"message", "cache", "send"}
    BY <2>1
  <2>3. seq = Rank(Len(file)) + 1
    <3>1. PICK n \in Nat \ {0} : n = seq
      BY <1>1, TypeParts, Zenon
    <3>2. Len(packet) = 0 /\ n + 0 = n
      BY <1>10
    <3> QED BY <1>3, <1>4, <3>1, <3>2, Zenon
  <2>4. Len(file') = Len(file)
    BY <1>2, SameInput, Zenon
  <2>5. next' = Len(file') + 1 /\ seq' = Rank(Len(file))' + 1 /\ packet' = <<>> /\ eos' = 0
    BY <1>2, <1>3, <1>4, <1>8, <1>10, <2>3, <2>4, Zenon
  <2>6. Phase'
    BY <2>2, <2>5, Zenon DEF Phase
  <2> QED BY <1>5, <1>6, <1>7, <2>6, Zenon DEF FInv
<1> QED BY <1>9, <1>10, Zenon

-----------------------------------------------------------------------------
(* The two steps in which a packet leaves, in both feeds. *)

\* The packet that is about to be cached or sent.
LEMMA OutPhase ==
  ASSUME TypeOK, Phase, pc = "cache" \/ pc = "send"
  PROVE  /\ Due(packet) /\ SoundPayload(packet) /\ packet # <<>> /\ eos = 0
         /\ seq + Len(packet) = Rank(next - 1) + 1
         /\ packet \in Seq(1..Len(file)) /\ Len(packet) \in Nat /\ seq \in Nat \ {0}
         /\ Outgoing \in Packet
<1>1. pc \in {"cache", "send"} /\ pc \in {"message", "cache", "send"} /\ pc # "done"
  OBVIOUS
<1>2. packet \in Seq(1..Len(file)) /\ seq \in Nat \ {0} /\ Len(file) \in Nat
  BY TypeParts, SizesAreNat, Zenon
<1>3. Len(packet) \in Nat /\ packet \in Seq(Nat \ {0})
  <2>1. Len(packet) \in Nat
    BY <1>2
  <2>2. 1..Len(file) \subseteq Nat \ {0}
    BY <1>2
  <2>3. packet \in Seq(Nat \ {0})
    BY <1>2, <2>2
  <2> QED BY <2>1, <2>3, Zenon
<1>4. Outgoing \in Packet
  BY <1>2, <1>3 DEF Outgoing, Packet
<1> QED BY <1>1, <1>2, <1>3, <1>4, Zenon DEF Phase

\* rewinder_cache_packet keeps the invariant.
LEMMA CacheKeeps ==
  ASSUME FInv, pc = "cache", Cache, pc' = "send", UNCHANGED <<packet, seq>>,
         UNCHANGED <<input, have, next, eos>>
  PROVE  FInv'
<1>1. TypeOK /\ Numbered /\ AllSound /\ Taken /\ Phase /\ Covers
  BY Zenon DEF FInv
<1>2. /\ UNCHANGED input /\ packet' = packet /\ seq' = seq /\ have' = have /\ next' = next
      /\ eos' = eos /\ wire' = wire
  BY Zenon DEF Cache
<1>3. /\ Due(packet) /\ SoundPayload(packet) /\ packet # <<>> /\ eos = 0
      /\ seq + Len(packet) = Rank(next - 1) + 1
      /\ packet \in Seq(1..Len(file)) /\ seq \in Nat \ {0}
  BY <1>1, OutPhase, Zenon
<1>4. PICK q \in Seq(1..Len(file)) : q = packet /\ Caches(q)
  BY <1>3, Zenon DEF Cache, Caches, Outgoing
<1>5. After = seq /\ After' = seq + Len(q)
  <2>1. pc # "send"
    OBVIOUS
  <2> QED BY <1>2, <1>4, <2>1, Zenon DEF After
<1>6. Numbered'
  <2>1. Due(q)
    BY <1>3, <1>4, Zenon
  <2> QED BY <1>1, <1>2, <1>4, <1>5, <2>1, EmitNumbered, Zenon
<1>7. AllSound'
  <2>1. SoundPayload(q)
    BY <1>3, <1>4, Zenon
  <2> QED BY <1>1, <1>2, <1>4, <2>1, EmitSound, Zenon
<1>8. Covers'
  <2>1. /\ \A n \in 1..(After' - 1) : Covered(n)'
        /\ \A k \in DOMAIN cached' : cached'[k].seq + Len(cached'[k].msgs) <= After'
        /\ \E k \in DOMAIN cached' : cached'[k] = [seq |-> seq, msgs |-> q]
        /\ \A k \in DOMAIN cached : k \in DOMAIN cached' /\ cached'[k] = cached[k]
    BY <1>1, <1>4, <1>5, EmitCovers, Zenon
  <2>2. \E k \in DOMAIN cached' : cached'[k] = Outgoing'
    BY <1>2, <1>4, <2>1, Zenon DEF Outgoing
  <2>3. ASSUME NEW i \in DOMAIN wire' PROVE \E k \in DOMAIN cached' : cached'[k] = wire'[i]
    <3>1. PICK k \in DOMAIN cached : cached[k] = wire[i]
      BY <1>1, <1>2, <2>3, Zenon DEF Covers
    <3> QED BY <1>2, <2>1, <3>1, Zenon
  <2> QED BY <2>1, <2>2, <2>3, Zenon DEF Covers
<1>9. Taken'
  <2>1. \A m : IsCached(m) => IsCached(m)'
    BY <1>1, <1>4, EmitHolds, Zenon
  <2> QED BY <1>1, <1>2, <2>1, TakenSame, Zenon
<1>10. TypeOK'
  <2>1. pc' \in {"read", "pack", "message", "cache", "send", "end", "done"}
    OBVIOUS
  <2>2. cached' \in Seq(Packet)
    BY <1>1, <1>4, EmitTypes, Zenon
  <2>3. /\ have' \in 0..FileSize /\ next' \in 1..(Len(file) + 1) /\ packet' \in Seq(1..Len(file))
        /\ (mode # "timestamp" => have' - Bytes(1, next' - 1) \in 0..BufSize)
        /\ seq' \in Nat \ {0} /\ wire' \in Seq(Packet) /\ eos' \in Nat
    BY <1>1, <1>2, TypeParts, Zenon DEF Leftover
  <2> QED BY <1>1, <1>2, <2>1, <2>2, <2>3, TypesNext, Zenon
<1>11. Phase'
  <2>1. /\ pc' # "message" /\ pc' # "read" /\ pc' \notin {"read", "pack"}
        /\ pc' \notin {"end", "done"} /\ pc' # "done"
    OBVIOUS
  <2>2. Due(packet)' /\ SoundPayload(packet)' /\ Rank(next - 1)' = Rank(next - 1)
    BY <1>2, <1>3, SamePacket, Zenon
  <2>3. seq' + Len(packet') = Rank(next - 1)' + 1 /\ eos' = 0 /\ packet' # <<>>
    BY <1>2, <1>3, <2>2, Zenon
  <2> QED BY <2>1, <2>2, <2>3, Zenon DEF Phase
<1> QED BY <1>6, <1>7, <1>8, <1>9, <1>10, <1>11, Zenon DEF FInv

\* sendto keeps the invariant.
LEMMA SendKeeps ==
  ASSUME FInv, pc = "send", Send, NextPacket, UNCHANGED <<input, have, next, eos>>
  PROVE  FInv'
<1>1. TypeOK /\ Numbered /\ AllSound /\ Taken /\ Phase /\ Covers
  BY Zenon DEF FInv
<1>2. /\ UNCHANGED input /\ packet' = <<>> /\ seq' = seq + Len(packet) /\ have' = have
      /\ next' = next /\ eos' = eos /\ cached' = cached
      /\ pc' = (IF mode = "timestamp" THEN "message" ELSE "pack")
  BY Zenon DEF Send, NextPacket, Step
<1>3. /\ eos = 0 /\ seq + Len(packet) = Rank(next - 1) + 1
      /\ packet \in Seq(1..Len(file)) /\ Len(packet) \in Nat /\ seq \in Nat \ {0}
  BY <1>1, OutPhase, Zenon
<1>4. PICK r \in Packet : r = Outgoing
  BY <1>1, OutPhase, Zenon
<1>5. PICK k \in DOMAIN cached : cached[k] = r /\ cached[k].msgs = packet
  <2>1. PICK k \in DOMAIN cached : cached[k] = r
    BY <1>1, <1>4, Zenon DEF Covers
  <2>2. r.msgs = packet
    BY <1>4 DEF Outgoing
  <2> QED BY <2>1, <2>2, Zenon
<1>6. pc' # "send" /\ DOMAIN packet' = {} /\ Len(packet') = 0 /\ packet' \in Seq(1..Len(file))
      /\ seq' \in Nat \ {0} /\ seq' + 0 = seq'
  <2>1. pc' # "send"
    BY <1>2
  <2>2. DOMAIN packet' = {} /\ Len(packet') = 0 /\ packet' \in Seq(1..Len(file))
    BY <1>2
  <2>3. seq' \in Nat \ {0} /\ seq' + 0 = seq'
    BY <1>2, <1>3
  <2> QED BY <2>1, <2>2, <2>3, Zenon
<1>7. After' = After
  BY <1>2, <1>6, Zenon DEF After
<1>8. /\ Numbered' /\ AllSound' /\ \A m : IsCached(m)' <=> IsCached(m)
      /\ \A n \in 1..(After' - 1) : Covered(n)'
      /\ \A l \in DOMAIN cached' : cached'[l].seq + Len(cached'[l].msgs) <= After'
  BY <1>1, <1>2, <1>7, CacheSame, Zenon
<1>9. wire' \in Seq(Packet) /\ \A i \in DOMAIN wire' : (i \in DOMAIN wire /\ wire'[i] = wire[i]) \/ wire'[i] = r
  BY <1>1, <1>4, EmitSends, Zenon
<1>10. Covers'
  <2>1. ASSUME NEW i \in DOMAIN wire' PROVE \E l \in DOMAIN cached' : cached'[l] = wire'[i]
    <3>1. CASE i \in DOMAIN wire /\ wire'[i] = wire[i]
      BY <1>1, <1>2, <3>1, Zenon DEF Covers
    <3>2. CASE wire'[i] = r
      BY <1>2, <1>5, <3>2, Zenon
    <3> QED BY <1>9, <2>1, <3>1, <3>2, Zenon
  <2> QED BY <1>6, <1>8, <2>1, Zenon DEF Covers
<1>11. Taken'
  <2> SUFFICES ASSUME NEW m \in 1..(next' - 1), Sends(m)' PROVE IsCached(m)'
    BY Zenon DEF Taken
  <2>1. m \in 1..(next - 1) /\ Sends(m)
    BY <1>2, SameInput, Zenon
  <2>2. IsCached(m) \/ InPacket(m)
    BY <1>1, <2>1, Zenon DEF Taken
  <2>3. InPacket(m) => IsCached(m)
    BY <1>5, Zenon DEF InPacket, IsCached
  <2> QED BY <1>8, <2>2, <2>3, Zenon
<1>12. TypeOK'
  <2>1. pc' \in {"read", "pack", "message", "cache", "send", "end", "done"}
    BY <1>2
  <2>2. /\ have' \in 0..FileSize /\ next' \in 1..(Len(file) + 1)
        /\ (mode # "timestamp" => have' - Bytes(1, next' - 1) \in 0..BufSize)
        /\ cached' \in Seq(Packet) /\ eos' \in Nat
    BY <1>1, <1>2, TypeParts, Zenon DEF Leftover
  <2> QED BY <1>1, <1>2, <1>6, <1>9, <2>1, <2>2, TypesNext, Zenon
<1>13. seq' = Rank(next - 1) + 1 /\ Rank(next - 1)' = Rank(next - 1)
  <2>1. PICK m : m = next - 1 /\ m = next' - 1
    BY <1>2, Zenon
  <2>2. Rank(m)' = Rank(m)
    BY <1>2, SameInput, Zenon
  <2>3. Rank(next - 1)' = Rank(m)'
    BY <2>1, Zenon DEF Rank
  <2> QED BY <1>2, <1>3, <2>1, <2>2, <2>3, Zenon
<1>14. CASE mode = "timestamp"
  <2>1. pc' = "message" /\ mode' = "timestamp"
    BY <1>2, <1>14, SameInput, Zenon
  <2>2. /\ pc' # "read" /\ pc' \notin {"read", "pack"} /\ pc' \notin {"cache", "send"}
        /\ pc' \notin {"end", "done"} /\ pc' # "done"
    BY <2>1
  <2>3. Due(packet)'
    BY <1>6, Zenon DEF Due
  <2>4. seq' + Len(packet') = Rank(next - 1)' + 1 /\ eos' = 0
    BY <1>2, <1>3, <1>6, <1>13, Zenon
  <2>5. Phase'
    BY <1>2, <2>1, <2>2, <2>3, <2>4, Zenon DEF Phase
  <2> QED BY <1>8, <1>10, <1>11, <1>12, <2>5, Zenon DEF FInv
<1>15. CASE mode # "timestamp"
  <2>1. pc' = "pack" /\ mode' # "timestamp"
    BY <1>2, <1>15, SameInput, Zenon
  <2>2. /\ pc' # "read" /\ pc' # "message" /\ pc' \notin {"message", "cache", "send"}
        /\ pc' \notin {"cache", "send"} /\ pc' \notin {"end", "done"} /\ pc' # "done"
    BY <2>1
  <2>3. seq' = next'
    <3>1. PICK a \in Nat \ {0} : a = next /\ a - 1 \in Nat
      BY <1>1, SizesAreNat, Zenon
    <3>2. Rank(a - 1) = a - 1
      BY <1>15, <3>1, RankBulk, Zenon
    <3>3. (a - 1) + 1 = a
      BY SMT
    <3> QED BY <1>2, <1>13, <3>1, <3>2, <3>3, Zenon
  <2>4. Phase'
    BY <1>2, <1>3, <2>1, <2>2, <2>3, Zenon DEF Phase
  <2> QED BY <1>8, <1>10, <1>11, <1>12, <2>4, Zenon DEF FInv
<1> QED BY <1>14, <1>15, Zenon

\* Both steps keep the invariant.
LEMMA EmitKeeps == ASSUME FInv, Emit PROVE FInv'
<1>1. UNCHANGED <<input, have, next, eos>>
  BY Zenon DEF Emit
<1>2. \/ pc = "cache" /\ Cache /\ pc' = "send" /\ UNCHANGED <<packet, seq>>
      \/ pc = "send" /\ Send /\ NextPacket
  BY Zenon DEF Emit
<1> QED BY <1>1, <1>2, CacheKeeps, SendKeeps, Zenon

\* The end-of-session packet carries the number a client would expect next.
LEMMA EndKeeps == ASSUME FInv, send_end_of_session PROVE FInv'
<1>1. TypeOK /\ Numbered /\ AllSound /\ Taken /\ Phase /\ Covers
  BY Zenon DEF FInv
<1>2. /\ pc = "end" /\ pc' = "done" /\ UNCHANGED <<input, seq, cached, wire>> /\ UNCHANGED input
      /\ next' = next /\ packet' = packet /\ seq' = seq /\ cached' = cached /\ wire' = wire
      /\ have' = have /\ eos' = seq
  BY Zenon DEF send_end_of_session
<1>3. next = Len(file) + 1 /\ seq = Rank(Len(file)) + 1 /\ packet = <<>>
  <2>1. pc \in {"end", "done"}
    BY <1>2, Zenon
  <2> QED BY <1>1, <2>1, Zenon DEF Phase
<1>4. TypeOK'
  <2>1. pc' \in {"read", "pack", "message", "cache", "send", "end", "done"}
    BY <1>2, Zenon
  <2>2. eos' \in Nat
    <3>1. PICK n \in Nat \ {0} : n = seq
      BY <1>1, TypeParts, Zenon
    <3>2. n \in Nat
      BY SMT
    <3> QED BY <1>2, <3>1, <3>2, Zenon
  <2> QED BY <1>1, <1>2, <2>1, <2>2, SameTypes, Zenon
<1>5. Numbered' /\ AllSound' /\ Covers' /\ \A m : IsCached(m)' <=> IsCached(m)
  <2>1. pc # "send" /\ pc' # "send"
    BY <1>2
  <2> QED BY <1>1, <1>2, <2>1, SendsNothing, Zenon
<1>6. Taken'
  BY <1>1, <1>2, <1>5, TakenSame, Zenon
<1>7. Phase'
  <2>1. /\ pc' \notin {"message", "cache", "send"} /\ pc' \notin {"read", "pack"} /\ pc' # "read"
        /\ pc' # "message" /\ pc' \notin {"cache", "send"}
    BY <1>2
  <2>2. PICK n : n = Len(file) /\ n = Len(file')
    BY <1>2, SameInput, Zenon
  <2>3. Rank(n)' = Rank(n)
    BY <1>2, SameInput, Zenon
  <2>4. Rank(Len(file))' = Rank(n)'
    BY <2>2, Zenon DEF Rank
  <2>5. next' = Len(file') + 1 /\ seq' = Rank(Len(file))' + 1 /\ eos' = seq' /\ packet' = <<>>
    BY <1>2, <1>3, <2>2, <2>3, <2>4, Zenon
  <2> QED BY <1>2, <2>1, <2>5, Zenon DEF Phase
<1> QED BY <1>4, <1>5, <1>6, <1>7, Zenon DEF FInv

\* A step that changes nothing keeps the invariant.
LEMMA StutterKeeps == ASSUME FInv, UNCHANGED vars PROVE FInv'
<1>1. TypeOK /\ Numbered /\ AllSound /\ Taken /\ Phase /\ Covers
  BY Zenon DEF FInv
<1>2. /\ pc' = pc /\ UNCHANGED <<input, seq, cached, wire>> /\ UNCHANGED input
      /\ next' = next /\ packet' = packet /\ seq' = seq /\ cached' = cached /\ wire' = wire
      /\ have' = have /\ eos' = eos /\ file' = file /\ mode' = mode
  BY Zenon DEF vars, input
<1>3. TypeOK'
  <2>1. pc' \in {"read", "pack", "message", "cache", "send", "end", "done"}
    BY <1>1, <1>2, Zenon DEF TypeOK
  <2>2. eos' \in Nat
    BY <1>1, <1>2, TypeParts, Zenon
  <2> QED BY <1>1, <1>2, <2>1, <2>2, SameTypes, Zenon
<1>4. Numbered' /\ AllSound' /\ Covers' /\ \A m : IsCached(m)' <=> IsCached(m)
  <2>1. After' = After
    BY <1>2, Zenon DEF After
  <2>2. /\ Numbered' /\ AllSound' /\ \A m : IsCached(m)' <=> IsCached(m)
        /\ \A n \in 1..(After' - 1) : Covered(n)'
        /\ \A k \in DOMAIN cached' : cached'[k].seq + Len(cached'[k].msgs) <= After'
    BY <1>1, <1>2, <2>1, CacheSame, Zenon
  <2>3. /\ \A i \in DOMAIN wire' : \E k \in DOMAIN cached' : cached'[k] = wire'[i]
        /\ pc' = "send" => \E k \in DOMAIN cached' : cached'[k] = Outgoing'
    BY <1>1, <1>2, Zenon DEF Covers, Outgoing
  <2> QED BY <2>2, <2>3, Zenon DEF Covers
<1>5. Taken'
  BY <1>1, <1>2, <1>4, TakenSame, Zenon
<1>6. Phase'
  <2>1. Fits(next)' <=> Fits(next)
    BY <1>2, SameFits, Zenon
  <2>2. /\ Due(packet)' <=> Due(packet)
        /\ SoundPayload(packet)' <=> SoundPayload(packet)
        /\ Rank(next - 1)' = Rank(next - 1) /\ Rank(Len(file))' = Rank(Len(file))
    BY <1>2, SamePacket, Zenon
  <2> QED BY <1>1, <1>2, <2>1, <2>2, ZenonT(30) DEF Phase
<1> QED BY <1>3, <1>4, <1>5, <1>6, Zenon DEF FInv

-----------------------------------------------------------------------------
(* The theorems. *)

\* Every step of the feed thread keeps the invariant.
LEMMA NextKeeps == ASSUME FInv, [Next]_vars PROVE FInv'
<1>1. CASE Read
  BY <1>1, ReadKeeps, Zenon
<1>2. CASE Pack
  BY <1>2, PackKeeps, Zenon
<1>3. CASE PackEnds
  BY <1>3, PackEndsKeeps, Zenon
<1>4. CASE ReadEnds
  BY <1>4, ReadEndsKeeps, Zenon
<1>5. CASE Message
  BY <1>5, MessageKeeps, Zenon
<1>6. CASE MessagesEnd
  BY <1>6, MessagesEndKeeps, Zenon
<1>7. CASE send_end_of_session
  BY <1>7, EndKeeps, Zenon
<1>8. CASE Emit
  BY <1>8, EmitKeeps, Zenon
<1>9. CASE UNCHANGED vars
  BY <1>9, StutterKeeps, Zenon
<1> QED BY <1>1, <1>2, <1>3, <1>4, <1>5, <1>6, <1>7, <1>8, <1>9, Zenon DEF Next

\* The invariant always holds.
THEOREM FeedInvariant == Spec => []FInv
<1>1. Init => FInv
  BY InitInv
<1>2. FInv /\ [Next]_vars => FInv'
  BY NextKeeps
<1> QED BY <1>1, <1>2, PTL DEF Spec

\* What the invariant says of the stream.
LEMMA InvStream == ASSUME FInv PROVE StreamIsFile
<1>1. TypeOK /\ Numbered /\ Taken /\ Phase
  BY Zenon DEF FInv
<1>2. pc = "done" => /\ \A m \in 1..Len(file) : Sends(m) => IsCached(m)
                     /\ eos = Rank(Len(file)) + 1
  <2> SUFFICES ASSUME pc = "done"
               PROVE  /\ \A m \in 1..Len(file) : Sends(m) => IsCached(m)
                      /\ eos = Rank(Len(file)) + 1
    BY Zenon
  <2>1. pc \in {"end", "done"}
    OBVIOUS
  <2>2. next = Len(file) + 1 /\ seq = Rank(Len(file)) + 1 /\ eos = seq /\ packet = <<>>
    BY <1>1, <2>1, Zenon DEF Phase
  <2>3. next - 1 = Len(file)
    <3>1. PICK l \in Nat : l = Len(file)
      BY <1>1, SizesAreNat, Zenon
    <3>2. (l + 1) - 1 = l
      BY SMT
    <3> QED BY <2>2, <3>1, <3>2, Zenon
  <2>4. \A m \in 1..(next - 1) : Sends(m) => IsCached(m)
    <3>1. DOMAIN packet = {}
      BY <2>2
    <3> QED BY <1>1, <3>1, Zenon DEF Taken, InPacket
  <2> QED BY <2>2, <2>3, <2>4, Zenon
<1>3. \A m \in 1..(next - 1) : Sends(m) =>
        IsCached(m) \/ \E j \in DOMAIN packet : packet[j] = m
  BY <1>1, Zenon DEF Taken, InPacket
<1> QED BY <1>1, <1>2, <1>3, Zenon DEF StreamIsFile, Numbered

\* However reads cut the file, the packets hold every message once and in order,
\* the number of a message is its place in the file, and the session ends after
\* the last complete message (bulk_feed, timestamp_feed, send_end_of_session).
THEOREM FeedStreamIsFile == Spec => []StreamIsFile
BY FeedInvariant, InvStream, PTL

\* No packet is empty, longer than MAX_MSG_PAYLOAD or, in timestamp_feed, of two
\* timestamps, and the read buffer never overflows.
THEOREM FeedPacketsAreSound == Spec => []PacketsAreSound
<1>1. FInv => PacketsAreSound
  BY Zenon DEF FInv, AllSound, SoundPayload, PacketsAreSound
<1> QED BY <1>1, FeedInvariant, PTL

\* A number below one that is at most a is below a.
LEMMA Below ==
  ASSUME NEW s \in Nat, NEW c \in Nat, NEW a \in Nat, s + c <= a
  PROVE  1..(s - 1) \subseteq 1..(a - 1)
OBVIOUS

\* What the invariant says of the wire.
LEMMA InvWire == ASSUME FInv PROVE WireIsCached
<1>1. TypeOK /\ Phase /\ Covers
  BY Zenon DEF FInv
<1>2. PICK a \in Nat : a = After
  <2>1. seq \in Nat \ {0} /\ packet \in Seq(1..Len(file))
    BY <1>1, TypeParts, Zenon
  <2>2. seq \in Nat /\ seq + Len(packet) \in Nat
    BY <2>1
  <2> QED BY <2>2, Zenon DEF After
<1>3. ASSUME NEW i \in DOMAIN wire
      PROVE  /\ \E k \in DOMAIN cached : cached[k] = wire[i]
             /\ \A n \in 1..(wire[i].seq - 1) : Covered(n)
  <2>1. PICK k \in DOMAIN cached : cached[k] = wire[i]
    BY <1>1, <1>3, Zenon DEF Covers
  <2>2. PICK s \in Nat, c \in Nat : s = cached[k].seq /\ c = Len(cached[k].msgs)
    <3>1. cached \in Seq(Packet)
      BY <1>1, TypeParts, Zenon
    <3>2. cached[k] \in Packet
      BY <2>1, <3>1
    <3>3. cached[k].seq \in Nat /\ Len(cached[k].msgs) \in Nat
      BY <3>2 DEF Packet
    <3> QED BY <3>3, Zenon
  <2>3. s + c <= a
    BY <1>1, <1>2, <2>1, <2>2, Zenon DEF Covers
  <2>4. 1..(s - 1) \subseteq 1..(a - 1)
    BY <2>3, Below, Zenon
  <2>5. \A n \in 1..(s - 1) : Covered(n)
    BY <1>1, <1>2, <2>4, Zenon DEF Covers
  <2> QED BY <2>1, <2>2, <2>5, Zenon
<1>4. \A n \in 1..(eos - 1) : Covered(n)
  <2>1. CASE pc = "done"
    <3>1. pc # "send"
      BY <2>1
    <3>2. eos = After
      BY <1>1, <2>1, <3>1, Zenon DEF Phase, After
    <3> QED BY <1>1, <3>2, Zenon DEF Covers
  <2>2. CASE pc # "done"
    <3>1. eos = 0
      BY <1>1, <2>2, Zenon DEF Phase
    <3>2. 1..(eos - 1) = {}
      BY <3>1
    <3> QED BY <3>2, Zenon
  <2> QED BY <2>1, <2>2, Zenon
<1> QED BY <1>3, <1>4, Zenon DEF WireIsCached

\* For every drop and duplicate interval, a packet is sent only when it and every
\* message before it can be asked for again, the packets that drop_every keeps
\* back included, and when the session ends all of them can.
THEOREM FeedWireIsCached == Spec => []WireIsCached
BY FeedInvariant, InvWire, PTL

=============================================================================

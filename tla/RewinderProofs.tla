--------------------------- MODULE RewinderProofs ---------------------------
(***************************************************************************)
(* Proofs about Rewinder for every session, size of the cache, wrap of the *)
(* cursor and request: the cache holds what it should, the lock-free       *)
(* search misses nothing it may not miss, and an answer of which nothing   *)
(* was overwritten is the replay that was asked for.                       *)
(***************************************************************************)
EXTENDS Rewinder, FiniteSetTheorems, WellFoundedInduction, TLAPS

\* How many packets the cursor has passed, and how many are published.
Past == IF fpc = "send" THEN feed ELSE feed - 1
Top == IF fpc \in {"cursor", "send"} THEN feed ELSE feed - 1

Whole(p) == [start_seq |-> Start[p], meta |-> p, bytes |-> p, bytes2 |-> p]

WriterInv ==
  /\ fpc # "zero" => feed \in Packets
  /\ g_write_cursor = Past % CursorMod
  /\ sent \subseteq Published

\* Slots of held packets are whole, a number in a slot is that of a published
\* packet with this slot, and the slot in hand is filled in order.
SlotInv ==
  /\ \A p \in Held : cache[Slot(p - 1)] = Whole(p)
  /\ \A k \in 0..(CacheSlots - 1) :
       cache[k].start_seq # 0 => \E p \in Published : cache[k].start_seq = Start[p] /\ Slot(p - 1) = k
  /\ fpc \in {"bytes", "bytes2", "publish"} => cache[Slot(feed - 1)].meta = feed
  /\ fpc \in {"bytes2", "publish"} => cache[Slot(feed - 1)].bytes = feed
  /\ fpc = "publish" => cache[Slot(feed - 1)].bytes2 = feed

\* The search began with the cursor behind the packets in seen.  The number it
\* loaded is that of a published packet with the slot at hand; while this packet
\* is held, it is the wanted one, and what was copied is its first half.
SearchInv ==
  /\ \E n \in 0..Past : seen = 1..n /\ w = n % CursorMod
  /\ rpc \in {"match", "send", "send2", "reload", "advance"} => i <= scan_max
  /\ rpc \in {"match", "send", "send2"} =>
       \E p \in Published : s = Start[p] /\ Slot(p - 1) = ScanSlot
  /\ rpc \in {"send", "send2"} => \A p \in Held : s = Start[p] => p \in Covering(want_seq)
  /\ rpc = "send2" => \A p \in Held : s = Start[p] => head = p

\* Packets the search may not miss.
Due == Covering(want_seq) \cap Window \cap Held

MissInv ==
  /\ rpc \in {"scan", "match"} => \A p \in Due : p <= Cardinality(seen) + 1 - i
  /\ rpc = "match" => \A p \in Due : p = Cardinality(seen) + 1 - i => s = Start[p]

ReplyInv ==
  /\ known \subseteq Published
  /\ IntactUnlessOverwritten
  /\ \A n \in 1..Len(replies) : \E p \in Published : replies[n].found = Start[p]
  /\ rpc \in {"reload", "advance"} =>
       /\ Len(replies) > 0
       /\ \E p \in Published : replies[Len(replies)].found = Start[p] /\ Slot(p - 1) = ScanSlot
  /\ rpc \in {"scan", "match", "send", "send2"} => Len(replies) < MaxReplay
  /\ rpc # "idle" => req.count > 0

\* No packet that was replayed has been overwritten.
Clean == \A n \in 1..Len(replies) : FoundIn(replies[n]) \subseteq Held

Got == {replies[n].head : n \in 1..Len(replies)}
LastHead == replies[Len(replies)].head
End == req.start + req.count

\* Then the replies are the packets from the one asked for on, and the thread
\* goes on after the last of them with what is left of the request.
AnswerInv ==
  /\ \A n \in 1..Len(replies) :
       /\ replies[n].head \in Packets /\ replies[n].head = replies[1].head + n - 1
       /\ Start[replies[n].head] < End
  /\ Len(replies) > 0 => replies[1].head \in Covering(req.start)
  /\ rpc \in {"next", "scan", "match", "send", "send2"} =>
       /\ want_seq = IF Len(replies) = 0 THEN req.start ELSE Start[LastHead + 1]
       /\ want_cnt = IF want_seq < End THEN End - want_seq ELSE 0
  /\ rpc \in {"scan", "match", "send", "send2"} => want_cnt > 0
  /\ rpc \in {"reload", "advance"} => /\ LastHead \in Covering(want_seq)
                                      /\ want_cnt = End - want_seq
  /\ rpc = "advance" => s = Start[LastHead]
  /\ rpc = "done" => ReplayOf(req, known \cap Window \cap Held) \subseteq Got

IInv == /\ TypeOK /\ WriterInv /\ SlotInv /\ SearchInv /\ MissInv /\ ReplyInv
        /\ rpc # "idle" /\ Clean => AnswerInv

-----------------------------------------------------------------------------
(* Constants and slots. *)
\* Sizes are positive and sequence numbers rise from packet to packet.
LEMMA Constants ==
  /\ NumPackets \in Nat \ {0} /\ CacheSlots \in Nat \ {0} /\ CursorMod \in Nat \ {0}
  /\ CursorMod % CacheSlots = 0 /\ MaxReplay \in Nat \ {0} /\ DropEvery \in Nat
  /\ MaxRequests \in Nat /\ Requests \subseteq [start : Nat, count : Nat]
  /\ \A p \in 1..(NumPackets + 1) : Start[p] \in Nat \ {0}
  /\ \A p, q \in 1..(NumPackets + 1) : p < q => Start[p] < Start[q]
BY StartAssumption, CacheAssumption DEF StartAssumption, CacheAssumption

\* A packet and the one after it are numbered.
LEMMA StartOf ==
  ASSUME NEW p \in Packets
  PROVE  /\ p \in Nat \ {0} /\ Start[p] \in Nat \ {0} /\ Start[p + 1] \in Nat
         /\ Start[p] < Start[p + 1]
<1>1. NumPackets \in Nat /\ p \in 1..(NumPackets + 1) /\ p + 1 \in 1..(NumPackets + 1) /\ p < p + 1
  BY Constants DEF Packets
<1> QED BY <1>1, Constants

\* The first numbers of the packets are in the order of the packets.
LEMMA StartOrder ==
  ASSUME NEW p \in 1..(NumPackets + 1), NEW q \in 1..(NumPackets + 1)
  PROVE  /\ Start[p] <= Start[q] => ~(q < p)
         /\ Start[p] < Start[q] => ~(q < p) /\ q # p
BY Constants

\* Later packets begin after earlier ones end.
LEMMA StartRises ==
  ASSUME NEW p \in Packets, NEW q \in Packets, p < q
  PROVE  Start[p] < Start[q] /\ Start[p + 1] <= Start[q]
<1>1. /\ NumPackets \in Nat /\ p \in 1..(NumPackets + 1) /\ p + 1 \in 1..(NumPackets + 1)
      /\ q \in 1..(NumPackets + 1) /\ p + 1 <= q
  BY Constants DEF Packets
<1>2. Start[p] < Start[q]
  BY <1>1, Constants
<1>3. CASE p + 1 = q
  <2>1. Start[q] \in Nat
    BY StartOf
  <2> QED BY <1>2, <1>3, <2>1
<1>4. CASE p + 1 < q
  <2>1. Start[p + 1] < Start[q]
    BY <1>1, <1>4, Constants
  <2>2. Start[p + 1] \in Nat /\ Start[q] \in Nat
    BY StartOf
  <2> QED BY <1>2, <2>1, <2>2
<1> QED BY <1>1, <1>3, <1>4

\* A sequence number a packet begins with is that of one packet.
LEMMA StartOnce ==
  ASSUME NEW p \in Packets, NEW q \in Packets, Start[p] = Start[q]
  PROVE  p = q
<1>1. p \in Nat /\ q \in Nat /\ Start[p] \in Nat /\ Start[q] \in Nat
  BY StartOf
<1>2. ~(p < q) /\ ~(q < p)
  BY <1>1, StartRises
<1> QED BY <1>1, <1>2

\* A message is in one packet.
LEMMA CoverOnce ==
  ASSUME NEW x \in Nat, NEW p \in Covering(x), NEW q \in Covering(x)
  PROVE  p = q
<1>1. p \in Packets /\ q \in Packets
  BY DEF Covering
<1>2. /\ p \in Nat /\ q \in Nat /\ Start[p] \in Nat /\ Start[q] \in Nat
      /\ Start[p + 1] \in Nat /\ Start[q + 1] \in Nat
  BY <1>1, StartOf
<1>3. Start[p] <= x /\ x < Start[p + 1] /\ Start[q] <= x /\ x < Start[q + 1]
  BY DEF Covering
<1>4. ~(p < q) /\ ~(q < p)
  <2>1. p < q => Start[p + 1] <= Start[q]
    BY <1>1, StartRises
  <2>2. q < p => Start[q + 1] <= Start[p]
    BY <1>1, StartRises
  <2> QED BY <1>2, <1>3, <2>1, <2>2
<1> QED BY <1>2, <1>4

\* A remainder, and what it leaves.
LEMMA Remainder ==
  ASSUME NEW m \in Nat \ {0}, NEW x \in Int
  PROVE  \E r \in 0..(m - 1), k \in Int : r = x % m /\ x = m * k + r
<1>1. x % m \in 0..(m - 1) /\ x \div m \in Int
  OBVIOUS
<1>2. x = m * (x \div m) + (x % m)
  OBVIOUS
<1> QED BY <1>1, <1>2, Zenon

\* Between -m and m there is no other multiple of m than 0.
LEMMA SmallMultiple ==
  ASSUME NEW m \in Nat \ {0}, NEW d \in Int, m * d > -m, m * d < m
  PROVE  d = 0
<1>1. ASSUME d >= 1 PROVE FALSE
  <2>1. d - 1 >= 0 /\ m * d = m * (d - 1) + m
    BY <1>1
  <2>2. m * (d - 1) >= 0
    BY <2>1
  <2> QED BY <2>1, <2>2
<1>2. ASSUME d <= -1 PROVE FALSE
  <2>1. -1 - d >= 0 /\ m * d = -(m * (-1 - d)) - m
    BY <1>2
  <2>2. m * (-1 - d) >= 0
    BY <2>1
  <2>3. m * (-1 - d) \in Int
    OBVIOUS
  <2> QED BY <2>1, <2>2, <2>3
<1> QED BY <1>1, <1>2

\* There is only one way to take a remainder.
LEMMA RemainderOnce ==
  ASSUME NEW m \in Nat \ {0}, NEW k \in Int, NEW r \in 0..(m - 1)
  PROVE  (m * k + r) % m = r
<1>1. PICK y \in Int : y = m * k + r
  OBVIOUS
<1>2. PICK z \in 0..(m - 1), h \in Int : z = y % m /\ y = m * h + z
  BY Remainder, Zenon
<1>3. m * (k - h) = z - r
  BY <1>1, <1>2
<1>4. k - h = 0
  <2>1. k - h \in Int /\ m * (k - h) > -m /\ m * (k - h) < m
    BY <1>3
  <2> QED BY <2>1, SmallMultiple
<1>5. m * (k - h) = 0
  BY <1>4
<1> QED BY <1>1, <1>2, <1>3, <1>5

\* The cursor wraps at a multiple of the cache's size, so that the wrap does not
\* move a slot.
LEMMA SlotOfCursor ==
  ASSUME NEW x \in Int
  PROVE  Slot(x % CursorMod) = Slot(x)
<1>1. /\ CacheSlots \in Nat \ {0} /\ CursorMod \in Nat \ {0} /\ CursorMod \in Int
      /\ CursorMod % CacheSlots = 0
  BY Constants
<1>a. CacheSlots \in Nat \ {0}
  BY <1>1, Zenon
<1>b. CursorMod \in Nat \ {0}
  BY <1>1, Zenon
<1>2. PICK k \in Int : CursorMod = CacheSlots * k
  <2>1. PICK r \in 0..(CacheSlots - 1), k \in Int : r = CursorMod % CacheSlots /\ CursorMod = CacheSlots * k + r
    <3>1. CursorMod \in Int
      BY <1>1, Zenon
    <3> QED BY <1>a, <3>1, Remainder, Zenon
  <2> QED BY <1>1, <2>1
<1>3. PICK y \in 0..(CursorMod - 1), h \in Int : y = x % CursorMod /\ x = CursorMod * h + y
  BY <1>b, Remainder, Zenon
<1>4. PICK r \in 0..(CacheSlots - 1), g \in Int : r = y % CacheSlots /\ y = CacheSlots * g + r
  <2>1. y \in Int
    BY <1>1, <1>3
  <2> QED BY <1>a, <2>1, Remainder, Zenon
<1>5. CursorMod * h = CacheSlots * (k * h)
  BY <1>1, <1>2
<1>6. k * h \in Int /\ k * h + g \in Int
  OBVIOUS
<1>7. x = CacheSlots * (k * h + g) + r
  BY <1>1, <1>3, <1>4, <1>5, <1>6, SMTT(30)
<1>8. x % CacheSlots = r
  BY <1>1, <1>6, <1>7, RemainderOnce
<1> QED BY <1>3, <1>4, <1>8, Zenon DEF Slot

\* Slots exist.
LEMMA SlotRange ==
  ASSUME NEW x \in Int PROVE Slot(x) \in 0..(CacheSlots - 1)
BY Constants, Remainder DEF Slot

\* Packets less than the cache's size apart have slots of their own.
LEMMA SlotsDiffer ==
  ASSUME NEW x \in Int, NEW y \in Int, x < y, y - x < CacheSlots
  PROVE  Slot(x) # Slot(y)
<1> SUFFICES ASSUME Slot(x) = Slot(y) PROVE FALSE
  OBVIOUS
<1>1. CacheSlots \in Nat \ {0}
  BY Constants
<1>2. PICK r \in 0..(CacheSlots - 1), k \in Int : r = Slot(x) /\ x = CacheSlots * k + r
  BY <1>1, Remainder, Zenon DEF Slot
<1>3. PICK q \in 0..(CacheSlots - 1), h \in Int : q = Slot(y) /\ y = CacheSlots * h + q
  BY <1>1, Remainder, Zenon DEF Slot
<1>4. r = q
  BY <1>2, <1>3
<1>5. CacheSlots * (h - k) = y - x
  BY <1>1, <1>2, <1>3, <1>4
<1>6. h - k = 0
  <2>1. h - k \in Int /\ CacheSlots * (h - k) > -CacheSlots /\ CacheSlots * (h - k) < CacheSlots
    BY <1>1, <1>5
  <2> QED BY <1>1, <2>1, SmallMultiple
<1>7. CacheSlots * (h - k) = 0
  BY <1>1, <1>6
<1> QED BY <1>5, <1>7
-----------------------------------------------------------------------------
(* The feed thread. *)
\* Where the thread is: what it passed is published, what is published is begun.
LEMMA Positions ==
  ASSUME TypeOK, WriterInv
  PROVE  /\ Past \in Nat /\ Top \in Nat /\ Begun \in Nat /\ feed \in Nat \ {0}
         /\ Past <= Top /\ Top <= Begun /\ Begun <= Past + 1 /\ Begun <= NumPackets
         /\ Passed = 1..Past /\ Published = 1..Top
         /\ Held = {p \in 1..Top : p > Begun - CacheSlots}
         /\ Published \subseteq Packets /\ Held \subseteq Published /\ Passed \subseteq Published
BY Constants, SMTT(30) DEF TypeOK, WriterInv, Past, Top, Begun, Passed, Published, Held, Packets

\* What a step of the feed thread may do to the packets: more are passed and
\* published, and of those that were published fewer are held.
Forward ==
  /\ Past <= Past' /\ Past' \in Nat
  /\ Published \subseteq Published'
  /\ \A p \in Published : p \in Held' => p \in Held

\* A step of rewinder_cache_packet moves on in the slot of the packet at hand.
LEMMA StoreFacts ==
  ASSUME IInv, feed \in Packets, NEW from, NEW to, NEW slot, Store(from, to, slot),
         from \in {"zero", "meta", "bytes", "bytes2", "publish"},
         to \in {"meta", "bytes", "bytes2", "publish", "cursor"},
         (from = "publish") <=> (to = "cursor"),
         slot \in [start_seq : Nat, meta : Packets \cup {NoPacket},
                   bytes : Packets \cup {NoPacket}, bytes2 : Packets \cup {NoPacket}]
  PROVE  /\ TypeOK' /\ WriterInv' /\ Forward
         /\ Slot(g_write_cursor) = Slot(feed - 1) /\ Slot(feed - 1) \in 0..(CacheSlots - 1)
         /\ cache' = [cache EXCEPT ![Slot(feed - 1)] = slot]
         /\ \A p \in Held : p < feed /\ p > feed - CacheSlots => cache'[Slot(p - 1)] = cache[Slot(p - 1)]
<1>1. /\ feed \in Nat \ {0} /\ Past = feed - 1 /\ Past' = feed - 1 /\ feed' = feed
      /\ CacheSlots \in Nat \ {0} /\ feed - 1 \in Int
  BY Constants DEF IInv, TypeOK, Store, Past, Packets
<1>2. Slot(g_write_cursor) = Slot(feed - 1)
  BY <1>1, SlotOfCursor, Zenon DEF IInv, WriterInv
<1>3. Slot(feed - 1) \in 0..(CacheSlots - 1)
  BY <1>1, SlotRange
<1>4. cache' = [cache EXCEPT ![Slot(feed - 1)] = slot]
  BY <1>2 DEF Store
<1>5. TypeOK'
  <2>1. cache' \in [0..(CacheSlots - 1) ->
                      [start_seq : Nat, meta : Packets \cup {NoPacket},
                       bytes : Packets \cup {NoPacket}, bytes2 : Packets \cup {NoPacket}]]
    BY <1>3, <1>4 DEF IInv, TypeOK
  <2>2. fpc' \in {"zero", "meta", "bytes", "bytes2", "publish", "cursor", "send"}
    BY DEF Store
  <2> QED BY <2>1, <2>2, Zenon DEF IInv, TypeOK, Store, searchVars, requestVars
<1>6. /\ Top <= Top' /\ Begun <= Begun' /\ Top \in Nat /\ Top' \in Nat
      /\ Begun \in Nat /\ Begun' \in Nat /\ Published' = 1..Top' /\ Published = 1..Top
  BY <1>1 DEF Store, Top, Begun, Published
<1>7. Forward
  <2>1. Published \subseteq Published'
    BY <1>6
  <2>2. ASSUME NEW p \in Published, p \in Held' PROVE p \in Held
    <3>1. p > Begun' - CacheSlots
      BY <2>2, Zenon DEF Held
    <3>2. p \in Nat
      BY <1>6
    <3>3. p > Begun - CacheSlots
      <4>1. PICK a \in Nat, b \in Nat, c \in Nat : a = Begun /\ b = Begun' /\ c = CacheSlots
        BY <1>1, <1>6
      <4>2. a <= b /\ p > b - c
        BY <1>6, <3>1, <4>1, Zenon
      <4>3. p > a - c
        BY <3>2, <4>2
      <4> QED BY <4>1, <4>3, Zenon
    <3> QED BY <3>3 DEF Held
  <2>3. Past <= Past' /\ Past' \in Nat
    BY <1>1
  <2> QED BY <2>1, <2>2, <2>3 DEF Forward
<1>8. WriterInv'
  BY <1>1, <1>6 DEF IInv, WriterInv, Store
<1>9. ASSUME NEW p \in Held, p < feed, p > feed - CacheSlots
      PROVE  cache'[Slot(p - 1)] = cache[Slot(p - 1)]
  <2>1. p \in Nat /\ p - 1 \in Int /\ p - 1 < feed - 1 /\ (feed - 1) - (p - 1) < CacheSlots
    BY <1>1, <1>9 DEF Held, Published
  <2>2. Slot(p - 1) # Slot(feed - 1) /\ Slot(p - 1) \in 0..(CacheSlots - 1)
    BY <1>1, <2>1, SlotsDiffer, SlotRange
  <2> QED BY <1>4, <2>2 DEF IInv, TypeOK
<1> QED BY <1>2, <1>3, <1>4, <1>5, <1>7, <1>8, <1>9

\* rewinder_cache_packet leaves held packets alone and publishes a whole one.
LEMMA CacheKeeps ==
  ASSUME IInv, rewinder_cache_packet
  PROVE  TypeOK' /\ WriterInv' /\ SlotInv' /\ Forward
<1>1. feed \in Packets /\ CacheSlots \in Nat \ {0} /\ feed \in Nat \ {0} /\ feed - 1 \in Int
  BY Constants DEF rewinder_cache_packet, Packets
<1> DEFINE k == Slot(feed - 1)
           Entry == [start_seq : Nat, meta : Packets \cup {NoPacket},
                     bytes : Packets \cup {NoPacket}, bytes2 : Packets \cup {NoPacket}]
<1>2. (Slot(g_write_cursor) = k /\ k \in 0..(CacheSlots - 1)) \/ fpc = "send"
  <2>1. CASE fpc # "send"
    <3>1. Past = feed - 1
      BY <2>1 DEF Past
    <3> QED BY <1>1, <3>1, SlotOfCursor, SlotRange, Zenon DEF IInv, WriterInv
  <2> QED BY <2>1
<1>3. (Current \in Entry /\ Current = cache[k]) \/ fpc = "send"
  BY <1>2 DEF IInv, TypeOK, Current
<1>a. Start[feed] \in Nat /\ Start[feed] # 0
  BY <1>1, StartOf
<1> HIDE DEF k, Entry
<1>4. CASE Store("zero", "meta", [Current EXCEPT !.start_seq = 0])
  <2>1. [Current EXCEPT !.start_seq = 0] \in Entry /\ [Current EXCEPT !.start_seq = 0].start_seq = 0
    BY <1>3, <1>4 DEF Entry, Store
  <2>2. PICK e \in Entry : e = [Current EXCEPT !.start_seq = 0]
    BY <2>1
  <2>3. /\ TypeOK' /\ WriterInv' /\ Forward /\ k \in 0..(CacheSlots - 1)
        /\ cache' = [cache EXCEPT ![k] = e]
        /\ \A p \in Held : p < feed /\ p > feed - CacheSlots => cache'[Slot(p - 1)] = cache[Slot(p - 1)]
    BY <1>1, <1>4, <2>2, StoreFacts DEF k, Entry
  <2>4. /\ fpc = "zero" /\ fpc' = "meta" /\ feed' = feed
    BY <1>4 DEF Store
  <2>5. Published' = Published /\ \A p \in Held' : p \in Held /\ p < feed /\ p > feed - CacheSlots
    BY <1>1, <2>4 DEF Published, Held, Begun
  <2>6. \A p \in Held' : cache'[Slot(p - 1)] = Whole(p)
    BY <2>3, <2>5 DEF IInv, SlotInv, Whole
  <2>7. ASSUME NEW j \in 0..(CacheSlots - 1), cache'[j].start_seq # 0
        PROVE  \E p \in Published' : cache'[j].start_seq = Start[p] /\ Slot(p - 1) = j
    <3>1. j # k /\ cache'[j] = cache[j]
      BY <2>1, <2>2, <2>3, <2>7, Zenon DEF IInv, TypeOK
    <3> QED BY <2>5, <2>7, <3>1 DEF IInv, SlotInv
  <2> QED BY <2>3, <2>4, <2>6, <2>7 DEF SlotInv, Whole
<1>5. ASSUME NEW from \in {"meta", "bytes", "bytes2"}, NEW e \in Entry,
             NEW to \in {"bytes", "bytes2", "publish"},
             Store(from, to, e), e.start_seq = Current.start_seq
      PROVE  /\ TypeOK' /\ WriterInv' /\ Forward
             /\ \A p \in Held' : cache'[Slot(p - 1)] = Whole(p)
             /\ \A j \in 0..(CacheSlots - 1) : cache'[j].start_seq # 0 =>
                  \E p \in Published' : cache'[j].start_seq = Start[p] /\ Slot(p - 1) = j
             /\ cache'[k] = e /\ feed' = feed /\ cache[k] = Current
  <2>3. /\ TypeOK' /\ WriterInv' /\ Forward /\ k \in 0..(CacheSlots - 1)
        /\ cache' = [cache EXCEPT ![k] = e] /\ cache[k] = Current
        /\ \A p \in Held : p < feed /\ p > feed - CacheSlots => cache'[Slot(p - 1)] = cache[Slot(p - 1)]
    <3>1. fpc # "send"
      BY <1>5 DEF Store
    <3> QED BY <1>1, <1>3, <1>5, <3>1, StoreFacts DEF k, Entry
  <2>4. /\ fpc = from /\ fpc' = to /\ feed' = feed
    BY <1>5 DEF Store
  <2>5. Published' = Published /\ Held' = Held /\ \A p \in Held : p < feed /\ p > feed - CacheSlots
    BY <1>1, <2>4 DEF Published, Held, Begun
  <2>6. \A p \in Held' : cache'[Slot(p - 1)] = Whole(p)
    BY <2>3, <2>5 DEF IInv, SlotInv, Whole
  <2>7. \A j \in 0..(CacheSlots - 1) : cache'[j].start_seq = cache[j].start_seq
    BY <1>5, <2>3, Zenon DEF IInv, TypeOK
  <2>8. cache'[k] = e
    BY <2>3 DEF IInv, TypeOK
  <2> QED BY <2>3, <2>4, <2>5, <2>6, <2>7, <2>8 DEF IInv, SlotInv
<1>6. CASE Store("meta", "bytes", [Current EXCEPT !.meta = feed])
  <2>1. PICK e \in Entry : e = [Current EXCEPT !.meta = feed]
    BY <1>1, <1>3, <1>6, Zenon DEF Entry, Store
  <2>2. e.start_seq = Current.start_seq /\ e.meta = feed /\ fpc' = "bytes"
    BY <1>3, <1>6, <2>1 DEF Store, Entry
  <2>3. Store("meta", "bytes", e)
    BY <1>6, <2>1
  <2> QED BY <1>5, <2>2, <2>3 DEF SlotInv, k, Whole
<1>7. CASE Store("bytes", "bytes2", [Current EXCEPT !.bytes = feed])
  <2>1. PICK e \in Entry : e = [Current EXCEPT !.bytes = feed]
    BY <1>1, <1>3, <1>7, Zenon DEF Entry, Store
  <2>2. /\ e.start_seq = Current.start_seq /\ e.bytes = feed /\ e.meta = Current.meta
        /\ fpc = "bytes" /\ fpc' = "bytes2"
    BY <1>3, <1>7, <2>1 DEF Store, Entry
  <2>3. Store("bytes", "bytes2", e)
    BY <1>7, <2>1
  <2>4. Current.meta = feed
    BY <1>3, <2>2 DEF IInv, SlotInv, k
  <2> QED BY <1>5, <2>2, <2>3, <2>4 DEF SlotInv, k, Whole
<1>8. CASE Store("bytes2", "publish", [Current EXCEPT !.bytes2 = feed])
  <2>1. PICK e \in Entry : e = [Current EXCEPT !.bytes2 = feed]
    BY <1>1, <1>3, <1>8, Zenon DEF Entry, Store
  <2>2. /\ e.start_seq = Current.start_seq /\ e.bytes2 = feed /\ e.meta = Current.meta
        /\ e.bytes = Current.bytes /\ fpc = "bytes2" /\ fpc' = "publish"
    BY <1>3, <1>8, <2>1 DEF Store, Entry
  <2>3. Store("bytes2", "publish", e)
    BY <1>8, <2>1
  <2>4. Current.meta = feed /\ Current.bytes = feed
    BY <1>3, <2>2 DEF IInv, SlotInv, k
  <2> QED BY <1>5, <2>2, <2>3, <2>4 DEF SlotInv, k, Whole
<1>9. CASE Store("publish", "cursor", [Current EXCEPT !.start_seq = Start[feed]])
  <2>0. fpc = "publish" /\ fpc' = "cursor" /\ feed' = feed
    BY <1>9 DEF Store
  <2>1. PICK e \in Entry : e = [Current EXCEPT !.start_seq = Start[feed]]
    BY <1>a, <1>3, <2>0, Zenon DEF Entry
  <2>2. Current.meta = feed /\ Current.bytes = feed /\ Current.bytes2 = feed
    BY <1>3, <2>0 DEF IInv, SlotInv, k
  <2>3. e = Whole(feed)
    BY <1>3, <2>0, <2>1, <2>2 DEF Entry, Whole
  <2>4. /\ TypeOK' /\ WriterInv' /\ Forward /\ k \in 0..(CacheSlots - 1)
        /\ cache' = [cache EXCEPT ![k] = e]
        /\ \A p \in Held : p < feed /\ p > feed - CacheSlots => cache'[Slot(p - 1)] = cache[Slot(p - 1)]
    BY <1>1, <1>9, <2>1, StoreFacts DEF k, Entry
  <2>5. Published' = Published \cup {feed} /\ \A p \in Held' : p = feed \/ (p \in Held /\ p < feed /\ p > feed - CacheSlots)
    BY <1>1, <2>0 DEF Published, Held, Begun
  <2>6. cache'[k] = Whole(feed)
    BY <2>3, <2>4, Zenon DEF IInv, TypeOK
  <2>7. \A p \in Held' : cache'[Slot(p - 1)] = Whole(p)
    BY <2>4, <2>5, <2>6 DEF IInv, SlotInv, Whole, k
  <2>8. ASSUME NEW j \in 0..(CacheSlots - 1), cache'[j].start_seq # 0
        PROVE  \E p \in Published' : cache'[j].start_seq = Start[p] /\ Slot(p - 1) = j
    <3>1. CASE j = k
      BY <2>5, <2>6, <3>1 DEF Whole, k
    <3>2. CASE j # k
      <4>1. cache'[j] = cache[j]
        BY <2>4, <3>2 DEF IInv, TypeOK
      <4>2. \E p \in Published : cache[j].start_seq = Start[p] /\ Slot(p - 1) = j
        BY <2>8, <4>1, Zenon DEF IInv, SlotInv
      <4> QED BY <2>5, <4>1, <4>2, Zenon
    <3> QED BY <3>1, <3>2, Zenon
  <2> QED BY <2>0, <2>4, <2>7, <2>8 DEF SlotInv, Whole
<1> QED BY <1>4, <1>6, <1>7, <1>8, <1>9 DEF rewinder_cache_packet

\* The cursor counts the packets it has passed, modulo its width.
LEMMA NextCursor ==
  ASSUME NEW m \in Nat \ {0}, NEW x \in Nat
  PROVE  ((x % m) + 1) % m = (x + 1) % m
<1>1. PICK r \in 0..(m - 1), k \in Int : r = x % m /\ x = m * k + r
  <2>1. x \in Int
    OBVIOUS
  <2> QED BY <2>1, Remainder, Zenon
<1>2. CASE r + 1 < m
  <2>1. x + 1 = m * k + (r + 1) /\ r + 1 \in 0..(m - 1)
    BY <1>1, <1>2
  <2>2. (x + 1) % m = r + 1
    BY <2>1, RemainderOnce, Zenon
  <2>3. (r + 1) % m = r + 1
    BY <1>2
  <2> QED BY <1>1, <2>2, <2>3
<1>3. CASE r + 1 = m
  <2>1. x + 1 = m * (k + 1) + 0 /\ k + 1 \in Int /\ 0 \in 0..(m - 1)
    BY <1>1, <1>3
  <2>2. (x + 1) % m = 0
    BY <2>1, RemainderOnce, Zenon
  <2>3. (r + 1) % m = 0
    BY <1>3
  <2> QED BY <1>1, <2>2, <2>3
<1> QED BY <1>1, <1>2, <1>3

\* The cursor moves on once the packet is published.
LEMMA CursorKeeps ==
  ASSUME IInv, AdvanceCursor
  PROVE  TypeOK' /\ WriterInv' /\ SlotInv' /\ Forward
<1>1. /\ fpc = "cursor" /\ fpc' = "send" /\ feed' = feed /\ cache' = cache /\ sent' = sent
      /\ g_write_cursor' = (g_write_cursor + 1) % CursorMod /\ feed \in Nat \ {0}
      /\ CursorMod \in Nat \ {0}
  BY Constants DEF AdvanceCursor, IInv, TypeOK
<1>2. Past = feed - 1 /\ Past' = feed /\ Past \in Nat /\ Past' = Past + 1 /\ Past' \in Nat
  BY <1>1 DEF Past
<1>3. Published' = Published /\ Held' = Held
  BY <1>1 DEF Published, Held, Begun
<1>4. g_write_cursor' = Past' % CursorMod
  BY <1>1, <1>2, NextCursor, Zenon DEF IInv, WriterInv
<1>5. g_write_cursor' \in 0..(CursorMod - 1)
  BY <1>1, <1>2, <1>4
<1>6. TypeOK'
  BY <1>1, <1>5, Zenon DEF IInv, TypeOK, AdvanceCursor, searchVars, requestVars
<1>7. WriterInv'
  BY <1>1, <1>3, <1>4, Zenon DEF IInv, WriterInv
<1>8. SlotInv'
  <2>1. SlotInv
    BY DEF IInv
  <2>2. \A p : Whole(p)' = Whole(p)
    BY <1>1, Zenon DEF Whole
  <2>3. ~(fpc' \in {"bytes", "bytes2", "publish"}) /\ ~(fpc' \in {"bytes2", "publish"}) /\ fpc' # "publish"
    BY <1>1
  <2> QED BY <1>1, <1>3, <2>1, <2>2, <2>3, Zenon DEF SlotInv
<1>9. Forward
  BY <1>2, <1>3 DEF Forward
<1> QED BY <1>6, <1>7, <1>8, <1>9

\* A packet that goes out live, or is left out, has been published.
LEMMA SendKeeps ==
  ASSUME IInv, SendLive
  PROVE  TypeOK' /\ WriterInv' /\ SlotInv' /\ Forward
<1>1. /\ fpc = "send" /\ fpc' = "zero" /\ feed' = feed + 1 /\ cache' = cache
      /\ g_write_cursor' = g_write_cursor /\ feed \in Packets /\ feed \in Nat \ {0}
      /\ sent' \subseteq sent \cup {feed}
  BY Constants DEF SendLive, IInv, WriterInv, Packets
<1>2. Past = feed /\ Past' = feed /\ Past \in Nat
  BY <1>1 DEF Past
<1>3. Published' = Published /\ Held' = Held /\ feed \in Published
  BY <1>1 DEF Published, Held, Begun
<1>4. feed' \in 1..(NumPackets + 1)
  BY <1>1, Constants DEF Packets
<1>5. sent' \subseteq Packets /\ sent' \subseteq Published
  BY <1>1, <1>3, SMTT(30) DEF IInv, TypeOK, WriterInv
<1>6. TypeOK'
  BY <1>1, <1>4, <1>5, Zenon DEF IInv, TypeOK, SendLive, searchVars, requestVars
<1>7. WriterInv'
  BY <1>1, <1>2, <1>3, <1>5, Zenon DEF IInv, WriterInv
<1>8. SlotInv'
  BY <1>1, <1>3 DEF IInv, SlotInv, Whole, Slot
<1>9. Forward
  BY <1>2, <1>3 DEF Forward
<1> QED BY <1>6, <1>7, <1>8, <1>9

\* The feed thread does not touch what the rewinder thread works with, only what
\* it finds in the cache.
LEMMA FeederKeeps ==
  ASSUME IInv, Feeder
  PROVE  /\ TypeOK' /\ WriterInv' /\ SlotInv' /\ Forward
         /\ UNCHANGED <<rpc, searchVars, requestVars>>
<1>1. TypeOK' /\ WriterInv' /\ SlotInv' /\ Forward
  BY CacheKeeps, CursorKeeps, SendKeeps DEF Feeder
<1>2. UNCHANGED <<rpc, searchVars, requestVars>>
  BY DEF Feeder, rewinder_cache_packet, Store, AdvanceCursor, SendLive
<1> QED BY <1>1, <1>2

\* The same packets exist after a step.
LEMMA PositionsNext ==
  ASSUME TypeOK', WriterInv'
  PROVE  Published' \subseteq Packets /\ Held' \subseteq Packets
<1>1. NumPackets \in Nat /\ feed' \in 1..(NumPackets + 1) /\ (fpc' # "zero" => feed' \in 1..NumPackets)
  BY Constants DEF TypeOK, WriterInv, Packets
<1>2. PICK f \in 1..(NumPackets + 1) : f = feed'
  BY <1>1
<1>3. (Published' = 1..f /\ f <= NumPackets) \/ Published' = 1..(f - 1)
  BY <1>1, <1>2 DEF Published
<1>4. 1..(f - 1) \subseteq 1..NumPackets /\ (f <= NumPackets => 1..f \subseteq 1..NumPackets)
  BY <1>1
<1>5. Published' \subseteq 1..NumPackets
  BY <1>3, <1>4, Zenon
<1> QED BY <1>5, Zenon DEF Held, Packets

\* More packets in the cache, more in the answer.
LEMMA ReplayGrows ==
  ASSUME NEW r, NEW C, NEW D, C \subseteq D
  PROVE  ReplayOf(r, C) \subseteq ReplayOf(r, D)
BY DEF ReplayOf

\* What the rewinder thread knows stays true while the feed thread goes forward.
LEMMA ReaderKept ==
  ASSUME IInv, TypeOK', WriterInv', Forward, UNCHANGED <<rpc, searchVars, requestVars>>
  PROVE  /\ SearchInv' /\ MissInv' /\ ReplyInv'
         /\ rpc' # "idle" /\ Clean' => AnswerInv'
<1>1. /\ rpc' = rpc /\ w' = w /\ i' = i /\ s' = s /\ head' = head /\ seen' = seen /\ req' = req
      /\ want_seq' = want_seq /\ want_cnt' = want_cnt /\ replies' = replies
      /\ known' = known /\ received' = received
  BY DEF searchVars, requestVars
<1>2. ScanSlot' = ScanSlot /\ scan_max' = scan_max /\ Window' = Window
  BY <1>1, Zenon DEF ScanSlot, scan_max, Window, Slot
<1>4. /\ Published \subseteq Published' /\ Past \in Nat /\ Past <= Past' /\ Past' \in Nat
      /\ \A p \in Published : p \in Held' => p \in Held
      /\ Published \subseteq Packets /\ Passed \subseteq Published /\ Passed = 1..Past
  BY Positions DEF Forward, IInv
<1>5. Held' \subseteq Packets
  BY PositionsNext
<1>6. ASSUME NEW p \in Packets, p \in Held', NEW q \in Published, Start[p] = Start[q]
      PROVE  p \in Held
  BY <1>4, <1>6, StartOnce, Zenon
<1>7. SearchInv'
  <2>1. \E n \in 0..Past' : seen' = 1..n /\ w' = n % CursorMod
    BY <1>1, <1>4 DEF IInv, SearchInv
  <2>2. rpc' \in {"match", "send", "send2", "reload", "advance"} => i' <= scan_max'
    BY <1>1, <1>2, Zenon DEF IInv, SearchInv
  <2>3. rpc' \in {"match", "send", "send2"} =>
          \E p \in Published' : s' = Start[p] /\ Slot(p - 1) = ScanSlot'
    BY <1>1, <1>2, <1>4, Zenon DEF IInv, SearchInv
  <2>4. ASSUME NEW p \in Held', s' = Start[p], rpc' \in {"send", "send2"}
        PROVE  p \in Held /\ s = Start[p] /\ p \in Covering(want_seq')
    <3>1. PICK q \in Published : s = Start[q]
      BY <1>1, <2>4 DEF IInv, SearchInv
    <3>2. p \in Held
      BY <1>1, <1>5, <1>6, <2>4, <3>1, Zenon
    <3> QED BY <1>1, <2>4, <3>2, Zenon DEF IInv, SearchInv
  <2>5. ASSUME NEW p \in Held', s' = Start[p], rpc' = "send2" PROVE head' = p
    BY <1>1, <2>4, <2>5, Zenon DEF IInv, SearchInv
  <2> QED BY <2>1, <2>2, <2>3, <2>4, <2>5, Zenon DEF SearchInv, Covering, Slot
<1>8. MissInv'
  <2>1. Window \subseteq Published
    BY <1>4 DEF IInv, SearchInv, Window
  <2>2. Due' \subseteq Due
    BY <1>1, <1>2, <1>4, <2>1, Zenon DEF Due, Covering
  <2> QED BY <1>1, <2>2, Zenon DEF IInv, MissInv
<1>9. ASSUME NEW n \in 1..Len(replies), NEW p \in FoundIn(replies[n]), p \in Held'
      PROVE  p \in Held
  <2>1. PICK q \in Published : replies[n].found = Start[q]
    BY DEF IInv, ReplyInv
  <2>2. p \in Packets /\ Start[p] = Start[q]
    BY <2>1, Zenon DEF FoundIn
  <2> QED BY <1>6, <1>9, <2>2, Zenon
<1>10. ReplyInv'
  <2>1. known' \subseteq Published'
    BY <1>1, <1>4, Zenon DEF IInv, ReplyInv
  <2>2. IntactUnlessOverwritten'
    BY <1>1, <1>9 DEF IInv, ReplyInv, IntactUnlessOverwritten, FoundIn, Covering
  <2>3. \A n \in 1..Len(replies') : \E p \in Published' : replies'[n].found = Start[p]
    BY <1>1, <1>4, ZenonT(30) DEF IInv, ReplyInv
  <2>4. rpc' \in {"reload", "advance"} =>
          /\ Len(replies') > 0
          /\ \E p \in Published' : replies'[Len(replies')].found = Start[p] /\ Slot(p - 1) = ScanSlot'
    BY <1>1, <1>2, <1>4, Zenon DEF IInv, ReplyInv
  <2>5. /\ rpc' \in {"scan", "match", "send", "send2"} => Len(replies') < MaxReplay
        /\ rpc' # "idle" => req'.count > 0
    BY <1>1 DEF IInv, ReplyInv
  <2> QED BY <2>1, <2>2, <2>3, <2>4, <2>5, Zenon DEF ReplyInv, Slot
<1>11. ASSUME rpc' # "idle", Clean' PROVE AnswerInv'
  <2>1. Clean
    BY <1>1, <1>9, <1>11 DEF Clean, FoundIn
  <2>2. AnswerInv
    BY <1>1, <1>11, <2>1 DEF IInv
  <2>3. ReplayOf(req, known \cap Window \cap Held') \subseteq ReplayOf(req, known \cap Window \cap Held)
    <3>1. known \cap Window \cap Held' \subseteq known \cap Window \cap Held
      BY <1>4, Zenon DEF IInv, ReplyInv
    <3> QED BY <3>1, ReplayGrows, Zenon
  <2>4. rpc' = "done" => ReplayOf(req, known \cap Window \cap Held)' \subseteq Got'
    <3>1. rpc' = "done" => ReplayOf(req, known \cap Window \cap Held) \subseteq Got
      BY <1>1, <2>2, Zenon DEF AnswerInv
    <3>2. Got' = Got
      BY <1>1, Zenon DEF Got
    <3>3. ReplayOf(req, known \cap Window \cap Held)' = ReplayOf(req, known \cap Window \cap Held')
      BY <1>1, <1>2, Zenon DEF ReplayOf
    <3> QED BY <2>3, <3>1, <3>2, <3>3, Zenon
  <2>5. LastHead' = LastHead /\ End' = End
    BY <1>1 DEF LastHead, End
  <2> QED BY <1>1, <2>2, <2>4, <2>5, Zenon DEF AnswerInv, Covering
<1> QED BY <1>7, <1>8, <1>10, <1>11

-----------------------------------------------------------------------------
(* The rewinder thread. *)
\* The rewinder thread only reads the cache.
LEMMA CacheSame ==
  ASSUME IInv, UNCHANGED writerVars
  PROVE  /\ WriterInv' /\ SlotInv' /\ Published' = Published /\ Held' = Held
         /\ Past' = Past /\ Passed' = Passed /\ cache' = cache
<1>1. /\ cache' = cache /\ g_write_cursor' = g_write_cursor /\ feed' = feed /\ fpc' = fpc
      /\ sent' = sent
  BY Zenon DEF writerVars
<1>2. /\ Published' = Published /\ Held' = Held /\ Past' = Past /\ Passed' = Passed
  BY <1>1 DEF Published, Held, Begun, Past, Passed
<1>3. WriterInv'
  BY <1>1, <1>2, Zenon DEF IInv, WriterInv
<1>4. SlotInv'
  BY <1>1, <1>2, Zenon DEF IInv, SlotInv, Whole, Slot
<1> QED BY <1>1, <1>2, <1>3, <1>4

\* Steps that send nothing leave what is known of the replies.
LEMMA RepliesSame ==
  ASSUME IInv, UNCHANGED <<writerVars, replies, known>>
  PROVE  /\ known' \subseteq Published' /\ IntactUnlessOverwritten'
         /\ \A n \in 1..Len(replies') : \E p \in Published' : replies'[n].found = Start[p]
         /\ Clean' = Clean /\ Got' = Got /\ LastHead' = LastHead
<1>1. replies' = replies /\ known' = known /\ Published' = Published /\ Held' = Held
  BY CacheSame DEF writerVars
<1>2. known' \subseteq Published' /\ IntactUnlessOverwritten'
  <2>1. known' \subseteq Published'
    BY <1>1, Zenon DEF IInv, ReplyInv
  <2>2. IntactUnlessOverwritten
    BY Zenon DEF IInv, ReplyInv
  <2>3. IntactUnlessOverwritten'
    BY <1>1, <2>2 DEF IntactUnlessOverwritten, FoundIn, Covering
  <2> QED BY <2>1, <2>3
<1>3. \A n \in 1..Len(replies') : \E p \in Published' : replies'[n].found = Start[p]
  BY <1>1, Zenon DEF IInv, ReplyInv
<1>4. Clean' = Clean
  BY <1>1, Zenon DEF Clean, FoundIn
<1>5. Got' = Got /\ LastHead' = LastHead
  BY <1>1, Zenon DEF Got, LastHead
<1> QED BY <1>2, <1>3, <1>4, <1>5, Zenon

\* The search began behind n packets.
LEMMA SeenSize ==
  ASSUME IInv
  PROVE  \E n \in Nat : /\ seen = 1..n /\ w = n % CursorMod /\ Cardinality(seen) = n /\ w <= n
                        /\ n <= Past /\ seen \subseteq Published
<1>1. PICK n \in 0..Past : seen = 1..n /\ w = n % CursorMod
  BY DEF IInv, SearchInv
<1>2. /\ Past \in Nat /\ Passed = 1..Past /\ Passed \subseteq Published /\ CursorMod \in Nat \ {0}
  BY Positions, Constants DEF IInv
<1>3. n \in Nat /\ n <= Past /\ 1 \in Int /\ n \in Int
  BY <1>1, <1>2
<1>4. Cardinality(1..n) = n
  BY <1>3, FS_Interval
<1>5. n % CursorMod <= n
  BY <1>2, <1>3
<1>6. 1..n \subseteq Published
  BY <1>2, <1>3
<1> QED BY <1>1, <1>3, <1>4, <1>5, <1>6, Zenon

\* The slot at hand is that of the packet the search has come to.
LEMMA ScanAt ==
  ASSUME IInv, i <= scan_max, NEW n \in Nat, w = n % CursorMod
  PROVE  /\ ScanSlot = Slot(n - i) /\ n - i \in Nat /\ ScanSlot \in 0..(CacheSlots - 1)
         /\ i \in Nat \ {0} /\ i <= CacheSlots
<1>1. /\ CacheSlots \in Nat \ {0} /\ CursorMod \in Nat \ {0} /\ w \in 0..(CursorMod - 1)
      /\ i \in Nat \ {0} /\ n \in Int
  BY Constants DEF IInv, TypeOK
<1>2. i <= w /\ i <= CacheSlots
  BY <1>1 DEF scan_max
<1>3. PICK r \in 0..(CursorMod - 1), k \in Int : r = n % CursorMod /\ n = CursorMod * k + r
  BY <1>1, Remainder, Zenon
<1>4. w - i \in 0..(CursorMod - 1) /\ n - i = CursorMod * k + (w - i) /\ n - i \in Int
  <2>1. w = r /\ CursorMod * k \in Int
    BY <1>1, <1>3
  <2>2. PICK a \in Int : a = CursorMod * k
    BY <2>1
  <2>3. n = a + w
    BY <1>3, <2>1, <2>2, Zenon
  <2>4. n - i = a + (w - i)
    BY <1>1, <2>2, <2>3
  <2> QED BY <1>1, <1>2, <2>2, <2>4
<1>5. (n - i) % CursorMod = w - i
  <2>1. (CursorMod * k + (w - i)) % CursorMod = w - i
    BY <1>1, <1>4, RemainderOnce, Zenon
  <2> QED BY <1>4, <2>1, Zenon
<1>6. (w - i) % CursorMod = w - i
  BY <1>1, <1>4
<1>7. ScanSlot = Slot(n - i)
  BY <1>4, <1>5, <1>6, SlotOfCursor, Zenon DEF ScanSlot
<1>8. w <= n
  BY <1>1
<1>9. n - i \in Nat
  BY <1>1, <1>2, <1>8, SMTT(30)
<1> QED BY <1>1, <1>2, <1>4, <1>7, <1>9, SlotRange, ZenonT(30)

\* A held packet whose slot is at hand is whole there.
LEMMA HeldAt ==
  ASSUME IInv, NEW p \in Held, Slot(p - 1) = ScanSlot
  PROVE  /\ p \in Packets /\ cache[ScanSlot].start_seq = Start[p] /\ cache[ScanSlot].meta = p
         /\ cache[ScanSlot].bytes = p /\ cache[ScanSlot].bytes2 = p
         /\ Count(cache[ScanSlot].meta) = Start[p + 1] - Start[p]
         /\ Start[p] + Count(cache[ScanSlot].meta) = Start[p + 1]
<1>1. p \in Packets
  BY Positions DEF IInv
<1>2. cache[ScanSlot] = Whole(p)
  BY DEF IInv, SlotInv
<1>3. p # 0 /\ Start[p] \in Nat /\ Start[p + 1] \in Nat
  BY <1>1, StartOf
<1> QED BY <1>1, <1>2, <1>3 DEF Whole, Count, NoPacket

\* A request comes in.
LEMMA ReceiveKeeps ==
  ASSUME IInv, NEW r \in Requests, Receive(r)
  PROVE  IInv'
<1>1. /\ UNCHANGED <<writerVars, searchVars>> /\ rpc' = "next" /\ req' = r /\ r.count > 0
      /\ want_seq' = r.start /\ want_cnt' = r.count /\ replies' = <<>> /\ known' = Passed
      /\ r \in [start : Nat, count : Nat] /\ received' = received + 1 /\ received < MaxRequests
  BY Constants DEF Receive
<1>2. /\ WriterInv' /\ SlotInv' /\ Published' = Published /\ Held' = Held
      /\ Past' = Past /\ Passed' = Passed /\ cache' = cache
  BY <1>1, CacheSame
<1>3. Passed \subseteq Published /\ Published \subseteq Packets
  BY Positions DEF IInv
<1>4. TypeOK'
  <2>1. received' \in 0..MaxRequests /\ want_seq' \in Nat /\ want_cnt' \in Nat
    BY <1>1, Constants DEF IInv, TypeOK
  <2>2. known' \subseteq Packets
    BY <1>1, <1>3
  <2>3. Len(replies') <= MaxReplay /\ replies' \in Seq([head : Packets \cup {NoPacket},
          tail : Packets \cup {NoPacket}, want : Nat, found : Nat])
    BY <1>1, Constants
  <2> QED BY <1>1, <2>1, <2>2, <2>3, ZenonT(30) DEF IInv, TypeOK, writerVars, searchVars
<1>5. SearchInv'
  BY <1>1, <1>2, Zenon DEF IInv, SearchInv, searchVars
<1>6. MissInv'
  BY <1>1 DEF MissInv
<1>7. Len(replies') = 0
  BY <1>1, Zenon
<1>8. ReplyInv'
  BY <1>1, <1>2, <1>3, <1>7 DEF ReplyInv, IntactUnlessOverwritten
<1>9. AnswerInv'
  BY <1>1, <1>7 DEF AnswerInv, End
<1> QED BY <1>2, <1>4, <1>5, <1>6, <1>8, <1>9, ZenonT(30) DEF IInv

\* The request is answered; the thread waits for the next one.
LEMMA DoneKeeps ==
  ASSUME IInv, Done
  PROVE  IInv'
<1>1. UNCHANGED <<writerVars, searchVars, requestVars>> /\ rpc' = "idle"
  BY DEF Done
<1>2. UNCHANGED <<writerVars, replies, known>> /\ UNCHANGED writerVars
  BY <1>1 DEF requestVars
<1>3. /\ WriterInv' /\ SlotInv' /\ Published' = Published /\ Held' = Held
      /\ Past' = Past /\ Passed' = Passed /\ cache' = cache
  BY <1>2, CacheSame, Zenon
<1>4. TypeOK'
  BY <1>1, Zenon DEF IInv, TypeOK, writerVars, searchVars, requestVars
<1>5. SearchInv'
  BY <1>1, <1>3, Zenon DEF IInv, SearchInv, searchVars
<1>6. MissInv' /\ ReplyInv'
  BY <1>1, <1>2, RepliesSame DEF MissInv, ReplyInv
<1> QED BY <1>1, <1>3, <1>4, <1>5, <1>6 DEF IInv

\* Of natural numbers there is a least one.
LEMMA LeastNat ==
  ASSUME NEW T \in SUBSET Nat, T # {}
  PROVE  \E x \in T : \A y \in T : x <= y
<1> DEFINE R == OpToRel(<, Nat)
<1>1. \E x \in T : \A y \in T : ~ (<<y, x>> \in R)
  BY NatLessThanWellFounded, WFMin, Zenon
<1>2. \A x, y \in Nat : ~(<<y, x>> \in R) => ~(y < x)
  BY Zenon DEF OpToRel
<1> HIDE DEF R
<1>3. PICK x \in T : \A y \in T : ~(y < x)
  BY <1>1, <1>2, Zenon
<1> QED BY <1>3

\* A message that is not before the session and not after packet p is in one of
\* the packets up to p.
LEMMA CoverExists ==
  ASSUME NEW x \in Nat, Start[1] <= x, NEW p \in Packets, x < Start[p + 1]
  PROVE  \E q \in 1..p : q \in Covering(x)
<1> DEFINE T == {q \in 1..p : Start[q + 1] > x}
<1>1. p \in Nat \ {0} /\ T \in SUBSET Nat /\ p \in T
  BY StartOf
<1>2. PICK q \in T : \A y \in T : q <= y
  BY <1>1, LeastNat, Zenon
<1>3. q \in 1..p /\ q \in Packets /\ x < Start[q + 1] /\ Start[q] \in Nat /\ q \in Nat \ {0}
  <2>1. q \in 1..p /\ x < Start[q + 1]
    BY StartOf, <1>1, Zenon
  <2>2. q \in Packets
    BY <1>1, <2>1, Constants DEF Packets
  <2> QED BY <2>1, <2>2, StartOf, Zenon
<1>4. Start[q] <= x
  <2>1. CASE q = 1
    BY <2>1
  <2>2. CASE q # 1
    <3>1. q - 1 \in 1..p /\ q - 1 \notin T /\ (q - 1) + 1 = q
      BY <1>1, <1>2, <1>3, <2>2
    <3>2. ~(Start[q] > x)
      BY <3>1, Zenon
    <3> QED BY <1>3, <3>2
  <2> QED BY <2>1, <2>2
<1> QED BY <1>3, <1>4 DEF Covering

\* What is known of the replies while none of them was overwritten: they are
\* packets in a row, and each is the one its search asked for.
LEMMA GotRow ==
  ASSUME TypeOK, AnswerInv, Len(replies) > 0
  PROVE  /\ replies[1].head \in Packets /\ LastHead \in Packets
         /\ LastHead = replies[1].head + Len(replies) - 1 /\ Len(replies) \in Nat
         /\ Got = replies[1].head .. LastHead
         /\ Start[replies[1].head] <= req.start /\ req.start < Start[replies[1].head + 1]
<1>1. PICK n \in Nat : n = Len(replies)
  BY DEF TypeOK
<1>2. n > 0 /\ 1 \in 1..n /\ n \in 1..n
  BY <1>1, SMTT(30)
<1>3. /\ \A k \in 1..n : replies[k].head \in Packets /\ replies[k].head = replies[1].head + k - 1
      /\ replies[1].head \in Covering(req.start)
  BY <1>1, SMTT(30) DEF AnswerInv
<1>4. PICK f \in Nat : f = replies[1].head
  BY <1>2, <1>3, StartOf, ZenonT(30)
<1>5. LastHead = f + n - 1 /\ LastHead \in Packets
  BY <1>1, <1>2, <1>3, <1>4, Zenon DEF LastHead
<1>6. Got = f..LastHead
  <2>0. PICK e \in Nat : e = LastHead /\ e = f + n - 1
    BY <1>2, <1>5
  <2>1. ASSUME NEW k \in 1..n PROVE replies[k].head \in f..LastHead
    <3>1. replies[k].head = f + k - 1
      BY <1>3, <1>4, Zenon
    <3>2. f + k - 1 \in f..e
      BY <2>0
    <3> QED BY <2>0, <3>1, <3>2, Zenon
  <2>2. ASSUME NEW p \in f..LastHead PROVE \E k \in 1..n : replies[k].head = p
    <3>0. p \in f..e
      BY <2>0, <2>2, Zenon
    <3>1. p - f + 1 \in 1..n /\ p = f + (p - f + 1) - 1
      BY <2>0, <3>0
    <3>2. replies[p - f + 1].head = p
      BY <1>3, <1>4, <3>1, ZenonT(30)
    <3> QED BY <3>1, <3>2
  <2> QED BY <1>1, <2>1, <2>2, SMTT(30) DEF Got
<1> QED BY <1>1, <1>2, <1>3, <1>4, <1>5, <1>6, Zenon DEF Covering

\* The wanted number is the one after the last reply.
LEMMA NextWanted ==
  ASSUME TypeOK, AnswerInv, Len(replies) > 0, NEW q \in Covering(Start[LastHead + 1])
  PROVE  q = LastHead + 1
<1>1. LastHead \in Packets /\ q \in Packets
  BY GotRow DEF Covering
<1>2. /\ NumPackets \in Nat /\ LastHead \in 1..NumPackets /\ q \in 1..NumPackets
      /\ LastHead + 1 \in 1..(NumPackets + 1) /\ q + 1 \in 1..(NumPackets + 1)
      /\ q \in 1..(NumPackets + 1)
  BY <1>1, Constants DEF Packets
<1>3. Start[q] <= Start[LastHead + 1] /\ Start[LastHead + 1] < Start[q + 1]
  BY DEF Covering
<1>4. Start[q] \in Nat /\ Start[LastHead + 1] \in Nat /\ Start[q + 1] \in Nat
  BY <1>2, Constants, Zenon
<1>5. ~(LastHead + 1 < q)
  BY <1>2, <1>3, StartOrder, Zenon
<1>6. ~(q + 1 < LastHead + 1) /\ q + 1 # LastHead + 1
  BY <1>2, <1>3, StartOrder, Zenon
<1>7. PICK h \in Nat : h = LastHead
  BY <1>2
<1>8. q \in Nat
  BY <1>2
<1>9. ~(h + 1 < q) /\ ~(q + 1 < h + 1) /\ q + 1 # h + 1
  BY <1>5, <1>6, <1>7, Zenon
<1>10. q = h + 1
  BY <1>8, <1>9
<1> QED BY <1>7, <1>10, Zenon

\* When the request is used up, or the limit of replies reached, everything that
\* may be asked for has been sent.
LEMMA EnoughReplies ==
  ASSUME IInv, AnswerInv, rpc = "next", ~(Len(replies) < MaxReplay /\ want_cnt > 0), NEW C
  PROVE  ReplayOf(req, C) \subseteq Got
<1>1. /\ MaxReplay \in Nat \ {0} /\ Len(replies) \in Nat /\ Len(replies) <= MaxReplay
      /\ req.start \in Nat /\ req.count \in Nat /\ req.count > 0 /\ want_cnt \in Nat
      /\ End = req.start + req.count
  BY Constants, SMTT(30) DEF IInv, TypeOK, ReplyInv, End
<1>2. /\ want_seq = IF Len(replies) = 0 THEN req.start ELSE Start[LastHead + 1]
      /\ want_cnt = IF want_seq < End THEN End - want_seq ELSE 0
  BY DEF AnswerInv
<1>3. Len(replies) > 0
  BY <1>1, <1>2
<1>4. PICK f \in Packets, l \in Packets :
        /\ l = LastHead /\ l = f + Len(replies) - 1 /\ Got = f..l
        /\ Start[f] <= req.start /\ req.start < Start[f + 1]
  BY <1>3, GotRow DEF IInv
<1> SUFFICES ASSUME NEW p \in ReplayOf(req, C) PROVE p \in f..l
  BY <1>4, Zenon
<1>5. /\ p \in Packets /\ Start[p + 1] > req.start /\ Start[p] < End
      /\ Cardinality({q \in 1..p : Start[q + 1] > req.start}) <= MaxReplay
  BY DEF ReplayOf, End
<1>6. /\ p \in Nat /\ f \in Nat \ {0} /\ l \in Nat /\ Start[p] \in Nat /\ Start[p + 1] \in Nat
      /\ Start[f] \in Nat /\ Start[l + 1] \in Nat /\ Start[f + 1] \in Nat
  BY <1>5, StartOf, Zenon
<1>7. ~(p < f)
  <2>1. p < f => Start[p + 1] <= Start[f]
    <3>1. p \in Packets
      BY <1>5, Zenon
    <3> QED BY <3>1, StartRises, Zenon
  <2>2. ~(Start[p + 1] <= Start[f])
    <3>1. PICK a \in Nat, b \in Nat : a = Start[p + 1] /\ b = Start[f]
      BY <1>6, Zenon
    <3>2. PICK c \in Nat : c = req.start
      BY <1>1, Zenon
    <3>3. a > c /\ b <= c
      BY <1>4, <1>5, <3>1, <3>2, Zenon
    <3>4. ~(a <= b)
      BY <3>3
    <3> QED BY <3>1, <3>4, Zenon
  <2> QED BY <2>1, <2>2, Zenon
<1>8. ASSUME l < p PROVE FALSE
  <2>1. Start[l + 1] <= Start[p] /\ l \in Packets
    <3>1. p \in Packets
      BY <1>5, Zenon
    <3> QED BY <1>8, <3>1, StartRises, Zenon
  <2>2. CASE want_cnt = 0
    <3>1. want_seq = Start[l + 1]
      BY <1>2, <1>3, <1>4
    <3>2. ~(Start[l + 1] < End)
      <4>0. req.start + req.count \in Nat
        BY <1>1
      <4>1. PICK a \in Nat, b \in Nat : a = Start[l + 1] /\ b = End
        BY <1>1, <1>6, <4>0, Zenon
      <4>2. 0 = IF a < b THEN b - a ELSE 0
        BY <1>2, <2>2, <3>1, <4>1, Zenon
      <4>3. ~(a < b)
        BY <4>2
      <4> QED BY <4>1, <4>3, Zenon
    <3>3. req.start + req.count \in Nat
      BY <1>1
    <3>4. PICK a \in Nat, b \in Nat, d \in Nat : a = Start[l + 1] /\ b = End /\ d = Start[p]
      BY <1>1, <1>6, <3>3, Zenon
    <3>5. ~(a < b) /\ a <= d /\ d < b
      BY <1>5, <2>1, <3>2, <3>4, Zenon
    <3> QED BY <3>5
  <2>3. CASE Len(replies) = MaxReplay
    <3> DEFINE T == {q \in 1..p : Start[q + 1] > req.start}
    <3>1. f..p \subseteq T
      <4> SUFFICES ASSUME NEW q \in f..p PROVE q \in 1..p /\ Start[q + 1] > req.start
        BY Zenon
      <4>1. q \in Nat /\ q \in 1..p /\ q \in Packets
        BY <1>5, <1>6, Constants DEF Packets
      <4>2. CASE q = f
        BY <1>4, <4>1, <4>2
      <4>3. CASE f < q
        <5>1. Start[f + 1] <= Start[q] /\ Start[q] < Start[q + 1] /\ Start[q] \in Nat /\ Start[q + 1] \in Nat
          BY <4>1, <4>3, StartRises, StartOf, Zenon
        <5>2. req.start < Start[f + 1]
          BY <1>4
        <5>3. PICK a \in Nat, b \in Nat, c \in Nat, d \in Nat :
                a = req.start /\ b = Start[f + 1] /\ c = Start[q] /\ d = Start[q + 1]
          BY <1>1, <1>6, <5>1, Zenon
        <5>4. a < b /\ b <= c /\ c < d
          BY <5>1, <5>2, <5>3, Zenon
        <5>5. d > a
          BY <5>4
        <5> QED BY <4>1, <5>3, <5>5, Zenon
      <4> QED BY <1>6, <4>1, <4>2, <4>3
    <3>2. IsFiniteSet(1..p) /\ 1 \in Int /\ p \in Int /\ f \in Int
      BY <1>6, FS_Interval
    <3>3. IsFiniteSet(T)
      <4>1. T \subseteq 1..p
        OBVIOUS
      <4> QED BY <3>2, <4>1, FS_Subset
    <3>4. Cardinality(f..p) = p - f + 1
      BY <1>6, <1>7, <3>2, FS_Interval
    <3>5. Cardinality(f..p) <= Cardinality(T)
      BY <3>1, <3>3, FS_Subset, Zenon
    <3>6. Cardinality(T) <= MaxReplay /\ Cardinality(T) \in Nat
      BY <1>5, <3>3, FS_CardinalityType, Zenon
    <3> HIDE DEF T
    <3> QED BY <1>1, <1>4, <1>6, <1>8, <2>3, <3>4, <3>5, <3>6, SMTT(30)
  <2> QED BY <1>1, <2>2, <2>3
<1> QED BY <1>6, <1>7, <1>8, SMTT(30)

\* A search that comes to its end has missed nothing it may not miss: a packet it
\* has still to reach is out of the cursor's range or overwritten.
LEMMA NothingMissed ==
  ASSUME IInv, rpc = "scan", i > scan_max
  PROVE  Due = {}
<1> SUFFICES ASSUME NEW p \in Due PROVE FALSE
  OBVIOUS
<1>1. PICK n \in Nat : /\ seen = 1..n /\ w = n % CursorMod /\ Cardinality(seen) = n /\ w <= n
                       /\ n <= Past
  BY SeenSize, Zenon
<1>2. /\ CacheSlots \in Nat \ {0} /\ w \in Nat /\ i \in Nat /\ Past \in Nat /\ Begun \in Nat
      /\ Past <= Begun
  BY Constants, Positions DEF IInv, TypeOK
<1>3. p \in 1..n /\ p > n - w
  BY <1>1 DEF Due, Window
<1>4. p > Begun - CacheSlots
  BY DEF Due, Held
<1>5. p <= n + 1 - i
  BY <1>1 DEF IInv, MissInv
<1>6. p > n - CacheSlots
  BY <1>1, <1>2, <1>3, <1>4
<1> QED BY <1>2, <1>3, <1>5, <1>6 DEF scan_max

\* So a search that ends without a find has nothing to find.
LEMMA MissAnswers ==
  ASSUME IInv, AnswerInv, rpc = "scan", i > scan_max
  PROVE  ReplayOf(req, known \cap Window \cap Held) \subseteq Got
<1> DEFINE C == known \cap Window \cap Held
<1> SUFFICES ASSUME NEW p \in ReplayOf(req, C), p \notin Got PROVE FALSE
  OBVIOUS
<1>1. Due = {}
  BY NothingMissed
<1>2. /\ p \in Packets /\ Start[p + 1] > req.start /\ Start[1] <= req.start
      /\ \A q \in 1..p : Start[q + 1] > req.start => q \in C
  BY Zenon DEF ReplayOf
<1>3. /\ req.start \in Nat /\ Len(replies) \in Nat /\ want_seq \in Nat
      /\ p \in Nat /\ Start[p + 1] \in Nat
  BY <1>2, StartOf, SMTT(30) DEF IInv, TypeOK
<1>4. want_seq = IF Len(replies) = 0 THEN req.start ELSE Start[LastHead + 1]
  BY DEF AnswerInv
<1>5. ASSUME NEW q \in Covering(want_seq), q \in 1..p, Start[q + 1] > req.start PROVE FALSE
  BY <1>1, <1>2, <1>5, Zenon DEF Due
<1>6. CASE Len(replies) = 0
  <2>1. req.start < Start[p + 1] /\ want_seq = req.start
    BY <1>2, <1>3, <1>4, <1>6, Zenon
  <2>2. PICK q \in 1..p : q \in Covering(req.start)
    BY <1>2, <1>3, <2>1, CoverExists, Zenon
  <2>3. Start[q + 1] > req.start
    BY <2>2, <1>3, StartOf, Zenon DEF Covering
  <2> QED BY <1>5, <2>1, <2>2, <2>3, Zenon
<1>7. CASE Len(replies) > 0
  <2>1. PICK f \in Packets, l \in Packets :
          /\ l = LastHead /\ l = f + Len(replies) - 1 /\ Got = f..l
          /\ Start[f] <= req.start /\ req.start < Start[f + 1]
    BY <1>7, GotRow, Zenon DEF IInv
  <2>2. /\ p \in Nat /\ f \in Nat \ {0} /\ l \in Nat \ {0} /\ Start[f] \in Nat /\ f <= l
        /\ Start[f + 1] \in Nat
    <3>1. PICK c \in Nat : c = Len(replies) /\ c > 0
      BY <1>3, <1>7
    <3>2. /\ p \in Nat /\ f \in Nat \ {0} /\ l \in Nat \ {0}
          /\ Start[f] \in Nat /\ Start[f + 1] \in Nat
      BY <1>2, StartOf, Zenon
    <3>3. l = f + c - 1
      BY <2>1, <3>1, Zenon
    <3>4. f <= l
      BY <3>1, <3>2, <3>3
    <3> QED BY <3>2, <3>4, Zenon
  <2>3. ~(p < f)
    <3>1. p < f => Start[p + 1] <= Start[f]
      BY <1>2, StartRises, Zenon
    <3>2. ~(Start[p + 1] <= Start[f])
      BY <1>2, <1>3, <2>1, <2>2
    <3> QED BY <3>1, <3>2, Zenon
  <2>4. l < p
    BY <2>1, <2>2, <2>3
  <2>5. PICK q \in Packets : q = l + 1 /\ q \in 1..p /\ f < q
    BY <1>2, <1>3, <2>2, <2>4, Constants DEF Packets
  <2>6. want_seq = Start[q]
    BY <1>3, <1>4, <1>7, <2>1, <2>5
  <2>7. Start[q] \in Nat /\ Start[q + 1] \in Nat /\ Start[q] < Start[q + 1]
    BY StartOf, Zenon
  <2>8. q \in Covering(want_seq)
    BY <2>6, <2>7 DEF Covering
  <2>9. Start[f + 1] <= Start[q]
    BY <2>5, StartRises
  <2>10. Start[q + 1] > req.start
    <3>1. PICK a \in Nat, b \in Nat, c \in Nat, d \in Nat :
            a = req.start /\ b = Start[f + 1] /\ c = Start[q] /\ d = Start[q + 1]
      BY <1>3, <2>2, <2>7, ZenonT(30)
    <3>2. a < b /\ b <= c /\ c < d
      BY <2>1, <2>7, <2>9, <3>1, Zenon
    <3>3. d > a
      BY <3>2
    <3> QED BY <3>1, <3>3, Zenon
  <2> QED BY <1>5, <2>5, <2>8, <2>10, Zenon
<1> QED BY <1>3, <1>6, <1>7

\* Steps of a search leave the request and the replies.
LEMMA RequestSame ==
  ASSUME IInv, UNCHANGED <<writerVars, requestVars>>
  PROVE  /\ WriterInv' /\ SlotInv' /\ Published' = Published /\ Held' = Held
         /\ Past' = Past /\ cache' = cache /\ UNCHANGED requestVars
         /\ req' = req /\ want_seq' = want_seq /\ want_cnt' = want_cnt
         /\ replies' = replies /\ known' = known
         /\ known' \subseteq Published' /\ IntactUnlessOverwritten'
         /\ \A n \in 1..Len(replies') : \E p \in Published' : replies'[n].found = Start[p]
         /\ Clean' = Clean /\ Got' = Got /\ LastHead' = LastHead /\ End' = End
<1>1. /\ UNCHANGED <<writerVars, replies, known>> /\ UNCHANGED writerVars /\ UNCHANGED requestVars
      /\ req' = req /\ want_seq' = want_seq /\ want_cnt' = want_cnt
      /\ replies' = replies /\ known' = known
  BY DEF requestVars
<1>2. End' = End
  BY <1>1 DEF End
<1> QED BY <1>1, <1>2, CacheSame, RepliesSame, Zenon

\* A search begins with the cursor, behind which all passed packets are.
LEMMA NextKeeps ==
  ASSUME IInv, NextSearch
  PROVE  IInv'
<1>1. /\ rpc = "next" /\ UNCHANGED <<writerVars, requestVars>>
      /\ \/ /\ Len(replies) < MaxReplay /\ want_cnt > 0 /\ w' = g_write_cursor /\ i' = 1
            /\ seen' = Passed /\ rpc' = "scan" /\ s' = s /\ head' = head
         \/ /\ ~(Len(replies) < MaxReplay /\ want_cnt > 0) /\ rpc' = "done" /\ UNCHANGED searchVars
  BY Zenon DEF NextSearch
<1>2. /\ WriterInv' /\ SlotInv' /\ Published' = Published /\ Held' = Held
      /\ Past' = Past /\ cache' = cache /\ UNCHANGED requestVars
      /\ req' = req /\ want_seq' = want_seq /\ want_cnt' = want_cnt
      /\ replies' = replies /\ known' = known
      /\ known' \subseteq Published' /\ IntactUnlessOverwritten'
      /\ \A n \in 1..Len(replies') : \E p \in Published' : replies'[n].found = Start[p]
      /\ Clean' = Clean /\ Got' = Got /\ LastHead' = LastHead /\ End' = End
  BY <1>1, RequestSame, Zenon
<1>3. /\ Past \in Nat /\ Passed = 1..Past /\ Passed \subseteq Packets
      /\ 1 \in 1..(CacheSlots + 1)
  BY Positions, Constants, SMTT(30) DEF IInv
<1>4. ReplyInv'
  BY <1>1, <1>2, Zenon DEF IInv, ReplyInv
<1>5. ASSUME Clean' PROVE AnswerInv
  BY <1>1, <1>2, <1>5, Zenon DEF IInv
<1>6. CASE rpc' = "scan"
  <2>1. /\ Len(replies) < MaxReplay /\ want_cnt > 0 /\ w' = g_write_cursor /\ i' = 1
        /\ seen' = 1..Past /\ s' = s /\ head' = head
    BY <1>1, <1>3, <1>6
  <2>2. TypeOK'
    BY <1>1, <1>3, <1>6, <2>1, ZenonT(30) DEF IInv, TypeOK, writerVars, requestVars
  <2>3. SearchInv'
    <3>1. w' = Past % CursorMod
      BY <2>1, Zenon DEF IInv, WriterInv
    <3>2. Past \in 0..Past
      BY <1>3
    <3>3. \E n \in 0..Past' : seen' = 1..n /\ w' = n % CursorMod
      BY <1>2, <2>1, <3>1, <3>2, Zenon
    <3> QED BY <1>6, <3>3, Zenon DEF SearchInv
  <2>4. Cardinality(seen') = Past
    <3>1. 1 \in Int /\ Past \in Int
      BY <1>3
    <3>2. Cardinality(1..Past) = Past
      BY <1>3, <3>1, FS_Interval
    <3> QED BY <2>1, <3>2, Zenon
  <2>5. MissInv'
    <3>1. ASSUME NEW p \in Due' PROVE p <= Cardinality(seen') + 1 - i'
      <4>1. p \in 1..Past
        BY <2>1 DEF Due, Window
      <4>2. p <= Past + 1 - 1
        BY <1>3, <4>1
      <4> QED BY <2>1, <2>4, <4>2, Zenon
    <3> QED BY <1>6, <3>1, Zenon DEF MissInv
  <2>6. ASSUME Clean' PROVE AnswerInv'
    BY <1>1, <1>2, <1>5, <1>6, <2>1, <2>6, ZenonT(30) DEF AnswerInv, Covering
  <2> QED BY <1>2, <1>4, <2>2, <2>3, <2>5, <2>6, Zenon DEF IInv
<1>7. CASE rpc' = "done"
  <2>1. UNCHANGED searchVars /\ ~(Len(replies) < MaxReplay /\ want_cnt > 0)
    BY <1>1, <1>7
  <2>2. TypeOK'
    BY <1>1, <1>7, <2>1, Zenon DEF IInv, TypeOK, writerVars, requestVars, searchVars
  <2>3. SearchInv'
    BY <1>2, <1>7, <2>1, Zenon DEF IInv, SearchInv, searchVars
  <2>4. MissInv'
    BY <1>7 DEF MissInv
  <2>5. ASSUME Clean' PROVE AnswerInv'
    <3>1. AnswerInv
      BY <1>5, <2>5, SMTT(30)
    <3>2. ReplayOf(req, known \cap Window \cap Held)' \subseteq Got'
      <4>1. Window' = Window
        BY <2>1 DEF Window, searchVars
      <4>2. ReplayOf(req, known \cap Window \cap Held)' = ReplayOf(req, known \cap Window \cap Held)
        BY <1>2, <4>1, Zenon DEF ReplayOf
      <4> QED BY <1>1, <1>2, <2>1, <3>1, <4>2, EnoughReplies, Zenon
    <3> QED BY <1>2, <1>7, <3>1, <3>2, Zenon DEF AnswerInv, Covering
  <2> QED BY <1>2, <1>4, <2>2, <2>3, <2>4, <2>5 DEF IInv
<1> QED BY <1>1, <1>6, <1>7, Zenon

\* A step of find_packet either ends the search, passes over an empty slot, or
\* has the number of a published packet in hand.
LEMMA ScanKeeps ==
  ASSUME IInv, Scan
  PROVE  IInv'
<1>1. /\ rpc = "scan" /\ UNCHANGED <<writerVars, requestVars>>
      /\ w' = w /\ head' = head /\ seen' = seen
  BY Zenon DEF Scan
<1>2. /\ WriterInv' /\ SlotInv' /\ Published' = Published /\ Held' = Held
      /\ Past' = Past /\ cache' = cache /\ UNCHANGED requestVars
      /\ req' = req /\ want_seq' = want_seq /\ want_cnt' = want_cnt
      /\ replies' = replies /\ known' = known
      /\ known' \subseteq Published' /\ IntactUnlessOverwritten'
      /\ \A n \in 1..Len(replies') : \E p \in Published' : replies'[n].found = Start[p]
      /\ Clean' = Clean /\ Got' = Got /\ LastHead' = LastHead /\ End' = End
  BY <1>1, RequestSame, Zenon
<1>3. /\ Window' = Window /\ scan_max' = scan_max /\ Due' = Due
  BY <1>1, <1>2, ZenonT(30) DEF Window, scan_max, Due, Covering
<1>4. ASSUME rpc' \in {"scan", "match", "done"} PROVE ReplyInv'
  <2>1. rpc' # "reload" /\ rpc' # "advance"
    BY <1>4
  <2>2. Len(replies) < MaxReplay /\ req.count > 0
    BY <1>1, Zenon DEF IInv, ReplyInv
  <2> QED BY <1>2, <2>1, <2>2, Zenon DEF ReplyInv
<1>5. ASSUME Clean' PROVE AnswerInv
  BY <1>1, <1>2, <1>5, Zenon DEF IInv
<1>6. PICK n \in Nat : /\ seen = 1..n /\ w = n % CursorMod /\ Cardinality(seen) = n /\ w <= n
                       /\ n <= Past
  BY SeenSize
<1>7. \E m \in 0..Past' : seen' = 1..m /\ w' = m % CursorMod
  BY <1>1, <1>2, Zenon DEF IInv, SearchInv
<1>8. CASE i > scan_max
  <2>1. rpc' = "done" /\ i' = i /\ s' = s
    BY <1>8 DEF Scan
  <2>2. TypeOK'
    BY <1>1, <2>1, Zenon DEF IInv, TypeOK, writerVars, requestVars
  <2>3. SearchInv' /\ MissInv' /\ ReplyInv'
    BY <1>4, <1>7, <2>1 DEF SearchInv, MissInv
  <2>4. ASSUME Clean' PROVE AnswerInv'
    <3>1. AnswerInv
      BY <1>5, <2>4, SMTT(30)
    <3>2. ReplayOf(req, known \cap Window \cap Held)' \subseteq Got'
      <4>1. ReplayOf(req, known \cap Window \cap Held)' = ReplayOf(req, known \cap Window \cap Held)
        BY <1>2, <1>3, Zenon DEF ReplayOf
      <4> QED BY <1>1, <1>2, <1>8, <3>1, <4>1, MissAnswers, Zenon
    <3> QED BY <1>2, <2>1, <3>1, <3>2, Zenon DEF AnswerInv, Covering
  <2> QED BY <1>2, <2>2, <2>3, <2>4, Zenon DEF IInv
<1>9. CASE ~(i > scan_max)
  <2>1. /\ i \in Nat \ {0} /\ i <= scan_max /\ scan_max \in Nat
    BY <1>9, Constants DEF IInv, TypeOK, scan_max
  <2>2. /\ ScanSlot = Slot(n - i) /\ n - i \in Nat /\ ScanSlot \in 0..(CacheSlots - 1)
        /\ i <= CacheSlots
    BY <1>6, <2>1, ScanAt, Zenon
  <2>3. /\ s' = cache[ScanSlot].start_seq
        /\ \/ s' = 0 /\ i' = i + 1 /\ rpc' = "scan"
           \/ s' # 0 /\ i' = i /\ rpc' = "match"
    BY <1>1, <1>9, Zenon DEF Scan
  <2>4. s' \in Nat
    BY <2>2, <2>3, Zenon DEF IInv, TypeOK
  <2>5. ASSUME NEW p \in Due, p = n + 1 - i PROVE s' = Start[p] /\ s' # 0
    <3>1. p \in Held /\ p - 1 = n - i
      BY <2>2, <2>5, <2>1 DEF Due
    <3>2. Slot(p - 1) = ScanSlot
      BY <2>2, <3>1, Zenon
    <3> QED BY <2>3, <3>1, <3>2, HeldAt, StartOf, Zenon
  <2>6. \A p \in Due : p <= n + 1 - i /\ p \in Nat
    <3>1. \A p \in Due : p \in seen
      BY DEF Due, Window
    <3> QED BY <1>1, <1>6, <3>1 DEF IInv, MissInv
  <2>7. ASSUME Clean' PROVE AnswerInv'
    <3>1. AnswerInv
      BY <1>5, <2>7
    <3> QED BY <1>1, <1>2, <2>3, <3>1, ZenonT(30) DEF AnswerInv, Covering
  <2>8. i' \in 1..(CacheSlots + 1)
    BY <2>1, <2>2, <2>3, Constants
  <2>9. TypeOK'
    BY <1>1, <2>3, <2>4, <2>8, Zenon DEF IInv, TypeOK, writerVars, requestVars
  <2>10. CASE rpc' = "scan"
    <3>1. s' = 0 /\ i' = i + 1
      BY <2>3, <2>10, Zenon
    <3>2. SearchInv'
      BY <1>7, <2>10, Zenon DEF SearchInv
    <3>3. MissInv'
      <4>1. ASSUME NEW p \in Due PROVE p <= n + 1 - (i + 1)
        BY <2>1, <2>5, <2>6, <3>1, SMTT(30)
      <4> QED BY <1>1, <1>3, <1>6, <2>10, <3>1, <4>1, Zenon DEF MissInv
    <3> QED BY <1>2, <1>4, <2>7, <2>9, <2>10, <3>2, <3>3, ZenonT(30) DEF IInv
  <2>11. CASE rpc' = "match"
    <3>1. s' # 0 /\ i' = i
      BY <2>3, <2>11
    <3>2. ScanSlot' = ScanSlot
      BY <1>1, <3>1, ZenonT(30) DEF ScanSlot, Slot
    <3>3. \E p \in Published' : s' = Start[p] /\ Slot(p - 1) = ScanSlot'
      BY <1>2, <2>2, <2>3, <3>1, <3>2, ZenonT(30) DEF IInv, SlotInv
    <3>4. SearchInv'
      BY <1>3, <1>7, <2>1, <2>11, <3>1, <3>3, ZenonT(30) DEF SearchInv, Slot
    <3>5. MissInv'
      BY <1>1, <1>3, <1>6, <2>5, <2>6, <2>11, <3>1, ZenonT(30) DEF MissInv
    <3> QED BY <1>2, <1>4, <2>7, <2>9, <2>11, <3>4, <3>5, ZenonT(30) DEF IInv
  <2> QED BY <2>3, <2>10, <2>11, Zenon
<1> QED BY <1>8, <1>9

\* The number in hand is compared with the wanted one.
LEMMA MatchKeeps ==
  ASSUME IInv, Match
  PROVE  IInv'
<1>1. /\ rpc = "match" /\ UNCHANGED <<writerVars, requestVars>>
      /\ w' = w /\ head' = head /\ seen' = seen /\ s' = s
  BY Zenon DEF Match
<1>2. /\ WriterInv' /\ SlotInv' /\ Published' = Published /\ Held' = Held
      /\ Past' = Past /\ cache' = cache /\ UNCHANGED requestVars
      /\ req' = req /\ want_seq' = want_seq /\ want_cnt' = want_cnt
      /\ replies' = replies /\ known' = known
      /\ known' \subseteq Published' /\ IntactUnlessOverwritten'
      /\ \A n \in 1..Len(replies') : \E p \in Published' : replies'[n].found = Start[p]
      /\ Clean' = Clean /\ Got' = Got /\ LastHead' = LastHead /\ End' = End
  BY <1>1, RequestSame, Zenon
<1>3. /\ Window' = Window /\ scan_max' = scan_max /\ Due' = Due
  BY <1>1, <1>2, Zenon DEF Window, scan_max, Due, Covering
<1>4. ASSUME rpc' \in {"scan", "send"} PROVE ReplyInv'
  BY <1>1, <1>2, <1>4, Zenon DEF IInv, ReplyInv
<1>5. ASSUME Clean', rpc' \in {"scan", "send"} PROVE AnswerInv'
  <2>1. AnswerInv
    BY <1>1, <1>2, <1>5, Zenon DEF IInv
  <2> QED BY <1>1, <1>2, <1>5, <2>1, Zenon DEF AnswerInv, Covering
<1>6. PICK n \in Nat : /\ seen = 1..n /\ w = n % CursorMod /\ Cardinality(seen) = n /\ w <= n
                       /\ n <= Past
  BY SeenSize
<1>7. \E m \in 0..Past' : seen' = 1..m /\ w' = m % CursorMod
  BY <1>1, <1>2, Zenon DEF IInv, SearchInv
<1>8. i <= scan_max /\ \E p \in Published : s = Start[p] /\ Slot(p - 1) = ScanSlot
  BY <1>1, Zenon DEF IInv, SearchInv
<1>9. /\ ScanSlot = Slot(n - i) /\ n - i \in Nat /\ ScanSlot \in 0..(CacheSlots - 1)
      /\ i <= CacheSlots /\ i \in Nat \ {0}
  BY <1>6, <1>8, ScanAt, Zenon
<1>10. Held \subseteq Packets /\ Published \subseteq Packets
  BY Positions, Zenon DEF IInv
<1>11. ASSUME NEW p \in Held, s = Start[p]
       PROVE  /\ s + Count(cache[ScanSlot].meta) = Start[p + 1]
              /\ (s <= want_seq /\ want_seq < s + Count(cache[ScanSlot].meta)) <=> p \in Covering(want_seq)
  <2>1. PICK q \in Published : s = Start[q] /\ Slot(q - 1) = ScanSlot
    BY <1>8
  <2>2. p = q
    BY <1>10, <1>11, <2>1, StartOnce, Zenon
  <2>3. s + Count(cache[ScanSlot].meta) = Start[p + 1]
    BY <1>11, <2>1, <2>2, HeldAt, ZenonT(30)
  <2> QED BY <1>10, <1>11, <2>3 DEF Covering
<1>12. CASE s <= want_seq /\ want_seq < s + Count(cache[ScanSlot].meta)
  <2>1. rpc' = "send" /\ i' = i
    BY <1>12 DEF Match
  <2>2. TypeOK'
    BY <1>1, <2>1, Zenon DEF IInv, TypeOK, writerVars, requestVars
  <2>3. ScanSlot' = ScanSlot
    BY <1>1, <2>1 DEF ScanSlot, Slot
  <2>4. SearchInv'
    <3>1. \A p \in Held' : s' = Start[p] => (p \in Covering(want_seq))'
      <4>1. Held' = Held /\ s' = s /\ (Covering(want_seq))' = Covering(want_seq)
        BY <1>1, <1>2, Zenon DEF Covering
      <4>2. \A p \in Held : s = Start[p] => p \in Covering(want_seq)
        BY <1>11, <1>12, Zenon
      <4> QED BY <4>1, <4>2, Zenon
    <3>2. \E p \in Published' : s' = Start[p] /\ Slot(p - 1) = ScanSlot'
      BY <1>1, <1>2, <1>8, <2>3, Zenon
    <3> QED BY <1>3, <1>7, <1>8, <2>1, <3>1, <3>2, ZenonT(30) DEF SearchInv, Slot, Covering
  <2>5. MissInv'
    BY <2>1, SMTT(30) DEF MissInv
  <2> QED BY <1>2, <1>4, <1>5, <2>1, <2>2, <2>4, <2>5, Zenon DEF IInv
<1>13. CASE ~(s <= want_seq /\ want_seq < s + Count(cache[ScanSlot].meta))
  <2>1. rpc' = "scan" /\ i' = i + 1
    BY <1>13, Zenon DEF Match
  <2>2. i' \in 1..(CacheSlots + 1)
    BY <1>9, <2>1, Constants
  <2>3. TypeOK'
    BY <1>1, <2>1, <2>2, Zenon DEF IInv, TypeOK, writerVars, requestVars
  <2>4. SearchInv'
    BY <1>7, <2>1, Zenon DEF SearchInv
  <2>5. \A p \in Due : p <= n + 1 - i /\ p \in Nat /\ (p = n + 1 - i => s = Start[p])
    <3>1. \A p \in Due : p \in seen
      BY DEF Due, Window
    <3> QED BY <1>1, <1>6, <3>1 DEF IInv, MissInv
  <2>6. ASSUME NEW p \in Due PROVE p <= n + 1 - (i + 1)
    <3>1. p # n + 1 - i
      BY <1>11, <1>13, <2>5 DEF Due
    <3> QED BY <1>9, <2>5, <3>1
  <2>7. MissInv'
    BY <1>1, <1>3, <1>6, <2>1, <2>6, ZenonT(30) DEF MissInv
  <2> QED BY <1>2, <1>4, <1>5, <2>1, <2>3, <2>4, <2>7, Zenon DEF IInv
<1> QED BY <1>12, <1>13, Zenon

\* The packet whose number is in hand, while it is held, is whole in the slot.
LEMMA InHandWhole ==
  ASSUME IInv, rpc \in {"send", "send2"}, NEW p \in Held, s = Start[p]
  PROVE  /\ p \in Packets /\ cache[ScanSlot].bytes = p /\ cache[ScanSlot].bytes2 = p
         /\ p \in Covering(want_seq)
<1>1. PICK q \in Published : s = Start[q] /\ Slot(q - 1) = ScanSlot
  BY DEF IInv, SearchInv
<1>2. p \in Packets /\ q \in Packets
  BY Positions DEF IInv
<1>3. p = q
  BY <1>1, <1>2, StartOnce, Zenon
<1>4. p \in Covering(want_seq)
  BY SMTT(30) DEF IInv, SearchInv
<1> QED BY <1>1, <1>2, <1>3, <1>4, HeldAt, Zenon

\* sendto copies the first half.
LEMMA HeadKeeps ==
  ASSUME IInv, SendHead
  PROVE  IInv'
<1>1. /\ rpc = "send" /\ rpc' = "send2" /\ UNCHANGED <<writerVars, requestVars>>
      /\ w' = w /\ i' = i /\ seen' = seen /\ s' = s /\ head' = cache[ScanSlot].bytes
  BY Zenon DEF SendHead
<1>2. /\ WriterInv' /\ SlotInv' /\ Published' = Published /\ Held' = Held
      /\ Past' = Past /\ cache' = cache /\ UNCHANGED requestVars
      /\ req' = req /\ want_seq' = want_seq /\ want_cnt' = want_cnt
      /\ replies' = replies /\ known' = known
      /\ known' \subseteq Published' /\ IntactUnlessOverwritten'
      /\ \A n \in 1..Len(replies') : \E p \in Published' : replies'[n].found = Start[p]
      /\ Clean' = Clean /\ Got' = Got /\ LastHead' = LastHead /\ End' = End
  BY <1>1, RequestSame, Zenon
<1>3. scan_max' = scan_max /\ ScanSlot' = ScanSlot
  BY <1>1, Zenon DEF scan_max, ScanSlot, Slot, writerVars
<1>4. ReplyInv' /\ MissInv'
  BY <1>1, <1>2 DEF IInv, ReplyInv, MissInv
<1>5. ASSUME Clean' PROVE AnswerInv'
  <2>1. AnswerInv
    BY <1>1, <1>2, <1>5, Zenon DEF IInv
  <2> QED BY <1>1, <1>2, <2>1, ZenonT(30) DEF AnswerInv, Covering
<1>6. PICK n \in Nat : w = n % CursorMod
  BY SeenSize, Zenon
<1>7. i <= scan_max /\ ScanSlot \in 0..(CacheSlots - 1)
  BY <1>1, <1>6, ScanAt, SMTT(30) DEF IInv, SearchInv
<1>8. head' \in Packets \cup {NoPacket}
  BY <1>1, <1>7, Zenon DEF IInv, TypeOK
<1>9. TypeOK'
  BY <1>1, <1>8, Zenon DEF IInv, TypeOK, writerVars, requestVars
<1>10. SearchInv'
  <2>1. \A p \in Held' : s' = Start[p] => head' = p
    BY <1>1, <1>2, InHandWhole, Zenon
  <2> QED BY <1>1, <1>2, <1>3, <2>1, ZenonT(30) DEF IInv, SearchInv, Covering, Slot
<1> QED BY <1>1, <1>2, <1>4, <1>5, <1>9, <1>10, ZenonT(30) DEF IInv

\* The second half follows, and the reply is out.
LEMMA TailKeeps ==
  ASSUME IInv, SendTail
  PROVE  IInv'
<1> DEFINE new == [head |-> head, tail |-> cache[ScanSlot].bytes2, want |-> want_seq, found |-> s]
           Reply == [head : Packets \cup {NoPacket}, tail : Packets \cup {NoPacket},
                     want : Nat, found : Nat]
<1>1. /\ rpc = "send2" /\ rpc' = "reload" /\ UNCHANGED <<writerVars, searchVars>>
      /\ req' = req /\ want_seq' = want_seq /\ want_cnt' = want_cnt /\ known' = known
      /\ received' = received /\ replies' = Append(replies, new)
      /\ w' = w /\ i' = i /\ seen' = seen /\ s' = s /\ head' = head
  BY DEF SendTail, searchVars
<1>2. /\ WriterInv' /\ SlotInv' /\ Published' = Published /\ Held' = Held
      /\ Past' = Past /\ Passed' = Passed /\ cache' = cache
  BY <1>1, CacheSame, Zenon
<1>3. scan_max' = scan_max /\ ScanSlot' = ScanSlot
  BY <1>1, Zenon DEF scan_max, ScanSlot, Slot, writerVars
<1>4. PICK n \in Nat : w = n % CursorMod
  BY SeenSize
<1>5. i <= scan_max /\ ScanSlot \in 0..(CacheSlots - 1)
  BY <1>1, <1>4, ScanAt, ZenonT(30) DEF IInv, SearchInv
<1>6. new \in Reply /\ replies \in Seq(Reply)
  BY <1>5, ZenonT(30) DEF IInv, TypeOK
<1>7. PICK e \in Reply : e = new
  BY <1>6, Zenon
<1>8. e.head = head /\ e.tail = cache[ScanSlot].bytes2 /\ e.want = want_seq /\ e.found = s
  BY <1>7
<1> HIDE DEF new, Reply
<1>9. PICK l \in Nat : l = Len(replies)
  BY <1>6
<1>10. /\ replies' \in Seq(Reply) /\ Len(replies') = l + 1 /\ replies'[l + 1] = e
       /\ \A k \in 1..l : replies'[k] = replies[k]
  BY <1>1, <1>6, <1>7, <1>9, SMTT(30)
<1>11. l < MaxReplay /\ MaxReplay \in Nat
  BY <1>1, <1>9, Constants, Zenon DEF IInv, ReplyInv
<1>12. TypeOK'
  <2>1. Len(replies') <= MaxReplay
    BY <1>9, <1>10, <1>11
  <2> QED BY <1>1, <1>10, <2>1, Zenon DEF IInv, TypeOK, writerVars, Reply
<1>13. SearchInv' /\ MissInv'
  BY <1>1, <1>2, <1>3, Zenon DEF IInv, SearchInv, MissInv
<1>14. PICK q \in Published : s = Start[q] /\ Slot(q - 1) = ScanSlot
  BY <1>1, Zenon DEF IInv, SearchInv
<1>15. Published \subseteq Packets /\ Held \subseteq Packets
  BY Positions, SMTT(30) DEF IInv
<1>16. ASSUME NEW p \in FoundIn(e), p \in Held
       PROVE  p \in Covering(e.want) /\ e.head = p /\ e.tail = p
  <2>1. p \in Packets /\ s = Start[p]
    BY <1>8, Zenon DEF FoundIn
  <2>2. head = p
    BY <1>1, <1>16, <2>1, SMTT(30) DEF IInv, SearchInv
  <2>3. cache[ScanSlot].bytes2 = p /\ p \in Covering(want_seq)
    BY <1>1, <1>16, <2>1, InHandWhole, ZenonT(30)
  <2> QED BY <1>8, <2>2, <2>3, Zenon
<1>17. ReplyInv'
  <2>1. \A k \in 1..(l + 1) : k = l + 1 \/ k \in 1..l
    BY SMTT(30)
  <2>2. IntactUnlessOverwritten'
    <3>1. ASSUME NEW k \in 1..(l + 1), NEW p \in FoundIn(replies'[k]), p \in Held
          PROVE  p \in Covering(replies'[k].want) /\ replies'[k].head = p /\ replies'[k].tail = p
      <4>1. CASE k = l + 1
        BY <1>10, <1>16, <3>1, <4>1, SMTT(30)
      <4>2. CASE k \in 1..l
        <5>1. replies'[k] = replies[k]
          BY <1>10, <4>2, Zenon
        <5>2. p \in FoundIn(replies[k]) \cap Held /\ k \in 1..Len(replies)
          BY <1>9, <3>1, <4>2, <5>1, Zenon
        <5>3. p \in Covering(replies[k].want) /\ replies[k].head = p /\ replies[k].tail = p
          BY <5>2, ZenonT(30) DEF IInv, ReplyInv, IntactUnlessOverwritten
        <5> QED BY <5>1, <5>3, Zenon
      <4> QED BY <2>1, <4>1, <4>2, Zenon
    <3> QED BY <1>2, <1>10, <3>1, ZenonT(30) DEF IntactUnlessOverwritten, FoundIn, Covering
  <2>3. \A k \in 1..Len(replies') : \E p \in Published' : replies'[k].found = Start[p]
    <3>1. ASSUME NEW k \in 1..(l + 1) PROVE \E p \in Published : replies'[k].found = Start[p]
      <4>1. CASE k = l + 1
        BY <1>8, <1>10, <1>14, <4>1, Zenon
      <4>2. CASE k \in 1..l
        BY <1>9, <1>10, <4>2, Zenon DEF IInv, ReplyInv
      <4> QED BY <2>1, <4>1, <4>2, Zenon
    <3> QED BY <1>2, <1>10, <3>1, Zenon
  <2>4. \E p \in Published' : replies'[Len(replies')].found = Start[p] /\ Slot(p - 1) = ScanSlot'
    BY <1>2, <1>3, <1>8, <1>10, <1>14, SMTT(30)
  <2>5. known' \subseteq Published' /\ req'.count > 0 /\ Len(replies') > 0
    <3>1. known \subseteq Published /\ req.count > 0
      BY <1>1, Zenon DEF IInv, ReplyInv
    <3>2. Len(replies') > 0
      BY <1>10, SMTT(30)
    <3> QED BY <1>1, <1>2, <3>1, <3>2, ZenonT(30)
  <2> QED BY <1>1, <2>2, <2>3, <2>4, <2>5, ZenonT(30) DEF ReplyInv, Slot
<1>18. ASSUME Clean' PROVE AnswerInv'
  <2>1. \A k \in 1..(l + 1) : FoundIn(replies'[k]) \subseteq Held
    BY <1>2, <1>10, <1>18, Zenon DEF Clean, FoundIn
  <2>2. Clean
    <3>1. ASSUME NEW k \in 1..l PROVE FoundIn(replies[k]) \subseteq Held
      <4>1. k \in 1..(l + 1) /\ replies'[k] = replies[k]
        BY <1>10
      <4> QED BY <2>1, <4>1, Zenon
    <3> QED BY <1>9, <3>1, Zenon DEF Clean
  <2>3. AnswerInv
    BY <1>1, <2>2, Zenon DEF IInv
  <2>4. q \in FoundIn(e) /\ q \in Packets
    BY <1>8, <1>14, <1>15, Zenon DEF FoundIn
  <2>5. q \in Held
    <3>1. l + 1 \in 1..(l + 1)
      OBVIOUS
    <3> QED BY <1>10, <2>1, <2>4, <3>1, Zenon
  <2>6. e.head = q /\ q \in Covering(want_seq)
    BY <1>8, <1>16, <2>4, <2>5, ZenonT(30)
  <2>7. /\ want_seq \in Nat /\ want_cnt \in Nat /\ req.start \in Nat /\ req.count \in Nat /\ End \in Nat
        /\ Start[q] \in Nat /\ Start[q] <= want_seq /\ q \in Nat
    <3>1. /\ want_seq \in Nat /\ want_cnt \in Nat /\ req.start \in Nat /\ req.count \in Nat
      BY Zenon DEF IInv, TypeOK
    <3>2. req.start + req.count \in Nat
      BY <3>1
    <3>3. q \in Nat /\ Start[q] \in Nat
      BY <2>4, StartOf
    <3>4. Start[q] <= want_seq
      BY <2>6, Zenon DEF Covering
    <3> QED BY <3>1, <3>2, <3>3, <3>4, Zenon DEF End
  <2>8. /\ want_seq = IF l = 0 THEN req.start ELSE Start[LastHead + 1]
        /\ want_cnt = IF want_seq < End THEN End - want_seq ELSE 0
        /\ want_cnt > 0
    BY <1>1, <1>9, <2>3, Zenon DEF AnswerInv
  <2>9. want_seq < End /\ want_cnt = End - want_seq /\ Start[q] < End
    BY <2>7, <2>8, SMTT(30)
  <2>10. q = replies'[1].head + l /\ replies'[1].head \in Covering(req.start)
    <3>1. CASE l = 0
      <4>1. l + 1 = 1 /\ q + l = q
        BY <2>7, <3>1
      <4>2. replies'[1].head = q
        BY <1>10, <2>6, <4>1, Zenon
      <4>3. want_seq = req.start
        BY <2>8, <3>1, ZenonT(30)
      <4> QED BY <2>6, <4>1, <4>2, <4>3, Zenon
    <3>2. CASE l > 0
      <4>1. q = LastHead + 1
        BY <1>9, <2>3, <2>6, <2>8, <3>2, NextWanted, SMTT(30) DEF IInv
      <4>2. LastHead = replies[1].head + l - 1 /\ replies[1].head \in Packets
        BY <1>9, <2>3, <3>2, GotRow, Zenon DEF IInv
      <4>3. 1 \in 1..l /\ replies'[1] = replies[1]
        BY <1>10, <3>2, SMTT(30)
      <4>4. replies[1].head \in Covering(req.start)
        BY <1>9, <2>3, <3>2, ZenonT(30) DEF AnswerInv
      <4>5. replies[1].head \in Nat
        BY <4>2, StartOf, Zenon
      <4> QED BY <4>1, <4>2, <4>3, <4>4, <4>5, SMTT(30)
    <3> QED BY <3>1, <3>2, SMTT(30)
  <2>11. LastHead' = q /\ End' = End
    BY <1>1, <1>10, <2>6, Zenon DEF LastHead, End
  <2>12. ASSUME NEW k \in 1..(l + 1)
         PROVE  /\ replies'[k].head \in Packets /\ replies'[k].head = replies'[1].head + k - 1
                /\ Start[replies'[k].head] < End
    <3>1. CASE k = l + 1
      <4>1. replies'[1].head \in Int
        <5>1. replies'[1].head \in Packets
          BY <2>10 DEF Covering
        <5> QED BY <5>1, StartOf
      <4>2. replies'[k].head = q
        BY <1>10, <2>6, <3>1
      <4> QED BY <2>4, <2>9, <2>10, <3>1, <4>1, <4>2, SMTT(30)
    <3>2. CASE k \in 1..l
      <4>1. replies'[k] = replies[k] /\ replies'[1] = replies[1]
        BY <1>10, <3>2
      <4> QED BY <1>9, <2>3, <3>2, <4>1, Zenon DEF AnswerInv
    <3> QED BY <3>1, <3>2, SMTT(30)
  <2>13. (LastHead \in Covering(want_seq))'
    BY <1>1, <2>6, <2>11, ZenonT(30) DEF Covering
  <2>14. (replies[1].head \in Covering(req.start))'
    BY <1>1, <2>10, Zenon DEF Covering
  <2> QED BY <1>1, <1>10, <2>9, <2>11, <2>12, <2>13, <2>14, ZenonT(30) DEF AnswerInv
<1> QED BY <1>1, <1>2, <1>12, <1>13, <1>17, <1>18, ZenonT(30) DEF IInv

\* While nothing is overwritten, the slot of the reply just sent still holds it.
LEMMA LastIsWhole ==
  ASSUME IInv, rpc \in {"reload", "advance"}, Clean
  PROVE  /\ LastHead \in Packets /\ cache[ScanSlot].start_seq = Start[LastHead]
         /\ Count(cache[ScanSlot].meta) = Start[LastHead + 1] - Start[LastHead]
<1>1. PICK p \in Published :
        replies[Len(replies)].found = Start[p] /\ Slot(p - 1) = ScanSlot /\ Len(replies) > 0
  BY Zenon DEF IInv, ReplyInv
<1>2. p \in Packets
  BY Positions, Zenon DEF IInv
<1>3. PICK n \in Nat : n = Len(replies)
  BY DEF IInv, TypeOK
<1>4. n \in 1..n
  BY <1>1, <1>3, SMTT(30)
<1>5. p \in FoundIn(replies[n]) /\ p \in Held
  BY <1>1, <1>2, <1>3, <1>4, ZenonT(30) DEF FoundIn, Clean
<1>6. LastHead = p
  BY <1>3, <1>4, <1>5, Zenon DEF IInv, ReplyInv, IntactUnlessOverwritten, LastHead
<1> QED BY <1>1, <1>5, <1>6, HeldAt, Zenon

\* start_seq is loaded once more after the reply.
LEMMA ReloadKeeps ==
  ASSUME IInv, Reload
  PROVE  IInv'
<1>1. /\ rpc = "reload" /\ rpc' = "advance" /\ UNCHANGED <<writerVars, requestVars>>
      /\ w' = w /\ i' = i /\ seen' = seen /\ head' = head /\ s' = cache[ScanSlot].start_seq
  BY SMTT(30) DEF Reload
<1>2. /\ WriterInv' /\ SlotInv' /\ Published' = Published /\ Held' = Held
      /\ Past' = Past /\ cache' = cache /\ UNCHANGED requestVars
      /\ req' = req /\ want_seq' = want_seq /\ want_cnt' = want_cnt
      /\ replies' = replies /\ known' = known
      /\ known' \subseteq Published' /\ IntactUnlessOverwritten'
      /\ \A n \in 1..Len(replies') : \E p \in Published' : replies'[n].found = Start[p]
      /\ Clean' = Clean /\ Got' = Got /\ LastHead' = LastHead /\ End' = End
  BY <1>1, RequestSame, Zenon
<1>3. scan_max' = scan_max /\ ScanSlot' = ScanSlot
  BY <1>1, Zenon DEF scan_max, ScanSlot, Slot, writerVars
<1>4. ReplyInv' /\ MissInv'
  BY <1>1, <1>2, <1>3, Zenon DEF IInv, ReplyInv, MissInv, Slot
<1>5. ASSUME Clean' PROVE AnswerInv'
  <2>1. AnswerInv /\ Clean
    BY <1>1, <1>2, <1>5, Zenon DEF IInv
  <2>2. s' = Start[LastHead]
    BY <1>1, <2>1, LastIsWhole, Zenon
  <2> QED BY <1>1, <1>2, <2>1, <2>2, ZenonT(30) DEF AnswerInv, Covering
<1>6. PICK n \in Nat : w = n % CursorMod
  BY SeenSize
<1>7. ScanSlot \in 0..(CacheSlots - 1)
  BY <1>1, <1>6, ScanAt DEF IInv, SearchInv
<1>8. s' \in Nat
  BY <1>1, <1>7, Zenon DEF IInv, TypeOK
<1>9. TypeOK'
  BY <1>1, <1>8, Zenon DEF IInv, TypeOK, writerVars, requestVars
<1>10. SearchInv'
  BY <1>1, <1>2, <1>3, Zenon DEF IInv, SearchInv
<1> QED BY <1>1, <1>2, <1>4, <1>5, <1>9, <1>10, Zenon DEF IInv

\* The thread goes on behind the packet it sent.
LEMMA AdvanceKeeps ==
  ASSUME IInv, Advance
  PROVE  IInv'
<1> DEFINE next == s + Count(cache[ScanSlot].meta)
<1>1. /\ rpc = "advance" /\ UNCHANGED <<writerVars, searchVars>>
      /\ req' = req /\ replies' = replies /\ known' = known /\ received' = received
      /\ w' = w /\ i' = i /\ seen' = seen /\ s' = s /\ head' = head
      /\ \/ next <= want_seq /\ rpc' = "done" /\ want_seq' = want_seq /\ want_cnt' = want_cnt
         \/ /\ ~(next <= want_seq) /\ rpc' = "next" /\ want_seq' = next
            /\ want_cnt' = IF next - want_seq >= want_cnt THEN 0 ELSE want_cnt - (next - want_seq)
  BY DEF Advance, searchVars
<1>2. /\ WriterInv' /\ SlotInv' /\ Published' = Published /\ Held' = Held
      /\ Past' = Past /\ Passed' = Passed /\ cache' = cache
  BY <1>1, CacheSame, Zenon
<1>3. /\ known' \subseteq Published' /\ IntactUnlessOverwritten'
      /\ \A n \in 1..Len(replies') : \E p \in Published' : replies'[n].found = Start[p]
      /\ Clean' = Clean /\ Got' = Got /\ LastHead' = LastHead
  <2>1. UNCHANGED <<writerVars, replies, known>>
    BY <1>1, SMTT(30)
  <2> QED BY <2>1, RepliesSame, Zenon
<1>4. End' = End /\ scan_max' = scan_max /\ ScanSlot' = ScanSlot
  BY <1>1, Zenon DEF End, scan_max, ScanSlot, Slot, writerVars
<1>5. PICK n \in Nat : w = n % CursorMod
  BY SeenSize
<1>6. ScanSlot \in 0..(CacheSlots - 1)
  BY <1>1, <1>5, ScanAt, ZenonT(30) DEF IInv, SearchInv
<1>7. next \in Nat /\ want_seq \in Nat /\ want_cnt \in Nat
  <2>1. cache[ScanSlot].meta \in Packets \cup {NoPacket} /\ s \in Nat
    BY <1>6, Zenon DEF IInv, TypeOK
  <2>2. \A p \in Packets : p # NoPacket /\ Start[p + 1] - Start[p] \in Nat
    BY StartOf, SMTT(30) DEF NoPacket
  <2>3. Count(cache[ScanSlot].meta) \in Nat
    BY <2>1, <2>2, Zenon DEF Count
  <2> QED BY <2>1, <2>3 DEF IInv, TypeOK
<1> HIDE DEF next
<1>8. want_seq' \in Nat /\ want_cnt' \in Nat /\ rpc' \in {"next", "done"}
  BY <1>1, <1>7
<1>9. TypeOK'
  BY <1>1, <1>8, ZenonT(30) DEF IInv, TypeOK, writerVars
<1>10. SearchInv'
  BY <1>1, <1>2, <1>3, <1>8, ZenonT(30) DEF IInv, SearchInv
<1>11. MissInv' /\ ReplyInv'
  BY <1>1, <1>3, <1>8, SMTT(30) DEF IInv, MissInv, ReplyInv
<1>12. ASSUME Clean' PROVE AnswerInv'
  <2>1. AnswerInv /\ Clean /\ Len(replies) > 0
    <3>1. rpc # "idle" /\ rpc \in {"reload", "advance"}
      BY <1>1, Zenon
    <3> QED BY <1>3, <1>12, <3>1, ZenonT(30) DEF IInv, ReplyInv
  <2>2. /\ LastHead \in Packets /\ s = Start[LastHead] /\ want_cnt = End - want_seq
        /\ want_seq < Start[LastHead + 1]
        /\ Count(cache[ScanSlot].meta) = Start[LastHead + 1] - Start[LastHead]
    BY <1>1, <2>1, LastIsWhole, Zenon DEF AnswerInv, Covering
  <2>3. PICK a \in Nat, b \in Nat : a = Start[LastHead] /\ b = Start[LastHead + 1]
    BY <2>2, StartOf, Zenon
  <2>4. next = b /\ want_seq < b
    BY <2>2, <2>3 DEF next
  <2>5. rpc' = "next" /\ want_seq' = b
    BY <1>1, <1>7, <2>4, SMTT(30)
  <2>6. PICK e \in Nat : e = End
    BY SMTT(30) DEF End, IInv, TypeOK
  <2>7. want_cnt' = IF b < e THEN e - b ELSE 0
    BY <1>1, <1>7, <2>2, <2>4, <2>6
  <2>8. want_cnt' = IF want_seq' < End' THEN End' - want_seq' ELSE 0
    BY <1>4, <2>5, <2>6, <2>7, ZenonT(30)
  <2>9. Len(replies') # 0 /\ want_seq' = Start[LastHead' + 1]
    BY <1>1, <1>3, <2>1, <2>3, <2>5, SMTT(30)
  <2>10. (replies[1].head \in Covering(req.start))'
    BY <1>1, <2>1, Zenon DEF AnswerInv, Covering
  <2>11. (\A k \in 1..Len(replies) :
            /\ replies[k].head \in Packets /\ replies[k].head = replies[1].head + k - 1
            /\ Start[replies[k].head] < End)'
    BY <1>1, <1>4, <2>1, Zenon DEF AnswerInv
  <2>12. (rpc = "next")'
    BY <2>5, Zenon
  <2>13. (/\ want_seq = IF Len(replies) = 0 THEN req.start ELSE Start[LastHead + 1]
          /\ want_cnt = IF want_seq < End THEN End - want_seq ELSE 0)'
    BY <2>8, <2>9, Zenon
  <2>14. (/\ rpc \in {"next", "scan", "match", "send", "send2"}
          /\ ~(rpc \in {"scan", "match", "send", "send2"})
          /\ ~(rpc \in {"reload", "advance"}) /\ rpc # "advance" /\ rpc # "done")'
    BY <2>12, Zenon
  <2> QED BY <2>10, <2>11, <2>13, <2>14, ZenonT(30) DEF AnswerInv
<1> QED BY <1>2, <1>9, <1>10, <1>11, <1>12, ZenonT(30) DEF IInv

\* An empty cache, no packet yet and no request.
LEMMA InitHolds == Init => IInv
<1> SUFFICES ASSUME Init PROVE IInv
  BY Zenon
<1>1. Past = 0 /\ Published = {} /\ Held = {} /\ Begun = 0
  BY DEF Init, Past, Published, Held, Begun
<1>2. CursorMod \in Nat \ {0} /\ CacheSlots \in Nat \ {0} /\ 0 % CursorMod = 0
  BY Constants, SMTT(30)
<1>3. TypeOK
  <2>1. EmptySlot \in [start_seq : Nat, meta : Packets \cup {NoPacket},
                       bytes : Packets \cup {NoPacket}, bytes2 : Packets \cup {NoPacket}]
    BY Zenon DEF EmptySlot
  <2>2. cache \in [0..(CacheSlots - 1) ->
                    [start_seq : Nat, meta : Packets \cup {NoPacket},
                     bytes : Packets \cup {NoPacket}, bytes2 : Packets \cup {NoPacket}]]
    BY <2>1, Zenon DEF Init
  <2> QED BY <1>2, <2>2, Constants, SMTT(30) DEF Init, TypeOK
<1>4. WriterInv
  BY <1>1, <1>2, Zenon DEF Init, WriterInv
<1>5. SlotInv
  <2>1. \A k \in 0..(CacheSlots - 1) : cache[k].start_seq = 0
    BY Zenon DEF Init, EmptySlot
  <2> QED BY <1>1, <2>1, Zenon DEF Init, SlotInv
<1>6. SearchInv
  <2>1. 0 \in 0..Past /\ seen = 1..0 /\ w = 0 % CursorMod
    BY <1>1, <1>2, SMTT(30) DEF Init
  <2> QED BY <2>1, Zenon DEF Init, SearchInv
<1>7. MissInv /\ ReplyInv
  BY DEF Init, MissInv, ReplyInv, IntactUnlessOverwritten
<1> QED BY <1>3, <1>4, <1>5, <1>6, <1>7, Zenon DEF Init, IInv

\* Nothing moves, nothing changes.
LEMMA StutterKeeps ==
  ASSUME IInv, UNCHANGED vars
  PROVE  IInv'
<1>1. /\ UNCHANGED writerVars /\ UNCHANGED requestVars /\ UNCHANGED searchVars /\ rpc' = rpc
      /\ UNCHANGED <<writerVars, requestVars>> /\ UNCHANGED <<rpc, searchVars, requestVars>>
  BY DEF vars
<1>2. TypeOK'
  BY <1>1, Zenon DEF IInv, TypeOK, writerVars, requestVars, searchVars
<1>3. /\ WriterInv' /\ SlotInv' /\ Published' = Published /\ Held' = Held
      /\ Past' = Past /\ Passed' = Passed
  BY <1>1, CacheSame, Zenon
<1>4. Past \in Nat
  BY Positions, Zenon DEF IInv
<1>5. Forward
  BY <1>3, <1>4 DEF Forward
<1> QED BY <1>1, <1>2, <1>3, <1>5, ReaderKept, Zenon DEF IInv

\* The inductive invariant of the cache, the search and the answer.
THEOREM RewinderInductive == Spec => []IInv
<1>1. Init => IInv
  BY InitHolds
<1>2. IInv /\ [Next]_vars => IInv'
  <2> SUFFICES ASSUME IInv, [Next]_vars PROVE IInv'
    OBVIOUS
  <2>1. CASE Feeder
    BY <2>1, FeederKeeps, ReaderKept DEF IInv
  <2>2. CASE Replayer
    BY <2>2, NextKeeps, ScanKeeps, MatchKeeps, HeadKeeps, TailKeeps, ReloadKeeps, AdvanceKeeps,
       DoneKeeps, ZenonT(30) DEF Replayer
  <2>3. CASE \E r \in Requests : Receive(r)
    BY <2>3, ReceiveKeeps, Zenon
  <2>4. CASE UNCHANGED vars
    BY <2>4, StutterKeeps
  <2> QED BY <2>1, <2>2, <2>3, <2>4, Zenon DEF Next
<1> QED BY <1>1, <1>2, PTL DEF Spec

\* rewinder_cache_packet: until its slot is taken again, a cached packet is whole
\* in its slot, and it is there before it goes out live.
THEOREM RewinderHolds == Spec => []CacheHolds
<1>1. IInv => CacheHolds
  BY Zenon DEF IInv, SlotInv, WriterInv, CacheHolds, Whole
<1> QED BY <1>1, RewinderInductive, PTL

\* find_packet, without a lock, misses only what was overwritten or out of the
\* cursor's range when the search began.
THEOREM RewinderMisses == Spec => []MissOnlyOutsideWindow
<1>1. IInv => MissOnlyOutsideWindow
  BY NothingMissed, SMTT(30) DEF MissOnlyOutsideWindow, Due
<1> QED BY <1>1, RewinderInductive, PTL

\* A reply is the wanted packet in one piece unless the feed thread has begun to
\* write over the slot it was found in.
THEOREM RewinderIntact == Spec => []IntactUnlessOverwritten
<1>1. IInv => IntactUnlessOverwritten
  BY DEF IInv, ReplyInv
<1> QED BY <1>1, RewinderInductive, PTL

\* The packets sent are ones the request covers, in a row, at most MaxReplay, all
\* of them published.
LEMMA SentIsAskedFor ==
  ASSUME IInv, Clean, AnswerInv, Len(replies) > 0
  PROVE  Got \subseteq ReplayOf(req, Published)
<1>1. PICK f \in Packets, l \in Packets :
        /\ f = replies[1].head /\ l = LastHead /\ l = f + Len(replies) - 1 /\ Got = f..l
        /\ Start[f] <= req.start /\ req.start < Start[f + 1]
  BY GotRow, Zenon DEF IInv
<1>2. PICK n \in Nat : n = Len(replies) /\ n <= MaxReplay /\ n > 0 /\ MaxReplay \in Nat
  BY Constants DEF IInv, TypeOK
<1>3. f \in Nat \ {0} /\ l \in Nat \ {0} /\ req.start \in Nat /\ Start[f] \in Nat /\ Start[f + 1] \in Nat
  BY StartOf, Zenon DEF IInv, TypeOK
<1>4. Published = 1..Top /\ Top \in Nat
  BY Positions, Zenon DEF IInv
<1>5. Start[1] <= req.start
  <2>1. CASE f = 1
    BY <1>1, <2>1, Zenon
  <2>2. CASE 1 < f
    <3>1. 1 \in Packets
      BY Constants DEF Packets
    <3>2. Start[1] < Start[f] /\ Start[1] \in Nat
      BY <2>2, <3>1, StartRises, StartOf, Zenon
    <3>3. PICK a \in Nat, b \in Nat, c \in Nat : a = Start[1] /\ b = Start[f] /\ c = req.start
      BY <1>3, <3>2, Zenon
    <3>4. a < b /\ b <= c
      BY <1>1, <3>2, <3>3, Zenon
    <3>5. a <= c
      BY <3>4
    <3> QED BY <3>3, <3>5, Zenon
  <2> QED BY <1>3, <2>1, <2>2, SMTT(30)
<1>6. l \in Published
  <2>1. n \in 1..n
    BY <1>2, SMTT(30)
  <2>2. PICK p \in Published : replies[n].found = Start[p]
    BY <1>2, <2>1, SMTT(30) DEF IInv, ReplyInv
  <2>3. p \in FoundIn(replies[n])
    BY <2>2, Positions, SMTT(30) DEF FoundIn, IInv
  <2>4. p \in Held
    BY <1>2, <2>1, <2>3, ZenonT(30) DEF Clean
  <2>5. replies[n].head = p
    BY <1>2, <2>1, <2>3, <2>4, ZenonT(30) DEF IInv, ReplyInv, IntactUnlessOverwritten
  <2> QED BY <1>1, <1>2, <2>2, <2>5, Zenon DEF LastHead
<1> SUFFICES ASSUME NEW p \in f..l PROVE p \in ReplayOf(req, Published)
  BY <1>1, Zenon
<1>7. p \in Packets /\ p \in Nat \ {0} /\ Start[p] \in Nat /\ Start[p + 1] \in Nat
  <2>1. p \in Packets
    BY <1>3, Constants, SMTT(30) DEF Packets
  <2> QED BY <2>1, StartOf, Zenon
<1>8. ASSUME NEW q \in Packets PROVE Start[q + 1] > req.start <=> f <= q
  <2>1. q \in Nat /\ Start[q] \in Nat /\ Start[q + 1] \in Nat /\ Start[q] < Start[q + 1]
    BY StartOf, Zenon
  <2>2. CASE q < f
    <3>1. Start[q + 1] <= Start[f]
      BY <2>2, StartRises
    <3>2. PICK a \in Nat, b \in Nat, c \in Nat : a = Start[q + 1] /\ b = Start[f] /\ c = req.start
      BY <1>3, <2>1, ZenonT(30)
    <3>3. a <= b /\ b <= c
      BY <1>1, <3>1, <3>2, Zenon
    <3>4. ~(a > c)
      BY <3>3
    <3>5. ~(Start[q + 1] > req.start)
      BY <3>2, <3>4, Zenon
    <3> QED BY <1>3, <2>1, <2>2, <3>5
  <2>3. CASE q = f
    BY <1>1, <1>3, <2>3
  <2>4. CASE f < q
    <3>1. Start[f + 1] <= Start[q]
      BY <2>4, StartRises
    <3>2. PICK a \in Nat, b \in Nat, c \in Nat, d \in Nat :
            a = Start[q + 1] /\ b = Start[f + 1] /\ c = req.start /\ d = Start[q]
      BY <1>3, <2>1, ZenonT(30)
    <3>3. c < b /\ b <= d /\ d < a
      BY <1>1, <2>1, <3>1, <3>2, Zenon
    <3>4. a > c
      BY <3>3
    <3>5. Start[q + 1] > req.start
      BY <3>2, <3>4, Zenon
    <3> QED BY <1>3, <2>1, <2>4, <3>5
  <2> QED BY <1>3, <2>1, <2>2, <2>3, <2>4, SMTT(30)
<1>9. \A q \in 1..p : q \in Packets /\ q \in Nat
  BY <1>7, Constants DEF Packets
<1>10. {q \in 1..p : Start[q + 1] > req.start} = f..p
  <2>1. \A q \in 1..p : Start[q + 1] > req.start <=> f <= q
    <3> TAKE q \in 1..p
    <3>1. q \in Packets
      BY <1>9, Zenon
    <3> QED BY <1>8, <3>1, Zenon
  <2>2. {q \in 1..p : Start[q + 1] > req.start} = {q \in 1..p : f <= q}
    BY <2>1, Zenon
  <2>3. {q \in 1..p : f <= q} = f..p
    BY <1>3, <1>7
  <2> QED BY <2>2, <2>3, Zenon
<1>11. Cardinality(f..p) <= MaxReplay
  <2>1. f \in Int /\ p \in Int /\ f <= p /\ p <= l
    BY <1>3, <1>7
  <2>2. Cardinality(f..p) = p - f + 1
    BY <2>1, FS_Interval
  <2>3. PICK m \in Nat : m = MaxReplay
    BY <1>2, Zenon
  <2>4. l = f + n - 1 /\ n <= m
    BY <1>1, <1>2, <2>3, Zenon
  <2>5. p - f + 1 <= m
    BY <1>3, <2>1, <2>4
  <2> QED BY <2>2, <2>3, <2>5, Zenon
<1>12. Start[p] < End
  <2>1. PICK k \in 1..Len(replies) : replies[k].head = p
    BY <1>1, Zenon DEF Got
  <2> QED BY <2>1, Zenon DEF AnswerInv
<1>13. \A q \in 1..p : q \in Published
  BY <1>3, <1>4, <1>6, <1>7
<1>14. Start[p + 1] > req.start
  BY <1>3, <1>7, <1>8
<1> QED BY <1>5, <1>7, <1>10, <1>11, <1>12, <1>13, <1>14, ZenonT(30) DEF ReplayOf, End

\* Unless a replayed packet was overwritten, the answer to a request is what the
\* receiver counts on: the covering packets in order, all that were cached all the
\* time and in the window, and none that was not cached.
THEOREM RewinderAnswers == Spec => []AnswerIsReplay
<1>1. ASSUME IInv PROVE AnswerIsReplay
  <2> DEFINE answer == [n \in 1..Len(replies) |-> replies[n].head]
             got == {answer[n] : n \in 1..Len(replies)}
  <2> SUFFICES ASSUME rpc = "done", Clean
               PROVE  /\ \A n \in 1..(Len(replies) - 1) : answer[n] < answer[n + 1]
                      /\ ReplayOf(req, known \cap Window \cap Held) \subseteq got
                      /\ got \subseteq ReplayOf(req, Published)
    BY Zenon DEF AnswerIsReplay, Clean
  <2>1. got = Got
    BY DEF Got
  <2>2. AnswerInv
    BY <1>1, Zenon DEF IInv
  <2>3. PICK l \in Nat : l = Len(replies)
    BY <1>1, SMTT(30) DEF IInv, TypeOK
  <2>4. ASSUME NEW n \in 1..(Len(replies) - 1) PROVE answer[n] < answer[n + 1]
    <3>1. n \in 1..l /\ n + 1 \in 1..l /\ 1 \in 1..l /\ n \in Nat
      BY <2>3
    <3>2. /\ replies[n].head = replies[1].head + n - 1
          /\ replies[n + 1].head = replies[1].head + (n + 1) - 1
          /\ replies[1].head \in Packets
      BY <2>2, <2>3, <3>1, Zenon DEF AnswerInv
    <3>3. PICK f \in Nat : f = replies[1].head
      BY <3>2, StartOf, Zenon
    <3> QED BY <2>3, <3>1, <3>2, <3>3
  <2>5. ReplayOf(req, known \cap Window \cap Held) \subseteq Got
    BY <2>2, Zenon DEF AnswerInv
  <2>6. Got \subseteq ReplayOf(req, Published)
    <3>1. CASE l = 0
      BY <2>3, <3>1 DEF Got
    <3>2. CASE l > 0
      BY <1>1, <2>2, <2>3, <3>2, SentIsAskedFor, Zenon
    <3> QED BY <3>1, <3>2
  <2> QED BY <2>1, <2>4, <2>5, <2>6, Zenon
<1> QED BY <1>1, RewinderInductive, PTL
=============================================================================

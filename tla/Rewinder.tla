------------------------------ MODULE Rewinder ------------------------------
(***************************************************************************)
(* The retransmit cache of apps/server/rewinder.c.  The feed thread writes *)
(* every packet of the session into a ring of slots before it sends the    *)
(* packet; the rewinder thread searches the ring and replays packets.  The *)
(* two share no lock, only the order of their loads and stores, which are  *)
(* single steps here and are seen in program order (x86).                  *)
(***************************************************************************)
EXTENDS Integers, Sequences, FiniteSets

CONSTANTS
  NumPackets,   \* packets in the session
  Start,        \* Start[p]: first sequence number of packet p
  CacheSlots,   \* REWINDER_CACHE_SLOTS
  CursorMod,    \* values of g_write_cursor (2^32)
  MaxReplay,    \* REWINDER_MAX_REPLAY
  DropEvery,    \* drop_every of the feed (0: nothing is dropped on purpose)
  Requests,     \* requests clients may send, [start, count]
  MaxRequests   \* bound: requests received

Packets == 1..NumPackets

ASSUME StartAssumption ==
  /\ NumPackets \in Nat \ {0}
  /\ Start \in [1..(NumPackets + 1) -> Nat \ {0}]
  /\ \A p, q \in 1..(NumPackets + 1) : p < q => Start[p] < Start[q]

ASSUME CacheAssumption ==
  /\ CacheSlots \in Nat \ {0}
  /\ CursorMod \in Nat \ {0}
  /\ CursorMod % CacheSlots = 0
  /\ MaxReplay \in Nat \ {0}
  /\ DropEvery \in Nat
  /\ MaxRequests \in Nat
  /\ Requests \subseteq [start : Nat, count : Nat]

VARIABLES
  cache,          \* g_cache: per slot start_seq, the packet msg_count and len
                  \* belong to, and the packets the two halves of bytes are of
  g_write_cursor,
  feed,           \* the packet the feed thread caches or sends
  fpc,            \* where the feed thread is
  sent,           \* packets sent live
  rpc,            \* where the rewinder thread is
  req,            \* the request as received
  want_seq, want_cnt,
  w, i,           \* find_packet: cursor read, and distance from it
  s,              \* start_seq as last loaded
  head,           \* the first half of bytes as copied by sendto
  replies,        \* what has been sent for req
  known,          \* packets behind the cursor when req was received
  seen,           \* and when the search at hand began
  received        \* requests received

writerVars == <<cache, g_write_cursor, feed, fpc, sent>>
searchVars == <<w, i, s, head, seen>>
requestVars == <<req, want_seq, want_cnt, replies, known, received>>
vars == <<writerVars, rpc, searchVars, requestVars>>

NoPacket == 0
Count(p) == IF p = NoPacket THEN 0 ELSE Start[p + 1] - Start[p]

\* The packet that carries message seq, as a set of at most one.
Covering(seq) == {p \in Packets : Start[p] <= seq /\ seq < Start[p + 1]}

(***************************************************************************)
(* The feed thread: rewinder_cache_packet, then sendto.                    *)
(***************************************************************************)
\* Mutant: the mask of a ring half the size.
Slot_ShortMask(cursor) == cursor % (CacheSlots - 1)

\* cursor & REWINDER_CACHE_MASK
Slot(cursor) == cursor % CacheSlots

\* The slot the feed thread writes.
Current == cache[Slot(g_write_cursor)]

\* Mutant: the slot is published before its bytes are written.
Store_Early(from, to, slot) ==
  /\ fpc = from
  /\ fpc' = to
  /\ cache' = [cache EXCEPT ![Slot(g_write_cursor)] =
                 IF from = "zero" THEN [Current EXCEPT !.start_seq = Start[feed]] ELSE slot]
  /\ UNCHANGED <<g_write_cursor, feed, sent, rpc, searchVars, requestVars>>

Store(from, to, slot) ==
  /\ fpc = from
  /\ fpc' = to
  /\ cache' = [cache EXCEPT ![Slot(g_write_cursor)] = slot]
  /\ UNCHANGED <<g_write_cursor, feed, sent, rpc, searchVars, requestVars>>

rewinder_cache_packet ==
  /\ feed \in Packets
  /\ \/ Store("zero", "meta", [Current EXCEPT !.start_seq = 0])
     \/ Store("meta", "bytes", [Current EXCEPT !.meta = feed])
     \/ Store("bytes", "bytes2", [Current EXCEPT !.bytes = feed])
     \/ Store("bytes2", "publish", [Current EXCEPT !.bytes2 = feed])
     \/ Store("publish", "cursor", [Current EXCEPT !.start_seq = Start[feed]])

AdvanceCursor ==
  /\ fpc = "cursor"
  /\ g_write_cursor' = (g_write_cursor + 1) % CursorMod
  /\ fpc' = "send"
  /\ UNCHANGED <<cache, feed, sent, rpc, searchVars, requestVars>>

\* In lossy mode some packets are not sent, so that clients must ask for them.
SendLive ==
  /\ fpc = "send"
  /\ sent' = IF DropEvery = 0 \/ Start[feed] % DropEvery # 0 THEN sent \cup {feed} ELSE sent
  /\ feed' = feed + 1
  /\ fpc' = "zero"
  /\ UNCHANGED <<cache, g_write_cursor, rpc, searchVars, requestVars>>

Feeder == rewinder_cache_packet \/ AdvanceCursor \/ SendLive

(***************************************************************************)
(* The rewinder thread.                                                    *)
(***************************************************************************)
\* Packets the cursor has passed.
Passed == 1..(IF fpc = "send" THEN feed ELSE feed - 1)

Receive(r) ==
  /\ rpc = "idle"
  /\ received < MaxRequests
  /\ r.count > 0
  /\ req' = r
  /\ want_seq' = r.start
  /\ want_cnt' = r.count
  /\ replies' = <<>>
  /\ known' = Passed
  /\ received' = received + 1
  /\ rpc' = "next"
  /\ UNCHANGED <<writerVars, searchVars>>

\* The head of the replay loop, and the load find_packet begins with.
NextSearch ==
  /\ rpc = "next"
  /\ IF Len(replies) < MaxReplay /\ want_cnt > 0
       THEN /\ w' = g_write_cursor
            /\ i' = 1
            /\ seen' = Passed
            /\ rpc' = "scan"
            /\ UNCHANGED <<s, head>>
       ELSE rpc' = "done" /\ UNCHANGED searchVars
  /\ UNCHANGED <<writerVars, requestVars>>

\* Mutant: one entry short.
scan_max_Short == IF w < CacheSlots THEN w ELSE CacheSlots - 1

scan_max == IF w < CacheSlots THEN w ELSE CacheSlots

\* The slot under the reader's eyes: (w - i) & REWINDER_CACHE_MASK.
ScanSlot == Slot((w - i) % CursorMod)

\* One iteration of find_packet, up to the load of start_seq.
Scan ==
  /\ rpc = "scan"
  /\ IF i > scan_max
       THEN rpc' = "done" /\ UNCHANGED <<i, s>>
       ELSE /\ s' = cache[ScanSlot].start_seq
            /\ IF s' = 0 THEN i' = i + 1 /\ UNCHANGED rpc
                         ELSE rpc' = "match" /\ UNCHANGED i
  /\ UNCHANGED <<writerVars, requestVars, w, head, seen>>

\* The rest of the iteration: load msg_count and compare.
Match ==
  /\ rpc = "match"
  /\ IF s <= want_seq /\ want_seq < s + Count(cache[ScanSlot].meta)
       THEN rpc' = "send" /\ UNCHANGED i
       ELSE rpc' = "scan" /\ i' = i + 1
  /\ UNCHANGED <<writerVars, requestVars, w, s, head, seen>>

\* sendto copies the bytes; the writer may come in between.
SendHead ==
  /\ rpc = "send"
  /\ head' = cache[ScanSlot].bytes
  /\ rpc' = "send2"
  /\ UNCHANGED <<writerVars, requestVars, w, i, s, seen>>

SendTail ==
  /\ rpc = "send2"
  /\ replies' = Append(replies,
                  [head |-> head, tail |-> cache[ScanSlot].bytes2, want |-> want_seq, found |-> s])
  /\ rpc' = "reload"
  /\ UNCHANGED <<writerVars, searchVars, req, want_seq, want_cnt, known, received>>

Reload ==
  /\ rpc = "reload"
  /\ s' = cache[ScanSlot].start_seq
  /\ rpc' = "advance"
  /\ UNCHANGED <<writerVars, requestVars, w, i, head, seen>>

\* Mutant: goes on with the message after the wanted one, not after the packet.
Advance_ByOne ==
  /\ rpc = "advance"
  /\ want_seq' = want_seq + 1
  /\ want_cnt' = want_cnt - 1
  /\ rpc' = "next"
  /\ UNCHANGED <<writerVars, searchVars, req, replies, known, received>>

\* Go on after the packet just sent; give up when that makes no progress.
Advance ==
  /\ rpc = "advance"
  /\ LET next_seq == s + Count(cache[ScanSlot].meta)
         covered == next_seq - want_seq
     IN  IF next_seq <= want_seq
           THEN rpc' = "done" /\ UNCHANGED <<want_seq, want_cnt>>
           ELSE /\ want_seq' = next_seq
                /\ want_cnt' = IF covered >= want_cnt THEN 0 ELSE want_cnt - covered
                /\ rpc' = "next"
  /\ UNCHANGED <<writerVars, searchVars, req, replies, known, received>>

Done ==
  /\ rpc = "done"
  /\ rpc' = "idle"
  /\ UNCHANGED <<writerVars, searchVars, requestVars>>

Replayer == NextSearch \/ Scan \/ Match \/ SendHead \/ SendTail \/ Reload \/ Advance \/ Done

\* rewinder_init: every slot is empty.
EmptySlot == [start_seq |-> 0, meta |-> NoPacket, bytes |-> NoPacket, bytes2 |-> NoPacket]

Init ==
  /\ cache = [k \in 0..(CacheSlots - 1) |-> EmptySlot]
  /\ g_write_cursor = 0
  /\ feed = 1
  /\ fpc = "zero"
  /\ sent = {}
  /\ rpc = "idle"
  /\ req = [start |-> 0, count |-> 0]
  /\ want_seq = 0
  /\ want_cnt = 0
  /\ w = 0
  /\ i = 1
  /\ s = 0
  /\ head = NoPacket
  /\ replies = <<>>
  /\ known = {}
  /\ seen = {}
  /\ received = 0

Next == Feeder \/ Replayer \/ \E r \in Requests : Receive(r)

Spec == Init /\ [][Next]_vars

(***************************************************************************)
(* Properties.                                                             *)
(***************************************************************************)
\* Every variable has its type.
TypeOK ==
  /\ cache \in [0..(CacheSlots - 1) ->
                  [start_seq : Nat, meta : Packets \cup {NoPacket},
                   bytes : Packets \cup {NoPacket}, bytes2 : Packets \cup {NoPacket}]]
  /\ g_write_cursor \in 0..(CursorMod - 1)
  /\ feed \in 1..(NumPackets + 1)
  /\ fpc \in {"zero", "meta", "bytes", "bytes2", "publish", "cursor", "send"}
  /\ sent \subseteq Packets
  /\ rpc \in {"idle", "next", "scan", "match", "send", "send2", "reload", "advance", "done"}
  /\ req \in [start : Nat, count : Nat]
  /\ want_seq \in Nat
  /\ want_cnt \in Nat
  /\ w \in 0..(CursorMod - 1)
  /\ i \in 1..(CacheSlots + 1)
  /\ s \in Nat
  /\ head \in Packets \cup {NoPacket}
  /\ replies \in Seq([head : Packets \cup {NoPacket}, tail : Packets \cup {NoPacket},
                       want : Nat, found : Nat])
  /\ Len(replies) <= MaxReplay
  /\ known \subseteq Packets
  /\ seen \subseteq Packets
  /\ received \in 0..MaxRequests

\* Packets that are completely in the ring: published, and their slot not yet
\* taken for a later packet.
Published == 1..(IF fpc \in {"cursor", "send"} THEN feed ELSE feed - 1)
Begun == IF fpc = "zero" THEN feed - 1 ELSE feed
Held == {p \in Published : p > Begun - CacheSlots}

\* Beside the types: the slot of a held packet has its number, its count and both
\* halves of its bytes; and a packet is in the ring before it, or a later one, goes
\* out live.
CacheHolds ==
  /\ TypeOK
  /\ \A p \in Held :
       cache[Slot(p - 1)] = [start_seq |-> Start[p], meta |-> p, bytes |-> p, bytes2 |-> p]
  /\ sent \subseteq Published

\* Packets behind the cursor when the search began; once the 32-bit cursor has
\* wrapped, only those written after that.
Window == {p \in seen : p > Cardinality(seen) - w}

\* find_packet misses only what it may: a packet that was in the window when the
\* search began and is still held has not been passed over.
MissOnlyOutsideWindow ==
  rpc = "scan" /\ i > scan_max => Covering(want_seq) \cap Window \cap Held = {}

\* A reply is the wanted packet, intact, unless the feed thread has begun to
\* reuse the slot it was found in: reading without a lock is safe inside the
\* window.
FoundIn(r) == {p \in Packets : Start[p] = r.found}
IntactUnlessOverwritten ==
  \A n \in 1..Len(replies) : \A p \in FoundIn(replies[n]) \cap Held :
    p \in Covering(replies[n].want) /\ replies[n].head = p /\ replies[n].tail = p

\* The packets a request is answered with when those in C are cached: the ones
\* that cover it, in order, up to the first one missing and at most MaxReplay;
\* none when the request begins before the session.
ReplayOf(r, C) ==
  {p \in Packets :
     /\ Start[1] <= r.start
     /\ Start[p + 1] > r.start
     /\ Start[p] < r.start + r.count
     /\ Cardinality({q \in 1..p : Start[q + 1] > r.start}) <= MaxReplay
     /\ \A q \in 1..p : Start[q + 1] > r.start => q \in C}

\* The answer the receiver counts on: unless a replayed packet was overwritten,
\* the replies are in order, contain everything that was cached all the time and
\* is in the window of the last search, and nothing that was not cached.
AnswerIsReplay ==
  LET answer == [n \in 1..Len(replies) |-> replies[n].head]
      got == {answer[n] : n \in 1..Len(replies)}
  IN  rpc = "done" /\ (\A n \in 1..Len(replies) : FoundIn(replies[n]) \subseteq Held) =>
        /\ \A n \in 1..(Len(replies) - 1) : answer[n] < answer[n + 1]
        /\ ReplayOf(req, known \cap Window \cap Held) \subseteq got
        /\ got \subseteq ReplayOf(req, Published)

\* What the head of rewinder.c says: "writer zeroes start_seq before mutating so
\* readers treat overwrites as misses".  Every reply is a whole packet, the one
\* asked for.
OverwritesAreMisses ==
  \A n \in 1..Len(replies) :
    /\ replies[n].head = replies[n].tail
    /\ replies[n].head \in Covering(replies[n].want)
=============================================================================

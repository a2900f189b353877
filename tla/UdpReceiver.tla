---------------------------- MODULE UdpReceiver ----------------------------
(***************************************************************************)
(* The client's market-data receiver thread (apps/client/udp_receiver.c):  *)
(* MoldUDP64 gap detection, the reorder pool, retransmit requests, the     *)
(* zero-copy hand-off of AF_XDP frames to the dispatcher through the       *)
(* PARSER_ENGINE ring, and the recycling of frames and slots once they     *)
(* have been consumed.                                                     *)
(*                                                                         *)
(* A session is NumPackets packets; packet p carries the messages          *)
(* Start[p] .. Start[p+1]-1.  The network may lose, delay, duplicate and   *)
(* reorder packets, requests and replies.                                  *)
(***************************************************************************)
EXTENDS Integers, Sequences, FiniteSets

CONSTANTS
  NumPackets,     \* packets in the session
  Start,          \* Start[p]: first sequence number of packet p
  Cached,         \* packets the rewinder still holds
  Frames,         \* UMEM frames                       (AFXDP_NUM_FRAMES)
  FqSize,         \* entries of the AF_XDP fill ring
  RxSize,         \* entries of the AF_XDP rx ring
  BurstSize,      \* RX_BURST_SIZE
  ReorderMax,     \* slots of the reorder pool         (REORDER_MAX)
  RingSize,       \* slots of the PARSER_ENGINE ring   (PARSER_TO_ENGINE_SIZE)
  ReqMax,         \* largest message count of one request (0xFFFF)
  MaxReplay,      \* packets replayed per request      (REWINDER_MAX_REPLAY)
  MaxDeliveries   \* bound: live packets the network delivers

Packets == 1..NumPackets
Slots == 1..ReorderMax

\* A payload that is not a data packet: junk (not a feed packet, too short, or
\* a message count of zero) and the end-of-session packet (count 0xFFFF).
Junk == 0
EndOfSession == NumPackets + 1
Payloads == 0..(NumPackets + 1)

\* The empty slot of the pool, and the "address" of a rewinder reply.
NoPacket == 0
NoFrame == 0

\* Packets partition the session's sequence numbers.
ASSUME StartAssumption ==
  /\ NumPackets \in Nat \ {0}
  /\ Start \in [1..(NumPackets + 1) -> Nat \ {0}]
  /\ \A p, q \in 1..(NumPackets + 1) : p < q => Start[p] < Start[q]
  /\ Cached \subseteq Packets

\* REORDER_ADDR_FLAG keeps slot indices apart from UMEM addresses.
ASSUME FrameAssumption ==
  /\ IsFiniteSet(Frames)
  /\ Frames \cap (Slots \cup {NoFrame}) = {}

ASSUME SizeAssumption ==
  /\ ReorderMax \in Nat \ {0}
  /\ BurstSize \in Nat \ {0}
  /\ FqSize \in Nat \ {0}
  /\ RxSize \in Nat \ {0}
  /\ ReqMax \in Nat \ {0}
  /\ MaxReplay \in Nat \ {0}
  /\ MaxDeliveries \in Nat
  /\ RingSize \in Nat

\* 4096 frames and 512 slots against a ring of 512K entries.
ASSUME RingAssumption == Cardinality(Frames) + ReorderMax < RingSize

VARIABLES
  gap_session_set,  \* a first packet fixed the session
  gap_expected_seq, \* next sequence number to publish
  gap_lost,         \* messages given up by skip-ahead (in gap_dropped_packets)
  pool,             \* reorder_pool: the packet a used slot holds, or NoPacket
  log,              \* every packet_ref published so far, oldest first
  next_read,        \* entries the dispatcher has consumed
  recycle_read,     \* entries whose frame or slot was given back
  free,             \* umem_frame_addr[0 .. umem_frame_free-1]
  fq,               \* frames in the fill ring, the kernel may write them
  rx,               \* received frames waiting in the rx ring
  burst,            \* pkts[i .. n-1]: the part of the burst not handled yet
  drops,            \* drop_addrs: frames to recycle when the burst is done
  rewinder_fd,      \* the request socket is open
  limited,          \* the last request is less than RETRANSMIT_INTERVAL old
  requests,         \* retransmit requests on their way to the rewinder
  replies,          \* packets waiting in the request socket
  pc,               \* where the receiver thread is
  ret,              \* where drain_pending returns to
  mapped,           \* the UMEM buffer is allocated
  deliveries        \* live packets the network may still deliver

gapVars  == <<gap_session_set, gap_expected_seq, gap_lost>>
ringVars == <<log, next_read, recycle_read>>
umemVars == <<free, fq, rx, mapped, deliveries>>
netVars  == <<limited, requests>>
vars == <<gapVars, pool, ringVars, umemVars, burst, drops, rewinder_fd,
          netVars, replies, pc, ret>>

(***************************************************************************)
(* The pool and the ring.                                                  *)
(***************************************************************************)
Count(p) == Start[p + 1] - Start[p]

\* gap_expected_seq once the first packet of a session has set it.
Expected(p) == IF gap_session_set THEN gap_expected_seq ELSE Start[p]

\* Slots that are used and not in flight; find, find_min and count see these.
Pending(e) == {i \in Slots : pool[i] # NoPacket /\ Start[pool[i]] >= e}

reorder_find(seq, e) == {i \in Pending(e) : Start[pool[i]] = seq}

reorder_find_min(e) ==
  {i \in Pending(e) : \A j \in Pending(e) : Start[pool[i]] <= Start[pool[j]]}

\* Mutant: a slot whose packet is behind the expected one counts as free.
reorder_alloc_slot_InFlightIsFree ==
  {i \in Slots : pool[i] = NoPacket \/ Start[pool[i]] < gap_expected_seq}

\* The lowest free slot, as a set of at most one index.
reorder_alloc_slot ==
  {i \in Slots : pool[i] = NoPacket /\ \A j \in 1..(i - 1) : pool[j] # NoPacket}

RingFull == Len(log) - next_read >= RingSize

\* PARSER_ENGINE.data[i & PARSER_ENGINE_MASK]: the last reference written to
\* that place, which is entry i unless the producer has lapped it.
Data(i) ==
  IF Len(log) < i + RingSize
    THEN log[i]
    ELSE log[i + RingSize * ((Len(log) - i) \div RingSize)]

(***************************************************************************)
(* UMEM frames: the free stack and the fill ring.                          *)
(***************************************************************************)
Smaller(m, n) == IF m < n THEN m ELSE n

\* All frames are free at first, then the fill ring is filled.
afxdp_init ==
  \E F \in SUBSET Frames :
    /\ Cardinality(F) = Smaller(FqSize, Cardinality(Frames))
    /\ fq = F
    /\ free = Frames \ F

\* Move as many of the frames fr as the fill ring has room for.
afxdp_refill_fq(fr) ==
  \E F \in SUBSET fr :
    /\ Cardinality(F) = Smaller(FqSize - Cardinality(fq), Cardinality(fr))
    /\ fq' = fq \cup F
    /\ free' = fr \ F

afxdp_recycle(R) ==
  IF R = {} THEN UNCHANGED <<free, fq>> ELSE afxdp_refill_fq(free \cup R)

ConsumedAddrs == {Data(i).addr : i \in (recycle_read + 1)..next_read}

\* Mutant: the recycle cursor stays behind.
recycle_consumed_frames_NoCursor ==
  /\ pool' = [i \in Slots |-> IF i \in ConsumedAddrs THEN NoPacket ELSE pool[i]]
  /\ UNCHANGED recycle_read
  /\ afxdp_recycle(ConsumedAddrs \cap Frames)

\* Slots of consumed references become free, their frames are recycled.
recycle_consumed_frames ==
  /\ pool' = [i \in Slots |-> IF i \in ConsumedAddrs THEN NoPacket ELSE pool[i]]
  /\ recycle_read' = next_read
  /\ afxdp_recycle(ConsumedAddrs \cap Frames)

(***************************************************************************)
(* Retransmit requests.                                                    *)
(***************************************************************************)
send_retransmit_request(seq, missing) ==
  IF rewinder_fd /\ missing > 0 /\ ~limited
    THEN /\ requests' = requests \cup
                          {[start |-> seq, count |-> Smaller(missing, ReqMax)]}
         /\ limited' = TRUE
    ELSE UNCHANGED <<requests, limited>>

(***************************************************************************)
(* handle_payload, for packet p in frame a, or from the rewinder when a is *)
(* NoFrame.  Release is "return afxdp_addr", Pin is "return UINT64_MAX".   *)
(***************************************************************************)
\* Mutant: a pinned frame is handed back as if it had been dropped.
Pin_Recycled(p, a) ==
  IF a = NoFrame
    THEN replies' = replies \ {p} /\ UNCHANGED <<burst, drops>>
    ELSE burst' = Tail(burst) /\ drops' = drops \cup {a} /\ UNCHANGED replies

Pin(p, a) ==
  IF a = NoFrame
    THEN replies' = replies \ {p} /\ UNCHANGED <<burst, drops>>
    ELSE burst' = Tail(burst) /\ UNCHANGED <<replies, drops>>

Release(p, a) ==
  IF a = NoFrame
    THEN replies' = replies \ {p} /\ UNCHANGED <<burst, drops>>
    ELSE burst' = Tail(burst) /\ drops' = drops \cup {a} /\ UNCHANGED replies

SetExpected(e) == gap_session_set' = TRUE /\ gap_expected_seq' = e

\* Mutant: publishes without the drain_pending that follows.
PublishAndDrain_NoDrain(p, addr) ==
  /\ log' = Append(log, [pkt |-> p, addr |-> addr])
  /\ SetExpected(Start[p + 1])
  /\ UNCHANGED <<pc, ret>>

\* Publish reference <<p, addr>> and go on to drain_pending.
PublishAndDrain(p, addr) ==
  /\ log' = Append(log, [pkt |-> p, addr |-> addr])
  /\ SetExpected(Start[p + 1])
  /\ pc' = "drain"
  /\ ret' = pc

\* Nothing published: the thread goes on with its next packet.
Discard(p, a) ==
  /\ SetExpected(Expected(p))
  /\ Release(p, a)
  /\ UNCHANGED <<gap_lost, pool, log, limited, requests, pc, ret>>

LateOrDuplicate(p, a) ==
  /\ Start[p] < Expected(p)
  /\ Discard(p, a)

InOrderLive(p, a) ==
  /\ Start[p] = Expected(p)
  /\ a # NoFrame
  /\ IF RingFull
       THEN Discard(p, a)
       ELSE /\ PublishAndDrain(p, a)
            /\ Pin(p, a)
            /\ UNCHANGED <<gap_lost, pool, limited, requests>>

InOrderReply(p, a) ==
  /\ Start[p] = Expected(p)
  /\ a = NoFrame
  /\ IF reorder_find(Start[p], Expected(p)) # {} \/ reorder_alloc_slot = {} \/ RingFull
       THEN Discard(p, a)
       ELSE \E i \in reorder_alloc_slot :
              /\ pool' = [pool EXCEPT ![i] = p]
              /\ PublishAndDrain(p, i)
              /\ Release(p, a)
              /\ UNCHANGED <<gap_lost, limited, requests>>

AlreadyBuffered(p, a) ==
  /\ Start[p] > Expected(p)
  /\ reorder_find(Start[p], Expected(p)) # {}
  /\ Discard(p, a)

BufferFuture(p, a) ==
  /\ Start[p] > Expected(p)
  /\ reorder_find(Start[p], Expected(p)) = {}
  /\ \E i \in reorder_alloc_slot : pool' = [pool EXCEPT ![i] = p]
  /\ send_retransmit_request(Expected(p), Start[p] - Expected(p))
  /\ SetExpected(Expected(p))
  /\ Release(p, a)
  /\ UNCHANGED <<gap_lost, log, pc, ret>>

\* Mutant: skips ahead without counting what is given up.
PoolFull_Uncounted(p, a) ==
  /\ Start[p] > Expected(p)
  /\ reorder_find(Start[p], Expected(p)) = {}
  /\ reorder_alloc_slot = {}
  /\ \E i \in reorder_find_min(Expected(p)) : SetExpected(Start[pool[i]])
  /\ Release(p, a)
  /\ pc' = "drain"
  /\ ret' = pc
  /\ UNCHANGED <<gap_lost, pool, log, limited, requests>>

\* The pool is full: give up the gap in front of the first pending packet,
\* or, when every slot is in flight, only the packet at hand.
PoolFull(p, a) ==
  /\ Start[p] > Expected(p)
  /\ reorder_find(Start[p], Expected(p)) = {}
  /\ reorder_alloc_slot = {}
  /\ IF \E i \in reorder_find_min(Expected(p)) : Start[pool[i]] > Expected(p)
       THEN \E i \in reorder_find_min(Expected(p)) :
              /\ gap_lost' = gap_lost + (Start[pool[i]] - Expected(p))
              /\ SetExpected(Start[pool[i]])
              /\ Release(p, a)
              /\ pc' = "drain"
              /\ ret' = pc
              /\ UNCHANGED <<pool, log, limited, requests>>
       ELSE Discard(p, a)

handle_payload(p, a) ==
  /\ \/ LateOrDuplicate(p, a)
     \/ InOrderLive(p, a)
     \/ InOrderReply(p, a)
     \/ AlreadyBuffered(p, a)
     \/ BufferFuture(p, a)
     \/ PoolFull(p, a)
  /\ UNCHANGED <<next_read, recycle_read, umemVars, rewinder_fd>>

\* One iteration of drain_pending.
drain_pending ==
  /\ pc = "drain"
  /\ IF reorder_find(gap_expected_seq, gap_expected_seq) = {} \/ RingFull
       THEN pc' = ret /\ UNCHANGED <<gap_expected_seq, log>>
       ELSE \E i \in reorder_find(gap_expected_seq, gap_expected_seq) :
              /\ log' = Append(log, [pkt |-> pool[i], addr |-> i])
              /\ gap_expected_seq' = gap_expected_seq + Count(pool[i])
              /\ UNCHANGED pc
  /\ UNCHANGED <<gap_session_set, gap_lost, pool, next_read, recycle_read, umemVars,
                 burst, drops, rewinder_fd, netVars, replies, ret>>

(***************************************************************************)
(* The thread's main loop.                                                 *)
(***************************************************************************)
RecycleConsumed ==
  /\ pc = "recycle"
  /\ recycle_consumed_frames
  /\ pc' = "recv"
  /\ UNCHANGED <<gapVars, log, next_read, rx, mapped, deliveries, burst, drops,
                 rewinder_fd, netVars, replies, ret>>

afxdp_recv_burst ==
  /\ pc = "recv"
  /\ LET n == Smaller(BurstSize, Len(rx))
     IN  /\ burst' = SubSeq(rx, 1, n)
         /\ rx' = SubSeq(rx, n + 1, Len(rx))
  /\ afxdp_refill_fq(free)
  /\ pc' = "poll"
  /\ UNCHANGED <<gapVars, pool, ringVars, mapped, deliveries, drops, rewinder_fd,
                 netVars, replies, ret>>

poll_rewinder ==
  /\ pc = "poll"
  /\ rewinder_fd
  /\ \E p \in replies : handle_payload(p, NoFrame)

\* Mutant: an idle loop does not repeat the request.
Nudge_Silent ==
  /\ pc = "poll"
  /\ ~rewinder_fd \/ replies = {}
  /\ burst = <<>>
  /\ pc' = "recycle"
  /\ UNCHANGED <<gapVars, pool, ringVars, umemVars, burst, drops, rewinder_fd, netVars,
                 replies, ret>>

\* Nothing received: ask again for the gap in front of the pending packets.
Nudge ==
  /\ pc = "poll"
  /\ ~rewinder_fd \/ replies = {}
  /\ burst = <<>>
  /\ IF \E i \in reorder_find_min(gap_expected_seq) :
             gap_session_set /\ Start[pool[i]] > gap_expected_seq
       THEN \E i \in reorder_find_min(gap_expected_seq) :
              send_retransmit_request(gap_expected_seq, Start[pool[i]] - gap_expected_seq)
       ELSE UNCHANGED netVars
  /\ pc' = "recycle"
  /\ UNCHANGED <<gapVars, pool, ringVars, umemVars, burst, drops, rewinder_fd, replies, ret>>

StartBurst ==
  /\ pc = "poll"
  /\ ~rewinder_fd \/ replies = {}
  /\ burst # <<>>
  /\ pc' = "burst"
  /\ UNCHANGED <<gapVars, pool, ringVars, umemVars, burst, drops, rewinder_fd,
                 netVars, replies, ret>>

HandleLive ==
  /\ pc = "burst"
  /\ burst # <<>>
  /\ Head(burst).pkt \in Packets
  /\ handle_payload(Head(burst).pkt, Head(burst).frame)

\* Not a data packet: recycle the frame; on end of session leave the loop with
\* the rest of the burst unhandled.
HandleOther ==
  /\ pc = "burst"
  /\ burst # <<>>
  /\ Head(burst).pkt \notin Packets
  /\ burst' = Tail(burst)
  /\ drops' = drops \cup {Head(burst).frame}
  /\ pc' = IF Head(burst).pkt = EndOfSession THEN "lastdrops" ELSE "burst"
  /\ UNCHANGED <<gapVars, pool, ringVars, umemVars, rewinder_fd, netVars, replies, ret>>

RecycleDrops ==
  /\ \/ pc = "burst" /\ burst = <<>> /\ pc' = "recycle"
     \/ pc = "lastdrops" /\ pc' = "stop"
  /\ afxdp_recycle(drops)
  /\ drops' = {}
  /\ UNCHANGED <<gapVars, pool, ringVars, rx, mapped, deliveries, burst, rewinder_fd,
                 netVars, replies, ret>>

Stop ==
  /\ pc = "stop"
  /\ rewinder_fd' = FALSE
  /\ recycle_consumed_frames
  /\ pc' = "close"
  /\ UNCHANGED <<gapVars, log, next_read, rx, mapped, deliveries, burst, drops,
                 netVars, replies, ret>>

afxdp_close ==
  /\ pc = "close"
  /\ mapped' = FALSE
  /\ pc' = "closed"
  /\ UNCHANGED <<gapVars, pool, ringVars, free, fq, rx, deliveries, burst, drops,
                 rewinder_fd, netVars, replies, ret>>

(***************************************************************************)
(* The dispatcher, the clock, the kernel and the rewinder.                 *)
(***************************************************************************)
Consume ==
  /\ next_read < Len(log)
  /\ next_read' = next_read + 1
  /\ UNCHANGED <<gapVars, pool, log, recycle_read, umemVars, burst, drops, rewinder_fd,
                 netVars, replies, pc, ret>>

RetransmitIntervalPasses ==
  /\ limited
  /\ limited' = FALSE
  /\ UNCHANGED <<gapVars, pool, ringVars, umemVars, burst, drops, rewinder_fd,
                 requests, replies, pc, ret>>

\* The kernel writes a payload into a frame of the fill ring.
KernelReceive(f, p) ==
  /\ mapped
  /\ deliveries > 0
  /\ Len(rx) < RxSize
  /\ fq' = fq \ {f}
  /\ rx' = Append(rx, [pkt |-> p, frame |-> f])
  /\ deliveries' = deliveries - 1
  /\ UNCHANGED <<gapVars, pool, ringVars, free, mapped, burst, drops, rewinder_fd,
                 netVars, replies, pc, ret>>

\* What the rewinder replays for a request: the cached packets that cover it,
\* in order, up to the first miss and at most MaxReplay of them.
Replay(req) ==
  {p \in Packets :
     /\ Start[p + 1] > req.start
     /\ Start[p] < req.start + req.count
     /\ Cardinality({q \in 1..p : Start[q + 1] > req.start}) <= MaxReplay
     /\ \A q \in 1..p : Start[q + 1] > req.start => q \in Cached}

\* The rewinder serves a request; the packets in got survive the way back.
Answer(req, got) ==
  /\ requests' = requests \ {req}
  /\ replies' = IF rewinder_fd THEN replies \cup got ELSE replies
  /\ UNCHANGED <<gapVars, pool, ringVars, umemVars, burst, drops, rewinder_fd,
                 limited, pc, ret>>

Init ==
  /\ gap_session_set = FALSE
  /\ gap_expected_seq = 0
  /\ gap_lost = 0
  /\ pool = [i \in Slots |-> NoPacket]
  /\ log = <<>>
  /\ next_read = 0
  /\ recycle_read = 0
  /\ afxdp_init
  /\ rx = <<>>
  /\ burst = <<>>
  /\ drops = {}
  /\ rewinder_fd \in BOOLEAN
  /\ limited = FALSE
  /\ requests = {}
  /\ replies = {}
  /\ pc = "recycle"
  /\ ret = "poll"
  /\ mapped = TRUE
  /\ deliveries = MaxDeliveries

Receiver ==
  \/ RecycleConsumed
  \/ afxdp_recv_burst
  \/ poll_rewinder
  \/ Nudge
  \/ StartBurst
  \/ HandleLive
  \/ HandleOther
  \/ drain_pending
  \/ RecycleDrops
  \/ Stop
  \/ afxdp_close

Network ==
  \/ \E f \in fq, p \in Payloads : KernelReceive(f, p)
  \/ \E req \in requests : \E got \in SUBSET Replay(req) : Answer(req, got)

Next == Receiver \/ Consume \/ RetransmitIntervalPasses \/ Network

Spec == Init /\ [][Next]_vars

(***************************************************************************)
(* Fairness: both threads spin without blocking; a retransmit interval     *)
(* passes; a request that is repeated for ever is once answered without    *)
(* loss.  Nothing is assumed of live deliveries.                           *)
(***************************************************************************)
Fairness ==
  /\ WF_vars(Receiver)
  /\ WF_vars(Consume)
  /\ WF_vars(RetransmitIntervalPasses)
  /\ SF_vars(\E req \in requests : Answer(req, Replay(req)))

FairSpec == Spec /\ Fairness

(***************************************************************************)
(* Properties.                                                             *)
(***************************************************************************)
Ref == [pkt : Packets, addr : Frames \cup Slots]
Descriptor == [pkt : Payloads, frame : Frames]
Request == [start : Nat, count : Nat]

\* Every variable has its type; the three cursors of the ring are in order.
TypeOK ==
  /\ gap_session_set \in BOOLEAN
  /\ gap_expected_seq \in Nat
  /\ gap_lost \in Nat
  /\ pool \in [Slots -> Packets \cup {NoPacket}]
  /\ log \in Seq(Ref)
  /\ next_read \in 0..Len(log)
  /\ recycle_read \in 0..next_read
  /\ free \subseteq Frames
  /\ fq \subseteq Frames
  /\ rx \in Seq(Descriptor)
  /\ burst \in Seq(Descriptor)
  /\ drops \subseteq Frames
  /\ rewinder_fd \in BOOLEAN
  /\ limited \in BOOLEAN
  /\ requests \subseteq Request
  /\ replies \subseteq Packets
  /\ pc \in {"recycle", "recv", "poll", "burst", "drain", "lastdrops", "stop",
             "close", "closed"}
  /\ ret \in {"poll", "burst"}
  /\ mapped \in BOOLEAN
  /\ deliveries \in Nat

Unrecycled == (recycle_read + 1)..Len(log)
FramesOf(s) == {s[i].frame : i \in 1..Len(s)}
Pinned == {log[i].addr : i \in Unrecycled} \cap Frames

\* No two entries of the ring that are not recycled yet share a frame or slot.
DistinctRefs ==
  \A i, j \in Unrecycled : log[i].addr = log[j].addr => i = j

\* The frames of a descriptor sequence are distinct.
DistinctFrames(s) ==
  \A i, j \in 1..Len(s) : s[i].frame = s[j].frame => i = j

\* Every UMEM frame is in exactly one place: free, owned by the kernel, received,
\* in the burst at hand, waiting to be dropped, or pinned by the ring.  So the
\* kernel never writes a frame the dispatcher may read, none is recycled twice
\* (xsk_free_umem_frame never fails) and none leaks.
FrameOwnership ==
  /\ DistinctRefs
  /\ DistinctFrames(rx)
  /\ DistinctFrames(burst)
  /\ free \cap fq = {}
  /\ FramesOf(rx) \cap (free \cup fq) = {}
  /\ FramesOf(burst) \cap (free \cup fq \cup FramesOf(rx)) = {}
  /\ drops \cap (free \cup fq \cup FramesOf(rx) \cup FramesOf(burst)) = {}
  /\ Pinned \cap (free \cup fq \cup FramesOf(rx) \cup FramesOf(burst) \cup drops) = {}
  /\ free \cup fq \cup FramesOf(rx) \cup FramesOf(burst) \cup drops \cup Pinned = Frames

\* A reorder slot that backs a published reference keeps its packet until the
\* reference is recycled, and is told apart from a pending slot by its sequence
\* number; a used slot that is behind is always backing one (no slot leaks).
SlotOwnership ==
  /\ \A i \in Unrecycled : log[i].addr \in Slots =>
       /\ pool[log[i].addr] = log[i].pkt
       /\ Start[log[i].pkt] < gap_expected_seq
  /\ \A s \in Slots : pool[s] # NoPacket /\ Start[pool[s]] < gap_expected_seq =>
       \E i \in Unrecycled : log[i].addr = s

\* publish_ref compares with next_read only, but an entry is still needed until
\* recycle_read passes it: the producer never laps the recycle cursor, and so
\* never finds the ring full, because frames and slots run out first.
RingNeverLapped ==
  Len(log) - recycle_read <= Cardinality(Frames) + ReorderMax

\* When the thread is not draining, every pending packet is beyond the expected
\* one and no packet is buffered twice: nothing deliverable is left waiting.
NothingDeliverableWaits ==
  /\ pc # "drain" => reorder_find(gap_expected_seq, gap_expected_seq) = {}
  /\ \A i, j \in Pending(gap_expected_seq) : pool[i] = pool[j] => i = j

\* The receiver implements the ordered feed: in order, at most once, and every
\* hole counted.
Feed == INSTANCE OrderedFeed WITH
          delivered <- [i \in 1..Len(log) |-> log[i].pkt],
          next <- gap_expected_seq,
          lost <- gap_lost
FeedSpec == Feed!Spec

\* A gap with a packet buffered behind it is closed: the rewinder holds every
\* packet and the session goes on, so the buffered packet is published.  Not so
\* when every slot is pending: handle_payload then drops the in-order reply too.
GapCloses ==
  \A p \in Packets :
    (rewinder_fd /\ \E i \in Slots : pool[i] = p /\ Start[p] > gap_expected_seq)
      ~> (\/ gap_expected_seq > Start[p] \/ ~rewinder_fd
          \/ pc \in {"lastdrops", "stop"} \/ Pending(gap_expected_seq) = Slots)

\* What handle_payload says of a zero-copy frame, "pinned in PARSER_ENGINE; recycle
\* later": its memory outlives the reference the dispatcher has yet to read.
PinnedFramesMapped ==
  \A i \in (next_read + 1)..Len(log) : log[i].addr \in Frames => mapped

=============================================================================

------------------------- MODULE UdpReceiverProofs -------------------------
(***************************************************************************)
(* Proofs about UdpReceiver, for every session, pool, ring and UMEM size:  *)
(* what is published is the feed in order, UMEM frames and reorder slots   *)
(* always have one owner, the ring is never lapped, and nothing            *)
(* deliverable waits.                                                      *)
(***************************************************************************)
EXTENDS UdpReceiver, FiniteSetTheorems, TLAPS

(***************************************************************************)
(* The few facts about sequences the receive path rests on: the reorder    *)
(* queues, the ring's log and the published stream are sequences that      *)
(* grow at the tail, lose their head or are cut.                           *)
(***************************************************************************)

\* A sequence is a function on the positions up to its length.
LEMMA LenProperties ==
  ASSUME NEW S, NEW seq \in Seq(S)
  PROVE  /\ Len(seq) \in Nat
         /\ seq \in [1..Len(seq) -> S]
         /\ DOMAIN seq = 1..Len(seq)
  BY SMT

\* What a sequence holds at a position is one of its elements.
LEMMA ElementOfSeq ==
  ASSUME NEW S, NEW seq \in Seq(S), NEW n \in 1..Len(seq)
  PROVE  seq[n] \in S
  BY SMT

\* The empty queue, and that any other queue has a first entry.
LEMMA EmptySeq ==
  ASSUME NEW S
  PROVE  /\ << >> \in Seq(S)
         /\ Len(<< >>) = 0
         /\ \A seq \in Seq(S) : seq # << >> => Len(seq) \in Nat \ {0}
  BY SMT

\* Sequences that agree everywhere are the same.
LEMMA SeqEqual ==
  ASSUME NEW S, NEW s \in Seq(S), NEW t \in Seq(S),
         Len(s) = Len(t), \A i \in 1..Len(s) : s[i] = t[i]
  PROVE  s = t
  BY SMT

\* Pushing at the tail.
LEMMA AppendProperties ==
  ASSUME NEW S, NEW seq \in Seq(S), NEW elt \in S
  PROVE  /\ Append(seq, elt) \in Seq(S)
         /\ Append(seq, elt) # << >>
         /\ Len(Append(seq, elt)) = Len(seq) + 1
         /\ \A i \in 1..Len(seq) : Append(seq, elt)[i] = seq[i]
         /\ Append(seq, elt)[Len(seq) + 1] = elt
  BY SMT

\* Popping the head.
LEMMA HeadTailProperties ==
  ASSUME NEW S, NEW s \in Seq(S), s # << >>
  PROVE  /\ Head(s) \in S
         /\ Tail(s) \in Seq(S)
         /\ Len(Tail(s)) = Len(s) - 1
         /\ \A i \in 1..Len(Tail(s)) : Tail(s)[i] = s[i + 1]
  BY SMT

\* Cutting a piece out.
LEMMA SubSeqProperties ==
  ASSUME NEW S, NEW s, NEW m \in Int, NEW n \in Int,
         \A i \in m..n : s[i] \in S
  PROVE  /\ SubSeq(s, m, n) \in Seq(S)
         /\ Len(SubSeq(s, m, n)) = IF m <= n THEN n - m + 1 ELSE 0
         /\ \A i \in 1..(n - m + 1) : SubSeq(s, m, n)[i] = s[m + i - 1]
  BY SMT

(***************************************************************************)
(* Facts about the constants and the helpers.                              *)
(***************************************************************************)

\* Consecutive packets begin at increasing natural sequence numbers.
LEMMA StartFacts ==
  \A p \in Packets : /\ Start[p] \in Nat
                     /\ Start[p + 1] \in Nat
                     /\ Start[p] < Start[p + 1]
  BY StartAssumption DEF Packets

\* A frame is not the address of a rewinder reply, nor a slot.
LEMMA FrameFacts ==
  /\ NoFrame \notin Frames
  /\ \A f \in Frames : f \notin Slots
  BY FrameAssumption

\* The expected sequence number is a natural number, whether set or not.
LEMMA ExpectedType ==
  ASSUME TypeOK, NEW p \in Packets
  PROVE  Expected(p) \in Nat
  BY StartFacts DEF TypeOK, Expected

\* A used slot holds a packet of the session.
LEMMA PendingFacts ==
  ASSUME TypeOK, NEW e \in Nat, NEW i \in Pending(e)
  PROVE  /\ i \in Slots
         /\ pool[i] \in Packets
         /\ Start[pool[i]] \in Nat
         /\ Start[pool[i]] >= e
  BY StartFacts DEF TypeOK, Pending, NoPacket

\* All slots reorder_find_min may return begin at the same sequence number.
LEMMA FindMinUnique ==
  ASSUME TypeOK, NEW e \in Nat,
         NEW i \in reorder_find_min(e), NEW j \in reorder_find_min(e)
  PROVE  /\ i \in Pending(e)
         /\ Start[pool[i]] = Start[pool[j]]
<1>1. i \in Pending(e) /\ j \in Pending(e)
  BY DEF reorder_find_min
<1>2. Start[pool[i]] <= Start[pool[j]] /\ Start[pool[j]] <= Start[pool[i]]
  BY <1>1 DEF reorder_find_min
<1>3. Start[pool[i]] \in Nat /\ Start[pool[j]] \in Nat
  BY <1>1, PendingFacts
<1> QED
  BY <1>1, <1>2, <1>3

\* Refilling moves frames and makes none up.
LEMMA RefillType ==
  ASSUME NEW fr \in SUBSET Frames, fq \subseteq Frames, afxdp_refill_fq(fr)
  PROVE  free' \subseteq Frames /\ fq' \subseteq Frames
  BY DEF afxdp_refill_fq

LEMMA RecycleType ==
  ASSUME NEW R \in SUBSET Frames, free \subseteq Frames, fq \subseteq Frames, afxdp_recycle(R)
  PROVE  free' \subseteq Frames /\ fq' \subseteq Frames
<1>1. CASE R = {}
  BY <1>1 DEF afxdp_recycle
<1>2. CASE R # {}
  <2>1. afxdp_refill_fq(free \cup R)
    BY <1>2 DEF afxdp_recycle
  <2> QED
    BY <2>1, RefillType
<1> QED
  BY <1>1, <1>2

LEMMA RequestType ==
  ASSUME TypeOK, NEW s \in Nat, NEW m \in Int, send_retransmit_request(s, m)
  PROVE  requests' \subseteq Request /\ limited' \in BOOLEAN
<1> DEFINE asked == rewinder_fd /\ m > 0 /\ ~limited
           req == [start |-> s, count |-> Smaller(m, ReqMax)]
<1>0. requests \subseteq Request /\ limited \in BOOLEAN
  BY DEF TypeOK
<1>1. CASE asked
  <2>1. requests' = requests \cup {req} /\ limited' = TRUE
    BY <1>1 DEF send_retransmit_request
  <2>2. Smaller(m, ReqMax) \in Nat
    BY <1>1, SizeAssumption DEF Smaller
  <2>3. req \in Request
    BY <2>2 DEF Request
  <2> QED
    BY <1>0, <2>1, <2>3
<1>2. CASE ~asked
  BY <1>0, <1>2 DEF send_retransmit_request
<1> QED
  BY <1>1, <1>2

(***************************************************************************)
(* Type correctness.                                                       *)
(***************************************************************************)

\* The two places handle_payload is called from.
HandleContext(p, a) ==
  /\ p \in Packets
  /\ \/ a = NoFrame /\ pc = "poll" /\ p \in replies
     \/ a \in Frames /\ pc = "burst" /\ burst # <<>>
        /\ Head(burst).pkt = p /\ Head(burst).frame = a

\* Leaving handle_payload keeps the burst, the drop list and the replies typed.
LEMMA ReleaseType ==
  ASSUME TypeOK, NEW p, NEW a, HandleContext(p, a), Release(p, a) \/ Pin(p, a)
  PROVE  /\ burst' \in Seq(Descriptor)
         /\ drops' \subseteq Frames
         /\ replies' \subseteq Packets
<1>0. /\ burst \in Seq(Descriptor)
      /\ drops \subseteq Frames
      /\ replies \subseteq Packets
  BY DEF TypeOK
<1>1. CASE a = NoFrame
  BY <1>0, <1>1 DEF Release, Pin
<1>2. CASE a # NoFrame
  <2>1. a \in Frames /\ burst # <<>>
    BY <1>2 DEF HandleContext
  <2>2. Tail(burst) \in Seq(Descriptor)
    BY <1>0, <2>1, HeadTailProperties
  <2> QED
    BY <1>0, <1>2, <2>1, <2>2, Zenon DEF Release, Pin
<1> QED
  BY <1>1, <1>2, Zenon

\* Publishing appends a well-formed reference.
LEMMA PublishType ==
  ASSUME TypeOK, NEW p \in Packets, NEW addr \in Frames \cup Slots
  PROVE  /\ Append(log, [pkt |-> p, addr |-> addr]) \in Seq(Ref)
         /\ Len(Append(log, [pkt |-> p, addr |-> addr])) = Len(log) + 1
<1>1. log \in Seq(Ref) /\ [pkt |-> p, addr |-> addr] \in Ref
  BY DEF TypeOK, Ref
<1> QED
  BY <1>1, AppendProperties

LEMMA DiscardType ==
  ASSUME TypeOK, NEW p, NEW a, HandleContext(p, a), Discard(p, a),
         UNCHANGED <<next_read, recycle_read, umemVars, rewinder_fd>>
  PROVE  TypeOK'
<1>1. p \in Packets
  BY DEF HandleContext
<1>2. Expected(p) \in Nat
  BY <1>1, ExpectedType
<1>3. /\ burst' \in Seq(Descriptor)
      /\ drops' \subseteq Frames
      /\ replies' \subseteq Packets
  BY ReleaseType DEF Discard
<1> QED
  BY <1>2, <1>3 DEF TypeOK, Discard, SetExpected, umemVars

LEMMA HandleType ==
  ASSUME TypeOK, NEW p, NEW a, HandleContext(p, a), handle_payload(p, a)
  PROVE  TypeOK'
<1>1. p \in Packets /\ Expected(p) \in Nat /\ Start[p] \in Nat /\ Start[p + 1] \in Nat
  BY ExpectedType, StartFacts DEF HandleContext
<1>2. UNCHANGED <<next_read, recycle_read, umemVars, rewinder_fd>>
  BY DEF handle_payload
<1>3. CASE Discard(p, a)
  BY <1>2, <1>3, DiscardType
<1>4. pc \in {"poll", "burst"}
  BY DEF HandleContext
<1>5. ASSUME NEW addr \in Frames \cup Slots, PublishAndDrain(p, addr),
             Release(p, a) \/ Pin(p, a), pool' \in [Slots -> Packets \cup {NoPacket}],
             UNCHANGED <<gap_lost, limited, requests>>
      PROVE  TypeOK'
  <2>1. log' \in Seq(Ref) /\ Len(log') = Len(log) + 1
    BY <1>1, <1>5, PublishType DEF PublishAndDrain
  <2>2. /\ burst' \in Seq(Descriptor)
        /\ drops' \subseteq Frames
        /\ replies' \subseteq Packets
    BY <1>5, ReleaseType
  <2>3. Len(log) \in Nat
    BY LenProperties DEF TypeOK
  <2>4. next_read' \in 0..Len(log') /\ recycle_read' \in 0..next_read'
    BY <1>2, <2>1, <2>3 DEF TypeOK
  <2> QED
    BY <1>1, <1>2, <1>4, <1>5, <2>1, <2>2, <2>4, Zenon
    DEF TypeOK, PublishAndDrain, SetExpected, umemVars
<1>6. CASE LateOrDuplicate(p, a)
  BY <1>3, <1>6 DEF LateOrDuplicate
<1>7. CASE InOrderLive(p, a)
  <2>1. CASE ~RingFull
    <3>1. a \in Frames
      BY <1>7 DEF InOrderLive, HandleContext
    <3>2. PublishAndDrain(p, a) /\ Pin(p, a) /\ UNCHANGED <<gap_lost, pool, limited, requests>>
      BY <1>7, <2>1, Zenon DEF InOrderLive
    <3>3. pool' \in [Slots -> Packets \cup {NoPacket}]
      BY <3>2 DEF TypeOK
    <3> QED
      BY <1>5, <3>1, <3>2, <3>3, Zenon
  <2> QED
    BY <1>3, <1>7, <2>1 DEF InOrderLive
<1>8. CASE InOrderReply(p, a)
  <2>1. CASE \E i \in reorder_alloc_slot :
               /\ pool' = [pool EXCEPT ![i] = p]
               /\ PublishAndDrain(p, i)
               /\ Release(p, a)
               /\ UNCHANGED <<gap_lost, limited, requests>>
    <3>1. PICK i \in reorder_alloc_slot :
               /\ pool' = [pool EXCEPT ![i] = p]
               /\ PublishAndDrain(p, i)
               /\ Release(p, a)
               /\ UNCHANGED <<gap_lost, limited, requests>>
      BY <2>1, Zenon
    <3>2. i \in Slots
      BY DEF reorder_alloc_slot
    <3>3. pool' \in [Slots -> Packets \cup {NoPacket}]
      BY <1>1, <3>1, Zenon DEF TypeOK
    <3> QED
      BY <1>5, <3>1, <3>2, <3>3, Zenon
  <2> QED
    BY <1>3, <1>8, <2>1 DEF InOrderReply
<1>9. CASE AlreadyBuffered(p, a)
  BY <1>3, <1>9 DEF AlreadyBuffered
<1>10. CASE BufferFuture(p, a)
  <2>1. pool' \in [Slots -> Packets \cup {NoPacket}]
    BY <1>1, <1>10, Zenon DEF TypeOK, BufferFuture, reorder_alloc_slot
  <2>2. requests' \subseteq Request /\ limited' \in BOOLEAN
    BY <1>1, <1>10, RequestType DEF BufferFuture
  <2>3. /\ burst' \in Seq(Descriptor)
        /\ drops' \subseteq Frames
        /\ replies' \subseteq Packets
    BY <1>10, ReleaseType, Zenon DEF BufferFuture
  <2> QED
    BY <1>1, <1>2, <1>10, <2>1, <2>2, <2>3, Zenon DEF TypeOK, BufferFuture, SetExpected, umemVars
<1>11. CASE PoolFull(p, a)
  <2>1. CASE \E i \in reorder_find_min(Expected(p)) : Start[pool[i]] > Expected(p)
    <3>1. PICK i \in reorder_find_min(Expected(p)) :
            /\ gap_lost' = gap_lost + (Start[pool[i]] - Expected(p))
            /\ SetExpected(Start[pool[i]])
            /\ Release(p, a)
            /\ pc' = "drain"
            /\ ret' = pc
            /\ UNCHANGED <<pool, log, limited, requests>>
      BY <1>11, <2>1 DEF PoolFull
    <3>2. Start[pool[i]] \in Nat /\ Start[pool[i]] >= Expected(p)
      BY <1>1, PendingFacts, Zenon DEF reorder_find_min
    <3>3. gap_lost' \in Nat
      BY <1>1, <3>1, <3>2 DEF TypeOK
    <3>4. /\ burst' \in Seq(Descriptor)
          /\ drops' \subseteq Frames
          /\ replies' \subseteq Packets
      BY <3>1, ReleaseType
    <3> QED
      BY <1>2, <1>4, <3>1, <3>2, <3>3, <3>4, Zenon DEF TypeOK, SetExpected, umemVars
  <2> QED
    BY <1>3, <1>11, <2>1, Zenon DEF PoolFull
<1> QED
  BY <1>6, <1>7, <1>8, <1>9, <1>10, <1>11 DEF handle_payload

\* Every step of the receiver, the dispatcher and the network keeps the types.
LEMMA TypeStep == TypeOK /\ [Next]_vars => TypeOK'
<1> SUFFICES ASSUME TypeOK, [Next]_vars
             PROVE  TypeOK'
  OBVIOUS
<1>0. Len(log) \in Nat /\ Len(rx) \in Nat
  BY LenProperties DEF TypeOK
<1>1. ASSUME recycle_consumed_frames, UNCHANGED next_read, UNCHANGED log
      PROVE  /\ pool' \in [Slots -> Packets \cup {NoPacket}]
             /\ next_read' \in 0..Len(log')
             /\ recycle_read' \in 0..next_read'
             /\ free' \subseteq Frames
             /\ fq' \subseteq Frames
  <2>1. pool' \in [Slots -> Packets \cup {NoPacket}]
    BY <1>1 DEF TypeOK, recycle_consumed_frames
  <2>2. recycle_read' \in 0..next_read' /\ next_read' \in 0..Len(log')
    BY <1>0, <1>1 DEF TypeOK, recycle_consumed_frames
  <2>3. free' \subseteq Frames /\ fq' \subseteq Frames
    BY <1>1, RecycleType DEF TypeOK, recycle_consumed_frames
  <2> QED
    BY <2>1, <2>2, <2>3
<1>2. CASE RecycleConsumed
  BY <1>1, <1>2 DEF TypeOK, RecycleConsumed, gapVars, netVars
<1>3. CASE afxdp_recv_burst
  <2> DEFINE n == Smaller(BurstSize, Len(rx))
  <2>1. rx \in Seq(Descriptor) /\ free \subseteq Frames /\ fq \subseteq Frames
    BY DEF TypeOK
  <2>2. n \in 0..Len(rx)
    BY <1>0, SizeAssumption DEF Smaller
  <2>3. SubSeq(rx, 1, n) \in Seq(Descriptor) /\ SubSeq(rx, n + 1, Len(rx)) \in Seq(Descriptor)
    <3>1. \A i \in 1..n : rx[i] \in Descriptor
      BY <2>1, <2>2, ElementOfSeq
    <3>2. \A i \in (n + 1)..Len(rx) : rx[i] \in Descriptor
      BY <1>0, <2>1, <2>2, ElementOfSeq
    <3> HIDE DEF n
    <3> QED
      BY <1>0, <2>1, <2>2, <3>1, <3>2, SubSeqProperties
  <2>4. free' \subseteq Frames /\ fq' \subseteq Frames
    BY <1>3, <2>1, RefillType DEF afxdp_recv_burst
  <2>5. burst' \in Seq(Descriptor) /\ rx' \in Seq(Descriptor)
    BY <1>3, <2>3 DEF afxdp_recv_burst
  <2> QED
    BY <1>3, <2>4, <2>5, Zenon DEF TypeOK, afxdp_recv_burst, gapVars, ringVars, netVars
<1>4. CASE poll_rewinder
  <2>1. PICK p \in replies : handle_payload(p, NoFrame)
    BY <1>4 DEF poll_rewinder
  <2>2. HandleContext(p, NoFrame)
    BY <1>4, <2>1, Zenon DEF TypeOK, poll_rewinder, HandleContext
  <2> QED
    BY <2>1, <2>2, HandleType
<1>5. CASE Nudge
  <2>1. requests' \subseteq Request /\ limited' \in BOOLEAN
    <3>1. CASE \E i \in reorder_find_min(gap_expected_seq) :
                 send_retransmit_request(gap_expected_seq, Start[pool[i]] - gap_expected_seq)
      <4>1. PICK i \in reorder_find_min(gap_expected_seq) :
              send_retransmit_request(gap_expected_seq, Start[pool[i]] - gap_expected_seq)
        BY <3>1
      <4>2. gap_expected_seq \in Nat
        BY DEF TypeOK
      <4>3. Start[pool[i]] - gap_expected_seq \in Int
        BY <4>2, PendingFacts DEF reorder_find_min
      <4> QED
        BY <4>1, <4>2, <4>3, RequestType, Zenon
    <3>2. CASE UNCHANGED netVars
      BY <3>2 DEF TypeOK, netVars
    <3> QED
      BY <1>5, <3>1, <3>2, Zenon DEF Nudge
  <2> QED
    BY <1>5, <2>1, Zenon DEF TypeOK, Nudge, gapVars, ringVars, umemVars
<1>6. CASE StartBurst
  BY <1>6 DEF TypeOK, StartBurst, gapVars, ringVars, umemVars, netVars
<1>7. CASE HandleLive
  <2>1. Head(burst) \in Descriptor
    BY <1>7, HeadTailProperties, Zenon DEF TypeOK, HandleLive
  <2>2. HandleContext(Head(burst).pkt, Head(burst).frame)
    BY <1>7, <2>1 DEF HandleLive, HandleContext, Descriptor
  <2> QED
    BY <1>7, <2>2, HandleType, Zenon DEF HandleLive
<1>8. CASE HandleOther
  <2>1. Head(burst) \in Descriptor /\ Tail(burst) \in Seq(Descriptor)
    BY <1>8, HeadTailProperties DEF TypeOK, HandleOther
  <2>2. Head(burst).frame \in Frames
    BY <2>1 DEF Descriptor
  <2> QED
    BY <1>8, <2>1, <2>2, Zenon DEF TypeOK, HandleOther, gapVars, ringVars, umemVars, netVars
<1>9. CASE drain_pending
  <2>1. CASE pc' = ret /\ UNCHANGED <<gap_expected_seq, log>>
    BY <1>9, <2>1, Zenon DEF TypeOK, drain_pending, umemVars, netVars
  <2>2. CASE \E i \in reorder_find(gap_expected_seq, gap_expected_seq) :
               /\ log' = Append(log, [pkt |-> pool[i], addr |-> i])
               /\ gap_expected_seq' = gap_expected_seq + Count(pool[i])
               /\ UNCHANGED pc
    <3>1. PICK i \in reorder_find(gap_expected_seq, gap_expected_seq) :
               /\ log' = Append(log, [pkt |-> pool[i], addr |-> i])
               /\ gap_expected_seq' = gap_expected_seq + Count(pool[i])
               /\ UNCHANGED pc
      BY <2>2
    <3>2. gap_expected_seq \in Nat
      BY DEF TypeOK
    <3>3. i \in Slots /\ pool[i] \in Packets
      BY <3>2, PendingFacts DEF reorder_find
    <3>4. log' \in Seq(Ref) /\ Len(log') = Len(log) + 1
      BY <3>1, <3>3, PublishType, Zenon
    <3>5. gap_expected_seq' \in Nat
      BY <3>1, <3>2, <3>3, StartFacts DEF Count
    <3>6. next_read' \in 0..Len(log') /\ recycle_read' \in 0..next_read'
      BY <1>0, <1>9, <3>4 DEF TypeOK, drain_pending
    <3> QED
      BY <1>9, <3>1, <3>4, <3>5, <3>6, Zenon DEF TypeOK, drain_pending, umemVars, netVars
  <2> QED
    BY <1>9, <2>1, <2>2, Zenon DEF drain_pending
<1>10. CASE RecycleDrops
  <2>1. free' \subseteq Frames /\ fq' \subseteq Frames
    BY <1>10, RecycleType, Zenon DEF TypeOK, RecycleDrops
  <2> QED
    BY <1>10, <2>1, Zenon DEF TypeOK, RecycleDrops, gapVars, ringVars, netVars
<1>11. CASE Stop
  BY <1>1, <1>11, Zenon DEF TypeOK, Stop, gapVars, netVars
<1>12. CASE afxdp_close
  BY <1>12, Zenon DEF TypeOK, afxdp_close, gapVars, ringVars, netVars
<1>13. CASE Consume
  BY <1>0, <1>13 DEF TypeOK, Consume, gapVars, umemVars, netVars
<1>14. CASE RetransmitIntervalPasses
  BY <1>14, Zenon DEF TypeOK, RetransmitIntervalPasses, gapVars, ringVars, umemVars
<1>15. ASSUME NEW f \in fq, NEW p \in Payloads, KernelReceive(f, p)
       PROVE  TypeOK'
  <2>1. rx' \in Seq(Descriptor)
    <3>1. rx \in Seq(Descriptor) /\ [pkt |-> p, frame |-> f] \in Descriptor
      BY DEF TypeOK, Descriptor
    <3> QED
      BY <1>15, <3>1, AppendProperties, Zenon DEF KernelReceive
  <2> QED
    BY <1>15, <2>1 DEF TypeOK, KernelReceive, gapVars, ringVars, netVars
<1>16. ASSUME NEW req \in requests, NEW got \in SUBSET Replay(req), Answer(req, got)
       PROVE  TypeOK'
  <2>1. got \subseteq Packets
    BY Zenon DEF Replay
  <2> QED
    BY <1>16, <2>1 DEF TypeOK, Answer, gapVars, ringVars, umemVars
<1>17. CASE UNCHANGED vars
  BY <1>17 DEF TypeOK, vars, gapVars, ringVars, umemVars, netVars
<1> QED
  BY <1>2, <1>3, <1>4, <1>5, <1>6, <1>7, <1>8, <1>9, <1>10, <1>11, <1>12, <1>13, <1>14,
     <1>15, <1>16, <1>17, ZenonT(30) DEF Next, Receiver, Network

LEMMA InitType == Init => TypeOK
<1> SUFFICES ASSUME Init PROVE TypeOK
  OBVIOUS
<1>1. log = <<>> /\ rx = <<>> /\ burst = <<>> /\ Len(<<>>) = 0
  BY DEF Init, afxdp_init
<1>2. log \in Seq(Ref) /\ rx \in Seq(Descriptor) /\ burst \in Seq(Descriptor)
  BY <1>1
<1>3. free \subseteq Frames /\ fq \subseteq Frames
  BY DEF Init, afxdp_init
<1>4. pool \in [Slots -> Packets \cup {NoPacket}]
  BY DEF Init, afxdp_init
<1>5. next_read \in 0..Len(log) /\ recycle_read \in 0..next_read /\ deliveries \in Nat
  BY <1>1, SizeAssumption DEF Init, afxdp_init
<1> QED
  BY <1>1, <1>2, <1>3, <1>4, <1>5, Zenon DEF Init, afxdp_init, TypeOK

\* The variables of the receiver always have their types, and its ring cursors
\* stay in order: recycle_read <= next_read <= next_write.
THEOREM TypeCorrect == Spec => []TypeOK
<1>1. Init => TypeOK
  BY InitType
<1>2. TypeOK /\ [Next]_vars => TypeOK'
  BY TypeStep
<1> QED
  BY <1>1, <1>2, PTL DEF Spec

(***************************************************************************)
(* The receiver implements OrderedFeed.                                    *)
(***************************************************************************)

\* The session is set exactly when something has been published, and nothing
\* is requested before.
JoinInv ==
  /\ gap_session_set <=> Len(log) > 0
  /\ pc = "drain" => gap_session_set
  /\ ~gap_session_set => requests = {} /\ replies = {}

\* An empty ring is not full.
LEMMA EmptyRingNotFull ==
  ASSUME TypeOK, RingFull
  PROVE  Len(log) > 0
<1>1. Cardinality(Frames) \in Nat
  BY FrameAssumption, FS_CardinalityType
<1>2. RingSize > 0
  BY <1>1, RingAssumption, SizeAssumption
<1>3. Len(log) \in Nat
  BY LenProperties DEF TypeOK
<1> QED
  BY <1>2, <1>3, SizeAssumption DEF TypeOK, RingFull

Delivered == [i \in 1..Len(log) |-> log[i].pkt]

\* Publishing a reference delivers its packet.
LEMMA DeliveredAppend ==
  ASSUME TypeOK, NEW p \in Packets, NEW addr \in Frames \cup Slots,
         log' = Append(log, [pkt |-> p, addr |-> addr])
  PROVE  /\ Delivered' = Append(Delivered, p)
         /\ Len(log') = Len(log) + 1
         /\ Len(log) \in Nat
         /\ Delivered \in Seq(Packets)
         /\ Len(Delivered) = Len(log)
<1>1. log \in Seq(Ref) /\ [pkt |-> p, addr |-> addr] \in Ref /\ Len(log) \in Nat
  BY LenProperties DEF TypeOK, Ref
<1>2. /\ Len(log') = Len(log) + 1
      /\ \A i \in 1..Len(log) : log'[i] = log[i]
      /\ log'[Len(log) + 1] = [pkt |-> p, addr |-> addr]
  BY <1>1, AppendProperties
<1>3. \A i \in 1..Len(log) : log[i].pkt \in Packets
  <2>1. \A i \in 1..Len(log) : log[i] \in Ref
    BY <1>1, ElementOfSeq
  <2> QED
    BY <2>1 DEF Ref
<1>4. Delivered \in Seq(Packets) /\ Len(Delivered) = Len(log)
  BY <1>1, <1>3 DEF Delivered
<1>5. /\ Append(Delivered, p) \in Seq(Packets)
      /\ Len(Append(Delivered, p)) = Len(log) + 1
      /\ \A i \in 1..Len(log) : Append(Delivered, p)[i] = Delivered[i]
      /\ Append(Delivered, p)[Len(log) + 1] = p
  BY <1>4, AppendProperties
<1>6. Delivered' \in Seq(Packets) /\ Len(Delivered') = Len(log) + 1
  BY <1>1, <1>2, <1>3 DEF Delivered
<1>7. \A i \in 1..(Len(log) + 1) : Delivered'[i] = Append(Delivered, p)[i]
  <2> SUFFICES ASSUME NEW i \in 1..(Len(log) + 1)
               PROVE  Delivered'[i] = Append(Delivered, p)[i]
    BY Zenon
  <2>1. Delivered'[i] = log'[i].pkt
    BY <1>1, <1>2, Zenon DEF Delivered
  <2>2. CASE i \in 1..Len(log)
    BY <1>2, <1>5, <2>1, <2>2, Zenon DEF Delivered
  <2>3. CASE i = Len(log) + 1
    BY <1>2, <1>5, <2>1, <2>3
  <2>4. Len(log) \in Nat
    BY <1>1
  <2>5. i \in 1..Len(log) \/ i = Len(log) + 1
    BY <2>4
  <2> QED
    BY <2>2, <2>3, <2>5, Zenon
<1> QED
  BY <1>1, <1>2, <1>4, <1>5, <1>6, <1>7, SeqEqual, Zenon

\* A step that publishes nothing, gives nothing up and does not join a session.
Quiet == UNCHANGED <<gapVars, log>>

\* handle_payload joins, delivers, skips ahead or leaves the feed alone, and
\* keeps JoinInv.
LEMMA HandleFeed ==
  ASSUME TypeOK, JoinInv, NEW p, NEW a, HandleContext(p, a), handle_payload(p, a)
  PROVE  JoinInv' /\ (Quiet \/ Feed!Next)
<1>1. p \in Packets /\ Expected(p) \in Nat /\ Start[p] \in Nat /\ Start[p + 1] \in Nat
  BY ExpectedType, StartFacts DEF HandleContext
<1>2. gap_session_set \in BOOLEAN /\ log \in Seq(Ref) /\ Len(log) \in Nat
  BY LenProperties DEF TypeOK
<1>3. a = NoFrame => gap_session_set
  BY FrameFacts DEF HandleContext, JoinInv
<1>5. ASSUME gap_session_set, Discard(p, a)
      PROVE  JoinInv' /\ Quiet
  <2>1. gap_session_set' /\ UNCHANGED <<gap_session_set, gap_expected_seq, gap_lost, log, pc>>
    BY <1>5 DEF Discard, SetExpected, Expected
  <2> QED
    BY <1>5, <2>1 DEF JoinInv, Quiet, gapVars
<1>6. ASSUME NEW addr \in Frames \cup Slots, PublishAndDrain(p, addr), Start[p] = Expected(p),
             UNCHANGED gap_lost
      PROVE  JoinInv' /\ Feed!Next
  <2>1. /\ Delivered' = Append(Delivered, p)
        /\ Len(log') = Len(log) + 1
        /\ Delivered \in Seq(Packets)
        /\ Len(Delivered) = Len(log)
    BY <1>1, <1>6, DeliveredAppend DEF PublishAndDrain
  <2>2. gap_session_set' = TRUE /\ gap_expected_seq' = Start[p + 1] /\ gap_lost' = gap_lost
    BY <1>6 DEF PublishAndDrain, SetExpected
  <2>3. JoinInv'
    BY <1>2, <2>1, <2>2 DEF JoinInv
  <2>4. CASE gap_session_set
    <3>1. Delivered # <<>>
      BY <1>2, <2>1, <2>4 DEF JoinInv
    <3>2. gap_expected_seq = Start[p]
      BY <1>6, <2>4 DEF Expected
    <3>3. Feed!Deliver(p)
      BY <2>1, <2>2, <3>1, <3>2, Zenon DEF Feed!Deliver, Delivered
    <3> QED
      BY <1>1, <2>3, <3>3 DEF Feed!Next, Packets
  <2>5. CASE ~gap_session_set
    <3>1. Len(log) = 0
      BY <1>2, <2>5 DEF JoinInv
    <3>2. Delivered = <<>>
      BY <2>1, <3>1, EmptySeq
    <3>3. Delivered' = <<p>>
      BY <2>1, <3>2
    <3>4. Feed!Join(p)
      BY <2>2, <3>2, <3>3 DEF Feed!Join, Delivered
    <3> QED
      BY <1>1, <2>3, <3>4 DEF Feed!Next, Packets
  <2> QED
    BY <1>2, <2>4, <2>5
<1>7. CASE LateOrDuplicate(p, a)
  <2>1. gap_session_set
    BY <1>1, <1>2, <1>7 DEF LateOrDuplicate, Expected
  <2> QED
    BY <1>5, <1>7, <2>1 DEF LateOrDuplicate
<1>8. CASE InOrderLive(p, a)
  <2>1. CASE RingFull
    <3>1. gap_session_set
      BY <2>1, EmptyRingNotFull DEF JoinInv
    <3> QED
      BY <1>5, <1>8, <2>1, <3>1, Zenon DEF InOrderLive
  <2>2. CASE ~RingFull
    <3>1. a \in Frames
      BY <1>8 DEF InOrderLive, HandleContext
    <3> QED
      BY <1>6, <1>8, <2>2, <3>1, Zenon DEF InOrderLive
  <2> QED
    BY <2>1, <2>2
<1>9. CASE InOrderReply(p, a)
  <2>1. gap_session_set
    BY <1>3, <1>9 DEF InOrderReply
  <2>2. CASE Discard(p, a)
    BY <1>5, <2>1, <2>2
  <2>3. CASE ~Discard(p, a)
    <3>1. PICK i \in reorder_alloc_slot : PublishAndDrain(p, i) /\ UNCHANGED gap_lost
      BY <1>9, <2>3 DEF InOrderReply
    <3>2. i \in Slots
      BY DEF reorder_alloc_slot
    <3>3. Start[p] = Expected(p)
      BY <1>9 DEF InOrderReply
    <3> QED
      BY <1>6, <3>1, <3>2, <3>3, Zenon
  <2> QED
    BY <2>2, <2>3
<1>10. CASE AlreadyBuffered(p, a)
  <2>1. gap_session_set
    BY <1>1, <1>2, <1>10 DEF AlreadyBuffered, Expected
  <2> QED
    BY <1>5, <1>10, <2>1 DEF AlreadyBuffered
<1>11. CASE BufferFuture(p, a)
  <2>1. gap_session_set
    BY <1>1, <1>2, <1>11 DEF BufferFuture, Expected
  <2>2. UNCHANGED <<gap_session_set, gap_expected_seq, gap_lost, log, pc>>
    BY <1>2, <1>11, <2>1, Zenon DEF BufferFuture, SetExpected, Expected
  <2> QED
    BY <2>1, <2>2, Zenon DEF JoinInv, Quiet, gapVars
<1>12. CASE PoolFull(p, a)
  <2>1. gap_session_set
    BY <1>1, <1>2, <1>12 DEF PoolFull, Expected
  <2>2. CASE ~ \E i \in reorder_find_min(Expected(p)) : Start[pool[i]] > Expected(p)
    BY <1>5, <1>12, <2>1, <2>2, Zenon DEF PoolFull
  <2>3. CASE \E i \in reorder_find_min(Expected(p)) : Start[pool[i]] > Expected(p)
    <3>1. PICK j \in reorder_find_min(Expected(p)) : Start[pool[j]] > Expected(p)
      BY <2>3, Zenon
    <3>2. PICK i \in reorder_find_min(Expected(p)) :
            /\ gap_lost' = gap_lost + (Start[pool[i]] - Expected(p))
            /\ SetExpected(Start[pool[i]])
            /\ UNCHANGED log
      BY <1>12, <2>3 DEF PoolFull
    <3>3. Start[pool[i]] > Expected(p) /\ i \in Pending(Expected(p))
      BY <1>1, <3>1, FindMinUnique
    <3>4. pool[i] \in Packets
      BY <1>1, <3>3, PendingFacts, Zenon
    <3>5. Expected(p) = gap_expected_seq
      BY <2>1 DEF Expected
    <3>6. Delivered # <<>>
      <4>1. Len(log) > 0
        BY <1>2, <2>1 DEF JoinInv
      <4>2. 1 \in DOMAIN Delivered
        BY <1>2, <4>1 DEF Delivered
      <4> QED
        BY <4>2
    <3>7. Delivered' = Delivered
      BY <3>2 DEF Delivered
    <3>8. Feed!SkipTo(pool[i])
      BY <1>1, <3>2, <3>3, <3>5, <3>6, <3>7, Zenon DEF Feed!SkipTo, SetExpected, Delivered
    <3>9. JoinInv'
      BY <1>2, <2>1, <3>2 DEF JoinInv, SetExpected
    <3> QED
      BY <3>4, <3>8, <3>9, Zenon DEF Feed!Next, Packets
  <2> QED
    BY <2>2, <2>3, Zenon
<1> QED
  BY <1>7, <1>8, <1>9, <1>10, <1>11, <1>12, Zenon DEF handle_payload

LEMMA FeedStep == TypeOK /\ JoinInv /\ [Next]_vars => JoinInv' /\ (Quiet \/ Feed!Next)
<1> SUFFICES ASSUME TypeOK, JoinInv, [Next]_vars
             PROVE  JoinInv' /\ (Quiet \/ Feed!Next)
  OBVIOUS
<1> USE DEF JoinInv, Quiet, gapVars, netVars
<1>0. gap_session_set \in BOOLEAN /\ Len(log) \in Nat
  BY LenProperties DEF TypeOK
<1>1. CASE RecycleConsumed
  BY <1>1 DEF RecycleConsumed
<1>2. CASE afxdp_recv_burst
  BY <1>2 DEF afxdp_recv_burst, ringVars
<1>3. CASE poll_rewinder
  <2>1. PICK p \in replies : handle_payload(p, NoFrame)
    BY <1>3 DEF poll_rewinder
  <2>2. HandleContext(p, NoFrame)
    BY <1>3, <2>1, Zenon DEF TypeOK, poll_rewinder, HandleContext
  <2> QED
    BY <2>1, <2>2, HandleFeed
<1>4. CASE Nudge
  <2>1. ~gap_session_set => UNCHANGED netVars
    BY <1>4 DEF Nudge
  <2> QED
    BY <1>4, <2>1 DEF Nudge, ringVars
<1>5. CASE StartBurst
  BY <1>5 DEF StartBurst, ringVars
<1>6. CASE HandleLive
  <2>1. Head(burst) \in Descriptor
    BY <1>6, HeadTailProperties DEF TypeOK, HandleLive
  <2>2. HandleContext(Head(burst).pkt, Head(burst).frame)
    BY <1>6, <2>1 DEF HandleLive, HandleContext, Descriptor
  <2> QED
    BY <1>6, <2>2, HandleFeed, Zenon DEF HandleLive
<1>7. CASE HandleOther
  BY <1>7 DEF HandleOther, ringVars
<1>8. CASE drain_pending
  <2>0. gap_session_set /\ gap_session_set' = gap_session_set /\ gap_lost' = gap_lost
    BY <1>8 DEF drain_pending
  <2>1. CASE UNCHANGED <<gap_expected_seq, log>>
    BY <1>8, <2>0, <2>1 DEF drain_pending
  <2>2. CASE ~ UNCHANGED <<gap_expected_seq, log>>
    <3>1. PICK i \in reorder_find(gap_expected_seq, gap_expected_seq) :
               /\ log' = Append(log, [pkt |-> pool[i], addr |-> i])
               /\ gap_expected_seq' = gap_expected_seq + Count(pool[i])
      BY <1>8, <2>2 DEF drain_pending
    <3>2. gap_expected_seq \in Nat
      BY Zenon DEF TypeOK
    <3>3. i \in Slots /\ pool[i] \in Packets /\ Start[pool[i]] = gap_expected_seq
      BY <3>2, PendingFacts DEF reorder_find
    <3>4. gap_expected_seq' = Start[pool[i] + 1]
      BY <3>1, <3>3, StartFacts DEF Count
    <3>5. /\ Delivered' = Append(Delivered, pool[i])
          /\ Len(log') = Len(log) + 1
          /\ Len(Delivered) = Len(log)
      BY <3>1, <3>3, DeliveredAppend, Zenon
    <3>6. Delivered # <<>>
      BY <1>0, <2>0, <3>5
    <3>7. PICK q \in Packets : q = pool[i]
      BY <3>3
    <3>8. Feed!Deliver(q)
      BY <2>0, <3>3, <3>4, <3>5, <3>6, <3>7, Zenon DEF Feed!Deliver, Delivered
    <3>9. JoinInv' /\ Feed!Next
      BY <1>0, <2>0, <3>5, <3>8 DEF Feed!Next, Packets
    <3> QED
      BY <3>9
  <2> QED
    BY <2>1, <2>2
<1>9. CASE RecycleDrops
  BY <1>9 DEF RecycleDrops, ringVars
<1>10. CASE Stop
  BY <1>10 DEF Stop
<1>11. CASE afxdp_close
  BY <1>11 DEF afxdp_close, ringVars
<1>12. CASE Consume
  BY <1>12 DEF Consume
<1>13. CASE RetransmitIntervalPasses
  BY <1>13 DEF RetransmitIntervalPasses, ringVars
<1>14. ASSUME NEW f \in fq, NEW p \in Payloads, KernelReceive(f, p)
       PROVE  JoinInv' /\ Quiet
  BY <1>14 DEF KernelReceive, ringVars
<1>15. ASSUME NEW req \in requests, NEW got \in SUBSET Replay(req), Answer(req, got)
       PROVE  JoinInv' /\ Quiet
  BY <1>15 DEF Answer, ringVars
<1>16. CASE UNCHANGED vars
  BY <1>16 DEF vars, ringVars
<1> QED
  BY <1>1, <1>2, <1>3, <1>4, <1>5, <1>6, <1>7, <1>8, <1>9, <1>10, <1>11, <1>12, <1>13,
     <1>14, <1>15, <1>16, ZenonT(30) DEF Next, Receiver, Network

\* Whatever the network loses, delays, duplicates or reorders, the dispatcher is
\* handed the packets in sequence order, each at most once, and every message
\* passed over is counted: the receiver implements OrderedFeed.
THEOREM ReceiverImplementsOrderedFeed == Spec => FeedSpec
<1>1. Init => JoinInv /\ Feed!Init
  BY DEF Init, JoinInv, Feed!Init
<1>2. TypeOK /\ JoinInv /\ [Next]_vars => JoinInv'
  BY FeedStep
<1>3. TypeOK /\ JoinInv /\ [Next]_vars => [Feed!Next]_(Feed!vars)
  <2>1. Quiet => UNCHANGED Feed!vars
    BY DEF Quiet, gapVars, Feed!vars
  <2> QED
    BY <2>1, FeedStep
<1> QED
  BY <1>1, <1>2, <1>3, TypeCorrect, PTL DEF Spec, FeedSpec, Feed!Spec

(***************************************************************************)
(* The ring and the UMEM frames: which references the ring holds, and how  *)
(* each operation moves frames between their owners.                       *)
(***************************************************************************)

\* The frames and slots the ring still refers to.
RefAddrs == {log[i].addr : i \in Unrecycled}

\* The sets of FrameOwnership have no frame in common and hold all frames.
OwnedApart(F, Q, R, B, D, P) ==
  /\ F \cap Q = {}
  /\ R \cap (F \cup Q) = {}
  /\ B \cap (F \cup Q \cup R) = {}
  /\ D \cap (F \cup Q \cup R \cup B) = {}
  /\ P \cap (F \cup Q \cup R \cup B \cup D) = {}
  /\ F \cup Q \cup R \cup B \cup D \cup P = Frames

\* The kernel fills a frame of the fill queue.
LEMMA OwnedFill ==
  ASSUME NEW F, NEW Q, NEW R, NEW B, NEW D, NEW P, OwnedApart(F, Q, R, B, D, P), NEW f \in Q
  PROVE  OwnedApart(F, Q \ {f}, R \cup {f}, B, D, P)
BY DEF OwnedApart

\* A packet of the burst is dropped.
LEMMA OwnedDrop ==
  ASSUME NEW F, NEW Q, NEW R, NEW B, NEW D, NEW P, OwnedApart(F, Q, R, B, D, P), NEW f \in B
  PROVE  OwnedApart(F, Q, R, B \ {f}, D \cup {f}, P)
BY DEF OwnedApart

\* Numbers in order.
LEMMA LessTrans ==
  ASSUME NEW a \in Nat, NEW b \in Nat, NEW c \in Nat, a < b, c >= b
  PROVE  a < c
OBVIOUS

LEMMA AtLeastTrans ==
  ASSUME NEW a \in Nat, NEW b \in Nat, NEW c \in Nat, a >= b, c < b
  PROVE  a >= c
OBVIOUS

LEMMA LessOrAtLeast ==
  ASSUME NEW a \in Nat, NEW b \in Nat
  PROVE  (a < b \/ a >= b) /\ ~(a < b /\ a >= b) /\ (a < b => b >= a)
OBVIOUS

\* Ownership of slots, with the empty pool of a receiver that has not joined.
SlotInv ==
  /\ SlotOwnership
  /\ NothingDeliverableWaits
  /\ ~gap_session_set => \A s \in Slots : pool[s] = NoPacket

\* The inductive invariant.  A new burst is received only when the last one has
\* been handled; without that its frames would be lost.
OwnInv ==
  /\ TypeOK
  /\ JoinInv
  /\ FrameOwnership
  /\ SlotInv
  /\ pc \in {"recycle", "recv"} => burst = <<>>

(***************************************************************************)
(* The ring.                                                               *)
(***************************************************************************)

\* A published reference is a packet and an address.
LEMMA LogFacts ==
  ASSUME TypeOK
  PROVE  /\ Len(log) \in Nat
         /\ recycle_read \in Nat
         /\ next_read \in Nat
         /\ recycle_read <= next_read
         /\ next_read <= Len(log)
         /\ \A i \in Unrecycled : /\ log[i].pkt \in Packets
                                  /\ log[i].addr \in Frames \cup Slots
                                  /\ i \in 1..Len(log)
<1>1. log \in Seq(Ref) /\ Len(log) \in Nat
  BY LenProperties DEF TypeOK
<1>2. next_read \in 0..Len(log) /\ recycle_read \in 0..next_read
  BY DEF TypeOK
<1>3. \A i \in Unrecycled : i \in 1..Len(log)
  BY <1>1, <1>2 DEF Unrecycled
<1>4. \A i \in Unrecycled : log[i] \in Ref
  BY <1>1, <1>3, ElementOfSeq
<1>5. \A i \in Unrecycled : log[i].pkt \in Packets /\ log[i].addr \in Frames \cup Slots
  BY <1>4 DEF Ref
<1> QED
  BY <1>1, <1>2, <1>3, <1>5

\* Entries that are not recycled use distinct frames and slots, so there are at
\* most as many of them as there are frames and slots.
LEMMA RingBound ==
  ASSUME TypeOK, DistinctRefs
  PROVE  RingNeverLapped
<1> DEFINE f == [i \in Unrecycled |-> log[i].addr]
           T == Frames \cup Slots
<1>1. IsFiniteSet(Slots) /\ Cardinality(Slots) = ReorderMax
  <2>1. IsFiniteSet(1..ReorderMax) /\ Cardinality(1..ReorderMax) = IF 1 > ReorderMax THEN 0 ELSE ReorderMax - 1 + 1
    BY SizeAssumption, FS_Interval
  <2> QED
    BY <2>1, SizeAssumption DEF Slots
<1>2. IsFiniteSet(T) /\ Cardinality(T) \in Nat /\ Cardinality(T) <= Cardinality(Frames) + ReorderMax
  <2>1. /\ IsFiniteSet(Frames \cup Slots)
        /\ Cardinality(Frames \cup Slots)
             = Cardinality(Frames) + Cardinality(Slots) - Cardinality(Frames \cap Slots)
    BY <1>1, FrameAssumption, FS_Union
  <2>2. IsFiniteSet(Frames \cap Slots)
    BY <1>1, FS_Subset
  <2>3. Cardinality(Frames) \in Nat /\ Cardinality(Frames \cap Slots) \in Nat
        /\ Cardinality(Frames \cup Slots) \in Nat
    BY <2>1, <2>2, FrameAssumption, FS_CardinalityType
  <2> QED
    BY <1>1, <2>1, <2>3, SizeAssumption
<1>3. f \in Injection(Unrecycled, T)
  <2>1. f \in [Unrecycled -> T]
    BY LogFacts
  <2>2. \A i, j \in Unrecycled : f[i] = f[j] => i = j
    BY DEF DistinctRefs
  <2> HIDE DEF f, T
  <2> QED
    BY <2>1, <2>2 DEF Injection, IsInjective
<1>4. Cardinality(Unrecycled) <= Cardinality(T)
  BY <1>2, <1>3, FS_Injection
<1>5. Cardinality(Unrecycled) = Len(log) - recycle_read
  <2>1. Cardinality((recycle_read + 1)..Len(log))
          = IF recycle_read + 1 > Len(log) THEN 0 ELSE Len(log) - (recycle_read + 1) + 1
    <3>1. recycle_read + 1 \in Int /\ Len(log) \in Int
      BY LogFacts
    <3> QED
      BY <3>1, FS_Interval
  <2> QED
    BY <2>1, LogFacts DEF Unrecycled
<1>6. Cardinality(Frames) \in Nat
  BY FrameAssumption, FS_CardinalityType
<1> QED
  BY <1>2, <1>4, <1>5, <1>6, LogFacts, SizeAssumption DEF RingNeverLapped

\* So the ring is never full, and a place read back still holds its entry.
LEMMA NotLapped ==
  ASSUME TypeOK, DistinctRefs
  PROVE  /\ ~RingFull
         /\ \A i \in Unrecycled : Data(i) = log[i]
<1>1. Len(log) - recycle_read < RingSize
  <2>1. Cardinality(Frames) \in Nat
    BY FrameAssumption, FS_CardinalityType
  <2> QED
    BY <2>1, RingBound, RingAssumption, SizeAssumption, LogFacts DEF RingNeverLapped
<1>2. ~RingFull
  BY <1>1, LogFacts, SizeAssumption DEF RingFull
<1>3. \A i \in Unrecycled : Len(log) < i + RingSize
  BY <1>1, LogFacts, SizeAssumption DEF Unrecycled
<1> QED
  BY <1>2, <1>3 DEF Data

\* Publishing adds one entry and leaves the others in place.
LEMMA PublishRefs ==
  ASSUME TypeOK, DistinctRefs, NEW p \in Packets, NEW addr \in Frames \cup Slots,
         addr \notin RefAddrs, recycle_read' = recycle_read,
         log' = Append(log, [pkt |-> p, addr |-> addr])
  PROVE  /\ Unrecycled' = Unrecycled \cup {Len(log) + 1}
         /\ \A i \in Unrecycled : log'[i] = log[i]
         /\ log'[Len(log) + 1] = [pkt |-> p, addr |-> addr]
         /\ DistinctRefs'
         /\ RefAddrs' = RefAddrs \cup {addr}
<1> DEFINE n == Len(log) + 1
<1>1. log \in Seq(Ref) /\ [pkt |-> p, addr |-> addr] \in Ref /\ Len(log) \in Nat
  BY LenProperties, Zenon DEF TypeOK, Ref
<1>2. /\ Len(log') = n
      /\ \A i \in 1..Len(log) : log'[i] = log[i]
      /\ log'[n] = [pkt |-> p, addr |-> addr]
  BY <1>1, AppendProperties
<1>3. Unrecycled' = Unrecycled \cup {n}
  <2>1. Unrecycled' = (recycle_read + 1)..n
    BY <1>2 DEF Unrecycled
  <2>2. recycle_read \in Nat /\ recycle_read <= Len(log)
    BY LogFacts
  <2>3. Unrecycled = (recycle_read + 1)..Len(log)
    BY DEF Unrecycled
  <2>4. PICK r \in Nat, l \in Nat : r = recycle_read /\ l = Len(log) /\ r <= l
    BY <1>1, <2>2, Zenon
  <2>5. (r + 1)..(l + 1) = ((r + 1)..l) \cup {l + 1}
    BY <2>4
  <2> QED
    BY <2>1, <2>3, <2>4, <2>5, Zenon
<1>4. \A i \in Unrecycled : log'[i] = log[i]
  BY <1>2, LogFacts
<1>5. log'[n].addr = addr
  BY <1>2
<1>6. \A i \in Unrecycled : log[i].addr # addr
  BY DEF RefAddrs
<1> HIDE DEF n
<1>7. DistinctRefs'
  <2> SUFFICES ASSUME NEW i \in Unrecycled', NEW j \in Unrecycled', log'[i].addr = log'[j].addr
               PROVE  i = j
    BY Zenon DEF DistinctRefs
  <2>1. CASE i \in Unrecycled /\ j \in Unrecycled
    BY <1>4, <2>1, Zenon DEF DistinctRefs
  <2>2. CASE i = n \/ j = n
    BY <1>3, <1>4, <1>5, <1>6, <2>2, Zenon
  <2> QED
    BY <1>3, <2>1, <2>2
<1>8. RefAddrs' = RefAddrs \cup {addr}
  <2>1. \A x : x \in RefAddrs' <=> \E i \in Unrecycled' : x = log'[i].addr
    BY Zenon DEF RefAddrs
  <2>2. \A x : x \in RefAddrs <=> \E i \in Unrecycled : x = log[i].addr
    BY DEF RefAddrs
  <2>3. \A x : x \in RefAddrs' <=> x \in RefAddrs \/ x = addr
    <3> TAKE x
    <3>1. ASSUME NEW i \in Unrecycled', x = log'[i].addr
          PROVE  x \in RefAddrs \/ x = addr
      BY <1>3, <1>4, <1>5, <2>2, <3>1, Zenon
    <3>2. ASSUME NEW i \in Unrecycled, x = log[i].addr
          PROVE  x \in RefAddrs'
      BY <1>3, <1>4, <2>1, <3>2, Zenon
    <3>3. addr \in RefAddrs'
      BY <1>3, <1>5, <2>1, Zenon
    <3> QED
      BY <2>1, <2>2, <3>1, <3>2, <3>3, Zenon
  <2> QED
    BY <2>3
<1> QED
  BY <1>2, <1>3, <1>4, <1>7, <1>8, Zenon DEF n

\* Recycling takes the consumed entries and only those.
LEMMA RecycleRefs ==
  ASSUME TypeOK, DistinctRefs, recycle_consumed_frames, UNCHANGED <<log, next_read>>
  PROVE  /\ Unrecycled' \subseteq Unrecycled
         /\ DistinctRefs'
         /\ ConsumedAddrs \subseteq RefAddrs
         /\ RefAddrs' = RefAddrs \ ConsumedAddrs
<1> DEFINE C == (recycle_read + 1)..next_read
<1>1. Unrecycled' = (next_read + 1)..Len(log)
  BY DEF Unrecycled, recycle_consumed_frames
<1>2. Unrecycled = C \cup Unrecycled' /\ C \cap Unrecycled' = {}
  <2>1. /\ recycle_read \in Nat /\ next_read \in Nat /\ Len(log) \in Nat
        /\ recycle_read <= next_read /\ next_read <= Len(log)
    BY LogFacts
  <2>2. Unrecycled = (recycle_read + 1)..Len(log)
    BY DEF Unrecycled
  <2> QED
    BY <1>1, <2>1, <2>2
<1>3. ConsumedAddrs = {log[i].addr : i \in C}
  BY <1>2, NotLapped DEF ConsumedAddrs
<1>4. DistinctRefs'
  BY <1>2, Zenon DEF DistinctRefs
<1>5. RefAddrs' = {log[i].addr : i \in Unrecycled'}
  BY DEF RefAddrs
<1> HIDE DEF C
<1>6. RefAddrs' = RefAddrs \ ConsumedAddrs
  BY <1>2, <1>3, <1>5 DEF RefAddrs, DistinctRefs
<1> QED
  BY <1>2, <1>3, <1>4, <1>6, Zenon DEF RefAddrs

(***************************************************************************)
(* The frames of the rx ring and of the burst.                             *)
(***************************************************************************)

\* Handling the head of a burst takes its frame out of the burst.
LEMMA TailFrames ==
  ASSUME NEW s \in Seq(Descriptor), s # <<>>, DistinctFrames(s)
  PROVE  /\ Head(s).frame \in FramesOf(s)
         /\ FramesOf(Tail(s)) = FramesOf(s) \ {Head(s).frame}
         /\ DistinctFrames(Tail(s))
<1> DEFINE n == Len(s)
           t == Tail(s)
<1>1. n \in Nat /\ n >= 1 /\ Head(s) = s[1]
  BY LenProperties, EmptySeq, HeadTailProperties
<1>2. Len(t) = n - 1 /\ \A i \in 1..Len(t) : t[i] = s[i + 1]
  BY HeadTailProperties
<1> HIDE DEF n, t
<1>3. DistinctFrames(t)
  <2> SUFFICES ASSUME NEW i \in 1..Len(t), NEW j \in 1..Len(t), t[i].frame = t[j].frame
               PROVE  i = j
    BY DEF DistinctFrames
  <2>1. i + 1 \in 1..n /\ j + 1 \in 1..n
    BY <1>1, <1>2
  <2>2. s[i + 1].frame = s[j + 1].frame
    BY <1>2
  <2>3. i + 1 = j + 1
    BY <2>1, <2>2 DEF DistinctFrames, n
  <2> QED
    BY <2>3
<1>4. \A i \in 1..Len(t) : t[i].frame \in FramesOf(s) \ {s[1].frame}
  <2> TAKE i \in 1..Len(t)
  <2>1. i + 1 \in 1..n /\ 1 \in 1..n /\ i + 1 # 1
    BY <1>1, <1>2
  <2>2. s[i + 1].frame # s[1].frame
    BY <2>1 DEF DistinctFrames, n
  <2> QED
    BY <1>2, <2>1, <2>2 DEF FramesOf, n
<1>5. \A i \in 1..n : i # 1 => s[i].frame \in FramesOf(t)
  <2> SUFFICES ASSUME NEW i \in 1..n, i # 1
               PROVE  s[i].frame \in FramesOf(t)
    OBVIOUS
  <2>1. i - 1 \in 1..Len(t) /\ (i - 1) + 1 = i
    BY <1>1, <1>2
  <2>2. t[i - 1] = s[i]
    BY <1>2, <2>1
  <2> QED
    BY <2>1, <2>2 DEF FramesOf
<1>6. FramesOf(t) = FramesOf(s) \ {s[1].frame}
  <2>1. FramesOf(t) \subseteq FramesOf(s) \ {s[1].frame}
    BY <1>4 DEF FramesOf
  <2>2. FramesOf(s) \ {s[1].frame} \subseteq FramesOf(t)
    BY <1>5 DEF FramesOf, n
  <2> QED
    BY <2>1, <2>2, Zenon
<1>7. s[1].frame \in FramesOf(s)
  BY <1>1 DEF FramesOf, n
<1> QED
  BY <1>1, <1>3, <1>6, <1>7, Zenon DEF t

\* The kernel adds a frame to the rx ring.
LEMMA AppendFrames ==
  ASSUME NEW s \in Seq(Descriptor), NEW d \in Descriptor,
         DistinctFrames(s), d.frame \notin FramesOf(s)
  PROVE  /\ FramesOf(Append(s, d)) = FramesOf(s) \cup {d.frame}
         /\ DistinctFrames(Append(s, d))
<1> DEFINE n == Len(s)
           t == Append(s, d)
<1>1. n \in Nat /\ Len(t) = n + 1 /\ t[n + 1] = d /\ \A i \in 1..n : t[i] = s[i]
  BY LenProperties, AppendProperties
<1> HIDE DEF t
<1>2. 1..Len(t) = (1..n) \cup {n + 1} /\ n + 1 \notin 1..n
  BY <1>1
<1>3. \A i \in 1..n : s[i].frame # d.frame
  BY DEF FramesOf
<1> HIDE DEF n
<1>4. DistinctFrames(t)
  <2> SUFFICES ASSUME NEW i \in 1..Len(t), NEW j \in 1..Len(t), t[i].frame = t[j].frame
               PROVE  i = j
    BY DEF DistinctFrames
  <2>1. CASE i \in 1..n /\ j \in 1..n
    BY <1>1, <2>1, Zenon DEF DistinctFrames, n
  <2>2. CASE i = n + 1 \/ j = n + 1
    BY <1>1, <1>2, <1>3, <2>2, Zenon
  <2> QED
    BY <1>2, <2>1, <2>2, Zenon
<1>5. FramesOf(t) \subseteq FramesOf(s) \cup {d.frame}
  BY <1>1, <1>2 DEF FramesOf, n
<1>6. FramesOf(s) \cup {d.frame} \subseteq FramesOf(t)
  <2>1. \A i \in 1..n : s[i].frame \in FramesOf(t)
    BY <1>1, <1>2, Zenon DEF FramesOf
  <2>2. d.frame \in FramesOf(t)
    BY <1>1, <1>2 DEF FramesOf
  <2> QED
    BY <2>1, <2>2, Zenon DEF FramesOf, n
<1> QED
  BY <1>4, <1>5, <1>6, Zenon DEF t

\* Receiving a burst splits the rx ring.
LEMMA SplitFrames ==
  ASSUME NEW s \in Seq(Descriptor), NEW n \in 0..Len(s), DistinctFrames(s)
  PROVE  LET b == SubSeq(s, 1, n)
             r == SubSeq(s, n + 1, Len(s))
         IN  /\ DistinctFrames(b)
             /\ DistinctFrames(r)
             /\ FramesOf(b) \cup FramesOf(r) = FramesOf(s)
             /\ FramesOf(b) \cap FramesOf(r) = {}
<1> DEFINE b == SubSeq(s, 1, n)
           r == SubSeq(s, n + 1, Len(s))
           m == Len(s)
<1>1. m \in Nat /\ n \in Nat /\ n <= m
  BY LenProperties
<1>2. Len(b) = n /\ \A i \in 1..n : b[i] = s[i]
  BY <1>1, SubSeqProperties
<1>3. Len(r) = m - n /\ \A i \in 1..(m - n) : r[i] = s[n + i]
  BY <1>1, SubSeqProperties
<1> HIDE DEF b, r, m
<1>4. \A i \in 1..n : i \in 1..m
  BY <1>1
<1>5. \A i \in 1..(m - n) : n + i \in 1..m /\ n + i \notin 1..n
  BY <1>1
<1>6. \A i \in 1..m : i \in 1..n \/ (i - n \in 1..(m - n) /\ n + (i - n) = i)
  BY <1>1
<1>7. DistinctFrames(b)
  BY <1>2, <1>4, Zenon DEF DistinctFrames, m
<1>8. DistinctFrames(r)
  <2> SUFFICES ASSUME NEW i \in 1..(m - n), NEW j \in 1..(m - n), s[n + i].frame = s[n + j].frame
               PROVE  i = j
    BY <1>3 DEF DistinctFrames
  <2>1. n + i = n + j
    BY <1>5 DEF DistinctFrames, m
  <2> QED
    BY <1>1, <2>1
<1>9. FramesOf(b) \subseteq FramesOf(s) /\ FramesOf(r) \subseteq FramesOf(s)
  BY <1>2, <1>3, <1>4, <1>5 DEF FramesOf, m
<1>10. FramesOf(s) \subseteq FramesOf(b) \cup FramesOf(r)
  <2> SUFFICES ASSUME NEW i \in 1..m
               PROVE  s[i].frame \in FramesOf(b) \cup FramesOf(r)
    BY Zenon DEF FramesOf, m
  <2>1. CASE i \in 1..n
    BY <1>2, <2>1 DEF FramesOf
  <2>2. CASE i - n \in 1..(m - n) /\ n + (i - n) = i
    <3>1. r[i - n] = s[i]
      BY <1>3, <2>2, Zenon
    <3> QED
      BY <1>3, <2>2, <3>1, Zenon DEF FramesOf
  <2> QED
    BY <1>6, <2>1, <2>2, Zenon
<1>11. FramesOf(b) \cap FramesOf(r) = {}
  <2> SUFFICES ASSUME NEW i \in 1..n, NEW j \in 1..(m - n), s[i].frame = s[n + j].frame
               PROVE  FALSE
    BY <1>2, <1>3 DEF FramesOf
  <2>1. i = n + j
    BY <1>4, <1>5, Zenon DEF DistinctFrames, m
  <2> QED
    BY <1>5, <2>1
<1> QED
  BY <1>7, <1>8, <1>9, <1>10, <1>11, Zenon DEF b, r, m

(***************************************************************************)
(* Frames: every step keeps them in one place.                             *)
(***************************************************************************)

\* Refilling the fill ring only moves frames from the stack to it.
LEMMA RefillFrames ==
  ASSUME NEW fr, fr \cap fq = {}, afxdp_refill_fq(fr)
  PROVE  free' \cap fq' = {} /\ free' \cup fq' = fr \cup fq
  BY DEF afxdp_refill_fq

LEMMA RecycleFrames ==
  ASSUME NEW R, R \cap (free \cup fq) = {}, free \cap fq = {}, afxdp_recycle(R)
  PROVE  free' \cap fq' = {} /\ free' \cup fq' = free \cup fq \cup R
<1>1. CASE R = {}
  BY <1>1 DEF afxdp_recycle
<1>2. CASE R # {}
  <2>1. afxdp_refill_fq(free \cup R)
    BY <1>2 DEF afxdp_recycle
  <2>2. (free \cup R) \cap fq = {}
    OBVIOUS
  <2>3. free' \cap fq' = {} /\ free' \cup fq' = (free \cup R) \cup fq
    BY <2>1, <2>2, RefillFrames, Zenon
  <2> QED
    BY <2>3
<1> QED
  BY <1>1, <1>2

\* The frame at hand is in the burst, so no entry of the ring refers to it.
LEMMA FrameAtHand ==
  ASSUME OwnInv, NEW p, NEW a, HandleContext(p, a), a # NoFrame
  PROVE  /\ a \in Frames
         /\ a \in FramesOf(burst)
         /\ a \notin RefAddrs
         /\ burst \in Seq(Descriptor)
         /\ FramesOf(Tail(burst)) = FramesOf(burst) \ {a}
         /\ DistinctFrames(Tail(burst))
<1>1. a \in Frames /\ burst # <<>> /\ Head(burst).frame = a
  BY DEF HandleContext
<1>2. burst \in Seq(Descriptor) /\ DistinctFrames(burst)
  BY DEF OwnInv, TypeOK, FrameOwnership
<1>3. /\ a \in FramesOf(burst)
      /\ FramesOf(Tail(burst)) = FramesOf(burst) \ {a}
      /\ DistinctFrames(Tail(burst))
  BY <1>1, <1>2, TailFrames, Zenon
<1>4. a \notin RefAddrs
  BY <1>1, <1>3, Zenon DEF OwnInv, FrameOwnership, Pinned, RefAddrs
<1> QED
  BY <1>1, <1>2, <1>3, <1>4, Zenon

\* A frame that is not published goes from the burst to the drops.
LEMMA ReleaseFrames ==
  ASSUME OwnInv, NEW p, NEW a, HandleContext(p, a), Release(p, a),
         DistinctRefs', Pinned' = Pinned, UNCHANGED umemVars
  PROVE  FrameOwnership'
<1>1. UNCHANGED <<free, fq, rx>>
  BY DEF umemVars
<1>2. FrameOwnership
  BY DEF OwnInv
<1>3. CASE a = NoFrame
  <2>1. UNCHANGED <<burst, drops>>
    BY <1>3, Zenon DEF Release
  <2> QED
    BY <1>1, <1>2, <2>1, Zenon DEF FrameOwnership
<1>4. CASE a # NoFrame
  <2>1. burst' = Tail(burst) /\ drops' = drops \cup {a}
    BY <1>4 DEF Release
  <2>2. FramesOf(burst') = FramesOf(burst) \ {a} /\ DistinctFrames(burst') /\ a \in FramesOf(burst)
    BY <1>4, <2>1, FrameAtHand, Zenon
  <2> QED
    BY <1>1, <1>2, <2>1, <2>2 DEF FrameOwnership
<1> QED
  BY <1>3, <1>4, Zenon

\* A frame that is published goes from the burst to the ring.
LEMMA PinFrames ==
  ASSUME OwnInv, NEW p, NEW a, HandleContext(p, a), a # NoFrame, Pin(p, a),
         DistinctRefs', Pinned' = Pinned \cup {a}, UNCHANGED umemVars
  PROVE  FrameOwnership'
<1>1. UNCHANGED <<free, fq, rx>>
  BY DEF umemVars
<1>2. FrameOwnership
  BY DEF OwnInv
<1>3. burst' = Tail(burst) /\ drops' = drops
  BY DEF Pin
<1>4. FramesOf(burst') = FramesOf(burst) \ {a} /\ DistinctFrames(burst') /\ a \in FramesOf(burst)
  BY <1>3, FrameAtHand
<1> QED
  BY <1>1, <1>2, <1>3, <1>4 DEF FrameOwnership

\* Recycling consumed entries gives their frames back, and their slots.
LEMMA RecycleOwn ==
  ASSUME OwnInv, recycle_consumed_frames,
         UNCHANGED <<log, next_read, rx, burst, drops>>
  PROVE  FrameOwnership'
<1>1. TypeOK /\ DistinctRefs /\ FrameOwnership
  BY DEF OwnInv, FrameOwnership
<1>2. /\ DistinctRefs'
      /\ ConsumedAddrs \subseteq RefAddrs
      /\ RefAddrs' = RefAddrs \ ConsumedAddrs
  BY <1>1, RecycleRefs, ZenonT(30)
<1> DEFINE R == ConsumedAddrs \cap Frames
<1>3. R \subseteq Pinned /\ Pinned' = Pinned \ R
  BY <1>2 DEF Pinned, RefAddrs
<1>4. afxdp_recycle(R)
  BY DEF recycle_consumed_frames
<1>5. R \cap (free \cup fq) = {} /\ free \cap fq = {}
  BY <1>1, <1>3, Zenon DEF FrameOwnership
<1> HIDE DEF R
<1>6. free' \cap fq' = {} /\ free' \cup fq' = free \cup fq \cup R
  BY <1>4, <1>5, RecycleFrames, Zenon
<1> QED
  BY <1>1, <1>2, <1>3, <1>6, Zenon DEF FrameOwnership

(***************************************************************************)
(* Slots: each way of publishing, buffering and skipping keeps every slot  *)
(* owned and leaves nothing deliverable behind.                            *)
(***************************************************************************)

\* No packet begins inside another.
LEMMA Between ==
  ASSUME NEW p \in Packets, NEW q \in Packets, Start[p] <= Start[q], Start[q] < Start[p + 1]
  PROVE  q = p
<1>1. /\ p \in 1..(NumPackets + 1) /\ q \in 1..(NumPackets + 1) /\ p + 1 \in 1..(NumPackets + 1)
      /\ p \in Nat /\ q \in Nat
  BY StartAssumption DEF Packets
<1>2. Start[p] \in Nat /\ Start[q] \in Nat /\ Start[p + 1] \in Nat
  BY <1>1, StartAssumption, Zenon
<1>3. ~(q < p)
  <2>1. q < p => Start[q] < Start[p]
    BY <1>1, StartAssumption, Zenon
  <2> QED
    BY <1>2, <2>1
<1>4. ~(p + 1 < q) /\ q # p + 1
  <2>1. p + 1 < q => Start[p + 1] < Start[q]
    BY <1>1, StartAssumption, Zenon
  <2> QED
    BY <1>2, <2>1
<1> QED
  BY <1>1, <1>3, <1>4

\* A free slot and a pending one are not published.
LEMMA SlotUnreferenced ==
  ASSUME OwnInv, NEW s \in Slots, pool[s] = NoPacket \/ s \in Pending(gap_expected_seq)
  PROVE  s \notin RefAddrs
<1> SUFFICES ASSUME NEW i \in Unrecycled, log[i].addr = s
             PROVE  FALSE
  BY ZenonT(30) DEF RefAddrs
<1>1. TypeOK /\ gap_expected_seq \in Nat
  BY Zenon DEF OwnInv, TypeOK
<1>2. pool[s] = log[i].pkt /\ Start[log[i].pkt] < gap_expected_seq
  BY DEF OwnInv, SlotInv, SlotOwnership
<1>3. log[i].pkt \in Packets
  BY <1>1, LogFacts, Zenon
<1>4. log[i].pkt # NoPacket
  BY <1>3 DEF Packets, NoPacket
<1>5. s \in Pending(gap_expected_seq) => Start[log[i].pkt] >= gap_expected_seq
  BY <1>2, Zenon DEF Pending
<1>6. Start[log[i].pkt] \in Nat
  BY <1>3, StartFacts, Zenon
<1>7. pool[s] # NoPacket
  BY <1>2, <1>4, Zenon
<1>8. ~(Start[log[i].pkt] >= gap_expected_seq)
  <2>1. PICK a \in Nat, b \in Nat : a = Start[log[i].pkt] /\ b = gap_expected_seq /\ a < b
    BY <1>1, <1>2, <1>6, Zenon
  <2>2. ~(a >= b)
    BY <2>1
  <2> QED
    BY <2>1, <2>2, Zenon
<1> QED
  BY <1>5, <1>7, <1>8, Zenon

\* Nothing about the slots changes.
LEMMA SlotsSame ==
  ASSUME SlotInv, UNCHANGED <<gap_session_set, gap_expected_seq, pool, log, recycle_read>>,
         pc' # "drain" => reorder_find(gap_expected_seq, gap_expected_seq) = {}
  PROVE  SlotInv'
<1>1. SlotOwnership'
  BY Zenon DEF SlotInv, SlotOwnership, Unrecycled
<1>2. NothingDeliverableWaits'
  BY DEF SlotInv, NothingDeliverableWaits, reorder_find, Pending
<1> QED
  BY <1>1, <1>2, Zenon DEF SlotInv

\* Recycling empties exactly the slots whose entries were consumed.
LEMMA RecycleSlots ==
  ASSUME OwnInv, recycle_consumed_frames, pc # "drain",
         UNCHANGED <<gap_session_set, gap_expected_seq, log, next_read>>
  PROVE  SlotInv'
<1>1. TypeOK /\ DistinctRefs /\ SlotInv
  BY DEF OwnInv, FrameOwnership
<1>2. /\ Unrecycled' \subseteq Unrecycled
      /\ RefAddrs' = RefAddrs \ ConsumedAddrs
  BY <1>1, RecycleRefs, Zenon
<1>3. \A s \in Slots : pool'[s] = IF s \in ConsumedAddrs THEN NoPacket ELSE pool[s]
  BY DEF recycle_consumed_frames
<1>4. \A i \in Unrecycled' : log[i].addr \in RefAddrs'
  BY DEF RefAddrs
<1>5. \A i \in Unrecycled' : log[i].addr \in Slots =>
        /\ pool'[log[i].addr] = log[i].pkt
        /\ Start[log[i].pkt] < gap_expected_seq
  BY <1>1, <1>2, <1>3, <1>4, Zenon DEF SlotInv, SlotOwnership
<1>6. \A s \in Slots : pool'[s] # NoPacket /\ Start[pool'[s]] < gap_expected_seq => s \in RefAddrs'
  BY <1>1, <1>2, <1>3, Zenon DEF SlotInv, SlotOwnership, RefAddrs
<1>7. SlotOwnership'
  BY <1>5, <1>6, Zenon DEF SlotOwnership, RefAddrs
<1>8. \A s \in Slots : pool'[s] = NoPacket \/ pool'[s] = pool[s]
  BY <1>3, Zenon
<1>9. NothingDeliverableWaits'
  BY <1>1, <1>8 DEF SlotInv, NothingDeliverableWaits, reorder_find, Pending
<1>10. ~gap_session_set' => \A s \in Slots : pool'[s] = NoPacket
  BY <1>1, <1>8 DEF SlotInv
<1> QED
  BY <1>7, <1>9, <1>10, Zenon DEF SlotInv

\* When packet p is the expected one and the pool has been drained, the slots
\* in front of the packet after p are the published ones.
LEMMA BehindNext ==
  ASSUME OwnInv, NEW p \in Packets, Start[p] = Expected(p), pc # "drain"
  PROVE  /\ \A i \in Unrecycled : log[i].addr \in Slots => Start[log[i].pkt] < Start[p + 1]
         /\ \A s \in Slots : pool[s] # NoPacket /\ Start[pool[s]] < Start[p + 1] => s \in RefAddrs
         /\ \A s \in Slots : pool[s] # NoPacket /\ Start[pool[s]] >= Start[p + 1]
                               => s \in Pending(gap_expected_seq)
<1>0. /\ TypeOK /\ SlotInv /\ JoinInv /\ gap_expected_seq \in Nat
      /\ gap_session_set \in BOOLEAN
      /\ \A s \in Slots : pool[s] # NoPacket => pool[s] \in Packets
      /\ Start[p] \in Nat /\ Start[p + 1] \in Nat /\ Start[p] < Start[p + 1]
  BY StartFacts DEF OwnInv, TypeOK
<1>1. CASE ~gap_session_set
  <2>1. Len(log) = 0
    BY <1>0, <1>1, LenProperties DEF JoinInv, TypeOK
  <2>2. ASSUME NEW i \in Unrecycled PROVE FALSE
    <3>1. i \in 1..Len(log)
      BY <1>0, <2>2, LogFacts, Zenon
    <3>2. i \in 1..0
      BY <2>1, <3>1, Zenon
    <3> QED
      BY <3>2
  <2>3. \A s \in Slots : pool[s] = NoPacket
    BY <1>0, <1>1, Zenon DEF SlotInv
  <2> QED
    BY <2>2, <2>3, Zenon
<1>2. CASE gap_session_set
  <2>1. gap_expected_seq = Start[p]
    BY <1>2, Zenon DEF Expected
  <2>2. \A i \in Unrecycled : log[i].addr \in Slots => Start[log[i].pkt] < Start[p + 1]
    <3> SUFFICES ASSUME NEW i \in Unrecycled, log[i].addr \in Slots
                 PROVE  Start[log[i].pkt] < Start[p + 1]
      BY Zenon
    <3>1. Start[log[i].pkt] < gap_expected_seq
      BY <1>0 DEF SlotInv, SlotOwnership
    <3>2. Start[log[i].pkt] \in Nat
      BY <1>0, LogFacts, StartFacts, Zenon
    <3>3. Start[p + 1] >= Start[p]
      BY <1>0, LessOrAtLeast, Zenon
    <3> QED
      BY <1>0, <2>1, <3>1, <3>2, <3>3, LessTrans, Zenon
  <2>3. ASSUME NEW s \in Slots, pool[s] # NoPacket, Start[pool[s]] < Start[p + 1]
        PROVE  s \in RefAddrs
    <3>1. pool[s] \in Packets /\ Start[pool[s]] \in Nat
      BY <1>0, <2>3, StartFacts, Zenon
    <3>2. CASE Start[pool[s]] < gap_expected_seq
      BY <1>0, <2>3, <3>2, Zenon DEF SlotInv, SlotOwnership, RefAddrs
    <3>3. CASE Start[pool[s]] >= gap_expected_seq
      <4>1. pool[s] = p
        BY <1>0, <2>1, <2>3, <3>1, <3>3, Between, Zenon
      <4>2. s \in reorder_find(gap_expected_seq, gap_expected_seq)
        BY <1>0, <2>1, <2>3, <3>3, <4>1, Zenon DEF reorder_find, Pending
      <4> QED
        BY <1>0, <4>2, Zenon DEF SlotInv, NothingDeliverableWaits
    <3> QED
      BY <1>0, <3>1, <3>2, <3>3
  <2>4. ASSUME NEW s \in Slots, pool[s] # NoPacket, Start[pool[s]] >= Start[p + 1]
        PROVE  s \in Pending(gap_expected_seq)
    <3>1. Start[pool[s]] \in Nat
      BY <1>0, <2>4, StartFacts, Zenon
    <3> QED
      BY <1>0, <2>1, <2>4, <3>1 DEF Pending
  <2> QED
    BY <2>2, <2>3, <2>4, Zenon
<1> QED
  BY <1>0, <1>1, <1>2, Zenon

\* The expected packet arrived live: its frame is published, no slot is used.
LEMMA PublishFrameSlots ==
  ASSUME OwnInv, NEW p \in Packets, NEW a \in Frames, a \notin RefAddrs,
         Start[p] = Expected(p), pc # "drain", PublishAndDrain(p, a),
         UNCHANGED <<pool, recycle_read>>
  PROVE  SlotInv' /\ DistinctRefs' /\ Pinned' = Pinned \cup {a}
<1>0. TypeOK /\ DistinctRefs /\ SlotInv /\ a \notin Slots
  BY FrameFacts DEF OwnInv, FrameOwnership
<1>1. /\ log' = Append(log, [pkt |-> p, addr |-> a])
      /\ gap_session_set' = TRUE /\ gap_expected_seq' = Start[p + 1] /\ pc' = "drain"
  BY DEF PublishAndDrain, SetExpected
<1>2. /\ Unrecycled' = Unrecycled \cup {Len(log) + 1}
      /\ \A i \in Unrecycled : log'[i] = log[i]
      /\ log'[Len(log) + 1] = [pkt |-> p, addr |-> a]
      /\ DistinctRefs'
      /\ RefAddrs' = RefAddrs \cup {a}
  BY <1>0, <1>1, PublishRefs, Zenon
<1>3. Pinned' = Pinned \cup {a}
  BY <1>2, Zenon DEF Pinned, RefAddrs
<1>4. /\ \A i \in Unrecycled : log[i].addr \in Slots => Start[log[i].pkt] < Start[p + 1]
      /\ \A s \in Slots : pool[s] # NoPacket /\ Start[pool[s]] < Start[p + 1] => s \in RefAddrs
      /\ \A s \in Slots : pool[s] # NoPacket /\ Start[pool[s]] >= Start[p + 1]
                               => s \in Pending(gap_expected_seq)
  BY BehindNext, Zenon
<1>5. \A i \in Unrecycled' : log'[i].addr \in Slots =>
        pool[log'[i].addr] = log'[i].pkt /\ Start[log'[i].pkt] < Start[p + 1]
  <2> SUFFICES ASSUME NEW i \in Unrecycled', log'[i].addr \in Slots
               PROVE  pool[log'[i].addr] = log'[i].pkt /\ Start[log'[i].pkt] < Start[p + 1]
    BY Zenon
  <2>1. i \in Unrecycled /\ log'[i] = log[i]
    BY <1>0, <1>2
  <2> QED
    BY <1>0, <1>4, <2>1, ZenonT(30) DEF SlotInv, SlotOwnership
<1>6. \A s \in Slots : pool[s] # NoPacket /\ Start[pool[s]] < Start[p + 1] => s \in RefAddrs'
  BY <1>2, <1>4, Zenon
<1>7. SlotOwnership'
  BY <1>1, <1>5, <1>6, Zenon DEF SlotOwnership, RefAddrs
<1>8. NothingDeliverableWaits'
  BY <1>0, <1>1, <1>4, Zenon DEF SlotInv, NothingDeliverableWaits, Pending
<1> QED
  BY <1>1, <1>2, <1>3, <1>7, <1>8, Zenon DEF SlotInv

\* The expected packet came from the rewinder: it is published from a slot.
LEMMA PublishSlotSlots ==
  ASSUME OwnInv, NEW p \in Packets, NEW k \in Slots, pool[k] = NoPacket,
         Start[p] = Expected(p), pc # "drain", PublishAndDrain(p, k),
         pool' = [pool EXCEPT ![k] = p], UNCHANGED recycle_read
  PROVE  SlotInv' /\ DistinctRefs' /\ Pinned' = Pinned
<1>0. TypeOK /\ DistinctRefs /\ SlotInv /\ k \notin Frames /\ k \notin RefAddrs
  BY FrameFacts, SlotUnreferenced, Zenon DEF OwnInv, FrameOwnership
<1>1. /\ log' = Append(log, [pkt |-> p, addr |-> k])
      /\ gap_session_set' = TRUE /\ gap_expected_seq' = Start[p + 1] /\ pc' = "drain"
  BY DEF PublishAndDrain, SetExpected
<1>2. /\ Unrecycled' = Unrecycled \cup {Len(log) + 1}
      /\ \A i \in Unrecycled : log'[i] = log[i]
      /\ log'[Len(log) + 1] = [pkt |-> p, addr |-> k]
      /\ DistinctRefs'
      /\ RefAddrs' = RefAddrs \cup {k}
  BY <1>0, <1>1, PublishRefs, Zenon
<1>3. Pinned' = Pinned
  BY <1>0, <1>2, ZenonT(30) DEF Pinned, RefAddrs
<1>4. /\ \A i \in Unrecycled : log[i].addr \in Slots => Start[log[i].pkt] < Start[p + 1]
      /\ \A s \in Slots : pool[s] # NoPacket /\ Start[pool[s]] < Start[p + 1] => s \in RefAddrs
      /\ \A s \in Slots : pool[s] # NoPacket /\ Start[pool[s]] >= Start[p + 1]
                               => s \in Pending(gap_expected_seq)
  BY BehindNext, ZenonT(30)
<1>5. pool'[k] = p /\ \A s \in Slots : s # k => pool'[s] = pool[s]
  BY <1>0 DEF TypeOK
<1>6. Start[p] \in Nat /\ Start[p + 1] \in Nat /\ Start[p] < Start[p + 1]
  BY StartFacts, Zenon
<1>7. \A i \in Unrecycled' : log'[i].addr \in Slots =>
        pool'[log'[i].addr] = log'[i].pkt /\ Start[log'[i].pkt] < Start[p + 1]
  <2> SUFFICES ASSUME NEW i \in Unrecycled', log'[i].addr \in Slots
               PROVE  pool'[log'[i].addr] = log'[i].pkt /\ Start[log'[i].pkt] < Start[p + 1]
    OBVIOUS
  <2>1. CASE i = Len(log) + 1
    <3>r. PICK r : r = [pkt |-> p, addr |-> k]
      BY ZenonT(30)
    <3>0. r.pkt = p /\ r.addr = k
      BY <3>r, ZenonT(30)
    <3>1. log'[i].pkt = p /\ log'[i].addr = k
      BY <1>2, <2>1, <3>r, <3>0, Zenon
    <3> QED
      BY <1>5, <1>6, <3>1, Zenon
  <2>2. CASE i \in Unrecycled
    <3>1. log'[i] = log[i] /\ log[i].addr # k
      BY <1>0, <1>2, <2>2, Zenon DEF RefAddrs
    <3> QED
      BY <1>0, <1>4, <1>5, <2>2, <3>1, ZenonT(30) DEF SlotInv, SlotOwnership
  <2> QED
    BY <1>2, <2>1, <2>2, ZenonT(30)
<1>8. \A s \in Slots : pool'[s] # NoPacket /\ Start[pool'[s]] < Start[p + 1] => s \in RefAddrs'
  BY <1>2, <1>4, <1>5, ZenonT(30)
<1>9. SlotOwnership'
  BY <1>1, <1>7, <1>8, Zenon DEF SlotOwnership, RefAddrs
<1>10. NothingDeliverableWaits'
  <2>1. \A s \in Slots : pool'[s] # NoPacket /\ Start[pool'[s]] >= Start[p + 1] =>
          s # k /\ pool'[s] = pool[s] /\ s \in Pending(gap_expected_seq)
    <3>1. ~(Start[p] >= Start[p + 1])
      BY <1>6
    <3> QED
      BY <1>4, <1>5, <3>1, Zenon
  <2> QED
    BY <1>0, <1>1, <2>1, Zenon DEF SlotInv, NothingDeliverableWaits, Pending
<1> QED
  BY <1>1, <1>2, <1>3, <1>9, <1>10, Zenon DEF SlotInv

\* A packet beyond the expected one is buffered in a free slot.
LEMMA BufferSlots ==
  ASSUME OwnInv, NEW p \in Packets, NEW k \in Slots, pool[k] = NoPacket,
         gap_session_set, Start[p] > gap_expected_seq,
         reorder_find(Start[p], gap_expected_seq) = {},
         pool' = [pool EXCEPT ![k] = p],
         UNCHANGED <<gap_session_set, gap_expected_seq, log, recycle_read, pc>>
  PROVE  SlotInv'
<1>0. /\ TypeOK /\ SlotInv /\ k \notin RefAddrs
      /\ gap_expected_seq \in Nat /\ Start[p] \in Nat
  BY SlotUnreferenced, StartFacts, Zenon DEF OwnInv, TypeOK
<1>1. pool'[k] = p /\ \A s \in Slots : s # k => pool'[s] = pool[s]
  BY <1>0, Zenon DEF TypeOK
<1>2. Unrecycled' = Unrecycled /\ RefAddrs' = RefAddrs
  BY DEF Unrecycled, RefAddrs
<1>3. \A i \in Unrecycled : log[i].addr # k
  BY <1>0, ZenonT(30) DEF RefAddrs
<1>4. SlotOwnership'
  <2>1. ASSUME NEW i \in Unrecycled', log'[i].addr \in Slots
        PROVE  pool'[log'[i].addr] = log'[i].pkt /\ Start[log'[i].pkt] < gap_expected_seq'
    <3>1. i \in Unrecycled /\ log[i].addr \in Slots /\ log[i].addr # k
      BY <1>2, <1>3, <2>1, Zenon
    <3> QED
      BY <1>0, <1>1, <3>1, Zenon DEF SlotInv, SlotOwnership
  <2>2. ASSUME NEW s \in Slots, pool'[s] # NoPacket, Start[pool'[s]] < gap_expected_seq'
        PROVE  \E i \in Unrecycled' : log'[i].addr = s
    <3>1. s # k
      <4>1. ~(Start[p] < gap_expected_seq)
        BY <1>0
      <4> QED
        BY <1>1, <2>2, <4>1, Zenon
    <3>2. pool[s] # NoPacket /\ Start[pool[s]] < gap_expected_seq
      BY <1>1, <2>2, <3>1, Zenon
    <3>3. \E i \in Unrecycled : log[i].addr = s
      BY <1>0, <3>2, Zenon DEF SlotInv, SlotOwnership
    <3> QED
      BY <1>2, <3>3, Zenon
  <2> QED
    BY <2>1, <2>2, Zenon DEF SlotOwnership
<1>5. \A s \in Pending(gap_expected_seq) : pool[s] # p
  BY <1>0 DEF reorder_find
<1>6. \A s \in Slots : s \in Pending(gap_expected_seq)' =>
        s = k \/ (s \in Pending(gap_expected_seq) /\ pool'[s] = pool[s])
  BY <1>1, ZenonT(30) DEF Pending
<1>7. reorder_find(gap_expected_seq, gap_expected_seq)'
        \subseteq reorder_find(gap_expected_seq, gap_expected_seq)
  BY <1>0, <1>1 DEF reorder_find, Pending
<1>8. Pending(gap_expected_seq)' \subseteq Slots
  BY ZenonT(30) DEF Pending
<1>9. \A i, j \in Pending(gap_expected_seq)' : pool'[i] = pool'[j] => i = j
  <2> SUFFICES ASSUME NEW i \in Pending(gap_expected_seq)', NEW j \in Pending(gap_expected_seq)',
                      pool'[i] = pool'[j]
               PROVE  i = j
    BY Zenon
  <2>1. i = k \/ (i \in Pending(gap_expected_seq) /\ pool'[i] = pool[i])
    BY <1>6, <1>8, Zenon
  <2>2. j = k \/ (j \in Pending(gap_expected_seq) /\ pool'[j] = pool[j])
    BY <1>6, <1>8, Zenon
  <2>3. pool'[k] = p
    BY <1>0, <1>1, Zenon
  <2>4. \A x, y \in Pending(gap_expected_seq) : pool[x] = pool[y] => x = y
    BY <1>0, Zenon DEF SlotInv, NothingDeliverableWaits
  <2> QED
    BY <1>5, <2>1, <2>2, <2>3, <2>4, Zenon
<1>10. NothingDeliverableWaits'
  BY <1>0, <1>7, <1>9, Zenon DEF SlotInv, NothingDeliverableWaits
<1> QED
  BY <1>4, <1>10, Zenon DEF SlotInv

\* Skip-ahead moves to the first pending packet: no slot is passed over.
LEMMA SkipSlots ==
  ASSUME OwnInv, NEW k \in reorder_find_min(gap_expected_seq),
         gap_expected_seq' = Start[pool[k]], gap_session_set' = TRUE, pc' = "drain",
         UNCHANGED <<pool, log, recycle_read>>
  PROVE  SlotInv'
<1>0. TypeOK /\ SlotInv /\ gap_expected_seq \in Nat
  BY DEF OwnInv, TypeOK
<1>1. /\ k \in Pending(gap_expected_seq)
      /\ \A j \in Pending(gap_expected_seq) : Start[pool[k]] <= Start[pool[j]]
  BY DEF reorder_find_min
<1>2. Start[pool[k]] \in Nat /\ Start[pool[k]] >= gap_expected_seq
  BY <1>0, <1>1, PendingFacts, Zenon
<1>3. Unrecycled' = Unrecycled
  BY Zenon DEF Unrecycled
<1>4. \A i \in Unrecycled : log[i].addr \in Slots =>
        pool[log[i].addr] = log[i].pkt /\ Start[log[i].pkt] < Start[pool[k]]
  <2> SUFFICES ASSUME NEW i \in Unrecycled, log[i].addr \in Slots
               PROVE  pool[log[i].addr] = log[i].pkt /\ Start[log[i].pkt] < Start[pool[k]]
    BY Zenon
  <2>1. pool[log[i].addr] = log[i].pkt /\ Start[log[i].pkt] < gap_expected_seq
    BY <1>0 DEF SlotInv, SlotOwnership
  <2>2. Start[log[i].pkt] \in Nat
    BY <1>0, LogFacts, StartFacts, Zenon
  <2> QED
    BY <1>0, <1>2, <2>1, <2>2, LessTrans, ZenonT(30)
<1>5. ASSUME NEW s \in Slots, pool[s] # NoPacket
      PROVE  /\ Start[pool[s]] < Start[pool[k]] => Start[pool[s]] < gap_expected_seq
             /\ Start[pool[s]] >= Start[pool[k]] => s \in Pending(gap_expected_seq)
  <2>1. Start[pool[s]] \in Nat
    BY <1>0, <1>5, StartFacts, Zenon DEF TypeOK
  <2>2. Start[pool[s]] >= gap_expected_seq => s \in Pending(gap_expected_seq)
    BY <1>5 DEF Pending
  <2> QED
    BY <1>0, <1>1, <1>2, <2>1, <2>2, SMTT(30)
<1>6. SlotOwnership'
  BY <1>0, <1>3, <1>4, <1>5, Zenon DEF SlotInv, SlotOwnership
<1>7. NothingDeliverableWaits'
  BY <1>0, <1>5, Zenon DEF SlotInv, NothingDeliverableWaits, Pending
<1> QED
  BY <1>6, <1>7, ZenonT(30) DEF SlotInv

\* drain_pending publishes a pending packet from its slot.
LEMMA DrainSlots ==
  ASSUME OwnInv, NEW k \in reorder_find(gap_expected_seq, gap_expected_seq),
         log' = Append(log, [pkt |-> pool[k], addr |-> k]),
         gap_expected_seq' = gap_expected_seq + Count(pool[k]), pc' = "drain",
         gap_session_set,
         UNCHANGED <<gap_session_set, pool, recycle_read>>
  PROVE  SlotInv' /\ DistinctRefs' /\ Pinned' = Pinned
<1>0. TypeOK /\ DistinctRefs /\ SlotInv /\ gap_expected_seq \in Nat
  BY Zenon DEF OwnInv, TypeOK, FrameOwnership
<1>1. k \in Pending(gap_expected_seq) /\ Start[pool[k]] = gap_expected_seq
  BY Zenon DEF reorder_find
<1>p. PICK p : p = pool[k]
  OBVIOUS
<1>2. k \in Slots /\ p \in Packets /\ k \notin RefAddrs /\ k \notin Frames
  BY <1>0, <1>1, <1>p, PendingFacts, SlotUnreferenced, FrameFacts, Zenon
<1>3. /\ Start[p] \in Nat /\ Start[p + 1] \in Nat /\ Start[p] < Start[p + 1]
      /\ gap_expected_seq = Start[p] /\ gap_expected_seq' = Start[p + 1]
  BY <1>1, <1>2, <1>p, StartFacts, SMTT(30) DEF Count
<1>4. /\ Unrecycled' = Unrecycled \cup {Len(log) + 1}
      /\ \A i \in Unrecycled : log'[i] = log[i]
      /\ log'[Len(log) + 1] = [pkt |-> p, addr |-> k]
      /\ DistinctRefs'
      /\ RefAddrs' = RefAddrs \cup {k}
  BY <1>0, <1>2, <1>p, PublishRefs, Zenon
<1>5. Pinned' = Pinned
  BY <1>2, <1>4, Zenon DEF Pinned, RefAddrs
<1>6. \A i \in Unrecycled' : log'[i].addr \in Slots =>
        pool[log'[i].addr] = log'[i].pkt /\ Start[log'[i].pkt] < Start[p + 1]
  <2> SUFFICES ASSUME NEW i \in Unrecycled', log'[i].addr \in Slots
               PROVE  pool[log'[i].addr] = log'[i].pkt /\ Start[log'[i].pkt] < Start[p + 1]
    BY Zenon
  <2>1. CASE i = Len(log) + 1
    <3>r. PICK r : r = [pkt |-> p, addr |-> k]
      BY Zenon
    <3>0. r.pkt = p /\ r.addr = k
      BY <3>r
    <3>1. log'[i].pkt = p /\ log'[i].addr = k
      BY <1>4, <2>1, <3>r, <3>0, Zenon
    <3> QED
      BY <1>3, <1>p, <3>1, Zenon
  <2>2. CASE i \in Unrecycled
    <3>1. log'[i] = log[i]
      BY <1>4, <2>2, Zenon
    <3>2. pool[log[i].addr] = log[i].pkt /\ Start[log[i].pkt] < gap_expected_seq
      BY <1>0, <2>2, <3>1, Zenon DEF SlotInv, SlotOwnership
    <3>3. Start[log[i].pkt] \in Nat
      BY <1>0, <2>2, LogFacts, StartFacts, Zenon
    <3>4. gap_expected_seq < Start[p + 1]
      BY <1>3, Zenon
    <3>5. Start[log[i].pkt] < Start[p + 1]
      <4>1. Start[p + 1] >= gap_expected_seq
        BY <1>0, <1>3, <3>4, LessOrAtLeast, Zenon
      <4> QED
        BY <1>0, <1>3, <3>2, <3>3, <4>1, LessTrans, Zenon
    <3> QED
      BY <3>1, <3>2, <3>5, Zenon
  <2> QED
    BY <1>4, <2>1, <2>2, Zenon
<1>7. ASSUME NEW s \in Slots, pool[s] # NoPacket
      PROVE  /\ Start[pool[s]] < Start[p + 1] => s \in RefAddrs'
             /\ Start[pool[s]] >= Start[p + 1] => s \in Pending(gap_expected_seq)
  <2>1. pool[s] \in Packets /\ Start[pool[s]] \in Nat
    BY <1>0, <1>7, StartFacts, Zenon DEF TypeOK
  <2>2. Start[pool[s]] >= gap_expected_seq => s \in Pending(gap_expected_seq)
    BY <1>7, Zenon DEF Pending
  <2>3. CASE Start[pool[s]] < gap_expected_seq
    <3>1. s \in RefAddrs
      BY <1>0, <1>7, <2>3, Zenon DEF SlotInv, SlotOwnership, RefAddrs
    <3>2. Start[pool[s]] < Start[p + 1]
      BY <1>3, <2>1, <2>3
    <3>3. ~(Start[pool[s]] >= Start[p + 1])
      BY <1>3, <2>1, <3>2, LessOrAtLeast, Zenon
    <3> QED
      BY <1>4, <3>1, <3>3, Zenon
  <2>4. CASE Start[pool[s]] >= gap_expected_seq /\ Start[pool[s]] < Start[p + 1]
    <3>1. pool[s] = p
      BY <1>2, <1>3, <2>1, <2>4, Between, Zenon
    <3>2. s = k
      BY <1>0, <1>1, <1>p, <2>2, <2>4, <3>1, Zenon DEF SlotInv, NothingDeliverableWaits
    <3>3. s \in RefAddrs'
      BY <1>4, <3>2, Zenon
    <3>4. ~(Start[pool[s]] >= Start[p + 1])
      BY <1>3, <2>1, <2>4, LessOrAtLeast, Zenon
    <3> QED
      BY <3>3, <3>4, Zenon
  <2>5. CASE Start[pool[s]] >= Start[p + 1]
    <3>1. ~(Start[pool[s]] < Start[p + 1])
      BY <1>3, <2>1, <2>5, LessOrAtLeast, Zenon
    <3>2. gap_expected_seq < Start[p + 1]
      BY <1>3, Zenon
    <3>3. Start[pool[s]] >= gap_expected_seq
      BY <1>0, <1>3, <2>1, <2>5, <3>2, AtLeastTrans, Zenon
    <3> QED
      BY <2>2, <3>1, <3>3, Zenon
  <2>6. Start[pool[s]] < gap_expected_seq \/ Start[pool[s]] >= gap_expected_seq
    BY <1>0, <2>1, LessOrAtLeast, Zenon
  <2>7. Start[pool[s]] < Start[p + 1] \/ Start[pool[s]] >= Start[p + 1]
    BY <1>3, <2>1, LessOrAtLeast, Zenon
  <2> QED
    BY <2>3, <2>4, <2>5, <2>6, <2>7, Zenon
<1>8. SlotOwnership'
  BY <1>3, <1>6, <1>7, Zenon DEF SlotOwnership, RefAddrs
<1>9. NothingDeliverableWaits'
  BY <1>0, <1>3, <1>7, ZenonT(30) DEF SlotInv, NothingDeliverableWaits, Pending
<1> QED
  BY <1>4, <1>5, <1>8, <1>9, ZenonT(30) DEF SlotInv

(***************************************************************************)
(* Steps.                                                                  *)
(***************************************************************************)

\* Entries and frames are where they were when the ring is not touched.
LEMMA SameRefs ==
  ASSUME OwnInv, UNCHANGED <<log, recycle_read>>
  PROVE  DistinctRefs' /\ Pinned' = Pinned
  BY DEF OwnInv, FrameOwnership, DistinctRefs, Pinned, Unrecycled

\* Every outcome of handle_payload keeps frames and slots owned.
LEMMA HandleOwn ==
  ASSUME OwnInv, NEW p, NEW a, HandleContext(p, a), handle_payload(p, a)
  PROVE  FrameOwnership' /\ SlotInv'
<1>0. /\ TypeOK /\ JoinInv /\ SlotInv /\ DistinctRefs /\ p \in Packets
      /\ pc \in {"poll", "burst"} /\ pc # "drain"
      /\ gap_session_set \in BOOLEAN /\ gap_expected_seq \in Nat
      /\ Expected(p) \in Nat /\ Start[p] \in Nat
  BY ExpectedType, StartFacts, Zenon DEF OwnInv, FrameOwnership, HandleContext, TypeOK
<1>1. UNCHANGED <<next_read, recycle_read, umemVars, rewinder_fd>>
  BY DEF handle_payload
<1>2. ~RingFull
  BY <1>0, NotLapped, Zenon
<1>3. reorder_find(gap_expected_seq, gap_expected_seq) = {}
  BY <1>0 DEF SlotInv, NothingDeliverableWaits
<1>4. a = NoFrame => gap_session_set
  BY FrameFacts DEF HandleContext, OwnInv, JoinInv
<1>5. Start[p] # Expected(p) => gap_session_set
  BY DEF Expected
<1>6. ASSUME Discard(p, a), gap_session_set
      PROVE  FrameOwnership' /\ SlotInv'
  <2>1. /\ UNCHANGED <<log, pool, pc>> /\ Release(p, a)
        /\ gap_session_set' = TRUE /\ gap_expected_seq' = Expected(p)
    BY <1>6 DEF Discard, SetExpected
  <2>2. gap_session_set' = gap_session_set /\ gap_expected_seq' = gap_expected_seq
    BY <1>0, <1>6, <2>1, Zenon DEF Expected
  <2>3. FrameOwnership'
    BY <1>1, <2>1, SameRefs, ReleaseFrames, Zenon
  <2>4. SlotInv'
    BY <1>0, <1>1, <1>3, <2>1, <2>2, SlotsSame, ZenonT(30)
  <2> QED
    BY <2>3, <2>4, Zenon
<1>7. CASE LateOrDuplicate(p, a)
  BY <1>0, <1>5, <1>6, <1>7 DEF LateOrDuplicate
<1>8. CASE InOrderLive(p, a)
  <2>1. /\ Start[p] = Expected(p) /\ a # NoFrame
        /\ PublishAndDrain(p, a) /\ Pin(p, a) /\ UNCHANGED pool
    BY <1>2, <1>8, Zenon DEF InOrderLive
  <2>2. a \in Frames /\ a \notin RefAddrs
    BY <2>1, FrameAtHand, Zenon
  <2>3. SlotInv' /\ DistinctRefs' /\ Pinned' = Pinned \cup {a}
    BY <1>0, <1>1, <2>1, <2>2, PublishFrameSlots, Zenon
  <2>4. FrameOwnership'
    BY <1>1, <2>1, <2>3, PinFrames, Zenon
  <2> QED
    BY <2>3, <2>4, Zenon
<1>9. CASE InOrderReply(p, a)
  <2>1. CASE Discard(p, a)
    BY <1>4, <1>6, <1>9, <2>1, Zenon DEF InOrderReply
  <2>2. CASE ~Discard(p, a)
    <3>1. PICK k \in reorder_alloc_slot :
            /\ pool' = [pool EXCEPT ![k] = p]
            /\ PublishAndDrain(p, k)
            /\ Release(p, a)
      BY <1>9, <2>2, ZenonT(30) DEF InOrderReply
    <3>2. k \in Slots /\ pool[k] = NoPacket /\ Start[p] = Expected(p)
      BY <1>9 DEF reorder_alloc_slot, InOrderReply
    <3>3. SlotInv' /\ DistinctRefs' /\ Pinned' = Pinned
      BY <1>0, <1>1, <3>1, <3>2, PublishSlotSlots, Zenon
    <3>4. FrameOwnership'
      BY <1>1, <3>1, <3>3, ReleaseFrames, Zenon
    <3> QED
      BY <3>3, <3>4, Zenon
  <2> QED
    BY <2>1, <2>2, Zenon
<1>10. CASE AlreadyBuffered(p, a)
  BY <1>0, <1>5, <1>6, <1>10 DEF AlreadyBuffered
<1>11. CASE BufferFuture(p, a)
  <2>1. PICK k \in reorder_alloc_slot : pool' = [pool EXCEPT ![k] = p]
    BY <1>11, Zenon DEF BufferFuture
  <2>2. k \in Slots /\ pool[k] = NoPacket
    BY DEF reorder_alloc_slot
  <2>3. /\ Start[p] > Expected(p) /\ reorder_find(Start[p], Expected(p)) = {}
        /\ gap_session_set' = TRUE /\ gap_expected_seq' = Expected(p)
        /\ Release(p, a) /\ UNCHANGED <<log, pc>>
    BY <1>11, Zenon DEF BufferFuture, SetExpected
  <2>4. gap_session_set
    BY <1>0, <1>5, <2>3
  <2>5. Expected(p) = gap_expected_seq
    BY <2>4 DEF Expected
  <2>6. SlotInv'
    BY <1>0, <1>1, <2>1, <2>2, <2>3, <2>4, <2>5, BufferSlots, Zenon
  <2>7. FrameOwnership'
    BY <1>1, <2>3, SameRefs, ReleaseFrames, Zenon
  <2> QED
    BY <2>6, <2>7, Zenon
<1>12. CASE PoolFull(p, a)
  <2>1. gap_session_set
    <3>1. Start[p] > Expected(p)
      BY <1>12, Zenon DEF PoolFull
    <3>2. Start[p] # Expected(p)
      BY <1>0, <3>1
    <3> QED
      BY <1>5, <3>2, Zenon
  <2>2. Expected(p) = gap_expected_seq
    BY <2>1, Zenon DEF Expected
  <2>3. CASE Discard(p, a)
    BY <1>6, <2>1, <2>3, Zenon
  <2>4. CASE ~Discard(p, a)
    <3>1. PICK k \in reorder_find_min(gap_expected_seq) :
            /\ SetExpected(Start[pool[k]])
            /\ Release(p, a)
            /\ pc' = "drain"
            /\ UNCHANGED <<pool, log>>
      BY <1>12, <2>2, <2>4, Zenon DEF PoolFull
    <3>2. SlotInv'
      BY <1>1, <3>1, SkipSlots, Zenon DEF SetExpected
    <3>3. FrameOwnership'
      BY <1>1, <3>1, SameRefs, ReleaseFrames, Zenon
    <3> QED
      BY <3>2, <3>3, Zenon
  <2> QED
    BY <2>3, <2>4
<1> QED
  BY <1>7, <1>8, <1>9, <1>10, <1>11, <1>12, ZenonT(30) DEF handle_payload

\* One step of the receiver, the dispatcher, the clock or the network.
LEMMA OwnStep ==
  ASSUME OwnInv, [Next]_vars
  PROVE  /\ FrameOwnership'
         /\ SlotInv'
         /\ pc' \in {"recycle", "recv"} => burst' = <<>>
<1>0. /\ TypeOK /\ JoinInv /\ FrameOwnership /\ SlotInv /\ DistinctRefs
      /\ burst \in Seq(Descriptor) /\ rx \in Seq(Descriptor) /\ drops \subseteq Frames
      /\ (pc \in {"recycle", "recv"} => burst = <<>>)
      /\ ret \in {"poll", "burst"}
  BY DEF OwnInv, TypeOK, FrameOwnership
<1>1. pc # "drain" => reorder_find(gap_expected_seq, gap_expected_seq) = {}
  BY <1>0 DEF SlotInv, NothingDeliverableWaits
<1>2. ASSUME UNCHANGED <<gapVars, pool, ringVars, free, fq, rx, burst, drops>>,
             pc = "drain" => pc' = "drain"
      PROVE  FrameOwnership' /\ SlotInv'
  <2>1. FrameOwnership'
    BY <1>0, <1>2, SameRefs, Zenon DEF FrameOwnership, ringVars
  <2>2. SlotInv'
    BY <1>0, <1>1, <1>2, SlotsSame, Zenon DEF ringVars, gapVars
  <2> QED
    BY <2>1, <2>2, Zenon
<1>3. CASE RecycleConsumed
  BY <1>0, <1>3, RecycleOwn, RecycleSlots, Zenon DEF RecycleConsumed, gapVars
<1>4. CASE afxdp_recv_burst
  <2> DEFINE n == Smaller(BurstSize, Len(rx))
  <2>1. /\ burst' = SubSeq(rx, 1, n) /\ rx' = SubSeq(rx, n + 1, Len(rx))
        /\ burst = <<>> /\ afxdp_refill_fq(free) /\ pc # "drain" /\ pc' = "poll"
        /\ UNCHANGED <<gap_session_set, gap_expected_seq, pool, log, recycle_read, drops>>
    BY <1>0, <1>4, Zenon DEF afxdp_recv_burst, gapVars, ringVars
  <2>2. n \in 0..Len(rx)
    BY <1>0, LenProperties, SizeAssumption DEF Smaller
  <2> HIDE DEF n
  <2>3. /\ DistinctFrames(burst') /\ DistinctFrames(rx')
        /\ FramesOf(burst') \cup FramesOf(rx') = FramesOf(rx)
        /\ FramesOf(burst') \cap FramesOf(rx') = {}
    BY <1>0, <2>1, <2>2, SplitFrames, Zenon DEF FrameOwnership
  <2>4. free' \cap fq' = {} /\ free' \cup fq' = free \cup fq
    BY <1>0, <2>1, RefillFrames, Zenon DEF FrameOwnership
  <2>5. FramesOf(burst) = {}
    BY <2>1 DEF FramesOf
  <2>6. DistinctRefs' /\ Pinned' = Pinned
    BY <2>1, SameRefs, Zenon
  <2>7. FrameOwnership'
    BY <1>0, <2>1, <2>3, <2>4, <2>5, <2>6, ZenonT(30) DEF FrameOwnership
  <2>8. SlotInv'
    BY <1>0, <1>1, <2>1, SlotsSame, Zenon
  <2> QED
    BY <2>1, <2>7, <2>8, Zenon
<1>5. CASE poll_rewinder
  <2>1. PICK p \in replies : pc = "poll" /\ handle_payload(p, NoFrame)
    BY <1>5 DEF poll_rewinder
  <2>2. HandleContext(p, NoFrame)
    BY <1>0, <2>1, Zenon DEF HandleContext, TypeOK
  <2>3. pc' \notin {"recycle", "recv"}
    BY <2>1, Zenon DEF handle_payload, LateOrDuplicate, InOrderLive, InOrderReply, AlreadyBuffered,
                BufferFuture, PoolFull, Discard, PublishAndDrain
  <2> QED
    BY <2>1, <2>2, <2>3, HandleOwn, Zenon
<1>6. CASE Nudge
  BY <1>2, <1>6, Zenon DEF Nudge, umemVars
<1>7. CASE StartBurst
  BY <1>2, <1>7, Zenon DEF StartBurst, umemVars
<1>8. CASE HandleLive
  <2> DEFINE p == Head(burst).pkt
             a == Head(burst).frame
  <2>1. pc = "burst" /\ burst # <<>> /\ p \in Packets /\ handle_payload(p, a)
    BY <1>8, Zenon DEF HandleLive
  <2>2. Head(burst) \in Descriptor
    BY <1>0, <2>1, HeadTailProperties, Zenon
  <2>3. HandleContext(p, a)
    BY <2>1, <2>2, Zenon DEF HandleContext, Descriptor
  <2> HIDE DEF p, a
  <2>4. pc' \notin {"recycle", "recv"}
    BY <2>1, Zenon DEF handle_payload, LateOrDuplicate, InOrderLive, InOrderReply, AlreadyBuffered,
                BufferFuture, PoolFull, Discard, PublishAndDrain
  <2> QED
    BY <2>1, <2>3, <2>4, HandleOwn, ZenonT(30)
<1>9. CASE HandleOther
  <2>1. /\ pc = "burst" /\ burst # <<>> /\ burst' = Tail(burst)
        /\ drops' = drops \cup {Head(burst).frame}
        /\ pc' \in {"lastdrops", "burst"}
        /\ UNCHANGED <<gap_session_set, gap_expected_seq, pool, log, recycle_read, free, fq, rx>>
    BY <1>9, Zenon DEF HandleOther, gapVars, ringVars, umemVars
  <2>2. /\ Head(burst).frame \in FramesOf(burst)
        /\ FramesOf(burst') = FramesOf(burst) \ {Head(burst).frame}
        /\ DistinctFrames(burst')
    BY <1>0, <2>1, TailFrames, Zenon DEF FrameOwnership
  <2>3. DistinctRefs' /\ Pinned' = Pinned
    BY <2>1, SameRefs, Zenon
  <2>4. FrameOwnership'
    <3>1. PICK f : f = Head(burst).frame
      BY Zenon
    <3>2. OwnedApart(free, fq, FramesOf(rx), FramesOf(burst), drops, Pinned)
      BY <1>0, Zenon DEF FrameOwnership, OwnedApart
    <3>3. OwnedApart(free, fq, FramesOf(rx), FramesOf(burst) \ {f}, drops \cup {f}, Pinned)
      BY <2>2, <3>1, <3>2, OwnedDrop, Zenon
    <3>4. DistinctFrames(rx)' /\ FramesOf(rx)' = FramesOf(rx)
      BY <1>0, <2>1, Zenon DEF FrameOwnership, DistinctFrames, FramesOf
    <3> QED
      BY <2>1, <2>2, <2>3, <3>1, <3>3, <3>4, Zenon DEF FrameOwnership, OwnedApart
  <2>5. SlotInv'
    BY <1>0, <1>1, <2>1, SlotsSame, Zenon
  <2> QED
    BY <2>1, <2>4, <2>5, Zenon
<1>10. CASE drain_pending
  <2>1. /\ pc = "drain" /\ gap_session_set
        /\ UNCHANGED <<gap_session_set, pool, recycle_read, free, fq, rx, burst, drops>>
    BY <1>0, <1>10, Zenon DEF drain_pending, JoinInv, umemVars
  <2>2. ~RingFull
    BY <1>0, NotLapped, Zenon
  <2>3. CASE reorder_find(gap_expected_seq, gap_expected_seq) = {}
    <3>1. pc' = ret /\ UNCHANGED <<gap_expected_seq, log>>
      BY <1>10, <2>3 DEF drain_pending
    <3>2. SlotInv'
      BY <1>0, <2>1, <2>3, <3>1, SlotsSame, Zenon
    <3>3. FrameOwnership'
      BY <1>0, <2>1, <3>1, SameRefs, Zenon DEF FrameOwnership
    <3> QED
      BY <1>0, <3>1, <3>2, <3>3, Zenon
  <2>4. CASE reorder_find(gap_expected_seq, gap_expected_seq) # {}
    <3>1. PICK k \in reorder_find(gap_expected_seq, gap_expected_seq) :
            /\ log' = Append(log, [pkt |-> pool[k], addr |-> k])
            /\ gap_expected_seq' = gap_expected_seq + Count(pool[k])
            /\ UNCHANGED pc
      BY <1>10, <2>2, <2>4, Zenon DEF drain_pending
    <3>2. SlotInv' /\ DistinctRefs' /\ Pinned' = Pinned
      BY <2>1, <3>1, DrainSlots, Zenon
    <3>3. FrameOwnership'
      BY <1>0, <2>1, <3>2, Zenon DEF FrameOwnership
    <3> QED
      BY <2>1, <3>1, <3>2, <3>3, Zenon
  <2> QED
    BY <2>3, <2>4, Zenon
<1>11. CASE RecycleDrops
  <2>1. /\ pc # "drain" /\ pc' # "recv" /\ (pc' = "recycle" => burst = <<>>)
        /\ afxdp_recycle(drops) /\ drops' = {}
        /\ UNCHANGED <<gap_session_set, gap_expected_seq, pool, log, recycle_read, rx, burst>>
    BY <1>11, Zenon DEF RecycleDrops, gapVars, ringVars
  <2>2. free' \cap fq' = {} /\ free' \cup fq' = free \cup fq \cup drops
    <3>1. drops \cap (free \cup fq) = {} /\ free \cap fq = {}
      BY <1>0 DEF FrameOwnership
    <3> QED
      BY <2>1, <3>1, RecycleFrames, Zenon
  <2>3. DistinctRefs' /\ Pinned' = Pinned
    BY <2>1, SameRefs, Zenon
  <2>4. FrameOwnership'
    BY <1>0, <2>1, <2>2, <2>3, ZenonT(30) DEF FrameOwnership
  <2>5. SlotInv'
    BY <1>0, <1>1, <2>1, SlotsSame, Zenon
  <2> QED
    BY <2>1, <2>4, <2>5, Zenon
<1>12. CASE Stop
  BY <1>0, <1>12, RecycleOwn, RecycleSlots, Zenon DEF Stop, gapVars
<1>13. CASE afxdp_close
  BY <1>2, <1>13, Zenon DEF afxdp_close
<1>14. CASE Consume
  <2>1. UNCHANGED <<gap_session_set, gap_expected_seq, pool, log, recycle_read, free, fq, rx,
                    burst, drops, pc>>
    BY <1>14, Zenon DEF Consume, gapVars, umemVars
  <2>2. FrameOwnership'
    BY <1>0, <2>1, SameRefs, Zenon DEF FrameOwnership
  <2>3. SlotInv'
    BY <1>0, <1>1, <2>1, SlotsSame, Zenon
  <2> QED
    BY <1>0, <2>1, <2>2, <2>3, Zenon
<1>15. CASE RetransmitIntervalPasses
  BY <1>0, <1>2, <1>15, Zenon DEF RetransmitIntervalPasses, umemVars
<1>16. ASSUME NEW f \in fq, NEW p \in Payloads, KernelReceive(f, p)
       PROVE  FrameOwnership' /\ SlotInv' /\ (pc' \in {"recycle", "recv"} => burst' = <<>>)
  <2> DEFINE d == [pkt |-> p, frame |-> f]
  <2>1. /\ fq' = fq \ {f} /\ rx' = Append(rx, d)
        /\ UNCHANGED <<gap_session_set, gap_expected_seq, pool, log, recycle_read, free,
                       burst, drops, pc>>
    BY <1>16, Zenon DEF KernelReceive, gapVars, ringVars
  <2>2. d \in Descriptor /\ d.frame = f /\ f \notin FramesOf(rx)
    BY <1>0, Zenon DEF Descriptor, TypeOK, FrameOwnership
  <2> HIDE DEF d
  <2>3. FramesOf(rx') = FramesOf(rx) \cup {f} /\ DistinctFrames(rx')
    BY <1>0, <2>1, <2>2, AppendFrames, ZenonT(30) DEF FrameOwnership
  <2>4. DistinctRefs' /\ Pinned' = Pinned
    BY <2>1, SameRefs, Zenon
  <2>5. FrameOwnership'
    <3>1. OwnedApart(free, fq, FramesOf(rx), FramesOf(burst), drops, Pinned)
      BY <1>0, Zenon DEF FrameOwnership, OwnedApart
    <3>2. OwnedApart(free, fq \ {f}, FramesOf(rx) \cup {f}, FramesOf(burst), drops, Pinned)
      BY <3>1, OwnedFill, Zenon
    <3>3. FramesOf(burst') = FramesOf(burst) /\ DistinctFrames(burst')
      BY <1>0, <2>1, Zenon DEF FrameOwnership
    <3> QED
      BY <2>1, <2>3, <2>4, <3>2, <3>3, Zenon DEF FrameOwnership, OwnedApart
  <2>6. SlotInv'
    BY <1>0, <1>1, <2>1, SlotsSame, Zenon
  <2> QED
    BY <1>0, <2>1, <2>5, <2>6, Zenon
<1>17. ASSUME NEW req \in requests, NEW got \in SUBSET Replay(req), Answer(req, got)
       PROVE  FrameOwnership' /\ SlotInv' /\ (pc' \in {"recycle", "recv"} => burst' = <<>>)
  BY <1>0, <1>2, <1>17, Zenon DEF Answer, umemVars
<1>18. CASE UNCHANGED vars
  BY <1>0, <1>2, <1>18, Zenon DEF vars, umemVars
<1> QED
  BY <1>3, <1>4, <1>5, <1>6, <1>7, <1>8, <1>9, <1>10, <1>11, <1>12, <1>13, <1>14, <1>15,
     <1>16, <1>17, <1>18, ZenonT(30) DEF Next, Receiver, Network

\* At first every frame is free or in the fill ring and nothing is buffered.
LEMMA InitOwn == Init => OwnInv
<1> SUFFICES ASSUME Init PROVE OwnInv
  OBVIOUS
<1>1. /\ log = <<>> /\ rx = <<>> /\ burst = <<>> /\ drops = {} /\ recycle_read = 0
      /\ \A s \in Slots : pool[s] = NoPacket
      /\ free \cap fq = {} /\ free \cup fq = Frames
  BY DEF Init, afxdp_init
<1>2. Unrecycled = {} /\ FramesOf(rx) = {} /\ FramesOf(burst) = {}
  BY <1>1 DEF Unrecycled, FramesOf
<1>3. DistinctFrames(rx) /\ DistinctFrames(burst)
  BY <1>1 DEF DistinctFrames
<1>4. FrameOwnership
  BY <1>1, <1>2, <1>3, Zenon DEF FrameOwnership, DistinctRefs, Pinned
<1>5. SlotInv
  BY <1>1, <1>2, Zenon DEF SlotInv, SlotOwnership, NothingDeliverableWaits, reorder_find, Pending
<1>6. JoinInv
  BY DEF Init, JoinInv
<1> QED
  BY <1>1, <1>4, <1>5, <1>6, InitType, Zenon DEF OwnInv

\* The invariant holds in every state the receiver reaches.
THEOREM OwnershipInvariant == Spec => []OwnInv
<1>1. Init => OwnInv
  BY InitOwn
<1>2. OwnInv /\ [Next]_vars => OwnInv'
  <2> SUFFICES ASSUME OwnInv, [Next]_vars PROVE OwnInv'
    OBVIOUS
  <2>1. TypeOK' /\ JoinInv'
    BY TypeStep, FeedStep, Zenon DEF OwnInv
  <2>2. FrameOwnership' /\ SlotInv' /\ (pc' \in {"recycle", "recv"} => burst' = <<>>)
    BY OwnStep
  <2> QED
    BY <2>1, <2>2, Zenon DEF OwnInv
<1> QED
  BY <1>1, <1>2, PTL DEF Spec

\* A UMEM frame is always in exactly one place: the kernel never writes a frame
\* the dispatcher may still read, and recycle never gives one back twice.
THEOREM FramesAreOwned == Spec => []FrameOwnership
<1>1. OwnInv => FrameOwnership
  BY Zenon DEF OwnInv
<1> QED
  BY <1>1, OwnershipInvariant, PTL

\* A reorder slot behind a published reference keeps its packet until it is
\* recycled, and no slot leaks.
THEOREM SlotsAreOwned == Spec => []SlotOwnership
<1>1. OwnInv => SlotOwnership
  BY Zenon DEF OwnInv, SlotInv
<1> QED
  BY <1>1, OwnershipInvariant, PTL

\* publish_ref never overwrites an entry recycle_consumed_frames still needs.
THEOREM RingIsNeverLapped == Spec => []RingNeverLapped
<1>1. OwnInv => RingNeverLapped
  BY RingBound, Zenon DEF OwnInv, FrameOwnership
<1> QED
  BY <1>1, OwnershipInvariant, PTL

\* Outside drain_pending no packet that could be published is left in the pool.
THEOREM PoolIsDrained == Spec => []NothingDeliverableWaits
<1>1. OwnInv => NothingDeliverableWaits
  BY DEF OwnInv, SlotInv
<1> QED
  BY <1>1, OwnershipInvariant, PTL
=============================================================================

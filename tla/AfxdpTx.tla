------------------------------- MODULE AfxdpTx -------------------------------
(***************************************************************************)
(* Order egress over AF_XDP: afxdp_tx.c as order_sender drives it, beside  *)
(* the kernel, which takes descriptors from the tx ring while it is awake, *)
(* puts the frames on the wire and gives them back on the completion ring. *)
(* A kick may be lost, because the result of sendto is ignored.  Checksum  *)
(* words are narrowed to Word values; the rest of the headers is one sum.  *)
(***************************************************************************)
EXTENDS Integers, Sequences, Functions

CONSTANTS
  NumFrames,     \* AFXDP_TX_NUM_FRAMES; frame 0 is the template
  TxSize,        \* descriptors in the tx ring
  Word,          \* 2^16
  MaxLength,     \* length word of the template (MAX_PAYLOAD)
  MaxOrders,     \* bound: orders taken from ORDER_TO_EXC
  MaxLostKicks   \* bound: kicks the kernel ignores

\* The retry loop never kicks: were as many kicks lost as frames fit in, the
\* sender would spin for ever.
ASSUME TxAssumption ==
  /\ {NumFrames, TxSize, Word, MaxLength, MaxOrders, MaxLostKicks} \subseteq Nat
  /\ NumFrames > 1 /\ MaxLength < Word
  /\ MaxLostKicks < TxSize /\ MaxLostKicks < NumFrames - 1

VARIABLES
  header, len,   \* what the configuration and the wire format fix
  frame,         \* contents of the UMEM: order, length, checksums
  free,          \* free_frames, a stack
  tx, nic, cq,   \* frames in the tx ring, in the NIC, in the completion ring
  awake,         \* the kernel is polling the tx ring: no wakeup needed
  pc, taken,     \* the sender; orders taken from ORDER_TO_EXC
  lost,          \* kicks lost so far
  departed       \* history: orders in the order they left

tx_vars == <<header, len, frame, free, tx, nic, cq, awake, pc, taken, lost, departed>>
fixed == <<header, len>>

Frames == 0..(NumFrames - 1)
Template == 0
Words == 0..(Word - 1)

-----------------------------------------------------------------------------
(* Checksums: ones' complement sums of words. *)
Fold[s \in Nat] == IF s < Word THEN s ELSE Fold[(s % Word) + (s \div Word)]

Complement(w) == Word - 1 - w

csum_replace2_OldAdded(old, from, to) == Complement(Fold[Complement(old) + from + to])

csum_replace2(old, from, to) ==
  Complement(Fold[Complement(old) + Complement(from) + to])

\* The checksum build_template leaves in frame 0.
ip_checksum == Complement(Fold[header + MaxLength])

UdpSum(n, o) == header + n + o

\* A UDP checksum of 0 would mean none.
UdpCheck(sum) ==
  LET c == Complement(Fold[sum]) IN IF c = 0 THEN Word - 1 ELSE c

Packet(o) ==
  [order |-> o, len |-> len, ip |-> csum_replace2(ip_checksum, MaxLength, len),
   udp |-> UdpCheck(UdpSum(len, o))]

NoPacket == [order |-> 0, len |-> MaxLength, ip |-> 0, udp |-> 0]

-----------------------------------------------------------------------------
(* The sender. *)
\* afxdp_tx_drain_completions gives back every frame of the completion ring.
Drained == free \o cq

\* The idle turn of order_sender.
TxIdle ==
  /\ pc = "idle" /\ cq # <<>>
  /\ free' = Drained
  /\ cq' = <<>>
  /\ UNCHANGED <<fixed, frame, tx, nic, awake, pc, taken, lost, departed>>

Take ==
  /\ pc = "idle" /\ taken < MaxOrders
  /\ taken' = taken + 1
  /\ pc' = "send"
  /\ UNCHANGED <<fixed, frame, free, tx, nic, cq, awake, lost, departed>>

\* alloc_frame finds nothing: ENOSPC, and the caller tries again.
SendNoFrame ==
  /\ pc = "send" /\ Drained = <<>>
  /\ UNCHANGED tx_vars

TxFull == Len(tx) >= TxSize

Top(stack) == stack[Len(stack)]

Released_Leak(stack, f) == stack

Released(stack, f) == Append(stack, f)

Allocated_NotPopped(stack) == stack

Allocated(stack) == SubSeq(stack, 1, Len(stack) - 1)

\* A frame is taken and filled, there is no descriptor, the frame goes back.
SendNoDescriptor ==
  /\ pc = "send" /\ Drained # <<>> /\ TxFull
  /\ frame' = [frame EXCEPT ![Top(Drained)] = Packet(taken)]
  /\ free' = Released(Allocated(Drained), Top(Drained))
  /\ cq' = <<>>
  /\ UNCHANGED <<fixed, tx, nic, awake, pc, taken, lost, departed>>

SendPushed ==
  /\ pc = "send" /\ Drained # <<>> /\ ~TxFull
  /\ frame' = [frame EXCEPT ![Top(Drained)] = Packet(taken)]
  /\ free' = Allocated(Drained)
  /\ tx' = Append(tx, Top(Drained))
  /\ cq' = <<>>
  /\ pc' = "kick"
  /\ UNCHANGED <<fixed, nic, awake, taken, lost, departed>>

Woken_IfAwake == awake

\* sendto is called only when the ring asks for it.
Woken == TRUE

Kick ==
  /\ pc = "kick"
  /\ \/ awake' = Woken /\ UNCHANGED lost
     \/ ~awake /\ lost < MaxLostKicks /\ lost' = lost + 1 /\ UNCHANGED awake
  /\ pc' = "idle"
  /\ UNCHANGED <<fixed, frame, free, tx, nic, cq, taken, departed>>

-----------------------------------------------------------------------------
(* The kernel and the NIC. *)
Transmit ==
  /\ awake /\ tx # <<>>
  /\ nic' = Append(nic, Head(tx))
  /\ tx' = Tail(tx)
  /\ UNCHANGED <<fixed, frame, free, cq, awake, pc, taken, lost, departed>>

\* The NIC reads the frame as late as this.
Complete ==
  /\ nic # <<>>
  /\ departed' = Append(departed, frame[Head(nic)].order)
  /\ cq' = Append(cq, Head(nic))
  /\ nic' = Tail(nic)
  /\ UNCHANGED <<fixed, frame, free, tx, awake, pc, taken, lost>>

\* The kernel asks for a wakeup and goes to sleep on an empty ring.
Sleep ==
  /\ awake /\ tx = <<>>
  /\ awake' = FALSE
  /\ UNCHANGED <<fixed, frame, free, tx, nic, cq, pc, taken, lost, departed>>

-----------------------------------------------------------------------------
TxInit ==
  /\ header \in 1..(Word - 1) /\ len \in 0..MaxLength
  /\ frame = [f \in Frames |-> NoPacket]
  /\ free = [i \in 1..(NumFrames - 1) |-> NumFrames - i]
  /\ tx = <<>> /\ nic = <<>> /\ cq = <<>>
  /\ awake = FALSE
  /\ pc = "idle" /\ taken = 0
  /\ lost = 0
  /\ departed = <<>>

Sender == TxIdle \/ Take \/ SendNoFrame \/ SendNoDescriptor \/ SendPushed \/ Kick
Kernel == Transmit \/ Complete \/ Sleep

TxNext == Sender \/ Kernel

TxSpec == TxInit /\ [][TxNext]_tx_vars

\* The sender thread runs on; a kernel that is awake serves its rings.
TxFairness ==
  /\ WF_tx_vars(SendPushed) /\ WF_tx_vars(Kick) /\ WF_tx_vars(TxIdle)
  /\ WF_tx_vars(Transmit) /\ WF_tx_vars(Complete)

-----------------------------------------------------------------------------
\* Every variable has its type; the tx ring never holds more than it can.
TxTypeOK ==
  /\ header \in 1..(Word - 1) /\ len \in 0..MaxLength
  /\ frame \in [Frames -> [order : 0..MaxOrders, len : 0..MaxLength, ip : Words, udp : Words]]
  /\ {free, tx, nic, cq} \subseteq Seq(Frames)
  /\ Len(tx) <= TxSize
  /\ awake \in BOOLEAN /\ pc \in {"idle", "send", "kick"}
  /\ taken \in 0..MaxOrders /\ lost \in 0..MaxLostKicks
  /\ departed \in Seq(0..MaxOrders)

\* Every frame but the template is in one place, once, through refused sends and
\* completions; the template is never handed out.
FrameOwnership ==
  LET all == free \o tx \o nic \o cq
  IN  IsInjective(all) /\ Range(all) = Frames \ {Template}

\* Orders leave in the order they were taken, each once, with their own bytes: no
\* frame is rewritten while the NIC may still read it.
WireInOrder == \A i \in 1..Len(departed) : departed[i] = i

\* Beside the types: every frame on its way out has an IP checksum, updated from
\* the template's one, that a receiver accepts, and a UDP checksum that it checks
\* and accepts.
ChecksumsValid ==
  /\ TxTypeOK
  /\ \A f \in Range(tx \o nic) :
       /\ Fold[header + frame[f].len + frame[f].ip] = Word - 1
       /\ frame[f].udp # 0
       /\ Fold[UdpSum(frame[f].len, frame[f].order) + frame[f].udp] = Word - 1

\* A taken order leaves, unless its kick and those before it were lost and no
\* later order brings another one.
Stalled == pc = "idle" /\ ~awake /\ tx # <<>> /\ lost > 0
OrdersLeave ==
  \A o \in 1..MaxOrders : (taken >= o) ~> (Len(departed) >= o \/ Stalled)
=============================================================================

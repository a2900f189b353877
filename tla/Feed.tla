-------------------------------- MODULE Feed --------------------------------
(***************************************************************************)
(* The feed thread of apps/server/feed.c: it cuts an ITCH file into        *)
(* MoldUDP64 packets, in bulk from reads of any length (bulk_feed) or one  *)
(* packet per timestamp (timestamp_feed), numbers them, caches each one    *)
(* for the rewinder and then sends it, and ends the session.  A message    *)
(* is its length and timestamp; in the file and in a packet a 2-byte       *)
(* length comes before it.  Sleeping until a packet is due is left out.    *)
(***************************************************************************)
EXTENDS Integers, Sequences, FiniteSets

CONSTANTS
  Sizes, Times,   \* lengths and timestamps of messages
  MaxMessages,    \* bound: messages in the file
  Extra,          \* bytes of an incomplete message at the end of the file
  MaxPayload,     \* MAX_MSG_PAYLOAD
  BufSize,        \* itch_buf
  MinSize,        \* 11: shorter messages have no timestamp
  Every           \* drop_every and dup_every

Lengths == {2 + k : k \in Sizes}

ASSUME FeedAssumption ==
  /\ Sizes \subseteq Nat \ {0} /\ Times \subseteq Nat /\ Extra \subseteq Nat
  /\ {MaxMessages, MaxPayload, BufSize, MinSize, Every} \subseteq Nat \ {0}
  /\ \A k \in Lengths : k <= MaxPayload /\ k <= BufSize
  /\ \A x \in Extra : x < BufSize

VARIABLES
  mode,      \* what the command line asks for
  file, extra,
  have,      \* bulk: bytes read from the file
  next,      \* next message of the file to be packed
  packet,    \* messages of the packet being filled or sent
  seq,       \* next sequence number
  pc,
  cached,    \* history: packets given to rewinder_cache_packet
  wire,      \* history: packets sent
  eos        \* history: number in the end-of-session packet, 0 before

vars == <<mode, file, extra, have, next, packet, seq, pc, cached, wire, eos>>
input == <<mode, file, extra>>

\* Bytes of a payload that consists of the messages msgs of the file.
Length(msgs) ==
  LET used[k \in 0..Len(msgs)] == IF k = 0 THEN 0 ELSE used[k - 1] + 2 + file[msgs[k]].size
  IN  used[Len(msgs)]

Messages(a, b) == [k \in 1..(b - a + 1) |-> a + k - 1]
Bytes(a, b) == Length(Messages(a, b))
FileSize == Bytes(1, Len(file)) + extra

-----------------------------------------------------------------------------
Outgoing == [seq |-> seq, msgs |-> packet]

\* How often the packet is sent: drop_every leaves it out, dup_every sends it twice.
Copies ==
  IF seq % Every # 0 THEN 1
  ELSE IF mode = "lossy" THEN 0 ELSE IF mode = "chaotic" THEN 2 ELSE 1

\* rewinder_cache_packet, whether or not the packet is sent.
Cache == cached' = Append(cached, Outgoing) /\ UNCHANGED wire

Send == wire' = wire \o [k \in 1..Copies |-> Outgoing] /\ UNCHANGED cached

Step_Packet == 1

Step == Len(packet)

NextPacket ==
  /\ seq' = seq + Step /\ packet' = <<>>
  /\ pc' = IF mode = "timestamp" THEN "message" ELSE "pack"

Emit_SendFirst ==
  /\ \/ pc = "cache" /\ Send /\ pc' = "send" /\ UNCHANGED <<packet, seq>>
     \/ pc = "send" /\ Cache /\ NextPacket
  /\ UNCHANGED <<input, have, next, eos>>

\* The rewinder thread may be asked for the packet between the two steps.
Emit ==
  /\ \/ pc = "cache" /\ Cache /\ pc' = "send" /\ UNCHANGED <<packet, seq>>
     \/ pc = "send" /\ Send /\ NextPacket
  /\ UNCHANGED <<input, have, next, eos>>

-----------------------------------------------------------------------------
(* bulk_feed. *)
Leftover == have - Bytes(1, next - 1)

\* read returns any number of bytes that are there and for which there is room.
Read ==
  /\ pc = "read"
  /\ \E n \in 1..(BufSize - Leftover) : have + n <= FileSize /\ have' = have + n
  /\ pc' = "pack"
  /\ UNCHANGED <<input, next, packet, seq, cached, wire, eos>>

\* Message n is read completely and has room in a packet that begins at next.
Fits(n) ==
  n <= Len(file) /\ Bytes(1, n) <= have /\ Bytes(next, n) <= MaxPayload

Pack ==
  /\ pc = "pack" /\ Fits(next)
  /\ \E n \in next..Len(file) :
       /\ Fits(n) /\ ~Fits(n + 1)
       /\ packet' = Messages(next, n)
       /\ next' = n + 1
  /\ pc' = "cache"
  /\ UNCHANGED <<input, have, seq, cached, wire, eos>>

\* The leftover moves to the front of the buffer.
PackEnds ==
  /\ pc = "pack" /\ ~Fits(next)
  /\ pc' = "read"
  /\ UNCHANGED <<input, have, next, packet, seq, cached, wire, eos>>

ReadEnds_NoLeftover ==
  /\ pc = "read" /\ have = FileSize /\ Leftover = 0
  /\ pc' = "end"
  /\ UNCHANGED <<input, have, next, packet, seq, cached, wire, eos>>

\* At the end of the file what is left of an incomplete message is dropped.
ReadEnds ==
  /\ pc = "read" /\ (have = FileSize \/ Leftover = BufSize)
  /\ pc' = "end"
  /\ UNCHANGED <<input, have, next, packet, seq, cached, wire, eos>>

-----------------------------------------------------------------------------
(* timestamp_feed. *)
Closes_Overflow(m) ==
  packet # <<>> /\ Length(packet) + 2 + file[m].size > MaxPayload

\* Message m does not belong in the packet being filled.
Closes(m) ==
  /\ packet # <<>>
  /\ \/ file[m].ts # file[packet[1]].ts
     \/ Length(packet) + 2 + file[m].size > MaxPayload

\* A message without a timestamp is passed over, and one that does not belong in
\* the packet waits until that is flushed.
Message ==
  /\ pc = "message" /\ next <= Len(file)
  /\ \/ /\ file[next].size < MinSize
        /\ next' = next + 1 /\ UNCHANGED <<packet, pc>>
     \/ /\ file[next].size >= MinSize /\ Closes(next)
        /\ pc' = "cache" /\ UNCHANGED <<next, packet>>
     \/ /\ file[next].size >= MinSize /\ ~Closes(next)
        /\ packet' = Append(packet, next) /\ next' = next + 1 /\ UNCHANGED pc
  /\ UNCHANGED <<input, have, seq, cached, wire, eos>>

MessagesEnd ==
  /\ pc = "message" /\ next > Len(file)
  /\ pc' = IF packet # <<>> THEN "cache" ELSE "end"
  /\ UNCHANGED <<input, have, next, packet, seq, cached, wire, eos>>

-----------------------------------------------------------------------------
send_end_of_session ==
  /\ pc = "end"
  /\ eos' = seq
  /\ pc' = "done"
  /\ UNCHANGED <<input, have, next, packet, seq, cached, wire>>

Files == UNION {[1..n -> [size : Sizes, ts : Times]] : n \in 0..MaxMessages}

Init ==
  /\ mode \in {"normal", "lossy", "chaotic", "timestamp"}
  /\ file \in Files /\ extra \in Extra
  /\ have = 0 /\ next = 1 /\ packet = <<>> /\ seq = 1
  /\ pc = IF mode = "timestamp" THEN "message" ELSE "read"
  /\ cached = <<>> /\ wire = <<>> /\ eos = 0

Next ==
  \/ Read \/ Pack \/ PackEnds \/ ReadEnds \/ Message \/ MessagesEnd \/ Emit
  \/ send_end_of_session

Spec == Init /\ [][Next]_vars

\* The thread runs on.
FairSpec == Spec /\ WF_vars(Next)

-----------------------------------------------------------------------------
Packet == [seq : Nat \ {0}, msgs : Seq(Nat \ {0})]

\* Every variable has its type; the buffer holds what was read and not sent.
TypeOK ==
  /\ mode \in {"normal", "lossy", "chaotic", "timestamp"}
  /\ file \in Files /\ extra \in Extra
  /\ have \in 0..FileSize /\ next \in 1..(Len(file) + 1)
  /\ mode # "timestamp" => Leftover \in 0..BufSize
  /\ packet \in Seq(1..Len(file)) /\ seq \in Nat \ {0}
  /\ pc \in {"read", "pack", "message", "cache", "send", "end", "done"}
  /\ cached \in Seq(Packet) /\ wire \in Seq(Packet) /\ eos \in Nat

Sends(m) == mode # "timestamp" \/ file[m].size >= MinSize

\* The place of message m among the messages of the file that are sent.
Rank(m) == Cardinality({x \in 1..m : Sends(x)})

IsCached(m) == \E k \in DOMAIN cached : \E j \in DOMAIN cached[k].msgs : cached[k].msgs[j] = m

\* However reads cut the file, the number of a message, its packet's number plus
\* its place in the packet, is its place in the file, so that a client can ask for
\* whatever it misses: the packets hold every message read so far once and in
\* order, their numbers follow on, and the session ends after the last complete
\* message, with the number a client would expect next.
StreamIsFile ==
  /\ \A k \in DOMAIN cached : \A j \in DOMAIN cached[k].msgs :
       /\ Sends(cached[k].msgs[j])
       /\ cached[k].seq + j - 1 = Rank(cached[k].msgs[j])
  /\ \A k \in DOMAIN cached :
       cached[k].seq = IF k = 1 THEN 1 ELSE cached[k - 1].seq + Len(cached[k - 1].msgs)
  /\ \A m \in 1..(next - 1) : Sends(m) =>
       IsCached(m) \/ \E j \in DOMAIN packet : packet[j] = m
  /\ pc = "done" =>
       /\ \A m \in 1..Len(file) : Sends(m) => IsCached(m)
       /\ eos = Rank(Len(file)) + 1

\* Beside the types: packets are never empty or too long, and those of
\* timestamp_feed have one timestamp.
PacketsAreSound ==
  /\ TypeOK
  /\ \A k \in DOMAIN cached :
       /\ cached[k].msgs # <<>> /\ Length(cached[k].msgs) <= MaxPayload
       /\ mode = "timestamp" =>
            \A j \in DOMAIN cached[k].msgs : file[cached[k].msgs[j]].ts = file[cached[k].msgs[1]].ts

\* The rewinder has the message with the number n.
Covered(n) ==
  \E k \in DOMAIN cached : n \in cached[k].seq..(cached[k].seq + Len(cached[k].msgs) - 1)

\* What a client can find to be missing, the rewinder was given before: with a
\* packet on the wire goes the promise that it and every message before it, those
\* of packets that drop_every keeps back too, can be asked for again, and with the
\* end of the session that all of them can.
WireIsCached ==
  /\ \A i \in DOMAIN wire :
       /\ \E k \in DOMAIN cached : cached[k] = wire[i]
       /\ \A n \in 1..(wire[i].seq - 1) : Covered(n)
  /\ \A n \in 1..(eos - 1) : Covered(n)

\* Every session ends: no cut of the file makes the feed spin or stop.
SessionEnds == <>(pc = "done")
=============================================================================

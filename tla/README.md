# TLA+ verification of the HFT replay lab

This directory models the parts of the repository whose correctness depends on
interleavings, loss, reordering and bounded resources, checks the models with
TLC on small instances, and proves the central results for every instance with
TLAPS.

## 1. Inventory

Paths are relative to the repository root.

| Part | State | Operations | Talks to |
| --- | --- | --- | --- |
| Feed server `apps/server/feed.c` | sequence number, packet under construction | build and send a packet, drop or duplicate it on purpose, end the session | receiver (UDP), rewinder (shared cache) |
| Rewinder `apps/server/rewinder.c` | ring of cached packets, write cursor | cache a packet (feed thread); find and replay packets (rewinder thread) | receiver (UDP) |
| XDP filter and AF_XDP socket `src/afxdp/xdp_filter.bpf.c`, `src/afxdp/afxdp_receiver.c` | UMEM frames, free stack, fill ring, rx ring | init, refill, receive a burst, recycle, close | kernel, receiver |
| Market-data receiver `apps/client/udp_receiver.c` | expected sequence number, reorder pool of 512 slots, rate limit, recycle cursor | handle a packet, drain pending packets, poll replies, ask for a gap, recycle, stop | AF_XDP socket, rewinder, PARSER_ENGINE |
| PARSER_ENGINE ring `include/hft/ring_buffers/parser/` | two 32-bit cursors, 512K references | publish, consume | receiver to dispatcher |
| Dispatcher `apps/engine/dispatcher.cpp`, `src/itch/itch_handler.c` | heartbeat | parse, apply events, watchdog | books, strategy |
| Book adapter `include/hft/engine/itch_book_adapter.hpp` | open-addressing table of live orders | add, execute, cancel, delete, replace | external order book (submodule, absent) |
| Market maker and fill simulator `include/hft/engine/strategy/`, `include/hft/engine/sim/` | quotes, inventory, token buckets, panic and kill flags | book event, fill, kill, arm | risk, OMS, telemetry |
| Risk gate, OMS `src/engine/` | tokens, positions; ORDER_TO_EXC ring | check, submit | order sender |
| Order sender `apps/client/order_sender.c` | session sequence number, ACK carry buffer | send, reconnect, drain ACKs | order receiver (TCP) or AF_XDP transmit |
| AF_XDP transmit `src/afxdp/afxdp_tx.c` | frame pool | send, drain completions | kernel |
| Order receiver `apps/server/order_receiver.c` | expected sequence number, byte carry | accept, check, acknowledge | order sender |
| Telemetry `src/telemetry/telemetry.cpp` | control connection | kill and arm commands, statistics | control service, market maker |
| Wire observer, control service, dashboard `apps/observer/`, `services/control/`, `dashboard/` | reassembly buffers, pending orders, totals | capture, audit, command | telemetry sockets, browser |

What makes this system hard:

* packets, requests and replies are lost, duplicated, delayed and reordered;
* one UMEM frame is owned in turn by the kernel, the receiver and the
  dispatcher, without a copy, and the ring that pins it has a third, hidden
  cursor (`recycle_read`) that `publish_ref` does not look at;
* bounded pools (frames, fill ring, reorder slots, ring places, cache slots)
  run out in combinations no test sets up;
* two threads share the rewinder cache, and three the kill flags, without locks;
* TCP byte streams are cut anywhere, and sessions end and restart.

The properties a correct system has: the dispatcher sees the feed in order, at
most once, with every hole counted; frames and slots have one owner; a gap the
rewinder can fill closes; an order is accepted at most once and in order; a
kill lets at most the event in hand finish; limits are respected.

The full list of hazards, each at the line where it bites, is in
`PROJECT.json` under `hazards`.

## 2. Modules

| Module | Models | Proofs |
| --- | --- | --- |
| `Feed` | packetisation of the ITCH file | `FeedProofs` |
| `Rewinder` (`MCRewinder`) | retransmit cache shared by two threads | `RewinderProofs` |
| `UdpReceiver` (`MCUdpReceiver`) | market-data receiver, AF_XDP frames, PARSER_ENGINE | `UdpReceiverProofs` |
| `OrderedFeed` | what the receiver promises the dispatcher | refined by `UdpReceiver` |
| `Book` | live-order table and book adapter | `BookProofs` |
| `BookMap` | the same events on a plain map | compared with `Book` |
| `Engine` | dispatcher, market maker, fill simulator, kill switches | `EngineProofs` |
| `RateGate` | token buckets, risk gate, positions | `EngineProofs` |
| `Arithmetic` | minimum, maximum and absolute value, for the two above | |
| `OrderPath` | OMS, ORDER_TO_EXC, TCP order session with ACKs | `OrderPathProofs`, `OrderPathAcks` |
| `AfxdpTx` | AF_XDP order egress, checksums | `EngineProofs` |
| `MCEgress` | `RateGate` and `AfxdpTx` side by side, for one run of TLC | |
| `Observer` | wire observer and the audit of the control service | `ObserverProofs` |

How they meet. `Feed` establishes what `Rewinder` and `UdpReceiver` assume of
`Start`: packets in order, numbered by the messages before them, cached before they
are sent (`StreamIsFile`, `WireIsCached`). `Rewinder`'s `AnswerIsReplay` is the answer
`UdpReceiver`'s `Answer` delivers. `UdpReceiver` implements `OrderedFeed`, which is the
event stream `Book` and `Engine` start from; its packets may carry older timestamps
than the ones before them, which is why `RateGate` lets time run backwards. What
`Engine` and `RateGate` put into ORDER_TO_EXC is what `OrderPath` (TCP) or `AfxdpTx`
takes out. `Observer` watches the connection of `OrderPath`.

## 3. What is modelled

### UdpReceiver

The receiver thread with its AF_XDP socket, its reorder pool and the
PARSER_ENGINE ring, next to the dispatcher, the kernel, the clock, the network
and the rewinder.

State. A session is `NumPackets` packets, packet `p` starting at sequence number
`Start[p]`; so a packet's header is its index. `pool[i]` is the packet in reorder
slot `i`. `log` is every `packet_ref` ever published; entry `i` is in ring place
`i mod RingSize`, and `Data(i)` reads that place, so an entry the producer has
lapped is *not* read back. `next_read` and `recycle_read` are the dispatcher's
cursor and the receiver's private one. A frame is in `free`, `fq`, `rx`, `burst`,
`drops`, or pinned by an entry of `log`. `pc` is the place in the main loop.

Actions. One action per step of the main loop, in the code's order:
`RecycleConsumed`, `afxdp_recv_burst`, `poll_rewinder` (one reply each), then
`Nudge` on an empty burst, or `StartBurst`, `HandleLive`/`HandleOther` per packet
and `RecycleDrops`; `Stop` and `afxdp_close` after an end-of-session packet.
`handle_payload` has one disjunct per outcome of the function. `drain_pending` is
one step per iteration because the dispatcher runs in between. `Consume`,
`KernelReceive`, `Answer` and `RetransmitIntervalPasses` are the environment; a
request or a reply is lost when `Answer` returns a subset.

Left out: counters that only feed statistics (`gap_retrans_filled` and the like;
`gap_lost` is the part of `gap_dropped_packets` that skip-ahead adds),
interface selection and socket set-up, and the error branch of
`xsk_free_umem_frame`, which `FrameOwnership` shows to be unreachable.
`extract_feed_payload` is reduced to its verdict: data packet, end of session, or
junk. Recycling in chunks of `RX_BURST_SIZE` is one step.

`OrderedFeed` is the promise to the dispatcher: packets are delivered in
increasing order, each at most once; the position moves only by delivering or by
skipping forward, and what is skipped is counted.

### Rewinder

The cache ring of `rewinder.c`, written by the feed thread and searched by the
rewinder thread without a lock. The writer's stores (zero `start_seq`, header
fields, bytes in two halves, publish `start_seq`, advance the cursor, then send
the live packet) and the reader's loads (cursor, `start_seq`, `msg_count`, bytes
in two halves, the reload of `start_seq` and `msg_count` that decides where to go
on) are single steps. They are seen in program order, which is what x86 gives and
the build targets; a weaker memory model is not considered. `CursorMod` is the
width of the 32-bit write cursor. The reply of a request is recorded with the slot
it was found in, so that properties can tell a stale slot from a stale search.
`AnswerIsReplay` is the link to `UdpReceiver`: the packets sent for a request are
the ones `Answer` may deliver there.

### OrderPath

`submit` of the OMS with the slots of ORDER_TO_EXC, the TCP branch of
`order_sender_thread`, the connections, and `handle_client`. A `wire_order` and a
`wire_ack` are two chunks each, because the only thing that matters about where
TCP cuts the stream is whether a frame is whole; the first chunk holds the type and
the sequence number. `Loop` is one turn of the sender up to `send`; `SendTaken`,
`SendBlocked` (EAGAIN), `SendVanishes` (the connection is gone and the kernel does
not know yet) and `SendFails` (reconnect) are the outcomes of `send`. `Break` ends a
connection: any prefix of what was under way can still be read. `Accept`, `Recv`,
`Frame` and `Disconnect` are the receiver. `send_ack` sends the chunks that fit. A
frame that starts in the middle of an ACK has an arbitrary type byte, so reading it
either does nothing or yields an arbitrary number (`Garbage`). `sent`, `accepted` and
`lastAck` are history. The failures of `fopen` and `malloc` in `handle_client` close
the connection and are a `Break`. The cursors of the ring wrap at `CursorMod`. `cut`
marks the connections on which an ACK was cut short, or which began with half an
ACK in `carry`. Left out: the latency ring, the log file and statistics.

### Feed

Both modes of the feed thread. A file is a sequence of messages, each a length and a
timestamp, and perhaps part of one more. `Read` returns any number of bytes, `Pack`
fills one packet from what was read, `PackEnds` moves the leftover; `Message` is one
turn of `timestamp_feed`. `Emit` is two steps, because the rewinder may be asked in
between: `Cache` puts the packet into the retransmit cache, `Send` sends no copy, one or
two, by the sequence number and the mode, and moves the number on. `Length` is `payload_used`. `Rank` is the place of a message
among those that are sent (`timestamp_feed` skips short ones), so `StreamIsFile` says that
numbers are places in the file without putting a stream together. Sleeping until a
packet is due is left out.

### Book and BookMap

One symbol. `slots` is the open-addressing table, `pool` the orders of the external
book, which gives out any free handle; `hash` is any function, fixed at the start.
The actions are the methods of the adapter as `apply_event` calls them, with the
trade it shows to the simulator (`sim`). Beside them, `BookMap` applies the same
events to a function from references to orders. The feed is taken to reuse no live
reference and not to cross the book. The comment at `itch_book_adapter.hpp:98` admits
that an add may match; such an add would leave a stale handle, which cannot be judged
without the source of the external book.

### Engine

`Event` is `on_book_event` up to the prices; `Message` is one side of its end, a step
of its own because another thread may store a flag in between. Prices are any pair
`bid < ask` (the averages are floating point). The token buckets and the risk gate may
refuse any message. `Look` is the dead-man thread; `KillGlobal`, `SetPanic`, `ArmAll` and
`ArmNext` are the commands of the control thread, `arm_all` shard by shard. `late` is
history: the messages submitted since the global kill. What the exchange holds of the
quotes is not modelled. The strategy ignores whether `engine_submit_quote` took a message,
so nothing relates the two, and no code of the repository sends the mass-cancel that
the comment at `mm_mean_reversion.hpp:266` mentions.

### RateGate

`refill_buckets`, `inline_refill`, `try_consume_msg` and `check_and_fill`, with the refusal
of a full ring after the order was booked. An event has any timestamp. History: every
bucket carries a leaky counter `level` that says how many messages passed in any
window, so that the rate limit is an invariant. Its definitions have names of their own
(`GateSpec`, `BookEvent`, `SubmitOrder`), so that one module can extend it and `Engine`.

### AfxdpTx

`afxdp_tx_send` by its outcomes (no frame, no descriptor, pushed), the kick, the idle
turn of the sender, and the kernel, which takes descriptors only while it is awake. A
kick may be lost because the result of `sendto` is ignored. Checksums are computed as
the code does, over words of `Word` values. The retry loop of the sender never kicks:
`TxAssumption` says that fewer kicks are lost than frames or descriptors exist, since
otherwise it would spin for ever. Here too the names (`TxSpec`, `TxInit`, `TxIdle`) are
apart from those of `Engine`, and the orders on the wire are `departed`.

### Observer

Both directions of the order connection in pieces of half a message, cut into
segments of any length; `append_bytes`, `drain_orders`, `drain_acks` and the telemetry
connection; `rememberOrder`, `prunePendingOrders` and `emitOrderAckAudit` of the control
service, which may crash and restart. `odd` are the messages whose second half may pass
for a type byte.

The observer looks at the ports and the flags of a segment. `OrderSegment` and `AckSegment`
are whole turns of its loop: a FIN (or RST) of either direction clears both streams
(`Kept`), then the data of the same segment is appended and drained. `ControlSegment` is a
flag without data, `NewConnection` the SYN of the next connection. The segments are those
a packet socket sees, which TCP would hide from its two ends: the next pieces in turn,
earlier ones again, ones of an older connection after the SYN of the next, or none when
the socket has no room (`OrdersMissed`, `AcksMissed`). What disturbs a stream counts as a
mishap (`Mishap`): anything out of turn or missed, a buffer that overflows, and a clearing
that throws half a message away. `tainted` are the connections concerned, `losses` the
mishaps of the last connection's orders. A missed SYN, restarts of the observer, feed
packets and health lines are left out.

## 4. Runs

| Run | Shows |
| --- | --- |
| `receiver_session` | `FrameOwnership`: every frame is in exactly one place; `SlotOwnership`: a published slot keeps its packet until recycled and no slot leaks; `RingNeverLapped`: frames and slots run out before the ring does; `NothingDeliverableWaits`: after a drain nothing in order is left in the pool; `FeedSpec`: refinement of `OrderedFeed`; and, under fairness, `GapCloses`. |
| `receiver_unmap` | Violation of `PinnedFramesMapped`: the UMEM is freed while references into it are unread. |
| `rewinder_cache` | `CacheHolds`: the ring holds the packets cached last, each in its slot; `MissOnlyOutsideWindow`: a search fails only for a packet that has left the ring, is not in it yet, or was written before the cursor wrapped; `IntactUnlessOverwritten`: what is sent is the packet found, unless its slot was reused meanwhile; `AnswerIsReplay`: an undisturbed answer is the run of packets the receiver asked for. |
| `rewinder_torn` | Violation of `OverwritesAreMisses`: a slot reused during a search gives a wrong or mixed packet instead of a miss. |
| `feed_packets` | `StreamIsFile`, `PacketsAreSound`; `WireIsCached`: a packet on the wire, and every number before it, can be asked for again; under fairness, `SessionEnds`: for every file and every cut of it by `read`. |
| `book_table` | `EntriesMatchOrders`, `HalfLoad` (insert terminates), `TableIsMap`: the table and the book agree with a map, for every hash function. |
| `engine_kill` | `InventoryBounded`, `BlockedSideIsQuiet`, `KillIsPrompt` and, under fairness, `HangIsNoticed`. |
| `engine_flatten` | Violation of `FlattenTearsDown`: a kill or a panic leaves the rest of a partly filled quote in the simulator, where it can still be filled. |
| `egress` | Of `RateGate`, `RateRespected`: timestamps in any order let no bucket pass more than burst, rate and one message; `SentWithinLimit`: positions sent stay within the limit up to what the ring refused. Of `AfxdpTx`, `FrameOwnership`, `WireInOrder`, `ChecksumsValid` and, under fairness, `OrdersLeave`, with a lost kick. |
| `orders_sessions` | `AcceptedOnceInOrder`, `SessionsAgree` (no gap, duplicate or bad checksum), `LostOnlyByBreak`, `EveryOrderHandedOver`, `AckedWasAccepted` and, under fairness, `OrdersArrive` and `AcksArrive`, across connections, with wrapping cursors and ACKs that are dropped or cut. |
| `orders_cut` | Violation of `AckSupersedes`: after an ACK that was sent in part, the ACKs that follow on the connection are misread. |
| `observer_audit` | `EveryOrderSeen`: no order is overlooked while the order stream is undisturbed; `ResyncCost`: a disturbance costs a bounded number of orders that did arrive; `AuditMatches`: an ACK is paired with its own order. |

Each module has a `TypeOK` (`GateTypeOK` in `RateGate`, `TxTypeOK` in `AfxdpTx`). All are
proved; some are checked as the first conjunct of another invariant of the run.

Limits of the code that the properties state as conditions:

* when every reorder slot is pending, the reply that would close the gap is dropped
  as well (`GapCloses`), and an end of session abandons what waits behind a gap;
* after the rewinder's cursor has wrapped, packets written before the wrap are not
  found, the one cached last among them right after the wrap (`Window`);
* an ACK that is cut short, or half an ACK carried over a reconnect, misframes the
  ACKs that follow on that connection (`cut`); `acked_seq` only feeds statistics;
* orders the kernel took for a connection that breaks are lost (`LostOnlyByBreak`);
* what a partial fill leaves of a quote is forgotten by the strategy: `flatten` does
  not remove it and it can be filled after a kill (`FlattenTearsDown`);
* the dead-man thread ends when it has fired; after a re-arm nobody watches
  (`HangIsNoticed`);
* an order refused by a full ring stays booked in the risk gate (`SentWithinLimit`);
* an order whose kick was lost stays in the tx ring until a later order kicks
  (`Stalled` in `OrdersLeave`);
* a FIN or RST of one direction makes the observer forget half a message of the other,
  and a retransmitted segment is read twice (`losses`, `tainted`).

Bounds.

* `UdpReceiver`: five packets of one or two messages, two frames, two slots, a fill
  ring of one, bursts of two, three live deliveries. Five packets exceed frames plus
  slots (four), so `RingNeverLapped` can fail; two pending packets fill the pool, so
  skip-ahead happens; a fill ring smaller than the frame set exercises the free
  stack; `ReqMax` and `MaxReplay` of two cut requests and replays short. Symmetry is not
  used, because it is unsound for `GapCloses`. Deadlock is not checked: after
  `afxdp_close` the thread has returned.
* `Rewinder`: ten packets in a ring of four with a three-bit cursor: every slot is
  reused during a search and the cursor wraps; replays of at most three packets end
  before the request does; every second message number is dropped on the live path.
* `Feed`: files of up to four messages of two sizes, with and without a cut one at
  the end; a payload of eight and a buffer of nine bytes are filled exactly, overrun
  by one, and left with a remainder.
* `Book`: three references, room for two orders, four slots, every hash function:
  collisions, a full pool and a table of tombstones all occur.
* `Engine`: one shard (shards share only the ring and the global flag), quotes of two
  with trades of one and two: partial fills, both bands passed, a full ring.
* `RateGate`: two symbols, three times, a burst of two for rates of one and three in a
  second of two units: division remainders and time running back.
* `OrderPath`: five orders in a ring of two with two-bit cursors, so that they wrap;
  two connections, room for three chunks in either direction. Three is odd, so a
  buffer can fill up in the middle of an order and of an ACK. The sender polls every
  second turn and reads one ACK per poll, less than it sends, like 16 per 64 in the
  code.
* `AfxdpTx`: three frames besides the template, two descriptors, four orders, one
  lost kick: pool and ring run out one before the other. Words of eight values let
  every header and length meet every carry. In `MCEgress` a behaviour steps either this
  module or `RateGate`, since they share no state.
* `Observer`: two connections of two orders, segments of up to four pieces against
  a buffer of three, one mishap, one pending order, one crash. Two orders are enough for
  half an order to swallow the next one, and two connections for a number to be reused.
  The same run with three orders also passes (2.6 million states, eleven minutes).

Deadlock is not checked either in `Rewinder`, `Feed`, `Engine`, `AfxdpTx` and `Observer`:
the traffic is bounded and the system may come to rest.

Fairness. `UdpReceiver`: the receiver and the dispatcher spin on pinned cores without
blocking: weak fairness. A retransmit interval passes: weak fairness. A request
repeated for ever is once answered without loss: strong fairness, the usual
assumption on a lossy channel. Nothing is assumed of live packets. `OrderPath`: both
threads spin, or block only in `recv` and `accept`: weak fairness; that `recv` returns
after a break assumes that the peer's close reaches the receiver. An ACK that has
arrived is read by one of the polls: strong fairness. Connections are not assumed to
break or to last. `Feed`: the thread runs on. `Engine`: only the dead-man thread wakes up
every period; nothing is assumed of the dispatcher it watches. `AfxdpTx`: the sender
spins, and a kernel that is awake serves its rings.

## 5. Proofs

`UdpReceiverProofs` proves, for every session, every finite frame set and every
pool and ring size allowed by the assumptions of `UdpReceiver`:

* `TypeCorrect`: `Spec => []TypeOK`. `TypeOK` is inductive as it stands: the cursor
  order `recycle_read <= next_read <= Len(log)` is part of it.
* `ReceiverImplementsOrderedFeed`: `Spec => FeedSpec`. Needs `JoinInv` (before the
  first packet nothing is published or lost) besides `TypeOK`. Every action
  either leaves the published packets, the expected number and the loss count
  alone or is one `OrderedFeed` step.

The same module proves under the same assumptions:

* `FramesAreOwned`: `Spec => []FrameOwnership`, the free stack, the fill ring, the
  rx ring, the burst, the drop list and the pinned references partition the UMEM;
* `SlotsAreOwned`: `Spec => []SlotOwnership`, a published slot keeps its packet until
  it is recycled;
* `RingIsNeverLapped`: `Spec => []RingNeverLapped`, the producer never overwrites an
  entry `recycle_consumed_frames` has still to read;
* `PoolIsDrained`: `Spec => []NothingDeliverableWaits`.

The inductive invariant is `OwnInv`. None of the four is inductive alone: recycling
reads the ring entry at `recycle_read`, so frames and slots stay owned only if the
entry is the one published (not lapped); and the ring is not lapped only because
every unrecycled entry pins a different frame or slot, so that there are at most
as many as frames plus slots (the pigeonhole step, `RingBound`). `SlotInv` adds that
a published slot's packet is below the expected number and a pending one's is not,
which is how the code tells them apart. `OwnInv` was also checked by TLC.

`RingAssumption` (frames plus slots are fewer than ring places: 4096 + 512 against
524288) is the only assumption that is about sizes in the code.

`EngineProofs` proves, for every number of shards, limits, quote and ring sizes:
`TypeCorrect`, `InventoryIsBounded`, `BlockedSideStaysQuiet` and `KillsArePrompt`. The inventory bound is not inductive, since a
fill moves the inventory. `Exposed` is: it counts every quote in the simulator as if
it were filled. A new quote keeps it only because a blocked side does not quote, so
it is proved together with `Remembers`: a quote the strategy remembers is whole in the
simulator, and one it has forgotten is not. The kill bound
adds to `late` the messages the event in hand may still submit (`KillInv`).

The same module proves about `RateGate`, for every rate, burst and order of timestamps,
`RateIsLimited` and `PositionIsLimited` (and `BucketsAreTyped`). The rate bound is not
inductive. The invariant `Budget` is: messages that passed, tokens that are left and
time not yet turned into tokens together stay below the burst plus one message. It
is kept because a refill moves its clock only when it adds at least one token, and
never back.

About `AfxdpTx` it proves, for every number of frames and descriptors and every order in
which kicks are lost, fewer than would fill the tx ring or empty the pool (`TxAssumption`), `FramesHaveOneOwner` and `OrdersLeaveInOrder`. The invariant says that the
free stack, the tx ring, the NIC and the completion ring hold each frame but the
template once, and that the frames in the NIC and the tx ring hold the orders that
follow the ones on the wire; the second part needs the first, because `alloc_frame`
must not hand out a frame that is still to be read.

`OrderPathProofs` proves, for every number of orders and connections, every ring size
that divides the wrap of the cursors and every buffer size, `SessionNumbersAgree` and
`AcceptedOnce`. Both follow from one invariant, `OrdersInductive`, whose parts need each
other:

* `RingInv`: the ring holds consecutive order ids across the wrap of its 32-bit
  cursors. It is kept because a full ring refuses, so that the slot `submit` writes is
  none of those still to be read (`SlotsDiffer`);
* `HandInv`: the order in hand is the one at `next_read`, and while the connection lives
  its stream (buffer of the receiver and socket buffers together) ends where the sender
  is, counted in chunks from the number the receiver expects;
* `FrameInv`: in every stream first and second chunks alternate and are numbered from
  what the receiver expects, so `handle_client` always finds a whole order with that
  number. A break cuts the end of a stream off and a reconnect starts an empty one;
* `OrderInv`: complete orders rise from the accepted ones through the streams, oldest
  connection first, to the ring. An order sent again is no duplicate, because the part
  of it that an older stream holds has no second chunk.

`OrdersHandedOver` proves `EveryOrderHandedOver`, `TypeOK` included, from `OrdersInductive`
and `SentInv`: the orders handed over are exactly those before the one at `next_read`,
rising within a connection and from one connection to the next. It is kept because the
order in hand is the one at `next_read` (`HandInv`) and a connection not yet made has
carried nothing. `WireTypes`, `AckTypes` and `RestTypes` bound the buffers; that an ACK
stays within its socket buffer uses `SessionsAgree`, because only a gap sends two.

`OrderPathAcks` proves the three invariants about loss and acknowledgement:

* `OrdersLost`: `Spec => []LostOnlyByBreak`. It needs `LinkInv`: the sender's number is one
  more than the orders handed over on the connection, a complete order in a stream is the
  one handed over under its number, of every connection a first part is accepted (up to
  the number read next, while it is served), and a connection the receiver is through
  with is empty. `HandInv` then says that of a live connection nothing is missing.
* `AcksAccepted`: `Spec => []AckedWasAccepted`, and `AcksSupersede`:
  `Spec => []DroppedAcksSuperseded`, the true part of the comment that `orders_cut` refutes:
  as long as no ACK was cut, one that went out whole supersedes those that found no room.
  Both need `AckInv`. What the sender has still to read (`Pending`: what `drain_acks`
  carries over and the socket buffer together) is whole ACKs below the number expected
  next, and the last ACK that went out whole is read or is the last of them. `drain_acks`
  keeps it wherever `recv` cuts the stream, because it carries over an odd chunk. Where an
  ACK was cut, or half a one carried into the next connection, nothing is claimed (`cut`).

`OrderPathAssumption` says that the bounds are positive and that the ring size divides
the wrap and is smaller (524288 and 2^32). The proof does not use the bounds on orders,
connections and buffers otherwise.

`RewinderProofs` proves the four invariants of `Rewinder` for every session, request,
cache size, limit of replies and wrap of the cursor that the cache size divides:
`RewinderHolds`, `RewinderMisses`, `RewinderIntact` and `RewinderAnswers`. They follow from
`RewinderInductive`, whose parts are:

* `WriterInv` and `SlotInv`: the cursor is the number of packets passed, modulo the wrap;
  the slot of every packet not yet taken again is whole; a number found in a slot is that
  of a packet published there, because `rewinder_cache_packet` zeroes it first and stores
  it last;
* `SearchInv`: what the search loaded stays true only as long as the packet is not
  overwritten, so everything about the packet at hand is conditional on its being held;
* `MissInv`: no packet the search owes (wanted, in the window of the cursor it loaded and
  held) lies behind it. It is the part that makes the lock-free search correct: the scan
  goes from the newest packet back, while the writer only takes away the oldest;
* `ReplyInv` and `AnswerInv`: while no replayed packet has been overwritten, replies are
  consecutive packets from the one asked for and the request continues after the last.

`BookProofs` proves, for every hash function, pool size, price range and set of
references, `BookEntries`, `BookHalfLoad` and `BookIsMap`. In the invariant (`Agree`) every live
entry can be reached from its key's place without passing an empty slot, and live
entries, orders of the book and entries of the map correspond one to one. Reachability
is what tombstones are for: `erase` keeps it, an emptied slot would not. `insert` needs a
free slot before the probing wraps, which is the half load; that in turn is a count of
handles against `PoolSize`, since handles are the book's and are given out once. That
the table has at least twice as many slots as the pool has orders follows from `NumSlots`
being the least power of two that is large enough. The external book is assumed to give
out any free handle, as in the model.

`EngineProofs` also proves `ChecksumsHold`: for every word size, header and order, both
checksums of every packet in flight verify. `Fold` is a recursive function. Its closed
form (0 for 0, and otherwise the number from 1 to `Word - 1` with the same remainder
modulo `Word - 1`) is shown to satisfy the defining equation, and a function that
satisfies it to be unique, by the least number at which two of them differ
(`FoldIsFolded`). That the sum of a correct packet folds to all ones is then arithmetic
modulo `Word - 1`, for the incremental update of `csum_replace2` as well. The invariant
`SumInv` says that a frame in flight holds the packet built for its order, which needs
`FrameOwnership`: no frame is written while it is in flight.

`FeedProofs` proves, for every file, every set of message sizes and timestamps, every
payload and buffer size that holds a message, every mode and every cut of the file by
`read`: `FeedStreamIsFile`, `FeedPacketsAreSound` (with `TypeOK`) and `FeedWireIsCached`. The
inductive invariant `FInv` has, besides `TypeOK`:

* `Numbered`: packets follow on from 1, the next number is one more than the messages in
  them, and a message of packet `k` at place `j` has the rank `seq + j - 1`;
* `AllSound`: what `PacketsAreSound` says of each packet;
* `Taken`: every message before `next` that is sent is in a packet or in the one being
  filled;
* `Phase`: what holds in each part of the code. In bulk mode the next number is the next
  message, and when `read` is called again the message at `next` is not complete in the
  buffer (`~Fits(next)`), so that at the end of the file nothing complete is left
  (`NothingLeft`: what is left is shorter than a message, or than the buffer). In timestamp
  mode the packet being filled is due next, is not too long and has one timestamp;
* `Covers`: every number before `After` is in a cached packet, and so is what is on the wire
  and, between the two steps of `Emit`, the packet about to be sent. `After` is what makes
  this inductive: while a packet is cached and not yet sent, the numbers in use end
  behind it.

The proof rests on what `Length` and `Rank` are for one message more (`LengthAppend`,
`RankNext`), which is where induction is needed: `used` in `Length` is a recursive function,
and a function that satisfies its equation is unique.

`ObserverProofs` proves, for every number of orders, connections, mishaps and crashes, every
buffer and pipe size, every set of orders whose bytes look like a type, and every cut of
the connection into segments: `ObserverEveryOrderSeen` and `ObserverAuditMatches` (with
`TypeOK`). The inductive invariant `WInv` has, besides `TypeOK`:

* `Aligned`: while a direction is undisturbed, its buffer holds half a message at most, the one
  that the bytes taken so far break off in, and `seen` is every complete order. This is
  what `drain_orders` needs: begun at a message boundary it stays on boundaries, so that
  no byte is taken for a type that is none;
* `Own`: the buffers hold bytes of this connection, because a SYN clears them, or of a
  connection that is tainted;
* `Dropped`: while the telemetry socket is not open, no line is under way and no order is
  pending, since only a crash of the service closes it;
* `Pairing`: for each ACK line on its way, and for each ACK that the connection may still
  carry, the last order line before it with its number is its own order, or there is none
  and no other order is pending under the number. All connections number from 1, so this
  is the point at which an ACK could meet an order of an earlier connection;
* `AuditPairs`: what `AuditMatches` says of the last record.

The loop of `drain_orders` is a recursive function of the place in the buffer. What it
does with a whole buffer (`DrainSound`, `DrainAligned`) is shown by the least number of
pieces left for which it would not hold (`NoLeast`).

Induction over numbers is available to these proofs in this form: a non-empty set of
natural numbers has a least member (`WellFoundedInduction`).

`EngineAssumption`, `RateAssumption` and `TxAssumption` only say that sizes are natural
numbers, that template and symbol names are apart, that a length fits
a word, and (needed by no proof) that the lost kicks are too few to fill the tx ring or
to empty the pool. `CacheAssumption` and
`StartAssumption` say that the cache size divides the wrap of the cursor (65536 and 2^32) and
that sequence numbers rise; `BookAssumption` that sizes are positive. `FeedAssumption` says
that sizes are positive and that every message, and what is left of an incomplete one,
fits the payload and the buffer (ITCH messages have at most 50 bytes, a payload has more
than 1400 and the buffer 65536). `ObserverAssumption` says that sizes are positive and that
the bounds on mishaps and crashes are numbers.

Only model-checked: liveness, which is out of the prover's reach, and `ResyncCost` of
`Observer`, which counts the orders lost to each gap in the stream: it would need an
induction over the gaps of a buffer that is out of step.

## 6. Not modelled

* The scripts, which only report on finished runs.
* Decoding of ITCH messages, the XDP filter program, HTTP, SSE, database, queue
  and command forwarding of the control service, and the dashboard: input and output
  with next to no state that a property could be about.
* The floating-point price model and profit and loss of the market maker: TLC has no
  floating point, and the properties hold for any prices.
* The framing of the command connection of `telemetry.cpp` and its statistics; `stop`,
  which has no caller.
* The restart of the feed server: the receiver never compares sessions, so there is
  no recovery to check.
* The external order book, a submodule that is not in the repository.
* Socket set-up, interface selection, logging and statistics everywhere.

------------------------------- MODULE Engine -------------------------------
(***************************************************************************)
(* The dispatcher thread of apps/engine/dispatcher.cpp with the market     *)
(* maker (strategy/mm_mean_reversion.hpp), the fill simulator              *)
(* (sim/fill_sim.hpp) and the way into ORDER_TO_EXC, next to the threads   *)
(* that stop and restart it: the control thread of telemetry.cpp and the   *)
(* dead-man thread.  Prices come out of floating-point averages: any pair  *)
(* bid < ask.  Time is left out: the token buckets, which RateGate models, *)
(* and the risk gate may refuse any message.                               *)
(***************************************************************************)
EXTENDS Arithmetic

CONSTANTS
  NumShards,     \* universe::kSize
  QuoteQty,      \* Params.quote_qty
  HardLimit,     \* hard_band_frac * max_inventory
  PanicLimit,    \* panic_band_frac * max_inventory
  Threshold,     \* Params.requote_threshold_ticks
  RingSize,      \* ORDER_TO_EXC_SIZE
  MaxPrice,      \* bound: prices are 1..MaxPrice
  MaxTrade,      \* bound: quantity of a trade
  MaxAhead       \* bound: quantity of the queue ahead

ASSUME EngineAssumption ==
  /\ {NumShards, QuoteQty, Threshold, RingSize, MaxPrice, MaxTrade}
       \subseteq Nat \ {0}
  /\ {HardLimit, PanicLimit, MaxAhead} \subseteq Nat

VARIABLES
  mm,            \* State of each shard, with its FillSim
  ev,            \* the book event in hand
  queued,        \* orders in ORDER_TO_EXC
  global_kill,
  sweep,         \* shard arm_all is at, or 0
  beat, watch,   \* heartbeat since the last look of the dead-man thread
  late           \* history: messages submitted since the global kill

vars == <<mm, ev, queued, global_kill, sweep, beat, watch, late>>

Shards == 1..NumShards
Sides == {"Buy", "Sell"}
Prices == 1..MaxPrice

-----------------------------------------------------------------------------
(* FillSim. *)
NoQuote == [px |-> 0, qty |-> 0, ahead |-> 0]

OurPxBetter(d, q, px) == IF d = "Buy" THEN q.px > px ELSE q.px < px

\* onTrade: a sweep through our price fills everything, a trade at our price
\* first eats the queue ahead.
FillQty(d, q, px, n) ==
  IF OurPxBetter(d, q, px) THEN q.qty
  ELSE IF q.px = px THEN MinOf(q.qty, n - MinOf(q.ahead, n)) ELSE 0

AfterTrade(d, q, px, n) ==
  LET left == q.qty - FillQty(d, q, px, n)
  IN  [px |-> q.px, qty |-> left,
       ahead |-> IF left = 0 THEN 0
                 ELSE IF q.px = px THEN q.ahead - MinOf(q.ahead, n) ELSE q.ahead]

-----------------------------------------------------------------------------
(* MarketMaker. *)
OnFill_KeepsResting(st, d, n) ==
  [st EXCEPT !.inv = IF d = "Buy" THEN @ + n ELSE @ - n]

\* on_fill forgets the quote even when part of it is left.
OnFill(st, d, n) ==
  [st EXCEPT !.inv = IF d = "Buy" THEN @ + n ELSE @ - n, !.resting[d] = 0]

Trades == [side : Sides, px : Prices, qty : 1..MaxTrade]
NoTrade == [side |-> "Buy", px |-> 0, qty |-> 0]

\* The trade an executed order stands for, seen by the simulator.
Traded(st, t) ==
  LET q == st.sim[t.side]
      n == FillQty(t.side, q, t.px, t.qty)
      after == [st EXCEPT !.sim[t.side] = AfterTrade(t.side, q, t.px, t.qty)]
  IN  IF t.qty = 0 \/ q.qty = 0 THEN st
      ELSE IF n = 0 THEN after ELSE OnFill(after, t.side, n)

\* flatten drops the quotes the strategy remembers.
Flatten(st) ==
  [st EXCEPT !.sim = [d \in Sides |-> IF st.resting[d] # 0 THEN NoQuote ELSE @[d]],
             !.resting = [d \in Sides |-> 0]]

PanicBand(st) == Abs(st.inv) > PanicLimit

Blocked_AtTwice(st, d) ==
  Abs(st.inv) > 2 * HardLimit /\ IF d = "Buy" THEN st.inv > 0 ELSE st.inv < 0

\* block_buy and block_sell.
Blocked(st, d) ==
  Abs(st.inv) > HardLimit /\ IF d = "Buy" THEN st.inv > 0 ELSE st.inv < 0

Requote(st, d, px) ==
  st.resting[d] = 0 \/ Abs(px - st.resting[d]) >= Threshold

WantsMessage(st, d, px) ==
  IF Blocked(st, d) THEN st.resting[d] # 0 ELSE Requote(st, d, px)

Cancelled(st, d) == [st EXCEPT !.sim[d] = NoQuote, !.resting[d] = 0]

Quoted(st, d, px, ahead) ==
  [st EXCEPT !.sim[d] = [px |-> px, qty |-> QuoteQty, ahead |-> ahead],
             !.resting[d] = px]

\* A cancel goes out before the quote of the other side; else Buy, then Sell.
SideAt(st, pc) ==
  LET first == IF Blocked(st, "Sell") THEN "Sell" ELSE "Buy"
  IN  IF pc = "first" THEN first ELSE CHOOSE d \in Sides : d # first

Idle == [pc |-> "idle", shard |-> 0, px |-> [d \in Sides |-> 0]]

Stopped_SymbolOnly(s) == mm[s].panic

Stopped(s) == global_kill \/ mm[s].panic

\* apply_event: the trade the book change may carry, the kill and panic check,
\* then bands and prices.  The messages follow as steps of their own, because
\* the flags may change in between.
Event(s) ==
  /\ ev.pc = "idle"
  /\ \E t \in Trades \cup {NoTrade} :
       LET st == Traded(mm[s], t)
       IN  \/ /\ Stopped(s)
              /\ mm' = [mm EXCEPT ![s] = Flatten(st)]
              /\ UNCHANGED ev
           \/ /\ ~Stopped(s)                       \* no usable prices
              /\ mm' = [mm EXCEPT ![s] = st]
              /\ UNCHANGED ev
           \/ /\ ~Stopped(s) /\ PanicBand(st)
              /\ mm' = [mm EXCEPT ![s] = Flatten([st EXCEPT !.panic = TRUE])]
              /\ UNCHANGED ev
           \/ /\ ~Stopped(s) /\ ~PanicBand(st)
              /\ mm' = [mm EXCEPT ![s] = st]
              /\ \E bid, ask \in Prices :
                   /\ bid < ask
                   /\ ev' = [pc |-> "first", shard |-> s,
                             px |-> [d \in Sides |-> IF d = "Buy" THEN bid ELSE ask]]
  /\ UNCHANGED <<queued, sweep, beat, watch, global_kill, late>>

RingFull == queued >= RingSize

\* engine_submit_quote: the risk gate may refuse a quote, never a cancel; a full
\* ORDER_TO_EXC refuses both.  The strategy ignores the answer.
Submit(s, d, passed) ==
  LET taken == (passed \/ Blocked(mm[s], d)) /\ ~RingFull
  IN  /\ queued' = IF taken THEN queued + 1 ELSE queued
      /\ late' = IF global_kill THEN late + 1 ELSE late

\* One side of the end of on_book_event, with and without a token.
Message(s) ==
  /\ ev.pc # "idle" /\ ev.shard = s
  /\ LET st == mm[s]
         d == SideAt(st, ev.pc)
     IN  \/ /\ WantsMessage(st, d, ev.px[d])
            /\ \E passed \in BOOLEAN : Submit(s, d, passed)
            /\ \E ahead \in 0..MaxAhead :
                 mm' = [mm EXCEPT ![s] = IF Blocked(st, d) THEN Cancelled(st, d)
                                         ELSE Quoted(st, d, ev.px[d], ahead)]
         \/ UNCHANGED <<mm, queued, late>>
  /\ ev' = IF ev.pc = "first" THEN [ev EXCEPT !.pc = "second"] ELSE Idle
  /\ UNCHANGED <<sweep, beat, watch, global_kill>>

\* order_sender takes an order.
Drain ==
  /\ queued > 0
  /\ queued' = queued - 1
  /\ UNCHANGED <<mm, ev, sweep, beat, watch, global_kill, late>>

\* End of a packet, or 1024 idle turns of consume.
Heartbeat ==
  /\ ev.pc = "idle" /\ watch # "off"
  /\ beat' = TRUE
  /\ UNCHANGED <<mm, ev, queued, sweep, watch, global_kill, late>>

-----------------------------------------------------------------------------
(* Kill switches. *)
Look_NeverStale ==
  /\ watch = "on"
  /\ beat' = FALSE
  /\ UNCHANGED <<mm, ev, queued, sweep, watch, global_kill, late>>

\* One period of the dead-man thread, which ends when it has fired.
Look ==
  /\ watch = "on"
  /\ beat' = FALSE
  /\ IF beat THEN UNCHANGED <<watch, global_kill>>
             ELSE watch' = "fired" /\ global_kill' = TRUE
  /\ UNCHANGED <<mm, ev, queued, sweep, late>>

\* The commands of apply_command_line; one at a time, arm_all shard by shard.
KillGlobal ==
  /\ sweep = 0
  /\ global_kill' = TRUE
  /\ UNCHANGED <<mm, ev, queued, sweep, beat, watch, late>>

SetPanic(s, on) ==
  /\ sweep = 0
  /\ mm' = [mm EXCEPT ![s].panic = on]
  /\ UNCHANGED <<ev, queued, sweep, beat, watch, global_kill, late>>

ArmAll ==
  /\ sweep = 0
  /\ global_kill' = FALSE
  /\ late' = 0
  /\ sweep' = 1
  /\ UNCHANGED <<mm, ev, queued, beat, watch>>

ArmNext ==
  /\ sweep # 0
  /\ mm' = [mm EXCEPT ![sweep].panic = FALSE]
  /\ sweep' = IF sweep = NumShards THEN 0 ELSE sweep + 1
  /\ UNCHANGED <<ev, queued, beat, watch, global_kill, late>>

Init ==
  /\ mm = [s \in Shards |->
             [inv |-> 0, panic |-> FALSE, resting |-> [d \in Sides |-> 0],
              sim |-> [d \in Sides |-> NoQuote]]]
  /\ ev = Idle
  /\ queued = 0
  /\ global_kill = FALSE /\ sweep = 0
  /\ beat = FALSE /\ watch \in {"off", "on"}
  /\ late = 0

Next ==
  \/ \E s \in Shards : Event(s) \/ Message(s)
  \/ Drain \/ Heartbeat \/ Look
  \/ KillGlobal \/ ArmAll \/ ArmNext
  \/ \E s \in Shards, on \in BOOLEAN : SetPanic(s, on)

Spec == Init /\ [][Next]_vars

\* The dead-man thread wakes up every period.
FairSpec == Spec /\ WF_vars(Look)

-----------------------------------------------------------------------------
Quote == [px : 0..MaxPrice, qty : 0..QuoteQty, ahead : 0..MaxAhead]

\* Every variable has its type; a quote never has more than QuoteQty left.
TypeOK ==
  /\ mm \in [Shards -> [inv : Int, panic : BOOLEAN,
                        resting : [Sides -> 0..MaxPrice], sim : [Sides -> Quote]]]
  /\ ev \in [pc : {"idle", "first", "second"}, shard : 0..NumShards,
             px : [Sides -> 0..MaxPrice]]
  /\ ev.pc # "idle" => ev.shard \in Shards /\ \A d \in Sides : ev.px[d] \in Prices
  /\ queued \in 0..RingSize
  /\ global_kill \in BOOLEAN /\ sweep \in 0..NumShards
  /\ beat \in BOOLEAN /\ watch \in {"off", "on", "fired"}
  /\ late \in Nat

\* Whatever fills, kills, re-arms, refused orders and rate limits do, the
\* inventory passes the hard band by one quote at most, in either direction.
InventoryBounded == \A s \in Shards : Abs(mm[s].inv) <= HardLimit + QuoteQty

\* The side that the hard band blocks has no remembered quote: only a fill moves
\* the inventory and it forgets the quote, so on_book_event never has a quote to
\* cancel there and needs no token for it.
BlockedSideIsQuiet ==
  \A s \in Shards, d \in Sides : Blocked(mm[s], d) => mm[s].resting[d] = 0

\* What the comment in flatten says of a kill or a panic: it tears down the state
\* of the simulator, so that a stopped shard has no quote left to be filled.
\* TLC refutes it: on_fill forgets a quote of which only a part was filled, and
\* flatten takes down what is remembered.
FlattenTearsDown ==
  [][\A s \in Shards : Stopped(s) /\ Event(s) =>
       \A d \in Sides : mm'[s].sim[d].qty = 0]_vars

\* After a global kill at most the two messages of the book event in hand are
\* still submitted, until somebody re-arms.
KillIsPrompt == global_kill => late <= 2

\* A dispatcher that gives no sign of life is killed, as long as the dead-man
\* thread has not fired before.
HangIsNoticed == (watch = "on" /\ ~beat) ~> (beat \/ global_kill)
=============================================================================

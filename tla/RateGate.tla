------------------------------ MODULE RateGate ------------------------------
(***************************************************************************)
(* The limits an order passes on its way to the exchange: the token        *)
(* buckets of the market maker (per symbol and aggregate), the bucket and  *)
(* the positions of the risk gate, and the OMS ring.  Time is the packet   *)
(* timestamp an event carries.  A packet that waited in the reorder pool   *)
(* keeps the time it was received at, so time may also run backwards.      *)
(***************************************************************************)
EXTENDS Arithmetic

CONSTANTS
  Symbols,                        \* universe
  SymbolRate, AggRate, RiskRate,  \* messages per second
  Burst, RiskBurst,               \* burst_msgs, rl_burst
  Second,                         \* timestamp units in a second
  MaxPosition,                    \* RISK_MAX_POSITION_PER_STOCK
  MaxQty,                         \* RISK_MAX_ORDER_QTY
  MaxTime                         \* bound: timestamps are 1..MaxTime

Buckets == Symbols \cup {"agg", "risk"}

ASSUME RateAssumption ==
  /\ {SymbolRate, AggRate, RiskRate, Burst, RiskBurst, MaxPosition, MaxTime} \subseteq Nat
  /\ {Second, MaxQty} \subseteq Nat \ {0}
  /\ {"agg", "risk"} \cap Symbols = {}

Rate == [b \in Buckets |-> IF b = "agg" THEN AggRate
                           ELSE IF b = "risk" THEN RiskRate ELSE SymbolRate]
Cap == [b \in Buckets |-> IF b = "risk" THEN RiskBurst ELSE Burst]

VARIABLES
  bucket,     \* tokens and time of the last refill; history: see below
  event,      \* event in hand: its symbol, its time, messages it may still emit
  positions,  \* risk: net quantity of the approved orders
  sent,       \* history: net quantity handed to the exchange side
  dropped     \* history: quantity approved and then refused by a full ring

gate_vars == <<bucket, event, positions, sent, dropped>>

Unprimed == 0

-----------------------------------------------------------------------------
(* History of a bucket: `seen`, the latest time it was shown, and `level`, *)
(* a counter that gains Second per message and leaks Rate per time unit    *)
(* down to 0.  A level of at most L says that in every window of time w at *)
(* most (L + Rate * w) / Second messages passed.                           *)
Leak(k, r, t) ==
  [k EXCEPT !.seen = MaxOf(@, t),
            !.level = IF k.seen = Unprimed \/ t <= k.seen THEN @
                      ELSE MaxOf(0, @ - r * (t - k.seen))]

Refill_KeepsTime(k, r, cap, t) ==
  LET add == (r * (t - k.last)) \div Second
  IN  IF k.last = Unprimed THEN [k EXCEPT !.last = t]
      ELSE IF t > k.last /\ add > 0 THEN [k EXCEPT !.tokens = MinOf(@ + add, cap)] ELSE k

\* refill_buckets, once per bucket, and inline_refill.
Refill(k, r, cap, t) ==
  LET add == (r * (t - k.last)) \div Second
  IN  IF k.last = Unprimed THEN [k EXCEPT !.last = t]
      ELSE IF t > k.last /\ add > 0
           THEN [k EXCEPT !.tokens = MinOf(@ + add, cap), !.last = t]
           ELSE k

Shown(b, t) == Refill(Leak(bucket[b], Rate[b], t), Rate[b], Cap[b], t)
Spent(k) == [k EXCEPT !.tokens = @ - 1, !.level = @ + Second]

NoEvent == [symbol |-> "none", ts |-> Unprimed, left |-> 0]

\* The first half of on_book_event: the buckets of the symbol and the aggregate
\* one see the time of the event.
BookEvent(s, t) ==
  /\ event.left = 0
  /\ bucket' = [b \in Buckets |-> IF b \in {s, "agg"} THEN Shown(b, t) ELSE bucket[b]]
  /\ event' = [symbol |-> s, ts |-> t, left |-> 2]
  /\ UNCHANGED <<positions, sent, dropped>>

\* try_consume_msg.
TryConsume(s) == bucket[s].tokens > 0 /\ bucket["agg"].tokens > 0

\* The side needs no message, or there is no token for it.
Quiet ==
  /\ event.left > 0
  /\ event' = [event EXCEPT !.left = @ - 1]
  /\ UNCHANGED <<bucket, positions, sent, dropped>>

Consumed(b) == IF b \in {event.symbol, "agg"} THEN Spent(bucket[b]) ELSE bucket[b]

\* emit_cancel: quantity 0 goes round the risk gate.
Cancel ==
  /\ event.left > 0 /\ TryConsume(event.symbol)
  /\ bucket' = [b \in Buckets |-> Consumed(b)]
  /\ event' = [event EXCEPT !.left = @ - 1]
  /\ UNCHANGED <<positions, sent, dropped>>

WithinPosition_Stale(s, delta) == Abs(positions[s]) <= MaxPosition

\* The position check looks at the position after the order.
WithinPosition(s, delta) == Abs(positions[s] + delta) <= MaxPosition

\* emit_quote through engine_submit_quote: check_and_fill books the order, then
\* the ring may have no room for it.
SubmitOrder(delta, room) ==
  LET s == event.symbol
      risk == Shown("risk", event.ts)
      ok == risk.tokens > 0 /\ Abs(delta) <= MaxQty /\ WithinPosition(s, delta)
  IN  /\ event.left > 0 /\ TryConsume(s)
      /\ bucket' = [b \in Buckets |->
                      IF b # "risk" THEN Consumed(b) ELSE IF ok THEN Spent(risk) ELSE risk]
      /\ event' = [event EXCEPT !.left = @ - 1]
      /\ positions' = IF ok THEN [positions EXCEPT ![s] = @ + delta] ELSE positions
      /\ sent' = IF ok /\ room THEN [sent EXCEPT ![s] = @ + delta] ELSE sent
      /\ dropped' = IF ok /\ ~room THEN [dropped EXCEPT ![s] = @ + Abs(delta)] ELSE dropped

Quantities == (-(MaxQty + 1)..(MaxQty + 1)) \ {0}

GateInit ==
  /\ bucket = [b \in Buckets |-> [tokens |-> Cap[b], last |-> Unprimed,
                                  seen |-> Unprimed, level |-> 0]]
  /\ event = NoEvent
  /\ positions = [s \in Symbols |-> 0]
  /\ sent = [s \in Symbols |-> 0]
  /\ dropped = [s \in Symbols |-> 0]

GateNext ==
  \/ \E s \in Symbols, t \in 1..MaxTime : BookEvent(s, t)
  \/ Quiet
  \/ Cancel
  \/ \E delta \in Quantities, room \in BOOLEAN : SubmitOrder(delta, room)

GateSpec == GateInit /\ [][GateNext]_gate_vars

-----------------------------------------------------------------------------
\* Every variable has its type; no bucket holds more than its burst.
GateTypeOK ==
  /\ \A b \in Buckets : bucket[b].tokens \in 0..Cap[b]
  /\ bucket \in [Buckets -> [tokens : Nat, last : 0..MaxTime, seen : 0..MaxTime,
                             level : Nat]]
  /\ event \in [symbol : Symbols \cup {"none"}, ts : 0..MaxTime, left : 0..2]
  /\ event.left > 0 => event.symbol \in Symbols /\ event.ts > 0
  /\ {positions, sent} \subseteq [Symbols -> Int]
  /\ dropped \in [Symbols -> Nat]

\* Whatever order timestamps come in, no window of time lets through more than
\* one burst, the rate times the window, and one message for the division.
RateRespected ==
  \A b \in Buckets : bucket[b].level < Second * (Cap[b] + 1)

\* The risk gate keeps the net quantity sent per stock within its limit, as far
\* as the ring took what it had booked.
SentWithinLimit ==
  \A s \in Symbols : Abs(sent[s]) <= MaxPosition + dropped[s]
=============================================================================

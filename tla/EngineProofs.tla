---------------------------- MODULE EngineProofs ----------------------------
(***************************************************************************)
(* Proofs about the engine thread and the way its orders leave by AF_XDP.  *)
(* Engine, for every number of shards, price range, band and ring size:    *)
(* the inventory bound, the quiet of the blocked side and the promptness   *)
(* of a kill.  RateGate, for every set of symbols, rates,   *)
(* bursts and limits and for timestamps in any order: the rates and the    *)
(* positions.  AfxdpTx, for every number of frames and descriptors: frames *)
(* have one owner, orders leave in the order they were taken, and every    *)
(* packet in flight has checksums a receiver accepts.                      *)
(***************************************************************************)
EXTENDS Engine, RateGate, AfxdpTx, WellFoundedInduction, TLAPS

ShardState == [inv : Int, panic : BOOLEAN,
               resting : [Sides -> 0..MaxPrice], sim : [Sides -> Quote]]

\* A quote in the market counts as if it were filled: that is what makes the
\* inventory bound inductive.
Exposed(st) ==
  /\ st.inv + st.sim["Buy"].qty <= HardLimit + QuoteQty
  /\ st.sim["Sell"].qty - st.inv <= HardLimit + QuoteQty

Remembers(st, d) ==
  IF st.resting[d] = 0 THEN st.sim[d].qty < QuoteQty
  ELSE st.sim[d].px = st.resting[d] /\ st.sim[d].qty = QuoteQty

Sound(st) ==
  /\ st \in ShardState
  /\ Exposed(st)
  /\ \A d \in Sides : Remembers(st, d) /\ (Blocked(st, d) => st.resting[d] = 0)

\* Messages the event in hand can still send.
Remaining == IF ev.pc = "first" THEN 2 ELSE IF ev.pc = "second" THEN 1 ELSE 0

KillInv == IF global_kill THEN late + Remaining <= 2 ELSE late = 0

IInv ==
  /\ TypeOK
  /\ \A s \in Shards : Sound(mm[s])
  /\ KillInv

-----------------------------------------------------------------------------
LEMMA ConstantTypes ==
  /\ NumShards \in Nat \ {0} /\ QuoteQty \in Nat \ {0} /\ Threshold \in Nat \ {0}
  /\ RingSize \in Nat \ {0} /\ MaxPrice \in Nat \ {0} /\ MaxTrade \in Nat \ {0}
  /\ HardLimit \in Nat /\ PanicLimit \in Nat /\ MaxAhead \in Nat
BY EngineAssumption DEF EngineAssumption

\* onTrade fills between nothing and everything that is left.
LEMMA FillBounds ==
  ASSUME NEW d \in Sides, NEW q \in Quote, NEW px \in Nat, NEW n \in Nat
  PROVE  FillQty(d, q, px, n) \in 0..q.qty
BY ConstantTypes DEF FillQty, MinOf, Quote

\* What the simulator keeps is a quote with the fill taken off.
LEMMA AfterTradeQuote ==
  ASSUME NEW d \in Sides, NEW q \in Quote, NEW px \in Nat, NEW n \in Nat
  PROVE  /\ AfterTrade(d, q, px, n) \in Quote
         /\ AfterTrade(d, q, px, n).px = q.px
         /\ AfterTrade(d, q, px, n).qty = q.qty - FillQty(d, q, px, n)
<1>1. FillQty(d, q, px, n) \in 0..q.qty
  BY FillBounds
<1>2. q.px \in 0..MaxPrice /\ q.qty \in 0..QuoteQty /\ q.ahead \in 0..MaxAhead
  BY DEF Quote
<1>3. q.ahead - MinOf(q.ahead, n) \in 0..MaxAhead
  BY <1>2, ConstantTypes DEF MinOf
<1>4. q.qty - FillQty(d, q, px, n) \in 0..QuoteQty
  BY <1>1, <1>2, ConstantTypes
<1> QED
  BY <1>1, <1>2, <1>3, <1>4, ConstantTypes DEF AfterTrade, Quote

\* A trade moves quantity from the simulated quote into the inventory and keeps
\* a shard sound.
LEMMA TradedSound ==
  ASSUME NEW st, Sound(st), NEW t \in Trades \cup {NoTrade}
  PROVE  Sound(Traded(st, t))
<1> DEFINE q == st.sim[t.side]
           n == FillQty(t.side, q, t.px, t.qty)
           after == [st EXCEPT !.sim[t.side] = AfterTrade(t.side, q, t.px, t.qty)]
<1>1. t.side \in Sides /\ t.px \in Nat /\ t.qty \in Nat
  BY ConstantTypes DEF Trades, NoTrade, Sides, Prices
<1>2. st \in ShardState /\ q \in Quote /\ q.qty \in 0..QuoteQty
  BY <1>1 DEF Sound, ShardState, Quote
<1>3. n \in 0..q.qty
  BY <1>1, <1>2, FillBounds, Zenon
<1>4. CASE t.qty = 0 \/ q.qty = 0
  <2>1. Traded(st, t) = st
    BY <1>4, Zenon DEF Traded
  <2> QED BY <2>1, Zenon
<1>5. CASE ~(t.qty = 0 \/ q.qty = 0)
  <2>0. PICK a : a = AfterTrade(t.side, q, t.px, t.qty)
    BY Zenon
  <2>1. a \in Quote /\ a.px = q.px /\ a.qty = q.qty - n
    <3>1. q \in Quote
      BY <1>2, Zenon
    <3>2. PICK o \in Quote : o = q
      BY <3>1, Zenon
    <3>3. /\ AfterTrade(t.side, o, t.px, t.qty) \in Quote
          /\ AfterTrade(t.side, o, t.px, t.qty).px = o.px
          /\ AfterTrade(t.side, o, t.px, t.qty).qty = o.qty - FillQty(t.side, o, t.px, t.qty)
      BY <1>1, AfterTradeQuote, ZenonT(30)
    <3> QED BY <2>0, <3>2, <3>3, Zenon
  <2>2. PICK f \in [Sides -> Quote] : f = [st.sim EXCEPT ![t.side] = a]
    BY <1>1, <1>2, <2>1, Zenon DEF ShardState
  <2>3. CASE n = 0
    <3>1. Traded(st, t) = [st EXCEPT !.sim = f]
      BY <1>2, <1>5, <2>0, <2>1, <2>2, <2>3, Zenon DEF Traded, ShardState
    <3> QED
      BY <1>1, <1>2, <1>3, <2>1, <2>2, <2>3, <3>1, ConstantTypes
      DEF Sound, ShardState, Exposed, Remembers, Blocked, Sides, Abs
  <2>4. CASE n # 0
    <3>1. PICK u : u = Traded(st, t)
      OBVIOUS
    <3>n. n \in Int /\ st.inv \in Int
      BY <1>2, <1>3, ConstantTypes DEF ShardState
    <3>2. PICK i \in Int : i = IF t.side = "Buy" THEN st.inv + n ELSE st.inv - n
      <4>1. st.inv + n \in Int /\ st.inv - n \in Int
        BY <3>n
      <4> QED BY <4>1, Zenon
    <3>r. PICK r \in [Sides -> 0..MaxPrice] : r = [st.resting EXCEPT ![t.side] = 0]
      <4>1. 0 \in 0..MaxPrice /\ st.resting \in [Sides -> 0..MaxPrice]
        BY <1>2, ConstantTypes DEF ShardState
      <4> QED BY <1>1, <4>1, Zenon
    <3>u. u = [st EXCEPT !.inv = i, !.resting = r, !.sim = f]
      BY <1>2, <1>5, <2>0, <2>1, <2>2, <2>4, <3>1, <3>2, <3>r, Zenon DEF Traded, OnFill, ShardState
    <3>3. /\ u \in ShardState
          /\ u.inv = IF t.side = "Buy" THEN st.inv + n ELSE st.inv - n
          /\ u.resting = [st.resting EXCEPT ![t.side] = 0] /\ u.sim = f
      BY <1>2, <3>2, <3>r, <3>u, Zenon DEF ShardState
    <3>4. /\ \A d \in Sides : f[d] = IF d = t.side THEN a ELSE st.sim[d]
          /\ \A d \in Sides : f[d].qty \in Int /\ st.sim[d].qty \in 0..QuoteQty
          /\ \A d \in Sides : u.resting[d] = IF d = t.side THEN 0 ELSE st.resting[d]
      <4>1. st.sim \in [Sides -> Quote] /\ st.resting \in [Sides -> 0..MaxPrice]
        BY <1>2, Zenon DEF ShardState
      <4>2. \A x \in Quote : x.qty \in Int /\ x.qty \in 0..QuoteQty
        BY ConstantTypes DEF Quote
      <4>3. \A d \in Sides : f[d] \in Quote /\ st.sim[d] \in Quote
        BY <2>2, <4>1, Zenon
      <4>4. \A d \in Sides : f[d] = IF d = t.side THEN a ELSE st.sim[d]
        BY <2>2, <4>1, Zenon
      <4>5. \A d \in Sides : u.resting[d] = IF d = t.side THEN 0 ELSE st.resting[d]
        BY <3>3, <4>1, Zenon
      <4> QED BY <4>2, <4>3, <4>4, <4>5, Zenon
    <3>5. Exposed(u)
      BY <1>1, <1>2, <1>3, <2>1, <3>3, <3>4, ConstantTypes
      DEF Sound, Exposed, Sides, ShardState
    <3>6. ASSUME NEW d \in Sides PROVE Remembers(u, d)
      BY <1>1, <1>2, <1>3, <2>1, <2>4, <3>3, <3>4, ConstantTypes
      DEF Sound, Remembers
    <3>7. ASSUME NEW d \in Sides, Blocked(u, d) PROVE u.resting[d] = 0
      <4>1. CASE d = t.side
        BY <3>4, <4>1
      <4>2. CASE d # t.side
        <5>1. Blocked(st, d)
          BY <1>1, <1>2, <1>3, <3>3, <3>7, <4>2, ConstantTypes
          DEF Blocked, Abs, Sides, ShardState
        <5> QED BY <3>4, <4>2, <5>1, Zenon DEF Sound
      <4> QED BY <4>1, <4>2
    <3> QED BY <3>1, <3>3, <3>4, <3>5, <3>6, <3>7 DEF Sound
  <2> QED BY <2>3, <2>4
<1> QED BY <1>4, <1>5

\* flatten drops remembered quotes only, which are the untouched ones.
LEMMA FlattenSound ==
  ASSUME NEW st, Sound(st)
  PROVE  Sound(Flatten(st))
<1>1. PICK u : u = Flatten(st)
  OBVIOUS
<1>2. st \in ShardState
  BY DEF Sound
<1>3. NoQuote \in Quote /\ 0 \in 0..MaxPrice
  BY ConstantTypes DEF NoQuote, Quote
<1>4. PICK f \in [Sides -> Quote] :
        f = [d \in Sides |-> IF st.resting[d] # 0 THEN NoQuote ELSE st.sim[d]]
  BY <1>2, <1>3, Zenon DEF ShardState
<1>5. PICK r \in [Sides -> 0..MaxPrice] : r = [d \in Sides |-> 0]
  BY <1>3, Zenon
<1>6. u = [st EXCEPT !.sim = f, !.resting = r]
  BY <1>1, <1>2, <1>4, <1>5 DEF Flatten, ShardState
<1>7. u \in ShardState /\ u.inv = st.inv /\ u.resting = r /\ u.sim = f
  BY <1>2, <1>6, Zenon DEF ShardState
<1>8. \A d \in Sides : /\ f[d].qty \in 0..st.sim[d].qty
                       /\ f[d].qty < QuoteQty
                       /\ st.sim[d].qty \in 0..QuoteQty
  BY <1>2, <1>4, ConstantTypes DEF Sound, Remembers, ShardState, Quote, NoQuote
<1>9. Exposed(u)
  BY <1>2, <1>7, <1>8, ConstantTypes DEF Sound, Exposed, Sides, ShardState
<1>10. \A d \in Sides : Remembers(u, d) /\ u.resting[d] = 0
  BY <1>5, <1>7, <1>8 DEF Remembers
<1> QED BY <1>1, <1>7, <1>9, <1>10 DEF Sound

\* panic is not part of what makes a shard sound.
LEMMA PanicSound ==
  ASSUME NEW st, Sound(st), NEW on \in BOOLEAN
  PROVE  Sound([st EXCEPT !.panic = on])
<1>1. st \in ShardState
  BY DEF Sound
<1>2. PICK u : u = [st EXCEPT !.panic = on]
  BY Zenon
<1>3. /\ u \in ShardState /\ u.inv = st.inv /\ u.resting = st.resting
      /\ u.sim = st.sim
  BY <1>1, <1>2, Zenon DEF ShardState
<1> QED BY <1>2, <1>3 DEF Sound, Exposed, Remembers, Blocked

\* A cancel leaves neither a memory nor a simulated quote.
LEMMA CancelledSound ==
  ASSUME NEW st, Sound(st), NEW d \in Sides
  PROVE  Sound(Cancelled(st, d))
<1>1. PICK u : u = Cancelled(st, d)
  OBVIOUS
<1>2. st \in ShardState
  BY DEF Sound
<1>3. NoQuote \in Quote /\ 0 \in 0..MaxPrice /\ NoQuote.qty = 0
  BY ConstantTypes DEF NoQuote, Quote
<1>4. PICK f \in [Sides -> Quote] : f = [st.sim EXCEPT ![d] = NoQuote]
  BY <1>2, <1>3, Zenon DEF ShardState
<1>5. PICK r \in [Sides -> 0..MaxPrice] : r = [st.resting EXCEPT ![d] = 0]
  BY <1>2, <1>3, Zenon DEF ShardState
<1>6. u = [st EXCEPT !.sim = f, !.resting = r]
  BY <1>1, <1>2, <1>4, <1>5 DEF Cancelled, ShardState
<1>7. u \in ShardState /\ u.inv = st.inv /\ u.resting = r /\ u.sim = f
  BY <1>2, <1>6, ZenonT(30) DEF ShardState
<1>8. \A e \in Sides : /\ f[e] = IF e = d THEN NoQuote ELSE st.sim[e]
                       /\ r[e] = IF e = d THEN 0 ELSE st.resting[e]
                       /\ st.sim[e].qty \in 0..QuoteQty
  BY <1>2, <1>4, <1>5 DEF ShardState, Quote
<1>9. Exposed(u)
  BY <1>2, <1>3, <1>7, <1>8, ConstantTypes DEF Sound, Exposed, Sides, ShardState
<1>10. \A e \in Sides : Remembers(u, e) /\ (Blocked(u, e) => u.resting[e] = 0)
  BY <1>3, <1>7, <1>8, ConstantTypes DEF Sound, Remembers, Blocked
<1> QED BY <1>1, <1>7, <1>8, <1>9, <1>10 DEF Sound

\* A new quote is only made on a side that is not blocked: with the inventory
\* inside the hard band, one quote more cannot break the bound.
LEMMA QuotedSound ==
  ASSUME NEW st, Sound(st), NEW d \in Sides, ~Blocked(st, d),
         NEW px \in Prices, NEW ahead \in 0..MaxAhead
  PROVE  Sound(Quoted(st, d, px, ahead))
<1>1. PICK u : u = Quoted(st, d, px, ahead)
  OBVIOUS
<1>2. st \in ShardState
  BY DEF Sound
<1>px. px \in 0..MaxPrice /\ px # 0
  BY ConstantTypes DEF Prices
<1>3. PICK q \in Quote : q = [px |-> px, qty |-> QuoteQty, ahead |-> ahead]
  <2>1. QuoteQty \in 0..QuoteQty
    BY ConstantTypes
  <2> QED BY <1>px, <2>1, Zenon DEF Quote
<1>4. PICK f \in [Sides -> Quote] : f = [st.sim EXCEPT ![d] = q]
  BY <1>2, Zenon DEF ShardState
<1>5. PICK r \in [Sides -> 0..MaxPrice] : r = [st.resting EXCEPT ![d] = px]
  BY <1>2, <1>px, Zenon DEF ShardState
<1>6. u = [st EXCEPT !.sim = f, !.resting = r]
  BY <1>1, <1>2, <1>3, <1>4, <1>5 DEF Quoted, ShardState
<1>7. u \in ShardState /\ u.inv = st.inv /\ u.resting = r /\ u.sim = f
  BY <1>2, <1>6, ZenonT(30) DEF ShardState
<1>8. \A e \in Sides : /\ f[e] = IF e = d THEN q ELSE st.sim[e]
                       /\ r[e] = IF e = d THEN px ELSE st.resting[e]
                       /\ st.sim[e].qty \in 0..QuoteQty
  BY <1>2, <1>4, <1>5, Zenon DEF ShardState, Quote
<1>9. Exposed(u)
  <2>1. IF d = "Buy" THEN st.inv <= HardLimit ELSE -st.inv <= HardLimit
    BY <1>2, ConstantTypes DEF Blocked, Abs, ShardState
  <2> QED
    BY <1>2, <1>3, <1>7, <1>8, <2>1, ConstantTypes
    DEF Sound, Exposed, Sides, ShardState
<1>10. \A e \in Sides : Remembers(u, e) /\ (Blocked(u, e) => u.resting[e] = 0)
  BY <1>3, <1>px, <1>7, <1>8, ConstantTypes DEF Sound, Remembers, Blocked
<1> QED BY <1>1, <1>7, <1>8, <1>9, <1>10 DEF Sound

-----------------------------------------------------------------------------
\* Replacing the state of one shard by a sound one.
LEMMA ShardUpdate ==
  ASSUME IInv, NEW s \in Shards, NEW u, Sound(u), mm' = [mm EXCEPT ![s] = u]
  PROVE  /\ mm' \in [Shards -> ShardState]
         /\ \A x \in Shards : Sound(mm'[x])
         /\ mm'[s] = u
         /\ \A x \in Shards \ {s} : mm'[x] = mm[x]
<1>1. u \in ShardState /\ mm \in [Shards -> ShardState]
  BY ZenonT(30) DEF Sound, IInv, TypeOK, ShardState
<1> QED BY <1>1 DEF IInv

\* A book event, up to its first message.
LEMMA EventStep ==
  ASSUME IInv, NEW s \in Shards, Event(s)
  PROVE  IInv'
<1>1. PICK t \in Trades \cup {NoTrade} :
        LET st == Traded(mm[s], t)
        IN  \/ Stopped(s) /\ mm' = [mm EXCEPT ![s] = Flatten(st)] /\ UNCHANGED ev
            \/ ~Stopped(s) /\ mm' = [mm EXCEPT ![s] = st] /\ UNCHANGED ev
            \/ /\ ~Stopped(s) /\ UNCHANGED ev
               /\ mm' = [mm EXCEPT ![s] = Flatten([st EXCEPT !.panic = TRUE])]
            \/ /\ ~Stopped(s)
               /\ mm' = [mm EXCEPT ![s] = st]
               /\ \E bid, ask \in Prices :
                    ev' = [pc |-> "first", shard |-> s,
                           px |-> [d \in Sides |-> IF d = "Buy" THEN bid ELSE ask]]
  BY ZenonT(30) DEF Event
<1> DEFINE st == Traded(mm[s], t)
<1>2. Sound(st)
  BY TradedSound DEF IInv
<1>3. PICK u : mm' = [mm EXCEPT ![s] = u] /\ Sound(u)
  <2> HIDE DEF st
  <2>1. CASE mm' = [mm EXCEPT ![s] = st]
    BY <1>2, <2>1, Zenon
  <2>2. CASE mm' = [mm EXCEPT ![s] = Flatten(st)]
    <3>1. Sound(Flatten(st))
      BY <1>2, FlattenSound
    <3> QED BY <2>2, <3>1, Zenon
  <2>3. CASE mm' = [mm EXCEPT ![s] = Flatten([st EXCEPT !.panic = TRUE])]
    <3>1. PICK v : v = [st EXCEPT !.panic = TRUE] /\ Sound(v)
      BY <1>2, PanicSound, Zenon
    <3>2. Sound(Flatten(v))
      BY <3>1, FlattenSound, Zenon
    <3> QED BY <2>3, <3>1, <3>2, Zenon
  <2> QED BY <1>1, <2>1, <2>2, <2>3, Zenon DEF st
<1>4. UNCHANGED <<queued, sweep, beat, watch, global_kill, late>>
  BY DEF Event
<1>5. /\ mm' \in [Shards -> ShardState] /\ \A x \in Shards : Sound(mm'[x])
  BY <1>3, ShardUpdate, Zenon
<1>7. CASE UNCHANGED ev
  BY <1>4, <1>5, <1>7, Zenon DEF IInv, TypeOK, KillInv, Remaining, ShardState
<1>8. CASE ~UNCHANGED ev
  <2>1. ~global_kill
    BY <1>1, <1>8 DEF Stopped
  <2>2. PICK bid \in Prices, ask \in Prices :
          ev' = [pc |-> "first", shard |-> s,
                 px |-> [d \in Sides |-> IF d = "Buy" THEN bid ELSE ask]]
    BY <1>1, <1>8, Zenon
  <2>3. /\ ev' \in [pc : {"idle", "first", "second"}, shard : 0..NumShards,
                    px : [Sides -> 0..MaxPrice]]
        /\ ev'.shard \in Shards /\ \A d \in Sides : ev'.px[d] \in Prices
    <3>1. s \in 0..NumShards /\ bid \in 0..MaxPrice /\ ask \in 0..MaxPrice
      BY ConstantTypes DEF Shards, Prices
    <3> QED BY <2>2, <3>1
  <2> QED
    BY <1>4, <1>5, <2>1, <2>3, Zenon DEF IInv, TypeOK, KillInv, ShardState
<1> QED BY <1>7, <1>8

LEMMA SideAtType ==
  ASSUME NEW st, NEW at PROVE SideAt(st, at) \in Sides
<1>1. \A e \in Sides : \E d \in Sides : d # e
  BY DEF Sides
<1>2. (IF Blocked(st, "Sell") THEN "Sell" ELSE "Buy") \in Sides
  BY DEF Sides
<1>3. ASSUME NEW e \in Sides PROVE (CHOOSE d \in Sides : d # e) \in Sides
  BY <1>1, Zenon
<1> QED BY <1>2, <1>3, Zenon DEF SideAt

\* A message changes one side of one shard.
LEMMA MessageStep ==
  ASSUME IInv, NEW s \in Shards, Message(s)
  PROVE  IInv'
<1> DEFINE st == mm[s]
           d == SideAt(st, ev.pc)
<1>1. d \in Sides
  BY SideAtType
<1>2. /\ ev.pc \in {"first", "second"} /\ Sound(st)
      /\ \A e \in Sides : ev.px[e] \in Prices
  BY DEF Message, IInv, TypeOK
<1>3. UNCHANGED <<sweep, beat, watch, global_kill>>
  BY DEF Message
<1>4. /\ ev' \in [pc : {"idle", "first", "second"}, shard : 0..NumShards,
                  px : [Sides -> 0..MaxPrice]]
      /\ ev'.pc # "idle" => ev'.shard \in Shards /\ \A e \in Sides : ev'.px[e] \in Prices
      /\ Remaining' = Remaining - 1
  <2>1. CASE ev.pc = "first"
    <3>1. ev' = [ev EXCEPT !.pc = "second"]
      BY <2>1 DEF Message
    <3>2. /\ ev \in [pc : {"idle", "first", "second"}, shard : 0..NumShards,
                     px : [Sides -> 0..MaxPrice]]
          /\ ev.shard \in Shards
      BY <2>1 DEF IInv, TypeOK
    <3>3. ev'.pc = "second" /\ ev'.shard = ev.shard /\ ev'.px = ev.px
      BY <3>1, <3>2
    <3> QED BY <1>2, <2>1, <3>1, <3>2, <3>3 DEF Remaining
  <2>2. CASE ev.pc = "second"
    BY <1>2, <2>2, ConstantTypes DEF Message, Idle, Remaining
  <2> QED BY <1>2, <2>1, <2>2
<1>5. CASE UNCHANGED <<mm, queued, late>>
  <2>1. KillInv'
    BY <1>2, <1>3, <1>4, <1>5 DEF IInv, KillInv, Remaining, TypeOK
  <2> QED
    BY <1>3, <1>4, <1>5, <2>1, Zenon DEF IInv, TypeOK
<1>6. ASSUME NEW passed \in BOOLEAN, NEW ahead \in 0..MaxAhead,
             Submit(s, d, passed),
             mm' = [mm EXCEPT ![s] = IF Blocked(st, d) THEN Cancelled(st, d)
                                     ELSE Quoted(st, d, ev.px[d], ahead)]
      PROVE  IInv'
  <2> HIDE DEF d
  <2>1. PICK u : mm' = [mm EXCEPT ![s] = u] /\ Sound(u)
    <3>1. CASE Blocked(st, d)
      <4>1. PICK u : u = Cancelled(st, d) /\ Sound(u)
        BY <1>1, <1>2, CancelledSound
      <4> QED BY <1>6, <3>1, <4>1, ZenonT(30)
    <3>2. CASE ~Blocked(st, d)
      <4>1. ev.px[d] \in Prices
        BY <1>1, <1>2, Zenon
      <4>2. PICK u : u = Quoted(st, d, ev.px[d], ahead) /\ Sound(u)
        BY <1>1, <1>2, <3>2, <4>1, QuotedSound
      <4> QED BY <1>6, <3>2, <4>2, Zenon
    <3> QED BY <3>1, <3>2, ZenonT(30)
  <2>2. mm' \in [Shards -> ShardState] /\ \A x \in Shards : Sound(mm'[x])
    BY <2>1, ShardUpdate, Zenon
  <2>3. queued' \in 0..RingSize
    <3>1. queued \in 0..RingSize /\ RingSize \in Nat
      BY ConstantTypes, Zenon DEF IInv, TypeOK
    <3>2. queued' = queued \/ (queued' = queued + 1 /\ ~(queued >= RingSize))
      BY <1>6, Zenon DEF Submit, RingFull
    <3> QED BY <3>1, <3>2
  <2>4. late' \in Nat /\ late' = IF global_kill THEN late + 1 ELSE late
    BY <1>6 DEF Submit, IInv, TypeOK
  <2>5. KillInv'
    <3>1. Remaining \in {0, 1, 2} /\ late \in Nat
      BY DEF Remaining, IInv, TypeOK
    <3> QED BY <1>3, <1>4, <2>4, <3>1 DEF IInv, KillInv
  <2> QED
    BY <1>3, <1>4, <2>2, <2>3, <2>4, <2>5 DEF IInv, TypeOK, ShardState
<1> QED
  BY <1>5, <1>6 DEF Message

\* Operators and the dead-man thread touch the flags only.
LEMMA SwitchStep ==
  ASSUME IInv,
         \/ Look \/ KillGlobal \/ ArmAll \/ ArmNext
         \/ \E s \in Shards, on \in BOOLEAN : SetPanic(s, on)
  PROVE  IInv'
<1>1. Remaining \in {0, 1, 2} /\ late \in Nat
  BY DEF Remaining, IInv, TypeOK
<1>2. CASE Look
  <2>1. UNCHANGED <<mm, ev, queued, sweep, late>>
    BY <1>2 DEF Look
  <2>2. /\ beat' = FALSE /\ watch' \in {watch, "fired"}
        /\ global_kill' \in {global_kill, TRUE}
    BY <1>2, Zenon DEF Look
  <2>3. TypeOK'
    BY <2>1, <2>2, Zenon DEF IInv, TypeOK
  <2>4. KillInv'
    <3>1. Remaining' = Remaining /\ late' = late
      BY <2>1 DEF Remaining
    <3>2. late + Remaining <= 2
      BY <1>1 DEF IInv, KillInv
    <3>3. CASE global_kill'
      BY <3>1, <3>2, <3>3 DEF KillInv
    <3>4. CASE ~global_kill'
      <4>1. ~global_kill
        BY <2>2, <3>4, ZenonT(30)
      <4> QED BY <3>1, <3>4, <4>1 DEF IInv, KillInv
    <3> QED BY <3>3, <3>4
  <2> QED BY <2>1, <2>3, <2>4, Zenon DEF IInv
<1>3. CASE KillGlobal
  BY <1>1, <1>3 DEF KillGlobal, IInv, TypeOK, KillInv, Remaining
<1>4. CASE ArmAll
  <2>1. 1 \in 0..NumShards /\ 0 \in Nat
    BY ConstantTypes
  <2> QED
    BY <1>4, <2>1, Zenon DEF ArmAll, IInv, TypeOK, KillInv
<1>5. ASSUME NEW s \in Shards, NEW on \in BOOLEAN,
             mm' = [mm EXCEPT ![s].panic = on], sweep' \in 0..NumShards,
             UNCHANGED <<ev, queued, beat, watch, global_kill, late>>
      PROVE  IInv'
  <2>1. PICK u : u = [mm[s] EXCEPT !.panic = on] /\ Sound(u)
    BY PanicSound, Zenon DEF IInv
  <2>2. mm' = [mm EXCEPT ![s] = u]
    BY <1>5, <2>1
  <2>3. mm' \in [Shards -> ShardState] /\ \A x \in Shards : Sound(mm'[x])
    BY <2>1, <2>2, ShardUpdate, Zenon
  <2> QED
    BY <1>5, <2>3, Zenon DEF IInv, TypeOK, KillInv, Remaining, ShardState
<1>6. CASE ArmNext
  <2>1. sweep \in Shards /\ sweep' \in 0..NumShards
    <3>1. /\ sweep \in 0..NumShards /\ sweep # 0
          /\ sweep' = IF sweep = NumShards THEN 0 ELSE sweep + 1
      BY <1>6, Zenon DEF ArmNext, IInv, TypeOK
    <3> QED BY <3>1, ConstantTypes DEF Shards
  <2> QED BY <1>5, <1>6, <2>1, Zenon DEF ArmNext
<1>7. ASSUME NEW s \in Shards, NEW on \in BOOLEAN, SetPanic(s, on) PROVE IInv'
  BY <1>5, <1>7, Zenon DEF SetPanic, IInv, TypeOK
<1> QED BY <1>2, <1>3, <1>4, <1>6, <1>7, Zenon

LEMMA InitSound == Init => IInv
<1> SUFFICES ASSUME Init PROVE IInv
  OBVIOUS
<1> DEFINE st0 == [inv |-> 0, panic |-> FALSE, resting |-> [d \in Sides |-> 0],
                   sim |-> [d \in Sides |-> NoQuote]]
<1>1. NoQuote \in Quote /\ NoQuote.qty = 0
  BY ConstantTypes DEF NoQuote, Quote
<1>0. 0 \in 0..MaxPrice /\ 0 \in 0..NumShards /\ 0 \in 0..RingSize
  BY ConstantTypes
<1>2. PICK u : /\ u = st0 /\ u \in ShardState /\ u.inv = 0
               /\ \A d \in Sides : u.resting[d] = 0 /\ u.sim[d] = NoQuote
  <2>1. st0 \in ShardState
    BY <1>0, <1>1 DEF ShardState
  <2> QED BY <2>1
<1>3. Sound(u)
  BY <1>1, <1>2, ConstantTypes DEF Sound, Exposed, Remembers, Sides
<1>4. mm = [s \in Shards |-> u]
  BY <1>2, Zenon DEF Init
<1>5. mm \in [Shards -> ShardState] /\ \A s \in Shards : mm[s] = u
  BY <1>2, <1>4
<1>6. TypeOK
  <2>1. /\ ev = Idle /\ queued = 0 /\ global_kill = FALSE /\ sweep = 0 /\ late = 0
        /\ beat = FALSE /\ watch \in {"off", "on"}
    BY Zenon DEF Init
  <2>2. /\ ev \in [pc : {"idle", "first", "second"}, shard : 0..NumShards,
                   px : [Sides -> 0..MaxPrice]]
        /\ ev.pc = "idle"
    BY <1>0, <2>1 DEF Idle
  <2> QED BY <1>0, <1>5, <2>1, <2>2, ZenonT(30) DEF TypeOK, ShardState
<1> QED
  BY <1>2, <1>3, <1>5, <1>6, Zenon
  DEF IInv, Init, KillInv

LEMMA NextSound == IInv /\ [Next]_vars => IInv'
<1> SUFFICES ASSUME IInv, [Next]_vars PROVE IInv'
  OBVIOUS
<1>1. ASSUME NEW s \in Shards, Event(s) \/ Message(s) PROVE IInv'
  BY <1>1, EventStep, MessageStep, Zenon
<1>2. CASE Drain
  BY <1>2, ConstantTypes
  DEF Drain, IInv, TypeOK, KillInv, Remaining
<1>3. CASE Heartbeat
  BY <1>3, Zenon DEF Heartbeat, IInv, TypeOK, KillInv, Remaining
<1>4. CASE \/ Look \/ KillGlobal \/ ArmAll \/ ArmNext
           \/ \E s \in Shards, on \in BOOLEAN : SetPanic(s, on)
  BY <1>4, SwitchStep
<1>5. CASE UNCHANGED vars
  BY <1>5, Zenon DEF vars, IInv, TypeOK, KillInv, Remaining
<1> QED BY <1>1, <1>2, <1>3, <1>4, <1>5 DEF Next

-----------------------------------------------------------------------------
\* The inductive invariant behind all theorems of this module.
THEOREM EngineInductive == Spec => []IInv
BY InitSound, NextSound, PTL DEF Spec

\* Type correctness of the dispatcher, the market maker and the kill switches;
\* ORDER_TO_EXC never holds more than its size.
THEOREM TypeCorrect == Spec => []TypeOK
<1>1. IInv => TypeOK
  BY ZenonT(30) DEF IInv
<1> QED BY <1>1, EngineInductive, PTL

\* The hard band of on_book_event bounds the inventory: it is passed by one quote
\* at most, whatever is filled, killed, re-armed or refused.
THEOREM InventoryIsBounded == Spec => []InventoryBounded
<1>1. IInv => InventoryBounded
  <2> SUFFICES ASSUME IInv, NEW s \in Shards
               PROVE  Abs(mm[s].inv) <= HardLimit + QuoteQty
    BY DEF InventoryBounded
  <2>1. Sound(mm[s])
    BY Zenon DEF IInv
  <2>2. /\ mm[s].inv \in Int
        /\ mm[s].sim["Buy"].qty \in Nat /\ mm[s].sim["Sell"].qty \in Nat
    BY <2>1, ConstantTypes DEF Sound, ShardState, Sides, Quote
  <2> QED BY <2>1, <2>2, ConstantTypes DEF Sound, Exposed, Abs
<1> QED BY <1>1, EngineInductive, PTL

\* on_book_event never finds a remembered quote on a side the hard band blocks.
THEOREM BlockedSideStaysQuiet == Spec => []BlockedSideIsQuiet
<1>1. IInv => BlockedSideIsQuiet
  BY Zenon DEF IInv, Sound, BlockedSideIsQuiet
<1> QED BY <1>1, EngineInductive, PTL

\* A global kill lets at most two more messages out, whatever the threads that
\* kill and re-arm do in between.
THEOREM KillsArePrompt == Spec => []KillIsPrompt
<1>1. IInv => KillIsPrompt
  BY DEF IInv, TypeOK, KillInv, Remaining, KillIsPrompt
<1> QED BY <1>1, EngineInductive, PTL

-----------------------------------------------------------------------------
(* RateGate. *)
Bucket == [tokens : Nat, last : 0..MaxTime, seen : 0..MaxTime, level : Nat]

\* What makes the rate bound inductive: messages that passed, tokens that are
\* left and time that has not been turned into tokens yet share one budget.
Budget(k, r, cap) ==
  k.level + Second * k.tokens + r * (k.seen - k.last) < Second * (cap + 1)

Balanced(k, r, cap) ==
  /\ k \in Bucket /\ k.tokens <= cap
  /\ k.last = Unprimed => k.seen = Unprimed /\ k.level = 0
  /\ k.last # Unprimed => /\ k.last <= k.seen
                          /\ r * (k.seen - k.last) < Second
                          /\ Budget(k, r, cap)

GateInv ==
  /\ GateTypeOK
  /\ \A b \in Buckets : Balanced(bucket[b], Rate[b], Cap[b])
  /\ event.left > 0 => bucket[event.symbol].last # Unprimed /\ bucket["agg"].last # Unprimed
  /\ \A s \in Symbols : /\ Abs(positions[s]) <= MaxPosition
                       /\ Abs(positions[s] - sent[s]) <= dropped[s]

-----------------------------------------------------------------------------
LEMMA RateConstants ==
  /\ SymbolRate \in Nat /\ AggRate \in Nat /\ RiskRate \in Nat
  /\ Burst \in Nat /\ RiskBurst \in Nat /\ MaxPosition \in Nat /\ MaxTime \in Nat
  /\ Second \in Nat \ {0} /\ MaxQty \in Nat \ {0}
BY RateAssumption DEF RateAssumption

LEMMA BucketConstants ==
  ASSUME NEW b \in Buckets PROVE Rate[b] \in Nat /\ Cap[b] \in Nat
BY RateConstants DEF Rate, Cap

LEMMA Division ==
  ASSUME NEW x \in Nat, NEW n \in Nat \ {0}
  PROVE  /\ x \div n \in Nat
         /\ n * (x \div n) <= x
         /\ x < n * (x \div n) + n
OBVIOUS

LEMMA Product ==
  ASSUME NEW r \in Nat, NEW a \in Nat, NEW b \in Nat, NEW c \in Nat, a <= b, b <= c
  PROVE  /\ r * (c - a) = r * (c - b) + r * (b - a)
         /\ r * (c - a) \in Nat /\ r * (b - a) \in Nat /\ r * (c - b) \in Nat
OBVIOUS

\* Distances.
LEMMA AbsIsNat == ASSUME NEW d \in Int PROVE Abs(d) \in Nat
BY DEF Abs

LEMMA AbsNear ==
  ASSUME NEW p \in Int, NEW q \in Int, NEW limit \in Nat, NEW d \in Nat,
         Abs(p) <= limit, Abs(p - q) <= d
  PROVE  Abs(q) <= limit + d
BY DEF Abs

LEMMA Distributes ==
  ASSUME NEW s \in Nat, NEW x \in Nat, NEW y \in Nat
  PROVE  s * (x + y) = s * x + s * y
OBVIOUS

\* Showing a time to a bucket keeps its budget: what leaks out of the level and
\* what the refill turns into tokens come from the same stretch of time.
LEMMA ShownBalanced ==
  ASSUME NEW k, NEW r \in Nat, NEW cap \in Nat, NEW t \in 1..MaxTime,
         Balanced(k, r, cap)
  PROVE  /\ Balanced(Refill(Leak(k, r, t), r, cap, t), r, cap)
         /\ Refill(Leak(k, r, t), r, cap, t).last # Unprimed
<1>1. /\ k \in Bucket /\ k.tokens \in 0..cap /\ k.last \in Nat /\ k.seen \in Nat
      /\ k.level \in Nat /\ k.last \in 0..MaxTime /\ k.seen \in 0..MaxTime
      /\ t \in Nat /\ t # 0 /\ t \in 0..MaxTime /\ Second \in Nat \ {0}
  BY RateConstants DEF Balanced, Bucket
<1>2. PICK j : j = Leak(k, r, t)
  BY Zenon
<1>3. PICK l \in Nat : l = IF k.seen = Unprimed \/ t <= k.seen THEN k.level
                          ELSE MaxOf(0, k.level - r * (t - k.seen))
  <2>1. k.level - r * (t - k.seen) \in Int
    BY <1>1
  <2> QED BY <1>1, <2>1 DEF MaxOf
<1>4. PICK z \in 0..MaxTime : z = MaxOf(k.seen, t)
  BY <1>1 DEF MaxOf
<1>5. /\ j \in Bucket /\ j.tokens = k.tokens /\ j.last = k.last
      /\ j.seen = z /\ j.level = l
  BY <1>1, <1>2, <1>3, <1>4, Zenon DEF Leak, Bucket
<1>6. PICK m : m = Refill(j, r, cap, t)
  BY ZenonT(30)
<1>7. CASE k.last = Unprimed
  <2>1. m = [j EXCEPT !.last = t]
    BY <1>5, <1>6, <1>7 DEF Refill
  <2>2. /\ m \in Bucket /\ m.tokens = k.tokens /\ m.last = t
        /\ m.seen = z /\ m.level = l
    BY <1>1, <1>5, <2>1, Zenon DEF Bucket
  <2>3. z = t /\ l = 0
    BY <1>1, <1>3, <1>4, <1>7 DEF Balanced, Unprimed, MaxOf
  <2>4. r * (t - t) = 0 /\ Second * k.tokens <= Second * cap
        /\ Second * (cap + 1) = Second * cap + Second
    BY <1>1
  <2> QED
    BY <1>1, <1>2, <1>6, <2>2, <2>3, <2>4 DEF Balanced, Budget, Unprimed
<1>8. CASE k.last # Unprimed /\ t <= k.last
  <2>1. k.last <= k.seen
    BY <1>8, Zenon DEF Balanced
  <2>2. z = k.seen /\ l = k.level
    BY <1>1, <1>3, <1>4, <1>8, <2>1 DEF MaxOf
  <2>3. m = j
    BY <1>1, <1>5, <1>6, <1>8 DEF Refill
  <2> QED
    BY <1>1, <1>2, <1>5, <1>6, <1>8, <2>2, <2>3, ZenonT(30) DEF Balanced, Budget
<1>9. CASE k.last # Unprimed /\ k.last < t /\ t <= k.seen
  <2>1. z = k.seen /\ l = k.level
    <3>1. z = k.seen
      BY <1>1, <1>4, <1>9 DEF MaxOf
    <3> QED BY <1>3, <1>9, <3>1, Zenon
  <2>2. /\ r * (t - k.last) \in Nat
        /\ r * (t - k.last) <= r * (k.seen - k.last)
        /\ r * (k.seen - k.last) < Second
    <3>1. r * (k.seen - k.last) = r * (k.seen - t) + r * (t - k.last)
          /\ r * (k.seen - t) \in Nat /\ r * (t - k.last) \in Nat
      BY <1>1, <1>9, Product
    <3> QED BY <1>1, <1>9, <3>1 DEF Balanced
  <2>3. PICK x \in Nat : x = r * (t - k.last) /\ x < Second
    BY <1>1, <2>2
  <2>4. x \div Second = 0
    BY <1>1, <2>3
  <2>5. m = j
    BY <1>1, <1>5, <1>6, <1>9, <2>3, <2>4 DEF Refill
  <2> QED
    BY <1>1, <1>2, <1>5, <1>6, <1>9, <2>1, <2>5, ZenonT(30) DEF Balanced, Budget
<1>10. CASE k.last # Unprimed /\ k.seen < t
  <2>1. /\ k.last <= k.seen /\ k.seen # Unprimed /\ k.last < t /\ z = t
        /\ l = MaxOf(0, k.level - r * (t - k.seen))
        /\ Budget(k, r, cap)
    BY <1>1, <1>3, <1>4, <1>10 DEF Balanced, Unprimed, MaxOf
  <2>2. PICK x \in Nat, y \in Nat, w \in Nat :
          /\ x = r * (t - k.last) /\ y = r * (t - k.seen) /\ w = r * (k.seen - k.last)
          /\ x = y + w
    <3>1. /\ r * (t - k.last) = r * (t - k.seen) + r * (k.seen - k.last)
          /\ r * (t - k.last) \in Nat /\ r * (t - k.seen) \in Nat
          /\ r * (k.seen - k.last) \in Nat
      BY <1>1, <1>10, <2>1, Product
    <3> QED BY <3>1, Zenon
  <2>3. PICK S \in Nat, C \in Nat :
          S = Second * k.tokens /\ C = Second * cap /\ S <= C
    <3>1. Second * k.tokens \in Nat /\ Second * cap \in Nat
          /\ Second * k.tokens <= Second * cap
      BY <1>1
    <3> QED BY <3>1, Zenon
  <2>4. Second * (cap + 1) = C + Second
    BY <1>1, <2>3
  <2>5. k.level + S + w < C + Second /\ l = MaxOf(0, k.level - y)
    BY <2>1, <2>2, <2>3, <2>4, ZenonT(30) DEF Budget
  <2>6. PICK a \in Nat : a = x \div Second /\ Second * a <= x /\ x < Second * a + Second
    BY <1>1, <2>2, Division, ZenonT(30)
  <2>7. CASE a = 0
    <3>1. m = j
      <4>1. (r * (t - j.last)) \div Second = 0
        BY <1>5, <2>2, <2>6, <2>7, ZenonT(30)
      <4>2. ~((r * (t - j.last)) \div Second > 0)
        BY <4>1
      <4> QED BY <1>5, <1>6, <1>10, <4>2, ZenonT(30) DEF Refill
    <3>2. x < Second
      BY <1>1, <2>6, <2>7
    <3>3. l + S + x < C + Second
      <4>1. k.level \in Nat /\ Second \in Nat
        BY <1>1
      <4> QED BY <2>2, <2>3, <2>5, <3>2, <4>1 DEF MaxOf
    <3> QED
      <4>1. k.tokens <= cap /\ k.last <= t
        BY <1>1, <2>1
      <4>2. /\ m \in Bucket /\ m.tokens = k.tokens /\ m.last = k.last /\ m.seen = t
            /\ m.level = l /\ k.last # Unprimed
        BY <1>5, <1>10, <2>1, <3>1, Zenon
      <4>3. Budget(m, r, cap)
        BY <2>2, <2>3, <2>4, <3>3, <4>2, Zenon DEF Budget
      <4>4. Balanced(m, r, cap) /\ m.last # Unprimed
        BY <2>2, <3>2, <4>1, <4>2, <4>3, Zenon DEF Balanced
      <4> QED BY <1>2, <1>6, <4>4, Zenon
  <2>8. CASE a > 0
    <3>1. PICK n \in 0..cap : n = MinOf(k.tokens + a, cap)
      BY <1>1, <2>6 DEF MinOf
    <3>2. m = [j EXCEPT !.tokens = n, !.last = t]
      BY <1>1, <1>5, <1>6, <1>10, <2>1, <2>2, <2>6, <2>8, <3>1, ZenonT(30) DEF Refill
    <3>3. /\ m \in Bucket /\ m.tokens = n /\ m.last = t /\ m.seen = t /\ m.level = l
      <4>1. n \in Nat /\ t \in 0..MaxTime /\ j.seen = t /\ j.level = l /\ j \in Bucket
        BY <1>1, <1>5, <2>1, <3>1
      <4> QED BY <3>2, <4>1, Zenon DEF Bucket
    <3>4. PICK T \in Nat : T = Second * n /\ T <= C /\ T <= S + Second * a
      <4>1. n <= cap /\ n <= k.tokens + a
        BY <1>1, <2>6, <3>1 DEF MinOf
      <4>2. Second * (k.tokens + a) = S + Second * a
        <5>1. k.tokens \in Nat /\ Second \in Nat
          BY <1>1
        <5>2. Second * (k.tokens + a) = Second * k.tokens + Second * a
          BY <5>1, Distributes
        <5> QED BY <2>3, <5>2, Zenon
      <4>3. Second * n \in Nat /\ Second * n <= Second * cap
            /\ Second * n <= Second * (k.tokens + a)
        BY <1>1, <2>6, <3>1, <4>1
      <4> QED BY <2>3, <4>2, <4>3, ZenonT(30)
    <3>5. l + T < C + Second
      <4>1. PICK A \in Nat, L \in Nat : A = Second * a /\ L = k.level
        BY <1>1, <2>6
      <4>2. /\ L + S + w < C + Second /\ l = MaxOf(0, L - y) /\ A <= x
            /\ T <= C /\ T <= S + A /\ x = y + w
        BY <2>2, <2>5, <2>6, <3>4, <4>1, Zenon
      <4> QED BY <1>1, <4>2 DEF MaxOf
    <3>6. r * (t - t) = 0
      BY <1>1
    <3> QED
      <4>1. n <= cap /\ t # Unprimed /\ t <= t /\ 0 < Second
        BY <1>1, <3>1 DEF Unprimed
      <4>2. l + T + 0 < C + Second
        BY <3>5
      <4>3. Budget(m, r, cap)
        BY <2>4, <3>3, <3>4, <3>6, <4>2, Zenon DEF Budget
      <4>4. Balanced(m, r, cap) /\ m.last # Unprimed
        BY <3>3, <3>6, <4>1, <4>3, Zenon DEF Balanced
      <4> QED BY <1>2, <1>6, <4>4, Zenon
  <2>9. a = 0 \/ a > 0
    BY <2>6
  <2> QED BY <2>7, <2>8, <2>9, Zenon
<1>11. k.last = Unprimed \/ t <= k.last \/ (k.last < t /\ t <= k.seen) \/ k.seen < t
  BY <1>1
<1> QED BY <1>7, <1>8, <1>9, <1>10, <1>11, Zenon

\* Taking a token moves its worth from the tokens to the level.
LEMMA SpentBalanced ==
  ASSUME NEW k, NEW r \in Nat, NEW cap \in Nat,
         Balanced(k, r, cap), k.last # Unprimed, k.tokens > 0
  PROVE  Balanced(Spent(k), r, cap) /\ Spent(k).last # Unprimed
<1>1. /\ k \in Bucket /\ k.tokens \in Nat /\ k.tokens <= cap /\ k.level \in Nat
      /\ k.last \in 0..MaxTime /\ k.seen \in 0..MaxTime /\ Second \in Nat \ {0}
  BY RateConstants DEF Balanced, Bucket
<1>2. PICK m : m = Spent(k)
  OBVIOUS
<1>3. k.tokens - 1 \in Nat /\ k.level + Second \in Nat
  BY <1>1
<1>4. m = [k EXCEPT !.tokens = k.tokens - 1, !.level = k.level + Second]
  BY <1>2 DEF Spent
<1>5. /\ m \in Bucket /\ m.tokens = k.tokens - 1 /\ m.level = k.level + Second
      /\ m.last = k.last /\ m.seen = k.seen
  BY <1>1, <1>3, <1>4, ZenonT(30) DEF Bucket
<1>6. Second * (k.tokens - 1) = Second * k.tokens - Second
  BY <1>1
<1>7. Second * k.tokens \in Nat /\ r * (k.seen - k.last) \in Int /\ Second * (cap + 1) \in Nat
  BY <1>1
<1>8. Budget(m, r, cap)
  BY <1>1, <1>5, <1>6, <1>7 DEF Balanced, Budget
<1> QED
  BY <1>1, <1>2, <1>5, <1>8 DEF Balanced

\* The budget bounds the level alone.
LEMMA LevelBound ==
  ASSUME NEW k, NEW r \in Nat, NEW cap \in Nat, Balanced(k, r, cap)
  PROVE  k.level < Second * (cap + 1)
<1>1. /\ k.level \in Nat /\ k.tokens \in Nat /\ k.last \in Nat /\ k.seen \in Nat
      /\ Second \in Nat \ {0}
  BY RateConstants DEF Balanced, Bucket
<1>2. Second * (cap + 1) \in Nat \ {0} /\ Second * k.tokens \in Nat
  BY <1>1
<1>3. CASE k.last = Unprimed
  BY <1>1, <1>2, <1>3 DEF Balanced
<1>4. CASE k.last # Unprimed
  <2>1. r * (k.seen - k.last) \in Nat
    BY <1>1, <1>4, Product DEF Balanced
  <2>2. k.level + Second * k.tokens + r * (k.seen - k.last) < Second * (cap + 1)
    BY <1>4, Zenon DEF Balanced, Budget
  <2>3. PICK x \in Nat, y \in Nat, z \in Nat :
          x = Second * k.tokens /\ y = r * (k.seen - k.last) /\ z = Second * (cap + 1)
    BY <1>2, <2>1, Zenon
  <2> QED BY <1>1, <2>2, <2>3
<1> QED BY <1>3, <1>4, Zenon

LEMMA BalancedTypes ==
  ASSUME NEW f, f = [b \in Buckets |-> f[b]],
         \A b \in Buckets : Balanced(f[b], Rate[b], Cap[b])
  PROVE  /\ \A b \in Buckets : f[b].tokens \in 0..Cap[b]
         /\ f \in [Buckets -> [tokens : Nat, last : 0..MaxTime, seen : 0..MaxTime,
                               level : Nat]]
<1>1. ASSUME NEW b \in Buckets PROVE f[b] \in Bucket /\ f[b].tokens \in 0..Cap[b]
  BY <1>1, BucketConstants DEF Balanced, Bucket
<1> QED BY <1>1, Zenon DEF Bucket

LEMMA BucketNames ==
  /\ "agg" \in Buckets /\ "risk" \in Buckets /\ Symbols \subseteq Buckets
  /\ "risk" \notin Symbols /\ "agg" \notin Symbols
BY RateAssumption, Zenon DEF RateAssumption, Buckets

-----------------------------------------------------------------------------
LEMMA GateInitSound == GateInit => GateInv
<1> SUFFICES ASSUME GateInit PROVE GateInv
  OBVIOUS
<1>1. ASSUME NEW b \in Buckets PROVE Balanced(bucket[b], Rate[b], Cap[b])
  BY <1>1, BucketConstants, RateConstants DEF GateInit, Balanced, Bucket, Unprimed
<1>2. bucket = [b \in Buckets |-> bucket[b]]
  BY Zenon DEF GateInit
<1>3. event \in [symbol : Symbols \cup {"none"}, ts : 0..MaxTime, left : 0..2] /\ event.left = 0
  BY RateConstants DEF GateInit, NoEvent, Unprimed
<1>4. /\ {positions, sent} \subseteq [Symbols -> Int] /\ dropped \in [Symbols -> Nat]
      /\ \A s \in Symbols : /\ Abs(positions[s]) <= MaxPosition
                           /\ Abs(positions[s] - sent[s]) <= dropped[s]
  BY RateConstants DEF GateInit, Abs
<1>5. /\ \A b \in Buckets : bucket[b].tokens \in 0..Cap[b]
      /\ bucket \in [Buckets -> [tokens : Nat, last : 0..MaxTime, seen : 0..MaxTime,
                                 level : Nat]]
  BY <1>1, <1>2, BalancedTypes, ZenonT(30)
<1>6. ~(event.left > 0)
  BY <1>3
<1>7. GateTypeOK
  BY <1>3, <1>4, <1>5, <1>6, Zenon DEF GateTypeOK
<1> QED BY <1>1, <1>4, <1>6, <1>7, ZenonT(30) DEF GateInv

\* An event shows its time to two buckets and takes nothing.
LEMMA BookEventSound ==
  ASSUME GateInv, NEW s \in Symbols, NEW t \in 1..MaxTime, BookEvent(s, t)
  PROVE  GateInv'
<1>1. ASSUME NEW b \in Buckets
      PROVE  /\ Balanced(bucket'[b], Rate[b], Cap[b])
             /\ b \in {s, "agg"} => bucket'[b].last # Unprimed
  <2>1. Rate[b] \in Nat /\ Cap[b] \in Nat /\ Balanced(bucket[b], Rate[b], Cap[b])
    BY <1>1, BucketConstants, ZenonT(30) DEF GateInv
  <2>2. Balanced(Shown(b, t), Rate[b], Cap[b]) /\ Shown(b, t).last # Unprimed
    BY <2>1, ShownBalanced, Zenon DEF Shown
  <2>3. bucket'[b] = IF b \in {s, "agg"} THEN Shown(b, t) ELSE bucket[b]
    BY <1>1, Zenon DEF BookEvent
  <2> QED BY <2>1, <2>2, <2>3, ZenonT(30)
<1>2. bucket' = [b \in Buckets |-> bucket'[b]]
  BY Zenon DEF BookEvent
<1>3. /\ event' \in [symbol : Symbols \cup {"none"}, ts : 0..MaxTime, left : 0..2]
      /\ event'.symbol = s /\ event'.ts > 0
  BY RateConstants DEF BookEvent
<1>4. bucket'[s].last # Unprimed /\ bucket'["agg"].last # Unprimed
  BY <1>1, BucketNames, Zenon
<1>5. /\ \A b \in Buckets : bucket'[b].tokens \in 0..Cap[b]
      /\ bucket' \in [Buckets -> [tokens : Nat, last : 0..MaxTime, seen : 0..MaxTime,
                                  level : Nat]]
  BY <1>1, <1>2, BalancedTypes, Zenon
<1>6. positions' = positions /\ sent' = sent /\ dropped' = dropped
  BY Zenon DEF BookEvent
<1> QED BY <1>1, <1>3, <1>4, <1>5, <1>6, ZenonT(30) DEF GateInv, GateTypeOK

LEMMA QuietSound ==
  ASSUME GateInv, Quiet
  PROVE  GateInv'
<1>1. /\ event' \in [symbol : Symbols \cup {"none"}, ts : 0..MaxTime, left : 0..2]
      /\ event.left > 0 /\ event'.symbol = event.symbol /\ event'.ts = event.ts
  <2>1. /\ event \in [symbol : Symbols \cup {"none"}, ts : 0..MaxTime, left : 0..2]
        /\ event.left > 0 /\ event' = [event EXCEPT !.left = @ - 1]
    BY Zenon DEF Quiet, GateInv, GateTypeOK
  <2> QED BY <2>1
<1>2. bucket' = bucket /\ positions' = positions /\ sent' = sent /\ dropped' = dropped
  BY ZenonT(30) DEF Quiet
<1> QED BY <1>1, <1>2 DEF GateInv, GateTypeOK

\* A message that found a token in both buckets takes one from each.
LEMMA ConsumedBalanced ==
  ASSUME GateInv, event.left > 0, TryConsume(event.symbol), NEW b \in Buckets
  PROVE  /\ Balanced(Consumed(b), Rate[b], Cap[b])
         /\ b \in {event.symbol, "agg"} => Consumed(b).last # Unprimed
<1>1. Rate[b] \in Nat /\ Cap[b] \in Nat /\ Balanced(bucket[b], Rate[b], Cap[b])
  BY BucketConstants, Zenon DEF GateInv
<1>2. b \in {event.symbol, "agg"} => bucket[b].last # Unprimed /\ bucket[b].tokens > 0
  BY ZenonT(30) DEF GateInv, TryConsume
<1> QED BY <1>1, <1>2, SpentBalanced, ZenonT(30) DEF Consumed

LEMMA CancelSound ==
  ASSUME GateInv, Cancel
  PROVE  GateInv'
<1>1. /\ event' \in [symbol : Symbols \cup {"none"}, ts : 0..MaxTime, left : 0..2]
      /\ event.left > 0 /\ event'.symbol = event.symbol /\ event'.ts = event.ts
      /\ event.symbol \in Symbols /\ event.ts > 0 /\ TryConsume(event.symbol)
  BY DEF Cancel, GateInv, GateTypeOK
<1>2. ASSUME NEW b \in Buckets
      PROVE  /\ Balanced(bucket'[b], Rate[b], Cap[b])
             /\ b \in {event.symbol, "agg"} => bucket'[b].last # Unprimed
  <2>1. bucket'[b] = Consumed(b)
    BY <1>2 DEF Cancel
  <2> QED BY <1>1, <2>1, ConsumedBalanced
<1>3. bucket' = [b \in Buckets |-> bucket'[b]]
  BY Zenon DEF Cancel
<1>4. bucket'[event.symbol].last # Unprimed /\ bucket'["agg"].last # Unprimed
  BY <1>1, <1>2, BucketNames, Zenon
<1>5. /\ \A b \in Buckets : bucket'[b].tokens \in 0..Cap[b]
      /\ bucket' \in [Buckets -> [tokens : Nat, last : 0..MaxTime, seen : 0..MaxTime,
                                  level : Nat]]
  BY <1>2, <1>3, BalancedTypes
<1>6. positions' = positions /\ sent' = sent /\ dropped' = dropped
  BY ZenonT(30) DEF Cancel
<1> QED BY <1>1, <1>2, <1>4, <1>5, <1>6, Zenon DEF GateInv, GateTypeOK

\* What SubmitOrder decides on.
Approved(delta) ==
  /\ Shown("risk", event.ts).tokens > 0
  /\ Abs(delta) <= MaxQty
  /\ WithinPosition(event.symbol, delta)

\* The bucket of the risk gate sees the time of the event, and loses a token to
\* an order that is approved.
LEMMA RiskBalanced ==
  ASSUME GateInv, event.left > 0, NEW delta \in Quantities
  PROVE  Balanced(IF Approved(delta) THEN Spent(Shown("risk", event.ts))
                                     ELSE Shown("risk", event.ts), Rate["risk"], Cap["risk"])
<1>1. /\ "risk" \in Buckets /\ Rate["risk"] \in Nat /\ Cap["risk"] \in Nat
      /\ Balanced(bucket["risk"], Rate["risk"], Cap["risk"])
  BY BucketNames, BucketConstants, ZenonT(30) DEF GateInv
<1>2. event.ts \in 1..MaxTime
  BY RateConstants DEF GateInv, GateTypeOK
<1>3. /\ Balanced(Shown("risk", event.ts), Rate["risk"], Cap["risk"])
      /\ Shown("risk", event.ts).last # Unprimed
  BY <1>1, <1>2, ShownBalanced, ZenonT(30) DEF Shown
<1> QED BY <1>1, <1>3, SpentBalanced, Zenon DEF Approved

\* What is booked and what is sent drift apart by what the ring refused.
LEMMA PositionsKept ==
  ASSUME GateInv, NEW delta \in Quantities, NEW room \in BOOLEAN, SubmitOrder(delta, room)
  PROVE  /\ positions' \in [Symbols -> Int] /\ sent' \in [Symbols -> Int]
         /\ dropped' \in [Symbols -> Nat]
         /\ \A s \in Symbols : /\ Abs(positions'[s]) <= MaxPosition
                              /\ Abs(positions'[s] - sent'[s]) <= dropped'[s]
<1>1. /\ positions \in [Symbols -> Int] /\ sent \in [Symbols -> Int]
      /\ dropped \in [Symbols -> Nat] /\ event.symbol \in Symbols /\ delta \in Int
  BY DEF GateInv, GateTypeOK, SubmitOrder, Quantities
<1>2. Abs(delta) \in Nat
  BY <1>1, AbsIsNat, Zenon
<1>3. CASE ~Approved(delta)
  <2>1. positions' = positions /\ sent' = sent /\ dropped' = dropped
    BY <1>3, Zenon DEF SubmitOrder, Approved
  <2> QED BY <1>1, <2>1 DEF GateInv
<1>4. CASE Approved(delta) /\ room
  <2>1. /\ positions' = [positions EXCEPT ![event.symbol] = @ + delta]
        /\ sent' = [sent EXCEPT ![event.symbol] = @ + delta] /\ dropped' = dropped
    BY <1>4, Zenon DEF SubmitOrder, Approved
  <2>2. Abs(positions[event.symbol] + delta) <= MaxPosition
    BY <1>4, Zenon DEF Approved, WithinPosition
  <2>3. positions' \in [Symbols -> Int] /\ sent' \in [Symbols -> Int]
    BY <1>1, <2>1
  <2>4. ASSUME NEW s \in Symbols
        PROVE  /\ Abs(positions'[s]) <= MaxPosition
               /\ positions'[s] - sent'[s] = positions[s] - sent[s]
    <3>1. CASE s = event.symbol
      BY <1>1, <2>1, <2>2, <3>1
    <3>2. CASE s # event.symbol
      BY <1>1, <2>1, <3>2, Zenon DEF GateInv
    <3> QED BY <3>1, <3>2, Zenon
  <2> QED BY <1>1, <2>1, <2>3, <2>4 DEF GateInv
<1>5. CASE Approved(delta) /\ ~room
  <2>1. /\ positions' = [positions EXCEPT ![event.symbol] = @ + delta] /\ sent' = sent
        /\ dropped' = [dropped EXCEPT ![event.symbol] = @ + Abs(delta)]
    BY <1>5, Zenon DEF SubmitOrder, Approved
  <2>2. Abs(positions[event.symbol] + delta) <= MaxPosition
    BY <1>5, Zenon DEF Approved, WithinPosition
  <2>3. positions' \in [Symbols -> Int] /\ dropped' \in [Symbols -> Nat]
    BY <1>1, <1>2, <2>1
  <2>4. ASSUME NEW s \in Symbols
        PROVE  /\ Abs(positions'[s]) <= MaxPosition
               /\ Abs(positions'[s] - sent[s]) <= dropped'[s]
    <3>1. CASE s = event.symbol
      <4>1. positions'[s] = positions[s] + delta /\ dropped'[s] = dropped[s] + Abs(delta)
        BY <1>1, <2>1, <3>1, Zenon
      <4>2. positions[s] \in Int /\ sent[s] \in Int /\ dropped[s] \in Nat
            /\ Abs(positions[s] - sent[s]) <= dropped[s]
        BY <1>1 DEF GateInv
      <4>3. Abs(positions'[s]) <= MaxPosition
        BY <2>2, <3>1, <4>1, ZenonT(30)
      <4>4. Abs(positions'[s] - sent[s]) <= dropped'[s]
        BY <1>1, <4>1, <4>2 DEF Abs
      <4> QED BY <4>3, <4>4, Zenon
    <3>2. CASE s # event.symbol
      BY <1>1, <2>1, <3>2 DEF GateInv
    <3> QED BY <3>1, <3>2, Zenon
  <2>5. sent' = sent
    BY <2>1, ZenonT(30)
  <2> QED BY <1>1, <2>3, <2>4, <2>5
<1> QED BY <1>3, <1>4, <1>5, Zenon

LEMMA SubmitOrderSound ==
  ASSUME GateInv, NEW delta \in Quantities, NEW room \in BOOLEAN, SubmitOrder(delta, room)
  PROVE  GateInv'
<1>1. /\ event' \in [symbol : Symbols \cup {"none"}, ts : 0..MaxTime, left : 0..2]
      /\ event.left > 0 /\ event'.symbol = event.symbol /\ event'.ts = event.ts
      /\ event.symbol \in Symbols /\ event.ts > 0 /\ TryConsume(event.symbol)
  BY DEF SubmitOrder, GateInv, GateTypeOK
<1>2. bucket' = [b \in Buckets |->
                   IF b # "risk" THEN Consumed(b)
                   ELSE IF Approved(delta) THEN Spent(Shown("risk", event.ts))
                        ELSE Shown("risk", event.ts)]
  BY Zenon DEF SubmitOrder, Approved
<1>3. ASSUME NEW b \in Buckets
      PROVE  /\ Balanced(bucket'[b], Rate[b], Cap[b])
             /\ b \in {event.symbol, "agg"} => bucket'[b].last # Unprimed
  <2>1. CASE b = "risk"
    <3>1. b \notin {event.symbol, "agg"}
      BY <1>1, <2>1, BucketNames, Zenon
    <3>2. bucket'[b] = IF Approved(delta) THEN Spent(Shown("risk", event.ts))
                       ELSE Shown("risk", event.ts)
      BY <1>2, <1>3, <2>1, Zenon
    <3> QED BY <1>1, <2>1, <3>1, <3>2, RiskBalanced, Zenon
  <2>2. CASE b # "risk"
    <3>1. bucket'[b] = Consumed(b)
      BY <1>2, <1>3, <2>2
    <3> QED BY <1>1, <1>3, <3>1, ConsumedBalanced, Zenon
  <2> QED BY <2>1, <2>2, Zenon
<1>4. bucket' = [b \in Buckets |-> bucket'[b]]
  BY <1>2, Zenon
<1>5. bucket'[event.symbol].last # Unprimed /\ bucket'["agg"].last # Unprimed
  BY <1>1, <1>3, BucketNames, Zenon
<1>6. /\ \A b \in Buckets : bucket'[b].tokens \in 0..Cap[b]
      /\ bucket' \in [Buckets -> [tokens : Nat, last : 0..MaxTime, seen : 0..MaxTime,
                                  level : Nat]]
  BY <1>3, <1>4, BalancedTypes, Zenon
<1>7. /\ positions' \in [Symbols -> Int] /\ sent' \in [Symbols -> Int]
      /\ dropped' \in [Symbols -> Nat]
      /\ \A s \in Symbols : /\ Abs(positions'[s]) <= MaxPosition
                           /\ Abs(positions'[s] - sent'[s]) <= dropped'[s]
  BY PositionsKept
<1> QED BY <1>1, <1>3, <1>5, <1>6, <1>7 DEF GateInv, GateTypeOK

LEMMA GateNextSound == GateInv /\ [GateNext]_gate_vars => GateInv'
<1> SUFFICES ASSUME GateInv, [GateNext]_gate_vars PROVE GateInv'
  OBVIOUS
<1>1. CASE \E s \in Symbols, t \in 1..MaxTime : BookEvent(s, t)
  BY <1>1, BookEventSound
<1>2. CASE Quiet
  BY <1>2, QuietSound
<1>3. CASE Cancel
  BY <1>3, CancelSound
<1>4. CASE \E delta \in Quantities, room \in BOOLEAN : SubmitOrder(delta, room)
  BY <1>4, SubmitOrderSound, Zenon
<1>5. CASE UNCHANGED gate_vars
  BY <1>5, ZenonT(30) DEF gate_vars, GateInv, GateTypeOK
<1> QED BY <1>1, <1>2, <1>3, <1>4, <1>5 DEF GateNext

-----------------------------------------------------------------------------
\* The budget of every bucket and the drift of the positions hold in every
\* reachable state, for timestamps in any order.
THEOREM RateInductive == GateSpec => []GateInv
BY GateInitSound, GateNextSound, PTL DEF GateSpec

\* No bucket of refill_buckets or inline_refill ever holds more than its burst
\* or less than nothing.
THEOREM BucketsAreTyped == GateSpec => []GateTypeOK
<1>1. GateInv => GateTypeOK
  BY DEF GateInv
<1> QED BY <1>1, RateInductive, PTL

\* For every rate, burst and order of timestamps, no window of time lets through
\* more than a burst, the rate times the window, and one message.
THEOREM RateIsLimited == GateSpec => []RateRespected
<1>1. GateInv => RateRespected
  BY BucketConstants, LevelBound, ZenonT(30) DEF GateInv, RateRespected
<1> QED BY <1>1, RateInductive, PTL

\* What reached the exchange side per stock stays within the limit of
\* check_and_fill, but for what was booked and then refused by a full ring.
THEOREM PositionIsLimited == GateSpec => []SentWithinLimit
<1>1. GateInv => SentWithinLimit
  <2> SUFFICES ASSUME GateInv, NEW s \in Symbols
               PROVE  Abs(sent[s]) <= MaxPosition + dropped[s]
    BY ZenonT(30) DEF SentWithinLimit
  <2>1. /\ positions[s] \in Int /\ sent[s] \in Int /\ dropped[s] \in Nat
        /\ Abs(positions[s]) <= MaxPosition /\ MaxPosition \in Nat
        /\ Abs(positions[s] - sent[s]) <= dropped[s]
    BY RateConstants DEF GateInv, GateTypeOK
  <2> QED BY <2>1, AbsNear, Zenon
<1> QED BY <1>1, RateInductive, PTL

-----------------------------------------------------------------------------
(* AfxdpTx: numbers and sequences, then the frames. *)

\* A set of numbers that is not empty has a least member.
LEMMA LeastIn ==
  ASSUME NEW T, T \subseteq Nat, T # {}
  PROVE  \E x \in T : \A y \in T : x <= y
<1> DEFINE R == OpToRel(<, Nat)
<1>1. \E x \in T : \A y \in T : ~ (<<y, x>> \in R)
  BY NatLessThanWellFounded, WFMin, Zenon
<1>2. \A x, y \in Nat : ~(<<y, x>> \in R) => ~(y < x)
  BY Zenon DEF OpToRel
<1> HIDE DEF R
<1>3. PICK x \in T : \A y \in T : ~(y < x)
  BY <1>1, <1>2, Zenon
<1>4. \A y \in T : x <= y
  BY <1>3
<1> QED BY <1>4, Zenon

\* Two sequences put together.
LEMMA Joined ==
  ASSUME NEW S, NEW u \in Seq(S), NEW v \in Seq(S), NEW w, w = u \o v
  PROVE  /\ w \in Seq(S) /\ Len(w) = Len(u) + Len(v)
         /\ \A i \in 1..Len(u) : w[i] = u[i]
         /\ \A i \in 1..Len(v) : w[Len(u) + i] = v[i]
OBVIOUS

\* One more at the end of a sequence.
LEMMA Appended ==
  ASSUME NEW S, NEW q \in Seq(S), NEW b \in S
  PROVE  /\ Append(q, b) \in Seq(S) /\ Len(Append(q, b)) = Len(q) + 1
         /\ Append(q, b)[Len(q) + 1] = b /\ \A i \in 1..Len(q) : Append(q, b)[i] = q[i]
OBVIOUS

\* The first of a sequence and the others.
LEMMA HeadAndTail ==
  ASSUME NEW S, NEW q \in Seq(S), q # <<>>
  PROVE  /\ Head(q) = q[1] /\ Head(q) \in S /\ Tail(q) \in Seq(S) /\ Len(Tail(q)) = Len(q) - 1
         /\ \A i \in 1..(Len(q) - 1) : Tail(q)[i] = q[i + 1]
OBVIOUS

\* The beginning of a sequence.
LEMMA FrontOf ==
  ASSUME NEW S, NEW u \in Seq(S), NEW n \in 0..Len(u)
  PROVE  /\ SubSeq(u, 1, n) \in Seq(S) /\ Len(SubSeq(u, 1, n)) = n
         /\ \A i \in 1..n : SubSeq(u, 1, n)[i] = u[i]
OBVIOUS


Payload == 1..(NumFrames - 1)

\* The orders that were given a frame.
Queued == IF pc = "send" THEN taken - 1 ELSE taken

\* Four queues share the frames.
Apart ==
  /\ Range(free) \cap Range(tx) = {} /\ Range(free) \cap Range(nic) = {}
  /\ Range(free) \cap Range(cq) = {} /\ Range(tx) \cap Range(nic) = {}
  /\ Range(tx) \cap Range(cq) = {} /\ Range(nic) \cap Range(cq) = {}

Once == IsInjective(free) /\ IsInjective(tx) /\ IsInjective(nic) /\ IsInjective(cq)

OwnInv ==
  /\ Once /\ Apart
  /\ Range(free) \cup Range(tx) \cup Range(nic) \cup Range(cq) = Payload

\* What makes the order of the wire inductive: the frames in the NIC and in the
\* tx ring hold the orders that follow the ones on the wire.
FlowInv ==
  /\ WireInOrder
  /\ \A i \in 1..Len(nic) : frame[nic[i]].order = Len(departed) + i
  /\ \A i \in 1..Len(tx) : frame[tx[i]].order = Len(departed) + Len(nic) + i
  /\ Len(departed) + Len(nic) + Len(tx) = Queued
  /\ pc # "idle" => taken > 0

TypeInv ==
  /\ free \in Seq(Payload) /\ tx \in Seq(Payload)
  /\ nic \in Seq(Payload) /\ cq \in Seq(Payload)
  /\ departed \in Seq(Nat) /\ taken \in Nat
  /\ pc \in {"idle", "send", "kick"}
  /\ frame = [f \in Frames |-> frame[f]]

TxInv == TypeInv /\ OwnInv /\ FlowInv

-----------------------------------------------------------------------------
(* Elements of sequences. *)
LEMMA AppendSet ==
  ASSUME NEW S, NEW s \in Seq(S), NEW x \in S
  PROVE  /\ Range(Append(s, x)) = Range(s) \cup {x}
         /\ IsInjective(s) /\ x \notin Range(s) => IsInjective(Append(s, x))
<1>1. PICK u : u = Append(s, x)
  BY Zenon
<1>2. PICK n \in Nat : n = Len(s) /\ DOMAIN s = 1..n
  OBVIOUS
<1>3. DOMAIN u = 1..(n + 1) /\ u[n + 1] = x /\ \A i \in 1..n : u[i] = s[i]
  BY <1>1, <1>2
<1>4. n + 1 \in 1..(n + 1) /\ \A i \in 1..n : i \in 1..(n + 1)
  OBVIOUS
<1>5. \A i \in 1..(n + 1) : i \in 1..n \/ i = n + 1
  OBVIOUS
<1>6. \A y : (\E i \in DOMAIN u : u[i] = y) <=> (y = x \/ \E i \in DOMAIN s : s[i] = y)
  BY <1>2, <1>3, <1>4, <1>5, Zenon
<1>7. Range(u) = Range(s) \cup {x}
  BY <1>6, Zenon DEF Range
<1>8. ASSUME IsInjective(s), x \notin Range(s), NEW i \in 1..(n + 1), NEW j \in 1..(n + 1),
             u[i] = u[j]
      PROVE  i = j
  <2>1. \A k \in 1..n : s[k] # x
    BY <1>2, <1>8, Zenon DEF Range
  <2>2. \A k, l \in 1..n : s[k] = s[l] => k = l
    BY <1>2, <1>8, Zenon DEF IsInjective
  <2> QED BY <1>3, <1>5, <1>8, <2>1, <2>2, Zenon
<1> QED BY <1>1, <1>3, <1>7, <1>8, Zenon DEF IsInjective

LEMMA TailSet ==
  ASSUME NEW S, NEW s \in Seq(S), s # <<>>, IsInjective(s)
  PROVE  /\ Head(s) \in Range(s) /\ IsInjective(Tail(s))
         /\ Range(Tail(s)) = Range(s) \ {Head(s)}
<1>0. Tail(s) \in Seq(S)
  BY HeadAndTail
<1>1. PICK u \in Seq(S) : u = Tail(s)
  BY <1>0, Zenon
<1>2. /\ Len(s) \in Nat /\ Len(s) > 0 /\ DOMAIN s = 1..Len(s) /\ DOMAIN u = 1..(Len(s) - 1)
      /\ Head(s) = s[1] /\ \A i \in 1..(Len(s) - 1) : u[i] = s[i + 1]
  BY <1>1
<1>3. Head(s) \in Range(s)
  BY <1>2 DEF Range
<1>4. IsInjective(u)
  <2> SUFFICES ASSUME NEW i \in DOMAIN u, NEW j \in DOMAIN u, u[i] = u[j] PROVE i = j
    BY Zenon DEF IsInjective
  <2>1. /\ i + 1 \in DOMAIN s /\ j + 1 \in DOMAIN s /\ s[i + 1] = s[j + 1]
        /\ i \in Nat /\ j \in Nat
    BY <1>2
  <2>2. i + 1 = j + 1
    BY <2>1, Zenon DEF IsInjective
  <2> QED BY <2>1, <2>2
<1>5. ASSUME NEW i \in DOMAIN u PROVE u[i] \in Range(s) /\ u[i] # Head(s)
  <2>1. i + 1 \in DOMAIN s /\ 1 \in DOMAIN s /\ i + 1 # 1 /\ u[i] = s[i + 1]
    BY <1>2, <1>5
  <2> QED BY <1>2, <2>1, Zenon DEF IsInjective, Range
<1>6. ASSUME NEW i \in DOMAIN s, s[i] # Head(s) PROVE s[i] \in Range(u)
  <2>1. i - 1 \in DOMAIN u /\ u[i - 1] = s[i]
    BY <1>2, <1>6
  <2> QED BY <2>1 DEF Range
<1>7. Range(u) = Range(s) \ {Head(s)}
  BY <1>5, <1>6, Zenon DEF Range
<1> QED BY <1>1, <1>3, <1>4, <1>7, Zenon

LEMMA AllocatedSet ==
  ASSUME NEW S, NEW s \in Seq(S), s # <<>>, IsInjective(s)
  PROVE  /\ Allocated(s) \in Seq(S) /\ Top(s) \in S /\ Top(s) \in Range(s)
         /\ IsInjective(Allocated(s)) /\ Range(Allocated(s)) = Range(s) \ {Top(s)}
<1>1. PICK n \in Nat : n + 1 = Len(s) /\ DOMAIN s = 1..(n + 1) /\ n \in 0..Len(s)
  <2>1. PICK l \in Nat : l = Len(s) /\ DOMAIN s = 1..l /\ l # 0
    OBVIOUS
  <2>2. l - 1 \in Nat /\ (l - 1) + 1 = l /\ l - 1 \in 0..l
    BY <2>1
  <2> QED BY <2>1, <2>2, Zenon
<1>2. Len(s) - 1 = n
  BY <1>1
<1>3. PICK u : u = Allocated(s) /\ u = SubSeq(s, 1, n)
  BY <1>2, Zenon DEF Allocated
<1>4. u \in Seq(S) /\ Len(u) = n /\ \A i \in 1..n : u[i] = s[i]
  BY <1>1, <1>3, FrontOf, ZenonT(30)
<1>5. DOMAIN u = 1..n
  BY <1>4
<1>6. PICK x : x = Top(s) /\ x = s[n + 1]
  BY <1>1, Zenon DEF Top
<1>7. n + 1 \in 1..(n + 1) /\ \A i \in 1..n : i \in 1..(n + 1) /\ i # n + 1
  OBVIOUS
<1>8. \A i \in 1..(n + 1) : i \in 1..n \/ i = n + 1
  OBVIOUS
<1>9. x \in S
  BY <1>1, <1>6, <1>7
<1>10. \A k, l \in 1..(n + 1) : s[k] = s[l] => k = l
  BY <1>1, Zenon DEF IsInjective
<1>11. IsInjective(u)
  BY <1>4, <1>5, <1>7, <1>10, Zenon DEF IsInjective
<1>12. \A y : (\E i \in 1..n : u[i] = y) <=> (y # x /\ \E i \in 1..(n + 1) : s[i] = y)
  BY <1>4, <1>6, <1>7, <1>8, <1>10, Zenon
<1>13. Range(u) = Range(s) \ {x}
  BY <1>1, <1>5, <1>12, Zenon DEF Range
<1>14. x \in Range(s)
  BY <1>1, <1>6, <1>7, Zenon DEF Range
<1> QED BY <1>3, <1>4, <1>6, <1>9, <1>11, <1>13, <1>14, Zenon

LEMMA ConcatSet ==
  ASSUME NEW S, NEW s \in Seq(S), NEW t \in Seq(S)
  PROVE  /\ s \o t \in Seq(S) /\ Range(s \o t) = Range(s) \cup Range(t)
         /\ IsInjective(s) /\ IsInjective(t) /\ Range(s) \cap Range(t) = {}
              => IsInjective(s \o t)
<1>1. PICK u : u = s \o t
  BY Zenon
<1>2. PICK a \in Nat, b \in Nat : a = Len(s) /\ b = Len(t) /\ DOMAIN s = 1..a /\ DOMAIN t = 1..b
  OBVIOUS
<1>3. /\ u \in Seq(S) /\ Len(u) = Len(s) + Len(t)
      /\ \A i \in 1..Len(s) : u[i] = s[i]
      /\ \A i \in 1..Len(t) : u[Len(s) + i] = t[i]
  BY <1>1, Joined
<1>4. /\ Len(u) = a + b /\ \A i \in 1..a : u[i] = s[i]
      /\ \A i \in 1..b : u[a + i] = t[i]
  BY <1>2, <1>3, Zenon
<1>5. DOMAIN u = 1..(a + b)
  BY <1>3, <1>4
<1>6. ASSUME NEW i \in 1..(a + b)
      PROVE  (i \in 1..a /\ u[i] = s[i]) \/ \E k \in 1..b : i = a + k /\ u[i] = t[k]
  <2>1. i \in 1..a \/ (i - a \in 1..b /\ i = a + (i - a))
    OBVIOUS
  <2>2. CASE i \in 1..a
    BY <1>4, <2>2, Zenon
  <2>3. CASE i - a \in 1..b /\ i = a + (i - a)
    <3>1. PICK k \in 1..b : i = a + k
      BY <2>3, Zenon
    <3>2. u[a + k] = t[k]
      BY <1>4, Zenon
    <3>3. u[i] = t[k]
      BY <3>1, <3>2, Zenon
    <3> QED BY <3>1, <3>3, Zenon
  <2> QED BY <2>1, <2>2, <2>3, Zenon
<1>7. /\ \A i \in 1..a : i \in 1..(a + b)
      /\ \A i \in 1..b : a + i \in 1..(a + b)
  OBVIOUS
<1>8. Range(u) = Range(s) \cup Range(t)
  <2>1. ASSUME NEW y \in Range(u) PROVE y \in Range(s) \cup Range(t)
    <3>1. PICK i \in 1..(a + b) : u[i] = y
      BY <1>5, <2>1, Zenon DEF Range
    <3>2. (i \in 1..a /\ s[i] = y) \/ \E k \in 1..b : t[k] = y
      BY <1>6, <3>1, Zenon
    <3> QED BY <1>2, <3>2, Zenon DEF Range
  <2>2. ASSUME NEW y \in Range(s) PROVE y \in Range(u)
    <3>1. PICK i \in 1..a : s[i] = y
      BY <1>2, <2>2, Zenon DEF Range
    <3>2. i \in DOMAIN u /\ u[i] = y
      BY <1>4, <1>5, <1>7, <3>1, Zenon
    <3> QED BY <3>2, Zenon DEF Range
  <2>3. ASSUME NEW y \in Range(t) PROVE y \in Range(u)
    <3>1. PICK i \in 1..b : t[i] = y
      BY <1>2, <2>3, Zenon DEF Range
    <3>2. a + i \in DOMAIN u
      BY <1>5, <1>7, Zenon
    <3>3. u[a + i] = y
      BY <1>4, <3>1, Zenon
    <3> QED BY <3>2, <3>3, Zenon DEF Range
  <2> QED BY <2>1, <2>2, <2>3, Zenon
<1>9. ASSUME IsInjective(s), IsInjective(t), Range(s) \cap Range(t) = {},
             NEW i \in 1..(a + b), NEW j \in 1..(a + b), u[i] = u[j]
      PROVE  i = j
  <2>1. \A k \in 1..a, l \in 1..b : s[k] # t[l]
    BY <1>2, <1>9, Zenon DEF Range
  <2>2. \A k, l \in 1..a : s[k] = s[l] => k = l
    BY <1>2, <1>9, Zenon DEF IsInjective
  <2>3. \A k, l \in 1..b : t[k] = t[l] => k = l
    BY <1>2, <1>9, Zenon DEF IsInjective
  <2>4. CASE i \in 1..a /\ u[i] = s[i]
    <3>1. j \in 1..a /\ u[j] = s[j]
      BY <1>6, <1>9, <2>1, <2>4, Zenon
    <3> QED BY <1>9, <2>2, <2>4, <3>1, Zenon
  <2>5. CASE \E k \in 1..b : i = a + k /\ u[i] = t[k]
    <3>1. PICK k \in 1..b : i = a + k /\ u[i] = t[k]
      BY <2>5, Zenon
    <3>2. PICK l \in 1..b : j = a + l /\ u[j] = t[l]
      BY <1>6, <1>9, <2>1, <3>1, Zenon
    <3>3. k = l
      BY <1>9, <2>3, <3>1, <3>2, Zenon
    <3> QED BY <3>1, <3>2, <3>3, Zenon
  <2> QED BY <1>6, <2>4, <2>5, Zenon
<1> QED BY <1>1, <1>3, <1>5, <1>8, <1>9, Zenon DEF IsInjective

-----------------------------------------------------------------------------
LEMMA TxConstants ==
  /\ NumFrames \in Nat /\ NumFrames > 1 /\ TxSize \in Nat /\ Payload \subseteq Frames
  /\ Payload = Frames \ {Template} /\ MaxLength \in Nat /\ MaxOrders \in Nat
BY TxAssumption DEF TxAssumption, Payload, Frames, Template

\* The elements of u are those of s and those of A.
Gains(u, s, A) == Range(u) = Range(s) \cup A

LEMMA AppendGains ==
  ASSUME NEW S, NEW s \in Seq(S), NEW x \in S
  PROVE  Gains(Append(s, x), s, {x})
<1>1. Range(Append(s, x)) = Range(s) \cup {x}
  BY AppendSet
<1> QED BY <1>1, Zenon DEF Gains

LEMMA ConcatGains ==
  ASSUME NEW S, NEW s \in Seq(S), NEW t \in Seq(S)
  PROVE  Gains(s \o t, s, Range(t))
<1>1. Range(s \o t) = Range(s) \cup Range(t)
  BY ConcatSet
<1> QED BY <1>1, Zenon DEF Gains

\* r is the queue q with the frame b at its end.
Grown(S, q, b, r) ==
  /\ r \in Seq(S) /\ Len(r) = Len(q) + 1 /\ r[Len(q) + 1] = b
  /\ \A i \in 1..Len(q) : r[i] = q[i]

LEMMA GrownByOne ==
  ASSUME NEW S, NEW q \in Seq(S), NEW b \in S
  PROVE  Grown(S, q, b, Append(q, b))
BY Appended DEF Grown

\* h leaves the front of a queue q, of which r remains, for the end of d, which becomes e.
Moved(q, d, h, r, e) ==
  /\ h = q[1] /\ h \in Payload /\ r \in Seq(Payload) /\ Len(r) = Len(q) - 1
  /\ \A i \in 1..(Len(q) - 1) : r[i] = q[i + 1]
  /\ Grown(Payload, d, h, e)
  /\ IsInjective(r) /\ IsInjective(e) /\ h \in Range(q)
  /\ Range(r) = Range(q) \ {h} /\ Range(e) = Range(d) \cup {h}

\* The free frames once the completion ring is drained.
LEMMA DrainedSet ==
  ASSUME TxInv
  PROVE  /\ Drained \in Seq(Payload) /\ IsInjective(Drained)
         /\ Range(Drained) = Range(free) \cup Range(cq)
<1>1. /\ free \in Seq(Payload) /\ cq \in Seq(Payload) /\ IsInjective(free) /\ IsInjective(cq)
      /\ Range(free) \cap Range(cq) = {}
  BY Zenon DEF TxInv, TypeInv, OwnInv, Once, Apart
<1>2. free \o cq \in Seq(Payload)
  BY <1>1, ConcatSet, Zenon
<1>3. Gains(free \o cq, free, Range(cq))
  BY <1>1, ConcatGains, Zenon
<1>4. IsInjective(free \o cq)
  BY <1>1, ConcatSet, Zenon
<1> QED BY <1>2, <1>3, <1>4, Zenon DEF Drained, Gains

LEMMA EmptySet ==
  /\ Range(<<>>) = {} /\ IsInjective(<<>>)
  /\ \A S : <<>> \in Seq(S)
BY DEF Range, IsInjective

LEMMA IdleSound == ASSUME TxInv, TxIdle PROVE TxInv'
<1>1. /\ free' = Drained /\ cq' = <<>> /\ tx' = tx /\ nic' = nic /\ departed' = departed
      /\ frame' = frame /\ pc' = pc /\ taken' = taken
  BY DEF TxIdle
<1>2. TypeInv'
  BY <1>1, DrainedSet, EmptySet, Zenon DEF TxInv, TypeInv
<1>3. OwnInv'
  BY <1>1, DrainedSet, EmptySet, Zenon DEF TxInv, OwnInv, Once, Apart
<1>4. FlowInv'
  BY <1>1, Zenon DEF TxInv, FlowInv, WireInOrder, Queued
<1> QED BY <1>2, <1>3, <1>4 DEF TxInv

LEMMA TakeSound == ASSUME TxInv, Take PROVE TxInv'
<1>1. /\ free' = free /\ cq' = cq /\ tx' = tx /\ nic' = nic /\ departed' = departed
      /\ frame' = frame /\ pc = "idle" /\ pc' = "send" /\ taken' = taken + 1
      /\ taken \in Nat
  BY Zenon DEF Take, TxInv, TypeInv
<1>2. TypeInv'
  <2>1. pc' \in {"idle", "send", "kick"} /\ taken' \in Nat
    <3>1. taken + 1 \in Nat
      BY <1>1
    <3> QED BY <1>1, <3>1, Zenon
  <2> QED BY <1>1, <2>1, Zenon DEF TxInv, TypeInv
<1>3. OwnInv'
  BY <1>1, Zenon DEF TxInv, OwnInv, Once, Apart
<1>4. FlowInv'
  <2>1. Queued' = Queued
    BY <1>1 DEF Queued
  <2> QED BY <1>1, <2>1 DEF TxInv, FlowInv, WireInOrder
<1> QED BY <1>2, <1>3, <1>4 DEF TxInv

LEMMA KickSound == ASSUME TxInv, Kick PROVE TxInv'
<1>1. /\ free' = free /\ cq' = cq /\ tx' = tx /\ nic' = nic /\ departed' = departed
      /\ frame' = frame /\ pc = "kick" /\ pc' = "idle" /\ taken' = taken
  BY DEF Kick
<1>2. TypeInv'
  <2>1. pc' \in {"idle", "send", "kick"}
    BY <1>1, ZenonT(30)
  <2> QED BY <1>1, <2>1, Zenon DEF TxInv, TypeInv
<1>3. OwnInv'
  BY <1>1 DEF TxInv, OwnInv, Once, Apart
<1>4. FlowInv'
  <2>1. Queued' = Queued
    BY <1>1, ZenonT(30) DEF Queued
  <2> QED BY <1>1, <2>1, Zenon DEF TxInv, FlowInv, WireInOrder
<1> QED BY <1>2, <1>3, <1>4 DEF TxInv

\* The frame alloc_frame takes: it is in no queue that the NIC reads.
LEMMA NewFrame ==
  ASSUME TxInv, Drained # <<>>, NEW f, f = Top(Drained)
  PROVE  /\ f \in Payload /\ f \in Frames /\ f \in Range(free) \cup Range(cq)
         /\ f \notin Range(tx) /\ f \notin Range(nic)
         /\ Allocated(Drained) \in Seq(Payload) /\ IsInjective(Allocated(Drained))
         /\ Range(Allocated(Drained)) = (Range(free) \cup Range(cq)) \ {f}
<1>1. /\ Drained \in Seq(Payload) /\ IsInjective(Drained)
      /\ Range(Drained) = Range(free) \cup Range(cq)
  BY DrainedSet, Zenon
<1>2. /\ f \in Payload /\ f \in Range(Drained) /\ Allocated(Drained) \in Seq(Payload)
      /\ IsInjective(Allocated(Drained)) /\ Range(Allocated(Drained)) = Range(Drained) \ {f}
  BY <1>1, AllocatedSet, Zenon
<1>3. f \notin Range(tx) /\ f \notin Range(nic)
  BY <1>1, <1>2, Zenon DEF TxInv, OwnInv, Apart
<1> QED BY <1>1, <1>2, <1>3, TxConstants

\* Writing a frame that is in neither queue changes no order on its way out.
LEMMA SameOrders ==
  ASSUME TxInv, NEW f \in Frames, NEW pk, f \notin Range(tx), f \notin Range(nic),
         frame' = [frame EXCEPT ![f] = pk]
  PROVE  /\ frame' = [g \in Frames |-> frame'[g]] /\ frame'[f] = pk
         /\ \A i \in 1..Len(nic) : frame'[nic[i]] = frame[nic[i]]
         /\ \A i \in 1..Len(tx) : frame'[tx[i]] = frame[tx[i]]
<1>1. /\ nic \in Seq(Payload) /\ tx \in Seq(Payload) /\ Payload \subseteq Frames
      /\ frame = [g \in Frames |-> frame[g]]
  BY TxConstants DEF TxInv, TypeInv
<1>2. ASSUME NEW i \in 1..Len(nic) PROVE nic[i] \in Frames /\ nic[i] # f
  BY <1>1, <1>2 DEF Range
<1>3. ASSUME NEW i \in 1..Len(tx) PROVE tx[i] \in Frames /\ tx[i] # f
  BY <1>1, <1>3 DEF Range
<1>4. \A g \in Frames : frame'[g] = IF g = f THEN pk ELSE frame[g]
  BY <1>1, Zenon
<1>5. frame' = [g \in Frames |-> frame'[g]]
  BY <1>1, Zenon
<1> QED BY <1>2, <1>3, <1>4, <1>5, Zenon

LEMMA NoDescriptorSound == ASSUME TxInv, SendNoDescriptor PROVE TxInv'
<1>1. PICK f : f = Top(Drained)
  OBVIOUS
<1>2. /\ Drained # <<>> /\ frame' = [frame EXCEPT ![f] = Packet(taken)]
      /\ free' = Append(Allocated(Drained), f) /\ cq' = <<>>
      /\ tx' = tx /\ nic' = nic /\ departed' = departed /\ pc' = pc /\ taken' = taken
  BY <1>1, Zenon DEF SendNoDescriptor, Released
<1>3. /\ f \in Payload /\ f \in Frames /\ f \in Range(free) \cup Range(cq)
      /\ f \notin Range(tx) /\ f \notin Range(nic)
      /\ Allocated(Drained) \in Seq(Payload) /\ IsInjective(Allocated(Drained))
      /\ Range(Allocated(Drained)) = (Range(free) \cup Range(cq)) \ {f}
  BY <1>1, <1>2, NewFrame, Zenon
<1>4. /\ free' \in Seq(Payload) /\ IsInjective(free')
      /\ Range(free') = Range(free) \cup Range(cq)
  <2>1. Append(Allocated(Drained), f) \in Seq(Payload)
    BY <1>3, Appended, Zenon
  <2>2. f \notin Range(Allocated(Drained))
    BY <1>3, ZenonT(30)
  <2>3. /\ Range(Append(Allocated(Drained), f)) = Range(Allocated(Drained)) \cup {f}
        /\ IsInjective(Append(Allocated(Drained), f))
    BY <1>3, <2>2, AppendSet
  <2> QED BY <1>2, <1>3, <2>1, <2>3, ZenonT(30)
<1>5. /\ frame' = [g \in Frames |-> frame'[g]]
      /\ \A i \in 1..Len(nic) : frame'[nic[i]] = frame[nic[i]]
      /\ \A i \in 1..Len(tx) : frame'[tx[i]] = frame[tx[i]]
  BY <1>2, <1>3, SameOrders, Zenon
<1>6. TypeInv'
  BY <1>2, <1>4, <1>5, EmptySet, Zenon DEF TxInv, TypeInv
<1>7. OwnInv'
  BY <1>2, <1>4, EmptySet, Zenon DEF TxInv, OwnInv, Once, Apart
<1>8. FlowInv'
  <2>1. Queued' = Queued
    BY <1>2 DEF Queued
  <2> QED BY <1>2, <1>5, <2>1 DEF TxInv, FlowInv, WireInOrder
<1> QED BY <1>6, <1>7, <1>8 DEF TxInv

LEMMA PushedSound == ASSUME TxInv, SendPushed PROVE TxInv'
<1>1. PICK f : f = Top(Drained)
  OBVIOUS
<1>2. /\ Drained # <<>> /\ frame' = [frame EXCEPT ![f] = Packet(taken)]
      /\ free' = Allocated(Drained) /\ cq' = <<>> /\ tx' = Append(tx, f)
      /\ nic' = nic /\ departed' = departed /\ pc = "send" /\ pc' = "kick" /\ taken' = taken
  BY <1>1, Zenon DEF SendPushed
<1>3. /\ f \in Payload /\ f \in Frames /\ f \in Range(free) \cup Range(cq)
      /\ f \notin Range(tx) /\ f \notin Range(nic)
      /\ free' \in Seq(Payload) /\ IsInjective(free')
      /\ Range(free') = (Range(free) \cup Range(cq)) \ {f}
  <2>1. /\ f \in Payload /\ f \in Frames /\ f \in Range(free) \cup Range(cq)
        /\ f \notin Range(tx) /\ f \notin Range(nic)
        /\ Allocated(Drained) \in Seq(Payload) /\ IsInjective(Allocated(Drained))
        /\ Range(Allocated(Drained)) = (Range(free) \cup Range(cq)) \ {f}
    BY <1>1, <1>2, NewFrame, Zenon
  <2> QED BY <1>2, <2>1, Zenon
<1>4. /\ tx \in Seq(Payload) /\ nic \in Seq(Payload) /\ departed \in Seq(Nat) /\ taken \in Nat
      /\ Len(tx) \in Nat /\ Len(nic) \in Nat /\ Len(departed) \in Nat
  <2>1. tx \in Seq(Payload) /\ nic \in Seq(Payload) /\ departed \in Seq(Nat) /\ taken \in Nat
    BY Zenon DEF TxInv, TypeInv
  <2> QED BY <2>1
<1>5. /\ tx' \in Seq(Payload) /\ IsInjective(tx') /\ Range(tx') = Range(tx) \cup {f}
      /\ Len(tx') = Len(tx) + 1 /\ tx'[Len(tx) + 1] = f
      /\ \A i \in 1..Len(tx) : tx'[i] = tx[i]
  <2>1. IsInjective(tx)
    BY Zenon DEF TxInv, OwnInv, Once
  <2>2. IsInjective(Append(tx, f)) /\ Range(Append(tx, f)) = Range(tx) \cup {f}
    <3>1. Gains(Append(tx, f), tx, {f})
      BY <1>3, <1>4, AppendGains, Zenon
    <3>2. IsInjective(Append(tx, f))
      BY <1>3, <1>4, <2>1, AppendSet, Zenon
    <3> QED BY <3>1, <3>2, Zenon DEF Gains
  <2>3. Grown(Payload, tx, f, Append(tx, f))
    BY <1>3, <1>4, GrownByOne, Zenon
  <2>4. Grown(Payload, tx, f, tx')
    BY <1>2, <2>3, Zenon
  <2> QED BY <1>2, <2>2, <2>4, Zenon DEF Grown
<1>6. /\ frame' = [g \in Frames |-> frame'[g]] /\ frame'[f] = Packet(taken)
      /\ \A i \in 1..Len(nic) : frame'[nic[i]] = frame[nic[i]]
      /\ \A i \in 1..Len(tx) : frame'[tx[i]] = frame[tx[i]]
  BY <1>2, <1>3, SameOrders, Zenon
<1>7. TypeInv'
  BY <1>2, <1>3, <1>4, <1>5, <1>6, EmptySet, Zenon DEF TypeInv
<1>8. OwnInv'
  <2>1. Once'
    BY <1>2, <1>3, <1>5, EmptySet, Zenon DEF TxInv, OwnInv, Once
  <2>2. Apart'
    <3>1. /\ Range(free) \cap Range(tx) = {} /\ Range(free) \cap Range(nic) = {}
          /\ Range(tx) \cap Range(nic) = {} /\ Range(tx) \cap Range(cq) = {}
          /\ Range(nic) \cap Range(cq) = {} /\ Range(cq') = {} /\ nic' = nic
      BY <1>2, EmptySet, Zenon DEF TxInv, OwnInv, Apart
    <3>2. Range(free') \cap Range(tx') = {}
      BY <1>3, <1>5, <3>1, Zenon
    <3>3. Range(free') \cap Range(nic') = {}
      BY <1>3, <3>1, Zenon
    <3>4. Range(tx') \cap Range(nic') = {}
      BY <1>3, <1>5, <3>1, Zenon
    <3> QED BY <3>1, <3>2, <3>3, <3>4, Zenon DEF Apart
  <2>3. Range(free') \cup Range(tx') \cup Range(nic') \cup Range(cq') = Payload
    BY <1>2, <1>3, <1>5, EmptySet, Zenon DEF TxInv, OwnInv
  <2> QED BY <2>1, <2>2, <2>3, Zenon DEF OwnInv
<1>9. FlowInv'
  <2>1. Queued = taken - 1 /\ Queued' = taken
    BY <1>2, Zenon DEF Queued
  <2>2. /\ Len(departed) + Len(nic) + Len(tx) = Queued /\ taken > 0
        /\ \A i \in 1..Len(tx) : frame[tx[i]].order = Len(departed) + Len(nic) + i
        /\ \A i \in 1..Len(nic) : frame[nic[i]].order = Len(departed) + i
    BY <1>2, Zenon DEF TxInv, FlowInv
  <2>3. Packet(taken).order = taken
    BY Zenon DEF Packet
  <2>4. taken = Len(departed) + Len(nic) + (Len(tx) + 1)
    <3>1. PICK d \in Nat, n \in Nat, k \in Nat : d = Len(departed) /\ n = Len(nic) /\ k = Len(tx)
      BY <1>4, Zenon
    <3>2. d + n + k = taken - 1
      BY <2>1, <2>2, <3>1, Zenon
    <3>3. taken = d + n + (k + 1)
      BY <1>4, <3>2
    <3> QED BY <3>1, <3>3, Zenon
  <2>5. ASSUME NEW i \in 1..Len(tx')
        PROVE  frame'[tx'[i]].order = Len(departed) + Len(nic) + i
    <3>1. CASE i \in 1..Len(tx)
      <4>1. tx'[i] = tx[i] /\ frame'[tx[i]] = frame[tx[i]]
        BY <1>5, <1>6, <3>1, Zenon
      <4>2. frame[tx[i]].order = Len(departed) + Len(nic) + i
        BY <2>2, <3>1, Zenon
      <4> QED BY <4>1, <4>2, Zenon
    <3>2. CASE i = Len(tx) + 1
      BY <1>5, <1>6, <2>3, <2>4, <3>2, Zenon
    <3>3. PICK k \in Nat : k = Len(tx)
      BY <1>4, Zenon
    <3>4. i \in 1..(k + 1)
      BY <1>5, <2>5, <3>3, Zenon
    <3>5. i \in 1..k \/ i = k + 1
      BY <3>4
    <3> QED BY <3>1, <3>2, <3>3, <3>5, Zenon
  <2>6. \A i \in 1..Len(nic) : frame'[nic[i]].order = Len(departed) + i
    BY <1>6, <2>2, Zenon
  <2>7. Len(departed) + Len(nic) + Len(tx') = Queued'
    BY <1>4, <1>5, <2>1, <2>4, Zenon
  <2> QED BY <1>2, <2>2, <2>5, <2>6, <2>7, Zenon DEF TxInv, FlowInv, WireInOrder
<1> QED BY <1>7, <1>8, <1>9 DEF TxInv

\* The head of a queue moves to the end of another one.
LEMMA MoveHead ==
  ASSUME NEW q \in Seq(Payload), NEW d \in Seq(Payload), q # <<>>,
         IsInjective(q), IsInjective(d), Range(q) \cap Range(d) = {}
  PROVE  Moved(q, d, Head(q), Tail(q), Append(d, Head(q)))
<1>1. /\ Head(q) = q[1] /\ Head(q) \in Payload
      /\ Tail(q) \in Seq(Payload) /\ Len(Tail(q)) = Len(q) - 1
      /\ \A i \in 1..(Len(q) - 1) : Tail(q)[i] = q[i + 1]
  BY HeadAndTail
<1>2. PICK h \in Payload : h = Head(q)
  BY <1>1, Zenon
<1>3. Grown(Payload, d, h, Append(d, h))
  BY GrownByOne, Zenon
<1>4. h \in Range(q) /\ IsInjective(Tail(q)) /\ Range(Tail(q)) = Range(q) \ {h}
  BY <1>2, TailSet, Zenon
<1>5. h \notin Range(d)
  BY <1>4, Zenon
<1>6. Gains(Append(d, h), d, {h})
  BY AppendGains, Zenon
<1>7. IsInjective(Append(d, h))
  BY <1>5, AppendSet, Zenon
<1> QED BY <1>1, <1>2, <1>3, <1>4, <1>6, <1>7, Zenon DEF Moved, Gains

LEMMA TransmitSound == ASSUME TxInv, Transmit PROVE TxInv'
<1>1. /\ tx # <<>> /\ nic' = Append(nic, Head(tx)) /\ tx' = Tail(tx) /\ free' = free
      /\ cq' = cq /\ departed' = departed /\ frame' = frame /\ pc' = pc /\ taken' = taken
  BY Zenon DEF Transmit
<1>2. /\ tx \in Seq(Payload) /\ nic \in Seq(Payload) /\ departed \in Seq(Nat)
      /\ IsInjective(tx) /\ IsInjective(nic) /\ Range(tx) \cap Range(nic) = {}
      /\ Len(tx) \in Nat /\ Len(nic) \in Nat /\ Len(departed) \in Nat /\ Len(tx) > 0
  <2>1. /\ tx \in Seq(Payload) /\ nic \in Seq(Payload) /\ cq \in Seq(Payload)
        /\ departed \in Seq(Nat) /\ IsInjective(tx) /\ IsInjective(nic) /\ IsInjective(cq)
        /\ Range(tx) \cap Range(nic) = {} /\ Range(nic) \cap Range(cq) = {}
    BY Zenon DEF TxInv, TypeInv, OwnInv, Once, Apart
  <2>2. /\ Len(tx) \in Nat /\ Len(nic) \in Nat /\ Len(departed) \in Nat
        /\ Len(tx) > 0
    BY <1>1, <2>1
  <2> QED BY <2>1, <2>2, Zenon
<1>3. PICK h \in Payload : h = Head(tx)
  BY <1>1, <1>2, MoveHead, Zenon DEF Moved
<1>4. Moved(tx, nic, h, tx', nic')
  BY <1>1, <1>2, <1>3, MoveHead, Zenon
<1>5. /\ h = tx[1] /\ tx' \in Seq(Payload) /\ nic' \in Seq(Payload)
      /\ Len(tx') = Len(tx) - 1 /\ Len(nic') = Len(nic) + 1
      /\ \A i \in 1..(Len(tx) - 1) : tx'[i] = tx[i + 1]
      /\ nic'[Len(nic) + 1] = h /\ \A i \in 1..Len(nic) : nic'[i] = nic[i]
  BY <1>4, Zenon DEF Moved, Grown
<1>6. /\ IsInjective(tx') /\ IsInjective(nic') /\ h \in Range(tx)
      /\ Range(tx') = Range(tx) \ {h} /\ Range(nic') = Range(nic) \cup {h}
  BY <1>4, Zenon DEF Moved
<1>7. TypeInv'
  BY <1>1, <1>5, Zenon DEF TxInv, TypeInv
<1>8. OwnInv'
  <2>1. Once'
    BY <1>1, <1>6, Zenon DEF TxInv, OwnInv, Once
  <2>2. Apart'
    BY <1>1, <1>6, Zenon DEF TxInv, OwnInv, Apart
  <2>3. Range(free') \cup Range(tx') \cup Range(nic') \cup Range(cq') = Payload
    BY <1>1, <1>6, Zenon DEF TxInv, OwnInv
  <2> QED BY <2>1, <2>2, <2>3, Zenon DEF OwnInv
<1>9. FlowInv'
  <2>1. /\ Queued' = Queued /\ Len(departed) + Len(nic) + Len(tx) = Queued
        /\ \A i \in 1..Len(nic) : frame[nic[i]].order = Len(departed) + i
        /\ \A i \in 1..Len(tx) : frame[tx[i]].order = Len(departed) + Len(nic) + i
    BY <1>1, Zenon DEF Queued, TxInv, FlowInv
  <2>0. PICK d \in Nat, n \in Nat, k \in Nat :
          /\ d = Len(departed) /\ n = Len(nic) /\ k + 1 = Len(tx)
          /\ Len(nic') = n + 1 /\ Len(tx') = k
    <3>1. PICK d \in Nat, n \in Nat, m \in Nat : d = Len(departed) /\ n = Len(nic) /\ m = Len(tx)
      BY <1>2, Zenon
    <3>2. m > 0 /\ Len(tx') = m - 1 /\ Len(nic') = n + 1
      BY <1>2, <1>5, <3>1, Zenon
    <3>3. m - 1 \in Nat /\ (m - 1) + 1 = m
      BY <3>2
    <3> QED BY <3>1, <3>2, <3>3, Zenon
  <2>2. ASSUME NEW i \in 1..Len(nic') PROVE frame[nic'[i]].order = Len(departed) + i
    <3>1. CASE i \in 1..Len(nic)
      BY <1>5, <2>1, <3>1, Zenon
    <3>2. CASE i = Len(nic) + 1
      <4>1. 1 \in 1..(k + 1) /\ d + n + 1 = d + (n + 1)
        OBVIOUS
      <4>2. frame[tx[1]].order = d + n + 1
        BY <2>0, <2>1, <4>1, Zenon
      <4> QED BY <1>5, <2>0, <3>2, <4>1, <4>2, Zenon
    <3>3. i \in 1..(n + 1)
      BY <2>0, <2>2, Zenon
    <3>4. i \in 1..n \/ i = n + 1
      BY <3>3
    <3> QED BY <2>0, <3>1, <3>2, <3>4, Zenon
  <2>3. ASSUME NEW i \in 1..Len(tx')
        PROVE  frame[tx'[i]].order = Len(departed) + Len(nic') + i
    <3>1. i + 1 \in 1..Len(tx) /\ tx'[i] = tx[i + 1] /\ i \in Nat
      <4>1. i \in 1..k
        BY <2>0, <2>3, Zenon
      <4>2. i + 1 \in 1..(k + 1) /\ i \in Nat /\ (k + 1) - 1 = k
        BY <4>1
      <4> QED BY <1>5, <2>0, <4>1, <4>2, Zenon
    <3>2. frame[tx[i + 1]].order = d + n + (i + 1)
      BY <2>0, <2>1, <3>1, Zenon
    <3>3. d + n + (i + 1) = d + (n + 1) + i
      BY <3>1
    <3> QED BY <2>0, <3>1, <3>2, <3>3, Zenon
  <2>4. Len(departed) + Len(nic') + Len(tx') = Queued
    <3>1. d + n + (k + 1) = d + (n + 1) + k
      OBVIOUS
    <3> QED BY <2>0, <2>1, <3>1, Zenon
  <2> QED BY <1>1, <2>1, <2>2, <2>3, <2>4, Zenon DEF TxInv, FlowInv, WireInOrder
<1> QED BY <1>7, <1>8, <1>9, Zenon DEF TxInv

LEMMA CompleteSound == ASSUME TxInv, Complete PROVE TxInv'
<1>1. /\ nic # <<>> /\ cq' = Append(cq, Head(nic)) /\ nic' = Tail(nic) /\ free' = free
      /\ tx' = tx /\ departed' = Append(departed, frame[Head(nic)].order)
      /\ frame' = frame /\ pc' = pc /\ taken' = taken
  BY Zenon DEF Complete
<1>2. /\ nic \in Seq(Payload) /\ cq \in Seq(Payload) /\ departed \in Seq(Nat)
      /\ IsInjective(nic) /\ IsInjective(cq) /\ Range(nic) \cap Range(cq) = {}
      /\ Len(tx) \in Nat /\ Len(nic) \in Nat /\ Len(departed) \in Nat /\ Len(nic) > 0
  <2>1. /\ tx \in Seq(Payload) /\ nic \in Seq(Payload) /\ cq \in Seq(Payload)
        /\ departed \in Seq(Nat) /\ IsInjective(tx) /\ IsInjective(nic) /\ IsInjective(cq)
        /\ Range(tx) \cap Range(nic) = {} /\ Range(nic) \cap Range(cq) = {}
    BY Zenon DEF TxInv, TypeInv, OwnInv, Once, Apart
  <2>2. /\ Len(tx) \in Nat /\ Len(nic) \in Nat /\ Len(departed) \in Nat
        /\ Len(nic) > 0
    BY <1>1, <2>1
  <2> QED BY <2>1, <2>2, Zenon
<1>3. PICK h \in Payload : h = Head(nic)
  BY <1>1, <1>2, MoveHead, Zenon DEF Moved
<1>4. Moved(nic, cq, h, nic', cq')
  BY <1>1, <1>2, <1>3, MoveHead, Zenon
<1>5. /\ h = nic[1] /\ nic' \in Seq(Payload) /\ cq' \in Seq(Payload)
      /\ Len(nic') = Len(nic) - 1
      /\ \A i \in 1..(Len(nic) - 1) : nic'[i] = nic[i + 1]
  BY <1>4, Zenon DEF Moved, Grown
<1>6. /\ IsInjective(nic') /\ IsInjective(cq') /\ h \in Range(nic)
      /\ Range(nic') = Range(nic) \ {h} /\ Range(cq') = Range(cq) \cup {h}
  BY <1>4, Zenon DEF Moved
<1>7. PICK o \in Nat : o = frame[h].order /\ o = Len(departed) + 1
  <2>1. frame[nic[1]].order = Len(departed) + 1
    <3>1. 1 \in 1..Len(nic)
      BY <1>2
    <3> QED BY <3>1, Zenon DEF TxInv, FlowInv
  <2>2. Len(departed) + 1 \in Nat
    BY <1>2
  <2> QED BY <1>5, <2>1, <2>2, Zenon
<1>8. /\ departed' \in Seq(Nat) /\ Len(departed') = Len(departed) + 1 /\ departed'[Len(departed) + 1] = o
      /\ \A i \in 1..Len(departed) : departed'[i] = departed[i]
  <2>1. departed' = Append(departed, o)
    BY <1>1, <1>3, <1>7, Zenon
  <2>2. Grown(Nat, departed, o, departed')
    BY <1>2, <1>7, <2>1, GrownByOne, Zenon
  <2> QED BY <2>2, Zenon DEF Grown
<1>9. TypeInv'
  BY <1>1, <1>5, <1>8, Zenon DEF TxInv, TypeInv
<1>10. OwnInv'
  <2>1. Once'
    BY <1>1, <1>6, Zenon DEF TxInv, OwnInv, Once
  <2>2. Apart'
    <3>1. /\ Range(free) \cap Range(tx) = {} /\ Range(free) \cap Range(nic) = {}
          /\ Range(free) \cap Range(cq) = {} /\ Range(tx) \cap Range(nic) = {}
          /\ Range(tx) \cap Range(cq) = {} /\ Range(nic) \cap Range(cq) = {}
      BY Zenon DEF TxInv, OwnInv, Apart
    <3>2. /\ Range(free') \cap Range(tx') = {} /\ Range(free') \cap Range(nic') = {}
          /\ Range(tx') \cap Range(nic') = {}
      BY <1>1, <1>6, <3>1, Zenon
    <3>3. Range(free') \cap Range(cq') = {}
      BY <1>1, <1>6, <3>1, Zenon
    <3>4. Range(tx') \cap Range(cq') = {}
      BY <1>1, <1>6, <3>1, Zenon
    <3>5. Range(nic') \cap Range(cq') = {}
      BY <1>6, <3>1, Zenon
    <3> QED BY <3>2, <3>3, <3>4, <3>5, Zenon DEF Apart
  <2>3. Range(free') \cup Range(tx') \cup Range(nic') \cup Range(cq') = Payload
    BY <1>1, <1>6, Zenon DEF TxInv, OwnInv
  <2> QED BY <2>1, <2>2, <2>3, Zenon DEF OwnInv
<1>11. FlowInv'
  <2>1. /\ Queued' = Queued /\ Len(departed) + Len(nic) + Len(tx) = Queued
        /\ \A i \in 1..Len(departed) : departed[i] = i
        /\ \A i \in 1..Len(nic) : frame[nic[i]].order = Len(departed) + i
        /\ \A i \in 1..Len(tx) : frame[tx[i]].order = Len(departed) + Len(nic) + i
    BY <1>1, Zenon DEF Queued, TxInv, FlowInv, WireInOrder
  <2>0. PICK d \in Nat, k \in Nat :
          /\ d = Len(departed) /\ k + 1 = Len(nic)
          /\ Len(departed') = d + 1 /\ Len(nic') = k
    <3>1. PICK d \in Nat, m \in Nat : d = Len(departed) /\ m = Len(nic)
      BY <1>2, Zenon
    <3>2. m > 0 /\ Len(nic') = m - 1 /\ Len(departed') = d + 1
      BY <1>2, <1>5, <1>8, <3>1, Zenon
    <3>3. m - 1 \in Nat /\ (m - 1) + 1 = m
      BY <3>2
    <3> QED BY <3>1, <3>2, <3>3, Zenon
  <2>2. ASSUME NEW i \in 1..Len(departed') PROVE departed'[i] = i
    <3>1. CASE i \in 1..Len(departed)
      BY <1>8, <2>1, <3>1, Zenon
    <3>2. CASE i = Len(departed) + 1
      BY <1>7, <1>8, <3>2, Zenon
    <3>3. i \in 1..(d + 1)
      BY <2>0, <2>2, Zenon
    <3>4. i \in 1..d \/ i = d + 1
      BY <3>3
    <3> QED BY <2>0, <3>1, <3>2, <3>4, Zenon
  <2>3. ASSUME NEW i \in 1..Len(nic') PROVE frame[nic'[i]].order = Len(departed') + i
    <3>1. i + 1 \in 1..Len(nic) /\ nic'[i] = nic[i + 1] /\ i \in Nat
      <4>1. i \in 1..k
        BY <2>0, <2>3, Zenon
      <4>2. i + 1 \in 1..(k + 1) /\ i \in Nat /\ (k + 1) - 1 = k
        BY <4>1
      <4> QED BY <1>5, <2>0, <4>1, <4>2, Zenon
    <3>2. frame[nic[i + 1]].order = d + (i + 1)
      BY <2>0, <2>1, <3>1, ZenonT(30)
    <3>3. d + (i + 1) = (d + 1) + i
      BY <3>1
    <3> QED BY <2>0, <3>1, <3>2, <3>3, Zenon
  <2>4. Len(departed') + Len(nic') = Len(departed) + Len(nic)
    <3>1. (d + 1) + k = d + (k + 1)
      OBVIOUS
    <3> QED BY <2>0, <3>1, Zenon
  <2> QED BY <1>1, <2>1, <2>2, <2>3, <2>4, Zenon DEF TxInv, FlowInv, WireInOrder
<1> QED BY <1>9, <1>10, <1>11, Zenon DEF TxInv

LEMMA TxInitSound == TxInit => TxInv
<1> SUFFICES ASSUME TxInit PROVE TxInv
  OBVIOUS
<1>1. /\ tx = <<>> /\ nic = <<>> /\ cq = <<>> /\ departed = <<>> /\ pc = "idle" /\ taken = 0
      /\ free = [i \in 1..(NumFrames - 1) |-> NumFrames - i]
      /\ frame = [f \in Frames |-> NoPacket] /\ NumFrames \in Nat /\ NumFrames > 1
  BY TxConstants, Zenon DEF TxInit
<1>2. free \in Seq(Payload) /\ DOMAIN free = Payload
  <2>1. NumFrames - 1 \in Nat
    BY <1>1
  <2>2. \A i \in 1..(NumFrames - 1) : NumFrames - i \in Payload
    BY <1>1 DEF Payload
  <2>3. \A i \in 1..(NumFrames - 1) : free[i] \in Payload
    BY <1>1, <2>2, Zenon
  <2>4. free \in [1..(NumFrames - 1) -> Payload]
    BY <1>1, <2>2, Zenon
  <2> QED BY <1>1, <2>1, <2>4 DEF Payload
<1>3. IsInjective(free)
  BY <1>1, <1>2 DEF IsInjective, Payload
<1>4. Range(free) = Payload
  <2>1. ASSUME NEW f \in Payload PROVE f \in Range(free)
    <3>1. NumFrames - f \in DOMAIN free /\ free[NumFrames - f] = f
      BY <1>1, <1>2, <2>1 DEF Payload
    <3> QED BY <3>1, Zenon DEF Range
  <2>2. ASSUME NEW i \in DOMAIN free PROVE free[i] \in Payload
    BY <1>1, <1>2, <2>2 DEF Payload
  <2> QED BY <2>1, <2>2, Zenon DEF Range
<1>5. TypeInv
  BY <1>1, <1>2, EmptySet DEF TypeInv
<1>6. OwnInv
  BY <1>1, <1>3, <1>4, EmptySet, Zenon DEF OwnInv, Once, Apart
<1>7. FlowInv
  <2>1. Len(tx) = 0 /\ Len(nic) = 0 /\ Len(departed) = 0 /\ Queued = 0
    BY <1>1, Zenon DEF Queued
  <2> QED BY <1>1, <2>1 DEF FlowInv, WireInOrder
<1> QED BY <1>5, <1>6, <1>7, Zenon DEF TxInv

LEMMA TxNextSound == TxInv /\ [TxNext]_tx_vars => TxInv'
<1> SUFFICES ASSUME TxInv, [TxNext]_tx_vars PROVE TxInv'
  OBVIOUS
<1>1. CASE TxIdle
  BY <1>1, IdleSound
<1>2. CASE Take
  BY <1>2, TakeSound, Zenon
<1>3. CASE SendNoDescriptor
  BY <1>3, NoDescriptorSound
<1>4. CASE SendPushed
  BY <1>4, PushedSound
<1>5. CASE Kick
  BY <1>5, KickSound
<1>6. CASE Transmit
  BY <1>6, TransmitSound
<1>7. CASE Complete
  BY <1>7, CompleteSound
<1>8. CASE SendNoFrame \/ Sleep \/ UNCHANGED tx_vars
  <2>1. UNCHANGED <<frame, free, tx, nic, cq, pc, taken, departed>>
    BY <1>8, Zenon DEF SendNoFrame, Sleep, tx_vars
  <2> QED BY <2>1, Zenon DEF TxInv, TypeInv, OwnInv, Once, Apart, FlowInv, WireInOrder, Queued
<1> QED
  BY <1>1, <1>2, <1>3, <1>4, <1>5, <1>6, <1>7, <1>8 DEF TxNext, Sender, Kernel

-----------------------------------------------------------------------------
\* Frames and the orders in them stay together in every reachable state.
THEOREM TxInductive == TxSpec => []TxInv
BY TxInitSound, TxNextSound, PTL DEF TxSpec

\* For every number of frames and descriptors: alloc_frame, release_frame and the
\* completion ring never lose a frame, share one or touch the template.
THEOREM FramesHaveOneOwner == TxSpec => []FrameOwnership
<1>1. TxInv => FrameOwnership
  <2> SUFFICES ASSUME TxInv PROVE FrameOwnership
    BY Zenon
  <2>1. /\ free \in Seq(Payload) /\ tx \in Seq(Payload) /\ nic \in Seq(Payload)
        /\ cq \in Seq(Payload) /\ Once /\ Apart
        /\ Range(free) \cup Range(tx) \cup Range(nic) \cup Range(cq) = Payload
    BY DEF TxInv, TypeInv, OwnInv
  <2>2. PICK a : a = free \o tx
    BY Zenon
  <2>3. PICK b : b = a \o nic
    BY Zenon
  <2>4. a \in Seq(Payload) /\ IsInjective(a) /\ Range(a) = Range(free) \cup Range(tx)
    <3>1. IsInjective(free) /\ IsInjective(tx) /\ Range(free) \cap Range(tx) = {}
      BY <2>1, Zenon DEF Once, Apart
    <3>2. a \in Seq(Payload)
      BY <2>1, <2>2, ConcatSet, Zenon
    <3>3. IsInjective(a)
      BY <2>1, <2>2, <3>1, ConcatSet, Zenon
    <3>4. Gains(a, free, Range(tx))
      BY <2>1, <2>2, ConcatGains, Zenon
    <3> QED BY <3>2, <3>3, <3>4, Zenon DEF Gains
  <2>5. b \in Seq(Payload) /\ IsInjective(b) /\ Range(b) = Range(a) \cup Range(nic)
    <3>1. Range(a) \cap Range(nic) = {}
      BY <2>1, <2>4, Zenon DEF Apart
    <3>2. IsInjective(nic)
      BY <2>1, Zenon DEF Once
    <3>3. b \in Seq(Payload)
      BY <2>1, <2>3, <2>4, ConcatSet, Zenon
    <3>4. IsInjective(b)
      BY <2>1, <2>3, <2>4, <3>1, <3>2, ConcatSet, Zenon
    <3>5. Gains(b, a, Range(nic))
      BY <2>1, <2>3, <2>4, ConcatGains, Zenon
    <3> QED BY <3>3, <3>4, <3>5, Zenon DEF Gains
  <2>6. IsInjective(b \o cq) /\ Range(b \o cq) = Range(b) \cup Range(cq)
    <3>1. Range(b) \cap Range(cq) = {}
      BY <2>1, <2>4, <2>5, Zenon DEF Apart
    <3>2. IsInjective(cq)
      BY <2>1, Zenon DEF Once
    <3>3. IsInjective(b \o cq)
      BY <2>1, <2>5, <3>1, <3>2, ConcatSet, Zenon
    <3>4. Gains(b \o cq, b, Range(cq))
      BY <2>1, <2>5, ConcatGains, Zenon
    <3> QED BY <3>3, <3>4, Zenon DEF Gains
  <2>7. Range(b \o cq) = Frames \ {Template}
    BY <2>1, <2>4, <2>5, <2>6, TxConstants, Zenon
  <2> QED BY <2>2, <2>3, <2>6, <2>7 DEF FrameOwnership
<1> QED BY <1>1, TxInductive, PTL

\* For every number of frames and descriptors, and however kicks are lost, orders
\* leave as order_sender took them, each once and in a frame nobody rewrote.
THEOREM OrdersLeaveInOrder == TxSpec => []WireInOrder
<1>1. TxInv => WireInOrder
  BY Zenon DEF TxInv, FlowInv
<1> QED BY <1>1, TxInductive, PTL
-----------------------------------------------------------------------------
(* Checksums. *)
\* Division with remainder.
LEMMA Remainder ==
  ASSUME NEW m \in Nat \ {0}, NEW x \in Int
  PROVE  \E r \in 0..(m - 1), k \in Int : r = x % m /\ k = x \div m /\ x = m * k + r
<1>1. x % m \in 0..(m - 1) /\ x \div m \in Int
  OBVIOUS
<1>2. x = m * (x \div m) + (x % m)
  OBVIOUS
<1> QED BY <1>1, <1>2, Zenon

\* Between -m and m there is no other multiple of m than 0.
LEMMA SmallMultiple ==
  ASSUME NEW m \in Nat \ {0}, NEW d \in Int, m * d > -m, m * d < m
  PROVE  d = 0
<1>1. ASSUME d >= 1 PROVE FALSE
  <2>1. d - 1 >= 0 /\ m * d = m * (d - 1) + m
    BY <1>1
  <2>2. m * (d - 1) >= 0
    BY <2>1
  <2> QED BY <2>1, <2>2
<1>2. ASSUME d <= -1 PROVE FALSE
  <2>1. -1 - d >= 0 /\ m * d = -(m * (-1 - d)) - m
    BY <1>2
  <2>2. m * (-1 - d) >= 0
    BY <2>1
  <2>3. m * (-1 - d) \in Int
    OBVIOUS
  <2> QED BY <2>1, <2>2, <2>3
<1> QED BY <1>1, <1>2

\* Numbers that differ by a multiple of m have the same remainder.
LEMMA SameRemainder ==
  ASSUME NEW m \in Nat \ {0}, NEW x \in Int, NEW y \in Int, NEW k \in Int, x = m * k + y
  PROVE  x % m = y % m
<1>1. PICK a \in 0..(m - 1), i \in Int : a = x % m /\ i = x \div m /\ x = m * i + a
  BY Remainder, Zenon
<1>2. PICK b \in 0..(m - 1), j \in Int : b = y % m /\ j = y \div m /\ y = m * j + b
  BY Remainder, Zenon
<1>3. m * (k + j - i) = a - b
  <2>1. PICK p \in Int, u \in Int, v \in Int : p = m * k /\ u = m * i /\ v = m * j
    OBVIOUS
  <2>2. m * (k + j - i) = m * k + m * j - m * i
    OBVIOUS
  <2>3. m * (k + j - i) = p + v - u
    BY <2>1, <2>2
  <2>4. x = p + y /\ x = u + a /\ y = v + b
    BY <1>1, <1>2, <2>1, Zenon
  <2> QED BY <2>3, <2>4
<1>4. k + j - i = 0
  <2>1. k + j - i \in Int /\ m * (k + j - i) > -m /\ m * (k + j - i) < m
    BY <1>3
  <2> QED BY <2>1, SmallMultiple, Zenon
<1>5. m * (k + j - i) = 0
  BY <1>4
<1> QED BY <1>1, <1>2, <1>3, <1>5

\* The fold of a sum of words in closed form: its remainder by Word - 1, and for
\* a sum that is not 0 the representative that is not 0.
Folded == [s \in Nat |-> IF s = 0 THEN 0 ELSE ((s - 1) % (Word - 1)) + 1]

FoldEquation(F) ==
  F = [s \in Nat |-> IF s < Word THEN s ELSE F[(s % Word) + (s \div Word)]]

\* Adding the upper half to the lower one takes a multiple of Word - 1 away.
LEMMA OneFold ==
  ASSUME Word \in Nat, Word > 1, NEW s \in Nat, s >= Word
  PROVE  \E t \in Nat, q \in Nat \ {0} :
           /\ t = (s % Word) + (s \div Word) /\ t # 0 /\ t < s /\ s = (Word - 1) * q + t
<1>1. Word \in Nat \ {0} /\ s \in Int
  OBVIOUS
<1>2. PICK r \in 0..(Word - 1), q \in Int : r = s % Word /\ q = s \div Word /\ s = Word * q + r
  BY <1>1, Remainder, Zenon
<1>3. q >= 1
  <2> SUFFICES ASSUME q <= 0 PROVE FALSE
    BY <1>2
  <2>1. -q \in Nat /\ Word * q = -(Word * (-q)) /\ Word * (-q) \in Nat
    BY <1>1
  <2>2. PICK w \in Nat : s = -w + r
    BY <1>2, <2>1, Zenon
  <2> QED BY <1>2, <2>2
<1>4. PICK p \in Int, d \in Int : p = Word * q /\ d = (Word - 1) * q /\ d = p - q
  BY <1>1
<1>5. d >= 1
  <2>1. (Word - 1) * q = (Word - 2) * q + q /\ (Word - 2) * q \in Int
    OBVIOUS
  <2>2. (Word - 2) * q >= 0
    BY <1>1, <1>3
  <2> QED BY <1>3, <1>4, <2>1, <2>2
<1>6. PICK t \in Nat : t = r + q
  BY <1>2, <1>3
<1>7. s = d + t
  <2>1. s = p + r
    BY <1>2, <1>4, Zenon
  <2> QED BY <1>4, <1>6, <2>1
<1>8. t < s /\ t # 0
  BY <1>3, <1>5, <1>6, <1>7
<1>9. q \in Nat \ {0} /\ t = (s % Word) + (s \div Word)
  BY <1>2, <1>3, <1>6
<1>10. s = (Word - 1) * q + t
  BY <1>4, <1>7, Zenon
<1> QED BY <1>8, <1>9, <1>10, Zenon

\* The closed form solves the equation, so the recursive definition has a value.
LEMMA FoldedSolves ==
  ASSUME Word \in Nat, Word > 1
  PROVE  FoldEquation(Folded)
<1>1. PICK m \in Nat \ {0} : m = Word - 1
  OBVIOUS
<1>2. ASSUME NEW s \in Nat, s < Word PROVE Folded[s] = s
  <2>1. CASE s = 0
    BY <2>1, Zenon DEF Folded
  <2>2. CASE s # 0
    <3>1. PICK x \in 0..(m - 1) : x = s - 1
      BY <1>1, <1>2, <2>2
    <3>2. x % m = x
      BY <3>1
    <3> QED BY <1>1, <2>2, <3>1, <3>2 DEF Folded
  <2> QED BY <2>1, <2>2, Zenon
<1>3. ASSUME NEW s \in Nat, s >= Word PROVE Folded[s] = Folded[(s % Word) + (s \div Word)]
  <2>1. PICK t \in Nat, q \in Nat \ {0} :
          /\ t = (s % Word) + (s \div Word) /\ t # 0 /\ t < s /\ s = (Word - 1) * q + t
    BY <1>3, OneFold, Zenon
  <2>2. s - 1 \in Int /\ t - 1 \in Int /\ q \in Int /\ s - 1 = m * q + (t - 1)
    BY <1>1, <2>1
  <2>3. (s - 1) % m = (t - 1) % m
    BY <2>2, SameRemainder, Zenon
  <2>4. s # 0
    BY <1>3
  <2>5. Folded[s] = ((s - 1) % m) + 1 /\ Folded[t] = ((t - 1) % m) + 1
    BY <1>1, <2>1, <2>4, Zenon DEF Folded
  <2> QED BY <2>1, <2>3, <2>5, Zenon
<1>4. \A s \in Nat : Folded[s] = IF s < Word THEN s ELSE Folded[(s % Word) + (s \div Word)]
  BY <1>2, <1>3
<1>5. Folded = [s \in Nat |-> Folded[s]]
  BY DEF Folded
<1> HIDE DEF Folded
<1> QED BY <1>4, <1>5, Zenon DEF FoldEquation

\* cksum_fold16 computes the closed form of every sum: the least sum for which it
\* did not would be folded from a smaller one.
LEMMA FoldIsFolded ==
  ASSUME Word \in Nat, Word > 1, NEW s \in Nat
  PROVE  Fold[s] = Folded[s]
<1>1. FoldEquation(Fold)
  <2>1. Fold = CHOOSE F : FoldEquation(F)
    BY Zenon DEF Fold, FoldEquation
  <2> QED BY <2>1, FoldedSolves, Zenon
<1>2. FoldEquation(Folded)
  BY FoldedSolves, Zenon
<1> DEFINE T == {x \in Nat : Fold[x] # Folded[x]}
<1> SUFFICES ASSUME T # {} PROVE FALSE
  OBVIOUS
<1>3. PICK x \in T : \A y \in T : x <= y
  <2>1. T \in SUBSET Nat
    BY Zenon
  <2> QED BY <2>1, LeastIn, Zenon
<1>4. x \in Nat /\ Fold[x] # Folded[x]
  BY <1>3
<1>5. Fold[x] = IF x < Word THEN x ELSE Fold[(x % Word) + (x \div Word)]
  BY <1>1, <1>4, Zenon DEF FoldEquation
<1>6. Folded[x] = IF x < Word THEN x ELSE Folded[(x % Word) + (x \div Word)]
  BY <1>2, <1>4, Zenon DEF FoldEquation
<1>7. x >= Word
  BY <1>4, <1>5, <1>6
<1>8. PICK t \in Nat : t = (x % Word) + (x \div Word) /\ t < x
  BY <1>4, <1>7, OneFold, Zenon
<1>9. t \notin T
  <2>1. ~(x <= t)
    BY <1>4, <1>8
  <2> QED BY <1>3, <2>1, Zenon
<1>10. Fold[t] = Folded[t] /\ ~(x < Word)
  BY <1>4, <1>7, <1>9
<1> QED BY <1>4, <1>5, <1>6, <1>8, <1>10, Zenon

\* A sum that is not 0 folds to a word that is not 0, a multiple of Word - 1 away.
LEMMA FoldFacts ==
  ASSUME Word \in Nat, Word > 1, NEW s \in Nat \ {0}
  PROVE  Fold[s] \in 1..(Word - 1) /\ \E k \in Int : s = (Word - 1) * k + Fold[s]
<1>1. PICK m \in Nat \ {0} : m = Word - 1
  OBVIOUS
<1>2. PICK x \in Int : x = s - 1
  OBVIOUS
<1>3. PICK r \in 0..(m - 1), k \in Int : r = x % m /\ k = x \div m /\ x = m * k + r
  BY Remainder, Zenon
<1>4. Fold[s] = r + 1
  <2>1. s \in Nat /\ s # 0
    BY Zenon
  <2>2. Folded[s] = r + 1
    BY <1>1, <1>2, <1>3, <2>1, Zenon DEF Folded
  <2> QED BY <2>1, <2>2, FoldIsFolded, Zenon
<1>5. PICK p \in Int : p = m * k
  OBVIOUS
<1>6. s = m * k + (r + 1)
  <2>1. x = p + r
    BY <1>3, <1>5, Zenon
  <2> QED BY <1>2, <1>5, <2>1
<1>7. r + 1 \in 1..m
  OBVIOUS
<1> QED BY <1>1, <1>4, <1>6, <1>7, Zenon

\* A multiple of Word - 1 that is not 0 folds to all ones: what a receiver expects
\* of a sum that includes its checksum.
LEMMA FoldsToOnes ==
  ASSUME Word \in Nat, Word > 1, NEW s \in Nat \ {0}, NEW k \in Int, s = (Word - 1) * k
  PROVE  Fold[s] = Word - 1
<1>1. PICK m \in Nat \ {0} : m = Word - 1
  OBVIOUS
<1>2. PICK f \in 1..m, j \in Int : f = Fold[s] /\ s = m * j + f
  BY <1>1, FoldFacts, Zenon
<1>3. m * (k - j - 1) = f - m
  BY <1>1, <1>2
<1>4. k - j - 1 = 0
  <2>1. k - j - 1 \in Int /\ m * (k - j - 1) > -m /\ m * (k - j - 1) < m
    BY <1>3
  <2> QED BY <2>1, SmallMultiple, Zenon
<1>5. m * (k - j - 1) = 0
  BY <1>4
<1> QED BY <1>1, <1>2, <1>3, <1>5

\* What a receiver whose header sums to hd checks of a packet.
Accepted(hd, p) ==
  /\ Fold[hd + p.len + p.ip] = Word - 1
  /\ p.udp # 0
  /\ Fold[hd + p.len + p.order + p.udp] = Word - 1

\* Word, and the header fields in it.
LEMMA WordTypes ==
  ASSUME header \in 1..(Word - 1)
  PROVE  /\ Word \in Nat /\ Word > 1 /\ MaxLength \in Nat /\ MaxLength < Word
         /\ MaxOrders \in Nat /\ TxSize \in Nat /\ MaxLostKicks \in Nat
<1>1. /\ Word \in Nat /\ MaxLength \in Nat /\ MaxLength < Word
      /\ MaxOrders \in Nat /\ TxSize \in Nat /\ MaxLostKicks \in Nat
  BY TxAssumption, Zenon DEF TxAssumption
<1> QED BY <1>1

\* The template's checksum, updated for the length of the packet, completes the
\* header's sum.
LEMMA IpAccepted ==
  ASSUME header \in 1..(Word - 1), len \in 0..MaxLength,
         NEW c, c = csum_replace2(ip_checksum, MaxLength, len)
  PROVE  c \in Words /\ Fold[header + len + c] = Word - 1
<1>1. /\ Word \in Nat /\ Word > 1 /\ MaxLength \in Nat /\ MaxLength < Word
  BY WordTypes, Zenon
<1>2. PICK m \in Nat \ {0}, L \in Nat, h \in Nat, n \in Nat :
        m = Word - 1 /\ L = MaxLength /\ h = header /\ n = len /\ h >= 1 /\ L <= m
  BY <1>1
<1>3. PICK a \in 1..m, i \in Int : a = Fold[h + L] /\ h + L = m * i + a
  <2>1. h + L \in Nat \ {0}
    BY <1>2
  <2> QED BY <1>1, <1>2, <2>1, FoldFacts, Zenon
<1>4. ip_checksum = m - a
  BY <1>2, <1>3, Zenon DEF ip_checksum, Complement
<1>5. PICK s \in Nat \ {0} : s = a + (m - L) + n
  BY <1>2
<1>6. PICK b \in 1..m, j \in Int : b = Fold[s] /\ s = m * j + b
  BY <1>1, <1>2, FoldFacts, Zenon
<1>7. c = m - b
  <2>1. Word - 1 - ip_checksum = a
    BY <1>2, <1>3, <1>4
  <2>2. csum_replace2(ip_checksum, MaxLength, len) = m - Fold[a + (m - L) + n]
    BY <1>2, <2>1, Zenon DEF csum_replace2, Complement
  <2>3. Fold[a + (m - L) + n] = b
    BY <1>5, <1>6, Zenon
  <2> QED BY <1>2, <2>2, <2>3, Zenon
<1>8. PICK t \in Nat \ {0} : t = h + n + c
  BY <1>2, <1>6, <1>7
<1>9. t = (Word - 1) * (i + j)
  <2>1. PICK p \in Int, q \in Int : p = m * i /\ q = m * j
    OBVIOUS
  <2>2. h + L = p + a /\ s = q + b
    BY <1>3, <1>6, <2>1, Zenon
  <2>3. t = p + q
    BY <1>5, <1>7, <1>8, <2>2
  <2>4. m * (i + j) = m * i + m * j
    OBVIOUS
  <2> QED BY <1>2, <2>1, <2>3, <2>4, Zenon
<1>10. Fold[t] = Word - 1
  <2>1. i + j \in Int
    OBVIOUS
  <2> QED BY <1>1, <1>9, <2>1, FoldsToOnes, Zenon
<1>11. c \in Words
  BY <1>2, <1>6, <1>7 DEF Words
<1> QED BY <1>2, <1>8, <1>10, <1>11

\* The UDP checksum completes its sum, and is never the 0 that means none.
LEMMA UdpAccepted ==
  ASSUME Word \in Nat, Word > 1, NEW s \in Nat \ {0}, NEW c, c = UdpCheck(s)
  PROVE  c \in Words /\ c # 0 /\ Fold[s + c] = Word - 1
<1>1. PICK m \in Nat \ {0} : m = Word - 1
  OBVIOUS
<1>2. PICK a \in 1..m, i \in Int : a = Fold[s] /\ s = m * i + a
  BY <1>1, FoldFacts, Zenon
<1>3. c = IF m - a = 0 THEN m ELSE m - a
  BY <1>1, <1>2, Zenon DEF UdpCheck, Complement
<1>4. c \in 1..m
  BY <1>2, <1>3
<1>5. PICK p \in Int : p = m * i
  OBVIOUS
<1>6. s = p + a
  BY <1>2, <1>5, Zenon
<1>7. PICK j \in Int : s + c = m * j
  <2>1. CASE m = a
    <3>1. s + c = p + m + m
      BY <1>2, <1>3, <1>6, <2>1
    <3>2. m * (i + 2) = m * i + m + m
      OBVIOUS
    <3>3. i + 2 \in Int /\ s + c = m * (i + 2)
      BY <1>5, <3>1, <3>2
    <3> QED BY <3>3, Zenon
  <2>2. CASE m # a
    <3>1. s + c = p + m
      BY <1>2, <1>3, <1>6, <2>2
    <3>2. m * (i + 1) = m * i + m
      OBVIOUS
    <3>3. i + 1 \in Int /\ s + c = m * (i + 1)
      BY <1>5, <3>1, <3>2
    <3> QED BY <3>3, Zenon
  <2> QED BY <2>1, <2>2, Zenon
<1>8. PICK t \in Nat \ {0} : t = s + c
  BY <1>4
<1>9. Fold[t] = Word - 1
  BY <1>1, <1>7, <1>8, FoldsToOnes, Zenon
<1> QED BY <1>1, <1>4, <1>8, <1>9 DEF Words

\* Whatever the order, the packet afxdp_tx_send makes of it is accepted.
LEMMA PacketAccepted ==
  ASSUME header \in 1..(Word - 1), len \in 0..MaxLength, NEW o \in 0..MaxOrders
  PROVE  /\ Accepted(header, Packet(o))
         /\ Packet(o) \in [order : 0..MaxOrders, len : 0..MaxLength, ip : Words, udp : Words]
<1>1. /\ Word \in Nat /\ Word > 1 /\ MaxLength \in Nat /\ MaxOrders \in Nat
  BY WordTypes, Zenon
<1>2. PICK c : c = csum_replace2(ip_checksum, MaxLength, len)
  BY Zenon
<1>3. PICK s \in Nat \ {0} : s = UdpSum(len, o)
  BY <1>1 DEF UdpSum
<1>4. PICK u : u = UdpCheck(s)
  BY Zenon
<1>5. c \in Words /\ Fold[header + len + c] = Word - 1
  BY <1>2, IpAccepted, Zenon
<1>6. u \in Words /\ u # 0 /\ Fold[s + u] = Word - 1
  BY <1>1, <1>4, UdpAccepted, Zenon
<1>7. Packet(o) = [order |-> o, len |-> len, ip |-> c, udp |-> u]
  BY <1>2, <1>3, <1>4, Zenon DEF Packet
<1>8. PICK p : p = Packet(o)
  BY Zenon
<1>9. p.order = o /\ p.len = len /\ p.ip = c /\ p.udp = u
  BY <1>7, <1>8
<1>10. header + len + o = s
  BY <1>3 DEF UdpSum
<1>11. Accepted(header, p)
  BY <1>5, <1>6, <1>9, <1>10, ZenonT(30) DEF Accepted
<1>12. p \in [order : 0..MaxOrders, len : 0..MaxLength, ip : Words, udp : Words]
  BY <1>5, <1>6, <1>7, <1>8
<1> QED BY <1>8, <1>11, <1>12, Zenon

-----------------------------------------------------------------------------
\* Types, and the checksums of the frames on their way out.
SumInv == TxTypeOK /\ \A f \in Range(tx) \cup Range(nic) : Accepted(header, frame[f])

LEMMA SumInit == ASSUME TxInit PROVE SumInv
<1>1. /\ header \in 1..(Word - 1) /\ len \in 0..MaxLength /\ tx = <<>> /\ nic = <<>>
      /\ departed = <<>> /\ awake = FALSE /\ pc = "idle" /\ taken = 0 /\ lost = 0
      /\ frame = [f \in Frames |-> NoPacket]
  BY DEF TxInit
<1>2. /\ Word \in Nat /\ Word > 1 /\ MaxLength \in Nat /\ MaxLength < Word
      /\ MaxOrders \in Nat /\ TxSize \in Nat /\ MaxLostKicks \in Nat
  BY <1>1, WordTypes, Zenon
<1>3. free \in Seq(Frames) /\ tx \in Seq(Frames) /\ nic \in Seq(Frames) /\ cq \in Seq(Frames)
  BY TxInitSound, TxConstants DEF TxInv, TypeInv
<1>4. NoPacket \in [order : 0..MaxOrders, len : 0..MaxLength, ip : Words, udp : Words]
  BY <1>2 DEF NoPacket, Words
<1>5. frame \in [Frames -> [order : 0..MaxOrders, len : 0..MaxLength, ip : Words, udp : Words]]
  BY <1>1, <1>4, Zenon
<1>6. Len(tx) <= TxSize /\ taken \in 0..MaxOrders /\ lost \in 0..MaxLostKicks
  BY <1>1, <1>2
<1>7. TxTypeOK
  BY <1>1, <1>3, <1>5, <1>6, EmptySet, Zenon DEF TxTypeOK
<1> QED BY <1>1, <1>7, EmptySet, Zenon DEF SumInv

\* A filled frame: every send writes its packet into a frame that is not on its
\* way out.
LEMMA Filled ==
  ASSUME TxInv, TxTypeOK, Drained # <<>>, NEW g, g = Top(Drained),
         frame' = [frame EXCEPT ![g] = Packet(taken)]
  PROVE  /\ g \in Frames /\ frame'[g] = Packet(taken) /\ Accepted(header, Packet(taken))
         /\ g \notin Range(tx) /\ g \notin Range(nic)
         /\ \A f \in Frames : f # g => frame'[f] = frame[f]
         /\ frame' \in [Frames -> [order : 0..MaxOrders, len : 0..MaxLength,
                                   ip : Words, udp : Words]]
<1>1. g \in Frames /\ g \notin Range(tx) /\ g \notin Range(nic)
  BY NewFrame, Zenon
<1>2. /\ header \in 1..(Word - 1) /\ len \in 0..MaxLength /\ taken \in 0..MaxOrders
      /\ frame \in [Frames -> [order : 0..MaxOrders, len : 0..MaxLength, ip : Words, udp : Words]]
  BY DEF TxTypeOK
<1>3. PICK p : p = Packet(taken)
  OBVIOUS
<1>4. /\ Accepted(header, p)
      /\ p \in [order : 0..MaxOrders, len : 0..MaxLength, ip : Words, udp : Words]
  BY <1>2, <1>3, PacketAccepted
<1>5. PICK P : P = [order : 0..MaxOrders, len : 0..MaxLength, ip : Words, udp : Words]
  BY Zenon
<1>6. frame \in [Frames -> P] /\ p \in P /\ frame' = [frame EXCEPT ![g] = p]
  BY <1>2, <1>3, <1>4, <1>5, Zenon
<1>7. frame' \in [Frames -> P] /\ frame'[g] = p /\ \A f \in Frames : f # g => frame'[f] = frame[f]
  BY <1>1, <1>6
<1> QED BY <1>1, <1>3, <1>4, <1>5, <1>7, Zenon

\* Types are kept.
LEMMA TypesKept == ASSUME TxInv, TxInv', TxTypeOK, [TxNext]_tx_vars PROVE TxTypeOK'
<1>1. /\ header \in 1..(Word - 1) /\ len \in 0..MaxLength
      /\ frame \in [Frames -> [order : 0..MaxOrders, len : 0..MaxLength, ip : Words, udp : Words]]
      /\ Len(tx) <= TxSize /\ awake \in BOOLEAN /\ taken \in 0..MaxOrders
      /\ lost \in 0..MaxLostKicks /\ departed \in Seq(0..MaxOrders)
  BY DEF TxTypeOK
<1>2. /\ Word \in Nat /\ MaxOrders \in Nat /\ TxSize \in Nat /\ MaxLostKicks \in Nat
  BY <1>1, WordTypes, Zenon
<1>3. /\ free' \in Seq(Frames) /\ tx' \in Seq(Frames) /\ nic' \in Seq(Frames)
      /\ cq' \in Seq(Frames) /\ pc' \in {"idle", "send", "kick"}
  <2>1. /\ free' \in Seq(Payload) /\ tx' \in Seq(Payload) /\ nic' \in Seq(Payload)
        /\ cq' \in Seq(Payload) /\ pc' \in {"idle", "send", "kick"}
    BY Zenon DEF TxInv, TypeInv
  <2>2. \A s \in Seq(Payload) : s \in Seq(Frames)
    BY TxConstants
  <2> QED BY <2>1, <2>2, Zenon
<1>4. header' = header /\ len' = len
  BY Zenon DEF TxNext, Sender, Kernel, TxIdle, Take, SendNoFrame, SendNoDescriptor, SendPushed, Kick,
         Transmit, Complete, Sleep, tx_vars, fixed
<1>5. frame' \in [Frames -> [order : 0..MaxOrders, len : 0..MaxLength, ip : Words, udp : Words]]
  <2>1. CASE SendNoDescriptor \/ SendPushed
    <3>1. PICK g : g = Top(Drained)
      OBVIOUS
    <3>2. Drained # <<>> /\ frame' = [frame EXCEPT ![g] = Packet(taken)]
      BY <2>1, <3>1, Zenon DEF SendNoDescriptor, SendPushed
    <3> QED BY <3>1, <3>2, Filled, Zenon
  <2>2. CASE ~(SendNoDescriptor \/ SendPushed)
    <3>1. frame' = frame
      BY <2>2, Zenon DEF TxNext, Sender, Kernel, TxIdle, Take, SendNoFrame, Kick, Transmit, Complete,
                  Sleep, tx_vars
    <3> QED BY <1>1, <3>1, Zenon
  <2> QED BY <2>1, <2>2, SMTT(30)
<1>6. Len(tx') <= TxSize
  <2>1. tx \in Seq(Payload) /\ Len(tx) \in Nat
    BY DEF TxInv, TypeInv
  <2>2. CASE SendPushed
    <3>1. PICK n \in Nat : n = Len(tx)
      BY <2>1
    <3>2. ~(n >= TxSize) /\ tx' = Append(tx, Top(Drained)) /\ Drained # <<>>
      BY <2>2, <3>1, Zenon DEF SendPushed, TxFull
    <3>3. Top(Drained) \in Payload
      BY <3>2, NewFrame, Zenon
    <3>4. Len(tx') = n + 1
      BY <2>1, <3>1, <3>2, <3>3, Appended, Zenon
    <3> QED BY <1>2, <3>2, <3>4
  <2>3. CASE Transmit
    <3>1. tx # <<>> /\ tx' = Tail(tx)
      BY <2>3, Zenon DEF Transmit
    <3>2. Len(tx') = Len(tx) - 1
      BY <2>1, <3>1, HeadAndTail, Zenon
    <3> QED BY <1>1, <1>2, <2>1, <3>2
  <2>4. CASE ~(SendPushed \/ Transmit)
    <3>1. tx' = tx
      BY <2>4, Zenon DEF TxNext, Sender, Kernel, TxIdle, Take, SendNoFrame, SendNoDescriptor, Kick,
                  Complete, Sleep, tx_vars
    <3> QED BY <1>1, <3>1, Zenon
  <2> QED BY <2>2, <2>3, <2>4, Zenon
<1>7. awake' \in BOOLEAN
  BY <1>1, Zenon DEF TxNext, Sender, Kernel, TxIdle, Take, SendNoFrame, SendNoDescriptor, SendPushed, Kick,
              Woken, Transmit, Complete, Sleep, tx_vars
<1>8. taken' \in 0..MaxOrders
  <2>1. CASE Take
    BY <1>1, <1>2, <2>1 DEF Take
  <2>2. CASE ~Take
    <3>1. taken' = taken
      BY <2>2, Zenon DEF TxNext, Sender, Kernel, TxIdle, SendNoFrame, SendNoDescriptor, SendPushed, Kick,
                  Transmit, Complete, Sleep, tx_vars
    <3> QED BY <1>1, <3>1, Zenon
  <2> QED BY <2>1, <2>2, Zenon
<1>9. lost' \in 0..MaxLostKicks
  <2>1. CASE Kick
    BY <1>1, <1>2, <2>1 DEF Kick
  <2>2. CASE ~Kick
    <3>1. lost' = lost
      BY <2>2, Zenon DEF TxNext, Sender, Kernel, TxIdle, Take, SendNoFrame, SendNoDescriptor, SendPushed,
                  Transmit, Complete, Sleep, tx_vars
    <3> QED BY <1>1, <3>1, Zenon
  <2> QED BY <2>1, <2>2, Zenon
<1>10. departed' \in Seq(0..MaxOrders)
  <2>1. CASE Complete
    <3>1. nic # <<>> /\ departed' = Append(departed, frame[Head(nic)].order)
      BY <2>1, Zenon DEF Complete
    <3>2. Head(nic) \in Frames
      <4>1. nic \in Seq(Payload) /\ Payload \subseteq Frames
        BY TxConstants, Zenon DEF TxInv, TypeInv
      <4> QED BY <3>1, <4>1, HeadAndTail, Zenon
    <3>3. frame[Head(nic)].order \in 0..MaxOrders
      BY <1>1, <3>2, Zenon
    <3> QED BY <1>1, <3>1, <3>3, Appended, Zenon
  <2>2. CASE ~Complete
    <3>1. departed' = departed
      BY <2>2, Zenon DEF TxNext, Sender, Kernel, TxIdle, Take, SendNoFrame, SendNoDescriptor, SendPushed,
                  Kick, Transmit, Sleep, tx_vars
    <3> QED BY <1>1, <3>1, Zenon
  <2> QED BY <2>1, <2>2, Zenon
<1>11. {free', tx', nic', cq'} \subseteq Seq(Frames)
  BY <1>3, Zenon
<1>12. header' \in 1..(Word - 1) /\ len' \in 0..MaxLength
  BY <1>1, <1>4, Zenon
<1> QED
  BY <1>3, <1>5, <1>6, <1>7, <1>8, <1>9, <1>10, <1>11, <1>12, Zenon DEF TxTypeOK

\* The frames on their way out keep accepted checksums: a frame enters the tx ring
\* with the packet just built, and nothing writes it before it is given back.
LEMMA SumNext == ASSUME TxInv, TxInv', SumInv, [TxNext]_tx_vars PROVE SumInv'
<1>1. TxTypeOK /\ \A f \in Range(tx) \cup Range(nic) : Accepted(header, frame[f])
  BY Zenon DEF SumInv
<1>2. TxTypeOK'
  BY <1>1, TypesKept, Zenon
<1>3. header' = header
  BY Zenon DEF TxNext, Sender, Kernel, TxIdle, Take, SendNoFrame, SendNoDescriptor, SendPushed, Kick,
         Transmit, Complete, Sleep, tx_vars, fixed
<1>4. /\ tx \in Seq(Payload) /\ nic \in Seq(Payload) /\ IsInjective(tx) /\ IsInjective(nic)
      /\ Payload \subseteq Frames /\ Range(tx) \cap Range(nic) = {}
      /\ Range(tx) \cup Range(nic) \subseteq Payload
  BY TxConstants, Zenon DEF TxInv, TypeInv, OwnInv, Once, Apart
<1>5. ASSUME NEW f \in Range(tx') \cup Range(nic') PROVE Accepted(header, frame'[f])
  <2>1. CASE SendPushed
    <3>1. PICK g : g = Top(Drained)
      OBVIOUS
    <3>2. /\ Drained # <<>> /\ frame' = [frame EXCEPT ![g] = Packet(taken)]
          /\ tx' = Append(tx, g) /\ nic' = nic
      BY <2>1, <3>1, Zenon DEF SendPushed
    <3>3. g \in Payload
      BY <3>1, <3>2, NewFrame, Zenon
    <3>4. /\ frame'[g] = Packet(taken) /\ Accepted(header, Packet(taken))
          /\ \A e \in Frames : e # g => frame'[e] = frame[e]
      BY <1>1, <3>1, <3>2, Filled, ZenonT(30)
    <3>5. Range(tx') = Range(tx) \cup {g}
      BY <1>4, <3>2, <3>3, AppendSet
    <3>6. f = g \/ f \in Range(tx) \cup Range(nic)
      BY <1>5, <3>2, <3>5, Zenon
    <3>7. f # g => f \in Frames
      BY <1>4, <3>6
    <3>8. f # g => Accepted(header, frame[f]) /\ frame'[f] = frame[f]
      BY <1>1, <3>4, <3>6, <3>7, Zenon
    <3> QED BY <3>4, <3>8, Zenon
  <2>2. CASE SendNoDescriptor
    <3>1. PICK g : g = Top(Drained)
      OBVIOUS
    <3>2. /\ Drained # <<>> /\ frame' = [frame EXCEPT ![g] = Packet(taken)]
          /\ tx' = tx /\ nic' = nic
      BY <2>2, <3>1, Zenon DEF SendNoDescriptor
    <3>3. /\ g \notin Range(tx) /\ g \notin Range(nic)
          /\ \A e \in Frames : e # g => frame'[e] = frame[e]
      BY <1>1, <3>1, <3>2, Filled, Zenon
    <3>4. f \in Range(tx) \cup Range(nic) /\ f # g /\ f \in Frames
      BY <1>4, <1>5, <3>2, <3>3
    <3> QED BY <1>1, <3>3, <3>4, Zenon
  <2>3. CASE Transmit
    <3>1. tx # <<>> /\ nic' = Append(nic, Head(tx)) /\ tx' = Tail(tx) /\ frame' = frame
      BY <2>3, Zenon DEF Transmit
    <3>2. /\ Head(tx) \in Range(tx) /\ Range(tx') = Range(tx) \ {Head(tx)}
          /\ Range(nic') = Range(nic) \cup {Head(tx)}
      <4>1. Moved(tx, nic, Head(tx), tx', nic')
        BY <1>4, <3>1, MoveHead, Zenon
      <4> QED BY <4>1, Zenon DEF Moved
    <3>3. f \in Range(tx) \cup Range(nic)
      BY <1>5, <3>2
    <3> QED BY <1>1, <3>1, <3>3, Zenon
  <2>4. CASE Complete
    <3>1. nic # <<>> /\ nic' = Tail(nic) /\ tx' = tx /\ frame' = frame
      BY <2>4, Zenon DEF Complete
    <3>2. Range(nic') = Range(nic) \ {Head(nic)}
      BY <1>4, <3>1, TailSet
    <3>3. f \in Range(tx) \cup Range(nic)
      BY <1>5, <3>1, <3>2
    <3> QED BY <1>1, <3>1, <3>3, Zenon
  <2>5. CASE ~(SendPushed \/ SendNoDescriptor \/ Transmit \/ Complete)
    <3>1. tx' = tx /\ nic' = nic /\ frame' = frame
      BY <2>5 DEF TxNext, Sender, Kernel, TxIdle, Take, SendNoFrame, Kick, Sleep, tx_vars
    <3> QED BY <1>1, <1>5, <3>1, ZenonT(30)
  <2> QED BY <2>1, <2>2, <2>3, <2>4, <2>5
<1> QED BY <1>2, <1>3, <1>5, Zenon DEF SumInv

\* Frames on their way out keep their types and checksums in every reachable state.
THEOREM TxSums == TxSpec => []SumInv
<1>1. TxInit => SumInv
  BY SumInit
<1>2. TxInv /\ TxInv' /\ SumInv /\ [TxNext]_tx_vars => SumInv'
  BY SumNext
<1> QED BY <1>1, <1>2, TxInductive, PTL DEF TxSpec

\* For every word size, length and header: csum_replace2 turns the template's IP
\* checksum into the packet's, afxdp_tx_send completes the UDP sum, and no frame in
\* the tx ring or the NIC holds any other.
THEOREM ChecksumsHold == TxSpec => []ChecksumsValid
<1>1. TxInv /\ SumInv => ChecksumsValid
  <2> SUFFICES ASSUME TxInv, SumInv PROVE ChecksumsValid
    BY Zenon
  <2>1. TxTypeOK /\ \A f \in Range(tx) \cup Range(nic) : Accepted(header, frame[f])
    BY Zenon DEF SumInv
  <2>2. Range(tx \o nic) = Range(tx) \cup Range(nic)
    BY ConcatSet DEF TxInv, TypeInv
  <2>3. ASSUME NEW f \in Range(tx \o nic)
        PROVE  /\ Fold[header + frame[f].len + frame[f].ip] = Word - 1
               /\ frame[f].udp # 0
               /\ Fold[UdpSum(frame[f].len, frame[f].order) + frame[f].udp] = Word - 1
    BY <2>1, <2>2, <2>3, Zenon DEF Accepted, UdpSum
  <2> QED BY <2>1, <2>3, Zenon DEF ChecksumsValid
<1> QED BY <1>1, TxInductive, TxSums, PTL

=============================================================================

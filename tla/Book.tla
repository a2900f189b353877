-------------------------------- MODULE Book --------------------------------
(***************************************************************************)
(* itch_book_adapter.hpp: the live-order table of one symbol, an           *)
(* open-addressing hash table with tombstones, and the adapter that keeps  *)
(* it in step with the order book, as apply_event calls it.  The order     *)
(* book is an external library: a pool of orders that gives out handles.   *)
(* The feed is taken to reuse no live reference and not to cross the book. *)
(***************************************************************************)
EXTENDS Integers, FiniteSets, FiniteSetsExt

CONSTANTS
  Refs,         \* order references, not 0
  PoolSize,     \* orders the book has room for
  ItchPrices,   \* prices on the feed
  Quantities,
  PerTick,      \* feed price units in a tick
  MaxLevel      \* price levels of the book

ASSUME BookAssumption ==
  /\ Refs \subseteq Nat \ {0}
  /\ Quantities \subseteq Nat \ {0}
  /\ ItchPrices \subseteq Nat \ {0}
  /\ {PoolSize, PerTick, MaxLevel} \subseteq Nat \ {0}

VARIABLES
  hash,    \* place of a reference in the table; any function
  slots,   \* LiveOrderTable
  pool,    \* orders of the book, by handle
  sim,     \* the trade apply_event shows to the fill simulator
  live, trade   \* history: the same events on the map of BookMap

vars == <<hash, slots, pool, sim, live, trade>>

Map == INSTANCE BookMap WITH Capacity <- PoolSize

kEmpty == 0
kTombstone == -1
NoHandle == 0
Handles == 1..PoolSize
NoOrder == [side |-> "none", px |-> 0, qty |-> 0]
NoTrade == [side |-> "none", px |-> 0]

\* No odd divisor but 1: what doubling 1 leads to.
PowerOfTwo(n) == \A d \in 2..n : n % d = 0 => d % 2 = 0

NumSlots_Single == Min({n \in PoolSize..(2 * PoolSize) : PowerOfTwo(n)})

\* The next power of two from twice the pool.
NumSlots == Min({n \in (2 * PoolSize)..(4 * PoolSize) : PowerOfTwo(n)})
Index == 0..(NumSlots - 1)

-----------------------------------------------------------------------------
(* LiveOrderTable. *)
Probe(key, k) == (hash[key] + k) % NumSlots

\* find: the first slot that is the key's own or empty decides; at most NumSlots.
Find(key) ==
  LET Stops(t) == (t.key = key /\ t.handle # NoHandle) \/ t.key = kEmpty
      k == Min({i \in Index : Stops(slots[Probe(key, i)])} \cup {NumSlots})
  IN  IF k < NumSlots /\ slots[Probe(key, k)].key = key THEN Probe(key, k) ELSE -1

\* insert: the first empty slot, tombstone or own slot.
Inserted(table, key, h) ==
  LET k == Min({i \in Index : table[Probe(key, i)].key \in {kEmpty, kTombstone, key}})
  IN  [table EXCEPT ![Probe(key, k)] = [key |-> key, handle |-> h]]

Erased_Emptied(table, i) == [table EXCEPT ![i] = [key |-> kEmpty, handle |-> NoHandle]]

Erased(table, i) == [table EXCEPT ![i] = [key |-> kTombstone, handle |-> NoHandle]]

-----------------------------------------------------------------------------
(* ItchBookAdapter. *)
toTicks(p) == p \div PerTick
inBookRange(px) == px > 0 /\ px < MaxLevel

\* The book takes the order into a free place of its pool, or returns no handle.
Rest(table, orders, r, d, n, px) ==
  LET free == {h \in Handles : orders[h] = NoOrder}
  IN  IF ~inBookRange(px) \/ free = {}
      THEN slots' = table /\ pool' = orders
      ELSE \E h \in free :
             /\ pool' = [orders EXCEPT ![h] = [side |-> d, px |-> px, qty |-> n]]
             /\ slots' = Inserted(table, r, h)

Order(i) == pool[slots[i].handle]

eraseOrder(i) ==
  /\ pool' = [pool EXCEPT ![slots[i].handle] = NoOrder]
  /\ slots' = Erased(slots, i)

decrementOrErase(i, n) ==
  IF Order(i).qty - n > 0
  THEN pool' = [pool EXCEPT ![slots[i].handle].qty = @ - n] /\ UNCHANGED slots
  ELSE eraseOrder(i)

\* The feed adds a reference only while it does not rest.
Fresh(r) == live[r] = Map!NoOrder

onAdd(r, d, n, p) ==
  /\ Fresh(r)
  /\ Rest(slots, pool, r, d, n, toTicks(p))
  /\ sim' = NoTrade
  /\ Map!Add(r, d, n, p)
  /\ UNCHANGED hash

onCancelPartial(r, n) ==
  /\ IF Find(r) < 0 THEN UNCHANGED <<slots, pool>> ELSE decrementOrErase(Find(r), n)
  /\ sim' = NoTrade
  /\ Map!Cancel(r, n)
  /\ UNCHANGED hash

onDelete(r) ==
  /\ IF Find(r) < 0 THEN UNCHANGED <<slots, pool>> ELSE eraseOrder(Find(r))
  /\ sim' = NoTrade
  /\ Map!Delete(r)
  /\ UNCHANGED hash

\* onExecute (printed = 0) and onExecuteWithPrice, after the peek of apply_event.
onExecute(r, n, printed) ==
  LET i == Find(r)
  IN  /\ IF i < 0 THEN UNCHANGED <<slots, pool>> ELSE decrementOrErase(i, n)
      /\ sim' = IF i < 0 THEN NoTrade
                  ELSE [side |-> Order(i).side,
                        px |-> IF printed = 0 THEN Order(i).px ELSE toTicks(printed)]
      /\ Map!Execute(r, n, printed)
      /\ UNCHANGED hash

onReplace_KeepsOld(old, new, n, p) ==
  LET i == Find(old)
  IN  /\ Fresh(new)
      /\ IF i < 0 THEN UNCHANGED <<slots, pool>>
         ELSE Rest(slots, pool, new, Order(i).side, n, toTicks(p))
      /\ sim' = NoTrade
      /\ Map!Replace(old, new, n, p)
      /\ UNCHANGED hash

\* The old order is gone even when the new price is out of range.
onReplace(old, new, n, p) ==
  LET i == Find(old)
  IN  /\ Fresh(new)
      /\ IF i < 0 THEN UNCHANGED <<slots, pool>>
         ELSE Rest(Erased(slots, i), [pool EXCEPT ![slots[i].handle] = NoOrder],
                   new, Order(i).side, n, toTicks(p))
      /\ sim' = NoTrade
      /\ Map!Replace(old, new, n, p)
      /\ UNCHANGED hash

Init ==
  /\ hash \in [Refs -> Index]
  /\ slots = [i \in Index |-> [key |-> kEmpty, handle |-> NoHandle]]
  /\ pool = [h \in Handles |-> NoOrder]
  /\ sim = NoTrade
  /\ Map!Init

Next ==
  \/ \E r \in Refs, d \in {"Buy", "Sell"}, n \in Quantities, p \in ItchPrices : onAdd(r, d, n, p)
  \/ \E r \in Refs, n \in Quantities : onCancelPartial(r, n)
  \/ \E r \in Refs : onDelete(r)
  \/ \E r \in Refs, n \in Quantities, p \in ItchPrices \cup {0} : onExecute(r, n, p)
  \/ \E old, new \in Refs, n \in Quantities, p \in ItchPrices : onReplace(old, new, n, p)

Spec == Init /\ [][Next]_vars

-----------------------------------------------------------------------------
\* Every variable has its type; an order in the pool has something left.
TypeOK ==
  /\ hash \in [Refs -> Index]
  /\ slots \in [Index -> [key : Refs \cup {kEmpty, kTombstone}, handle : Handles \cup {NoHandle}]]
  /\ \A h \in Handles :
       pool[h] \in {NoOrder} \cup [side : {"Buy", "Sell"}, px : 1..(MaxLevel - 1), qty : Nat \ {0}]
  /\ DOMAIN pool = Handles
  /\ sim \in [side : {"none", "Buy", "Sell"}, px : Nat]

LiveSlots == {i \in Index : slots[i].handle # NoHandle}

\* Beside the types, and whatever sequence of adds and deletes: no reference has two entries, every
\* order of the book is reached by exactly one, and a lookup finds that entry
\* however many tombstones lie on the way.
EntriesMatchOrders ==
  /\ TypeOK
  /\ \A i \in LiveSlots : Find(slots[i].key) = i
  /\ \A h \in Handles :
       pool[h] # NoOrder <=> Cardinality({i \in LiveSlots : slots[i].handle = h}) = 1
  /\ Cardinality(LiveSlots) = Cardinality({h \in Handles : pool[h] # NoOrder})

\* At most half of the slots hold orders, so that insert, which has no bound on
\* its probes, always comes to an end.
HalfLoad == 2 * Cardinality(LiveSlots) <= NumSlots

\* The adapter agrees with the map of BookMap after every event: it changed
\* exactly the orders the event names, and an execution showed the simulator the
\* right side and price.
TableIsMap ==
  /\ \A r \in Refs : live[r] = IF Find(r) < 0 THEN NoOrder ELSE Order(Find(r))
  /\ sim = trade
=============================================================================

------------------------------ MODULE BookMap ------------------------------
(***************************************************************************)
(* What the book adapter promises to the dispatcher: a map from the order  *)
(* references of one symbol to their resting orders, and for an execution  *)
(* the side and price it traded at.  It has no table and no handles.  Book *)
(* takes each of these actions together with its own.                      *)
(***************************************************************************)
EXTENDS Integers, FiniteSets

CONSTANTS Refs, PerTick, MaxLevel, Capacity

VARIABLES live, trade

NoOrder == [side |-> "none", px |-> 0, qty |-> 0]
NoTrade == [side |-> "none", px |-> 0]

Ticks(p) == p \div PerTick
InRange(p) == Ticks(p) \in 1..(MaxLevel - 1)
Resting == {r \in Refs : live[r] # NoOrder}
Order(d, n, p) == [side |-> d, px |-> Ticks(p), qty |-> n]

Less(o, n) == IF o.qty > n THEN [o EXCEPT !.qty = @ - n] ELSE NoOrder

\* An order out of the price range, or beyond the capacity, does not rest.
Add(r, d, n, p) ==
  /\ live[r] = NoOrder
  /\ live' = IF InRange(p) /\ Cardinality(Resting) < Capacity
             THEN [live EXCEPT ![r] = Order(d, n, p)] ELSE live
  /\ trade' = NoTrade

Cancel(r, n) ==
  /\ live' = [live EXCEPT ![r] = Less(@, n)]
  /\ trade' = NoTrade

Delete(r) ==
  /\ live' = [live EXCEPT ![r] = NoOrder]
  /\ trade' = NoTrade

\* An execution reports the order's own side and price, or the printed price.
Execute(r, n, printed) ==
  /\ live' = [live EXCEPT ![r] = Less(@, n)]
  /\ trade' = IF live[r] = NoOrder THEN NoTrade
              ELSE [side |-> live[r].side,
                    px |-> IF printed = 0 THEN live[r].px ELSE Ticks(printed)]

\* The new order keeps the side of the one it replaces.
Replace(r, new, n, p) ==
  /\ live[new] = NoOrder
  /\ live' = IF live[r] = NoOrder THEN live
             ELSE [live EXCEPT ![r] = NoOrder,
                               ![new] = IF InRange(p) THEN Order(live[r].side, n, p)
                                        ELSE NoOrder]
  /\ trade' = NoTrade

Init ==
  /\ live = [r \in Refs |-> NoOrder]
  /\ trade = NoTrade
=============================================================================

---------------------------- MODULE OrderedFeed ----------------------------
(***************************************************************************)
(* What the receiver promises the dispatcher, whatever the network does:   *)
(* the packets of one session in sequence order, each at most once, from   *)
(* the first packet it hears on, where a hole is only ever left by a       *)
(* skip-ahead that adds the messages given up to a counter.                *)
(***************************************************************************)
EXTENDS Integers, Sequences

CONSTANTS NumPackets, Start

VARIABLES
  delivered,  \* packets handed over, oldest first
  next,       \* first sequence number not yet handed over or given up
  lost        \* messages given up

vars == <<delivered, next, lost>>

Init ==
  /\ delivered = <<>>
  /\ next = 0
  /\ lost = 0

\* The first packet heard fixes where the stream begins.
Join(p) ==
  /\ delivered = <<>>
  /\ delivered' = <<p>>
  /\ next' = Start[p + 1]
  /\ UNCHANGED lost

Deliver(p) ==
  /\ delivered # <<>>
  /\ next = Start[p]
  /\ delivered' = Append(delivered, p)
  /\ next' = Start[p + 1]
  /\ UNCHANGED lost

\* Give up everything in front of packet p.
SkipTo(p) ==
  /\ delivered # <<>>
  /\ next < Start[p]
  /\ lost' = lost + (Start[p] - next)
  /\ next' = Start[p]
  /\ UNCHANGED delivered

Next == \E p \in 1..NumPackets : Join(p) \/ Deliver(p) \/ SkipTo(p)

Spec == Init /\ [][Next]_vars

=============================================================================

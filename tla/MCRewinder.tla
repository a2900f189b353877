----------------------------- MODULE MCRewinder -----------------------------
(***************************************************************************)
(* Small instances of Rewinder: packets of one and two messages.           *)
(***************************************************************************)
EXTENDS Rewinder

MCStart == [p \in 1..(NumPackets + 1) |-> IF p <= 2 THEN p ELSE 2 * p - 2]
MCRequests == [start : {0, 2, 5, 13, 16}, count : {1, 2, 4}]
=============================================================================

------------------------------ MODULE MCEgress ------------------------------
(***************************************************************************)
(* The two ends of an order's way out, for TLC: the limits it passes       *)
(* before ORDER_TO_EXC (RateGate) and the AF_XDP socket it leaves by       *)
(* (AfxdpTx).  They share no state, so a behaviour steps one of them.      *)
(***************************************************************************)
EXTENDS RateGate, AfxdpTx

VARIABLE end      \* the end that steps

Init ==
  /\ GateInit /\ TxInit
  /\ end \in {"limits", "socket"}
  /\ end = "limits" => header = 1 /\ len = 0

Next ==
  \/ end = "limits" /\ GateNext /\ UNCHANGED <<tx_vars, end>>
  \/ end = "socket" /\ TxNext /\ UNCHANGED <<gate_vars, end>>

FairSpec == Init /\ [][Next]_<<gate_vars, tx_vars, end>> /\ TxFairness
=============================================================================

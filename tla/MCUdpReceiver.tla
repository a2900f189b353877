--------------------------- MODULE MCUdpReceiver ---------------------------
(***************************************************************************)
(* Instances of UdpReceiver for TLC.                                       *)
(***************************************************************************)
EXTENDS UdpReceiver, TLC

\* Five packets, the second of which carries two messages.
MCStart == <<1, 2, 4, 5, 6, 7>>

\* A shorter session.
MCStart3 == <<1, 2, 4, 5>>

FrameSymmetry == Permutations(Frames)

=============================================================================

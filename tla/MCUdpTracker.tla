---------------------------- MODULE MCUdpTracker ----------------------------
(***************************************************************************)
(* Instances of UdpTracker for TLC.                                        *)
(***************************************************************************)
EXTENDS UdpTracker

TwoBlocks == [b1 |-> {0}, b2 |-> {1, 2}]
=============================================================================

------------------------------ MODULE MCPeerRun ------------------------------
(***************************************************************************)
(* Instances of PeerRun for TLC.                                           *)
(***************************************************************************)
EXTENDS PeerRun, TLC

CONSTANTS p1, p2, q1

OneRound == [p \in Peers |-> q1]       \* the peers of one announce share a queue

PeerSymmetry == Permutations(Peers)
=============================================================================

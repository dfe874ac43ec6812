------------------------------ MODULE MCManager ------------------------------
(***************************************************************************)
(* Instances of Manager for TLC.                                           *)
(***************************************************************************)
EXTENDS Manager

CONSTANTS a1, a2, t1, t2
=============================================================================

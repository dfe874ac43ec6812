---------------------------- MODULE MCConnection ----------------------------
(***************************************************************************)
(* Instances of Connection for TLC.                                        *)
(***************************************************************************)
EXTENDS Connection

\* A type, a field and the rest take a unit each.
BodyUnits   == [keepalive |-> 0, choke |-> 1, have |-> 2, piece |-> 3]
ParsedUnits == [keepalive |-> 0, choke |-> 1, have |-> 2, piece |-> 2]
=============================================================================

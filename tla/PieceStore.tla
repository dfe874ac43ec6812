------------------------------ MODULE PieceStore ------------------------------
(***************************************************************************)
(* What the way from the peers to the files promises.  Only whole pieces   *)
(* with the torrent's own bytes enter it; none is lost or overtaken; each  *)
(* is counted before it is stored.  A failed write leaves a first part of  *)
(* the piece and takes no byte away that was there.  A piece is marked by  *)
(* the very step that puts all of it on disk, if it has full length, and   *)
(* by no other.                                                            *)
(***************************************************************************)
EXTENDS Integers, Sequences

CONSTANTS
  Pieces,       \* the pieces of the torrent
  Length,       \* Length[i]: the units of piece i
  PieceUnits,   \* the units of a piece of full length
  Room,         \* how many pieces may wait
  Limit         \* bound: the count stops here

VARIABLES
  waiting,      \* the pieces that wait for the writer, in the order they came
  hand,         \* the piece the writer has taken, at most one
  disk,         \* the units <<piece, unit>> on disk
  marked,       \* the pieces taken for complete
  counted       \* units counted as downloaded

vars == << waiting, hand, disk, marked, counted >>

Init ==
  /\ waiting = << >> /\ hand = {}
  /\ disk = {} /\ marked = {} /\ counted = 0

Join(i) ==
  /\ Len(waiting) < Room
  /\ waiting' = Append(waiting, i)
  /\ UNCHANGED << hand, disk, marked, counted >>

Capped(n) == IF n > Limit THEN Limit ELSE n

Take(i) ==
  /\ hand = {} /\ waiting # << >>
  /\ i = Head(waiting)
  /\ hand' = {i} /\ waiting' = Tail(waiting)
  /\ counted' = Capped(counted + Length[i])
  /\ UNCHANGED << disk, marked >>

FirstUnits(i, k) == { << i, u >> : u \in 0 .. k - 1 }

StoreWhole(i) ==
  /\ hand = {i} /\ hand' = {}
  /\ disk' = disk \cup FirstUnits(i, Length[i])
  /\ marked' = IF Length[i] = PieceUnits THEN marked \cup {i} ELSE marked
  /\ UNCHANGED << waiting, counted >>

StorePart(i, k) ==
  /\ hand = {i} /\ hand' = {}
  /\ k < Length[i]
  /\ disk' = disk \cup FirstUnits(i, k)
  /\ UNCHANGED << waiting, marked, counted >>

Next ==
  \E i \in Pieces :
    \/ Join(i) \/ Take(i) \/ StoreWhole(i)
    \/ \E k \in 0 .. Length[i] - 1 : StorePart(i, k)

Spec == Init /\ [][Next]_vars
=============================================================================

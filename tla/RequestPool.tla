----------------------------- MODULE RequestPool -----------------------------
(***************************************************************************)
(* What the peers of a download promise about requests.  A peer makes its  *)
(* requests one after the other and has at most one in hand; a request     *)
(* changes hands only through the pool of its announce round, where it     *)
(* stays what it was; none is lost on the way.  A claimed piece is never   *)
(* given up, and whoever claims it has a request for it in hand.           *)
(***************************************************************************)
EXTENDS Integers

CONSTANTS
  Peers,        \* the peers of the download
  Queues,       \* the announce rounds
  QueueOf       \* QueueOf[p]: the round of p

VARIABLES
  hand,         \* hand[p]: the request p answers for, at most one
  pool,         \* pool[q]: the requests of round q that wait for a peer
  made,         \* how many requests p has made
  claimed       \* the pieces somebody has claimed

vars == << hand, pool, made, claimed >>

Init ==
  /\ hand = [p \in Peers |-> {}]
  /\ pool = [q \in Queues |-> {}]
  /\ made = [p \in Peers |-> 0]
  /\ claimed = {}

\* p, which has nothing in hand, makes its next request r.
Make(p, r) ==
  /\ hand[p] = {}
  /\ hand' = [hand EXCEPT ![p] = {r}]
  /\ r.by = p /\ r.n = made[p]
  /\ made' = [made EXCEPT ![p] = @ + 1]
  /\ UNCHANGED pool

MakeNext(p, r) == Make(p, r) /\ UNCHANGED claimed

MakeClaim(p, r) == Make(p, r) /\ r.piece \notin claimed /\ claimed' = claimed \cup {r.piece}

Return(p) ==
  /\ hand[p] # {}
  /\ hand' = [hand EXCEPT ![p] = {}]
  /\ pool' = [pool EXCEPT ![QueueOf[p]] = @ \cup hand[p]]
  /\ UNCHANGED << made, claimed >>

Take(p, r) ==
  /\ hand[p] = {}
  /\ r \in pool[QueueOf[p]]
  /\ hand' = [hand EXCEPT ![p] = {r}]
  /\ pool' = [pool EXCEPT ![QueueOf[p]] = @ \ {r}]
  /\ UNCHANGED << made, claimed >>

Next ==
  \E p \in Peers :
    \/ \E r \in hand'[p] : MakeNext(p, r) \/ MakeClaim(p, r) \/ Take(p, r)
    \/ Return(p)

Spec == Init /\ [][Next]_vars
=============================================================================

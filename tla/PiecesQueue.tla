----------------------------- MODULE PiecesQueue -----------------------------
(***************************************************************************)
(* torrent.PiecesQueue: the stack of requests that failed on the wire.     *)
(* Every announce round makes one queue and shares it between the peers it *)
(* starts (Manager.initPeers), so the model keeps one stack per queue.     *)
(* Both operations hold failedMu from first to last line: each is one      *)
(* step.                                                                   *)
(***************************************************************************)
EXTENDS Integers, Sequences

CONSTANT Queues          \* the queues made so far, one per announce round

VARIABLE failed          \* failed[q]: failedMessages, the newest entry last

\* NewPiecesQueue: every queue starts empty.
QueueInit == failed = [q \in Queues |-> << >>]

QueueEmptied(q) == failed[q] = << >>

\* The request FailedPieceMessage would return: the last one queued.
NewestFailed(q) == failed[q][Len(failed[q])]

RequestFailed(q, msg) == failed' = [failed EXCEPT ![q] = Append(@, msg)]

FailedPieceMessage(q) ==
  /\ ~QueueEmptied(q)
  /\ failed' = [failed EXCEPT ![q] = SubSeq(@, 1, Len(@) - 1)]
=============================================================================

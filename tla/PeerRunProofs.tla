---------------------------- MODULE PeerRunProofs ----------------------------
(***************************************************************************)
(* What PeerRun guarantees for every number of peers, queues and pieces    *)
(* and every length of piece, block and reply.                             *)
(***************************************************************************)
EXTENDS PeerRun, FiniteSetTheorems, TLAPS

(***************************************************************************)
(* Lengths and bit numbers.                                                *)
(***************************************************************************)
LEMMA LenOfType == \A i \in Pieces : LenOf(i) \in 1 .. PieceUnits
BY TorrentAssumption DEF LenOf

\* Swapping the bits inside a word stays inside the words of the bitset.
LEMMA BitInRange == \A i \in Pieces : BitOf(i) \in BitIndices
<1> SUFFICES ASSUME NEW i \in Pieces PROVE BitOf(i) \in BitIndices
  OBVIOUS
<1> DEFINE W == WordBits
           w == i \div W
           n == (NumPieces + W - 1) \div W
<1>1. W \in Nat \ {0} /\ i \in Nat /\ i < NumPieces /\ NumPieces \in Nat
  BY TorrentAssumption, PeerAssumption DEF Pieces
<1>2. w \in Nat /\ i % W \in 0 .. W - 1 /\ i = (w * W) + (i % W)
  BY <1>1
<1>3. n \in Nat /\ n * W >= NumPieces
  BY <1>1
<1>4. w + 1 <= n
  BY <1>1, <1>2, <1>3
<1>5. (w + 1) * W <= n * W
  BY <1>1, <1>2, <1>3, <1>4
<1> QED
  BY <1>1, <1>2, <1>5 DEF BitOf, BitIndices, WordsOf

\* So does a piece number.
LEMMA PieceIsBit == Pieces \subseteq BitIndices
<1> DEFINE n == (NumPieces + WordBits - 1) \div WordBits
           bits == n * WordBits
<1>1. bits \in Nat /\ bits >= NumPieces /\ NumPieces \in Nat
  BY TorrentAssumption, PeerAssumption
<1>2. BitIndices = 0 .. bits - 1
  BY DEF BitIndices, WordsOf
<1> HIDE DEF bits
<1> QED
  BY <1>1, <1>2 DEF Pieces

(***************************************************************************)
(* Type correctness.                                                       *)
(***************************************************************************)
LEMMA InitType == Init => TypeOK
<1> SUFFICES ASSUME Init PROVE TypeOK
  OBVIOUS
<1>1. failed \in [Queues -> Seq(Requests)]
  BY DEF Init, QueueInit
<1>2. TorrentTypeOK
  BY TorrentAssumption DEF Init, TorrentInit, TorrentTypeOK
<1>3. PeerTypeOK
  <2>1. 0 \in Pieces
    BY TorrentAssumption DEF Pieces
  <2> QED
    BY <2>1 DEF Init, PeerTypeOK, Stages
<1>4. \A p \in Peers : PlaceOK(p)
  BY DEF Init, PlaceOK
<1> QED
  BY <1>1, <1>2, <1>3, <1>4 DEF TypeOK

\* A request p can make of piece i is a request message.
LEMMA MadeIsRequest ==
  ASSUME NEW p \in Peers, NEW i \in Pieces, NEW n \in Nat, NEW b \in Nat
  PROVE  [by |-> p, n |-> n, piece |-> i, block |-> b] \in Requests
BY DEF Requests

\* Queueing a request keeps the stacks stacks of requests, and so does taking one.
LEMMA QueueStep ==
  ASSUME TypeOK, NEW q \in Queues
  PROVE  /\ \A r \in Requests : RequestFailed(q, r) => failed' \in [Queues -> Seq(Requests)]
         /\ FailedPieceMessage(q) => /\ failed' \in [Queues -> Seq(Requests)]
                                     /\ NewestFailed(q) \in Requests
<1> DEFINE s == failed[q]
<1>1. s \in Seq(Requests) /\ Len(s) \in Nat
  BY DEF TypeOK
<1>2. ASSUME NEW r \in Requests, RequestFailed(q, r)
      PROVE  failed' \in [Queues -> Seq(Requests)]
  <2>1. Append(s, r) \in Seq(Requests)
    BY <1>1
  <2> QED
    BY <1>2, <2>1 DEF TypeOK, RequestFailed
<1>3. ASSUME FailedPieceMessage(q)
      PROVE  failed' \in [Queues -> Seq(Requests)] /\ NewestFailed(q) \in Requests
  <2>1. Len(s) > 0
    BY <1>1, <1>3 DEF FailedPieceMessage, QueueEmptied
  <2>2. SubSeq(s, 1, Len(s) - 1) \in Seq(Requests) /\ s[Len(s)] \in Requests
    BY <1>1, <2>1
  <2> QED
    BY <1>3, <2>2 DEF TypeOK, FailedPieceMessage, NewestFailed
<1> QED
  BY <1>2, <1>3

\* The writer's steps.
LEMMA WriterType == ASSUME TypeOK, WriterStep PROVE TypeOK'
<1> USE DEF TypeOK
<1>1. /\ UNCHANGED << pc, choked, bitset, blockIdx, pieceIdx, req, sent, delivering,
                      made, cancelled, failed >>
      /\ Writer
  BY DEF WriterStep, peerVars, localVars
<1>2. failed' \in [Queues -> Seq(Requests)] /\ PeerTypeOK' /\ \A p \in Peers : PlaceOK(p)'
  BY <1>1 DEF PeerTypeOK, PlaceOK
<1>3. ASSUME NEW m \in PieceMsgs, NEW k \in 0 .. m.len
      PROVE  Stored(m, k) \subseteq Pieces \X (0 .. PieceUnits - 1)
  <2>1. /\ m.piece \in Pieces /\ m.first \in 0 .. PieceUnits - 1
        /\ m.len \in 1 .. PieceUnits /\ m.first + m.len <= LenOf(m.piece)
    BY DEF PieceMsgs
  <2>2. LenOf(m.piece) \in 1 .. PieceUnits
    BY <2>1, LenOfType
  <2>3. \A u \in m.first .. m.first + k - 1 : u \in 0 .. PieceUnits - 1
    BY <2>1, <2>2, TorrentAssumption
  <2> QED
    BY <2>1, <2>3 DEF Stored, TorrentTypeOK
<1>4. CASE WriterTake
  <2>1. Len(pieceCh) \in Nat /\ Len(pieceCh) > 0
    BY <1>4 DEF WriterTake, TorrentTypeOK
  <2>2. /\ Head(pieceCh) \in PieceMsgs
        /\ Tail(pieceCh) \in Seq(PieceMsgs)
        /\ Len(Tail(pieceCh)) = Len(pieceCh) - 1
    BY <2>1 DEF TorrentTypeOK
  <2>3. Head(pieceCh).len \in Nat
    BY <2>2, TorrentAssumption DEF PieceMsgs
  <2>4. download' \in 0 .. MaxDownload
    BY <1>4, <2>3, TorrentAssumption DEF WriterTake, AddDownload, TorrentTypeOK
  <2>5. TorrentTypeOK'
    BY <1>4, <2>1, <2>2, <2>4, TorrentAssumption DEF WriterTake, TorrentTypeOK
  <2> QED
    BY <1>2, <2>5
<1>5. CASE WriterStore
  <2>1. writing \in PieceMsgs
    BY <1>5 DEF WriterStore, TorrentTypeOK
  <2>2. writing.piece \in Pieces /\ writing.len \in Nat
    BY <2>1, TorrentAssumption DEF PieceMsgs
  <2>3. disk' \subseteq Pieces \X (0 .. PieceUnits - 1)
    BY <1>3, <1>5, <2>1, <2>2 DEF WriterStore
  <2> QED
    BY <1>2, <1>5, <2>2, <2>3 DEF WriterStore, TorrentTypeOK
<1>6. CASE WriterFail
  <2>1. writing \in PieceMsgs
    BY <1>6 DEF WriterFail, TorrentTypeOK
  <2>2. writing.len \in Nat
    BY <2>1, TorrentAssumption DEF PieceMsgs
  <2>3. PICK k \in 0 .. writing.len - 1 : disk' = Stored(writing, k)
    BY <1>6 DEF WriterFail
  <2>4. k \in 0 .. writing.len
    BY <2>2
  <2>5. disk' \subseteq Pieces \X (0 .. PieceUnits - 1)
    BY <1>3, <2>1, <2>3, <2>4
  <2> QED
    BY <1>2, <1>6, <2>5 DEF WriterFail, TorrentTypeOK
<1> QED
  BY <1>1, <1>4, <1>5, <1>6 DEF Writer

\* A step of p that leaves the torrent alone keeps the torrent's types.
LEMMA TorrentKept == ASSUME TorrentTypeOK, UNCHANGED torrentVars PROVE TorrentTypeOK'
BY DEF torrentVars, TorrentTypeOK

\* The steps that only move p on.
LEMMA MoveType ==
  ASSUME TypeOK, NEW p \in Peers,
         \/ LoopExit(p) \/ LoopTop(p) \/ KeepAliveFails(p)
         \/ UnchokeCancelled(p) \/ NothingFailed(p) \/ ReceiveOther(p)
  PROVE  TypeOK'
<1>1. UNCHANGED << choked, bitset, blockIdx, pieceIdx, req, sent, delivering, made,
                   cancelled, failed, torrentVars >>
  BY DEF LoopExit, LoopTop, KeepAliveFails, UnchokeCancelled, NothingFailed,
         ReceiveOther, localVars
<1>2. \E s \in Stages :
        /\ pc' = [pc EXCEPT ![p] = s]
        /\ s \in {"request", "claim", "write"} => ~sent[p]
        /\ s # "write" /\ s \notin {"deliver", "deliverUnchoking"}
  <2>1. CASE LoopExit(p) \/ KeepAliveFails(p) \/ UnchokeCancelled(p)
    BY <2>1 DEF LoopExit, KeepAliveFails, UnchokeCancelled, Goto, Stages
  <2>2. CASE LoopTop(p)
    BY <2>2 DEF LoopTop, Goto, Stage, Stages
  <2>3. CASE NothingFailed(p)
    BY <2>3 DEF NothingFailed, Goto, Stages, TypeOK, PlaceOK
  <2>4. CASE ReceiveOther(p)
    BY <2>4 DEF ReceiveOther, Handled, Goto, Stage, Stages
  <2> QED
    BY <2>1, <2>2, <2>3, <2>4
<1>3. pc[p] \notin {"deliver", "deliverUnchoking"}
  BY DEF LoopExit, LoopTop, KeepAliveFails, UnchokeCancelled, NothingFailed,
         ReceiveOther, Reading
<1>4. PeerTypeOK'
  BY <1>1, <1>2 DEF TypeOK, PeerTypeOK
<1>5. \A r \in Peers : PlaceOK(r)'
  BY <1>1, <1>2, <1>3 DEF TypeOK, PeerTypeOK, PlaceOK
<1> QED
  BY <1>1, <1>4, <1>5, TorrentKept DEF TypeOK

\* Making, taking and claiming a request.
LEMMA RequestType ==
  ASSUME TypeOK, NEW p \in Peers,
         NextBlock(p) \/ PopFailed(p) \/ ClaimPiece(p) \/ NothingToClaim(p)
  PROVE  TypeOK'
<1> USE DEF TypeOK
<1>1. QueueOf[p] \in Queues
  BY PeerAssumption
<1>2. ASSUME NEW i \in Pieces, NEW b \in Nat, MakeRequest(p, i, b)
      PROVE  /\ req' \in [Peers -> Requests \cup {NoReq}] /\ req'[p] # NoReq
             /\ made' \in [Peers -> Nat]
             /\ pieceIdx' \in [Peers -> Pieces]
             /\ blockIdx' \in [Peers -> Nat]
             /\ \A r \in Peers \ {p} : req'[r] = req[r]
  <2>1. made[p] \in Nat
    BY DEF PeerTypeOK
  <2>2. [by |-> p, n |-> made[p], piece |-> i, block |-> b] \in Requests
    BY <2>1, MadeIsRequest
  <2> QED
    BY <1>2, <2>2, NoReqAssumption DEF MakeRequest, PeerTypeOK
<1>3. CASE NextBlock(p)
  <2>1. pieceIdx[p] \in Pieces /\ blockIdx[p] \in Nat
    BY DEF PeerTypeOK
  <2>2. MakeRequest(p, pieceIdx[p], blockIdx[p])
    BY <1>3 DEF NextBlock
  <2>3. PeerTypeOK' /\ failed' \in [Queues -> Seq(Requests)] /\ UNCHANGED torrentVars
    BY <1>2, <1>3, <2>1, <2>2 DEF NextBlock, Goto, PeerTypeOK, Stages
  <2>4. \A r \in Peers : PlaceOK(r)'
    BY <1>2, <1>3, <2>1, <2>2 DEF NextBlock, Goto, PeerTypeOK, PlaceOK
  <2> QED
    BY <2>3, <2>4, TorrentKept
<1>4. CASE PopFailed(p)
  <2>1. FailedPieceMessage(QueueOf[p])
    BY <1>4 DEF PopFailed
  <2>2. NewestFailed(QueueOf[p]) \in Requests /\ failed' \in [Queues -> Seq(Requests)]
    BY <1>1, <2>1, QueueStep
  <2>3. PeerTypeOK' /\ UNCHANGED torrentVars
    BY <1>4, <2>2 DEF PopFailed, Goto, PeerTypeOK, Stages
  <2>4. \A r \in Peers : PlaceOK(r)'
    BY <1>4, <2>2, NoReqAssumption DEF PopFailed, Goto, PeerTypeOK, PlaceOK
  <2> QED
    BY <2>2, <2>3, <2>4, TorrentKept
<1>5. CASE ClaimPiece(p)
  <2>1. PICK i \in Pieces : Claim(bitset[p], i) /\ MakeRequest(p, i, 0)
    BY <1>5 DEF ClaimPiece
  <2>2. TorrentTypeOK'
    BY <1>5, <2>1 DEF ClaimPiece, Claim, writerVars, TorrentTypeOK
  <2>3. PeerTypeOK' /\ failed' \in [Queues -> Seq(Requests)]
    BY <1>2, <1>5, <2>1 DEF ClaimPiece, Goto, PeerTypeOK, Stages
  <2>4. \A r \in Peers : PlaceOK(r)'
    BY <1>2, <1>5, <2>1 DEF ClaimPiece, Goto, PeerTypeOK, PlaceOK
  <2> QED
    BY <2>2, <2>3, <2>4
<1>6. CASE NothingToClaim(p)
  <2>1. PeerTypeOK' /\ failed' \in [Queues -> Seq(Requests)] /\ UNCHANGED torrentVars
    BY <1>6 DEF NothingToClaim, Goto, PeerTypeOK, Stages
  <2>2. \A r \in Peers : PlaceOK(r)'
    BY <1>6 DEF NothingToClaim, Goto, PeerTypeOK, PlaceOK
  <2> QED
    BY <2>1, <2>2, TorrentKept
<1> QED
  BY <1>3, <1>4, <1>5, <1>6

\* Sending a request, and queueing one that failed.
LEMMA SendType ==
  ASSUME TypeOK, NEW p \in Peers, SendRequest(p) \/ SendFails(p) \/ ReadFails(p)
  PROVE  TypeOK'
<1> USE DEF TypeOK
<1>1. QueueOf[p] \in Queues
  BY PeerAssumption
<1>2. sent[p] \/ pc[p] = "write" => req[p] \in Requests
  BY DEF PeerTypeOK, PlaceOK
<1>3. failed' \in [Queues -> Seq(Requests)]
  <2>1. CASE UNCHANGED failed
    BY <2>1
  <2>2. CASE RequestFailed(QueueOf[p], req[p]) /\ (sent[p] \/ pc[p] = "write")
    BY <1>1, <1>2, <2>2, QueueStep
  <2> QED
    BY <2>1, <2>2 DEF SendRequest, SendFails, ReadFails
<1>4. PeerTypeOK' /\ UNCHANGED torrentVars
  BY DEF SendRequest, SendFails, ReadFails, localVars, Goto, PeerTypeOK, Stages
<1>5. \A r \in Peers : PlaceOK(r)'
  BY DEF SendRequest, SendFails, ReadFails, localVars, Goto, PeerTypeOK, PlaceOK
<1> QED
  BY <1>3, <1>4, <1>5, TorrentKept

\* Handling a message.
LEMMA ReceiveType == ASSUME TypeOK, NEW p \in Peers, Receive(p) PROVE TypeOK'
<1> USE DEF TypeOK
<1>1. UNCHANGED << blockIdx, pieceIdx, req, sent, made, cancelled, failed, torrentVars >>
  BY DEF Receive, ReceiveChoke, ReceiveHave, ReceiveBitfield, ReceiveOther,
         ReceivePiece, localVars
<1>2. CASE ReceiveOther(p)
  BY <1>2, MoveType
<1>3. ASSUME NEW m \in PieceMsgs, ReceivePiece(p, m) PROVE TypeOK'
  <2>1. PeerTypeOK'
    BY <1>1, <1>3 DEF ReceivePiece, Goto, PeerTypeOK, Stages
  <2>2. \A r \in Peers : PlaceOK(r)'
    BY <1>1, <1>3, NoMsgAssumption
    DEF ReceivePiece, Reading, Goto, PeerTypeOK, PlaceOK
  <2> QED
    BY <1>1, <2>1, <2>2, TorrentKept
<1>4. ASSUME NEW c \in BOOLEAN, Reading(p), Handled(p, c), UNCHANGED delivering,
             choked' \in [Peers -> BOOLEAN], bitset' \in [Peers -> SUBSET BitIndices]
      PROVE  TypeOK'
  <2>1. PeerTypeOK'
    BY <1>1, <1>4 DEF Handled, Stage, Goto, PeerTypeOK, Stages
  <2>2. \A r \in Peers : PlaceOK(r)'
    BY <1>1, <1>4 DEF Handled, Reading, Stage, Goto, PeerTypeOK, PlaceOK
  <2> QED
    BY <1>1, <2>1, <2>2, TorrentKept
<1>5. choked[p] \in BOOLEAN
  BY DEF PeerTypeOK
<1>6. ASSUME NEW c \in BOOLEAN, ReceiveChoke(p, c) PROVE TypeOK'
  BY <1>4, <1>6 DEF ReceiveChoke, PeerTypeOK
<1>7. ASSUME NEW i \in Pieces, ReceiveHave(p, i) PROVE TypeOK'
  <2>1. i \in BitIndices
    BY PieceIsBit
  <2> QED
    BY <1>4, <1>5, <1>7, <2>1 DEF ReceiveHave, PeerTypeOK
<1>8. ASSUME NEW have \in SUBSET Pieces, ReceiveBitfield(p, have) PROVE TypeOK'
  <2>1. { BitOf(i) : i \in have } \subseteq BitIndices
    BY BitInRange
  <2> QED
    BY <1>4, <1>5, <1>8, <2>1 DEF ReceiveBitfield, PeerTypeOK
<1> QED
  BY <1>2, <1>3, <1>6, <1>7, <1>8 DEF Receive

\* Handing a piece to the writer.
LEMMA DeliverType == ASSUME TypeOK, NEW p \in Peers, Deliver(p) PROVE TypeOK'
<1> USE DEF TypeOK
<1>1. delivering[p] \in PieceMsgs
  BY DEF Deliver, PeerTypeOK, PlaceOK
<1>2. delivering[p].piece \in BitIndices
  BY <1>1, PieceIsBit DEF PieceMsgs
<1>3. TorrentTypeOK'
  BY <1>1, TorrentAssumption DEF Deliver, TorrentTypeOK
<1>4. PeerTypeOK'
  BY <1>2 DEF Deliver, Handled, Stage, Goto, PeerTypeOK, Stages
<1>5. \A r \in Peers : PlaceOK(r)'
  BY DEF Deliver, Handled, Stage, Goto, PeerTypeOK, PlaceOK
<1> QED
  BY <1>3, <1>4, <1>5 DEF Deliver

LEMMA NextType == TypeOK /\ [Next]_vars => TypeOK'
<1> SUFFICES ASSUME TypeOK, [Next]_vars PROVE TypeOK'
  OBVIOUS
<1>1. ASSUME NEW p \in Peers, PeerStep(p) PROVE TypeOK'
  BY <1>1, MoveType, RequestType, SendType, ReceiveType, DeliverType
  DEF PeerStep, Request
<1>2. CASE WriterStep
  BY <1>2, WriterType
<1>3. CASE Cancel
  BY <1>3, TorrentKept DEF Cancel, peerVars, localVars, TypeOK, PeerTypeOK, PlaceOK
<1>4. CASE UNCHANGED vars
  BY <1>4, TorrentKept
  DEF vars, peerVars, localVars, TypeOK, PeerTypeOK, PlaceOK
<1> QED
  BY <1>1, <1>2, <1>3, <1>4 DEF Next

\* Every variable keeps its type, and each goroutine what its place says.
THEOREM TypeCorrect == Spec => []TypeOK
BY InitType, NextType, PTL DEF Spec

(***************************************************************************)
(* What a piece marked downloaded means.  The invariant that carries both  *)
(* results is that nothing unchecked is on its way to the disk.            *)
(***************************************************************************)
DataInv == TypeOK /\ InFlightChecked /\ DownloadedOnDisk /\ LongPiecesNeverMarked

\* Nothing that data rests on has changed.
LEMMA DataKept ==
  ASSUME DataInv, UNCHANGED << delivering, pieceCh, writing, downloaded, disk >>
  PROVE  (InFlightChecked /\ DownloadedOnDisk /\ LongPiecesNeverMarked)'
BY DEF DataInv, InFlightChecked, DownloadedOnDisk, LongPiecesNeverMarked

\* A peer adds only a message that passed the check.
LEMMA DataPeer ==
  ASSUME DataInv, NEW p \in Peers, PeerStep(p)
  PROVE  (InFlightChecked /\ DownloadedOnDisk /\ LongPiecesNeverMarked)'
<1>1. TypeOK /\ PeerTypeOK /\ TorrentTypeOK
  BY DEF DataInv, TypeOK
<1>2. UNCHANGED << writing, downloaded, disk >>
  BY DEF PeerStep, Request, Receive, LoopExit, LoopTop, KeepAliveFails,
         UnchokeCancelled, NextBlock, PopFailed, NothingFailed, ClaimPiece,
         NothingToClaim, SendRequest, SendFails, ReadFails, ReceiveChoke,
         ReceiveHave, ReceiveBitfield, ReceiveOther, ReceivePiece, Deliver,
         torrentVars, writerVars
<1>3. CASE UNCHANGED << delivering, pieceCh >>
  BY <1>2, <1>3, DataKept
<1>4. ASSUME NEW m \in PieceMsgs, ReceivePiece(p, m) PROVE InFlightChecked'
  BY <1>1, <1>4
  DEF DataInv, InFlightChecked, ReceivePiece, PeerTypeOK, torrentVars
<1>5. ASSUME Deliver(p) PROVE InFlightChecked'
  <2>1. delivering[p] # NoMsg /\ CheckPiece(delivering[p])
    BY <1>1, <1>5 DEF Deliver, TypeOK, PlaceOK, DataInv, InFlightChecked
  <2>2. \A k \in DOMAIN pieceCh' : CheckPiece(pieceCh'[k])
    <3> SUFFICES ASSUME NEW k \in DOMAIN pieceCh' PROVE CheckPiece(pieceCh'[k])
      OBVIOUS
    <3>1. pieceCh \in Seq(PieceMsgs) /\ pieceCh' = Append(pieceCh, delivering[p])
      BY <1>1, <1>5 DEF Deliver, TorrentTypeOK
    <3>2. /\ Len(pieceCh) \in Nat
          /\ DOMAIN pieceCh = 1 .. Len(pieceCh)
          /\ DOMAIN pieceCh' = 1 .. Len(pieceCh) + 1
      BY <3>1
    <3>3. CASE k = Len(pieceCh) + 1
      BY <2>1, <3>1, <3>3
    <3>4. CASE k \in DOMAIN pieceCh
      BY <3>1, <3>2, <3>4 DEF DataInv, InFlightChecked
    <3> QED
      BY <3>2, <3>3, <3>4
  <2> QED
    BY <1>1, <1>2, <1>5, <2>2
    DEF DataInv, InFlightChecked, Deliver, PeerTypeOK
<1>6. UNCHANGED << delivering, pieceCh >> \/ Deliver(p) \/ \E m \in PieceMsgs : ReceivePiece(p, m)
  BY DEF PeerStep, Request, Receive, LoopExit, LoopTop, KeepAliveFails,
         UnchokeCancelled, NextBlock, PopFailed, NothingFailed, ClaimPiece,
         NothingToClaim, SendRequest, SendFails, ReadFails, ReceiveChoke,
         ReceiveHave, ReceiveBitfield, ReceiveOther, localVars,
         torrentVars, writerVars
<1> QED
  BY <1>2, <1>3, <1>4, <1>5, <1>6
  DEF DataInv, DownloadedOnDisk, LongPiecesNeverMarked

\* A checked message has the length of its piece, so it lies inside it only from
\* its start.
LEMMA CheckedFromStart ==
  ASSUME NEW m \in PieceMsgs, CheckPiece(m)
  PROVE  m.first = 0
<1>1. m.piece \in Pieces /\ m.first \in Nat /\ m.first + m.len <= LenOf(m.piece)
  BY DEF PieceMsgs
<1>2. LenOf(m.piece) \in 1 .. PieceUnits
  BY <1>1, LenOfType
<1> QED
  BY <1>1, <1>2, TorrentAssumption DEF CheckPiece

\* A checked message carries its whole piece; it can only end a piece of full
\* length, and only if a reply can be as long as that.
LEMMA CheckedIsWhole ==
  ASSUME NEW m \in PieceMsgs, CheckPiece(m)
  PROVE  /\ m.piece \in Pieces /\ m.sound /\ m.len \in Nat
         /\ \A u \in 0 .. LenOf(m.piece) - 1 : u \in m.first .. m.first + m.len - 1
         /\ EndsPiece(m) => ReplyUnits >= PieceUnits
<1>1. m.piece \in Pieces
  BY DEF PieceMsgs
<1>2. LenOf(m.piece) \in 1 .. PieceUnits
  BY <1>1, LenOfType
<1> QED
  BY <1>1, <1>2, TorrentAssumption DEF PieceMsgs, CheckPiece, EndsPiece

LEMMA DataWriter ==
  ASSUME DataInv, WriterStep
  PROVE  (InFlightChecked /\ DownloadedOnDisk /\ LongPiecesNeverMarked)'
<1>1. TypeOK /\ TorrentTypeOK /\ UNCHANGED delivering /\ Writer
  BY DEF DataInv, TypeOK, WriterStep, peerVars, localVars
<1>2. CASE WriterTake
  <2>1. pieceCh \in Seq(PieceMsgs) /\ Len(pieceCh) > 0
    BY <1>1, <1>2 DEF WriterTake, TorrentTypeOK
  <2>2. CheckPiece(Head(pieceCh))
    BY <2>1 DEF DataInv, InFlightChecked
  <2>3. \A k \in DOMAIN Tail(pieceCh) :
          k + 1 \in DOMAIN pieceCh /\ Tail(pieceCh)[k] = pieceCh[k + 1]
    BY <2>1
  <2>4. InFlightChecked'
    BY <1>1, <1>2, <2>2, <2>3 DEF DataInv, InFlightChecked, WriterTake
  <2> QED
    BY <1>2, <2>4 DEF DataInv, DownloadedOnDisk, LongPiecesNeverMarked, WriterTake
<1>3. ASSUME writing # NoMsg, NEW k \in Nat, disk' = Stored(writing, k)
      PROVE  disk \subseteq disk'
  <2>1. writing \in PieceMsgs /\ CheckPiece(writing)
    BY <1>1, <1>3 DEF DataInv, InFlightChecked, TorrentTypeOK
  <2> QED
    BY <1>3, <2>1 DEF CheckPiece, Stored
<1>4. CASE WriterStore
  <2>1. writing \in PieceMsgs /\ CheckPiece(writing)
    BY <1>1, <1>4 DEF WriterStore, DataInv, InFlightChecked, TorrentTypeOK
  <2>2. disk \subseteq disk'
    BY <1>3, <1>4, <2>1, CheckedIsWhole DEF WriterStore
  <2>3. \A u \in 0 .. LenOf(writing.piece) - 1 : << writing.piece, u >> \in disk'
    BY <1>4, <2>1, CheckedIsWhole DEF WriterStore, Stored
  <2>4. DownloadedOnDisk'
    BY <1>4, <2>2, <2>3 DEF DataInv, DownloadedOnDisk, WriterStore
  <2>5. LongPiecesNeverMarked'
    <3>1. ReplyUnits < PieceUnits => ~EndsPiece(writing)
      BY <2>1, CheckedIsWhole, TorrentAssumption
    <3> QED
      BY <1>4, <3>1 DEF DataInv, LongPiecesNeverMarked, WriterStore
  <2>6. InFlightChecked'
    BY <1>1, <1>4 DEF DataInv, InFlightChecked, WriterStore
  <2> QED
    BY <2>4, <2>5, <2>6
<1>5. CASE WriterFail
  <2>1. writing \in PieceMsgs /\ CheckPiece(writing)
    BY <1>1, <1>5 DEF WriterFail, DataInv, InFlightChecked, TorrentTypeOK
  <2>2. disk \subseteq disk'
    BY <1>3, <1>5, <2>1, CheckedIsWhole DEF WriterFail
  <2> QED
    BY <1>1, <1>5, <2>2
    DEF DataInv, InFlightChecked, DownloadedOnDisk, LongPiecesNeverMarked, WriterFail
<1> QED
  BY <1>1, <1>2, <1>4, <1>5 DEF Writer

LEMMA DataInductive == Spec => []DataInv
<1>1. Init => DataInv
  BY InitType, TorrentAssumption
  DEF Init, TorrentInit, DataInv, InFlightChecked, DownloadedOnDisk,
      LongPiecesNeverMarked
<1>2. DataInv /\ [Next]_vars => DataInv'
  <2> SUFFICES ASSUME DataInv, [Next]_vars PROVE DataInv'
    OBVIOUS
  <2>1. TypeOK'
    BY NextType DEF DataInv
  <2>2. ASSUME NEW p \in Peers, PeerStep(p)
        PROVE  (InFlightChecked /\ DownloadedOnDisk /\ LongPiecesNeverMarked)'
    BY <2>2, DataPeer
  <2>3. CASE WriterStep
    BY <2>1, <2>3, DataWriter DEF DataInv
  <2>4. CASE Cancel \/ UNCHANGED vars
    BY <2>1, <2>4, DataKept
    DEF Cancel, vars, peerVars, localVars, torrentVars, DataInv
  <2> QED
    BY <2>1, <2>2, <2>3, <2>4 DEF Next, DataInv
<1> QED
  BY <1>1, <1>2, PTL DEF Spec

\* Done counts only pieces whose every byte is on disk and right, whatever the
\* peers send and whichever writes fail.
THEOREM DownloadedIsOnDisk == Spec => []DownloadedOnDisk
BY DataInductive, PTL DEF DataInv

\* With replies shorter than a piece, so for every torrent whose pieces are
\* longer than a block, no piece is ever marked downloaded: Done never holds.
THEOREM LongPieces == Spec => []LongPiecesNeverMarked
BY DataInductive, PTL DEF DataInv

(***************************************************************************)
(* When a piece is marked.  A message that passed the check carries its    *)
(* whole piece, so a write that is cut short never reaches the last unit:  *)
(* that unit is on disk only if a whole store put it there, which marks    *)
(* the piece if it ends at PieceLength, and only then.                     *)
(***************************************************************************)
EndMarked ==
  \A i \in Pieces :
    LenOf(i) = PieceUnits /\ << i, PieceUnits - 1 >> \in disk => i \in downloaded

ShortLastUnmarked == LastUnits < PieceUnits => NumPieces - 1 \notin downloaded

\* What the disk and the marks can do in a step.
LEMMA MarkStep ==
  ASSUME DataInv, [Next]_vars
  PROVE  \/ UNCHANGED << disk, downloaded >>
         \/ /\ writing \in PieceMsgs /\ CheckPiece(writing)
            /\ WriterStore \/ WriterFail
<1>1. CASE UNCHANGED vars \/ Cancel
  BY <1>1 DEF vars, Cancel, torrentVars
<1>2. ASSUME NEW p \in Peers, PeerStep(p) PROVE UNCHANGED << disk, downloaded >>
  BY <1>2
  DEF PeerStep, Request, Receive, LoopExit, LoopTop, KeepAliveFails,
      UnchokeCancelled, NextBlock, PopFailed, NothingFailed, ClaimPiece,
      NothingToClaim, SendRequest, SendFails, ReadFails, ReceiveChoke,
      ReceiveHave, ReceiveBitfield, ReceiveOther, ReceivePiece, Deliver,
      torrentVars, writerVars
<1>3. CASE WriterTake
  BY <1>3 DEF WriterTake
<1>4. CASE WriterStore \/ WriterFail
  <2>1. writing # NoMsg
    BY <1>4 DEF WriterStore, WriterFail
  <2> QED
    BY <1>4, <2>1 DEF DataInv, TypeOK, TorrentTypeOK, InFlightChecked
<1> QED
  BY <1>1, <1>2, <1>3, <1>4 DEF Next, WriterStep, Writer

LEMMA MarksInductive == Spec => [](DataInv /\ EndMarked /\ ShortLastUnmarked)
<1>1. Init => EndMarked /\ ShortLastUnmarked
  BY DEF Init, TorrentInit, EndMarked, ShortLastUnmarked
<1>2. DataInv /\ EndMarked /\ ShortLastUnmarked /\ [Next]_vars
        => EndMarked' /\ ShortLastUnmarked'
  <2> SUFFICES ASSUME DataInv, EndMarked, ShortLastUnmarked, [Next]_vars
               PROVE  EndMarked' /\ ShortLastUnmarked'
    OBVIOUS
  <2>1. CASE UNCHANGED << disk, downloaded >>
    BY <2>1 DEF EndMarked, ShortLastUnmarked
  <2>2. ASSUME writing \in PieceMsgs, CheckPiece(writing)
        PROVE  /\ writing.piece \in Pieces /\ writing.sound
               /\ writing.first = 0 /\ writing.len = LenOf(writing.piece)
               /\ writing.len \in 1 .. PieceUnits
               /\ EndsPiece(writing) <=> LenOf(writing.piece) = PieceUnits
    <3>1. writing.piece \in Pieces
      BY <2>2 DEF PieceMsgs
    <3>2. LenOf(writing.piece) \in 1 .. PieceUnits
      BY <3>1, LenOfType
    <3> QED
      BY <2>2, <3>1, <3>2, CheckedFromStart, TorrentAssumption DEF CheckPiece, EndsPiece
  <2>3. ASSUME writing \in PieceMsgs, CheckPiece(writing), WriterStore
        PROVE  EndMarked' /\ ShortLastUnmarked'
    <3>1. disk' = disk \cup { << writing.piece, u >> : u \in 0 .. writing.len - 1 }
      BY <2>2, <2>3, TorrentAssumption DEF WriterStore, Stored
    <3>2. downloaded' = IF LenOf(writing.piece) = PieceUnits THEN downloaded \cup {writing.piece}
                                                             ELSE downloaded
      BY <2>2, <2>3 DEF WriterStore
    <3>3. EndMarked'
      BY <3>1, <3>2 DEF EndMarked
    <3>4. LastUnits < PieceUnits => LenOf(NumPieces - 1) # PieceUnits
      BY TorrentAssumption DEF LenOf
    <3>5. ShortLastUnmarked'
      BY <3>2, <3>4 DEF ShortLastUnmarked
    <3> QED
      BY <3>3, <3>5
  <2>4. ASSUME writing \in PieceMsgs, CheckPiece(writing), WriterFail
        PROVE  EndMarked' /\ ShortLastUnmarked'
    <3>1. PICK k \in 0 .. writing.len - 1 : disk' = Stored(writing, k)
      BY <2>4 DEF WriterFail
    <3>2. disk' = disk \cup { << writing.piece, u >> : u \in 0 .. k - 1 }
      BY <2>2, <2>4, <3>1, TorrentAssumption DEF Stored
    <3>3. downloaded' = downloaded
      BY <2>4 DEF WriterFail
    <3>4. ASSUME NEW i \in Pieces, << i, PieceUnits - 1 >> \in disk'
          PROVE  << i, PieceUnits - 1 >> \in disk
      BY <2>2, <2>4, <3>1, <3>2, <3>4, TorrentAssumption
    <3> QED
      BY <3>3, <3>4 DEF EndMarked, ShortLastUnmarked
  <2> QED
    BY <2>1, <2>3, <2>4, MarkStep
<1> QED
  BY <1>1, <1>2, DataInductive, PTL DEF Spec

\* Whatever writes fail on the way, a piece of full length that lies on disk in full
\* has been marked by the message that completed it.
THEOREM StoredIsMarked == Spec => []StoredPiecesMarked
<1>1. DataInv /\ EndMarked => StoredPiecesMarked
  <2> SUFFICES ASSUME EndMarked, NEW i \in Pieces \ downloaded, LenOf(i) = PieceUnits
               PROVE  \E u \in 0 .. LenOf(i) - 1 : << i, u >> \notin disk
    BY DEF StoredPiecesMarked
  <2>1. PieceUnits - 1 \in 0 .. LenOf(i) - 1
    BY TorrentAssumption
  <2> QED
    BY <2>1 DEF EndMarked
<1> QED
  BY <1>1, MarksInductive, PTL

\* A torrent whose length is no multiple of PieceLength is never complete for Done.
THEOREM ShortLastIncomplete == Spec => []ShortLastNeverComplete
<1>1. ShortLastUnmarked => ShortLastNeverComplete
  BY TorrentAssumption DEF ShortLastUnmarked, ShortLastNeverComplete, Complete, Pieces
<1> QED
  BY <1>1, MarksInductive, PTL

(***************************************************************************)
(* What is counted.  The message in the writer's hands is counted and not  *)
(* yet stored, so the units on disk are taken together with its own.       *)
(***************************************************************************)
InHand == IF writing = NoMsg THEN {}
          ELSE { << writing.piece, u >> : u \in 0 .. writing.len - 1 }

Units == Pieces \X (0 .. PieceUnits - 1)

Counted == MaxDownload >= NumPieces * PieceUnits => Cardinality(disk \cup InHand) <= download

LEMMA UnitsFinite ==
  /\ IsFiniteSet(Units) /\ Cardinality(Units) = NumPieces * PieceUnits
  /\ \A S \in SUBSET Units :
       IsFiniteSet(S) /\ Cardinality(S) \in Nat /\ Cardinality(S) <= NumPieces * PieceUnits
<1>1. IsFiniteSet(Pieces) /\ Cardinality(Pieces) = NumPieces
  BY FS_Interval, TorrentAssumption DEF Pieces
<1>2. IsFiniteSet(0 .. PieceUnits - 1) /\ Cardinality(0 .. PieceUnits - 1) = PieceUnits
  BY FS_Interval, TorrentAssumption
<1>3. IsFiniteSet(Units) /\ Cardinality(Units) = NumPieces * PieceUnits
  BY <1>1, <1>2, FS_Product DEF Units
<1> QED
  BY <1>3, FS_Subset, FS_CardinalityType

\* n units of one piece are n at most.
LEMMA RunCardinality ==
  ASSUME NEW i, NEW n \in Nat
  PROVE  LET U == { << i, u >> : u \in 0 .. n - 1 }
         IN  IsFiniteSet(U) /\ Cardinality(U) <= n
<1> DEFINE U == { << i, u >> : u \in 0 .. n - 1 }
           f == [u \in 0 .. n - 1 |-> << i, u >>]
<1>1. f \in Surjection(0 .. n - 1, U)
  BY DEF Surjection
<1>2. IsFiniteSet(0 .. n - 1) /\ Cardinality(0 .. n - 1) = n
  BY FS_Interval
<1> HIDE DEF U, f
<1>3. IsFiniteSet(U) /\ Cardinality(U) <= n
  BY <1>1, <1>2, FS_Surjection
<1> QED
  BY <1>3 DEF U

LEMMA Saturation ==
  \A c, d, e, n, t, m \in Nat :
    c <= d + n /\ d <= e /\ c <= t /\ t <= m => c <= IF e + n > m THEN m ELSE e + n
OBVIOUS

\* Taking a message counts at least the units it will put on disk.
LEMMA CountedTake ==
  ASSUME DataInv, Counted, WriterTake
  PROVE  Counted'
<1>1. pieceCh \in Seq(PieceMsgs) /\ Len(pieceCh) > 0 /\ TorrentTypeOK
  BY DEF DataInv, TypeOK, TorrentTypeOK, WriterTake
<1>2. /\ writing' \in PieceMsgs /\ writing' = Head(pieceCh)
      /\ CheckPiece(writing') /\ writing' # NoMsg
  BY <1>1, NoMsgAssumption DEF WriterTake, DataInv, InFlightChecked
<1> DEFINE U == { << writing'.piece, u >> : u \in 0 .. writing'.len - 1 }
<1>3. writing'.len \in 1 .. PieceUnits /\ writing'.piece \in Pieces
  BY <1>2 DEF PieceMsgs
<1>4. U \subseteq Units
  BY <1>3, TorrentAssumption DEF Units
<1>5. disk \subseteq Units /\ disk' = disk /\ InHand = {} /\ InHand' = U
  BY <1>1, <1>2 DEF TorrentTypeOK, WriterTake, InHand, Units
<1>6. IsFiniteSet(U) /\ Cardinality(U) <= writing'.len /\ Cardinality(U) \in Nat
  <2>1. writing'.len \in Nat
    BY <1>3, TorrentAssumption
  <2>2. IsFiniteSet(U) /\ Cardinality(U) <= writing'.len
    BY <2>1, RunCardinality
  <2> HIDE DEF U
  <2> QED
    BY <2>2, FS_CardinalityType
<1> HIDE DEF U
<1>7. IsFiniteSet(disk) /\ Cardinality(disk) \in Nat
  BY <1>5, UnitsFinite
<1>8. Cardinality(disk \cap U) \in Nat
  BY <1>7, FS_Intersection, FS_CardinalityType
<1>9. Cardinality(disk \cup U) <= Cardinality(disk) + writing'.len
  <2>1. Cardinality(disk \cup U) = Cardinality(disk) + Cardinality(U) - Cardinality(disk \cap U)
    BY <1>6, <1>7, FS_Union
  <2> QED
    BY <1>3, <1>6, <1>7, <1>8, <2>1, TorrentAssumption
<1>10. disk \cup U \in SUBSET Units
  BY <1>4, <1>5
<1>11. Cardinality(disk \cup U) \in Nat /\ Cardinality(disk \cup U) <= NumPieces * PieceUnits
  BY <1>10, UnitsFinite
<1>12. download' = IF download + writing'.len > MaxDownload THEN MaxDownload
                   ELSE download + writing'.len
  BY <1>2 DEF WriterTake, AddDownload
<1>13. SUFFICES ASSUME MaxDownload >= NumPieces * PieceUnits
                PROVE  Cardinality(disk \cup U) <= download'
  BY <1>5 DEF Counted
<1>14. Cardinality(disk) <= download
  <2>1. disk \cup InHand = disk
    BY <1>5
  <2> QED
    BY <1>13, <2>1 DEF Counted
<1>15. /\ download \in Nat /\ MaxDownload \in Nat /\ NumPieces * PieceUnits \in Nat
       /\ writing'.len \in Nat /\ NumPieces * PieceUnits <= MaxDownload
  BY <1>1, <1>3, <1>13, TorrentAssumption DEF TorrentTypeOK
<1>16. Cardinality(disk \cup U) <= IF download + writing'.len > MaxDownload THEN MaxDownload
                                   ELSE download + writing'.len
  BY <1>7, <1>9, <1>11, <1>14, <1>15, Saturation
<1> QED
  BY <1>12, <1>16

\* A store, whole or cut short, puts on disk nothing but what was in hand.
LEMMA CountedStore ==
  ASSUME DataInv, Counted, UNCHANGED download,
         (disk \cup InHand)' \subseteq disk \cup InHand
  PROVE  Counted'
<1>1. disk \cup InHand \in SUBSET Units
  <2>1. disk \subseteq Units /\ writing \in PieceMsgs \cup {NoMsg}
    BY DEF DataInv, TypeOK, TorrentTypeOK, Units
  <2>2. CASE writing = NoMsg
    BY <2>1, <2>2 DEF InHand
  <2>3. CASE writing \in PieceMsgs
    <3>1. writing.len \in 1 .. PieceUnits /\ writing.piece \in Pieces
      BY <2>3 DEF PieceMsgs
    <3>2. InHand \subseteq Units
      BY <3>1, TorrentAssumption DEF InHand, Units
    <3> QED
      BY <2>1, <3>2
  <2> QED
    BY <2>1, <2>2, <2>3
<1>2. IsFiniteSet(disk \cup InHand) /\ Cardinality(disk \cup InHand) \in Nat
  BY <1>1, UnitsFinite
<1>3. /\ Cardinality((disk \cup InHand)') <= Cardinality(disk \cup InHand)
      /\ Cardinality((disk \cup InHand)') \in Nat
  BY <1>2, FS_Subset, FS_CardinalityType
<1>4. download \in Nat
  BY TorrentAssumption DEF DataInv, TypeOK, TorrentTypeOK
<1>5. Cardinality((disk \cup InHand)') = Cardinality(disk' \cup InHand')
  OBVIOUS
<1> QED
  BY <1>2, <1>3, <1>4, <1>5 DEF Counted

LEMMA CountedWriter ==
  ASSUME DataInv, Counted, WriterStore \/ WriterFail
  PROVE  Counted'
<1>1. writing \in PieceMsgs /\ CheckPiece(writing) /\ writing # NoMsg /\ UNCHANGED download
  BY DEF DataInv, TypeOK, TorrentTypeOK, InFlightChecked, WriterStore, WriterFail
<1>2. writing.len \in 1 .. PieceUnits /\ writing.first = 0 /\ writing.sound
  BY <1>1 DEF PieceMsgs, CheckPiece
<1>3. PICK k \in 0 .. writing.len : disk' = Stored(writing, k)
  BY <1>2, TorrentAssumption DEF WriterStore, WriterFail
<1>4. disk' \subseteq disk \cup InHand
  BY <1>1, <1>2, <1>3, TorrentAssumption DEF Stored, InHand
<1>5. InHand' = {}
  BY DEF WriterStore, WriterFail, InHand
<1>6. (disk \cup InHand)' \subseteq disk \cup InHand
  BY <1>4, <1>5
<1> QED
  BY <1>1, <1>6, CountedStore

\* The statistics never show less than what has reached the disk, in whatever order
\* messages come and however often.
THEOREM StoredCounted == Spec => []StoredIsCounted
<1>1. Init => Counted
  BY FS_EmptySet DEF Init, TorrentInit, Counted, InHand
<1>2. DataInv /\ Counted /\ [Next]_vars => Counted'
  <2> SUFFICES ASSUME DataInv, Counted, [Next]_vars PROVE Counted'
    OBVIOUS
  <2>1. ASSUME UNCHANGED << disk, writing, download >> PROVE Counted'
    BY <2>1 DEF Counted, InHand
  <2>2. CASE UNCHANGED vars \/ Cancel
    BY <2>1, <2>2 DEF vars, Cancel, torrentVars
  <2>3. ASSUME NEW p \in Peers, PeerStep(p) PROVE UNCHANGED << disk, writing, download >>
    BY <2>3
    DEF PeerStep, Request, Receive, LoopExit, LoopTop, KeepAliveFails,
        UnchokeCancelled, NextBlock, PopFailed, NothingFailed, ClaimPiece,
        NothingToClaim, SendRequest, SendFails, ReadFails, ReceiveChoke,
        ReceiveHave, ReceiveBitfield, ReceiveOther, ReceivePiece, Deliver,
        torrentVars, writerVars
  <2>4. CASE WriterStep
    BY <2>4, CountedTake, CountedWriter DEF WriterStep, Writer
  <2> QED
    BY <2>1, <2>2, <2>3, <2>4 DEF Next
<1>3. DataInv /\ Counted => StoredIsCounted
  <2> SUFFICES ASSUME DataInv, Counted, MaxDownload >= NumPieces * PieceUnits
               PROVE  Cardinality(disk) <= download
    BY DEF StoredIsCounted
  <2>1. disk \cup InHand \in SUBSET Units /\ disk \in SUBSET (disk \cup InHand)
    <3>1. writing \in PieceMsgs => InHand \subseteq Units
      BY TorrentAssumption DEF PieceMsgs, InHand, Units
    <3> QED
      BY <3>1 DEF DataInv, TypeOK, TorrentTypeOK, InHand, Units
  <2>2. /\ Cardinality(disk) <= Cardinality(disk \cup InHand)
        /\ Cardinality(disk) \in Nat /\ Cardinality(disk \cup InHand) \in Nat
    <3>1. disk \in SUBSET Units
      BY <2>1
    <3> QED
      BY <2>1, <3>1, UnitsFinite, FS_Subset
  <2>3. download \in Nat
    BY TorrentAssumption DEF DataInv, TypeOK, TorrentTypeOK
  <2> QED
    BY <2>2, <2>3 DEF Counted
<1> QED
  BY <1>1, <1>2, <1>3, DataInductive, PTL DEF Spec

(***************************************************************************)
(* The channel and WritePiece implement PieceStore.  All that is under way *)
(* passed the check (InFlightChecked), so a message stands for its piece.  *)
(***************************************************************************)
LEMMA PiecesOfType ==
  ASSUME NEW s \in Seq(PieceMsgs)
  PROVE  /\ PiecesOf(s) \in Seq(Pieces)
         /\ Len(PiecesOf(s)) = Len(s) /\ DOMAIN PiecesOf(s) = 1 .. Len(s)
<1>1. Len(s) \in Nat /\ DOMAIN s = 1 .. Len(s) /\ \A k \in 1 .. Len(s) : s[k].piece \in Pieces
  BY DEF PieceMsgs
<1> QED
  BY <1>1 DEF PiecesOf

LEMMA PiecesJoined ==
  ASSUME NEW s \in Seq(PieceMsgs), NEW m \in PieceMsgs
  PROVE  PiecesOf(Append(s, m)) = Append(PiecesOf(s), m.piece)
<1> DEFINE t == Append(s, m)
           n == Len(s)
<1>1. t \in Seq(PieceMsgs) /\ Len(t) = n + 1 /\ n \in Nat
  OBVIOUS
<1>2. t[n + 1] = m /\ \A k \in 1 .. n : t[k] = s[k]
  OBVIOUS
<1>3. /\ PiecesOf(s) \in Seq(Pieces) /\ Len(PiecesOf(s)) = n
      /\ PiecesOf(t) \in Seq(Pieces) /\ Len(PiecesOf(t)) = n + 1
      /\ m.piece \in Pieces
  BY <1>1, PiecesOfType DEF PieceMsgs
<1>4. \A k \in 1 .. n + 1 : PiecesOf(t)[k] = Append(PiecesOf(s), m.piece)[k]
  <2>1. DOMAIN s = 1 .. n /\ DOMAIN t = 1 .. n + 1
    BY <1>1
  <2>2. \A k \in 1 .. n : PiecesOf(t)[k] = s[k].piece /\ PiecesOf(s)[k] = s[k].piece
    BY <1>1, <1>2, <2>1 DEF PiecesOf
  <2>3. PiecesOf(t)[n + 1] = m.piece
    BY <1>1, <1>2, <2>1 DEF PiecesOf
  <2> HIDE DEF t, n
  <2> QED
    BY <1>1, <1>3, <2>2, <2>3
<1> HIDE DEF t
<1> QED
  BY <1>1, <1>3, <1>4 DEF t

LEMMA PiecesTaken ==
  ASSUME NEW s \in Seq(PieceMsgs), s # << >>
  PROVE  /\ PiecesOf(s) # << >> /\ Head(PiecesOf(s)) = Head(s).piece
         /\ PiecesOf(Tail(s)) = Tail(PiecesOf(s))
<1> DEFINE t == Tail(s)
           n == Len(s)
<1>1. /\ n \in Nat /\ n > 0 /\ DOMAIN s = 1 .. n
      /\ t \in Seq(PieceMsgs) /\ Len(t) = n - 1 /\ DOMAIN t = 1 .. n - 1
      /\ \A k \in 1 .. n - 1 : t[k] = s[k + 1]
  OBVIOUS
<1>2. /\ PiecesOf(s) \in Seq(Pieces) /\ Len(PiecesOf(s)) = n
      /\ PiecesOf(t) \in Seq(Pieces) /\ Len(PiecesOf(t)) = n - 1
  BY <1>1, PiecesOfType
<1>3. PiecesOf(s)[1] = s[1].piece
  BY <1>1 DEF PiecesOf
<1>4. \A k \in 1 .. n - 1 : PiecesOf(t)[k] = PiecesOf(s)[k + 1]
  BY <1>1 DEF PiecesOf
<1> HIDE DEF t, n
<1>5. PiecesOf(s) # << >> /\ Head(PiecesOf(s)) = Head(s).piece
  BY <1>1, <1>2, <1>3
<1>6. \A k \in 1 .. n - 1 : PiecesOf(t)[k] = Tail(PiecesOf(s))[k]
  BY <1>1, <1>2, <1>4
<1>7. PiecesOf(t) = Tail(PiecesOf(s))
  BY <1>1, <1>2, <1>6
<1> QED
  BY <1>5, <1>7 DEF t

\* A peer leaves all as it is, or sends a checked message on the channel.
LEMMA StorePeer ==
  ASSUME DataInv, NEW p \in Peers, PeerStep(p)
  PROVE  [Store!Next]_Store!vars
<1>1. UNCHANGED << writing, downloaded, disk, download >>
  BY DEF PeerStep, Request, Receive, LoopExit, LoopTop, KeepAliveFails,
         UnchokeCancelled, NextBlock, PopFailed, NothingFailed, ClaimPiece,
         NothingToClaim, SendRequest, SendFails, ReadFails, ReceiveChoke,
         ReceiveHave, ReceiveBitfield, ReceiveOther, ReceivePiece, Deliver,
         torrentVars, writerVars
<1>2. UNCHANGED pieceCh \/ Deliver(p)
  BY DEF PeerStep, Request, Receive, LoopExit, LoopTop, KeepAliveFails,
         UnchokeCancelled, NextBlock, PopFailed, NothingFailed, ClaimPiece,
         NothingToClaim, SendRequest, SendFails, ReadFails, ReceiveChoke,
         ReceiveHave, ReceiveBitfield, ReceiveOther, ReceivePiece, localVars,
         torrentVars, writerVars
<1>3. CASE UNCHANGED pieceCh
  BY <1>1, <1>3 DEF Store!vars, PiecesOf
<1>4. CASE Deliver(p)
  <2> DEFINE m == delivering[p]
  <2>1. m \in PieceMsgs /\ pieceCh \in Seq(PieceMsgs)
    BY <1>4 DEF Deliver, DataInv, TypeOK, PlaceOK, PeerTypeOK, TorrentTypeOK
  <2>2. Len(pieceCh) < ChanCap /\ pieceCh' = Append(pieceCh, m)
    BY <1>4 DEF Deliver
  <2>3. m.piece \in Pieces
    BY <2>1 DEF PieceMsgs
  <2> HIDE DEF m
  <2>4. /\ Len(PiecesOf(pieceCh)) < ChanCap
        /\ PiecesOf(pieceCh)' = Append(PiecesOf(pieceCh), m.piece)
    BY <2>1, <2>2, PiecesOfType, PiecesJoined
  <2>5. Store!Join(m.piece)
    BY <1>1, <2>4 DEF Store!Join
  <2> QED
    BY <2>3, <2>5 DEF Store!Next
<1> QED
  BY <1>2, <1>3, <1>4

\* The writer takes, stores or cuts short what the channel gave it.
LEMMA StoreWriter ==
  ASSUME DataInv, WriterStep
  PROVE  Store!Next
<1>1. TorrentTypeOK /\ Writer
  BY DEF DataInv, TypeOK, WriterStep
<1>2. CASE WriterTake
  <2> DEFINE m == Head(pieceCh)
  <2>1. pieceCh \in Seq(PieceMsgs) /\ pieceCh # << >> /\ m \in PieceMsgs
    BY <1>1, <1>2 DEF WriterTake, TorrentTypeOK
  <2>2. m.piece \in Pieces /\ m.len = LenOf(m.piece)
    <3>1. CheckPiece(m)
      BY <2>1 DEF DataInv, InFlightChecked
    <3> QED
      BY <2>1, <3>1 DEF PieceMsgs, CheckPiece
  <2>3. writing = NoMsg /\ writing' = m /\ m # NoMsg /\ download' = AddDownload(m.len)
    BY <1>2, <2>1, NoMsgAssumption DEF WriterTake
  <2>4. /\ PiecesOf(pieceCh) # << >> /\ m.piece = Head(PiecesOf(pieceCh))
        /\ PiecesOf(pieceCh)' = Tail(PiecesOf(pieceCh))
    BY <1>2, <2>1, PiecesTaken DEF WriterTake
  <2> HIDE DEF m
  <2>5. Store!Take(m.piece)
    BY <1>2, <2>2, <2>3, <2>4 DEF WriterTake, Store!Take, Store!Capped, AddDownload
  <2> QED
    BY <2>2, <2>5 DEF Store!Next
<1>3. ASSUME writing # NoMsg
      PROVE  /\ writing \in PieceMsgs /\ writing.piece \in Pieces
             /\ writing.len = LenOf(writing.piece)
             /\ LenOf(writing.piece) \in Nat
             /\ EndsPiece(writing) <=> LenOf(writing.piece) = PieceUnits
             /\ \A k \in Nat : Stored(writing, k) = disk \cup Store!FirstUnits(writing.piece, k)
  <2>1. writing \in PieceMsgs /\ CheckPiece(writing)
    BY <1>1, <1>3 DEF DataInv, InFlightChecked, TorrentTypeOK
  <2>2. writing.piece \in Pieces /\ writing.first = 0 /\ writing.len = LenOf(writing.piece)
    BY <2>1 DEF PieceMsgs, CheckPiece
  <2>3. LenOf(writing.piece) \in Nat
    BY <2>2, LenOfType, TorrentAssumption
  <2>4. \A k \in Nat : Stored(writing, k) = disk \cup Store!FirstUnits(writing.piece, k)
    BY <2>1, <2>2 DEF Stored, CheckPiece, Store!FirstUnits
  <2> QED
    BY <2>1, <2>2, <2>3, <2>4 DEF EndsPiece
<1>4. CASE WriterStore
  <2>1. Store!StoreWhole(writing.piece)
    BY <1>3, <1>4 DEF WriterStore, Store!StoreWhole
  <2> QED
    BY <1>3, <1>4, <2>1 DEF WriterStore, Store!Next
<1>5. CASE WriterFail
  <2>1. PICK k \in 0 .. writing.len - 1 : disk' = Stored(writing, k)
    BY <1>5 DEF WriterFail
  <2>2. k \in Nat /\ k < LenOf(writing.piece) /\ k \in 0 .. LenOf(writing.piece) - 1
    BY <1>3, <1>5 DEF WriterFail
  <2>3. Store!StorePart(writing.piece, k)
    BY <1>3, <1>5, <2>1, <2>2 DEF WriterFail, Store!StorePart
  <2> QED
    BY <1>3, <1>5, <2>2, <2>3 DEF WriterFail, Store!Next
<1> QED
  BY <1>1, <1>2, <1>4, <1>5 DEF Writer

\* For any peers, lengths, channel and errors: the way from a checked message to the files
\* is the one of PieceStore, whole pieces counted, stored and marked in the order they came.
THEOREM PiecesAreStored == Spec => ImplementsPieceStore
<1>1. Init => Store!Init
  BY DEF Init, TorrentInit, Store!Init, PiecesOf
<1>2. DataInv /\ [Next]_vars => [Store!Next]_Store!vars
  <2> SUFFICES ASSUME DataInv, [Next]_vars PROVE [Store!Next]_Store!vars
    OBVIOUS
  <2>1. ASSUME NEW p \in Peers, PeerStep(p) PROVE [Store!Next]_Store!vars
    BY <2>1, StorePeer
  <2>2. CASE WriterStep
    BY <2>2, StoreWriter
  <2>3. CASE Cancel \/ UNCHANGED vars
    BY <2>3 DEF Cancel, vars, torrentVars, Store!vars, PiecesOf
  <2> QED
    BY <2>1, <2>2, <2>3 DEF Next
<1> QED
  BY <1>1, <1>2, DataInductive, PTL DEF Spec, Store!Spec, ImplementsPieceStore

(***************************************************************************)
(* Where the requests are.  Four kinds of step matter: a peer that owns    *)
(* nothing makes a request or takes the newest failed one, a peer gives    *)
(* back the one it owns, or nothing changes hands.                         *)
(***************************************************************************)
RequestInv == TypeOK /\ RequestsInRound /\ SingleHolder /\ NoRequestForgotten

Placed == RequestsInRound /\ SingleHolder /\ NoRequestForgotten

\* What an owner or a slot holds is a request.
LEMMA HeldType ==
  ASSUME TypeOK
  PROVE  /\ \A r \in Peers : Owns(r) => req[r] \in Requests
         /\ \A q \in Queues : /\ failed[q] \in Seq(Requests)
                              /\ \A k \in DOMAIN failed[q] : failed[q][k] \in Requests
BY DEF TypeOK, PeerTypeOK, PlaceOK, Owns

\* The kinds of step.
OthersKeep(p) == \A r \in Peers \ {p} : Owns(r)' <=> Owns(r)

Keeps ==
  /\ UNCHANGED << failed, made, requested >>
  /\ \A r \in Peers : /\ Owns(r)' <=> Owns(r)
                      /\ Owns(r) => req'[r] = req[r]

MakesOne(p, x) ==
  /\ ~Owns(p) /\ Owns(p)' /\ OthersKeep(p)
  /\ x.by = p /\ x.n = made[p]
  /\ req' = [req EXCEPT ![p] = x]
  /\ made' = [made EXCEPT ![p] = @ + 1]
  /\ UNCHANGED failed
  /\ \/ UNCHANGED requested
     \/ x.piece \notin requested /\ requested' = requested \cup {x.piece}

TakesOne(p) ==
  /\ ~Owns(p) /\ Owns(p)' /\ OthersKeep(p)
  /\ FailedPieceMessage(QueueOf[p])
  /\ req' = [req EXCEPT ![p] = NewestFailed(QueueOf[p])]
  /\ UNCHANGED << made, requested >>

ReturnsOne(p) ==
  /\ Owns(p) /\ ~Owns(p)' /\ OthersKeep(p)
  /\ RequestFailed(QueueOf[p], req[p])
  /\ UNCHANGED << made, req, requested >>

LEMMA NothingChangesHands ==
  ASSUME RequestInv, Keeps
  PROVE  Placed'
<1> USE DEF Keeps
<1>1. RequestsInRound'
  BY DEF RequestInv, RequestsInRound
<1>2. SingleHolder'
  BY DEF RequestInv, SingleHolder, OneOwner, OneSlot, OwnedOrQueued
<1>3. NoRequestForgotten'
  BY DEF RequestInv, NoRequestForgotten
<1> QED
  BY <1>1, <1>2, <1>3 DEF Placed

LEMMA OneIsMade ==
  ASSUME RequestInv, NEW p \in Peers, NEW x \in Requests, MakesOne(p, x)
  PROVE  Placed'
<1> USE DEF Id, MakesOne, OthersKeep
<1>1. /\ req \in [Peers -> Requests \cup {NoReq}] /\ made \in [Peers -> Nat]
      /\ req'[p] = x /\ \A r \in Peers \ {p} : req'[r] = req[r]
      /\ \A r \in Peers : made'[r] = IF r = p THEN made[p] + 1 ELSE made[r]
  BY DEF RequestInv, TypeOK, PeerTypeOK
<1>2. \A r \in Peers : Owns(r) => req[r].by \in Peers /\ req[r].n \in Nat
  BY HeldType DEF RequestInv, Requests
<1>3. \A q \in Queues : \A k \in DOMAIN failed[q] :
        failed[q][k].by \in Peers /\ failed[q][k].n \in Nat
  BY HeldType DEF RequestInv, Requests
<1>4. RequestsInRound'
  BY <1>1, <1>2, <1>3 DEF RequestInv, RequestsInRound
<1>5. \A r \in Peers : Owns(r) => Id(req[r]) # Id(x)
  BY <1>1, <1>2 DEF RequestInv, RequestsInRound
<1>6. \A q \in Queues : \A k \in DOMAIN failed[q] : Id(failed[q][k]) # Id(x)
  BY <1>1, <1>3 DEF RequestInv, RequestsInRound
<1>7. OneOwner'
  BY <1>1, <1>5 DEF RequestInv, SingleHolder, OneOwner
<1>8. OneSlot' /\ OwnedOrQueued'
  BY <1>1, <1>6 DEF RequestInv, SingleHolder, OneSlot, OwnedOrQueued
<1>9. NoRequestForgotten'
  <2> SUFFICES ASSUME NEW b \in Peers, NEW n \in 0 .. made'[b] - 1
               PROVE  \/ \E r \in Peers : Owns(r)' /\ Id(req'[r]) = << b, n >>
                      \/ \E k \in DOMAIN failed[QueueOf[b]] :
                           Id(failed[QueueOf[b]][k]) = << b, n >>
    BY DEF NoRequestForgotten
  <2>1. CASE b = p /\ n = made[p]
    BY <1>1, <2>1
  <2>2. CASE n \in 0 .. made[b] - 1
    <3>1. CASE \E r \in Peers : Owns(r) /\ Id(req[r]) = << b, n >>
      BY <1>1, <3>1
    <3> QED
      BY <2>2, <3>1 DEF RequestInv, NoRequestForgotten
  <2> QED
    BY <1>1, <2>1, <2>2
<1> QED
  BY <1>4, <1>7, <1>8, <1>9 DEF Placed, SingleHolder

LEMMA OneIsTaken ==
  ASSUME RequestInv, NEW p \in Peers, TakesOne(p)
  PROVE  Placed'
<1> USE DEF TakesOne, OthersKeep
<1> DEFINE q == QueueOf[p]
           s == failed[q]
           x == s[Len(s)]
<1>1. q \in Queues
  BY PeerAssumption
<1>2. /\ s \in Seq(Requests) /\ Len(s) \in Nat /\ Len(s) > 0
      /\ DOMAIN s = 1 .. Len(s) /\ Len(s) \in DOMAIN s
  BY <1>1, HeldType DEF RequestInv, FailedPieceMessage, QueueEmptied
<1>3. /\ failed'[q] = SubSeq(s, 1, Len(s) - 1)
      /\ \A t \in Queues \ {q} : failed'[t] = failed[t]
  BY <1>1 DEF RequestInv, TypeOK, FailedPieceMessage
<1>4. /\ DOMAIN failed'[q] = 1 .. Len(s) - 1
      /\ \A k \in DOMAIN failed'[q] : failed'[q][k] = s[k]
  BY <1>2, <1>3
<1>5. \A t \in Queues : \A k \in DOMAIN failed'[t] :
        /\ k \in DOMAIN failed[t] /\ failed'[t][k] = failed[t][k]
        /\ ~(t = q /\ k = Len(s))
  BY <1>2, <1>3, <1>4
<1>6. \A t \in Queues : \A k \in DOMAIN failed[t] :
        k \in DOMAIN failed'[t] \/ (t = q /\ k = Len(s))
  BY <1>2, <1>3, <1>4
<1>7. req'[p] = x /\ \A r \in Peers \ {p} : req'[r] = req[r]
  BY DEF RequestInv, TypeOK, PeerTypeOK, NewestFailed
<1> HIDE DEF q, s, x
<1>8. x = failed[q][Len(s)] /\ Len(s) \in DOMAIN failed[q] /\ q = QueueOf[p]
  BY <1>2 DEF q, s, x
<1>9. RequestsInRound'
  BY <1>1, <1>5, <1>7, <1>8 DEF RequestInv, RequestsInRound
<1>10. OneOwner'
  BY <1>1, <1>7, <1>8 DEF RequestInv, SingleHolder, OneOwner, OwnedOrQueued
<1>11. OneSlot'
  BY <1>5 DEF RequestInv, SingleHolder, OneSlot
<1>12. OwnedOrQueued'
  BY <1>1, <1>5, <1>7, <1>8 DEF RequestInv, SingleHolder, OneSlot, OwnedOrQueued
<1>13. NoRequestForgotten'
  <2> SUFFICES ASSUME NEW b \in Peers, NEW n \in 0 .. made[b] - 1
               PROVE  \/ \E r \in Peers : Owns(r)' /\ Id(req'[r]) = << b, n >>
                      \/ \E k \in DOMAIN failed'[QueueOf[b]] :
                           Id(failed'[QueueOf[b]][k]) = << b, n >>
    BY DEF NoRequestForgotten
  <2>1. CASE \E r \in Peers : Owns(r) /\ Id(req[r]) = << b, n >>
    BY <1>7, <2>1
  <2>2. ASSUME NEW k \in DOMAIN failed[QueueOf[b]],
               Id(failed[QueueOf[b]][k]) = << b, n >>
        PROVE  \/ \E r \in Peers : Owns(r)' /\ Id(req'[r]) = << b, n >>
               \/ \E j \in DOMAIN failed'[QueueOf[b]] :
                    Id(failed'[QueueOf[b]][j]) = << b, n >>
    <3>1. QueueOf[b] \in Queues
      BY PeerAssumption
    <3> QED
      BY <1>5, <1>6, <1>7, <1>8, <2>2, <3>1
  <2> QED
    BY <2>1, <2>2 DEF RequestInv, NoRequestForgotten
<1> QED
  BY <1>9, <1>10, <1>11, <1>12, <1>13 DEF Placed, SingleHolder

LEMMA OneIsReturned ==
  ASSUME RequestInv, NEW p \in Peers, ReturnsOne(p)
  PROVE  Placed'
<1> USE DEF ReturnsOne, OthersKeep
<1> DEFINE q == QueueOf[p]
           s == failed[q]
           x == req[p]
           top == Len(s) + 1
<1>1. q \in Queues /\ x \in Requests
  BY PeerAssumption, HeldType DEF RequestInv
<1>2. s \in Seq(Requests) /\ Len(s) \in Nat /\ DOMAIN s = 1 .. Len(s)
  BY <1>1, HeldType DEF RequestInv
<1>3. /\ failed'[q] = Append(s, x)
      /\ \A t \in Queues \ {q} : failed'[t] = failed[t]
  BY <1>1 DEF RequestInv, TypeOK, RequestFailed
<1>4. /\ DOMAIN failed'[q] = 1 .. top /\ failed'[q][top] = x
      /\ \A k \in DOMAIN s : k # top /\ k \in 1 .. top /\ failed'[q][k] = s[k]
  BY <1>1, <1>2, <1>3
<1>5. \A t \in Queues : \A k \in DOMAIN failed'[t] :
        \/ k \in DOMAIN failed[t] /\ failed'[t][k] = failed[t][k]
        \/ t = q /\ k = top /\ failed'[t][k] = x
  BY <1>2, <1>3, <1>4
<1>6. \A t \in Queues : \A k \in DOMAIN failed[t] :
        k \in DOMAIN failed'[t] /\ failed'[t][k] = failed[t][k]
  BY <1>2, <1>3, <1>4
<1>7. top \in DOMAIN failed'[q] /\ failed'[q][top] = x
  BY <1>2, <1>4
<1> HIDE DEF s, top
<1>8. RequestsInRound'
  BY <1>5 DEF RequestInv, RequestsInRound
<1>9. OneOwner'
  BY DEF RequestInv, SingleHolder, OneOwner
<1>10. OneSlot'
  BY <1>5 DEF RequestInv, SingleHolder, OneSlot, OwnedOrQueued
<1>11. OwnedOrQueued'
  BY <1>5 DEF RequestInv, SingleHolder, OneOwner, OwnedOrQueued
<1>12. NoRequestForgotten'
  <2> SUFFICES ASSUME NEW b \in Peers, NEW n \in 0 .. made[b] - 1
               PROVE  \/ \E r \in Peers : Owns(r)' /\ Id(req[r]) = << b, n >>
                      \/ \E k \in DOMAIN failed'[QueueOf[b]] :
                           Id(failed'[QueueOf[b]][k]) = << b, n >>
    BY DEF NoRequestForgotten
  <2>1. QueueOf[b] \in Queues
    BY PeerAssumption
  <2>2. CASE \E k \in DOMAIN failed[QueueOf[b]] : Id(failed[QueueOf[b]][k]) = << b, n >>
    BY <1>6, <2>1, <2>2
  <2>3. CASE Id(x) = << b, n >>
    <3>1. x.by = b
      BY <2>3 DEF Id
    <3>2. QueueOf[b] = q
      BY <3>1 DEF RequestInv, RequestsInRound
    <3> QED
      BY <1>7, <2>3, <3>2
  <2>4. CASE \E r \in Peers \ {p} : Owns(r) /\ Id(req[r]) = << b, n >>
    BY <2>4
  <2> QED
    BY <2>2, <2>3, <2>4 DEF RequestInv, NoRequestForgotten
<1> QED
  BY <1>8, <1>9, <1>10, <1>11, <1>12 DEF Placed, SingleHolder

LEMMA StepKinds ==
  ASSUME TypeOK, NEW p \in Peers, PeerStep(p)
  PROVE  \/ \E x \in Requests : MakesOne(p, x)
         \/ TakesOne(p) \/ ReturnsOne(p) \/ Keeps
<1>1. /\ pc \in [Peers -> Stages] /\ sent \in [Peers -> BOOLEAN]
      /\ \A r \in Peers : pc[r] \in {"request", "claim", "write"} => ~sent[r]
  BY DEF TypeOK, PeerTypeOK, PlaceOK
<1>2. CASE NextBlock(p)
  <2>1. pieceIdx[p] \in Pieces /\ blockIdx[p] \in Nat /\ made[p] \in Nat
    BY DEF TypeOK, PeerTypeOK
  <2> DEFINE x == [by |-> p, n |-> made[p], piece |-> pieceIdx[p], block |-> blockIdx[p]]
  <2>2. x \in Requests /\ x.by = p /\ x.n = made[p]
    BY <2>1, MadeIsRequest
  <2>3. /\ req' = [req EXCEPT ![p] = x] /\ made' = [made EXCEPT ![p] = @ + 1]
        /\ UNCHANGED << failed, requested >>
    BY <1>2 DEF NextBlock, MakeRequest, torrentVars
  <2>4. ~Owns(p) /\ Owns(p)' /\ OthersKeep(p)
    BY <1>1, <1>2 DEF NextBlock, Goto, Owns, OthersKeep
  <2>5. MakesOne(p, x)
    BY <2>2, <2>3, <2>4 DEF MakesOne
  <2> QED
    BY <2>2, <2>5
<1>3. CASE ClaimPiece(p)
  <2>1. PICK i \in Pieces : Claim(bitset[p], i) /\ MakeRequest(p, i, 0)
    BY <1>3 DEF ClaimPiece
  <2>2. made[p] \in Nat
    BY DEF TypeOK, PeerTypeOK
  <2> DEFINE x == [by |-> p, n |-> made[p], piece |-> i, block |-> 0]
  <2>3. x \in Requests /\ x.by = p /\ x.n = made[p] /\ x.piece = i
    BY <2>1, <2>2, MadeIsRequest
  <2>4. /\ req' = [req EXCEPT ![p] = x] /\ made' = [made EXCEPT ![p] = @ + 1]
        /\ UNCHANGED failed
    BY <1>3, <2>1 DEF ClaimPiece, MakeRequest
  <2>5. ~Owns(p) /\ Owns(p)' /\ OthersKeep(p)
    BY <1>1, <1>3 DEF ClaimPiece, Goto, Owns, OthersKeep
  <2>6. i \notin requested /\ requested' = requested \cup {i}
    BY <2>1 DEF Claim, Claimable
  <2>7. MakesOne(p, x)
    BY <2>3, <2>4, <2>5, <2>6 DEF MakesOne
  <2> QED
    BY <2>3, <2>7
<1>4. CASE PopFailed(p)
  <2>1. ~Owns(p) /\ Owns(p)' /\ OthersKeep(p)
    BY <1>1, <1>4 DEF PopFailed, Goto, Owns, OthersKeep
  <2>2. TakesOne(p)
    BY <1>4, <2>1 DEF PopFailed, TakesOne, torrentVars
  <2> QED BY <2>2
<1>5. CASE SendFails(p) \/ (ReadFails(p) /\ sent[p])
  <2>1. Owns(p) /\ ~Owns(p)' /\ OthersKeep(p)
    BY <1>1, <1>5 DEF SendFails, ReadFails, localVars, Goto, Owns, OthersKeep
  <2>2. UNCHANGED << made, req, requested >> /\ RequestFailed(QueueOf[p], req[p])
    BY <1>5 DEF SendFails, ReadFails, localVars, torrentVars
  <2>3. ReturnsOne(p)
    BY <2>1, <2>2 DEF ReturnsOne
  <2> QED BY <2>3
<1>6. CASE NothingToClaim(p)
  <2>1. UNCHANGED << failed, made, requested >>
    BY <1>6 DEF NothingToClaim, torrentVars
  <2>2. ~Owns(p) /\ \A r \in Peers : /\ Owns(r)' <=> Owns(r)
                                     /\ Owns(r) => req'[r] = req[r]
    BY <1>1, <1>6 DEF NothingToClaim, Goto, Owns, TypeOK, PeerTypeOK
  <2> QED
    BY <2>1, <2>2 DEF Keeps
<1>7. CASE SendRequest(p) \/ (ReadFails(p) /\ ~sent[p])
  <2>1. UNCHANGED << failed, made, req, requested >>
    BY <1>7 DEF SendRequest, ReadFails, torrentVars
  <2>2. \A r \in Peers : Owns(r)' <=> Owns(r)
    BY <1>1, <1>7 DEF SendRequest, ReadFails, Goto, Owns
  <2> QED
    BY <2>1, <2>2 DEF Keeps
<1>8. CASE \/ LoopExit(p) \/ LoopTop(p) \/ KeepAliveFails(p) \/ UnchokeCancelled(p)
           \/ NothingFailed(p) \/ Receive(p) \/ Deliver(p)
  <2>1. UNCHANGED << failed, made, req, sent, requested >>
    BY <1>8 DEF LoopExit, LoopTop, KeepAliveFails, UnchokeCancelled, NothingFailed,
                Receive, ReceiveChoke, ReceiveHave, ReceiveBitfield, ReceiveOther,
                ReceivePiece, Deliver, localVars, torrentVars
  <2>2. pc[p] # "write" /\ \E s \in Stages \ {"write"} : pc' = [pc EXCEPT ![p] = s]
    BY <1>8 DEF LoopExit, LoopTop, KeepAliveFails, UnchokeCancelled, NothingFailed,
                Receive, ReceiveChoke, ReceiveHave, ReceiveBitfield, ReceiveOther,
                ReceivePiece, Deliver, Reading, Handled, Stage, Goto, Stages
  <2>3. \A r \in Peers : Owns(r)' <=> Owns(r)
    BY <1>1, <2>1, <2>2 DEF Owns
  <2> QED
    BY <2>1, <2>3 DEF Keeps
<1> QED
  BY <1>2, <1>3, <1>4, <1>5, <1>6, <1>7, <1>8 DEF PeerStep, Request

\* The writer leaves the claims alone, the interrupt everything.
LEMMA OtherStep ==
  ASSUME WriterStep \/ Cancel \/ UNCHANGED vars
  PROVE  Keeps
<1>1. UNCHANGED << failed, made, req, sent, pc, requested >>
  BY DEF WriterStep, Writer, WriterTake, WriterStore, WriterFail, Cancel, vars, peerVars,
         localVars, torrentVars
<1> QED
  BY <1>1 DEF Keeps, Owns

LEMMA RequestInductive == Spec => []RequestInv
<1>1. Init => RequestInv
  BY InitType
  DEF Init, QueueInit, RequestInv, RequestsInRound, SingleHolder, OneOwner, OneSlot,
      OwnedOrQueued, NoRequestForgotten, Owns
<1>2. RequestInv /\ [Next]_vars => RequestInv'
  <2> SUFFICES ASSUME RequestInv, [Next]_vars PROVE RequestInv'
    OBVIOUS
  <2>1. TypeOK'
    BY NextType DEF RequestInv
  <2>2. ASSUME NEW p \in Peers, PeerStep(p) PROVE Placed'
    <3>1. TypeOK
      BY DEF RequestInv
    <3> QED
      BY <2>2, <3>1, StepKinds, OneIsMade, OneIsTaken, OneIsReturned, NothingChangesHands
  <2>3. ASSUME WriterStep \/ Cancel \/ UNCHANGED vars PROVE Placed'
    BY <2>3, OtherStep, NothingChangesHands
  <2>4. Placed'
    BY <2>2, <2>3 DEF Next
  <2> QED
    BY <2>1, <2>4 DEF RequestInv, Placed
<1> QED
  BY <1>1, <1>2, PTL DEF Spec

\* No two peers ever hold the same request, and none is both queued and held.
THEOREM RequestHasOneHolder == Spec => []SingleHolder
BY RequestInductive, PTL DEF RequestInv

\* No path through Run loses a request while its peer is running.
THEOREM RequestNeverForgotten == Spec => []NoRequestForgotten
BY RequestInductive, PTL DEF RequestInv

(***************************************************************************)
(* The kinds of step are those of RequestPool: as no request is in two     *)
(* slots or in a slot and a hand, what is taken off a stack is gone from   *)
(* the set of what is on it.                                               *)
(***************************************************************************)
LEMMA PoolKept ==
  ASSUME RequestInv, Keeps
  PROVE  UNCHANGED Pool!vars
<1>1. InHands' = InHands
  BY DEF Keeps, InHands
<1>2. OnStacks' = OnStacks
  BY DEF Keeps, OnStacks
<1> QED
  BY <1>1, <1>2 DEF Keeps, Pool!vars

\* A peer's hands, whoever else moves.
LEMMA OtherHands ==
  ASSUME TypeOK, NEW p \in Peers, OthersKeep(p), NEW x, req' = [req EXCEPT ![p] = x]
  PROVE  InHands' = [InHands EXCEPT ![p] = IF Owns(p)' THEN {x} ELSE {}]
<1>1. req'[p] = x /\ \A r \in Peers \ {p} : req'[r] = req[r]
  BY DEF TypeOK, PeerTypeOK
<1> QED
  BY <1>1 DEF InHands, OthersKeep

LEMMA PoolMake ==
  ASSUME RequestInv, NEW p \in Peers, NEW x \in Requests, MakesOne(p, x)
  PROVE  Pool!Next
<1>1. InHands[p] = {} /\ InHands' = [InHands EXCEPT ![p] = {x}]
  BY OtherHands DEF RequestInv, MakesOne, InHands
<1>2. OnStacks' = OnStacks
  BY DEF MakesOne, OnStacks
<1>3. Pool!Make(p, x)
  BY <1>1, <1>2 DEF MakesOne, Pool!Make
<1>4. Pool!MakeNext(p, x) \/ Pool!MakeClaim(p, x)
  BY <1>3 DEF MakesOne, Pool!MakeNext, Pool!MakeClaim
<1>5. x \in InHands'[p]
  BY <1>1 DEF InHands
<1> QED
  BY <1>4, <1>5 DEF Pool!Next

LEMMA PoolTake ==
  ASSUME RequestInv, NEW p \in Peers, TakesOne(p)
  PROVE  Pool!Next
<1> DEFINE q == QueueOf[p]
           s == failed[q]
           n == Len(s)
           x == s[n]
<1>1. q \in Queues /\ TypeOK
  BY PeerAssumption DEF RequestInv
<1>2. s \in Seq(Requests) /\ n \in Nat /\ n > 0 /\ DOMAIN s = 1 .. n /\ n \in DOMAIN s
  BY <1>1, HeldType DEF TakesOne, FailedPieceMessage, QueueEmptied
<1>3. /\ failed'[q] = SubSeq(s, 1, n - 1)
      /\ \A t \in Queues \ {q} : failed'[t] = failed[t]
  BY <1>1 DEF TakesOne, TypeOK, FailedPieceMessage
<1>4. /\ DOMAIN failed'[q] = 1 .. n - 1
      /\ \A k \in 1 .. n - 1 : failed'[q][k] = s[k]
  BY <1>2, <1>3
<1>5. InHands[p] = {} /\ InHands' = [InHands EXCEPT ![p] = {x}]
  BY <1>1, OtherHands DEF TakesOne, InHands, NewestFailed
<1>6. \A k \in 1 .. n - 1 : s[k] # x
  <2>1. OneSlot
    BY DEF RequestInv, SingleHolder
  <2> SUFFICES ASSUME NEW k \in 1 .. n - 1, s[k] = x PROVE FALSE
    OBVIOUS
  <2>2. k \in DOMAIN s /\ k # n
    BY <1>2
  <2> QED
    BY <1>1, <1>2, <2>1, <2>2 DEF OneSlot
<1> HIDE DEF s, n, x, q
<1>7. {failed'[q][k] : k \in DOMAIN failed'[q]} = {s[k] : k \in DOMAIN s} \ {x}
  <2>1. x = s[n] /\ \A k \in DOMAIN s : k \in 1 .. n - 1 \/ k = n
    BY <1>2 DEF x
  <2> QED
    BY <1>2, <1>4, <1>6, <2>1
<1>8. OnStacks' = [OnStacks EXCEPT ![q] = @ \ {x}]
  BY <1>1, <1>3, <1>7 DEF OnStacks, s
<1>9. x \in OnStacks[q] /\ x \in InHands'[p]
  <2>1. x \in OnStacks[q]
    BY <1>1, <1>2 DEF OnStacks, x, s
  <2> QED
    BY <1>5, <2>1 DEF InHands
<1>10. Pool!Take(p, x)
  BY <1>5, <1>8, <1>9 DEF TakesOne, Pool!Take, q
<1> QED
  BY <1>9, <1>10 DEF Pool!Next

LEMMA PoolReturn ==
  ASSUME RequestInv, NEW p \in Peers, ReturnsOne(p)
  PROVE  Pool!Next
<1> DEFINE q == QueueOf[p]
           s == failed[q]
           x == req[p]
<1>1. q \in Queues /\ TypeOK /\ x \in Requests /\ s \in Seq(Requests)
  BY PeerAssumption, HeldType DEF RequestInv, ReturnsOne
<1>2. /\ failed'[q] = Append(s, x)
      /\ \A t \in Queues \ {q} : failed'[t] = failed[t]
  BY <1>1 DEF ReturnsOne, TypeOK, RequestFailed
<1>3. {failed'[q][k] : k \in DOMAIN failed'[q]} = {s[k] : k \in DOMAIN s} \cup {x}
  <2> DEFINE n == Len(s)
             t == failed'[q]
  <2>1. n \in Nat /\ DOMAIN s = 1 .. n /\ DOMAIN t = 1 .. n + 1
    BY <1>1, <1>2
  <2>2. t[n + 1] = x /\ \A k \in 1 .. n : t[k] = s[k]
    BY <1>1, <1>2
  <2> HIDE DEF n, t, s, x
  <2>3. \A k : k \in 1 .. n + 1 <=> k \in 1 .. n \/ k = n + 1
    BY <2>1
  <2> QED
    BY <2>1, <2>2, <2>3 DEF t
<1>4. OnStacks' = [OnStacks EXCEPT ![q] = @ \cup {x}]
  <2> HIDE DEF q, x
  <2> QED
    BY <1>1, <1>2, <1>3 DEF OnStacks, s
<1>5. InHands[p] = {x} /\ InHands' = [InHands EXCEPT ![p] = {}]
  <2>1. req' = [req EXCEPT ![p] = x]
    BY <1>1 DEF ReturnsOne, TypeOK, PeerTypeOK
  <2> QED
    BY <1>1, <2>1, OtherHands DEF ReturnsOne, InHands
<1>6. Pool!Return(p)
  BY <1>4, <1>5 DEF ReturnsOne, Pool!Return
<1> QED
  BY <1>6 DEF Pool!Next

\* The peers and the stacks, for any number of them, deal with requests as RequestPool
\* says: one hand or one pool at a time, no loss, no exchange but through the round's pool.
THEOREM RequestsArePooled == Spec => ImplementsRequestPool
<1>1. Init => Pool!Init
  <2> SUFFICES ASSUME Init PROVE Pool!Init
    OBVIOUS
  <2>1. \A p \in Peers : ~Owns(p)
    BY DEF Init, Owns
  <2>2. InHands = [p \in Peers |-> {}]
    BY <2>1 DEF InHands
  <2>3. OnStacks = [q \in Queues |-> {}]
    BY DEF Init, QueueInit, OnStacks
  <2> QED
    BY <2>2, <2>3 DEF Init, TorrentInit, Pool!Init
<1>2. RequestInv /\ [Next]_vars => [Pool!Next]_Pool!vars
  <2> SUFFICES ASSUME RequestInv, [Next]_vars PROVE [Pool!Next]_Pool!vars
    OBVIOUS
  <2>1. ASSUME NEW p \in Peers, PeerStep(p) PROVE [Pool!Next]_Pool!vars
    <3>1. TypeOK
      BY DEF RequestInv
    <3> QED
      BY <2>1, <3>1, StepKinds, PoolMake, PoolTake, PoolReturn, PoolKept
  <2>2. ASSUME WriterStep \/ Cancel \/ UNCHANGED vars PROVE [Pool!Next]_Pool!vars
    BY <2>2, OtherStep, PoolKept
  <2> QED
    BY <2>1, <2>2 DEF Next
<1> QED
  BY <1>1, <1>2, RequestInductive, PTL DEF Spec, Pool!Spec, ImplementsRequestPool

(***************************************************************************)
(* Why Next is never called.  If p, past its last block, found the stack   *)
(* of its round empty, every request made in the round would be in the     *)
(* hands of its owners.  p and each of those owners have made a first      *)
(* request: one request more than there are hands to hold them.            *)
(***************************************************************************)
NextInv == RequestInv /\ MadeFirst /\ NoClaimWithBlocks

LEMMA BlockNumType == BlockNum \in Nat
BY TorrentAssumption DEF BlockNum

LEMMA StackNotEmpty ==
  ASSUME NextInv, BlockNum > 0, NEW p \in Peers, ~Owns(p), blockIdx[p] >= BlockNum
  PROVE  ~QueueEmptied(QueueOf[p])
<1> SUFFICES ASSUME QueueEmptied(QueueOf[p]) PROVE FALSE
  OBVIOUS
<1> DEFINE owners == { r \in Peers : Owns(r) /\ QueueOf[r] = QueueOf[p] }
           firsts == owners \cup {p}
           holds(r, b) == Id(req[r]) = << b, 0 >>
<1>1. TypeOK /\ made \in [Peers -> Nat] /\ blockIdx \in [Peers -> Nat]
  BY DEF NextInv, RequestInv, TypeOK, PeerTypeOK
<1>2. \A b \in firsts : b \in Peers /\ made[b] > 0 /\ QueueOf[b] = QueueOf[p]
  BY <1>1, BlockNumType DEF NextInv, MadeFirst
<1>3. \A b \in firsts : \E r \in owners : holds(r, b)
  <2> SUFFICES ASSUME NEW b \in firsts PROVE \E r \in owners : holds(r, b)
    OBVIOUS
  <2>1. b \in Peers /\ QueueOf[b] = QueueOf[p] /\ 0 \in 0 .. made[b] - 1
    BY <1>1, <1>2
  <2>2. DOMAIN failed[QueueOf[b]] = {}
    BY <2>1 DEF QueueEmptied
  <2>3. PICK r \in Peers : Owns(r) /\ holds(r, b)
    BY <2>1, <2>2 DEF NextInv, RequestInv, NoRequestForgotten
  <2>4. req[r].by = b
    BY <2>3 DEF Id
  <2>5. QueueOf[r] = QueueOf[p]
    BY <2>1, <2>3, <2>4 DEF NextInv, RequestInv, RequestsInRound
  <2> QED
    BY <2>3, <2>5
<1> DEFINE f == [b \in firsts |-> CHOOSE r \in owners : holds(r, b)]
<1>4. f \in [firsts -> owners] /\ \A b \in firsts : holds(f[b], b)
  BY <1>3
<1>5. \A b, c \in firsts : b # c => f[b] # f[c]
  BY <1>4
<1>6. IsFiniteSet(owners) /\ IsFiniteSet(firsts) /\ Cardinality(firsts) = Cardinality(owners) + 1
  <2>1. IsFiniteSet(owners)
    BY PeerAssumption, FS_Subset
  <2>2. p \notin owners
    OBVIOUS
  <2> QED
    BY <2>1, <2>2, FS_AddElement
<1>7. Cardinality(owners) \in Nat
  BY <1>6, FS_CardinalityType
<1> HIDE DEF f, firsts, owners, holds
<1>8. Cardinality(owners) < Cardinality(firsts)
  BY <1>6, <1>7
<1>9. \E b, c \in firsts : b # c /\ f[b] = f[c]
  BY <1>4, <1>6, <1>8, FS_PigeonHole
<1> QED
  BY <1>5, <1>9

LEMMA MadeFirstStep ==
  ASSUME NextInv, NEW p \in Peers, PeerStep(p)
  PROVE  MadeFirst'
<1> SUFFICES ASSUME BlockNum > 0
             PROVE  \A r \in Peers : blockIdx'[r] <= made'[r] /\ (Owns(r)' => made'[r] > 0)
  BY DEF MadeFirst
<1>1. /\ pc \in [Peers -> Stages] /\ sent \in [Peers -> BOOLEAN]
      /\ made \in [Peers -> Nat] /\ blockIdx \in [Peers -> Nat]
      /\ \A r \in Peers : blockIdx[r] <= made[r] /\ (Owns(r) => made[r] > 0)
  BY DEF NextInv, RequestInv, TypeOK, PeerTypeOK, MadeFirst
<1>2. CASE NextBlock(p)
  BY <1>1, <1>2 DEF NextBlock, MakeRequest, Goto, Owns
<1>3. CASE PopFailed(p)
  BY <1>1, <1>3, BlockNumType DEF PopFailed, Goto, Owns
<1>4. CASE ClaimPiece(p)
  BY <1>4 DEF ClaimPiece, NextInv, NoClaimWithBlocks
<1>5. CASE ~(NextBlock(p) \/ PopFailed(p) \/ ClaimPiece(p))
  <2>1. UNCHANGED << made, blockIdx >>
    BY <1>5 DEF PeerStep, Request, Receive, LoopExit, LoopTop, KeepAliveFails,
         UnchokeCancelled, NothingFailed, NothingToClaim, SendRequest, SendFails,
         ReadFails, ReceiveChoke, ReceiveHave, ReceiveBitfield, ReceiveOther,
         ReceivePiece, Deliver, localVars
  <2>2. \A r \in Peers : Owns(r)' => Owns(r)
    BY <1>1, <1>5 DEF PeerStep, Request, Receive, LoopExit, LoopTop, KeepAliveFails,
         UnchokeCancelled, NothingFailed, NothingToClaim, SendRequest, SendFails,
         ReadFails, ReceiveChoke, ReceiveHave, ReceiveBitfield, ReceiveOther,
         ReceivePiece, Deliver, localVars, Handled, Stage, Goto, Owns
  <2> QED
    BY <1>1, <2>1, <2>2
<1> QED
  BY <1>2, <1>3, <1>4, <1>5

LEMMA NoClaimStep ==
  ASSUME NextInv, NEW p \in Peers, PeerStep(p)
  PROVE  NoClaimWithBlocks'
<1> SUFFICES ASSUME BlockNum > 0
             PROVE  requested' = {} /\ \A r \in Peers : pc'[r] # "claim"
  BY DEF NoClaimWithBlocks
<1>1. /\ pc \in [Peers -> Stages]
      /\ requested = {} /\ \A r \in Peers : pc[r] # "claim"
  BY DEF NextInv, RequestInv, TypeOK, PeerTypeOK, NoClaimWithBlocks
<1>2. ~NothingFailed(p)
  <2> SUFFICES ASSUME NothingFailed(p) PROVE FALSE
    OBVIOUS
  <2>1. ~Owns(p)
    BY DEF NothingFailed, NextInv, RequestInv, TypeOK, PlaceOK, Owns
  <2> QED
    BY <2>1, StackNotEmpty DEF NothingFailed
<1>3. ~ClaimPiece(p) /\ ~NothingToClaim(p)
  BY <1>1 DEF ClaimPiece, NothingToClaim
<1>4. UNCHANGED requested
  BY <1>3 DEF PeerStep, Request, Receive, LoopExit, LoopTop, KeepAliveFails,
         UnchokeCancelled, NextBlock, PopFailed, NothingFailed, SendRequest, SendFails,
         ReadFails, ReceiveChoke, ReceiveHave, ReceiveBitfield, ReceiveOther,
         ReceivePiece, Deliver, torrentVars
<1>5. \E s \in Stages \ {"claim"} : pc' = [pc EXCEPT ![p] = s]
  BY <1>2, <1>3 DEF PeerStep, Request, Receive, LoopExit, LoopTop, KeepAliveFails,
         UnchokeCancelled, NextBlock, PopFailed, SendRequest, SendFails,
         ReadFails, ReceiveChoke, ReceiveHave, ReceiveBitfield, ReceiveOther,
         ReceivePiece, Deliver, Handled, Stage, Goto, Stages
<1> QED
  BY <1>1, <1>4, <1>5

LEMMA NextInductive == Spec => []NextInv
<1>1. Init => MadeFirst /\ NoClaimWithBlocks
  BY DEF Init, TorrentInit, MadeFirst, NoClaimWithBlocks, Owns
<1>2. NextInv /\ [Next]_vars => (MadeFirst /\ NoClaimWithBlocks)'
  <2> SUFFICES ASSUME NextInv, [Next]_vars PROVE (MadeFirst /\ NoClaimWithBlocks)'
    OBVIOUS
  <2>1. ASSUME NEW p \in Peers, PeerStep(p) PROVE (MadeFirst /\ NoClaimWithBlocks)'
    BY <2>1, MadeFirstStep, NoClaimStep
  <2>2. CASE WriterStep \/ Cancel \/ UNCHANGED vars
    <3>1. UNCHANGED << made, blockIdx, sent, pc, requested >>
      BY <2>2 DEF WriterStep, Writer, WriterTake, WriterStore, WriterFail, Cancel,
                  vars, peerVars, localVars, torrentVars
    <3> QED
      BY <3>1 DEF NextInv, MadeFirst, NoClaimWithBlocks, Owns
  <2> QED
    BY <2>1, <2>2 DEF Next
<1> QED
  BY <1>1, <1>2, RequestInductive, PTL DEF Spec, NextInv

\* With pieces of at least a block, Torrent.Next is never called.
THEOREM NextNeverCalled == Spec => []NoClaimWithBlocks
BY NextInductive, PTL DEF NextInv

LEMMA FirstPieceStep ==
  ASSUME NextInv, OnlyFirstPiece, NEW p \in Peers, PeerStep(p)
  PROVE  OnlyFirstPiece'
<1> SUFFICES ASSUME BlockNum > 0
             PROVE  /\ \A r \in Peers : pieceIdx'[r] = 0 /\ (Owns(r)' => req'[r].piece = 0)
                    /\ \A q \in Queues : \A k \in DOMAIN failed'[q] : failed'[q][k].piece = 0
  BY DEF OnlyFirstPiece
<1>1. /\ TypeOK
      /\ pc \in [Peers -> Stages] /\ sent \in [Peers -> BOOLEAN]
      /\ req \in [Peers -> Requests \cup {NoReq}] /\ pieceIdx \in [Peers -> Pieces]
      /\ \A r \in Peers : pieceIdx[r] = 0 /\ (Owns(r) => req[r].piece = 0)
      /\ \A q \in Queues : /\ failed[q] \in Seq(Requests)
                           /\ \A k \in DOMAIN failed[q] : failed[q][k].piece = 0
      /\ QueueOf[p] \in Queues
  BY PeerAssumption DEF NextInv, RequestInv, TypeOK, PeerTypeOK, OnlyFirstPiece
<1>2. CASE NextBlock(p)
  BY <1>1, <1>2 DEF NextBlock, MakeRequest, Goto, Owns
<1>3. CASE PopFailed(p)
  <2> DEFINE s == failed[QueueOf[p]]
  <2>1. s \in Seq(Requests) /\ Len(s) \in Nat /\ Len(s) > 0 /\ s[Len(s)].piece = 0
    BY <1>1, <1>3 DEF PopFailed, FailedPieceMessage, QueueEmptied
  <2>2. \A k \in DOMAIN SubSeq(s, 1, Len(s) - 1) : SubSeq(s, 1, Len(s) - 1)[k].piece = 0
    BY <1>1, <2>1
  <2>3. \A q \in Queues : \A k \in DOMAIN failed'[q] : failed'[q][k].piece = 0
    BY <1>1, <1>3, <2>2 DEF PopFailed, FailedPieceMessage, TypeOK
  <2> QED
    BY <1>1, <1>3, <2>1, <2>3 DEF PopFailed, NewestFailed, Goto, Owns
<1>4. CASE RequestFailed(QueueOf[p], req[p]) /\ (SendFails(p) \/ (ReadFails(p) /\ sent[p]))
  <2> DEFINE s == failed[QueueOf[p]]
  <2>1. req[p] \in Requests /\ req[p].piece = 0
    BY <1>1, <1>4, HeldType DEF SendFails, Owns
  <2>2. \A k \in DOMAIN Append(s, req[p]) : Append(s, req[p])[k].piece = 0
    BY <1>1, <2>1
  <2>3. \A q \in Queues : \A k \in DOMAIN failed'[q] : failed'[q][k].piece = 0
    BY <1>1, <1>4, <2>2 DEF RequestFailed, TypeOK
  <2> QED
    BY <1>1, <1>4, <2>3 DEF SendFails, ReadFails, localVars, Goto, Owns
<1>5. ~ClaimPiece(p) /\ ~NothingToClaim(p)
  BY DEF ClaimPiece, NothingToClaim, NextInv, NoClaimWithBlocks
<1>6. CASE ~(NextBlock(p) \/ PopFailed(p) \/ SendFails(p) \/ (ReadFails(p) /\ sent[p]))
  <2>1. UNCHANGED << failed, pieceIdx, req >>
    BY <1>5, <1>6 DEF PeerStep, Request, Receive, LoopExit, LoopTop, KeepAliveFails,
         UnchokeCancelled, NothingFailed, SendRequest,
         ReadFails, ReceiveChoke, ReceiveHave, ReceiveBitfield, ReceiveOther,
         ReceivePiece, Deliver, localVars
  <2>2. \A r \in Peers : Owns(r)' => Owns(r)
    BY <1>1, <1>5, <1>6 DEF PeerStep, Request, Receive, LoopExit, LoopTop,
         KeepAliveFails, UnchokeCancelled, NothingFailed, SendRequest,
         ReadFails, ReceiveChoke, ReceiveHave, ReceiveBitfield, ReceiveOther,
         ReceivePiece, Deliver, localVars, Handled, Stage, Goto, Owns
  <2> QED
    BY <1>1, <2>1, <2>2
<1> QED
  BY <1>2, <1>3, <1>4, <1>6 DEF SendFails, ReadFails

\* The download of a torrent whose pieces are at least a block long asks for
\* blocks of its first piece only.
THEOREM FirstPieceOnly == Spec => []OnlyFirstPiece
<1>1. Init => OnlyFirstPiece
  BY DEF Init, QueueInit, OnlyFirstPiece, Owns
<1>2. NextInv /\ OnlyFirstPiece /\ [Next]_vars => OnlyFirstPiece'
  <2> SUFFICES ASSUME NextInv, OnlyFirstPiece, [Next]_vars PROVE OnlyFirstPiece'
    OBVIOUS
  <2>1. ASSUME NEW p \in Peers, PeerStep(p) PROVE OnlyFirstPiece'
    BY <2>1, FirstPieceStep
  <2>2. CASE WriterStep \/ Cancel \/ UNCHANGED vars
    <3>1. UNCHANGED << failed, pieceIdx, req, sent, pc >>
      BY <2>2 DEF WriterStep, Cancel, vars, peerVars, localVars
    <3> QED
      BY <3>1 DEF OnlyFirstPiece, Owns
  <2> QED
    BY <2>1, <2>2 DEF Next
<1> QED
  BY <1>1, <1>2, NextInductive, PTL DEF Spec

(***************************************************************************)
(* Why there are no more claims than peers.  With BlockNum = 0 every       *)
(* request comes from a claim.  A peer that has found its stack empty may  *)
(* make its next one, and keeps that licence until it claims, whatever is  *)
(* queued meanwhile.  Requests made and licences given are never more than *)
(* the peers: when a licence is given the stack is empty, so each request  *)
(* of the round is with an owner, and an owner has no licence.             *)
(***************************************************************************)
Ids == Peers \X Nat

MadeIds == { x \in Ids : x[2] < made[x[1]] }

\* The requests made, and the next one of every peer with a licence.
Licensed ==
  { x \in Ids : x[2] < made[x[1]] \/ (x[2] = made[x[1]] /\ pc[x[1]] = "claim") }

\* g names for each peer at most one of them, of its own round, and leaves none out.
Covers(g) ==
  \A x \in Licensed : \E r \in Peers : g[r] = x /\ QueueOf[r] = QueueOf[x[1]]

ClaimsCovered ==
  BlockNum = 0 =>
    /\ \E g \in [Peers -> Ids] : Covers(g)
    /\ IsFiniteSet(requested) /\ Cardinality(requested) <= Cardinality(MadeIds)

LEMMA FewLicences ==
  ASSUME NEW g \in [Peers -> Ids], Covers(g)
  PROVE  /\ IsFiniteSet(Licensed) /\ IsFiniteSet(MadeIds)
         /\ Cardinality(MadeIds) <= Cardinality(Peers)
<1> DEFINE named == { g[r] : r \in Peers }
<1>1. g \in Surjection(Peers, named)
  BY DEF Surjection
<1>2. IsFiniteSet(named) /\ Cardinality(named) <= Cardinality(Peers)
  BY <1>1, PeerAssumption, FS_Surjection
<1>3. Licensed \subseteq named /\ MadeIds \subseteq named
  BY DEF Covers, Licensed, MadeIds
<1> HIDE DEF named
<1>4. /\ IsFiniteSet(Licensed) /\ IsFiniteSet(MadeIds)
      /\ Cardinality(MadeIds) <= Cardinality(named)
  BY <1>2, <1>3, FS_Subset
<1>5. Cardinality(MadeIds) \in Nat /\ Cardinality(named) \in Nat /\ Cardinality(Peers) \in Nat
  BY <1>2, <1>4, PeerAssumption, FS_CardinalityType
<1> QED
  BY <1>2, <1>4, <1>5

LEMMA LicenceGiven ==
  ASSUME RequestInv, NEW p \in Peers, NothingFailed(p),
         NEW g \in [Peers -> Ids], Covers(g)
  PROVE  \E h \in [Peers -> Ids] : Covers(h)'
<1>1. /\ pc \in [Peers -> Stages] /\ made \in [Peers -> Nat]
      /\ \A r \in Peers : pc[r] \in {"request", "claim", "write"} => ~sent[r]
  BY DEF RequestInv, TypeOK, PeerTypeOK, PlaceOK
<1>2. /\ pc[p] = "request" /\ pc' = [pc EXCEPT ![p] = "claim"]
      /\ UNCHANGED << made, sent, req >> /\ QueueEmptied(QueueOf[p])
  BY DEF NothingFailed, Goto, localVars
<1>3. \A r \in Peers : Owns(r) => Id(req[r]) \in Ids
  BY HeldType DEF RequestInv, Requests, Id, Ids
<1> DEFINE round == { r \in Peers : QueueOf[r] = QueueOf[p] }
           h == [r \in Peers |-> IF r \notin round THEN g[r]
                                  ELSE IF Owns(r) THEN Id(req[r]) ELSE << r, made[r] >>]
<1>4. h \in [Peers -> Ids]
  BY <1>1, <1>3 DEF Ids
<1>5. ASSUME NEW x \in Licensed'
      PROVE  \E r \in Peers : h[r] = x /\ QueueOf[r] = QueueOf[x[1]]
  <2>1. /\ x \in Ids /\ x[1] \in Peers /\ x[2] \in Nat /\ x = << x[1], x[2] >>
        /\ x[2] < made[x[1]] \/ (x[2] = made[x[1]] /\ pc'[x[1]] = "claim")
    BY <1>2 DEF Licensed, Ids
  <2>2. CASE x[1] \notin round
    <3>1. x \in Licensed
      BY <1>1, <1>2, <2>1, <2>2 DEF Licensed
    <3>2. PICK r \in Peers : g[r] = x /\ QueueOf[r] = QueueOf[x[1]]
      BY <3>1 DEF Covers
    <3> QED
      BY <2>1, <2>2, <3>2
  <2>3. CASE x[1] \in round /\ x[2] < made[x[1]]
    <3>1. x[2] \in 0 .. made[x[1]] - 1 /\ DOMAIN failed[QueueOf[x[1]]] = {}
      BY <1>1, <1>2, <2>1, <2>3 DEF QueueEmptied
    <3>2. PICK r \in Peers : Owns(r) /\ Id(req[r]) = << x[1], x[2] >>
      BY <2>1, <3>1 DEF RequestInv, NoRequestForgotten
    <3>3. QueueOf[r] = QueueOf[x[1]]
      BY <3>2 DEF RequestInv, RequestsInRound, Id
    <3> QED
      BY <2>1, <2>3, <3>2, <3>3
  <2>4. CASE x[1] \in round /\ x[2] = made[x[1]] /\ pc'[x[1]] = "claim"
    <3>1. ~Owns(x[1])
      BY <1>1, <1>2, <2>1, <2>4 DEF Owns
    <3> QED
      BY <2>1, <2>4, <3>1
  <2> QED
    BY <2>1, <2>2, <2>3, <2>4
<1>6. \E k \in [Peers -> Ids] :
        \A x \in Licensed' : \E r \in Peers : k[r] = x /\ QueueOf[r] = QueueOf[x[1]]
  <2> HIDE DEF h
  <2> QED
    BY <1>4, <1>5
<1> QED
  BY <1>6 DEF Covers

LEMMA LicenceUsed ==
  ASSUME RequestInv, ClaimsCovered, BlockNum = 0, NEW p \in Peers, ClaimPiece(p)
  PROVE  ClaimsCovered'
<1>1. pc \in [Peers -> Stages] /\ made \in [Peers -> Nat]
  BY DEF RequestInv, TypeOK, PeerTypeOK
<1>2. PICK i \in Pieces : i \notin requested /\ requested' = requested \cup {i}
  BY DEF ClaimPiece, Claim, Claimable
<1>3. /\ pc[p] = "claim" /\ pc' = [pc EXCEPT ![p] = "write"]
      /\ made' = [made EXCEPT ![p] = @ + 1]
  BY DEF ClaimPiece, MakeRequest, Goto
<1>4. PICK g \in [Peers -> Ids] : Covers(g)
  BY DEF ClaimsCovered
<1>5. IsFiniteSet(requested) /\ Cardinality(requested) <= Cardinality(MadeIds)
  BY DEF ClaimsCovered
<1>6. Licensed' = Licensed
  BY <1>1, <1>3 DEF Licensed, Ids
<1>7. Covers(g)'
  BY <1>4, <1>6 DEF Covers
<1>8. MadeIds' = MadeIds \cup {<< p, made[p] >>} /\ << p, made[p] >> \notin MadeIds
  BY <1>1, <1>3 DEF MadeIds, Ids
<1>9. IsFiniteSet(MadeIds)
  BY <1>4, FewLicences
<1>10. /\ Cardinality(MadeIds') = Cardinality(MadeIds) + 1
       /\ Cardinality(requested') = Cardinality(requested) + 1 /\ IsFiniteSet(requested')
  BY <1>2, <1>5, <1>8, <1>9, FS_AddElement
<1>11. Cardinality(MadeIds) \in Nat /\ Cardinality(requested) \in Nat
  BY <1>5, <1>9, FS_CardinalityType
<1>12. Cardinality(requested') <= Cardinality(MadeIds')
  BY <1>5, <1>10, <1>11
<1> QED
  BY <1>4, <1>7, <1>10, <1>12 DEF ClaimsCovered

LEMMA LicencesKept ==
  ASSUME ClaimsCovered, BlockNum = 0, UNCHANGED << made, requested >>,
         \A r \in Peers : pc'[r] = "claim" => pc[r] = "claim"
  PROVE  ClaimsCovered'
<1>1. PICK g \in [Peers -> Ids] : Covers(g)
  BY DEF ClaimsCovered
<1>2. Licensed' \subseteq Licensed /\ MadeIds' = MadeIds
  BY DEF Licensed, MadeIds, Ids
<1>3. Covers(g)'
  BY <1>1, <1>2 DEF Covers
<1> QED
  BY <1>1, <1>2, <1>3 DEF ClaimsCovered

LEMMA ClaimsStep ==
  ASSUME RequestInv, ClaimsCovered, BlockNum = 0, NEW p \in Peers, PeerStep(p)
  PROVE  ClaimsCovered'
<1>1. pc \in [Peers -> Stages] /\ blockIdx \in [Peers -> Nat]
  BY DEF RequestInv, TypeOK, PeerTypeOK
<1>2. CASE ClaimPiece(p)
  BY <1>2, LicenceUsed
<1>3. CASE NothingFailed(p)
  <2>1. PICK g \in [Peers -> Ids] : Covers(g)
    BY DEF ClaimsCovered
  <2>2. UNCHANGED << made, requested >>
    BY <1>3 DEF NothingFailed, localVars, torrentVars
  <2>3. MadeIds' = MadeIds
    BY <2>2 DEF MadeIds, Ids
  <2> QED
    BY <1>3, <2>1, <2>2, <2>3, LicenceGiven DEF ClaimsCovered
<1>4. CASE ~(ClaimPiece(p) \/ NothingFailed(p))
  <2>1. ~NextBlock(p)
    BY <1>1 DEF NextBlock
  <2>2. UNCHANGED << made, requested >>
    BY <1>4, <2>1
    DEF PeerStep, Request, Receive, LoopExit, LoopTop, KeepAliveFails,
        UnchokeCancelled, PopFailed, NothingToClaim, SendRequest, SendFails,
        ReadFails, ReceiveChoke, ReceiveHave, ReceiveBitfield, ReceiveOther,
        ReceivePiece, Deliver, localVars, torrentVars
  <2>3. \E s \in Stages \ {"claim"} : pc' = [pc EXCEPT ![p] = s]
    BY <1>4, <2>1
    DEF PeerStep, Request, Receive, LoopExit, LoopTop, KeepAliveFails,
        UnchokeCancelled, PopFailed, NothingToClaim, SendRequest, SendFails,
        ReadFails, ReceiveChoke, ReceiveHave, ReceiveBitfield, ReceiveOther,
        ReceivePiece, Deliver, Handled, Stage, Goto, Stages
  <2> QED
    BY <1>1, <2>2, <2>3, LicencesKept
<1> QED
  BY <1>2, <1>3, <1>4

\* With pieces shorter than a block there are never more claims than peers, however
\* many queues they share and however the looks at a stack and the claims interleave.
THEOREM OnePieceEach == Spec => []OneClaimEach
<1>1. Init => ClaimsCovered
  <2> SUFFICES ASSUME Init, BlockNum = 0 PROVE ClaimsCovered
    BY DEF ClaimsCovered
  <2>1. Licensed = {} /\ MadeIds = {} /\ requested = {}
    BY DEF Init, TorrentInit, Licensed, MadeIds, Ids
  <2> DEFINE g == [r \in Peers |-> << r, 0 >>]
  <2>2. g \in [Peers -> Ids] /\ Covers(g)
    BY <2>1 DEF Ids, Covers
  <2>3. IsFiniteSet(requested) /\ Cardinality(requested) <= Cardinality(MadeIds)
    BY <2>1, FS_EmptySet
  <2> QED
    BY <2>2, <2>3 DEF ClaimsCovered
<1>2. RequestInv /\ ClaimsCovered /\ [Next]_vars => ClaimsCovered'
  <2> SUFFICES ASSUME RequestInv, ClaimsCovered, BlockNum = 0, [Next]_vars
               PROVE  ClaimsCovered'
    BY DEF ClaimsCovered
  <2>1. CASE WriterStep \/ Cancel \/ UNCHANGED vars
    <3>1. UNCHANGED << made, pc, requested >>
      BY <2>1 DEF WriterStep, Writer, WriterTake, WriterStore, WriterFail, Cancel,
                  vars, peerVars, localVars, torrentVars
    <3> QED
      BY <3>1, LicencesKept
  <2> QED
    BY <2>1, ClaimsStep DEF Next
<1>3. NextInv /\ ClaimsCovered => OneClaimEach
  <2> SUFFICES ASSUME NextInv, ClaimsCovered PROVE OneClaimEach
    OBVIOUS
  <2>1. CASE BlockNum = 0
    <3>1. PICK g \in [Peers -> Ids] : Covers(g)
      BY <2>1 DEF ClaimsCovered
    <3>2. /\ IsFiniteSet(requested) /\ IsFiniteSet(MadeIds)
          /\ Cardinality(requested) <= Cardinality(MadeIds)
          /\ Cardinality(MadeIds) <= Cardinality(Peers)
      BY <2>1, <3>1, FewLicences DEF ClaimsCovered
    <3>3. /\ Cardinality(requested) \in Nat /\ Cardinality(MadeIds) \in Nat
          /\ Cardinality(Peers) \in Nat
      BY <3>2, PeerAssumption, FS_CardinalityType
    <3> QED
      BY <3>2, <3>3 DEF OneClaimEach
  <2>2. CASE BlockNum > 0
    <3>1. requested = {} /\ Cardinality(Peers) \in Nat
      BY <2>2, PeerAssumption, FS_CardinalityType DEF NextInv, NoClaimWithBlocks
    <3> QED
      BY <3>1, FS_EmptySet DEF OneClaimEach
  <2> QED
    BY <2>1, <2>2, BlockNumType
<1> QED
  BY <1>1, <1>2, <1>3, RequestInductive, NextInductive, PTL DEF Spec
=============================================================================

------------------------------- MODULE PeerRun -------------------------------
(***************************************************************************)
(* peer.Peer.Run for several peers that share a Torrent, the piece channel *)
(* and, within one announce round, a PiecesQueue.                          *)
(*                                                                         *)
(* pc[p] says where goroutine p is:                                        *)
(*   top       before the checks at the head of the loop of Run            *)
(*   unchoke   in unchoke(), resending Interested until a message arrives  *)
(*   request   at nextRequestMessage                                       *)
(*   claim     in nextRequestMessage, the failed stack found empty         *)
(*   write     holding a request message it is about to send               *)
(*   read      in ReadPeerMessage                                          *)
(*   deliver, deliverUnchoking                                             *)
(*             blocked in "p.writeCh <- message", called from Run or from  *)
(*             unchoke                                                     *)
(*   exited    Run has returned                                            *)
(* A wait(ctx, d) leads back to the head of the loop, where a cancelled    *)
(* context is seen at once, so it is merged with that check.  Time is      *)
(* abstracted: a read or a write may fail whenever it runs.                *)
(***************************************************************************)
EXTENDS PiecesQueue, Torrent

CONSTANTS
  Peers,        \* the peers whose Run has been started
  QueueOf,      \* QueueOf[p]: the queue of p's announce round
  Interested,   \* peers with the exported ClientStatus.Interested set before
                \* Run; no code of the repository sets it
  WordBits,     \* bits per word of a bitset, 64 in the code
  NoReq         \* requestMsg = nil

ASSUME PeerAssumption ==
  /\ IsFiniteSet(Peers)
  /\ QueueOf \in [Peers -> Queues]
  /\ Interested \subseteq Peers
  /\ WordBits \in Nat \ {0}

\* A request message is a pointer: the n-th one its maker made, whoever holds
\* it now, with the piece and block it asks for.
Requests == [by: Peers, n: Nat, piece: Pieces, block: Nat]

ASSUME NoReqAssumption == NoReq \notin Requests

VARIABLES
  pc,           \* where goroutine p is
  choked,       \* ClientStatus.Choked
  bitset,       \* Bitset, the pieces p offers as the code numbers them
  blockIdx,     \* next block of the piece in progress
  pieceIdx,     \* the piece in progress
  req,          \* requestMsg
  sent,         \* sentPieceMsg
  delivering,   \* the message p is about to put on the piece channel
  made,         \* how many requests p has made (createPieceMessage calls)
  cancelled     \* the context of the download is cancelled

localVars == << choked, bitset, blockIdx, pieceIdx, req, sent, delivering, made >>
peerVars  == << pc, localVars >>
vars      == << peerVars, cancelled, failed, torrentVars >>

WordsOf(n)  == (n + WordBits - 1) \div WordBits
BitIndices  == 0 .. WordsOf(NumPieces) * WordBits - 1

\* Mutant of BitOf: off by one in the mirrored bit.
BitAbove(i) == (i \div WordBits) * WordBits + WordBits - (i % WordBits)

\* createBitset reads the payload as big-endian words while the bitset numbers
\* a word's bits from the low end: wire bit i is bit WordBits-1-i of its word.
BitOf(i) == (i \div WordBits) * WordBits + WordBits - 1 - (i % WordBits)

Init ==
  /\ QueueInit
  /\ TorrentInit
  /\ pc = [p \in Peers |-> "top"]
  /\ choked = [p \in Peers |-> TRUE]
  /\ bitset = [p \in Peers |-> {}]
  /\ blockIdx = [p \in Peers |-> 0]
  /\ pieceIdx = [p \in Peers |-> 0]
  /\ req = [p \in Peers |-> NoReq]
  /\ sent = [p \in Peers |-> FALSE]
  /\ delivering = [p \in Peers |-> NoMsg]
  /\ made = [p \in Peers |-> 0]
  /\ cancelled = FALSE

Goto(p, stage) == pc' = [pc EXCEPT ![p] = stage]

\* Mutant of Stage: the choke test is inverted.
StageChoked(p, c) ==
  IF c /\ p \in Interested /\ ~sent[p] THEN "request" ELSE "read"

\* Where Run goes once p is past unchoke, with c as ClientStatus.Choked.
Stage(p, c) == IF ~c /\ p \in Interested /\ ~sent[p] THEN "request" ELSE "read"

(***************************************************************************)
(* The head of the loop.                                                   *)
(***************************************************************************)

\* Mutant of LoopExit: Done is not tested.
ExitOnCancelOnly(p) ==
  /\ pc[p] = "top"
  /\ cancelled
  /\ Goto(p, "exited")
  /\ UNCHANGED << localVars, cancelled, failed, torrentVars >>

LoopExit(p) ==
  /\ pc[p] = "top"
  /\ cancelled \/ Complete
  /\ Goto(p, "exited")
  /\ UNCHANGED << localVars, cancelled, failed, torrentVars >>

LoopTop(p) ==
  /\ pc[p] = "top"
  /\ ~cancelled /\ ~Complete
  /\ Goto(p, IF choked[p] THEN "unchoke" ELSE Stage(p, FALSE))
  /\ UNCHANGED << localVars, cancelled, failed, torrentVars >>

\* checkKeepAlive had to send and could not: Run returns, whatever it holds.
KeepAliveFails(p) ==
  /\ pc[p] = "top"
  /\ ~cancelled /\ ~Complete
  /\ Goto(p, "exited")
  /\ UNCHANGED << localVars, cancelled, failed, torrentVars >>

\* Mutant of UnchokeCancelled: unchoke tests Done in place of the context.
UnchokeDone(p) ==
  /\ pc[p] = "unchoke"
  /\ Complete
  /\ Goto(p, "exited")
  /\ UNCHANGED << localVars, cancelled, failed, torrentVars >>

\* unchoke sees the cancelled context, at its loop head or in a wait.
UnchokeCancelled(p) ==
  /\ pc[p] = "unchoke"
  /\ cancelled
  /\ Goto(p, "exited")
  /\ UNCHANGED << localVars, cancelled, failed, torrentVars >>

(***************************************************************************)
(* nextRequestMessage and the send of its result.                          *)
(***************************************************************************)

\* createPieceMessage for block b of piece i.
MakeRequest(p, i, b) ==
  /\ req' = [req EXCEPT ![p] = [by |-> p, n |-> made[p], piece |-> i, block |-> b]]
  /\ made' = [made EXCEPT ![p] = @ + 1]
  /\ pieceIdx' = [pieceIdx EXCEPT ![p] = i]
  /\ blockIdx' = [blockIdx EXCEPT ![p] = b + 1]

NextBlock(p) ==
  /\ pc[p] = "request"
  /\ blockIdx[p] < BlockNum
  /\ MakeRequest(p, pieceIdx[p], blockIdx[p])
  /\ Goto(p, "write")
  /\ UNCHANGED << choked, bitset, sent, delivering, cancelled, failed, torrentVars >>

PopFailed(p) ==
  /\ pc[p] = "request"
  /\ blockIdx[p] >= BlockNum
  /\ FailedPieceMessage(QueueOf[p])
  /\ req' = [req EXCEPT ![p] = NewestFailed(QueueOf[p])]
  /\ Goto(p, "write")
  /\ UNCHANGED << choked, bitset, blockIdx, pieceIdx, sent, delivering, made,
                  cancelled, torrentVars >>

NothingFailed(p) ==
  /\ pc[p] = "request"
  /\ blockIdx[p] >= BlockNum
  /\ QueueEmptied(QueueOf[p])
  /\ Goto(p, "claim")
  /\ UNCHANGED << localVars, cancelled, failed, torrentVars >>

ClaimPiece(p) ==
  /\ pc[p] = "claim"
  /\ \E i \in Pieces : Claim(bitset[p], i) /\ MakeRequest(p, i, 0)
  /\ Goto(p, "write")
  /\ UNCHANGED << choked, bitset, sent, delivering, cancelled, failed, writerVars >>

\* Next found nothing: requestMsg is nil, Run waits and starts over.
NothingToClaim(p) ==
  /\ pc[p] = "claim"
  /\ Claimable(bitset[p]) = {}
  /\ req' = [req EXCEPT ![p] = NoReq]
  /\ Goto(p, "top")
  /\ UNCHANGED << choked, bitset, blockIdx, pieceIdx, sent, delivering, made,
                  cancelled, failed, torrentVars >>

SendRequest(p) ==
  /\ pc[p] = "write"
  /\ sent' = [sent EXCEPT ![p] = TRUE]
  /\ Goto(p, "read")
  /\ UNCHANGED << choked, bitset, blockIdx, pieceIdx, req, delivering, made,
                  cancelled, failed, torrentVars >>

\* Mutant of SendFails: the request that could not be sent is not queued.
SendDrops(p) ==
  /\ pc[p] = "write"
  /\ Goto(p, "top")
  /\ UNCHANGED << localVars, cancelled, failed, torrentVars >>

SendFails(p) ==
  /\ pc[p] = "write"
  /\ RequestFailed(QueueOf[p], req[p])
  /\ Goto(p, "top")
  /\ UNCHANGED << localVars, cancelled, torrentVars >>

(***************************************************************************)
(* Reading and handling a message.                                         *)
(***************************************************************************)

\* Mutant of ReadFails: sentPieceMsg is not reset.
ReadFailsStillSent(p) ==
  /\ pc[p] = "read"
  /\ IF sent[p] THEN RequestFailed(QueueOf[p], req[p]) ELSE UNCHANGED failed
  /\ Goto(p, "top")
  /\ UNCHANGED << localVars, cancelled, torrentVars >>

ReadFails(p) ==
  /\ pc[p] = "read"
  /\ IF sent[p] THEN RequestFailed(QueueOf[p], req[p]) ELSE UNCHANGED failed
  /\ sent' = [sent EXCEPT ![p] = FALSE]
  /\ Goto(p, "top")
  /\ UNCHANGED << choked, bitset, blockIdx, pieceIdx, req, delivering, made,
                  cancelled, torrentVars >>

Reading(p) == pc[p] \in {"read", "unchoke"}

\* Where p goes once the message it read is handled and Choked is c.
Handled(p, c) ==
  Goto(p, IF pc[p] \in {"read", "deliver"} THEN "top" ELSE Stage(p, c))

ReceiveChoke(p, c) ==          \* Choke (c = TRUE) or Unchoke (c = FALSE)
  /\ Reading(p)
  /\ choked' = [choked EXCEPT ![p] = c]
  /\ Handled(p, c)
  /\ UNCHANGED << bitset, blockIdx, pieceIdx, req, sent, delivering, made,
                  cancelled, failed, torrentVars >>

ReceiveHave(p, i) ==
  /\ Reading(p)
  /\ bitset' = [bitset EXCEPT ![p] = @ \cup {i}]
  /\ Handled(p, choked[p])
  /\ UNCHANGED << choked, blockIdx, pieceIdx, req, sent, delivering, made,
                  cancelled, failed, torrentVars >>

ReceiveBitfield(p, have) ==
  /\ Reading(p)
  /\ bitset' = [bitset EXCEPT ![p] = { BitOf(i) : i \in have }]
  /\ Handled(p, choked[p])
  /\ UNCHANGED << choked, blockIdx, pieceIdx, req, sent, delivering, made,
                  cancelled, failed, torrentVars >>

\* Keepalive, Interested, NotInterested, Request, Cancel, an unknown type, or a
\* piece that fails the hash check: nothing Run reads changes.
ReceiveOther(p) ==
  /\ Reading(p)
  /\ Handled(p, choked[p])
  /\ UNCHANGED << localVars, cancelled, failed, torrentVars >>

\* A piece that passes the hash check: p is left at the channel send.
ReceivePiece(p, m) ==
  /\ Reading(p)
  /\ CheckPiece(m)
  /\ delivering' = [delivering EXCEPT ![p] = m]
  /\ Goto(p, IF pc[p] = "read" THEN "deliver" ELSE "deliverUnchoking")
  /\ UNCHANGED << choked, bitset, blockIdx, pieceIdx, req, sent, made,
                  cancelled, failed, torrentVars >>

\* Mutant of Deliver: the answered request is forgotten, sentPieceMsg reset.
DeliverAnswered(p) ==
  /\ pc[p] \in {"deliver", "deliverUnchoking"}
  /\ Len(pieceCh) < ChanCap
  /\ pieceCh' = Append(pieceCh, delivering[p])
  /\ bitset' = [bitset EXCEPT ![p] = @ \cup {delivering[p].piece}]
  /\ delivering' = [delivering EXCEPT ![p] = NoMsg]
  /\ sent' = [sent EXCEPT ![p] = FALSE]
  /\ Handled(p, choked[p])
  /\ UNCHANGED << choked, blockIdx, pieceIdx, req, made, cancelled, failed,
                  requested, downloaded, writing, disk, download >>

\* The send succeeds; the peer is then known to have the piece.
Deliver(p) ==
  /\ pc[p] \in {"deliver", "deliverUnchoking"}
  /\ Len(pieceCh) < ChanCap
  /\ pieceCh' = Append(pieceCh, delivering[p])
  /\ bitset' = [bitset EXCEPT ![p] = @ \cup {delivering[p].piece}]
  /\ delivering' = [delivering EXCEPT ![p] = NoMsg]
  /\ Handled(p, choked[p])
  /\ UNCHANGED << choked, blockIdx, pieceIdx, req, sent, made, cancelled, failed,
                  requested, downloaded, writing, disk, download >>

(***************************************************************************)
(* The system.                                                             *)
(***************************************************************************)
Receive(p) ==
  \/ \E c \in BOOLEAN : ReceiveChoke(p, c)
  \/ \E i \in Pieces : ReceiveHave(p, i)
  \/ \E have \in SUBSET Pieces : ReceiveBitfield(p, have)
  \/ ReceiveOther(p)
  \/ \E m \in PieceMsgs : ReceivePiece(p, m)

Request(p) ==
  \/ NextBlock(p) \/ PopFailed(p) \/ NothingFailed(p)
  \/ ClaimPiece(p) \/ NothingToClaim(p)
  \/ SendRequest(p) \/ SendFails(p)

PeerStep(p) ==
  \/ LoopExit(p) \/ LoopTop(p) \/ KeepAliveFails(p) \/ UnchokeCancelled(p)
  \/ Request(p)
  \/ ReadFails(p) \/ Receive(p) \/ Deliver(p)

WriterStep == Writer /\ UNCHANGED << peerVars, cancelled, failed >>

\* The user interrupts the program, or Manager.Stop is called.
Cancel ==
  /\ ~cancelled
  /\ cancelled' = TRUE
  /\ UNCHANGED << peerVars, failed, torrentVars >>

Next == (\E p \in Peers : PeerStep(p)) \/ WriterStep \/ Cancel

\* Goroutines are scheduled and a read ends by its deadline of a second, with a
\* message or an error, but nobody has to send one: an uncancelled unchoke may
\* go round for ever.  The writer keeps draining the channel.
Scheduled(p) == UnchokeCancelled(p) \/ (pc[p] # "unchoke" /\ PeerStep(p))
Fairness == (\A p \in Peers : WF_vars(Scheduled(p))) /\ WF_vars(WriterStep)

Spec     == Init /\ [][Next]_vars
FairSpec == Spec /\ Fairness

(***************************************************************************)
(* Properties.                                                             *)
(***************************************************************************)
Stages == { "top", "unchoke", "request", "claim", "write", "read", "deliver",
            "deliverUnchoking", "exited" }

PeerTypeOK ==
  /\ pc \in [Peers -> Stages]
  /\ choked \in [Peers -> BOOLEAN]
  /\ bitset \in [Peers -> SUBSET BitIndices]
  /\ blockIdx \in [Peers -> Nat]
  /\ pieceIdx \in [Peers -> Pieces]
  /\ req \in [Peers -> Requests \cup {NoReq}]
  /\ sent \in [Peers -> BOOLEAN]
  /\ delivering \in [Peers -> PieceMsgs \cup {NoMsg}]
  /\ made \in [Peers -> Nat]
  /\ cancelled \in BOOLEAN

\* What the place of goroutine p says about its variables.
PlaceOK(p) ==
  /\ pc[p] \in {"request", "claim", "write"} => ~sent[p]
  /\ sent[p] \/ pc[p] = "write" => req[p] # NoReq
  /\ pc[p] \in {"deliver", "deliverUnchoking"} <=> delivering[p] # NoMsg

\* Every variable keeps its type; p has a request whenever it needs one, never
\* asks for a second, and has a checked message in hand exactly while it is
\* blocked on the piece channel.
TypeOK ==
  /\ failed \in [Queues -> Seq(Requests)]
  /\ TorrentTypeOK
  /\ PeerTypeOK
  /\ \A p \in Peers : PlaceOK(p)

\* p holds req[p]: it is about to send it, or has sent it and will queue it when
\* the next read fails.  A peer that has exited keeps what it held: it is lost.
Owns(p) == sent[p] \/ pc[p] = "write"
Id(r)   == << r.by, r.n >>

OneOwner ==
  \A r1, r2 \in Peers : Owns(r1) /\ Owns(r2) /\ Id(req[r1]) = Id(req[r2]) => r1 = r2
OneSlot ==
  \A s1, s2 \in Queues : \A k1 \in DOMAIN failed[s1], k2 \in DOMAIN failed[s2] :
    Id(failed[s1][k1]) = Id(failed[s2][k2]) => s1 = s2 /\ k1 = k2
OwnedOrQueued ==
  \A r \in Peers, q \in Queues : \A k \in DOMAIN failed[q] :
    Owns(r) => Id(req[r]) # Id(failed[q][k])

\* A request is in one place at a time: with one peer, or in one slot of one
\* stack (nextRequestMessage takes it off the stack, RequestFailed puts it
\* back, and never twice).  Two holders would ask for the same block together.
SingleHolder == OneOwner /\ OneSlot /\ OwnedOrQueued

\* Run and unchoke drop no request on any path: each one ever made is with a
\* peer, or on the stack of the round of the peer that made it.
NoRequestForgotten ==
  \A b \in Peers : \A n \in 0 .. made[b] - 1 :
    \/ \E p \in Peers : Owns(p) /\ Id(req[p]) = << b, n >>
    \/ \E k \in DOMAIN failed[QueueOf[b]] : Id(failed[QueueOf[b]][k]) = << b, n >>

\* The stacks as sets, and what each peer holds: a request that is nowhere or in two
\* places would be a step that RequestPool does not have.
InHands  == [p \in Peers |-> IF Owns(p) THEN {req[p]} ELSE {}]
OnStacks == [q \in Queues |-> {failed[q][k] : k \in DOMAIN failed[q]}]

Pool == INSTANCE RequestPool WITH hand <- InHands, pool <- OnStacks, claimed <- requested

\* Whatever sends, reads and keepalives fail, every step makes one request, moves one
\* between a peer and the stack of its round, unchanged, or leaves all where they are; and
\* Torrent.Next hands out a piece once, to a peer that then has a request for it.
ImplementsRequestPool == Pool!Spec

\* With pieces of at least a block, a peer makes a request of its own before it
\* holds any: blockIdx counts them, and only a peer past its last block retries.
MadeFirst ==
  BlockNum > 0 =>
    \A p \in Peers : blockIdx[p] <= made[p] /\ (Owns(p) => made[p] > 0)

\* A request never leaves the announce round of the peer that made it.
RequestsInRound ==
  /\ \A r \in Peers : Owns(r) =>
       QueueOf[req[r].by] = QueueOf[r] /\ req[r].n < made[req[r].by]
  /\ \A q \in Queues : \A k \in DOMAIN failed[q] :
       QueueOf[failed[q][k].by] = q /\ failed[q][k].n < made[failed[q][k].by]

\* What the two together cost: an answered request is queued again like a failed
\* one, so a peer that has run out of blocks always finds something to retry, and
\* with pieces of at least a block no peer ever calls Torrent.Next.
NoClaimWithBlocks ==
  BlockNum > 0 => requested = {} /\ \A p \in Peers : pc[p] # "claim"

\* So a download of such pieces asks for blocks of piece 0 and nothing else.
OnlyFirstPiece ==
  BlockNum > 0 =>
    /\ \A p \in Peers : pieceIdx[p] = 0 /\ (Owns(p) => req[p].piece = 0)
    /\ \A q \in Queues : \A k \in DOMAIN failed[q] : failed[q][k].piece = 0

\* With shorter pieces a peer calls Next only when its round's stack is empty: no
\* more pieces are ever claimed than there are peers.
OneClaimEach == Cardinality(requested) <= Cardinality(Peers)

\* A piece marked downloaded, which Done and so the end of every Run rest on, is
\* on disk in full with the right bytes.
DownloadedOnDisk ==
  \A i \in downloaded : \A u \in 0 .. LenOf(i) - 1 : << i, u >> \in disk

\* Only messages that passed CheckPiece are on their way to the disk.
InFlightChecked ==
  /\ \A p \in Peers : delivering[p] # NoMsg => CheckPiece(delivering[p])
  /\ \A k \in DOMAIN pieceCh : CheckPiece(pieceCh[k])
  /\ writing # NoMsg => CheckPiece(writing)

\* CheckPiece hashes the data of one message against a whole piece: when pieces
\* are longer than the longest reply, no piece is ever marked downloaded.
LongPiecesNeverMarked == ReplyUnits < PieceUnits => downloaded = {}

\* A piece of PieceLength bytes that are all on disk is marked once the writer has
\* come to rest, whichever message stored the last of them.
StoredPiecesMarked ==
  writing = NoMsg =>
    \A i \in Pieces \ downloaded :
      LenOf(i) = PieceUnits => \E u \in 0 .. LenOf(i) - 1 : << i, u >> \notin disk

\* The channel as pieces: what passed the check carries a piece whole and right.
PiecesOf(s) == [k \in DOMAIN s |-> s[k].piece]

Store ==
  INSTANCE PieceStore WITH
    Length  <- [i \in Pieces |-> LenOf(i)],
    Room    <- ChanCap,
    Limit   <- MaxDownload,
    waiting <- PiecesOf(pieceCh),
    hand    <- IF writing = NoMsg THEN {} ELSE {writing.piece},
    marked  <- downloaded,
    counted <- download

\* Whatever runs of bytes peers send and whichever writes fail, the peers, the channel and
\* WritePiece count, store and mark whole right pieces, in the order they were sent on the
\* channel, and no store spoils a byte that was right before.
ImplementsPieceStore == Store!Spec

\* WritePiece takes a piece for complete when a message ends at PieceLength, also the
\* last one: a torrent whose last piece is shorter never is, whatever is on disk, so
\* Done never holds and no Run ends by it.
ShortLastNeverComplete == LastUnits < PieceUnits => ~Complete

\* Every byte on disk was counted by stats.AddDownload before it was written.
StoredIsCounted == MaxDownload >= NumPieces * PieceUnits => Cardinality(disk) <= download

\* Once the context is cancelled every Run returns, from wherever it is.
CancelStopsPeers == cancelled ~> \A p \in Peers : pc[p] = "exited"

\* Once every piece is downloaded, a Run whose peer keeps it unchoked returns.
\* (A choked one may wait in unchoke for ever: that loop does not look at Done.)
CompleteStopsUnchoked ==
  \A p \in Peers : <>[](Complete /\ ~choked[p]) => <>(pc[p] = "exited")

\* Run "downloads torrent pieces": a peer that stays unchoked and running makes a
\* request.  It does when its ClientStatus.Interested is set...
RequestsWhen(p) ==
  <>[](~choked[p] /\ ~cancelled /\ ~Complete /\ pc[p] # "exited") => <>(made[p] > 0)

InterestedRequest == \A p \in Interested : RequestsWhen(p)

\* ... but SendInterested does not set it, so a peer started by the Manager, which
\* leaves it as NewPeer made it, never does.
EveryPeerRequests == \A p \in Peers : RequestsWhen(p)
=============================================================================

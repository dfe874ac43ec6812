------------------------------- MODULE Torrent -------------------------------
(***************************************************************************)
(* torrent.Torrent: the claim of pieces (Next), the hash check             *)
(* (CheckPiece), the completion test (Done) and the single goroutine that  *)
(* drains the piece channel into the files (WritePiece).                   *)
(*                                                                         *)
(* Lengths are counted in units, a common divisor of the piece, block and  *)
(* last-piece lengths.  A piece message carries a run of consecutive units *)
(* of one piece; its bytes are kept as one bit, whether they are the       *)
(* torrent's own bytes for that run.                                       *)
(***************************************************************************)
EXTENDS Integers, Sequences, FiniteSets

CONSTANTS
  NumPieces,    \* PiecesNum
  PieceUnits,   \* PieceLength
  LastUnits,    \* length of the last piece, at most PieceLength
  BlockUnits,   \* torrent.BlockLength
  ReplyUnits,   \* longest run a peer sends in one piece message: BlockLength
                \* for a peer that answers the requests it gets
  ChanCap,      \* capacity of the piece channel, 1024 in the code
  MaxDownload,  \* bound: the download counter saturates here
  NoMsg         \* no message in the writer's hands

ASSUME TorrentAssumption ==
  /\ NumPieces \in Nat \ {0}
  /\ PieceUnits \in Nat \ {0}
  /\ LastUnits \in 1 .. PieceUnits
  /\ BlockUnits \in Nat \ {0}
  /\ ReplyUnits \in Nat \ {0}
  /\ ChanCap \in Nat \ {0}
  /\ MaxDownload \in Nat

Pieces == 0 .. NumPieces - 1

\* Length in units of piece i; the torrent length fixes it, no field holds it.
LenOf(i) == IF i = NumPieces - 1 THEN LastUnits ELSE PieceUnits

\* NewPeer's blockNum and New's numOfBlocks: an integer division, so it is 0
\* when a piece is shorter than a block and drops a remainder otherwise.
BlockNum == PieceUnits \div BlockUnits

\* The piece messages a peer can send: a run of units inside one piece.
PieceMsgs ==
  { m \in [piece: Pieces, first: 0 .. PieceUnits - 1, len: 1 .. PieceUnits,
           sound: BOOLEAN] :
      m.first + m.len <= LenOf(m.piece) /\ m.len <= ReplyUnits }

ASSUME NoMsgAssumption == NoMsg \notin PieceMsgs

VARIABLES
  requested,    \* the pieces some peer has claimed
  downloaded,   \* the pieces the writer has marked complete
  pieceCh,      \* the channel from the peers to the writer
  writing,      \* the message the writer has taken and not yet stored
  disk,         \* the units <<piece, unit>> that hold the torrent's own bytes
  download      \* stats.download: units the writer was handed, good or not

torrentVars == << requested, downloaded, pieceCh, writing, disk, download >>
writerVars  == << downloaded, pieceCh, writing, disk, download >>

TorrentInit ==
  /\ requested = {}
  /\ downloaded = {}
  /\ pieceCh = << >>
  /\ writing = NoMsg
  /\ disk = {}
  /\ download = 0

(***************************************************************************)
(* Operations the peers call.                                              *)
(***************************************************************************)

\* Mutant of CheckPiece: a message of good bytes passes, whatever its length.
AnyGoodRun(m) == m.sound

\* The sha1 of the message's data is compared with that of the whole piece, so
\* only a message that carries every unit of the piece can pass.  The offset is not
\* looked at; that it is 0 then follows from PieceMsgs.
CheckPiece(m) == m.sound /\ m.len = LenOf(m.piece)

Complete == downloaded = Pieces          \* Done()

Claimable(have) == (Pieces \ requested) \cap have

\* Next(have) when it finds a piece: the lowest one in have nobody claimed.
Claim(have, i) ==
  /\ i \in Claimable(have)
  /\ \A j \in Claimable(have) : i <= j
  /\ requested' = requested \cup {i}

(***************************************************************************)
(* WritePiece: one iteration of its loop is a take and then a store or a   *)
(* failed store.                                                           *)
(***************************************************************************)
AddDownload(n) == IF download + n > MaxDownload THEN MaxDownload ELSE download + n

\* Mutant of WriterTake: AddDownload is forgotten.
TakeUncounted ==
  /\ writing = NoMsg
  /\ pieceCh # << >>
  /\ writing' = Head(pieceCh)
  /\ pieceCh' = Tail(pieceCh)
  /\ UNCHANGED << requested, downloaded, disk, download >>

WriterTake ==
  /\ writing = NoMsg
  /\ pieceCh # << >>
  /\ writing' = Head(pieceCh)
  /\ pieceCh' = Tail(pieceCh)
  /\ download' = AddDownload(Head(pieceCh).len)
  /\ UNCHANGED << requested, downloaded, disk >>

\* The first k units of message m, as they land on the disk.
Stored(m, k) ==
  LET units == { <<m.piece, u>> : u \in m.first .. m.first + k - 1 }
  IN  IF m.sound THEN disk \cup units ELSE disk \ units

\* Mutant of EndsPiece: the index of the last unit is compared with the length.
LastUnitIsLength(m) == m.first + m.len - 1 = PieceUnits

\* Mutant of EndsPiece: the length of the piece itself is compared.
EndsThisPiece(m) == m.first + m.len = LenOf(m.piece)

\* offset + len(data) == PieceLength
EndsPiece(m) == m.first + m.len = PieceUnits

WriterStore ==
  /\ writing # NoMsg
  /\ disk' = Stored(writing, writing.len)
  /\ downloaded' = IF EndsPiece(writing) THEN downloaded \cup {writing.piece}
                                         ELSE downloaded
  /\ writing' = NoMsg
  /\ UNCHANGED << requested, pieceCh, download >>

\* Mutant of WriterFail: the error does not skip the rest of the iteration.
FailAndMark ==
  /\ writing # NoMsg
  /\ \E k \in 0 .. writing.len - 1 : disk' = Stored(writing, k)
  /\ downloaded' = IF EndsPiece(writing) THEN downloaded \cup {writing.piece}
                                         ELSE downloaded
  /\ writing' = NoMsg
  /\ UNCHANGED << requested, pieceCh, download >>

\* writePieceData returned an error after a prefix of the data was written: it
\* is logged and the message is dropped.
WriterFail ==
  /\ writing # NoMsg
  /\ \E k \in 0 .. writing.len - 1 : disk' = Stored(writing, k)
  /\ writing' = NoMsg
  /\ UNCHANGED << requested, downloaded, pieceCh, download >>

Writer == WriterTake \/ WriterStore \/ WriterFail

TorrentTypeOK ==
  /\ requested \subseteq Pieces
  /\ downloaded \subseteq Pieces
  /\ pieceCh \in Seq(PieceMsgs)
  /\ Len(pieceCh) <= ChanCap
  /\ writing \in PieceMsgs \cup {NoMsg}
  /\ disk \subseteq Pieces \X (0 .. PieceUnits - 1)
  /\ download \in 0 .. MaxDownload
=============================================================================

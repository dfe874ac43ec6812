----------------------------- MODULE FileWriter -----------------------------
(***************************************************************************)
(* Torrent.writePieceData: a piece, given by its absolute position in the  *)
(* torrent, is written to the one file of the torrent or spread over the   *)
(* files of a directory.  Only the writer goroutine calls it, one call at  *)
(* a time; a loop iteration or a WriteAt is one step.                      *)
(*                                                                         *)
(* Bytes are named by their position in the torrent, so a place on the     *)
(* disk holds Empty or the position of the byte last written there.  Files *)
(* are numbered from 1.                                                    *)
(***************************************************************************)
EXTENDS Integers, Sequences

CONSTANTS
  Paths,        \* the paths of files
  Layouts,      \* torrents: [dir: IsDirectory, file: their files in order]
  MaxSize,      \* bound: length of the largest torrent
  MaxData,      \* bound: length of the longest data
  Overrun,      \* bound: how far past the end of the torrent a call may start
  NoCall,       \* no call is in progress
  Empty         \* a byte nobody has written

VARIABLES
  layout,       \* the torrent: TorrentFiles, OsFiles, IsDirectory
  pc,           \* idle, find, write
  call,         \* the arguments of the last call: position and len(data)
  piecePoss,    \* as the code reassigns it
  left,         \* bytes of data still to write, len(data) as it is resliced
  fileIdx,      \* the current file
  disk,         \* disk[<<path, offset>>]
  result        \* what the last call returned: none, ok, error

vars == << layout, pc, call, piecePoss, left, fileIdx, disk, result >>

Calls == [pos: 0 .. MaxSize + Overrun, len: 1 .. MaxData]

\* Start(l)[i]: the position in the torrent of the first byte of file i.
Start(l) ==
  LET s[i \in 1 .. Len(l.file) + 1] ==
        IF i = 1 THEN 0 ELSE s[i - 1] + l.file[i - 1].len
  IN  s

\* Torrent.Length.
Total(l) == Start(l)[Len(l.file) + 1]

\* The bytes of the files initDownloadDir creates, one per path.
Places(l) ==
  UNION { {l.file[i].path} \X (0 .. l.file[i].len - 1) : i \in DOMAIN l.file }

ASSUME FileWriterAssumption ==
  /\ MaxSize \in Nat \ {0} /\ MaxData \in Nat \ {0} /\ Overrun \in Nat
  /\ NoCall \notin Calls /\ Empty \notin Nat
  /\ Layouts \subseteq [dir: BOOLEAN, file: Seq([path: Paths, len: Nat])]
  /\ \A l \in Layouts : Total(l) \in 1 .. MaxSize /\ (~l.dir => Len(l.file) = 1)

Init ==
  /\ layout \in Layouts
  /\ pc = "idle" /\ call = NoCall
  /\ piecePoss = 0 /\ left = 0 /\ fileIdx = 1
  /\ disk = [x \in Places(layout) |-> Empty]
  /\ result = "none"

Beyond     == fileIdx > Len(layout.file)
FileLength == layout.file[fileIdx].len

\* The branch for a single file has no bound of its own: its calls, from pieces
\* of the torrent, end within it.
Call(c) ==
  /\ pc = "idle"
  /\ ~layout.dir => c.pos + c.len <= Total(layout)
  /\ call' = c
  /\ piecePoss' = c.pos /\ left' = c.len /\ fileIdx' = 1
  /\ pc' = IF layout.dir THEN "find" ELSE "write"
  /\ result' = "none"
  /\ UNCHANGED << layout, disk >>

Return(r) == pc' = "idle" /\ result' = r

(***************************************************************************)
(* The search for the file of piecePoss.                                   *)
(***************************************************************************)

\* Mutant of SkipFile: the position is not made relative to the next file.
SkipKeepsPosition ==
  /\ pc = "find"
  /\ ~Beyond
  /\ FileLength <= piecePoss
  /\ fileIdx' = fileIdx + 1
  /\ UNCHANGED << layout, pc, call, piecePoss, left, disk, result >>

\* Mutant of SkipFile: the index is not advanced, for an empty file the search
\* then goes on for ever.
SkipStays ==
  /\ pc = "find"
  /\ ~Beyond
  /\ FileLength <= piecePoss
  /\ piecePoss' = piecePoss - FileLength
  /\ UNCHANGED << layout, pc, call, left, fileIdx, disk, result >>

\* Mutant of SkipFile: off by one, the last byte of a file counts as the next's.
SkipPastLast ==
  /\ pc = "find"
  /\ ~Beyond
  /\ FileLength <= piecePoss + 1
  /\ piecePoss' = piecePoss - FileLength
  /\ fileIdx' = fileIdx + 1
  /\ UNCHANGED << layout, pc, call, left, disk, result >>

SkipFile ==
  /\ pc = "find"
  /\ ~Beyond
  /\ FileLength <= piecePoss
  /\ piecePoss' = piecePoss - FileLength
  /\ fileIdx' = fileIdx + 1
  /\ UNCHANGED << layout, pc, call, left, disk, result >>

FoundFile ==
  /\ pc = "find"
  /\ ~Beyond
  /\ FileLength > piecePoss
  /\ pc' = "write"
  /\ UNCHANGED << layout, call, piecePoss, left, fileIdx, disk, result >>

\* "piece position beyond all torrent files"
PositionBeyond ==
  /\ pc = "find"
  /\ Beyond
  /\ Return("error")
  /\ UNCHANGED << layout, call, piecePoss, left, fileIdx, disk >>

(***************************************************************************)
(* The writes.                                                             *)
(***************************************************************************)

\* toWrite: what is left of the data, cut at the end of the current file.
ToWrite ==
  IF layout.dir /\ left > FileLength - piecePoss THEN FileLength - piecePoss ELSE left

\* WriteAt of the next n bytes of the data.
WriteAt(n) ==
  disk' = [x \in DOMAIN disk |->
            IF x[1] = layout.file[fileIdx].path /\ x[2] \in piecePoss .. piecePoss + n - 1
            THEN call.pos + call.len - left + x[2] - piecePoss
            ELSE disk[x]]

\* Mutant of WriteFile: the next file is written from the old position.
WriteKeepsPosition ==
  /\ pc = "write"
  /\ left > 0 /\ ~Beyond
  /\ WriteAt(ToWrite)
  /\ left' = left - ToWrite
  /\ fileIdx' = fileIdx + 1
  /\ UNCHANGED << layout, pc, call, piecePoss, result >>

WriteFile ==
  /\ pc = "write"
  /\ left > 0 /\ ~Beyond
  /\ WriteAt(ToWrite)
  /\ left' = left - ToWrite
  /\ piecePoss' = 0
  /\ fileIdx' = fileIdx + 1
  /\ UNCHANGED << layout, pc, call, result >>

\* WriteAt returns an error, with a shorter part written.
WriteFileFails ==
  /\ pc = "write"
  /\ left > 0 /\ ~Beyond
  /\ \E n \in 0 .. ToWrite - 1 : WriteAt(n)
  /\ Return("error")
  /\ UNCHANGED << layout, call, piecePoss, left, fileIdx >>

\* "data extends beyond torrent files"
DataBeyond ==
  /\ pc = "write"
  /\ left > 0 /\ Beyond
  /\ Return("error")
  /\ UNCHANGED << layout, call, piecePoss, left, fileIdx, disk >>

AllWritten ==
  /\ pc = "write"
  /\ left = 0
  /\ Return("ok")
  /\ UNCHANGED << layout, call, piecePoss, left, fileIdx, disk >>

Working ==
  \/ SkipFile \/ FoundFile \/ PositionBeyond
  \/ WriteFile \/ WriteFileFails \/ DataBeyond \/ AllWritten

Next == Working \/ \E c \in Calls : Call(c)

Spec     == Init /\ [][Next]_vars
FairSpec == Spec /\ WF_vars(Working)

(***************************************************************************)
(* Properties.                                                             *)
(***************************************************************************)
\* Every variable keeps its type: the position, relative to the current file, is
\* never negative, and no index is past the end.
TypeOK ==
  /\ layout \in Layouts
  /\ pc \in {"idle", "find", "write"}
  /\ call \in Calls \cup {NoCall}
  /\ piecePoss \in Nat /\ left \in Nat
  /\ fileIdx \in 1 .. Len(layout.file) + 1
  /\ disk \in [Places(layout) -> {Empty} \cup 0 .. MaxSize - 1]
  /\ result \in {"none", "ok", "error"}

\* Every file holds its own part of the torrent and nothing else: what is at
\* offset o of file i, if anything, is byte Start[i] + o.  writePieceData "writes
\* data at the given absolute torrent byte position, spanning across multiple
\* files as needed".
BytesInPlace ==
  \A i \in DOMAIN layout.file : \A o \in 0 .. layout.file[i].len - 1 :
    disk[<< layout.file[i].path, o >>] \in {Empty, Start(layout)[i] + o}

\* A byte once written is not replaced by that of another position: writes at
\* different positions of the torrent go to different places.
BytesKept == [][\A x \in DOMAIN disk : disk[x] # Empty => disk'[x] = disk[x]]_vars

\* Every call returns: the search and the loop over files end.
CallReturns == pc # "idle" ~> pc = "idle"

\* The file that holds byte g of the torrent, and the byte as the files have it.
FileOf(g) ==
  CHOOSE i \in DOMAIN layout.file :
    g \in Start(layout)[i] .. Start(layout)[i] + layout.file[i].len - 1
Image ==
  [g \in 0 .. Total(layout) - 1 |->
    disk[<< layout.file[FileOf(g)].path, g - Start(layout)[FileOf(g)] >>]]

Flat == INSTANCE FlatDisk WITH
  size   <- Total(layout),
  image  <- Image,
  call   <- IF pc = "idle" THEN NoCall ELSE call,
  stored <- IF pc = "idle" THEN 0 ELSE call.len - left

\* Seen through the files in their order, the disk is one array: a call stores its
\* data at its position in order, no error means all of it is stored, an error
\* that a byte is missing.
ImplementsFlatDisk == Flat!Spec
=============================================================================

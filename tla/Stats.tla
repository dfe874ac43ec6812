-------------------------------- MODULE Stats --------------------------------
(***************************************************************************)
(* stats.Stats as the writer, the printer and the announces share it:      *)
(* atomic 64-bit counters, each read and written on its own.  The writer   *)
(* counts every message it takes from the channel (Torrent.WritePiece),    *)
(* one it has had before as well.  The printer turns the counters into a   *)
(* progress bar of BarSize characters.                                     *)
(*                                                                         *)
(* A message that reaches the writer has passed CheckPiece, so it is a     *)
(* whole piece: two of them are the same piece or have no byte in common.  *)
(***************************************************************************)
EXTENDS Integers, FiniteSets

CONSTANTS
  Blocks,       \* the messages that make up the torrent
  BytesOf,      \* BytesOf[b]: where in the torrent the bytes of b are
  Size,         \* the torrent's length
  Width,        \* counters are numbers modulo Width, 2^64 in the code
  BarSize,      \* characters of the bar, 20 in the code
  MaxTakes,     \* bound: how often the writer takes the same message
  NoBlock       \* the writer is not inside AddDownload

ASSUME StatsAssumption ==
  /\ Size \in Nat \ {0} /\ Width \in Nat /\ Size < Width
  /\ BytesOf \in [Blocks -> SUBSET (0 .. Size - 1)]
  /\ \A b, c \in Blocks : b # c => BytesOf[b] \cap BytesOf[c] = {}
  /\ BarSize \in Nat \ {0} /\ MaxTakes \in Nat
  /\ NoBlock \notin Blocks

VARIABLES
  download,     \* bytes counted
  left,         \* bytes to go
  adding,       \* the message of the AddDownload in progress
  taken,        \* taken[b]: how often the writer has taken b
  crash         \* the bar has panicked, which ends the process

statsVars == << download, left, adding, taken, crash >>

\* The size AddDownload is called with.
BlockLen(b) == Cardinality(BytesOf[b])

StatsInit ==
  /\ download = 0 /\ left = Size
  /\ adding = NoBlock /\ taken = [b \in Blocks |-> 0]
  /\ crash = FALSE

\* One atomic addition: of n to download, or of -n to left, which wraps below zero.
Add(counter, n) ==
  \/ counter = "download" /\ download' = (download + n) % Width /\ UNCHANGED left
  \/ counter = "left" /\ left' = (left - n) % Width /\ UNCHANGED download

\* Mutant of Order: the counters in the other order.
LeftFirst == << "left", "download" >>

\* The order of the two additions of AddDownload.
Order == << "download", "left" >>

AddDownload(b) ==
  /\ adding = NoBlock /\ taken[b] < MaxTakes
  /\ Add(Order[1], BlockLen(b))
  /\ adding' = b /\ taken' = [taken EXCEPT ![b] = @ + 1]
  /\ UNCHANGED crash

\* Mutant of FinishAdd: signed numbers.
FinishAddSigned ==
  /\ adding # NoBlock
  /\ left' = left - BlockLen(adding)
  /\ adding' = NoBlock
  /\ UNCHANGED << download, taken, crash >>

FinishAdd ==
  /\ adding # NoBlock
  /\ Add(Order[2], BlockLen(adding))
  /\ adding' = NoBlock
  /\ UNCHANGED << taken, crash >>

\* Mutant of PercentCompleted: of what is left.
PercentOfLeft ==
  IF left = 0 THEN 0 ELSE (200 * download + left) \div (2 * left)

\* Round of a quotient, half away from zero.  Size is never 0 here.
PercentCompleted ==
  IF download = 0 THEN 0 ELSE (200 * download + Size) \div (2 * Size)

\* The filled characters; strings.Repeat panics on a negative count of the others.
RepeatChars == (BarSize * PercentCompleted) \div 100

PrintBar ==
  /\ crash' = (RepeatChars > BarSize)
  /\ UNCHANGED << download, left, adding, taken >>

StatsNext == (\E b \in Blocks : AddDownload(b)) \/ FinishAdd \/ PrintBar
=============================================================================

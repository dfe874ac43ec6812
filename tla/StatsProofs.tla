------------------------------ MODULE StatsProofs ------------------------------
(***************************************************************************)
(* The counters of Stats, for any torrent, any messages and any width.     *)
(*                                                                         *)
(* What has been counted is a set, of the bytes of the torrent each with   *)
(* the number of the time it came; the counters are compared with how many *)
(* elements it has, so no sum over the messages is needed.                 *)
(***************************************************************************)
EXTENDS Stats, FiniteSetTheorems, NumberLemmas

(***************************************************************************)
(* Finite sets.                                                            *)
(***************************************************************************)

\* A set has as many elements as pairs of one thing with each of them.
LEMMA PairsWithOne ==
  ASSUME NEW k, NEW S, IsFiniteSet(S)
  PROVE  IsFiniteSet({k} \X S) /\ Cardinality({k} \X S) = Cardinality(S)
<1>1. IsFiniteSet({k}) /\ Cardinality({k}) = 1
  BY FS_Singleton
<1>2. Cardinality(S) \in Nat
  BY FS_CardinalityType
<1>3. IsFiniteSet({k} \X S) /\ Cardinality({k} \X S) = Cardinality({k}) * Cardinality(S)
  BY <1>1, FS_Product
<1> QED
  BY <1>1, <1>2, <1>3

(***************************************************************************)
(* Types.                                                                  *)
(***************************************************************************)
StatsTypeOK ==
  /\ download \in 0 .. Width - 1 /\ left \in 0 .. Width - 1
  /\ adding \in Blocks \cup {NoBlock} /\ taken \in [Blocks -> Nat]
  /\ crash \in BOOLEAN

\* A message has a length, at most that of the torrent.
LEMMA LengthOfBlock ==
  ASSUME NEW b \in Blocks
  PROVE  IsFiniteSet(BytesOf[b]) /\ BlockLen(b) \in 0 .. Size
<1>1. IsFiniteSet(0 .. Size - 1) /\ Cardinality(0 .. Size - 1) = Size
  BY StatsAssumption, FS_Interval
<1>2. BytesOf[b] \in SUBSET (0 .. Size - 1)
  BY StatsAssumption
<1> QED
  BY <1>1, <1>2, FS_Subset, FS_CardinalityType, StatsAssumption DEF BlockLen

\* What the two additions of AddDownload are.
LEMMA Additions ==
  /\ \A b \in Blocks : AddDownload(b) =>
       /\ download' = (download + BlockLen(b)) % Width /\ UNCHANGED left
       /\ adding = NoBlock /\ adding' = b
       /\ taken[b] < MaxTakes /\ taken' = [taken EXCEPT ![b] = @ + 1]
       /\ UNCHANGED crash
  /\ FinishAdd =>
       /\ left' = (left - BlockLen(adding)) % Width /\ UNCHANGED download
       /\ adding # NoBlock /\ adding' = NoBlock
       /\ UNCHANGED << taken, crash >>
BY DEF AddDownload, FinishAdd, Add, Order

\* Counters wrap, and stay counters.
LEMMA StatsType ==
  ASSUME StatsTypeOK, StatsNext
  PROVE  StatsTypeOK'
<1>1. Width \in Nat /\ Width > 0 /\ \A b \in Blocks : BlockLen(b) \in Nat
  BY StatsAssumption, LengthOfBlock
<1>2. ASSUME NEW b \in Blocks, AddDownload(b) PROVE StatsTypeOK'
  <2>1. taken' \in [Blocks -> Nat]
    BY <1>2, Additions DEF StatsTypeOK
  <2>2. (download + BlockLen(b)) % Width \in 0 .. Width - 1
    BY <1>1 DEF StatsTypeOK
  <2> QED
    BY <1>2, <2>1, <2>2, Additions DEF StatsTypeOK
<1>3. CASE FinishAdd
  <2>1. BlockLen(adding) \in Nat
    BY <1>1, <1>3, Additions DEF StatsTypeOK
  <2>2. (left - BlockLen(adding)) % Width \in 0 .. Width - 1
    BY <1>1, <2>1 DEF StatsTypeOK
  <2> QED
    BY <1>3, <2>2, Additions DEF StatsTypeOK
<1>4. CASE PrintBar
  BY <1>4 DEF PrintBar, StatsTypeOK
<1> QED
  BY <1>2, <1>3, <1>4 DEF StatsNext

(***************************************************************************)
(* What has been counted.                                                  *)
(***************************************************************************)
Counted ==
  {x \in (1 .. MaxTakes) \X (0 .. Size - 1) :
     \E b \in Blocks : x[1] <= taken[b] /\ x[2] \in BytesOf[b]}

Amount == Cardinality(Counted)

\* Counted in download and not yet taken off left.
Pending == IF adding = NoBlock THEN 0 ELSE BlockLen(adding)

\* left as a number that may go below zero.
Remaining == Size - Amount + Pending

\* The counters say what was counted as long as that is a number a counter holds.
CountInv ==
  /\ Pending <= Amount
  /\ Amount < Width =>
       /\ download = Amount
       /\ left = IF Remaining >= 0 THEN Remaining ELSE Remaining + Width

LEMMA AmountType ==
  /\ IsFiniteSet(Counted)
  /\ Amount \in Nat /\ Amount <= MaxTakes * Size
<1> DEFINE All == (1 .. MaxTakes) \X (0 .. Size - 1)
<1>1. Size \in Nat \ {0} /\ MaxTakes \in Nat
  BY StatsAssumption
<1>2. /\ IsFiniteSet(0 .. Size - 1) /\ Cardinality(0 .. Size - 1) = Size
      /\ IsFiniteSet(1 .. MaxTakes) /\ Cardinality(1 .. MaxTakes) = MaxTakes
  BY <1>1, FS_Interval
<1>3. IsFiniteSet(All) /\ Cardinality(All) = MaxTakes * Size
  BY <1>2, FS_Product
<1>4. Counted \in SUBSET All
  BY DEF Counted
<1> QED
  BY <1>3, <1>4, FS_Subset, FS_CardinalityType DEF Amount

\* While no message has come twice the amount is within the torrent.
LEMMA AmountOnce ==
  ASSUME StatsTypeOK, \A b \in Blocks : taken[b] <= 1
  PROVE  Amount <= Size
<1> DEFINE Once == {1} \X (0 .. Size - 1)
<1>1. IsFiniteSet(0 .. Size - 1) /\ Cardinality(0 .. Size - 1) = Size
  BY StatsAssumption, FS_Interval
<1>2. IsFiniteSet(Once) /\ Cardinality(Once) = Size
  BY <1>1, PairsWithOne
<1>3. Counted \in SUBSET Once
  BY StatsAssumption DEF Counted, StatsTypeOK
<1> QED
  BY <1>2, <1>3, FS_Subset, StatsAssumption DEF Amount

\* A message that is counted, for the first time or again, adds its length.
LEMMA AmountGrows ==
  ASSUME StatsTypeOK, NEW b \in Blocks, taken[b] < MaxTakes,
         taken' = [taken EXCEPT ![b] = @ + 1]
  PROVE  Amount' = Amount + BlockLen(b)
<1> DEFINE New == {taken[b] + 1} \X BytesOf[b]
<1>1. MaxTakes \in Nat /\ Size \in Nat \ {0} /\ taken[b] \in Nat
  BY StatsAssumption DEF StatsTypeOK
<1>2. IsFiniteSet(New) /\ Cardinality(New) = BlockLen(b)
  BY LengthOfBlock, PairsWithOne DEF BlockLen
<1>3. Counted' = Counted \cup New
  <2>1. ASSUME NEW x \in Counted' PROVE x \in Counted \cup New
    <3>1. PICK c \in Blocks : x[1] <= taken'[c] /\ x[2] \in BytesOf[c]
      BY <2>1 DEF Counted
    <3>2. x \in (1 .. MaxTakes) \X (0 .. Size - 1)
      BY <2>1 DEF Counted
    <3>3. CASE x[1] <= taken[c]
      BY <3>1, <3>2, <3>3 DEF Counted
    <3>4. CASE ~(x[1] <= taken[c])
      <4>1. c = b /\ x[1] = taken[b] + 1
        BY <1>1, <3>1, <3>2, <3>4 DEF StatsTypeOK
      <4> QED
        BY <3>1, <3>2, <4>1
    <3> QED
      BY <3>3, <3>4
  <2>2. ASSUME NEW x \in Counted PROVE x \in Counted'
    <3>1. PICK c \in Blocks : x[1] <= taken[c] /\ x[2] \in BytesOf[c]
      BY <2>2 DEF Counted
    <3>2. x \in (1 .. MaxTakes) \X (0 .. Size - 1)
      BY <2>2 DEF Counted
    <3>3. x[1] <= taken'[c]
      BY <1>1, <3>1, <3>2 DEF StatsTypeOK
    <3> QED
      BY <3>1, <3>2, <3>3 DEF Counted
  <2>3. ASSUME NEW x \in New PROVE x \in Counted'
    <3>1. x[1] = taken[b] + 1 /\ x[2] \in BytesOf[b] /\ BytesOf[b] \subseteq 0 .. Size - 1
      BY <2>3, StatsAssumption
    <3>2. x \in (1 .. MaxTakes) \X (0 .. Size - 1)
      BY <1>1, <2>3, <3>1
    <3>3. x[1] <= taken'[b]
      BY <1>1, <3>1 DEF StatsTypeOK
    <3> QED
      BY <3>1, <3>2, <3>3 DEF Counted
  <2> QED
    BY <2>1, <2>2, <2>3
<1>4. Counted \cap New = {}
  <2> SUFFICES ASSUME NEW x \in Counted, x \in New PROVE FALSE
    OBVIOUS
  <2>1. PICK c \in Blocks : x[1] <= taken[c] /\ x[2] \in BytesOf[c]
    BY DEF Counted
  <2>2. x[1] = taken[b] + 1 /\ x[2] \in BytesOf[b]
    OBVIOUS
  <2>3. b # c
    BY <1>1, <2>1, <2>2
  <2> QED
    BY <2>1, <2>2, <2>3, StatsAssumption
<1>5. Cardinality(Counted \cup New) = Cardinality(Counted) + Cardinality(New) - 0
  BY <1>2, <1>4, AmountType, FS_Union, FS_EmptySet
<1>6. Amount' = Cardinality(Counted')
  BY DEF Amount
<1> QED
  BY <1>2, <1>3, <1>5, <1>6, AmountType, LengthOfBlock DEF Amount

(***************************************************************************)
(* The counters and what was counted.                                      *)
(***************************************************************************)
LEMMA AdditionCounts ==
  ASSUME StatsTypeOK, CountInv, NEW b \in Blocks, AddDownload(b)
  PROVE  CountInv'
<1>1. /\ Size \in Nat \ {0} /\ Width \in Nat /\ Size < Width
      /\ BlockLen(b) \in Nat /\ Amount \in Nat /\ b # NoBlock
  BY StatsAssumption, LengthOfBlock, AmountType
<1>2. /\ download' = (download + BlockLen(b)) % Width /\ left' = left
      /\ adding = NoBlock /\ adding' = b
      /\ taken[b] < MaxTakes /\ taken' = [taken EXCEPT ![b] = @ + 1]
  BY Additions
<1>3. Amount' = Amount + BlockLen(b)
  BY <1>2, AmountGrows
<1>4. Pending = 0 /\ Pending' = BlockLen(b)
  BY <1>1, <1>2 DEF Pending, BlockLen
<1>5. Remaining' = Remaining
  BY <1>1, <1>3, <1>4 DEF Remaining
<1>6. ASSUME Amount' < Width PROVE download' = Amount'
  <2>1. Amount < Width /\ download = Amount
    BY <1>1, <1>3, <1>6 DEF CountInv
  <2> QED
    BY <1>1, <1>2, <1>3, <1>6, <2>1, SmallRemainder
<1> QED
  BY <1>1, <1>2, <1>3, <1>4, <1>5, <1>6 DEF CountInv

LEMMA SubtractionCounts ==
  ASSUME StatsTypeOK, CountInv, FinishAdd
  PROVE  CountInv'
<1>1. adding \in Blocks /\ left' = (left - BlockLen(adding)) % Width
  BY Additions DEF StatsTypeOK
<1>2. /\ UNCHANGED << download, taken >> /\ adding' = NoBlock
      /\ Pending = BlockLen(adding) /\ Pending' = 0
  BY Additions DEF Pending
<1>3. Amount' = Amount
  BY <1>2 DEF Amount, Counted
<1>4. /\ Size \in Nat \ {0} /\ Width \in Nat /\ Size < Width
      /\ BlockLen(adding) \in 0 .. Size /\ Amount \in Nat
  BY <1>1, StatsAssumption, LengthOfBlock, AmountType
<1>5. Remaining' = Remaining - BlockLen(adding)
  BY <1>2, <1>3, <1>4 DEF Remaining
<1>6. ASSUME Amount < Width
      PROVE  left' = IF Remaining' >= 0 THEN Remaining' ELSE Remaining' + Width
  <2>1. left = IF Remaining >= 0 THEN Remaining ELSE Remaining + Width
    BY <1>6 DEF CountInv
  <2>2. Remaining \in Int /\ -Width < Remaining - BlockLen(adding) /\ Remaining <= Size
    BY <1>2, <1>4, <1>6 DEF Remaining, CountInv
  <2>3. CASE Remaining >= 0
    <3>1. left - BlockLen(adding) = Remaining - BlockLen(adding)
      BY <2>1, <2>3
    <3> QED
      BY <1>1, <1>4, <1>5, <2>2, <3>1, SmallRemainder
  <2>4. CASE Remaining < 0
    <3>1. /\ left - BlockLen(adding) = Remaining - BlockLen(adding) + Width
          /\ left - BlockLen(adding) >= 0 /\ left - BlockLen(adding) < Width
      BY <1>4, <2>1, <2>2, <2>4
    <3> QED
      BY <1>1, <1>4, <1>5, <2>2, <2>4, <3>1, SmallRemainder
  <2> QED
    BY <2>2, <2>3, <2>4
<1> QED
  BY <1>2, <1>3, <1>4, <1>6 DEF CountInv

LEMMA CountKept ==
  ASSUME CountInv, UNCHANGED << download, left, adding, taken >>
  PROVE  CountInv'
BY DEF CountInv, Pending, Amount, Counted, Remaining

\* A step of the writer or the printer keeps the counters right.
LEMMA StatsCounts ==
  ASSUME StatsTypeOK, CountInv, StatsNext
  PROVE  CountInv'
BY AdditionCounts, SubtractionCounts, CountKept DEF StatsNext, PrintBar

LEMMA CountInit ==
  ASSUME StatsInit
  PROVE  CountInv
<1>1. Counted = {}
  BY StatsAssumption DEF StatsInit, Counted
<1>2. Amount = 0 /\ Pending = 0
  BY <1>1, FS_EmptySet DEF Amount, Pending, StatsInit
<1> QED
  BY <1>2, StatsAssumption DEF CountInv, Remaining, StatsInit

(***************************************************************************)
(* The progress bar.                                                       *)
(***************************************************************************)

\* As long as no more is counted than the torrent has, the bar has room for its blocks.
LEMMA BarFits ==
  ASSUME download \in 0 .. Size
  PROVE  RepeatChars <= BarSize
<1>1. Size \in Nat \ {0} /\ BarSize \in Nat
  BY StatsAssumption
<1>2. PercentCompleted \in 0 .. 100
  <2>1. 200 * download + Size \in Nat /\ 2 * Size \in Nat \ {0}
    BY <1>1
  <2>2. 200 * download + Size < (2 * Size) * (100 + 1)
    BY <1>1
  <2>3. (200 * download + Size) \div (2 * Size) \in 0 .. 100
    BY <2>1, <2>2, QuotientBound
  <2> QED
    BY <2>3 DEF PercentCompleted
<1>3. BarSize * PercentCompleted <= BarSize * 100 /\ BarSize * PercentCompleted \in Nat
  BY <1>1, <1>2, ProductMonotone
<1> QED
  BY <1>1, <1>3 DEF RepeatChars
=============================================================================

--------------------------- MODULE FileWriterProofs ---------------------------
(***************************************************************************)
(* Theorems about FileWriter, for torrents of any number of files, any     *)
(* lengths and any sequence of calls: where the bytes land, and that the   *)
(* files are the one array of bytes FlatDisk promises.                     *)
(***************************************************************************)
EXTENDS FileWriter, NumberLemmas

N      == Len(layout.file)
Begins == Start(layout)

\* The byte the next WriteAt begins with.
NextByte == call.pos + call.len - left

\* Where a call stands.  In the search, piecePoss counts from the start of the
\* current file; in the writes, the current file's piecePoss is the place of the
\* next byte of the data.
Placed ==
  /\ pc # "idle" => call \in Calls /\ left <= call.len
  /\ pc = "find" =>
       /\ layout.dir /\ left = call.len
       /\ Begins[fileIdx] + piecePoss = call.pos
  /\ pc = "write" /\ left > 0 =>
       /\ Begins[fileIdx] + piecePoss = NextByte
       /\ fileIdx <= N => piecePoss <= layout.file[fileIdx].len
       /\ ~layout.dir => fileIdx = 1 /\ piecePoss + left <= layout.file[1].len

Inv == TypeOK /\ Placed

DistinctPaths ==
  \A l \in Layouts : \A i, j \in DOMAIN l.file : l.file[i].path = l.file[j].path => i = j

(***************************************************************************)
(* Layouts.                                                                *)
(***************************************************************************)

\* f holds the first n starts of the files of l.
Steps(l, n, f) == f = [i \in 1 .. n |-> IF i = 1 THEN 0 ELSE f[i - 1] + l.file[i - 1].len]

\* There are such functions, of every length.
LEMMA StepsExist ==
  ASSUME NEW l
  PROVE \A n \in Nat : \E f : Steps(l, n, f)
<1> DEFINE S == {n \in Nat : \E f : Steps(l, n, f)}
<1>1. 0 \in S
  <2>1. Steps(l, 0, << >>)
    BY DEF Steps
  <2> QED BY <2>1
<1>2. ASSUME NEW n \in Nat, n \in S PROVE n + 1 \in S
  <2>1. PICK f : Steps(l, n, f)
    BY <1>2
  <2> DEFINE g == [i \in 1 .. n + 1 |-> IF i = 1 THEN 0 ELSE f[i - 1] + l.file[i - 1].len]
  <2>2. \A i \in 1 .. n : g[i] = f[i]
    BY <2>1 DEF Steps
  <2>4. \A i \in 1 .. n + 1 : i # 1 => g[i - 1] = f[i - 1]
    BY <2>2
  <2>3. Steps(l, n + 1, g)
    <3>1. g = [i \in 1 .. n + 1 |-> IF i = 1 THEN 0 ELSE g[i - 1] + l.file[i - 1].len]
      <4> SUFFICES ASSUME NEW i \in 1 .. n + 1
                   PROVE  g[i] = IF i = 1 THEN 0 ELSE g[i - 1] + l.file[i - 1].len
        BY Zenon
      <4> QED BY <2>4
    <3> QED BY <3>1 DEF Steps
  <2> QED BY <2>3
<1> HIDE DEF S
<1>3. Nat \subseteq S
  BY <1>1, <1>2, SetInduction
<1> QED
  BY <1>3 DEF S

\* So the recursion that defines Start is well founded.
LEMMA StartSteps ==
  ASSUME NEW l, Len(l.file) \in Nat
  PROVE Steps(l, Len(l.file) + 1, Start(l))
<1>1. \E f : Steps(l, Len(l.file) + 1, f)
  <2>1. Len(l.file) + 1 \in Nat
    OBVIOUS
  <2> QED BY <2>1, StepsExist, Zenon
<1>2. Start(l) = CHOOSE f : Steps(l, Len(l.file) + 1, f)
  BY Zenon DEF Steps, Start
<1> QED
  BY <1>1, <1>2, Zenon

LEMMA SeqType ==
  ASSUME NEW T, NEW s \in Seq(T)
  PROVE  Len(s) \in Nat /\ DOMAIN s = 1 .. Len(s) /\ \A i \in 1 .. Len(s) : s[i] \in T
OBVIOUS

\* What a layout is, and where its files start.
LEMMA LayoutType ==
  ASSUME NEW l \in Layouts
  PROVE  /\ l.dir \in BOOLEAN
         /\ Len(l.file) \in Nat /\ DOMAIN l.file = 1 .. Len(l.file)
         /\ \A i \in 1 .. Len(l.file) :
              /\ l.file[i].len \in Nat
              /\ Start(l)[i] \in 0 .. MaxSize /\ Start(l)[i + 1] \in 0 .. MaxSize
              /\ Start(l)[i + 1] = Start(l)[i] + l.file[i].len
         /\ Start(l)[Len(l.file) + 1] \in 0 .. MaxSize
         /\ Start(l)[1] = 0
         /\ ~l.dir => Len(l.file) = 1 /\ Total(l) = l.file[1].len
<1> DEFINE n == Len(l.file)
           S == Start(l)
           len(i) == l.file[i].len
<1>1. /\ l.dir \in BOOLEAN /\ l.file \in Seq([path: Paths, len: Nat])
      /\ Total(l) \in 1 .. MaxSize
      /\ ~l.dir => n = 1
  BY FileWriterAssumption
<1>2. /\ n \in Nat /\ DOMAIN l.file = 1 .. n
      /\ \A i \in 1 .. n : l.file[i] \in [path: Paths, len: Nat]
  BY ONLY <1>1, SeqType, Zenon DEF n
<1>3. \A i \in 1 .. n : len(i) \in Nat
  BY <1>2
<1>4. S = [i \in 1 .. n + 1 |-> IF i = 1 THEN 0 ELSE S[i - 1] + len(i - 1)]
  BY <1>2, StartSteps, Zenon DEF Steps
<1>5. S[1] = 0
  BY <1>2, <1>4
<1>6. \A i \in 1 .. n : S[i + 1] = S[i] + len(i)
  <2> SUFFICES ASSUME NEW i \in 1 .. n
               PROVE  S[i + 1] = S[i] + len(i)
    OBVIOUS
  <2>1. i + 1 \in 1 .. n + 1 /\ i + 1 # 1 /\ (i + 1) - 1 = i
    BY <1>2
  <2> HIDE DEF n, S, len
  <2> QED
    BY <1>4, <2>1
<1>7. Total(l) = S[n + 1]
  BY DEF Total
<1> HIDE DEF n, S, len
<1>8. \A i \in 1 .. n + 1 : S[i] \in Nat
  <2> DEFINE T == {k \in Nat : k <= n => S[k + 1] \in Nat}
  <2>1. 0 \in T
    BY <1>5
  <2>2. ASSUME NEW k \in Nat, k \in T PROVE k + 1 \in T
    <3> SUFFICES ASSUME k + 1 <= n PROVE S[k + 1 + 1] \in Nat
      OBVIOUS
    <3>1. k + 1 \in 1 .. n /\ S[k + 1] \in Nat
      BY <1>2, <2>2
    <3> QED
      BY <1>3, <1>6, <3>1
  <2> HIDE DEF T
  <2>3. Nat \subseteq T
    BY <2>1, <2>2, SetInduction
  <2>4. \A k \in Nat : k <= n => S[k + 1] \in Nat
    BY <2>3 DEF T
  <2> QED
    <3> TAKE i \in 1 .. n + 1
    <3>1. i - 1 \in Nat /\ i - 1 <= n /\ (i - 1) + 1 = i
      BY <1>2
    <3> QED
      BY <2>4, <3>1
<1>9. \A i \in 1 .. n + 1 : S[i] <= MaxSize
  <2> DEFINE T == {k \in Nat : k <= n => S[n + 1 - k] <= MaxSize}
  <2>1. 0 \in T
    <3>1. n + 1 - 0 = n + 1
      BY <1>2
    <3> QED
      BY <1>1, <1>7, <3>1
  <2>2. ASSUME NEW k \in Nat, k \in T PROVE k + 1 \in T
    <3> SUFFICES ASSUME k + 1 <= n PROVE S[n + 1 - (k + 1)] <= MaxSize
      OBVIOUS
    <3> DEFINE i == n + 1 - (k + 1)
    <3>1. i \in 1 .. n /\ i + 1 = n + 1 - k /\ S[n + 1 - k] <= MaxSize
      BY <1>2, <2>2
    <3>2. i \in 1 .. n + 1 /\ i + 1 \in 1 .. n + 1
      BY <1>2, <3>1
    <3>3. S[i + 1] = S[i] + len(i) /\ S[i] \in Nat /\ len(i) \in Nat
      BY <1>3, <1>6, <1>8, <3>1, <3>2
    <3>4. MaxSize \in Nat
      BY FileWriterAssumption
    <3> QED
      BY <3>1, <3>3, <3>4
  <2> HIDE DEF T
  <2>3. Nat \subseteq T
    BY <2>1, <2>2, SetInduction
  <2>4. \A k \in Nat : k <= n => S[n + 1 - k] <= MaxSize
    BY <2>3 DEF T
  <2> QED
    <3> TAKE i \in 1 .. n + 1
    <3>1. n + 1 - i \in Nat /\ n + 1 - i <= n /\ n + 1 - (n + 1 - i) = i
      BY <1>2
    <3> QED
      BY <2>4, <3>1
<1>10. \A i \in 1 .. n : S[i] \in 0 .. MaxSize /\ S[i + 1] \in 0 .. MaxSize
  <2> TAKE i \in 1 .. n
  <2>1. i \in 1 .. n + 1 /\ i + 1 \in 1 .. n + 1
    BY <1>2
  <2> QED
    BY <1>8, <1>9, <2>1, FileWriterAssumption
<1>11. S[n + 1] \in 0 .. MaxSize
  BY <1>1, <1>7
<1>12. ~l.dir => Total(l) = len(1)
  <2> HAVE ~l.dir
  <2>1. n = 1 /\ 1 \in 1 .. n
    BY <1>1
  <2>2. S[1 + 1] = 0 + len(1)
    BY <1>5, <1>6, <2>1
  <2> QED
    BY <1>3, <1>7, <2>1, <2>2
<1> QED
  BY <1>1, <1>2, <1>3, <1>5, <1>6, <1>10, <1>11, <1>12 DEF n, S, len

\* A WriteAt of at most ToWrite bytes puts byte Begins[fileIdx] + o at each offset o
\* of the current file that it reaches, and reaches no byte outside the torrent.
LEMMA WriteLands ==
  ASSUME Inv, pc = "write", left > 0, fileIdx <= N,
         NEW n \in Nat, n <= ToWrite, WriteAt(n)
  PROVE  /\ ToWrite \in 0 .. left
         /\ layout.dir => ToWrite <= layout.file[fileIdx].len - piecePoss
         /\ ToWrite < left => layout.dir /\ ToWrite = layout.file[fileIdx].len - piecePoss
         /\ \A x \in Places(layout) :
              \/ disk'[x] = disk[x]
              \/ /\ x[1] = layout.file[fileIdx].path
                 /\ x[2] \in piecePoss .. layout.file[fileIdx].len - 1
                 /\ disk'[x] = Begins[fileIdx] + x[2]
         /\ disk' \in [Places(layout) -> {Empty} \cup 0 .. MaxSize - 1]
<1> DEFINE fl == layout.file[fileIdx].len
<1>1. /\ layout \in Layouts /\ left \in Nat /\ piecePoss \in Nat /\ fileIdx \in 1 .. N
      /\ fl \in Nat /\ piecePoss <= fl
      /\ Begins[fileIdx] \in 0 .. MaxSize /\ Begins[fileIdx] + fl \in 0 .. MaxSize
      /\ Begins[fileIdx] + piecePoss = NextByte
      /\ layout.dir \in BOOLEAN
      /\ ~layout.dir => piecePoss + left <= fl
  <2>1. /\ layout \in Layouts /\ left \in Nat /\ piecePoss \in Nat /\ fileIdx \in 1 .. N + 1
        /\ N \in Nat
    BY LayoutType DEF Inv, TypeOK, N
  <2>2. fileIdx \in 1 .. N
    BY <2>1
  <2> QED
    BY <2>1, <2>2, LayoutType DEF Inv, Placed, N, Begins
<1>2. /\ ToWrite \in 0 .. left /\ ToWrite <= fl - piecePoss
      /\ ToWrite < left => layout.dir /\ ToWrite = fl - piecePoss
  BY <1>1 DEF ToWrite, FileLength
<1>3. disk \in [Places(layout) -> {Empty} \cup 0 .. MaxSize - 1]
  BY DEF Inv, TypeOK
<1>4. disk' = [x \in Places(layout) |->
                IF x[1] = layout.file[fileIdx].path /\ x[2] \in piecePoss .. piecePoss + n - 1
                THEN NextByte + x[2] - piecePoss ELSE disk[x]]
  BY <1>3 DEF WriteAt, NextByte
<1>5. ASSUME NEW k \in piecePoss .. piecePoss + n - 1
      PROVE  /\ k \in piecePoss .. fl - 1
             /\ NextByte + k - piecePoss = Begins[fileIdx] + k
             /\ Begins[fileIdx] + k \in 0 .. MaxSize - 1
  <2> DEFINE b == Begins[fileIdx]
             nb == NextByte
  <2>1. n <= fl - piecePoss /\ piecePoss \in Nat /\ fl \in Nat
    BY <1>1, <1>2
  <2>2. b \in Nat /\ b + fl <= MaxSize /\ MaxSize \in Nat /\ nb = b + piecePoss
    BY <1>1, FileWriterAssumption
  <2> HIDE DEF b, nb, fl
  <2>3. k \in Nat /\ piecePoss <= k /\ k <= fl - 1
    BY <2>1
  <2> QED
    BY <2>1, <2>2, <2>3 DEF b, nb
<1>6. \A x \in Places(layout) :
        \/ disk'[x] = disk[x]
        \/ /\ x[1] = layout.file[fileIdx].path
           /\ x[2] \in piecePoss .. fl - 1
           /\ disk'[x] = Begins[fileIdx] + x[2]
           /\ disk'[x] \in 0 .. MaxSize - 1
  BY <1>4, <1>5
<1>7. disk' \in [Places(layout) -> {Empty} \cup 0 .. MaxSize - 1]
  BY <1>3, <1>4, <1>6
<1> QED
  BY <1>1, <1>2, <1>6, <1>7

(***************************************************************************)
(* The invariant.                                                          *)
(***************************************************************************)

LEMMA InitInv == Init => Inv
<1> SUFFICES ASSUME Init PROVE Inv
  OBVIOUS
<1>1. layout \in Layouts /\ N \in Nat
  BY LayoutType DEF Init, N
<1>2. TypeOK
  BY <1>1 DEF Init, TypeOK, N
<1> QED
  BY <1>2 DEF Init, Inv, Placed

\* The facts every step uses: a call, its file and the next one.
LEMMA Now ==
  ASSUME Inv
  PROVE  /\ layout \in Layouts /\ layout.dir \in BOOLEAN /\ N \in Nat
         /\ piecePoss \in Nat /\ left \in Nat /\ fileIdx \in 1 .. N + 1
         /\ Begins[1] = 0
         /\ Beyond <=> fileIdx > N
         /\ ~Beyond =>
              /\ fileIdx \in 1 .. N /\ fileIdx + 1 \in 1 .. N + 1
              /\ FileLength = layout.file[fileIdx].len /\ FileLength \in Nat
              /\ Begins[fileIdx] \in Nat
              /\ Begins[fileIdx + 1] = Begins[fileIdx] + FileLength
         /\ pc # "idle" => call.pos \in Nat /\ call.len \in Nat
<1>1. /\ layout \in Layouts /\ piecePoss \in Nat /\ left \in Nat
      /\ fileIdx \in 1 .. N + 1
  BY DEF Inv, TypeOK, N
<1>2. /\ layout.dir \in BOOLEAN /\ N \in Nat /\ Begins[1] = 0
      /\ \A i \in 1 .. N :
           /\ layout.file[i].len \in Nat /\ Begins[i] \in Nat
           /\ Begins[i + 1] = Begins[i] + layout.file[i].len
  BY <1>1, LayoutType DEF N, Begins
<1>3. Beyond <=> fileIdx > N
  BY DEF Beyond, N
<1>4. ~Beyond => fileIdx \in 1 .. N /\ fileIdx + 1 \in 1 .. N + 1
  BY <1>1, <1>2, <1>3
<1>5. pc # "idle" => call.pos \in Nat /\ call.len \in Nat
  BY FileWriterAssumption DEF Inv, Placed, Calls
<1> QED
  BY <1>1, <1>2, <1>3, <1>4, <1>5 DEF FileLength

LEMMA CallInv ==
  ASSUME Inv, NEW c \in Calls, Call(c)
  PROVE  Inv'
<1>1. /\ c.pos \in Nat /\ c.len \in Nat
  BY FileWriterAssumption DEF Calls
<1>2. TypeOK'
  BY <1>1, Now DEF Call, Inv, TypeOK, N
<1>3. /\ call' = c /\ left' = c.len /\ piecePoss' = c.pos /\ fileIdx' = 1
      /\ layout' = layout /\ Begins' = Begins /\ N' = N
  BY DEF Call, Begins, N
<1>4. pc' = "find" => layout.dir
  BY DEF Call
<1>5. ASSUME pc' = "write"
      PROVE  ~layout.dir /\ c.pos + c.len <= layout.file[1].len
  <2>1. ~layout.dir /\ c.pos + c.len <= Total(layout)
    BY <1>5 DEF Call
  <2> QED
    BY <2>1, Now, LayoutType
<1>6. pc' = "write" => NextByte' = c.pos /\ layout.file[1].len \in Nat
  <2>1. ~layout.dir => layout.file[1].len \in Nat
    BY Now, LayoutType DEF N
  <2> QED
    BY <2>1, <1>1, <1>3, <1>5 DEF NextByte
<1>7. Placed'
  BY <1>1, <1>3, <1>4, <1>5, <1>6, Now DEF Placed
<1> QED
  BY <1>2, <1>7 DEF Inv

LEMMA SkipFileInv ==
  ASSUME Inv, SkipFile
  PROVE  Inv'
<1>1. /\ fileIdx \in 1 .. N /\ fileIdx + 1 \in 1 .. N + 1
      /\ FileLength \in Nat /\ FileLength <= piecePoss /\ piecePoss \in Nat
      /\ Begins[fileIdx] \in Nat
      /\ Begins[fileIdx + 1] = Begins[fileIdx] + FileLength
  BY Now DEF SkipFile
<1>2. /\ piecePoss' = piecePoss - FileLength /\ piecePoss' \in Nat
      /\ fileIdx' = fileIdx + 1
      /\ UNCHANGED << layout, pc, call, left, disk, result, N, Begins >>
  BY <1>1 DEF SkipFile, N, Begins
<1>3. TypeOK'
  BY <1>1, <1>2 DEF Inv, TypeOK, N
<1>4. Begins'[fileIdx'] + piecePoss' = Begins[fileIdx] + piecePoss
  BY <1>1, <1>2
<1>5. Placed'
  BY <1>2, <1>4 DEF SkipFile, Inv, Placed
<1> QED
  BY <1>3, <1>5 DEF Inv

LEMMA FoundFileInv ==
  ASSUME Inv, FoundFile
  PROVE  Inv'
<1>1. UNCHANGED << layout, call, piecePoss, left, fileIdx, disk, result, N, Begins, NextByte >>
  BY DEF FoundFile, N, Begins, NextByte
<1>2. /\ piecePoss <= layout.file[fileIdx].len
      /\ NextByte = call.pos
  <2>1. left = call.len /\ call.pos \in Nat /\ call.len \in Nat
    BY Now DEF FoundFile, Inv, Placed
  <2>2. NextByte = call.pos
    BY <2>1 DEF NextByte
  <2> QED
    BY <2>2, Now DEF FoundFile
<1>3. TypeOK'
  BY <1>1 DEF FoundFile, Inv, TypeOK
<1>4. Placed'
  BY <1>1, <1>2 DEF FoundFile, Inv, Placed
<1> QED
  BY <1>3, <1>4 DEF Inv

LEMMA WriteFileInv ==
  ASSUME Inv, WriteFile
  PROVE  Inv'
<1>1. /\ pc = "write" /\ left > 0 /\ fileIdx <= N /\ WriteAt(ToWrite)
      /\ fileIdx \in 1 .. N /\ fileIdx + 1 \in 1 .. N + 1
      /\ Begins[fileIdx] \in Nat /\ FileLength \in Nat
      /\ Begins[fileIdx + 1] = Begins[fileIdx] + FileLength
      /\ layout \in Layouts /\ left \in Nat /\ piecePoss \in Nat
      /\ layout.dir \in BOOLEAN
      /\ call.pos \in Nat /\ call.len \in Nat
  BY Now DEF WriteFile
<1>2. ToWrite \in Nat /\ ToWrite <= ToWrite
  <2>1. FileLength = layout.file[fileIdx].len /\ piecePoss <= FileLength
    BY <1>1 DEF FileLength, Inv, Placed
  <2> QED
    BY <1>1, <2>1 DEF ToWrite
<1>3. /\ ToWrite \in 0 .. left
      /\ ToWrite < left => layout.dir /\ ToWrite = FileLength - piecePoss
      /\ disk' \in [Places(layout) -> {Empty} \cup 0 .. MaxSize - 1]
  BY <1>1, <1>2, WriteLands DEF FileLength
<1>4. /\ left' = left - ToWrite /\ piecePoss' = 0 /\ fileIdx' = fileIdx + 1
      /\ UNCHANGED << layout, pc, call, result, N, Begins >>
  BY DEF WriteFile, N, Begins
<1>5. left' \in Nat /\ left' <= left
  BY <1>1, <1>3, <1>4
<1>6. TypeOK'
  BY <1>1, <1>3, <1>4, <1>5 DEF Inv, TypeOK, N
<1>7. ASSUME left' > 0
      PROVE  layout.dir /\ Begins'[fileIdx'] + piecePoss' = NextByte'
  <2>1. layout.dir /\ ToWrite = FileLength - piecePoss
    BY <1>1, <1>3, <1>4, <1>7
  <2>2. Begins[fileIdx] + piecePoss = NextByte
    BY <1>1 DEF Inv, Placed
  <2>3. Begins'[fileIdx'] + piecePoss' = Begins[fileIdx] + FileLength
    BY <1>1, <1>4
  <2>4. NextByte' = call.pos + call.len - (left - ToWrite)
    BY <1>4 DEF NextByte
  <2> QED
    BY <1>1, <2>1, <2>2, <2>3, <2>4 DEF NextByte
<1>8. fileIdx' <= N' => piecePoss' <= layout'.file[fileIdx'].len
  <2> HAVE fileIdx' <= N'
  <2>1. fileIdx + 1 \in 1 .. N
    BY <1>1, <1>4
  <2>2. layout.file[fileIdx + 1].len \in Nat
    BY <1>1, <2>1, LayoutType DEF N
  <2> QED
    BY <1>4, <2>2
<1>9. call' \in Calls /\ left' <= call'.len
  BY <1>1, <1>4, <1>5 DEF Inv, Placed
<1>10. Placed'
  BY <1>1, <1>4, <1>7, <1>8, <1>9 DEF Placed
<1> QED
  BY <1>6, <1>10 DEF Inv

\* The failed write: a shorter part lands like a whole one.
LEMMA FailedWriteLands ==
  ASSUME Inv, WriteFileFails
  PROVE  /\ pc = "write" /\ left > 0 /\ fileIdx <= N
         /\ \E n \in Nat : n <= ToWrite /\ WriteAt(n)
<1>1. /\ pc = "write" /\ left > 0 /\ fileIdx <= N
      /\ layout.dir \in BOOLEAN /\ FileLength \in Nat
      /\ piecePoss \in Nat /\ left \in Nat
  BY Now DEF WriteFileFails
<1>2. FileLength = layout.file[fileIdx].len /\ piecePoss <= FileLength
  BY <1>1 DEF FileLength, Inv, Placed
<1>3. ToWrite \in Nat
  BY <1>1, <1>2 DEF ToWrite
<1>4. PICK n \in 0 .. ToWrite - 1 : WriteAt(n)
  BY DEF WriteFileFails
<1>5. n \in Nat /\ n <= ToWrite
  BY <1>3
<1> QED
  BY <1>1, <1>4, <1>5

LEMMA WriteFileFailsInv ==
  ASSUME Inv, WriteFileFails
  PROVE  Inv'
<1>1. disk' \in [Places(layout) -> {Empty} \cup 0 .. MaxSize - 1]
  BY FailedWriteLands, WriteLands
<1>2. TypeOK'
  BY <1>1 DEF WriteFileFails, Return, Inv, TypeOK
<1>3. pc' = "idle"
  BY DEF WriteFileFails, Return
<1> QED
  BY <1>2, <1>3 DEF Inv, Placed

LEMMA ReturnInv ==
  ASSUME Inv, PositionBeyond \/ DataBeyond \/ AllWritten
  PROVE  Inv'
<1>1. TypeOK'
  BY DEF PositionBeyond, DataBeyond, AllWritten, Return, Inv, TypeOK
<1>2. pc' = "idle"
  BY DEF PositionBeyond, DataBeyond, AllWritten, Return
<1> QED
  BY <1>1, <1>2 DEF Inv, Placed

LEMMA InvNext == Inv /\ [Next]_vars => Inv'
<1> SUFFICES ASSUME Inv, [Next]_vars PROVE Inv'
  OBVIOUS
<1>1. CASE \E c \in Calls : Call(c)
  BY <1>1, CallInv
<1>2. CASE SkipFile
  BY <1>2, SkipFileInv
<1>3. CASE FoundFile
  BY <1>3, FoundFileInv
<1>4. CASE WriteFile
  BY <1>4, WriteFileInv
<1>5. CASE WriteFileFails
  BY <1>5, WriteFileFailsInv
<1>6. CASE PositionBeyond \/ DataBeyond \/ AllWritten
  BY <1>6, ReturnInv
<1>7. CASE UNCHANGED vars
  <2>1. UNCHANGED << layout, pc, call, piecePoss, left, fileIdx, disk, result, N, Begins, NextByte >>
    BY <1>7 DEF vars, N, Begins, NextByte
  <2> QED
    BY <2>1 DEF Inv, TypeOK, Placed
<1> QED
  BY <1>1, <1>2, <1>3, <1>4, <1>5, <1>6, <1>7 DEF Next, Working

LEMMA Invariance == Spec => []Inv
BY InitInv, InvNext, PTL DEF Spec

(***************************************************************************)
(* Theorems.                                                               *)
(***************************************************************************)

\* The search never makes the position negative or passes the end of the list of
\* files, and no write leaves the files' bytes, for torrents of any shape.
THEOREM FileWriterTypeCorrect == Spec => []TypeOK
<1>1. Inv => TypeOK
  BY DEF Inv
<1> QED
  BY <1>1, Invariance, PTL

\* A step of a call, whole or failed, leaves a byte of a file as it was or stores
\* the torrent's byte that belongs there.
LEMMA BytesWritten ==
  ASSUME DistinctPaths, Inv, [Next]_vars,
         NEW i \in DOMAIN layout.file,
         NEW o \in 0 .. layout.file[i].len - 1
  PROVE  disk'[<< layout.file[i].path, o >>]
           \in {disk[<< layout.file[i].path, o >>], Start(layout)[i] + o}
<1> DEFINE x == << layout.file[i].path, o >>
<1>1. x \in Places(layout) /\ x[1] = layout.file[i].path /\ x[2] = o
  BY DEF Places
<1>2. ASSUME NEW n \in Nat, n <= ToWrite, WriteAt(n),
             pc = "write", left > 0, fileIdx <= N
      PROVE  disk'[x] \in {disk[x], Start(layout)[i] + o}
  <2>1. \/ disk'[x] = disk[x]
        \/ /\ x[1] = layout.file[fileIdx].path
           /\ disk'[x] = Begins[fileIdx] + x[2]
    BY <1>1, <1>2, WriteLands
  <2>2. layout \in Layouts /\ fileIdx \in DOMAIN layout.file
    BY <1>2, Now, LayoutType DEF N
  <2>3. layout.file[i].path = layout.file[fileIdx].path => i = fileIdx
    BY <2>2 DEF DistinctPaths
  <2> QED
    BY <1>1, <2>1, <2>3 DEF Begins
<1>3. CASE WriteFile
  <2>1. pc = "write" /\ left > 0 /\ fileIdx <= N /\ WriteAt(ToWrite)
    BY <1>3, Now DEF WriteFile
  <2>2. ToWrite \in Nat /\ ToWrite <= ToWrite
    <3>1. /\ FileLength = layout.file[fileIdx].len /\ piecePoss <= FileLength
          /\ FileLength \in Nat /\ piecePoss \in Nat /\ left \in Nat
      BY <2>1, Now DEF FileLength, Inv, Placed
    <3> QED
      BY <3>1, Now DEF ToWrite
  <2> QED
    BY <1>2, <2>1, <2>2
<1>4. CASE WriteFileFails
  BY <1>2, <1>4, FailedWriteLands
<1>5. CASE ~WriteFile /\ ~WriteFileFails
  <2>1. disk' = disk
    BY <1>5 DEF Next, Working, Call, SkipFile, FoundFile, PositionBeyond,
                DataBeyond, AllWritten, vars
  <2> QED
    BY <2>1
<1> QED
  BY <1>3, <1>4, <1>5

LEMMA LayoutKept ==
  ASSUME [Next]_vars
  PROVE  layout' = layout
BY DEF Next, Working, Call, SkipFile, FoundFile, PositionBeyond, WriteFile,
       WriteFileFails, DataBeyond, AllWritten, vars

\* Whatever the calls and whichever of them fail, every file holds its own part of
\* the torrent and nothing else, when no two files of a torrent share a path.
THEOREM BytesLandInPlace ==
  ASSUME DistinctPaths
  PROVE  Spec => []BytesInPlace
<1>1. Init => BytesInPlace
  <2> SUFFICES ASSUME Init,
                      NEW i \in DOMAIN layout.file,
                      NEW o \in 0 .. layout.file[i].len - 1
               PROVE  disk[<< layout.file[i].path, o >>] = Empty
    BY DEF BytesInPlace
  <2>1. << layout.file[i].path, o >> \in Places(layout)
    BY DEF Places
  <2> QED
    BY <2>1 DEF Init
<1>2. Inv /\ BytesInPlace /\ [Next]_vars => BytesInPlace'
  BY BytesWritten, LayoutKept DEF BytesInPlace
<1> QED
  BY <1>1, <1>2, Invariance, PTL DEF Spec

\* So no write of the torrent undoes another one, however the calls overlap.
THEOREM BytesAreKept ==
  ASSUME DistinctPaths
  PROVE  Spec => BytesKept
<1>1. Inv /\ BytesInPlace /\ [Next]_vars
        => [\A x \in DOMAIN disk : disk[x] # Empty => disk'[x] = disk[x]]_vars
  <2> SUFFICES ASSUME Inv, BytesInPlace, [Next]_vars,
                      NEW x \in DOMAIN disk, disk[x] # Empty
               PROVE  disk'[x] = disk[x]
    OBVIOUS
  <2>1. x \in Places(layout)
    BY DEF Inv, TypeOK
  <2>2. PICK i \in DOMAIN layout.file :
          x \in {layout.file[i].path} \X (0 .. layout.file[i].len - 1)
    BY <2>1 DEF Places
  <2>3. PICK o \in 0 .. layout.file[i].len - 1 : x = << layout.file[i].path, o >>
    BY <2>2
  <2>4. disk[x] = Start(layout)[i] + o
    BY <2>3 DEF BytesInPlace
  <2> QED
    BY <2>3, <2>4, BytesWritten
<1> QED
  BY <1>1, BytesLandInPlace, Invariance, PTL DEF Spec, BytesKept

(***************************************************************************)
(* Every byte of the torrent is in one file.                               *)
(***************************************************************************)

\* g is one of the bytes of file i.
InFile(l, g, i) == g \in Start(l)[i] .. Start(l)[i] + l.file[i].len - 1

\* What an induction over the files of l starts from.
LEMMA Starts ==
  ASSUME NEW l \in Layouts
  PROVE  /\ Len(l.file) \in Nat /\ Start(l)[1] = 0
         /\ \A k \in 1 .. Len(l.file) :
              /\ l.file[k].len \in Nat /\ Start(l)[k] \in Nat /\ Start(l)[k + 1] \in Nat
              /\ Start(l)[k + 1] = Start(l)[k] + l.file[k].len
BY LayoutType

\* A later file starts after the end of an earlier one.
LEMMA FilesInOrder ==
  ASSUME NEW l \in Layouts, NEW i \in 1 .. Len(l.file)
  PROVE  \A j \in i + 1 .. Len(l.file) + 1 : Start(l)[i] + l.file[i].len <= Start(l)[j]
<1> DEFINE n == Len(l.file)
           S == Start(l)
           T == {k \in Nat : i + k <= n => S[i] + l.file[i].len <= S[i + k + 1]}
<1>1. /\ n \in Nat /\ i \in 1 .. n /\ S[i] \in Nat /\ l.file[i].len \in Nat
      /\ \A k \in 1 .. n : /\ l.file[k].len \in Nat /\ S[k] \in Nat /\ S[k + 1] \in Nat
                           /\ S[k + 1] = S[k] + l.file[k].len
  BY Starts
<1> HIDE DEF n, S
<1>2. 0 \in T
  <2>1. i + 0 + 1 = i + 1
    BY <1>1
  <2> QED
    BY <1>1, <2>1
<1>3. ASSUME NEW k \in Nat, k \in T PROVE k + 1 \in T
  <2> SUFFICES ASSUME i + (k + 1) <= n
               PROVE  S[i] + l.file[i].len <= S[i + (k + 1) + 1]
    OBVIOUS
  <2> DEFINE m == i + (k + 1)
  <2>1. m \in 1 .. n /\ i + k + 1 = m /\ i + k <= n
    BY <1>1
  <2>2. S[i] + l.file[i].len <= S[m]
    BY <1>3, <2>1
  <2>3. S[m + 1] = S[m] + l.file[m].len /\ S[m] \in Nat /\ l.file[m].len \in Nat
    BY <1>1, <2>1
  <2>4. S[i] \in Nat /\ l.file[i].len \in Nat /\ i + (k + 1) + 1 = m + 1
    BY <1>1
  <2> HIDE DEF m
  <2>5. S[i] + l.file[i].len <= S[m + 1]
    <3> DEFINE a == S[i]
               e == l.file[i].len
               b == S[m]
               c == l.file[m].len
               d == S[m + 1]
    <3>1. a + e <= b
      BY <2>2
    <3>2. d = b + c /\ b \in Nat /\ c \in Nat
      BY <2>3
    <3>3. a \in Nat /\ e \in Nat
      BY <2>4
    <3> HIDE DEF a, b, c, d, e
    <3>4. a + e <= d
      BY <3>1, <3>2, <3>3
    <3> QED
      BY <3>4 DEF a, d, e
  <2> QED
    BY <2>4, <2>5
<1> HIDE DEF T
<1>4. Nat \subseteq T
  BY <1>2, <1>3, SetInduction
<1>5. \A k \in Nat : i + k <= n => S[i] + l.file[i].len <= S[i + k + 1]
  BY <1>4 DEF T
<1>6. ASSUME NEW j \in i + 1 .. n + 1 PROVE S[i] + l.file[i].len <= S[j]
  <2>1. j - i - 1 \in Nat /\ i + (j - i - 1) <= n /\ i + (j - i - 1) + 1 = j
    BY <1>1
  <2> QED
    BY <1>5, <2>1
<1> QED
  BY <1>6 DEF n, S

\* No byte is in two files.
LEMMA OneFile ==
  ASSUME NEW l \in Layouts, NEW i \in 1 .. Len(l.file), NEW j \in 1 .. Len(l.file),
         NEW g \in Nat, InFile(l, g, i), InFile(l, g, j)
  PROVE  i = j
<1>1. ASSUME NEW a \in 1 .. Len(l.file), NEW b \in 1 .. Len(l.file),
             InFile(l, g, a), InFile(l, g, b), a < b
      PROVE  FALSE
  <2>1. Start(l)[a] + l.file[a].len <= Start(l)[b]
    <3>1. b \in a + 1 .. Len(l.file) + 1
      BY <1>1, Starts
    <3> QED
      BY <3>1, FilesInOrder
  <2>2. /\ Start(l)[a] \in Nat /\ Start(l)[b] \in Nat /\ l.file[a].len \in Nat
        /\ l.file[b].len \in Nat
    BY Starts
  <2> QED
    BY <1>1, <2>1, <2>2 DEF InFile
<1> QED
  BY <1>1, Starts

\* Every byte is in a file.
LEMMA SomeFile ==
  ASSUME NEW l \in Layouts, NEW g \in 0 .. Total(l) - 1
  PROVE  \E i \in 1 .. Len(l.file) : InFile(l, g, i)
<1> DEFINE n == Len(l.file)
           S == Start(l)
           T == {k \in Nat : k <= n /\ g < S[k + 1] => \E i \in 1 .. n : InFile(l, g, i)}
<1>1. /\ n \in Nat /\ S[1] = 0
      /\ \A k \in 1 .. n : /\ l.file[k].len \in Nat /\ S[k] \in Nat /\ S[k + 1] \in Nat
                           /\ S[k + 1] = S[k] + l.file[k].len
  BY Starts
<1>2. Total(l) = S[n + 1] /\ Total(l) \in Nat
  BY FileWriterAssumption DEF Total
<1>3. g \in Nat /\ g < S[n + 1]
  BY <1>2
<1>4. \A i \in 1 .. n : S[i] <= g /\ g < S[i + 1] => InFile(l, g, i)
  BY <1>1, <1>3 DEF InFile
<1> HIDE DEF n, S
<1>5. 0 \in T
  BY <1>1, <1>3
<1>6. ASSUME NEW k \in Nat, k \in T PROVE k + 1 \in T
  <2> SUFFICES ASSUME k + 1 <= n, g < S[k + 1 + 1] PROVE \E i \in 1 .. n : InFile(l, g, i)
    OBVIOUS
  <2>1. k + 1 \in 1 .. n /\ S[k + 1] \in Nat
    BY <1>1
  <2>2. CASE g < S[k + 1]
    <3>1. k <= n
      BY <1>1
    <3> QED
      BY <1>6, <2>2, <3>1
  <2>3. CASE S[k + 1] <= g
    BY <1>4, <2>1, <2>3
  <2> QED
    BY <1>3, <2>1, <2>2, <2>3
<1> HIDE DEF T
<1>7. Nat \subseteq T
  BY <1>5, <1>6, SetInduction
<1>8. n \in T
  BY <1>1, <1>7
<1> QED
  BY <1>1, <1>3, <1>8 DEF T, n

\* FileOf is that file.
LEMMA FileOfType ==
  ASSUME layout \in Layouts, NEW g \in 0 .. Total(layout) - 1
  PROVE  /\ FileOf(g) \in 1 .. N /\ InFile(layout, g, FileOf(g))
         /\ << layout.file[FileOf(g)].path, g - Begins[FileOf(g)] >> \in Places(layout)
<1>1. DOMAIN layout.file = 1 .. N
  BY LayoutType DEF N
<1>2. \E i \in 1 .. N : InFile(layout, g, i)
  BY SomeFile DEF N
<1>3. FileOf(g) \in 1 .. N /\ InFile(layout, g, FileOf(g))
  BY <1>1, <1>2 DEF FileOf, InFile
<1> DEFINE i == FileOf(g)
<1>4. i \in 1 .. N /\ InFile(layout, g, i)
  BY <1>3
<1> HIDE DEF i
<1>5. Begins[i] \in Nat /\ layout.file[i].len \in Nat
  BY <1>4, Starts DEF N, Begins
<1>6. g - Begins[i] \in 0 .. layout.file[i].len - 1
  BY <1>4, <1>5 DEF InFile, Begins
<1>7. << layout.file[i].path, g - Begins[i] >> \in Places(layout)
  BY <1>1, <1>4, <1>6 DEF Places
<1> QED
  BY <1>3, <1>7 DEF i

(***************************************************************************)
(* A WriteAt, seen in the image.                                           *)
(***************************************************************************)
LEMMA WriteImage ==
  ASSUME DistinctPaths, Inv, pc = "write", left > 0, fileIdx <= N, layout' = layout,
         NEW n \in Nat, n <= ToWrite, WriteAt(n)
  PROVE  /\ NextByte + n <= Total(layout)
         /\ Image' = [g \in 0 .. Total(layout) - 1 |->
                       IF g \in NextByte .. NextByte + n - 1 THEN g ELSE Image[g]]
<1> DEFINE f  == fileIdx
           fl == layout.file[fileIdx].len
<1>1. /\ layout \in Layouts /\ fileIdx \in 1 .. N /\ N \in Nat
      /\ fl \in Nat /\ Begins[fileIdx] \in Nat
      /\ piecePoss \in Nat /\ left \in Nat /\ piecePoss <= fl
      /\ Begins[fileIdx] + piecePoss = NextByte
  BY Now, Starts DEF Inv, Placed, N, Begins
<1>2. n <= fl - piecePoss
  <2>1. layout.dir \in BOOLEAN /\ (~layout.dir => fileIdx = 1 /\ piecePoss + left <= fl)
    BY Now DEF Inv, Placed
  <2> QED
    BY <1>1, <2>1 DEF ToWrite, FileLength
<1>3. Begins[fileIdx] + fl <= Total(layout) /\ Total(layout) \in Nat
  <2>1. N + 1 \in fileIdx + 1 .. N + 1
    BY <1>1
  <2>2. Start(layout)[fileIdx] + layout.file[fileIdx].len <= Start(layout)[N + 1]
    BY <1>1, <2>1, FilesInOrder DEF N
  <2> QED
    BY <1>1, <2>2, FileWriterAssumption DEF N, Begins, Total
<1>4. NextByte + n <= Total(layout)
  BY <1>1, <1>2, <1>3
<1>5. ASSUME NEW g \in 0 .. Total(layout) - 1
      PROVE  Image'[g] = IF g \in NextByte .. NextByte + n - 1 THEN g ELSE Image[g]
  <2> DEFINE i == FileOf(g)
             x == << layout.file[i].path, g - Begins[i] >>
  <2>1. i \in 1 .. N /\ InFile(layout, g, i) /\ x \in Places(layout)
    BY <1>1, FileOfType
  <2>2. FileOf(g)' = i /\ Begins' = Begins /\ Total(layout)' = Total(layout)
    BY DEF FileOf, Begins
  <2>3. Image[g] = disk[x] /\ Image'[g] = disk'[x]
    BY <2>2 DEF Image, Begins
  <2>4. DOMAIN disk = Places(layout)
    BY DEF Inv, TypeOK
  <2>5. disk'[x] = IF x[1] = layout.file[fileIdx].path /\ x[2] \in piecePoss .. piecePoss + n - 1
                   THEN call.pos + call.len - left + x[2] - piecePoss ELSE disk[x]
    BY <2>1, <2>4 DEF WriteAt
  <2> HIDE DEF i
  <2>6. Begins[i] \in Nat /\ layout.file[i].len \in Nat
    BY <1>1, <2>1, Starts DEF N, Begins
  <2>7. i = fileIdx <=> layout.file[i].path = layout.file[fileIdx].path
    <3>1. DOMAIN layout.file = 1 .. N
      BY <1>1, LayoutType DEF N
    <3> QED
      BY <1>1, <2>1, <3>1 DEF DistinctPaths
  <2>8. CASE i = fileIdx
    <3>1. x[1] = layout.file[fileIdx].path /\ x[2] = g - Begins[fileIdx]
      BY <2>8
    <3>2. x[2] \in piecePoss .. piecePoss + n - 1 <=> g \in NextByte .. NextByte + n - 1
      BY <1>1, <3>1
    <3>3. call.pos + call.len - left + x[2] - piecePoss = g
      BY <1>1, <3>1 DEF NextByte
    <3> QED
      BY <2>3, <2>5, <3>1, <3>2, <3>3
  <2>9. CASE i # fileIdx
    <3>1. g \notin NextByte .. NextByte + n - 1
      <4> SUFFICES ASSUME g \in NextByte .. NextByte + n - 1 PROVE FALSE
        OBVIOUS
      <4>1. InFile(layout, g, fileIdx)
        BY <1>1, <1>2 DEF InFile, Begins
      <4> QED
        BY <1>1, <2>1, <2>9, <4>1, OneFile DEF N
    <3> QED
      BY <2>3, <2>5, <2>7, <2>9, <3>1
  <2> QED
    BY <2>8, <2>9
<1>6. Image' = [g \in 0 .. Total(layout) - 1 |-> Image'[g]]
  BY DEF Image
<1> QED
  BY <1>4, <1>5, <1>6

(***************************************************************************)
(* The refinement.                                                         *)
(***************************************************************************)
FlatCall   == IF pc = "idle" THEN NoCall ELSE call
FlatStored == IF pc = "idle" THEN 0 ELSE call.len - left

LEMMA FlatInit == Init => Flat!Init
<1> SUFFICES ASSUME Init PROVE Flat!Init
  OBVIOUS
<1>1. layout \in Layouts /\ Total(layout) \in 1 .. MaxSize
  BY FileWriterAssumption DEF Init
<1>2. \A g \in 0 .. Total(layout) - 1 : Image[g] = Empty
  BY <1>1, FileOfType DEF Init, Image, Begins
<1>3. Image = [g \in 0 .. Total(layout) - 1 |-> Empty]
  BY <1>2 DEF Image
<1> QED
  BY <1>1, <1>3 DEF Init, Flat!Init

\* The bytes of a call that are stored, as FlatDisk counts them.
LEMMA Stored ==
  ASSUME Inv, pc # "idle"
  PROVE  /\ call \in Calls /\ call # NoCall /\ call.pos \in Nat /\ call.len \in Nat \ {0}
         /\ left \in Nat /\ left <= call.len /\ call.len - left \in Nat
         /\ call.pos + (call.len - left) = NextByte
         /\ pc = "find" => left = call.len
<1>1. call \in Calls /\ left \in Nat /\ left <= call.len /\ (pc = "find" => left = call.len)
  BY DEF Inv, TypeOK, Placed
<1>2. call # NoCall /\ call.pos \in Nat /\ call.len \in Nat \ {0}
  BY <1>1, FileWriterAssumption DEF Calls
<1> QED
  BY <1>1, <1>2 DEF NextByte

\* A step that puts n bytes of the data, as an action of FlatDisk.
LEMMA FlatPut ==
  ASSUME Inv, pc # "idle", layout' = layout, NEW n \in Nat, n <= left,
         n > 0 => NextByte + n <= Total(layout),
         Image' = [g \in 0 .. Total(layout) - 1 |->
                    IF g \in NextByte .. NextByte + n - 1 THEN g ELSE Image[g]]
  PROVE  Flat!Put(n)
<1>1. /\ FlatCall # NoCall /\ FlatCall = call /\ FlatStored = call.len - left
      /\ call.pos + (call.len - left) = NextByte
      /\ (call.len - left) + n <= call.len
  BY Stored DEF FlatCall, FlatStored
<1>2. call.pos + (call.len - left) + n = NextByte + n
  BY <1>1
<1>3. DOMAIN Image = 0 .. Total(layout) - 1
  BY DEF Image
<1> QED
  BY <1>1, <1>2, <1>3 DEF Flat!Put, FlatCall, FlatStored

\* A step that writes nothing puts no bytes.
LEMMA FlatPutNothing ==
  ASSUME Inv, pc # "idle", UNCHANGED << layout, disk >>
  PROVE  Flat!Put(0) /\ Image' = Image
<1>1. Image' = Image
  BY DEF Image, FileOf
<1>2. NextByte \in Nat /\ left \in Nat
  <2>1. call.pos \in Nat /\ call.len - left \in Nat /\ NextByte = call.pos + (call.len - left)
    BY Stored
  <2> QED
    BY <2>1, Stored
<1>3. Image' = [g \in 0 .. Total(layout) - 1 |->
                 IF g \in NextByte .. NextByte + 0 - 1 THEN g ELSE Image[g]]
  BY <1>1, <1>2 DEF Image
<1> QED
  BY <1>1, <1>2, <1>3, FlatPut

\* The end of a call that puts n bytes more.
LEMMA FlatReturn ==
  ASSUME Inv, pc # "idle", pc' = "idle", NEW n \in 0 .. MaxSize, n <= left, Flat!Put(n),
         result' = IF n = left THEN "ok" ELSE "error"
  PROVE  Flat!Next
<1>1. FlatStored + n = call.len <=> n = left
  BY Stored, FileWriterAssumption DEF FlatStored
<1>2. FlatCall' = NoCall /\ FlatStored' = 0 /\ FlatCall = call
  BY DEF FlatCall, FlatStored
<1>3. Flat!Return
  BY <1>1, <1>2 DEF Flat!Return, FlatCall, FlatStored
<1> QED
  BY <1>3 DEF Flat!Next

LEMMA WriteFileFlat ==
  ASSUME DistinctPaths, Inv, WriteFile
  PROVE  [Flat!Next]_Flat!vars
<1>1. /\ pc = "write" /\ pc' = "write" /\ left > 0 /\ fileIdx <= N /\ WriteAt(ToWrite)
      /\ left' = left - ToWrite /\ UNCHANGED << layout, call, result >>
  BY Now DEF WriteFile
<1>2. ToWrite \in Nat
  <2>1. /\ FileLength = layout.file[fileIdx].len /\ piecePoss <= FileLength
        /\ FileLength \in Nat /\ piecePoss \in Nat /\ left \in Nat
    BY <1>1, Now DEF FileLength, Inv, Placed
  <2> QED
    BY <2>1 DEF ToWrite
<1>3. ToWrite <= left /\ left \in Nat
  BY <1>1, <1>2, WriteLands, Stored
<1>4. /\ NextByte + ToWrite <= Total(layout)
      /\ Image' = [g \in 0 .. Total(layout) - 1 |->
                    IF g \in NextByte .. NextByte + ToWrite - 1 THEN g ELSE Image[g]]
  BY <1>1, <1>2, WriteImage
<1>5. Flat!Put(ToWrite)
  BY <1>1, <1>2, <1>3, <1>4, FlatPut
<1>6. /\ FlatCall' = FlatCall
      /\ FlatStored' = FlatStored + ToWrite
  BY <1>1, <1>2, <1>3, Stored DEF FlatCall, FlatStored
<1>7. CASE ToWrite > 0
  <2>1. ToWrite \in 1 .. MaxSize
    <3>1. NextByte \in Nat /\ Total(layout) <= MaxSize /\ MaxSize \in Nat /\ Total(layout) \in Nat
      <4>1. NextByte \in Nat
        <5>1. call.pos \in Nat /\ call.len - left \in Nat /\ NextByte = call.pos + (call.len - left)
          BY <1>1, Stored
        <5> QED
          BY <5>1
      <4> QED
        BY <4>1, Now, FileWriterAssumption
    <3> QED
      BY <1>2, <1>4, <1>7, <3>1
  <2>2. Flat!Store
    BY <1>1, <1>5, <1>6, <2>1 DEF Flat!Store, FlatCall, FlatStored
  <2> QED
    BY <2>2 DEF Flat!Next
<1>8. CASE ToWrite = 0
  <2>1. disk' = disk
    <3>1. piecePoss \in Nat /\ disk = [x \in DOMAIN disk |-> disk[x]]
      BY Now DEF Inv, TypeOK
    <3>2. piecePoss .. piecePoss + 0 - 1 = {}
      BY <3>1
    <3> QED
      BY <1>1, <1>8, <3>1, <3>2 DEF WriteAt
  <2>2. Image' = Image
    BY <1>1, <2>1 DEF Image, FileOf
  <2>3. FlatStored' = FlatStored
    BY <1>1, <1>3, <1>8 DEF FlatStored
  <2> QED
    BY <1>1, <1>6, <2>2, <2>3 DEF Flat!vars, FlatCall, FlatStored
<1> QED
  BY <1>2, <1>7, <1>8

LEMMA WriteFailsFlat ==
  ASSUME DistinctPaths, Inv, WriteFileFails
  PROVE  Flat!Next
<1>1. /\ pc = "write" /\ pc' = "idle" /\ left > 0 /\ fileIdx <= N
      /\ result' = "error" /\ layout' = layout
  BY Now DEF WriteFileFails, Return
<1>2. ToWrite \in Nat
  <2>1. /\ FileLength = layout.file[fileIdx].len /\ piecePoss <= FileLength
        /\ FileLength \in Nat /\ piecePoss \in Nat /\ left \in Nat
    BY <1>1, Now DEF FileLength, Inv, Placed
  <2> QED
    BY <2>1 DEF ToWrite
<1>3. PICK n \in 0 .. ToWrite - 1 : WriteAt(n)
  BY DEF WriteFileFails
<1>4. n \in Nat /\ n <= ToWrite /\ n < ToWrite
  BY <1>2
<1>5. /\ NextByte + n <= Total(layout)
      /\ Image' = [g \in 0 .. Total(layout) - 1 |->
                    IF g \in NextByte .. NextByte + n - 1 THEN g ELSE Image[g]]
  BY <1>1, <1>3, <1>4, WriteImage
<1>6. ToWrite <= left /\ left \in Nat
  BY <1>1, <1>3, <1>4, WriteLands, Stored
<1>7. n < left /\ n <= left
  BY <1>2, <1>4, <1>6
<1>8. Flat!Put(n)
  BY <1>1, <1>4, <1>5, <1>7, FlatPut
<1>9. n \in 0 .. MaxSize
  <2>1. call.pos \in Nat /\ call.len - left \in Nat /\ NextByte = call.pos + (call.len - left)
    BY <1>1, Stored
  <2>2. NextByte \in Nat
    BY <2>1
  <2>3. Total(layout) <= MaxSize /\ MaxSize \in Nat /\ Total(layout) \in Nat
    BY Now, FileWriterAssumption
  <2> QED
    BY <1>4, <1>5, <2>2, <2>3
<1>10. n # left
  BY <1>4, <1>6, <1>7
<1> QED
  BY <1>1, <1>7, <1>8, <1>9, <1>10, FlatReturn

LEMMA CallFlat ==
  ASSUME Inv, NEW c \in Calls, Call(c)
  PROVE  Flat!Next
<1>1. /\ pc = "idle" /\ pc' \in {"find", "write"} /\ call' = c /\ left' = c.len
      /\ result' = "none" /\ UNCHANGED << layout, disk >>
  BY DEF Call
<1>2. FlatCall = NoCall /\ FlatStored = 0
  BY <1>1 DEF FlatCall, FlatStored
<1>3. c.len \in Nat
  BY FileWriterAssumption DEF Calls
<1>4. FlatCall' = c /\ FlatStored' = 0
  BY <1>1, <1>3 DEF FlatCall, FlatStored
<1>5. Image' = Image /\ Total(layout)' = Total(layout)
  BY <1>1 DEF Image, FileOf
<1>6. Flat!Begin
  BY <1>1, <1>2, <1>4, <1>5 DEF Flat!Begin, FlatCall, FlatStored
<1> QED
  BY <1>6 DEF Flat!Next

LEMMA FlatStep ==
  ASSUME DistinctPaths, Inv, [Next]_vars
  PROVE  [Flat!Next]_Flat!vars
<1>1. CASE \E c \in Calls : Call(c)
  BY <1>1, CallFlat
<1>2. CASE SkipFile \/ FoundFile \/ UNCHANGED vars
  <2>1. /\ UNCHANGED << layout, call, left, disk, result >>
        /\ pc' = "idle" <=> pc = "idle"
    BY <1>2 DEF SkipFile, FoundFile, vars
  <2>2. Image' = Image
    BY <2>1 DEF Image, FileOf
  <2> QED
    BY <2>1, <2>2 DEF Flat!vars
<1>3. CASE WriteFile
  BY <1>3, WriteFileFlat
<1>4. CASE WriteFileFails
  BY <1>4, WriteFailsFlat
<1>5. CASE PositionBeyond \/ DataBeyond \/ AllWritten
  <2>1. /\ pc # "idle" /\ pc' = "idle" /\ UNCHANGED << layout, disk >>
        /\ result' = IF 0 = left THEN "ok" ELSE "error"
    <3>1. CASE PositionBeyond
      <4>1. pc = "find"
        BY <3>1 DEF PositionBeyond
      <4>2. left # 0
        BY <4>1, Stored
      <4> QED
        BY <3>1, <4>2 DEF PositionBeyond, Return
    <3>2. CASE DataBeyond
      <4>1. left \in Nat /\ left > 0
        BY <3>2, Now DEF DataBeyond
      <4> QED
        BY <3>2, <4>1 DEF DataBeyond, Return
    <3>3. CASE AllWritten
      BY <3>3 DEF AllWritten, Return
    <3> QED
      BY <1>5, <3>1, <3>2, <3>3
  <2>2. Flat!Put(0)
    BY <2>1, FlatPutNothing
  <2>3. 0 \in 0 .. MaxSize /\ 0 <= left
    BY Now, FileWriterAssumption
  <2> QED
    BY <2>1, <2>2, <2>3, FlatReturn
<1> QED
  BY <1>1, <1>2, <1>3, <1>4, <1>5 DEF Next, Working

\* writePieceData keeps the promise of FlatDisk for any torrent whose files have
\* paths of their own: the files together are one array of bytes, every call
\* stores its data at its position and in order, and returns no error exactly
\* when all of it is stored.
THEOREM FilesAreFlat ==
  ASSUME DistinctPaths
  PROVE  Spec => ImplementsFlatDisk
<1>1. Init => Flat!Init
  BY FlatInit
<1>2. Inv /\ [Next]_vars => [Flat!Next]_Flat!vars
  BY FlatStep
<1> QED
  BY <1>1, <1>2, Invariance, PTL DEF Spec, Flat!Spec, ImplementsFlatDisk
=============================================================================

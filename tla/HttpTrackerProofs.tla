--------------------------- MODULE HttpTrackerProofs ---------------------------
(***************************************************************************)
(* Theorems about HttpTracker and the parts of pkg/bencode it rests on,    *)
(* for torrent files and responses of any bytes and ints of any width.     *)
(***************************************************************************)
EXTENDS HttpTracker, NumberLemmas, SequenceTheorems

(***************************************************************************)
(* Numbers.                                                                *)
(***************************************************************************)
LEMMA DigitType ==
  ASSUME NEW c, IsDigit(c)
  PROVE  DigitValue(c) \in 0 .. 9
BY DEF IsDigit, DigitValue

LEMMA WrapType ==
  ASSUME NEW n \in Int
  PROVE  Wrap(n) \in -Half .. Half - 1
BY BencodeAssumption DEF Wrap

LEMMA WrapSmall ==
  ASSUME NEW n \in Nat, n < Half
  PROVE  Wrap(n) = n
<1> DEFINE w == 2 * Half
<1>1. /\ w \in Nat \ {0} /\ n + Half \in Nat
      /\ -w < n + Half /\ n + Half < w /\ Half \in Nat
  BY BencodeAssumption
<1>2. Wrap(n) = ((n + Half) % w) - Half
  BY DEF Wrap
<1> HIDE DEF w
<1>3. (n + Half) % w = n + Half
  BY <1>1, SmallRemainder
<1> QED
  BY <1>1, <1>2, <1>3

\* f holds what the first n digits stand for.
NumeralSteps(ds, base, n, f) ==
  f = [i \in 0 .. n |-> IF i = 0 THEN 0 ELSE base * f[i - 1] + DigitValue(ds[i])]

\* f holds what number() has after each of the first n digits.
TenfoldSteps(ds, n, f) ==
  f = [i \in 0 .. n |-> IF i = 0 THEN 0 ELSE Wrap(Wrap(f[i - 1] + DigitValue(ds[i])) * 10)]

LEMMA NumeralStepsExist ==
  ASSUME NEW ds, NEW base
  PROVE  \A n \in Nat : \E f : NumeralSteps(ds, base, n, f)
<1> DEFINE S == {n \in Nat : \E f : NumeralSteps(ds, base, n, f)}
<1>1. 0 \in S
  <2>1. NumeralSteps(ds, base, 0, [i \in 0 .. 0 |-> 0])
    BY DEF NumeralSteps
  <2> QED BY <2>1
<1>2. ASSUME NEW n \in Nat, n \in S PROVE n + 1 \in S
  <2>1. PICK f : NumeralSteps(ds, base, n, f)
    BY <1>2
  <2> DEFINE g == [i \in 0 .. n + 1 |-> IF i = 0 THEN 0 ELSE base * f[i - 1] + DigitValue(ds[i])]
  <2>2. \A i \in 0 .. n : g[i] = f[i]
    BY <2>1 DEF NumeralSteps
  <2> HIDE DEF g
  <2>3. \A i \in 0 .. n + 1 : i # 0 => g[i - 1] = f[i - 1]
    <3>1. \A i \in 0 .. n + 1 : i # 0 => i - 1 \in 0 .. n
      OBVIOUS
    <3> QED BY <2>2, <3>1
  <2>4. g = [i \in 0 .. n + 1 |-> IF i = 0 THEN 0 ELSE base * g[i - 1] + DigitValue(ds[i])]
    <3> SUFFICES ASSUME NEW i \in 0 .. n + 1
                 PROVE  g[i] = IF i = 0 THEN 0 ELSE base * g[i - 1] + DigitValue(ds[i])
      BY Zenon DEF g
    <3> QED BY <2>3 DEF g
  <2>5. NumeralSteps(ds, base, n + 1, g)
    BY <2>4 DEF NumeralSteps
  <2> QED BY <2>5
<1> HIDE DEF S
<1>3. Nat \subseteq S
  BY <1>1, <1>2, SetInduction
<1> QED
  BY <1>3 DEF S

LEMMA TenfoldStepsExist ==
  ASSUME NEW ds
  PROVE  \A n \in Nat : \E f : TenfoldSteps(ds, n, f)
<1> DEFINE S == {n \in Nat : \E f : TenfoldSteps(ds, n, f)}
           Step(i, x) == IF i = 0 THEN 0 ELSE Wrap(Wrap(x + DigitValue(ds[i])) * 10)
<1>1. 0 \in S
  <2>1. TenfoldSteps(ds, 0, [i \in 0 .. 0 |-> 0])
    BY DEF TenfoldSteps
  <2> QED BY <2>1
<1>2. ASSUME NEW n \in Nat, n \in S PROVE n + 1 \in S
  <2>1. PICK f : TenfoldSteps(ds, n, f)
    BY <1>2
  <2> DEFINE g == [i \in 0 .. n + 1 |-> Step(i, f[i - 1])]
  <2>6. f = [i \in 0 .. n |-> Step(i, f[i - 1])]
    BY <2>1, Zenon DEF TenfoldSteps
  <2> HIDE DEF Step
  <2>2. \A i \in 0 .. n : g[i] = f[i]
    BY <2>6
  <2> HIDE DEF g
  <2>3. \A i \in 1 .. n + 1 : g[i - 1] = f[i - 1]
    <3>1. \A i \in 1 .. n + 1 : i - 1 \in 0 .. n
      OBVIOUS
    <3> QED BY <2>2, <3>1
  <2>7. Step(0, g[0 - 1]) = Step(0, f[0 - 1])
    BY Zenon DEF Step
  <2>4. g = [i \in 0 .. n + 1 |-> Step(i, g[i - 1])]
    <3> SUFFICES ASSUME NEW i \in 0 .. n + 1 PROVE Step(i, f[i - 1]) = Step(i, g[i - 1])
      BY Zenon DEF g
    <3>1. CASE i = 0
      BY <2>7, <3>1
    <3>2. CASE i # 0
      BY <2>3, <3>2
    <3> QED
      BY <3>1, <3>2
  <2>5. TenfoldSteps(ds, n + 1, g)
    BY <2>4, Zenon DEF TenfoldSteps, Step
  <2> QED BY <2>5
<1> HIDE DEF S
<1>3. Nat \subseteq S
  BY <1>1, <1>2, SetInduction
<1> QED
  BY <1>3 DEF S

\* So both recursions are well founded.
LEMMA NumeralIs ==
  ASSUME NEW ds, NEW base, Len(ds) \in Nat
  PROVE  \E f : NumeralSteps(ds, base, Len(ds), f) /\ Numeral(ds, base) = f[Len(ds)]
<1>1. Numeral(ds, base) = (CHOOSE f : NumeralSteps(ds, base, Len(ds), f))[Len(ds)]
  BY Zenon DEF NumeralSteps, Numeral
<1> QED
  BY <1>1, NumeralStepsExist, Zenon

LEMMA TenfoldIs ==
  ASSUME NEW ds, Len(ds) \in Nat
  PROVE  \E f : TenfoldSteps(ds, Len(ds), f) /\ Tenfold(ds) = f[Len(ds)]
<1>1. Tenfold(ds) = (CHOOSE f : TenfoldSteps(ds, Len(ds), f))[Len(ds)]
  BY Zenon DEF TenfoldSteps, Tenfold
<1> QED
  BY <1>1, TenfoldStepsExist, Zenon

\* What every digit does to both.
LEMMA NumeralSteps1 ==
  ASSUME NEW ds, NEW f, Len(ds) \in Nat, NumeralSteps(ds, 10, Len(ds), f)
  PROVE  /\ f[0] = 0
         /\ \A i \in 1 .. Len(ds) : f[i] = 10 * f[i - 1] + DigitValue(ds[i])
BY DEF NumeralSteps

LEMMA TenfoldSteps1 ==
  ASSUME NEW ds, NEW f, Len(ds) \in Nat, TenfoldSteps(ds, Len(ds), f)
  PROVE  /\ f[0] = 0
         /\ \A i \in 1 .. Len(ds) : f[i] = Wrap(Wrap(f[i - 1] + DigitValue(ds[i])) * 10)
BY DEF TenfoldSteps

\* A number has no more value than one that has more digits.
LEMMA NumeralGrows ==
  ASSUME NEW ds, NEW f, Len(ds) \in Nat, \A i \in 1 .. Len(ds) : IsDigit(ds[i]),
         NumeralSteps(ds, 10, Len(ds), f)
  PROVE  \A i \in 0 .. Len(ds) : f[i] \in Nat /\ f[i] <= f[Len(ds)]
<1> DEFINE n == Len(ds)
           S == {i \in Nat : i <= n => f[i] \in Nat}
           T == {i \in Nat : i <= n => f[n - i] <= f[n]}
<1>1. /\ n \in Nat /\ f[0] = 0
      /\ \A i \in 1 .. n : f[i] = 10 * f[i - 1] + DigitValue(ds[i]) /\ DigitValue(ds[i]) \in 0 .. 9
  BY NumeralSteps1, DigitType
<1> HIDE DEF n
<1>2. 0 \in S
  BY <1>1
<1>3. ASSUME NEW i \in Nat, i \in S PROVE i + 1 \in S
  <2> SUFFICES ASSUME i + 1 <= n PROVE f[i + 1] \in Nat
    OBVIOUS
  <2> DEFINE k == i + 1
  <2>1. k \in 1 .. n /\ k - 1 = i /\ f[i] \in Nat
    BY <1>1, <1>3
  <2> HIDE DEF k
  <2>2. f[k] = 10 * f[k - 1] + DigitValue(ds[k]) /\ DigitValue(ds[k]) \in 0 .. 9
    BY <1>1, <2>1
  <2>3. f[k] = 10 * f[i] + DigitValue(ds[k])
    BY <2>1, <2>2
  <2>4. f[k] \in Nat
    BY <2>1, <2>2, <2>3
  <2> QED BY <2>4 DEF k
<1>4. Nat \subseteq S
  <2> HIDE DEF S
  <2> QED BY <1>2, <1>3, SetInduction
<1>5. \A i \in 0 .. n : f[i] \in Nat
  BY <1>1, <1>4
<1>6. 0 \in T
  <2>1. n - 0 = n /\ f[n] \in Nat
    BY <1>1, <1>5
  <2> QED BY <2>1
<1>7. ASSUME NEW i \in Nat, i \in T PROVE i + 1 \in T
  <2> SUFFICES ASSUME i + 1 <= n PROVE f[n - (i + 1)] <= f[n]
    OBVIOUS
  <2> DEFINE k == n - i
  <2>1. k \in 1 .. n /\ k - 1 = n - (i + 1) /\ k - 1 \in 0 .. n /\ n \in 0 .. n
    BY <1>1
  <2>2. f[k] <= f[n]
    BY <1>1, <1>7
  <2> HIDE DEF k
  <2>3. f[k] = 10 * f[k - 1] + DigitValue(ds[k]) /\ DigitValue(ds[k]) \in 0 .. 9
    BY <1>1, <2>1
  <2>4. f[k - 1] \in Nat /\ f[n] \in Nat /\ f[k] \in Nat
    BY <1>5, <2>1
  <2>5. f[k - 1] <= f[n]
    BY <2>2, <2>3, <2>4
  <2> QED BY <2>1, <2>5
<1>8. Nat \subseteq T
  <2> HIDE DEF T
  <2> QED BY <1>6, <1>7, SetInduction
<1>9. ASSUME NEW i \in 0 .. n PROVE f[i] <= f[n]
  <2>1. n - i \in Nat /\ n - i <= n /\ n - (n - i) = i
    BY <1>1
  <2> QED BY <1>8, <2>1
<1> QED
  BY <1>5, <1>9 DEF n

\* Nothing overflows as long as ten times the number is an int.
LEMMA TenfoldExact ==
  ASSUME NEW ds, Len(ds) \in Nat, \A i \in 1 .. Len(ds) : IsDigit(ds[i]),
         10 * Numeral(ds, 10) < Half
  PROVE  Numeral(ds, 10) \in Nat /\ Tenfold(ds) = 10 * Numeral(ds, 10)
<1>1. PICK f : NumeralSteps(ds, 10, Len(ds), f) /\ Numeral(ds, 10) = f[Len(ds)]
  BY NumeralIs
<1>2. PICK t : TenfoldSteps(ds, Len(ds), t) /\ Tenfold(ds) = t[Len(ds)]
  BY TenfoldIs
<1> DEFINE n == Len(ds)
           S == {i \in Nat : i <= n => t[i] = 10 * f[i]}
<1>3. \A i \in 0 .. n : f[i] \in Nat /\ f[i] <= f[n]
  BY <1>1, NumeralGrows
<1>4. /\ n \in Nat /\ f[0] = 0 /\ t[0] = 0 /\ 10 * f[n] < Half /\ Half \in Nat
      /\ \A i \in 1 .. n : /\ f[i] = 10 * f[i - 1] + DigitValue(ds[i])
                           /\ t[i] = Wrap(Wrap(t[i - 1] + DigitValue(ds[i])) * 10)
  BY <1>1, <1>2, NumeralSteps1, TenfoldSteps1, BencodeAssumption
<1>5. Numeral(ds, 10) = f[n] /\ Tenfold(ds) = t[n]
  BY <1>1, <1>2
<1> HIDE DEF n
<1>6. 0 \in S
  BY <1>4
<1>7. ASSUME NEW i \in Nat, i \in S PROVE i + 1 \in S
  <2> SUFFICES ASSUME i + 1 <= n PROVE t[i + 1] = 10 * f[i + 1]
    OBVIOUS
  <2>1. i + 1 \in 1 .. n /\ (i + 1) - 1 = i /\ t[i] = 10 * f[i] /\ n \in 0 .. n
    BY <1>4, <1>7
  <2>2. f[i + 1] \in Nat /\ f[n] \in Nat /\ f[i + 1] <= f[n]
    BY <1>3, <2>1
  <2>3. /\ f[i + 1] = t[i] + DigitValue(ds[i + 1])
        /\ t[i + 1] = Wrap(Wrap(t[i] + DigitValue(ds[i + 1])) * 10)
    BY <1>4, <2>1
  <2>4. f[i + 1] < Half /\ f[i + 1] * 10 < Half /\ f[i + 1] * 10 \in Nat
    BY <1>4, <2>2
  <2>5. Wrap(f[i + 1]) = f[i + 1] /\ Wrap(f[i + 1] * 10) = f[i + 1] * 10
    BY <2>2, <2>4, WrapSmall
  <2> QED BY <2>2, <2>3, <2>5
<1>8. Nat \subseteq S
  <2> HIDE DEF S
  <2> QED BY <1>6, <1>7, SetInduction
<1> QED
  BY <1>3, <1>4, <1>5, <1>8

LEMMA TenfoldType ==
  ASSUME NEW ds, Len(ds) \in Nat, \A i \in 1 .. Len(ds) : IsDigit(ds[i])
  PROVE  Tenfold(ds) \in Int
<1>1. PICK t : TenfoldSteps(ds, Len(ds), t) /\ Tenfold(ds) = t[Len(ds)]
  BY TenfoldIs
<1> DEFINE n == Len(ds)
           S == {i \in Nat : i <= n => t[i] \in Int}
<1>2. /\ n \in Nat /\ t[0] = 0
      /\ \A i \in 1 .. n : /\ DigitValue(ds[i]) \in 0 .. 9
                           /\ t[i] = Wrap(Wrap(t[i - 1] + DigitValue(ds[i])) * 10)
  BY <1>1, TenfoldSteps1, DigitType
<1>3. Tenfold(ds) = t[n]
  BY <1>1
<1> HIDE DEF n
<1>4. 0 \in S
  BY <1>2
<1>5. ASSUME NEW i \in Nat, i \in S PROVE i + 1 \in S
  <2> SUFFICES ASSUME i + 1 <= n PROVE t[i + 1] \in Int
    OBVIOUS
  <2>1. i + 1 \in 1 .. n /\ (i + 1) - 1 = i /\ t[i] \in Int
    BY <1>2, <1>5
  <2>2. t[i] + DigitValue(ds[i + 1]) \in Int
    BY <1>2, <2>1
  <2>3. Wrap(t[i] + DigitValue(ds[i + 1])) \in Int
    BY <2>2, WrapType, BencodeAssumption
  <2>4. Wrap(t[i] + DigitValue(ds[i + 1])) * 10 \in Int
    BY <2>3
  <2>5. Wrap(Wrap(t[i] + DigitValue(ds[i + 1])) * 10) \in Int
    BY <2>4, WrapType, BencodeAssumption
  <2> QED BY <1>2, <2>1, <2>5
<1>6. Nat \subseteq S
  <2> HIDE DEF S
  <2> QED BY <1>4, <1>5, SetInduction
<1> QED
  BY <1>2, <1>3, <1>6

(***************************************************************************)
(* The scanner.                                                            *)
(***************************************************************************)
IsDigitsEnd(b, cur, end) ==
  /\ \A i \in cur + 1 .. end : IsDigit(b[i])
  /\ ~Finished(b, end) => ~IsDigit(b[end + 1])

LEMMA DigitsEndIs ==
  ASSUME NEW b, Len(b) \in Nat, NEW cur \in 0 .. Len(b)
  PROVE  DigitsEnd(b, cur) \in cur .. Len(b) /\ IsDigitsEnd(b, cur, DigitsEnd(b, cur))
<1> DEFINE n == Len(b)
           T == {k \in Nat : cur <= k /\ k <= n /\ (k = n \/ ~IsDigit(b[k + 1]))}
<1>1. n \in Nat /\ cur \in 0 .. n
  OBVIOUS
<1> HIDE DEF n
<1>2. n \in T
  BY <1>1
<1>3. PICK m \in T : \A k \in T : m <= k
  <2> HIDE DEF T
  <2>1. T \in SUBSET Nat
    BY DEF T
  <2> QED BY <1>2, <2>1, LeastNumber
<1>4. m \in cur .. n /\ m \in Nat
  BY <1>1, <1>3
<1>5. ASSUME NEW i \in cur + 1 .. m PROVE IsDigit(b[i])
  <2>1. i - 1 \in Nat /\ cur <= i - 1 /\ i - 1 <= n /\ i - 1 < m /\ (i - 1) + 1 = i
    BY <1>1, <1>4
  <2>2. i - 1 \notin T
    <3> HIDE DEF T
    <3> QED BY <1>3, <1>4, <2>1
  <2>3. i - 1 # n
    BY <1>1, <1>4, <2>1
  <2> QED
    BY <2>1, <2>2, <2>3
<1>6. m < n => ~IsDigit(b[m + 1])
  BY <1>1, <1>3
<1>7. IsDigitsEnd(b, cur, m)
  BY <1>1, <1>4, <1>5, <1>6 DEF IsDigitsEnd, Finished, n
<1>8. \E end \in cur .. Len(b) : IsDigitsEnd(b, cur, end)
  BY <1>4, <1>7 DEF n
<1>9. DigitsEnd(b, cur) = CHOOSE end \in cur .. Len(b) : IsDigitsEnd(b, cur, end)
  BY Zenon DEF DigitsEnd, IsDigitsEnd
<1> QED
  BY <1>8, <1>9, Zenon

\* The digits that number() takes are digits of the bytes.
LEMMA DigitsTaken ==
  ASSUME NEW b \in Seq(STRING), NEW cur \in 0 .. Len(b)
  PROVE  LET end == DigitsEnd(b, cur)
             ds  == SubSeq(b, cur + 1, end)
         IN  /\ Len(b) \in Nat /\ end \in cur .. Len(b)
             /\ ds \in Seq(STRING) /\ Len(ds) = end - cur
             /\ \A i \in 1 .. Len(ds) : ds[i] = b[cur + i] /\ IsDigit(ds[i])
             /\ \A i \in cur + 1 .. end : IsDigit(b[i])
<1> DEFINE end == DigitsEnd(b, cur)
           ds  == SubSeq(b, cur + 1, end)
<1>1. Len(b) \in Nat
  OBVIOUS
<1>2. end \in cur .. Len(b) /\ \A i \in cur + 1 .. end : IsDigit(b[i])
  BY <1>1, DigitsEndIs DEF IsDigitsEnd
<1> HIDE DEF end
<1>3. ds \in Seq(STRING) /\ Len(ds) = end - cur /\ \A i \in 1 .. end - cur : ds[i] = b[cur + i]
  BY <1>2
<1>4. \A i \in 1 .. end - cur : cur + i \in cur + 1 .. end
  BY <1>2
<1> HIDE DEF ds
<1>5. \A i \in 1 .. Len(ds) : ds[i] = b[cur + i] /\ IsDigit(ds[i])
  BY <1>2, <1>3, <1>4
<1> QED
  BY <1>1, <1>2, <1>3, <1>5 DEF end, ds

LEMMA NumberType ==
  ASSUME NEW b \in Seq(STRING), NEW cur \in 0 .. Len(b)
  PROVE  /\ Number(b, cur).cur = DigitsEnd(b, cur)
         /\ Number(b, cur).cur \in cur .. Len(b)
         /\ Number(b, cur).n \in Int
<1> DEFINE ds == SubSeq(b, cur + 1, DigitsEnd(b, cur))
<1>1. Tenfold(ds) \in Int
  <2>1. ds \in Seq(STRING) /\ \A i \in 1 .. Len(ds) : IsDigit(ds[i])
    BY DigitsTaken
  <2> HIDE DEF ds
  <2> QED BY <2>1, TenfoldType
<1>2. Tenth(Tenfold(ds)) \in Int
  BY <1>1 DEF Tenth
<1> QED
  BY <1>2, DigitsTaken DEF Number

\* What number() gives back, if no number is too long for it, is what the digits say.
LEMMA NumberExact ==
  ASSUME NEW b \in Seq(STRING), NEW cur \in 0 .. Len(b), ~HasLongNumber(b)
  PROVE  LET ds == SubSeq(b, cur + 1, DigitsEnd(b, cur))
         IN  Number(b, cur).n = Numeral(ds, 10) /\ Numeral(ds, 10) \in Nat
<1> DEFINE end == DigitsEnd(b, cur)
           ds  == SubSeq(b, cur + 1, end)
<1>1. /\ Len(b) \in Nat /\ end \in cur .. Len(b)
      /\ ds \in Seq(STRING) /\ Len(ds) = end - cur
      /\ \A i \in 1 .. Len(ds) : IsDigit(ds[i])
      /\ \A i \in cur + 1 .. end : IsDigit(b[i])
  BY DigitsTaken
<1>2. Number(b, cur).n = Tenth(Tenfold(ds))
  BY DEF Number
<1> HIDE DEF ds
<1>3. Len(ds) \in Nat
  BY <1>1
<1>4. PICK f : NumeralSteps(ds, 10, Len(ds), f) /\ Numeral(ds, 10) = f[Len(ds)]
  BY <1>3, NumeralIs
<1>5. Half \in Nat \ {0}
  BY BencodeAssumption
<1>6. f[0] = 0 /\ \A i \in 0 .. Len(ds) : f[i] \in Nat
  BY <1>1, <1>4, <1>3, NumeralSteps1, NumeralGrows
<1> HIDE DEF end
<1>7. Numeral(ds, 10) \in Nat
  BY <1>4, <1>6, <1>3
<1>8. 10 * Numeral(ds, 10) < Half
  <2>1. CASE end = cur
    <3>1. Len(ds) = 0
      BY <1>1, <2>1
    <3> QED BY <1>4, <1>5, <1>6, <3>1
  <2>2. CASE end # cur
    <3>1. cur + 1 \in DOMAIN b /\ end \in cur + 1 .. Len(b)
      BY <1>1, <2>2
    <3>2. ~(10 * Numeral(ds, 10) >= Half)
      BY <1>1, <3>1 DEF HasLongNumber, ds
    <3> QED BY <1>5, <1>7, <3>2
  <2> QED BY <2>1, <2>2
<1>9. Tenfold(ds) = 10 * Numeral(ds, 10)
  BY <1>1, <1>8, <1>3, TenfoldExact
<1>10. Tenth(10 * Numeral(ds, 10)) = Numeral(ds, 10)
  BY <1>7 DEF Tenth
<1> QED
  BY <1>2, <1>7, <1>9, <1>10 DEF ds, end

\* How a read may end, s being the scanner it leaves if it does not fail.
Ends(b, r) ==
  /\ r.status \in {"ok", "error", "panic"}
  /\ r.status = "panic" => HasLongNumber(b)
  /\ r.status = "ok" => r.start \in 0 .. Len(b) /\ r.cur \in 0 .. Len(b)

LEMMA ReadIntEnds ==
  ASSUME NEW b \in Seq(STRING), NEW s \in Scanners(b), At(b, s.cur, "i")
  PROVE  /\ Ends(b, ReadInt(b, s))
         /\ ReadInt(b, s).status = "ok" => ReadInt(b, s).val.kind = "int"
<1> DEFINE num == Number(b, s.cur + 1)
<1>1. Len(b) \in Nat /\ s.cur + 1 \in 0 .. Len(b)
  BY DEF Scanners, At, Finished
<1>2. num.cur \in 0 .. Len(b)
  BY <1>1, NumberType
<1>3. ReadInt(b, s) = ClosedInt(b, num, num.cur + 1)
  BY DEF ReadInt
<1> HIDE DEF num
<1>4. CASE At(b, num.cur, "e")
  <2>1. num.cur + 1 \in 0 .. Len(b)
    BY <1>1, <1>2, <1>4 DEF At, Finished
  <2> QED
    BY <1>3, <1>4, <2>1 DEF ClosedInt, Read, IntElement, Ends
<1>5. CASE ~At(b, num.cur, "e")
  BY <1>3, <1>5 DEF ClosedInt, Failed, Ends
<1> QED
  BY <1>4, <1>5

\* A string that is read stands right behind a colon.
LEMMA ReadStringEnds ==
  ASSUME NEW b \in Seq(STRING), NEW s \in Scanners(b)
  PROVE  LET r == ReadString(b, s)
         IN  /\ Ends(b, r)
             /\ r.status = "ok" =>
                  /\ r.val.kind = "string" /\ r.cur = r.start
                  /\ \E p \in 1 .. r.start :
                       b[p] = ":" /\ r.val.s = SubSeq(b, p + 1, r.start)
<1> DEFINE num == Number(b, s.cur)
           p   == num.cur + 1
           end == p + num.n
           r   == ReadString(b, s)
<1>1. Len(b) \in Nat /\ s.cur \in 0 .. Len(b)
  BY DEF Scanners
<1>2. num.cur \in 0 .. Len(b) /\ num.n \in Int
  BY <1>1, NumberType
<1>3. ~HasLongNumber(b) => num.n \in Nat
  BY <1>1, NumberExact
<1>4. r = IF At(b, num.cur, ":") THEN StringFrom(b, p, end) ELSE Failed
  BY DEF ReadString
<1> HIDE DEF num, r
<1>5. CASE ~At(b, num.cur, ":")
  BY <1>4, <1>5 DEF Failed, Ends, r
<1>6. CASE At(b, num.cur, ":")
  <2>1. p \in 1 .. Len(b) /\ b[p] = ":" /\ end \in Int
    BY <1>1, <1>2, <1>6 DEF At, Finished
  <2>2. ~HasLongNumber(b) => ~(end < p)
    BY <1>2, <1>3
  <2>3. r = StringFrom(b, p, end)
    BY <1>4, <1>6
  <2> HIDE DEF p, end
  <2>4. CASE end > Len(b)
    BY <2>3, <2>4 DEF StringFrom, Failed, Ends, r
  <2>5. CASE ~(end > Len(b)) /\ end < p
    BY <2>2, <2>3, <2>5 DEF StringFrom, Panicked, Ends, r
  <2>6. CASE ~(end > Len(b)) /\ ~(end < p)
    <3>1. r = Read(StringElement(SubSeq(b, p + 1, end)), end, end)
      BY <2>3, <2>6 DEF StringFrom
    <3>2. end \in 0 .. Len(b) /\ p \in 1 .. end
      BY <1>1, <2>1, <2>6
    <3>3. /\ r.status = "ok" /\ r.start = end /\ r.cur = end
          /\ r.val.kind = "string" /\ r.val.s = SubSeq(b, p + 1, end)
      BY <3>1 DEF Read, StringElement
    <3> QED
      BY <2>1, <3>2, <3>3 DEF Ends, r
  <2> QED
    BY <2>4, <2>5, <2>6
<1> QED
  BY <1>5, <1>6

\* What the reads of at most k reads inside one another are, given those of fewer.
Deeper(b, k, read) ==
  [next    |-> [s \in Scanners(b) |-> IF k = 0 THEN Failed ELSE ReadNext(b, s, read)],
   items   |-> [s \in Scanners(b) |-> IF k = 0 THEN Failed ELSE ReadItems(b, s, read)],
   entries |-> [s \in Scanners(b) |-> IF k = 0 THEN Failed ELSE ReadEntries(b, s, read)]]

ReadSteps(b, n, f) == f = [k \in 0 .. n |-> Deeper(b, k, f[k - 1])]

LEMMA ReadStepsExist ==
  ASSUME NEW b
  PROVE  \A n \in Nat : \E f : ReadSteps(b, n, f)
<1> DEFINE S == {n \in Nat : \E f : ReadSteps(b, n, f)}
<1>1. \A x, y : Deeper(b, 0, x) = Deeper(b, 0, y)
  BY Zenon DEF Deeper
<1>2. 0 \in S
  <2> DEFINE f == [k \in 0 .. 0 |-> Deeper(b, 0, 0)]
  <2>1. \A k \in 0 .. 0 : k = 0
    OBVIOUS
  <2>2. f = [k \in 0 .. 0 |-> Deeper(b, k, f[k - 1])]
    BY <1>1, <2>1, Zenon
  <2>3. ReadSteps(b, 0, f)
    BY <2>2, Zenon DEF ReadSteps
  <2> QED BY <2>3
<1>3. ASSUME NEW n \in Nat, n \in S PROVE n + 1 \in S
  <2>1. PICK f : ReadSteps(b, n, f)
    BY <1>3
  <2> DEFINE g == [k \in 0 .. n + 1 |-> Deeper(b, k, f[k - 1])]
  <2>2. \A k \in 0 .. n : g[k] = f[k]
    BY <2>1 DEF ReadSteps
  <2> HIDE DEF g
  <2>3. \A k \in 1 .. n + 1 : g[k - 1] = f[k - 1]
    <3>1. \A k \in 1 .. n + 1 : k - 1 \in 0 .. n
      OBVIOUS
    <3> QED BY <2>2, <3>1
  <2>4. g = [k \in 0 .. n + 1 |-> Deeper(b, k, g[k - 1])]
    <3> SUFFICES ASSUME NEW k \in 0 .. n + 1
                 PROVE  Deeper(b, k, f[k - 1]) = Deeper(b, k, g[k - 1])
      BY Zenon DEF g
    <3>1. CASE k = 0
      BY <1>1, <3>1
    <3>2. CASE k # 0
      BY <2>3, <3>2
    <3> QED
      BY <3>1, <3>2
  <2>5. ReadSteps(b, n + 1, g)
    BY <2>4, Zenon DEF ReadSteps
  <2> QED BY <2>5
<1> HIDE DEF S
<1>4. Nat \subseteq S
  BY <1>2, <1>3, SetInduction
<1> QED
  BY <1>4 DEF S

LEMMA ReadsIs ==
  ASSUME NEW b, Len(b) \in Nat
  PROVE  ReadSteps(b, 2 * Len(b) + 2, Reads(b))
<1>1. 2 * Len(b) + 2 \in Nat
  OBVIOUS
<1>2. Reads(b) = CHOOSE f : ReadSteps(b, 2 * Len(b) + 2, f)
  BY Zenon DEF ReadSteps, Deeper, Reads
<1> QED
  BY <1>1, <1>2, ReadStepsExist, Zenon

\* No read at all is allowed at depth 0; deeper ones find the reads of one less.
LEMMA ReadsFirst ==
  ASSUME NEW b, Len(b) \in Nat, NEW s \in Scanners(b)
  PROVE  /\ Reads(b)[0].next[s] = Failed
         /\ Reads(b)[0].items[s] = Failed
         /\ Reads(b)[0].entries[s] = Failed
<1> DEFINE f == Reads(b)
           g == f[0 - 1]
<1>1. ReadSteps(b, 2 * Len(b) + 2, f) /\ 0 \in 0 .. 2 * Len(b) + 2
  BY ReadsIs
<1> HIDE DEF f
<1>2. f[0] = Deeper(b, 0, g)
  BY <1>1 DEF ReadSteps
<1> HIDE DEF g
<1>3. f[0].next[s] = Failed /\ f[0].items[s] = Failed /\ f[0].entries[s] = Failed
  BY <1>2 DEF Deeper
<1> QED
  BY <1>3 DEF f

LEMMA ReadsNext ==
  ASSUME NEW b, Len(b) \in Nat, NEW n \in 0 .. 2 * Len(b) + 1, NEW s \in Scanners(b)
  PROVE  /\ Reads(b)[n + 1].next[s] = ReadNext(b, s, Reads(b)[n])
         /\ Reads(b)[n + 1].items[s] = ReadItems(b, s, Reads(b)[n])
         /\ Reads(b)[n + 1].entries[s] = ReadEntries(b, s, Reads(b)[n])
<1> DEFINE f == Reads(b)
           g == f[n]
           m == n + 1
<1>1. /\ ReadSteps(b, 2 * Len(b) + 2, f)
      /\ m \in 0 .. 2 * Len(b) + 2 /\ m # 0 /\ m - 1 = n
  BY ReadsIs
<1> HIDE DEF f, m
<1>2. f[m] = Deeper(b, m, g)
  BY <1>1 DEF ReadSteps
<1> HIDE DEF g
<1>3. /\ f[m].next[s] = ReadNext(b, s, g)
      /\ f[m].items[s] = ReadItems(b, s, g)
      /\ f[m].entries[s] = ReadEntries(b, s, g)
  BY <1>1, <1>2 DEF Deeper
<1> QED
  BY <1>3 DEF f, g, m

\* A list or dictionary that is the value of key k stands behind a colon and the key.
Keyed(b, k, v) ==
  v.kind \in {"list", "dict"} =>
    \E p \in 1 .. Len(b) : \E q \in p .. Len(b) : \E j \in 0 .. Len(b) :
      b[p] = ":" /\ k = SubSeq(b, p + 1, q) /\ v.raw = SubSeq(b, q + 1, j)

\* What the three reads may give.
NextIs(b, s, r) ==
  /\ Ends(b, r)
  /\ r.status = "ok" =>
       /\ r.val.kind \in {"list", "dict"} => r.val.raw = SubSeq(b, s.start + 1, r.start)
       /\ r.val.kind = "dict" => \A k \in DOMAIN r.val.value : Keyed(b, k, r.val.value[k])

EntriesIs(b, r) ==
  /\ Ends(b, r)
  /\ r.status = "ok" => \A k \in DOMAIN r.val : Keyed(b, k, r.val[k])

ReadIs(b, read) ==
  \A s \in Scanners(b) :
    /\ NextIs(b, s, read.next[s])
    /\ Ends(b, read.items[s])
    /\ EntriesIs(b, read.entries[s])

LEMMA InsideType ==
  ASSUME NEW b \in Seq(STRING), NEW s \in Scanners(b), NEW c, At(b, s.cur, c)
  PROVE  Inside(s) \in Scanners(b) /\ s.cur + 1 \in 0 .. Len(b)
BY DEF Inside, Scanners, At, Finished

LEMMA ScannerType ==
  ASSUME NEW b, NEW r, Ends(b, r), r.status = "ok"
  PROVE  Scanner(r) \in Scanners(b)
BY DEF Scanner, Scanners, Ends

LEMMA NextGood ==
  ASSUME NEW b \in Seq(STRING), NEW s \in Scanners(b), NEW read, ReadIs(b, read)
  PROVE  NextIs(b, s, ReadNext(b, s, read))
<1> DEFINE r == ReadNext(b, s, read)
<1>1. CASE At(b, s.cur, "l")
  <2> DEFINE x == read.items[Inside(s)]
  <2>1. Ends(b, x)
    BY <1>1, InsideType DEF ReadIs
  <2>2. ~At(b, s.cur, "d") /\ ~At(b, s.cur, "i")
    BY <1>1 DEF At
  <2>3. r = IF x.status = "ok"
            THEN Read(ListElement(x.val, RawFrom(b, s, x)), x.start, x.cur) ELSE x
    BY <1>1, <2>2 DEF ReadNext, Then
  <2> HIDE DEF x, r
  <2>4. CASE x.status = "ok"
    <3>1. /\ r.status = "ok" /\ r.start = x.start /\ r.cur = x.cur
          /\ r.val.kind = "list" /\ r.val.raw = SubSeq(b, s.start + 1, x.start)
      BY <2>3, <2>4 DEF Read, ListElement, RawFrom
    <3> QED
      BY <2>1, <2>4, <3>1 DEF NextIs, Ends, r
  <2>5. CASE x.status # "ok"
    BY <2>1, <2>3, <2>5 DEF NextIs, Ends, r
  <2> QED BY <2>4, <2>5
<1>2. CASE At(b, s.cur, "d")
  <2> DEFINE x == read.entries[Inside(s)]
  <2>1. EntriesIs(b, x)
    BY <1>2, InsideType DEF ReadIs
  <2>2. ~At(b, s.cur, "l") /\ ~At(b, s.cur, "i")
    BY <1>2 DEF At
  <2>3. r = IF x.status = "ok"
            THEN Read(DictElement(x.val, RawFrom(b, s, x)), x.start, x.cur) ELSE x
    BY <1>2, <2>2 DEF ReadNext, Then
  <2> HIDE DEF x, r
  <2>4. CASE x.status = "ok"
    <3>1. /\ r.status = "ok" /\ r.start = x.start /\ r.cur = x.cur /\ r.val.kind = "dict"
          /\ r.val.raw = SubSeq(b, s.start + 1, x.start) /\ r.val.value = x.val
      BY <2>3, <2>4 DEF Read, DictElement, RawFrom
    <3> QED
      BY <2>1, <2>4, <3>1 DEF NextIs, EntriesIs, Ends, r
  <2>5. CASE x.status # "ok"
    BY <2>1, <2>3, <2>5 DEF NextIs, EntriesIs, Ends, r
  <2> QED BY <2>4, <2>5
<1>3. CASE At(b, s.cur, "i")
  <2>1. ~At(b, s.cur, "l") /\ ~At(b, s.cur, "d")
    BY <1>3 DEF At
  <2>2. r = ReadInt(b, s)
    BY <1>3, <2>1 DEF ReadNext
  <2> QED
    BY <1>3, <2>2, ReadIntEnds DEF NextIs
<1>4. CASE ~At(b, s.cur, "l") /\ ~At(b, s.cur, "d") /\ ~At(b, s.cur, "i")
  <2>1. r = ReadString(b, s)
    BY <1>4 DEF ReadNext
  <2> QED
    BY <2>1, ReadStringEnds DEF NextIs
<1> QED
  BY <1>1, <1>2, <1>3, <1>4

LEMMA ItemsGood ==
  ASSUME NEW b \in Seq(STRING), NEW s \in Scanners(b), NEW read, ReadIs(b, read)
  PROVE  Ends(b, ReadItems(b, s, read))
<1> DEFINE r == ReadItems(b, s, read)
<1>1. CASE Finished(b, s.cur)
  BY <1>1 DEF ReadItems, Failed, Ends, At
<1>2. CASE ~Finished(b, s.cur) /\ At(b, s.cur, "e")
  <2>1. r = Read(<< >>, s.cur + 1, s.cur + 1)
    BY <1>2 DEF ReadItems
  <2> QED
    BY <1>2, <2>1, InsideType DEF Read, Ends
<1>3. CASE ~Finished(b, s.cur) /\ ~At(b, s.cur, "e")
  <2> DEFINE item == read.next[[start |-> s.cur, cur |-> s.cur]]
             rest == read.items[Scanner(item)]
  <2>1. [start |-> s.cur, cur |-> s.cur] \in Scanners(b)
    BY DEF Scanners
  <2>2. Ends(b, item)
    BY <2>1 DEF ReadIs, NextIs
  <2>3. item.status = "ok" => Ends(b, rest)
    BY <2>2, ScannerType DEF ReadIs
  <2>4. r = IF item.status = "ok"
            THEN IF rest.status = "ok"
                 THEN Read(<< item.val >> \o rest.val, rest.start, rest.cur) ELSE rest
            ELSE item
    BY <1>3 DEF ReadItems, Then
  <2> HIDE DEF item, rest, r
  <2> QED
    BY <2>2, <2>3, <2>4 DEF Read, Ends, r
<1> QED
  BY <1>1, <1>2, <1>3

LEMMA EntriesGood ==
  ASSUME NEW b \in Seq(STRING), NEW s \in Scanners(b), NEW read, ReadIs(b, read)
  PROVE  EntriesIs(b, ReadEntries(b, s, read))
<1> DEFINE r == ReadEntries(b, s, read)
<1>1. CASE Finished(b, s.cur)
  BY <1>1 DEF ReadEntries, Failed, EntriesIs, Ends, At
<1>2. CASE ~Finished(b, s.cur) /\ At(b, s.cur, "e")
  <2>1. r = Read([k \in {} |-> Failed], s.cur + 1, s.cur + 1)
    BY <1>2 DEF ReadEntries
  <2>2. DOMAIN [k \in {} |-> Failed] = {}
    OBVIOUS
  <2> QED
    BY <1>2, <2>1, <2>2, InsideType DEF Read, EntriesIs, Ends
<1>3. CASE ~Finished(b, s.cur) /\ ~At(b, s.cur, "e")
  <2> DEFINE key  == ReadString(b, s)
             item == read.next[Scanner(key)]
             rest == read.entries[Scanner(item)]
             all  == Entry(key.val.s, item.val, rest.val)
  <2>1. Ends(b, key)
    BY ReadStringEnds
  <2>2. key.status = "ok" => NextIs(b, Scanner(key), item)
    BY <2>1, ScannerType DEF ReadIs
  <2>3. key.status = "ok" /\ item.status = "ok" => EntriesIs(b, rest)
    BY <2>2, ScannerType DEF ReadIs, NextIs
  <2>4. r = IF key.status = "ok"
            THEN IF item.status = "ok"
                 THEN IF rest.status = "ok" THEN Read(all, rest.start, rest.cur) ELSE rest
                 ELSE item
            ELSE key
    BY <1>3 DEF ReadEntries, Then
  <2>5. key.status = "ok" /\ item.status = "ok" => Keyed(b, key.val.s, item.val)
    <3> SUFFICES ASSUME key.status = "ok", item.status = "ok", item.val.kind \in {"list", "dict"}
                 PROVE  Keyed(b, key.val.s, item.val)
      BY DEF Keyed
    <3>1. PICK p \in 1 .. key.start : b[p] = ":" /\ key.val.s = SubSeq(b, p + 1, key.start)
      BY ReadStringEnds
    <3>2. key.start \in 0 .. Len(b) /\ item.start \in 0 .. Len(b) /\ Len(b) \in Nat
      BY <2>1, <2>2 DEF NextIs, Ends
    <3>3. item.val.raw = SubSeq(b, key.start + 1, item.start)
      BY <2>2 DEF NextIs, Scanner
    <3> HIDE DEF key, item
    <3>4. p \in 1 .. Len(b) /\ key.start \in p .. Len(b)
      BY <3>2
    <3> QED
      BY <3>1, <3>2, <3>3, <3>4 DEF Keyed
  <2> HIDE DEF key, item, rest, r
  <2>6. CASE key.status = "ok" /\ item.status = "ok" /\ rest.status = "ok"
    <3>1. /\ r.status = "ok" /\ r.start = rest.start /\ r.cur = rest.cur /\ r.val = all
      BY <2>4, <2>6 DEF Read
    <3>2. ASSUME NEW k \in DOMAIN all PROVE Keyed(b, k, all[k])
      <4>1. /\ k \in DOMAIN rest.val \cup {key.val.s}
            /\ all[k] = IF k \in DOMAIN rest.val THEN rest.val[k] ELSE item.val
        BY <3>2 DEF Entry
      <4>2. CASE k \in DOMAIN rest.val
        BY <2>3, <2>6, <4>1, <4>2 DEF EntriesIs
      <4>3. CASE k \notin DOMAIN rest.val
        BY <2>5, <2>6, <4>1, <4>3
      <4> QED BY <4>2, <4>3
    <3> HIDE DEF all
    <3> QED
      BY <2>3, <2>6, <3>1, <3>2 DEF EntriesIs, Ends, r
  <2>7. CASE ~(key.status = "ok" /\ item.status = "ok" /\ rest.status = "ok")
    BY <2>1, <2>2, <2>3, <2>4, <2>7 DEF EntriesIs, NextIs, Ends, r
  <2> QED BY <2>6, <2>7
<1> QED
  BY <1>1, <1>2, <1>3

\* Every read there is, at any depth.
LEMMA ReadsGood ==
  ASSUME NEW b \in Seq(STRING), NEW n \in 0 .. 2 * Len(b) + 2
  PROVE  ReadIs(b, Reads(b)[n])
<1> DEFINE N == 2 * Len(b) + 2
           S == {k \in Nat : k <= N => ReadIs(b, Reads(b)[k])}
<1>1. Len(b) \in Nat /\ N \in Nat
  OBVIOUS
<1>2. 0 \in S
  BY <1>1, ReadsFirst DEF ReadIs, NextIs, EntriesIs, Ends, Failed
<1>3. ASSUME NEW k \in Nat, k \in S PROVE k + 1 \in S
  <2> SUFFICES ASSUME k + 1 <= N PROVE ReadIs(b, Reads(b)[k + 1])
    OBVIOUS
  <2>1. k \in 0 .. 2 * Len(b) + 1 /\ ReadIs(b, Reads(b)[k])
    BY <1>1, <1>3
  <2> QED
    BY <1>1, <2>1, ReadsNext, NextGood, ItemsGood, EntriesGood DEF ReadIs
<1>4. Nat \subseteq S
  <2> HIDE DEF S
  <2> QED BY <1>2, <1>3, SetInduction
<1> QED
  BY <1>1, <1>4

(***************************************************************************)
(* The depth of the reads.                                                 *)
(***************************************************************************)

\* A read that succeeds has gone further, and what is next begins where it stands.
Moves(b, s, r) ==
  r.status = "ok" => r.start = r.cur /\ r.cur \in s.cur + 1 .. Len(b)

Moving(b, read) ==
  \A s \in Scanners(b) :
    Moves(b, s, read.next[s]) /\ Moves(b, s, read.items[s]) /\ Moves(b, s, read.entries[s])

LEMMA ReadIntMoves ==
  ASSUME NEW b \in Seq(STRING), NEW s \in Scanners(b), At(b, s.cur, "i")
  PROVE  Moves(b, s, ReadInt(b, s))
<1> DEFINE num == Number(b, s.cur + 1)
<1>1. Len(b) \in Nat /\ s.cur \in Nat /\ s.cur + 1 \in 0 .. Len(b)
  BY DEF Scanners, At, Finished
<1>2. num.cur \in s.cur + 1 .. Len(b)
  BY <1>1, NumberType
<1>3. ReadInt(b, s) = ClosedInt(b, num, num.cur + 1)
  BY DEF ReadInt
<1> HIDE DEF num
<1>4. CASE At(b, num.cur, "e")
  BY <1>1, <1>2, <1>3, <1>4 DEF ClosedInt, Read, Moves, At, Finished
<1>5. CASE ~At(b, num.cur, "e")
  BY <1>3, <1>5 DEF ClosedInt, Failed, Moves
<1> QED
  BY <1>4, <1>5

LEMMA ReadStringMoves ==
  ASSUME NEW b \in Seq(STRING), NEW s \in Scanners(b)
  PROVE  Moves(b, s, ReadString(b, s))
<1> DEFINE num == Number(b, s.cur)
           p   == num.cur + 1
           end == p + num.n
<1>1. Len(b) \in Nat /\ s.cur \in 0 .. Len(b)
  BY DEF Scanners
<1>2. num.cur \in s.cur .. Len(b) /\ num.n \in Int
  BY <1>1, NumberType
<1>3. ReadString(b, s) = IF At(b, num.cur, ":") THEN StringFrom(b, p, end) ELSE Failed
  BY DEF ReadString
<1>4. p \in Int /\ end \in Int /\ s.cur + 1 <= p
  BY <1>1, <1>2
<1> HIDE DEF num, p, end
<1>5. CASE ~At(b, num.cur, ":") \/ end > Len(b)
  BY <1>3, <1>5 DEF StringFrom, Failed, Moves
<1>6. CASE At(b, num.cur, ":") /\ ~(end > Len(b)) /\ end < p
  BY <1>3, <1>6 DEF StringFrom, Panicked, Moves
<1>7. CASE At(b, num.cur, ":") /\ ~(end > Len(b)) /\ ~(end < p)
  <2>1. ReadString(b, s) = Read(StringElement(SubSeq(b, p + 1, end)), end, end)
    BY <1>3, <1>7 DEF StringFrom
  <2>2. end \in s.cur + 1 .. Len(b)
    BY <1>1, <1>4, <1>7
  <2> QED
    BY <2>1, <2>2 DEF Read, Moves
<1> QED
  BY <1>5, <1>6, <1>7

LEMMA MovesOn ==
  ASSUME NEW b \in Seq(STRING), NEW s \in Scanners(b), NEW r, Moves(b, s, r), r.status = "ok"
  PROVE  /\ Scanner(r) \in Scanners(b) /\ Scanner(r).cur = r.cur
         /\ r.cur \in Nat /\ s.cur \in Nat /\ s.cur < r.cur
BY DEF Moves, Scanner, Scanners

\* The cases of ReadNext, with what follows a read that succeeds written out.
LEMMA NextCases ==
  ASSUME NEW b, NEW s, NEW read
  PROVE  LET x == read.items[Inside(s)]
             y == read.entries[Inside(s)]
             r == ReadNext(b, s, read)
         IN  /\ At(b, s.cur, "l") =>
                  r = IF x.status = "ok"
                      THEN Read(ListElement(x.val, RawFrom(b, s, x)), x.start, x.cur) ELSE x
             /\ At(b, s.cur, "d") =>
                  r = IF y.status = "ok"
                      THEN Read(DictElement(y.val, RawFrom(b, s, y)), y.start, y.cur) ELSE y
             /\ At(b, s.cur, "i") => r = ReadInt(b, s)
             /\ ~At(b, s.cur, "l") /\ ~At(b, s.cur, "d") /\ ~At(b, s.cur, "i") =>
                  r = ReadString(b, s)
<1>1. /\ At(b, s.cur, "l") => ~At(b, s.cur, "d") /\ ~At(b, s.cur, "i")
      /\ At(b, s.cur, "d") => ~At(b, s.cur, "l") /\ ~At(b, s.cur, "i")
      /\ At(b, s.cur, "i") => ~At(b, s.cur, "l") /\ ~At(b, s.cur, "d")
  BY DEF At
<1> QED
  BY <1>1 DEF ReadNext, Then

\* The same of ReadItems and ReadEntries.
LEMMA ItemsCases ==
  ASSUME NEW b, NEW s, NEW read
  PROVE  LET item == read.next[[start |-> s.cur, cur |-> s.cur]]
             rest == read.items[Scanner(item)]
             r    == ReadItems(b, s, read)
         IN  /\ Finished(b, s.cur) => r = Failed
             /\ At(b, s.cur, "e") => r = Read(<< >>, s.cur + 1, s.cur + 1)
             /\ ~Finished(b, s.cur) /\ ~At(b, s.cur, "e") =>
                  r = IF item.status = "ok"
                      THEN IF rest.status = "ok"
                           THEN Read(<< item.val >> \o rest.val, rest.start, rest.cur) ELSE rest
                      ELSE item
BY DEF ReadItems, Then, At

LEMMA EntriesCases ==
  ASSUME NEW b, NEW s, NEW read
  PROVE  LET key  == ReadString(b, s)
             item == read.next[Scanner(key)]
             rest == read.entries[Scanner(item)]
             r    == ReadEntries(b, s, read)
         IN  /\ Finished(b, s.cur) => r = Failed
             /\ At(b, s.cur, "e") => r = Read([k \in {} |-> Failed], s.cur + 1, s.cur + 1)
             /\ ~Finished(b, s.cur) /\ ~At(b, s.cur, "e") =>
                  r = IF key.status = "ok"
                      THEN IF item.status = "ok"
                           THEN IF rest.status = "ok"
                                THEN Read(Entry(key.val.s, item.val, rest.val), rest.start, rest.cur)
                                ELSE rest
                           ELSE item
                      ELSE key
BY DEF ReadEntries, Then, At

LEMMA NextMoves ==
  ASSUME NEW b \in Seq(STRING), NEW s \in Scanners(b), NEW read, Moving(b, read)
  PROVE  Moves(b, s, ReadNext(b, s, read))
<1> DEFINE r == ReadNext(b, s, read)
           x == read.items[Inside(s)]
           y == read.entries[Inside(s)]
<1>1. Len(b) \in Nat /\ s.cur \in Nat /\ Inside(s).cur = s.cur + 1
  BY DEF Scanners, Inside
<1>2. CASE At(b, s.cur, "l")
  <2>1. Moves(b, Inside(s), x)
    BY <1>2, InsideType DEF Moving
  <2>2. r = IF x.status = "ok"
            THEN Read(ListElement(x.val, RawFrom(b, s, x)), x.start, x.cur) ELSE x
    BY <1>2, NextCases
  <2> HIDE DEF x, r
  <2> QED
    BY <1>1, <2>1, <2>2 DEF Moves, Read, r
<1>3. CASE At(b, s.cur, "d")
  <2>1. Moves(b, Inside(s), y)
    BY <1>3, InsideType DEF Moving
  <2>2. r = IF y.status = "ok"
            THEN Read(DictElement(y.val, RawFrom(b, s, y)), y.start, y.cur) ELSE y
    BY <1>3, NextCases
  <2> HIDE DEF y, r
  <2> QED
    BY <1>1, <2>1, <2>2 DEF Moves, Read, r
<1>4. CASE At(b, s.cur, "i")
  <2>1. r = ReadInt(b, s)
    BY <1>4, NextCases
  <2> QED BY <1>4, <2>1, ReadIntMoves
<1>5. CASE ~At(b, s.cur, "l") /\ ~At(b, s.cur, "d") /\ ~At(b, s.cur, "i")
  <2>1. r = ReadString(b, s)
    BY <1>5, NextCases
  <2> QED BY <2>1, ReadStringMoves
<1> QED
  BY <1>2, <1>3, <1>4, <1>5

LEMMA ItemsMoves ==
  ASSUME NEW b \in Seq(STRING), NEW s \in Scanners(b), NEW read, Moving(b, read)
  PROVE  Moves(b, s, ReadItems(b, s, read))
<1> DEFINE at   == [start |-> s.cur, cur |-> s.cur]
           item == read.next[at]
           rest == read.items[Scanner(item)]
           r    == ReadItems(b, s, read)
<1>1. Len(b) \in Nat /\ s.cur \in Nat /\ at \in Scanners(b) /\ at.cur = s.cur
  BY DEF Scanners
<1>2. CASE Finished(b, s.cur)
  <2>1. r = Failed
    BY <1>2, ItemsCases, Zenon
  <2> HIDE DEF r
  <2> QED
    BY <2>1 DEF Failed, Moves, r
<1>3. CASE At(b, s.cur, "e")
  <2>1. r = Read(<< >>, s.cur + 1, s.cur + 1)
    BY <1>3, ItemsCases
  <2> QED
    BY <1>1, <1>3, <2>1 DEF Moves, Read, At, Finished
<1>4. CASE ~Finished(b, s.cur) /\ ~At(b, s.cur, "e")
  <2>1. Moves(b, at, item)
    BY <1>1 DEF Moving
  <2>2. item.status = "ok" => Moves(b, Scanner(item), rest) /\ Scanner(item).cur > s.cur
    BY <1>1, <2>1, MovesOn DEF Moving
  <2>3. r = IF item.status = "ok"
            THEN IF rest.status = "ok"
                 THEN Read(<< item.val >> \o rest.val, rest.start, rest.cur) ELSE rest
            ELSE item
    BY <1>4, ItemsCases
  <2>4. item.status = "ok" => Scanner(item).cur \in Nat
    BY <1>1, <2>1, MovesOn
  <2> HIDE DEF at, item, rest, r
  <2> QED
    BY <1>1, <2>1, <2>2, <2>3, <2>4 DEF Moves, Read, r
<1> QED
  BY <1>2, <1>3, <1>4

LEMMA EntriesMoves ==
  ASSUME NEW b \in Seq(STRING), NEW s \in Scanners(b), NEW read, Moving(b, read)
  PROVE  Moves(b, s, ReadEntries(b, s, read))
<1> DEFINE key  == ReadString(b, s)
           item == read.next[Scanner(key)]
           rest == read.entries[Scanner(item)]
           r    == ReadEntries(b, s, read)
<1>1. Len(b) \in Nat /\ s.cur \in Nat
  BY DEF Scanners
<1>2. CASE Finished(b, s.cur)
  <2>1. r = Failed
    BY <1>2, EntriesCases, Zenon
  <2> HIDE DEF r
  <2> QED
    BY <2>1 DEF Failed, Moves, r
<1>3. CASE At(b, s.cur, "e")
  <2>1. r = Read([k \in {} |-> Failed], s.cur + 1, s.cur + 1)
    BY <1>3, EntriesCases
  <2> QED
    BY <1>1, <1>3, <2>1 DEF Moves, Read, At, Finished
<1>4. CASE ~Finished(b, s.cur) /\ ~At(b, s.cur, "e")
  <2>1. Moves(b, s, key)
    BY ReadStringMoves
  <2>2. key.status = "ok" => /\ Scanner(key) \in Scanners(b) /\ Scanner(key).cur \in Nat
                             /\ s.cur < Scanner(key).cur /\ Moves(b, Scanner(key), item)
    BY <2>1, MovesOn DEF Moving
  <2> HIDE DEF key, item
  <2>3. key.status = "ok" /\ item.status = "ok" =>
          /\ Scanner(item) \in Scanners(b) /\ Scanner(item).cur \in Nat
          /\ s.cur < Scanner(item).cur /\ Moves(b, Scanner(item), rest)
    BY <1>1, <2>2, MovesOn DEF Moving
  <2>4. r = IF key.status = "ok"
            THEN IF item.status = "ok"
                 THEN IF rest.status = "ok"
                      THEN Read(Entry(key.val.s, item.val, rest.val), rest.start, rest.cur)
                      ELSE rest
                 ELSE item
            ELSE key
    BY <1>4, EntriesCases DEF key, item
  <2> HIDE DEF rest, r
  <2> QED
    BY <1>1, <2>1, <2>2, <2>3, <2>4 DEF Moves, Read, r
<1> QED
  BY <1>2, <1>3, <1>4

LEMMA ReadsMove ==
  ASSUME NEW b \in Seq(STRING), NEW n \in 0 .. 2 * Len(b) + 2
  PROVE  Moving(b, Reads(b)[n])
<1> DEFINE N == 2 * Len(b) + 2
           S == {k \in Nat : k <= N => Moving(b, Reads(b)[k])}
<1>1. Len(b) \in Nat /\ N \in Nat
  OBVIOUS
<1>2. 0 \in S
  BY <1>1, ReadsFirst DEF Moving, Moves, Failed
<1>3. ASSUME NEW k \in Nat, k \in S PROVE k + 1 \in S
  <2> SUFFICES ASSUME k + 1 <= N PROVE Moving(b, Reads(b)[k + 1])
    OBVIOUS
  <2>1. k \in 0 .. 2 * Len(b) + 1 /\ Moving(b, Reads(b)[k])
    BY <1>1, <1>3
  <2> QED
    BY <1>1, <2>1, ReadsNext, NextMoves, ItemsMoves, EntriesMoves DEF Moving
<1>4. Nat \subseteq S
  <2> HIDE DEF S
  <2> QED BY <1>2, <1>3, SetInduction
<1> QED
  BY <1>1, <1>4

\* f and g give the same wherever n reads inside one another reach the end of the bytes.
Agree(b, n, f, g) ==
  \A s \in Scanners(b) :
    /\ 2 * (Len(b) - s.cur) + 1 <= n => f.next[s] = g.next[s]
    /\ 2 * (Len(b) - s.cur) + 2 <= n => f.items[s] = g.items[s] /\ f.entries[s] = g.entries[s]

LEMMA NextAgrees ==
  ASSUME NEW b \in Seq(STRING), NEW n \in Int, NEW f, NEW g, Agree(b, n, f, g),
         NEW s \in Scanners(b), 2 * (Len(b) - s.cur) <= n
  PROVE  ReadNext(b, s, f) = ReadNext(b, s, g)
<1>1. Len(b) \in Nat /\ s.cur \in Nat
  BY DEF Scanners
<1>2. CASE At(b, s.cur, "l") \/ At(b, s.cur, "d")
  <2>1. Inside(s) \in Scanners(b) /\ Inside(s).cur = s.cur + 1
    BY <1>2, InsideType DEF Inside
  <2>2. f.items[Inside(s)] = g.items[Inside(s)] /\ f.entries[Inside(s)] = g.entries[Inside(s)]
    BY <1>1, <2>1 DEF Agree
  <2> QED
    BY <1>2, <2>2, NextCases
<1>3. CASE ~At(b, s.cur, "l") /\ ~At(b, s.cur, "d")
  BY <1>3, NextCases
<1> QED
  BY <1>2, <1>3

LEMMA ItemsAgree ==
  ASSUME NEW b \in Seq(STRING), NEW n \in Int, NEW f, NEW g, Agree(b, n, f, g), Moving(b, f),
         NEW s \in Scanners(b), 2 * (Len(b) - s.cur) + 1 <= n
  PROVE  ReadItems(b, s, f) = ReadItems(b, s, g)
<1> DEFINE at   == [start |-> s.cur, cur |-> s.cur]
           item == f.next[at]
<1>1. Len(b) \in Nat /\ s.cur \in Nat /\ at \in Scanners(b) /\ at.cur = s.cur
  BY DEF Scanners
<1>2. item = g.next[at]
  BY <1>1 DEF Agree
<1>3. item.status = "ok" => f.items[Scanner(item)] = g.items[Scanner(item)]
  <2> SUFFICES ASSUME item.status = "ok" PROVE f.items[Scanner(item)] = g.items[Scanner(item)]
    OBVIOUS
  <2>1. Moves(b, at, item)
    BY <1>1 DEF Moving
  <2> HIDE DEF item, at
  <2>2. /\ Scanner(item) \in Scanners(b) /\ Scanner(item).cur = item.cur
        /\ item.cur \in Nat /\ at.cur < item.cur
    BY <1>1, <2>1, MovesOn, Zenon
  <2>3. 2 * (Len(b) - Scanner(item).cur) + 2 <= n
    BY <1>1, <2>2
  <2> QED
    BY <2>2, <2>3, Zenon DEF Agree
<1>4. CASE Finished(b, s.cur) \/ At(b, s.cur, "e")
  <2>1. Finished(b, s.cur) => ReadItems(b, s, f) = Failed /\ ReadItems(b, s, g) = Failed
    BY ItemsCases, Zenon
  <2>2. At(b, s.cur, "e") => /\ ReadItems(b, s, f) = Read(<< >>, s.cur + 1, s.cur + 1)
                            /\ ReadItems(b, s, g) = Read(<< >>, s.cur + 1, s.cur + 1)
    BY ItemsCases, Zenon
  <2> QED
    BY <1>4, <2>1, <2>2
<1>5. CASE ~Finished(b, s.cur) /\ ~At(b, s.cur, "e")
  <2> DEFINE Given(x, y) ==
        IF x.status = "ok"
        THEN IF y.status = "ok" THEN Read(<< x.val >> \o y.val, y.start, y.cur) ELSE y
        ELSE x
  <2>1. ReadItems(b, s, f) = Given(item, f.items[Scanner(item)])
    BY <1>5, ItemsCases
  <2>2. ReadItems(b, s, g) = Given(item, g.items[Scanner(item)])
    BY <1>2, <1>5, ItemsCases, Zenon
  <2> HIDE DEF item
  <2>3. item.status # "ok" => \A y, z : Given(item, y) = Given(item, z)
    BY Zenon
  <2> HIDE DEF Given
  <2> QED
    BY <1>3, <2>1, <2>2, <2>3
<1> QED
  BY <1>4, <1>5

LEMMA EntriesAgree ==
  ASSUME NEW b \in Seq(STRING), NEW n \in Int, NEW f, NEW g, Agree(b, n, f, g), Moving(b, f),
         NEW s \in Scanners(b), 2 * (Len(b) - s.cur) + 1 <= n
  PROVE  ReadEntries(b, s, f) = ReadEntries(b, s, g)
<1> DEFINE key  == ReadString(b, s)
           item == f.next[Scanner(key)]
<1>1. Len(b) \in Nat /\ s.cur \in Nat /\ Moves(b, s, key)
  BY ReadStringMoves DEF Scanners
<1>2. CASE key.status = "ok" /\ ~Finished(b, s.cur) /\ ~At(b, s.cur, "e")
  <2> HIDE DEF key
  <2>1. /\ Scanner(key) \in Scanners(b) /\ Scanner(key).cur = key.cur
        /\ key.cur \in Nat /\ s.cur < key.cur
    BY <1>1, <1>2, MovesOn, Zenon
  <2>2. item = g.next[Scanner(key)]
    BY <1>1, <2>1 DEF Agree
  <2>3. item.status = "ok" => f.entries[Scanner(item)] = g.entries[Scanner(item)]
    <3> SUFFICES ASSUME item.status = "ok"
                 PROVE  f.entries[Scanner(item)] = g.entries[Scanner(item)]
      OBVIOUS
    <3>1. Moves(b, Scanner(key), item)
      BY <2>1 DEF Moving
    <3> HIDE DEF item
    <3>2. /\ Scanner(item) \in Scanners(b) /\ Scanner(item).cur = item.cur
          /\ item.cur \in Nat /\ Scanner(key).cur < item.cur
      BY <2>1, <3>1, MovesOn, Zenon
    <3>3. 2 * (Len(b) - Scanner(item).cur) + 2 <= n
      BY <1>1, <2>1, <3>2
    <3> QED
      BY <3>2, <3>3, Zenon DEF Agree
  <2> DEFINE Given(x, y) ==
        IF x.status = "ok"
        THEN IF y.status = "ok" THEN Read(Entry(key.val.s, x.val, y.val), y.start, y.cur) ELSE y
        ELSE x
  <2>4. ReadEntries(b, s, f) = Given(item, f.entries[Scanner(item)])
    BY <1>2, EntriesCases DEF key
  <2>5. ReadEntries(b, s, g) = Given(item, g.entries[Scanner(item)])
    BY <1>2, <2>2, EntriesCases DEF key
  <2> HIDE DEF item
  <2>6. item.status # "ok" => \A y, z : Given(item, y) = Given(item, z)
    BY Zenon
  <2> HIDE DEF Given
  <2> QED
    BY <2>3, <2>4, <2>5, <2>6
<1>3. CASE key.status # "ok" /\ ~Finished(b, s.cur) /\ ~At(b, s.cur, "e")
  <2>1. ReadEntries(b, s, f) = key /\ ReadEntries(b, s, g) = key
    BY <1>3, EntriesCases, Zenon
  <2> QED BY <2>1
<1>4. CASE Finished(b, s.cur) \/ At(b, s.cur, "e")
  <2> DEFINE none == Read([k \in {} |-> Failed], s.cur + 1, s.cur + 1)
  <2>1. Finished(b, s.cur) => ReadEntries(b, s, f) = Failed /\ ReadEntries(b, s, g) = Failed
    BY EntriesCases, Zenon
  <2>2. At(b, s.cur, "e") => ReadEntries(b, s, f) = none /\ ReadEntries(b, s, g) = none
    BY EntriesCases, Zenon
  <2> HIDE DEF none
  <2> QED
    BY <1>4, <2>1, <2>2
<1> QED
  BY <1>2, <1>3, <1>4

LEMMA ReadsAgree ==
  ASSUME NEW b \in Seq(STRING), NEW n \in 0 .. 2 * Len(b) + 1
  PROVE  Agree(b, n, Reads(b)[n], Reads(b)[n + 1])
<1> DEFINE N == 2 * Len(b) + 1
           S == {k \in Nat : k <= N => Agree(b, k, Reads(b)[k], Reads(b)[k + 1])}
<1>1. Len(b) \in Nat /\ N \in Nat /\ \A s \in Scanners(b) : s.cur \in 0 .. Len(b)
  BY DEF Scanners
<1>2. 0 \in S
  BY <1>1 DEF Agree
<1>3. ASSUME NEW k \in Nat, k \in S PROVE k + 1 \in S
  <2> SUFFICES ASSUME k + 1 <= N PROVE Agree(b, k + 1, Reads(b)[k + 1], Reads(b)[(k + 1) + 1])
    OBVIOUS
  <2> DEFINE f == Reads(b)[k]
             g == Reads(b)[k + 1]
             h == Reads(b)[(k + 1) + 1]
  <2>1. /\ k \in 0 .. 2 * Len(b) + 1 /\ k + 1 \in 0 .. 2 * Len(b) + 1 /\ k \in Int
        /\ k \in 0 .. 2 * Len(b) + 2
    BY <1>1
  <2>2. Agree(b, k, f, g) /\ Moving(b, f)
    BY <1>1, <1>3, <2>1, ReadsMove
  <2>3. \A s \in Scanners(b) : /\ g.next[s] = ReadNext(b, s, f)
                               /\ g.items[s] = ReadItems(b, s, f)
                               /\ g.entries[s] = ReadEntries(b, s, f)
    BY <1>1, <2>1, ReadsNext
  <2>4. \A s \in Scanners(b) : /\ h.next[s] = ReadNext(b, s, g)
                               /\ h.items[s] = ReadItems(b, s, g)
                               /\ h.entries[s] = ReadEntries(b, s, g)
    BY <1>1, <2>1, ReadsNext
  <2> HIDE DEF f, g, h
  <2>5. ASSUME NEW s \in Scanners(b)
        PROVE  /\ 2 * (Len(b) - s.cur) + 1 <= k + 1 => g.next[s] = h.next[s]
               /\ 2 * (Len(b) - s.cur) + 2 <= k + 1 =>
                    g.items[s] = h.items[s] /\ g.entries[s] = h.entries[s]
    <3>1. s.cur \in Int /\ Len(b) \in Int
      BY <1>1
    <3>2. CASE 2 * (Len(b) - s.cur) + 2 <= k + 1
      <4>1. 2 * (Len(b) - s.cur) <= k /\ 2 * (Len(b) - s.cur) + 1 <= k
        BY <3>1, <3>2
      <4> QED
        BY <2>1, <2>2, <2>3, <2>4, <4>1, NextAgrees, ItemsAgree, EntriesAgree
    <3>3. CASE 2 * (Len(b) - s.cur) + 1 <= k + 1 /\ ~(2 * (Len(b) - s.cur) + 2 <= k + 1)
      <4>1. 2 * (Len(b) - s.cur) <= k
        BY <3>1, <3>3
      <4> QED
        BY <2>1, <2>2, <2>3, <2>4, <3>3, <4>1, NextAgrees
    <3>4. CASE ~(2 * (Len(b) - s.cur) + 1 <= k + 1)
      BY <3>1, <3>4
    <3> QED
      BY <3>2, <3>3, <3>4
  <2> QED
    BY <2>5 DEF Agree, g, h
<1>4. Nat \subseteq S
  <2> HIDE DEF S
  <2> QED BY <1>2, <1>3, SetInduction
<1> QED
  BY <1>1, <1>4

\* The depth that Parse takes is enough, whatever the bytes: the reads it finds there
\* are those of Next, readList and readDict calling each other without a limit.
THEOREM ReadsAreRecursive ==
  ASSUME NEW b \in Seq(STRING), NEW s \in Scanners(b)
  PROVE  LET read == Reads(b)[2 * Len(b) + 2]
         IN  /\ read.next[s] = ReadNext(b, s, read)
             /\ read.items[s] = ReadItems(b, s, read)
             /\ read.entries[s] = ReadEntries(b, s, read)
<1> DEFINE n == 2 * Len(b) + 1
           f == Reads(b)[n]
           g == Reads(b)[n + 1]
<1>1. /\ Len(b) \in Nat /\ s.cur \in 0 .. Len(b)
      /\ n \in 0 .. 2 * Len(b) + 1 /\ n \in 0 .. 2 * Len(b) + 2 /\ n \in Int
      /\ n + 1 = 2 * Len(b) + 2
      /\ 2 * (Len(b) - s.cur) <= n /\ 2 * (Len(b) - s.cur) + 1 <= n
  BY DEF Scanners
<1>2. g = Reads(b)[2 * Len(b) + 2]
  BY <1>1
<1> HIDE DEF n
<1>3. Agree(b, n, f, g) /\ Moving(b, f)
  BY <1>1, ReadsAgree, ReadsMove
<1>4. /\ g.next[s] = ReadNext(b, s, f)
      /\ g.items[s] = ReadItems(b, s, f)
      /\ g.entries[s] = ReadEntries(b, s, f)
  BY <1>1, ReadsNext
<1> HIDE DEF f, g
<1>5. /\ ReadNext(b, s, f) = ReadNext(b, s, g)
      /\ ReadItems(b, s, f) = ReadItems(b, s, g)
      /\ ReadEntries(b, s, f) = ReadEntries(b, s, g)
  BY <1>1, <1>3, NextAgrees, ItemsAgree, EntriesAgree
<1> QED
  BY <1>2, <1>4, <1>5

(***************************************************************************)
(* Bytes that are a part of others.                                        *)
(***************************************************************************)

\* c is what follows the first o units of b, up to some unit.
PartOf(b, o, c) ==
  /\ o \in 0 .. Len(b) /\ o + Len(c) <= Len(b)
  /\ \A i \in 1 .. Len(c) : c[i] = b[o + i]

\* The scanner s where c is all the bytes.
Back(o, s) == [start |-> s.start - o, cur |-> s.cur - o]

Covered(b, o, c) == [start : o .. o + Len(c), cur : o .. o + Len(c)]

\* x is r, a read that succeeds, where c is all the bytes.
Alike(o, r, x) ==
  x.status = "ok" /\ x.val = r.val /\ x.start = r.start - o /\ x.cur = r.cur - o

\* A read of b that leaves the scanner within c gives the same when c is all the bytes.
SameWithin(o, c, r, x) == r.status = "ok" /\ r.cur <= o + Len(c) => Alike(o, r, x)

SameReads(b, o, c, f, g) ==
  \A s \in Covered(b, o, c) :
    /\ SameWithin(o, c, f.next[s], g.next[Back(o, s)])
    /\ SameWithin(o, c, f.items[s], g.items[Back(o, s)])
    /\ SameWithin(o, c, f.entries[s], g.entries[Back(o, s)])

LEMMA Shifted ==
  ASSUME NEW o \in Nat, NEW m \in Nat, NEW k \in o .. o + m
  PROVE  /\ k \in Int /\ k - o \in 0 .. m /\ o + (k - o) = k
         /\ (k - o) + 1 \in 1 .. m + 1 /\ o + ((k - o) + 1) = k + 1
OBVIOUS

LEMMA CoveredType ==
  ASSUME NEW b \in Seq(STRING), NEW c \in Seq(STRING), NEW o, PartOf(b, o, c),
         NEW s \in Covered(b, o, c)
  PROVE  /\ s \in Scanners(b) /\ Back(o, s) \in Scanners(c)
         /\ Len(b) \in Nat /\ Len(c) \in Nat /\ o \in Nat
         /\ s.cur \in o .. o + Len(c) /\ s.start \in o .. o + Len(c)
         /\ Back(o, s).cur = s.cur - o /\ Back(o, s).start = s.start - o
<1>1. Len(b) \in Nat /\ Len(c) \in Nat /\ o \in Nat /\ o + Len(c) <= Len(b)
  BY DEF PartOf
<1>2. s.cur \in o .. o + Len(c) /\ s.start \in o .. o + Len(c)
  BY DEF Covered
<1>3. s = [start |-> s.start, cur |-> s.cur]
  BY DEF Covered
<1>4. s.cur \in 0 .. Len(b) /\ s.start \in 0 .. Len(b)
  BY <1>1, <1>2
<1>5. s.cur - o \in 0 .. Len(c) /\ s.start - o \in 0 .. Len(c)
  BY <1>1, <1>2
<1> QED
  BY <1>1, <1>2, <1>3, <1>4, <1>5 DEF Back, Scanners

LEMMA SameAt ==
  ASSUME NEW b \in Seq(STRING), NEW c \in Seq(STRING), NEW o, PartOf(b, o, c),
         NEW cur \in o .. o + Len(c), cur < o + Len(c), NEW x
  PROVE  /\ ~Finished(b, cur) /\ ~Finished(c, cur - o)
         /\ At(c, cur - o, x) <=> At(b, cur, x)
<1>1. Len(b) \in Nat /\ Len(c) \in Nat /\ o \in Nat /\ o + Len(c) <= Len(b)
  BY DEF PartOf
<1>2. ~Finished(b, cur) /\ ~Finished(c, cur - o)
  BY <1>1 DEF Finished
<1>3. (cur - o) + 1 \in 1 .. Len(c) /\ o + ((cur - o) + 1) = cur + 1
  BY <1>1
<1>4. c[(cur - o) + 1] = b[cur + 1]
  BY <1>3 DEF PartOf
<1> QED
  BY <1>2, <1>4 DEF At

LEMMA SameSubSeq ==
  ASSUME NEW b \in Seq(STRING), NEW c \in Seq(STRING), NEW o, PartOf(b, o, c),
         NEW i \in 1 .. Len(c) + 1, NEW j \in 0 .. Len(c),
         NEW i1, i1 = o + i, NEW j1, j1 = o + j
  PROVE  SubSeq(c, i, j) = SubSeq(b, i1, j1)
<1> DEFINE n == IF j < i THEN 0 ELSE j - i + 1
           p == SubSeq(c, i, j)
           q == SubSeq(b, i1, j1)
<1>1. Len(b) \in Nat /\ Len(c) \in Nat /\ o \in Nat /\ o + Len(c) <= Len(b) /\ n \in Nat
  BY DEF PartOf
<1>2. p \in Seq(STRING) /\ Len(p) = n /\ \A k \in 1 .. n : p[k] = c[(i - 1) + k]
  BY <1>1
<1>3. q \in Seq(STRING) /\ Len(q) = n /\ \A k \in 1 .. n : q[k] = b[(i1 - 1) + k]
  BY <1>1
<1>4. \A k \in 1 .. n : (i - 1) + k \in 1 .. Len(c) /\ o + ((i - 1) + k) = (i1 - 1) + k
  BY <1>1
<1> HIDE DEF n, p, q
<1>5. \A k \in 1 .. n : p[k] = q[k]
  BY <1>2, <1>3, <1>4 DEF PartOf
<1>6. Len(p) = Len(q) /\ \A k \in 1 .. Len(p) : p[k] = q[k]
  BY <1>2, <1>3, <1>5
<1>7. p = q
  BY <1>2, <1>3, <1>6, SeqEqual, Zenon
<1> QED
  BY <1>7 DEF p, q

LEMMA SameNumber ==
  ASSUME NEW b \in Seq(STRING), NEW c \in Seq(STRING), NEW o, PartOf(b, o, c),
         NEW cur \in o .. o + Len(c), DigitsEnd(b, cur) < o + Len(c)
  PROVE  /\ Number(c, cur - o).n = Number(b, cur).n
         /\ Number(c, cur - o).cur = Number(b, cur).cur - o
<1> DEFINE e == DigitsEnd(b, cur)
           d == DigitsEnd(c, cur - o)
<1>1. /\ Len(b) \in Nat /\ Len(c) \in Nat /\ o \in Nat /\ o + Len(c) <= Len(b)
      /\ cur \in 0 .. Len(b) /\ cur - o \in 0 .. Len(c) /\ cur \in Nat
  BY DEF PartOf
<1>2. e \in cur .. Len(b) /\ IsDigitsEnd(b, cur, e)
  BY <1>1, DigitsEndIs
<1>3. d \in cur - o .. Len(c) /\ IsDigitsEnd(c, cur - o, d)
  BY <1>1, DigitsEndIs
<1>4. e < o + Len(c)
  OBVIOUS
<1> HIDE DEF e, d
<1>5. \A i \in 1 .. Len(c) : c[i] = b[o + i]
  BY DEF PartOf
<1>6. ~(d + o < e)
  <2> SUFFICES ASSUME d + o < e PROVE FALSE
    OBVIOUS
  <2>1. d < Len(c) /\ d + 1 \in 1 .. Len(c) /\ o + (d + 1) \in cur + 1 .. e
    BY <1>1, <1>2, <1>3, <1>4
  <2>2. ~IsDigit(c[d + 1])
    BY <1>1, <1>3, <2>1 DEF IsDigitsEnd, Finished
  <2>3. IsDigit(b[o + (d + 1)])
    BY <1>2, <2>1 DEF IsDigitsEnd
  <2> QED
    BY <1>5, <2>1, <2>2, <2>3
<1>7. ~(e < d + o)
  <2> SUFFICES ASSUME e < d + o PROVE FALSE
    OBVIOUS
  <2> DEFINE k == (e - o) + 1
  <2>1. /\ e < Len(b) /\ k \in (cur - o) + 1 .. d /\ k \in 1 .. Len(c) /\ o + k = e + 1
    BY <1>1, <1>2, <1>3, <1>4
  <2> HIDE DEF k
  <2>2. ~IsDigit(b[e + 1])
    BY <1>1, <1>2, <2>1 DEF IsDigitsEnd, Finished
  <2>3. IsDigit(c[k])
    BY <1>3, <2>1 DEF IsDigitsEnd
  <2>4. c[k] = b[e + 1]
    BY <1>5, <2>1
  <2> QED
    BY <2>2, <2>3, <2>4
<1>8. d = e - o /\ e \in o .. o + Len(c)
  BY <1>1, <1>2, <1>3, <1>4, <1>6, <1>7
<1>9. PICK i, i1 : i = (cur - o) + 1 /\ i1 = cur + 1
  OBVIOUS
<1>10. SubSeq(c, (cur - o) + 1, d) = SubSeq(b, cur + 1, e)
  <2>1. i \in 1 .. Len(c) + 1 /\ i1 = o + i /\ d \in 0 .. Len(c) /\ e = o + d
    BY <1>1, <1>8, <1>9
  <2>2. SubSeq(c, i, d) = SubSeq(b, i1, e)
    BY <2>1, SameSubSeq
  <2> QED BY <1>9, <2>2
<1>11. /\ Number(b, cur).n = Tenth(Tenfold(SubSeq(b, cur + 1, e))) /\ Number(b, cur).cur = e
       /\ Number(c, cur - o).n = Tenth(Tenfold(SubSeq(c, (cur - o) + 1, d)))
       /\ Number(c, cur - o).cur = d
  BY DEF Number, e, d
<1> QED
  BY <1>8, <1>10, <1>11

LEMMA SameInt ==
  ASSUME NEW b \in Seq(STRING), NEW c \in Seq(STRING), NEW o, PartOf(b, o, c),
         NEW s \in Covered(b, o, c), At(b, s.cur, "i")
  PROVE  SameWithin(o, c, ReadInt(b, s), ReadInt(c, Back(o, s)))
<1> DEFINE num  == Number(b, s.cur + 1)
           num2 == Number(c, Back(o, s).cur + 1)
           r    == ReadInt(b, s)
           x    == ReadInt(c, Back(o, s))
<1> SUFFICES ASSUME r.status = "ok", r.cur <= o + Len(c) PROVE Alike(o, r, x)
  BY DEF SameWithin
<1>1. /\ s \in Scanners(b) /\ Len(b) \in Nat /\ Len(c) \in Nat /\ o \in Nat
      /\ s.cur \in o .. o + Len(c) /\ Back(o, s).cur + 1 = (s.cur + 1) - o
      /\ s.cur + 1 \in 0 .. Len(b)
  BY CoveredType DEF At, Finished
<1>2. num.cur \in s.cur + 1 .. Len(b) /\ num.cur = DigitsEnd(b, s.cur + 1)
  BY <1>1, NumberType
<1>3. r = ClosedInt(b, num, num.cur + 1) /\ x = ClosedInt(c, num2, num2.cur + 1)
  BY DEF ReadInt
<1> HIDE DEF num, num2, r, x
<1>4. At(b, num.cur, "e")
  BY <1>3 DEF ClosedInt, Failed, r
<1>5. r = Read(IntElement(num.n), num.cur + 1, num.cur + 1)
  BY <1>3, <1>4 DEF ClosedInt
<1>6. num.cur \in o .. o + Len(c) /\ num.cur < o + Len(c) /\ s.cur + 1 \in o .. o + Len(c)
  BY <1>1, <1>2, <1>5 DEF Read, r
<1>7. num2.n = num.n /\ num2.cur = num.cur - o
  <2>1. DigitsEnd(b, s.cur + 1) < o + Len(c)
    BY <1>2, <1>6, Zenon
  <2>2. /\ Number(c, (s.cur + 1) - o).n = Number(b, s.cur + 1).n
        /\ Number(c, (s.cur + 1) - o).cur = Number(b, s.cur + 1).cur - o
    BY <1>6, <2>1, SameNumber, Zenon
  <2> QED
    BY <1>1, <2>2, Zenon DEF num, num2
<1>8. At(c, num2.cur, "e")
  BY <1>4, <1>6, <1>7, SameAt
<1>9. x = Read(IntElement(num.n), num2.cur + 1, num2.cur + 1)
  BY <1>3, <1>7, <1>8 DEF ClosedInt
<1>10. num2.cur + 1 = (num.cur + 1) - o
  BY <1>1, <1>6, <1>7
<1> QED
  BY <1>5, <1>9, <1>10 DEF Read, Alike

LEMMA SameString ==
  ASSUME NEW b \in Seq(STRING), NEW c \in Seq(STRING), NEW o, PartOf(b, o, c),
         NEW s \in Covered(b, o, c)
  PROVE  SameWithin(o, c, ReadString(b, s), ReadString(c, Back(o, s)))
<1> DEFINE num  == Number(b, s.cur)
           num2 == Number(c, Back(o, s).cur)
           p    == num.cur + 1
           p2   == num2.cur + 1
           end  == p + num.n
           end2 == p2 + num2.n
           r    == ReadString(b, s)
           x    == ReadString(c, Back(o, s))
<1> SUFFICES ASSUME r.status = "ok", r.cur <= o + Len(c) PROVE Alike(o, r, x)
  BY DEF SameWithin
<1>1. /\ s \in Scanners(b) /\ Len(b) \in Nat /\ Len(c) \in Nat /\ o \in Nat
      /\ s.cur \in o .. o + Len(c) /\ Back(o, s).cur = s.cur - o /\ s.cur \in 0 .. Len(b)
      /\ o + Len(c) <= Len(b)
  BY CoveredType DEF PartOf, Scanners
<1>2. num.cur \in s.cur .. Len(b) /\ num.cur = DigitsEnd(b, s.cur) /\ num.n \in Int
  BY <1>1, NumberType
<1>3. /\ r = IF At(b, num.cur, ":") THEN StringFrom(b, p, end) ELSE Failed
      /\ x = IF At(c, num2.cur, ":") THEN StringFrom(c, p2, end2) ELSE Failed
  BY DEF ReadString
<1>4. p \in Int /\ end \in Int /\ num.cur < p
  BY <1>1, <1>2
<1> HIDE DEF num, num2, r, x
<1>5. At(b, num.cur, ":") /\ r = StringFrom(b, p, end)
  BY <1>3 DEF Failed, r
<1>6. /\ ~(end > Len(b)) /\ ~(end < p)
      /\ r = Read(StringElement(SubSeq(b, p + 1, end)), end, end)
  <2> HIDE DEF p, end
  <2> QED BY <1>5 DEF StringFrom, Failed, Panicked, r
<1>7. end <= o + Len(c)
  BY <1>6 DEF Read, r
<1>8. num.cur \in o .. o + Len(c) /\ num.cur < o + Len(c)
  BY <1>1, <1>2, <1>4, <1>6, <1>7
<1>9. num2.n = num.n /\ num2.cur = num.cur - o
  <2>1. DigitsEnd(b, s.cur) < o + Len(c)
    BY <1>2, <1>8, Zenon
  <2>2. /\ Number(c, s.cur - o).n = Number(b, s.cur).n
        /\ Number(c, s.cur - o).cur = Number(b, s.cur).cur - o
    BY <1>1, <2>1, SameNumber, Zenon
  <2> QED
    BY <1>1, <2>2, Zenon DEF num, num2
<1>10. At(c, num2.cur, ":")
  BY <1>5, <1>8, <1>9, SameAt
<1>11. x = StringFrom(c, p2, end2)
  BY <1>3, <1>10
<1>12. p2 = p - o /\ end2 = end - o
  BY <1>1, <1>2, <1>8, <1>9
<1> HIDE DEF p, p2, end, end2
<1>13. x = Read(StringElement(SubSeq(c, p2 + 1, end2)), end2, end2)
  BY <1>1, <1>4, <1>6, <1>7, <1>11, <1>12 DEF StringFrom
<1>14. SubSeq(c, p2 + 1, end2) = SubSeq(b, p + 1, end)
  <2>1. PICK i, i1 : i = p2 + 1 /\ i1 = p + 1
    OBVIOUS
  <2>2. /\ p \in o + 1 .. o + Len(c) /\ end \in p .. o + Len(c)
        /\ o + 1 \in Int /\ o \in Int /\ Len(c) \in Int
    <3>1. p \in o + 1 .. o + Len(c)
      BY <1>1, <1>8 DEF p
    <3> QED BY <1>1, <1>4, <1>6, <1>7, <3>1
  <2>4. /\ i \in 1 .. Len(c) + 1 /\ i1 = o + i
        /\ end2 \in 0 .. Len(c) /\ end = o + end2
    BY <1>12, <2>1, <2>2
  <2>3. SubSeq(c, i, end2) = SubSeq(b, i1, end)
    BY <2>4, SameSubSeq
  <2> QED BY <2>1, <2>3
<1> QED
  BY <1>6, <1>12, <1>13, <1>14 DEF Read, Alike

LEMMA SameNext ==
  ASSUME NEW b \in Seq(STRING), NEW c \in Seq(STRING), NEW o, PartOf(b, o, c),
         NEW f, NEW g, Moving(b, f), SameReads(b, o, c, f, g), NEW s \in Covered(b, o, c)
  PROVE  SameWithin(o, c, ReadNext(b, s, f), ReadNext(c, Back(o, s), g))
<1> DEFINE t == Back(o, s)
           r == ReadNext(b, s, f)
           x == ReadNext(c, t, g)
           end == o + Len(c)
<1> SUFFICES ASSUME r.status = "ok", r.cur <= end PROVE Alike(o, r, x)
  BY DEF SameWithin
<1>1. /\ s \in Scanners(b) /\ Len(b) \in Nat /\ Len(c) \in Nat /\ o \in Nat
      /\ s.cur \in o .. end /\ s.start \in o .. end
      /\ t.cur = s.cur - o /\ t.start = s.start - o
  BY CoveredType
<1>2. Moves(b, s, r)
  BY <1>1, NextMoves
<1> HIDE DEF r, x
<1>3. s.cur < end /\ r.cur \in s.cur + 1 .. Len(b) /\ r.start = r.cur
  BY <1>1, <1>2 DEF Moves
<1>12. r.cur \in o .. end
  BY <1>1, <1>3
<1>4. \A ch : At(c, t.cur, ch) <=> At(b, s.cur, ch)
  BY <1>1, <1>3, SameAt
<1>5. Inside(s) \in Covered(b, o, c) /\ Inside(t) = Back(o, Inside(s)) /\ Inside(s).cur = s.cur + 1
  <2>1. s.cur + 1 \in o .. o + Len(c) /\ (s.cur + 1) - o = (s.cur - o) + 1
    BY <1>1, <1>3
  <2> QED
    BY <1>1, <2>1 DEF Inside, Back, Covered
<1>6. ASSUME NEW y, NEW z, y.start = y.cur, y.cur \in o .. end, z.start = y.start - o
      PROVE  RawFrom(c, t, z) = RawFrom(b, s, y)
  <2> HIDE DEF t, end
  <2>1. PICK i, i1, j, j1 : i = t.start + 1 /\ i1 = s.start + 1 /\ j = z.start /\ j1 = y.start
    OBVIOUS
  <2>4. /\ j1 \in o .. o + Len(c) /\ j = j1 - o
        /\ s.start \in o .. o + Len(c) /\ i = (s.start - o) + 1
    BY <1>1, <1>6, <2>1 DEF end
  <2>2. i \in 1 .. Len(c) + 1 /\ i1 = o + i /\ j \in 0 .. Len(c) /\ j1 = o + j
    <3>1. o \in Nat /\ Len(c) \in Nat
      BY <1>1
    <3>2. (s.start - o) + 1 \in 1 .. Len(c) + 1 /\ o + ((s.start - o) + 1) = s.start + 1
      BY <2>4, <3>1, Shifted
    <3>3. j1 - o \in 0 .. Len(c) /\ o + (j1 - o) = j1
      BY <2>4, <3>1, Shifted
    <3> QED BY <2>1, <2>4, <3>2, <3>3, Zenon
  <2>3. SubSeq(c, i, j) = SubSeq(b, i1, j1)
    BY <2>2, SameSubSeq
  <2> QED BY <2>1, <2>3 DEF RawFrom
<1>7. CASE At(b, s.cur, "l")
  <2> DEFINE y == f.items[Inside(s)]
             z == g.items[Inside(t)]
  <2>1. r = IF y.status = "ok"
            THEN Read(ListElement(y.val, RawFrom(b, s, y)), y.start, y.cur) ELSE y
    BY <1>7, NextCases DEF r
  <2>2. x = IF z.status = "ok"
            THEN Read(ListElement(z.val, RawFrom(c, t, z)), z.start, z.cur) ELSE z
    BY <1>4, <1>7, NextCases DEF x
  <2>3. SameWithin(o, c, y, z)
    BY <1>5 DEF SameReads
  <2> HIDE DEF y, z, t
  <2>4. /\ y.status = "ok" /\ r.start = y.start /\ r.cur = y.cur
        /\ r.val = ListElement(y.val, RawFrom(b, s, y)) /\ r.status = "ok"
    BY <2>1 DEF Read
  <2>5. z.status = "ok" /\ z.val = y.val /\ z.start = y.start - o /\ z.cur = y.cur - o
    BY <2>3, <2>4 DEF SameWithin, Alike
  <2>6. RawFrom(c, t, z) = RawFrom(b, s, y)
    <3>1. y.start = y.cur /\ y.cur \in o .. end
      BY <1>3, <1>12, <2>4
    <3> HIDE DEF end
    <3> QED BY <1>6, <2>5, <3>1, Zenon
  <2> QED
    BY <2>2, <2>4, <2>5, <2>6 DEF Read, Alike
<1>8. CASE At(b, s.cur, "d")
  <2> DEFINE y == f.entries[Inside(s)]
             z == g.entries[Inside(t)]
  <2>1. r = IF y.status = "ok"
            THEN Read(DictElement(y.val, RawFrom(b, s, y)), y.start, y.cur) ELSE y
    BY <1>8, NextCases DEF r
  <2>2. x = IF z.status = "ok"
            THEN Read(DictElement(z.val, RawFrom(c, t, z)), z.start, z.cur) ELSE z
    BY <1>4, <1>8, NextCases DEF x
  <2>3. SameWithin(o, c, y, z)
    BY <1>5 DEF SameReads
  <2> HIDE DEF y, z, t
  <2>4. /\ y.status = "ok" /\ r.start = y.start /\ r.cur = y.cur
        /\ r.val = DictElement(y.val, RawFrom(b, s, y)) /\ r.status = "ok"
    BY <2>1 DEF Read
  <2>5. z.status = "ok" /\ z.val = y.val /\ z.start = y.start - o /\ z.cur = y.cur - o
    BY <2>3, <2>4 DEF SameWithin, Alike
  <2>6. RawFrom(c, t, z) = RawFrom(b, s, y)
    <3>1. y.start = y.cur /\ y.cur \in o .. end
      BY <1>3, <1>12, <2>4
    <3> HIDE DEF end
    <3> QED BY <1>6, <2>5, <3>1, Zenon
  <2> QED
    BY <2>2, <2>4, <2>5, <2>6 DEF Read, Alike
<1>9. CASE At(b, s.cur, "i")
  <2>1. r = ReadInt(b, s) /\ x = ReadInt(c, t)
    BY <1>4, <1>9, NextCases DEF r, x
  <2> QED
    BY <1>9, <2>1, SameInt DEF SameWithin
<1>10. CASE ~At(b, s.cur, "l") /\ ~At(b, s.cur, "d") /\ ~At(b, s.cur, "i")
  <2>1. r = ReadString(b, s) /\ x = ReadString(c, t)
    BY <1>4, <1>10, NextCases DEF r, x
  <2> QED
    BY <2>1, SameString DEF SameWithin
<1> QED
  BY <1>7, <1>8, <1>9, <1>10

\* Where a read within c goes on, there is a read of c.
LEMMA GoesOn ==
  ASSUME NEW b \in Seq(STRING), NEW c \in Seq(STRING), NEW o, PartOf(b, o, c),
         NEW s \in Covered(b, o, c), NEW r, NEW x, Moves(b, s, r), r.status = "ok",
         r.cur <= o + Len(c), Alike(o, r, x)
  PROVE  /\ Scanner(r) \in Covered(b, o, c) /\ Scanner(x) = Back(o, Scanner(r))
         /\ Scanner(r).cur = r.cur /\ s.cur < r.cur
<1>1. /\ Len(b) \in Nat /\ Len(c) \in Nat /\ o \in Nat /\ s.cur \in o .. o + Len(c)
  BY CoveredType
<1>2. r.start = r.cur /\ r.cur \in o .. o + Len(c) /\ s.cur < r.cur
  BY <1>1 DEF Moves
<1> QED
  BY <1>2 DEF Scanner, Covered, Back, Alike

LEMMA SameItems ==
  ASSUME NEW b \in Seq(STRING), NEW c \in Seq(STRING), NEW o, PartOf(b, o, c),
         NEW f, NEW g, Moving(b, f), SameReads(b, o, c, f, g), NEW s \in Covered(b, o, c)
  PROVE  SameWithin(o, c, ReadItems(b, s, f), ReadItems(c, Back(o, s), g))
<1> DEFINE t   == Back(o, s)
           at  == [start |-> s.cur, cur |-> s.cur]
           at2 == [start |-> t.cur, cur |-> t.cur]
           r   == ReadItems(b, s, f)
           x   == ReadItems(c, t, g)
           end == o + Len(c)
<1> SUFFICES ASSUME r.status = "ok", r.cur <= end PROVE Alike(o, r, x)
  BY DEF SameWithin
<1>1. /\ s \in Scanners(b) /\ Len(b) \in Nat /\ Len(c) \in Nat /\ o \in Nat
      /\ s.cur \in o .. end /\ t.cur = s.cur - o
  BY CoveredType
<1>2. Moves(b, s, r)
  BY <1>1, ItemsMoves
<1>3. /\ at \in Covered(b, o, c) /\ at2 = Back(o, at) /\ at \in Scanners(b) /\ at.cur = s.cur
  BY <1>1 DEF Covered, Back, Scanners
<1> HIDE DEF r, x, at, at2
<1>4. s.cur < end
  BY <1>1, <1>2 DEF Moves
<1>5. /\ \A ch : At(c, t.cur, ch) <=> At(b, s.cur, ch)
      /\ ~Finished(b, s.cur) /\ ~Finished(c, t.cur)
  <2>1. \A ch : At(c, t.cur, ch) <=> At(b, s.cur, ch)
    BY <1>1, <1>4, SameAt
  <2>2. ~Finished(b, s.cur) /\ ~Finished(c, t.cur)
    BY <1>1, <1>4 DEF Finished, PartOf
  <2> QED
    BY <2>1, <2>2
<1>6. CASE At(b, s.cur, "e")
  <2>1. r = Read(<< >>, s.cur + 1, s.cur + 1) /\ x = Read(<< >>, t.cur + 1, t.cur + 1)
    BY <1>5, <1>6, ItemsCases DEF r, x
  <2>2. t.cur + 1 = (s.cur + 1) - o
    BY <1>1
  <2> QED
    BY <2>1, <2>2 DEF Read, Alike
<1>7. CASE ~At(b, s.cur, "e")
  <2> DEFINE item  == f.next[at]
             rest  == f.items[Scanner(item)]
             item2 == g.next[at2]
             rest2 == g.items[Scanner(item2)]
  <2>1. r = IF item.status = "ok"
            THEN IF rest.status = "ok"
                 THEN Read(<< item.val >> \o rest.val, rest.start, rest.cur) ELSE rest
            ELSE item
    BY <1>5, <1>7, ItemsCases DEF r, at
  <2>2. x = IF item2.status = "ok"
            THEN IF rest2.status = "ok"
                 THEN Read(<< item2.val >> \o rest2.val, rest2.start, rest2.cur) ELSE rest2
            ELSE item2
    BY <1>5, <1>7, ItemsCases DEF x, at2
  <2>3. Moves(b, at, item) /\ SameWithin(o, c, item, item2)
    BY <1>3 DEF Moving, SameReads
  <2> HIDE DEF item, item2
  <2>4. item.status = "ok" => Moves(b, Scanner(item), rest) /\ Scanner(item) \in Scanners(b)
    BY <1>3, <2>3, MovesOn DEF Moving
  <2> HIDE DEF rest, rest2
  <2>5. /\ item.status = "ok" /\ rest.status = "ok"
        /\ r = Read(<< item.val >> \o rest.val, rest.start, rest.cur)
    BY <2>1
  <2>6. rest.cur <= end /\ item.cur <= end
    <3>1. rest.cur = r.cur
      BY <2>5 DEF Read
    <3>2. item.cur \in Nat
      BY <1>3, <2>3, <2>5, MovesOn
    <3>3. item.cur < rest.cur /\ rest.cur \in Nat
      BY <2>4, <2>5, <3>2, MovesOn DEF Scanner
    <3> QED BY <1>1, <3>1, <3>2, <3>3
  <2>7. Alike(o, item, item2)
    BY <2>3, <2>5, <2>6 DEF SameWithin
  <2>8. Scanner(item) \in Covered(b, o, c) /\ Scanner(item2) = Back(o, Scanner(item))
    BY <1>3, <2>3, <2>5, <2>6, <2>7, GoesOn
  <2>9. Alike(o, rest, rest2)
    BY <2>5, <2>6, <2>8 DEF SameReads, SameWithin, rest, rest2
  <2> QED
    BY <2>2, <2>5, <2>7, <2>9 DEF Read, Alike
<1> QED
  BY <1>6, <1>7

LEMMA SameEntries ==
  ASSUME NEW b \in Seq(STRING), NEW c \in Seq(STRING), NEW o, PartOf(b, o, c),
         NEW f, NEW g, Moving(b, f), SameReads(b, o, c, f, g), NEW s \in Covered(b, o, c)
  PROVE  SameWithin(o, c, ReadEntries(b, s, f), ReadEntries(c, Back(o, s), g))
<1> DEFINE t   == Back(o, s)
           r   == ReadEntries(b, s, f)
           x   == ReadEntries(c, t, g)
           end == o + Len(c)
<1> SUFFICES ASSUME r.status = "ok", r.cur <= end PROVE Alike(o, r, x)
  BY DEF SameWithin
<1>1. /\ s \in Scanners(b) /\ Len(b) \in Nat /\ Len(c) \in Nat /\ o \in Nat
      /\ s.cur \in o .. end /\ t.cur = s.cur - o
  BY CoveredType
<1>2. Moves(b, s, r)
  BY <1>1, EntriesMoves
<1> HIDE DEF r, x
<1>3. s.cur < end
  BY <1>1, <1>2 DEF Moves
<1>4. /\ \A ch : At(c, t.cur, ch) <=> At(b, s.cur, ch)
      /\ ~Finished(b, s.cur) /\ ~Finished(c, t.cur)
  <2>1. \A ch : At(c, t.cur, ch) <=> At(b, s.cur, ch)
    BY <1>1, <1>3, SameAt
  <2>2. ~Finished(b, s.cur) /\ ~Finished(c, t.cur)
    BY <1>1, <1>3 DEF Finished, PartOf
  <2> QED
    BY <2>1, <2>2
<1>5. CASE At(b, s.cur, "e")
  <2>1. /\ r = Read([k \in {} |-> Failed], s.cur + 1, s.cur + 1)
        /\ x = Read([k \in {} |-> Failed], t.cur + 1, t.cur + 1)
    BY <1>4, <1>5, EntriesCases DEF r, x
  <2>2. t.cur + 1 = (s.cur + 1) - o
    BY <1>1
  <2> QED
    BY <2>1, <2>2 DEF Read, Alike
<1>6. CASE ~At(b, s.cur, "e")
  <2> DEFINE key   == ReadString(b, s)
             item  == f.next[Scanner(key)]
             rest  == f.entries[Scanner(item)]
             key2  == ReadString(c, t)
             item2 == g.next[Scanner(key2)]
             rest2 == g.entries[Scanner(item2)]
  <2>1. r = IF key.status = "ok"
            THEN IF item.status = "ok"
                 THEN IF rest.status = "ok"
                      THEN Read(Entry(key.val.s, item.val, rest.val), rest.start, rest.cur)
                      ELSE rest
                 ELSE item
            ELSE key
    BY <1>4, <1>6, EntriesCases DEF r
  <2>2. x = IF key2.status = "ok"
            THEN IF item2.status = "ok"
                 THEN IF rest2.status = "ok"
                      THEN Read(Entry(key2.val.s, item2.val, rest2.val), rest2.start, rest2.cur)
                      ELSE rest2
                 ELSE item2
            ELSE key2
    BY <1>4, <1>6, EntriesCases DEF x
  <2>3. Moves(b, s, key) /\ SameWithin(o, c, key, key2)
    BY <1>1, ReadStringMoves, SameString
  <2> HIDE DEF key, key2
  <2>4. key.status = "ok" =>
          /\ Scanner(key) \in Scanners(b) /\ Scanner(key).cur = key.cur
          /\ Moves(b, Scanner(key), item)
    BY <1>1, <2>3, MovesOn DEF Moving
  <2> HIDE DEF item, item2
  <2>5. key.status = "ok" /\ item.status = "ok" =>
          /\ Scanner(item) \in Scanners(b) /\ Scanner(item).cur = item.cur
          /\ Moves(b, Scanner(item), rest)
    BY <2>4, MovesOn DEF Moving
  <2> HIDE DEF rest, rest2
  <2>6. /\ key.status = "ok" /\ item.status = "ok" /\ rest.status = "ok"
        /\ r = Read(Entry(key.val.s, item.val, rest.val), rest.start, rest.cur)
    BY <2>1
  <2>7. key.cur <= end /\ item.cur <= end /\ rest.cur <= end
    <3>1. rest.cur = r.cur
      BY <2>6 DEF Read
    <3>2. key.cur \in Nat
      BY <1>1, <2>3, <2>6, MovesOn
    <3>3. item.cur \in Nat /\ key.cur < item.cur
      BY <2>4, <2>6, MovesOn
    <3>4. rest.cur \in Nat /\ item.cur < rest.cur
      BY <2>5, <2>6, MovesOn
    <3> QED BY <1>1, <3>1, <3>2, <3>3, <3>4
  <2>8. Alike(o, key, key2)
    BY <2>3, <2>6, <2>7 DEF SameWithin
  <2>9. Scanner(key) \in Covered(b, o, c) /\ Scanner(key2) = Back(o, Scanner(key))
    BY <2>3, <2>6, <2>7, <2>8, GoesOn
  <2>10. Alike(o, item, item2)
    BY <2>6, <2>7, <2>9 DEF SameReads, SameWithin, item, item2
  <2>11. Scanner(item) \in Covered(b, o, c) /\ Scanner(item2) = Back(o, Scanner(item))
    BY <2>4, <2>6, <2>7, <2>9, <2>10, GoesOn
  <2>12. Alike(o, rest, rest2)
    BY <2>6, <2>7, <2>11 DEF SameReads, SameWithin, rest, rest2
  <2> QED
    BY <2>2, <2>6, <2>8, <2>10, <2>12 DEF Read, Alike
<1> QED
  BY <1>5, <1>6

LEMMA ReadsSame ==
  ASSUME NEW b \in Seq(STRING), NEW c \in Seq(STRING), NEW o, PartOf(b, o, c),
         NEW n \in 0 .. 2 * Len(b) + 2
  PROVE  SameReads(b, o, c, Reads(b)[n], Reads(c)[2 * Len(c) + 2])
<1> DEFINE g == Reads(c)[2 * Len(c) + 2]
           N == 2 * Len(b) + 2
           S == {k \in Nat : k <= N => SameReads(b, o, c, Reads(b)[k], g)}
<1>1. Len(b) \in Nat /\ N \in Nat
  OBVIOUS
<1>2. \A s \in Covered(b, o, c) :
        /\ s \in Scanners(b)
        /\ g.next[Back(o, s)] = ReadNext(c, Back(o, s), g)
        /\ g.items[Back(o, s)] = ReadItems(c, Back(o, s), g)
        /\ g.entries[Back(o, s)] = ReadEntries(c, Back(o, s), g)
  BY CoveredType, ReadsAreRecursive
<1> HIDE DEF g
<1>3. 0 \in S
  BY <1>1, <1>2, ReadsFirst DEF SameReads, SameWithin, Failed
<1>4. ASSUME NEW k \in Nat, k \in S PROVE k + 1 \in S
  <2> SUFFICES ASSUME k + 1 <= N PROVE SameReads(b, o, c, Reads(b)[k + 1], g)
    OBVIOUS
  <2>1. k \in 0 .. 2 * Len(b) + 1 /\ k \in 0 .. 2 * Len(b) + 2
    BY <1>1
  <2> DEFINE f == Reads(b)[k]
             h == Reads(b)[k + 1]
  <2>2. SameReads(b, o, c, f, g) /\ Moving(b, f)
    BY <1>1, <1>4, <2>1, ReadsMove
  <2>3. \A s \in Scanners(b) : /\ h.next[s] = ReadNext(b, s, f)
                               /\ h.items[s] = ReadItems(b, s, f)
                               /\ h.entries[s] = ReadEntries(b, s, f)
    BY <1>1, <2>1, ReadsNext
  <2> HIDE DEF f, h
  <2>4. ASSUME NEW s \in Covered(b, o, c)
        PROVE  /\ SameWithin(o, c, h.next[s], g.next[Back(o, s)])
               /\ SameWithin(o, c, h.items[s], g.items[Back(o, s)])
               /\ SameWithin(o, c, h.entries[s], g.entries[Back(o, s)])
    BY <1>2, <2>2, <2>3, SameNext, SameItems, SameEntries
  <2> QED
    BY <2>4 DEF SameReads, h
<1>5. Nat \subseteq S
  <2> HIDE DEF S
  <2> QED BY <1>3, <1>4, SetInduction
<1> QED
  BY <1>1, <1>5 DEF g

\* The raw bytes of a list or dictionary, parsed alone, give it again.
LEMMA RawParsed ==
  ASSUME NEW b \in Seq(STRING), NEW i \in 0 .. Len(b), ElementAt(b, i).status = "ok",
         ElementAt(b, i).val.kind \in {"list", "dict"}
  PROVE  LET e == ElementAt(b, i)
         IN  Parse(e.val.raw).status = "ok" /\ Parse(e.val.raw).val = e.val
<1> DEFINE s == [start |-> i, cur |-> i]
           z == [start |-> 0, cur |-> 0]
           n == 2 * Len(b) + 2
           e == ElementAt(b, i)
           c == SubSeq(b, i + 1, e.start)
<1>1. Len(b) \in Nat /\ s \in Scanners(b) /\ n \in 0 .. 2 * Len(b) + 2
  BY DEF Scanners
<1>2. e = Reads(b)[n].next[s]
  BY DEF ElementAt
<1>3. ReadIs(b, Reads(b)[n]) /\ Moving(b, Reads(b)[n])
  BY <1>1, ReadsGood, ReadsMove
<1>4. NextIs(b, s, e) /\ Moves(b, s, e)
  BY <1>1, <1>2, <1>3 DEF ReadIs, Moving
<1>5. e.start = e.cur /\ e.cur \in i + 1 .. Len(b) /\ e.val.raw = c
  BY <1>4 DEF NextIs, Moves
<1> HIDE DEF e, n
<1>6. /\ c \in Seq(STRING) /\ Len(c) = e.cur - i /\ c # << >>
      /\ \A k \in 1 .. Len(c) : c[k] = b[i + k]
  <2>1. PICK j \in i + 1 .. Len(b) : e.start = j /\ e.cur = j
    BY <1>5
  <2>2. c = SubSeq(b, i + 1, j)
    BY <2>1
  <2> HIDE DEF c
  <2>3. c \in Seq(STRING) /\ Len(c) = j - i /\ \A k \in 1 .. Len(c) : c[k] = b[i + k]
    BY <1>1, <2>1, <2>2
  <2>4. Len(c) # 0
    BY <1>1, <2>1, <2>3
  <2> QED
    BY <2>1, <2>3, <2>4
<1>7. PartOf(b, i, c) /\ i + Len(c) = e.cur
  <2> HIDE DEF c
  <2> QED BY <1>1, <1>5, <1>6 DEF PartOf
<1> HIDE DEF c
<1>8. s \in Covered(b, i, c) /\ Back(i, s) = z
  BY <1>1, <1>5, <1>7 DEF Covered, Back
<1>9. SameWithin(i, c, e, Reads(c)[2 * Len(c) + 2].next[z])
  BY <1>1, <1>2, <1>6, <1>7, <1>8, ReadsSame DEF SameReads
<1>10. Parse(c) = Reads(c)[2 * Len(c) + 2].next[z]
  BY <1>6 DEF Parse, ElementAt
<1> HIDE DEF z
<1>11. Alike(i, e, Parse(c))
  BY <1>5, <1>7, <1>9, <1>10 DEF SameWithin, e
<1> QED
  BY <1>5, <1>11 DEF Alike, e

\* What Parse may give, of any bytes.
LEMMA ParseGood ==
  ASSUME NEW b \in Seq(STRING)
  PROVE  /\ Parse(b).status \in {"ok", "error", "panic"}
         /\ Parse(b).status = "panic" => HasLongNumber(b)
         /\ Parse(b).status = "ok" => b # << >>
         /\ Parse(b).status = "ok" /\ Parse(b).val.kind = "dict" =>
              \A k \in DOMAIN Parse(b).val.value : Keyed(b, k, Parse(b).val.value[k])
<1> DEFINE n == 2 * Len(b) + 2
           s == [start |-> 0, cur |-> 0]
<1>1. CASE b = << >>
  BY <1>1 DEF Parse, Failed
<1>2. CASE b # << >>
  <2>1. n \in 0 .. 2 * Len(b) + 2 /\ s \in Scanners(b)
    BY DEF Scanners
  <2>2. Parse(b) = Reads(b)[n].next[s]
    BY <1>2 DEF Parse, ElementAt
  <2>3. ReadIs(b, Reads(b)[n])
    BY <2>1, ReadsGood
  <2> HIDE DEF n, s
  <2>4. NextIs(b, s, Parse(b))
    BY <2>1, <2>2, <2>3 DEF ReadIs
  <2> QED
    BY <1>2, <2>4 DEF NextIs, Ends
<1> QED
  BY <1>1, <1>2

(***************************************************************************)
(* Unmarshal.                                                              *)
(***************************************************************************)

\* Why Unmarshal panics.
Panics(b) ==
  \/ Parse(b).status = "panic"
  \/ Parse(b).status = "ok" /\ Parse(b).val.kind # "dict"

LEMMA TogetherEnds ==
  ASSUME NEW rs
  PROVE  Together(rs).status \in {"ok", "error"}
BY DEF Together, Assigned, Failed

LEMMA ParseIntIs ==
  ASSUME NEW s, ParseInt(s).status = "ok"
  PROVE  ParseInt(s) = Assigned(ParseInt(s).val)
<1>1. ASSUME NEW ds, NEW max, ParseUint(ds, max).status = "ok"
      PROVE  ParseUint(ds, max) = Assigned(ParseUint(ds, max).val)
  BY <1>1 DEF ParseUint, Assigned, Failed
<1>2. CASE s # << >> /\ Head(s) = "-"
  <2> DEFINE r == ParseUint(Tail(s), Half)
  <2>1. ParseInt(s) = IF r.status = "ok" THEN Assigned(-r.val) ELSE Failed
    BY <1>2 DEF ParseInt
  <2> HIDE DEF r
  <2> QED
    BY <2>1 DEF Assigned, Failed
<1>3. CASE ~(s # << >> /\ Head(s) = "-")
  <2>1. ParseInt(s) = ParseUint(s, Half - 1)
    BY <1>3 DEF ParseInt
  <2> QED
    BY <1>1, <2>1
<1> QED
  BY <1>2, <1>3

\* A file whose list of path elements is empty had an empty list for its path.
LEMMA FilePathless ==
  ASSUME NEW x, TorrentFile(x).status = "ok", TorrentFile(x).val.Path.elems = << >>
  PROVE  DOMAIN x.value[<< "path" >>].items = {}
<1> DEFINE path == Field(x, << "path" >>, Texts)
           y    == x.value[<< "path" >>]
           all  == Together([i \in DOMAIN y.items |-> Text(y.items[i])])
<1>1. path.status = "ok" /\ TorrentFile(x).val.Path = path.val
  BY DEF TorrentFile, Struct, Together, Assigned, Failed
<1>2. path = Texts(y)
  BY <1>1 DEF Field, Required, Failed
<1>3. Texts(y) = IF y.kind = "list"
                 THEN IF all.status = "ok" THEN Assigned(Slice(all.val)) ELSE all
                 ELSE Failed
  BY DEF Texts, SliceOf, ListOnly, Then
<1> HIDE DEF path, y, all
<1>4. all.status = "ok" /\ path.val.elems = all.val
  BY <1>1, <1>2, <1>3 DEF Assigned, Slice, Failed
<1>5. DOMAIN all.val = DOMAIN y.items
  BY <1>4 DEF all, Together, Assigned, Failed
<1>6. DOMAIN all.val = {}
  BY <1>1, <1>4
<1> QED
  BY <1>5, <1>6 DEF y

LEMMA InfoPathless ==
  ASSUME NEW v, Info(v).status = "ok", Info(v).val.Length = 0,
         \E f \in SetOf(Info(v).val.Files) : f.Path.elems = << >>
  PROVE  NamesNoPath(v.value)
<1> DEFINE len   == OptionalField(v, << "length" >>, Int64, 0)
           files == OptionalField(v, << "files" >>, Files, NilSlice)
           y     == v.value[<< "files" >>]
           xs    == [i \in DOMAIN y.items |-> TorrentFile(y.items[i])]
           all   == Together(xs)
<1>1. /\ len.status = "ok" /\ Info(v).val.Length = len.val
      /\ files.status = "ok" /\ Info(v).val.Files = files.val
  BY DEF Info, Struct, Together, Assigned, Failed
<1>2. PICK k \in DOMAIN files.val.elems : files.val.elems[k].Path.elems = << >>
  BY <1>1 DEF SetOf
<1>3. << "length" >> \in DOMAIN v.value => Int64(v.value[<< "length" >>]) = Assigned(0)
  <2> SUFFICES ASSUME << "length" >> \in DOMAIN v.value
               PROVE  Int64(v.value[<< "length" >>]) = Assigned(0)
    OBVIOUS
  <2> DEFINE s == String(v.value[<< "length" >>])
  <2>1. len = ParseInt(s)
    BY DEF OptionalField, Optional, Int64
  <2>2. len.status = "ok" /\ len.val = 0
    BY <1>1
  <2> HIDE DEF len, s
  <2>3. ParseInt(s) = Assigned(0)
    BY <2>1, <2>2, ParseIntIs
  <2> QED
    BY <2>3 DEF Int64, s
<1>4. << "files" >> \in DOMAIN v.value
  <2>1. << "files" >> \notin DOMAIN v.value => files.val.elems = << >>
    BY DEF OptionalField, Optional, NilSlice, Assigned
  <2> QED
    BY <1>2, <2>1
<1>5. files = Files(y)
  BY <1>4 DEF OptionalField, Optional
<1>6. Files(y) = IF y.kind = "list"
                 THEN IF all.status = "ok" THEN Assigned(Slice(all.val)) ELSE all
                 ELSE Failed
  BY DEF Files, SliceOf, ListOnly, Then
<1> HIDE DEF files, y, all, xs, len
<1>7. all.status = "ok" /\ files.val.elems = all.val
  BY <1>1, <1>5, <1>6 DEF Assigned, Slice, Failed
<1>8. /\ \A i \in DOMAIN xs : xs[i].status = "ok"
      /\ all.val = [i \in DOMAIN xs |-> xs[i].val]
  BY <1>7 DEF all, Together, Assigned, Failed
<1>9. k \in DOMAIN y.items /\ xs[k].status = "ok" /\ xs[k].val.Path.elems = << >>
  BY <1>2, <1>7, <1>8 DEF xs
<1>10. xs[k] = TorrentFile(y.items[k])
  BY <1>9 DEF xs
<1>11. DOMAIN y.items[k].value[<< "path" >>].items = {}
  BY <1>9, <1>10, FilePathless
<1> QED
  BY <1>3, <1>4, <1>9, <1>11 DEF NamesNoPath, y

LEMMA MetainfoIs ==
  ASSUME NEW b \in Seq(STRING)
  PROVE  LET r == Unmarshal(b, Metainfo)
             v == Parse(b).val
         IN  /\ r.status \in {"ok", "error", "panic"}
             /\ r.status = "panic" => Panics(b)
             /\ r.status = "ok" =>
                  /\ Parse(b).status = "ok" /\ v.kind = "dict"
                  /\ << "info" >> \in DOMAIN v.value
                  /\ v.value[<< "info" >>].kind = "dict"
                  /\ r.val.InfoDictRaw.elems = v.value[<< "info" >>].raw
                  /\ Pathless(r.val) => NamesNoPath(v.value[<< "info" >>].value)
<1> DEFINE e == Parse(b)
           v == e.val
           r == Unmarshal(b, Metainfo)
<1>1. r = IF e.status = "ok" THEN IF v.kind = "dict" THEN Metainfo(v) ELSE Panicked ELSE e
  BY DEF Unmarshal, IntoStruct, Then
<1>2. e.status \in {"ok", "error", "panic"}
  BY ParseGood
<1> HIDE DEF e, v, r
<1>3. CASE e.status # "ok"
  BY <1>1, <1>2, <1>3 DEF Panics, e, r
<1>4. CASE e.status = "ok" /\ v.kind # "dict"
  BY <1>1, <1>4 DEF Panics, Panicked, e, v, r
<1>5. CASE e.status = "ok" /\ v.kind = "dict"
  <2>1. r = Metainfo(v) /\ r.status \in {"ok", "error"}
    BY <1>1, <1>5, TogetherEnds DEF Metainfo, Struct
  <2>2. ASSUME r.status = "ok"
        PROVE  /\ << "info" >> \in DOMAIN v.value
               /\ v.value[<< "info" >>].kind = "dict"
               /\ r.val.InfoDictRaw.elems = v.value[<< "info" >>].raw
               /\ Pathless(r.val) => NamesNoPath(v.value[<< "info" >>].value)
    <3> DEFINE info == Field(v, << "info" >>, Info)
               raw  == Field(v, << "info" >>, Bytes)
               i    == v.value[<< "info" >>]
    <3>1. /\ info.status = "ok" /\ raw.status = "ok" /\ r.val.InfoDictRaw = raw.val
          /\ r.val.Info = info.val
      BY <1>5, <2>1, <2>2 DEF Metainfo, Struct, Together, Assigned, Failed
    <3>2. << "info" >> \in DOMAIN v.value /\ info = Info(i) /\ raw = Bytes(i)
      BY <3>1 DEF Field, Required, Failed
    <3> HIDE DEF info, raw, i
    <3>3. i.kind = "dict"
      BY <3>1, <3>2 DEF Info, Struct, Failed
    <3>4. raw.val.elems = i.raw
      BY <3>2, <3>3 DEF Bytes, RawBytes, Raw, Assigned, Slice
    <3>5. Pathless(r.val) => NamesNoPath(v.value[<< "info" >>].value)
      <4> SUFFICES ASSUME Pathless(r.val) PROVE NamesNoPath(i.value)
        BY DEF i
      <4>1. /\ info.val.Length = 0
            /\ \E f \in SetOf(info.val.Files) : f.Path.elems = << >>
        BY <3>1, Zenon DEF Pathless, IsDirectory
      <4> QED
        BY <3>1, <3>2, <4>1, InfoPathless
    <3> QED
      BY <3>1, <3>2, <3>3, <3>4, <3>5 DEF i
  <2> QED
    BY <1>5, <2>1, <2>2 DEF e, v, r
<1> QED
  BY <1>3, <1>4, <1>5

LEMMA ParseIntType ==
  ASSUME NEW s, ParseInt(s).status = "ok"
  PROVE  ParseInt(s).val \in -Half .. Half - 1
<1> Half \in Nat \ {0}
  BY BencodeAssumption
<1>1. ASSUME NEW ds, NEW max \in Int, ParseUint(ds, max).status = "ok"
      PROVE  ParseUint(ds, max).val \in 0 .. max
  BY <1>1 DEF ParseUint, Assigned, Failed
<1>2. CASE s # << >> /\ Head(s) = "-"
  <2> DEFINE r == ParseUint(Tail(s), Half)
  <2>1. ParseInt(s) = IF r.status = "ok" THEN Assigned(-r.val) ELSE Failed
    BY <1>2 DEF ParseInt
  <2>2. r.status = "ok" => r.val \in 0 .. Half
    BY <1>1
  <2> HIDE DEF r
  <2> QED
    BY <2>1, <2>2 DEF Assigned, Failed
<1>3. CASE ~(s # << >> /\ Head(s) = "-")
  <2>1. ParseInt(s) = ParseUint(s, Half - 1)
    BY <1>3 DEF ParseInt
  <2>2. Half - 1 \in Int /\ 0 .. Half - 1 \subseteq -Half .. Half - 1
    OBVIOUS
  <2> QED
    BY <1>1, <2>1, <2>2
<1> QED
  BY <1>2, <1>3

\* A list of peers in dictionaries is taken over entry by entry.
LEMMA PeersOfList ==
  ASSUME NEW v, AnnouncePeers(v).status = "ok"
  PROVE  LET xs == AnnouncePeers(v).val
         IN  /\ v.kind = "list" /\ ~xs.nil
             /\ DOMAIN xs.elems = DOMAIN v.items
             /\ \A i \in DOMAIN v.items :
                  /\ xs.elems[i].Ip = String(v.items[i].value[<< "ip" >>])
                  /\ xs.elems[i].Port = String(v.items[i].value[<< "port" >>])
<1> DEFINE ps  == [i \in DOMAIN v.items |-> AnnouncePeer(v.items[i])]
           all == Together(ps)
           r   == AnnouncePeers(v)
<1>1. r = IF v.kind = "list"
          THEN IF all.status = "ok" THEN Assigned(Slice(all.val)) ELSE all
          ELSE Failed
  BY DEF AnnouncePeers, SliceOf, ListOnly, Then
<1>2. r.status = "ok"
  OBVIOUS
<1> HIDE DEF r, all, ps
<1>3. v.kind = "list" /\ all.status = "ok" /\ r.val = Slice(all.val)
  BY <1>1, <1>2 DEF Assigned, Failed
<1>4. /\ \A i \in DOMAIN ps : ps[i].status = "ok"
      /\ all.val = [i \in DOMAIN ps |-> ps[i].val]
  BY <1>3 DEF all, Together, Assigned, Failed
<1>5. DOMAIN ps = DOMAIN v.items
  BY DEF ps
<1>6. ASSUME NEW i \in DOMAIN v.items
      PROVE  /\ all.val[i].Ip = String(v.items[i].value[<< "ip" >>])
             /\ all.val[i].Port = String(v.items[i].value[<< "port" >>])
  <2> DEFINE x == v.items[i]
             p == AnnouncePeer(x)
             f == [Ip   |-> Field(x, << "ip" >>, Text), Port |-> Field(x, << "port" >>, Text)]
  <2>1. p.status = "ok" /\ all.val[i] = p.val
    BY <1>4, <1>5 DEF ps
  <2>2. p = IF x.kind = "dict" THEN Together(f) ELSE Failed
    BY DEF AnnouncePeer, Struct
  <2> HIDE DEF p, x
  <2>3. p = Together(f) /\ Together(f).status = "ok"
    BY <2>1, <2>2 DEF Failed
  <2>4. /\ f.Ip.status = "ok" /\ f.Port.status = "ok"
        /\ Together(f).val.Ip = f.Ip.val /\ Together(f).val.Port = f.Port.val
    BY <2>3 DEF Together, Assigned, Failed
  <2>5. f.Ip.val = String(x.value[<< "ip" >>])
    BY <2>4 DEF Field, Required, Text, Assigned, Failed
  <2>6. f.Port.val = String(x.value[<< "port" >>])
    BY <2>4 DEF Field, Required, Text, Assigned, Failed
  <2> QED
    BY <2>1, <2>3, <2>4, <2>5, <2>6 DEF x
<1> QED
  BY <1>3, <1>4, <1>5, <1>6 DEF Slice, r

\* A response without a list of peers has no compact one either: they share their key.
LEMMA ResponseIs ==
  ASSUME NEW b \in Seq(STRING)
  PROVE  LET r == Unmarshal(b, AnnounceResponse)
             v == Parse(b).val
             x == v.value[<< "peers" >>]
         IN  /\ r.status \in {"ok", "error", "panic"}
             /\ r.status = "panic" => Panics(b)
             /\ r.status = "ok" =>
                  /\ r.val.Interval \in -Half .. Half - 1
                  /\ r.val.Peers.nil => r.val.PeersCompact.nil
                  /\ ~r.val.Peers.nil =>
                       /\ x.kind = "list"
                       /\ DOMAIN r.val.Peers.elems = DOMAIN x.items
                       /\ \A i \in DOMAIN x.items :
                            /\ r.val.Peers.elems[i].Ip = String(x.items[i].value[<< "ip" >>])
                            /\ r.val.Peers.elems[i].Port = String(x.items[i].value[<< "port" >>])
<1> DEFINE e == Parse(b)
           v == e.val
           x == v.value[<< "peers" >>]
           r == Unmarshal(b, AnnounceResponse)
<1>1. r = IF e.status = "ok" THEN IF v.kind = "dict" THEN AnnounceResponse(v) ELSE Panicked ELSE e
  BY DEF Unmarshal, IntoStruct, Then
<1>2. e.status \in {"ok", "error", "panic"}
  BY ParseGood
<1> HIDE DEF e, v, r, x
<1>3. CASE e.status # "ok"
  BY <1>1, <1>2, <1>3 DEF Panics, e, r
<1>4. CASE e.status = "ok" /\ v.kind # "dict"
  BY <1>1, <1>4 DEF Panics, Panicked, e, v, r
<1>5. CASE e.status = "ok" /\ v.kind = "dict"
  <2>1. r = AnnounceResponse(v) /\ r.status \in {"ok", "error"}
    BY <1>1, <1>5, TogetherEnds DEF AnnounceResponse, Struct
  <2> SUFFICES ASSUME r.status = "ok"
               PROVE  /\ r.val.Interval \in -Half .. Half - 1
                      /\ r.val.Peers.nil => r.val.PeersCompact.nil
                      /\ ~r.val.Peers.nil =>
                           /\ x.kind = "list"
                           /\ DOMAIN r.val.Peers.elems = DOMAIN x.items
                           /\ \A i \in DOMAIN x.items :
                                /\ r.val.Peers.elems[i].Ip = String(x.items[i].value[<< "ip" >>])
                                /\ r.val.Peers.elems[i].Port = String(x.items[i].value[<< "port" >>])
    BY <2>1 DEF e, v, x, r
  <2> DEFINE every == OptionalField(v, << "interval" >>, Int64, 0)
             list  == OptionalField(v, << "peers" >>, AnnouncePeers, NilSlice)
             raw   == OptionalField(v, << "peers" >>, Bytes, NilSlice)
  <2>2. /\ every.status = "ok" /\ list.status = "ok" /\ raw.status = "ok"
        /\ r.val.Interval = every.val /\ r.val.Peers = list.val /\ r.val.PeersCompact = raw.val
    BY <1>5, <2>1 DEF AnnounceResponse, Struct, Together, Assigned, Failed
  <2>3. every.val \in -Half .. Half - 1
    BY <2>2, ParseIntType, BencodeAssumption DEF OptionalField, Optional, Int64, Assigned
  <2>4. CASE << "peers" >> \in DOMAIN v.value
    <3>1. list = AnnouncePeers(x)
      BY <2>4 DEF OptionalField, Optional, x
    <3> HIDE DEF every, list, raw
    <3> QED
      BY <2>2, <2>3, <3>1, PeersOfList
  <2>5. CASE << "peers" >> \notin DOMAIN v.value
    <3>1. list = Assigned(NilSlice) /\ raw = Assigned(NilSlice)
      BY <2>5 DEF OptionalField, Optional
    <3> HIDE DEF every, list, raw
    <3> QED
      BY <2>2, <2>3, <3>1 DEF Assigned, NilSlice
  <2> QED
    BY <2>4, <2>5
<1> QED
  BY <1>3, <1>4, <1>5

LEMMA PeersIs ==
  ASSUME NEW r, r.Peers.nil => r.PeersCompact.nil
  PROVE  /\ Peers(r) = IF r.Peers.nil THEN Refused
                       ELSE [status |-> "ok", addrs |-> ParseBencodePeers(r.Peers.elems)]
         /\ \A i \in DOMAIN Peers(r).addrs : DOMAIN Peers(r).addrs[i] = {"ip", "port"}
<1>1. Peers(r) = IF r.Peers.nil THEN Refused
                 ELSE [status |-> "ok", addrs |-> ParseBencodePeers(r.Peers.elems)]
  BY DEF Peers
<1>2. DOMAIN Refused.addrs = {}
  BY DEF Refused
<1>3. ASSUME NEW ps, NEW i \in DOMAIN ParseBencodePeers(ps)
      PROVE  DOMAIN ParseBencodePeers(ps)[i] = {"ip", "port"}
  BY DEF ParseBencodePeers, NoAddr
<1>4. CASE r.Peers.nil
  BY <1>1, <1>2, <1>4
<1>5. CASE ~r.Peers.nil
  <2>1. Peers(r).addrs = ParseBencodePeers(r.Peers.elems)
    BY <1>1, <1>5
  <2> QED
    BY <1>1, <1>3, <1>5, <2>1
<1> QED
  BY <1>4, <1>5

(***************************************************************************)
(* The machine.  What the properties say of an answer holds because it is  *)
(* still there with the bytes that it was made of, and so is a panic.      *)
(***************************************************************************)
\* Why torrent.New panics.
CreatesNoPath(b) ==
  /\ Parse(b).status = "ok" /\ Parse(b).val.kind = "dict"
  /\ NamesNoPath(Parse(b).val.value[<< "info" >>].value)

Inv ==
  /\ TypeOK
  /\ pc \in {"torrent", "urls"} => got = Unmarshal(bytes, Metainfo) /\ got.status = "ok"
  /\ pc = "idle" => got = Failed
  /\ pc = "done" /\ answer.status = "ok" =>
       /\ got = Unmarshal(bytes, AnnounceResponse) /\ got.status = "ok"
       /\ answer = Peers(got.val)
  /\ crash => Panics(bytes) \/ CreatesNoPath(bytes)

LEMMA InvInit == Init => Inv
<1> SUFFICES ASSUME Init PROVE Inv
  OBVIOUS
<1>1. << >> \in Seq(STRING)
  OBVIOUS
<1>2. TypeOK
  <2>1. got.status = "error" /\ answer.status = "error" /\ DOMAIN answer.addrs = {}
    BY DEF Init, Failed, Refused
  <2>2. pc = "file" /\ bytes = << >> /\ interval = Minute /\ crash = FALSE
    BY DEF Init
  <2>3. Minute \in -Half .. Half - 1
    BY HttpTrackerAssumption, BencodeAssumption
  <2> QED
    BY <1>1, <2>1, <2>2, <2>3 DEF TypeOK
<1> QED
  BY <1>2 DEF Init, Inv

LEMMA InvNext == Inv /\ [Next]_vars => Inv'
<1> SUFFICES ASSUME Inv, [Next]_vars PROVE Inv'
  OBVIOUS
<1> USE DEF Inv
<1>1. ASSUME ReadTorrent, ~crash PROVE Inv'
  <2>1. PICK w \in Torrents : bytes' = w.bytes /\ got' = Unmarshal(w.bytes, Metainfo)
    BY <1>1 DEF ReadTorrent
  <2>2. w.bytes \in Seq(STRING)
    BY HttpTrackerAssumption
  <2>3. got'.status \in {"ok", "error", "panic"} /\ (got'.status = "panic" => Panics(w.bytes))
    BY <2>1, <2>2, MetainfoIs
  <2>4. /\ crash' = (got'.status = "panic") /\ answer' = answer /\ interval' = interval
        /\ pc' = IF got'.status = "ok" THEN "torrent" ELSE "gone"
    BY <1>1 DEF ReadTorrent
  <2>5. TypeOK'
    BY <2>1, <2>2, <2>3, <2>4 DEF TypeOK
  <2>6. Panics(bytes)' = Panics(w.bytes)
    BY <2>1 DEF Panics
  <2>7. (Unmarshal(bytes, Metainfo))' = Unmarshal(w.bytes, Metainfo)
    BY <2>1
  <2> QED
    BY <2>1, <2>3, <2>4, <2>5, <2>6, <2>7
<1>2. ASSUME NewTorrent, ~crash PROVE Inv'
  <2>1. /\ pc = "torrent" /\ crash' = Pathless(got.val)
        /\ pc' = IF crash' THEN "gone" ELSE "urls"
        /\ UNCHANGED << bytes, wrote, got, answer, interval >>
    BY <1>2 DEF NewTorrent
  <2>2. bytes \in Seq(STRING) /\ got = Unmarshal(bytes, Metainfo) /\ got.status = "ok"
    BY <2>1 DEF TypeOK
  <2>3. Pathless(got.val) \in BOOLEAN
    BY Zenon DEF Pathless
  <2>4. TypeOK'
    BY <2>1, <2>3 DEF TypeOK
  <2>5. crash' => CreatesNoPath(bytes)
    <3> SUFFICES ASSUME Pathless(got.val) PROVE CreatesNoPath(bytes)
      BY <2>1
    <3> QED
      BY <2>2, MetainfoIs DEF CreatesNoPath
  <2>6. CreatesNoPath(bytes)' = CreatesNoPath(bytes)
    BY <2>1 DEF CreatesNoPath
  <2>7. (Unmarshal(bytes, Metainfo))' = Unmarshal(bytes, Metainfo)
    BY <2>1
  <2>8. pc' \in {"gone", "urls"}
    BY <2>1
  <2> QED
    BY <2>1, <2>2, <2>4, <2>5, <2>6, <2>7, <2>8
<1>3. ASSUME NewTorrentFails, ~crash PROVE Inv'
  <2>1. TypeOK'
    BY <1>3 DEF NewTorrentFails, TypeOK
  <2> QED
    BY <1>3, <2>1 DEF NewTorrentFails
<1>4. ASSUME NEW url, New(url), ~crash PROVE Inv'
  <2>1. TypeOK'
    BY <1>4 DEF New, TypeOK, Failed
  <2> QED
    BY <1>4, <2>1 DEF New
<1>5. ASSUME AnnounceFails, ~crash PROVE Inv'
  <2>1. TypeOK'
    BY <1>5 DEF AnnounceFails, TypeOK, Refused, Failed
  <2> QED
    BY <1>5, <2>1 DEF AnnounceFails, Refused
<1>6. ASSUME Announce, ~crash PROVE Inv'
  <2>1. PICK w \in Responses : bytes' = w.bytes /\ got' = Unmarshal(w.bytes, AnnounceResponse)
    BY <1>6 DEF Announce
  <2>2. w.bytes \in Seq(STRING)
    BY HttpTrackerAssumption
  <2>3. /\ got'.status \in {"ok", "error", "panic"}
        /\ got'.status = "panic" => Panics(w.bytes)
        /\ got'.status = "ok" => /\ got'.val.Interval \in -Half .. Half - 1
                                 /\ got'.val.Peers.nil => got'.val.PeersCompact.nil
    BY <2>1, <2>2, ResponseIs
  <2>4. crash' = (got'.status = "panic") /\ pc' = "done"
    BY <1>6 DEF Announce
  <2>5. Panics(bytes)' = Panics(w.bytes)
    BY <2>1 DEF Panics
  <2>6. (Unmarshal(bytes, AnnounceResponse))' = Unmarshal(w.bytes, AnnounceResponse)
    BY <2>1
  <2>7. CASE got'.status = "ok" /\ got'.val.Failure = << >>
    <3>1. interval' = Wrap(got'.val.Interval * Second) /\ answer' = Peers(got'.val)
      BY <1>6, <2>7 DEF Announce
    <3>2. interval' \in -Half .. Half - 1
      <4>1. got'.val.Interval \in Int
        BY <2>3, <2>7, BencodeAssumption
      <4>2. got'.val.Interval * Second \in Int
        BY <4>1, HttpTrackerAssumption
      <4> QED
        BY <3>1, <4>2, WrapType
    <3>3. /\ answer'.status \in {"ok", "error"}
          /\ \A i \in DOMAIN answer'.addrs : DOMAIN answer'.addrs[i] = {"ip", "port"}
      BY <2>3, <2>7, <3>1, PeersIs DEF Refused
    <3>4. TypeOK'
      BY <2>1, <2>2, <2>3, <2>4, <2>7, <3>3, <3>2 DEF TypeOK
    <3>5. (Peers(got.val))' = Peers(got'.val)
      OBVIOUS
    <3> QED
      BY <2>1, <2>3, <2>4, <2>5, <2>6, <2>7, <3>1, <3>4, <3>5
  <2>8. CASE ~(got'.status = "ok" /\ got'.val.Failure = << >>)
    <3>1. answer' = Refused /\ interval' = interval
      BY <1>6, <2>8 DEF Announce
    <3>2. TypeOK'
      BY <2>1, <2>2, <2>3, <2>4, <3>1 DEF TypeOK, Refused
    <3> QED
      BY <2>3, <2>4, <2>5, <3>1, <3>2 DEF Refused
  <2> QED
    BY <2>7, <2>8
<1>7. ASSUME WaitInterval, ~crash PROVE Inv'
  <2>1. TypeOK'
    BY <1>7 DEF WaitInterval, TypeOK, Refused, Failed
  <2> QED
    BY <1>7, <2>1 DEF WaitInterval
<1>8. ASSUME ContextDone, ~crash PROVE Inv'
  <2>1. TypeOK'
    BY <1>8 DEF ContextDone, TypeOK
  <2> QED
    BY <1>8, <2>1 DEF ContextDone
<1>9. CASE UNCHANGED vars
  <2>1. TypeOK'
    BY <1>9 DEF vars, TypeOK
  <2>2. /\ (Unmarshal(bytes, Metainfo))' = Unmarshal(bytes, Metainfo)
        /\ (Unmarshal(bytes, AnnounceResponse))' = Unmarshal(bytes, AnnounceResponse)
        /\ (Peers(got.val))' = Peers(got.val)
        /\ Panics(bytes)' = Panics(bytes) /\ CreatesNoPath(bytes)' = CreatesNoPath(bytes)
    BY <1>9 DEF vars, Panics, CreatesNoPath
  <2> QED
    BY <1>9, <2>1, <2>2 DEF vars
<1> QED
  BY <1>1, <1>2, <1>3, <1>4, <1>5, <1>6, <1>7, <1>8, <1>9 DEF Next

LEMMA Invariance == Spec => []Inv
BY InvInit, InvNext, PTL DEF Spec

(***************************************************************************)
(* Numbers that are written.                                               *)
(***************************************************************************)

\* The units of what Encode writes.  (The provers do not know that a literal is a STRING.)
Units == STRING \cup {"d", "l", "i", "e", ":", "-"} \cup {Digits[d + 1] : d \in 0 .. 9}

LEMMA MoreSequences ==
  ASSUME NEW S, NEW T, S \subseteq T
  PROVE  Seq(S) \subseteq Seq(T)
OBVIOUS

LEMMA UnitsType ==
  /\ Seq(STRING) \subseteq Seq(Units)
  /\ {"d", "l", "i", "e", ":", "-"} \subseteq Units
  /\ \A d \in 0 .. 9 : Digits[d + 1] \in Units
<1>1. STRING \subseteq Units
  BY DEF Units
<1>2. Seq(STRING) \subseteq Seq(Units)
  BY <1>1, MoreSequences
<1> QED
  BY <1>2 DEF Units

LEMMA OneUnit ==
  ASSUME NEW S, NEW c \in S
  PROVE  << c >> \in Seq(S) /\ Len(<< c >>) = 1 /\ << c >>[1] = c
OBVIOUS

LEMMA Appended ==
  ASSUME NEW S, NEW ds \in Seq(S), NEW c \in S
  PROVE  LET es == Append(ds, c)
             n  == Len(ds)
         IN  /\ n \in Nat /\ es \in Seq(S) /\ Len(es) = n + 1
             /\ es[n + 1] = c /\ \A i \in 1 .. n : es[i] = ds[i]
OBVIOUS

LEMMA DigitOf ==
  ASSUME NEW d \in 0 .. 9
  PROVE  IsDigit(Digits[d + 1]) /\ DigitValue(Digits[d + 1]) = d
<1>1. /\ Digits[1] = "0" /\ Digits[2] = "1" /\ Digits[3] = "2" /\ Digits[4] = "3"
      /\ Digits[5] = "4" /\ Digits[6] = "5" /\ Digits[7] = "6" /\ Digits[8] = "7"
      /\ Digits[9] = "8" /\ Digits[10] = "9"
  BY DEF Digits
<1>2. \A k \in 0 .. 9 : \/ k = 0 \/ k = 1 \/ k = 2 \/ k = 3 \/ k = 4
                        \/ k = 5 \/ k = 6 \/ k = 7 \/ k = 8 \/ k = 9
  OBVIOUS
<1>3. \A k \in 0 .. 9 : Digits[k + 1] = Digits[d + 1] => k = d
  BY <1>1, <1>2
<1>4. IsDigit(Digits[d + 1])
  BY DEF IsDigit
<1> HIDE DEF Digits
<1>5. DigitValue(Digits[d + 1]) = d
  BY <1>3 DEF DigitValue
<1> QED
  BY <1>4, <1>5

LEMMA NoDigit ==
  ASSUME NEW c \in {"e", ":", "-", "l", "d", "i"}
  PROVE  ~IsDigit(c)
<1> SUFFICES ASSUME NEW d \in 0 .. 9, c = Digits[d + 1] PROVE FALSE
  BY DEF IsDigit
<1>1. /\ Digits[1] = "0" /\ Digits[2] = "1" /\ Digits[3] = "2" /\ Digits[4] = "3"
      /\ Digits[5] = "4" /\ Digits[6] = "5" /\ Digits[7] = "6" /\ Digits[8] = "7"
      /\ Digits[9] = "8" /\ Digits[10] = "9"
  BY DEF Digits
<1>2. \/ d = 0 \/ d = 1 \/ d = 2 \/ d = 3 \/ d = 4
      \/ d = 5 \/ d = 6 \/ d = 7 \/ d = 8 \/ d = 9
  OBVIOUS
<1> QED
  BY <1>1, <1>2

\* f holds the texts of the numbers up to m.
NaturalSteps(m, f) ==
  f = [n \in 0 .. m |->
         IF n < 10 THEN << Digits[n + 1] >> ELSE Append(f[n \div 10], Digits[1 + (n % 10)])]

LEMMA Tenths ==
  ASSUME NEW n \in Nat, n >= 10
  PROVE  /\ n \div 10 \in Nat /\ n \div 10 < n /\ n % 10 \in 0 .. 9
         /\ n = 10 * (n \div 10) + (n % 10)
OBVIOUS

LEMMA NaturalStepsAgree ==
  ASSUME NEW m \in Nat, NEW k \in Nat, NEW f, NEW g, NaturalSteps(m, f), NaturalSteps(k, g)
  PROVE  \A n \in Nat : n <= m /\ n <= k => f[n] = g[n]
<1> DEFINE G(n) == n <= m /\ n <= k => f[n] = g[n]
           S    == {i \in Nat : \A n \in 0 .. i : G(n)}
<1>1. \A n \in 0 .. m :
        f[n] = IF n < 10 THEN << Digits[n + 1] >> ELSE Append(f[n \div 10], Digits[1 + (n % 10)])
  BY Zenon DEF NaturalSteps
<1>2. \A n \in 0 .. k :
        g[n] = IF n < 10 THEN << Digits[n + 1] >> ELSE Append(g[n \div 10], Digits[1 + (n % 10)])
  BY Zenon DEF NaturalSteps
<1>3. ASSUME NEW n \in Nat, \A t \in Nat : t < n => G(t) PROVE G(n)
  <2> SUFFICES ASSUME n <= m, n <= k PROVE f[n] = g[n]
    OBVIOUS
  <2>1. n \in 0 .. m /\ n \in 0 .. k
    OBVIOUS
  <2>2. CASE n < 10
    <3>1. f[n] = << Digits[n + 1] >>
      BY <1>1, <2>1, <2>2, Zenon
    <3>2. g[n] = << Digits[n + 1] >>
      BY <1>2, <2>1, <2>2, Zenon
    <3> QED BY <3>1, <3>2
  <2>3. CASE ~(n < 10)
    <3>1. PICK t \in Nat : t = n \div 10 /\ t < n
      BY <2>3, Tenths
    <3>2. f[t] = g[t]
      BY <1>3, <2>1, <3>1
    <3>3. f[n \div 10] = g[n \div 10]
      BY <3>1, <3>2
    <3> QED
      BY <1>1, <1>2, <2>1, <2>3, <3>3, Zenon
  <2> QED BY <2>2, <2>3
<1> HIDE DEF G
<1>4. 0 \in S
  BY <1>3
<1>5. ASSUME NEW i \in Nat, i \in S PROVE i + 1 \in S
  <2>1. \A t \in Nat : t < i + 1 => G(t)
    BY <1>5
  <2>2. G(i + 1)
    BY <1>3, <2>1
  <2> QED BY <1>5, <2>2
<1>6. Nat \subseteq S
  <2> HIDE DEF S
  <2> QED BY <1>4, <1>5, SetInduction
<1> QED
  BY <1>6 DEF G

LEMMA NaturalStepsExist ==
  \A m \in Nat : \E f : NaturalSteps(m, f)
<1> DEFINE S == {m \in Nat : \E f : NaturalSteps(m, f)}
<1>1. 0 \in S
  <2> DEFINE f == [n \in 0 .. 0 |-> << Digits[n + 1] >>]
  <2>1. NaturalSteps(0, f)
    BY DEF NaturalSteps
  <2> QED BY <2>1
<1>2. ASSUME NEW m \in Nat, m \in S PROVE m + 1 \in S
  <2>1. PICK f : NaturalSteps(m, f)
    BY <1>2
  <2> DEFINE g == [n \in 0 .. m + 1 |->
                     IF n < 10 THEN << Digits[n + 1] >>
                     ELSE Append(f[n \div 10], Digits[1 + (n % 10)])]
  <2>2. \A n \in 0 .. m : g[n] = f[n]
    <3>1. \A n \in 0 .. m : n \in 0 .. m + 1
      OBVIOUS
    <3> QED BY <2>1, <3>1, Zenon DEF NaturalSteps
  <2>3. \A n \in 0 .. m + 1 : ~(n < 10) => n \div 10 \in 0 .. m
    <3> TAKE n \in 0 .. m + 1
    <3> HAVE ~(n < 10)
    <3> QED BY Tenths
  <2>4. \A n \in 0 .. m + 1 : ~(n < 10) => g[n \div 10] = f[n \div 10]
    <3> HIDE DEF g
    <3> QED BY <2>2, <2>3
  <2>5. \A n \in 0 .. m + 1 :
          g[n] = IF n < 10 THEN << Digits[n + 1] >>
                 ELSE Append(g[n \div 10], Digits[1 + (n % 10)])
    BY <2>4
  <2>6. g = [n \in 0 .. m + 1 |-> g[n]]
    OBVIOUS
  <2> HIDE DEF g
  <2>7. NaturalSteps(m + 1, g)
    BY <2>5, <2>6, Zenon DEF NaturalSteps
  <2> QED BY <2>7
<1>3. Nat \subseteq S
  <2> HIDE DEF S
  <2> QED BY <1>1, <1>2, SetInduction
<1> QED
  BY <1>3 DEF S

\* So the recursion of Natural is well founded.
LEMMA NaturalIs ==
  ASSUME NEW n \in Nat
  PROVE  Natural[n] = IF n < 10 THEN << Digits[n + 1] >>
                      ELSE Append(Natural[n \div 10], Digits[1 + (n % 10)])
<1> DEFINE N(f) == f = [k \in Nat |-> IF k < 10 THEN << Digits[k + 1] >>
                                      ELSE Append(f[k \div 10], Digits[1 + (k % 10)])]
           h(m) == CHOOSE f : NaturalSteps(m, f)
           g    == [m \in Nat |-> h(m)[m]]
<1>1. \A m \in Nat : NaturalSteps(m, h(m))
  BY NaturalStepsExist, Zenon
<1>2. \A m \in Nat : g[m] = h(m)[m]
  OBVIOUS
<1> HIDE DEF h
<1>3. ASSUME NEW k \in Nat
      PROVE  g[k] = IF k < 10 THEN << Digits[k + 1] >>
                    ELSE Append(g[k \div 10], Digits[1 + (k % 10)])
  <2>1. h(k)[k] = IF k < 10 THEN << Digits[k + 1] >>
                  ELSE Append(h(k)[k \div 10], Digits[1 + (k % 10)])
    <3>1. k \in 0 .. k /\ NaturalSteps(k, h(k))
      BY <1>1
    <3> QED BY <3>1, Zenon DEF NaturalSteps
  <2>2. CASE k < 10
    BY <1>2, <2>1, <2>2
  <2>3. CASE ~(k < 10)
    <3>1. PICK t \in Nat : t = k \div 10 /\ t < k
      BY <2>3, Tenths
    <3>2. NaturalSteps(t, h(t)) /\ NaturalSteps(k, h(k)) /\ t <= t /\ t <= k
      BY <1>1, <3>1
    <3>3. h(t)[t] = h(k)[t]
      BY <3>2, NaturalStepsAgree
    <3>4. g[k] = h(k)[k] /\ g[t] = h(t)[t]
      BY <1>2
    <3> HIDE DEF g
    <3> QED BY <2>1, <2>3, <3>1, <3>3, <3>4
  <2> QED BY <2>2, <2>3
<1>4. N(g)
  <2>1. g = [k \in Nat |-> g[k]]
    OBVIOUS
  <2> HIDE DEF g
  <2> QED BY <1>3, <2>1, Zenon
<1>5. Natural = CHOOSE f : N(f)
  BY Zenon DEF Natural
<1> HIDE DEF g
<1>6. N(Natural)
  BY <1>4, <1>5, Zenon
<1> QED
  BY <1>6, Zenon

\* A further digit.
LEMMA NumeralAppend ==
  ASSUME NEW S, NEW ds \in Seq(S), NEW c \in S
  PROVE  Numeral(Append(ds, c), 10) = 10 * Numeral(ds, 10) + DigitValue(c)
<1> DEFINE es == Append(ds, c)
           n  == Len(ds)
<1>1. n \in Nat /\ Len(es) = n + 1 /\ es[n + 1] = c /\ \A i \in 1 .. n : es[i] = ds[i]
  BY Appended
<1>2. PICK f : NumeralSteps(ds, 10, n, f) /\ Numeral(ds, 10) = f[n]
  BY <1>1, NumeralIs
<1>3. PICK g : NumeralSteps(es, 10, Len(es), g) /\ Numeral(es, 10) = g[n + 1]
  <2>1. Len(es) \in Nat
    BY <1>1
  <2> HIDE DEF es
  <2> QED BY <1>1, <2>1, NumeralIs
<1>4. f[0] = 0 /\ \A i \in 1 .. n : f[i] = 10 * f[i - 1] + DigitValue(ds[i])
  BY <1>1, <1>2, NumeralSteps1
<1>5. g[0] = 0 /\ \A i \in 1 .. n + 1 : g[i] = 10 * g[i - 1] + DigitValue(es[i])
  <2>1. Len(es) \in Nat
    BY <1>1
  <2> HIDE DEF es
  <2> QED BY <1>1, <1>3, <2>1, NumeralSteps1
<1> HIDE DEF es, n
<1> DEFINE T == {i \in Nat : i <= n => f[i] = g[i]}
<1>6. 0 \in T
  BY <1>4, <1>5
<1>7. ASSUME NEW i \in Nat, i \in T PROVE i + 1 \in T
  <2> SUFFICES ASSUME i + 1 <= n PROVE f[i + 1] = g[i + 1]
    OBVIOUS
  <2>1. /\ i + 1 \in 1 .. n /\ i + 1 \in 1 .. n + 1 /\ (i + 1) - 1 = i
        /\ f[i] = g[i] /\ es[i + 1] = ds[i + 1]
    BY <1>1, <1>7
  <2>2. /\ f[i + 1] = 10 * f[(i + 1) - 1] + DigitValue(ds[i + 1])
        /\ g[i + 1] = 10 * g[(i + 1) - 1] + DigitValue(es[i + 1])
    BY <1>4, <1>5, <2>1
  <2> QED BY <2>1, <2>2
<1>8. Nat \subseteq T
  <2> HIDE DEF T
  <2> QED BY <1>6, <1>7, SetInduction
<1>9. f[n] = g[n]
  BY <1>1, <1>8
<1>10. g[n + 1] = 10 * g[n] + DigitValue(es[n + 1])
  <2>1. n + 1 \in 1 .. n + 1 /\ (n + 1) - 1 = n
    BY <1>1
  <2> QED BY <1>5, <2>1
<1> QED
  BY <1>1, <1>2, <1>3, <1>9, <1>10 DEF es

\* What Itoa writes of a number that is not negative.
LEMMA NaturalDigits ==
  ASSUME NEW n \in Nat
  PROVE  LET ds == Natural[n]
         IN  /\ ds \in Seq(Units) /\ Len(ds) \in Nat \ {0}
             /\ \A i \in 1 .. Len(ds) : IsDigit(ds[i])
             /\ Numeral(ds, 10) = n
<1> DEFINE D(k) == /\ Natural[k] \in Seq(Units) /\ Len(Natural[k]) \in Nat \ {0}
                   /\ \A i \in 1 .. Len(Natural[k]) : IsDigit(Natural[k][i])
                   /\ Numeral(Natural[k], 10) = k
           S == {m \in Nat : \A k \in 0 .. m : D(k)}
<1>1. ASSUME NEW k \in Nat, k < 10 PROVE D(k)
  <2> DEFINE c  == Digits[k + 1]
             ds == << c >>
  <2>1. Natural[k] = ds
    BY <1>1, NaturalIs
  <2>2. k \in 0 .. 9 /\ c \in Units /\ IsDigit(c) /\ DigitValue(c) = k
    BY <1>1, UnitsType, DigitOf
  <2> HIDE DEF c
  <2>3. ds \in Seq(Units) /\ Len(ds) = 1 /\ ds[1] = c
    BY <2>2, OneUnit
  <2> HIDE DEF ds
  <2>4. PICK f : NumeralSteps(ds, 10, 1, f) /\ Numeral(ds, 10) = f[1]
    BY <2>3, NumeralIs
  <2>5. f[0] = 0 /\ f[1] = 10 * f[0] + DigitValue(ds[1])
    <3>1. 1 \in 1 .. Len(ds) /\ 1 - 1 = 0 /\ Len(ds) \in Nat
      BY <2>3
    <3> QED BY <2>3, <2>4, <3>1, NumeralSteps1
  <2>6. Numeral(ds, 10) = k
    BY <2>2, <2>3, <2>4, <2>5
  <2> QED
    BY <2>1, <2>2, <2>3, <2>6
<1>2. ASSUME NEW k \in Nat, k >= 10, \A t \in Nat : t < k => D(t) PROVE D(k)
  <2>1. PICK t \in Nat, d \in 0 .. 9 : /\ t = k \div 10 /\ t < k /\ d = k % 10
                                       /\ k = 10 * t + d
    BY <1>2, Tenths
  <2> DEFINE c  == Digits[d + 1]
             ds == Natural[t]
             es == Append(ds, c)
  <2>2. Natural[k] = es
    <3>1. Natural[k] = Append(Natural[k \div 10], Digits[1 + (k % 10)])
      <4>1. ~(k < 10)
        BY <1>2
      <4> QED BY <4>1, NaturalIs, Zenon
    <3>2. 1 + (k % 10) = d + 1
      BY <2>1
    <3> QED BY <2>1, <3>1, <3>2
  <2>3. c \in Units /\ IsDigit(c) /\ DigitValue(c) = d
    BY UnitsType, DigitOf
  <2>4. /\ ds \in Seq(Units) /\ \A i \in 1 .. Len(ds) : IsDigit(ds[i])
        /\ Numeral(ds, 10) = t
    BY <1>2, <2>1
  <2> HIDE DEF c, ds
  <2>5. /\ Len(ds) \in Nat /\ es \in Seq(Units) /\ Len(es) = Len(ds) + 1
        /\ es[Len(ds) + 1] = c /\ \A i \in 1 .. Len(ds) : es[i] = ds[i]
    BY <2>3, <2>4, Appended
  <2>6. Numeral(es, 10) = k
    BY <2>1, <2>3, <2>4, NumeralAppend
  <2> HIDE DEF es
  <2>7. \A i \in 1 .. Len(es) : IsDigit(es[i])
    BY <2>3, <2>4, <2>5
  <2> QED
    BY <2>2, <2>5, <2>6, <2>7
<1> HIDE DEF D
<1>3. \A k \in Nat : (\A t \in Nat : t < k => D(t)) => D(k)
  BY <1>1, <1>2
<1>4. 0 \in S
  BY <1>3
<1>5. ASSUME NEW m \in Nat, m \in S PROVE m + 1 \in S
  <2>1. D(m + 1)
    BY <1>3, <1>5
  <2> QED BY <1>5, <2>1
<1>6. Nat \subseteq S
  <2> HIDE DEF S
  <2> QED BY <1>4, <1>5, SetInduction
<1>7. D(n)
  BY <1>6
<1> QED
  BY <1>7 DEF D

(***************************************************************************)
(* What Encode writes is read back, wherever it stands.                    *)
(***************************************************************************)
Here(o) == [start |-> o, cur |-> o]

LEMMA Joined ==
  ASSUME NEW S, NEW x \in Seq(S), NEW y \in Seq(S)
  PROVE  LET z == x \o y
         IN  /\ Len(x) \in Nat /\ Len(y) \in Nat /\ z \in Seq(S) /\ Len(z) = Len(x) + Len(y)
             /\ \A i \in 1 .. Len(x) : z[i] = x[i]
             /\ \A i \in 1 .. Len(y) : z[Len(x) + i] = y[i]
OBVIOUS

LEMMA JoinedUnits ==
  ASSUME NEW x \in Seq(Units), NEW y \in Seq(Units)
  PROVE  x \o y \in Seq(Units) /\ Len(x \o y) = Len(x) + Len(y)
BY Joined

LEMMA PartsOf ==
  ASSUME NEW b \in Seq(STRING), NEW o, NEW S, NEW x \in Seq(S), NEW y \in Seq(S),
         PartOf(b, o, x \o y)
  PROVE  PartOf(b, o, x) /\ PartOf(b, o + Len(x), y)
<1> DEFINE z == x \o y
           p == o + Len(x)
<1>1. /\ Len(x) \in Nat /\ Len(y) \in Nat /\ Len(z) = Len(x) + Len(y)
      /\ \A i \in 1 .. Len(x) : z[i] = x[i]
      /\ \A i \in 1 .. Len(y) : z[Len(x) + i] = y[i]
  BY Joined
<1>2. /\ Len(b) \in Nat /\ o \in 0 .. Len(b) /\ o + Len(z) <= Len(b)
      /\ \A i \in 1 .. Len(z) : z[i] = b[o + i]
  BY DEF PartOf
<1> HIDE DEF z
<1>3. /\ o + Len(x) <= Len(b) /\ p \in 0 .. Len(b) /\ p + Len(y) <= Len(b)
      /\ \A i \in 1 .. Len(x) : i \in 1 .. Len(z)
      /\ \A i \in 1 .. Len(y) : Len(x) + i \in 1 .. Len(z) /\ o + (Len(x) + i) = p + i
  BY <1>1, <1>2
<1>4. \A i \in 1 .. Len(x) : x[i] = b[o + i]
  BY <1>1, <1>2, <1>3
<1>5. \A i \in 1 .. Len(y) : y[i] = b[p + i]
  BY <1>1, <1>2, <1>3
<1> QED
  BY <1>2, <1>3, <1>4, <1>5 DEF PartOf

LEMMA UnitAt ==
  ASSUME NEW b \in Seq(STRING), NEW o, NEW c, PartOf(b, o, << c >>)
  PROVE  At(b, o, c) /\ ~Finished(b, o) /\ o \in Nat /\ o + 1 \in 0 .. Len(b) /\ Len(b) \in Nat
<1>1. Len(<< c >>) = 1 /\ << c >>[1] = c
  BY OneUnit
<1>2. Len(b) \in Nat /\ o \in 0 .. Len(b) /\ o + 1 <= Len(b) /\ b[o + 1] = c
  BY <1>1 DEF PartOf
<1> QED
  BY <1>2 DEF At, Finished

\* The part of the bytes that x is, cut out of them.
LEMMA PartCut ==
  ASSUME NEW b \in Seq(STRING), NEW o, NEW x \in Seq(Units), PartOf(b, o, x),
         NEW i, i = o + 1, NEW j, j = o + Len(x)
  PROVE  SubSeq(b, i, j) = x
<1> DEFINE q == SubSeq(b, i, j)
<1>1. Len(b) \in Nat /\ Len(x) \in Nat /\ o \in Nat /\ o + Len(x) <= Len(b)
  BY DEF PartOf
<1>2. q \in Seq(STRING) /\ Len(q) = Len(x) /\ \A k \in 1 .. Len(x) : q[k] = b[o + k]
  BY <1>1
<1>3. q \in Seq(Units)
  BY <1>2, UnitsType
<1> HIDE DEF q
<1>4. \A k \in 1 .. Len(q) : q[k] = x[k]
  BY <1>2 DEF PartOf
<1>5. Len(q) = Len(x)
  BY <1>2
<1>6. q = x
  BY <1>3, <1>4, <1>5, SeqEqual, Zenon
<1> QED
  BY <1>6 DEF q

LEMMA NumberBack ==
  ASSUME NEW b \in Seq(STRING), NEW o, NEW ds \in Seq(Units), PartOf(b, o, ds),
         \A i \in 1 .. Len(ds) : IsDigit(ds[i]),
         NEW c, ~IsDigit(c), At(b, o + Len(ds), c), 10 * Numeral(ds, 10) < Half
  PROVE  Number(b, o).n = Numeral(ds, 10) /\ Number(b, o).cur = o + Len(ds)
<1> DEFINE end == DigitsEnd(b, o)
           p   == o + Len(ds)
<1>1. /\ Len(b) \in Nat /\ Len(ds) \in Nat /\ o \in 0 .. Len(b) /\ p < Len(b)
      /\ \A i \in 1 .. Len(ds) : ds[i] = b[o + i]
      /\ b[p + 1] = c
  BY DEF PartOf, At, Finished
<1>2. end \in o .. Len(b) /\ IsDigitsEnd(b, o, end)
  BY <1>1, DigitsEndIs
<1> HIDE DEF end
<1>3. ~(end < p)
  <2> SUFFICES ASSUME end < p PROVE FALSE
    OBVIOUS
  <2>1. PICK k \in 1 .. Len(ds) : o + k = end + 1
    <3>1. (end - o) + 1 \in 1 .. Len(ds) /\ o + ((end - o) + 1) = end + 1
      BY <1>1, <1>2
    <3> QED BY <3>1
  <2>2. IsDigit(b[end + 1])
    BY <1>1, <2>1
  <2>3. ~Finished(b, end)
    BY <1>1, <1>2 DEF Finished
  <2> QED BY <1>2, <2>2, <2>3 DEF IsDigitsEnd
<1>4. ~(p < end)
  <2> SUFFICES ASSUME p < end PROVE FALSE
    OBVIOUS
  <2>1. p + 1 \in o + 1 .. end
    BY <1>1, <1>2
  <2> QED BY <1>1, <1>2, <2>1 DEF IsDigitsEnd
<1>5. end = p
  BY <1>1, <1>2, <1>3, <1>4
<1>6. PICK i, j : i = o + 1 /\ j = o + Len(ds)
  OBVIOUS
<1>7. SubSeq(b, o + 1, end) = ds
  BY <1>5, <1>6, PartCut
<1>8. Number(b, o).n = Tenth(Tenfold(ds)) /\ Number(b, o).cur = p
  BY <1>5, <1>7 DEF Number, end
<1>9. Numeral(ds, 10) \in Nat /\ Tenfold(ds) = 10 * Numeral(ds, 10)
  BY <1>1, TenfoldExact
<1>10. Tenth(10 * Numeral(ds, 10)) = Numeral(ds, 10)
  BY <1>9 DEF Tenth
<1> QED
  BY <1>8, <1>9, <1>10

LEMMA StringShape ==
  ASSUME NEW s \in Seq(Units)
  PROVE  LET ds == Natural[Len(s)]
             x  == EncodeString(s)
         IN  /\ Len(s) \in Nat /\ ds \in Seq(Units) /\ ds \o << ":" >> \in Seq(Units)
             /\ x = (ds \o << ":" >>) \o s
             /\ x \in Seq(Units) /\ Len(ds) \in Nat \ {0}
             /\ Len(ds \o << ":" >>) = Len(ds) + 1 /\ Len(x) = Len(ds) + 1 + Len(s)
<1> DEFINE ds == Natural[Len(s)]
           y  == ds \o << ":" >>
           x  == y \o s
<1>1. Len(s) \in Nat /\ ds \in Seq(Units) /\ Len(ds) \in Nat \ {0}
  BY NaturalDigits
<1> HIDE DEF ds
<1>2. << ":" >> \in Seq(Units) /\ Len(<< ":" >>) = 1
  BY OneUnit, UnitsType
<1>3. y \in Seq(Units) /\ Len(y) = Len(ds) + 1
  BY <1>1, <1>2, Joined
<1> HIDE DEF y
<1>4. x \in Seq(Units) /\ Len(x) = Len(ds) + 1 + Len(s)
  <2>1. x \in Seq(Units) /\ Len(x) = Len(y) + Len(s)
    BY <1>3, Joined
  <2> HIDE DEF x
  <2> QED BY <1>1, <1>3, <2>1
<1>5. x = EncodeString(s)
  BY DEF EncodeString, y, ds
<1> QED
  BY <1>1, <1>3, <1>4, <1>5 DEF ds, y

\* A string, behind whatever was read.
LEMMA StringBack ==
  ASSUME NEW b \in Seq(STRING), NEW o, NEW s \in Seq(Units), 10 * Len(s) < Half,
         PartOf(b, o, EncodeString(s)), NEW end, end = o + Len(EncodeString(s))
  PROVE  /\ ReadString(b, Here(o)) = Read(StringElement(s), end, end)
         /\ \E c : IsDigit(c) /\ At(b, o, c)
<1> DEFINE ds == Natural[Len(s)]
           y  == ds \o << ":" >>
           p  == o + Len(ds)
<1>1. /\ Len(s) \in Nat /\ ds \in Seq(Units) /\ y \in Seq(Units) /\ EncodeString(s) = y \o s
      /\ Len(ds) \in Nat \ {0} /\ Len(y) = Len(ds) + 1
      /\ Len(EncodeString(s)) = Len(ds) + 1 + Len(s)
  BY StringShape
<1>2. PartOf(b, o, y) /\ PartOf(b, o + Len(y), s)
  BY <1>1, PartsOf
<1>3. PartOf(b, o, ds) /\ PartOf(b, p, << ":" >>)
  <2>1. << ":" >> \in Seq(Units)
    BY OneUnit, UnitsType
  <2> HIDE DEF ds
  <2> QED BY <1>1, <1>2, <2>1, PartsOf
<1>4. /\ At(b, p, ":") /\ Len(b) \in Nat /\ o \in Nat
      /\ o + Len(y) = p + 1 /\ p + 1 + Len(s) <= Len(b) /\ end = p + 1 + Len(s)
  <2>1. At(b, p, ":") /\ Len(b) \in Nat
    BY <1>3, UnitAt
  <2>2. o \in Nat /\ o + Len(y) + Len(s) <= Len(b)
    BY <1>2 DEF PartOf
  <2> QED BY <1>1, <2>1, <2>2
<1>5. /\ \A i \in 1 .. Len(ds) : IsDigit(ds[i])
      /\ Numeral(ds, 10) = Len(s)
  BY <1>1, NaturalDigits
<1>6. ~IsDigit(":")
  BY NoDigit
<1> HIDE DEF ds, p
<1>7. Number(b, o).n = Len(s) /\ Number(b, o).cur = p
  BY <1>1, <1>3, <1>4, <1>5, <1>6, NumberBack DEF p
<1>8. SubSeq(b, p + 1 + 1, p + 1 + Len(s)) = s
  <2>1. PICK q, i, j : q = p + 1 /\ i = p + 1 + 1 /\ j = p + 1 + Len(s)
    OBVIOUS
  <2>2. PartOf(b, q, s) /\ i = q + 1 /\ j = q + Len(s)
    BY <1>2, <1>4, <2>1
  <2>3. SubSeq(b, i, j) = s
    BY <2>2, PartCut
  <2> QED BY <2>1, <2>3
<1>9. ReadString(b, Here(o)) = StringFrom(b, p + 1, p + 1 + Len(s))
  BY <1>4, <1>7 DEF ReadString, Here
<1>10. StringFrom(b, p + 1, p + 1 + Len(s)) = Read(StringElement(s), end, end)
  <2>1. p \in Nat /\ ~(p + 1 + Len(s) > Len(b)) /\ ~(p + 1 + Len(s) < p + 1)
    BY <1>1, <1>4 DEF p
  <2> QED BY <1>4, <1>8, <2>1 DEF StringFrom
<1>11. IsDigit(b[o + 1]) /\ At(b, o, b[o + 1])
  <2>1. 1 \in 1 .. Len(ds) /\ o < Len(b)
    BY <1>1, <1>4 DEF p
  <2> QED BY <1>3, <1>4, <1>5, <2>1 DEF PartOf, At, Finished
<1> QED
  BY <1>9, <1>10, <1>11

\* The reads that Parse finds the results of reads in.
Deepest(b) == Reads(b)[2 * Len(b) + 2]

LEMMA DeepestReads ==
  ASSUME NEW b \in Seq(STRING), NEW o \in 0 .. Len(b)
  PROVE  /\ Here(o) \in Scanners(b) /\ Here(o).cur = o /\ Here(o).start = o
         /\ ElementAt(b, o) = Deepest(b).next[Here(o)]
         /\ Deepest(b).next[Here(o)] = ReadNext(b, Here(o), Deepest(b))
         /\ Deepest(b).items[Here(o)] = ReadItems(b, Here(o), Deepest(b))
         /\ Deepest(b).entries[Here(o)] = ReadEntries(b, Here(o), Deepest(b))
<1>1. Here(o) \in Scanners(b) /\ Here(o).cur = o /\ Here(o).start = o
  BY DEF Here, Scanners
<1>2. ElementAt(b, o) = Deepest(b).next[Here(o)]
  BY Zenon DEF ElementAt, Deepest, Here
<1> QED
  BY <1>1, <1>2, ReadsAreRecursive, Zenon DEF Deepest

\* An element is no string only where an l, a d or an i stands.
LEMMA NextIsString ==
  ASSUME NEW b \in Seq(STRING), NEW o \in 0 .. Len(b), NEW c, At(b, o, c),
         c # "l", c # "d", c # "i"
  PROVE  ElementAt(b, o) = ReadString(b, Here(o))
<1>1. ~At(b, o, "l") /\ ~At(b, o, "d") /\ ~At(b, o, "i")
  BY DEF At
<1> QED
  BY <1>1, DeepestReads, NextCases

LEMMA StringElementBack ==
  ASSUME NEW b \in Seq(STRING), NEW o, NEW s \in Seq(Units), 10 * Len(s) < Half,
         PartOf(b, o, EncodeString(s)), NEW end, end = o + Len(EncodeString(s))
  PROVE  ElementAt(b, o) = Read(StringElement(s), end, end)
<1>1. /\ ReadString(b, Here(o)) = Read(StringElement(s), end, end)
      /\ \E c : IsDigit(c) /\ At(b, o, c)
  BY StringBack
<1>2. PICK c : IsDigit(c) /\ At(b, o, c)
  BY <1>1
<1>3. c # "l" /\ c # "d" /\ c # "i"
  BY <1>2, NoDigit
<1>4. o \in 0 .. Len(b)
  BY DEF PartOf
<1> QED
  BY <1>1, <1>2, <1>3, <1>4, NextIsString

LEMMA IntBack ==
  ASSUME NEW b \in Seq(STRING), NEW o, NEW n \in Nat, 10 * n < Half,
         PartOf(b, o, EncodeInt(n)), NEW end, end = o + Len(EncodeInt(n))
  PROVE  ElementAt(b, o) = Read(IntElement(n), end, end)
<1> DEFINE ds == Natural[n]
           y  == << "i" >> \o ds
           x  == y \o << "e" >>
           p  == o + 1 + Len(ds)
<1>1. ds \in Seq(Units) /\ Numeral(ds, 10) = n /\ \A i \in 1 .. Len(ds) : IsDigit(ds[i])
  BY NaturalDigits
<1>2. EncodeInt(n) = x
  <2>1. Itoa(n) = ds
    BY DEF Itoa
  <2> QED BY <2>1, Zenon DEF EncodeInt, Enclosed
<1> HIDE DEF ds
<1>3. /\ << "i" >> \in Seq(Units) /\ Len(<< "i" >>) = 1
      /\ << "e" >> \in Seq(Units) /\ Len(<< "e" >>) = 1
  BY OneUnit, UnitsType
<1>4. y \in Seq(Units) /\ Len(y) = 1 + Len(ds) /\ Len(ds) \in Nat
  BY <1>1, <1>3, Joined
<1>5. PartOf(b, o, y) /\ PartOf(b, o + Len(y), << "e" >>)
  BY <1>2, <1>3, <1>4, PartsOf
<1>6. PartOf(b, o, << "i" >>) /\ PartOf(b, o + 1, ds)
  BY <1>1, <1>3, <1>5, PartsOf
<1> HIDE DEF y
<1>7. Len(x) = Len(y) + 1
  BY <1>3, <1>4, Joined
<1>8. /\ At(b, o, "i") /\ o \in 0 .. Len(b) /\ o \in Nat /\ o + 1 \in 0 .. Len(b)
  BY <1>6, UnitAt DEF PartOf
<1> HIDE DEF x
<1>9. o + Len(y) = p /\ end = p + 1
  BY <1>2, <1>4, <1>7, <1>8
<1>10. At(b, p, "e") /\ ~IsDigit("e")
  BY <1>5, <1>9, UnitAt, NoDigit
<1>11. Number(b, o + 1).n = n /\ Number(b, o + 1).cur = p
  <2>1. PICK q : q = o + 1
    OBVIOUS
  <2>2. PartOf(b, q, ds) /\ At(b, q + Len(ds), "e")
    BY <1>6, <1>10, <2>1
  <2>3. Number(b, q).n = n /\ Number(b, q).cur = q + Len(ds)
    BY <1>1, <1>10, <2>2, NumberBack
  <2> QED BY <2>1, <2>3
<1>12. ElementAt(b, o) = ReadInt(b, Here(o))
  BY <1>8, DeepestReads, NextCases
<1> HIDE DEF p
<1>13. ReadInt(b, Here(o)) = ClosedInt(b, Number(b, o + 1), p + 1)
  BY <1>11 DEF ReadInt, Here
<1> QED
  BY <1>9, <1>10, <1>11, <1>12, <1>13 DEF ClosedInt

\* A list or dictionary is read back when what it encloses is.
LEMMA EnclosedLength ==
  ASSUME NEW c \in Units, NEW y \in Seq(Units)
  PROVE  Len(Enclosed(c, y)) = Len(y) + 2 /\ Len(y) \in Nat
<1> DEFINE z == << c >> \o y
           x == z \o << "e" >>
<1>1. /\ << c >> \in Seq(Units) /\ Len(<< c >>) = 1
      /\ << "e" >> \in Seq(Units) /\ Len(<< "e" >>) = 1
  BY OneUnit, UnitsType
<1>2. z \in Seq(Units) /\ Len(z) = 1 + Len(y) /\ Len(y) \in Nat
  BY <1>1, Joined
<1> HIDE DEF z
<1>3. Len(x) = Len(z) + 1
  BY <1>1, <1>2, Joined
<1>4. Enclosed(c, y) = x
  BY Zenon DEF Enclosed, z
<1> HIDE DEF x
<1> QED
  BY <1>2, <1>3, <1>4

LEMMA EnclosedShape ==
  ASSUME NEW b \in Seq(STRING), NEW o, NEW c \in Units, NEW y \in Seq(Units),
         PartOf(b, o, Enclosed(c, y))
  PROVE  LET x == Enclosed(c, y)
         IN  /\ x \in Seq(Units) /\ Len(x) = Len(y) + 2 /\ Len(y) \in Nat
             /\ At(b, o, c) /\ o \in 0 .. Len(b) /\ o \in Nat /\ o + 1 \in 0 .. Len(b)
             /\ PartOf(b, o + 1, y) /\ At(b, o + 1 + Len(y), "e")
             /\ SubSeq(b, o + 1, o + Len(x)) = x
<1> DEFINE z == << c >> \o y
           x == z \o << "e" >>
<1>1. /\ << c >> \in Seq(Units) /\ Len(<< c >>) = 1
      /\ << "e" >> \in Seq(Units) /\ Len(<< "e" >>) = 1
  BY OneUnit, UnitsType
<1>2. z \in Seq(Units) /\ Len(z) = 1 + Len(y) /\ Len(y) \in Nat
  BY <1>1, Joined
<1>3. Enclosed(c, y) = x
  BY DEF Enclosed
<1>4. PartOf(b, o, z) /\ PartOf(b, o + Len(z), << "e" >>)
  BY <1>1, <1>2, <1>3, PartsOf
<1>5. PartOf(b, o, << c >>) /\ PartOf(b, o + 1, y)
  BY <1>1, <1>4, PartsOf
<1> HIDE DEF z
<1>6. x \in Seq(Units) /\ Len(x) = Len(y) + 2
  <2>1. x \in Seq(Units) /\ Len(x) = Len(z) + 1
    BY <1>1, <1>2, Joined
  <2> HIDE DEF x
  <2> QED BY <1>2, <2>1
<1>7. At(b, o, c) /\ o \in 0 .. Len(b) /\ o \in Nat /\ o + 1 \in 0 .. Len(b)
  BY <1>5, UnitAt DEF PartOf
<1>8. o + Len(z) = o + 1 + Len(y)
  BY <1>2, <1>7
<1>9. At(b, o + 1 + Len(y), "e")
  BY <1>4, <1>8, UnitAt
<1> HIDE DEF x
<1>10. SubSeq(b, o + 1, o + Len(x)) = x
  <2>1. PICK i, j : i = o + 1 /\ j = o + Len(x)
    OBVIOUS
  <2> QED BY <1>3, <1>6, <2>1, PartCut
<1> QED
  BY <1>2, <1>3, <1>5, <1>6, <1>7, <1>9, <1>10

LEMMA ListBack ==
  ASSUME NEW b \in Seq(STRING), NEW o, NEW y \in Seq(Units), PartOf(b, o, Enclosed("l", y)),
         NEW end, end = o + Len(Enclosed("l", y)), NEW vs,
         Deepest(b).items[Here(o + 1)] = Read(vs, end, end)
  PROVE  ElementAt(b, o) = Read(ListElement(vs, Enclosed("l", y)), end, end)
<1> DEFINE r == Read(vs, end, end)
           x == Enclosed("l", y)
<1>1. /\ At(b, o, "l") /\ o \in 0 .. Len(b) /\ SubSeq(b, o + 1, o + Len(x)) = x
  <2>1. "l" \in Units
    BY UnitsType
  <2> QED BY <2>1, EnclosedShape
<1>2. Inside(Here(o)) = Here(o + 1) /\ Here(o).cur = o /\ Here(o).start = o
  BY DEF Inside, Here
<1>3. r.status = "ok" /\ r.val = vs /\ r.start = end /\ r.cur = end
  BY DEF Read
<1>4. RawFrom(b, Here(o), r) = x
  BY <1>1, <1>2, <1>3 DEF RawFrom
<1> HIDE DEF r, x
<1>5. ElementAt(b, o) = Read(ListElement(r.val, RawFrom(b, Here(o), r)), r.start, r.cur)
  <2>1. Deepest(b).items[Inside(Here(o))] = r
    BY <1>2 DEF r
  <2>2. ElementAt(b, o) = ReadNext(b, Here(o), Deepest(b)) /\ At(b, Here(o).cur, "l")
    BY <1>1, <1>2, DeepestReads
  <2> QED BY <1>3, <2>1, <2>2, NextCases, Zenon
<1> QED
  BY <1>3, <1>4, <1>5 DEF x

LEMMA DictBack ==
  ASSUME NEW b \in Seq(STRING), NEW o, NEW y \in Seq(Units), PartOf(b, o, Enclosed("d", y)),
         NEW end, end = o + Len(Enclosed("d", y)), NEW f,
         Deepest(b).entries[Here(o + 1)] = Read(f, end, end)
  PROVE  ElementAt(b, o) = Read(DictElement(f, Enclosed("d", y)), end, end)
<1> DEFINE r == Read(f, end, end)
           x == Enclosed("d", y)
<1>1. /\ At(b, o, "d") /\ o \in 0 .. Len(b) /\ SubSeq(b, o + 1, o + Len(x)) = x
  <2>1. "d" \in Units
    BY UnitsType
  <2> QED BY <2>1, EnclosedShape
<1>2. Inside(Here(o)) = Here(o + 1) /\ Here(o).cur = o /\ Here(o).start = o
  BY DEF Inside, Here
<1>3. r.status = "ok" /\ r.val = f /\ r.start = end /\ r.cur = end
  BY DEF Read
<1>4. RawFrom(b, Here(o), r) = x
  BY <1>1, <1>2, <1>3 DEF RawFrom
<1> HIDE DEF r, x
<1>5. ElementAt(b, o) = Read(DictElement(r.val, RawFrom(b, Here(o), r)), r.start, r.cur)
  <2>1. Deepest(b).entries[Inside(Here(o))] = r
    BY <1>2 DEF r
  <2>2. ElementAt(b, o) = ReadNext(b, Here(o), Deepest(b)) /\ At(b, Here(o).cur, "d")
    BY <1>1, <1>2, DeepestReads
  <2> QED BY <1>3, <2>1, <2>2, NextCases, Zenon
<1> QED
  BY <1>3, <1>4, <1>5 DEF x

\* The e that closes a list or dictionary is the end of its items or entries ...
LEMMA NoneBack ==
  ASSUME NEW b \in Seq(STRING), NEW o \in 0 .. Len(b), At(b, o, "e")
  PROVE  /\ Deepest(b).items[Here(o)] = Read(<< >>, o + 1, o + 1)
         /\ Deepest(b).entries[Here(o)] = Read([k \in {} |-> Failed], o + 1, o + 1)
<1>1. /\ Deepest(b).items[Here(o)] = ReadItems(b, Here(o), Deepest(b))
      /\ Deepest(b).entries[Here(o)] = ReadEntries(b, Here(o), Deepest(b))
      /\ Here(o).cur = o
  BY DeepestReads
<1>2. ReadItems(b, Here(o), Deepest(b)) = Read(<< >>, o + 1, o + 1)
  <2>1. At(b, Here(o).cur, "e")
    BY <1>1
  <2>2. ReadItems(b, Here(o), Deepest(b)) = Read(<< >>, Here(o).cur + 1, Here(o).cur + 1)
    BY <2>1, ItemsCases, Zenon
  <2> QED BY <1>1, <2>2, Zenon
<1>3. ReadEntries(b, Here(o), Deepest(b)) = Read([k \in {} |-> Failed], o + 1, o + 1)
  <2>1. At(b, Here(o).cur, "e")
    BY <1>1
  <2>2. ReadEntries(b, Here(o), Deepest(b)) = Read([k \in {} |-> Failed], Here(o).cur + 1, Here(o).cur + 1)
    BY <2>1, EntriesCases, Zenon
  <2> QED BY <1>1, <2>2, Zenon
<1> QED
  BY <1>1, <1>2, <1>3

\* ... and begins no element, so an item that can be read is no end.
LEMMA NoElementAtEnd ==
  ASSUME NEW b \in Seq(STRING), NEW o \in 0 .. Len(b), ElementAt(b, o).status = "ok"
  PROVE  ~Finished(b, o) /\ ~At(b, o, "e")
<1>1. Moves(b, Here(o), ElementAt(b, o))
  <2>1. 2 * Len(b) + 2 \in 0 .. 2 * Len(b) + 2
    OBVIOUS
  <2>2. Moving(b, Deepest(b))
    BY <2>1, ReadsMove DEF Deepest
  <2> QED BY <2>2, DeepestReads DEF Moving
<1>2. ~Finished(b, o)
  BY <1>1 DEF Moves, Here, Finished
<1>3. ASSUME At(b, o, "e") PROVE FALSE
  <2>1. ElementAt(b, o) = ReadString(b, Here(o))
    BY <1>3, NextIsString
  <2>2. Number(b, o).cur = o
    <3> DEFINE end == DigitsEnd(b, o)
    <3>1. /\ end \in o .. Len(b) /\ Len(b) \in Nat /\ Number(b, o).cur = end
          /\ \A i \in o + 1 .. end : IsDigit(b[i])
      BY DigitsTaken, NumberType
    <3> HIDE DEF end
    <3>2. ~IsDigit(b[o + 1])
      BY <1>3, NoDigit DEF At
    <3>3. o + 1 \notin o + 1 .. end
      BY <3>1, <3>2
    <3> QED BY <3>1, <3>3
  <2>3. ~At(b, o, ":")
    BY <1>3 DEF At
  <2>4. ReadString(b, Here(o)) = Failed
    BY <2>2, <2>3 DEF ReadString, Here
  <2> QED BY <2>1, <2>4 DEF Failed
<1> QED
  BY <1>2, <1>3

\* What an item, and the items behind it, make of the loop of readList.
LEMMA ItemsAt ==
  ASSUME NEW b \in Seq(STRING), NEW o \in 0 .. Len(b), ~Finished(b, o), ~At(b, o, "e")
  PROVE  LET item == ElementAt(b, o)
             rest == Deepest(b).items[Scanner(item)]
             r    == Deepest(b).items[Here(o)]
         IN  /\ item.status # "ok" => r = item
             /\ item.status = "ok" /\ rest.status # "ok" => r = rest
             /\ item.status = "ok" /\ rest.status = "ok" =>
                  r = Read(<< item.val >> \o rest.val, rest.start, rest.cur)
<1> DEFINE item == Deepest(b).next[[start |-> Here(o).cur, cur |-> Here(o).cur]]
           rest == Deepest(b).items[Scanner(item)]
           r    == ReadItems(b, Here(o), Deepest(b))
<1>1. /\ item = ElementAt(b, o) /\ r = Deepest(b).items[Here(o)] /\ Here(o).cur = o
  BY DeepestReads DEF Here
<1>2. r = IF item.status = "ok"
          THEN IF rest.status = "ok"
               THEN Read(<< item.val >> \o rest.val, rest.start, rest.cur) ELSE rest
          ELSE item
  BY <1>1, ItemsCases
<1> HIDE DEF item, r
<1> QED
  BY <1>1, <1>2

LEMMA ItemBack ==
  ASSUME NEW b \in Seq(STRING), NEW o \in 0 .. Len(b), NEW p, NEW end, NEW v, NEW vs,
         ElementAt(b, o) = Read(v, p, p), Deepest(b).items[Here(p)] = Read(vs, end, end)
  PROVE  Deepest(b).items[Here(o)] = Read(<< v >> \o vs, end, end)
<1>1. \A x, i : /\ Read(x, i, i).status = "ok" /\ Read(x, i, i).val = x
                /\ Read(x, i, i).start = i /\ Read(x, i, i).cur = i
                /\ Scanner(Read(x, i, i)) = Here(i)
  BY DEF Read, Scanner, Here
<1>2. ~Finished(b, o) /\ ~At(b, o, "e")
  BY <1>1, NoElementAtEnd
<1> QED
  BY <1>1, <1>2, ItemsAt

LEMMA EntryBack ==
  ASSUME NEW b \in Seq(STRING), NEW o, NEW k \in Seq(Units), 10 * Len(k) < Half,
         PartOf(b, o, EncodeString(k)), NEW p, p = o + Len(EncodeString(k)),
         NEW q, NEW end, NEW v, NEW f,
         ElementAt(b, p) = Read(v, q, q), Deepest(b).entries[Here(q)] = Read(f, end, end)
  PROVE  Deepest(b).entries[Here(o)] = Read(Entry(k, v, f), end, end)
<1> DEFINE key  == Read(StringElement(k), p, p)
           item == Read(v, q, q)
           rest == Read(f, end, end)
<1>1. /\ key.status = "ok" /\ key.val.s = k /\ Scanner(key) = Here(p)
      /\ item.status = "ok" /\ item.val = v /\ Scanner(item) = Here(q)
      /\ rest.status = "ok" /\ rest.val = f /\ rest.start = end /\ rest.cur = end
  BY DEF Read, StringElement, Scanner, Here
<1>2. ReadString(b, Here(o)) = key /\ \E c : IsDigit(c) /\ At(b, o, c)
  BY StringBack
<1>3. ~Finished(b, o) /\ ~At(b, o, "e")
  BY <1>2, NoDigit DEF At
<1>4. o \in 0 .. Len(b) /\ p \in 0 .. Len(b)
  <2>1. Len(EncodeString(k)) \in Nat
    BY StringShape
  <2> QED BY <2>1 DEF PartOf
<1>5. /\ Deepest(b).next[Scanner(key)] = item
      /\ Deepest(b).entries[Scanner(item)] = rest
      /\ Deepest(b).entries[Here(o)] = ReadEntries(b, Here(o), Deepest(b)) /\ Here(o).cur = o
  BY <1>1, <1>4, DeepestReads
<1> HIDE DEF key, item, rest
<1>6. Deepest(b).entries[Here(o)] = Read(Entry(key.val.s, item.val, rest.val), rest.start, rest.cur)
  BY <1>1, <1>2, <1>3, <1>5, EntriesCases, Zenon
<1> QED
  BY <1>1, <1>6

(***************************************************************************)
(* What is refused: a negative number, and all that holds one.             *)
(***************************************************************************)
LEMMA NegativeRefused ==
  ASSUME NEW b \in Seq(STRING), NEW o, NEW n \in Int, n < 0, PartOf(b, o, EncodeInt(n))
  PROVE  ElementAt(b, o).status = "error" /\ At(b, o, "i")
<1> DEFINE ds == Natural[-n]
           y  == << "-" >> \o ds
<1>1. ds \in Seq(Units) /\ -n \in Nat
  BY NaturalDigits
<1>2. EncodeInt(n) = Enclosed("i", y)
  <2>1. Itoa(n) = y
    BY DEF Itoa
  <2> QED BY <2>1, Zenon DEF EncodeInt
<1> HIDE DEF ds
<1>3. << "-" >> \in Seq(Units)
  BY OneUnit, UnitsType
<1>4. y \in Seq(Units)
  BY <1>1, <1>3, Joined
<1>5. /\ At(b, o, "i") /\ o \in 0 .. Len(b) /\ o + 1 \in 0 .. Len(b) /\ PartOf(b, o + 1, y)
  <2> HIDE DEF y
  <2>1. "i" \in Units
    BY UnitsType
  <2> QED BY <1>2, <1>4, <2>1, EnclosedShape
<1>6. PartOf(b, o + 1, << "-" >>)
  BY <1>1, <1>3, <1>5, PartsOf
<1>7. At(b, o + 1, "-")
  BY <1>6, UnitAt
<1>8. Number(b, o + 1).cur = o + 1
  <2> DEFINE p   == o + 1
             end == DigitsEnd(b, p)
  <2>1. p \in 0 .. Len(b) /\ At(b, p, "-")
    BY <1>5, <1>7
  <2> HIDE DEF p
  <2>2. /\ end \in p .. Len(b) /\ Len(b) \in Nat /\ Number(b, p).cur = end
        /\ \A i \in p + 1 .. end : IsDigit(b[i])
    BY <2>1, DigitsTaken, NumberType
  <2> HIDE DEF end
  <2>3. ~IsDigit(b[p + 1])
    BY <2>1, NoDigit DEF At
  <2>4. p + 1 \notin p + 1 .. end
    BY <2>2, <2>3
  <2>5. Number(b, p).cur = p
    BY <2>1, <2>2, <2>4
  <2> QED BY <2>5 DEF p
<1>9. ~At(b, o + 1, "e")
  BY <1>7 DEF At
<1>10. ElementAt(b, o) = ReadInt(b, Here(o))
  BY <1>5, DeepestReads, NextCases
<1>11. ReadInt(b, Here(o)) = Failed
  BY <1>8, <1>9 DEF ReadInt, ClosedInt, Here
<1> QED
  BY <1>5, <1>10, <1>11 DEF Failed

LEMMA EnclosedRefused ==
  ASSUME NEW b \in Seq(STRING), NEW o \in 0 .. Len(b)
  PROVE  /\ At(b, o, "l") /\ Deepest(b).items[Here(o + 1)].status = "error" =>
              ElementAt(b, o).status = "error"
         /\ At(b, o, "d") /\ Deepest(b).entries[Here(o + 1)].status = "error" =>
              ElementAt(b, o).status = "error"
<1>1. Inside(Here(o)) = Here(o + 1) /\ Here(o).cur = o
  BY DEF Inside, Here
<1>2. ElementAt(b, o) = ReadNext(b, Here(o), Deepest(b))
  BY DeepestReads
<1> QED
  BY <1>1, <1>2, NextCases

LEMMA ItemRefused ==
  ASSUME NEW b \in Seq(STRING), NEW o \in 0 .. Len(b), ~Finished(b, o), ~At(b, o, "e")
  PROVE  /\ ElementAt(b, o).status = "error" => Deepest(b).items[Here(o)].status = "error"
         /\ \A v, p : /\ ElementAt(b, o) = Read(v, p, p)
                      /\ Deepest(b).items[Here(p)].status = "error"
                      => Deepest(b).items[Here(o)].status = "error"
<1>1. ASSUME ElementAt(b, o).status = "error" PROVE Deepest(b).items[Here(o)].status = "error"
  BY <1>1, ItemsAt
<1>2. ASSUME NEW v, NEW p, ElementAt(b, o) = Read(v, p, p),
             Deepest(b).items[Here(p)].status = "error"
      PROVE  Deepest(b).items[Here(o)].status = "error"
  <2>1. ElementAt(b, o).status = "ok" /\ Scanner(ElementAt(b, o)) = Here(p)
    BY <1>2 DEF Read, Scanner, Here
  <2> QED
    BY <1>2, <2>1, ItemsAt
<1> QED
  BY <1>1, <1>2

LEMMA EntryRefused ==
  ASSUME NEW b \in Seq(STRING), NEW o, NEW k \in Seq(Units), 10 * Len(k) < Half,
         PartOf(b, o, EncodeString(k)), NEW p, p = o + Len(EncodeString(k))
  PROVE  /\ ElementAt(b, p).status = "error" => Deepest(b).entries[Here(o)].status = "error"
         /\ \A v, q : /\ ElementAt(b, p) = Read(v, q, q)
                      /\ Deepest(b).entries[Here(q)].status = "error"
                      => Deepest(b).entries[Here(o)].status = "error"
<1> DEFINE key  == Read(StringElement(k), p, p)
           item == ElementAt(b, p)
<1>1. key.status = "ok" /\ key.val.s = k /\ Scanner(key) = Here(p)
  BY DEF Read, StringElement, Scanner, Here
<1>2. ReadString(b, Here(o)) = key /\ \E c : IsDigit(c) /\ At(b, o, c)
  BY StringBack
<1>3. ~Finished(b, o) /\ ~At(b, o, "e")
  BY <1>2, NoDigit DEF At
<1>4. o \in 0 .. Len(b) /\ p \in 0 .. Len(b)
  <2>1. Len(EncodeString(k)) \in Nat
    BY StringShape
  <2> QED BY <2>1 DEF PartOf
<1>5. /\ Deepest(b).next[Scanner(key)] = item
      /\ Deepest(b).entries[Here(o)] = ReadEntries(b, Here(o), Deepest(b)) /\ Here(o).cur = o
  BY <1>1, <1>4, DeepestReads
<1> HIDE DEF key, item
<1>6. ASSUME item.status = "error" PROVE Deepest(b).entries[Here(o)].status = "error"
  BY <1>1, <1>2, <1>3, <1>5, <1>6, EntriesCases
<1>7. ASSUME NEW v, NEW q, item = Read(v, q, q), Deepest(b).entries[Here(q)].status = "error"
      PROVE  Deepest(b).entries[Here(o)].status = "error"
  <2>1. item.status = "ok" /\ Scanner(item) = Here(q)
    BY <1>7 DEF Read, Scanner, Here
  <2> QED
    BY <1>1, <1>2, <1>3, <1>5, <1>7, <2>1, EntriesCases
<1> QED
  BY <1>6, <1>7 DEF item

(***************************************************************************)
(* The calls of Encode.  A call c writes c.bytes for what c.as says: an    *)
(* element, or the items of a list or the entries of a dictionary from     *)
(* some place on.  c.of is what reading the bytes should give, c.fine that *)
(* there is no negative number in it.  W are all the calls of a run, so    *)
(* those that a call has made are in it.                                   *)
(***************************************************************************)
WritesElement(W, c) ==
  \/ \E s \in Seq(Units) :
       /\ 10 * Len(s) < Half
       /\ c.fine /\ c.of = StringElement(s) /\ c.bytes = EncodeString(s)
  \/ \E n \in Int :
       /\ 10 * n < Half
       /\ c.fine <=> n >= 0
       /\ c.of = IntElement(n) /\ c.bytes = EncodeInt(n)
  \/ \E x \in W :
       /\ x.as = "items" /\ (c.fine <=> x.fine)
       /\ c.bytes = Enclosed("l", x.bytes) /\ c.of = ListElement(x.of, c.bytes)
  \/ \E x \in W :
       /\ x.as = "entries" /\ (c.fine <=> x.fine)
       /\ c.bytes = Enclosed("d", x.bytes) /\ c.of = DictElement(x.of, c.bytes)

WritesItems(W, c) ==
  \/ c.fine /\ c.of = << >> /\ c.bytes = << >>
  \/ \E x, y \in W :
       /\ x.as = "element" /\ y.as = "items" /\ (c.fine <=> x.fine /\ y.fine)
       /\ c.of = << x.of >> \o y.of /\ c.bytes = x.bytes \o y.bytes

WritesEntries(W, c) ==
  \/ c.fine /\ c.of = [k \in {} |-> Failed] /\ c.bytes = << >>
  \/ \E k \in Seq(Units) : \E x, y \in W :
       /\ 10 * Len(k) < Half
       /\ x.as = "element" /\ y.as = "entries" /\ (c.fine <=> x.fine /\ y.fine)
       /\ c.of = Entry(k, x.of, y.of) /\ c.bytes = (EncodeString(k) \o x.bytes) \o y.bytes

CallsOfEncode(W) ==
  \A c \in W :
    /\ c.bytes \in Seq(Units)
    /\ \/ c.as = "element" /\ WritesElement(W, c)
       \/ c.as = "items"   /\ WritesItems(W, c)
       \/ c.as = "entries" /\ WritesEntries(W, c)

\* x are the units of b between the first o and the first end.
Spans(b, o, end, x) == PartOf(b, o, x) /\ end = o + Len(x)

\* What reading the bytes of a call gives, wherever they stand.
ElementRead(c) ==
  \A b \in Seq(STRING) : \A o, end : Spans(b, o, end, c.bytes) =>
    /\ c.fine => ElementAt(b, o) = Read(c.of, end, end)
    /\ ~c.fine => /\ ElementAt(b, o).status = "error"
                  /\ \E x \in {"l", "d", "i"} : At(b, o, x)

ItemsRead(c) ==
  \A b \in Seq(STRING) : \A o, end : Spans(b, o, end, c.bytes) /\ At(b, end, "e") =>
    /\ c.fine => Deepest(b).items[Here(o)] = Read(c.of, end + 1, end + 1)
    /\ ~c.fine => Deepest(b).items[Here(o)].status = "error"

EntriesRead(c) ==
  \A b \in Seq(STRING) : \A o, end : Spans(b, o, end, c.bytes) /\ At(b, end, "e") =>
    /\ c.fine => Deepest(b).entries[Here(o)] = Read(c.of, end + 1, end + 1)
    /\ ~c.fine => Deepest(b).entries[Here(o)].status = "error"

LEMMA SpansJoined ==
  ASSUME NEW b \in Seq(STRING), NEW o, NEW end, NEW x \in Seq(Units), NEW y \in Seq(Units),
         Spans(b, o, end, x \o y)
  PROVE  /\ o \in 0 .. Len(b)
         /\ \E p \in 0 .. Len(b) : Spans(b, o, p, x) /\ Spans(b, p, end, y)
<1> DEFINE z == x \o y
           p == o + Len(x)
<1>1. PartOf(b, o, x) /\ PartOf(b, p, y)
  BY PartsOf DEF Spans
<1>2. Len(x) \in Nat /\ Len(y) \in Nat /\ Len(z) = Len(x) + Len(y) /\ end = o + Len(z)
  BY Joined DEF Spans
<1>3. o \in 0 .. Len(b) /\ p \in 0 .. Len(b) /\ Len(b) \in Nat
  BY <1>1 DEF PartOf
<1> HIDE DEF z
<1>4. end = p + Len(y)
  BY <1>2, <1>3
<1> HIDE DEF p
<1> QED
  BY <1>1, <1>3, <1>4 DEF Spans, p

LEMMA SpansEnclosed ==
  ASSUME NEW b \in Seq(STRING), NEW o, NEW end, NEW c \in Units, NEW y \in Seq(Units),
         Spans(b, o, end, Enclosed(c, y))
  PROVE  /\ At(b, o, c) /\ o \in 0 .. Len(b)
         /\ PartOf(b, o, Enclosed(c, y)) /\ end = o + Len(Enclosed(c, y))
         /\ \E p : Spans(b, o + 1, p, y) /\ At(b, p, "e") /\ p + 1 = end
<1>1. PartOf(b, o, Enclosed(c, y)) /\ end = o + Len(Enclosed(c, y))
  BY Zenon DEF Spans
<1>2. Len(Enclosed(c, y)) = Len(y) + 2 /\ Len(y) \in Nat
  BY EnclosedLength
<1>3. /\ At(b, o, c) /\ o \in 0 .. Len(b) /\ o \in Nat /\ PartOf(b, o + 1, y)
      /\ At(b, o + 1 + Len(y), "e")
  BY <1>1, EnclosedShape
<1>4. (o + 1 + Len(y)) + 1 = end
  BY <1>1, <1>2, <1>3
<1>5. Spans(b, o + 1, o + 1 + Len(y), y)
  BY <1>3, Zenon DEF Spans
<1>6. \E p : Spans(b, o + 1, p, y) /\ At(b, p, "e") /\ p + 1 = end
  BY <1>3, <1>4, <1>5, Zenon
<1> QED
  BY <1>1, <1>3, <1>6, Zenon

LEMMA ListRead ==
  ASSUME NEW c, NEW x, x.bytes \in Seq(Units), ItemsRead(x), c.fine <=> x.fine,
         c.bytes = Enclosed("l", x.bytes), c.of = ListElement(x.of, c.bytes)
  PROVE  ElementRead(c)
<1> SUFFICES ASSUME NEW b \in Seq(STRING), NEW o, NEW end, Spans(b, o, end, c.bytes)
             PROVE  /\ c.fine => ElementAt(b, o) = Read(c.of, end, end)
                    /\ ~c.fine => /\ ElementAt(b, o).status = "error"
                                  /\ \E u \in {"l", "d", "i"} : At(b, o, u)
  BY Zenon DEF ElementRead
<1>1. "l" \in Units /\ Spans(b, o, end, Enclosed("l", x.bytes))
  BY UnitsType
<1>2. /\ At(b, o, "l") /\ o \in 0 .. Len(b)
      /\ PartOf(b, o, Enclosed("l", x.bytes)) /\ end = o + Len(Enclosed("l", x.bytes))
      /\ \E p : Spans(b, o + 1, p, x.bytes) /\ At(b, p, "e") /\ p + 1 = end
  BY <1>1, SpansEnclosed
<1>3. /\ x.fine => Deepest(b).items[Here(o + 1)] = Read(x.of, end, end)
      /\ ~x.fine => Deepest(b).items[Here(o + 1)].status = "error"
  BY <1>2, Zenon DEF ItemsRead
<1>4. ASSUME c.fine PROVE ElementAt(b, o) = Read(c.of, end, end)
  <2>1. Deepest(b).items[Here(o + 1)] = Read(x.of, end, end)
    BY <1>3, <1>4
  <2>2. ElementAt(b, o) = Read(ListElement(x.of, Enclosed("l", x.bytes)), end, end)
    BY <1>2, <2>1, ListBack
  <2> QED BY <2>2, Zenon
<1>5. ASSUME ~c.fine PROVE ElementAt(b, o).status = "error"
  BY <1>2, <1>3, <1>5, EnclosedRefused, Zenon
<1> QED
  BY <1>2, <1>4, <1>5

LEMMA DictRead ==
  ASSUME NEW c, NEW x, x.bytes \in Seq(Units), EntriesRead(x), c.fine <=> x.fine,
         c.bytes = Enclosed("d", x.bytes), c.of = DictElement(x.of, c.bytes)
  PROVE  ElementRead(c)
<1> SUFFICES ASSUME NEW b \in Seq(STRING), NEW o, NEW end, Spans(b, o, end, c.bytes)
             PROVE  /\ c.fine => ElementAt(b, o) = Read(c.of, end, end)
                    /\ ~c.fine => /\ ElementAt(b, o).status = "error"
                                  /\ \E u \in {"l", "d", "i"} : At(b, o, u)
  BY Zenon DEF ElementRead
<1>1. "d" \in Units /\ Spans(b, o, end, Enclosed("d", x.bytes))
  BY UnitsType
<1>2. /\ At(b, o, "d") /\ o \in 0 .. Len(b)
      /\ PartOf(b, o, Enclosed("d", x.bytes)) /\ end = o + Len(Enclosed("d", x.bytes))
      /\ \E p : Spans(b, o + 1, p, x.bytes) /\ At(b, p, "e") /\ p + 1 = end
  BY <1>1, SpansEnclosed
<1>3. /\ x.fine => Deepest(b).entries[Here(o + 1)] = Read(x.of, end, end)
      /\ ~x.fine => Deepest(b).entries[Here(o + 1)].status = "error"
  BY <1>2, Zenon DEF EntriesRead
<1>4. ASSUME c.fine PROVE ElementAt(b, o) = Read(c.of, end, end)
  <2>1. Deepest(b).entries[Here(o + 1)] = Read(x.of, end, end)
    BY <1>3, <1>4
  <2>2. ElementAt(b, o) = Read(DictElement(x.of, Enclosed("d", x.bytes)), end, end)
    BY <1>2, <2>1, DictBack
  <2> QED BY <2>2, Zenon
<1>5. ASSUME ~c.fine PROVE ElementAt(b, o).status = "error"
  BY <1>2, <1>3, <1>5, EnclosedRefused, Zenon
<1> QED
  BY <1>2, <1>4, <1>5

LEMMA ItemRead ==
  ASSUME NEW c, NEW x, NEW y, x.bytes \in Seq(Units), y.bytes \in Seq(Units),
         ElementRead(x), ItemsRead(y), c.fine <=> x.fine /\ y.fine,
         c.of = << x.of >> \o y.of, c.bytes = x.bytes \o y.bytes
  PROVE  ItemsRead(c)
<1> SUFFICES ASSUME NEW b \in Seq(STRING), NEW o, NEW end, Spans(b, o, end, c.bytes),
                    At(b, end, "e")
             PROVE  /\ c.fine => Deepest(b).items[Here(o)] = Read(c.of, end + 1, end + 1)
                    /\ ~c.fine => Deepest(b).items[Here(o)].status = "error"
  BY Zenon DEF ItemsRead
<1>1. PICK p \in 0 .. Len(b) : Spans(b, o, p, x.bytes) /\ Spans(b, p, end, y.bytes)
  BY SpansJoined, Zenon
<1>2. o \in 0 .. Len(b)
  BY SpansJoined, Zenon
<1>3. /\ x.fine => ElementAt(b, o) = Read(x.of, p, p)
      /\ ~x.fine => /\ ElementAt(b, o).status = "error"
                    /\ \E u \in {"l", "d", "i"} : At(b, o, u)
  BY <1>1, Zenon DEF ElementRead
<1>4. /\ y.fine => Deepest(b).items[Here(p)] = Read(y.of, end + 1, end + 1)
      /\ ~y.fine => Deepest(b).items[Here(p)].status = "error"
  BY <1>1, Zenon DEF ItemsRead
<1>5. ~Finished(b, o) /\ ~At(b, o, "e")
  <2>1. CASE x.fine
    <3>1. ElementAt(b, o).status = "ok"
      BY <1>3, <2>1 DEF Read
    <3> QED BY <1>2, <3>1, NoElementAtEnd
  <2>2. CASE ~x.fine
    BY <1>3, <2>2 DEF At
  <2> QED BY <2>1, <2>2
<1>6. ASSUME c.fine PROVE Deepest(b).items[Here(o)] = Read(c.of, end + 1, end + 1)
  <2>1. /\ ElementAt(b, o) = Read(x.of, p, p)
        /\ Deepest(b).items[Here(p)] = Read(y.of, end + 1, end + 1)
    BY <1>3, <1>4, <1>6
  <2>2. Deepest(b).items[Here(o)] = Read(<< x.of >> \o y.of, end + 1, end + 1)
    BY <1>2, <2>1, ItemBack
  <2> QED BY <2>2, Zenon
<1>7. ASSUME ~c.fine PROVE Deepest(b).items[Here(o)].status = "error"
  <2>1. CASE ~x.fine
    BY <1>2, <1>3, <1>5, <2>1, ItemRefused, Zenon
  <2>2. CASE x.fine
    BY <1>2, <1>3, <1>4, <1>5, <1>7, <2>2, ItemRefused, Zenon
  <2> QED BY <2>1, <2>2
<1> QED
  BY <1>6, <1>7

LEMMA EntryRead ==
  ASSUME NEW c, NEW k \in Seq(Units), NEW x, NEW y, 10 * Len(k) < Half,
         x.bytes \in Seq(Units), y.bytes \in Seq(Units),
         ElementRead(x), EntriesRead(y), c.fine <=> x.fine /\ y.fine,
         c.of = Entry(k, x.of, y.of), c.bytes = (EncodeString(k) \o x.bytes) \o y.bytes
  PROVE  EntriesRead(c)
<1> SUFFICES ASSUME NEW b \in Seq(STRING), NEW o, NEW end, Spans(b, o, end, c.bytes),
                    At(b, end, "e")
             PROVE  /\ c.fine => Deepest(b).entries[Here(o)] = Read(c.of, end + 1, end + 1)
                    /\ ~c.fine => Deepest(b).entries[Here(o)].status = "error"
  BY Zenon DEF EntriesRead
<1>1. EncodeString(k) \in Seq(Units) /\ EncodeString(k) \o x.bytes \in Seq(Units)
  <2>1. EncodeString(k) \in Seq(Units)
    BY StringShape
  <2> QED BY <2>1, Joined, Zenon
<1>2. PICK q : Spans(b, o, q, EncodeString(k) \o x.bytes) /\ Spans(b, q, end, y.bytes)
  BY <1>1, SpansJoined, Zenon
<1>3. PICK p : Spans(b, o, p, EncodeString(k)) /\ Spans(b, p, q, x.bytes)
  BY <1>1, <1>2, SpansJoined, Zenon
<1>4. PartOf(b, o, EncodeString(k)) /\ p = o + Len(EncodeString(k))
  BY <1>3, Zenon DEF Spans
<1>5. /\ x.fine => ElementAt(b, p) = Read(x.of, q, q)
      /\ ~x.fine => ElementAt(b, p).status = "error"
  BY <1>3, Zenon DEF ElementRead
<1>6. /\ y.fine => Deepest(b).entries[Here(q)] = Read(y.of, end + 1, end + 1)
      /\ ~y.fine => Deepest(b).entries[Here(q)].status = "error"
  BY <1>2, Zenon DEF EntriesRead
<1>7. ASSUME c.fine PROVE Deepest(b).entries[Here(o)] = Read(c.of, end + 1, end + 1)
  <2>1. /\ ElementAt(b, p) = Read(x.of, q, q)
        /\ Deepest(b).entries[Here(q)] = Read(y.of, end + 1, end + 1)
    BY <1>5, <1>6, <1>7
  <2>2. Deepest(b).entries[Here(o)] = Read(Entry(k, x.of, y.of), end + 1, end + 1)
    BY <1>4, <2>1, EntryBack
  <2> QED BY <2>2, Zenon
<1>8. ASSUME ~c.fine PROVE Deepest(b).entries[Here(o)].status = "error"
  <2>1. CASE ~x.fine
    BY <1>4, <1>5, <2>1, EntryRefused, Zenon
  <2>2. CASE x.fine
    BY <1>4, <1>5, <1>6, <1>8, <2>2, EntryRefused, Zenon
  <2> QED BY <2>1, <2>2
<1> QED
  BY <1>7, <1>8

LEMMA StringRead ==
  ASSUME NEW c, NEW s \in Seq(Units), 10 * Len(s) < Half, c.fine,
         c.of = StringElement(s), c.bytes = EncodeString(s)
  PROVE  ElementRead(c)
<1> SUFFICES ASSUME NEW b \in Seq(STRING), NEW o, NEW end, Spans(b, o, end, EncodeString(s))
             PROVE  ElementAt(b, o) = Read(StringElement(s), end, end)
  BY Zenon DEF ElementRead
<1>1. PartOf(b, o, EncodeString(s)) /\ end = o + Len(EncodeString(s))
  BY Zenon DEF Spans
<1> QED
  BY <1>1, StringElementBack

LEMMA IntRead ==
  ASSUME NEW c, NEW n \in Int, 10 * n < Half, c.fine <=> n >= 0,
         c.of = IntElement(n), c.bytes = EncodeInt(n)
  PROVE  ElementRead(c)
<1> SUFFICES ASSUME NEW b \in Seq(STRING), NEW o, NEW end, Spans(b, o, end, EncodeInt(n))
             PROVE  /\ n >= 0 => ElementAt(b, o) = Read(IntElement(n), end, end)
                    /\ ~(n >= 0) => ElementAt(b, o).status = "error" /\ At(b, o, "i")
  BY Zenon DEF ElementRead
<1>1. PartOf(b, o, EncodeInt(n)) /\ end = o + Len(EncodeInt(n))
  BY Zenon DEF Spans
<1>2. ASSUME n >= 0 PROVE ElementAt(b, o) = Read(IntElement(n), end, end)
  <2>1. n \in Nat
    BY <1>2
  <2> QED BY <1>1, <2>1, IntBack
<1>3. ASSUME ~(n >= 0) PROVE ElementAt(b, o).status = "error" /\ At(b, o, "i")
  <2>1. n < 0
    BY <1>3
  <2> QED BY <1>1, <2>1, NegativeRefused
<1> QED
  BY <1>2, <1>3

LEMMA NothingRead ==
  ASSUME NEW c, c.fine, c.bytes = << >>
  PROVE  /\ c.of = << >> => ItemsRead(c)
         /\ c.of = [k \in {} |-> Failed] => EntriesRead(c)
<1>1. ASSUME NEW b \in Seq(STRING), NEW o, NEW end, Spans(b, o, end, c.bytes), At(b, end, "e")
      PROVE  /\ Deepest(b).items[Here(o)] = Read(<< >>, end + 1, end + 1)
             /\ Deepest(b).entries[Here(o)] = Read([k \in {} |-> Failed], end + 1, end + 1)
  <2>1. o \in 0 .. Len(b) /\ end = o
    <3>1. Len(c.bytes) = 0 /\ Len(b) \in Nat
      OBVIOUS
    <3> QED BY <1>1, <3>1 DEF Spans, PartOf
  <2> QED BY <1>1, <2>1, NoneBack
<1> QED
  BY <1>1, Zenon DEF ItemsRead, EntriesRead

\* Every element takes some bytes.
LEMMA ElementBytes ==
  ASSUME NEW W, CallsOfEncode(W), NEW c \in W, c.as = "element"
  PROVE  Len(c.bytes) \in Nat \ {0}
<1>1. WritesElement(W, c) /\ \A x \in W : x.bytes \in Seq(Units)
  BY Zenon DEF CallsOfEncode
<1>2. ASSUME NEW s \in Seq(Units), c.bytes = EncodeString(s) PROVE Len(c.bytes) \in Nat \ {0}
  <2>1. PICK n \in Nat \ {0}, m \in Nat : Len(EncodeString(s)) = n + 1 + m
    BY StringShape
  <2> QED BY <1>2, <2>1
<1>3. ASSUME NEW n \in Int, c.bytes = EncodeInt(n) PROVE Len(c.bytes) \in Nat \ {0}
  <2>1. Itoa(n) \in Seq(Units)
    <3>1. CASE n < 0
      <4>1. Natural[-n] \in Seq(Units) /\ << "-" >> \in Seq(Units)
        <5>1. -n \in Nat
          BY <3>1
        <5> QED BY <5>1, NaturalDigits, OneUnit, UnitsType
      <4>2. Itoa(n) = << "-" >> \o Natural[-n]
        BY <3>1 DEF Itoa
      <4> QED BY <4>1, <4>2, JoinedUnits, Zenon
    <3>2. CASE ~(n < 0)
      <4>1. n \in Nat /\ Itoa(n) = Natural[n]
        BY <3>2 DEF Itoa
      <4> QED BY <4>1, NaturalDigits
    <3> QED BY <3>1, <3>2
  <2>2. c.bytes = Enclosed("i", Itoa(n)) /\ "i" \in Units
    BY <1>3, UnitsType DEF EncodeInt
  <2>3. PICK m \in Nat : Len(Enclosed("i", Itoa(n))) = m + 2
    BY <2>1, <2>2, EnclosedLength
  <2> QED BY <2>2, <2>3
<1>4. ASSUME NEW x \in W, NEW u \in Units, c.bytes = Enclosed(u, x.bytes)
      PROVE  Len(c.bytes) \in Nat \ {0}
  <2>1. PICK m \in Nat : Len(Enclosed(u, x.bytes)) = m + 2
    BY <1>1, EnclosedLength
  <2> QED BY <1>4, <2>1
<1>5. "l" \in Units /\ "d" \in Units
  BY UnitsType
<1> QED
  BY <1>1, <1>2, <1>3, <1>4, <1>5, Zenon DEF WritesElement

CallRead(c) ==
  /\ c.as = "element" => ElementRead(c)
  /\ c.as = "items"   => ItemsRead(c)
  /\ c.as = "entries" => EntriesRead(c)

\* A call and those that it makes have a measure that gets less: what a list encloses takes
\* fewer bytes, an item no more than the items it is one of.
Measure(c) == 2 * Len(c.bytes) + (IF c.as = "element" THEN 0 ELSE 1)

LEMMA PartsAreLess ==
  ASSUME NEW i \in Nat \ {0}, NEW j \in Nat, NEW k \in Nat, k >= i + j
  PROVE  2 * i + 0 < 2 * k + 1 /\ 2 * j + 1 < 2 * k + 1
OBVIOUS

LEMMA CallStep ==
  ASSUME NEW W, CallsOfEncode(W), NEW c \in W,
         \A x \in W : Measure(x) < Measure(c) => CallRead(x)
  PROVE  CallRead(c)
<1>1. \A x \in W : x.bytes \in Seq(Units) /\ Len(x.bytes) \in Nat
  BY DEF CallsOfEncode
<1>2. \A x \in W : Measure(x) = 2 * Len(x.bytes) + (IF x.as = "element" THEN 0 ELSE 1)
  BY Zenon DEF Measure
<1>3. ASSUME c.as = "element" PROVE ElementRead(c)
  <2>1. WritesElement(W, c)
    BY <1>3 DEF CallsOfEncode
  <2>2. ASSUME NEW x \in W, NEW u \in Units, x.as # "element", c.bytes = Enclosed(u, x.bytes)
        PROVE  CallRead(x)
    <3>1. Len(c.bytes) = Len(x.bytes) + 2 /\ Len(x.bytes) \in Nat
      BY <1>1, <2>2, EnclosedLength
    <3>2. Measure(x) = 2 * Len(x.bytes) + 1 /\ Measure(c) = 2 * Len(c.bytes) + 0
      BY <1>2, <1>3, <2>2, Zenon
    <3>3. Measure(x) < Measure(c)
      BY <3>1, <3>2
    <3> QED BY <3>3
  <2>3. "l" \in Units /\ "d" \in Units
    BY UnitsType
  <2>4. CASE \E s \in Seq(Units) :
               /\ 10 * Len(s) < Half
               /\ c.fine /\ c.of = StringElement(s) /\ c.bytes = EncodeString(s)
    BY <2>4, StringRead, Zenon
  <2>5. CASE \E n \in Int :
               /\ 10 * n < Half
               /\ c.fine <=> n >= 0
               /\ c.of = IntElement(n) /\ c.bytes = EncodeInt(n)
    BY <2>5, IntRead, Zenon
  <2>6. CASE \E x \in W :
               /\ x.as = "items" /\ (c.fine <=> x.fine)
               /\ c.bytes = Enclosed("l", x.bytes) /\ c.of = ListElement(x.of, c.bytes)
    <3>1. PICK x \in W :
            /\ x.as = "items" /\ (c.fine <=> x.fine)
            /\ c.bytes = Enclosed("l", x.bytes) /\ c.of = ListElement(x.of, c.bytes)
      BY <2>6, Zenon
    <3>2. x.as # "element"
      BY <3>1
    <3>3. ItemsRead(x)
      BY <2>2, <2>3, <3>1, <3>2, Zenon DEF CallRead
    <3> QED BY <1>1, <3>1, <3>3, ListRead, Zenon
  <2>7. CASE \E x \in W :
               /\ x.as = "entries" /\ (c.fine <=> x.fine)
               /\ c.bytes = Enclosed("d", x.bytes) /\ c.of = DictElement(x.of, c.bytes)
    <3>1. PICK x \in W :
            /\ x.as = "entries" /\ (c.fine <=> x.fine)
            /\ c.bytes = Enclosed("d", x.bytes) /\ c.of = DictElement(x.of, c.bytes)
      BY <2>7, Zenon
    <3>2. x.as # "element"
      BY <3>1
    <3>3. EntriesRead(x)
      BY <2>2, <2>3, <3>1, <3>2, Zenon DEF CallRead
    <3> QED BY <1>1, <3>1, <3>3, DictRead, Zenon
  <2> QED
    BY <2>1, <2>4, <2>5, <2>6, <2>7, Zenon DEF WritesElement
<1>4. ASSUME c.as # "element", NEW x \in W, NEW y \in W, x.as = "element", y.as # "element",
             Len(c.bytes) >= Len(x.bytes) + Len(y.bytes)
      PROVE  CallRead(x) /\ CallRead(y)
  <2>1. Len(x.bytes) \in Nat \ {0} /\ Len(y.bytes) \in Nat /\ Len(c.bytes) \in Nat
    BY <1>1, <1>4, ElementBytes
  <2>2. /\ Measure(x) = 2 * Len(x.bytes) + 0 /\ Measure(y) = 2 * Len(y.bytes) + 1
        /\ Measure(c) = 2 * Len(c.bytes) + 1
    BY <1>2, <1>4, Zenon
  <2>3. PICK i \in Nat \ {0}, j \in Nat, k \in Nat :
          i = Len(x.bytes) /\ j = Len(y.bytes) /\ k = Len(c.bytes) /\ k >= i + j
    BY <1>4, <2>1
  <2>4. Measure(x) = 2 * i + 0 /\ Measure(y) = 2 * j + 1 /\ Measure(c) = 2 * k + 1
    BY <2>2, <2>3, Zenon
  <2>5. 2 * i + 0 < 2 * k + 1 /\ 2 * j + 1 < 2 * k + 1
    BY <2>3, PartsAreLess, Zenon
  <2>6. Measure(x) < Measure(c) /\ Measure(y) < Measure(c)
    BY <2>4, <2>5, Zenon
  <2> QED BY <2>6
<1>5. ASSUME c.as = "items" PROVE ItemsRead(c)
  <2>1. WritesItems(W, c)
    BY <1>5 DEF CallsOfEncode
  <2>2. CASE c.fine /\ c.of = << >> /\ c.bytes = << >>
    BY <2>2, NothingRead, Zenon
  <2>3. CASE \E x, y \in W :
               /\ x.as = "element" /\ y.as = "items" /\ (c.fine <=> x.fine /\ y.fine)
               /\ c.of = << x.of >> \o y.of /\ c.bytes = x.bytes \o y.bytes
    <3>1. PICK x, y \in W :
            /\ x.as = "element" /\ y.as = "items" /\ (c.fine <=> x.fine /\ y.fine)
            /\ c.of = << x.of >> \o y.of /\ c.bytes = x.bytes \o y.bytes
      BY <2>3, Zenon
    <3>2. Len(x.bytes \o y.bytes) = Len(x.bytes) + Len(y.bytes)
      BY <1>1, JoinedUnits, Zenon
    <3>3. Len(c.bytes) >= Len(x.bytes) + Len(y.bytes)
      <4>1. Len(c.bytes) = Len(x.bytes) + Len(y.bytes)
        BY <3>1, <3>2, Zenon
      <4>2. Len(x.bytes) \in Nat /\ Len(y.bytes) \in Nat
        BY <1>1
      <4> QED BY <4>1, <4>2
    <3>4. c.as # "element" /\ y.as # "element"
      BY <1>5, <3>1
    <3>5. ElementRead(x) /\ ItemsRead(y)
      BY <1>4, <3>1, <3>3, <3>4, Zenon DEF CallRead
    <3> QED BY <1>1, <3>1, <3>5, ItemRead, Zenon
  <2> QED
    BY <2>1, <2>2, <2>3, Zenon DEF WritesItems
<1>6. ASSUME c.as = "entries" PROVE EntriesRead(c)
  <2>1. WritesEntries(W, c)
    BY <1>6 DEF CallsOfEncode
  <2>2. CASE c.fine /\ c.of = [k \in {} |-> Failed] /\ c.bytes = << >>
    BY <2>2, NothingRead, Zenon
  <2>3. CASE \E k \in Seq(Units) : \E x, y \in W :
               /\ 10 * Len(k) < Half
               /\ x.as = "element" /\ y.as = "entries" /\ (c.fine <=> x.fine /\ y.fine)
               /\ c.of = Entry(k, x.of, y.of)
               /\ c.bytes = (EncodeString(k) \o x.bytes) \o y.bytes
    <3>1. PICK k \in Seq(Units), x \in W, y \in W :
            /\ 10 * Len(k) < Half
            /\ x.as = "element" /\ y.as = "entries" /\ (c.fine <=> x.fine /\ y.fine)
            /\ c.of = Entry(k, x.of, y.of)
            /\ c.bytes = (EncodeString(k) \o x.bytes) \o y.bytes
      BY <2>3, Zenon
    <3> DEFINE z  == EncodeString(k)
               zx == z \o x.bytes
    <3>2. z \in Seq(Units)
      BY StringShape
    <3> HIDE DEF z
    <3>3. zx \in Seq(Units) /\ Len(zx) = Len(z) + Len(x.bytes)
      BY <1>1, <3>2, JoinedUnits, Zenon
    <3>4. c.bytes = zx \o y.bytes
      BY <3>1, Zenon DEF z
    <3> HIDE DEF zx
    <3>5. Len(zx \o y.bytes) = Len(zx) + Len(y.bytes)
      BY <1>1, <3>3, JoinedUnits, Zenon
    <3>6. Len(c.bytes) >= Len(x.bytes) + Len(y.bytes)
      <4>1. Len(c.bytes) = (Len(z) + Len(x.bytes)) + Len(y.bytes)
        BY <3>3, <3>4, <3>5, Zenon
      <4>2. Len(x.bytes) \in Nat /\ Len(y.bytes) \in Nat /\ Len(z) \in Nat
        BY <1>1, <3>2
      <4> QED BY <4>1, <4>2
    <3>7. c.as # "element" /\ y.as # "element"
      BY <1>6, <3>1
    <3>8. ElementRead(x) /\ EntriesRead(y)
      BY <1>4, <3>1, <3>6, <3>7, Zenon DEF CallRead
    <3> QED BY <1>1, <3>1, <3>8, EntryRead, Zenon
  <2> QED
    BY <2>1, <2>2, <2>3, Zenon DEF WritesEntries
<1> QED
  BY <1>3, <1>5, <1>6, Zenon DEF CallRead

LEMMA CallsRead ==
  ASSUME NEW W, CallsOfEncode(W)
  PROVE  \A c \in W : CallRead(c)
<1> DEFINE S == {n \in Nat : \A c \in W : Measure(c) <= n => CallRead(c)}
<1>1. \A c \in W : Measure(c) \in Nat
  <2> TAKE c \in W
  <2>1. PICK n \in Nat : n = Len(c.bytes)
    BY DEF CallsOfEncode
  <2>2. Measure(c) = 2 * n + 0 \/ Measure(c) = 2 * n + 1
    BY <2>1, Zenon DEF Measure
  <2> QED BY <2>2
<1>2. 0 \in S
  <2> SUFFICES ASSUME NEW c \in W, Measure(c) <= 0 PROVE CallRead(c)
    OBVIOUS
  <2>1. \A x \in W : ~(Measure(x) < Measure(c))
    BY <1>1
  <2> QED BY <2>1, CallStep
<1>3. ASSUME NEW n \in Nat, n \in S PROVE n + 1 \in S
  <2> SUFFICES ASSUME NEW c \in W, Measure(c) <= n + 1 PROVE CallRead(c)
    BY <1>3
  <2>1. \A x \in W : Measure(x) < Measure(c) => Measure(x) <= n
    BY <1>1
  <2>2. \A x \in W : Measure(x) < Measure(c) => CallRead(x)
    BY <1>3, <2>1
  <2> QED BY <2>2, CallStep
<1>4. Nat \subseteq S
  <2> HIDE DEF S
  <2> QED BY <1>2, <1>3, SetInduction
<1> QED
  <2> TAKE c \in W
  <2>1. Measure(c) \in Nat /\ Measure(c) <= Measure(c)
    BY <1>1
  <2> QED BY <1>4, <2>1

(***************************************************************************)
(* Numbers that are read alone.                                            *)
(***************************************************************************)
\* The outermost read is that of the element the bytes begin with.
LEMMA ParseIs ==
  ASSUME NEW b \in Seq(STRING), b # << >>
  PROVE  \E read : Parse(b) = ReadNext(b, [start |-> 0, cur |-> 0], read)
<1> DEFINE n == 2 * Len(b) + 1
           s == [start |-> 0, cur |-> 0]
<1>1. n \in 0 .. 2 * Len(b) + 1 /\ n + 1 = 2 * Len(b) + 2 /\ s \in Scanners(b) /\ Len(b) \in Nat
  BY DEF Scanners
<1>2. Parse(b) = Reads(b)[n + 1].next[s]
  BY <1>1 DEF Parse, ElementAt
<1> HIDE DEF n
<1>3. Parse(b) = ReadNext(b, s, Reads(b)[n])
  BY <1>1, <1>2, ReadsNext
<1> QED
  BY <1>3

LEMMA NumberAlone ==
  ASSUME NEW b \in Seq(STRING), Len(b) > 2, b[1] = "i", b[Len(b)] = "e",
         \A i \in 2 .. Len(b) - 1 : IsDigit(b[i]), ~HasLongNumber(b)
  PROVE  /\ Parse(b).status = "ok"
         /\ Parse(b).val.n = Numeral(SubSeq(b, 2, Len(b) - 1), 10)
<1> DEFINE n   == Len(b)
           s   == [start |-> 0, cur |-> 0]
           num == Number(b, 1)
<1>1. n \in Nat /\ n > 2 /\ b # << >> /\ 1 \in 0 .. n /\ 0 + 1 = 1
  OBVIOUS
<1>2. DigitsEnd(b, 1) = n - 1
  <2> DEFINE end == DigitsEnd(b, 1)
  <2>1. /\ end \in 1 .. n
        /\ \A i \in 2 .. end : IsDigit(b[i])
        /\ end < n => ~IsDigit(b[end + 1])
    BY <1>1, DigitsEndIs DEF IsDigitsEnd, Finished
  <2> HIDE DEF end
  <2>2. end # n
    BY <1>1, <2>1, NoDigit
  <2>3. ~(end < n - 1)
    <3> SUFFICES ASSUME end < n - 1 PROVE FALSE
      OBVIOUS
    <3>1. end + 1 \in 2 .. n - 1
      BY <1>1, <2>1
    <3> QED BY <2>1, <3>1
  <2>4. end = n - 1
    BY <1>1, <2>1, <2>2, <2>3
  <2> QED BY <2>4 DEF end
<1>3. num.cur = n - 1 /\ num.n = Numeral(SubSeq(b, 2, n - 1), 10)
  BY <1>1, <1>2, NumberType, NumberExact
<1>4. At(b, num.cur, "e")
  BY <1>1, <1>3 DEF At, Finished
<1>5. PICK read : Parse(b) = ReadNext(b, s, read)
  BY <1>1, ParseIs
<1>6. At(b, s.cur, "i") /\ ~At(b, s.cur, "l") /\ ~At(b, s.cur, "d")
  BY <1>1 DEF At, Finished
<1>7. Parse(b) = ReadInt(b, s)
  BY <1>5, <1>6 DEF ReadNext
<1>8. ReadInt(b, s) = ClosedInt(b, num, num.cur + 1)
  BY DEF ReadInt
<1> HIDE DEF num, s
<1>9. Parse(b) = Read(IntElement(num.n), num.cur + 1, num.cur + 1)
  BY <1>4, <1>7, <1>8 DEF ClosedInt
<1> QED
  BY <1>3, <1>9 DEF Read, IntElement

(***************************************************************************)
(* The bytes behind a key.                                                 *)
(***************************************************************************)
LEMMA KeyedBytes ==
  ASSUME NEW b \in Seq(STRING), NEW k, NEW v, v.kind = "dict", Keyed(b, << k >>, v)
  PROVE  LET entry == << ":", k >> \o v.raw
         IN  \E i \in 1 .. Len(b) - Len(entry) + 1 :
               SubSeq(b, i, i + Len(entry) - 1) = entry
<1>1. PICK p \in 1 .. Len(b) : \E q \in p .. Len(b) : \E j \in 0 .. Len(b) :
        b[p] = ":" /\ << k >> = SubSeq(b, p + 1, q) /\ v.raw = SubSeq(b, q + 1, j)
  BY DEF Keyed
<1>2. PICK q \in p .. Len(b) : \E j \in 0 .. Len(b) :
        b[p] = ":" /\ << k >> = SubSeq(b, p + 1, q) /\ v.raw = SubSeq(b, q + 1, j)
  BY <1>1
<1>3. PICK j \in 0 .. Len(b) :
        b[p] = ":" /\ << k >> = SubSeq(b, p + 1, q) /\ v.raw = SubSeq(b, q + 1, j)
  BY <1>2
<1> DEFINE n     == Len(b)
           raw   == SubSeq(b, q + 1, j)
           entry == << ":", k >> \o raw
           m     == IF j < q THEN 0 ELSE j - q
<1>4. n \in Nat /\ p \in 1 .. n /\ q \in p .. n /\ j \in 0 .. n
  OBVIOUS
<1>5. q = p + 1 /\ b[p + 1] = k /\ ":" \in STRING /\ k \in STRING
  <2>1. Len(SubSeq(b, p + 1, q)) = q - p
    BY <1>4
  <2>2. Len(<< k >>) = 1
    OBVIOUS
  <2>3. q = p + 1
    BY <1>3, <1>4, <2>1, <2>2
  <2>4. \A i \in 1 .. q - p : SubSeq(b, p + 1, q)[i] = b[p + i]
    BY <1>4
  <2>5. SubSeq(b, p + 1, q)[1] = b[p + 1]
    BY <1>4, <2>3, <2>4
  <2>6. p + 1 \in 1 .. n /\ b[p] \in STRING /\ b[p + 1] \in STRING
    BY <1>4, <2>3
  <2> QED BY <1>3, <2>3, <2>5, <2>6
<1>6. /\ raw \in Seq(STRING) /\ Len(raw) = m /\ m \in Nat /\ q + m \in q .. n
      /\ \A i \in 1 .. m : raw[i] = b[q + i]
  BY <1>4
<1> HIDE DEF n, raw, m
<1>7. /\ entry \in Seq(STRING) /\ Len(entry) = m + 2
      /\ entry[1] = ":" /\ entry[2] = k
      /\ \A i \in 1 .. m : entry[i + 2] = raw[i]
  <2> DEFINE head == << ":", k >>
  <2>1. head \in Seq(STRING) /\ Len(head) = 2 /\ head[1] = ":" /\ head[2] = k
    BY <1>5
  <2> HIDE DEF head
  <2>2. /\ head \o raw \in Seq(STRING) /\ Len(head \o raw) = m + 2
        /\ \A i \in 1 .. m + 2 :
             (head \o raw)[i] = IF i <= 2 THEN head[i] ELSE raw[i - 2]
    <3>1. /\ head \o raw \in Seq(STRING)
          /\ Len(head \o raw) = Len(head) + Len(raw)
          /\ \A i \in 1 .. Len(head) + Len(raw) :
               (head \o raw)[i] = IF i <= Len(head) THEN head[i] ELSE raw[i - Len(head)]
      BY <1>6, <2>1, ConcatProperties
    <3>2. Len(head) = 2 /\ Len(raw) = m /\ 2 + m = m + 2
      BY <1>6, <2>1
    <3> QED BY <3>1, <3>2
  <2> DEFINE all == head \o raw
  <2> HIDE DEF all
  <2>3. all[1] = ":" /\ all[2] = k
    BY <1>6, <2>1, <2>2 DEF all
  <2>4. ASSUME NEW i \in 1 .. m PROVE all[i + 2] = raw[i]
    <3>1. i + 2 \in 1 .. m + 2 /\ ~(i + 2 <= 2) /\ (i + 2) - 2 = i
      BY <1>6
    <3> QED BY <2>2, <3>1 DEF all
  <2> QED BY <2>2, <2>3, <2>4 DEF all, head
<1> HIDE DEF entry
<1>8. SubSeq(b, p, q + m) = entry
  <2> DEFINE part == SubSeq(b, p, q + m)
  <2>1. /\ part \in Seq(STRING) /\ Len(part) = m + 2
        /\ \A i \in 1 .. m + 2 : part[i] = b[p + i - 1]
    BY <1>4, <1>5, <1>6 DEF n
  <2> HIDE DEF part
  <2>2. ASSUME NEW i \in 1 .. m + 2 PROVE part[i] = entry[i]
    <3>1. CASE i = 1
      BY <1>3, <1>4, <1>7, <2>1, <3>1
    <3>2. CASE i = 2
      BY <1>4, <1>5, <1>7, <2>1, <3>2
    <3>3. CASE i > 2
      <4>1. i - 2 \in 1 .. m /\ (i - 2) + 2 = i /\ q + (i - 2) = p + i - 1
        BY <1>4, <1>5, <1>6, <3>3
      <4> QED
        BY <1>6, <1>7, <2>1, <4>1
    <3> QED
      BY <1>6, <3>1, <3>2, <3>3
  <2> QED
    BY <1>7, <2>1, <2>2 DEF part
<1>9. p + Len(entry) - 1 = q + m /\ p \in 1 .. n - Len(entry) + 1
  BY <1>4, <1>5, <1>6, <1>7
<1>10. v.raw = raw
  BY <1>3 DEF raw
<1> QED
  BY <1>8, <1>9, <1>10 DEF entry, n

(***************************************************************************)
(* Theorems.                                                               *)
(***************************************************************************)

\* Every variable keeps its type; in particular an interval, however it is written, ends
\* up an int.
THEOREM HttpTypeCorrect == Spec => []TypeOK
<1>1. Inv => TypeOK
  BY DEF Inv
<1> QED
  BY <1>1, Invariance, PTL

\* A number alone is read as what it says as long as its tenfold is an int, which the
\* loop of number() keeps it at.
THEOREM NumbersAreExact == Spec => []NumbersExact
<1>1. Inv => NumbersExact
  <2> SUFFICES ASSUME Inv, Len(bytes) > 2, bytes[1] = "i", bytes[Len(bytes)] = "e",
                      \A i \in DOMAIN SubSeq(bytes, 2, Len(bytes) - 1) :
                        IsDigit(SubSeq(bytes, 2, Len(bytes) - 1)[i]),
                      ~HasLongNumber(bytes)
               PROVE  /\ IsElement(Parse(bytes))
                      /\ Parse(bytes).val.n = Numeral(SubSeq(bytes, 2, Len(bytes) - 1), 10)
    BY Zenon DEF NumbersExact
  <2>1. bytes \in Seq(STRING) /\ bytes # << >>
    BY DEF Inv, TypeOK
  <2>2. ASSUME NEW i \in 2 .. Len(bytes) - 1 PROVE IsDigit(bytes[i])
    <3> DEFINE ds == SubSeq(bytes, 2, Len(bytes) - 1)
    <3>1. i - 1 \in DOMAIN ds /\ ds[i - 1] = bytes[i]
      BY <2>1
    <3> QED BY <3>1
  <2> QED
    BY <2>1, <2>2, NumberAlone DEF IsElement
<1> QED
  BY <1>1, Invariance, PTL

\* The info hash is made from bytes of the torrent file that follow its key there: those
\* of the dictionary that was read, not an encoding of what was read.
THEOREM InfoHashIsOfFile == Spec => []InfoHashOfFile
<1>1. Inv => InfoHashOfFile
  <2> SUFFICES ASSUME Inv, pc = "urls" PROVE InfoHashOfFile
    BY DEF InfoHashOfFile
  <2> DEFINE v == Parse(bytes).val
             k == << "info" >>
             x == v.value[k]
  <2>1. bytes \in Seq(STRING) /\ got = Unmarshal(bytes, Metainfo) /\ got.status = "ok"
    BY DEF Inv, TypeOK
  <2>2. /\ Parse(bytes).status = "ok" /\ v.kind = "dict" /\ k \in DOMAIN v.value
        /\ x.kind = "dict" /\ got.val.InfoDictRaw.elems = x.raw
    BY <2>1, MetainfoIs
  <2>3. Keyed(bytes, k, x)
    BY <2>1, <2>2, ParseGood
  <2> HIDE DEF v, x
  <2> DEFINE entry == << ":", "info" >> \o x.raw
  <2>4. \E i \in 1 .. Len(bytes) - Len(entry) + 1 :
          SubSeq(bytes, i, i + Len(entry) - 1) = entry
    <3>1. x.kind = "dict"
      BY <2>2
    <3> QED
      BY <2>1, <2>3, <3>1, KeyedBytes, Zenon
  <2> QED
    BY <2>2, <2>4 DEF InfoHashOfFile
<1> QED
  BY <1>1, Invariance, PTL

\* The raw bytes of a list or dictionary, from which the info hash and the compact forms are
\* taken, are its encoding and nothing more, at whatever depth and place it is read.
THEOREM RawBytesAreOwn == Spec => []RawIsOwnBytes
<1>1. Inv => RawIsOwnBytes
  <2> SUFFICES ASSUME Inv, NEW i \in 0 .. Len(bytes), ElementAt(bytes, i).status = "ok",
                      ElementAt(bytes, i).val.kind \in {"list", "dict"}
               PROVE  LET e == ElementAt(bytes, i)
                      IN  Parse(e.val.raw).status = "ok" /\ Parse(e.val.raw).val = e.val
    BY Zenon DEF RawIsOwnBytes
  <2>1. bytes \in Seq(STRING)
    BY DEF Inv, TypeOK
  <2> QED
    BY <2>1, RawParsed
<1> QED
  BY <1>1, Invariance, PTL

\* What Encode writes Parse reads back, raw bytes of lists and dictionaries included, if no
\* text or number is too long for number(); and nothing that holds a negative number.
THEOREM EncodedIsReadBack ==
  ASSUME NEW W, CallsOfEncode(W), NEW c \in W, c.as = "element", c.bytes \in Seq(STRING)
  PROVE  /\ c.fine => Parse(c.bytes).status = "ok" /\ Parse(c.bytes).val = c.of
         /\ ~c.fine => Parse(c.bytes).status = "error"
<1> DEFINE b == c.bytes
<1>1. Len(b) \in Nat \ {0} /\ b # << >>
  <2>1. Len(b) \in Nat \ {0}
    BY ElementBytes
  <2> QED BY <2>1
<1>2. ElementRead(c)
  BY CallsRead DEF CallRead
<1>3. Spans(b, 0, Len(b), b)
  BY <1>1 DEF Spans, PartOf
<1>4. Parse(b) = ElementAt(b, 0)
  BY <1>1 DEF Parse
<1>5. /\ c.fine => ElementAt(b, 0) = Read(c.of, Len(b), Len(b))
      /\ ~c.fine => ElementAt(b, 0).status = "error"
  BY <1>2, <1>3, Zenon DEF ElementRead
<1> HIDE DEF b
<1>6. /\ c.fine => Parse(b).status = "ok" /\ Parse(b).val = c.of
      /\ ~c.fine => Parse(b).status = "error"
  BY <1>4, <1>5 DEF Read
<1> QED
  BY <1>6, Zenon DEF b

\* Reading a torrent file, torrent.New and reading a response panic on no bytes but those that
\* are no dictionary, have a number that number() does not hold, or list a file without a path.
THEOREM PanicNeedsBadBytes == Spec => []PanicNeedsBadInput
<1>1. Inv => PanicNeedsBadInput
  <2> SUFFICES ASSUME Inv, crash PROVE PanicNeedsBadInput
    BY DEF PanicNeedsBadInput
  <2>1. bytes \in Seq(STRING) /\ (Panics(bytes) \/ CreatesNoPath(bytes))
    BY DEF Inv, TypeOK
  <2>2. bytes # << >> \/ Parse(bytes) = Failed
    BY DEF Parse
  <2> QED
    BY <2>1, <2>2, ParseGood DEF Panics, CreatesNoPath, PanicNeedsBadInput, IsElement, Failed
<1> QED
  BY <1>1, Invariance, PTL

\* Peers are accepted only from a list, so the compact form is refused whatever it says.
THEOREM CompactAlwaysRefused == Spec => []CompactRefused
<1>1. Inv => CompactRefused
  <2> SUFFICES ASSUME Inv, pc = "done", answer.status = "ok" PROVE CompactRefused
    BY DEF CompactRefused
  <2>1. /\ bytes \in Seq(STRING) /\ got = Unmarshal(bytes, AnnounceResponse)
        /\ got.status = "ok" /\ answer = Peers(got.val)
    BY DEF Inv, TypeOK
  <2>2. ~got.val.Peers.nil
    BY <2>1, ResponseIs, PeersIs DEF Refused
  <2> QED
    BY <2>1, <2>2, ResponseIs DEF CompactRefused
<1> QED
  BY <1>1, Invariance, PTL

\* An accepted list gives the Manager an address at the place of each of its entries: the
\* entry's own if it is valid, the zero address if it is not.
THEOREM AddressPerEntry == Spec => []OneAddressPerEntry
<1>1. Inv => OneAddressPerEntry
  <2> SUFFICES ASSUME Inv, pc = "done", answer.status = "ok" PROVE OneAddressPerEntry
    BY DEF OneAddressPerEntry
  <2> DEFINE ps == Parse(bytes).val.value[<< "peers" >>].items
             xs == got.val.Peers.elems
  <2>1. /\ bytes \in Seq(STRING) /\ got = Unmarshal(bytes, AnnounceResponse)
        /\ got.status = "ok" /\ answer = Peers(got.val)
    BY DEF Inv, TypeOK
  <2>2. ~got.val.Peers.nil /\ answer.addrs = ParseBencodePeers(xs)
    BY <2>1, ResponseIs, PeersIs DEF Refused
  <2>3. /\ DOMAIN xs = DOMAIN ps
        /\ \A i \in DOMAIN ps : /\ xs[i].Ip = String(ps[i].value[<< "ip" >>])
                                /\ xs[i].Port = String(ps[i].value[<< "port" >>])
    BY <2>1, <2>2, ResponseIs
  <2> HIDE DEF ps, xs
  <2>4. /\ DOMAIN answer.addrs = DOMAIN ps
        /\ \A i \in DOMAIN ps :
             LET own   == [ip   |-> String(ps[i].value[<< "ip" >>]),
                           port |-> String(ps[i].value[<< "port" >>])]
                 valid == own.ip \in ValidIps /\ IsPort(own.port)
             IN  /\ valid => answer.addrs[i] = own
                 /\ ~valid => answer.addrs[i] = NoAddr
    BY <2>2, <2>3 DEF ParseBencodePeers
  <2> QED
    BY <2>4 DEF OneAddressPerEntry, ps
<1> QED
  BY <1>1, Invariance, PTL

=============================================================================

------------------------------- MODULE Bencode -------------------------------
(***************************************************************************)
(* pkg/bencode: the scanner that parses bencoded bytes (parse.go) and what *)
(* the elements give back (elements.go).                                   *)
(*                                                                         *)
(* Bytes are a sequence of units, which are strings.  A unit is one byte   *)
(* that the grammar knows ("d", "l", "i", "e", ":", a digit) or a word     *)
(* that stands for one byte of content.  Integers are those of Go's int,   *)
(* of a width that Half gives.                                             *)
(***************************************************************************)
EXTENDS Integers, Sequences

CONSTANT Half    \* an int is in -Half .. Half - 1; 2^63 in the code

ASSUME BencodeAssumption == Half \in Nat \ {0}

\* Mutant of Wrap: an int of half as many values.
NarrowWrap(n) == ((n + Half \div 2) % Half) - Half \div 2

Wrap(n) == ((n + Half) % (2 * Half)) - Half

Digits == << "0", "1", "2", "3", "4", "5", "6", "7", "8", "9" >>

IsDigit(c)    == \E d \in 0 .. 9 : c = Digits[d + 1]
DigitValue(c) == CHOOSE d \in 0 .. 9 : c = Digits[d + 1]

(***************************************************************************)
(* Elements.  Lists and dictionaries keep the bytes they were parsed from. *)
(***************************************************************************)
IntElement(n)       == [kind |-> "int", n |-> n]
StringElement(s)    == [kind |-> "string", s |-> s]
ListElement(xs, r)  == [kind |-> "list", items |-> xs, raw |-> r]
DictElement(f, r)   == [kind |-> "dict", value |-> f, raw |-> r]

Natural[n \in Nat] ==
  IF n < 10 THEN << Digits[n + 1] >> ELSE Append(Natural[n \div 10], Digits[1 + (n % 10)])

Itoa(n) == IF n < 0 THEN << "-" >> \o Natural[-n] ELSE Natural[n]

\* String().  A list or a dictionary is printed over several lines; all that is
\* used of it is that it is not empty and no number.
String(v) ==
  CASE v.kind = "string" -> v.s
    [] v.kind = "int"    -> Itoa(v.n)
    [] OTHER             -> << "pretty" >>

\* Raw(), which is the encoding only of lists and dictionaries.
Raw(v) == IF v.kind \in {"list", "dict"} THEN v.raw ELSE String(v)

\* Encode() of a string and of an int; a list encloses its items, a dictionary its entries.
EncodeString(s) == Natural[Len(s)] \o << ":" >> \o s
Enclosed(c, x)  == << c >> \o x \o << "e" >>
EncodeInt(n)    == Enclosed("i", Itoa(n))

(***************************************************************************)
(* The scanner: cur units are behind it, the element in hand begins after  *)
(* start units.  A read returns the scanner it leaves, unless it fails.    *)
(***************************************************************************)
Read(v, start, cur) == [status |-> "ok", val |-> v, start |-> start, cur |-> cur]
Failed              == [status |-> "error"]
Panicked            == [status |-> "panic"]

Scanners(b) == [start : 0 .. Len(b), cur : 0 .. Len(b)]

Finished(b, cur) == cur >= Len(b)
At(b, cur, c)    == ~Finished(b, cur) /\ b[cur + 1] = c

\* The end of the digits that begin after cur units.
DigitsEnd(b, cur) ==
  CHOOSE end \in cur .. Len(b) :
    /\ \A i \in cur + 1 .. end : IsDigit(b[i])
    /\ ~Finished(b, end) => ~IsDigit(b[end + 1])

\* The loop of number(): the number that digits stand for, ten times.
Tenfold(ds) ==
  LET n[i \in 0 .. Len(ds)] ==
        IF i = 0 THEN 0 ELSE Wrap(Wrap(n[i - 1] + DigitValue(ds[i])) * 10)
  IN  n[Len(ds)]

\* Division of Go, which rounds towards zero.
Tenth(n) == IF n < 0 THEN -((-n) \div 10) ELSE n \div 10

Number(b, cur) ==
  LET end == DigitsEnd(b, cur)
  IN  [n |-> Tenth(Tenfold(SubSeq(b, cur + 1, end))), cur |-> end]

\* What next makes of a read that is no failure.
Then(r, next(_)) == IF r.status = "ok" THEN next(r) ELSE r

ClosedInt(b, num, end) == IF At(b, num.cur, "e") THEN Read(IntElement(num.n), end, end) ELSE Failed

\* Mutant of ReadInt: the closing e is left to the next read.
ReadIntOnly(b, s) == LET num == Number(b, s.cur + 1) IN ClosedInt(b, num, num.cur)

ReadInt(b, s) == LET num == Number(b, s.cur + 1) IN ClosedInt(b, num, num.cur + 1)

\* Mutant of StringFrom: the end is not compared with the length of the bytes.
StringFromAnyway(b, start, end) ==
  IF end < start \/ end > Len(b) THEN Panicked
  ELSE Read(StringElement(SubSeq(b, start + 1, end)), end, end)

StringFrom(b, start, end) ==
  IF end > Len(b) THEN Failed
  ELSE IF end < start THEN Panicked
  ELSE Read(StringElement(SubSeq(b, start + 1, end)), end, end)

ReadString(b, s) ==
  LET num == Number(b, s.cur)
  IN  IF At(b, num.cur, ":") THEN StringFrom(b, num.cur + 1, num.cur + 1 + num.n) ELSE Failed

\* Mutant of RawFrom: the scanner is positioned before its start is kept.
RawInside(b, s, r) == SubSeq(b, s.start + 2, r.start)

\* The bytes of a list or dictionary that began where s stands and left r.
RawFrom(b, s, r) == SubSeq(b, s.start + 1, r.start)

Scanner(r) == [start |-> r.start, cur |-> r.cur]
Inside(s)  == [start |-> s.cur + 1, cur |-> s.cur + 1]

\* The three reads that call each other find each other's results in `read', which is
\* a function of the scanner for each.
ReadNext(b, s, read) ==
  CASE At(b, s.cur, "l") -> Then(read.items[Inside(s)], LAMBDA r :
         Read(ListElement(r.val, RawFrom(b, s, r)), r.start, r.cur))
    [] At(b, s.cur, "d") -> Then(read.entries[Inside(s)], LAMBDA r :
         Read(DictElement(r.val, RawFrom(b, s, r)), r.start, r.cur))
    [] At(b, s.cur, "i") -> ReadInt(b, s)
    [] OTHER             -> ReadString(b, s)

\* The loop of readList, from an item on.
ReadItems(b, s, read) ==
  CASE Finished(b, s.cur) -> Failed
    [] At(b, s.cur, "e")  -> Read(<< >>, s.cur + 1, s.cur + 1)
    [] OTHER -> Then(read.next[[start |-> s.cur, cur |-> s.cur]], LAMBDA item :
                Then(read.items[Scanner(item)], LAMBDA rest :
                  Read(<< item.val >> \o rest.val, rest.start, rest.cur)))

\* What an entry adds to those that follow it.  A key that comes twice has its last value.
Entry(k, v, rest) == [x \in DOMAIN rest \cup {k} |-> IF x \in DOMAIN rest THEN rest[x] ELSE v]

\* The loop of readDict, from a key on.
ReadEntries(b, s, read) ==
  CASE Finished(b, s.cur) -> Failed
    [] At(b, s.cur, "e")  -> Read([k \in {} |-> Failed], s.cur + 1, s.cur + 1)
    [] OTHER -> Then(ReadString(b, s), LAMBDA key :
                Then(read.next[Scanner(key)], LAMBDA item :
                Then(read.entries[Scanner(item)], LAMBDA rest :
                  Read(Entry(key.val.s, item.val, rest.val), rest.start, rest.cur))))

\* Reads of at most n reads inside one another.
Reads(b) ==
  LET read[n \in 0 .. 2 * Len(b) + 2] ==
        [next    |-> [s \in Scanners(b) |-> IF n = 0 THEN Failed ELSE ReadNext(b, s, read[n - 1])],
         items   |-> [s \in Scanners(b) |-> IF n = 0 THEN Failed ELSE ReadItems(b, s, read[n - 1])],
         entries |-> [s \in Scanners(b) |-> IF n = 0 THEN Failed ELSE ReadEntries(b, s, read[n - 1])]]
  IN  read

\* The element that begins after i units.  Of two reads inside one another, one has gone
\* at least a unit further, so the bytes are at their end before the reads are.
ElementAt(b, i) == Reads(b)[2 * Len(b) + 2].next[[start |-> i, cur |-> i]]

Parse(b) == IF b = << >> THEN Failed ELSE ElementAt(b, 0)

(***************************************************************************)
(* Reference definitions, for the properties.                              *)
(***************************************************************************)

\* The number that digits stand for.
Numeral(ds, base) ==
  LET n[i \in 0 .. Len(ds)] == IF i = 0 THEN 0 ELSE base * n[i - 1] + DigitValue(ds[i])
  IN  n[Len(ds)]

\* Somewhere in the bytes is a number whose tenfold is no int.
HasLongNumber(b) ==
  \E i \in DOMAIN b : \E j \in i .. Len(b) :
    /\ \A k \in i .. j : IsDigit(b[k])
    /\ 10 * Numeral(SubSeq(b, i, j), 10) >= Half
=============================================================================

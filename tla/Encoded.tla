------------------------------ MODULE Encoded --------------------------------
(***************************************************************************)
(* Encode of the elements (pkg/bencode/elements.go), which is what writes  *)
(* the torrent files and responses of HttpTracker, and the property that   *)
(* they are read back.  It recurs over data, so this module is for TLC     *)
(* only.                                                                   *)
(***************************************************************************)
EXTENDS HttpTracker

Without(f, k) == [x \in DOMAIN f \ {k} |-> f[x]]

\* What Encode() may return: a dictionary is a Go map, whose order is any.
RECURSIVE Encodings(_), EncodedItems(_), EncodedEntries(_)
Encodings(v) ==
  CASE v.kind = "string" -> {EncodeString(v.s)}
    [] v.kind = "int"    -> {EncodeInt(v.n)}
    [] v.kind = "list"   -> {Enclosed("l", x) : x \in EncodedItems(v.items)}
    [] v.kind = "dict"   -> {Enclosed("d", x) : x \in EncodedEntries(v.value)}

EncodedItems(xs) ==
  IF xs = << >> THEN {<< >>}
  ELSE {x \o y : x \in Encodings(Head(xs)), y \in EncodedItems(Tail(xs))}

EncodedEntries(f) ==
  IF DOMAIN f = {} THEN {<< >>}
  ELSE UNION {{EncodeString(k) \o x \o y : x \in Encodings(f[k]),
                                          y \in EncodedEntries(Without(f, k))} :
              k \in DOMAIN f}

\* Bytes together with the element they encode.
Written(vs) == UNION {{[of |-> v, bytes |-> b] : b \in Encodings(v)} : v \in vs}

\* An element without the bytes it came from.
RECURSIVE Plain(_)
Plain(v) ==
  CASE v.kind = "list" -> ListElement([i \in DOMAIN v.items |-> Plain(v.items[i])], << >>)
    [] v.kind = "dict" -> DictElement([k \in DOMAIN v.value |-> Plain(v.value[k])], << >>)
    [] OTHER           -> v

\* An element and all that is inside it.
RECURSIVE Parts(_)
Parts(v) ==
  {v} \cup (CASE v.kind = "list" -> UNION {Parts(v.items[i]) : i \in DOMAIN v.items}
              [] v.kind = "dict" -> UNION {Parts(v.value[k]) : k \in DOMAIN v.value}
              [] OTHER           -> {})

HasNegative(v) == \E x \in Parts(v) : x.kind = "int" /\ x.n < 0

(***************************************************************************)
(* Property.                                                               *)
(***************************************************************************)

\* What Encode writes Parse reads back, in whatever order a dictionary was written;
\* but nothing that holds a negative number, which the scanner does not know.
ReadsWhatIsEncoded ==
  wrote # Nil =>
    LET e == Parse(bytes)
    IN  IF HasNegative(wrote) THEN e.status = "error"
        ELSE IsElement(e) /\ Plain(e.val) = Plain(wrote)
=============================================================================

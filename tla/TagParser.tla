------------------------------ MODULE TagParser ------------------------------
(***************************************************************************)
(* bencode.Unmarshal (tag_parser.go): the assignment of a parsed           *)
(* dictionary to the fields of a Go struct, after their `ben' tags.        *)
(*                                                                         *)
(* Where the code goes by the reflect.Kind of a field, a Go type is here   *)
(* an operator: what the assignment of an element to it gives, a value or  *)
(* an error.  Nothing looks at a target again whose assignment failed, so  *)
(* of a struct, slice or map there is all or nothing.                      *)
(***************************************************************************)
EXTENDS Bencode

\* A slice, which may be nil: no slice of length 0.
Slice(xs) == [nil |-> FALSE, elems |-> xs]
NilSlice  == [nil |-> TRUE, elems |-> << >>]

Assigned(x) == [status |-> "ok", val |-> x]

\* All the values or, as the first error ends the loop, none.
Together(rs) ==
  IF \A i \in DOMAIN rs : rs[i].status = "ok" THEN Assigned([i \in DOMAIN rs |-> rs[i].val])
  ELSE Failed

Text(v) == Assigned(String(v))

\* strconv.ParseInt and ParseUint of the text of any element, in the base the text
\* itself gives: octal after a leading 0 (no unit is the x of 0x).
Base(ds) == IF Len(ds) > 1 /\ ds[1] = "0" THEN 8 ELSE 10
IsNumber(ds) ==
  /\ ds # << >>
  /\ \A i \in DOMAIN ds : IsDigit(ds[i]) /\ DigitValue(ds[i]) < Base(ds)

ParseUint(ds, max) ==
  IF IsNumber(ds) /\ Numeral(ds, Base(ds)) \in 0 .. max THEN Assigned(Numeral(ds, Base(ds)))
  ELSE Failed

\* Mutant of ParseInt: as much above zero as below.
ParseIntEven(s) ==
  IF s # << >> /\ Head(s) = "-"
  THEN LET r == ParseUint(Tail(s), Half)
       IN  IF r.status = "ok" THEN Assigned(-r.val) ELSE Failed
  ELSE ParseUint(s, Half)

ParseInt(s) ==
  IF s # << >> /\ Head(s) = "-"
  THEN LET r == ParseUint(Tail(s), Half)
       IN  IF r.status = "ok" THEN Assigned(-r.val) ELSE Failed
  ELSE ParseUint(s, Half - 1)

Int64(v) == ParseInt(String(v))

\* Mutant of RawBytes: what is between the delimiters.
InnerBytes(v) ==
  IF v.kind \in {"list", "dict"} THEN SubSeq(v.raw, 2, Len(v.raw) - 1) ELSE Raw(v)

\* The value of a field of type []byte.
RawBytes(v) == Raw(v)

Bytes(v) == Assigned(Slice(RawBytes(v)))

\* Mutant of ListOnly: what is no list leaves the field as it is.
ListOrNothing(v, r) == IF v.kind = "list" THEN r ELSE Assigned(NilSlice)

ListOnly(v, r) == IF v.kind = "list" THEN r ELSE Failed

SliceOf(Type(_), v) ==
  ListOnly(v, Then(Together([i \in DOMAIN v.items |-> Type(v.items[i])]), LAMBDA r :
                Assigned(Slice(r.val))))

\* What becomes of a field with a tag, of a struct that v is assigned to, if r is what its
\* element gives, and of one that may be missing, which then keeps its zero.
Required(v, tag, r)       == IF tag \in DOMAIN v.value THEN r ELSE Failed
Optional(v, tag, r, zero) == IF tag \in DOMAIN v.value THEN r ELSE Assigned(zero)

Field(v, tag, Type(_))               == Required(v, tag, Type(v.value[tag]))
OptionalField(v, tag, Type(_), zero) == Optional(v, tag, Type(v.value[tag]), zero)

\* A struct inside another, given what is assigned to its fields.
Struct(v, fields) == IF v.kind = "dict" THEN Together(fields) ELSE Failed

\* Of a pointer to a struct, if r is what v gives the struct.
IntoStruct(v, r) == IF v.kind = "dict" THEN r ELSE Panicked

Unmarshal(b, Type(_)) == Then(Parse(b), LAMBDA r : IntoStruct(r.val, Type(r.val)))
=============================================================================

------------------------------ MODULE FlatDisk ------------------------------
(***************************************************************************)
(* What writePieceData promises the writer goroutine: the torrent is one   *)
(* array of bytes, a call stores its data at the position it is given, in  *)
(* order, and returns no error exactly when every byte is stored.  A call  *)
(* that fails has stored a prefix.  Byte g of the torrent is written g.    *)
(***************************************************************************)
EXTENDS Integers

CONSTANTS
  MaxSize,      \* largest torrent
  Calls,        \* the calls [pos, len] the writer makes
  NoCall,       \* no call is in progress
  Empty         \* a byte nobody has written

VARIABLES
  size,         \* length of the torrent
  image,        \* its bytes
  call,         \* the call in progress
  stored,       \* bytes of it stored so far
  result        \* what the last call returned: none, ok, error

vars == << size, image, call, stored, result >>

Init ==
  /\ size \in 1 .. MaxSize
  /\ image = [g \in 0 .. size - 1 |-> Empty]
  /\ call = NoCall /\ stored = 0 /\ result = "none"

Begin ==
  /\ call = NoCall
  /\ call' \in Calls
  /\ result' = "none"
  /\ UNCHANGED << size, image, stored >>

\* The next n bytes of the data, which lie within the torrent.
Put(n) ==
  /\ call # NoCall
  /\ stored + n <= call.len
  /\ n > 0 => call.pos + stored + n <= size
  /\ image' = [g \in DOMAIN image |->
                IF g \in call.pos + stored .. call.pos + stored + n - 1 THEN g
                ELSE image[g]]
  /\ UNCHANGED size

Store ==
  \E n \in 1 .. MaxSize :
    Put(n) /\ stored' = stored + n /\ UNCHANGED << call, result >>

Return ==
  \E n \in 0 .. MaxSize :
    /\ Put(n)
    /\ result' = IF stored + n = call.len THEN "ok" ELSE "error"
    /\ call' = NoCall /\ stored' = 0

Next == Begin \/ Store \/ Return

Spec == Init /\ [][Next]_vars
=============================================================================

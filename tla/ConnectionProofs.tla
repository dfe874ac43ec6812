--------------------------- MODULE ConnectionProofs ---------------------------
(***************************************************************************)
(* What Connection guarantees for streams of any length, messages of any   *)
(* kinds and any deadlines.                                                *)
(*                                                                         *)
(* Where a message begins is not computed: every unit of the stream is     *)
(* tied to the one before it, and the unit read last tells what the client *)
(* is in the middle of.                                                    *)
(***************************************************************************)
EXTENDS Connection, TLAPS

Unit == [msg : Nat, at : Nat]

\* How many units message m has, where ks are the kinds, and the last of them.
UnitCount(ks, m) == IF m = 0 THEN HandUnits ELSE SizeUnits + Body[ks[m]]
EndOf(ks, m)     == [msg |-> m, at |-> UnitCount(ks, m)]

NextUnit(ks, u) == IF u.at < UnitCount(ks, u.msg) THEN [msg |-> u.msg, at |-> u.at + 1]
                   ELSE [msg |-> u.msg + 1, at |-> 1]

StreamType ==
  /\ TypeOK
  /\ written \in Seq(Unit) /\ buf \in Seq(Unit)

\* The stream is the handshake and the messages, one after the other.
Stream ==
  /\ written = << >> => kinds = << >>
  /\ \A i \in 1 .. Len(written) : written[i].msg \in 0 .. Len(kinds)
  /\ \A i \in 1 .. Len(written) - 1 : written[i + 1] = NextUnit(kinds, written[i])
  /\ written # << >> => written[Len(written)] = EndOf(kinds, Len(kinds))

\* The client has read all of the messages it has returned and nothing more.
AtEnd == pos \in 1 .. Len(written) /\ written[pos] = EndOf(kinds, taken)

\* It is in the next message, where the units in buf follow the first n.
Inside(n) ==
  /\ taken < Len(kinds) /\ pos \in 1 .. Len(written)
  /\ written[pos] = [msg |-> taken + 1, at |-> n + Len(buf)]
  /\ \A i \in 1 .. Len(buf) : buf[i] = [msg |-> taken + 1, at |-> n + i]

InHandshake ==
  /\ want = HandUnits /\ pos = Len(buf)
  /\ \A i \in 1 .. Len(buf) : buf[i] = written[i]

Place ==
  /\ taken \in 0 .. Len(kinds)
  /\ taken > 0 => last = BodyOf(taken)
  /\ pc = "hand" => InHandshake
  /\ pc = "idle" => AtEnd
  /\ pc = "size" => want = SizeUnits /\ (IF buf = << >> THEN AtEnd ELSE Inside(0))
  /\ pc = "body" => Inside(SizeUnits) /\ want = Body[kinds[taken + 1]]

Start == pc \in {"down", "hand"} => ~cut /\ ~crash /\ taken = 0

Inv == StreamType /\ Stream /\ Start /\ (~cut => Place) /\ PanicNeedsCut

LEMMA BodyType ==
  /\ HandUnits \in Nat /\ HandUnits >= 1 /\ SizeUnits \in Nat /\ SizeUnits >= 1 /\ MaxSize \in Nat
  /\ \A k \in Kinds : Body[k] \in Nat /\ Parsed[k] \in Nat /\ Parsed[k] <= Body[k]
BY ConnectionAssumption

LEMMA CountType ==
  ASSUME NEW ks \in Seq(Kinds), NEW m \in 0 .. Len(ks)
  PROVE  UnitCount(ks, m) \in Nat /\ UnitCount(ks, m) >= 1
<1>1. m # 0 => ks[m] \in Kinds
  OBVIOUS
<1> QED
  BY <1>1, BodyType DEF UnitCount

LEMMA UnitsType ==
  ASSUME NEW m \in Nat, NEW n \in Nat
  PROVE  /\ UnitsOf(m, n) \in Seq(Unit) /\ Len(UnitsOf(m, n)) = n
         /\ \A i \in 1 .. n : UnitsOf(m, n)[i] = [msg |-> m, at |-> i]
<1>1. \A i \in 1 .. n : [msg |-> m, at |-> i] \in Unit
  BY DEF Unit
<1> QED
  BY <1>1 DEF UnitsOf

(***************************************************************************)
(* The remote peer.                                                        *)
(***************************************************************************)
LEMMA HandshakeStep ==
  ASSUME Inv, RemoteHandshake
  PROVE  Inv'
<1>1. /\ written' \in Seq(Unit) /\ Len(written') = HandUnits
      /\ \A i \in 1 .. HandUnits : written'[i] = [msg |-> 0, at |-> i]
  BY UnitsType, BodyType DEF RemoteHandshake
<1>2. kinds = << >> /\ kinds' = kinds /\ written = << >> /\ pos = 0 /\ pc # "down"
  BY DEF Inv, StreamType, TypeOK, Stream, RemoteHandshake
<1>3. StreamType'
  BY <1>1, <1>2 DEF Inv, StreamType, TypeOK, RemoteHandshake, rdVars
<1>4. Stream'
  BY <1>1, <1>2, BodyType DEF Stream, EndOf, UnitCount, NextUnit
<1>5. ASSUME ~cut PROVE Place'
  <2>1. pc = "hand" /\ Len(buf) = 0
    BY <1>2, <1>5, BodyType
    DEF Inv, Place, AtEnd, Inside, InHandshake, StreamType, TypeOK
  <2> QED
    BY <1>2, <1>5, <2>1
    DEF Inv, Place, InHandshake, BodyOf, RemoteHandshake, rdVars
<1> QED
  BY <1>3, <1>4, <1>5 DEF Inv, Start, PanicNeedsCut, RemoteHandshake, rdVars

LEMMA SendStep ==
  ASSUME Inv, NEW k \in Kinds, RemoteSend(k)
  PROVE  Inv'
<1> DEFINE M == Len(kinds) + 1
           n == SizeUnits + Body[k]
           W == Len(written)
<1>1. /\ written \in Seq(Unit) /\ written # << >> /\ W \in Nat /\ W >= 1
      /\ kinds \in Seq(Kinds) /\ M \in Nat /\ M >= 1
      /\ n \in Nat /\ n >= 1
  BY BodyType DEF Inv, StreamType, TypeOK, RemoteSend
<1>2. /\ kinds' \in Seq(Kinds) /\ Len(kinds') = M /\ kinds'[M] = k
      /\ \A m \in 1 .. Len(kinds) : kinds'[m] = kinds[m]
  BY <1>1 DEF RemoteSend
<1>3. /\ written' \in Seq(Unit) /\ Len(written') = W + n
      /\ \A i \in 1 .. W : written'[i] = written[i]
      /\ \A i \in W + 1 .. W + n : written'[i] = [msg |-> M, at |-> i - W]
  <2>1. /\ UnitsOf(M, n) \in Seq(Unit) /\ Len(UnitsOf(M, n)) = n
        /\ \A i \in 1 .. n : UnitsOf(M, n)[i] = [msg |-> M, at |-> i]
    BY <1>1, UnitsType
  <2>2. written' = written \o UnitsOf(M, n)
    BY DEF RemoteSend
  <2> QED
    BY <1>1, <2>1, <2>2
<1>4. /\ \A m \in 0 .. Len(kinds) : /\ UnitCount(kinds', m) = UnitCount(kinds, m)
                                    /\ EndOf(kinds', m) = EndOf(kinds, m)
      /\ UnitCount(kinds', M) = n /\ EndOf(kinds', M) = [msg |-> M, at |-> n]
  BY <1>1, <1>2 DEF UnitCount, EndOf
<1> HIDE DEF M, n, W
<1>5. StreamType'
  <2>1. pos' \in 0 .. Len(written')
    BY <1>1, <1>3 DEF Inv, StreamType, TypeOK, RemoteSend, W
  <2>2. Len(kinds') <= MaxMsgs
    BY <1>1, <1>2, ConnectionAssumption DEF RemoteSend, M
  <2> QED
    BY <1>2, <1>3, <2>1, <2>2 DEF Inv, StreamType, TypeOK, RemoteSend, rdVars
<1>6. Stream'
  <2>1. ASSUME NEW i \in 1 .. Len(written')
        PROVE  written'[i].msg \in 0 .. Len(kinds')
    <3>1. CASE i \in 1 .. W
      <4>1. written[i].msg \in 0 .. Len(kinds)
        BY <3>1 DEF Inv, Stream, W
      <4>2. written'[i].msg = written[i].msg
        BY <1>3, <3>1
      <4> QED
        BY <1>1, <1>2, <4>1, <4>2 DEF M
    <3>2. CASE i \in W + 1 .. W + n
      <4>1. written'[i] = [msg |-> M, at |-> i - W]
        BY <1>3, <3>2
      <4> QED
        BY <1>1, <1>2, <4>1
    <3> QED
      BY <1>1, <1>3, <3>1, <3>2
  <2>2. ASSUME NEW i \in 1 .. Len(written') - 1
        PROVE  written'[i + 1] = NextUnit(kinds', written'[i])
    <3>1. CASE i < W
      <4>1. written[i + 1] = NextUnit(kinds, written[i]) /\ written[i].msg \in 0 .. Len(kinds)
        BY <1>1, <3>1 DEF Inv, Stream, W
      <4>2. written'[i] = written[i] /\ written'[i + 1] = written[i + 1]
        BY <1>1, <1>3, <3>1
      <4> QED
        BY <1>4, <4>1, <4>2 DEF NextUnit
    <3>2. CASE i = W
      <4>3. written[W] = EndOf(kinds, Len(kinds))
        BY <1>1 DEF Inv, Stream, W
      <4>4. W \in 1 .. W /\ i + 1 \in W + 1 .. W + n /\ i + 1 - W = 1
        BY <1>1, <3>2
      <4>5. written'[i] = written[W] /\ written'[i + 1] = [msg |-> M, at |-> i + 1 - W]
        BY <1>3, <3>2, <4>4
      <4>1. written'[i] = EndOf(kinds, Len(kinds)) /\ written'[i + 1] = [msg |-> M, at |-> 1]
        BY <4>3, <4>4, <4>5
      <4>2. /\ UnitCount(kinds', Len(kinds)) = UnitCount(kinds, Len(kinds))
            /\ UnitCount(kinds, Len(kinds)) \in Nat /\ Len(kinds) \in Nat
        BY <1>1, <1>4, CountType
      <4> QED
        BY <4>1, <4>2 DEF NextUnit, EndOf, M
    <3>3. CASE i > W
      <4>1. /\ written'[i] = [msg |-> M, at |-> i - W]
            /\ written'[i + 1] = [msg |-> M, at |-> i - W + 1]
            /\ i - W < n
        BY <1>1, <1>3, <3>3
      <4> QED
        BY <1>1, <1>4, <4>1 DEF NextUnit
    <3> QED
      BY <1>1, <3>1, <3>2, <3>3
  <2>3. written'[Len(written')] = EndOf(kinds', Len(kinds'))
    BY <1>1, <1>2, <1>3, <1>4
  <2>4. written' # << >>
    BY <1>1, <1>3
  <2> QED
    BY <2>1, <2>2, <2>3, <2>4 DEF Stream
<1>7. ASSUME ~cut PROVE Place'
  <2>1. /\ Place /\ UNCHANGED << pos, pc, buf, want, taken, last >>
        /\ buf \in Seq(Unit) /\ pos \in 0 .. W /\ taken \in 0 .. Len(kinds)
    BY <1>7 DEF Inv, Place, StreamType, TypeOK, RemoteSend, rdVars, W
  <2>2. taken' > 0 => last' = BodyOf(taken)'
    BY <1>1, <1>2, <2>1 DEF Place, BodyOf
  <2>3. AtEnd => AtEnd'
    <3>1. EndOf(kinds', taken) = EndOf(kinds, taken)
      BY <1>4, <2>1
    <3>2. ASSUME AtEnd
          PROVE  pos \in 1 .. Len(written') /\ written'[pos] = EndOf(kinds', taken)
      <4>1. pos \in 1 .. W /\ written[pos] = EndOf(kinds, taken)
        BY <3>2 DEF AtEnd, W
      <4>2. written'[pos] = written[pos]
        BY <1>3, <4>1
      <4> QED
        BY <1>1, <1>3, <3>1, <4>1, <4>2
    <3>3. taken' = taken /\ pos' = pos
      BY <2>1
    <3> QED
      BY <3>2, <3>3 DEF AtEnd
  <2>4. ASSUME NEW m, Inside(m) PROVE Inside(m)'
    BY <1>1, <1>2, <1>3, <2>1, <2>4 DEF Inside, W, M
  <2>5. InHandshake => InHandshake'
    BY <1>1, <1>3, <2>1 DEF InHandshake
  <2>6. taken < Len(kinds) => Body[kinds[taken + 1]]' = Body[kinds[taken + 1]]
    BY <1>1, <1>2, <2>1
  <2>7. pc = "body" => Inside(SizeUnits)' /\ want' = Body[kinds[taken + 1]]'
    BY <2>1, <2>4, <2>6 DEF Place, Inside
  <2>8. pc = "size" => want' = SizeUnits /\ (IF buf' = << >> THEN AtEnd' ELSE Inside(0)')
    BY <2>1, <2>3, <2>4 DEF Place
  <2>9. taken' \in 0 .. Len(kinds')
    BY <1>1, <1>2, <2>1 DEF M
  <2> QED
    BY <2>1, <2>2, <2>3, <2>5, <2>7, <2>8, <2>9 DEF Place
<1> QED
  BY <1>5, <1>6, <1>7 DEF Inv, Start, PanicNeedsCut, RemoteSend, rdVars

(***************************************************************************)
(* The client.  Where it is in the stream tells what the next unit is.     *)
(***************************************************************************)
LEMMA NextAfterEnd ==
  ASSUME Inv, AtEnd, taken \in 0 .. Len(kinds), pos < Len(written)
  PROVE  taken < Len(kinds) /\ written[pos + 1] = [msg |-> taken + 1, at |-> 1]
<1>1. /\ kinds \in Seq(Kinds) /\ written \in Seq(Unit) /\ Len(kinds) \in Nat
      /\ pos \in 1 .. Len(written) - 1 /\ pos + 1 \in 1 .. Len(written)
      /\ written[pos] = EndOf(kinds, taken)
  BY DEF Inv, StreamType, TypeOK, AtEnd
<1>2. UnitCount(kinds, taken) \in Nat
  BY <1>1, CountType
<1>3. written[pos + 1] = NextUnit(kinds, EndOf(kinds, taken))
  BY <1>1 DEF Inv, Stream
<1>4. written[pos + 1] = [msg |-> taken + 1, at |-> 1]
  BY <1>2, <1>3 DEF NextUnit, EndOf
<1>5. written[pos + 1].msg \in 0 .. Len(kinds)
  BY <1>1 DEF Inv, Stream
<1> QED
  BY <1>1, <1>4, <1>5

LEMMA NextInside ==
  ASSUME Inv, NEW n \in Nat, Inside(n), pos < Len(written),
         n + Len(buf) < SizeUnits + Body[kinds[taken + 1]], taken \in Nat
  PROVE  written[pos + 1] = [msg |-> taken + 1, at |-> n + Len(buf) + 1]
<1>1. /\ pos \in 1 .. Len(written) - 1 /\ taken + 1 # 0
      /\ written[pos] = [msg |-> taken + 1, at |-> n + Len(buf)]
  BY DEF Inv, StreamType, TypeOK, Inside
<1>2. written[pos + 1] = NextUnit(kinds, written[pos])
  BY <1>1 DEF Inv, Stream
<1> QED
  BY <1>1, <1>2 DEF NextUnit, UnitCount

LEMMA StreamKept ==
  ASSUME Stream, UNCHANGED << written, kinds >>
  PROVE  Stream'
BY DEF Stream

LEMMA InsideType ==
  ASSUME Inv, NEW n \in Nat, Inside(n), taken \in 0 .. Len(kinds)
  PROVE  /\ kinds[taken + 1] \in Kinds /\ taken + 1 \in DOMAIN kinds /\ taken + 1 \in Nat
         /\ Body[kinds[taken + 1]] \in Nat /\ Len(buf) \in Nat /\ buf \in Seq(Unit)
<1>1. kinds \in Seq(Kinds) /\ buf \in Seq(Unit) /\ taken + 1 \in 1 .. Len(kinds)
  BY DEF Inv, StreamType, TypeOK, Inside
<1>2. kinds[taken + 1] \in Kinds
  BY <1>1
<1> QED
  BY <1>1, <1>2, BodyType

LEMMA AnnounceStep ==
  ASSUME Inv, Announce
  PROVE  Inv'
<1>1. StreamType'
  <2>1. << >> \in Seq(Unit) /\ << >> \in Seq(Kinds) /\ Len(<< >>) = 0
    OBVIOUS
  <2>2. MaxMsgs \in Nat /\ HandUnits \in Nat
    BY ConnectionAssumption
  <2>3. crash' \in BOOLEAN /\ cut' \in BOOLEAN /\ pc' = "hand" /\ want' = HandUnits
    BY DEF Inv, StreamType, TypeOK, Announce, Fresh
  <2>4. {sentReq', heardReq'} \subseteq Requests \cup {Nothing}
    BY DEF Inv, StreamType, TypeOK, Announce
  <2>5. written' = << >> /\ kinds' = << >> /\ buf' = << >> /\ pos' = 0 /\ taken' = 0
    BY DEF Announce, Fresh
  <2> QED
    BY <2>1, <2>2, <2>3, <2>4, <2>5 DEF StreamType, TypeOK
<1>2. Stream'
  BY DEF Stream, Announce, Fresh
<1>3. Place'
  BY DEF Place, InHandshake, Announce, Fresh
<1> QED
  BY <1>1, <1>2, <1>3 DEF Inv, Start, PanicNeedsCut, Announce, Fresh

LEMMA HandshakeReadStep ==
  ASSUME Inv, HandshakeRead
  PROVE  Inv'
<1>1. StreamType'
  BY DEF Inv, StreamType, TypeOK, HandshakeRead, inVars
<1>2. Stream'
  BY StreamKept DEF Inv, HandshakeRead, inVars
<1>3. Place'
  <2>1. ~cut /\ taken = 0 /\ Place /\ InHandshake
    BY DEF Inv, Start, Place, HandshakeRead
  <2>2. /\ Len(buf) = HandUnits /\ buf[HandUnits] = [msg |-> 0, at |-> HandUnits]
        /\ HandUnits \in 1 .. HandUnits
    <3>1. /\ Len(UnitsOf(0, HandUnits)) = HandUnits
          /\ \A i \in 1 .. HandUnits : UnitsOf(0, HandUnits)[i] = [msg |-> 0, at |-> i]
      BY UnitsType, BodyType
    <3>2. HandUnits \in 1 .. HandUnits
      BY BodyType
    <3>3. buf = UnitsOf(0, HandUnits)
      BY DEF HandshakeRead
    <3> QED
      BY <3>1, <3>2, <3>3
  <2>3. pos = HandUnits /\ pos \in 1 .. Len(written) /\ written[pos] = EndOf(kinds, 0)
    <3>1. pos = HandUnits /\ HandUnits >= 1 /\ pos \in 0 .. Len(written)
      BY <2>1, <2>2, BodyType DEF Inv, StreamType, TypeOK, InHandshake
    <3>2. written[HandUnits] = buf[HandUnits]
      BY <2>1, <2>2 DEF InHandshake
    <3> QED
      BY <2>2, <3>1, <3>2 DEF EndOf, UnitCount
  <2>4. AtEnd'
    BY <2>1, <2>3 DEF AtEnd, HandshakeRead, inVars
  <2> QED
    BY <2>1, <2>4 DEF Place, HandshakeRead, inVars
<1> QED
  BY <1>1, <1>2, <1>3 DEF Inv, Start, PanicNeedsCut, HandshakeRead

LEMMA AnnounceFailsStep ==
  ASSUME Inv, AnnounceFails
  PROVE  Inv'
<1>1. StreamType'
  BY DEF Inv, StreamType, TypeOK, AnnounceFails, inVars
<1>2. Stream'
  BY StreamKept DEF Inv, AnnounceFails, inVars
<1>3. ~cut => Place'
  BY DEF Inv, Start, Place, BodyOf, AnnounceFails, inVars
<1> QED
  BY <1>1, <1>2, <1>3 DEF Inv, Start, PanicNeedsCut, AnnounceFails

LEMMA ReadPeerMessageStep ==
  ASSUME Inv, ReadPeerMessage
  PROVE  Inv'
<1>1. StreamType'
  BY BodyType DEF Inv, StreamType, TypeOK, ReadPeerMessage, ReadExactly, inVars
<1>2. Stream'
  BY StreamKept DEF Inv, ReadPeerMessage, inVars
<1>3. ~cut => Place'
  BY DEF Inv, Place, AtEnd, BodyOf, ReadPeerMessage, ReadExactly, inVars
<1> QED
  BY <1>1, <1>2, <1>3 DEF Inv, Start, PanicNeedsCut, ReadPeerMessage, ReadExactly

LEMMA ReadUnitStep ==
  ASSUME Inv, ReadUnit
  PROVE  Inv'
<1> DEFINE u == written[pos + 1]
<1>1. /\ written \in Seq(Unit) /\ buf \in Seq(Unit) /\ pos + 1 \in 1 .. Len(written)
      /\ pos \in Nat /\ pos < Len(written) /\ Len(buf) \in Nat /\ want \in Nat /\ Len(buf) < want
      /\ buf' = Append(buf, u) /\ pos' = pos + 1
      /\ UNCHANGED << written, kinds, pc, want, last, cut, taken, crash, sentReq, heardReq >>
  BY DEF Inv, StreamType, TypeOK, ReadUnit
<1>2. u \in Unit
  BY <1>1
<1>3. /\ buf' \in Seq(Unit) /\ Len(buf') = Len(buf) + 1 /\ buf'[Len(buf) + 1] = u /\ buf' # << >>
      /\ \A i \in 1 .. Len(buf) : buf'[i] = buf[i]
  BY <1>1, <1>2
<1> HIDE DEF u
<1>4. StreamType'
  BY <1>1, <1>3 DEF Inv, StreamType, TypeOK
<1>5. Stream'
  BY <1>1, StreamKept DEF Inv
<1>6. ASSUME ~cut PROVE Place'
  <2>1. Place /\ taken \in 0 .. Len(kinds) /\ taken \in Nat /\ Len(kinds) \in Nat
    BY <1>6 DEF Inv, Place, StreamType, TypeOK
  <2>2. pc = "hand" => InHandshake'
    BY <1>1, <1>3, <2>1 DEF Place, InHandshake, u
  <2>3. ASSUME NEW n \in Nat, taken < Len(kinds),
               u = [msg |-> taken + 1, at |-> n + Len(buf) + 1],
               \A i \in 1 .. Len(buf) : buf[i] = [msg |-> taken + 1, at |-> n + i]
        PROVE  Inside(n)'
    <3>1. written'[pos'] = [msg |-> taken + 1, at |-> n + Len(buf')]
      BY <1>1, <1>3, <2>3 DEF u
    <3>2. ASSUME NEW i \in 1 .. Len(buf') PROVE buf'[i] = [msg |-> taken + 1, at |-> n + i]
      <4>1. CASE i \in 1 .. Len(buf)
        BY <1>3, <2>3, <4>1
      <4>2. CASE i = Len(buf) + 1
        BY <1>1, <1>3, <2>3, <4>2
      <4> QED
        BY <1>1, <1>3, <4>1, <4>2
    <3> QED
      BY <1>1, <2>3, <3>1, <3>2 DEF Inside
  <2>4. pc = "size" => Inside(0)' /\ want' = SizeUnits
    <3>1. CASE pc = "size" /\ buf = << >>
      BY <1>1, <2>1, <2>3, <3>1, NextAfterEnd DEF Place, u
    <3>2. CASE pc = "size" /\ buf # << >>
      <4>1. Inside(0) /\ want = SizeUnits
        BY <2>1, <3>2 DEF Place
      <4>2. Body[kinds[taken + 1]] \in Nat
        BY <2>1, <4>1, InsideType
      <4>3. u = [msg |-> taken + 1, at |-> 0 + Len(buf) + 1]
        BY <1>1, <2>1, <4>1, <4>2, NextInside, BodyType DEF u
      <4> QED
        BY <1>1, <2>3, <4>1, <4>3 DEF Inside
    <3> QED
      BY <3>1, <3>2
  <2>5. pc = "body" => Inside(SizeUnits)' /\ want' = Body[kinds'[taken' + 1]]
    <3> SUFFICES ASSUME pc = "body"
                 PROVE  Inside(SizeUnits)' /\ want' = Body[kinds'[taken' + 1]]
      OBVIOUS
    <3>1. Inside(SizeUnits) /\ want = Body[kinds[taken + 1]]
      BY <2>1 DEF Place
    <3>2. u = [msg |-> taken + 1, at |-> SizeUnits + Len(buf) + 1]
      BY <1>1, <2>1, <3>1, NextInside, BodyType DEF u
    <3> QED
      BY <1>1, <2>3, <3>1, <3>2, BodyType DEF Inside
  <2>6. pc \in {"hand", "size", "body"}
    BY DEF ReadUnit
  <2>7. taken > 0 => last' = BodyOf(taken)'
    BY <1>1, <2>1 DEF Place, BodyOf
  <2> QED
    BY <1>1, <1>3, <2>1, <2>2, <2>4, <2>5, <2>6, <2>7 DEF Place
<1> QED
  BY <1>1, <1>4, <1>5, <1>6 DEF Inv, Start, PanicNeedsCut

LEMMA SizeReadStep ==
  ASSUME Inv, SizeRead
  PROVE  Inv'
<1>1. PICK n \in SizesIn(buf) : want' = n
  BY DEF SizeRead, ReadExactly
<1>2. n \in Nat
  BY BodyType DEF SizesIn
<1>3. StreamType'
  BY <1>1, <1>2 DEF Inv, StreamType, TypeOK, SizeRead, ReadExactly, inVars
<1>4. Stream'
  BY StreamKept DEF Inv, SizeRead, inVars
<1>5. ASSUME ~cut PROVE Place'
  <2>1. Place /\ taken \in 0 .. Len(kinds) /\ pc = "size"
    BY <1>5 DEF Inv, Place, SizeRead
  <2>2. want = SizeUnits /\ Len(buf) = SizeUnits /\ buf # << >>
    BY <2>1, BodyType DEF Place, SizeRead
  <2>3. Inside(0)
    BY <2>1, <2>2 DEF Place
  <2>4. /\ taken + 1 \in DOMAIN kinds /\ taken + 1 \in Nat /\ buf \in Seq(Unit)
    BY <2>1, <2>3, InsideType
  <2>5. buf = UnitsOf(taken + 1, SizeUnits)
    <3>1. /\ UnitsOf(taken + 1, SizeUnits) \in Seq(Unit)
          /\ Len(UnitsOf(taken + 1, SizeUnits)) = SizeUnits
          /\ \A i \in 1 .. SizeUnits : UnitsOf(taken + 1, SizeUnits)[i] = [msg |-> taken + 1, at |-> i]
      BY <2>4, BodyType, UnitsType
    <3>2. \A i \in 1 .. SizeUnits : buf[i] = [msg |-> taken + 1, at |-> i]
      BY <2>2, <2>3, BodyType DEF Inside
    <3> QED
      BY <2>2, <2>4, <3>1, <3>2
  <2>6. n = Body[kinds[taken + 1]]
    BY <2>4, <2>5 DEF SizesIn
  <2>7. written[pos] = [msg |-> taken + 1, at |-> SizeUnits + 0]
    BY <2>2, <2>3, BodyType DEF Inside
  <2>8. /\ buf' = << >> /\ pc' = "body"
        /\ UNCHANGED << written, kinds, pos, taken, last >>
    BY DEF SizeRead, ReadExactly, inVars
  <2>9. Inside(SizeUnits)'
    BY <2>3, <2>7, <2>8 DEF Inside
  <2>10. taken > 0 => last' = BodyOf(taken)'
    BY <2>1, <2>8 DEF Place, BodyOf
  <2> QED
    BY <1>1, <2>1, <2>6, <2>8, <2>9, <2>10 DEF Place
<1> QED
  BY <1>3, <1>4, <1>5 DEF Inv, Start, PanicNeedsCut, SizeRead, ReadExactly

LEMMA BodyUnitsType ==
  ASSUME NEW m \in Nat, Body[kinds[m]] \in Nat
  PROVE  /\ BodyOf(m) \in Seq(Unit) /\ Len(BodyOf(m)) = Body[kinds[m]]
         /\ \A i \in 1 .. Body[kinds[m]] : BodyOf(m)[i] = [msg |-> m, at |-> SizeUnits + i]
<1> DEFINE b == Body[kinds[m]]
<1>1. ASSUME NEW i \in 1 .. b PROVE [msg |-> m, at |-> SizeUnits + i] \in Unit
  <2>1. b \in Nat /\ SizeUnits + i \in Nat
    BY BodyType
  <2> QED
    BY <2>1 DEF Unit
<1>2. BodyOf(m) = [i \in 1 .. b |-> [msg |-> m, at |-> SizeUnits + i]]
  BY DEF BodyOf
<1>3. b \in Nat
  OBVIOUS
<1> HIDE DEF b
<1>4. /\ BodyOf(m) \in Seq(Unit) /\ Len(BodyOf(m)) = b
      /\ \A i \in 1 .. b : BodyOf(m)[i] = [msg |-> m, at |-> SizeUnits + i]
  BY <1>1, <1>2, <1>3
<1> QED
  BY <1>4 DEF b

LEMMA BodyReadStep ==
  ASSUME Inv, BodyRead
  PROVE  Inv'
<1>1. /\ last' = buf /\ taken' = taken + 1 /\ buf' = << >> /\ pc' = "idle"
      /\ UNCHANGED << written, kinds, pos, want, sentReq, heardReq, cut >>
      /\ pc = "body" /\ Len(buf) = want
  BY DEF BodyRead, inVars
<1>2. crash' \in BOOLEAN
  BY DEF BodyRead
<1>3. StreamType'
  BY <1>1, <1>2 DEF Inv, StreamType, TypeOK
<1>4. Stream'
  BY <1>1, StreamKept DEF Inv
<1>5. ASSUME ~cut PROVE Place' /\ ~crash'
  <2>1. Place /\ taken \in 0 .. Len(kinds) /\ Inside(SizeUnits) /\ want = Body[kinds[taken + 1]]
    BY <1>1, <1>5 DEF Inv, Place
  <2>2. /\ kinds[taken + 1] \in Kinds /\ taken + 1 \in DOMAIN kinds /\ buf \in Seq(Unit)
        /\ Body[kinds[taken + 1]] \in Nat /\ taken + 1 \in Nat /\ taken + 1 # 0
    BY <2>1, BodyType, InsideType
  <2>3. \A i \in 1 .. Len(buf) : buf[i] = [msg |-> taken + 1, at |-> SizeUnits + i]
    BY <2>1 DEF Inside
  <2>4. buf = BodyOf(taken + 1)
    <3>2. /\ BodyOf(taken + 1) \in Seq(Unit) /\ Len(BodyOf(taken + 1)) = Body[kinds[taken + 1]]
          /\ \A i \in 1 .. Body[kinds[taken + 1]] :
               BodyOf(taken + 1)[i] = [msg |-> taken + 1, at |-> SizeUnits + i]
      BY <2>2, BodyUnitsType
    <3> QED
      <4>1. Len(buf) = Len(BodyOf(taken + 1)) /\ Len(buf) = Body[kinds[taken + 1]]
        BY <1>1, <2>1, <3>2
      <4>2. \A i \in 1 .. Len(buf) : buf[i] = BodyOf(taken + 1)[i]
        BY <2>3, <3>2, <4>1
      <4> QED
        BY <2>2, <3>2, <4>1, <4>2
  <2>5. BodyOf(taken)' = BodyOf(taken + 1)
    BY <1>1 DEF BodyOf
  <2>6. AtEnd'
    <3>1. written[pos] = [msg |-> taken + 1, at |-> SizeUnits + Body[kinds[taken + 1]]]
      BY <1>1, <2>1 DEF Inside
    <3>2. EndOf(kinds, taken + 1) = [msg |-> taken + 1, at |-> SizeUnits + Body[kinds[taken + 1]]]
      BY <2>2 DEF EndOf, UnitCount
    <3>3. pos \in 1 .. Len(written)
      BY <2>1 DEF Inside
    <3> QED
      BY <1>1, <3>1, <3>2, <3>3 DEF AtEnd
  <2>7. ~Panics(buf)
    <3> SUFFICES ASSUME buf # << >>, NEW k \in KindsIn(buf), Len(buf) < Parsed[k]
                 PROVE  FALSE
      BY DEF Panics
    <3>1. buf[1] = [msg |-> taken + 1, at |-> SizeUnits + 1]
      BY <2>2, <2>3
    <3>2. k = kinds[taken + 1]
      BY <2>2, <3>1 DEF KindsIn
    <3> QED
      BY <1>1, <2>1, <2>2, <3>2, BodyType
  <2>8. crash' = FALSE
    BY <2>7 DEF BodyRead
  <2>9. taken' \in 0 .. Len(kinds')
    BY <1>1, <2>1 DEF Inside
  <2> QED
    BY <1>1, <2>4, <2>5, <2>6, <2>8, <2>9 DEF Place
<1>6. PanicNeedsCut'
  <2>1. CASE cut
    BY <1>1, <2>1 DEF PanicNeedsCut
  <2>2. CASE ~cut
    BY <1>5, <2>2 DEF PanicNeedsCut
  <2> QED
    BY <2>1, <2>2
<1> QED
  BY <1>1, <1>3, <1>4, <1>5, <1>6 DEF Inv, Start

LEMMA ReadFailsStep ==
  ASSUME Inv, ReadFails
  PROVE  Inv'
<1>1. cut' \in BOOLEAN
  BY DEF Inv, StreamType, TypeOK, ReadFails
<1>2. StreamType'
  BY <1>1 DEF Inv, StreamType, TypeOK, ReadFails, inVars
<1>3. Stream'
  BY StreamKept DEF Inv, ReadFails, inVars
<1>4. ASSUME ~cut' PROVE Place'
  <2>1. ~cut /\ pc = "size" /\ buf = << >>
    BY <1>4 DEF ReadFails
  <2> QED
    BY <2>1 DEF Inv, Place, AtEnd, BodyOf, ReadFails, inVars
<1>5. PanicNeedsCut'
  BY DEF Inv, PanicNeedsCut, ReadFails
<1> QED
  BY <1>2, <1>3, <1>4, <1>5 DEF Inv, Start, ReadFails

LEMMA WriteRequestStep ==
  ASSUME Inv, NEW r \in Requests, WriteRequest(r)
  PROVE  Inv'
<1>1. Decoded(Payload(r)) \in Requests
  BY ConnectionAssumption DEF Requests, Decoded, Payload
<1>2. StreamType'
  BY <1>1 DEF Inv, StreamType, TypeOK, WriteRequest, inVars, rdVars
<1>3. Stream'
  BY StreamKept DEF Inv, WriteRequest, inVars
<1>4. ~cut => Place'
  BY DEF Inv, Place, AtEnd, BodyOf, WriteRequest, inVars, rdVars
<1> QED
  BY <1>2, <1>3, <1>4 DEF Inv, Start, PanicNeedsCut, WriteRequest, rdVars

(***************************************************************************)
(* The invariant and the theorems.                                         *)
(***************************************************************************)
LEMMA InitialState == Init => Inv
<1> SUFFICES ASSUME Init PROVE Inv
  OBVIOUS
<1>1. << >> \in Seq(Unit) /\ << >> \in Seq(Kinds) /\ Len(<< >>) = 0 /\ MaxMsgs \in Nat
  BY ConnectionAssumption
<1>4. crash \in BOOLEAN /\ cut \in BOOLEAN
  BY DEF Init
<1>5. /\ pc = "down" /\ written = << >> /\ kinds = << >> /\ pos = 0 /\ buf = << >> /\ want = 0
      /\ taken = 0 /\ {sentReq, heardReq} \subseteq Requests \cup {Nothing}
  BY DEF Init
<1>2. StreamType
  BY <1>1, <1>4, <1>5 DEF StreamType, TypeOK
<1>3. Stream /\ Start /\ Place /\ PanicNeedsCut
  BY DEF Init, Stream, Start, Place, PanicNeedsCut
<1> QED
  BY <1>2, <1>3 DEF Inv

LEMMA StutterStep ==
  ASSUME Inv, UNCHANGED vars
  PROVE  Inv'
<1>1. UNCHANGED << written, kinds, pos, pc, buf, want, last, crash, sentReq, heardReq, cut, taken >>
  BY DEF vars, inVars, rdVars
<1>2. StreamType'
  BY <1>1 DEF Inv, StreamType, TypeOK
<1>4. Stream'
  BY <1>1, StreamKept DEF Inv
<1>5. Start' /\ PanicNeedsCut'
  BY <1>1 DEF Inv, Start, PanicNeedsCut
<1>3. ~cut => Place'
  BY <1>1 DEF Inv, Place, AtEnd, Inside, InHandshake, BodyOf
<1> QED
  BY <1>1, <1>2, <1>3, <1>4, <1>5 DEF Inv

LEMMA Inductive == Spec => []Inv
<1>1. Inv /\ [Next]_vars => Inv'
  <2> SUFFICES ASSUME Inv, [Next]_vars PROVE Inv'
    OBVIOUS
  <2>1. CASE RemoteHandshake
    BY <2>1, HandshakeStep
  <2>2. ASSUME NEW k \in Kinds, RemoteSend(k) PROVE Inv'
    BY <2>2, SendStep
  <2>3. CASE Announce
    BY <2>3, AnnounceStep
  <2>4. CASE HandshakeRead
    BY <2>4, HandshakeReadStep
  <2>5. CASE AnnounceFails
    BY <2>5, AnnounceFailsStep
  <2>6. CASE ReadPeerMessage
    BY <2>6, ReadPeerMessageStep
  <2>7. CASE ReadUnit
    BY <2>7, ReadUnitStep
  <2>8. CASE SizeRead
    BY <2>8, SizeReadStep
  <2>9. CASE BodyRead
    BY <2>9, BodyReadStep
  <2>10. CASE ReadFails
    BY <2>10, ReadFailsStep
  <2>11. ASSUME NEW r \in Requests, WriteRequest(r) PROVE Inv'
    BY <2>11, WriteRequestStep
  <2>12. CASE UNCHANGED vars
    BY <2>12, StutterStep
  <2> QED
    BY <2>1, <2>2, <2>3, <2>4, <2>5, <2>6, <2>7, <2>8, <2>9, <2>10, <2>11, <2>12 DEF Next, Client
<1> QED
  BY InitialState, <1>1, PTL DEF Spec

\* Every variable of the connection keeps its type, and no read takes more units from the
\* stream than readExactly asked for, so what follows a message is left for the next read.
THEOREM ConnectionTypeCorrect == Spec => []TypeOK
<1>1. Inv => TypeOK
  BY DEF Inv, StreamType
<1> QED
  BY <1>1, Inductive, PTL

\* However many messages come, of whatever kinds and in whatever portions, and however
\* often a read times out before a message begins: ReadPeerMessage returns the messages
\* whole and in the order sent, until a deadline cuts one.
THEOREM MessagesInOrder == Spec => []InOrderUntilCut
<1>1. Inv => InOrderUntilCut
  <2> SUFFICES ASSUME Inv, ~cut PROVE InOrderUntilCut
    BY DEF InOrderUntilCut
  <2>1. /\ Place /\ taken \in 0 .. Len(kinds) /\ taken \in Nat /\ Len(kinds) \in Nat
        /\ pos \in 0 .. Len(written) /\ Len(written) \in Nat
    BY DEF Inv, Place, StreamType, TypeOK
  <2>2. taken > 0 => taken <= Len(kinds) /\ last = BodyOf(taken)
    BY <2>1 DEF Place
  <2>3. ASSUME pc = "idle", pos = Len(written) PROVE taken = Len(kinds)
    <3>1. written[pos] = EndOf(kinds, taken) /\ pos \in 1 .. Len(written)
      BY <2>1, <2>3 DEF Place, AtEnd
    <3>2. written[pos] = EndOf(kinds, Len(kinds))
      BY <2>1, <2>3, <3>1 DEF Inv, Stream
    <3> QED
      BY <3>1, <3>2 DEF EndOf
  <2>4. ASSUME pc = "idle", pos < Len(written)
        PROVE  written[pos + 1] = [msg |-> taken + 1, at |-> 1]
    BY <2>1, <2>4, NextAfterEnd DEF Place
  <2> QED
    BY <2>1, <2>2, <2>3, <2>4 DEF InOrderUntilCut
<1> QED
  BY <1>1, Inductive, PTL

\* NewPeerMessage, which takes the fields of a message without a look at its length, panics
\* on no message of a peer that follows the protocol as long as no deadline cut one.
THEOREM PanicOnlyAfterCut == Spec => []PanicNeedsCut
<1>1. Inv => PanicNeedsCut
  BY DEF Inv
<1> QED
  BY <1>1, Inductive, PTL
=============================================================================

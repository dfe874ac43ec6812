----------------------------- MODULE Connection -----------------------------
(***************************************************************************)
(* The connection of one peer (gotitnet.TimeoutConn) with the messages on  *)
(* it (util.PeerMessage): Peer.Announce dials and exchanges handshakes,    *)
(* Peer.Run then reads messages and writes requests.  TCP delivers what    *)
(* the remote peer wrote in order and in any portions; a deadline ends a   *)
(* read or a write wherever it is.                                         *)
(*                                                                         *)
(* A stream is a sequence of units, a unit a few bytes: unit `at' of       *)
(* message `msg', where message 0 is the handshake, and every other starts *)
(* with SizeUnits units that hold the length of the rest, its body.        *)
(***************************************************************************)
EXTENDS Integers, Sequences

CONSTANTS
  Kinds,        \* the kinds of messages, keepalive among them
  Body,         \* Body[kind]: the units of the body, the first is the type
  Parsed,       \* Parsed[kind]: the first units, which NewPeerMessage looks at
  HandUnits,    \* units of a handshake, 68 bytes
  SizeUnits,    \* units of a length, 4 bytes
  MaxSize,      \* bound: the largest length the client takes from the stream
  MaxMsgs,      \* bound: messages of the remote peer on one connection
  Words,        \* the values of the fields of a request
  Nothing       \* no message has been read

ASSUME ConnectionAssumption ==
  /\ Body \in [Kinds -> 0 .. MaxSize] /\ Parsed \in [Kinds -> 0 .. MaxSize]
  /\ \A k \in Kinds : Parsed[k] <= Body[k] /\ (Parsed[k] = 0 <=> Body[k] = 0)
  /\ HandUnits \in Nat \ {0} /\ SizeUnits \in Nat \ {0}
  /\ MaxSize \in Nat /\ MaxMsgs \in Nat
  /\ Words \subseteq Nat /\ 0 \in Words

VARIABLES
  pc,           \* down, hand, idle, size, body: the read in progress
  written,      \* what the remote peer wrote, units in order
  kinds,        \* the kinds of its messages after the handshake
  pos,          \* how many units the client has read
  buf,          \* the buffer of the readExactly in progress
  want,         \* its length
  last,         \* the message the last ReadPeerMessage returned, its units
  crash,        \* NewPeerMessage has panicked, which ends the process
  sentReq,      \* the last request written whole
  heardReq,     \* that request as the remote peer decodes it
  cut,          \* a read ended inside a message
  taken         \* the messages returned on this connection

inVars == << written, kinds, pos >>
rdVars == << pc, buf, want >>
vars   == << inVars, rdVars, last, crash, sentReq, heardReq, cut, taken >>

Requests == [index: Words, offset: Words, length: Words]

UnitsOf(m, n) == [i \in 1 .. n |-> [msg |-> m, at |-> i]]
BodyOf(m)     == [i \in 1 .. Body[kinds[m]] |-> [msg |-> m, at |-> SizeUnits + i]]

\* The state of a connection that has just been dialled.
Fresh ==
  /\ written' = << >> /\ kinds' = << >> /\ pos' = 0
  /\ buf' = << >> /\ last' = Nothing /\ cut' = FALSE /\ taken' = 0

Init ==
  /\ pc = "down" /\ written = << >> /\ kinds = << >> /\ pos = 0
  /\ buf = << >> /\ want = 0 /\ last = Nothing /\ crash = FALSE
  /\ sentReq = Nothing /\ heardReq = Nothing /\ cut = FALSE /\ taken = 0

(***************************************************************************)
(* The remote peer.                                                        *)
(***************************************************************************)

RemoteHandshake ==
  /\ pc # "down" /\ written = << >>
  /\ written' = UnitsOf(0, HandUnits)
  /\ UNCHANGED << kinds, pos, rdVars, last, crash, sentReq, heardReq, cut, taken >>

RemoteSend(k) ==
  /\ written # << >> /\ Len(kinds) < MaxMsgs
  /\ kinds' = Append(kinds, k)
  /\ written' = written \o UnitsOf(Len(kinds) + 1, SizeUnits + Body[k])
  /\ UNCHANGED << pos, rdVars, last, crash, sentReq, heardReq, cut, taken >>

(***************************************************************************)
(* Announce: a new connection, our handshake, the remote peer's.           *)
(***************************************************************************)

\* readExactly(n) after setReadDeadline, or within the same deadline.
ReadExactly(stage, n) == pc' = stage /\ buf' = << >> /\ want' = n

Announce ==
  /\ pc = "down"
  /\ Fresh
  /\ pc' = "hand" /\ want' = HandUnits
  /\ UNCHANGED << crash, sentReq, heardReq >>

\* isHandshakeValid holds of the units read.
HandshakeRead ==
  /\ pc = "hand" /\ buf = UnitsOf(0, HandUnits)
  /\ pc' = "idle" /\ buf' = << >>
  /\ UNCHANGED << inVars, want, last, crash, sentReq, heardReq, cut, taken >>

\* A deadline, or the handshake of another torrent.  Announce returns the error and
\* the Manager dials again.
AnnounceFails ==
  /\ pc = "hand"
  /\ pc' = "down"
  /\ UNCHANGED << inVars, buf, want, last, crash, sentReq, heardReq, cut, taken >>

(***************************************************************************)
(* ReadPeerMessage.                                                        *)
(***************************************************************************)

\* Mutant of ReadPeerMessage: a shorter length field.
ReadShortSize ==
  /\ pc = "idle" /\ ~crash
  /\ ReadExactly("size", SizeUnits - 1)
  /\ UNCHANGED << inVars, last, crash, sentReq, heardReq, cut, taken >>

ReadPeerMessage ==
  /\ pc = "idle" /\ ~crash
  /\ ReadExactly("size", SizeUnits)
  /\ UNCHANGED << inVars, last, crash, sentReq, heardReq, cut, taken >>

\* Mutant of ReadUnit: a Read into a buffer of its own size, not that of readExactly.
ReadUnitAhead ==
  /\ pc \in {"hand", "size", "body"}
  /\ pos < Len(written)
  /\ buf' = Append(buf, written[pos + 1])
  /\ pos' = pos + 1
  /\ UNCHANGED << written, kinds, pc, want, last, crash, sentReq, heardReq, cut, taken >>

\* A Read of io.ReadFull brings one more unit.
ReadUnit ==
  /\ pc \in {"hand", "size", "body"} /\ Len(buf) < want
  /\ pos < Len(written)
  /\ buf' = Append(buf, written[pos + 1])
  /\ pos' = pos + 1
  /\ UNCHANGED << written, kinds, pc, want, last, crash, sentReq, heardReq, cut, taken >>

\* The lengths the units can stand for: that of the message they begin, and any
\* length if they are not the beginning of a message.
SizesIn(us) ==
  { n \in 0 .. MaxSize :
      \A m \in DOMAIN kinds : us = UnitsOf(m, SizeUnits) => n = Body[kinds[m]] }

SizeRead ==
  /\ pc = "size" /\ Len(buf) = want
  /\ \E n \in SizesIn(buf) : ReadExactly("body", n)
  /\ UNCHANGED << inVars, last, crash, sentReq, heardReq, cut, taken >>

\* The kinds the first unit of a body can stand for.
KindsIn(us) ==
  { k \in Kinds :
      \A m \in DOMAIN kinds :
        us # << >> /\ us[1] = [msg |-> m, at |-> SizeUnits + 1] => k = kinds[m] }

\* Mutant of Panics: no look at the length before the type.
PanicsOnKeepalive(us) == us = << >> \/ \E k \in KindsIn(us) : Len(us) < Parsed[k]

\* NewPeerMessage slices the fields of the kind out of the body and panics when it
\* is too short.  An empty body is a keepalive.
Panics(us) == us # << >> /\ \E k \in KindsIn(us) : Len(us) < Parsed[k]
Parses(us) == us = << >> \/ \E k \in KindsIn(us) : Len(us) >= Parsed[k]

BodyRead ==
  /\ pc = "body" /\ Len(buf) = want
  /\ last' = buf /\ taken' = taken + 1
  /\ \/ Parses(buf) /\ crash' = FALSE
     \/ Panics(buf) /\ crash' = TRUE
  /\ pc' = "idle" /\ buf' = << >>
  /\ UNCHANGED << inVars, want, sentReq, heardReq, cut >>

\* The deadline.  What was read is dropped; Run tries again on the same connection.
ReadFails ==
  /\ pc \in {"size", "body"} /\ Len(buf) < want
  /\ pc' = "idle" /\ buf' = << >>
  /\ cut' = (cut \/ pc = "body" \/ buf # << >>)
  /\ UNCHANGED << inVars, want, last, crash, sentReq, heardReq, taken >>

(***************************************************************************)
(* WriteMsg of a request, when the write takes it whole.                   *)
(***************************************************************************)

\* The payload CreatePieceMessage makes: each PutUint32 writes its first word.
Payload(r) == << r.length, 0, 0 >>

\* A request as the protocol defines it.
Decoded(ws) == [index |-> ws[1], offset |-> ws[2], length |-> ws[3]]

WriteRequest(r) ==
  /\ pc = "idle" /\ ~crash
  /\ sentReq' = r /\ heardReq' = Decoded(Payload(r))
  /\ UNCHANGED << inVars, rdVars, last, crash, cut, taken >>

Client ==
  \/ Announce \/ HandshakeRead \/ AnnounceFails
  \/ ReadPeerMessage \/ ReadUnit \/ SizeRead \/ BodyRead \/ ReadFails
  \/ \E r \in Requests : WriteRequest(r)

Next == Client \/ RemoteHandshake \/ \E k \in Kinds : RemoteSend(k)

Spec == Init /\ [][Next]_vars

(***************************************************************************)
(* Properties.                                                             *)
(***************************************************************************)
\* Every variable keeps its type, and no read takes more than it asked for.
TypeOK ==
  /\ pc \in {"down", "hand", "idle", "size", "body"}
  /\ kinds \in Seq(Kinds) /\ Len(kinds) <= MaxMsgs
  /\ pos \in 0 .. Len(written)
  /\ want \in Nat /\ Len(buf) <= want
  /\ crash \in BOOLEAN /\ cut \in BOOLEAN /\ taken \in Nat
  /\ {sentReq, heardReq} \subseteq Requests \cup {Nothing}

\* "ReadPeerMessage reads whole peer message from socket": while no read has been
\* cut off inside a message, the messages come whole and in the order they were
\* sent, the first right after the handshake, however the deliveries are split
\* and however many reads time out before a message begins.
InOrderUntilCut ==
  ~cut =>
    /\ taken > 0 => taken <= Len(kinds) /\ last = BodyOf(taken)
    /\ pc = "idle" =>
         \/ pos = Len(written) /\ taken = Len(kinds)
         \/ pos < Len(written) /\ written[pos + 1] = [msg |-> taken + 1, at |-> 1]

\* NewPeerMessage, which does not look at the length of a body, panics on no
\* message of a peer that follows the protocol; only after a cut.
PanicNeedsCut == crash => cut

\* The remote peer is asked for what createPieceMessage was asked for.
HeardAsSent == heardReq = sentReq
=============================================================================

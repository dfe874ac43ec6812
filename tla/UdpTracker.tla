----------------------------- MODULE UdpTracker -----------------------------
(***************************************************************************)
(* A UDP tracker as Manager.runTracker uses it: rounds of announces, each  *)
(* tried up to Attempts times by retry.Do, each try a connect and an       *)
(* announce over one socket that all tries share.                          *)
(*                                                                         *)
(* Datagrams are never taken out of `requests' and `answers': one that is  *)
(* never read was lost or is late, one read twice was duplicated, and any  *)
(* order may happen.  Transaction ids are 32 random bits; that two are     *)
(* equal is left out, they are numbered.                                   *)
(***************************************************************************)
EXTENDS Stats

CONSTANTS
  Attempts,     \* tries of retry.Do, 5 in the code
  Rounds,       \* bound: announces of Manager
  ConnIds,      \* connection ids the tracker gives
  MaxAnswers,   \* bound: datagrams of the tracker
  Addrs,        \* what an announce response may list
  NoId          \* connectionId 0: none

ASSUME UdpAssumption ==
  /\ Attempts \in Nat \ {0} /\ Rounds \in Nat /\ MaxAnswers \in Nat
  /\ NoId \notin ConnIds

VARIABLES
  pc,             \* new, left, connect, handshake, announce, readAll, delay, wait, gone
  rounds,         \* announces left
  tries,          \* tries left of this announce
  nextTid,        \* the next transaction id
  tid,            \* that of the request last sent
  connectionId,   \* udpTracker.connectionId
  ips,            \* udpTracker.ips
  data,           \* AnnounceData of this try: downloaded and left
  first,          \* the first datagram of the ReadAll in progress
  requests,       \* every datagram sent to the tracker
  answers,        \* every datagram the tracker sent
  found,          \* the addresses Announce has returned to Manager
  cancelled       \* ctx

netVars   == << requests, answers >>
roundVars == << rounds, tries >>
tidVars   == << nextTid, tid >>
udpVars   == << pc, roundVars, tidVars, connectionId, ips, data, first, netVars,
                found, cancelled >>
vars      == << statsVars, udpVars >>

Nothing == [action |-> "nothing"]

Connect(t) == [kind |-> "connect", tid |-> t]

\* createAnnounce, without what the tracker does not need to be told apart.  `via' is
\* the transaction of the connect in the same try; it is not on the wire.
CreateAnnounce(c, t, via) ==
  [kind |-> "announce", connId |-> c, tid |-> t, via |-> via]

ConnectAnswer(t, c)   == [action |-> "connect", tid |-> t, connId |-> c]
AnnounceAnswer(t, as) == [action |-> "announce", tid |-> t, addrs |-> as]
ErrorAnswer(t)        == [action |-> "error", tid |-> t]

Init ==
  /\ StatsInit
  /\ pc = "new" /\ rounds = Rounds /\ tries = 0
  /\ nextTid = 1 /\ tid = 0 /\ connectionId = NoId /\ ips = {}
  /\ data = [downloaded |-> 0, left |-> Size]
  /\ first = Nothing /\ requests = {} /\ answers = {}
  /\ found = {} /\ cancelled = FALSE

(***************************************************************************)
(* The tracker: it answers a request, perhaps more than once, or does not. *)
(***************************************************************************)

AnswersTo(q) ==
  {ErrorAnswer(q.tid)}
    \cup (IF q.kind = "connect" THEN {ConnectAnswer(q.tid, c) : c \in ConnIds}
          ELSE {AnnounceAnswer(q.tid, Addrs)})

Answer ==
  /\ Cardinality(answers) < MaxAnswers
  /\ \E q \in requests : \E r \in AnswersTo(q) : answers' = answers \cup {r}
  /\ UNCHANGED << statsVars, pc, roundVars, tidVars, connectionId, ips, data,
                  first, requests, found, cancelled >>

(***************************************************************************)
(* Manager.runTracker: rounds, and the tries of retry.Do.                  *)
(***************************************************************************)

BeginRound ==
  /\ rounds > 0
  /\ rounds' = rounds - 1 /\ tries' = Attempts /\ pc' = "downloaded"

DialOk ==
  /\ pc = "new"
  /\ BeginRound
  /\ UNCHANGED << statsVars, tidVars, connectionId, ips, data, first, netVars, found,
                  cancelled >>

DialFails ==
  /\ pc = "new"
  /\ pc' = "gone"
  /\ UNCHANGED << statsVars, roundVars, tidVars, connectionId, ips, data, first,
                  netVars, found, cancelled >>

\* AnnounceData loads its counters one after the other.
ReadDownloaded ==
  /\ pc = "downloaded"
  /\ data' = [data EXCEPT !.downloaded = download]
  /\ pc' = "left"
  /\ UNCHANGED << statsVars, roundVars, tidVars, connectionId, ips, first, netVars,
                  found, cancelled >>

ReadLeft ==
  /\ pc = "left"
  /\ data' = [data EXCEPT !.left = left]
  /\ pc' = "connect"
  /\ UNCHANGED << statsVars, roundVars, tidVars, connectionId, ips, first, netVars,
                  found, cancelled >>

\* Announce has returned an error: retry.Do waits for the next try, if there is one.
TryFails == tries' = tries - 1 /\ pc' = IF tries > 1 THEN "delay" ELSE "wait"

\* The delay of a second and the interval of a minute have not passed yet when a
\* cancelled context is looked at.
DelayOver ==
  /\ pc = "delay" /\ ~cancelled
  /\ pc' = "downloaded"
  /\ UNCHANGED << statsVars, roundVars, tidVars, connectionId, ips, data, first,
                  netVars, found, cancelled >>

IntervalOver ==
  /\ pc = "wait" /\ ~cancelled
  /\ BeginRound
  /\ UNCHANGED << statsVars, tidVars, connectionId, ips, data, first, netVars, found,
                  cancelled >>

\* Mutant of ContextDone: the interval is slept through.
DelayDone ==
  /\ pc = "delay" /\ cancelled
  /\ pc' = "gone"
  /\ UNCHANGED << statsVars, roundVars, tidVars, connectionId, ips, data, first,
                  netVars, found, cancelled >>

ContextDone ==
  /\ pc \in {"delay", "wait"} /\ cancelled
  /\ pc' = "gone"
  /\ UNCHANGED << statsVars, roundVars, tidVars, connectionId, ips, data, first,
                  netVars, found, cancelled >>

(***************************************************************************)
(* Announce.                                                               *)
(***************************************************************************)

\* Mutant of SameTransaction: any answer will do.
AnyTransaction(r) == TRUE

SameTransaction(r) == r.tid = tid

\* What the readers of a response assign, and whether they return no error.
ReadConnect(r) ==
  [ok |-> SameTransaction(r), connectionId |-> IF SameTransaction(r) THEN r.connId ELSE NoId,
   ips |-> ips]

\* `long': the response has 20 bytes or more.
ReadAnnounce(r, long) ==
  [ok |-> long /\ SameTransaction(r), connectionId |-> connectionId,
   ips |-> IF long /\ SameTransaction(r) THEN r.addrs ELSE {}]

ReadError(r) == [ok |-> FALSE, connectionId |-> connectionId, ips |-> ips]

\* parseTrackerResponse goes by the action code of the response.
Parsed(r, long) ==
  CASE r.action = "connect"  -> ReadConnect(r)
    [] r.action = "announce" -> ReadAnnounce(r, long)
    [] OTHER                 -> ReadError(r)

SendConnect ==
  /\ pc = "connect"
  /\ requests' = requests \cup {Connect(nextTid)}
  /\ tid' = nextTid /\ nextTid' = nextTid + 1
  /\ pc' = "handshake"
  /\ UNCHANGED << statsVars, roundVars, connectionId, ips, data, first, answers, found,
                  cancelled >>

\* ReadUdpHandshake takes 16 bytes: a longer datagram is cut off.  A shorter one, an
\* error without much text, is filled up with the next and is an error still.
HandshakeRead ==
  /\ pc = "handshake"
  /\ \E r \in answers :
       LET p == Parsed(r, FALSE) IN
       /\ connectionId' = p.connectionId /\ ips' = p.ips
       /\ IF p.ok THEN pc' = "announce" /\ UNCHANGED tries ELSE TryFails
  /\ UNCHANGED << statsVars, rounds, tidVars, data, first, netVars, found, cancelled >>

\* The write fails, or the read meets its deadline.
HandshakeFails ==
  /\ pc = "handshake"
  /\ TryFails
  /\ UNCHANGED << statsVars, rounds, tidVars, connectionId, ips, data, first, netVars,
                  found, cancelled >>

\* An error of this write is not looked at.
SendAnnounce ==
  /\ pc = "announce"
  /\ requests' = requests \cup {CreateAnnounce(connectionId, nextTid, tid)}
  /\ tid' = nextTid /\ nextTid' = nextTid + 1
  /\ first' = Nothing /\ pc' = "readAll"
  /\ UNCHANGED << statsVars, roundVars, connectionId, ips, data, answers, found,
                  cancelled >>

\* io.ReadAll appends datagram to datagram; only the first decides about the rest.
ReadAllData ==
  /\ pc = "readAll" /\ first = Nothing
  /\ first' \in answers
  /\ UNCHANGED << statsVars, pc, roundVars, tidVars, connectionId, ips, data, netVars,
                  found, cancelled >>

\* Mutant of SocketEnds: a stream.
StreamEnds == {"deadline", "eof"}

\* How the reads of a socket end.  A datagram socket reports no end of file.
SocketEnds == {"deadline"}

\* io.ReadAll returns what it has read at the end of file, and any other error as one.
ReadAllEnds ==
  /\ pc = "readAll"
  /\ \E e \in SocketEnds :
       LET p == IF e = "eof" /\ first # Nothing THEN Parsed(first, TRUE)
                ELSE [ok |-> FALSE, connectionId |-> connectionId, ips |-> ips] IN
       /\ connectionId' = p.connectionId /\ ips' = p.ips
       /\ found' = IF p.ok THEN found \cup p.ips ELSE found
       /\ IF p.ok THEN pc' = "wait" /\ UNCHANGED tries ELSE TryFails
  /\ UNCHANGED << statsVars, rounds, tidVars, data, first, netVars, cancelled >>

Cancel ==
  /\ ~cancelled
  /\ cancelled' = TRUE
  /\ UNCHANGED << statsVars, pc, roundVars, tidVars, connectionId, ips, data, first,
                  netVars, found >>

Client ==
  /\ ~crash
  /\ \/ DialOk \/ DialFails \/ ReadDownloaded \/ ReadLeft
     \/ DelayOver \/ IntervalOver \/ ContextDone
     \/ SendConnect \/ HandshakeRead \/ HandshakeFails
     \/ SendAnnounce \/ ReadAllData \/ ReadAllEnds

Next ==
  \/ Client
  \/ ~crash /\ (Answer \/ Cancel)
  \/ ~crash /\ StatsNext /\ UNCHANGED udpVars

\* The goroutine is scheduled, and every read and write has a deadline.
Spec == Init /\ [][Next]_vars /\ WF_vars(Client)

(***************************************************************************)
(* Properties.                                                             *)
(***************************************************************************)
Answers ==
  [action : {"connect"}, tid : Nat, connId : ConnIds]
    \cup [action : {"announce"}, tid : Nat, addrs : SUBSET Addrs]
    \cup [action : {"error"}, tid : Nat]

Requests ==
  [kind : {"connect"}, tid : Nat]
    \cup [kind : {"announce"}, connId : ConnIds \cup {NoId}, tid : Nat, via : Nat]

\* Every variable keeps its type, the counters among them as numbers below Width.
TypeOK ==
  /\ download \in 0 .. Width - 1 /\ left \in 0 .. Width - 1
  /\ adding \in Blocks \cup {NoBlock} /\ taken \in [Blocks -> Nat]
  /\ crash \in BOOLEAN
  /\ pc \in {"new", "downloaded", "left", "connect", "handshake", "announce",
             "readAll", "delay", "wait", "gone"}
  /\ rounds \in Nat /\ tries \in 0 .. Attempts
  /\ nextTid \in Nat /\ tid \in Nat
  /\ connectionId \in ConnIds \cup {NoId} /\ ips \subseteq Addrs
  /\ data \in [downloaded : 0 .. Width - 1, left : 0 .. Width - 1]
  /\ first \in Answers \cup {Nothing}
  /\ requests \subseteq Requests /\ answers \subseteq Answers
  /\ found \subseteq Addrs /\ cancelled \in BOOLEAN

\* The tries share a socket, so a try may read what an earlier one was sent.  Still
\* every announce carries a connection id that the tracker gave in answer to the
\* connect of the same try.
OwnConnection ==
  \A q \in requests : q.kind = "announce" => ConnectAnswer(q.via, q.connId) \in answers

\* No announce to a UDP tracker returns an address, whatever the tracker answers and
\* whenever: the response is read to the end of file, which never comes.
NoPeersFromUdp == found = {} /\ ips = {}

\* A tracker is told that nothing is left only when a whole torrent has been counted,
\* although the counters are read one by one while the writer changes them.
NothingLeftIsTrue == data.left = 0 => download >= Size

\* As long as no message is counted twice, what trackers are told is left stays within
\* the torrent, and the progress bar within its width.
NoWrapWithoutRepeat ==
  (\A b \in Blocks : taken[b] <= 1) => data.left <= Size /\ ~crash

\* After an interrupt the goroutine of the tracker ends, whatever it was waiting for.
CancelEndsTracker == cancelled ~> (pc = "gone" \/ crash)
=============================================================================

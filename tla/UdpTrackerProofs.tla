--------------------------- MODULE UdpTrackerProofs ---------------------------
(***************************************************************************)
(* What UdpTracker guarantees for any number of tries and rounds, any      *)
(* answers of the tracker and any counters.                                *)
(***************************************************************************)
EXTENDS UdpTracker, StatsProofs

\* Inside an announce there is a try left.
Trying == {"downloaded", "left", "connect", "handshake", "announce", "readAll", "delay"}
TryLeft == pc \in Trying => tries >= 1

TypeInv == TypeOK /\ TryLeft

(***************************************************************************)
(* Types.                                                                  *)
(***************************************************************************)
UdpTypeOK ==
  /\ pc \in Trying \cup {"new", "wait", "gone"}
  /\ rounds \in Nat /\ tries \in 0 .. Attempts
  /\ nextTid \in Nat /\ tid \in Nat
  /\ connectionId \in ConnIds \cup {NoId} /\ ips \subseteq Addrs
  /\ data \in [downloaded : 0 .. Width - 1, left : 0 .. Width - 1]
  /\ first \in Answers \cup {Nothing}
  /\ requests \subseteq Requests /\ answers \subseteq Answers
  /\ found \subseteq Addrs /\ cancelled \in BOOLEAN

LEMMA TypeSplit == TypeOK <=> StatsTypeOK /\ UdpTypeOK
BY DEF TypeOK, StatsTypeOK, UdpTypeOK, Trying

\* A response leaves a connection id and addresses, whatever it is.
LEMMA ParsedType ==
  ASSUME UdpTypeOK, NEW r \in Answers, NEW long \in BOOLEAN
  PROVE  /\ Parsed(r, long).connectionId \in ConnIds \cup {NoId}
         /\ Parsed(r, long).ips \subseteq Addrs
<1>1. CASE r.action = "connect"
  BY <1>1 DEF Parsed, ReadConnect, ReadAnnounce, ReadError, Answers, UdpTypeOK
<1>2. CASE r.action = "announce"
  BY <1>2 DEF Parsed, ReadConnect, ReadAnnounce, ReadError, Answers, UdpTypeOK
<1>3. CASE r.action # "connect" /\ r.action # "announce"
  BY <1>3 DEF Parsed, ReadConnect, ReadAnnounce, ReadError, UdpTypeOK
<1> QED
  BY <1>1, <1>2, <1>3

LEMMA TryFailsType ==
  ASSUME UdpTypeOK, TryLeft, pc \in Trying, TryFails
  PROVE  tries' \in 0 .. Attempts /\ pc' \in Trying \cup {"new", "wait", "gone"} /\ TryLeft'
<1>1. Attempts \in Nat /\ tries \in 1 .. Attempts
  BY UdpAssumption DEF UdpTypeOK, TryLeft
<1> QED
  BY <1>1 DEF TryFails, TryLeft, Trying

LEMMA AnswerType ==
  ASSUME UdpTypeOK, TryLeft, Answer
  PROVE  (UdpTypeOK /\ TryLeft)'
<1>1. PICK q \in requests : \E r \in AnswersTo(q) : answers' = answers \cup {r}
  BY DEF Answer
<1>2. PICK r \in AnswersTo(q) : answers' = answers \cup {r}
  BY <1>1
<1>3. q.tid \in Nat
  BY <1>1 DEF UdpTypeOK, Requests
<1>4. r \in Answers
  BY <1>2, <1>3 DEF AnswersTo, ErrorAnswer, ConnectAnswer, AnnounceAnswer, Answers
<1> QED
  BY <1>2, <1>4 DEF Answer, UdpTypeOK, TryLeft, roundVars, tidVars

\* One step of the goroutine.
LEMMA ClientType ==
  ASSUME StatsTypeOK, UdpTypeOK, TryLeft, Client
  PROVE  (UdpTypeOK /\ TryLeft)'
<1> USE UdpAssumption DEF roundVars, tidVars, netVars
<1>1. CASE DialOk \/ IntervalOver
  BY <1>1 DEF DialOk, IntervalOver, BeginRound, UdpTypeOK, TryLeft, Trying
<1>2. CASE DialFails \/ ContextDone
  BY <1>2 DEF DialFails, ContextDone, UdpTypeOK, TryLeft, Trying
<1>3. CASE ReadDownloaded \/ ReadLeft
  BY <1>3 DEF ReadDownloaded, ReadLeft, UdpTypeOK, TryLeft, Trying, StatsTypeOK
<1>4. CASE DelayOver
  BY <1>4 DEF DelayOver, UdpTypeOK, TryLeft, Trying
<1>5. CASE SendConnect
  <2>1. Connect(nextTid) \in Requests
    BY DEF Connect, Requests, UdpTypeOK
  <2> QED
    BY <1>5, <2>1 DEF SendConnect, UdpTypeOK, TryLeft, Trying
<1>6. CASE HandshakeRead
  <2>1. PICK r \in answers :
          /\ connectionId' = Parsed(r, FALSE).connectionId /\ ips' = Parsed(r, FALSE).ips
          /\ IF Parsed(r, FALSE).ok THEN pc' = "announce" /\ UNCHANGED tries ELSE TryFails
    BY <1>6 DEF HandshakeRead
  <2>2. r \in Answers
    BY <2>1 DEF UdpTypeOK
  <2>3. connectionId' \in ConnIds \cup {NoId} /\ ips' \subseteq Addrs
    BY <2>1, <2>2, ParsedType
  <2>4. tries' \in 0 .. Attempts /\ pc' \in Trying \cup {"new", "wait", "gone"} /\ TryLeft'
    <3>1. pc = "handshake" /\ pc \in Trying
      BY <1>6 DEF HandshakeRead, Trying
    <3>2. CASE Parsed(r, FALSE).ok
      BY <2>1, <3>1, <3>2 DEF UdpTypeOK, TryLeft, Trying
    <3>3. CASE ~Parsed(r, FALSE).ok
      BY <2>1, <3>1, <3>3, TryFailsType
    <3> QED
      BY <3>2, <3>3
  <2> QED
    BY <1>6, <2>3, <2>4 DEF HandshakeRead, UdpTypeOK
<1>7. CASE HandshakeFails
  <2>1. pc \in Trying /\ TryFails
    BY <1>7 DEF HandshakeFails, Trying
  <2> QED
    BY <1>7, <2>1, TryFailsType DEF HandshakeFails, UdpTypeOK
<1>8. CASE SendAnnounce
  <2>1. CreateAnnounce(connectionId, nextTid, tid) \in Requests
    BY DEF CreateAnnounce, Requests, UdpTypeOK
  <2> QED
    BY <1>8, <2>1 DEF SendAnnounce, UdpTypeOK, TryLeft, Trying
<1>9. CASE ReadAllData
  BY <1>9 DEF ReadAllData, UdpTypeOK, TryLeft, Trying
<1>10. CASE ReadAllEnds
  <2>1. /\ pc \in Trying /\ UNCHANGED << connectionId, ips, found >>
        /\ TryFails
    BY <1>10 DEF ReadAllEnds, SocketEnds, Trying
  <2> QED
    BY <1>10, <2>1, TryFailsType DEF ReadAllEnds, UdpTypeOK
<1> QED
  BY <1>1, <1>2, <1>3, <1>4, <1>5, <1>6, <1>7, <1>8, <1>9, <1>10 DEF Client

LEMMA ClientKeepsStats ==
  ASSUME Client
  PROVE  UNCHANGED statsVars
BY DEF Client, DialOk, DialFails, ReadDownloaded, ReadLeft, DelayOver, IntervalOver,
       ContextDone, SendConnect, HandshakeRead, HandshakeFails, SendAnnounce,
       ReadAllData, ReadAllEnds

LEMMA TypeInductive == Spec => []TypeInv
<1>1. Init => TypeInv
  <2> SUFFICES ASSUME Init PROVE StatsTypeOK /\ UdpTypeOK /\ TryLeft
    BY TypeSplit DEF TypeInv
  <2>1. crash \in BOOLEAN /\ cancelled \in BOOLEAN
    BY DEF Init, StatsInit
  <2>2. download = 0 /\ left = Size /\ adding = NoBlock /\ taken = [b \in Blocks |-> 0]
    BY DEF Init, StatsInit
  <2>3. StatsTypeOK
    BY <2>1, <2>2, StatsAssumption DEF StatsTypeOK
  <2>4. /\ pc = "new" /\ rounds = Rounds /\ tries = 0
        /\ nextTid = 1 /\ tid = 0 /\ connectionId = NoId /\ ips = {}
        /\ first = Nothing /\ requests = {} /\ answers = {} /\ found = {}
    BY DEF Init
  <2>5. data \in [downloaded : 0 .. Width - 1, left : 0 .. Width - 1]
    BY StatsAssumption DEF Init
  <2> QED
    BY <2>1, <2>3, <2>4, <2>5, UdpAssumption DEF UdpTypeOK, TryLeft, Trying
<1>2. TypeInv /\ [Next]_vars => TypeInv'
  <2> SUFFICES ASSUME StatsTypeOK, UdpTypeOK, TryLeft, [Next]_vars
               PROVE  (StatsTypeOK /\ UdpTypeOK /\ TryLeft)'
    BY DEF TypeInv, TypeOK, StatsTypeOK, UdpTypeOK, Trying
  <2>1. ASSUME UNCHANGED statsVars PROVE StatsTypeOK'
    BY <2>1 DEF statsVars, StatsTypeOK
  <2>2. ASSUME UNCHANGED udpVars PROVE (UdpTypeOK /\ TryLeft)'
    BY <2>2 DEF udpVars, roundVars, tidVars, netVars, UdpTypeOK, TryLeft
  <2>3. CASE Client
    BY <2>1, <2>3, ClientType, ClientKeepsStats
  <2>4. CASE Answer
    BY <2>1, <2>4, AnswerType DEF Answer
  <2>5. CASE Cancel
    BY <2>1, <2>5 DEF Cancel, UdpTypeOK, TryLeft, roundVars, tidVars, netVars
  <2>6. CASE StatsNext /\ UNCHANGED udpVars
    BY <2>2, <2>6, StatsType
  <2>7. CASE UNCHANGED vars
    BY <2>1, <2>2, <2>7 DEF vars
  <2> QED
    BY <2>3, <2>4, <2>5, <2>6, <2>7 DEF Next
<1> QED
  BY <1>1, <1>2, PTL DEF Spec

\* Every variable keeps its type, whatever the tracker answers: the counters are numbers
\* below Width, and retry.Do never has fewer than no tries left.
THEOREM UdpTypeCorrect == Spec => []TypeOK
BY TypeInductive, PTL DEF TypeInv

(***************************************************************************)
(* Whose connection an announce is made on.  Between the handshake and the *)
(* announce the connection id is the one of the answer to the last         *)
(* request, and answers are never taken back.                              *)
(***************************************************************************)
Connected == pc = "announce" => ConnectAnswer(tid, connectionId) \in answers

LEMMA ConnectionKept ==
  ASSUME OwnConnection, Connected, UNCHANGED << pc, tid, connectionId, requests >>,
         answers \subseteq answers'
  PROVE  (OwnConnection /\ Connected)'
BY DEF OwnConnection, Connected, ConnectAnswer

LEMMA ConnectionClient ==
  ASSUME TypeInv, OwnConnection, Connected, Client
  PROVE  (OwnConnection /\ Connected)'
<1>1. UNCHANGED answers
  BY DEF Client, DialOk, DialFails, ReadDownloaded, ReadLeft, DelayOver, IntervalOver,
         ContextDone, SendConnect, HandshakeRead, HandshakeFails, SendAnnounce,
         ReadAllData, ReadAllEnds, netVars
<1>2. CASE SendConnect
  BY <1>1, <1>2 DEF SendConnect, OwnConnection, Connected, Connect, ConnectAnswer
<1>3. CASE SendAnnounce
  <2>1. ConnectAnswer(tid, connectionId) \in answers
    BY <1>3 DEF SendAnnounce, Connected
  <2> QED
    BY <1>1, <1>3, <2>1
    DEF SendAnnounce, OwnConnection, Connected, CreateAnnounce, ConnectAnswer
<1>4. CASE HandshakeRead
  <2>1. UNCHANGED << requests, tid >>
    BY <1>4 DEF HandshakeRead, netVars, tidVars
  <2>2. PICK r \in answers :
          /\ connectionId' = Parsed(r, FALSE).connectionId
          /\ IF Parsed(r, FALSE).ok THEN pc' = "announce" ELSE TryFails
    BY <1>4 DEF HandshakeRead
  <2>3. r \in Answers
    BY <2>2 DEF TypeInv, TypeOK
  <2>4. ASSUME pc' = "announce" PROVE r = ConnectAnswer(tid, connectionId')
    <3>1. Parsed(r, FALSE).ok
      BY <2>2, <2>4 DEF TryFails
    <3>2. r.action = "connect" /\ r.tid = tid
      BY <3>1 DEF Parsed, ReadConnect, ReadAnnounce, ReadError, SameTransaction
    <3>3. Parsed(r, FALSE).connectionId = r.connId
      BY <3>2 DEF Parsed, ReadConnect, ReadAnnounce, ReadError, SameTransaction
    <3>4. r = [action |-> "connect", tid |-> r.tid, connId |-> r.connId]
      BY <2>3, <3>2 DEF Answers
    <3> QED
      BY <2>2, <3>2, <3>3, <3>4 DEF ConnectAnswer
  <2> QED
    BY <1>1, <2>1, <2>2, <2>4 DEF OwnConnection, Connected
<1>5. CASE ~(SendConnect \/ SendAnnounce \/ HandshakeRead)
  <2>1. UNCHANGED requests /\ pc' # "announce"
    BY <1>5
    DEF Client, DialOk, DialFails, ReadDownloaded, ReadLeft, DelayOver, IntervalOver,
        ContextDone, HandshakeFails, ReadAllData, ReadAllEnds, SocketEnds, BeginRound,
        TryFails, netVars
  <2> QED
    BY <1>1, <2>1 DEF OwnConnection, Connected
<1> QED
  BY <1>2, <1>3, <1>4, <1>5

\* Whichever old answers a try reads from the shared socket, its announce carries the
\* connection id of an answer to its own connect.
THEOREM OwnConnectionOnly == Spec => []OwnConnection
<1>1. Init => OwnConnection /\ Connected
  BY DEF Init, OwnConnection, Connected
<1>2. TypeInv /\ OwnConnection /\ Connected /\ [Next]_vars => (OwnConnection /\ Connected)'
  <2> SUFFICES ASSUME TypeInv, OwnConnection, Connected, [Next]_vars
               PROVE  (OwnConnection /\ Connected)'
    OBVIOUS
  <2>1. CASE Client
    BY <2>1, ConnectionClient
  <2>2. CASE Answer
    BY <2>2, ConnectionKept DEF Answer, tidVars
  <2>3. CASE Cancel
    BY <2>3, ConnectionKept DEF Cancel, tidVars, netVars
  <2>4. CASE UNCHANGED udpVars
    BY <2>4, ConnectionKept DEF udpVars, tidVars, netVars
  <2> QED
    BY <2>1, <2>2, <2>3, <2>4 DEF Next, vars
<1> QED
  BY <1>1, <1>2, TypeInductive, PTL DEF Spec

(***************************************************************************)
(* What an announce brings.                                                *)
(***************************************************************************)

\* No tracker, however it answers, makes an announce over UDP return an address: the
\* handshake has no room for any, and the response after it is never complete.
THEOREM UdpFindsNobody == Spec => []NoPeersFromUdp
<1>1. Init => NoPeersFromUdp
  BY DEF Init, NoPeersFromUdp
<1>2. TypeInv /\ NoPeersFromUdp /\ [Next]_vars => NoPeersFromUdp'
  <2> SUFFICES ASSUME TypeInv, NoPeersFromUdp, [Next]_vars PROVE NoPeersFromUdp'
    OBVIOUS
  <2>1. CASE HandshakeRead
    <3>1. PICK r \in answers : ips' = Parsed(r, FALSE).ips
      BY <2>1 DEF HandshakeRead
    <3>2. ips' = {} /\ UNCHANGED found
      BY <2>1, <3>1 DEF HandshakeRead, Parsed, ReadConnect, ReadAnnounce, ReadError, NoPeersFromUdp
    <3> QED
      BY <3>2 DEF NoPeersFromUdp
  <2>2. CASE ReadAllEnds
    <3>1. UNCHANGED << ips, found >>
      BY <2>2 DEF ReadAllEnds, SocketEnds
    <3> QED
      BY <3>1 DEF NoPeersFromUdp
  <2>3. CASE Client /\ ~HandshakeRead /\ ~ReadAllEnds
    <3>1. UNCHANGED << ips, found >>
      BY <2>3
      DEF Client, DialOk, DialFails, ReadDownloaded, ReadLeft, DelayOver, IntervalOver,
          ContextDone, SendConnect, HandshakeFails, SendAnnounce, ReadAllData
    <3> QED
      BY <3>1 DEF NoPeersFromUdp
  <2>4. CASE Answer \/ Cancel \/ UNCHANGED udpVars
    BY <2>4 DEF Answer, Cancel, udpVars, NoPeersFromUdp
  <2> QED
    BY <2>1, <2>2, <2>3, <2>4 DEF Next, vars
<1> QED
  BY <1>1, <1>2, TypeInductive, PTL DEF Spec

(***************************************************************************)
(* What trackers are told.  The counters say what was counted (StatsProofs)*)
(* and the goroutine only reads them.                                      *)
(***************************************************************************)

\* Steps of others than the writer leave the counters as they are.
LEMMA OthersKeepStats ==
  ASSUME Next, ~StatsNext
  PROVE  UNCHANGED statsVars
BY ClientKeepsStats DEF Next, Answer, Cancel

\* Only AddDownload takes a message, and only the printer panics.
LEMMA OthersTakeNothing ==
  ASSUME [Next]_vars
  PROVE  /\ UNCHANGED taken \/ \E b \in Blocks : AddDownload(b)
         /\ UNCHANGED crash \/ PrintBar
<1>1. CASE StatsNext
  <2>1. CASE FinishAdd
    BY <2>1 DEF FinishAdd
  <2>2. CASE PrintBar
    BY <2>2 DEF PrintBar
  <2>3. CASE \E b \in Blocks : AddDownload(b)
    BY <2>3 DEF AddDownload
  <2> QED
    BY <1>1, <2>1, <2>2, <2>3 DEF StatsNext
<1>2. CASE ~StatsNext
  <2>1. UNCHANGED statsVars
    BY <1>2, OthersKeepStats DEF vars
  <2> QED
    BY <2>1 DEF statsVars
<1> QED
  BY <1>1, <1>2

\* What is told is left is kept, or read from the counter.
LEMMA ToldLeft ==
  ASSUME TypeInv, Next
  PROVE  \/ data'.left = data.left
         \/ data'.left = left /\ UNCHANGED statsVars
<1>1. data \in [downloaded : 0 .. Width - 1, left : 0 .. Width - 1]
  BY DEF TypeInv, TypeOK
<1>2. CASE Client
  <2>1. CASE ReadLeft
    BY <1>1, <2>1 DEF ReadLeft
  <2>2. CASE ReadDownloaded
    BY <1>1, <2>2 DEF ReadDownloaded
  <2> QED
    BY <1>2, <2>1, <2>2
    DEF Client, DialOk, DialFails, DelayOver, IntervalOver, ContextDone, SendConnect,
        HandshakeRead, HandshakeFails, SendAnnounce, ReadAllData, ReadAllEnds
<1>3. CASE Answer \/ Cancel \/ UNCHANGED udpVars
  <2>1. UNCHANGED data
    BY <1>3 DEF Answer, Cancel, udpVars
  <2> QED
    BY <2>1
<1> QED
  BY <1>2, <1>3 DEF Next

LEMMA CountInductive == Spec => []CountInv
<1>1. Init => CountInv
  BY CountInit DEF Init
<1>2. TypeInv /\ CountInv /\ [Next]_vars => CountInv'
  <2> SUFFICES ASSUME TypeInv, CountInv, [Next]_vars PROVE CountInv'
    OBVIOUS
  <2>1. StatsTypeOK
    BY TypeSplit DEF TypeInv
  <2>2. CASE StatsNext
    BY <2>1, <2>2, StatsCounts
  <2>3. CASE UNCHANGED statsVars
    BY <2>3, CountKept DEF statsVars
  <2> QED
    BY <2>2, <2>3, OthersKeepStats DEF vars
<1> QED
  BY <1>1, <1>2, TypeInductive, PTL DEF Spec

\* As long as the writer takes no message twice, what a tracker is told is left stays
\* within the torrent and the progress bar does not panic, whenever the counters are read.
THEOREM NoWrapUnlessRepeated == Spec => []NoWrapWithoutRepeat
<1>1. Init => NoWrapWithoutRepeat
  BY StatsAssumption DEF Init, StatsInit, NoWrapWithoutRepeat
<1>2. TypeInv /\ CountInv /\ NoWrapWithoutRepeat /\ [Next]_vars /\ TypeInv'
        => NoWrapWithoutRepeat'
  <2> SUFFICES ASSUME TypeInv, CountInv, NoWrapWithoutRepeat, [Next]_vars, TypeInv',
                      \A b \in Blocks : taken'[b] <= 1
               PROVE  data'.left <= Size /\ ~crash'
    BY DEF NoWrapWithoutRepeat
  <2>1. StatsTypeOK /\ StatsTypeOK'
    BY TypeSplit DEF TypeInv, TypeOK, StatsTypeOK
  <2>2. \A b \in Blocks : taken[b] <= 1
    <3>1. CASE \E b \in Blocks : AddDownload(b)
      <4>1. PICK b \in Blocks : taken' = [taken EXCEPT ![b] = @ + 1]
        BY <3>1, Additions
      <4> QED
        BY <2>1, <4>1 DEF StatsTypeOK
    <3>2. CASE ~\E b \in Blocks : AddDownload(b)
      <4>1. UNCHANGED taken
        BY <3>2, OthersTakeNothing
      <4> QED
        BY <4>1
    <3> QED
      BY <3>1, <3>2
  <2>3. data.left <= Size /\ ~crash
    BY <2>2 DEF NoWrapWithoutRepeat
  <2>4. /\ Amount <= Size /\ Amount \in Nat
        /\ Size \in Nat /\ Width \in Nat /\ Size < Width
    BY <2>1, <2>2, AmountOnce, AmountType, StatsAssumption
  <2>5. download = Amount /\ left <= Size
    <3>1. Pending \in Nat
      BY <2>1, LengthOfBlock, StatsAssumption DEF Pending, StatsTypeOK
    <3>2. Remaining \in 0 .. Size /\ Amount < Width
      BY <2>4, <3>1 DEF CountInv, Remaining
    <3>3. download = Amount /\ left = Remaining
      BY <3>2 DEF CountInv
    <3> QED
      BY <2>4, <3>2, <3>3
  <2>6. data'.left <= Size
    BY <2>3, <2>5, ToldLeft DEF vars, udpVars
  <2>7. ~crash'
    <3>1. CASE PrintBar
      <4>1. RepeatChars <= BarSize
        BY <2>4, <2>5, BarFits
      <4>2. download \in Nat /\ BarSize \in Nat
        BY <2>4, <2>5, StatsAssumption
      <4>3. PercentCompleted \in Int /\ RepeatChars \in Int
        BY <2>4, <4>2, StatsAssumption DEF PercentCompleted, RepeatChars
      <4>4. ~(RepeatChars > BarSize)
        BY <4>1, <4>2, <4>3
      <4> QED
        BY <3>1, <4>4, Zenon DEF PrintBar
    <3>2. CASE ~PrintBar
      BY <2>3, <3>2, OthersTakeNothing
    <3> QED
      BY <3>1, <3>2
  <2> QED
    BY <2>6, <2>7
<1> QED
  BY <1>1, <1>2, TypeInductive, CountInductive, PTL DEF Spec

\* A tracker is told that nothing is left only after a whole torrent was counted, as
\* long as all that is ever counted is a number that a counter can hold.
THEOREM NothingLeftMeansAll ==
  ASSUME MaxTakes * Size < Width
  PROVE  Spec => []NothingLeftIsTrue
<1>1. Init => NothingLeftIsTrue
  BY StatsAssumption DEF Init, StatsInit, NothingLeftIsTrue
<1>2. TypeInv /\ CountInv /\ CountInv' /\ NothingLeftIsTrue /\ [Next]_vars
        => NothingLeftIsTrue'
  <2> SUFFICES ASSUME TypeInv, CountInv, CountInv', NothingLeftIsTrue, [Next]_vars,
                      data'.left = 0
               PROVE  download' >= Size
    BY DEF NothingLeftIsTrue
  <2>1. StatsTypeOK
    BY TypeSplit DEF TypeInv
  <2>2. /\ Size \in Nat \ {0} /\ Width \in Nat /\ Size < Width /\ MaxTakes \in Nat
        /\ Amount \in Nat /\ Amount < Width
    BY StatsAssumption, AmountType
  <2>3. download = Amount
    BY <2>2 DEF CountInv
  <2>4. CASE data.left = 0
    <3>1. Amount >= Size
      BY <2>3, <2>4 DEF NothingLeftIsTrue
    <3>2. Amount' \in Nat /\ Amount' >= Amount /\ Amount' < Width
      <4>1. CASE \E b \in Blocks : AddDownload(b)
        <5>1. PICK b \in Blocks : taken[b] < MaxTakes /\ taken' = [taken EXCEPT ![b] = @ + 1]
          BY <4>1, Additions
        <5>2. Amount' = Amount + BlockLen(b)
          BY <2>1, <5>1, AmountGrows
        <5>3. BlockLen(b) \in Nat
          BY <2>2, LengthOfBlock
        <5>4. (Amount <= MaxTakes * Size)'
          BY AmountType, PTL
        <5> QED
          BY <2>2, <5>2, <5>3, <5>4
      <4>2. CASE ~\E b \in Blocks : AddDownload(b)
        <5>1. UNCHANGED taken
          BY <4>2, OthersTakeNothing
        <5>2. Amount' = Amount
          BY <5>1 DEF Amount, Counted
        <5> QED
          BY <2>2, <5>2
      <4> QED
        BY <4>1, <4>2
    <3>3. download' = Amount'
      BY <3>2 DEF CountInv
    <3> QED
      BY <2>2, <3>1, <3>2, <3>3
  <2>5. CASE data.left # 0
    <3>1. data'.left = left /\ UNCHANGED statsVars
      BY <2>5, ToldLeft DEF vars, udpVars
    <3>2. left = 0 /\ download' = download
      BY <3>1 DEF statsVars
    <3>3. Pending \in Nat
      BY <2>1, LengthOfBlock, StatsAssumption DEF Pending, StatsTypeOK
    <3>4. Remaining \in Int /\ Remaining + Width > 0
      BY <2>2, <3>3 DEF Remaining
    <3>5. Remaining = 0
      BY <2>2, <3>2, <3>4 DEF CountInv
    <3> QED
      BY <2>2, <2>3, <3>2, <3>3, <3>5 DEF Remaining
  <2> QED
    BY <2>4, <2>5
<1> QED
  BY <1>1, <1>2, TypeInductive, CountInductive, PTL DEF Spec
=============================================================================

---------------------------- MODULE ManagerProofs ----------------------------
(***************************************************************************)
(* Theorems about Manager: one peer per address, the two counters, the      *)
(* panics, and that it implements AddressLife.                             *)
(***************************************************************************)
EXTENDS Manager, FiniteSetTheorems, TLAPS

Started == { a \in Addrs : run[a] # "none" }

\* TypeOK without the counters, whose types follow from what they count.
Shape ==
  /\ mainPc \in MainPcs
  /\ cancelled \in BOOLEAN /\ closed \in BOOLEAN /\ poolNil \in BOOLEAN
  /\ pool \subseteq Addrs /\ connected \subseteq Addrs
  /\ chanLen \in 0 .. ChanCap
  /\ tr \in [Trackers -> TrackerPcs]
  /\ todo \in [Trackers -> SUBSET Addrs]
  /\ cur \in [Trackers -> Addrs \cup {NoAddr}]
  /\ tries \in [Trackers -> 0 .. Attempts]
  /\ rounds \in [Trackers -> 0 .. Rounds]
  /\ run \in [Addrs -> RunPcs]
  /\ writer \in {"loop", "finished"}
  /\ crash \in {"none", "closedChannel", "nilMap", "nilConn", "wgReused"}
  /\ \A t \in Trackers : t \in Announcing <=> cur[t] # NoAddr

\* As long as there is a pool, it holds every address in some tracker's hands and
\* every address whose peer was started; without one AddPeer adds nobody.
InPool ==
  ~poolNil =>
    /\ \A t \in Announcing : cur[t] \in pool
    /\ Started \subseteq pool

Counted == WgCountsRunning /\ PeerNumCounts

Inv == Shape /\ InPool /\ OnePeerPerAddr /\ Counted

(***************************************************************************)
(* Main and the signal touch neither the trackers nor the peers.           *)
(***************************************************************************)
LEMMA MainStep ==
  ASSUME Inv, Main \/ Signal
  PROVE  /\ UNCHANGED << tr, cur, run, wg, peerNum >>
         /\ (poolNil' = poolNil /\ pool' = pool) \/ poolNil' = TRUE
         /\ Shape'
<1>1. UNCHANGED << tr, cur, run, wg, peerNum, todo, tries, rounds, chanLen, writer >>
  BY DEF Main, Signal, WaitPeers, WaitReturns, WaitPanics, ContextDone, CloseChannel,
         StopPeers, StopPanics, ProcessExit, poolVars, trackerVars, chanVars
<1>2. (poolNil' = poolNil /\ pool' = pool) \/ poolNil' = TRUE
  BY DEF Main, Signal, WaitPeers, WaitReturns, WaitPanics, ContextDone, CloseChannel,
         StopPeers, StopPanics, ProcessExit, poolVars
<1>3. Shape'
  <2>1. /\ mainPc' \in MainPcs
        /\ cancelled' \in BOOLEAN /\ closed' \in BOOLEAN /\ poolNil' \in BOOLEAN
        /\ pool' \subseteq Addrs /\ connected' \subseteq Addrs
        /\ crash' \in {"none", "closedChannel", "nilMap", "nilConn", "wgReused"}
    BY DEF Inv, Shape, MainPcs, MainAt, Main, Signal, WaitPeers, WaitReturns,
           WaitPanics, ContextDone, CloseChannel, StopPeers, StopPanics, ProcessExit,
           poolVars
  <2> QED
    BY <1>1, <2>1 DEF Inv, Shape, Announcing
<1> QED
  BY <1>1, <1>2, <1>3

(***************************************************************************)
(* What keeps the invariant, action by action: the types ...               *)
(***************************************************************************)
LEMMA TrackerShape ==
  ASSUME Inv, NEW t \in Trackers, Tracker(t)
  PROVE  Shape'
<1> USE ManagerAssumption DEF Inv, Shape, TrackerAt, TrackerPcs, mainVars, poolVars, chanVars
<1>1. CASE NewTracker(t) \/ AnnounceFailed(t) \/ HandshakeFailed(t) \/ RoundDone(t)
           \/ WaitInterval(t)
  BY <1>1 DEF NewTracker, AnnounceFailed, HandshakeFailed, RoundDone, WaitInterval,
              Announcing
<1>2. CASE AnnounceAnswered(t)
  BY <1>2 DEF AnnounceAnswered, Announcing
<1>3. ASSUME NEW a \in Addrs, AddPeer(t, a) PROVE Shape'
  BY <1>3 DEF AddPeer, Visit, Announcing
<1>4. ASSUME NEW a \in Addrs, AlreadyAdded(t, a) \/ AddPeerPanics(t, a) PROVE Shape'
  BY <1>4 DEF AlreadyAdded, AddPeerPanics, Visit, Announcing
<1>5. CASE Connect(t)
  BY <1>5 DEF Connect, Announcing
<1>6. CASE StartPeer(t)
  BY <1>6 DEF StartPeer, RunPcs, Announcing
<1>7. CASE GiveUp(t)
  BY <1>7 DEF GiveUp, Announcing
<1> QED
  BY <1>1, <1>2, <1>3, <1>4, <1>5, <1>6, <1>7 DEF Tracker

LEMMA PeerShape ==
  ASSUME Inv, NEW a \in Addrs, Peer(a)
  PROVE  Shape'
<1> USE ManagerAssumption DEF Inv, Shape, RunAt, RunPcs, mainVars, poolVars, trackerVars
<1>1. CASE RunContinues(a) \/ RunReturns(a) \/ RunReads(a)
  BY <1>1 DEF RunContinues, RunReturns, RunReads, chanVars, Announcing
<1>2. CASE Deliver(a)
  BY <1>2 DEF Deliver, Announcing
<1>3. CASE DeliverPanics(a)
  BY <1>3 DEF DeliverPanics, chanVars, Announcing
<1>4. CASE WgDone(a)
  BY <1>4 DEF WgDone, chanVars, MainPcs, Announcing
<1> QED
  BY <1>1, <1>2, <1>3, <1>4 DEF Peer

LEMMA WriterShape ==
  ASSUME Inv, Writer
  PROVE  Shape' /\ UNCHANGED << tr, cur, run, wg, peerNum, pool, poolNil >>
BY ManagerAssumption
DEF Inv, Shape, Writer, WriterTakes, WriterFinishes, mainVars, poolVars, trackerVars,
    Announcing

(***************************************************************************)
(* ... one peer per address ...                                            *)
(***************************************************************************)

\* Trackers and peers go on as they were, the pool the same or gone.
LEMMA AddrKept ==
  ASSUME Inv, UNCHANGED << tr, cur, run >>, UNCHANGED << pool, poolNil >> \/ poolNil' = TRUE
  PROVE  InPool' /\ OnePeerPerAddr'
BY DEF Inv, InPool, OnePeerPerAddr, Announcing, Started

LEMMA TrackerAddr ==
  ASSUME Inv, NEW t \in Trackers, Tracker(t)
  PROVE  InPool' /\ OnePeerPerAddr'
<1>1. /\ tr \in [Trackers -> TrackerPcs]
      /\ cur \in [Trackers -> Addrs \cup {NoAddr}]
      /\ run \in [Addrs -> RunPcs]
      /\ \A u \in Trackers : u \in Announcing <=> cur[u] # NoAddr
      /\ pool \subseteq Addrs
  BY DEF Inv, Shape
<1>2. ASSUME NEW a \in Addrs, AddPeer(t, a) PROVE InPool' /\ OnePeerPerAddr'
  <2>1. ~poolNil /\ a \notin pool /\ pool' = pool \cup {a} /\ UNCHANGED << run, poolNil >>
    BY <1>2 DEF AddPeer, mainVars
  <2>2. \A u \in Announcing : cur[u] \in pool
    BY <2>1 DEF Inv, InPool
  <2>3. run[a] = "none"
    BY <2>1 DEF Inv, InPool, Started
  <2>4. /\ Announcing' = Announcing \cup {t}
        /\ t \notin Announcing
        /\ cur' = [cur EXCEPT ![t] = a]
    BY <1>1, <1>2 DEF AddPeer, Visit, Announcing, TrackerPcs
  <2>5. InPool'
    BY <1>1, <2>1, <2>2, <2>4 DEF Inv, InPool, Started, Announcing
  <2>6. OnePeerPerAddr'
    BY <1>1, <2>1, <2>2, <2>3, <2>4 DEF Inv, OnePeerPerAddr, Announcing
  <2> QED
    BY <2>5, <2>6
<1>3. CASE StartPeer(t)
  <2>1. /\ t \in Announcing /\ cur[t] \in Addrs
        /\ Announcing' = Announcing \ {t}
        /\ run' = [run EXCEPT ![cur[t]] = "top"]
        /\ cur' = [cur EXCEPT ![t] = NoAddr]
        /\ UNCHANGED << pool, poolNil >>
    BY <1>1, <1>3 DEF StartPeer, TrackerAt, Announcing, TrackerPcs, mainVars, poolVars
  <2>2. \A u \in Announcing' : cur'[u] = cur[u] /\ cur[u] # cur[t]
    BY <1>1, <2>1 DEF Inv, OnePeerPerAddr, Announcing
  <2>3. OnePeerPerAddr'
    BY <1>1, <2>1, <2>2 DEF Inv, OnePeerPerAddr
  <2>4. InPool'
    BY <1>1, <2>1, <2>2 DEF Inv, InPool, Started
  <2> QED
    BY <2>3, <2>4
<1>4. CASE GiveUp(t)
  <2>1. /\ Announcing' = Announcing \ {t}
        /\ cur' = [cur EXCEPT ![t] = NoAddr]
        /\ UNCHANGED << pool, poolNil, run >>
    BY <1>1, <1>4 DEF GiveUp, TrackerAt, Announcing, TrackerPcs, mainVars
  <2> QED
    BY <1>1, <2>1 DEF Inv, InPool, OnePeerPerAddr, Started, Announcing
<1>5. ASSUME ~StartPeer(t), ~GiveUp(t), \A a \in Addrs : ~AddPeer(t, a)
      PROVE  InPool' /\ OnePeerPerAddr'
  <2>1. Announcing' = Announcing /\ UNCHANGED << cur, run, pool, poolNil >>
    BY <1>1, <1>5
    DEF Tracker, NewTracker, AnnounceAnswered, AnnounceFailed, AlreadyAdded,
        AddPeerPanics, Visit, Connect, HandshakeFailed, RoundDone, WaitInterval,
        TrackerAt, Announcing, TrackerPcs, mainVars, poolVars
  <2> QED
    BY <2>1 DEF Inv, InPool, OnePeerPerAddr, Started
<1> QED
  BY <1>2, <1>3, <1>4, <1>5

LEMMA PeerAddr ==
  ASSUME Inv, NEW a \in Addrs, Peer(a)
  PROVE  InPool' /\ OnePeerPerAddr'
<1>1. /\ run[a] # "none" /\ \A b \in Addrs : run'[b] = "none" <=> run[b] = "none"
      /\ UNCHANGED << tr, cur, pool, poolNil >>
  BY DEF Inv, Shape, Peer, RunContinues, RunReturns, RunReads, Deliver, DeliverPanics,
         WgDone, RunAt, RunPcs, mainVars, poolVars, trackerVars
<1>2. cur \in [Trackers -> Addrs \cup {NoAddr}] /\ \A t \in Announcing : cur[t] \in Addrs
  BY DEF Inv, Shape, Announcing
<1> QED
  BY <1>1, <1>2 DEF Inv, InPool, OnePeerPerAddr, Started, Announcing

(***************************************************************************)
(* ... and the counters.                                                   *)
(***************************************************************************)
LEMMA Finite ==
  /\ IsFiniteSet(Running) /\ IsFiniteSet(Started) /\ IsFiniteSet(Announcing)
  /\ Cardinality(Running) \in Nat /\ Cardinality(Started) \in Nat
  /\ Cardinality(Announcing) \in Nat
<1>1. IsFiniteSet(Running) /\ IsFiniteSet(Started) /\ IsFiniteSet(Announcing)
  BY ManagerAssumption, FS_Subset DEF Running, Started, Announcing
<1> QED
  BY <1>1, FS_CardinalityType

LEMMA CountKept ==
  ASSUME Inv, UNCHANGED << wg, peerNum >>, Running' = Running, Started' = Started,
         Announcing' = Announcing
  PROVE  Counted'
BY DEF Inv, Counted, WgCountsRunning, PeerNumCounts, Started

LEMMA TrackerCount ==
  ASSUME Inv, NEW t \in Trackers, Tracker(t)
  PROVE  Counted'
<1>1. /\ tr \in [Trackers -> TrackerPcs]
      /\ cur \in [Trackers -> Addrs \cup {NoAddr}]
      /\ run \in [Addrs -> RunPcs]
      /\ \A u \in Trackers : u \in Announcing <=> cur[u] # NoAddr
  BY DEF Inv, Shape
<1>2. wg = Cardinality(Running) /\ peerNum = Cardinality(Started) + Cardinality(Announcing)
  BY DEF Inv, Counted, WgCountsRunning, PeerNumCounts, Started
<1>3. ASSUME NEW a \in Addrs, AddPeer(t, a) PROVE Counted'
  <2>1. Announcing' = Announcing \cup {t} /\ t \notin Announcing
    BY <1>1, <1>3 DEF AddPeer, Visit, Announcing, TrackerPcs
  <2>2. peerNum' = peerNum + 1 /\ UNCHANGED << wg, run >>
    BY <1>3 DEF AddPeer
  <2>3. Cardinality(Announcing') = Cardinality(Announcing) + 1
    BY <2>1, Finite, FS_AddElement
  <2> QED
    BY <1>2, <2>2, <2>3, Finite
    DEF Counted, WgCountsRunning, PeerNumCounts, Running, Started
<1>4. CASE StartPeer(t)
  <2>1. /\ t \in Announcing /\ cur[t] \in Addrs /\ run[cur[t]] = "none"
        /\ Announcing' = Announcing \ {t}
        /\ run' = [run EXCEPT ![cur[t]] = "top"]
        /\ wg' = wg + 1 /\ peerNum' = peerNum
    BY <1>1, <1>4
    DEF StartPeer, TrackerAt, Announcing, TrackerPcs, poolVars, Inv, OnePeerPerAddr
  <2>2. /\ Running' = Running \cup {cur[t]} /\ cur[t] \notin Running
        /\ Started' = Started \cup {cur[t]} /\ cur[t] \notin Started
    BY <1>1, <2>1 DEF Running, Started
  <2>3. /\ Cardinality(Running') = Cardinality(Running) + 1
        /\ Cardinality(Started') = Cardinality(Started) + 1
    BY <2>2, Finite, FS_AddElement
  <2>4. Cardinality(Announcing') = Cardinality(Announcing) - 1
    BY <2>1, Finite, FS_RemoveElement
  <2> QED
    BY <1>2, <2>1, <2>3, <2>4, Finite DEF Counted, WgCountsRunning, PeerNumCounts, Started
<1>5. CASE GiveUp(t)
  <2>1. /\ t \in Announcing
        /\ Announcing' = Announcing \ {t}
        /\ peerNum' = peerNum - 1 /\ UNCHANGED << wg, run >>
    BY <1>1, <1>5 DEF GiveUp, TrackerAt, Announcing, TrackerPcs
  <2>2. Cardinality(Announcing') = Cardinality(Announcing) - 1
    BY <2>1, Finite, FS_RemoveElement
  <2> QED
    BY <1>2, <2>1, <2>2, Finite
    DEF Counted, WgCountsRunning, PeerNumCounts, Running, Started
<1>6. ASSUME ~StartPeer(t), ~GiveUp(t), \A a \in Addrs : ~AddPeer(t, a)
      PROVE  Counted'
  <2>1. Announcing' = Announcing /\ UNCHANGED << run, wg, peerNum >>
    BY <1>1, <1>6
    DEF Tracker, NewTracker, AnnounceAnswered, AnnounceFailed, AlreadyAdded,
        AddPeerPanics, Visit, Connect, HandshakeFailed, RoundDone, WaitInterval,
        TrackerAt, Announcing, TrackerPcs, mainVars, poolVars
  <2> QED
    BY <2>1, CountKept DEF Running, Started
<1> QED
  BY <1>3, <1>4, <1>5, <1>6

LEMMA PeerCount ==
  ASSUME Inv, NEW a \in Addrs, Peer(a)
  PROVE  Counted'
<1>1. run \in [Addrs -> RunPcs]
  BY DEF Inv, Shape
<1>2. CASE WgDone(a)
  <2>1. /\ a \in Running /\ Running' = Running \ {a} /\ Started' = Started
        /\ wg' = wg - 1 /\ UNCHANGED << tr, peerNum >>
    BY <1>1, <1>2 DEF WgDone, RunAt, Running, Started, poolVars, trackerVars
  <2>2. Cardinality(Running') = Cardinality(Running) - 1
    BY <2>1, Finite, FS_RemoveElement
  <2> QED
    BY <2>1, <2>2, Finite
    DEF Inv, Counted, WgCountsRunning, PeerNumCounts, Announcing, Started
<1>3. CASE ~WgDone(a)
  <2>1. /\ Running' = Running /\ Started' = Started
        /\ UNCHANGED << tr, wg, peerNum >>
    BY <1>1, <1>3
    DEF Peer, RunContinues, RunReturns, RunReads, Deliver, DeliverPanics, RunAt,
        Running, Started, RunPcs, poolVars, trackerVars
  <2> QED
    BY <2>1, CountKept DEF Announcing
<1> QED
  BY <1>2, <1>3

(***************************************************************************)
(* The invariant and the theorems.                                         *)
(***************************************************************************)
LEMMA InitInv == Init => Inv
<1> SUFFICES ASSUME Init PROVE Inv
  OBVIOUS
<1>1. Running = {} /\ Started = {} /\ Announcing = {}
  BY DEF Init, Running, Started, Announcing
<1>2. Shape
  <2>1. tr \in [Trackers -> TrackerPcs] /\ run \in [Addrs -> RunPcs] /\ mainPc \in MainPcs
    BY DEF Init, MainPcs, TrackerPcs, RunPcs
  <2>2. /\ todo \in [Trackers -> SUBSET Addrs]
        /\ cur \in [Trackers -> Addrs \cup {NoAddr}]
        /\ tries \in [Trackers -> 0 .. Attempts]
        /\ rounds \in [Trackers -> 0 .. Rounds]
        /\ chanLen \in 0 .. ChanCap
    BY ManagerAssumption DEF Init
  <2>3. \A t \in Trackers : t \in Announcing <=> cur[t] # NoAddr
    BY <1>1 DEF Init
  <2> QED
    BY <2>1, <2>2, <2>3 DEF Init, Shape
<1>3. InPool /\ OnePeerPerAddr
  BY <1>1 DEF InPool, OnePeerPerAddr
<1>4. Counted
  BY <1>1, FS_EmptySet DEF Init, Counted, WgCountsRunning, PeerNumCounts, Started
<1> QED
  BY <1>2, <1>3, <1>4 DEF Inv

LEMMA NextInv == Inv /\ [Next]_vars => Inv'
<1> SUFFICES ASSUME Inv, [Next]_vars PROVE Inv'
  OBVIOUS
<1>1. CASE Main \/ Signal
  <2>1. UNCHANGED << tr, cur, run, wg, peerNum >> /\ Shape'
    BY <1>1, MainStep
  <2>2. InPool' /\ OnePeerPerAddr'
    BY <1>1, MainStep, AddrKept
  <2>3. Counted'
    BY <2>1, CountKept DEF Running, Started, Announcing
  <2> QED
    BY <2>1, <2>2, <2>3 DEF Inv
<1>2. ASSUME NEW t \in Trackers, Tracker(t) PROVE Inv'
  BY <1>2, TrackerShape, TrackerAddr, TrackerCount DEF Inv
<1>3. ASSUME NEW a \in Addrs, Peer(a) PROVE Inv'
  BY <1>3, PeerShape, PeerAddr, PeerCount DEF Inv
<1>4. CASE Writer
  <2>1. Shape' /\ UNCHANGED << tr, cur, run, wg, peerNum, pool, poolNil >>
    BY <1>4, WriterShape
  <2>2. Counted'
    BY <2>1, CountKept DEF Running, Started, Announcing
  <2> QED
    BY <2>1, <2>2, AddrKept DEF Inv
<1>5. CASE UNCHANGED vars
  <2>1. UNCHANGED << tr, cur, run, wg, peerNum, pool, poolNil >> /\ Shape'
    BY <1>5 DEF vars, mainVars, poolVars, trackerVars, chanVars, Inv, Shape, Announcing
  <2>2. Counted'
    BY <2>1, CountKept DEF Running, Started, Announcing
  <2> QED
    BY <2>1, <2>2, AddrKept DEF Inv
<1> QED
  BY <1>1, <1>2, <1>3, <1>4, <1>5 DEF Next

LEMMA Inductive == Spec => []Inv
BY InitInv, NextInv, PTL DEF Spec

\* Every variable keeps its type; in particular neither the WaitGroup's counter
\* nor the number of peers goes below zero.
THEOREM ManagerTypeCorrect == Spec => []TypeOK
<1>1. Inv => TypeOK
  BY Finite DEF Inv, Shape, Counted, WgCountsRunning, PeerNumCounts, TypeOK, Started
<1> QED
  BY <1>1, Inductive, PTL

\* Any number of trackers that hand out any addresses in any order: AddPeer lets
\* one of them announce to an address, once.
THEOREM OneAnnouncePerAddr == Spec => []OnePeerPerAddr
BY Inductive, PTL DEF Inv

\* The WaitGroup counts the running peers, whoever starts and ends when.
THEOREM WaitGroupCounts == Spec => []WgCountsRunning
BY Inductive, PTL DEF Inv, Counted

\* The number of peers shown is that of the peers started or being announced to.
THEOREM PeersCounted == Spec => []PeerNumCounts
BY Inductive, PTL DEF Inv, Counted

(***************************************************************************)
(* Panics: what leads to one comes after the cancellation.                 *)
(***************************************************************************)

\* Main is past its wait for the context, the channel closed or the pool gone only
\* once the context is cancelled.
Ended ==
  mainPc \in {"close", "stop", "return", "exited"} \/ closed \/ poolNil

EndsCancelled == (Ended => cancelled) /\ NoPanicBeforeCancel

LEMMA EndsInit == Init => EndsCancelled
BY DEF Init, EndsCancelled, Ended, NoPanicBeforeCancel

\* The two facts in one: whoever leaves main, channel and pool as they are keeps the
\* first, and the second if his panic has one of them for a cause.
LEMMA EndsKept ==
  ASSUME EndsCancelled, UNCHANGED << mainPc, cancelled, closed, poolNil >>,
         crash' = crash \/ closed \/ poolNil
  PROVE  EndsCancelled'
BY DEF EndsCancelled, Ended, NoPanicBeforeCancel

LEMMA MainEnds ==
  ASSUME EndsCancelled, Main
  PROVE  EndsCancelled'
<1> USE DEF EndsCancelled, Ended, NoPanicBeforeCancel, MainAt
<1>1. CASE WaitPeers \/ WaitReturns
  BY <1>1 DEF WaitPeers, WaitReturns
<1>2. CASE WaitPanics
  BY <1>2 DEF WaitPanics
<1>3. CASE ContextDone \/ CloseChannel \/ ProcessExit
  BY <1>3 DEF ContextDone, CloseChannel, ProcessExit
<1>4. CASE StopPeers \/ StopPanics
  BY <1>4 DEF StopPeers, StopPanics
<1> QED
  BY <1>1, <1>2, <1>3, <1>4 DEF Main

LEMMA TrackerEnds ==
  ASSUME EndsCancelled, NEW t \in Trackers, Tracker(t)
  PROVE  EndsCancelled'
<1>1. UNCHANGED << mainPc, cancelled, closed, poolNil >> /\ (crash' = crash \/ poolNil)
  BY DEF Tracker, NewTracker, AnnounceAnswered, AnnounceFailed, AddPeer, AlreadyAdded,
         AddPeerPanics, Connect, HandshakeFailed, StartPeer, GiveUp, RoundDone, WaitInterval,
         mainVars
<1> QED
  BY <1>1, EndsKept

LEMMA PeerEnds ==
  ASSUME EndsCancelled, NEW a \in Addrs, Peer(a)
  PROVE  EndsCancelled'
<1>1. CASE WgDone(a)
  BY <1>1 DEF WgDone, EndsCancelled, Ended, NoPanicBeforeCancel
<1>2. CASE ~WgDone(a)
  <2>1. UNCHANGED << mainPc, cancelled, closed, poolNil >> /\ (crash' = crash \/ closed)
    BY <1>2 DEF Peer, RunContinues, RunReturns, RunReads, Deliver, DeliverPanics, mainVars
  <2> QED
    BY <2>1, EndsKept
<1> QED
  BY <1>1, <1>2

LEMMA EndsNext == EndsCancelled /\ [Next]_vars => EndsCancelled'
<1> SUFFICES ASSUME EndsCancelled, [Next]_vars PROVE EndsCancelled'
  OBVIOUS
<1>1. CASE Main
  BY <1>1, MainEnds
<1>2. CASE Signal
  BY <1>2 DEF Signal, EndsCancelled, Ended, NoPanicBeforeCancel
<1>3. ASSUME NEW t \in Trackers, Tracker(t) PROVE EndsCancelled'
  BY <1>3, TrackerEnds
<1>4. ASSUME NEW a \in Addrs, Peer(a) PROVE EndsCancelled'
  BY <1>4, PeerEnds
<1>5. CASE Writer \/ UNCHANGED vars
  BY <1>5, EndsKept DEF Writer, WriterTakes, WriterFinishes, vars, mainVars
<1> QED
  BY <1>1, <1>2, <1>3, <1>4, <1>5 DEF Next

\* However trackers, peers and main interleave, nothing but the reuse of the WaitGroup panics
\* before the context is cancelled: no send on a closed channel, no write to the nil pool, no
\* close of a nil connection.
THEOREM PanicsAfterCancel == Spec => []NoPanicBeforeCancel
<1>1. Spec => []EndsCancelled
  BY EndsInit, EndsNext, PTL DEF Spec
<1>2. EndsCancelled => NoPanicBeforeCancel
  BY DEF EndsCancelled
<1> QED
  BY <1>1, <1>2, PTL

(***************************************************************************)
(* The Manager implements AddressLife.                                     *)
(***************************************************************************)

\* How far the end of the download has come shows in main's place.
PhaseInv ==
  /\ closed <=> mainPc \in {"stop", "return", "exited"}
  /\ poolNil <=> mainPc \in {"return", "exited"}

LifeInv == Inv /\ EndsCancelled /\ PhaseInv

LEMMA PhaseNext == PhaseInv /\ [Next]_vars => PhaseInv'
<1> SUFFICES ASSUME PhaseInv, [Next]_vars PROVE PhaseInv'
  OBVIOUS
<1> USE DEF PhaseInv
<1>1. CASE Main
  BY <1>1 DEF Main, MainAt, WaitPeers, WaitReturns, WaitPanics, ContextDone, CloseChannel,
              StopPeers, StopPanics, ProcessExit
<1>2. CASE Signal
  BY <1>2 DEF Signal
<1>3. ASSUME NEW t \in Trackers, Tracker(t) PROVE PhaseInv'
  BY <1>3
  DEF Tracker, NewTracker, AnnounceAnswered, AnnounceFailed, AddPeer, AlreadyAdded,
      AddPeerPanics, Connect, HandshakeFailed, StartPeer, GiveUp, RoundDone, WaitInterval,
      mainVars
<1>4. ASSUME NEW a \in Addrs, Peer(a) PROVE PhaseInv'
  BY <1>4
  DEF Peer, RunContinues, RunReturns, RunReads, Deliver, DeliverPanics, WgDone, mainVars
<1>5. CASE Writer \/ UNCHANGED vars
  BY <1>5 DEF Writer, WriterTakes, WriterFinishes, vars, mainVars
<1> QED
  BY <1>1, <1>2, <1>3, <1>4, <1>5 DEF Next

LEMMA LifeInductive == Spec => []LifeInv
<1>1. Init => PhaseInv
  BY DEF Init, PhaseInv
<1> QED
  BY <1>1, PhaseNext, InitInv, NextInv, EndsInit, EndsNext, PTL DEF Spec, LifeInv

\* What a step leaves as it is, an address sees nothing of.
LEMMA StageKept ==
  ASSUME NEW a \in Addrs, run'[a] = run[a], a \in Announced' <=> a \in Announced,
         poolNil' = poolNil, a \in pool' <=> a \in pool
  PROVE  StageOf(a)' = StageOf(a)
BY DEF StageOf, Running

\* One address moves to the stage x, the others see nothing of the step.
LEMMA StageMoved ==
  ASSUME NEW a \in Addrs, NEW x, StageOf(a)' = x,
         \A b \in Addrs \ {a} : StageOf(b)' = StageOf(b)
  PROVE  [b \in Addrs |-> StageOf(b)]' = [[b \in Addrs |-> StageOf(b)] EXCEPT ![a] = x]
OBVIOUS

\* The phase is main's alone.
LEMMA PhaseKept ==
  ASSUME UNCHANGED << closed, poolNil >>,
         mainPc' = mainPc \/ (mainPc = "waiting" /\ mainPc' = "released")
  PROVE  Phase' = Phase
BY DEF Phase

\* A peer that has been started is announced to by nobody.
LEMMA StartedNotAnnounced ==
  ASSUME Inv, NEW a \in Announced
  PROVE  a \in Addrs /\ run[a] = "none" /\ StageOf(a) = "announced"
<1>1. PICK t \in Announcing : a = cur[t]
  BY DEF Announced
<1>2. a \in Addrs /\ run[a] = "none"
  BY <1>1 DEF Inv, Shape, Announcing, OnePeerPerAddr
<1> QED
  BY <1>2 DEF StageOf, Running

LEMMA TrackerLife ==
  ASSUME LifeInv, NEW t \in Trackers, Tracker(t)
  PROVE  [Life!Next]_Life!vars
<1>1. /\ Inv
      /\ tr \in [Trackers -> TrackerPcs]
      /\ cur \in [Trackers -> Addrs \cup {NoAddr}]
      /\ run \in [Addrs -> RunPcs]
      /\ \A u \in Trackers : u \in Announcing <=> cur[u] # NoAddr
  BY DEF LifeInv, Inv, Shape
<1>2. UNCHANGED mainVars /\ Phase' = Phase
  <2>1. UNCHANGED mainVars
    BY DEF Tracker, NewTracker, AnnounceAnswered, AnnounceFailed, AddPeer, AlreadyAdded,
           AddPeerPanics, Connect, HandshakeFailed, StartPeer, GiveUp, RoundDone, WaitInterval
  <2> QED
    BY <2>1, PhaseKept DEF mainVars
<1>3. ASSUME NEW a \in Addrs, AddPeer(t, a) PROVE Life!Announce(a)
  <2>1. /\ ~poolNil /\ a \notin pool /\ pool' = pool \cup {a}
        /\ UNCHANGED << run, wg >> /\ peerNum' = peerNum + 1
    BY <1>3 DEF AddPeer
  <2>2. a \notin Announced /\ run[a] = "none"
    BY <1>1, <2>1 DEF Inv, InPool, Announced, Started
  <2>3. Announced' = Announced \cup {a}
    <3>1. Announcing' = Announcing \cup {t} /\ t \notin Announcing /\ cur' = [cur EXCEPT ![t] = a]
      BY <1>1, <1>3 DEF AddPeer, Visit, Announcing, TrackerPcs
    <3> QED
      BY <1>1, <3>1 DEF Announced, Announcing
  <2>4. StageOf(a) = "new" /\ StageOf(a)' = "announced"
    BY <2>1, <2>2, <2>3 DEF StageOf, Running
  <2>5. \A b \in Addrs \ {a} : StageOf(b)' = StageOf(b)
    BY <1>2, <2>1, <2>3, StageKept DEF mainVars
  <2>6. Phase # "stopped"
    BY <2>1 DEF Phase
  <2> QED
    BY <1>2, <2>1, <2>4, <2>5, <2>6, StageMoved DEF Life!Announce, Life!Goes, mainVars
<1>4. ASSUME t \in Announcing, Announcing' = Announcing \ {t}, cur' = [cur EXCEPT ![t] = NoAddr]
      PROVE  cur[t] \in Announced /\ Announced' = Announced \ {cur[t]}
  <2>1. \A u \in Announcing' : cur'[u] = cur[u] /\ cur[u] # cur[t]
    BY <1>1, <1>4 DEF Inv, OnePeerPerAddr, Announcing
  <2>2. \A u \in Announcing : u = t \/ u \in Announcing'
    BY <1>4
  <2> QED
    BY <1>4, <2>1, <2>2 DEF Announced
<1>5. ASSUME NEW a, a = cur[t], StartPeer(t) PROVE a \in Addrs /\ Life!Start(a)
  <2>1. /\ t \in Announcing /\ Announcing' = Announcing \ {t}
        /\ cur' = [cur EXCEPT ![t] = NoAddr] /\ run' = [run EXCEPT ![a] = "top"]
        /\ UNCHANGED << pool, peerNum >> /\ wg' = wg + 1
    BY <1>1, <1>5 DEF StartPeer, TrackerAt, Announcing, TrackerPcs, poolVars
  <2>2. a \in Announced /\ Announced' = Announced \ {a} /\ a \in Addrs /\ StageOf(a) = "announced"
    BY <1>1, <1>4, <1>5, <2>1, StartedNotAnnounced
  <2>3. StageOf(a)' = "running"
    BY <1>1, <2>1, <2>2 DEF StageOf, Running
  <2>4. \A b \in Addrs \ {a} : StageOf(b)' = StageOf(b)
    BY <1>1, <1>2, <2>1, <2>2, StageKept DEF mainVars
  <2>5. Life!Start(a)
    BY <1>2, <2>1, <2>2, <2>3, <2>4, StageMoved DEF Life!Start, Life!Goes, mainVars
  <2> QED
    BY <2>2, <2>5
<1>6. ASSUME NEW a, a = cur[t], GiveUp(t) PROVE a \in Addrs /\ Life!Fail(a)
  <2>1. /\ t \in Announcing /\ Announcing' = Announcing \ {t}
        /\ cur' = [cur EXCEPT ![t] = NoAddr]
        /\ UNCHANGED << pool, run, wg >> /\ peerNum' = peerNum - 1
    BY <1>1, <1>6 DEF GiveUp, TrackerAt, Announcing, TrackerPcs
  <2>2. a \in Announced /\ Announced' = Announced \ {a} /\ a \in Addrs
        /\ run[a] = "none" /\ StageOf(a) = "announced"
    BY <1>1, <1>4, <1>6, <2>1, StartedNotAnnounced
  <2>3. ~poolNil => a \in pool
    BY <1>1, <1>6, <2>1 DEF Inv, InPool
  <2>4. Phase = "stopped" <=> poolNil
    BY DEF Phase
  <2>5. StageOf(a)' = IF Phase = "stopped" THEN "shut" ELSE "failed"
    BY <1>2, <2>1, <2>2, <2>3, <2>4 DEF StageOf, Running, mainVars
  <2>6. \A b \in Addrs \ {a} : StageOf(b)' = StageOf(b)
    BY <1>2, <2>1, <2>2, StageKept DEF mainVars
  <2>7. Life!Fail(a)
    BY <1>2, <2>1, <2>2, <2>5, <2>6, StageMoved DEF Life!Fail, Life!Goes, mainVars
  <2> QED
    BY <2>2, <2>7
<1>7. ASSUME ~StartPeer(t), ~GiveUp(t), \A a \in Addrs : ~AddPeer(t, a)
      PROVE  UNCHANGED Life!vars
  <2>1. Announcing' = Announcing /\ UNCHANGED << cur, run, pool, wg, peerNum >>
    BY <1>1, <1>7
    DEF Tracker, NewTracker, AnnounceAnswered, AnnounceFailed, AlreadyAdded,
        AddPeerPanics, Visit, Connect, HandshakeFailed, RoundDone, WaitInterval,
        TrackerAt, Announcing, TrackerPcs, poolVars
  <2>2. \A a \in Addrs : StageOf(a)' = StageOf(a)
    BY <1>2, <2>1, StageKept DEF Announced, mainVars
  <2> QED
    BY <1>2, <2>1, <2>2 DEF Life!vars, mainVars
<1> QED
  BY <1>3, <1>5, <1>6, <1>7 DEF Life!Next

LEMMA PeerLife ==
  ASSUME LifeInv, NEW a \in Addrs, Peer(a)
  PROVE  [Life!Next]_Life!vars
<1>1. Inv /\ run \in [Addrs -> RunPcs]
  BY DEF LifeInv, Inv, Shape
<1>2. UNCHANGED << tr, cur, pool, peerNum, cancelled, closed, poolNil >> /\ Phase' = Phase
  <2>1. UNCHANGED << tr, cur, pool, peerNum, cancelled, closed, poolNil >>
    BY DEF Peer, RunContinues, RunReturns, RunReads, Deliver, DeliverPanics, WgDone,
           mainVars, poolVars, trackerVars
  <2>2. mainPc' = mainPc \/ (mainPc = "waiting" /\ mainPc' = "released")
    BY DEF Peer, RunContinues, RunReturns, RunReads, Deliver, DeliverPanics, WgDone, mainVars
  <2> QED
    BY <2>1, <2>2, PhaseKept
<1>3. Announced' = Announced
  BY <1>2 DEF Announced, Announcing
<1>4. CASE WgDone(a)
  <2>1. run[a] = "returned" /\ run' = [run EXCEPT ![a] = "done"] /\ wg' = wg - 1
    BY <1>4 DEF WgDone, RunAt
  <2>2. StageOf(a) = "running" /\ StageOf(a)' = "finished"
    BY <1>1, <2>1 DEF StageOf, Running
  <2>3. \A b \in Addrs \ {a} : StageOf(b)' = StageOf(b)
    BY <1>1, <1>2, <1>3, <2>1, StageKept
  <2>4. Life!Finish(a)
    BY <1>2, <2>1, <2>2, <2>3, StageMoved DEF Life!Finish, Life!Goes
  <2> QED
    BY <2>4 DEF Life!Next
<1>5. CASE ~WgDone(a)
  <2>1. /\ wg' = wg /\ Running' = Running
        /\ \A b \in Addrs : run'[b] = "done" <=> run[b] = "done"
    BY <1>1, <1>5
    DEF Peer, RunContinues, RunReturns, RunReads, Deliver, DeliverPanics, RunAt, Running, RunPcs
  <2>2. \A b \in Addrs : StageOf(b)' = StageOf(b)
    BY <1>2, <1>3, <2>1 DEF StageOf
  <2> QED
    BY <1>2, <2>1, <2>2 DEF Life!vars
<1> QED
  BY <1>4, <1>5

LEMMA MainLife ==
  ASSUME LifeInv, Main \/ Signal
  PROVE  [Life!Next]_Life!vars
<1>1. Inv /\ PhaseInv /\ EndsCancelled /\ UNCHANGED << tr, cur, run, wg, peerNum >>
  BY MainStep DEF LifeInv
<1>2. Announced' = Announced
  BY <1>1 DEF Announced, Announcing
<1>3. UNCHANGED << pool, poolNil >> => \A a \in Addrs : StageOf(a)' = StageOf(a)
  BY <1>1, <1>2, StageKept
<1>4. wg = 0 => \A a \in Addrs : StageOf(a) # "running"
  <2>1. wg = 0 => Running = {}
    BY <1>1, Finite, FS_EmptySet DEF Inv, Counted, WgCountsRunning
  <2> QED
    BY <2>1 DEF StageOf
<1>5. CASE (WaitPeers /\ wg = 0) \/ WaitReturns
  <2>1. /\ Phase = "waiting" /\ Phase' = "waited" /\ wg = 0
        /\ UNCHANGED << pool, poolNil, cancelled >>
    BY <1>1, <1>5 DEF WaitPeers, WaitReturns, MainAt, Phase, PhaseInv, poolVars
  <2>2. Life!Waited
    BY <1>1, <1>3, <1>4, <2>1 DEF Life!Waited, Life!Enters, Life!NobodyRuns
  <2> QED
    BY <2>2 DEF Life!Next
<1>6. CASE (WaitPeers /\ wg # 0) \/ WaitPanics \/ ContextDone \/ ProcessExit
  <2>1. Phase' = Phase /\ UNCHANGED << pool, poolNil, cancelled >>
    BY <1>1, <1>6
    DEF WaitPeers, WaitPanics, ContextDone, ProcessExit, MainAt, Phase, PhaseInv, poolVars
  <2> QED
    BY <1>1, <1>3, <2>1 DEF Life!vars
<1>7. CASE CloseChannel
  <2>1. /\ Phase = "waited" /\ Phase' = "closed" /\ cancelled
        /\ UNCHANGED << pool, poolNil, cancelled >>
    BY <1>1, <1>7
    DEF CloseChannel, MainAt, Phase, PhaseInv, EndsCancelled, Ended, poolVars
  <2>2. Life!Close
    BY <1>1, <1>3, <2>1 DEF Life!Close, Life!Enters
  <2> QED
    BY <2>2 DEF Life!Next
<1>8. CASE StopPeers
  <2>1. /\ Phase = "closed" /\ Phase' = "stopped" /\ cancelled' = TRUE
        /\ ~poolNil /\ poolNil' = TRUE
    BY <1>1, <1>8 DEF StopPeers, MainAt, Phase, PhaseInv
  <2>2. \A a \in Addrs : StageOf(a)' = IF StageOf(a) \in {"new", "failed"} THEN "shut" ELSE StageOf(a)
    BY <1>1, <1>2, <2>1 DEF StageOf, Running
  <2>3. Life!Stop
    BY <1>1, <2>1, <2>2 DEF Life!Stop, Life!Enters
  <2> QED
    BY <2>3 DEF Life!Next
<1>9. CASE StopPanics \/ Signal
  <2>1. Phase' = Phase /\ cancelled' = TRUE /\ UNCHANGED << pool, poolNil >>
    BY <1>1, <1>9 DEF StopPanics, Signal, MainAt, Phase, poolVars
  <2>2. Life!Cancel
    BY <1>1, <1>3, <2>1 DEF Life!Cancel
  <2> QED
    BY <2>2 DEF Life!Next
<1> QED
  BY <1>5, <1>6, <1>7, <1>8, <1>9 DEF Main

\* Any number of trackers and addresses: every step of the process is one step in the life of
\* one address or of the Manager, with the counters as they should be, or none at all.
THEOREM AddressesLiveOnce == Spec => ImplementsAddressLife
<1>1. Init => Life!Init
  <2> SUFFICES ASSUME Init PROVE Life!Init
    OBVIOUS
  <2>1. Announced = {} /\ Running = {} /\ Phase = "waiting"
    BY DEF Init, Announced, Announcing, Running, Phase
  <2>2. \A a \in Addrs : StageOf(a) = "new"
    BY <2>1 DEF Init, StageOf
  <2> QED
    BY <2>1, <2>2 DEF Init, Life!Init
<1>2. LifeInv /\ [Next]_vars => [Life!Next]_Life!vars
  <2> SUFFICES ASSUME LifeInv, [Next]_vars PROVE [Life!Next]_Life!vars
    OBVIOUS
  <2>1. ASSUME NEW t \in Trackers, Tracker(t) PROVE [Life!Next]_Life!vars
    BY <2>1, TrackerLife
  <2>2. ASSUME NEW a \in Addrs, Peer(a) PROVE [Life!Next]_Life!vars
    BY <2>2, PeerLife
  <2>3. CASE Main \/ Signal
    BY <2>3, MainLife
  <2>4. CASE Writer \/ UNCHANGED vars
    <3>1. UNCHANGED << mainVars, pool, peerNum, tr, cur, run, wg >>
      BY <2>4 DEF Writer, WriterTakes, WriterFinishes, vars, poolVars, trackerVars
    <3>2. Phase' = Phase /\ Announced' = Announced
      BY <3>1 DEF Phase, Announced, Announcing, mainVars
    <3>3. \A a \in Addrs : StageOf(a)' = StageOf(a)
      BY <3>1, <3>2, StageKept DEF mainVars
    <3> QED
      BY <3>1, <3>2, <3>3 DEF Life!vars, mainVars
  <2> QED
    BY <2>1, <2>2, <2>3, <2>4 DEF Next
<1> QED
  BY <1>1, <1>2, LifeInductive, PTL DEF Spec, Life!Spec, ImplementsAddressLife
=============================================================================

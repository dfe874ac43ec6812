------------------------------- MODULE Manager -------------------------------
(***************************************************************************)
(* download.Manager: the life of one "gotit download", from Download to    *)
(* the return of the process.  Its goroutines are                          *)
(*   main        runDownload: Download, then the deferred Stop             *)
(*   trackers    runTracker, one per announce url, which add the addresses *)
(*               they learn to the pool and start their peers one by one   *)
(*   peers       "peer.Run(ctx); m.wg.Done()", one per started peer        *)
(*   writer      Torrent.WritePiece, which ranges over the piece channel   *)
(* What Run does in between is module PeerRun; here it is reduced to when  *)
(* it looks at the context, when it sends on the piece channel and when it *)
(* returns.  A panic in any goroutine ends the process: crash names it.    *)
(***************************************************************************)
EXTENDS Integers, FiniteSets

CONSTANTS
  Addrs,        \* the addresses trackers may hand out
  Trackers,     \* the torrent's announce urls
  Attempts,     \* tries of retry.Do for a peer, 5 in the code
  Rounds,       \* bound: announces per tracker
  ChanCap,      \* capacity of the piece channel, 1024 in the code
  NoAddr        \* a tracker goroutine that has no peer in hand

ASSUME ManagerAssumption ==
  /\ IsFiniteSet(Addrs) /\ IsFiniteSet(Trackers)
  /\ Attempts \in Nat \ {0} /\ Rounds \in Nat
  /\ ChanCap \in Nat \ {0}
  /\ NoAddr \notin Addrs

VARIABLES
  mainPc,       \* start, waiting, released, waitCtx, close, stop, return, exited
  cancelled,    \* ctx is cancelled, by a signal or by Stop
  pool,         \* the keys of peerPool
  poolNil,      \* Stop has set peerPool to nil
  connected,    \* the addresses whose peer has a non-nil conn
  peerNum,      \* stats.peerNum
  wg,           \* the counter of the WaitGroup
  tr,           \* tr[t]: new, announce, init, connect, handshake, wait, gone
  todo,         \* todo[t]: addresses of the round initPeers has still to visit
  cur,          \* cur[t]: the peer startPeerDownload is busy with
  tries,        \* tries[t]: attempts left for it
  rounds,       \* rounds[t]: announces left
  run,          \* run[a]: none, top, reading, deliver, returned, done
  chanLen,      \* messages in the piece channel
  closed,       \* the piece channel is closed
  writer,       \* loop, finished
  crash         \* none, closedChannel, nilMap, nilConn, wgReused

mainVars    == << mainPc, cancelled, closed, poolNil >>
poolVars    == << pool, connected, peerNum >>
trackerVars == << tr, todo, cur, tries, rounds >>
chanVars    == << chanLen, writer >>
vars == << mainVars, poolVars, wg, trackerVars, run, chanVars, crash >>

Init ==
  /\ mainPc = "start" /\ cancelled = FALSE /\ closed = FALSE
  /\ pool = {} /\ poolNil = FALSE /\ connected = {} /\ peerNum = 0
  /\ wg = 0
  /\ tr = [t \in Trackers |-> "new"]
  /\ todo = [t \in Trackers |-> {}]
  /\ cur = [t \in Trackers |-> NoAddr]
  /\ tries = [t \in Trackers |-> 0]
  /\ rounds = [t \in Trackers |-> Rounds]
  /\ run = [a \in Addrs |-> "none"]
  /\ chanLen = 0 /\ writer = "loop"
  /\ crash = "none"

Alive == crash = "none" /\ mainPc # "exited"

MainAt(here, there) == mainPc = here /\ mainPc' = there

(***************************************************************************)
(* main: Download and the deferred Stop.                                   *)
(***************************************************************************)

\* waitPeers is reached with the goroutines started: a WaitGroup that counts
\* nobody yet does not wait.
WaitPeers ==
  /\ MainAt("start", IF wg = 0 THEN "waitCtx" ELSE "waiting")
  /\ UNCHANGED << cancelled, closed, poolNil, poolVars, wg, trackerVars, run,
                  chanVars, crash >>

\* Wait, released by the last Done, returns if the counter is still zero.  Go
\* forbids an Add from zero meanwhile, and panics when it notices one.
WaitReturns ==
  /\ MainAt("released", "waitCtx")
  /\ wg = 0
  /\ UNCHANGED << cancelled, closed, poolNil, poolVars, wg, trackerVars, run,
                  chanVars, crash >>

WaitPanics ==
  /\ MainAt("released", "released")
  /\ wg > 0
  /\ crash' = "wgReused"
  /\ UNCHANGED << cancelled, closed, poolNil, poolVars, wg, trackerVars, run,
                  chanVars >>

\* Mutant of ContextDone: Download does not wait for the context.
ContextNotAwaited ==
  /\ MainAt("waitCtx", "close")
  /\ UNCHANGED << cancelled, closed, poolNil, poolVars, wg, trackerVars, run,
                  chanVars, crash >>

ContextDone ==
  /\ MainAt("waitCtx", "close")
  /\ cancelled
  /\ UNCHANGED << cancelled, closed, poolNil, poolVars, wg, trackerVars, run,
                  chanVars, crash >>

CloseChannel ==
  /\ MainAt("close", "stop")
  /\ closed' = TRUE
  /\ UNCHANGED << cancelled, poolNil, poolVars, wg, trackerVars, run, chanVars,
                  crash >>

\* Stop cancels the context, then closes every peer of the pool under poolMu.
StopPeers ==
  /\ MainAt("stop", "return")
  /\ pool \subseteq connected
  /\ cancelled' = TRUE
  /\ pool' = {} /\ poolNil' = TRUE
  /\ UNCHANGED << closed, connected, peerNum, wg, trackerVars, run, chanVars, crash >>

\* A peer that is not connected has a nil conn, and Close dereferences it.
StopPanics ==
  /\ MainAt("stop", "stop")
  /\ ~(pool \subseteq connected)
  /\ cancelled' = TRUE
  /\ crash' = "nilConn"
  /\ UNCHANGED << closed, poolNil, poolVars, wg, trackerVars, run, chanVars >>

\* runDownload returns and the process exits; it waits for no goroutine.
ProcessExit ==
  /\ MainAt("return", "exited")
  /\ UNCHANGED << cancelled, closed, poolNil, poolVars, wg, trackerVars, run,
                  chanVars, crash >>

\* SIGINT or SIGTERM cancels the context of the command.
Signal ==
  /\ ~cancelled
  /\ cancelled' = TRUE
  /\ UNCHANGED << mainPc, closed, poolNil, poolVars, wg, trackerVars, run,
                  chanVars, crash >>

Main ==
  \/ WaitPeers \/ WaitReturns \/ WaitPanics \/ ContextDone \/ CloseChannel
  \/ StopPeers \/ StopPanics \/ ProcessExit

(***************************************************************************)
(* runTracker.                                                             *)
(***************************************************************************)
TrackerAt(t, here, there) == tr[t] = here /\ tr' = [tr EXCEPT ![t] = there]

\* tracker.New, which fails for a scheme it does not know.
NewTracker(t) ==
  /\ \/ TrackerAt(t, "new", "announce")
     \/ TrackerAt(t, "new", "gone")
  /\ UNCHANGED << mainVars, poolVars, wg, todo, cur, tries, rounds, run, chanVars,
                  crash >>

\* The tracker answers with a list of addresses: a new round for initPeers.
AnnounceAnswered(t) ==
  /\ rounds[t] > 0
  /\ TrackerAt(t, "announce", "init")
  /\ rounds' = [rounds EXCEPT ![t] = @ - 1]
  /\ \E ips \in SUBSET Addrs : todo' = [todo EXCEPT ![t] = ips]
  /\ UNCHANGED << mainVars, poolVars, wg, cur, tries, run, chanVars, crash >>

\* All tries of the announce failed; a cancelled context ends the goroutine.
AnnounceFailed(t) ==
  /\ \/ TrackerAt(t, "announce", "wait")
     \/ cancelled /\ TrackerAt(t, "announce", "gone")
  /\ UNCHANGED << mainVars, poolVars, wg, todo, cur, tries, rounds, run, chanVars,
                  crash >>

\* initPeers takes the next address of the round to AddPeer, whose check and
\* insertion are under poolMu: one step.
Visit(t, a) ==
  /\ tr[t] = "init"
  /\ a \in todo[t]
  /\ todo' = [todo EXCEPT ![t] = @ \ {a}]

\* Mutant of AddPeer: the pool is not looked up.
AddPeerTwice(t, a) ==
  /\ Visit(t, a)
  /\ ~poolNil
  /\ pool' = pool \cup {a}
  /\ peerNum' = peerNum + 1
  /\ tr' = [tr EXCEPT ![t] = "connect"]
  /\ cur' = [cur EXCEPT ![t] = a]
  /\ tries' = [tries EXCEPT ![t] = Attempts]
  /\ UNCHANGED << mainVars, connected, wg, rounds, run, chanVars, crash >>

AddPeer(t, a) ==
  /\ Visit(t, a)
  /\ a \notin pool /\ ~poolNil
  /\ pool' = pool \cup {a}
  /\ peerNum' = peerNum + 1
  /\ tr' = [tr EXCEPT ![t] = "connect"]
  /\ cur' = [cur EXCEPT ![t] = a]
  /\ tries' = [tries EXCEPT ![t] = Attempts]
  /\ UNCHANGED << mainVars, connected, wg, rounds, run, chanVars, crash >>

AlreadyAdded(t, a) ==
  /\ Visit(t, a)
  /\ a \in pool
  /\ UNCHANGED << mainVars, poolVars, wg, tr, cur, tries, rounds, run, chanVars,
                  crash >>

\* After Stop peerPool is nil: it reads as empty, and writing to it panics.
AddPeerPanics(t, a) ==
  /\ Visit(t, a)
  /\ poolNil
  /\ crash' = "nilMap"
  /\ UNCHANGED << mainVars, poolVars, wg, tr, cur, tries, rounds, run, chanVars >>

\* One try of Peer.Announce: the dial, which replaces conn by its result ...
Connect(t) ==
  /\ tr[t] = "connect"
  /\ tries[t] > 0
  /\ tries' = [tries EXCEPT ![t] = @ - 1]
  /\ \/ /\ connected' = connected \cup {cur[t]}
        /\ tr' = [tr EXCEPT ![t] = "handshake"]
     \/ /\ connected' = connected \ {cur[t]}
        /\ UNCHANGED tr
  /\ UNCHANGED << mainVars, pool, peerNum, wg, todo, cur, rounds, run, chanVars,
                  crash >>

\* ... and the handshake: a failure leads to the next try, success to the start
\* of the peer's goroutine.
HandshakeFailed(t) ==
  /\ TrackerAt(t, "handshake", "connect")
  /\ UNCHANGED << mainVars, poolVars, wg, todo, cur, tries, rounds, run, chanVars,
                  crash >>

\* Mutant of StartPeer: no wg.Add.
StartPeerUncounted(t) ==
  /\ TrackerAt(t, "handshake", "init")
  /\ run' = [run EXCEPT ![cur[t]] = "top"]
  /\ cur' = [cur EXCEPT ![t] = NoAddr]
  /\ UNCHANGED << mainVars, poolVars, wg, todo, tries, rounds, chanVars, crash >>

StartPeer(t) ==
  /\ TrackerAt(t, "handshake", "init")
  /\ wg' = wg + 1
  /\ run' = [run EXCEPT ![cur[t]] = "top"]
  /\ cur' = [cur EXCEPT ![t] = NoAddr]
  /\ UNCHANGED << mainVars, poolVars, todo, tries, rounds, chanVars, crash >>

\* Mutant of GiveUp: RemovePeer is forgotten.
GiveUpKeepsCount(t) ==
  /\ TrackerAt(t, "connect", "init")
  /\ tries[t] = 0 \/ cancelled
  /\ cur' = [cur EXCEPT ![t] = NoAddr]
  /\ UNCHANGED << mainVars, poolVars, wg, todo, tries, rounds, run, chanVars, crash >>

\* retry.Do gives up, out of tries or with the context cancelled.  The peer
\* stays in the pool, as it was left by the last dial.
GiveUp(t) ==
  /\ TrackerAt(t, "connect", "init")
  /\ tries[t] = 0 \/ cancelled
  /\ peerNum' = peerNum - 1
  /\ cur' = [cur EXCEPT ![t] = NoAddr]
  /\ UNCHANGED << mainVars, pool, connected, wg, todo, tries, rounds, run, chanVars,
                  crash >>

RoundDone(t) ==
  /\ todo[t] = {}
  /\ TrackerAt(t, "init", "wait")
  /\ UNCHANGED << mainVars, poolVars, wg, todo, cur, tries, rounds, run, chanVars,
                  crash >>

\* WaitInterval.
WaitInterval(t) ==
  /\ \/ ~cancelled /\ TrackerAt(t, "wait", "announce")
     \/ cancelled /\ TrackerAt(t, "wait", "gone")
  /\ UNCHANGED << mainVars, poolVars, wg, todo, cur, tries, rounds, run, chanVars,
                  crash >>

Tracker(t) ==
  \/ NewTracker(t) \/ AnnounceAnswered(t) \/ AnnounceFailed(t)
  \/ \E a \in Addrs : AddPeer(t, a) \/ AlreadyAdded(t, a) \/ AddPeerPanics(t, a)
  \/ Connect(t) \/ HandshakeFailed(t) \/ StartPeer(t) \/ GiveUp(t)
  \/ RoundDone(t) \/ WaitInterval(t)

(***************************************************************************)
(* peer.Run, as far as the Manager sees it.                                *)
(***************************************************************************)
RunAt(a, here, there) == run[a] = here /\ run' = [run EXCEPT ![a] = there]

\* The head of the loop: a cancelled context, the last piece downloaded or a
\* failed keepalive end it, otherwise it goes on to a read.
RunContinues(a) ==
  /\ RunAt(a, "top", "reading")
  /\ ~cancelled
  /\ UNCHANGED << mainVars, poolVars, wg, trackerVars, chanVars, crash >>

RunReturns(a) ==
  /\ RunAt(a, "top", "returned")
  /\ UNCHANGED << mainVars, poolVars, wg, trackerVars, chanVars, crash >>

\* The read ends, with a valid piece or with anything else.
RunReads(a) ==
  /\ \/ RunAt(a, "reading", "deliver")
     \/ RunAt(a, "reading", "top")
  /\ UNCHANGED << mainVars, poolVars, wg, trackerVars, chanVars, crash >>

\* Mutant of Deliver: the channel has no capacity.
DeliverUnbounded(a) ==
  /\ RunAt(a, "deliver", "top")
  /\ ~closed
  /\ chanLen' = chanLen + 1
  /\ UNCHANGED << mainVars, poolVars, wg, trackerVars, writer, crash >>

Deliver(a) ==
  /\ RunAt(a, "deliver", "top")
  /\ ~closed
  /\ chanLen < ChanCap
  /\ chanLen' = chanLen + 1
  /\ UNCHANGED << mainVars, poolVars, wg, trackerVars, writer, crash >>

\* A send on a closed channel panics, also one that was blocked when it closed.
DeliverPanics(a) ==
  /\ RunAt(a, "deliver", "deliver")
  /\ closed
  /\ crash' = "closedChannel"
  /\ UNCHANGED << mainVars, poolVars, wg, trackerVars, chanVars >>

\* Mutant of WgDone: it is skipped, as by a return before it.
WgDoneSkipped(a) ==
  /\ RunAt(a, "returned", "done")
  /\ UNCHANGED << mainVars, wg, poolVars, trackerVars, chanVars, crash >>

\* m.wg.Done(), which releases main when it brings the counter to zero.
WgDone(a) ==
  /\ RunAt(a, "returned", "done")
  /\ wg' = wg - 1
  /\ mainPc' = IF wg' = 0 /\ mainPc = "waiting" THEN "released" ELSE mainPc
  /\ UNCHANGED << cancelled, closed, poolNil, poolVars, trackerVars, chanVars, crash >>

Peer(a) ==
  \/ RunContinues(a) \/ RunReturns(a) \/ RunReads(a)
  \/ Deliver(a) \/ DeliverPanics(a) \/ WgDone(a)

(***************************************************************************)
(* The writer ranges over the channel until it is closed and drained.      *)
(***************************************************************************)
WriterTakes ==
  /\ writer = "loop"
  /\ chanLen > 0
  /\ chanLen' = chanLen - 1
  /\ UNCHANGED << mainVars, poolVars, wg, trackerVars, run, writer, crash >>

WriterFinishes ==
  /\ writer = "loop"
  /\ chanLen = 0 /\ closed
  /\ writer' = "finished"
  /\ UNCHANGED << mainVars, poolVars, wg, trackerVars, run, chanLen, crash >>

Writer == WriterTakes \/ WriterFinishes

Next ==
  /\ Alive
  /\ \/ Main \/ Signal
     \/ \E t \in Trackers : Tracker(t)
     \/ \E a \in Addrs : Peer(a)
     \/ Writer

\* The scheduler runs every goroutine that can run; reads, dials and announces
\* end by their deadlines.  Nothing makes a signal arrive.
Fairness ==
  /\ WF_vars(Alive /\ Main)
  /\ \A t \in Trackers : WF_vars(Alive /\ Tracker(t))
  /\ \A a \in Addrs : WF_vars(Alive /\ Peer(a))
  /\ WF_vars(Alive /\ Writer)

Spec     == Init /\ [][Next]_vars
FairSpec == Spec /\ Fairness

(***************************************************************************)
(* Properties.                                                             *)
(***************************************************************************)
MainPcs    == { "start", "waiting", "released", "waitCtx", "close", "stop", "return",
                "exited" }
TrackerPcs == { "new", "announce", "init", "connect", "handshake", "wait", "gone" }
RunPcs     == { "none", "top", "reading", "deliver", "returned", "done" }
Running    == { a \in Addrs : run[a] \in {"top", "reading", "deliver", "returned"} }
Announcing == { t \in Trackers : tr[t] \in {"connect", "handshake"} }

\* Every variable keeps its type, and a tracker has a peer in hand exactly while
\* it announces to it.
TypeOK ==
  /\ mainPc \in MainPcs
  /\ cancelled \in BOOLEAN /\ closed \in BOOLEAN /\ poolNil \in BOOLEAN
  /\ pool \subseteq Addrs /\ connected \subseteq Addrs
  /\ peerNum \in Nat /\ wg \in Nat /\ chanLen \in 0 .. ChanCap
  /\ tr \in [Trackers -> TrackerPcs]
  /\ todo \in [Trackers -> SUBSET Addrs]
  /\ cur \in [Trackers -> Addrs \cup {NoAddr}]
  /\ tries \in [Trackers -> 0 .. Attempts]
  /\ rounds \in [Trackers -> 0 .. Rounds]
  /\ run \in [Addrs -> RunPcs]
  /\ writer \in {"loop", "finished"}
  /\ crash \in {"none", "closedChannel", "nilMap", "nilConn", "wgReused"}
  /\ \A t \in Trackers : t \in Announcing <=> cur[t] # NoAddr

\* However many trackers hand out the same address, in whatever order, at most
\* one of them announces to it, and none to an address whose peer has been
\* started (AddPeer's check under poolMu).
OnePeerPerAddr ==
  \A t \in Announcing :
    /\ run[cur[t]] = "none"
    /\ \A u \in Announcing : cur[t] = cur[u] => t = u

\* The WaitGroup counts the peer goroutines that have not finished: main is not
\* held by a finished one, and the counter never goes below zero, a panic.
WgCountsRunning == wg = Cardinality(Running)

\* stats.peerNum, an unsigned counter, counts the addresses being announced to or
\* started: each that gives up is taken off once, so it never wraps.
PeerNumCounts ==
  peerNum = Cardinality({ a \in Addrs : run[a] # "none" }) + Cardinality(Announcing)

\* Where each address is in its life, and the Manager in its own.
Announced  == { cur[t] : t \in Announcing }
StageOf(a) ==
  IF run[a] = "done" THEN "finished"
  ELSE IF a \in Running THEN "running"
  ELSE IF a \in Announced THEN "announced"
  ELSE IF poolNil THEN "shut"
  ELSE IF a \in pool THEN "failed" ELSE "new"

Phase ==
  IF poolNil THEN "stopped"
  ELSE IF closed THEN "closed"
  ELSE IF mainPc \in {"start", "waiting", "released"} THEN "waiting" ELSE "waited"

Life ==
  INSTANCE AddressLife WITH
    stage    <- [a \in Addrs |-> StageOf(a)],
    running  <- wg,
    shown    <- peerNum,
    phase    <- Phase,
    stopping <- cancelled

\* However trackers, peers and main interleave, an address that fails all its tries is
\* never tried again (manager.go:166), no second peer is started for one, both counters
\* follow, and Download gets past its wait only at a moment when no peer runs.
ImplementsAddressLife == Life!Spec

\* While the download is not interrupted the one panic is the WaitGroup's, when a
\* tracker starts a peer just as the last one finishes: the channel is closed and
\* the pool emptied only once the context is cancelled.
NoPanicBeforeCancel == crash \notin {"none", "wgReused"} => cancelled

\* After an interrupt the process ends, if not always by returning from main.
CancelEnds == cancelled ~> ~Alive

\* A valid piece reaches the channel (TestHandlePeerMessage_Piece_ValidHash_
\* WritesToChannel).  Download closes the channel on cancellation without waiting
\* for the peers started meanwhile, so the send may panic.
ValidPieceReachesChannel == crash # "closedChannel"
=============================================================================

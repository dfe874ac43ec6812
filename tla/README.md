# gotit in TLA+

A verification development of gotit, a BitTorrent downloader in Go. It models the
program as it is in `src/`: the behaviour that follows is the code's, also where it
is surprising. Constants and bounds are named in the modules; line numbers below are
those of `src/`.

## The system

| component | state | operations | who else touches it |
|---|---|---|---|
| **Peer.Run** (`pkg/peer/peer.go`) | one goroutine per peer: `requestMsg`, `sentPieceMsg`, `blockIdx`, `pieceIdx`, `Bitset`, `ClientStatus` | `Run`, `unchoke`, `wait`, `checkKeepAlive`, `nextRequestMessage`, `handlePeerMessage`, `handlePieceMessage` | claims from Torrent, retry stack, piece channel, context |
| **PiecesQueue** (`pkg/torrent/pieces_queue.go`) | a stack of requests, under `failedMu` | `RequestFailed`, `FailedPieceMessage` | all peers of one announce round |
| **Torrent** (`pkg/torrent/torrent.go`, `piece.go`) | `requested`, `downloaded` (a mutex each), files | `Next`, `CheckPiece`, `Done`, `WritePiece`, `SetDownloaded` | all peers, the writer goroutine |
| **piece writer** (`writePieceData`, `initDownloadDir`) | the files on disk | find the file, split the data, `WriteAt` | the writer goroutine only |
| **Manager** (`pkg/download/manager.go`) | `peerPool` (`poolMu`), WaitGroup, piece channel, context | `Download`, `runTracker`, `initPeers`, `AddPeer`, `startPeerDownload`, `Stop` | main, one goroutine per tracker, all peers |
| **TimeoutConn** (`pkg/gotitnet/connection.go`) | a stream position, deadlines | `ReadPeerMessage`, `WriteMsg`, `ReadAll`, ... | one peer or tracker |
| **PeerMessage** (`pkg/util/peer_message.go`) | none | encode and decode | peers |
| **trackers** (`pkg/tracker`) | interval, connection, transaction id | UDP connect and announce, HTTP announce, compact peers | Manager |
| **Stats, progress bar** (`pkg/stats`) | atomic counters | add, read, percentage | writer, Manager, printer goroutine |
| **bencode** (`pkg/bencode`) | none | parse, encode, unmarshal | start-up, HTTP tracker |
| command line, logger, printer | configuration | - | start-up |

How they interact. `Download` starts a goroutine per tracker and one writer, and waits
for the WaitGroup and then for the context. A tracker goroutine announces, adds each
new address to the pool, dials it (with retries) and starts its `Run`. A `Run` claims a
piece from the Torrent, asks for its blocks one at a time, and puts each valid answer
on the piece channel (capacity 1024). The writer drains it into the files and marks
pieces downloaded; `Run` ends when all are. Requests that failed on the wire go to the
stack their announce round shares, where any peer of the round may take them up.

What is hard, and therefore what the properties are about (the complete list, each with
its line, is under "hazards" in `PROJECT.json`):

- several peers move requests between their hands and one stack, and any send or read
  may fail: a request could be lost, doubled, or retried after its answer came;
- a piece has to be on disk before it is marked, under write errors and duplicates, and
  marked once it is on disk;
- the end of the download: cancellation at any moment, completion, peers that keep us
  choked, the close of the channel and of the pool while trackers still start peers;
- several trackers hand out the same addresses; dials fail half way;
- datagrams that are lost, late or repeated, read by a later try than the one they answer;
- numeric edges: a short last piece, a piece shorter than a block, empty files, data
  that spans files, mirrored bit fields, unsigned counters that go down, numbers in
  bencoded data that no int holds;
- data from outside: torrent files and tracker responses with keys missing, of another
  type, twice or in any order, or no bencoding at all.

What makes each component correct:

- *Run and the stack*: one holder per request, none dropped; every unchoked peer makes
  requests; nothing already downloaded is retried; every `Run` ends when it should.
- *Torrent*: marked implies on disk, on disk implies marked and counted.
- *Writer*: the files together are one array of bytes; an error is reported exactly when
  a byte is missing.
- *Manager*: one peer per address, exact counters, no panic, an end after the interrupt.
- *Connection and codec*: messages come whole and in order, a request decodes to what was
  asked for, no message of a well-behaved peer makes the parser panic.
- *Trackers*: what a try uses was an answer to that try; a list of peers yields an address
  per entry; the goroutine ends after an interrupt.
- *Stats*: what a tracker is told is left is zero only when all was counted, and, with the
  bar, within range as long as no message comes twice.
- *Bencode*: what is encoded is read back, the info hash is that of the file's own bytes, and
  no input ends the process.

## Modules

| module | models | how |
|---|---|---|
| `PiecesQueue` | the retry stack | `failed[q]`, one sequence per announce round; each operation runs under `failedMu`, so it is one step |
| `Torrent` | claims, hash check, completion, the `WritePiece` loop | `requested`, `downloaded`, the channel `pieceCh`, the message in the writer's hands, and `disk`, the units that hold the torrent's bytes |
| `PeerRun` | `Peer.Run` for several peers; EXTENDS the two above | `pc[p]` is the place of goroutine p in the code; an action is the code between two points where another goroutine can interfere or a call can fail |
| `RequestPool` | what the peers of a download promise about requests: one in a hand, the others in the pool of a round | abstract specification; `PeerRun` implements it with the stacks as sets |
| `PieceStore` | what the way from the peers to the files promises: whole right pieces, in order, counted, stored, marked | abstract specification; `PeerRun` implements it with each message as its piece |
| `PeerRunProofs` | theorems about `PeerRun`, and that it implements the two | TLAPS |
| `FlatDisk` | what `writePieceData` promises: one array of bytes | abstract specification |
| `FileWriter` | `writePieceData` over the files | one step per loop iteration; `layout` is the torrent, chosen initially |
| `Manager` | the life of the process: main, trackers, peers, writer | one program counter per goroutine; `Run` reduced to when it looks at the context, sends on the channel and returns |
| `AddressLife` | what the download of an address goes through, whoever found it: new, announced to, started or given up, finished, or shut out by the interrupt; what an observer is shown of it | abstract specification; `Manager` implements it with the places of its goroutines as stages |
| `FileWriterProofs`, `ManagerProofs` | theorems about the two, and that they implement `FlatDisk` and `AddressLife` | TLAPS |
| `Connection` | dial, handshake, `ReadPeerMessage`, the parse and the encoding of a request, for one peer | the stream is a sequence of units tagged with the message they belong to; one step per read that brings a unit, per `readExactly` completed, per deadline |
| `ConnectionProofs` | theorems about `Connection` | TLAPS |
| `Stats` | the shared counters and the progress bar | an atomic addition or load is a step; counters are numbers modulo `Width` |
| `UdpTracker` | one UDP tracker under `Manager.runTracker`: dial, rounds, tries, connect and announce; EXTENDS `Stats` | `requests` and `answers` are the sets of datagrams sent; a read takes any of `answers` and leaves it there |
| `StatsProofs` | sums of message lengths; what the counters hold, whoever runs beside them | TLAPS |
| `UdpTrackerProofs` | theorems about `UdpTracker`; EXTENDS `StatsProofs` | TLAPS |
| `Bencode` | the scanner of `parse.go`, `String` and `Raw` of the elements | functions of a sequence of units, a unit being one byte the grammar knows or a word of content; `Reads(b)[n]` holds the results of all reads with at most n reads inside one another |
| `TagParser` | `Unmarshal` into structs with `ben` tags | a Go type is an operator (`Struct`, `SliceOf`, `Int64`, ...): what the assignment of an element to it gives, where the code goes by `reflect.Kind` |
| `HttpTracker` | from the torrent file, through `torrent.New`, to the addresses of an HTTP tracker; EXTENDS the two above | one step per file or response read, and one for `torrent.New` |
| `HttpTrackerProofs` | theorems about `HttpTracker`, `TagParser` and `Bencode` | TLAPS |
| `Encoded` | `Encode` of the elements, and the property that it is read back; EXTENDS `HttpTracker` | `RECURSIVE` operators, for TLC only |
| `NumberLemmas` | induction by sets, products, quotients and remainders, for the proofs of three modules | TLAPS |
| `MCPeerRun`, `MCFileWriter`, `MCManager`, `MCConnection`, `MCUdpTracker`, `MCHttpTracker` | instances for TLC | |

Lengths in `Torrent` are in *units*, a common divisor of the piece, block and last-piece
length, and a message's bytes are one bit: the torrent's own bytes or not. That is all
the hash check and the position arithmetic can tell apart. `CheckPiece` compares the hash
of one message with the hash of the whole piece, so a message passes only if it carries
the whole piece; it does not look at the offset. Messages
are taken to lie inside a piece (`PieceMsgs`), as those of a remote peer that follows the protocol do, so
the offset of one that passes is 0 (`CheckedFromStart`); one that sends wrong bytes, unasked pieces, or any
other message at any time is not excluded.

A `wait(ctx, d)` leads back to the head of the loop, where a cancelled context ends
`Run` at once, so it is merged with that check. Time is abstracted: a read or send may
fail whenever it runs; a keepalive may be due whenever it is looked for.

`requested` and `downloaded` are each under one mutex held over the whole operation, so
`Next`, `Done` and `SetDownloaded` are one step; the hash check touches no shared state.
`nextRequestMessage` takes two locks one after the other, so it is two steps
(`NothingFailed`, then `ClaimPiece` or `NothingToClaim`) and another peer may come between.

`UdpTracker` numbers its transaction ids, where the code draws 32 random bits: that two
are equal is left out. A datagram shorter than the 16 bytes a handshake reads is an error
message, and stays one when the next datagram fills it up. The tries of `retry.Do` are in
`UdpTracker` alone; in `HttpTracker` a try and a round look the same. `HttpTracker` gives a
url by its scheme, an address by its text, and the pretty-printed form of a list or dictionary,
which a `string` field would get, by one word that is neither empty nor a number; whether a printed text
of piece hashes has a length `NewPieces` accepts is left open. `torrent.New` fails on other lengths, and on files it
cannot create; all paths are made before the first file is. The interval is multiplied by `Second`, for
`time.Second`, and may wrap. Memory is taken to suffice: lengths that no
machine could hold are not told apart from others.

The reads of the scanner (a list, a dictionary, an element) call each other. `Reads` is a function
of the depth of these calls, so that it can be reasoned about, and `Parse` takes it at a depth no parse
reaches: a read that calls another has gone at least one unit further within two calls, and
there are `Len(b)` of them. `ReadsAreRecursive` proves that this is enough for any bytes.

In `Manager` a panic in any goroutine ends the process; `crash` names it. A WaitGroup
panics when an Add from zero overtakes a Wait that is returning: that is what
`WaitReturns` and `WaitPanics` say of package sync.

## Runs

Each passing run finishes within two minutes with two workers.

| run | question | instance |
|---|---|---|
| `peer_run_claims` | requests: held once, moved as in `RequestPool`; claims when a piece is shorter than a block | 2 interested peers, 1 stack, 3 pieces of 2 units, `BlockNum` 0, replies of 1 unit |
| `peer_run_deliver` | which pieces are asked for; disk, marks and counters | 2 peers, one of them interested, 2 pieces of two blocks, the last of one, replies up to a whole piece, channel of 1, any write error |
| `peer_run_live` | termination and progress | 2 peers, one of them interested, 1 piece |
| `peer_run_uninterested` | does every unchoked peer make a request? No | 2 peers, one as `NewPeer` makes it |
| `manager` | addresses and their lives, counters, panics, the end | 2 trackers, 2 addresses, 2 dials each, 1 announce each, channel of 1 |
| `manager_closed` | does a valid piece reach the channel? Not always | 1 tracker, 2 addresses |
| `file_writer` | are the files one array of bytes? | all layouts of 1 to 3 files of 0 to 2 bytes, one single file of 4; data of 1 to 4 bytes at every position and one past the end |
| `file_writer_nested` | do writes at different positions leave each other's bytes alone, also with subdirectories? No | 2 files of one byte under one first path element |
| `connection` | what does a read return? | 3 messages out of four kinds, of body 0 to 3 units, units read one by one, a deadline anywhere, any number of connections |
| `connection_request` | does the remote peer hear what was asked? No | fields 0 to 2 |
| `udp_tracker` | whose answers does a try use, what does it find, what is the tracker told, does it end? | 2 announces of 2 tries, 2 datagrams of the tracker, 2 messages of 1 and 2 bytes counted up to twice each, `Width` 16 |
| `http_announce` | what do file and responses become, and when do they end the process? | 55 torrents and 468 responses in every order of their keys, among them intervals at both ends of an int, and all sequences of at most 5 of 8 units, `Half` 256 |

Why the bounds are enough. Peers are alike, and interfere only over a request (a holder
and a taker), a claim and the channel: two show every pair of moves. Three pieces for
two peers leave a piece nobody claimed. A piece of two units has a first, a last and an
in-between position; a channel of one is full and empty. Two trackers with two addresses
have every overlap of rounds, and two dials show a connection replaced by a failed dial.
Three files with lengths 0 to 2 give data that starts inside one, fills a second and
ends in a third. Three messages have one before and one after the one that is cut; the
length of 2 units can be cut in its middle. Two tries share a socket, so a datagram of the
first can meet the second, in the handshake and in the announce; two datagrams are an answer and
its rival. Two messages counted twice pass below zero. Ints up to 255 overflow on the second
digit, which five units have room for. `made` is the only counter that could grow without bound and does not:
requests stop being made, as `OneClaimEach` and `NoClaimWithBlocks` explain. `download`
saturates at `MaxDownload`, the length of the torrent. The order of pieces in `PieceStore` needs a
channel of two to be tested; `PiecesAreStored` covers every capacity.

Deadlock is not checked: in all models the program may end (every `Run` has exited, the
process has exited or panicked), and a choked peer that reads nothing changes nothing.

Fairness. `PeerRun`: each goroutine is scheduled and every read and send has a deadline
of a second, so a goroutine that can go on does (weak fairness of `Scheduled(p)`), with
whatever outcome: in `read` that may be an error or any message. Nothing makes a remote
peer send one, and in `unchoke` an error only starts the next round, so there the only
fair step is the one that sees the cancelled context. The writer drains the channel (weak fairness). `Manager`: weak
fairness of main, each tracker, each peer and the writer; dials, reads and announces end
by deadlines; nothing makes a signal arrive. `FileWriter`: the call goes on. `UdpTracker`: weak
fairness of the goroutine, whose reads and
writes have deadlines and whose waits have timers; none of the tracker, the writer or the
interrupt. `Connection` and `HttpTracker`: none; their properties are safety.

## What the runs show

Holding: `SingleHolder`, `ImplementsRequestPool` (a peer that exits keeps its request: the
code queues nothing on the way out, see the hazard at peer.go:227), `DownloadedOnDisk`,
`ImplementsPieceStore`, `OnePeerPerAddr`, `ImplementsAddressLife` (each address is dialled for by one
goroutine, once; one whose dials all failed is not tried again, see the hazard at manager.go:166), the counters
of `Manager`, `ImplementsFlatDisk`,
and that every goroutine ends after an interrupt. `InOrderUntilCut` and `PanicNeedsCut`: reads that
time out between messages do no harm, however often and however the stream is split.

Holding, and not what one would want:

- `OnlyFirstPiece`: with pieces of at least a block, an answered request is queued again at
  the next timeout (peer.go:268), so a peer past its last block always finds a request to
  retry and never calls `Torrent.Next`. A download asks for blocks of piece 0 only.
- `ShortLastNeverComplete`: a last piece shorter than the others is never marked, since its end
  is looked for at the end of a full one (torrent.go:189); such a torrent never completes.
- `OneClaimEach`: with shorter pieces, one claim per peer at most, for the same reason.
- `LongPiecesNeverMarked`: the hash of a block is compared with that of the whole piece
  (torrent.go:168, peer.go:394).
- `CompleteStopsUnchoked` is as far as termination goes: a peer that keeps us choked holds
  `unchoke`, and with it the WaitGroup, also after completion.
- `NoPeersFromUdp`: the announce response is read to the end of file (udp_tracker.go:83,
  connection.go:88), which a datagram socket never reports: every announce ends at the
  deadline, with an error and no addresses.
- `CompactRefused`: the compact list of peers, which the query asks for, is refused, because
  the key is first mapped to the list of dictionaries that `AnnounceResponse` names
  before it (gotit.go:27).
- `OneAddressPerEntry`: an entry with an address and a port in range yields them; one with a name
  for an address or a bad port leaves the zero address in the list (http_tracker.go:140), and the
  Manager will dial it.
- `PanicNeedsBadInput`: three kinds of bytes end the process. `Unmarshal` of a list, string or number
  panics (tag_parser.go:74), in a response too; a string length that overflows does (parse.go:130);
  and a torrent without a length that lists a file with an empty `path` passes `Unmarshal`, and
  panics in `torrent.New` (torrent.go:151, download.go:76). No others do.
- `ReadsWhatIsEncoded`: negative numbers are encoded and not read back.
- `NoWrapWithoutRepeat`: its hypothesis is needed. Messages are counted each time they come
  (torrent.go:179), so repeats take `left` below zero, where it wraps (stats.go:36), and the
  percentage above 100, where the bar panics (progress_bar.go).
- `Trackers` in `HttpTracker` takes `url-list`, the web seeds, for trackers as well (torrent.go:76-87).

Violated, each the subject of a run and of an entry under "findings": a peer never
requests because nothing sets `ClientStatus.Interested` (peer.go:240); a peer
started late sends on the closed channel (manager.go:66); the files of a
subdirectory share one path, so that a write of one replaces what was stored of another
(torrent.go:151, two writes); every request on the wire asks for piece
`BlockLength`, offset 0, length 0 (peer_message.go:208).

The `cut` in the properties of `Connection` is real: after a deadline inside a message
(connection.go:51) the rest of it is taken for the next length, what is read then is no
message any more, and `NewPeerMessage` may panic on it, since it slices without a look
at the length (peer_message.go:68); without the hypothesis `~cut` the run fails.

`NoPanicBeforeCancel` leaves out one panic that the model does reach before an interrupt:
a tracker that starts a peer between the last `wg.Done` and the return of `wg.Wait`
(manager.go:174, 213) makes the WaitGroup panic. No document of the repository speaks of
it, so it has no run of its own; checking `crash # "wgReused"` shows it.

## Proofs

`PeerRunProofs` proves, for any finite set of peers, any queues, pieces, lengths and
capacities allowed by the assumptions `TorrentAssumption`, `NoMsgAssumption`,
`PeerAssumption` and `NoReqAssumption`:

- `TypeCorrect`: `TypeOK`. It includes `PlaceOK`: a peer in `request`, `claim` or `write`
  has no request outstanding, one that has sent or is about to send has a request, and one
  at the channel has a checked message. All other proofs start from it.
- `RequestHasOneHolder`: `SingleHolder`. Not inductive alone: a new request must differ
  from every existing one. `RequestsInRound` gives that: all requests of a peer have
  numbers below `made`, and `MakeRequest` uses `made` itself. A pop moves a request from
  the top slot to one peer; a push moves it back; in both cases the other parts of the
  invariant say it was nowhere else.
- `RequestNeverForgotten`: `NoRequestForgotten`, by cases on whether the step moves the
  request; needs `RequestsInRound` (a request is pushed to its maker's stack).
- `RequestsArePooled`: `Spec` implies `ImplementsRequestPool`. Every step of a peer keeps all
  requests where they are, makes one, takes one off a stack or returns one (`StepKinds`), and
  each kind is a stutter or an action of `RequestPool` (`PoolKept`, `PoolMake`, `PoolTake`,
  `PoolReturn`). A stack may hold what its set has no room for, the same request twice; that a
  popped request is gone from the set needs `SingleHolder` before the step.
- `NextNeverCalled`, `FirstPieceOnly`: with `BlockNum > 0` every peer makes a request of its
  own before it holds any or looks at the stack (`MadeFirst`). Suppose a peer p looks and
  the stack is empty. Then by `NoRequestForgotten` the first request of each peer of the round
  that has made one is held by some peer of the round, by `SingleHolder` by different ones
  (a holder has one request), and all these holders have made requests themselves. So the
  peers that have made a request map one to one into those among them that hold one; p has
  made one and holds none, and a finite set has no such map (`FiniteSetTheorems`).
- `OnePieceEach`: with `BlockNum = 0` every request comes from a claim. A peer that found the
  stack of its round empty may make its next request: a licence, which lasts until it claims,
  whatever is queued meanwhile. `ClaimsCovered` says that some function from peers names, for each
  request made or licensed, a peer of its round, so there are no more of them than peers. The
  step that gives a licence builds the function anew for the round: the stack is empty, so each
  request is with an owner, and the others stand for their own licences.
- `DownloadedIsOnDisk`, `LongPieces`, `StoredIsMarked`, `ShortLastIncomplete`: from
  `InFlightChecked`: all that is at a channel send,
  in the channel or in the writer's hands passed `CheckPiece`, so it is whole and right, and
  stays so on disk. A write that is cut short never reaches the last unit of the piece, so
  that unit is on disk only if a whole store put it there (`EndMarked`), which marks the
  piece if it ends at `PieceLength`, and only then (`ShortLastUnmarked`).
- `PiecesAreStored`: `Spec` implies `ImplementsPieceStore`, with the same invariant. A message that
  passed the check stands for its piece (`PiecesJoined`, `PiecesTaken` carry that through the
  channel), starts at unit 0 and holds the torrent's own bytes, so a whole store is
  `StoreWhole`, one cut short is `StorePart`, and neither takes a unit off the disk.
- `StoredCounted`: by `Counted`, which adds the message in the writer's hands: a step of the writer
  counts as many units as it can add to those on disk or in hand.

`ManagerProofs` proves, for any finite sets of trackers and addresses and any bounds
`ManagerAssumption` allows, `TypeOK`, `OnePeerPerAddr`, `WgCountsRunning`,
`PeerNumCounts` and `NoPanicBeforeCancel`. The invariant `Inv` adds `InPool` to them: until `Stop` empties it, the
pool holds every address that is announced to or started. Without it nothing connects
`AddPeer`'s look at the pool with what the other trackers are doing; with it, an address
that is not in the pool is nobody's. Once the pool is nil, `AddPeer` panics and nobody
starts announcing to an address any more. The counters follow by counting: each step adds one member to
a set and one to its counter, takes one off both, or moves an address from the announced
to the started, and `OnePeerPerAddr` makes the two disjoint. `PanicsAfterCancel` is
`NoPanicBeforeCancel`, from `EndsCancelled`: main is past its wait for the context, the channel
closed or the pool nil only once the context is cancelled, and every panic but the WaitGroup's
needs one of these.

It also proves `AddressesLiveOnce`: `Spec` implies `ImplementsAddressLife`. The stage of an address is read off
the trackers' places, the peer's place and the pool (`StageOf`), so a step that moves one goroutine must be shown
to move no other address (`StageKept`), and its own by one action of `AddressLife` (`StageMoved`,
`TrackerLife`, `PeerLife`, `MainLife`). That takes the whole invariant: `OnePeerPerAddr`, so that a
started address is announced to by nobody; `InPool`, so that one given up is known and not new;
`PeerNumCounts`, so that the count that is shown is the number of lives begun and not ended;
`WgCountsRunning`, so that nobody runs when the wait ends; and `PhaseInv`, which ties the closed channel and
the nil pool to the place of main, after which an address that is not in the pool is shut out.

`FileWriterProofs` proves, for any torrents that `FileWriterAssumption` allows, `TypeOK`
(`FileWriterTypeCorrect`), and `BytesInPlace` under the hypothesis `DistinctPaths`
(`BytesLandInPlace`) and, from it, `BytesKept` (`BytesAreKept`): a byte that is in its place is replaced by
none but itself. `file_writer_nested` shows what happens without the hypothesis. The
invariant adds `Placed`: in the search `Start[fileIdx] + piecePoss` is the position of the
call; in the writes it is that of the next byte of the data, and a remainder that does not
fit is in a directory. `WriteLands` draws from it that a `WriteAt`, whole or cut short, puts
byte `Start[fileIdx] + o` at each offset `o` it reaches and stays within the file.
That `Start` is what its recursion says, increasing and bounded by the length of the
torrent needs induction, which the provers cannot take from the library's theorems with a
predicate for a parameter. `SetInduction` in `NumberLemmas` gets it for sets, from the least element
(`WFMin`, `NatLessThanWellFounded`), and the predicate becomes the set of numbers that have it.

It also proves `FilesAreFlat`: under the same hypothesis `Spec` implies `ImplementsFlatDisk`. Every byte of the torrent is in a file (`SomeFile`) and in one only
(`OneFile`, from `FilesInOrder`), both by `SetInduction` over the files. So `WriteImage` can say
what a `WriteAt` is in the one array: its bytes, from `NextByte` on, and no others. Each step of
a call is then a `Store`, a `Return` or, in the search and at an empty file, a stutter.

`ConnectionProofs` proves, for streams of any length in portions of any size,
`TypeOK`, `InOrderUntilCut` (`MessagesInOrder`) and `PanicNeedsCut` (`PanicOnlyAfterCut`). The invariant
says of the stream that each unit follows from the one before it (`NextUnit`): the next unit of the
same message, or the first of the next. It says of the client, while nothing was cut, where in
the stream it is: at the end of the handshake or of a message, or as far inside one as it has read.
A read of the announced length then ends where the message ends.

`UdpTrackerProofs` proves, for any tries, rounds, answers and widths, `TypeOK`,
`OwnConnection` (`OwnConnectionOnly`) and `NoPeersFromUdp` (`UdpFindsNobody`). `OwnConnection`
needs `Connected` beside it: between the handshake and the announce, `connectionId` is what an
answer to the last request gave. `NoPeersFromUdp` needs only the types.

It also proves what trackers and the bar make of the counters: `NoWrapWithoutRepeat`
(`NoWrapUnlessRepeated`) and, under the hypothesis `MaxTakes * Size < Width`,
`NothingLeftIsTrue` (`NothingLeftMeansAll`). The hypothesis says that fewer than 2^64 bytes are ever
counted; without it `left` could wrap all the way round to zero. The counters hold sums over the
messages taken, and a sum over a set needs an induction the provers do not do. `StatsProofs` has
sets instead: `Counted` is the set of pairs of a byte of a taken message and the number of the take, so
`download` is its cardinality and `left` is `Size` minus that of what both additions have counted
(`CountInv`), as long as there are fewer than `Width` of them. A take adds new pairs, as many as the message has bytes
(`AmountGrows`), since messages are disjoint. With no message taken twice the pairs
are at most one for each byte of the torrent, so nothing wraps and the percentage is at most 100 (`BarFits`).

`HttpTrackerProofs` proves, for torrent files and responses of any bytes and ints of any width,
`TypeOK` (`HttpTypeCorrect`), `NumbersExact` (`NumbersAreExact`), `InfoHashOfFile` (`InfoHashIsOfFile`),
`PanicNeedsBadInput` (`PanicNeedsBadBytes`), `CompactRefused` (`CompactAlwaysRefused`),
`OneAddressPerEntry` (`AddressPerEntry`) and `RawIsOwnBytes` (`RawBytesAreOwn`). Most of it is about functions of bytes:

- the recursive functions are what their equations say (`NumeralIs`, `TenfoldIs`, `ReadsIs`): a function that
  satisfies them exists for every bound, by `SetInduction`;
- `TenfoldExact`: as long as ten times the number is an int, no step of the loop of `number()` wraps, since
  what the first digits stand for is no more than what all do (`NumeralGrows`), and
  so `NumberExact`: without a long number in the bytes every length and every int is read exactly;
- `ReadStringEnds`: then the end of a string is never before its start, so no read panics; with it
  goes that a string was preceded by a colon;
- `ReadsGood`, by induction over the depth of the reads: the raw bytes of a list or dictionary are those from
  its start to its end, and in a dictionary they follow the key, which follows a colon (`Keyed`);
- `ReadsAreRecursive`: two depths give the same reads wherever the shallower is enough to reach the end of the
  bytes (`Agree`), by induction over the depth, since each successful read moves on (`Moves`). At the depth that
  `Parse` takes that is everywhere, so there the reads are a fixed point of their equations;
- `RawParsed`: a read that ends within a part of the bytes finds the same when the part is all there is
  (`SameReads`), by induction over its depth in the whole, against the fixed point in the part, which
  spares a count of the depth there. A number could go on behind the part, but one that is read ends before an `e`
  or a colon in it (`SameNumber`). The raw bytes of a list or dictionary are such a part;
- `EncodedIsReadBack`: the calls of one `Encode`, each with the bytes it writes, are a set whose members are made
  from members (`CallsOfEncode`, the clauses of `Encode` with no recursion), which covers every order in which a
  dictionary may be written. The bytes of a call are read back wherever they stand (`CallRead`), by induction
  over their number; items are followed by the `e` that ends their list, which begins no element (`NoElementAtEnd`).
  A text or number must be short enough for `number()`, and an element with a negative number is refused, since a
  minus is no digit (`NegativeRefused`). `NaturalDigits`: what `Itoa` writes says the number it was given;
- `MetainfoIs` and `ResponseIs` take that through `Unmarshal`: what the fields of the two structs are
  when there was no error. A response without a list has no compact form either, as
  they share a key. `FilePathless` and `InfoPathless` take a file without a path element back from the struct to
  the dictionary it came from, whose info has length 0 or none.

The invariant `Inv` of the machine then says that what is in hand was made of the bytes in hand: the torrent in
`torrent` and `urls`, the answer in `done`, and a panic, which is one of `Unmarshal` or one of `torrent.New`
(`CreatesNoPath`).

`NoRequestForgotten`, `StoredIsCounted` and `PeerNumCounts` are proved and in no run: the runs check the
refinements that `RequestsArePooled`, `PiecesAreStored` and `AddressesLiveOnce` prove, which say more.

Only model-checked: the liveness properties (outside what the prover does), and, as a statement about the variables
and the `RECURSIVE` operators of `Encoded`, `ReadsWhatIsEncoded`: `EncodedIsReadBack` proves what it says of any
element, and leaves to TLC that those operators make no other calls than `CallsOfEncode` describes.

## Not modelled

- Start-up and output: flags, configuration, logging, the text of a progress line, the pretty-printer
  and the builder of bencode, which nothing but output and tests use. Sequential, and nothing of the
  rest depends on it.
- The query of an HTTP announce and all of a UDP announce but its connection and transaction ids (the info hash, which
  the code leaves out at udp_tracker.go:139, is a hazard without a property): no code reads it back.
- The limit on peers, which nothing reads (manager.go:45); `SendUnchoke`, `BlockNum()`, `UpdateStatus`
  and `doneCh`, which nothing uses; `upload` and `trackerNum`, which nothing changes; the speed, which is time.
- Writes of the `Connection` are taken whole: a deadline inside a write breaks the stream for the remote
  peer as one inside a read does for us, and what that peer then does is its own matter.

## Plan

Done: all components that keep state or decide anything, each with its properties checked and,
where the prover reaches, proved. What could be added: partial writes, with a remote peer that reads
what arrives.

----------------------------- MODULE HttpTracker -----------------------------
(***************************************************************************)
(* From the torrent file to the addresses of an HTTP tracker: runDownload  *)
(* reads the file into a bencode.Metainfo, torrent.New collects the urls   *)
(* and creates the files, runTracker makes a tracker for one url and       *)
(* announces to it in rounds, each answered with bytes that are            *)
(* unmarshalled into a gotit.AnnounceResponse.                             *)
(*                                                                         *)
(* Bytes are those of Bencode; a url is given by its scheme alone.  The    *)
(* tries of retry.Do are like the rounds here, and UdpTracker has them.    *)
(***************************************************************************)
EXTENDS TagParser, FiniteSets

CONSTANTS
  Torrents,     \* torrent files: bytes, and the element they encode
  Responses,    \* responses: bytes, and the element they encode, Nil for noise
  ValidIps,     \* the texts netip.ParseAddr takes
  MaxPort,      \* the largest port, 65535 in the code
  HashSize,     \* the length of a hash in Info.Pieces, 20 in the code
  Second,       \* time.Second, 10^9 in the code
  Minute,       \* the interval before the first response
  Nil           \* no element

ASSUME HttpTrackerAssumption ==
  /\ \A w \in Torrents \cup Responses : w.bytes \in Seq(STRING)
  /\ HashSize \in Nat \ {0} /\ Second \in Nat \ {0}
  /\ Minute \in 0 .. Half - 1

VARIABLES
  pc,           \* file, torrent, urls, idle, done, gone
  bytes,        \* the bytes read last, as long as they matter
  wrote,        \* the element they encode, Nil for noise
  got,          \* what Unmarshal makes of them
  answer,       \* what Announce returns: a status and addresses
  interval,     \* waitInterval.interval
  crash         \* a panic has ended the process

vars == << pc, bytes, wrote, got, answer, interval, crash >>

(***************************************************************************)
(* The targets of Unmarshal.                                               *)
(***************************************************************************)
Texts(v) == SliceOf(Text, v)
Tiers(v) == SliceOf(Texts, v)

TorrentFile(v) ==
  Struct(v, [Path   |-> Field(v, << "path" >>, Texts),
             Length |-> Field(v, << "length" >>, Int64)])

Files(v) == SliceOf(TorrentFile, v)

Info(v) ==
  Struct(v, [Files       |-> OptionalField(v, << "files" >>, Files, NilSlice),
             Length      |-> OptionalField(v, << "length" >>, Int64, 0),
             Name        |-> Field(v, << "name" >>, Text),
             PieceLength |-> Field(v, << "piece length" >>, Int64),
             Pieces      |-> Field(v, << "pieces" >>, Text)])

Metainfo(v) ==
  Struct(v, [Announce     |-> Field(v, << "announce" >>, Text),
             AnnounceList |-> OptionalField(v, << "announce-list" >>, Tiers, NilSlice),
             UrlList      |-> OptionalField(v, << "url-list" >>, Texts, NilSlice),
             Info         |-> Field(v, << "info" >>, Info),
             InfoDictRaw  |-> Field(v, << "info" >>, Bytes),
             Comment      |-> OptionalField(v, << "comment" >>, Text, << >>),
             CreatedBy    |-> OptionalField(v, << "created by" >>, Text, << >>),
             CreationDate |-> OptionalField(v, << "creation date" >>, Int64, 0),
             Encoding     |-> OptionalField(v, << "encoding" >>, Text, << >>)])

AnnouncePeer(v) ==
  Struct(v, [Ip |-> Field(v, << "ip" >>, Text), Port |-> Field(v, << "port" >>, Text)])

AnnouncePeers(v) == SliceOf(AnnouncePeer, v)

AnnounceResponse(v) ==
  Struct(v, [Failure      |-> OptionalField(v, << "failure reason" >>, Text, << >>),
             Interval     |-> OptionalField(v, << "interval" >>, Int64, 0),
             Peers        |-> OptionalField(v, << "peers" >>, AnnouncePeers, NilSlice),
             PeersCompact |-> OptionalField(v, << "peers" >>, Bytes, NilSlice),
             PeersIpv6    |-> OptionalField(v, << "peers6" >>, Bytes, NilSlice)])

(***************************************************************************)
(* The lists of peers.                                                     *)
(***************************************************************************)
NoAddr == [ip |-> << >>, port |-> << >>]

IsPort(ds) ==
  /\ ds # << >> /\ \A i \in DOMAIN ds : IsDigit(ds[i])
  /\ Numeral(ds, 10) <= MaxPort

\* Mutant of ParseBencodePeers: invalid entries are left out.
DropInvalidPeers(ps) ==
  LET good == {i \in DOMAIN ps : ps[i].Ip \in ValidIps /\ IsPort(ps[i].Port)}
  IN  [i \in 1 .. Cardinality(good) |-> [ip |-> ps[i].Ip, port |-> ps[i].Port]]

\* An entry that is invalid is passed over, and leaves the zero address in its place.
ParseBencodePeers(ps) ==
  [i \in DOMAIN ps |->
     IF ps[i].Ip \in ValidIps /\ IsPort(ps[i].Port) THEN [ip |-> ps[i].Ip, port |-> ps[i].Port]
     ELSE NoAddr]

\* Four bytes of address and two of port each; what is left over is ignored.
ParseCompactPeers(bs) ==
  [i \in 1 .. Len(bs) \div 6 |->
     [ip |-> SubSeq(bs, 6 * i - 5, 6 * i - 2), port |-> SubSeq(bs, 6 * i - 1, 6 * i)]]

Refused == [status |-> "error", addrs |-> << >>]

Peers(r) ==
  IF ~r.Peers.nil THEN [status |-> "ok", addrs |-> ParseBencodePeers(r.Peers.elems)]
  ELSE IF ~r.PeersCompact.nil
       THEN [status |-> "ok", addrs |-> ParseCompactPeers(r.PeersCompact.elems)]
  ELSE Refused

(***************************************************************************)
(* Start-up.                                                               *)
(***************************************************************************)
Init ==
  /\ pc = "file" /\ bytes = << >> /\ wrote = Nil /\ got = Failed
  /\ answer = Refused /\ interval = Minute /\ crash = FALSE

\* runDownload, up to torrent.New: an error ends the program.
ReadTorrent ==
  /\ pc = "file"
  /\ \E w \in Torrents :
       bytes' = w.bytes /\ wrote' = w.of /\ got' = Unmarshal(w.bytes, Metainfo)
  /\ crash' = (got'.status = "panic")
  /\ pc' = IF got'.status = "ok" THEN "torrent" ELSE "gone"
  /\ UNCHANGED << answer, interval >>

SetOf(xs) == {xs.elems[i] : i \in DOMAIN xs.elems}

\* NewPieces; the length of a text that is printed over several lines is left open.
WholeHashes(text) == Len(text) % HashSize = 0 \/ text = << "pretty" >>

IsDirectory(m) == m.Info.Length = 0

\* Mutant of Pathless: the list of files is looked at whether or not it is used.
PathlessFile(m) == \E f \in SetOf(m.Info.Files) : f.Path.elems = << >>

\* A file without the first path element, under which initDownloadDir would create it.
Pathless(m) == IsDirectory(m) /\ \E f \in SetOf(m.Info.Files) : f.Path.elems = << >>

\* torrent.New.  All paths are made before the first file is.
NewTorrent ==
  /\ pc = "torrent"
  /\ WholeHashes(got.val.Info.Pieces)
  /\ crash' = Pathless(got.val)
  /\ pc' = IF crash' THEN "gone" ELSE "urls"
  /\ UNCHANGED << bytes, wrote, got, answer, interval >>

\* Pieces that are no whole hashes, a directory whose parent is missing, or a file that
\* cannot be created.
NewTorrentFails ==
  /\ pc = "torrent"
  /\ pc' = "gone"
  /\ UNCHANGED << bytes, wrote, got, answer, interval, crash >>

\* torrent.New: every url there is, of web seeds too.
Trackers(m) ==
  {m.Announce} \cup UNION {SetOf(tier) : tier \in SetOf(m.AnnounceList)} \cup SetOf(m.UrlList)

\* tracker.New.  A UDP tracker is module UdpTracker; any other scheme ends runTracker.
\* What was read is not looked at again.
New(url) ==
  /\ pc = "urls"
  /\ pc' = IF url \in {<< "http" >>, << "https" >>} THEN "idle" ELSE "gone"
  /\ bytes' = << >> /\ wrote' = Nil /\ got' = Failed
  /\ UNCHANGED << answer, interval, crash >>

(***************************************************************************)
(* The rounds.                                                             *)
(***************************************************************************)

\* No response, or one with another status than 200.
AnnounceFails ==
  /\ pc = "idle"
  /\ answer' = Refused /\ pc' = "done"
  /\ UNCHANGED << bytes, wrote, got, interval, crash >>

\* readPeers.  The interval, a time.Duration, is taken before the peers are looked for.
Announce ==
  /\ pc = "idle"
  /\ \E w \in Responses :
       bytes' = w.bytes /\ wrote' = w.of /\ got' = Unmarshal(w.bytes, AnnounceResponse)
  /\ crash' = (got'.status = "panic")
  /\ IF got'.status = "ok" /\ got'.val.Failure = << >>
     THEN interval' = Wrap(got'.val.Interval * Second) /\ answer' = Peers(got'.val)
     ELSE answer' = Refused /\ UNCHANGED interval
  /\ pc' = "done"

WaitInterval ==
  /\ pc = "done"
  /\ pc' = "idle" /\ bytes' = << >> /\ wrote' = Nil /\ got' = Failed /\ answer' = Refused
  /\ UNCHANGED << interval, crash >>

ContextDone ==
  /\ pc \in {"idle", "done"}
  /\ pc' = "gone"
  /\ UNCHANGED << bytes, wrote, got, answer, interval, crash >>

Next ==
  /\ ~crash
  /\ \/ ReadTorrent \/ NewTorrent \/ NewTorrentFails
     \/ pc = "urls" /\ \E url \in Trackers(got.val) : New(url)
     \/ AnnounceFails \/ Announce
     \/ WaitInterval \/ ContextDone

Spec == Init /\ [][Next]_vars

(***************************************************************************)
(* Properties.                                                             *)
(***************************************************************************)
IsElement(e) == bytes # << >> /\ e.status = "ok"

\* Every variable keeps its type: the interval of a response is an int however it is
\* written, and so is the wait for the next announce, which may wrap.
TypeOK ==
  /\ pc \in {"file", "torrent", "urls", "idle", "done", "gone"}
  /\ bytes \in Seq(STRING)
  /\ got.status \in {"ok", "error", "panic"} /\ answer.status \in {"ok", "error"}
  /\ \A i \in DOMAIN answer.addrs : DOMAIN answer.addrs[i] = {"ip", "port"}
  /\ pc = "done" /\ got.status = "ok" => got.val.Interval \in -Half .. Half - 1
  /\ interval \in -Half .. Half - 1 /\ crash \in BOOLEAN

\* The info hash is made from the very bytes that follow the key of the torrent file,
\* whatever the order of its keys, not from an encoding of what was read.
InfoHashOfFile ==
  pc = "urls" =>
    LET entry == << ":", "info" >> \o got.val.InfoDictRaw.elems
    IN  \E i \in 1 .. Len(bytes) - Len(entry) + 1 :
         SubSeq(bytes, i, i + Len(entry) - 1) = entry

\* A number is read as what it says as long as ten times the number is an int still.
NumbersExact ==
  LET ds == SubSeq(bytes, 2, Len(bytes) - 1) IN
  /\ Len(bytes) > 2 /\ bytes[1] = "i" /\ bytes[Len(bytes)] = "e"
  /\ \A i \in DOMAIN ds : IsDigit(ds[i])
  /\ ~HasLongNumber(bytes)
  => LET e == Parse(bytes) IN IsElement(e) /\ e.val.n = Numeral(ds, 10)

\* Wherever in the bytes a list or dictionary is read, its raw bytes are an encoding of
\* it, from its first unit to its last: parsed alone they give it again, raw bytes of all
\* that is inside included.
RawIsOwnBytes ==
  \A i \in 0 .. Len(bytes) :
    LET e == ElementAt(bytes, i)
    IN  e.status = "ok" /\ e.val.kind \in {"list", "dict"} =>
          LET r == Parse(e.val.raw) IN r.status = "ok" /\ r.val = e.val

\* The info of a torrent has no length, and lists a file whose path has no element.
NamesNoPath(info) ==
  /\ << "length" >> \in DOMAIN info => Int64(info[<< "length" >>]) = Assigned(0)
  /\ << "files" >> \in DOMAIN info
  /\ LET files == info[<< "files" >>].items
     IN  \E i \in DOMAIN files : DOMAIN files[i].value[<< "path" >>].items = {}

\* Whatever a torrent file or a response says, reading it and torrent.New do not panic unless
\* it has a number too long for the scanner, is no dictionary at all or, as initDownloadDir
\* takes the first element of each path unseen, lists a file without one.
PanicNeedsBadInput ==
  crash => \/ HasLongNumber(bytes)
           \/ LET e == Parse(bytes)
              IN  IsElement(e) /\ (e.val.kind = "dict" => NamesNoPath(e.val.value[<< "info" >>].value))

\* The compact list of peers that the query asks for is always refused: the same key is
\* first tried as a list of dictionaries.
CompactRefused ==
  pc = "done" /\ answer.status = "ok" =>
    LET e == Parse(bytes) IN e.val.value[<< "peers" >>].kind = "list"

\* An accepted list has an address for every entry, in order: the entry's own if its text is
\* an address and its port in range, and the zero address, which the Manager takes for a
\* peer, if not.
OneAddressPerEntry ==
  pc = "done" /\ answer.status = "ok" =>
    LET e  == Parse(bytes)
        ps == e.val.value[<< "peers" >>].items
    IN  /\ DOMAIN answer.addrs = DOMAIN ps
        /\ \A i \in DOMAIN ps :
             LET own   == [ip   |-> String(ps[i].value[<< "ip" >>]),
                           port |-> String(ps[i].value[<< "port" >>])]
                 valid == own.ip \in ValidIps /\ IsPort(own.port)
             IN  /\ valid => answer.addrs[i] = own
                 /\ ~valid => answer.addrs[i] = NoAddr
=============================================================================

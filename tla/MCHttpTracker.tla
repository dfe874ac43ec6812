---------------------------- MODULE MCHttpTracker ----------------------------
(***************************************************************************)
(* Instances of HttpTracker for TLC.                                       *)
(***************************************************************************)
EXTENDS Encoded, TLC

Word(w)  == StringElement(<< w >>)
Num(n)   == IntElement(n)
List(xs) == ListElement(xs, << >>)

\* A dictionary of the entries of f that are not Nil.
Dict(f) ==
  LET ks == {k \in DOMAIN f : f[k] # Nil}
  IN  DictElement([k \in {<< x >> : x \in ks} |-> f[k[1]]], << >>)

Ips == {<< "10.0.0.1" >>}

Entries ==
  {Dict("ip" :> Word("10.0.0.1") @@ "port" :> Num(5)),
   Dict("ip" :> Word("a name") @@ "port" :> Num(5)),
   Dict("ip" :> Word("10.0.0.1") @@ "port" :> StringElement(<< "9", "9" >>)),
   Dict("ip" :> Word("10.0.0.1") @@ "port" :> Nil)}

PeerLists ==
  {List(<< >>)} \cup {List(<< e >>) : e \in Entries}
    \cup {List(<< e, f >>) : e, f \in Entries}

Compact(n) == StringElement([i \in 1 .. n |-> "byte"])

\* The least int as a text, and one above the largest.
Edges == {StringElement(<< "-", "2", "5", "6" >>), StringElement(<< "2", "5", "6" >>)}

Elements ==
  {Dict("failure reason" :> f @@ "interval" :> n @@ "peers" :> p) :
     f \in {Nil, StringElement(<< >>), Word("why")},
     n \in {Nil, Num(7), Num(-1), Word("soon")} \cup Edges,
     p \in {Nil, Num(3), Compact(0), Compact(6), Compact(13)} \cup PeerLists}

File(path) == Dict("path" :> List(path) @@ "length" :> Num(2))
FileList   == List(<< File(<< Word("a"), Word("b") >>) >>)
NoPathList == List(<< File(<< Word("a") >>), File(<< >>) >>)

Hashes == StringElement(<< "hash", "hash" >>)

Infos ==
  {Dict("name" :> n @@ "piece length" :> Num(4) @@ "pieces" :> Hashes @@ x) :
     n \in {Nil, Word("name")},
     x \in {"length" :> Num(20), "files" :> FileList, "files" :> Word("none")}}

\* Torrents that torrent.New is about: a file without a path, alone or beside a length,
\* which is 0 or not, and pieces that are no whole hashes or no text.
NewInfos ==
  {Dict("name" :> Word("name") @@ "piece length" :> Num(4) @@ "pieces" :> Hashes
          @@ "files" :> NoPathList @@ "length" :> n) : n \in {Nil, Num(0), Num(20)}}
  \cup
  {Dict("name" :> Word("name") @@ "piece length" :> Num(4) @@ "pieces" :> h
          @@ "files" :> NoPathList) : h \in {Word("half"), List(<< >>)}}

AllTorrents == Written(
  {Dict("announce" :> Word("http") @@ "info" :> i) : i \in NewInfos} \cup
  {List(<< Word("name") >>), Word("name")} \cup
  {Dict("announce" :> a @@ "info" :> i @@ x) :
     a \in {Nil, Word("http")}, i \in Infos \cup {Nil, Word("info")},
     x \in {"announce-list" :> List(<< List(<< Word("udp") >>), List(<< >>) >>),
            "url-list" :> List(<< Word("https") >>), "comment" :> Word("tcp")}})

Alphabet == {"d", "l", "i", "e", ":", "0", "1", "3"}
AnyBytes == UNION {[1 .. n -> Alphabet] : n \in 0 .. 5}

AllResponses == Written(Elements) \cup [of : {Nil}, bytes : AnyBytes]
=============================================================================

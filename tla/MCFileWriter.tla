---------------------------- MODULE MCFileWriter ----------------------------
(***************************************************************************)
(* Instances of FileWriter for TLC.                                        *)
(***************************************************************************)
EXTENDS FileWriter, FiniteSets

FileLens == 0 .. 2

Files(lens, path(_)) == [i \in DOMAIN lens |-> [path |-> path(i), len |-> lens[i]]]

Directory(lens, path(_)) == [dir |-> TRUE, file |-> Files(lens, path)]

LensOf(n) == { lens \in [1 .. n -> FileLens] : \E i \in 1 .. n : lens[i] > 0 }

Own(i)  == i
Same(i) == 1

\* Up to three files, empty ones among them, with a path each, and one file.
AnyLayout ==
  { Directory(lens, Own) : lens \in UNION { LensOf(n) : n \in 1 .. 3 } }
    \cup { [dir |-> FALSE, file |-> << [path |-> 1, len |-> 4] >>] }

\* Two files whose paths begin with the same directory: initDownloadDir joins
\* the download directory with Path[0] alone.
Nested == { Directory(<< 1, 1 >>, Same) }
=============================================================================

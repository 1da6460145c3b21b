------------------------------ MODULE MCWorker ------------------------------
(* An instance of Worker for TLC: a directory d with a file f and a checksum   *)
(* file s, which lists f and a file m that does not exist.  On the command     *)
(* line are the directory and, once more, the file in it.                      *)
EXTENDS Worker, TLC

CONSTANTS d, f, s, m, sha, sha2

MCComponents == {d, f, s, m}
MCNodes == {<<d>>, <<d, f>>, <<d, s>>}
MCDirectories == {<<d>>}
MCArgs == <<<<d>>, <<d, f>>>>
MCNames == MCNodes \cup {<<d, m>>, <<f>>, <<m>>}
MCChecksumNames == {<<d, s>>}
MCLines == (<<d, s>> :> <<[sum |-> sha, name |-> <<f>>], [sum |-> sha, name |-> <<m>>]>>)

MCChecksums == {sha, sha2}
MCTypeOf == [c \in MCChecksums |-> "SHA1"]

\* The tree is one that the theorems about the worker are for.
ASSUME MCTreeAssumption == NamesDistinct /\ ListsAgree /\ ListsBeside
=============================================================================

--------------------------- MODULE MCWorkerNested ---------------------------
(* An instance of Worker for TLC: a directory d with a subdirectory e and a    *)
(* checksum file s, which lists a file f in d and a file g in e.  The checksum *)
(* file alone is on the command line.                                          *)
EXTENDS Worker, TLC

CONSTANTS d, e, f, g, s, sha, sha2

MCComponents == {d, e, f, g, s}
MCNodes == {<<d>>, <<d, e>>, <<d, f>>, <<d, s>>, <<d, e, g>>}
MCDirectories == {<<d>>, <<d, e>>}
MCArgs == <<<<d, s>>>>
MCNames == {<<s>>, <<f>>, <<e, g>>, <<g>>}
MCChecksumNames == {<<s>>}
MCLines == (<<d, s>> :> <<[sum |-> sha, name |-> <<f>>], [sum |-> sha, name |-> <<e, g>>]>>)

MCChecksums == {sha, sha2}
MCTypeOf == [c \in MCChecksums |-> "SHA1"]
=============================================================================

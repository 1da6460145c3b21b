-------------------------- MODULE MCWorkerTwoRoots --------------------------
(* An instance of Worker for TLC: two directories a and b, each with a file f. *)
(* Both files are on the command line.                                         *)
EXTENDS Worker

CONSTANTS a, b, f, sha, sha2

MCComponents == {a, b, f}
MCNodes == {<<a>>, <<b>>, <<a, f>>, <<b, f>>}
MCDirectories == {<<a>>, <<b>>}
MCArgs == <<<<a, f>>, <<b, f>>>>
MCNames == {<<f>>}
MCLines == <<>>

MCChecksums == {sha, sha2}
MCTypeOf == [c \in MCChecksums |-> "SHA1"]
=============================================================================

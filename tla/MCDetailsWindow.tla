--------------------------- MODULE MCDetailsWindow ---------------------------
(* An instance of DetailsWindow for TLC: a file and a checksum file, and two   *)
(* checksum strings of the same type.                                          *)
EXTENDS DetailsWindow, TLC

CONSTANTS f, s, sha, sha2

MCNames == {f, s}
MCChecksumNames == {s}
MCChecksums == {sha, sha2}
MCTypeOf == [c \in MCChecksums |-> "SHA1"]

\* The checksum strings are only compared for equality.
ChecksumSymmetry == Permutations(MCChecksums)
=============================================================================

--------------------------- MODULE MCChecksumFile ---------------------------
(* An instance of ChecksumFile for TLC: candidates 0 and 1, one checksum, and  *)
(* the three names "a", "a b" and ";*".                                        *)
EXTENDS ChecksumFile

MCNames == {<<97>>, <<97, SPACE, 98>>, <<SEMICOLON, STAR>>}
MCSums == {<<48, 49>>}
=============================================================================

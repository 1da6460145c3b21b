----------------------------- MODULE MCFileList -----------------------------
(* Instances of FileList for TLC. *)
EXTENDS FileList

CONSTANTS f, s, sha, sha2, md5, crc, odd

\* An ordinary file and a checksum file.
MCNames == {f, s}
MCChecksumNames == {s}

\* Two SHA1 strings, an MD5 string, one taken for a CRC32, and one whose length
\* fits no type (the digest of a CRC32 is one).
MCChecksums == {sha, sha2, md5, crc, odd}
MCTypeOf == [c \in MCChecksums |->
    CASE c \in {sha, sha2} -> "SHA1" [] c = md5 -> "MD5" [] c = crc -> "CRC32" [] OTHER -> "NO_CHECKSUM"]
=============================================================================

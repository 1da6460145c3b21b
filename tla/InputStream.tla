----------------------------- MODULE InputStream -----------------------------
(***************************************************************************)
(* CheckcopyInputStream: a GIO filter stream that computes checksums of    *)
(* everything read through it and gives them out once it is closed.        *)
(*                                                                         *)
(*   src/src/checkcopy-input-stream.c                                      *)
(*                                                                         *)
(* The stream has one slot per checksum type; the constructor puts a       *)
(* digest into one of them, or into all.  Contents are counted in blocks,  *)
(* and a digest is known by the number of blocks that went into it.  The   *)
(* client is any sequence of calls.                                        *)
(***************************************************************************)
EXTENDS Integers

CONSTANTS
    MaxSize,    \* blocks of the largest content
    NULL

ASSUME StreamAssumption == MaxSize \in Nat /\ NULL \notin [slot : 1 .. 4, of : Int]

\* enum CheckcopyChecksumType
NO_CHECKSUM   == 0
MD5           == 1
SHA1          == 2
SHA256        == 3
CRC32         == 4
ALL_CHECKSUMS == 5

Slots == NO_CHECKSUM + 1 .. ALL_CHECKSUMS - 1

\* A digest that took in something other than the content.
JUNK == -1

Digest == [slot : Slots, of : JUNK .. MaxSize]

VARIABLES
    size,       \* blocks of content in the base stream
    crc_zero,   \* whether the CRC32 of the whole content is the number 0
    pos,        \* blocks handed out
    in_use,     \* the slots that hold a digest
    taken,      \* what each of those digests took in
    closed,     \* the base stream is closed
    reply       \* the last answer of get_checksum for each type

vars == <<size, crc_zero, pos, in_use, taken, closed, reply>>

-----------------------------------------------------------------------------

\* set_property, "checksum-type": the slots that get a digest.  A number that
\* names no type gets none (checksum_new objects, and slot 0 is never used).
InUse(type) ==
    IF type = ALL_CHECKSUMS THEN Slots ELSE {type} \cap Slots

\* A stream for `type` on a content of n blocks.
Construct(type, n) ==
    /\ size = n
    /\ crc_zero \in {n = 0, TRUE}
    /\ pos = 0
    /\ in_use = InUse(type)
    /\ taken = [s \in Slots |-> 0]
    /\ closed = FALSE
    /\ reply = [s \in Slots |-> NULL]

\* Faulty Updates: the length is not checked for -1; the last slot is left out.
UpdateUnchecked(n) ==
    taken' = [s \in Slots |-> IF s \in in_use THEN taken[s] + n ELSE taken[s]]

UpdateAllButLast(n) ==
    taken' = [s \in Slots |-> IF s \notin in_use \/ s = CRC32 THEN taken[s]
                              ELSE IF n = -1 \/ taken[s] = JUNK THEN JUNK
                              ELSE taken[s] + n]

\* checksum_update for every slot: n blocks, or what lies in the buffer after
\* an error, when the length passed on is -1.
Update(n) ==
    taken' = [s \in Slots |-> IF s \notin in_use THEN taken[s]
                              ELSE IF n = -1 \/ taken[s] = JUNK THEN JUNK
                              ELSE taken[s] + n]

\* read_fn.  A read may be short, and returns 0 only at the end.
Read(n) ==
    /\ ~closed
    /\ n \in 0 .. size - pos
    /\ n = 0 => pos = size
    /\ pos' = pos + n
    /\ Update(n)
    /\ UNCHANGED <<size, crc_zero, in_use, closed, reply>>

\* With a CRC32 the length -1 becomes that of 4 GiB, and the program does not
\* survive the call; a digest of GLib takes -1 for a string in the buffer.
ReadError ==
    /\ ~closed
    /\ CRC32 \notin in_use
    /\ Update(-1)
    /\ UNCHANGED <<size, crc_zero, pos, in_use, closed, reply>>

\* Closing the filter closes the base stream, whether or not it reports an error.
Close ==
    /\ closed' = TRUE
    /\ UNCHANGED <<size, crc_zero, pos, in_use, taken, reply>>

\* checksum_get_string.  A CRC32 that is the number 0 counts as not computed.
Answer(type) ==
    IF type \in in_use /\ ~(type = CRC32 /\ (taken[type] = 0 \/ (crc_zero /\ taken[type] = size)))
    THEN [slot |-> type, of |-> taken[type]]
    ELSE NULL

\* A faulty GetChecksum: it answers before the stream is closed.
GetChecksumEarly(type) ==
    /\ type \in Slots
    /\ reply' = [reply EXCEPT ![type] = Answer(type)]
    /\ UNCHANGED <<size, crc_zero, pos, in_use, taken, closed>>

\* checkcopy_input_stream_get_checksum
GetChecksum(type) ==
    /\ type \in Slots
    /\ reply' = [reply EXCEPT ![type] = IF closed THEN Answer(type) ELSE NULL]
    /\ UNCHANGED <<size, crc_zero, pos, in_use, taken, closed>>

-----------------------------------------------------------------------------
Init == \E type \in NO_CHECKSUM .. ALL_CHECKSUMS, n \in 0 .. MaxSize : Construct(type, n)

Next ==
    \/ \E n \in 0 .. MaxSize : Read(n)
    \/ ReadError
    \/ Close
    \/ \E type \in Slots : GetChecksum(type)

Spec == Init /\ [][Next]_vars

-----------------------------------------------------------------------------
TypeOK ==
    /\ size \in 0 .. MaxSize
    /\ crc_zero \in BOOLEAN
    /\ pos \in 0 .. size
    /\ in_use \subseteq Slots
    /\ taken \in [Slots -> JUNK .. MaxSize]
    /\ closed \in BOOLEAN
    /\ reply \in [Slots -> Digest \cup {NULL}]

\* An answer is never a digest of less than has been handed out: whatever the
\* client read, and however the reads were cut, the answer covers all of it
\* (or is worthless because a read failed).
AnswersCoverReads ==
    \A s \in Slots : reply[s] # NULL => reply[s].slot = s /\ reply[s].of \in {pos, JUNK}

\* The contract tests/checksum.c relies on: read to the end without an error
\* and closed, the stream answers for every type it was built for, with the
\* digest of the whole content.  (A CRC32 that is the number 0 is the exception.)
Contract ==
    \A s \in in_use :
        closed /\ pos = size /\ taken[s] # JUNK /\ ~(s = CRC32 /\ (crc_zero \/ size = 0)) =>
            Answer(s) = [slot |-> s, of |-> size]
=============================================================================

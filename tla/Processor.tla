------------------------------ MODULE Processor ------------------------------
(***************************************************************************)
(* The processor at work on one file or directory: it opens the source,    *)
(* copies it block by block through the checksumming stream (or only reads *)
(* it, when verifying), closes both streams and reports the checksum to    *)
(* the file list.  The user may cancel at any moment, every I/O call may   *)
(* fail, and reads and writes may be short.                                *)
(*                                                                         *)
(*   src/src/checkcopy-processor.c, with the stream of InputStream         *)
(***************************************************************************)
EXTENDS InputStream

CONSTANT
    CURR_SIZE_MOD   \* how many values the guint64 curr_size has

ASSUME ProcessorAssumption == CURR_SIZE_MOD \in Nat /\ CURR_SIZE_MOD > MaxSize + 1

VARIABLES
    verify_only,
    directory,      \* the source is a directory
    asked,          \* checksum_type: the type on file, else SHA1
    status,         \* the entry's status in the file list
    genuine,        \* the checksum on file, if any, is that of the source
    cancelled,      \* the cancellable, set by the user
    pc,
    n_read,         \* splice: blocks read and not yet written
    written,        \* blocks written to the output stream
    dest,           \* what is left under the destination's name: so many blocks
                    \* of the source, or OLD for whatever was there before
    curr_size,      \* the dialog's count of bytes processed
    had_error,      \* an I/O call failed or was cancelled
    close_failed    \* history: the destination could not be closed

procVars == <<verify_only, directory, asked, status, genuine, cancelled, pc,
              n_read, written, dest, curr_size, had_error, close_failed>>

allVars == <<vars, procVars>>

OLD == -1

\* checkcopy_checksum_type_to_gio: GChecksumType counts from 0, and has no CRC32
\* in the releases of the time.
ToGio(type) == IF type = CRC32 THEN -1 ELSE type - 1

params == <<verify_only, directory, asked, genuine>>
stream == vars

Goto(label) == pc' = label

\* A faulty AddSize: the count is signed.
AddSizeSigned(n) == curr_size' = curr_size + n

AddSize(n) == curr_size' = (curr_size + n) % CURR_SIZE_MOD

Fail == had_error' = TRUE

-----------------------------------------------------------------------------
(* The user *)

Cancel ==
    /\ ~cancelled
    /\ pc \notin {"done", "dead"}
    /\ cancelled' = TRUE
    /\ UNCHANGED <<stream, params, status, pc, n_read, written, dest, curr_size, had_error, close_failed>>

-----------------------------------------------------------------------------
(* process *)

\* A faulty ProcessDirectory: the directory is made even when verifying.
ProcessDirectoryAlways ==
    /\ pc = "process" /\ directory
    /\ Goto("done")
    /\ \/ ~cancelled /\ dest' = size /\ AddSize(size) /\ UNCHANGED had_error
       \/ Fail /\ UNCHANGED <<dest, curr_size>>
    /\ UNCHANGED <<stream, params, status, cancelled, n_read, written, close_failed>>

\* process_directory: a directory that exists already is as good as a new one.
ProcessDirectory ==
    /\ pc = "process" /\ directory
    /\ Goto("done")
    /\ \/ verify_only /\ UNCHANGED <<dest, curr_size, had_error, close_failed>>
       \/ ~verify_only /\ ~cancelled /\ dest' = size /\ AddSize(size) /\ UNCHANGED had_error
       \/ ~verify_only /\ Fail /\ UNCHANGED <<dest, curr_size, close_failed>>
    /\ UNCHANGED <<stream, params, status, cancelled, n_read, written, close_failed>>

\* process_file, the source opens.
OpenSource ==
    /\ pc = "process" /\ ~directory
    /\ ~cancelled
    /\ Goto(IF verify_only THEN "verify" ELSE "replace")
    /\ UNCHANGED <<stream, params, status, cancelled, n_read, written, dest, curr_size, had_error, close_failed>>

\* process_file, it does not: mark_failed asks for a change of status that the
\* file list does not accept, and g_error ends the program.
OpenFails ==
    /\ pc = "process" /\ ~directory
    /\ Fail
    /\ Goto("dead")
    /\ UNCHANGED <<stream, params, status, cancelled, n_read, written, dest, curr_size, close_failed>>

-----------------------------------------------------------------------------
(* copy_file and splice *)

CreateDestination ==
    /\ pc = "replace"
    /\ ~cancelled
    /\ Goto("created")
    /\ UNCHANGED <<stream, params, status, cancelled, n_read, written, dest, curr_size, had_error, close_failed>>

CreateFails ==
    /\ pc = "replace"
    /\ Fail
    /\ Goto("done")
    /\ UNCHANGED <<stream, params, status, cancelled, n_read, written, dest, curr_size, close_failed>>

\* The second look at the cancellable: dropping the last reference of the new
\* output stream closes it, and the empty file takes the destination's place.
EnterSplice ==
    /\ pc = "created"
    /\ \/ ~cancelled /\ Goto("read") /\ UNCHANGED <<dest, had_error, close_failed>>
       \/ cancelled /\ Fail /\ dest' \in {dest, 0} /\ Goto("done")
    /\ UNCHANGED <<stream, params, status, cancelled, n_read, written, curr_size, close_failed>>

SpliceRead(n) ==
    /\ pc = "read"
    /\ ~cancelled
    /\ Read(n)
    /\ n_read' = n
    /\ Goto(IF n = 0 THEN "close source" ELSE "write")
    /\ UNCHANGED <<params, status, cancelled, written, dest, curr_size, had_error, close_failed>>

SpliceReadFails ==
    /\ pc = "read"
    /\ ReadError
    /\ Fail
    /\ Goto("close source")
    /\ UNCHANGED <<params, status, cancelled, n_read, written, dest, curr_size, close_failed>>

\* Faulty SpliceWrites: a short write is taken for a full one; the length of the
\* read is counted instead of the length of the write.
SpliceWriteOnce(n) ==
    /\ pc = "write"
    /\ ~cancelled
    /\ n \in 1 .. n_read
    /\ AddSize(n)
    /\ n_read' = 0
    /\ written' = written + n
    /\ Goto("read")
    /\ UNCHANGED <<stream, params, status, cancelled, dest, had_error, close_failed>>

SpliceWriteCountsRead(n) ==
    /\ pc = "write"
    /\ ~cancelled
    /\ n \in 1 .. n_read
    /\ AddSize(n_read)
    /\ n_read' = n_read - n
    /\ written' = written + n
    /\ Goto(IF n_read' = 0 THEN "read" ELSE "write")
    /\ UNCHANGED <<stream, params, status, cancelled, dest, had_error, close_failed>>

SpliceWrite(n) ==
    /\ pc = "write"
    /\ ~cancelled
    /\ n \in 1 .. n_read
    /\ AddSize(n)
    /\ n_read' = n_read - n
    /\ written' = written + n
    /\ Goto(IF n_read' = 0 THEN "read" ELSE "write")
    /\ UNCHANGED <<stream, params, status, cancelled, dest, had_error, close_failed>>

\* The -1 of a failed write is added to the size as well.
SpliceWriteFails ==
    /\ pc = "write"
    /\ AddSize(-1)
    /\ Fail
    /\ Goto("close source")
    /\ UNCHANGED <<stream, params, status, cancelled, n_read, written, dest, close_failed>>

\* A faulty CloseSource: verify_file does not report the error.
CloseSourceForgetful ==
    /\ pc = "close source"
    /\ Close
    /\ Goto(IF verify_only THEN "check" ELSE "close dest")
    /\ UNCHANGED <<params, status, cancelled, n_read, written, dest, curr_size, had_error, close_failed>>

CloseSource ==
    /\ pc = "close source"
    /\ Close
    /\ Goto(IF verify_only THEN (IF had_error THEN "done" ELSE "check") ELSE "close dest")
    /\ UNCHANGED <<params, status, cancelled, n_read, written, dest, curr_size, had_error, close_failed>>

\* Closing puts what was written in the destination's place, or fails, for one
\* because the user has cancelled; splice passes no GError and does not look.
CloseDestination ==
    /\ pc = "close dest"
    /\ close_failed' \in BOOLEAN
    /\ dest' = IF close_failed' THEN dest ELSE written
    /\ Goto(IF had_error THEN "done" ELSE "check")
    /\ UNCHANGED <<stream, params, status, cancelled, n_read, written, curr_size, had_error>>

-----------------------------------------------------------------------------
(* verify_file *)

VerifyRead(n) ==
    /\ pc = "verify"
    /\ ~cancelled
    /\ Read(n)
    /\ AddSize(n)
    /\ Goto(IF n = 0 THEN "close source" ELSE "verify")
    /\ UNCHANGED <<params, status, cancelled, n_read, written, dest, had_error, close_failed>>

\* A faulty VerifyReadFails: the loop ends only at the end of the file.
VerifyReadRetries ==
    /\ pc = "verify"
    /\ ReadError
    /\ AddSize(-1)
    /\ Fail
    /\ Goto("verify")
    /\ UNCHANGED <<params, status, cancelled, n_read, written, dest, close_failed>>

VerifyReadFails ==
    /\ pc = "verify"
    /\ ReadError
    /\ AddSize(-1)
    /\ Fail
    /\ Goto("close source")
    /\ UNCHANGED <<params, status, cancelled, n_read, written, dest, close_failed>>

-----------------------------------------------------------------------------
(* The report to the file list *)

\* get_checksum for the type on file, then check_file: a missing checksum is
\* recorded like any other, but is fatal to compare with.
Report ==
    /\ pc = "check"
    /\ GetChecksum(asked)
    /\ LET sum == reply'[asked] IN
       /\ status' = IF status = "FOUND" THEN "COPIED"
                    ELSE IF sum = NULL THEN status
                    ELSE IF genuine /\ sum.of = size THEN "VERIFIED" ELSE "VERIFICATION_FAILED"
       /\ Goto(IF status # "FOUND" /\ sum = NULL THEN "dead" ELSE "done")
    /\ UNCHANGED <<params, cancelled, n_read, written, dest, curr_size, had_error, close_failed>>

-----------------------------------------------------------------------------
\* A call of process for an entry that is not processed yet.  The stream is
\* built for asked, converted to the enumeration of GIO.
ProcInit ==
    /\ verify_only \in BOOLEAN
    /\ directory \in BOOLEAN
    /\ status \in {"FOUND", "VERIFIABLE"}
    /\ asked \in IF status = "FOUND" THEN {SHA1} ELSE Slots
    /\ genuine \in BOOLEAN
    /\ \E n \in 0 .. MaxSize : Construct(ToGio(asked), n)
    /\ cancelled \in BOOLEAN
    /\ pc = "process"
    /\ n_read = 0
    /\ written = 0
    /\ dest = OLD
    /\ curr_size = 0
    /\ had_error = FALSE
    /\ close_failed = FALSE

Work ==
    \/ ProcessDirectory \/ OpenSource \/ OpenFails
    \/ CreateDestination \/ CreateFails \/ EnterSplice
    \/ \E n \in 0 .. MaxSize : SpliceRead(n) \/ SpliceWrite(n) \/ VerifyRead(n)
    \/ SpliceReadFails \/ SpliceWriteFails \/ VerifyReadFails
    \/ CloseSource \/ CloseDestination
    \/ Report

ProcNext == Cancel \/ Work

\* Every call the worker makes returns some time.
ProcSpec == ProcInit /\ [][ProcNext]_allVars /\ WF_allVars(Work)

-----------------------------------------------------------------------------
(* Properties *)

PC == {"process", "replace", "created", "read", "write", "close source", "close dest",
       "verify", "check", "done", "dead"}

ProcTypeOK ==
    /\ TypeOK
    /\ {verify_only, directory, genuine, cancelled, had_error, close_failed} \subseteq BOOLEAN
    /\ asked \in Slots
    /\ status \in {"FOUND", "VERIFIABLE", "COPIED", "VERIFIED", "VERIFICATION_FAILED"}
    /\ pc \in PC
    /\ n_read \in 0 .. MaxSize
    /\ written \in 0 .. MaxSize
    /\ dest \in OLD .. MaxSize
    /\ curr_size \in 0 .. CURR_SIZE_MOD - 1

\* Whatever the lengths of reads and writes, every block read is either written
\* or still in the buffer: none is lost, none written twice.
NothingLost == directory \/ verify_only \/ pos = written + n_read

\* The progress count is exactly the work done, until a call fails; a failed
\* write (or read, when verifying) takes it one short, modulo 2^64.
Moved == IF directory THEN (IF pc = "done" /\ ~verify_only /\ ~had_error THEN size ELSE 0)
         ELSE IF verify_only THEN pos ELSE written

SizeAccounted ==
    \/ curr_size = Moved
    \/ had_error /\ curr_size = (Moved - 1) % CURR_SIZE_MOD

\* A verdict is given only on a file that was read to its end without an error,
\* written in full when copying, and with every digest over the whole content.
\* The whole of it lies at the destination, unless the destination could not be
\* closed, which nobody looks at.
VerdictComplete ==
    status \notin {"FOUND", "VERIFIABLE"} =>
        /\ ~had_error /\ closed
        /\ pos = size
        /\ verify_only \/ dest = size \/ (close_failed /\ written = size)
        /\ \A s \in in_use : taken[s] = size

\* Every call of process ends, however reads and writes are cut and whenever
\* the user cancels.
Ends == <>(pc \in {"done", "dead"})

\* Seen from the worker, all of this is one step: a right verdict, or none.
\* The checksum of a genuine file is never found to differ, nor that of another
\* found to agree, whatever the reads, writes, errors and cancellations.
Call == INSTANCE Job WITH
    stage  <- IF pc \in {"done", "dead"} THEN pc ELSE "waiting",
    stored <- IF pc \in {"done", "dead"} THEN dest ELSE OLD

JobSpec == Call!JobRun

-----------------------------------------------------------------------------
(* What the documentation says, and the code does not do *)

\* README:52: the checksum computed of a file without one is written to disk;
\* so there has to be one.
ChecksumComputed == status = "COPIED" => reply[asked] # NULL

=============================================================================

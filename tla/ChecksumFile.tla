---------------------------- MODULE ChecksumFile ----------------------------
(***************************************************************************)
(* Writing the checksum file: after the last file was processed, the       *)
(* checksums of the files that were copied (and of those that failed the   *)
(* verification) go into a new file in the destination, one line each,     *)
(* sorted by name.                                                         *)
(*                                                                         *)
(*   src/src/checkcopy-file-list.c (get_checksum_stream, write_checksum),  *)
(*   checkcopy-file-info.c (format_checksum, cmp), checkcopy-cancel.c      *)
(*                                                                         *)
(* The file is written even if the user has cancelled: the cancellable is  *)
(* reset for the time of the call.  The user may cancel (again) at any     *)
(* moment, other programs may create files in the destination, and every   *)
(* I/O call may fail.  The worker's loop may make the call more than once. *)
(***************************************************************************)
EXTENDS ChecksumLine, FiniteSets

CONSTANTS
    Names,                      \* relative names, as strings of bytes
    Sums,                       \* checksums, as strings of bytes
    MAX_CHECKSUM_FILE_RETRIES,  \* 10000 in the program
    MaxCalls,                   \* how often write_checksum is called
    NULL

\* A digest in hexadecimal, or the first column of a line that was parsed.
ASSUME ChecksumFileAssumption ==
    /\ IsFiniteSet(Names) /\ Names \subseteq {name \in Seq(Nat) : Plain(name)}
    /\ Sums \subseteq {sum \in Seq(Nat) :
                           /\ sum # <<>> /\ ~IsComment(sum)
                           /\ SPACE \notin Range(sum) /\ Unbroken(sum)}
    /\ MAX_CHECKSUM_FILE_RETRIES \in Nat
    /\ MaxCalls \in Nat
    /\ NULL \notin Nat \cup Sums

\* Faulty Candidates: one more than the limit says.
OneMoreCandidate == 0 .. MAX_CHECKSUM_FILE_RETRIES + 1

\* dest/base.CHECKSUM is candidate 0, dest/base-i.CHECKSUM is candidate i.
Candidates == 0 .. MAX_CHECKSUM_FILE_RETRIES

VARIABLES
    entry,          \* status and checksum of each name in the list
    foreign,        \* the candidates that others have created
    checksum_file,  \* the candidate that is ours, or NULL
    cancelled,      \* the cancellable
    aborted,        \* it was cancelled before the call
    pc,
    i,              \* get_checksum_stream: the candidate to try
    todo,           \* what is left of the sorted list
    wrote,          \* the lines written by this call
    stump,          \* and what of a line its failed write has left
    contents,       \* the lines of the file when the call was made
    torn,           \* and the piece of a line after them
    spoilt,         \* history: which of the lines begin with such a piece
    io_error,       \* history: an I/O call of this call failed, not by cancellation
    requested,      \* history: the user has cancelled
    calls           \* how many calls have been made

\* What earlier calls have left.
file == <<contents, torn, spoilt>>

vars == <<entry, foreign, checksum_file, cancelled, aborted, pc, i, todo, wrote,
          stump, file, io_error, requested, calls>>

Goto(label) == pc' = label

\* The names to write a line for.
Selected == {n \in Names : entry[n].status \in {"COPIED", "VERIFICATION_FAILED"}}

\* The set as a list in the order of g_strcmp0.
Sorted(set) ==
    CHOOSE list \in [1 .. Cardinality(set) -> set] :
        Range(list) = set /\ \A j, k \in DOMAIN list : j < k => Before(list[j], list[k])

\* The lines of the file: the first of this call follows the piece that was there.
FileLines == contents \o (IF wrote = <<>> THEN <<>> ELSE <<torn \o Head(wrote)>> \o Tail(wrote))

\* The piece after the last of them.
Remains == (IF wrote = <<>> THEN torn ELSE <<>>) \o stump

Spoilt == spoilt \cup {k \in {Len(contents) + 1} : wrote # <<>> /\ torn # <<>>}

\* A faulty SortedList: the arguments of the comparison are swapped.
ReverseList == Reverse(Sorted(Selected))

SortedList == Sorted(Selected)

-----------------------------------------------------------------------------
(* The others *)

Cancel ==
    /\ pc # "dead" /\ ~cancelled
    /\ cancelled' = TRUE
    /\ requested' = TRUE
    /\ UNCHANGED <<entry, foreign, checksum_file, aborted, pc, i, todo, wrote, stump, file,
                   io_error, calls>>

OtherCreates(c) ==
    /\ pc # "dead" /\ c \notin foreign \cup {checksum_file}
    /\ foreign' = foreign \cup {c}
    /\ UNCHANGED <<entry, checksum_file, cancelled, aborted, pc, i, todo, wrote, stump, file,
                   io_error, requested, calls>>

-----------------------------------------------------------------------------
(* write_checksum *)

Call ==
    /\ pc = "idle" /\ calls < MaxCalls
    /\ calls' = calls + 1
    /\ aborted' = cancelled
    /\ Goto(IF cancelled THEN "reset" ELSE "open")
    /\ i' = 0
    /\ contents' = FileLines /\ torn' = Remains /\ spoilt' = Spoilt
    /\ wrote' = <<>> /\ stump' = <<>>
    /\ io_error' = FALSE
    /\ UNCHANGED <<entry, foreign, checksum_file, cancelled, todo, requested>>

Reset ==
    /\ pc = "reset"
    /\ cancelled' = FALSE
    /\ Goto("open")
    /\ UNCHANGED <<entry, foreign, checksum_file, aborted, i, todo, wrote, stump, file,
                   io_error, requested, calls>>

\* The stream is there: the list is sorted.
Opened == Goto("write") /\ todo' = SortedList

\* The file of an earlier call is appended to.
AppendTo ==
    /\ pc = "open" /\ checksum_file # NULL /\ ~cancelled
    /\ Opened
    /\ UNCHANGED <<entry, foreign, checksum_file, cancelled, aborted, i, wrote, stump, file,
                   io_error, requested, calls>>

\* A faulty Create: an existing file is replaced.
Replace ==
    /\ pc = "open" /\ checksum_file = NULL /\ ~cancelled
    /\ i \in Candidates
    /\ checksum_file' = i
    /\ Opened
    /\ UNCHANGED <<entry, foreign, cancelled, aborted, i, wrote, stump, file, io_error,
                   requested, calls>>

\* g_file_create is exclusive.
Create ==
    /\ pc = "open" /\ checksum_file = NULL /\ ~cancelled
    /\ i \in Candidates \ foreign
    /\ checksum_file' = i
    /\ Opened
    /\ UNCHANGED <<entry, foreign, cancelled, aborted, i, wrote, stump, file, io_error,
                   requested, calls>>

\* A faulty Exists: after the last candidate the first is tried again.
ExistsWraps ==
    /\ pc = "open" /\ checksum_file = NULL /\ ~cancelled
    /\ i \in Candidates \cap foreign
    /\ i' = IF i = MAX_CHECKSUM_FILE_RETRIES THEN 0 ELSE i + 1
    /\ UNCHANGED <<entry, foreign, checksum_file, cancelled, aborted, pc, todo, wrote, stump,
                   file, io_error, requested, calls>>

\* G_IO_ERROR_EXISTS: on to the next candidate.
Exists ==
    /\ pc = "open" /\ checksum_file = NULL /\ ~cancelled
    /\ i \in Candidates \cap foreign
    /\ i' = i + 1
    /\ UNCHANGED <<entry, foreign, checksum_file, cancelled, aborted, pc, todo, wrote, stump,
                   file, io_error, requested, calls>>

\* No stream: cancelled, no candidate left, or another error.
OpenFails ==
    /\ pc = "open"
    /\ io_error' = ~cancelled
    /\ Goto("restore")
    /\ UNCHANGED <<entry, foreign, checksum_file, cancelled, aborted, i, todo, wrote, stump,
                   file, requested, calls>>

WriteLine ==
    /\ pc = "write" /\ todo # <<>> /\ ~cancelled
    /\ entry[Head(todo)].checksum # NULL
    /\ wrote' = Append(wrote, Format(entry[Head(todo)].checksum, Head(todo)))
    /\ todo' = Tail(todo)
    /\ UNCHANGED <<entry, foreign, checksum_file, cancelled, aborted, pc, i, stump, file,
                   io_error, requested, calls>>

\* An entry without a checksum has no line: nothing is written, without an error.
SkipLine ==
    /\ pc = "write" /\ todo # <<>> /\ ~cancelled
    /\ entry[Head(todo)].checksum = NULL
    /\ todo' = Tail(todo)
    /\ UNCHANGED <<entry, foreign, checksum_file, cancelled, aborted, pc, i, wrote, stump, file,
                   io_error, requested, calls>>

\* Cancelled, or the write fails, after some of the line, but not all of it.  The
\* error is freed after it was logged, and then shown and freed again: the
\* program dies of it, or goes on.
WriteFails ==
    /\ pc = "write" /\ todo # <<>>
    /\ \/ /\ entry[Head(todo)].checksum = NULL /\ cancelled
          /\ stump' = stump
       \/ /\ entry[Head(todo)].checksum # NULL
          /\ LET line == Format(entry[Head(todo)].checksum, Head(todo))
             IN  \E k \in 0 .. Len(line) : stump' = SubSeq(line, 1, k)
    /\ io_error' = ~cancelled
    /\ pc' \in {"close", "dead"}
    /\ UNCHANGED <<entry, foreign, checksum_file, cancelled, aborted, i, todo, wrote, file,
                   requested, calls>>

Written ==
    /\ pc = "write" /\ todo = <<>>
    /\ Goto("close")
    /\ UNCHANGED <<entry, foreign, checksum_file, cancelled, aborted, i, todo, wrote, stump,
                   file, io_error, requested, calls>>

Close ==
    /\ pc = "close"
    /\ io_error' \in {io_error, io_error \/ ~cancelled}
    /\ Goto("restore")
    /\ UNCHANGED <<entry, foreign, checksum_file, cancelled, aborted, i, todo, wrote, stump,
                   file, requested, calls>>

\* A faulty Restore: the cancellation is forgotten.
RestoreNothing ==
    /\ pc = "restore"
    /\ Goto("idle")
    /\ UNCHANGED <<entry, foreign, checksum_file, cancelled, aborted, i, todo, wrote, stump,
                   file, io_error, requested, calls>>

Restore ==
    /\ pc = "restore"
    /\ cancelled' = (cancelled \/ aborted)
    /\ Goto("idle")
    /\ UNCHANGED <<entry, foreign, checksum_file, aborted, i, todo, wrote, stump, file,
                   io_error, requested, calls>>

-----------------------------------------------------------------------------
Init ==
    /\ entry \in [Names -> [status   : {"VERIFIED", "COPIED", "VERIFICATION_FAILED"},
                            checksum : Sums \cup {NULL}]]
    /\ \A n \in Names : entry[n].status # "COPIED" => entry[n].checksum # NULL
    /\ foreign \in SUBSET Candidates
    /\ checksum_file = NULL
    /\ cancelled \in BOOLEAN
    /\ aborted = FALSE
    /\ pc = "idle"
    /\ i = 0
    /\ todo = <<>>
    /\ wrote = <<>> /\ stump = <<>>
    /\ contents = <<>> /\ torn = <<>> /\ spoilt = {}
    /\ io_error = FALSE
    /\ requested = cancelled
    /\ calls = 0

Step ==
    \/ Call \/ Reset
    \/ AppendTo \/ Create \/ Exists \/ OpenFails
    \/ WriteLine \/ SkipLine \/ WriteFails \/ Written
    \/ Close \/ Restore

Next == Step \/ Cancel \/ \E c \in Candidates : OtherCreates(c)

\* The call is made by the worker thread, which goes on.
Spec == Init /\ [][Next]_vars /\ WF_vars(Step)

-----------------------------------------------------------------------------
(* Properties *)

TypeOK ==
    /\ entry \in [Names -> [status   : {"VERIFIED", "COPIED", "VERIFICATION_FAILED"},
                            checksum : Sums \cup {NULL}]]
    /\ foreign \subseteq Candidates
    /\ checksum_file \in Candidates \cup {NULL}
    /\ {cancelled, aborted, io_error, requested} \subseteq BOOLEAN
    /\ pc \in {"idle", "reset", "open", "write", "close", "restore", "dead"}
    /\ i \in 0 .. MAX_CHECKSUM_FILE_RETRIES + 1
    /\ todo \in Seq(Names)
    /\ wrote \in Seq(Seq(Nat)) /\ contents \in Seq(Seq(Nat))
    /\ stump \in Seq(Nat) /\ torn \in Seq(Nat)
    /\ spoilt \subseteq DOMAIN contents
    /\ calls \in 0 .. MaxCalls

\* The checksum file never takes the place of somebody else's file, not even
\* of one that appears while names are tried.
NotOverwritten == checksum_file \notin foreign

\* The lines to write, by name: a file that was copied or failed, and that has
\* a checksum.
Lines == {n \in Selected : entry[n].checksum # NULL}

\* The parser that reads the file when the files are verified gets out of each
\* line the checksum on record of one of the files, whichever call wrote it: no
\* line is taken for a comment, and none for two.  What a failed write has left
\* of a line spoils it, or the one a later call puts after it: of the lines, and
\* of the piece at the end, no more are spoilt than calls were made.
ReadBack ==
    /\ \A k \in DOMAIN FileLines \ Spoilt :
          /\ Unbroken(FileLines[k])
          /\ \E n \in Lines : Parse(FileLines[k]) = {[sum |-> entry[n].checksum, name |-> n]}
    /\ Cardinality(Spoilt) + Cardinality({Remains} \ {<<>>}) <= calls

\* A call that met no error and no cancellation wrote one line for every file
\* that was copied or failed, and that has a checksum: none twice, none for
\* another file, in the order of the names.  (The first stands behind the piece
\* of a line that an earlier call may have left, see ReadBack.)
FileComplete ==
    pc = "restore" /\ ~io_error /\ ~cancelled =>
        \E names \in [DOMAIN wrote -> Lines] :
            /\ \A n \in Lines : \E k \in DOMAIN wrote : names[k] = n
            /\ \A k \in DOMAIN wrote : wrote[k] = Format(entry[names[k]].checksum, names[k])
            /\ \A j, k \in DOMAIN wrote : j < k => Before(names[j], names[k])

\* A cancellation outlasts the call: whenever it came, before, or after the
\* reset, the worker finds itself cancelled when the call returns.
CancelKept == pc = "idle" => (cancelled <=> requested)

\* Every call returns, or the program dies in it.
Returns == <>(pc = "dead" \/ (pc = "idle" /\ calls = MaxCalls))

=============================================================================

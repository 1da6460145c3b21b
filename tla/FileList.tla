------------------------------ MODULE FileList ------------------------------
(***************************************************************************)
(* The file list: one entry per relative file name, the status of each     *)
(* entry, and the counters the progress dialog shows.                      *)
(*                                                                         *)
(*   src/src/checkcopy-file-list.c, checkcopy-file-info.[ch]               *)
(*                                                                         *)
(* The list is driven by the worker thread: the planner announces files    *)
(* and parses checksum files, the processor reports what it computed, the  *)
(* worker sweeps at the end.  The order of those calls is left open here   *)
(* (a directory is enumerated in any order, and the worker loop is written *)
(* for any number of batches); only what the callers themselves check      *)
(* before a call is a guard.  The GUI thread reads the counters under      *)
(* stats_mutex and the statuses without it, so a status change is two      *)
(* steps: the counters under the mutex, then the store of the status.      *)
(***************************************************************************)
EXTENDS Integers, FiniteSets

CONSTANTS
    Names,          \* relative names, the keys of files_hash
    ChecksumNames,  \* the names with a checksum file's extension
    Checksums,      \* checksum strings
    TypeOf,         \* the type each string has, judged by its length
    NULL,           \* the null pointer
    UINT_MAX        \* the largest guint

ChecksumType == {"NO_CHECKSUM", "MD5", "SHA1", "SHA256", "CRC32"}

ASSUME ListAssumption ==
    /\ IsFiniteSet(Names)
    /\ ChecksumNames \subseteq Names
    /\ NULL \notin Checksums
    /\ TypeOf \in [Checksums -> ChecksumType]
    /\ UINT_MAX \in Nat
    /\ Cardinality(Names) <= UINT_MAX

Unprocessed == {"NONE", "VERIFIABLE", "FOUND"}

\* Everything past CHECKCOPY_STATUS_MARKER_PROCESSED.
Processed == {"VERIFIED", "COPIED", "VERIFICATION_FAILED", "FAILED", "NOT_FOUND"}

Status == Unprocessed \cup Processed

Counter == {"VERIFIED", "COPIED", "FAILED", "NOT_FOUND"}

Info == [checksum      : Checksums \cup {NULL},
         checksum_type : ChecksumType,
         status        : Status,
         seen          : BOOLEAN,
         checksum_file : BOOLEAN]

\* What g_new0 makes of a new entry.
NewInfo == [checksum      |-> NULL,
            checksum_type |-> "NO_CHECKSUM",
            status        |-> "NONE",
            seen          |-> FALSE,
            checksum_file |-> FALSE]

\* How the process can end in the middle of a call: g_error on a status
\* change outside the table, g_str_equal on a null pointer, g_assert on a
\* name without an entry.
Fault == {"none", "invalid state change", "null checksum", "unknown file"}

VARIABLES
    verify_only,    \* the "verify-only" property
    known,          \* the names with an entry
    info,           \* the entries (NewInfo for a name without one)
    count,          \* stats.count
    target,         \* the status the counters already reflect: new_status from
                    \* the critical section of a transition on, else the status
    fault,          \* how the process died, or "none"
    listed,         \* history: the checksums parsed for each name
    computed        \* history: the checksums check_file got for each name

vars == <<verify_only, known, info, count, target, fault, listed, computed>>

-----------------------------------------------------------------------------
(* Status changes *)

\* A faulty Successors: a verdict can be taken back by a later mismatch.
SuccessorsReverify ==
    [NONE                |-> {"FOUND", "VERIFIABLE"},
     VERIFIABLE          |-> {"VERIFIED", "VERIFICATION_FAILED", "NOT_FOUND"},
     FOUND               |-> {"VERIFIED", "VERIFICATION_FAILED", "COPIED"},
     NOT_FOUND           |-> {"VERIFIED", "VERIFICATION_FAILED", "FAILED"},
     COPIED              |-> {"VERIFIED", "VERIFICATION_FAILED", "FAILED"},
     VERIFIED            |-> {"VERIFICATION_FAILED", "FAILED"},
     VERIFICATION_FAILED |-> {"FAILED"},
     FAILED              |-> {"FAILED"}]

\* The changes checkcopy_file_list_transition accepts.
Successors ==
    [NONE                |-> {"FOUND", "VERIFIABLE"},
     VERIFIABLE          |-> {"VERIFIED", "VERIFICATION_FAILED", "NOT_FOUND"},
     FOUND               |-> {"VERIFIED", "VERIFICATION_FAILED", "COPIED"},
     NOT_FOUND           |-> {"VERIFIED", "VERIFICATION_FAILED", "FAILED"},
     COPIED              |-> {"VERIFIED", "VERIFICATION_FAILED", "FAILED"},
     VERIFIED            |-> {"FAILED"},
     VERIFICATION_FAILED |-> {"FAILED"},
     FAILED              |-> {"FAILED"}]

\* A faulty CountedIn: a checksum file is counted as copied, too.
CountedInAlways(status, is_checksum_file) ==
    {c \in Counter : c = status \/ (c = "FAILED" /\ status = "VERIFICATION_FAILED")}

\* The counter, if any, that an entry of this status is counted in:
\* a checksum file that was merely copied is left out.
CountedIn(status, is_checksum_file) ==
    {c \in Counter :
        \/ c = status /\ (c = "COPIED" => ~is_checksum_file)
        \/ c = "FAILED" /\ status = "VERIFICATION_FAILED"}

\* guint arithmetic
Inc(x) == IF x = UINT_MAX THEN 0 ELSE x + 1
Dec(x) == IF x = 0 THEN UINT_MAX ELSE x - 1

\* A faulty Recount: the outcome that is left stays counted.
RecountEnteredOnly(status, new, is_checksum_file) ==
    LET entered == CountedIn(new, is_checksum_file)
    IN  [c \in Counter |-> IF c \in entered THEN Inc(count[c]) ELSE count[c]]

\* The counters after the critical section.  The old status is uncounted only
\* if the change is accepted, the new one is counted in any case.
Recount(status, new, is_checksum_file) ==
    LET left    == IF new \in Successors[status]
                   THEN CountedIn(status, is_checksum_file) ELSE {}
        entered == CountedIn(new, is_checksum_file)
        less(c) == IF c \in left THEN Dec(count[c]) ELSE count[c]
    IN  [c \in Counter |-> IF c \in entered THEN Inc(less(c)) ELSE less(c)]

Transition(n, new) ==
    /\ count' = Recount(info[n].status, new, info[n].checksum_file)
    /\ IF new \in Successors[info[n].status]
       THEN target' = [target EXCEPT ![n] = new] /\ UNCHANGED fault
       ELSE fault' = "invalid state change" /\ UNCHANGED target

NoTransition == UNCHANGED <<count, target, fault>>

Die(how) == fault' = how /\ UNCHANGED <<count, target>>

\* The worker is between two calls, and the process is alive.
Idle == fault = "none" /\ \A n \in Names : target[n] = info[n].status

\* The store after the mutex is released.
StoreStatus(n) ==
    /\ fault = "none"
    /\ target[n] # info[n].status
    /\ info' = [info EXCEPT ![n].status = target[n]]
    /\ UNCHANGED <<verify_only, known, count, target, fault, listed, computed>>

-----------------------------------------------------------------------------
(* The planner *)

\* A faulty Found: the new entry is not put into files_hash.
FoundUnregistered(n) ==
    /\ Idle
    /\ ~info[n].seen
    /\ info' = [info EXCEPT ![n].seen = TRUE,
                            ![n].checksum_file = (n \in ChecksumNames)]
    /\ IF info[n].status = "NONE" THEN Transition(n, "FOUND") ELSE NoTransition
    /\ UNCHANGED <<verify_only, known, listed, computed>>

\* process: the first time the planner meets a file or directory.
Found(n) ==
    /\ Idle
    /\ ~info[n].seen
    /\ known' = known \cup {n}
    /\ info' = [info EXCEPT ![n].seen = TRUE,
                            ![n].checksum_file = (n \in ChecksumNames)]
    /\ IF info[n].status = "NONE" THEN Transition(n, "FOUND") ELSE NoTransition
    /\ UNCHANGED <<verify_only, listed, computed>>

\* Faulty RecordChecksums: the line is not cut after the checksum; the type of
\* the checksum is not recorded.
RecordWholeLine(n, c) ==
    /\ Idle
    /\ info[n].status = "NONE"
    /\ known' = known \cup {n}
    /\ listed' = [listed EXCEPT ![n] = @ \cup {c}]
    /\ info' = [info EXCEPT ![n].checksum = <<c, n>>, ![n].checksum_type = TypeOf[c]]
    /\ Transition(n, "VERIFIABLE")
    /\ UNCHANGED <<verify_only, computed>>

RecordUntyped(n, c) ==
    /\ Idle
    /\ info[n].status = "NONE"
    /\ known' = known \cup {n}
    /\ listed' = [listed EXCEPT ![n] = @ \cup {c}]
    /\ info' = [info EXCEPT ![n].checksum = c]
    /\ Transition(n, "VERIFIABLE")
    /\ UNCHANGED <<verify_only, computed>>

\* A line "c  n" of a checksum file, n not met before.
RecordChecksum(n, c) ==
    /\ Idle
    /\ info[n].status = "NONE"
    /\ known' = known \cup {n}
    /\ listed' = [listed EXCEPT ![n] = @ \cup {c}]
    /\ info' = [info EXCEPT ![n].checksum = c, ![n].checksum_type = TypeOf[c]]
    /\ Transition(n, "VERIFIABLE")
    /\ UNCHANGED <<verify_only, computed>>

\* A faulty CompareChecksum: a mismatch is recorded, but not as a failure.
CompareSilently(n, c) ==
    /\ Idle
    /\ info[n].status # "NONE"
    /\ listed' = [listed EXCEPT ![n] = @ \cup {c}]
    /\ \/ info[n].checksum = NULL /\ Die("null checksum") /\ UNCHANGED info
       \/ info[n].checksum # NULL /\ NoTransition /\ info' = [info EXCEPT ![n].checksum = c]
    /\ UNCHANGED <<verify_only, known, computed>>

\* A line "c  n" of a checksum file, n met before: it is compared at once,
\* and on a mismatch replaces the checksum on record.
CompareChecksum(n, c) ==
    /\ Idle
    /\ info[n].status # "NONE"
    /\ listed' = [listed EXCEPT ![n] = @ \cup {c}]
    /\ \/ info[n].checksum = NULL /\ Die("null checksum") /\ UNCHANGED info
       \/ info[n].checksum = c /\ NoTransition /\ UNCHANGED info
       \/ /\ info[n].checksum \notin {NULL, c}
          /\ info' = [info EXCEPT ![n].checksum = c]
          /\ Transition(n, "VERIFICATION_FAILED")
    /\ UNCHANGED <<verify_only, known, computed>>

-----------------------------------------------------------------------------
(* The processor: it passes over every name with a processed status *)

\* The type of checksum the processor asks for.
TypeToCompute(n) ==
    IF info[n].checksum_type = "NO_CHECKSUM" THEN "SHA1" ELSE info[n].checksum_type

\* The type the length of a digest names: a CRC32 has eight digits, and the list
\* takes six for one.
TypeOfDigest(type) == IF type = "CRC32" THEN "NO_CHECKSUM" ELSE type

\* What the stream may answer: a digest of the type that is asked for, or none.
Answers(n) == {c \in Checksums : TypeOf[c] = TypeOfDigest(TypeToCompute(n))} \cup {NULL}

\* check_file for a name with an entry: with no checksum on file the computed
\* one is recorded, else the two are compared.
CheckFile(n, c) ==
    /\ Idle
    /\ n \in known
    /\ info[n].status \notin Processed
    /\ computed' = [computed EXCEPT ![n] = @ \cup {c}]
    /\ \/ /\ info[n].status = "FOUND"
          /\ info' = [info EXCEPT ![n].checksum = c,
                                  ![n].checksum_type = TypeToCompute(n)]
          /\ Transition(n, "COPIED")
       \/ /\ info[n].status # "FOUND"
          /\ UNCHANGED info
          /\ \/ NULL \in {c, info[n].checksum} /\ Die("null checksum")
             \/ /\ NULL \notin {c, info[n].checksum}
                /\ \/ info[n].checksum = c /\ Transition(n, "VERIFIED")
                   \/ info[n].checksum # c /\ Transition(n, "VERIFICATION_FAILED")
    /\ UNCHANGED <<verify_only, known, listed>>

\* check_file for a name without an entry.
CheckUnknownFile(n) ==
    /\ Idle
    /\ n \notin known
    /\ Die("unknown file")
    /\ UNCHANGED <<verify_only, known, info, listed, computed>>

\* mark_failed: the source cannot be opened.
MarkFailed(n) ==
    /\ Idle
    /\ info[n].status \notin Processed
    /\ known' = known \cup {n}
    /\ Transition(n, "FAILED")
    /\ UNCHANGED <<verify_only, info, listed, computed>>

-----------------------------------------------------------------------------
(* The worker *)

\* mark_not_found, for one entry of the sweep.
MarkNotFound(n) ==
    /\ Idle
    /\ verify_only
    /\ info[n].status = "VERIFIABLE"
    /\ Transition(n, "NOT_FOUND")
    /\ UNCHANGED <<verify_only, known, info, listed, computed>>

-----------------------------------------------------------------------------
Init ==
    /\ verify_only \in BOOLEAN
    /\ known = {}
    /\ info = [n \in Names |-> NewInfo]
    /\ count = [c \in Counter |-> 0]
    /\ target = [n \in Names |-> "NONE"]
    /\ fault = "none"
    /\ listed = [n \in Names |-> {}]
    /\ computed = [n \in Names |-> {}]

Next ==
    \E n \in Names :
        \/ StoreStatus(n)
        \/ Found(n)
        \/ \E c \in Checksums : RecordChecksum(n, c) \/ CompareChecksum(n, c)
        \/ \E c \in Answers(n) : CheckFile(n, c)
        \/ CheckUnknownFile(n)
        \/ MarkFailed(n)
        \/ MarkNotFound(n)

Spec == Init /\ [][Next]_vars

-----------------------------------------------------------------------------
(* Properties *)

TypeOK ==
    /\ verify_only \in BOOLEAN
    /\ known \subseteq Names
    /\ info \in [Names -> Info]
    /\ count \in [Counter -> 0 .. UINT_MAX]
    /\ target \in [Names -> Status]
    /\ fault \in Fault
    /\ listed \in [Names -> SUBSET Checksums]
    /\ computed \in [Names -> SUBSET (Checksums \cup {NULL})]

\* The names an observer of the counters counts under c.
Tallied(c) == {n \in Names : c \in CountedIn(target[n], info[n].checksum_file)}

\* What get_stats copies is, at every moment of a living process, exactly the
\* number of entries in each outcome, the change in flight included: no entry
\* is counted twice or dropped on its way through the table, and no guint
\* wraps below zero.
StatsAgree ==
    fault = "none" => \A c \in Counter : count[c] = Cardinality(Tallied(c))

\* A verdict is what the evidence says.  VERIFIED: the one checksum that was
\* ever listed for the file is the one computed from it.  COPIED: no listed
\* checksum contradicts the computed one on record.  VERIFICATION_FAILED: two
\* checksums for the file disagree.  NOT_FOUND: the file was listed, and never
\* read.
VerdictSound ==
    fault = "none" => \A n \in Names :
        LET sum == info[n].checksum IN
        CASE target[n] = "VERIFIED" ->
                listed[n] = {sum} /\ sum \in computed[n]
          [] target[n] = "COPIED" ->
                listed[n] \subseteq {sum} /\ sum \in computed[n]
          [] target[n] = "VERIFICATION_FAILED" ->
                \E l \in listed[n], d \in listed[n] \cup computed[n] : l # d
          [] target[n] = "NOT_FOUND" ->
                listed[n] # {} /\ computed[n] = {}
          [] OTHER -> TRUE

\* The type on record fits the checksum on record wherever it decides what is
\* computed (VERIFIABLE) or was compared (VERIFIED); a file is never verified
\* against a string of a length that names no type, nor against one that is
\* taken for a CRC32, which no digest is as short as.
TypeFits ==
    fault = "none" => \A n \in Names :
        /\ target[n] \in {"VERIFIABLE", "VERIFIED"} =>
              info[n].checksum_type = TypeOf[info[n].checksum]
        /\ target[n] = "VERIFIED" => info[n].checksum_type \notin {"NO_CHECKSUM", "CRC32"}

\* A file that has been compared keeps its verdict: neither a second visit by
\* the processor nor a later checksum file nor the sweep takes it back.
VerdictFinal ==
    [][\A n \in Names : target[n] \in {"VERIFIED", "VERIFICATION_FAILED"} =>
          target'[n] = target[n]]_vars

\* To an observer of the counters, a name has one outcome, or none yet.  A
\* checksum file that was copied has none.
Outcome(n) ==
    IF target[n] \in Unprocessed \/ (target[n] = "COPIED" /\ info[n].checksum_file)
    THEN "undecided"
    ELSE IF target[n] = "VERIFICATION_FAILED" THEN "FAILED" ELSE target[n]

Observed == INSTANCE Tally WITH
    outcome <- [n \in Names |-> Outcome(n)],
    tally   <- count,
    ended   <- (fault # "none")

\* The list is a tally: whatever goes on between the counters, the statuses and
\* the flags, the observer of get_stats sees a file decided once, its counter
\* rise in the same step, and an outcome exchanged only for a failure.
TallySpec == Observed!TallyRun

=============================================================================

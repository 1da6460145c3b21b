--------------------------------- MODULE Job ---------------------------------
(***************************************************************************)
(* What one call of the processor promises to the worker: a single step,   *)
(* after which the source is dealt with.  Either the file list has a       *)
(* verdict, and it is the right one; or nothing is decided, and perhaps a  *)
(* part of the source lies at the destination; or the program has died.    *)
(* Nothing is left at the destination when verifying.                      *)
(*                                                                         *)
(*   what checkcopy-worker.c takes a call of checkcopy-processor.c for;    *)
(*   Processor implements it                                               *)
(***************************************************************************)
EXTENDS Integers

CONSTANT MaxSize        \* the largest source, in blocks

VARIABLES
    verify_only,
    directory,          \* the source is a directory
    size,               \* how many blocks it has
    genuine,            \* the checksum on file, if any, is that of the source
    stage,
    stored,             \* how many blocks of it are at the destination, or OLD
    status              \* of the entry in the file list

params  == <<verify_only, directory, size, genuine>>
jobVars == <<params, stage, stored, status>>

OLD == -1

Waiting ==
    /\ verify_only \in BOOLEAN /\ directory \in BOOLEAN /\ genuine \in BOOLEAN
    /\ size \in 0 .. MaxSize
    /\ stage = "waiting"
    /\ stored = OLD
    /\ status \in {"FOUND", "VERIFIABLE"}

Right == IF status = "FOUND" THEN "COPIED"
         ELSE IF genuine THEN "VERIFIED" ELSE "VERIFICATION_FAILED"

\* All of the source was read, and written; the last step of storing it may
\* have failed unnoticed.
Decided ==
    /\ stage = "waiting" /\ ~directory
    /\ stage' = "done"
    /\ status' = Right
    /\ stored' \in IF verify_only THEN {OLD} ELSE {size, OLD}
    /\ UNCHANGED params

\* A directory has no verdict, and a file whose processing failed gets none.
Undecided ==
    /\ stage = "waiting"
    /\ stage' = "done"
    /\ stored' \in IF verify_only THEN {OLD}
                   ELSE IF directory THEN {size, OLD} ELSE OLD .. size
    /\ UNCHANGED <<params, status>>

Died ==
    /\ stage = "waiting" /\ ~directory
    /\ stage' = "dead"
    /\ stored' \in IF verify_only THEN {OLD} ELSE {size, OLD}
    /\ UNCHANGED <<params, status>>

JobRun == Waiting /\ [][Decided \/ Undecided \/ Died]_jobVars

=============================================================================

-------------------------------- MODULE Tally --------------------------------
(***************************************************************************)
(* What the file list promises to the observer of its counters: every file *)
(* is undecided or has one outcome, the four counters say how many files   *)
(* have each, and both change together, in one step.  An outcome is        *)
(* reached once; only a file that was copied, or was given up as missing,  *)
(* may turn out to be a failure later on.                                  *)
(*                                                                         *)
(*   what progress-dialog.c (update_stat_labels) takes the counters of     *)
(*   checkcopy-file-list.c for; FileList implements it                     *)
(***************************************************************************)
EXTENDS Integers

CONSTANT Names      \* the files

\* The outcomes, a counter for each.
Outcome == {"VERIFIED", "COPIED", "FAILED", "NOT_FOUND"}

VARIABLES
    outcome,    \* what became of each file
    tally,      \* the counters
    ended       \* the program has died

tallyVars == <<outcome, tally, ended>>

Begin ==
    /\ outcome = [n \in Names |-> "undecided"]
    /\ tally = [c \in Outcome |-> 0]
    /\ ended = FALSE

\* A file gets its outcome.
Decide(n, c) ==
    /\ ~ended
    /\ outcome[n] = "undecided"
    /\ outcome' = [outcome EXCEPT ![n] = c]
    /\ tally' = [tally EXCEPT ![c] = @ + 1]
    /\ UNCHANGED ended

\* A checksum file that is read late contradicts what was taken for granted.
Overturn(n) ==
    /\ ~ended
    /\ outcome[n] \in {"COPIED", "NOT_FOUND"}
    /\ outcome' = [outcome EXCEPT ![n] = "FAILED"]
    /\ tally' = [tally EXCEPT ![outcome[n]] = @ - 1, !["FAILED"] = @ + 1]
    /\ UNCHANGED ended

\* The counters of a program that dies promise nothing.
Stop ==
    /\ ~ended
    /\ ended' = TRUE
    /\ tally' \in [Outcome -> Nat]
    /\ UNCHANGED outcome

Advance == Stop \/ \E n \in Names : Overturn(n) \/ \E c \in Outcome : Decide(n, c)

TallyRun == Begin /\ [][Advance]_tallyVars

=============================================================================

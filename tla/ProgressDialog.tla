--------------------------- MODULE ProgressDialog ---------------------------
(***************************************************************************)
(* The progress dialog between its two threads.  The worker moves the      *)
(* dialog through its statuses, adds up the sizes and reports errors; the  *)
(* GUI thread refreshes the bar and the counters on a timer and handles    *)
(* the clicks of the user.                                                 *)
(*                                                                         *)
(*   src/src/progress-dialog.c, error.c, and the calls of the worker:      *)
(*   checkcopy-worker.c, -planner.c, -processor.c; stats_mutex of          *)
(*   checkcopy-file-list.c                                                 *)
(*                                                                         *)
(* Two locks are involved: the GDK lock, which the GUI thread holds in a   *)
(* handler and the worker in progress_dialog_thread_..., and stats_mutex,  *)
(* held for a status change and to copy the counters.  What is done under  *)
(* one lock, without asking for another, is one step.                      *)
(*                                                                         *)
(* The worker walks through Items, twice: the planner counts each name     *)
(* once, the processor each item whose entry has no verdict yet, in the    *)
(* size it has by then.  A walk may fail anywhere; then the user is asked, *)
(* and the rest of a directory is passed over.  One counter stands for the *)
(* four.  What kills the program inside the file list (an error that marks *)
(* a file, a list met after its file) is in Worker: here it goes on.  How  *)
(* the worker comes to life is in Application.                             *)
(***************************************************************************)
EXTENDS Integers, Sequences, FiniteSets

CONSTANTS
    Names,      \* the names that have an entry in the list of files
    Items,      \* what the walks meet, in their order; a name may come again.
                \* The planner finds size, the processor no more than most
    FULL,       \* the parts of the bar, 1000 in the program
    GINT_MAX,   \* the largest gint
    SIZE_MOD    \* how many values a guint64 has

ASSUME DialogAssumption ==
    /\ IsFiniteSet(Names)
    /\ Items \in Seq([name : Names, directory : BOOLEAN, size : Nat, most : Nat])
    /\ \A k \in DOMAIN Items : Items[k].size <= Items[k].most
    /\ {FULL, GINT_MAX, SIZE_MOD} \subseteq Nat \ {0}
    /\ FULL <= GINT_MAX

VARIABLES
    verify_only,
    window,         \* the dialog's window exists
    status,
    idle_tag,       \* whether the update timer runs
    total_size,
    curr_size,
    shrunk,         \* history: an item was smaller than the planner had found it
    bar,            \* the fraction the bar shows
    text,           \* what is written on the bar
    shown,          \* the counter, as the dialog shows it
    button_close,   \* the label of the button
    count,          \* the counter, as the file list keeps it
    seen,           \* the names the planner has met
    decided,        \* the names whose entry has a verdict
    disagreed,      \* history: those of them that two lists gave different sums
    cancelled,      \* the cancellable
    aborted,        \* write_checksum: it was cancelled before the call
    requested,      \* history: the user has cancelled
    gdk,            \* the thread that holds the GDK lock, or "free"
    stats_mutex,    \* the thread that holds the mutex, or "free"
    gui,            \* where the GUI thread is
    worker,         \* where the worker is
    item,           \* the item it is at
    after,          \* where it goes on after a question or a change of status;
                    \* "plan" as long as it plans
    erred,          \* history: one of the walks failed
    fault           \* how the program died, or "none"

progress == <<total_size, curr_size, shrunk>>
display  == <<bar, text>>
config   == <<verify_only, window>>
request  == <<cancelled, aborted, requested>>
place    == <<item, after>>
list     == <<count, seen, decided, disagreed>>
vars == <<config, status, idle_tag, progress, display, shown, button_close, list, request,
          gdk, stats_mutex, gui, worker, place, erred, fault>>

Running == fault = "none" /\ gui # "quit"

-----------------------------------------------------------------------------
(* The bar *)

\* (gint) of curr_size / total_size * FULL.  The conversion of what is not a
\* number, or no gint, has no defined result.
Permil ==
    LET permil == (curr_size * FULL) \div total_size IN
    IF total_size = 0 \/ permil > GINT_MAX THEN {-1, 0, FULL}
    ELSE {IF permil > FULL THEN FULL ELSE permil}

\* update_progress, in a dialog with status st.
UpdateProgress(st) ==
    \E permil \in Permil :
        \/ /\ permil = FULL /\ st \in {"INIT", "CALCULATING_SIZE"}
           /\ fault' = "done_too_early"
           /\ UNCHANGED display
        \/ /\ permil = FULL /\ st \in {"COPYING", "COMPLETED"}
           /\ bar' = FULL
           /\ text' = IF st = "COPYING" THEN "100%" ELSE "Completed"
           /\ UNCHANGED fault
        \/ /\ permil < 0
           /\ text' = "0%"
           /\ UNCHANGED <<bar, fault>>
        \/ /\ permil \in bar .. FULL - 1 /\ st = "COPYING"
           /\ bar' = permil
           /\ text' = "percent"
           /\ UNCHANGED fault
        \/ /\ permil \in 0 .. FULL - 1 /\ (permil < bar \/ st # "COPYING")
           /\ UNCHANGED <<display, fault>>

\* A faulty AddSize: the size is signed.
AddSizeSigned(n) == curr_size' = curr_size + n

AddSize(n) == curr_size' = (curr_size + n) % SIZE_MOD

\* What the processor finds of an item may have changed since the planner.
AddItem ==
    \E n \in 0 .. Items[item].most :
        /\ AddSize(n)
        /\ shrunk' = (shrunk \/ n < Items[item].size)

-----------------------------------------------------------------------------
(* The worker *)

At(label) == Running /\ worker = label

\* A faulty StartCalculating: the timer starts with it.
StartCalculatingTimed ==
    /\ At("start") /\ gdk = "free"
    /\ status' = "CALCULATING_SIZE"
    /\ idle_tag' = TRUE
    /\ worker' = "plan"
    /\ UNCHANGED <<config, progress, display, shown, button_close, list, request,
                   gdk, stats_mutex, gui, place, erred, fault>>

\* progress_dialog_thread_set_status
StartCalculating ==
    /\ At("start") /\ gdk = "free"
    /\ status' = "CALCULATING_SIZE"
    /\ worker' = "plan"
    /\ UNCHANGED <<config, idle_tag, progress, display, shown, button_close, list, request,
                   gdk, stats_mutex, gui, place, erred, fault>>

Name == Items[item].name

\* The planner counts a name once, whatever its status, and sets "total-size"
\* without a lock.
CountSize ==
    /\ total_size' = IF Name \in seen THEN total_size
                     ELSE (total_size + Items[item].size) % SIZE_MOD
    /\ seen' = seen \cup {Name}

PlanItem ==
    /\ At("plan") /\ item <= Len(Items)
    /\ CountSize
    /\ item' = item + 1
    /\ UNCHANGED <<config, status, idle_tag, curr_size, shrunk, display, shown, button_close,
                   count, decided, disagreed, request, gdk, stats_mutex, gui, worker, after,
                   erred, fault>>

\* The planner's walk fails, perhaps with a directory already counted.
PlanFails ==
    /\ At("plan") /\ item <= Len(Items)
    /\ \/ UNCHANGED <<total_size, seen>>
       \/ Items[item].directory /\ CountSize
    /\ item' \in item + 1 .. Len(Items) + 1
    /\ erred' = TRUE
    /\ worker' = IF cancelled THEN "plan" ELSE "error"
    /\ UNCHANGED <<config, status, idle_tag, curr_size, shrunk, display, shown, button_close,
                   count, decided, disagreed, request, gdk, stats_mutex, gui, after, fault>>

\* The planner reads the lists: a second one contradicts what the first says of
\* a name, and the entry has its verdict before the file is read.
ListsDisagree ==
    /\ At("plan")
    /\ \E n \in Names \ decided :
          /\ decided' = decided \cup {n}
          /\ disagreed' = disagreed \cup {n}
    /\ worker' = "transition"
    /\ UNCHANGED <<config, status, idle_tag, progress, display, shown, button_close, count, seen,
                   request, gdk, stats_mutex, gui, place, erred, fault>>

StartCopying ==
    /\ At("plan") /\ gdk = "free"
    /\ item > Len(Items) \/ cancelled
    /\ status' = "COPYING"
    /\ idle_tag' = TRUE
    /\ worker' = "item"
    /\ item' = 1
    /\ after' = "item"
    /\ UNCHANGED <<config, progress, display, shown, button_close, list, request,
                   gdk, stats_mutex, gui, erred, fault>>

AtItem == At("item") /\ item <= Len(Items)

\* The entry has its verdict: no size is added, and nothing is reported.
ItemSkipped ==
    /\ AtItem /\ Name \in decided
    /\ item' = item + 1
    /\ UNCHANGED <<config, status, idle_tag, progress, display, shown, button_close, list,
                   request, gdk, stats_mutex, gui, worker, after, erred, fault>>

\* A faulty DirectoryDone: the size of a directory is never added.
DirectorySkipped ==
    /\ AtItem /\ Items[item].directory /\ Name \notin decided /\ gdk = "free"
    /\ item' = item + 1
    /\ UNCHANGED <<config, status, idle_tag, progress, display, shown, button_close, list,
                   request, gdk, stats_mutex, gui, worker, after, erred, fault>>

\* A directory has no status that counts, and no size when verifying.
DirectoryDone ==
    /\ AtItem /\ Items[item].directory /\ Name \notin decided /\ gdk = "free"
    /\ IF verify_only THEN UNCHANGED <<curr_size, shrunk>> ELSE AddItem
    /\ item' = item + 1
    /\ UNCHANGED <<config, status, idle_tag, total_size, display, shown, button_close, list,
                   request, gdk, stats_mutex, gui, worker, after, erred, fault>>

FileDone ==
    /\ AtItem /\ ~Items[item].directory /\ Name \notin decided /\ gdk = "free" /\ ~cancelled
    /\ AddItem
    /\ decided' = decided \cup {Name}
    /\ item' = item + 1
    /\ after' = "item"
    /\ worker' = "transition"
    /\ UNCHANGED <<config, status, idle_tag, total_size, display, shown, button_close, count, seen,
                   disagreed, request, gdk, stats_mutex, gui, erred, fault>>

\* An I/O error: part of an item is added, perhaps with the -1 of the failed
\* call, and the walk may pass over the rest of the directory.  The user is
\* told, unless the error is the cancellation.
ItemFails ==
    /\ AtItem /\ gdk = "free"
    /\ \E n \in IF Name \in decided \/ (Items[item].directory /\ verify_only) THEN {0}
                ELSE -1 .. Items[item].most : AddSize(n)
    /\ item' \in item + 1 .. Len(Items) + 1
    /\ erred' = TRUE
    /\ worker' = IF cancelled THEN "item" ELSE "error"
    /\ after' = "item"
    /\ UNCHANGED <<config, status, idle_tag, total_size, shrunk, display, shown, button_close, list,
                   request, gdk, stats_mutex, gui, fault>>

\* A faulty ShowError: the GDK lock is held while the user is asked.
ShowErrorLocked ==
    /\ At("error") /\ gdk = "free"
    /\ gdk' = "worker"
    /\ worker' = "asking"
    /\ UNCHANGED <<config, status, idle_tag, progress, display, shown, button_close, list,
                   request, stats_mutex, gui, place, erred, fault>>

\* thread_show_gerror: gtk_dialog_run lets go of the GDK lock for its loop.
ShowError ==
    /\ At("error") /\ gdk = "free"
    /\ worker' = "asking"
    /\ UNCHANGED <<config, status, idle_tag, progress, display, shown, button_close, list,
                   request, gdk, stats_mutex, gui, place, erred, fault>>

LeaveError ==
    /\ At("answered") /\ gdk = "free"
    /\ worker' = after
    /\ UNCHANGED <<config, status, idle_tag, progress, display, shown, button_close, list,
                   request, gdk, stats_mutex, gui, place, erred, fault>>

\* checkcopy_file_list_transition, at both ends of the critical section.
LockStats ==
    /\ At("transition") /\ stats_mutex = "free"
    /\ stats_mutex' = "worker"
    /\ worker' = "counting"
    /\ UNCHANGED <<config, status, idle_tag, progress, display, shown, button_close, list,
                   request, gdk, gui, place, erred, fault>>

CountFile ==
    /\ At("counting")
    /\ count' = count + 1
    /\ stats_mutex' = "free"
    /\ worker' = after
    /\ UNCHANGED <<config, status, idle_tag, progress, display, shown, button_close, seen, decided,
                   disagreed, request, gdk, gui, place, erred, fault>>

\* write_checksum, when copying: what a cancellation has left of the items is
\* passed over, and the file is written all the same (see ChecksumFile).
StartWriting ==
    /\ At("item")
    /\ item > Len(Items) \/ cancelled
    /\ item' = Len(Items) + 1
    /\ aborted' = (cancelled /\ ~verify_only)
    /\ worker' = IF verify_only THEN "sweep" ELSE IF cancelled THEN "reset" ELSE "writing"
    /\ UNCHANGED <<config, status, idle_tag, progress, display, shown, button_close, list,
                   cancelled, requested, gdk, stats_mutex, gui, after, erred, fault>>

ResetCancelled ==
    /\ At("reset")
    /\ cancelled' = FALSE
    /\ worker' = "writing"
    /\ UNCHANGED <<config, status, idle_tag, progress, display, shown, button_close, list,
                   aborted, requested, gdk, stats_mutex, gui, place, erred, fault>>

\* The user is told; for the failure of a line, the error has been freed before.
WriteFails ==
    /\ At("writing") /\ ~cancelled
    /\ fault' \in {"none", "error_freed_twice"}
    /\ worker' = "error"
    /\ after' = "written"
    /\ UNCHANGED <<config, status, idle_tag, progress, display, shown, button_close, list,
                   request, gdk, stats_mutex, gui, item, erred>>

EndWriting ==
    /\ At("writing") \/ At("written")
    /\ cancelled' = (cancelled \/ aborted)
    /\ worker' = "sweep"
    /\ UNCHANGED <<config, status, idle_tag, progress, display, shown, button_close, list,
                   aborted, requested, gdk, stats_mutex, gui, place, erred, fault>>

\* The sweep, when verifying: each entry that was listed and not read gets its
\* verdict.
SweepEntry ==
    /\ At("sweep") /\ verify_only
    /\ \E n \in Names \ decided : decided' = decided \cup {n}
    /\ after' = "sweep"
    /\ worker' = "transition"
    /\ UNCHANGED <<config, status, idle_tag, progress, display, shown, button_close, count, seen,
                   disagreed, request, gdk, stats_mutex, gui, item, erred, fault>>

\* A faulty SetCompleted: the lock is let go of before the last update.
SetCompletedUnlocked ==
    /\ At("sweep") /\ gdk = "free"
    /\ status' = "COMPLETED"
    /\ button_close' = "CLOSE"
    /\ IF idle_tag THEN UpdateProgress("COMPLETED")
       ELSE fault' = "no_timer" /\ UNCHANGED display
    /\ idle_tag' = FALSE
    /\ worker' = "updating"
    /\ UNCHANGED <<config, progress, shown, list, request, gdk, stats_mutex, gui, place, erred>>

\* set_status (COMPLETED) takes the timer away, and updates the dialog one last
\* time; the counters need the second lock.
SetCompleted ==
    /\ At("sweep") /\ gdk = "free"
    /\ status' = "COMPLETED"
    /\ button_close' = "CLOSE"
    /\ IF idle_tag THEN UpdateProgress("COMPLETED")
       ELSE fault' = "no_timer" /\ UNCHANGED display
    /\ idle_tag' = FALSE
    /\ gdk' = "worker"
    /\ worker' = "updating"
    /\ UNCHANGED <<config, progress, shown, list, request, stats_mutex, gui, place, erred>>

\* A faulty LastUpdate: the counters are not read again.
LastUpdateOfBar ==
    /\ At("updating")
    /\ gdk' = "free"
    /\ worker' = "wait"
    /\ UNCHANGED <<config, status, idle_tag, progress, display, shown, button_close, list,
                   request, stats_mutex, gui, place, erred, fault>>

LastUpdate ==
    /\ At("updating") /\ stats_mutex = "free"
    /\ shown' = count
    /\ gdk' = "free"
    /\ worker' = "wait"
    /\ UNCHANGED <<config, status, idle_tag, progress, display, button_close, list,
                   request, stats_mutex, gui, place, erred, fault>>

-----------------------------------------------------------------------------
(* The GUI thread *)

\* The timer's callback starts; the GDK lock is for the callback to take.  From
\* here on it runs, even if the worker removes the timer.
TimerFires ==
    /\ Running /\ gui = "loop" /\ idle_tag
    /\ gui' = "callback"
    /\ UNCHANGED <<config, status, idle_tag, progress, display, shown, button_close, list,
                   request, gdk, stats_mutex, worker, place, erred, fault>>

UpdateBar ==
    /\ Running /\ gui = "callback" /\ gdk = "free"
    /\ UpdateProgress(status)
    /\ gdk' = "gui"
    /\ gui' = "labels"
    /\ UNCHANGED <<config, status, idle_tag, progress, shown, button_close, list,
                   request, stats_mutex, worker, place, erred>>

UpdateLabels ==
    /\ Running /\ gui = "labels" /\ stats_mutex = "free"
    /\ shown' = count
    /\ gdk' = "free"
    /\ gui' = "loop"
    /\ UNCHANGED <<config, status, idle_tag, progress, display, button_close, list,
                   request, stats_mutex, worker, place, erred, fault>>

\* The user answers the question whether to abort.
Answer ==
    /\ Running /\ gui = "loop" /\ gdk = "free"
    /\ worker = "asking"
    /\ worker' = "answered"
    /\ \/ UNCHANGED request
       \/ cancelled' = TRUE /\ requested' = TRUE /\ UNCHANGED aborted
    /\ UNCHANGED <<config, status, idle_tag, progress, display, shown, button_close, list,
                   gdk, stats_mutex, gui, place, erred, fault>>

\* cb_close_clicked, and cb_delete, after which GTK destroys the window.
Click(delete) ==
    /\ Running /\ gui = "loop" /\ gdk = "free" /\ window
    /\ IF button_close = "CLOSE" \/ cancelled
       THEN gui' = "quit" /\ UNCHANGED <<cancelled, requested>>
       ELSE cancelled' = TRUE /\ requested' = TRUE /\ UNCHANGED gui
    /\ window' = ~delete
    /\ UNCHANGED <<verify_only, status, idle_tag, progress, display, shown, button_close, list,
                   aborted, gdk, stats_mutex, worker, place, erred, fault>>

\* The next access to a dialog whose window was destroyed may be the end.
UseDestroyed ==
    /\ Running /\ ~window /\ gdk = "free"
    /\ worker # "wait" \/ gui = "callback"
    /\ fault' = "destroyed_dialog"
    /\ UNCHANGED <<config, status, idle_tag, progress, display, shown, button_close, list,
                   request, gdk, stats_mutex, gui, worker, place, erred>>

-----------------------------------------------------------------------------
\* A new dialog, and a worker with nothing done.
Fresh ==
    /\ status = "INIT"
    /\ idle_tag = FALSE
    /\ total_size = 0
    /\ curr_size = 0
    /\ shrunk = FALSE
    /\ bar = 0
    /\ text = "empty"
    /\ shown = 0
    /\ button_close = "CANCEL"
    /\ count = 0
    /\ seen = {}
    /\ decided = {}
    /\ disagreed = {}
    /\ cancelled = FALSE
    /\ aborted = FALSE
    /\ requested = FALSE
    /\ stats_mutex = "free"
    /\ item = 1
    /\ after = "plan"
    /\ erred = FALSE
    /\ fault = "none"

WorkerStep ==
    \/ StartCalculating \/ PlanItem \/ PlanFails \/ ListsDisagree \/ StartCopying
    \/ ItemSkipped \/ DirectoryDone \/ FileDone \/ ItemFails
    \/ ShowError \/ LeaveError
    \/ LockStats \/ CountFile
    \/ StartWriting \/ ResetCancelled \/ WriteFails \/ EndWriting \/ SweepEntry
    \/ SetCompleted \/ LastUpdate

GuiStep == UpdateBar \/ UpdateLabels

Next ==
    \/ WorkerStep \/ GuiStep \/ TimerFires \/ Answer
    \/ \E delete \in BOOLEAN : Click(delete)
    \/ UseDestroyed

\* Both threads go on, and the user answers.  The timer leaves the GDK lock
\* free for most of its 250 ms: a thread that asks for it gets it.
Fairness == SF_vars(WorkerStep) /\ SF_vars(GuiStep) /\ SF_vars(Answer)

-----------------------------------------------------------------------------
(* Properties *)

TypeOK ==
    /\ {verify_only, window, idle_tag, cancelled, aborted, requested, erred, shrunk} \subseteq BOOLEAN
    /\ status \in {"INIT", "CALCULATING_SIZE", "COPYING", "COMPLETED"}
    /\ {total_size, curr_size} \subseteq 0 .. SIZE_MOD - 1
    /\ bar \in 0 .. FULL
    /\ text \in {"empty", "percent", "0%", "100%", "Completed"}
    /\ {shown, count} \subseteq 0 .. Cardinality(Names)
    /\ seen \in SUBSET Names /\ decided \in SUBSET Names /\ disagreed \in SUBSET decided
    /\ button_close \in {"CANCEL", "CLOSE"}
    /\ gdk \in {"free", "gui", "worker"} /\ stats_mutex \in {"free", "gui", "worker"}
    /\ gui \in {"options", "usage", "choosing", "create", "push", "main",
                "loop", "callback", "labels", "quit"}
    /\ worker \in {"none", "start", "plan", "item", "error", "asking", "answered", "transition",
                   "counting", "reset", "writing", "written", "sweep", "updating", "wait"}
    /\ item \in 1 .. Len(Items) + 1
    /\ after \in {"plan", "item", "written", "sweep"}
    /\ fault \in {"none", "done_too_early", "no_timer", "destroyed_dialog",
                  "error_freed_twice", "queue_unset"}

\* However the two threads interleave, the timer never finds a finished job in
\* a dialog that has not begun to copy (g_error), and is there when it is
\* taken away (g_assert).
NoAbort == fault \notin {"done_too_early", "no_timer"}

\* When the worker has nothing left to do, the counters on display are those
\* of the file list, though the timer is gone and a callback may be under way.
FinalCounters == worker = "wait" => shown = count

\* The bar that a copy leaves behind, with no error in either walk and no wish
\* to abort: the last update sees all that was added up, so it is full, and
\* says so, exactly if the processor has added at least what the planner
\* counted.  That it has, whatever was met again and in whatever order, unless
\* an item has shrunk in between or a verdict of two lists was there before the
\* file was read: such a file the planner counts and the processor does not.
\* (A verification leaves out the directories.)  This takes SizesFit.
FinalBar ==
    worker = "wait" /\ ~verify_only /\ ~erred /\ ~requested /\ total_size > 0 =>
        /\ bar = FULL <=> curr_size >= total_size
        /\ bar = FULL => text = "Completed"
        /\ ~shrunk /\ disagreed = {} => bar = FULL

\* The most that the first k items can add, and what the planner counts of them:
\* each name once.
ProcessedSize[k \in 0 .. Len(Items)] == IF k = 0 THEN 0 ELSE ProcessedSize[k - 1] + Items[k].most

Again(k) == \E j \in 1 .. k - 1 : Items[j].name = Items[k].name

PlannedSize[k \in 0 .. Len(Items)] ==
    IF k = 0 THEN 0 ELSE PlannedSize[k - 1] + IF Again(k) THEN 0 ELSE Items[k].size

\* No sum of sizes wraps; and what the processor adds is not so much more than
\* what the planner counts (2 million times, in the program) that the fraction
\* in parts of the bar is no gint.
SizesFit ==
    LET n == Len(Items)
    IN  /\ ProcessedSize[n] < SIZE_MOD
        /\ PlannedSize[n] > 0 => (ProcessedSize[n] * FULL) \div PlannedSize[n] <= GINT_MAX

\* The program is left before the worker has nothing left to do (the copying,
\* the checksum file, the sweep, the last update) only if the user has asked
\* for it before.
QuitOnlyWhenDone == gui = "quit" /\ ~requested => worker \in {"none", "wait"}

\* The worker gets to the end: neither the two locks, nor the question it asks
\* under one of them, nor a click keeps it from it.
Finishes == <>(worker = "wait" \/ ~Running)

=============================================================================

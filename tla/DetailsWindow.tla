---------------------------- MODULE DetailsWindow ----------------------------
(***************************************************************************)
(* The details window: a click on "Details" fills a table with the name,   *)
(* the checksum and the status of every entry of the file list.  The GUI   *)
(* thread reads the list entry by entry, and takes no lock the worker      *)
(* would wait for, so that the calls of FileList go on between its steps.  *)
(*                                                                         *)
(*   src/src/checkcopy-details-window.c (display_list), progress-dialog.c  *)
(*   (cb_details_clicked), checkcopy-file-list.c (get_display_list),       *)
(*   ompa-list.c                                                           *)
(*                                                                         *)
(* Three accesses have no defined outcome: a walk through the hash table   *)
(* into which the worker inserts, the copy of a checksum it has freed, and *)
(* the use of a window that GTK has destroyed after the user deleted it.   *)
(***************************************************************************)
EXTENDS FileList

VARIABLES
    gui,        \* where the GUI thread is: in its loop, walking, or filling
    walked,     \* the names in the table when the walk began
    left,       \* what is left of the copied list
    half,       \* the columns read of the row that is being filled
    rows,       \* what the window shows of each name, or NULL
    visible,    \* whether the window is on the screen
    destroyed,  \* whether the user has deleted it
    killed      \* the program died of an access without a defined outcome

window == <<gui, walked, left, half, rows, visible, destroyed, killed>>
allVars == <<vars, window>>

Alive == fault = "none" /\ ~killed

\* No column read yet; a name that stands for no row.
NoRow == [name |-> NULL, checksum |-> <<>>, status |-> <<>>]

-----------------------------------------------------------------------------
(* get_display_list *)

\* When verifying, a checksum file that was merely read is not displayed.
Displayed(n) ==
    verify_only => info[n].status # "COPIED" \/ ~info[n].checksum_file

\* ompa_list_filter
Filtered(list) == {n \in list : Displayed(n)}

ClickDetails ==
    /\ Alive /\ gui = "loop" /\ ~destroyed
    /\ gui' = "walking"
    /\ walked' = known
    /\ UNCHANGED <<vars, left, half, rows, visible, destroyed, killed>>

\* The window is gone, and so may be the program.
ClickDestroyed ==
    /\ Alive /\ gui = "loop" /\ destroyed
    /\ killed' = TRUE
    /\ UNCHANGED <<vars, gui, walked, left, half, rows, visible, destroyed>>

\* display_list starts from an empty table.
WalkEnds ==
    /\ Alive /\ gui = "walking"
    /\ \E got \in IF known = walked THEN {known} ELSE SUBSET known :
          left' = Filtered(got)
    /\ gui' = "filling"
    /\ rows' = [n \in Names |-> NULL]
    /\ UNCHANGED <<vars, walked, half, visible, destroyed, killed>>

\* The worker has inserted, and perhaps resized the table, under the walk.
WalkCrashes ==
    /\ Alive /\ gui = "walking" /\ known # walked
    /\ killed' = TRUE
    /\ UNCHANGED <<vars, gui, walked, left, half, rows, visible, destroyed>>

-----------------------------------------------------------------------------
(* display_list *)

NextRow ==
    /\ Alive /\ gui = "filling" /\ half = NoRow
    /\ \E n \in left : half' = [half EXCEPT !.name = n] /\ left' = left \ {n}
    /\ UNCHANGED <<vars, gui, walked, rows, visible, destroyed, killed>>

\* The arguments of gtk_list_store_set are evaluated in any order.
ReadHash ==
    /\ Alive /\ half.name # NULL /\ half.checksum = <<>>
    /\ half' = [half EXCEPT !.checksum = <<info[half.name].checksum>>]
    /\ UNCHANGED <<vars, gui, walked, left, rows, visible, destroyed, killed>>

ReadStatus ==
    /\ Alive /\ half.name # NULL /\ half.status = <<>>
    /\ half' = [half EXCEPT !.status = <<info[half.name].status>>]
    /\ UNCHANGED <<vars, gui, walked, left, rows, visible, destroyed, killed>>

BothRead == Alive /\ half.name # NULL /\ <<>> \notin {half.checksum, half.status}

\* The pointer to the checksum that was read; a later mismatch has freed it.
Freed == half.checksum \notin {<<NULL>>, <<info[half.name].checksum>>}

\* gtk_list_store_set copies the string.
SetRow ==
    /\ BothRead
    /\ \E sum \in IF Freed THEN Checksums ELSE {half.checksum[1]} :
          rows' = [rows EXCEPT ![half.name] = [checksum |-> sum, status |-> half.status[1]]]
    /\ half' = NoRow
    /\ UNCHANGED <<vars, gui, walked, left, visible, destroyed, killed>>

SetRowCrashes ==
    /\ BothRead /\ Freed
    /\ killed' = TRUE
    /\ UNCHANGED <<vars, gui, walked, left, half, rows, visible, destroyed>>

\* The window keeps what it shows until the next click.
ShowWindow ==
    /\ Alive /\ gui = "filling" /\ half = NoRow /\ left = {}
    /\ gui' = "loop"
    /\ walked' = {}
    /\ visible' = TRUE
    /\ UNCHANGED <<vars, left, half, rows, destroyed, killed>>

\* The button hides the window; its deletion hides it and goes on to GTK.
CloseWindow(delete) ==
    /\ Alive /\ gui = "loop" /\ visible
    /\ visible' = FALSE
    /\ destroyed' = delete
    /\ rows' = [n \in Names |-> NULL]
    /\ UNCHANGED <<vars, gui, walked, left, half, killed>>

-----------------------------------------------------------------------------
WindowInit ==
    /\ Init
    /\ gui = "loop"
    /\ walked = {}
    /\ left = {}
    /\ half = NoRow
    /\ rows = [n \in Names |-> NULL]
    /\ visible = FALSE
    /\ destroyed = FALSE
    /\ killed = FALSE

Fill == NextRow \/ ReadHash \/ ReadStatus \/ SetRow \/ SetRowCrashes \/ ShowWindow

WindowNext ==
    \/ ~killed /\ Next /\ UNCHANGED window
    \/ ClickDetails \/ ClickDestroyed \/ WalkEnds \/ WalkCrashes
    \/ Fill
    \/ \E delete \in BOOLEAN : CloseWindow(delete)

WindowSpec == WindowInit /\ [][WindowNext]_allVars

-----------------------------------------------------------------------------
(* Properties *)

\* However the unlocked reads fall between the steps of the worker, and however
\* old the window has become: a row with the verdict of a comparison is still
\* true, the row of a verified file shows the one sum that was listed and
\* computed (or none), and no row is ahead of the counters.
RowsTrue ==
    Alive => \A n \in Names : rows[n] # NULL =>
        /\ rows[n].status \in {"VERIFIED", "VERIFICATION_FAILED"} =>
              target[n] = rows[n].status
        /\ rows[n].status = "VERIFIED" =>
              rows[n].checksum = NULL \/ rows[n].checksum \in listed[n] \cap computed[n]
        /\ rows[n].status \in Processed => target[n] \in Processed

=============================================================================

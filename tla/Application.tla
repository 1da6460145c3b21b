----------------------------- MODULE Application -----------------------------
(***************************************************************************)
(* The program from its start: main settles what to do and where to, makes *)
(* the dialog, fills the queue, starts the worker and enters the main loop *)
(* of GTK, which ends the program when it is left.  The rest is done by    *)
(* the two threads of ProgressDialog.                                      *)
(*                                                                         *)
(*   src/src/checkcopy-main.c                                              *)
(*                                                                         *)
(* main takes the GDK lock first of all, and gives it up in the main loop  *)
(* only: until then the worker waits for it.                               *)
(***************************************************************************)
EXTENDS ProgressDialog

-----------------------------------------------------------------------------
(* Before the dialog *)

\* A wrong option, or -V.
LeaveAtOnce ==
    /\ gui = "options"
    /\ gui' = "quit"
    /\ UNCHANGED <<config, status, idle_tag, progress, display, shown, button_close, list,
                   request, gdk, stats_mutex, worker, place, erred, fault>>

\* No files: the usage is shown until the user has closed it.
ShowUsage ==
    /\ gui = "options"
    /\ gui' = "usage"
    /\ UNCHANGED <<config, status, idle_tag, progress, display, shown, button_close, list,
                   request, gdk, stats_mutex, worker, place, erred, fault>>

CloseUsage ==
    /\ gui = "usage"
    /\ gui' = "quit"
    /\ UNCHANGED <<config, status, idle_tag, progress, display, shown, button_close, list,
                   request, gdk, stats_mutex, worker, place, erred, fault>>

\* A destination on the command line may say to verify.
TakeDestination ==
    /\ gui = "options"
    /\ gui' = "create"
    /\ verify_only' \in BOOLEAN
    /\ UNCHANGED <<window, status, idle_tag, progress, display, shown, button_close, list,
                   request, gdk, stats_mutex, worker, place, erred, fault>>

AskForDestination ==
    /\ gui = "options"
    /\ gui' = "choosing"
    /\ UNCHANGED <<config, status, idle_tag, progress, display, shown, button_close, list,
                   request, gdk, stats_mutex, worker, place, erred, fault>>

Choose ==
    /\ gui = "choosing"
    /\ gui' = "create"
    /\ UNCHANGED <<config, status, idle_tag, progress, display, shown, button_close, list,
                   request, gdk, stats_mutex, worker, place, erred, fault>>

\* The way out leads past the creation of the queue, and releases it.
Dismiss ==
    /\ gui = "choosing" /\ fault = "none"
    /\ \/ gui' = "quit" /\ UNCHANGED fault
       \/ fault' = "queue_unset" /\ UNCHANGED gui
    /\ UNCHANGED <<config, status, idle_tag, progress, display, shown, button_close, list,
                   request, gdk, stats_mutex, worker, place, erred>>

-----------------------------------------------------------------------------
(* The dialog and the worker *)

CreateDialog ==
    /\ gui = "create"
    /\ gui' = "push"
    /\ window' = TRUE
    /\ UNCHANGED <<verify_only, status, idle_tag, progress, display, shown, button_close, list,
                   request, gdk, stats_mutex, worker, place, erred, fault>>

\* All paths are on the queue before there is a worker to take them.
StartWorker ==
    /\ gui = "push"
    /\ gui' = "main"
    /\ worker' = "start"
    /\ UNCHANGED <<config, status, idle_tag, progress, display, shown, button_close, list,
                   request, gdk, stats_mutex, place, erred, fault>>

EnterMain ==
    /\ gui = "main"
    /\ gui' = "loop"
    /\ gdk' = "free"
    /\ UNCHANGED <<config, status, idle_tag, progress, display, shown, button_close, list,
                   request, stats_mutex, worker, place, erred, fault>>

-----------------------------------------------------------------------------
AppInit ==
    /\ Fresh
    /\ verify_only = FALSE
    /\ window = FALSE
    /\ gdk = "gui"
    /\ gui = "options"
    /\ worker = "none"

StartUp ==
    \/ LeaveAtOnce \/ ShowUsage \/ CloseUsage
    \/ TakeDestination \/ AskForDestination \/ Choose \/ Dismiss
    \/ CreateDialog \/ StartWorker \/ EnterMain

AppNext == StartUp \/ Next

\* The user answers the chooser, too.
AppSpec == AppInit /\ [][AppNext]_vars /\ WF_vars(StartUp) /\ Fairness

==============================================================================

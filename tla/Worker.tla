------------------------------- MODULE Worker -------------------------------
(***************************************************************************)
(* The worker thread: it takes the files and directories of the command    *)
(* line from the queue, walks each with the planner, walks each again with *)
(* the processor, writes the checksum file and sweeps the list.            *)
(*                                                                         *)
(*   src/src/checkcopy-worker.c, checkcopy-traversal.c, the process        *)
(*   methods of checkcopy-planner.c and checkcopy-processor.c, the queue   *)
(*   filled by checkcopy-main.c                                            *)
(*                                                                         *)
(* The calls into the file list are the actions of FileList, here in the   *)
(* order in which the worker makes them.  Meanwhile the user may cancel,   *)
(* files may come and go, and any access to the file system may fail.      *)
(*                                                                         *)
(* A path is a sequence of components, and a relative name as well: the    *)
(* path without the root's components.                                     *)
(***************************************************************************)
EXTENDS FileList, Sequences

CONSTANTS
    Components,     \* the names that paths are made of
    Nodes,          \* the paths at which there may be something
    Directories,    \* those of them that are directories
    Args,           \* the paths on the command line
    Lines,          \* the lines of each checksum file: [sum, name]
    MaxChanges      \* how many times a file appears or disappears

Parent(path)        == SubSeq(path, 1, Len(path) - 1)
Relative(root, path) == SubSeq(path, Len(root) + 1, Len(path))
Children(dir)       == {p \in Nodes : Len(p) > 0 /\ Parent(p) = dir}

\* p is the directory, or lies below it.
Under(dir, p) == Len(dir) <= Len(p) /\ SubSeq(p, 1, Len(dir)) = dir

Path == Seq(Components) \ {<<>>}

\* The name that a walk from the path has for what it meets.
NameIn(path, p) == Relative(Parent(path), p)

\* What a line stands for in a walk.
LineIn(path, p, i) ==
    [sum  |-> Lines[p][i].sum,
     name |-> Relative(Parent(path), Parent(p)) \o Lines[p][i].name]

\* Where it points to.
Pointed(p, i) == Parent(p) \o Lines[p][i].name

\* What may come to be on the queue: the command line, and what the lists name.
Paths ==
    {Args[k] : k \in DOMAIN Args} \cup UNION {{Pointed(p, i) : i \in DOMAIN Lines[p]} : p \in DOMAIN Lines}

\* What a walk from a path meets, and reads in the lists on its way, has a name
\* in Names.
NamesClosed ==
    \A path \in Paths :
        /\ \A p \in Nodes \cup {path} : Under(path, p) => NameIn(path, p) \in Names
        /\ \A p \in DOMAIN Lines : Under(path, p) =>
              \A i \in DOMAIN Lines[p] : LineIn(path, p, i).name \in Names

\* Nodes make up trees, in which only directories have something below them.
ASSUME WorkerAssumption ==
    /\ Nodes \subseteq Path
    /\ Directories \subseteq Nodes
    /\ \A p \in Nodes : \A k \in 1 .. Len(p) - 1 : SubSeq(p, 1, k) \in Directories
    /\ Args \in Seq(Path)
    /\ DOMAIN Lines \subseteq Nodes
    /\ \A p \in DOMAIN Lines : Lines[p] \in Seq([sum : Checksums, name : Path])
    /\ NamesClosed
    /\ MaxChanges \in Nat

VARIABLES
    present,        \* what exists of Nodes
    changes,        \* how many times that has changed
    cancelled,      \* the cancellable
    failed,         \* history: an access to something present failed
    ext_q,          \* the queue of paths to plan
    int_q,          \* the queue of paths to process
    pass,           \* where in its loop the worker is
    dialog,         \* the status of the progress dialog
    root,           \* checkcopy_traverse's root
    stack,          \* its nested calls of checkcopy_traverse_file
    lines,          \* what is left of the checksum file being parsed
    handled         \* history: the files whose checksum was reported

list    == vars
world   == <<present, changes>>
walk    == <<root, stack>>
loop    == <<ext_q, int_q, pass, dialog>>
allVars == <<list, world, cancelled, failed, loop, walk, lines, handled>>

-----------------------------------------------------------------------------
(* The traversal *)

\* A call is about to look at its node ("enter"), to have it processed
\* ("process"), in the loop over the children ("list"), or out of it ("left").
Call(node) == [node |-> node, at |-> "enter", todo |-> {}]

Top  == stack[Len(stack)]
Rest == SubSeq(stack, 1, Len(stack) - 1)
Name == Relative(root, Top.node)

At(label) == Idle /\ lines = <<>> /\ stack # <<>> /\ Top.at = label

\* checkcopy_traverse
Traverse(path) ==
    /\ root' = Parent(path)
    /\ stack' = <<Call(path)>>

\* A faulty Return: the caller takes TRUE for FALSE.
ReturnInverted ==
    stack' = IF Rest = <<>> THEN Rest ELSE [Rest EXCEPT ![Len(Rest)].at = "left"]

\* TRUE: the caller goes on with the next child.
Return == stack' = Rest

\* FALSE: the caller breaks out of its loop, and itself returns TRUE.
ReturnFalse ==
    stack' = IF Rest = <<>> THEN Rest ELSE [Rest EXCEPT ![Len(Rest)].at = "left"]

Enter ==
    /\ At("enter") /\ ~cancelled /\ Top.node \in present
    /\ stack' = Append(Rest, [Top EXCEPT !.at = "process"])
    /\ UNCHANGED <<list, world, cancelled, failed, loop, root, lines, handled>>

\* Cancelled, or g_file_query_info fails.
EnterFails ==
    /\ At("enter")
    /\ ReturnFalse
    /\ failed' = (failed \/ (~cancelled /\ Top.node \in present))
    /\ UNCHANGED <<list, world, cancelled, loop, root, lines, handled>>

\* What follows process: the loop over a directory's children, else the return.
Proceed ==
    IF Top.node \in Directories
    THEN stack' = Append(Rest, [Top EXCEPT !.at = "list", !.todo = Children(Top.node) \cap present])
    ELSE Return

NextChild ==
    /\ At("list") /\ ~cancelled
    /\ \E child \in Top.todo :
          stack' = Append(Append(Rest, [Top EXCEPT !.todo = @ \ {child}]), Call(child))
    /\ UNCHANGED <<list, world, cancelled, failed, loop, root, lines, handled>>

\* All children seen, or an error (cancellation is one) before the next.
EnumerationEnds ==
    /\ At("list")
    /\ \/ Top.todo = {} /\ ~cancelled /\ Return /\ UNCHANGED failed
       \/ ReturnFalse /\ failed' = (failed \/ ~cancelled)
    /\ UNCHANGED <<list, world, cancelled, loop, root, lines, handled>>

LeaveLoop ==
    /\ At("left")
    /\ Return
    /\ UNCHANGED <<list, world, cancelled, failed, loop, root, lines, handled>>

-----------------------------------------------------------------------------
(* The planner *)

\* The lines of the checksum file at path, the names made relative to the root.
Parsed(path) ==
    [i \in DOMAIN Lines[path] |->
        [sum |-> Lines[path][i].sum, name |-> Relative(root, Parent(path)) \o Lines[path][i].name]]

PlanNew ==
    /\ pass = "plan" /\ At("process")
    /\ Found(Name)
    /\ IF Top.node \in DOMAIN Lines
       THEN \/ lines' = Parsed(Top.node) /\ UNCHANGED failed
            \/ lines' = <<>> /\ failed' = TRUE
       ELSE UNCHANGED <<lines, failed>>
    /\ Proceed
    /\ UNCHANGED <<world, cancelled, loop, root, handled>>

PlanAgain ==
    /\ pass = "plan" /\ At("process")
    /\ info[Name].seen
    /\ Proceed
    /\ UNCHANGED <<list, world, cancelled, failed, loop, root, lines, handled>>

\* One line.  When verifying, a file that is listed for the first time is put
\* on the queue, under its full path.
ParseLine ==
    /\ Idle /\ lines # <<>>
    /\ ~cancelled
    /\ LET line == Head(lines) IN
          \/ /\ RecordChecksum(line.name, line.sum)
             /\ ext_q' = IF verify_only THEN Append(ext_q, root \o line.name) ELSE ext_q
          \/ /\ CompareChecksum(line.name, line.sum)
             /\ UNCHANGED ext_q
    /\ lines' = Tail(lines)
    /\ UNCHANGED <<world, cancelled, failed, int_q, pass, dialog, walk, handled>>

\* Cancelled, or g_data_input_stream_read_line fails: the rest is left unread.
ParseFails ==
    /\ Idle /\ lines # <<>>
    /\ lines' = <<>>
    /\ failed' = (failed \/ ~cancelled)
    /\ UNCHANGED <<list, world, cancelled, loop, walk, handled>>

-----------------------------------------------------------------------------
(* The processor *)

\* A processed entry is passed over; a directory never gets a verdict.
ProcessOther ==
    /\ pass = "process" /\ At("process")
    /\ info[Name].status \in Processed \/ Top.node \in Directories
    /\ Proceed
    /\ UNCHANGED <<list, world, cancelled, failed, loop, root, lines, handled>>

Processable ==
    /\ pass = "process" /\ At("process")
    /\ info[Name].status \notin Processed /\ Top.node \notin Directories

\* process_file, by its outcome: the source does not open; the copying (or
\* reading) fails, which nothing records; a checksum is reported.
ProcessUnopened ==
    /\ Processable
    /\ MarkFailed(Name)
    /\ failed' = (failed \/ (~cancelled /\ Top.node \in present))
    /\ Proceed
    /\ UNCHANGED <<world, cancelled, loop, root, lines, handled>>

ProcessFails ==
    /\ Processable /\ ~cancelled
    /\ failed' = TRUE
    /\ Proceed
    /\ UNCHANGED <<list, world, cancelled, loop, root, lines, handled>>

ProcessFile ==
    /\ Processable /\ ~cancelled /\ Top.node \in present
    /\ CheckUnknownFile(Name) \/ \E c \in Answers(Name) : CheckFile(Name, c)
    /\ handled' = handled \cup {Top.node}
    /\ Proceed
    /\ UNCHANGED <<world, cancelled, failed, loop, root, lines>>

-----------------------------------------------------------------------------
(* The loop of the worker *)

Ready == Idle /\ lines = <<>> /\ stack = <<>>

\* g_async_queue_pop blocks for the first path, g_async_queue_try_pop takes the others.
Plan ==
    /\ Ready /\ pass \in {"wait", "plan"} /\ ext_q # <<>>
    /\ dialog' = "CALCULATING_SIZE"
    /\ pass' = "plan"
    /\ ext_q' = Tail(ext_q)
    /\ int_q' = Append(int_q, Head(ext_q))
    /\ Traverse(Head(ext_q))
    /\ UNCHANGED <<list, world, cancelled, failed, lines, handled>>

StartProcessing ==
    /\ Ready /\ pass = "plan" /\ ext_q = <<>>
    /\ dialog' = "COPYING"
    /\ pass' = "process"
    /\ UNCHANGED <<list, world, cancelled, failed, ext_q, int_q, walk, lines, handled>>

\* A faulty Process: the path stays at the head of the queue.
ProcessPeek ==
    /\ Ready /\ pass = "process" /\ int_q # <<>>
    /\ Traverse(Head(int_q))
    /\ UNCHANGED <<list, world, cancelled, failed, ext_q, int_q, pass, dialog, lines, handled>>

Process ==
    /\ Ready /\ pass = "process" /\ int_q # <<>>
    /\ int_q' = Tail(int_q)
    /\ Traverse(Head(int_q))
    /\ UNCHANGED <<list, world, cancelled, failed, ext_q, pass, dialog, lines, handled>>

\* A faulty StartSweep: the sweep comes before the processing.
StartSweepEarly ==
    /\ Ready /\ pass = "process"
    /\ pass' = "sweep"
    /\ UNCHANGED <<list, world, cancelled, failed, ext_q, int_q, dialog, walk, lines, handled>>

\* After the last path the checksum file is written (see ChecksumFile).
StartSweep ==
    /\ Ready /\ pass = "process" /\ int_q = <<>>
    /\ pass' = "sweep"
    /\ UNCHANGED <<list, world, cancelled, failed, ext_q, int_q, dialog, walk, lines, handled>>

\* A faulty Sweep: it runs after copying as well.
SweepAlways ==
    /\ Ready /\ pass = "sweep"
    /\ \E n \in known :
          /\ info[n].status = "VERIFIABLE"
          /\ Transition(n, "NOT_FOUND")
    /\ UNCHANGED <<verify_only, known, info, listed, computed>>
    /\ UNCHANGED <<world, cancelled, failed, loop, walk, lines, handled>>

Sweep ==
    /\ Ready /\ pass = "sweep"
    /\ \E n \in known : MarkNotFound(n)
    /\ UNCHANGED <<world, cancelled, failed, loop, walk, lines, handled>>

\* A faulty Complete: it does not wait for the sweep.
CompleteUnswept ==
    /\ Ready /\ pass = "sweep"
    /\ dialog' = "COMPLETED"
    /\ pass' = "wait"
    /\ UNCHANGED <<list, world, cancelled, failed, ext_q, int_q, walk, lines, handled>>

Complete ==
    /\ Ready /\ pass = "sweep"
    /\ verify_only => \A n \in known : info[n].status # "VERIFIABLE"
    /\ dialog' = "COMPLETED"
    /\ pass' = "wait"
    /\ UNCHANGED <<list, world, cancelled, failed, ext_q, int_q, walk, lines, handled>>

\* The second half of every status change.
FinishTransition ==
    /\ \E n \in Names : StoreStatus(n)
    /\ UNCHANGED <<world, cancelled, failed, loop, walk, lines, handled>>

-----------------------------------------------------------------------------
(* The user, and other programs *)

Cancel ==
    /\ fault = "none" /\ ~cancelled
    /\ cancelled' = TRUE
    /\ UNCHANGED <<list, world, failed, loop, walk, lines, handled>>

Change ==
    /\ fault = "none" /\ changes < MaxChanges
    /\ changes' = changes + 1
    /\ \E p \in Nodes \ Directories :
          present' = IF p \in present THEN present \ {p} ELSE present \cup {p}
    /\ UNCHANGED <<list, cancelled, failed, loop, walk, lines, handled>>

-----------------------------------------------------------------------------
WorkerInit ==
    /\ Init
    /\ present \in {P \in SUBSET Nodes : Directories \subseteq P}
    /\ changes = 0
    /\ cancelled = FALSE
    /\ failed = FALSE
    /\ ext_q = Args
    /\ int_q = <<>>
    /\ pass = "wait"
    /\ dialog = "INIT"
    /\ root = <<>>
    /\ stack = <<>>
    /\ lines = <<>>
    /\ handled = {}

Step ==
    \/ Enter \/ EnterFails \/ NextChild \/ EnumerationEnds \/ LeaveLoop
    \/ PlanNew \/ PlanAgain \/ ParseLine \/ ParseFails
    \/ ProcessOther \/ ProcessUnopened \/ ProcessFails \/ ProcessFile
    \/ Plan \/ StartProcessing \/ Process \/ StartSweep \/ Sweep \/ Complete
    \/ FinishTransition

WorkerNext == Step \/ Cancel \/ Change

\* The worker is a thread of its own, and its calls return.
WorkerSpec == WorkerInit /\ [][WorkerNext]_allVars /\ WF_allVars(Step)

-----------------------------------------------------------------------------
(* Properties *)

WorkerTypeOK ==
    /\ TypeOK
    /\ present \subseteq Nodes
    /\ changes \in 0 .. MaxChanges
    /\ handled \subseteq Nodes
    /\ {cancelled, failed} \subseteq BOOLEAN
    /\ pass \in {"wait", "plan", "process", "sweep"}
    /\ dialog \in {"INIT", "CALCULATING_SIZE", "COPYING", "COMPLETED"}
    /\ \A i \in DOMAIN stack : /\ stack[i].node \in Nodes \/ stack[i].at \in {"enter"}
                              /\ stack[i].todo \subseteq Nodes

\* The planner's walk prepares the processor's: as long as the files stay as
\* they are and can be accessed, the processor meets no name without an entry.
ProcessedWasPlanned ==
    fault = "unknown file" => changes > 0 \/ failed \/ cancelled

\* When the dialog says "Done.", and nothing went wrong, nothing is left
\* undecided: every file that was met has a verdict, and when verifying every
\* file that was listed as well.
DirectoryNames == {Relative(Parent(p), q) : p, q \in Directories}

DoneIsDone ==
    Ready /\ dialog = "COMPLETED" /\ changes = 0 /\ ~failed /\ ~cancelled =>
        \A n \in known :
            \/ info[n].status \in Processed
            \/ n \in DirectoryNames
            \/ ~verify_only /\ ~info[n].seen

\* NOT_FOUND is for a file that was listed, but was not found
\* (progress-dialog.c:132): with files that stay as they are, and nobody
\* cancelling, the sweep spares what exists.  This takes ListsBeside; see
\* MCWorkerNested for a list that does not lie next to the files.
ListedIsFound ==
    changes = 0 /\ ~failed /\ ~cancelled =>
        \A n \in Names : info[n].status = "NOT_FOUND" =>
            \A k \in DOMAIN Args : Parent(Args[k]) \o n \notin present

\* Every file at or below a path on the command line is read to its end and
\* reported, once the dialog says "Done.", files stay as they are and nothing
\* fails: none is left out because a directory was left early, or because it
\* was taken for another one.  This takes NamesDistinct and ListsAgree; see
\* MCWorkerTwoRoots for two arguments with files of one name.
EveryFileHandled ==
    Ready /\ dialog = "COMPLETED" /\ changes = 0 /\ ~failed /\ ~cancelled =>
        \A p \in present \ Directories :
            (\E k \in DOMAIN Args : Under(Args[k], p)) => p \in handled

\* The worker gets through the command line, whatever the lists add to the
\* queue, or the program ends.
Finishes == <>(dialog = "COMPLETED" \/ fault # "none")

\* In whatever order the worker makes them, its calls are ones the list allows for.
FileListSpec == Spec

-----------------------------------------------------------------------------
(* What EveryFileHandled and ListedIsFound take of a tree, the lists in it, and *)
(* the command line                                                            *)

\* The path is on the queue.
In(path, q) == \E k \in 1 .. Len(q) : q[k] = path

\* No two files have the same name, from whichever paths the walks start.
NamesDistinct ==
    \A path1, path2 \in Paths : \A p, q \in Nodes :
        Under(path1, p) /\ Under(path2, q) /\ NameIn(path1, p) = NameIn(path2, q) => p = q

\* No two lines give one name different checksums.
ListsAgree ==
    \A path1, path2 \in Paths : \A p, q \in DOMAIN Lines :
        \A i \in DOMAIN Lines[p], j \in DOMAIN Lines[q] :
            /\ Under(path1, p) /\ Under(path2, q)
            /\ LineIn(path1, p, i).name = LineIn(path2, q, j).name
            => LineIn(path1, p, i) = LineIn(path2, q, j)

\* A file that a list names is no directory, and if there is one by this name
\* next to a path on the command line, it has the name there, or where the list
\* points to.  This is so for a list that lies next to the files it names.
ListsBeside ==
    \A path \in Paths : \A p \in DOMAIN Lines : \A i \in DOMAIN Lines[p] :
        LET n == LineIn(path, p, i).name
        IN  Under(path, p) =>
              /\ n \notin DirectoryNames
              /\ \A k \in 1 .. Len(Args) : Parent(Args[k]) \o n \in Nodes =>
                    \E top \in Paths : /\ In(top, Args) \/ top = Pointed(p, i)
                                       /\ Under(top, Parent(Args[k]) \o n)
                                       /\ NameIn(top, Parent(Args[k]) \o n) = n

-----------------------------------------------------------------------------
(* What the source says, and the code does not do *)

\* file-list.c:346: a file that was seen before its checksum is verified
\* at once; so a checksum can be missing only if none was computed.
SeenBeforeChecksum ==
    fault = "null checksum" => \E n \in Names : NULL \in computed[n]

\* file-info.h:43: a file whose processing failed gets the status FAILED; the
\* list takes the change it is asked for.
FailureIsMarked == fault # "invalid state change"

=============================================================================

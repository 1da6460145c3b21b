# Checkcopy in TLA+

Checkcopy copies files and directories while it computes checksums of what it
reads. A file that a checksum file lists is compared with what the list says;
for the others the computed checksum is written to a new checksum file in the
destination. With `--verify` nothing is copied: the files that the lists name
are read and compared. It is a C program (GTK, GIO) with two threads.

This directory holds TLA+ modules of its behaviour, TLC configurations that
check them on small instances, and TLAPS proofs about them in eight modules of their
own. Paths below are relative to the repository; the implementation is in `src/`.

## 1. Inventory

| Component | Code | State it keeps | Operations |
|---|---|---|---|
| start-up | `checkcopy-main.c` | the queue of paths, the thread | parse options, ask for files and destination, fill the queue, start the worker, enter the GTK loop |
| worker | `checkcopy-worker.c` | external and internal queue | plan every queued path, process each, write the checksum file, sweep |
| traversal | `checkcopy-traversal.c` | its root, its recursion | depth-first walk, calls a file handler for each node |
| planner | `checkcopy-planner.c` | total size | register a node, parse a checksum file |
| processor | `checkcopy-processor.c` | the destination | make a directory, copy or read a file, report its checksum |
| checksumming stream | `checkcopy-input-stream.c` | digests per type | read, close, answer |
| file list | `checkcopy-file-list.c`, `checkcopy-file-info.c` | entries by relative name, four counters | record, compare, check, fail, sweep, select |
| checksum file | part of `checkcopy-file-list.c` | name of the file made | find a free name, write the lines |
| cancellation | `checkcopy-cancel.c` | one global `GCancellable` | cancel, reset, test |
| progress dialog | `progress-dialog.c` | status, sizes, bar, timer | status changes, size changes, timer callback, clicks |
| error dialog | `error.c` | none | show an error, offer to abort |
| details window, list filter | `checkcopy-details-window.c`, `ompa-list.c` | none of their own | show the entries of one status |
| file handler | `checkcopy-file-handler*.c` | none | interface of planner and processor |

How they interact:

* **Main -> worker**: main fills a `GAsyncQueue` and starts a thread that blocks
  on it.
* **Worker -> planner, processor** by way of the traversal: every path is walked
  twice, first with the planner, then with the processor. Between the walks the
  file system may change.
* **Planner, processor -> file list**: one list, keyed by names relative to the
  parent of the queued path. The planner registers what it meets
  (`NONE -> FOUND`) and records what the lists say (`NONE -> VERIFIABLE`); the
  processor reports checksums. When verifying, the list itself puts paths on the
  worker's queue while a list is parsed.
* **Worker -> dialog**: calls under the GDK lock (`progress_dialog_thread_*`),
  and property changes without one.
* **Dialog -> file list**: the counters are copied under `stats_mutex`, inside
  the GDK lock.
* **Details window -> file list**: the GUI thread walks the hash table and reads
  the entries without a lock the worker would wait for.
* **User -> everyone**: the cancellable, looked at by every GIO call. The
  worker resets it while it writes the checksum file.

What is hard about it: the two walks need not see the same files; directories
are enumerated in any order, and a checksum file may come before or after the
files it lists; one failure out of several must leave a state that the later
steps can live with; cancellation comes at any moment and is reset once; two
locks, a timer that is removed from the other thread, and a dialog that the
worker asks a question in; counters and sizes of fixed width. Nothing is
persisted between two runs of the program, so there is no recovery to model.
`PROJECT.json` lists each of these hazards at its line.

What makes each component correct:

* *file list*: the counters are the numbers of entries, at every moment the
  other thread may look; a verdict is what the evidence says, and stays.
* *worker*: what is processed was planned; when it says it is done, everything
  has a verdict; what exists is not called missing; it comes to an end.
* *processor*: no block lost or doubled whatever the lengths of reads and
  writes; a verdict only on content that was handled in full; it comes to an end.
* *stream*: the answer covers all that was read, and is given.
* *checksum file*: overwrites nothing; complete, ordered, without duplicates;
  the cancellation survives the reset.
* *progress dialog*: no interleaving trips its assertions; the last display is
  the last state; the locks and the question do not block anyone for good; the
  program is not left under the worker's feet unless the user insists.
* *details window*: what it shows is true when it is shown, and still true when
  the user looks at it later.

## 2. Modules

### FileList

The entries (`info`, defined for every name; `known` is the set of keys in the
hash table), the counters and the transition table. One action per call:
`Found`, `RecordChecksum` and `CompareChecksum` (one line of a checksum file),
`CheckFile`, `CheckUnknownFile`, `MarkFailed`, `MarkNotFound`.

A status change is two steps in the code: the counters change under
`stats_mutex`, the status is stored after the mutex was released. `target` is
the status that the counters already reflect, and `StoreStatus` the second step;
no other call can start before it, as there is only one worker thread, but the
other thread can look. `listed` and `computed` are history: all that was ever
read in lists or computed for a name. `fault` says how a call ended the process
(`g_error`, a failed `g_assert`, `g_str_equal` on a null pointer); the process is
then over and nothing else happens.

The order of the calls is left open, so that what is shown of FileList holds of
every caller. A checksum is a model value, and its type a function of it
(`TypeOf`), as the code finds the type by the length. A digest that was computed has the
type its length names, too, except that of a CRC32, whose eight digits name none
(`TypeOfDigest`).

### InputStream

One slot per checksum type, as the code has it, and digests that are known by
the number of content blocks they took in. An error passes `-1` as length to the
digests, which makes them worthless (`JUNK`). Two things about CRC32: the
checksum that is the number 0 counts as "not computed" (`crc_zero`), and `-1`
as an unsigned length is 4 GiB, which the process does not survive; `ReadError`
is not enabled for such a stream.

### Tally

What `update_stat_labels` takes the counters for: each file is undecided or has one
of four outcomes, the counters say how many have which, both change in the same
step, and an outcome is exchanged only for a failure. `TallySpec` in FileList
states that FileList implements it: the refinement mapping reads the outcome of
an entry off `target` (`Outcome`), so that the moment of the change is the
critical section and not the store that follows it.

### Processor

EXTENDS InputStream. One call of `process`, at the grain of single GIO calls:
`pc` is the place in `process_file`, `copy_file`, `splice` or `verify_file`.
`dest` is what is left under the destination's name, `curr_size` the dialog's
count. Each GIO call can fail, and the user can cancel between any two.

### Job

What the worker takes a call of the processor for: one step, in which the source
gets the right verdict, or none, or the program dies. `JobSpec` in Processor
states that Processor implements it. Nothing changes for Job until the step that
ends the call (`done` or `dead`); what lies at the destination in the meantime is
not visible to it.

### Worker

EXTENDS FileList: the calls, in the order in which the worker makes them. The
recursion of the traversal is an explicit stack of calls, `ext_q` and `int_q`
are the two queues, `lines` is what is left of the checksum file being parsed.
Paths are sequences of components, a relative name is the path without the
root's. `present` changes under the worker's feet (`Change`); `failed` remembers
that an access to something present failed. The processor is reduced to its
outcomes (`ProcessUnopened`, `ProcessFails`, `ProcessFile`), which are those of
the module Processor.

`FileListSpec` states that Worker implements the specification of FileList
(by the identity on its variables), so whatever is proved of FileList holds of
the list the worker drives.

The tree is a parameter: any set of paths in which only directories have something
below them, with any checksum files in it and any command line (`WorkerAssumption`).
Names are closed under what walks and lists lead to (`NamesClosed`). Two of
the properties are for some trees only, and say so by a hypothesis on the constants:
`NamesDistinct` (no two files get one name), `ListsAgree` (no two lines give one name
different sums) and `ListsBeside` (a list lies where the names in it start).
They are what the command line and the lists of a user normally look like; the runs
`same_name` and `listed_is_found` show what happens without the first and the last.

### ChecksumLine

A line of a checksum file as `checkcopy_file_info_format_checksum` writes it and as
`checksum_file_list_parse_checksum_file` takes it apart again, byte by byte:
comments, columns, the spaces and the star that are skipped; and the order of
names (`Before`). The reader splits the file at the line feeds: a string without one
is `Unbroken`, and a `Plain` name is one the parser gets back. Operators only, used by
ChecksumFile.

### ChecksumFile

EXTENDS ChecksumLine. `write_checksum`: the search for a free name, the lines, and
the cancellation that is reset and restored around it. Candidate `0` is
`base.CHECKSUM`, candidate `i` is `base-i.CHECKSUM`. Other programs create files
meanwhile. `Sorted` says what the sorted list is,
without the algorithm of `g_list_sort`: names are distinct, so there is one such list.

`wrote` are the lines of the call under way, `contents` those of the calls before, since
a later call appends to the file of the first and writes every entry again; `FileLines`
is what a reader of the file finds. A write that fails may leave any part of its
line, even all of it but the line feed (`stump`, and `torn` once the call is over). The
next call goes on behind this piece, so the first line it writes begins with the piece;
`spoilt` remembers which lines do.

### ProgressDialog

Both threads, the two locks, the timer and the user. What is done under one lock
without asking for another is one step. The worker goes through its calls on the
dialog (planning, items, writing the checksum file, sweep, the end); the places
in between are `worker`, the GUI thread's are `gui`. Closing the window destroys
it; the step `UseDestroyed` is the worker touching it afterwards.

What the two walks meet is the sequence `Items`. An item has the name of its entry, the
size the planner finds and the most the processor may find, since the file can change in between
(`shrunk` remembers that it got smaller). The planner counts a name once (`seen`), the
processor each item whose entry has no verdict yet (`decided`); an entry that two lists
contradict has its verdict before it is processed (`ListsDisagree`, `disagreed`), and the
processor passes it over without adding its size (`ItemSkipped`). A walk can fail
anywhere, the planner's (`PlanFails`) like the processor's (`ItemFails`): the user is asked,
and the rest of the directory is passed over. Where the worker goes on after a question is
`after`, which is `"plan"` throughout the planning. The model allows more than the code where
the details are the business of Worker: contradicting lists may come at any time of the planning,
a failure may pass over any number of items, and a failure that ends the program inside the file
list goes on here.

### Application

EXTENDS ProgressDialog by `main`: options, usage, the chooser for the destination,
the dialog, the queue, the thread, the main loop. `main` holds the GDK lock until
the loop begins, while the worker has been started before: its first call on the
dialog waits. This is the specification that is checked and proved about;
ProgressDialog has steps and properties, and no behaviour of its own. `PlannedSize` is
the sum that the planner arrives at, which takes the first occurrence of each name, and
`ProcessedSize` the most that the processor can; `SizesFit` says that neither wraps and that the
fraction computed from them is an int.

### DetailsWindow

EXTENDS FileList by the GUI thread that fills the details window: the walk through
the hash table, then for each entry the reads of checksum and status, one by one
and in any order, while the worker makes any calls. A walk during which the
worker inserts may miss entries or crash (`WalkEnds`, `WalkCrashes`); a checksum
that was replaced and freed between its read and its copy may be anything or crash
(`SetRow`, `SetRowCrashes`); a window that the user has deleted is gone, and the
next click uses it (`ClickDestroyed`). `killed` is the end in one of these. The
properties speak of the time before.

### Proof modules

`FileListProofs`, `TallyProofs`, `InputStreamProofs`, `ProcessorProofs`,
`WorkerProofs`, `ChecksumFileProofs`, `ApplicationProofs`, `DetailsWindowProofs`:
see section 5.

### Correspondence

`PROJECT.json` ("map") gives the lines of the source for every definition. The
operators whose comment starts with "A faulty ..." are plausible bugs of the code;
they are part of no specification, and show which property would catch them.

Left out on purpose: message texts, labels, elapsed time, attributes of files
copied along (the flags of `g_file_copy_attributes`), the layout of widgets.

## 3. Runs

All runs come from a `MC*.tla` module and a `.cfg`:
`tlc -workers 2 -config MCFileList.cfg MCFileList`.

| Run | Shows | Bounds, and why they are enough |
|---|---|---|
| `file_list` (166066 states) | `StatsAgree`, `VerdictSound`, `TypeFits`, `VerdictFinal` and the refinement `TallySpec`, for any order of calls | two names, one with a checksum file's extension: calls touch one name, and the counters need a second to be wrong about. Two SHA1 sums to disagree, an MD5 sum, one that is taken for a CRC32, and one of no type, which the digest of a CRC32 is as well. UINT_MAX = 7 is more than the names, and small enough that a decrement below zero shows |
| `input_stream` | `AnswersCoverReads`, `Contract` for any client | contents up to three blocks, so that a short read in the middle is possible; all four slots, one or all in use |
| `processor` (7980) | `NothingLost`, `SizeAccounted`, `VerdictComplete`, `Ends`, the refinement `JobSpec` | the same contents; a buffer of three blocks is written in one, two or three parts. `curr_size` wraps at 16, more than any legal size |
| `worker` (78741) | `ProcessedWasPlanned`, `DoneIsDone`, `ListedIsFound`, `EveryFileHandled`, the refinement `FileListSpec`, and `Finishes` | a directory with a file and a list that names this file and a missing one; the directory and the file are both on the command line, so that a path is met twice; one file appears or disappears once. Both orders of enumeration occur, copying and verifying |
| `checksum_file` (820496) | `NotOverwritten`, `ReadBack`, `FileComplete`, `CancelKept`, `Returns` | three names: one is a prefix of another, one holds a space, one begins with the comment character and holds a star; two candidates, so that the search succeeds at once, later, or never; two calls, so that the second appends to the lines of the first, or to the piece of a line that a failed write has left, of any length |
| `application` (688615) | `NoAbort`, `FinalCounters`, `FinalBar`, `QuitOnlyWhenDone`, `Finishes` | a directory and a file in it, both once more through a second argument: the planner counts each once, the processor the directory twice; the file is planned with one byte and has up to two when it is processed. Either walk may fail, and lists may contradict each other on either name; what is left undecided is swept. A bar of four parts; sizes wrap at 64 |
| `details_window` (4161598) | `RowsTrue` | a file and a checksum file, two checksums of one type (symmetric); any number of clicks |

`CHECK_DEADLOCK FALSE` is set in all of them: a file, a call, a job and a
process that died come to an end.

What they show, in the words of the code's reader: *TallySpec* makes the numbers on
display trustworthy at any moment, not only at the end; *JobSpec* licenses Worker to
take the processor for one step; *EveryFileHandled* says that "Done." means that
nothing was passed over, as long as nothing failed and nothing changed;
*QuitOnlyWhenDone* that one careless click does not lose the checksum file;
*ReadBack* that every whole line can be verified later, and how much a failed write can
spoil; *FinalBar* what a reader may conclude from a bar that ends full, or does not; *RowsTrue* that a verdict in the details
window is never contradicted by the list, however stale the window is.

Five more runs check one statement of the source each, and find it violated:

| Run | Statement | What the code does |
|---|---|---|
| `checksum_computed` | "If no checksum was previously discovered, the computed one is written to disk" (`README:53`) | `process_file` builds the stream with an enumeration that starts at 0 and asks with one that starts at 1: the answer is NULL, and there is nothing to write |
| `seen_before_checksum` | "We saw the file before the checksum. Verify it now." (`checkcopy-file-list.c:346`) | there is nothing to verify with in the planning walk: `g_str_equal` gets a null pointer |
| `failure_is_marked` | FAILED is for "file processing failed (i.e. no read permissions)" (`checkcopy-file-info.h:43`) | the table allows no such change from an unprocessed status; `g_error` ends the program |
| `listed_is_found` | NOT_FOUND counts files "mentioned in a checksum file, but ... not found" (`progress-dialog.c:132`) | when verifying, a listed file in a subdirectory is queued by its full path, gets its name relative to the subdirectory and so a second entry; the listed one is swept |
| `same_name` | "This program will copy one or more files / directories to a destination," (`README:11`) | names are relative to the parent of the argument: of two arguments `a/f` and `b/f` the second is taken for the first, and is not copied |

`ListedIsFound` and `EveryFileHandled` hold in `worker`, where the list lies beside
the files and no two arguments lead to the same name, and fail in
`listed_is_found` and `same_name`, where it is otherwise. `MCTreeAssumption` has TLC
check that the tree of `worker` satisfies the hypotheses of the theorems, and
`MCItemsAssumption` that the items of `application` satisfy `SizesFit`.

A consequence of `checksum_computed` that a reader should know: as the processor
builds its stream, a listed checksum is never compared with a computed one in
`processor`; the call ends in the null comparison. `VerdictComplete` is
about what is decided all the same, and FileList, which leaves open what was
computed, covers the comparison.

### Disagreements without a run

Met while modelling; each is in the model as the code has it, or outside it:

* `checkcopy-processor.c:187`: `splice` passes no `GError` to the close of the
  destination and does not look at the result. A file whose data is refused on
  closing is counted as copied (in Processor, `dest` may stay `OLD`).
* `checkcopy-processor.c:370`: a copy that fails half-way asks for no status
  change: the file stays FOUND and is counted nowhere, though
  `progress-dialog.c:131` has a counter for it. Hence `~failed` in `DoneIsDone`.
* `checkcopy-file-list.c:671`: when verifying, a file that was listed but not
  read, after a failure or a cancellation, is swept to NOT_FOUND.
* `checkcopy-file-list.c:503`: the reset of the cancellable makes room for
  writing; a second cancellation during the writing still stops it, while the
  comment at line 500 says that the file is written anyway.
* `checkcopy-processor.c:206`: the planner adds up the sizes of directories, the
  processor adds none of them when verifying, so the bar never gets full.
* `progress-dialog.c:615`: `cb_delete` returns FALSE, and GTK destroys the window
  while the worker still uses it.
* `progress-dialog.c:819` (debug builds) assigns where it should accumulate, and so looks at the
  last counter only.
* `checkcopy-file-info.c:46`: a CRC32 is recognised by a length of 6, and is
  printed with 8 digits (`TypeOfDigest`; hence the exception for CRC32 in `TypeFits`).
* `checkcopy-file-info.c`: the suffixes that make a checksum file are more than
  `README:49` names.
* `checkcopy-input-stream.c`: a CRC32 that is the number 0 is not answered.
* `checkcopy-processor.c:171`: the -1 of a failed call is added to the size
  (`SizeAccounted` admits exactly that).
* `checkcopy-traversal.c`: an error on one child ends the loop over its siblings.
* `checkcopy-main.c:189`: the jump to `exit` releases a queue that does not exist
  yet (`Dismiss` in Application).
* `checkcopy-file-list.c:439`: a file that appears between the walks, or follows a
  failed sibling in the first, is unknown to the list when its checksum is
  reported, and `g_assert` ends the program (`CheckUnknownFile`). The comment at
  line 409 takes for granted that the planner has seen it.
* `checkcopy-file-list.c:540`: the error of a failed line is freed after it was
  logged, and shown and freed again (`WriteFails` may be the end of the program).
* `checkcopy-file-list.c:319`: of a name that begins with spaces or a star, the
  parser takes them for the space between the columns, or for a mark; a name with a line feed
  takes two lines. Such files are not found again when they are verified
  (`Plain` in ChecksumLine; the names of ChecksumFile are plain ones).
* `checkcopy-file-list.c:532`: a write that fails may leave a part of its line, and nobody
  takes it back. The parser reads such a line as one for a shorter name, and a later call
  appends to it; `ReadBack` says how many lines this can spoil.
* `checkcopy-file-list.c:178`: the stream of a later call appends, and `write_checksum` writes every
  entry again: the lines of the first call are in the file twice.
* `checkcopy-file-list.c:615`, `checkcopy-details-window.c:238`: the details
  window reads table and entries while the worker inserts and frees
  (`WalkCrashes`, `SetRowCrashes`).
* `checkcopy-details-window.c:301`: `cb_delete` returns FALSE here as well, GTK
  destroys the window, and the next click on "Details" uses it (`ClickDestroyed`).
* `progress-dialog.c:335`: the callback of the cancellable is not connected, so
  that the status CANCELLED, "a trapped state" (line 700), is never entered; a
  cancelled run ends with "Done.".
* `/` as an argument has no parent, and the traversal asserts one.
* `checkcopy-processor.c:394`: two lists with different sums for a file give
  it VERIFICATION_FAILED before it is read, and it is not copied. No error is shown, and
  the size is not added, while the planner has counted it (`checkcopy-planner.c:156`): an
  undisturbed copy ends below 100 % with "Done." (`FinalBar` makes this exception).

## 4. Fairness

* `WorkerSpec`, `ProcSpec`, `ChecksumFile!Spec`: weak fairness of the worker's
  steps as a whole. The worker is a thread of its own, and every GIO call
  returns, with a result or an error. Nothing is assumed about which of its
  steps it takes, and nothing about the user or the other programs.
  Consequently the traversal may fail at any point, and the liveness properties
  allow for the end of the process.
* `AppSpec`: strong fairness of the worker's steps, of the callback's
  steps, and of the user's answer to the question of an error dialog
  (`Fairness` in ProgressDialog). The steps wait for a lock that the other
  thread takes again and again; the timer runs every 250 ms and holds the lock
  for a moment only, so a thread that asks for it gets it in between. Without
  the answer the program waits for the user. Weak fairness of the steps of `main`
  before the loop, among them the user's answer to the chooser. There is no
  fairness of clicks.
* FileList, InputStream and DetailsWindow have no liveness: they do nothing by
  themselves, or show what there is. The refinements (`TallySpec`, `JobSpec`,
  `FileListSpec`) are of safety.

## 5. Proofs

`tlapm <module>.tla` checks each. All hold for every value of the constants, under
the assumptions the modules name:

* `ListAssumption`: finitely many names, no more than a `guint` counts;
* `StreamAssumption`, `ProcessorAssumption`: sizes are naturals, a guint64 has more
  values than a source has blocks;
* `WorkerAssumption`: the nodes are a tree, lists and command line are sequences of paths;
* `ChecksumFileAssumption`: finitely many names, which are plain; a checksum is not empty, has no
  space and no line feed and does not begin a comment, as it is either made of hexadecimal
  digits or the first column of a line that was parsed;
* `DialogAssumption`: finitely many names, a most no smaller than the size that is planned, and a bar
  of at least one part and of no more than a gint counts.

| Module | Theorems | Of |
|---|---|---|
| FileListProofs | `Typing`, `StatsAlwaysAgree`, `VerdictsAreSound`, `TypesFit`, `VerdictsAreFinal` | FileList: `TypeOK`, `StatsAgree`, `VerdictSound`, `TypeFits`, `VerdictFinal` |
| TallyProofs | `ListIsTally` | FileList implements Tally |
| InputStreamProofs | `StreamTypes`, `AnswersCover`, `ContractHolds` | InputStream: `TypeOK`, `AnswersCoverReads`, `Contract` |
| ProcessorProofs | `ProcTyping`, `LosesNothing`, `SizeIsAccounted`, `VerdictsAreComplete`, `ProcessorIsJob` | Processor: `ProcTypeOK`, `NothingLost`, `SizeAccounted`, `VerdictComplete`; Processor implements Job |
| WorkerProofs | `WorkerCallsTheList`, `ListIsRightInTheProgram` | Worker implements FileList, and so keeps FileList's properties |
| WorkerProofs | `WorkerTyping`, `PlannedBeforeProcessed`, `DoneMeansDone` | Worker: `WorkerTypeOK`, `ProcessedWasPlanned`, `DoneIsDone` |
| WorkerProofs | `EveryFileIsHandled`, given `NamesDistinct` and `ListsAgree` | Worker: `EveryFileHandled` |
| WorkerProofs | `ListedFilesAreFound`, given `ListsBeside` | Worker: `ListedIsFound` |
| ChecksumFileProofs | `Typing`, `NothingOverwritten`, `CancelIsKept`, `FileIsComplete`, `LinesAreReadBack` | ChecksumFile: `TypeOK`, `NotOverwritten`, `CancelKept`, `FileComplete`, `ReadBack` |
| ApplicationProofs | `Typing`, `NeverAborts`, `LastCountersShown`, `QuitsWhenDone` | Application: `TypeOK`, `NoAbort`, `FinalCounters`, `QuitOnlyWhenDone` |
| ApplicationProofs | `LeavesFinalBar`, given `SizesFit` | Application: `FinalBar` |
| DetailsWindowProofs | `RowsAreTrue` | DetailsWindow: `RowsTrue` |

**FileList.** None of the properties is inductive as it stands. The invariant is

    IInv == TypeOK /\ SeenWhenFound /\ StatsAgree /\ Evidence

*StatsAgree* could be broken by `Found`, which sets `checksum_file`: a copied
entry whose flag changes would no longer be counted as it was. `SeenWhenFound`
excludes this: an entry that is FOUND or COPIED has been seen, and `Found` takes
an unseen one. (VERIFIED and NOT_FOUND are counted whatever the flag.) Then the
lemma `TransitionCounts` says that a status change moves one name from one set of
entries to another and the counters by one; that `Inc` does not wrap follows from
the number of names, that `Dec` does not from the set being non-empty.

*VerdictSound* needs to know how an entry came to its verdict. `Evidence` says
for each status what is on record: of a name in NONE or FOUND nothing was listed
or computed; of one in VERIFIABLE or NOT_FOUND exactly the sum on record was
listed and nothing computed; and so on. `EvidenceSuffices` derives the
properties.

*VerdictFinal* follows from the table and from each call's own guard: from
VERIFIED and VERIFICATION_FAILED the table leads to FAILED only, and no call
that asks for FAILED starts from there.

**Tally.** Under the invariant above every step of FileList is a step of Tally or
leaves outcomes, counters and `fault` alone. `CountedUnderOutcome` ties the counter
a status goes to with the outcome; `CountsByOne` turns the arithmetic of `guint`
into plus and minus one, by StatsAgree; `Changes` goes through the status changes
the table accepts, and `TallyStep` through the calls.

**InputStream, Processor.** The digests follow the reads until an error makes them
worthless, and an answer is given only to a closed stream (`DigestsFollow`,
`AnsweredWhenClosed`). Every step of Processor is one of InputStream or leaves the
stream alone (`StreamStep`), so its invariant carries over. On top of it `Underway`,
`ReadThrough`, `Way`, `Stored` and `Pending` say what is settled at each place of
the call; without them nothing would connect the end of the loop with the
comparison. *JobSpec*: every step before the end is a stutter of Job (`OnTheWay`), and
each way to the end is one of its three steps; `ReportIsRight` is where the
contract of the stream is needed. *SizeAccounted*: the count is exact, and so below the
modulus, until a call fails; the -1 of that call is the last thing added.

**Worker.** The traversal is a recursion, and its state a stack; the first invariant
(`Shape`) says what stacks there are: the calls are at nodes of a path that goes down
from the queued one, each with children of its own still to do (`Nested`), queues and
lines hold what paths and lists can lead to (`Queued`, `Reading`), and which of these are
in use at which place of the loop (`Stages`). With it every name a call passes to the
list is one the list can have, so each step is one of FileList's (`ListStep`), and the
theorems of FileListProofs carry over to the program.

The other properties are about a history in which nothing changed, failed or was
cancelled (`Quiet`); in such a one no loop over children was broken off (`Undisturbed`).
Two invariants say what a walk has done and what it has still to come to.
`Planned`: when a path is on the processor's queue, everything below it was seen or is
still *pending* in the planner's walk, that is, it is below a child that one of the calls on the
stack has still to do, or it is where the call on top is (`Met`, `Pending`). A walk that takes the next child, goes
down or returns only ever moves a path from the second to the first.
ProcessedWasPlanned follows, for the planner's walk is over when the processor's begins.
`Decided` says the same of the processor: what was seen is decided, or is
*ahead* (`Ahead`) on the queue or in its walk. When both queues and the stack are empty
nothing is ahead, which is DoneIsDone; `NoneLeft` accounts for the sweep.

*EveryFileHandled* needs more, since a verdict may come from elsewhere: `SumsListed` (a sum
to verify with was on a line), `VerdictsHandled` (whatever has a verdict of its own was
handled under that name) and `NotFoundSwept` (the sweep comes last). With distinct names
what was handled is this file, and with lists that agree no sum is compared with
another one. *ListedIsFound*: a line that is recorded when verifying has its file queued in the
same step (`ListedMet`), so with `ListsBeside` that file was seen by the time of the sweep, and
the sweep spares what was seen (`NotFoundUnseen`).

**ChecksumFile.** `RequestKept`: during a call, the user has cancelled if the
cancellable says so *or* `aborted` remembers it. `FileOurs`: the name of our file is
a candidate, was free when it was created, and others do not create what exists.

*FileComplete* is about the list `Sorted` chooses, so there must be one: `Before` is a
total order of strings (`BeforeTransitive`, `BeforeTotal`; the first place where two strings
differ decides, `BeforeAt`), finitely many strings have a first one (`FirstName`), and were
some finite set not sorted, a minimal one could be sorted by putting its first name in front
(`SortedExists`). `WriteInv` then splits the lines during the writing: the
lines in the file stand for a sorted sequence of names, all before the rest of the list, and the two together
are all the names with a line.

*ReadBack*: the lines written are put together by `Format` (`LinesMean`), and what was in the
file before the call either is so, too, or is among the spoilt (`Left`). `FileLinesAre` says what
becomes of the lines of the file when one is added, `FileLinesMean` that those not spoilt are
whole. `SpoiltCount` is the bound: a call spoils a line only if it finds a piece, which is then
gone, and leaves at most one. `ParseFormat` follows the parser through a whole line: no
comment, as the checksum is none; the first space is the one after the checksum; spaces and
mark end where the name begins, as the name is plain. `FormatUnbroken`: there is no line feed in
it, so it is read as one line.

**Application.** `TimerInv`: the timer runs exactly while the worker is between
the start of the copying and its end, and a callback is under way only when the
copying has begun. `PlaceInv`: a question, or a change of status, leads back to the phase it came
from, so that one asked while planning does not end among the items. `ButtonInv`: the
button says CLOSE only once the worker has the GDK lock for the last time, so no click gets in before the last counters are
shown. `RequestInv`: what the worker restores after the writing was the user's
wish. `StartInv`: there is no worker before `main` has filled the queue. NoAbort, FinalCounters
and QuitOnlyWhenDone follow by going through the twenty steps of the worker, the GUI
thread's and main's. For TypeOK there must be no more changes of a counter than
names: `count` and the one that may be pending are the number of names decided.

*FinalBar* compares two sums over the items, which planner and processor add
up at different times, with different items in them. As long as no walk failed and nobody asked to
stop, `SumInv` says how far each is: `total_size` is `PlannedSize` of the items planned;
`curr_size` is no more than `ProcessedSize` of the items the processor is through
with, and, unless one of them has shrunk or lists disagreed, no less than their `PlannedSize`.
The latter is not obvious, as the processor skips what is decided: then
everything decided was met before, and the planner did not count it again either. That the recursive
functions are sums, and how they compare, is `SumsExist`, `SumsOnly`, `SumsOrdered` and
`SumsGrow`. `Fraction` is the arithmetic: the parts of the bar are all of them exactly if
`curr_size` has reached `total_size`. `BarInv` adds that the bar is never ahead of the sums, and
from the last update on not behind, so no later callback takes it back. The
type invariant is what makes the remainders of wrapping counts vanish.

**DetailsWindow.** The invariant adds to that of FileList what is known of columns
that have been read (`HalfTrue`) and of a store that is still pending (`Stored`). A
verdict that was read stays, because `FinalStep` (the lemma behind VerdictFinal) says
that it is never taken back. A checksum that was read stays on record, or the file
has failed the comparison (`ChecksumStep`): so a row that says VERIFIED can never have been
filled from freed memory. The histories only grow (`HistoryStep`), which keeps old
rows true.

**Induction over data.** A theorem of induction has an operator for a parameter, which the
provers cannot instantiate. Where numbers or finite sets have to be gone through, the
proofs take a smallest counterexample instead: `Least` (a set of naturals has a smallest
element) and `Minimal` (so has a family of subsets of a finite set, by inclusion) are about
sets and not about formulas, and follow from the well-foundedness of strict inclusion on
finite sets.

Every invariant, action property and refinement of a passing run is stated by a theorem. Only
model-checked are the liveness properties: `Ends` of Processor, `Finishes` of Worker and Application,
`Returns` of ChecksumFile (the prover does not handle fairness and ENABLED); and the
five runs that find a statement violated.

## 6. Not modelled

* *file handler interface*: GObject glue; its dispatch is `pass` in Worker.
* *worker*: files that the copy creates below a directory that is still being
  walked, when the destination lies inside a source.
* *progress and error dialog*: elapsed time and throughput, the label with the file's
  name, texts, debug statistics, layout. The status CANCELLED (see above).
* *start-up*: a thread that cannot be created; GLib ends the process.
* *details window*: columns, sorting, colours.
* *names of checksum types, build files, translations*: no behaviour. The
  expectations of `tests/checksum.c` are the property `Contract`.

## 7. Plan

Done: FileList, Tally, InputStream, Processor, Job, Worker, ChecksumLine,
ChecksumFile, ProgressDialog, Application, DetailsWindow, a run for each, and the
proofs of section 5, among them the inductive invariant of Worker's stack, by which the
theorems about FileList hold of the program, and the sums and sorted lists of
Application and ChecksumFile. What could follow:

1. The pure function that is still abstracted: the recognition of checksum files by
   suffix.
2. A destination inside a source: the planner's walk, the processor's walk and the files made
   in between.
3. The safety part of the liveness properties: measures that every step of the worker
   decreases (what is left of the stack, the queues and the lines), as action properties that
   can be proved without fairness.
4. That a step of Worker's processor is a step of Job: the outcomes `ProcessUnopened`,
   `ProcessFails` and `ProcessFile` as an instance of Job for the file at hand, so that
   the composition of the two models is a theorem and not a reading.
5. Theorems for more trees: what is left of `EveryFileHandled` when two arguments share names, in
   terms of names instead of paths.

------------------------- MODULE DetailsWindowProofs -------------------------
(***************************************************************************)
(* Proofs about the details window, for every set of names and checksums.  *)
(*                                                                         *)
(*   RowsAreTrue   what the window shows of a compared file is true,       *)
(*                 although it is read without a lock                      *)
(*                                                                         *)
(* It takes the file list's own invariant (FileListProofs), and what is    *)
(* known of a row of which one or both columns have been read.             *)
(***************************************************************************)
EXTENDS DetailsWindow, FileListProofs

Verdict == {"VERIFIED", "VERIFICATION_FAILED"}

-----------------------------------------------------------------------------
(* The inductive invariant *)

\* A status that was read is that of the counters, or was on the way to it.
StatusRead(n, status) ==
    /\ status \in Verdict => target[n] = status
    /\ status \in Processed => target[n] \in Processed

\* Where the columns that have been read come from.
WindowTyped ==
    /\ left \subseteq Names
    /\ half \in [name     : Names \cup {NULL},
                 checksum : {<<>>} \cup {<<c>> : c \in Checksums \cup {NULL}},
                 status   : {<<>>} \cup {<<s>> : s \in Status}]
    /\ DOMAIN rows = Names

\* A status store that is pending does not lead away from a verdict.
Stored == fault = "none" => \A n \in Names : StatusRead(n, info[n].status)

\* A checksum that was read is still on record unless the file has failed.
HalfTrue ==
    fault = "none" /\ half.name # NULL =>
        /\ \A s \in Status : half.status = <<s>> => StatusRead(half.name, s)
        /\ half.checksum \notin {<<>>, <<NULL>>, <<info[half.name].checksum>>} =>
              target[half.name] = "VERIFICATION_FAILED"

WInv == IInv /\ WindowTyped /\ Stored /\ HalfTrue /\ RowsTrue

-----------------------------------------------------------------------------
(* The steps of the worker *)

\* A status that was read stays as true as it was.
LEMMA StatusReadStep ==
    ASSUME TypeOK, [Next]_vars, NEW m \in Names, NEW s, StatusRead(m, s)
    PROVE  StatusRead(m, s)'
  <1>1. s \in Verdict => target'[m] = s
    BY FinalStep DEF StatusRead, Verdict
  <1>2. s \in Processed => target'[m] \in Processed
    BY ProcessedStep DEF StatusRead
  <1>. QED  BY <1>1, <1>2 DEF StatusRead

\* Checksums are only ever added to the history.
LEMMA HistoryStep ==
    ASSUME TypeOK, [Next]_vars, NEW m \in Names
    PROVE  listed[m] \subseteq listed'[m] /\ computed[m] \subseteq computed'[m]
  <1>1. \/ listed' = listed
        \/ \E n \in Names, c \in Checksums : listed' = [listed EXCEPT ![n] = @ \cup {c}]
    BY DEF Next, vars, StoreStatus, Found, RecordChecksum, CompareChecksum, CheckFile,
           CheckUnknownFile, MarkFailed, MarkNotFound
  <1>2. \/ computed' = computed
        \/ \E n \in Names : \E c \in Answers(n) : computed' = [computed EXCEPT ![n] = @ \cup {c}]
    BY DEF Next, vars, StoreStatus, Found, RecordChecksum, CompareChecksum, CheckFile,
           CheckUnknownFile, MarkFailed, MarkNotFound
  <1>. QED  BY <1>1, <1>2 DEF TypeOK

\* A step of the worker leaves what the window has read and shows true.
LEMMA WorkerStep == WInv /\ [Next]_vars /\ UNCHANGED window => WInv'
  <1>. SUFFICES ASSUME WInv, [Next]_vars, UNCHANGED window PROVE WInv'
    OBVIOUS
  <1>1. IInv'
    BY TypeStep, SeenStep, StatsStep, EvidenceStep DEF IInv, WInv
  <1>2. WindowTyped'
    BY DEF WInv, WindowTyped, window
  <1>. SUFFICES ASSUME fault' = "none" PROVE Stored' /\ HalfTrue' /\ RowsTrue'
    BY <1>1, <1>2 DEF WInv, Stored, HalfTrue, RowsTrue, Alive
  <1>3. TypeOK /\ Evidence /\ fault = "none" /\ half' = half /\ rows' = rows /\ killed' = killed
    BY FaultStays DEF WInv, IInv, window
  <1>4. Stored'
    <2>. SUFFICES ASSUME NEW n \in Names PROVE StatusRead(n, info[n].status)'
      BY DEF Stored
    <2>1. CASE info'[n].status = target'[n]
      BY <2>1 DEF StatusRead
    <2>2. CASE info'[n].status = info[n].status
      <3>1. StatusRead(n, info[n].status)
        BY <1>3 DEF WInv, Stored
      <3>2. /\ info[n].status \in Verdict => target'[n] = info[n].status
            /\ info[n].status \in Processed => target'[n] \in Processed
        BY <1>3, <3>1, FinalStep, ProcessedStep DEF StatusRead, Verdict
      <3>. QED  BY <2>2, <3>2 DEF StatusRead
    <2>. QED  BY <1>3, <2>1, <2>2, StoreStep
  <1>5. HalfTrue'
    <2>. SUFFICES ASSUME half.name # NULL
                  PROVE  /\ \A s \in Status : half.status = <<s>> => StatusRead(half.name, s)'
                         /\ half.checksum \notin {<<>>, <<NULL>>, <<info'[half.name].checksum>>} =>
                               target'[half.name] = "VERIFICATION_FAILED"
      BY <1>3 DEF HalfTrue, StatusRead
    <2>1. half.name \in Names
      BY DEF WInv, WindowTyped
    <2>2. ASSUME NEW s \in Status, half.status = <<s>> PROVE StatusRead(half.name, s)'
      BY <1>3, <2>1, <2>2, StatusReadStep DEF WInv, HalfTrue
    <2>3. ASSUME half.checksum \notin {<<>>, <<NULL>>, <<info'[half.name].checksum>>}
          PROVE  target'[half.name] = "VERIFICATION_FAILED"
      <3>1. CASE half.checksum = <<info[half.name].checksum>>
        BY <1>3, <2>1, <2>3, <3>1, ChecksumStep
      <3>2. CASE half.checksum # <<info[half.name].checksum>>
        BY <1>3, <2>1, <2>3, <3>2, FinalStep DEF WInv, HalfTrue
      <3>. QED  BY <3>1, <3>2
    <2>. QED  BY <2>2, <2>3
  <1>6. RowsTrue'
    <2>. SUFFICES ASSUME ~killed, NEW n \in Names, rows[n] # NULL
                  PROVE  /\ rows[n].status \in Verdict => target'[n] = rows[n].status
                         /\ rows[n].status = "VERIFIED" =>
                               \/ rows[n].checksum = NULL
                               \/ rows[n].checksum \in listed'[n] \cap computed'[n]
                         /\ rows[n].status \in Processed => target'[n] \in Processed
      BY <1>3 DEF RowsTrue, Alive, Verdict
    <2>1. /\ rows[n].status \in Verdict => target[n] = rows[n].status
          /\ rows[n].status = "VERIFIED" =>
                \/ rows[n].checksum = NULL
                \/ rows[n].checksum \in listed[n] \cap computed[n]
          /\ rows[n].status \in Processed => target[n] \in Processed
      BY <1>3 DEF WInv, RowsTrue, Alive, Verdict
    <2>2. listed[n] \subseteq listed'[n] /\ computed[n] \subseteq computed'[n]
      BY <1>3, HistoryStep
    <2>3. rows[n].status \in Verdict => target'[n] = target[n]
      BY <1>3, <2>1, FinalStep DEF Verdict
    <2>4. target[n] \in Processed => target'[n] \in Processed
      BY <1>3, ProcessedStep
    <2>. QED  BY <2>1, <2>2, <2>3, <2>4
  <1>. QED  BY <1>4, <1>5, <1>6

-----------------------------------------------------------------------------
(* The steps of the window *)

\* A step of the window leaves the list, and what is known of it, as it was.
LEMMA WindowLeavesList ==
    ASSUME IInv, Stored, UNCHANGED vars
    PROVE  IInv' /\ Stored'
  <1>1. IInv'
    BY TypeStep, SeenStep, StatsStep, EvidenceStep DEF IInv
  <1>2. Stored'
    BY DEF Stored, StatusRead, vars
  <1>. QED  BY <1>1, <1>2

\* The steps that read no column and set no row, and those that end the process.
LEMMA QuietStep ==
    ASSUME WInv, UNCHANGED vars,
           left' \subseteq Names,
           \/ half' = half
           \/ \E n \in Names : half' = [NoRow EXCEPT !.name = n],
           \/ killed' /\ rows' = rows
           \/ killed' = killed /\ (rows' = rows \/ rows' = [n \in Names |-> NULL])
    PROVE  WInv'
  <1>1. IInv' /\ Stored'
    BY WindowLeavesList DEF WInv
  <1>2. WindowTyped'
    BY DEF WInv, WindowTyped, NoRow
  <1>3. HalfTrue'
    <2>1. CASE half' = half
      BY <2>1 DEF WInv, HalfTrue, StatusRead, vars
    <2>2. ASSUME NEW n \in Names, half' = [NoRow EXCEPT !.name = n] PROVE HalfTrue'
      BY <2>2 DEF HalfTrue, NoRow
    <2>. QED  BY <2>1, <2>2
  <1>4. RowsTrue'
    BY DEF WInv, RowsTrue, Alive, vars
  <1>. QED  BY <1>1, <1>2, <1>3, <1>4 DEF WInv

\* A column is read of the entry as the worker has left it.
LEMMA ReadStep == WInv /\ (ReadHash \/ ReadStatus) => WInv'
  <1>. SUFFICES ASSUME WInv, ReadHash \/ ReadStatus PROVE WInv'
    OBVIOUS
  <1>1. IInv' /\ Stored'
    BY WindowLeavesList DEF WInv, ReadHash, ReadStatus
  <1>2. half.name \in Names /\ fault = "none" /\ TypeOK /\ UNCHANGED <<vars, left, rows, killed>>
    BY DEF WInv, IInv, WindowTyped, ReadHash, ReadStatus, Alive
  <1>3. WindowTyped'
    BY <1>2 DEF WInv, WindowTyped, ReadHash, ReadStatus, TypeOK, Info
  <1>4. HalfTrue'
    <2>1. CASE ReadHash
      <3>1. /\ half'.name = half.name /\ half'.status = half.status
            /\ half'.checksum = <<info[half.name].checksum>>
        BY <2>1 DEF ReadHash, WInv, WindowTyped
      <3>. QED  BY <1>2, <2>1, <3>1 DEF ReadHash, WInv, HalfTrue, StatusRead, vars
    <2>2. CASE ReadStatus
      <3>1. /\ half'.name = half.name /\ half'.checksum = half.checksum
            /\ half'.status = <<info[half.name].status>>
        BY <2>2 DEF ReadStatus, WInv, WindowTyped
      <3>2. StatusRead(half.name, info[half.name].status)
        BY <1>2 DEF WInv, Stored
      <3>3. \A t \in Status : half'.status = <<t>> => StatusRead(half.name, t)
        BY <3>1, <3>2
      <3>. QED  BY <1>2, <2>2, <3>1, <3>3 DEF ReadStatus, WInv, HalfTrue, StatusRead, vars
    <2>. QED  BY <2>1, <2>2
  <1>5. RowsTrue'
    BY <1>2 DEF WInv, RowsTrue, Alive, vars
  <1>. QED  BY <1>1, <1>3, <1>4, <1>5 DEF WInv

\* The row that is set is true, whatever the memory holds by then that the
\* checksum was read from.
LEMMA RowStep == WInv /\ SetRow => WInv'
  <1>. SUFFICES ASSUME WInv, SetRow PROVE WInv'
    OBVIOUS
  <1>. DEFINE n == half.name
  <1>1. IInv' /\ Stored'
    BY WindowLeavesList DEF WInv, SetRow
  <1>2. n \in Names /\ fault = "none" /\ UNCHANGED vars
    BY DEF WInv, WindowTyped, SetRow, BothRead, Alive
  <1>3. PICK sum \in IF Freed THEN Checksums ELSE {half.checksum[1]} :
          rows' = [rows EXCEPT ![n] = [checksum |-> sum, status |-> half.status[1]]]
    BY DEF SetRow
  <1>4. PICK s \in Status : half.status = <<s>>
    BY DEF WInv, WindowTyped, SetRow, BothRead
  <1>5. PICK c \in Checksums \cup {NULL} : half.checksum = <<c>>
    BY DEF WInv, WindowTyped, SetRow, BothRead
  <1>6. WindowTyped'
    <2>1. half' = NoRow /\ left' = left
      BY DEF SetRow
    <2>. QED  BY <1>3, <2>1 DEF WInv, WindowTyped, NoRow
  <1>7. HalfTrue'
    BY DEF SetRow, HalfTrue, NoRow
  <1>8. StatusRead(n, s)
    BY <1>2, <1>4 DEF WInv, HalfTrue, SetRow, BothRead
  <1>9. s = "VERIFIED" => sum = NULL \/ sum \in listed[n] \cap computed[n]
    <2>. SUFFICES ASSUME s = "VERIFIED", sum # NULL PROVE sum \in listed[n] \cap computed[n]
      OBVIOUS
    <2>1. target[n] = "VERIFIED"
      BY <1>8 DEF StatusRead, Verdict
    <2>2. ~Freed
      \* Only a mismatch frees the checksum that was read.
      BY <1>2, <1>5, <2>1 DEF Freed, WInv, HalfTrue, SetRow, BothRead
    <2>3. sum = info[n].checksum
      BY <1>3, <1>5, <2>2 DEF Freed
    <2>4. listed[n] = {info[n].checksum} /\ info[n].checksum \in computed[n]
      BY <1>2, <2>1 DEF WInv, IInv, Evidence, Supported
    <2>. QED  BY <2>3, <2>4
  <1>10. RowsTrue'
    <2>. SUFFICES ASSUME ~killed, NEW m \in Names, rows'[m] # NULL
                  PROVE  /\ rows'[m].status \in Verdict => target[m] = rows'[m].status
                         /\ rows'[m].status = "VERIFIED" =>
                               \/ rows'[m].checksum = NULL
                               \/ rows'[m].checksum \in listed[m] \cap computed[m]
                         /\ rows'[m].status \in Processed => target[m] \in Processed
      BY <1>2 DEF RowsTrue, Alive, Verdict, SetRow, vars
    <2>1. CASE m = n
      <3>1. rows'[m] = [checksum |-> sum, status |-> s]
        BY <1>3, <1>4, <2>1 DEF WInv, WindowTyped
      <3>. QED  BY <1>8, <1>9, <2>1, <3>1 DEF StatusRead
    <2>2. CASE m # n
      <3>1. rows'[m] = rows[m]
        BY <1>3, <2>2 DEF WInv, WindowTyped
      <3>. QED  BY <1>2, <3>1 DEF WInv, RowsTrue, Alive, Verdict
    <2>. QED  BY <2>1, <2>2
  <1>. QED  BY <1>1, <1>6, <1>7, <1>10 DEF WInv

-----------------------------------------------------------------------------
(* The theorem *)

\* Every step, of the worker or of the window, keeps the invariant.
LEMMA WInvStep == WInv /\ [WindowNext]_allVars => WInv'
  <1>. SUFFICES ASSUME WInv, [WindowNext]_allVars PROVE WInv'
    OBVIOUS
  <1>0. left \subseteq Names /\ known \subseteq Names
    BY DEF WInv, IInv, WindowTyped, TypeOK
  <1>1. CASE Next /\ UNCHANGED window
    BY <1>1, WorkerStep
  <1>2. CASE ClickDetails \/ ClickDestroyed \/ WalkCrashes
    BY <1>0, <1>2, QuietStep DEF ClickDetails, ClickDestroyed, WalkCrashes
  <1>3. CASE WalkEnds
    <2>1. left' \subseteq Names
      BY <1>0, <1>3 DEF WalkEnds, Filtered
    <2>. QED  BY <1>3, <2>1, QuietStep DEF WalkEnds
  <1>4. CASE NextRow
    <2>1. PICK n \in left : half' = [half EXCEPT !.name = n] /\ left' = left \ {n}
      BY <1>4 DEF NextRow
    <2>2. half = NoRow /\ UNCHANGED <<vars, rows, killed>>
      BY <1>4 DEF NextRow
    <2>. QED  BY <1>0, <2>1, <2>2, QuietStep
  <1>5. CASE ReadHash \/ ReadStatus
    BY <1>5, ReadStep
  <1>6. CASE SetRow
    BY <1>6, RowStep
  <1>7. CASE SetRowCrashes \/ ShowWindow
    BY <1>0, <1>7, QuietStep DEF SetRowCrashes, ShowWindow
  <1>8. ASSUME NEW delete \in BOOLEAN, CloseWindow(delete) PROVE WInv'
    BY <1>0, <1>8, QuietStep DEF CloseWindow
  <1>9. CASE UNCHANGED allVars
    <2>1. UNCHANGED vars /\ UNCHANGED window
      BY <1>9 DEF allVars
    <2>. QED  BY <2>1, WorkerStep
  <1>. QED  BY <1>1, <1>2, <1>3, <1>4, <1>5, <1>6, <1>7, <1>8, <1>9 DEF WindowNext, Fill

\* An empty list, and no window.
LEMMA WInvInit == WindowInit => WInv
  <1>. SUFFICES ASSUME WindowInit PROVE WInv
    OBVIOUS
  <1>1. IInv
    BY TypeInit, StatsInit, EvidenceInit DEF WindowInit, IInv
  <1>2. WindowTyped /\ HalfTrue
    BY DEF WindowInit, WindowTyped, HalfTrue, NoRow
  <1>3. Stored
    BY DEF WindowInit, Init, NewInfo, Stored, StatusRead, Verdict, Processed
  <1>4. RowsTrue
    BY DEF WindowInit, RowsTrue
  <1>. QED  BY <1>1, <1>2, <1>3, <1>4 DEF WInv

\* Although the details window reads the list entry by entry, column by column
\* and without a lock, a verdict it shows is true however old it has become,
\* a file shown as verified carries the sum that was listed and computed, and
\* no row is ahead of the counters: for any files, checksums and clicks.
THEOREM RowsAreTrue == WindowSpec => []RowsTrue
  <1>1. WInv => RowsTrue
    BY DEF WInv
  <1>. QED  BY <1>1, WInvInit, WInvStep, PTL DEF WindowSpec
=============================================================================

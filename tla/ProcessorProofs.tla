--------------------------- MODULE ProcessorProofs ---------------------------
(***************************************************************************)
(* Proofs about a call of the processor, for sources of any length and any *)
(* way to cut the reads and writes.                                        *)
(*                                                                         *)
(*   NothingLost       needs that the buffer is empty before a read        *)
(*   VerdictComplete   needs what is settled at each place of the call     *)
(*   SizeAccounted     needs that the count is exact until a call fails    *)
(*   JobSpec           needs in addition that an answer is right, which is *)
(*                     the invariant of the stream (InputStreamProofs)     *)
(***************************************************************************)
EXTENDS Processor, InputStreamProofs

Over == {"done", "dead"}

\* Nothing has failed yet, and all digests follow the reads.
Underway ==
    pc \in {"process", "replace", "created", "read", "write", "verify"} =>
        /\ ~had_error /\ ~closed
        /\ \A s \in in_use : taken[s] = pos

\* Without an error the source is closed only after all of it was read, and
\* written.
ReadThrough ==
    pc \in {"close source", "close dest", "check"} /\ ~had_error =>
        /\ pos = size
        /\ n_read = 0
        /\ \A s \in in_use : taken[s] = pos

\* Which way the call has taken.
Way ==
    /\ pc \in PC
    /\ directory => pc \in {"process", "done"}
    /\ pc = "verify" => verify_only
    /\ pc \in {"replace", "created", "read", "write", "close dest"} => ~verify_only
    /\ pc \in {"process", "replace", "created", "read", "verify"} => n_read = 0
    /\ pc \in {"process", "replace", "created"} => pos = 0 /\ written = 0
    /\ pc \in {"close dest", "check"} => closed
    /\ pc = "check" => ~had_error

\* The destination is not there before it was closed.
Stored ==
    /\ verify_only => dest = OLD
    /\ pc \notin Over \cup {"check"} => dest = OLD
    /\ pc = "check" /\ ~verify_only => dest = size \/ (close_failed /\ dest = OLD)

\* The entry gets its verdict in the last step.
Pending == pc # "done" => status \in {"FOUND", "VERIFIABLE"}

Amounts == n_read \in Nat /\ written \in Nat /\ asked \in Slots

PInv ==
    /\ IInv /\ Amounts
    /\ Underway /\ ReadThrough /\ Way /\ Stored /\ Pending
    /\ NothingLost /\ VerdictComplete

-----------------------------------------------------------------------------
\* Before the call nothing was read or written.
LEMMA PInvInit == ProcInit => PInv
  <1>. SUFFICES ASSUME ProcInit PROVE PInv
    OBVIOUS
  <1>1. PICK n \in 0 .. MaxSize : Construct(ToGio(asked), n)
    BY DEF ProcInit
  <1>2. size = n /\ pos = 0 /\ closed = FALSE /\ taken = [s \in Slots |-> 0]
    BY <1>1 DEF Construct
  <1>3. in_use \subseteq Slots
    BY <1>1 DEF Construct, InUse
  <1>4. Amounts
    BY SlotNumbers DEF ProcInit, Amounts, SHA1
  <1>5. IInv
    BY <1>1, ConstructInv
  <1>. QED  BY <1>2, <1>3, <1>4, <1>5
            DEF ProcInit, PInv, Underway, ReadThrough, Way, PC, Stored, Pending, NothingLost,
                VerdictComplete, Over

\* A call of the processor is a call of the stream, or leaves it alone.
LEMMA StreamStep == ProcNext => [Next]_vars
  <1>. SUFFICES ASSUME ProcNext PROVE [Next]_vars
    OBVIOUS
  <1>1. CASE UNCHANGED vars
    BY <1>1
  <1>2. CASE \E n \in 0 .. MaxSize : SpliceRead(n) \/ VerifyRead(n)
    BY <1>2 DEF SpliceRead, VerifyRead, Next
  <1>3. CASE SpliceReadFails \/ VerifyReadFails
    BY <1>3 DEF SpliceReadFails, VerifyReadFails, Next
  <1>4. CASE CloseSource
    BY <1>4 DEF CloseSource, Next
  <1>5. CASE Report
    BY <1>5 DEF Report, GetChecksum, Next
  <1>6. ASSUME NEW n \in 0 .. MaxSize, SpliceWrite(n) PROVE UNCHANGED vars
    BY <1>6 DEF SpliceWrite, stream
  <1>7. CASE \/ Cancel \/ ProcessDirectory \/ OpenSource \/ OpenFails \/ CreateDestination
             \/ CreateFails \/ EnterSplice \/ SpliceWriteFails \/ CloseDestination
    BY <1>1, <1>7 DEF Cancel, ProcessDirectory, OpenSource, OpenFails, CreateDestination,
       CreateFails, EnterSplice, SpliceWriteFails, CloseDestination, stream
  <1>. QED  BY <1>1, <1>2, <1>3, <1>4, <1>5, <1>6, <1>7 DEF ProcNext, Work

\* What is settled at each place stays so until the call goes on from there.
LEMMA PInvStep == PInv /\ [ProcNext]_allVars => PInv'
  <1>. SUFFICES ASSUME PInv, [ProcNext]_allVars PROVE PInv'
    OBVIOUS
  <1>. DEFINE Rest == /\ Amounts /\ Underway /\ ReadThrough /\ Way /\ Stored /\ Pending
                      /\ NothingLost /\ VerdictComplete
  <1>s. size \in Nat /\ pos \in Nat /\ pos <= size /\ MaxSize \in Nat
    BY StreamAssumption DEF PInv, IInv, TypeOK, StreamAssumption
  <1>a. Rest /\ size \in Nat /\ pos \in Nat /\ pos <= size
    BY <1>s DEF PInv
  <1>b. Rest' => PInv'
    <2>1. IInv'
      BY StreamStep, InvStep DEF PInv, allVars
    <2>. QED  BY <2>1 DEF PInv
  <1>. USE DEF Amounts, Underway, ReadThrough, Way, PC, Over, Stored, Pending,
           NothingLost, VerdictComplete, Goto, Fail
  <1>1. CASE Cancel
    BY <1>1, <1>a, <1>b DEF Cancel, stream, vars, params
  <1>2. CASE ProcessDirectory
    BY <1>2, <1>a, <1>b DEF ProcessDirectory, stream, vars, params
  <1>3. CASE OpenSource
    BY <1>3, <1>a, <1>b DEF OpenSource, stream, vars, params
  <1>3a. CASE OpenFails
    BY <1>3a, <1>a, <1>b DEF OpenFails, stream, vars, params
  <1>4. CASE CreateDestination
    BY <1>4, <1>a, <1>b DEF CreateDestination, stream, vars, params
  <1>4a. CASE CreateFails
    BY <1>4a, <1>a, <1>b DEF CreateFails, stream, vars, params
  <1>5. CASE EnterSplice
    <2>1. UNCHANGED <<vars, params, status, n_read, written, cancelled>>
      BY <1>5 DEF EnterSplice, stream
    <2>2. CASE pc' = "read" /\ UNCHANGED <<dest, had_error, close_failed>>
      BY <1>5, <1>a, <1>b, <2>1, <2>2 DEF EnterSplice, vars, params
    <2>3. CASE pc' = "done"
      BY <1>5, <1>a, <1>b, <2>1, <2>3 DEF EnterSplice, vars, params
    <2>. QED  BY <1>5, <2>2, <2>3 DEF EnterSplice
  <1>6. ASSUME NEW n \in 0 .. MaxSize, Read(n), ~had_error, ~closed,
               \A s \in in_use : taken[s] = pos
        PROVE  /\ pos' = pos + n /\ n \in Nat /\ (n = 0 => pos' = size)
               /\ \A s \in in_use' : taken'[s] = pos'
               /\ UNCHANGED <<size, in_use, closed>>
    <2>1. in_use \subseteq Slots
      BY DEF PInv, IInv, TypeOK
    <2>2. pos # JUNK /\ n \in Nat /\ n # -1
      BY <1>s, SlotNumbers
    <2>3. /\ pos' = pos + n
          /\ UNCHANGED <<size, in_use, closed>>
          /\ n = 0 => pos = size
      BY <1>6 DEF Read
    <2>4. taken' = [s \in Slots |-> IF s \notin in_use THEN taken[s]
                                   ELSE IF taken[s] = JUNK THEN JUNK ELSE taken[s] + n]
      BY <1>6, <2>2 DEF Read, Update
    <2>5. \A s \in in_use : taken'[s] = pos + n
      BY <1>6, <2>1, <2>2, <2>4
    <2>6. n = 0 => pos' = size
      BY <1>s, <2>3
    <2>. QED  BY <2>2, <2>3, <2>5, <2>6
  <1>7. ASSUME NEW n \in 0 .. MaxSize, SpliceRead(n) PROVE PInv'
    <2>1. pc = "read" /\ Read(n) /\ ~had_error /\ ~closed /\ \A s \in in_use : taken[s] = pos
      BY <1>7, <1>a DEF SpliceRead
    <2>2. /\ pos' = pos + n /\ n \in Nat /\ (n = 0 => pos' = size)
          /\ \A s \in in_use' : taken'[s] = pos'
          /\ UNCHANGED <<size, in_use, closed>>
      BY <1>6, <2>1
    <2>3. /\ n_read' = n
          /\ pc' = IF n = 0 THEN "close source" ELSE "write"
          /\ UNCHANGED <<verify_only, directory, asked, status, written, dest, had_error, close_failed>>
      BY <1>7 DEF SpliceRead, params
    <2>4. Way' /\ Underway' /\ ReadThrough'
      BY <1>a, <2>1, <2>2, <2>3
    <2>5. NothingLost' /\ Amounts'
      <3>1. pos = written + n_read /\ n_read = 0 /\ written \in Nat
        BY <1>a, <2>1
      <3>2. pos' = pos + n /\ n \in Nat /\ n_read' = n /\ written' = written
        BY <2>2, <2>3
      <3>3. pos' = written' + n_read' /\ n_read' \in Nat /\ written' \in Nat
        BY <1>s, <3>1, <3>2
      <3>. QED  BY <1>a, <2>3, <3>3
    <2>6. Stored' /\ Pending' /\ VerdictComplete'
      BY <1>a, <2>1, <2>2, <2>3
    <2>. QED  BY <1>b, <2>4, <2>5, <2>6
  <1>8. ASSUME NEW n \in 0 .. MaxSize, VerifyRead(n) PROVE PInv'
    BY <1>6, <1>8, <1>a, <1>b DEF VerifyRead, params
  <1>9. ASSUME NEW n \in 0 .. MaxSize, SpliceWrite(n) PROVE PInv'
    BY <1>9, <1>a, <1>b DEF SpliceWrite, stream, vars, params
  <1>10. CASE SpliceWriteFails
    BY <1>10, <1>a, <1>b DEF SpliceWriteFails, stream, vars, params
  <1>11. CASE SpliceReadFails
    BY <1>11, <1>a, <1>b DEF SpliceReadFails, ReadError, params
  <1>11a. CASE VerifyReadFails
    BY <1>11a, <1>a, <1>b DEF VerifyReadFails, ReadError, params
  <1>12. CASE CloseSource
    BY <1>12, <1>a, <1>b DEF CloseSource, Close, params
  <1>13. CASE CloseDestination
    <2>1. /\ dest' \in {dest, written} /\ dest = OLD /\ (dest' = dest => close_failed' \/ dest' = written)
          /\ pc' = IF had_error THEN "done" ELSE "check"
          /\ UNCHANGED <<vars, params, status, n_read, written, had_error>>
      BY <1>13, <1>a DEF CloseDestination, stream
    <2>a. pc = "close dest" /\ ~verify_only /\ ~directory /\ closed
      BY <1>13, <1>a DEF CloseDestination
    <2>b. ~had_error => pos = size /\ n_read = 0
      BY <1>a, <2>a
    <2>c. pos = written + n_read /\ written \in Nat
      BY <1>a, <2>a
    <2>d. pos = size /\ n_read = 0 => written = size
      BY <1>s, <2>c
    <2>2. /\ pc = "close dest" /\ ~verify_only /\ ~directory /\ closed
          /\ ~had_error => written = size
      BY <2>a, <2>b, <2>d
    <2>3. Stored'
      BY <1>a, <2>1, <2>2 DEF params, vars
    <2>4. Way' /\ Underway' /\ ReadThrough'
      BY <1>a, <2>1, <2>2 DEF params, vars
    <2>5. Amounts' /\ Pending' /\ NothingLost' /\ VerdictComplete'
      BY <1>a, <2>1, <2>2 DEF params, vars
    <2>. QED  BY <1>b, <2>3, <2>4, <2>5
  <1>14. CASE Report
    BY <1>14, <1>a, <1>b DEF Report, GetChecksum, params
  <1>15. CASE UNCHANGED allVars
    BY <1>15, <1>a, <1>b DEF allVars, vars, procVars
  <1>. QED  BY <1>1, <1>2, <1>3, <1>3a, <1>4, <1>4a, <1>5, <1>7, <1>8, <1>9, <1>10, <1>11, <1>11a, <1>12, <1>13,
               <1>14, <1>15 DEF ProcNext, Work

\* The inductive invariant of a call holds in every reachable state.
THEOREM ProcInvariance == ProcSpec => []PInv
  BY PInvInit, PInvStep, PTL DEF ProcSpec

-----------------------------------------------------------------------------
\* No block is lost or doubled between a read and the writes that follow, for
\* sources of any length.
THEOREM LosesNothing == ProcSpec => []NothingLost
  <1>1. PInv => NothingLost
    BY DEF PInv
  <1>. QED  BY <1>1, ProcInvariance, PTL

\* No verdict on a part of a file.
THEOREM VerdictsAreComplete == ProcSpec => []VerdictComplete
  <1>1. PInv => VerdictComplete
    BY DEF PInv
  <1>. QED  BY <1>1, ProcInvariance, PTL

-----------------------------------------------------------------------------
(* Types *)

Flags ==
    /\ verify_only \in BOOLEAN /\ directory \in BOOLEAN /\ genuine \in BOOLEAN
    /\ cancelled \in BOOLEAN /\ had_error \in BOOLEAN /\ close_failed \in BOOLEAN

\* What the invariant leaves open of the types, and that nothing goes through
\* the buffer but in a copy.
Types ==
    /\ status \in {"FOUND", "VERIFIABLE", "COPIED", "VERIFIED", "VERIFICATION_FAILED"}
    /\ dest \in OLD .. MaxSize
    /\ curr_size \in 0 .. CURR_SIZE_MOD - 1
    /\ directory \/ verify_only => n_read = 0 /\ written = 0

\* The count wraps, and stays within its width.
LEMMA SizeWraps ==
    ASSUME NEW n \in Int, AddSize(n), curr_size \in 0 .. CURR_SIZE_MOD - 1
    PROVE  curr_size' \in 0 .. CURR_SIZE_MOD - 1
  <1>1. CURR_SIZE_MOD \in Nat \ {0} /\ curr_size + n \in Int
    BY ProcessorAssumption DEF ProcessorAssumption
  <1>. QED  BY <1>1 DEF AddSize

\* What is in the buffer or was written was read, and nothing more than the
\* source was read.
LEMMA WithinSource ==
    ASSUME PInv, ~directory, ~verify_only
    PROVE  n_read \in 0 .. MaxSize /\ written \in 0 .. MaxSize
  BY StreamAssumption DEF PInv, IInv, TypeOK, Amounts, NothingLost, StreamAssumption

\* A flag is set, or left alone.
LEMMA FlagsStep == Flags /\ [ProcNext]_allVars => Flags'
  <1>. SUFFICES ASSUME Flags, [ProcNext]_allVars PROVE Flags'
    OBVIOUS
  <1>. USE DEF Flags, Fail, params
  <1>1. CASE Cancel
    BY <1>1 DEF Cancel
  <1>2. CASE ProcessDirectory
    BY <1>2 DEF ProcessDirectory
  <1>3. CASE OpenSource
    BY <1>3 DEF OpenSource
  <1>4. CASE OpenFails
    BY <1>4 DEF OpenFails
  <1>5. CASE CreateDestination
    BY <1>5 DEF CreateDestination
  <1>6. CASE CreateFails
    BY <1>6 DEF CreateFails
  <1>7. CASE EnterSplice
    BY <1>7 DEF EnterSplice
  <1>8. ASSUME NEW n \in 0 .. MaxSize, SpliceRead(n) \/ SpliceWrite(n) \/ VerifyRead(n)
        PROVE  Flags'
    BY <1>8 DEF SpliceRead, SpliceWrite, VerifyRead
  <1>9. CASE SpliceReadFails
    BY <1>9 DEF SpliceReadFails
  <1>10. CASE SpliceWriteFails
    BY <1>10 DEF SpliceWriteFails
  <1>11. CASE VerifyReadFails
    BY <1>11 DEF VerifyReadFails
  <1>12. CASE CloseSource
    BY <1>12 DEF CloseSource
  <1>13. CASE CloseDestination
    BY <1>13 DEF CloseDestination
  <1>14. CASE Report
    BY <1>14 DEF Report
  <1>15. CASE UNCHANGED allVars
    BY <1>15 DEF allVars, procVars
  <1>. QED  BY <1>1, <1>2, <1>3, <1>4, <1>5, <1>6, <1>7, <1>8, <1>9, <1>10, <1>11, <1>12, <1>13,
               <1>14, <1>15 DEF ProcNext, Work

\* Every step of the call keeps the amounts and the status within their types.
LEMMA TypesStep == PInv /\ Types /\ [ProcNext]_allVars => Types'
  <1>. SUFFICES ASSUME PInv, Types, [ProcNext]_allVars PROVE Types'
    OBVIOUS
  <1>s. /\ size \in 0 .. MaxSize /\ MaxSize \in Nat /\ OLD = -1
        /\ directory => pc \in {"process", "done"}
        /\ pc \in {"read", "write", "close dest"} => ~verify_only
        /\ pc = "verify" => verify_only
    BY StreamAssumption DEF PInv, IInv, TypeOK, Way, StreamAssumption, OLD
  <1>i. \A x \in 0 .. MaxSize : x \in Int /\ x \in OLD .. MaxSize
    BY StreamAssumption DEF StreamAssumption, OLD
  <1>. USE DEF Types, Goto, Fail, params
  <1>1. CASE Cancel
    BY <1>1 DEF Cancel
  <1>2. CASE ProcessDirectory
    BY <1>2, <1>s, SizeWraps DEF ProcessDirectory
  <1>3. CASE OpenSource \/ OpenFails
    BY <1>3 DEF OpenSource, OpenFails
  <1>4. CASE CreateDestination \/ CreateFails
    BY <1>4 DEF CreateDestination, CreateFails
  <1>5. CASE EnterSplice
    BY <1>5, <1>s DEF EnterSplice
  <1>6. ASSUME NEW n \in 0 .. MaxSize, SpliceRead(n) \/ SpliceWrite(n) \/ VerifyRead(n)
        PROVE  Types'
    <2>1. CASE SpliceRead(n)
      BY <2>1, <1>s DEF SpliceRead
    <2>2. CASE SpliceWrite(n)
      <3>1. curr_size' \in 0 .. CURR_SIZE_MOD - 1
        BY <2>2, <1>s, SizeWraps DEF SpliceWrite
      <3>. QED  BY <2>2, <1>s, <3>1 DEF SpliceWrite
    <2>3. CASE VerifyRead(n)
      <3>1. curr_size' \in 0 .. CURR_SIZE_MOD - 1
        <4>1. AddSize(n)
          BY <2>3 DEF VerifyRead
        <4>2. n \in Int
          BY <1>i
        <4>. QED  BY <4>1, <4>2, SizeWraps
      <3>. QED  BY <2>3, <1>s, <3>1 DEF VerifyRead
    <2>. QED  BY <1>6, <2>1, <2>2, <2>3
  <1>7. CASE SpliceReadFails
    BY <1>7 DEF SpliceReadFails
  <1>7a. CASE SpliceWriteFails \/ VerifyReadFails
    <2>1. AddSize(-1) /\ UNCHANGED <<params, status, n_read, written, dest>>
      BY <1>7a DEF SpliceWriteFails, VerifyReadFails
    <2>2. curr_size' \in 0 .. CURR_SIZE_MOD - 1
      BY <2>1, SizeWraps
    <2>. QED  BY <2>1, <2>2
  <1>8. CASE CloseSource
    BY <1>8 DEF CloseSource
  <1>9. CASE CloseDestination
    <2>1. written \in 0 .. MaxSize
      BY <1>9, <1>s, WithinSource DEF CloseDestination
    <2>2. dest' \in {dest, written} /\ UNCHANGED <<params, status, n_read, written, curr_size>>
      BY <1>9 DEF CloseDestination
    <2>3. dest' \in OLD .. MaxSize
      BY <1>i, <2>1, <2>2
    <2>. QED  BY <2>2, <2>3
  <1>10. CASE Report
    BY <1>10 DEF Report
  <1>11. CASE UNCHANGED allVars
    BY <1>11 DEF allVars, procVars
  <1>. QED  BY <1>1, <1>2, <1>3, <1>4, <1>5, <1>6, <1>7, <1>7a, <1>8, <1>9, <1>10, <1>11 DEF ProcNext, Work

\* Every variable of a call keeps its type; in particular the buffer holds no more
\* than the source, and the progress count stays a guint64.
THEOREM ProcTyping == ProcSpec => []ProcTypeOK
  <1>1. ProcInit => Flags
    BY DEF ProcInit, Flags
  <1>1a. ProcInit => Types
    BY ProcessorAssumption, StreamAssumption
    DEF ProcInit, Types, OLD, ProcessorAssumption, StreamAssumption
  <1>2. PInv /\ Flags /\ Types => ProcTypeOK
    <2>. SUFFICES ASSUME PInv, Flags, Types PROVE ProcTypeOK
      OBVIOUS
    <2>1. TypeOK /\ pc \in PC /\ asked \in Slots /\ MaxSize \in Nat
      BY StreamAssumption DEF PInv, IInv, Way, Amounts, StreamAssumption
    <2>2. n_read \in 0 .. MaxSize /\ written \in 0 .. MaxSize
      BY <2>1, WithinSource DEF Types
    <2>. QED  BY <2>1, <2>2 DEF Flags, Types, ProcTypeOK
  <1>. QED  BY <1>1, <1>1a, <1>2, ProcInvariance, FlagsStep, TypesStep, PTL DEF ProcSpec

-----------------------------------------------------------------------------
(* The call as one step *)

\* On its way the call is not seen.
LEMMA OnTheWay ==
    ASSUME pc \notin Over, pc' \notin Over, UNCHANGED <<params, size, status>>
    PROVE  UNCHANGED Call!jobVars
  BY DEF Over, params, Call!jobVars, Call!params, Call!OLD, OLD

\* The end without a verdict.
LEMMA EndUndecided ==
    ASSUME pc \notin Over, pc' = "done", UNCHANGED <<params, size, status>>,
           dest' \in IF verify_only THEN {OLD} ELSE IF directory THEN {size, OLD} ELSE OLD .. size
    PROVE  Call!Undecided
  BY DEF Over, params, Call!Undecided, Call!params, Call!OLD, OLD

\* The end of the program.
LEMMA EndDied ==
    ASSUME pc \notin Over, pc' = "dead", ~directory, UNCHANGED <<params, size, status>>,
           dest' \in IF verify_only THEN {OLD} ELSE {size, OLD}
    PROVE  Call!Died
  BY DEF Over, params, Call!Died, Call!params, Call!OLD, OLD

\* The end with a verdict.
LEMMA EndDecided ==
    ASSUME pc \notin Over, pc' = "done", ~directory, UNCHANGED <<params, size>>,
           status' = Call!Right,
           dest' \in IF verify_only THEN {OLD} ELSE {size, OLD}
    PROVE  Call!Decided
  BY DEF Over, params, Call!Decided, Call!params, Call!OLD, OLD

\* The answer that is compared is the checksum of the source.
LEMMA ReportIsRight ==
    ASSUME PInv, Report
    PROVE  status' = status \/ status' = Call!Right
  <1>1. PICK sum : /\ sum = IF closed THEN Answer(asked) ELSE NULL
                   /\ status' = IF status = "FOUND" THEN "COPIED"
                                ELSE IF sum = NULL THEN status
                                ELSE IF genuine /\ sum.of = size
                                     THEN "VERIFIED" ELSE "VERIFICATION_FAILED"
    BY DEF Report, GetChecksum, PInv, Amounts, IInv, TypeOK
  <1>2. status = "FOUND" \/ sum = NULL \/ sum.of = size
    <2>1. ASSUME sum # NULL PROVE sum.of = size
      <3>1. asked \in in_use /\ sum = [slot |-> asked, of |-> taken[asked]]
        BY <1>1, <2>1 DEF Answer
      <3>2. taken[asked] = size
        BY <3>1 DEF PInv, Report, Way, ReadThrough
      <3>. QED  BY <3>1, <3>2
    <2>. QED  BY <2>1
  <1>. QED  BY <1>1, <1>2 DEF Call!Right

\* Every step of a call is on its way, or one of the three ends.
LEMMA JobStep ==
    PInv /\ PInv' /\ [ProcNext]_allVars =>
        [Call!Decided \/ Call!Undecided \/ Call!Died]_(Call!jobVars)
  <1>. DEFINE Goal == [Call!Decided \/ Call!Undecided \/ Call!Died]_(Call!jobVars)
  <1>. SUFFICES ASSUME PInv, PInv', [ProcNext]_allVars PROVE Goal
    OBVIOUS
  <1>s. size \in Nat /\ 0 \in OLD .. size
    BY StreamAssumption DEF PInv, IInv, TypeOK, StreamAssumption, OLD
  <1>1. CASE Cancel
    BY <1>1, OnTheWay DEF Cancel, Over, stream, vars, params
  <1>2. CASE ProcessDirectory
    <2>1. /\ pc = "process" /\ dest = OLD /\ directory /\ pc' = "done"
          /\ UNCHANGED <<params, size, status>>
          /\ dest' = dest \/ (~verify_only /\ dest' = size)
      BY <1>2 DEF ProcessDirectory, PInv, Stored, Over, Goto, stream, vars
    <2>. QED  BY <2>1, EndUndecided DEF Over
  <1>3. CASE OpenSource
    BY <1>3, OnTheWay DEF OpenSource, Over, Goto, stream, vars
  <1>4. CASE OpenFails
    <2>1. dest' = OLD
      BY <1>4 DEF OpenFails, PInv, Stored, Over
    <2>. QED  BY <1>4, <2>1, EndDied DEF OpenFails, Over, Goto, stream, vars
  <1>5. CASE CreateDestination
    BY <1>5, OnTheWay DEF CreateDestination, Over, Goto, stream, vars
  <1>6. CASE CreateFails
    <2>1. pc = "replace" /\ dest' = OLD /\ ~verify_only /\ ~directory
      BY <1>6 DEF CreateFails, PInv, Stored, Way, Over
    <2>2. dest' \in OLD .. size
      BY <1>s, <2>1 DEF OLD
    <2>. QED  BY <1>6, <2>1, <2>2, EndUndecided DEF CreateFails, Over, Goto, stream, vars
  <1>7. CASE EnterSplice
    <2>1. pc = "created" /\ dest = OLD /\ ~verify_only /\ ~directory
      BY <1>7 DEF EnterSplice, PInv, Stored, Way, Over
    <2>2. UNCHANGED <<params, size, status>>
      BY <1>7 DEF EnterSplice, stream, vars
    <2>3. CASE pc' = "read"
      BY <2>1, <2>2, <2>3, OnTheWay DEF Over
    <2>4. CASE pc' = "done" /\ dest' \in {dest, 0}
      <3>1. dest' \in OLD .. size
        BY <1>s, <2>1, <2>4 DEF OLD
      <3>. QED  BY <2>1, <2>2, <2>4, <3>1, EndUndecided DEF Over
    <2>. QED  BY <1>7, <2>3, <2>4 DEF EnterSplice, Goto
  <1>8. ASSUME NEW n \in 0 .. MaxSize, SpliceRead(n) \/ SpliceWrite(n) \/ VerifyRead(n) PROVE Goal
    <2>1. pc \notin Over /\ pc' \notin Over /\ UNCHANGED <<params, size, status>>
      BY <1>8 DEF SpliceRead, SpliceWrite, VerifyRead, Read, Over, Goto, stream, vars
    <2>. QED  BY <2>1, OnTheWay
  <1>9. CASE SpliceReadFails \/ SpliceWriteFails \/ VerifyReadFails
    <2>1. pc \notin Over /\ pc' \notin Over /\ UNCHANGED <<params, size, status>>
      BY <1>9 DEF SpliceReadFails, SpliceWriteFails, VerifyReadFails, ReadError, Over, Goto,
         stream, vars
    <2>. QED  BY <2>1, OnTheWay
  <1>10. CASE CloseSource
    <2>1. /\ pc = "close source" /\ UNCHANGED <<params, size, status>>
          /\ pc' = "done" => verify_only
          /\ pc' \in {"done", "check", "close dest"}
          /\ dest' = OLD
      BY <1>10 DEF CloseSource, Close, Goto, PInv, Stored, Over
    <2>2. CASE pc' = "done"
      BY <2>1, <2>2, EndUndecided DEF Over
    <2>3. CASE pc' # "done"
      BY <2>1, <2>3, OnTheWay DEF Over
    <2>. QED  BY <2>2, <2>3
  <1>11. CASE CloseDestination
    <2>1. /\ pc = "close dest" /\ UNCHANGED <<params, size, status>>
          /\ ~verify_only /\ ~directory
          /\ dest' \in {OLD, written}
          /\ pc' \in {"done", "check"}
      BY <1>11 DEF CloseDestination, Goto, PInv, Stored, Way, Over, stream, vars
    <2>2. pos = written + n_read /\ n_read \in Nat /\ written \in Nat
      BY <2>1 DEF PInv, NothingLost, Amounts
    <2>3. pos \in 0 .. size
      BY DEF PInv, IInv, TypeOK
    <2>4. written \in OLD .. size /\ OLD \in OLD .. size
      BY <1>s, <2>2, <2>3 DEF OLD
    <2>5. dest' \in OLD .. size
      BY <2>1, <2>4
    <2>6. CASE pc' = "done"
      BY <2>1, <2>5, <2>6, EndUndecided DEF Over
    <2>7. CASE pc' = "check"
      BY <2>1, <2>7, OnTheWay DEF Over
    <2>. QED  BY <2>1, <2>6, <2>7
  <1>12. CASE Report
    <2>1. /\ pc = "check" /\ ~directory /\ UNCHANGED <<params, size>>
          /\ pc' \in Over
          /\ pc' = "dead" => status' = status
          /\ dest' = dest
      BY <1>12 DEF Report, GetChecksum, Goto, PInv, Way, Over
    <2>2. dest' \in IF verify_only THEN {OLD} ELSE {size, OLD}
      BY <2>1 DEF PInv, Stored
    <2>3. CASE pc' = "dead"
      BY <2>1, <2>2, <2>3, EndDied DEF Over
    <2>4. CASE pc' = "done" /\ status' = Call!Right
      BY <2>1, <2>2, <2>4, EndDecided DEF Over
    <2>5. CASE pc' = "done" /\ status' = status
      \* COPIED, VERIFIED and VERIFICATION_FAILED are none of what it was.
      <3>1. status \in {"FOUND", "VERIFIABLE"} /\ status' \notin {"FOUND", "VERIFIABLE"}
        BY <1>12, <2>1, <2>5 DEF Report, Goto, PInv, Pending
      <3>. QED  BY <2>5, <3>1
    <2>. QED  BY <1>12, <2>1, <2>3, <2>4, <2>5, ReportIsRight DEF Over
  <1>13. CASE UNCHANGED allVars
    BY <1>13 DEF allVars, vars, procVars, Call!jobVars, Call!params
  <1>. QED  BY <1>1, <1>2, <1>3, <1>4, <1>5, <1>6, <1>7, <1>8, <1>9, <1>10, <1>11, <1>12, <1>13
            DEF ProcNext, Work

\* A call that has not begun waits.
LEMMA JobInit == ProcInit => Call!Waiting
  BY DEF ProcInit, Construct, Call!Waiting, Call!OLD, OLD

\* A call of the processor is one step of Job to the worker, for sources of any
\* length and any reads, writes, errors and cancellations in it.
THEOREM ProcessorIsJob == ProcSpec => JobSpec
  <1>1. ProcInit => Call!Waiting
    BY JobInit
  <1>2. PInv /\ PInv' /\ [ProcNext]_allVars =>
            [Call!Decided \/ Call!Undecided \/ Call!Died]_(Call!jobVars)
    BY JobStep
  <1>3. ProcSpec => []PInv
    BY ProcInvariance
  <1>. QED  BY <1>1, <1>2, <1>3, PTL DEF ProcSpec, JobSpec, Call!JobRun

-----------------------------------------------------------------------------
(* The progress count *)

\* The count is exact until a call fails.
CountExact == ~had_error => curr_size = Moved

\* What is moved is no more than the source.
MovedWithin == Moved \in 0 .. MaxSize

SizeInv == CountExact /\ SizeAccounted

\* A count of the source fits the variable it is kept in.
LEMMA CountFits == MaxSize \in Nat /\ CURR_SIZE_MOD \in Nat /\ MaxSize + 1 < CURR_SIZE_MOD
  BY StreamAssumption, ProcessorAssumption DEF StreamAssumption, ProcessorAssumption

\* Nothing more than the source is moved.
LEMMA MovedFits == PInv /\ Types => MovedWithin
  <1>. SUFFICES ASSUME PInv, Types PROVE MovedWithin
    OBVIOUS
  <1>1. size \in 0 .. MaxSize /\ pos \in 0 .. MaxSize
    BY CountFits DEF PInv, IInv, TypeOK
  <1>2. ~directory /\ ~verify_only => written \in 0 .. MaxSize
    BY WithinSource
  <1>. QED  BY <1>1, <1>2, CountFits DEF Moved, MovedWithin

\* A step that moves n blocks and counts them keeps the count exact.
LEMMA Counted ==
    ASSUME NEW n \in Int, SizeInv, MovedWithin, MovedWithin', ~had_error, AddSize(n), Moved' = Moved + n
    PROVE  SizeInv'
  <1>1. curr_size' = (Moved + n) % CURR_SIZE_MOD
    BY DEF SizeInv, CountExact, AddSize
  <1>2. Moved + n \in 0 .. MaxSize
    BY DEF MovedWithin
  <1>3. (Moved + n) % CURR_SIZE_MOD = Moved + n
    BY <1>2, CountFits
  <1>. QED  BY <1>1, <1>3 DEF SizeInv, CountExact, SizeAccounted

\* The first failure counts one down, or nothing.
LEMMA CountedShort ==
    ASSUME SizeInv, ~had_error, had_error', AddSize(-1) \/ UNCHANGED curr_size, Moved' = Moved, MovedWithin
    PROVE  SizeInv'
  <1>1. curr_size = Moved /\ Moved - 1 = Moved + -1
    BY DEF SizeInv, CountExact, MovedWithin
  <1>. QED  BY <1>1 DEF SizeInv, CountExact, SizeAccounted, AddSize

\* A step that neither moves nor counts anything, nor takes an error back, keeps
\* the count as right as it was.
LEMMA CountKept ==
    ASSUME SizeInv, UNCHANGED <<curr_size, had_error>>, Moved' = Moved
    PROVE  SizeInv'
  BY DEF SizeInv, CountExact, SizeAccounted

\* Every step counts what it moves, or fails.
LEMMA SizeStep ==
    ASSUME PInv, SizeInv, MovedWithin, MovedWithin', [ProcNext]_allVars
    PROVE  SizeInv'
  <1>w. /\ directory => pc \in {"process", "done"}
        /\ pc = "verify" => verify_only
        /\ pc \in {"replace", "created", "read", "write", "close dest"} => ~verify_only
        /\ pc \in {"process", "replace", "created", "read", "write", "verify"} => ~had_error
        /\ pc = "process" => pos = 0 /\ written = 0
    BY DEF PInv, Way, Underway
  <1>t. size \in Nat /\ pos \in Nat /\ written \in Nat
    BY CountFits DEF PInv, IInv, TypeOK, Amounts
  <1>. USE DEF Goto, Fail, params, stream, vars
  <1>1. CASE Cancel
    BY <1>1, <1>w, CountKept DEF Cancel, Moved
  <1>2. CASE ProcessDirectory
    <2>1. CASE UNCHANGED <<curr_size, had_error>> /\ verify_only
      BY <1>2, <1>w, <2>1, CountKept DEF ProcessDirectory, Moved
    <2>2. CASE ~verify_only /\ AddSize(size) /\ UNCHANGED had_error
      <3>1. Moved = 0 /\ Moved' = size /\ size \in Int
        BY <1>2, <1>w, <1>t, <2>2 DEF ProcessDirectory, Moved
      <3>. QED  BY <1>2, <1>w, <2>2, <3>1, Counted DEF ProcessDirectory
    <2>3. CASE ~verify_only /\ Fail /\ UNCHANGED curr_size
      BY <1>2, <1>w, <2>3, CountedShort DEF ProcessDirectory, Moved
    <2>. QED  BY <1>2, <2>1, <2>2, <2>3 DEF ProcessDirectory
  <1>3. CASE OpenSource
    BY <1>3, <1>w, CountKept DEF OpenSource, Moved
  <1>4. CASE OpenFails
    BY <1>4, <1>w, CountedShort DEF OpenFails, Moved
  <1>5. CASE CreateDestination
    BY <1>5, <1>w, CountKept DEF CreateDestination, Moved
  <1>6. CASE CreateFails
    BY <1>6, <1>w, CountedShort DEF CreateFails, Moved
  <1>7. CASE EnterSplice
    <2>1. Moved' = Moved /\ UNCHANGED curr_size /\ ~had_error
      BY <1>7, <1>w DEF EnterSplice, Moved
    <2>2. had_error' \/ UNCHANGED had_error
      BY <1>7 DEF EnterSplice
    <2>. QED  BY <2>1, <2>2, CountKept, CountedShort
  <1>8. ASSUME NEW n \in 0 .. MaxSize, SpliceRead(n) PROVE SizeInv'
    BY <1>8, <1>w, CountKept DEF SpliceRead, Moved
  <1>9. ASSUME NEW n \in 0 .. MaxSize, SpliceWrite(n) PROVE SizeInv'
    <2>1. n \in Int /\ AddSize(n) /\ ~had_error /\ Moved' = Moved + n
      BY <1>9, <1>w, <1>t, CountFits DEF SpliceWrite, Moved
    <2>. QED  BY <2>1, Counted
  <1>10. ASSUME NEW n \in 0 .. MaxSize, VerifyRead(n) PROVE SizeInv'
    <2>0. n \in Int
      BY CountFits
    <2>1. AddSize(n) /\ ~had_error /\ verify_only /\ ~directory
      BY <1>10, <1>w DEF VerifyRead
    <2>2. Moved = pos /\ Moved' = pos' /\ pos' = pos + n
      BY <1>10, <2>1 DEF VerifyRead, Read, Moved
    <2>. QED  BY <2>0, <2>1, <2>2, Counted
  <1>11. CASE SpliceReadFails \/ SpliceWriteFails \/ VerifyReadFails
    <2>1. /\ ~had_error /\ had_error'
          /\ AddSize(-1) \/ UNCHANGED curr_size
          /\ UNCHANGED <<params, size, pos, written>>
          /\ ~directory
      BY <1>11, <1>w DEF SpliceReadFails, SpliceWriteFails, VerifyReadFails, ReadError
    <2>2. Moved' = Moved
      BY <2>1 DEF Moved
    <2>. QED  BY <2>1, <2>2, CountedShort
  <1>12. CASE CloseSource
    BY <1>12, <1>w, CountKept DEF CloseSource, Close, Moved
  <1>13. CASE CloseDestination
    BY <1>13, <1>w, CountKept DEF CloseDestination, Moved
  <1>14. CASE Report
    BY <1>14, <1>w, CountKept DEF Report, GetChecksum, Moved
  <1>15. CASE UNCHANGED allVars
    BY <1>15, CountKept DEF allVars, procVars, Moved
  <1>. QED  BY <1>1, <1>2, <1>3, <1>4, <1>5, <1>6, <1>7, <1>8, <1>9, <1>10, <1>11, <1>12, <1>13,
               <1>14, <1>15 DEF ProcNext, Work

\* The dialog's count of bytes is exactly the work done until a call fails, and
\* then at most one short, for sources of any length that fit the count.
THEOREM SizeIsAccounted == ProcSpec => []SizeAccounted
  <1>1. ProcInit => Types
    BY CountFits DEF ProcInit, Types, OLD
  <1>2. ProcInit => SizeInv
    BY DEF ProcInit, Construct, SizeInv, CountExact, SizeAccounted, Moved
  <1>3. PInv /\ SizeInv /\ MovedWithin /\ MovedWithin' /\ [ProcNext]_allVars => SizeInv'
    BY SizeStep
  <1>4. SizeInv => SizeAccounted
    BY DEF SizeInv
  <1>. QED  BY <1>1, <1>2, <1>3, <1>4, ProcInvariance, TypesStep, MovedFits, PTL DEF ProcSpec

=============================================================================

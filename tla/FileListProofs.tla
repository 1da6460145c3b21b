--------------------------- MODULE FileListProofs ---------------------------
(***************************************************************************)
(* Proofs about the file list, for every set of names and checksums.       *)
(*                                                                         *)
(*   Typing         the type invariant                                     *)
(*   StatsAgree     needs that only a name the planner has seen, whose     *)
(*                  checksum_file flag is settled, is ever COPIED          *)
(*   VerdictSound   needs what is known of a name before it is processed   *)
(*   TypeFits       likewise                                               *)
(*   VerdictFinal   follows from the table of status changes               *)
(***************************************************************************)
EXTENDS FileList, FiniteSetTheorems, TLAPS

-----------------------------------------------------------------------------
(* The inductive invariant *)

\* Once a name can be COPIED its checksum_file flag no longer changes.
SeenWhenFound ==
    \A n \in Names : target[n] \in {"FOUND", "COPIED"} => info[n].seen

\* What is on record of a name in each status: before it is processed, and
\* afterwards as the evidence for its verdict.
Supported(n) ==
    /\ target[n] = "NONE" => n \notin known
    /\ target[n] \in {"NONE", "FOUND"} =>
          info[n].checksum = NULL /\ listed[n] = {} /\ computed[n] = {}
    /\ target[n] \in {"VERIFIABLE", "NOT_FOUND"} =>
          listed[n] = {info[n].checksum} /\ computed[n] = {}
    /\ target[n] = "VERIFIED" =>
          listed[n] = {info[n].checksum} /\ info[n].checksum \in computed[n]
    /\ target[n] = "COPIED" =>
          listed[n] \subseteq {info[n].checksum} /\ info[n].checksum \in computed[n]
    /\ target[n] = "VERIFICATION_FAILED" =>
          \E l \in listed[n], d \in listed[n] \cup computed[n] : l # d
    /\ target[n] \in {"VERIFIABLE", "VERIFIED"} =>
          info[n].checksum_type = TypeOf[info[n].checksum]
    /\ target[n] = "VERIFIED" => info[n].checksum_type \notin {"NO_CHECKSUM", "CRC32"}

Evidence == fault = "none" => \A n \in Names : Supported(n)

\* StatsAgree is inductive with the first two parts, Evidence with the first.
IInv == TypeOK /\ SeenWhenFound /\ StatsAgree /\ Evidence
-----------------------------------------------------------------------------
(* Types *)

\* The table only leads to statuses.
LEMMA SuccessorsType ==
    ASSUME NEW s \in Status
    PROVE  Successors[s] \subseteq Status
  BY DEF Successors, Status, Unprocessed, Processed

\* guint arithmetic stays within guint.
LEMMA CounterArithmetic ==
    ASSUME NEW x \in 0 .. UINT_MAX
    PROVE  Inc(x) \in 0 .. UINT_MAX /\ Dec(x) \in 0 .. UINT_MAX
  BY ListAssumption DEF Inc, Dec, ListAssumption

\* A status change keeps the types, also when it ends the process.
LEMMA TransitionType ==
    ASSUME TypeOK, NEW n \in Names, NEW new \in Status, Transition(n, new)
    PROVE  /\ count' \in [Counter -> 0 .. UINT_MAX]
           /\ target' \in [Names -> Status]
           /\ fault' \in Fault
  <1>1. count' \in [Counter -> 0 .. UINT_MAX]
    <2>1. \A c \in Counter : Inc(count[c]) \in 0 .. UINT_MAX /\ Dec(count[c]) \in 0 .. UINT_MAX
      BY CounterArithmetic DEF TypeOK
    <2>2. \A c \in Counter : Inc(Dec(count[c])) \in 0 .. UINT_MAX
      BY <2>1, CounterArithmetic
    <2>. QED  BY <2>1, <2>2 DEF TypeOK, Transition, Recount
  <1>2. target' \in [Names -> Status] /\ fault' \in Fault
    BY DEF TypeOK, Transition, Fault
  <1>. QED  BY <1>1, <1>2

\* Every call keeps the types.
LEMMA TypeStep == TypeOK /\ [Next]_vars => TypeOK'
  <1>. SUFFICES ASSUME TypeOK, [Next]_vars PROVE TypeOK'
    OBVIOUS
  <1>1. ASSUME NEW n \in Names, StoreStatus(n) PROVE TypeOK'
    <2>1. info' \in [Names -> Info]
      BY <1>1 DEF TypeOK, StoreStatus, Info
    <2>. QED  BY <2>1, <1>1 DEF TypeOK, StoreStatus
  <1>2. ASSUME NEW n \in Names, Found(n) PROVE TypeOK'
    <2>1. info' \in [Names -> Info]
      <3>1. ASSUME NEW b \in BOOLEAN
            PROVE  [info EXCEPT ![n].seen = TRUE, ![n].checksum_file = b] \in [Names -> Info]
        BY DEF TypeOK, Info
      <3>2. (n \in ChecksumNames) \in BOOLEAN
        OBVIOUS
      <3>. QED  BY <3>1, <3>2, <1>2 DEF Found
    <2>2. "FOUND" \in Status
      BY DEF Status, Unprocessed
    <2>3. count' \in [Counter -> 0 .. UINT_MAX] /\ target' \in [Names -> Status] /\ fault' \in Fault
      BY <1>2, <2>2, TransitionType DEF Found, NoTransition, TypeOK
    <2>4. verify_only' \in BOOLEAN /\ known' \subseteq Names
      BY <1>2 DEF TypeOK, Found
    <2>5. listed' \in [Names -> SUBSET Checksums]
      BY <1>2 DEF TypeOK, Found
    <2>6. computed' \in [Names -> SUBSET (Checksums \cup {NULL})]
      BY <1>2 DEF TypeOK, Found
    <2>. QED  BY <2>1, <2>3, <2>4, <2>5, <2>6, Zenon DEF TypeOK
  <1>3. ASSUME NEW n \in Names, NEW c \in Checksums, RecordChecksum(n, c) PROVE TypeOK'
    <2>1. info' \in [Names -> Info]
      <3>1. TypeOf[c] \in ChecksumType
        BY ListAssumption DEF ListAssumption
      <3>2. /\ info \in [Names -> Info]
            /\ info' = [info EXCEPT ![n].checksum = c, ![n].checksum_type = TypeOf[c]]
        BY <1>3 DEF RecordChecksum, TypeOK
      <3>. QED  BY <3>1, <3>2 DEF Info
    <2>2. "VERIFIABLE" \in Status
      BY DEF Status, Unprocessed
    <2>3. count' \in [Counter -> 0 .. UINT_MAX] /\ target' \in [Names -> Status] /\ fault' \in Fault
      BY <1>3, <2>2, TransitionType DEF RecordChecksum
    <2>4. verify_only' \in BOOLEAN /\ known' \subseteq Names
      BY <1>3 DEF TypeOK, RecordChecksum
    <2>5. listed' \in [Names -> SUBSET Checksums]
      BY <1>3 DEF TypeOK, RecordChecksum
    <2>6. computed' \in [Names -> SUBSET (Checksums \cup {NULL})]
      BY <1>3 DEF TypeOK, RecordChecksum
    <2>. QED  BY <2>1, <2>3, <2>4, <2>5, <2>6, Zenon DEF TypeOK
  <1>4. ASSUME NEW n \in Names, NEW c \in Checksums, CompareChecksum(n, c) PROVE TypeOK'
    <2>1. info' \in [Names -> Info]
      <3>1. /\ info \in [Names -> Info]
            /\ info' = info \/ info' = [info EXCEPT ![n].checksum = c]
        BY <1>4 DEF CompareChecksum, TypeOK
      <3>. QED  BY <3>1 DEF Info
    <2>2. "VERIFICATION_FAILED" \in Status
      BY DEF Status, Processed
    <2>3. count' \in [Counter -> 0 .. UINT_MAX] /\ target' \in [Names -> Status] /\ fault' \in Fault
      BY <1>4, <2>2, TransitionType DEF CompareChecksum, NoTransition, Die, TypeOK, Fault
    <2>. QED  BY <2>1, <2>3, <1>4 DEF TypeOK, CompareChecksum
  <1>5. ASSUME NEW n \in Names, NEW c \in Answers(n), CheckFile(n, c) PROVE TypeOK'
    <2>1. TypeToCompute(n) \in ChecksumType /\ c \in Checksums \cup {NULL}
      BY DEF TypeToCompute, Answers, TypeOK, Info, ChecksumType
    <2>2. info' \in [Names -> Info]
      <3>1. [info EXCEPT ![n].checksum = c, ![n].checksum_type = TypeToCompute(n)]
               \in [Names -> Info]
        BY <2>1 DEF TypeOK, Info
      <3>. QED  BY <3>1, <1>5 DEF TypeOK, CheckFile
    <2>3. {"COPIED", "VERIFIED", "VERIFICATION_FAILED"} \subseteq Status
      BY DEF Status, Processed
    <2>4. count' \in [Counter -> 0 .. UINT_MAX] /\ target' \in [Names -> Status] /\ fault' \in Fault
      BY <1>5, <2>3, TransitionType DEF CheckFile, Die, TypeOK, Fault
    <2>. QED  BY <2>1, <2>2, <2>4, <1>5 DEF TypeOK, CheckFile
  <1>6. ASSUME NEW n \in Names, CheckUnknownFile(n) PROVE TypeOK'
    BY <1>6 DEF TypeOK, CheckUnknownFile, Die, Fault
  <1>7. ASSUME NEW n \in Names, MarkFailed(n) PROVE TypeOK'
    <2>1. "FAILED" \in Status
      BY DEF Status, Processed
    <2>. QED  BY <2>1, <1>7, TransitionType DEF TypeOK, MarkFailed
  <1>8. ASSUME NEW n \in Names, MarkNotFound(n) PROVE TypeOK'
    <2>1. "NOT_FOUND" \in Status
      BY DEF Status, Processed
    <2>. QED  BY <2>1, <1>8, TransitionType DEF TypeOK, MarkNotFound
  <1>9. CASE UNCHANGED vars
    BY <1>9 DEF TypeOK, vars
  <1>. QED  BY <1>1, <1>2, <1>3, <1>4, <1>5, <1>6, <1>7, <1>8, <1>9 DEF Next

\* An empty list has the types.
LEMMA TypeInit == Init => TypeOK
  BY ListAssumption DEF Init, TypeOK, NewInfo, Info, ChecksumType, Status, Unprocessed,
     Fault, ListAssumption

\* Every variable keeps its type, in particular the counters stay within guint.
THEOREM Typing == Spec => []TypeOK
  BY TypeInit, TypeStep, PTL DEF Spec
-----------------------------------------------------------------------------
(* The counters *)

\* Between two calls a status change either follows the table or ends the
\* process.
LEMMA TransitionCases ==
    ASSUME TypeOK, Idle, NEW n \in Names, NEW new \in Status, Transition(n, new)
    PROVE  \/ /\ new \in Successors[target[n]]
              /\ target' = [target EXCEPT ![n] = new]
              /\ fault' = "none"
           \/ fault' # "none" /\ target' = target
  BY DEF Idle, Transition

\* A set of names without n can still take n without exceeding UINT_MAX.
LEMMA RoomForOne ==
    ASSUME NEW n \in Names, NEW S \in SUBSET Names
    PROVE  /\ IsFiniteSet(S)
           /\ Cardinality(S) \in Nat
           /\ Cardinality(S \ {n}) \in Nat
           /\ Cardinality(S \ {n}) < UINT_MAX
           /\ Cardinality(S) = Cardinality(S \ {n}) + (IF n \in S THEN 1 ELSE 0)
  <1>1. IsFiniteSet(Names) /\ UINT_MAX \in Nat /\ Cardinality(Names) <= UINT_MAX
    BY ListAssumption DEF ListAssumption
  <1>2. IsFiniteSet(S) /\ Cardinality(S) \in Nat
    BY <1>1, FS_Subset, FS_CardinalityType
  <1>3. /\ IsFiniteSet(Names \ {n})
        /\ Cardinality(Names \ {n}) = Cardinality(Names) - 1
    BY <1>1, FS_RemoveElement
  <1>4. /\ IsFiniteSet(S \ {n})
        /\ Cardinality(S \ {n}) <= Cardinality(Names \ {n})
    BY <1>3, FS_Subset, S \ {n} \in SUBSET (Names \ {n})
  <1>5. Cardinality(S \ {n}) \in Nat /\ Cardinality(Names) \in Nat
    BY <1>1, <1>4, FS_CardinalityType
  <1>6. Cardinality(S \ {n}) = IF n \in S THEN Cardinality(S) - 1 ELSE Cardinality(S)
    BY <1>2, FS_RemoveElement
  <1>. QED  BY <1>1, <1>2, <1>3, <1>4, <1>5, <1>6

\* The critical section keeps the counters equal to the number of entries, as
\* long as the call leaves every checksum_file flag that matters alone.
LEMMA TransitionCounts ==
    ASSUME TypeOK, Idle, StatsAgree,
           NEW n \in Names, NEW new \in Status, Transition(n, new),
           \A m \in Names \ {n} : info'[m].checksum_file = info[m].checksum_file,
           \/ info'[n].checksum_file = info[n].checksum_file
           \/ "COPIED" \notin {target[n], new}
    PROVE  StatsAgree'
  <1>. SUFFICES ASSUME fault' = "none", NEW c \in Counter
                PROVE  count'[c] = Cardinality(Tallied(c)')
    BY DEF StatsAgree
  <1>. DEFINE S == Tallied(c)
              T == Tallied(c)'
              flag == info[n].checksum_file
  <1>1. /\ new \in Successors[target[n]]
        /\ target' = [target EXCEPT ![n] = new]
        /\ target[n] = info[n].status
        /\ target \in [Names -> Status]
    BY TransitionCases DEF Idle, TypeOK
  <1>2. S \in SUBSET Names /\ count[c] = Cardinality(S)
    BY DEF StatsAgree, Idle, Tallied
  <1>3. n \in S <=> c \in CountedIn(target[n], flag)
    BY DEF Tallied
  <1>4. n \in T <=> c \in CountedIn(new, flag)
    <2>1. n \in T <=> c \in CountedIn(new, info'[n].checksum_file)
      BY <1>1 DEF Tallied
    <2>. QED  BY <2>1 DEF CountedIn
  <1>5. T \ {n} = S \ {n}
    BY <1>1 DEF Tallied
  <1>6. T \in SUBSET Names
    BY DEF Tallied
  <1>7. Cardinality(T) = Cardinality(S \ {n}) + (IF n \in T THEN 1 ELSE 0)
    BY <1>5, <1>6, RoomForOne
  <1>. DEFINE less == IF n \in S THEN Dec(count[c]) ELSE count[c]
  <1>8. less = Cardinality(S \ {n})
    <2>1. /\ Cardinality(S \ {n}) \in Nat
          /\ Cardinality(S) = Cardinality(S \ {n}) + (IF n \in S THEN 1 ELSE 0)
      BY <1>2, RoomForOne
    <2>. HIDE DEF S
    <2>. QED  BY <1>2, <2>1 DEF Dec
  <1>9. count'[c] = IF n \in T THEN Inc(less) ELSE less
    BY <1>1, <1>3, <1>4 DEF Transition, Recount
  <1>10. Inc(less) = Cardinality(S \ {n}) + 1
    BY <1>2, <1>8, RoomForOne DEF Inc
  <1>. QED  BY <1>2, <1>7, <1>8, <1>9, <1>10, RoomForOne

\* Recording or comparing a checksum leaves the flags of every entry alone.
LEMMA FlagsKept ==
    ASSUME TypeOK, NEW n \in Names, NEW c,
           RecordChecksum(n, c) \/ CompareChecksum(n, c) \/ CheckFile(n, c)
    PROVE  \A m \in Names : /\ info'[m].seen = info[m].seen
                            /\ info'[m].checksum_file = info[m].checksum_file
  <1>1. \/ info' = info
        \/ info' = [info EXCEPT ![n].checksum = c]
        \/ \E t : info' = [info EXCEPT ![n].checksum = c, ![n].checksum_type = t]
    BY DEF RecordChecksum, CompareChecksum, CheckFile
  <1>2. CASE info' = [info EXCEPT ![n].checksum = c]
    BY <1>2 DEF TypeOK, Info
  <1>3. ASSUME NEW t, info' = [info EXCEPT ![n].checksum = c, ![n].checksum_type = t]
        PROVE  \A m \in Names : /\ info'[m].seen = info[m].seen
                                /\ info'[m].checksum_file = info[m].checksum_file
    BY <1>3 DEF TypeOK, Info
  <1>. QED  BY <1>1, <1>2, <1>3

\* A name is FOUND or COPIED only after the planner has seen it.
LEMMA SeenStep == TypeOK /\ SeenWhenFound /\ [Next]_vars => SeenWhenFound'
  <1>. SUFFICES ASSUME TypeOK, SeenWhenFound, [Next]_vars PROVE SeenWhenFound'
    OBVIOUS
  <1>. USE DEF SeenWhenFound
  <1>1. ASSUME NEW n \in Names, StoreStatus(n) PROVE SeenWhenFound'
    BY <1>1 DEF StoreStatus, TypeOK, Info
  <1>2. ASSUME NEW n \in Names, Found(n) PROVE SeenWhenFound'
    <2>1. \A m \in Names : info'[m].seen = (info[m].seen \/ m = n)
      BY <1>2 DEF Found, TypeOK, Info
    <2>2. \A m \in Names \ {n} : target'[m] = target[m]
      BY <1>2 DEF Found, Transition, NoTransition, TypeOK
    <2>. QED  BY <2>1, <2>2
  <1>3. ASSUME NEW n \in Names, NEW c \in Checksums,
               RecordChecksum(n, c) \/ CompareChecksum(n, c)
        PROVE  SeenWhenFound'
    <2>1. \A m \in Names : info'[m].seen = info[m].seen
      BY <1>3, FlagsKept
    <2>2. \A m \in Names : target'[m] \in {target[m], "VERIFIABLE", "VERIFICATION_FAILED"}
      BY <1>3 DEF RecordChecksum, CompareChecksum, Transition, NoTransition, Die, TypeOK
    <2>. QED  BY <2>1, <2>2
  <1>4. ASSUME NEW n \in Names, NEW c \in Answers(n), CheckFile(n, c) PROVE SeenWhenFound'
    <2>1. \A m \in Names : info'[m].seen = info[m].seen
      BY <1>4, FlagsKept
    <2>2. CASE info[n].status = "FOUND"
      <3>1. \A m \in Names : target'[m] \in {"FOUND", "COPIED"} => target[m] \in {"FOUND", "COPIED"}
        BY <1>4, <2>2 DEF CheckFile, Transition, TypeOK, Idle
      <3>. QED  BY <2>1, <3>1
    <2>3. CASE info[n].status # "FOUND"
      <3>1. \A m \in Names : target'[m] \in {target[m], "VERIFIED", "VERIFICATION_FAILED"}
        BY <1>4, <2>3 DEF CheckFile, Transition, Die, TypeOK
      <3>. QED  BY <2>1, <3>1
    <2>. QED  BY <2>2, <2>3
  <1>5. ASSUME NEW n \in Names, CheckUnknownFile(n) PROVE SeenWhenFound'
    BY <1>5 DEF CheckUnknownFile, Die
  <1>6. ASSUME NEW n \in Names, MarkFailed(n) \/ MarkNotFound(n) PROVE SeenWhenFound'
    <2>1. info' = info /\ \A m \in Names : target'[m] \in {target[m], "FAILED", "NOT_FOUND"}
      BY <1>6 DEF MarkFailed, MarkNotFound, Transition, TypeOK
    <2>. QED  BY <2>1
  <1>7. CASE UNCHANGED vars
    BY <1>7 DEF vars
  <1>. QED  BY <1>1, <1>2, <1>3, <1>4, <1>5, <1>6, <1>7 DEF Next

\* Every call keeps the counters equal to the number of entries.
LEMMA StatsStep ==
    TypeOK /\ SeenWhenFound /\ StatsAgree /\ [Next]_vars => StatsAgree'
  <1>. SUFFICES ASSUME TypeOK, SeenWhenFound, StatsAgree, [Next]_vars PROVE StatsAgree'
    OBVIOUS
  <1>1. ASSUME count' = count, target' = target,
               fault' = "none" => fault = "none",
               \A m \in Names : \/ info'[m].checksum_file = info[m].checksum_file
                               \/ target[m] # "COPIED"
        PROVE  StatsAgree'
    \* A step that touches neither a counter nor a flag that matters.
    <2>1. ASSUME NEW c \in Counter PROVE Tallied(c)' = Tallied(c)
      <3>1. \A m \in Names : CountedIn(target'[m], info'[m].checksum_file)
                              = CountedIn(target[m], info[m].checksum_file)
        BY <1>1 DEF CountedIn
      <3>. QED  BY <3>1 DEF Tallied
    <2>. QED  BY <1>1, <2>1 DEF StatsAgree
  <1>2. ASSUME NEW n \in Names, StoreStatus(n) PROVE StatsAgree'
    <2>1. \A m \in Names : info'[m].checksum_file = info[m].checksum_file
      BY <1>2 DEF StoreStatus, TypeOK, Info
    <2>. QED  BY <1>1, <1>2, <2>1 DEF StoreStatus
  <1>3. ASSUME NEW n \in Names, Found(n) PROVE StatsAgree'
    <2>1. \A m \in Names \ {n} : info'[m].checksum_file = info[m].checksum_file
      BY <1>3 DEF Found, TypeOK, Info
    <2>2. target[n] # "COPIED" /\ "FOUND" \in Status /\ Idle
      BY <1>3 DEF Found, SeenWhenFound, Status, Unprocessed
    <2>3. CASE Transition(n, "FOUND")
      BY <2>1, <2>2, <2>3, TransitionCounts
    <2>4. CASE NoTransition
      BY <1>1, <2>1, <2>2, <2>4 DEF NoTransition
    <2>. QED  BY <1>3, <2>3, <2>4 DEF Found
  <1>4. ASSUME NEW n \in Names, NEW c \in Checksums, RecordChecksum(n, c) PROVE StatsAgree'
    <2>1. \A m \in Names : info'[m].checksum_file = info[m].checksum_file
      BY <1>4, FlagsKept
    <2>. QED  BY <1>4, <2>1, TransitionCounts DEF RecordChecksum, Status, Unprocessed
  <1>5. ASSUME NEW n \in Names, NEW c \in Checksums, CompareChecksum(n, c) PROVE StatsAgree'
    <2>1. \A m \in Names : info'[m].checksum_file = info[m].checksum_file
      BY <1>5, FlagsKept
    <2>2. CASE Transition(n, "VERIFICATION_FAILED")
      BY <1>5, <2>1, <2>2, TransitionCounts DEF CompareChecksum, Status, Processed
    <2>3. CASE NoTransition
      BY <1>1, <2>1, <2>3 DEF NoTransition
    <2>4. CASE Die("null checksum")
      BY <2>4 DEF Die, StatsAgree
    <2>. QED  BY <1>5, <2>2, <2>3, <2>4 DEF CompareChecksum
  <1>6. ASSUME NEW n \in Names, NEW c \in Answers(n), CheckFile(n, c) PROVE StatsAgree'
    <2>1. \A m \in Names : info'[m].checksum_file = info[m].checksum_file
      BY <1>6, FlagsKept
    <2>2. ASSUME NEW new \in {"COPIED", "VERIFIED", "VERIFICATION_FAILED"}, Transition(n, new)
          PROVE  StatsAgree'
      BY <1>6, <2>1, <2>2, TransitionCounts DEF CheckFile, Status, Processed
    <2>3. CASE Die("null checksum")
      BY <2>3 DEF Die, StatsAgree
    <2>. QED  BY <1>6, <2>2, <2>3 DEF CheckFile
  <1>7. ASSUME NEW n \in Names, CheckUnknownFile(n) PROVE StatsAgree'
    BY <1>7 DEF CheckUnknownFile, Die, StatsAgree
  <1>8. ASSUME NEW n \in Names, MarkFailed(n) \/ MarkNotFound(n) PROVE StatsAgree'
    BY <1>8, TransitionCounts DEF MarkFailed, MarkNotFound, Status, Processed
  <1>9. CASE UNCHANGED vars
    BY <1>1, <1>9 DEF vars
  <1>. QED  BY <1>2, <1>3, <1>4, <1>5, <1>6, <1>7, <1>8, <1>9 DEF Next

\* An empty list counts nothing.
LEMMA StatsInit == Init => SeenWhenFound /\ StatsAgree
  <1>. SUFFICES ASSUME Init PROVE SeenWhenFound /\ StatsAgree
    OBVIOUS
  <1>1. ASSUME NEW c \in Counter PROVE Tallied(c) = {}
    BY DEF Init, Tallied, CountedIn, Counter
  <1>. QED  BY <1>1, FS_EmptySet DEF Init, SeenWhenFound, StatsAgree

-----------------------------------------------------------------------------
(* The verdicts *)

\* An empty list needs no evidence.
LEMMA EvidenceInit == Init => Evidence
  BY DEF Init, Evidence, Supported, NewInfo

\* The evidence implies the verdicts' soundness and the fit of the types.
LEMMA EvidenceSuffices == Evidence => VerdictSound /\ TypeFits
  <1>. SUFFICES ASSUME Evidence, fault = "none" PROVE VerdictSound /\ TypeFits
    BY DEF VerdictSound, TypeFits
  <1>1. \A n \in Names : Supported(n)
    BY DEF Evidence
  <1>2. TypeFits
    BY <1>1 DEF TypeFits, Supported
  <1>3. VerdictSound
    BY <1>1 DEF VerdictSound, Supported
  <1>. QED  BY <1>2, <1>3

\* A call about one name leaves the evidence for the others alone.
LEMMA OthersSupported ==
    ASSUME NEW n, NEW m, Supported(m), m # n,
           target'[m] = target[m],
           listed'[m] = listed[m],
           computed'[m] = computed[m],
           m \in known' => m \in known,
           info'[m] = info[m]
    PROVE  Supported(m)'
  BY DEF Supported

\* Every call has the evidence for the status it leads to.
LEMMA EvidenceStep == TypeOK /\ Evidence /\ [Next]_vars => Evidence'
  <1>. SUFFICES ASSUME TypeOK, Evidence, [Next]_vars, fault' = "none"
                PROVE  \A m \in Names : Supported(m)'
    BY DEF Evidence
  <1>1. ASSUME Idle PROVE \A m \in Names : Supported(m) /\ target[m] = info[m].status
    BY <1>1 DEF Evidence, Idle
  <1>2. ASSUME NEW n \in Names, StoreStatus(n), NEW m \in Names PROVE Supported(m)'
    <2>1. Supported(m)
      BY <1>2 DEF StoreStatus, Evidence
    <2>2. /\ info'[m].checksum = info[m].checksum
          /\ info'[m].checksum_type = info[m].checksum_type
      BY <1>2 DEF StoreStatus, TypeOK, Info
    <2>. QED  BY <1>2, <2>1, <2>2 DEF StoreStatus, Supported
  <1>3. ASSUME NEW n \in Names, Found(n), NEW m \in Names PROVE Supported(m)'
    <2>1. Supported(m) /\ target[m] = info[m].status
      BY <1>1, <1>3 DEF Found
    <2>2. CASE m # n
      BY <1>3, <2>1, <2>2, OthersSupported DEF Found, Transition, NoTransition, TypeOK
    <2>3. CASE m = n
      <3>1. /\ info'[n].checksum = info[n].checksum
            /\ info'[n].checksum_type = info[n].checksum_type
            /\ listed' = listed
            /\ computed' = computed
        BY <1>3 DEF Found, TypeOK, Info
      <3>2. CASE info[n].status = "NONE"
        <4>1. target'[n] = "FOUND"
          BY <1>3, <3>2, TransitionCases DEF Found, TypeOK, Status, Unprocessed
        <4>. QED  BY <2>1, <2>3, <3>1, <3>2, <4>1 DEF Supported
      <3>3. CASE info[n].status # "NONE"
        <4>1. target' = target
          BY <1>3, <3>3 DEF Found, NoTransition
        <4>. QED  BY <2>1, <2>3, <3>1, <3>3, <4>1 DEF Supported
      <3>. QED  BY <3>2, <3>3
    <2>. QED  BY <2>2, <2>3
  <1>4. ASSUME NEW n \in Names, NEW c \in Checksums, RecordChecksum(n, c), NEW m \in Names
        PROVE  Supported(m)'
    <2>1. Supported(m) /\ target[m] = info[m].status
      BY <1>1, <1>4 DEF RecordChecksum
    <2>2. CASE m # n
      BY <1>4, <2>1, <2>2, OthersSupported DEF RecordChecksum, Transition, TypeOK
    <2>3. CASE m = n
      <3>1. target'[n] = "VERIFIABLE"
        BY <1>4, TransitionCases DEF RecordChecksum, TypeOK, Status, Unprocessed
      <3>2. info'[n].checksum = c /\ info'[n].checksum_type = TypeOf[c]
        BY <1>4 DEF RecordChecksum, TypeOK, Info
      <3>3. listed'[n] = {c} /\ computed'[n] = {}
        BY <1>4, <2>1, <2>3 DEF RecordChecksum, TypeOK, Supported
      <3>. QED  BY <2>3, <3>1, <3>2, <3>3 DEF Supported
    <2>. QED  BY <2>2, <2>3
  <1>5. ASSUME NEW n \in Names, NEW c \in Checksums, CompareChecksum(n, c), NEW m \in Names
        PROVE  Supported(m)'
    <2>1. Supported(m) /\ target[m] = info[m].status
      BY <1>1, <1>5 DEF CompareChecksum
    <2>2. CASE m # n
      BY <1>5, <2>1, <2>2, OthersSupported
         DEF CompareChecksum, Transition, NoTransition, Die, TypeOK
    <2>3. CASE m = n
      <3>1. listed'[n] = listed[n] \cup {c} /\ computed' = computed
        BY <1>5 DEF CompareChecksum, TypeOK
      <3>2. info[n].checksum # NULL /\ target[n] \notin {"NONE", "FOUND"}
        <4>1. CASE info[n].checksum = NULL
          <5>1. c # NULL
            BY ListAssumption DEF ListAssumption
          <5>2. fault' = "null checksum"
            BY <1>5, <4>1, <5>1 DEF CompareChecksum, Die
          <5>. QED  BY <5>2
        <4>2. info[n].checksum # NULL
          BY <4>1
        <4>. QED  BY <1>5, <2>1, <2>3, <4>2 DEF CompareChecksum, Supported
      <3>3. CASE info[n].checksum = c
        \* The same checksum again.
        <4>1. target' = target /\ info' = info
          BY <1>5, <3>2, <3>3 DEF CompareChecksum, NoTransition
        <4>. QED  BY <2>1, <2>3, <3>1, <3>2, <3>3, <4>1 DEF Supported
      <3>4. CASE info[n].checksum # c
        \* The old checksum was listed or computed, the new one is listed.
        <4>1. Transition(n, "VERIFICATION_FAILED")
          BY <1>5, <3>2, <3>4 DEF CompareChecksum
        <4>2. /\ "VERIFICATION_FAILED" \in Successors[target[n]]
              /\ target'[n] = "VERIFICATION_FAILED"
          BY <1>5, <4>1, TransitionCases DEF CompareChecksum, TypeOK, Status, Processed
        <4>3. target[n] \in {"VERIFIABLE", "FOUND", "NOT_FOUND", "COPIED"}
          BY <4>2 DEF TypeOK, Successors, Status, Unprocessed, Processed
        <4>4. info[n].checksum \in listed'[n] \cup computed'[n]
          BY <2>1, <2>3, <3>1, <3>2, <4>3 DEF Supported
        <4>. QED  BY <2>3, <3>1, <3>4, <4>2, <4>4 DEF Supported
      <3>. QED  BY <3>3, <3>4
    <2>. QED  BY <2>2, <2>3
  <1>6. ASSUME NEW n \in Names, NEW c \in Answers(n), CheckFile(n, c), NEW m \in Names
        PROVE  Supported(m)'
    <2>1. Supported(m) /\ target[m] = info[m].status
      BY <1>1, <1>6 DEF CheckFile
    <2>2. CASE m # n
      <3>1. target'[m] = target[m]
        BY <1>6, <2>2 DEF CheckFile, Transition, Die, TypeOK
      <3>2. info'[m] = info[m] /\ computed'[m] = computed[m]
        BY <1>6, <2>2 DEF CheckFile, TypeOK
      <3>. QED  BY <1>6, <2>1, <2>2, <3>1, <3>2, OthersSupported DEF CheckFile
    <2>3. CASE m = n
      <3>1. computed'[n] = computed[n] \cup {c} /\ listed' = listed
        BY <1>6 DEF CheckFile, TypeOK
      <3>2. CASE info[n].status = "FOUND"
        <4>1. target'[n] = "COPIED"
          BY <1>6, <3>2, TransitionCases DEF CheckFile, TypeOK, Status, Processed
        <4>2. info'[n].checksum = c
          BY <1>6, <3>2 DEF CheckFile, TypeOK, Info
        <4>. QED  BY <2>1, <2>3, <3>1, <3>2, <4>1, <4>2 DEF Supported
      <3>3. CASE info[n].status # "FOUND"
        <4>1. c # NULL /\ info[n].checksum # NULL /\ info' = info /\ Idle
          <5>1. NULL \in {c, info[n].checksum} => fault' = "null checksum"
            BY <1>6, <3>3 DEF CheckFile, Die
          <5>2. info' = info /\ Idle
            BY <1>6, <3>3 DEF CheckFile
          <5>. QED  BY <5>1, <5>2
        <4>2. target[n] = "VERIFIABLE"
          <5>1. target[n] # "NONE"
            BY <1>6, <2>1, <2>3 DEF CheckFile, Supported
          <5>. QED  BY <1>6, <2>1, <2>3, <3>3, <5>1 DEF CheckFile, TypeOK, Status, Unprocessed
        <4>3. CASE info[n].checksum = c
          <5>1. target'[n] = "VERIFIED"
            BY <1>6, <3>3, <4>1, <4>3, TransitionCases
               DEF CheckFile, TypeOK, Status, Processed
          <5>2. TypeOf[c] = TypeOfDigest(TypeToCompute(n))
            BY <4>1 DEF Answers
          <5>3. info[n].checksum_type = TypeOf[c]
            BY <2>1, <2>3, <4>2, <4>3 DEF Supported
          <5>4. info[n].checksum_type \notin {"NO_CHECKSUM", "CRC32"}
            BY <5>2, <5>3 DEF TypeOfDigest, TypeToCompute
          <5>. QED  BY <2>1, <2>3, <3>1, <4>1, <4>2, <4>3, <5>1, <5>4 DEF Supported
        <4>4. CASE info[n].checksum # c
          <5>1. target'[n] = "VERIFICATION_FAILED"
            BY <1>6, <3>3, <4>1, <4>4, TransitionCases
               DEF CheckFile, TypeOK, Status, Processed
          <5>. QED  BY <2>1, <2>3, <3>1, <4>2, <4>4, <5>1 DEF Supported
        <4>. QED  BY <4>3, <4>4
      <3>. QED  BY <3>2, <3>3
    <2>. QED  BY <2>2, <2>3
  <1>7. ASSUME NEW n \in Names, CheckUnknownFile(n) PROVE FALSE
    BY <1>7 DEF CheckUnknownFile, Die
  <1>8. ASSUME NEW n \in Names, MarkFailed(n) PROVE FALSE
    \* No unprocessed status may become FAILED.
    <2>1. "FAILED" \in Successors[target[n]] /\ target[n] = info[n].status
      BY <1>8, TransitionCases DEF MarkFailed, Idle, TypeOK, Status, Processed
    <2>. QED  BY <1>8, <2>1 DEF MarkFailed, TypeOK, Successors, Status, Unprocessed
  <1>9. ASSUME NEW n \in Names, MarkNotFound(n), NEW m \in Names PROVE Supported(m)'
    <2>1. Supported(m) /\ target[m] = info[m].status
      BY <1>1, <1>9 DEF MarkNotFound
    <2>2. CASE m # n
      BY <1>9, <2>1, <2>2, OthersSupported DEF MarkNotFound, Transition, TypeOK
    <2>3. CASE m = n
      <3>1. target'[n] = "NOT_FOUND"
        BY <1>9, TransitionCases DEF MarkNotFound, TypeOK, Status, Processed
      <3>. QED  BY <1>9, <2>1, <2>3, <3>1 DEF MarkNotFound, Supported
    <2>. QED  BY <2>2, <2>3
  <1>10. CASE UNCHANGED vars
    BY <1>10 DEF vars, Evidence, Supported
  <1>. QED  BY <1>2, <1>3, <1>4, <1>5, <1>6, <1>7, <1>8, <1>9, <1>10 DEF Next

\* A step taken while the process is alive and idle never changes a verdict.
LEMMA FinalStep ==
    ASSUME TypeOK, [Next]_vars, NEW m \in Names,
           target[m] \in {"VERIFIED", "VERIFICATION_FAILED"}
    PROVE  target'[m] = target[m]
  <1>. DEFINE Kept == target'[m] = target[m]
  <1>1. ASSUME NEW n \in Names, NEW new \in Status, Idle, Transition(n, new), new # "FAILED"
        PROVE  Kept
    \* The table leads from a verdict to FAILED only.
    <2>1. target' = target \/ (new \in Successors[target[n]] /\ target' = [target EXCEPT ![n] = new])
      BY <1>1, TransitionCases
    <2>2. m = n => new \notin Successors[target[n]]
      BY <1>1 DEF Successors
    <2>. QED  BY <2>1, <2>2 DEF TypeOK
  <1>2. ASSUME NEW n \in Names, StoreStatus(n) PROVE Kept
    BY <1>2 DEF StoreStatus
  <1>3. ASSUME NEW n \in Names, Found(n) PROVE Kept
    BY <1>1, <1>3 DEF Found, NoTransition, Status, Unprocessed
  <1>4. ASSUME NEW n \in Names, NEW c \in Checksums, RecordChecksum(n, c) PROVE Kept
    BY <1>1, <1>4 DEF RecordChecksum, Status, Unprocessed
  <1>5. ASSUME NEW n \in Names, NEW c \in Checksums, CompareChecksum(n, c) PROVE Kept
    BY <1>1, <1>5 DEF CompareChecksum, NoTransition, Die, Status, Processed
  <1>6. ASSUME NEW n \in Names, NEW c \in Answers(n), CheckFile(n, c) PROVE Kept
    BY <1>1, <1>6 DEF CheckFile, Die, Status, Processed
  <1>7. ASSUME NEW n \in Names, CheckUnknownFile(n) PROVE Kept
    BY <1>7 DEF CheckUnknownFile, Die
  <1>8. ASSUME NEW n \in Names, MarkFailed(n) PROVE Kept
    \* The processor passes over a name with a verdict.
    <2>1. target' = target \/ target' = [target EXCEPT ![n] = "FAILED"]
      BY <1>8 DEF MarkFailed, Transition
    <2>2. m # n
      BY <1>8 DEF MarkFailed, Idle, Processed
    <2>. QED  BY <2>1, <2>2 DEF TypeOK
  <1>9. ASSUME NEW n \in Names, MarkNotFound(n) PROVE Kept
    BY <1>1, <1>9 DEF MarkNotFound, Status, Processed
  <1>10. CASE UNCHANGED vars
    BY <1>10 DEF vars
  <1>. QED  BY <1>2, <1>3, <1>4, <1>5, <1>6, <1>7, <1>8, <1>9, <1>10 DEF Next

\* A processed file stays processed.
LEMMA ProcessedStep ==
    ASSUME TypeOK, [Next]_vars, NEW m \in Names, target[m] \in Processed
    PROVE  target'[m] \in Processed
  <1>. DEFINE Kept == target'[m] \in Processed
  <1>1. ASSUME NEW n \in Names, NEW new \in Status, Idle, Transition(n, new) PROVE Kept
    <2>1. target' = target \/ (new \in Successors[target[n]] /\ target' = [target EXCEPT ![n] = new])
      BY <1>1, TransitionCases
    <2>2. m = n /\ new \in Successors[target[n]] => new \in Processed
      BY DEF Successors, Processed
    <2>. QED  BY <2>1, <2>2 DEF TypeOK
  <1>2. ASSUME NEW n \in Names, Idle, \E new \in Status : Transition(n, new) PROVE Kept
    BY <1>1, <1>2
  <1>3. ASSUME target' = target PROVE Kept
    BY <1>3
  <1>4. ASSUME NEW n \in Names, Found(n) PROVE Kept
    BY <1>2, <1>4 DEF Found, NoTransition, Status, Unprocessed
  <1>5. ASSUME NEW n \in Names, NEW c \in Checksums, RecordChecksum(n, c) PROVE Kept
    BY <1>2, <1>5 DEF RecordChecksum, Status, Unprocessed
  <1>6. ASSUME NEW n \in Names, NEW c \in Checksums, CompareChecksum(n, c) PROVE Kept
    BY <1>2, <1>6 DEF CompareChecksum, NoTransition, Die, Status, Processed
  <1>7. ASSUME NEW n \in Names, NEW c \in Answers(n), CheckFile(n, c) PROVE Kept
    BY <1>2, <1>7 DEF CheckFile, Die, Status, Processed
  <1>8. ASSUME NEW n \in Names, MarkFailed(n) \/ MarkNotFound(n) PROVE Kept
    BY <1>2, <1>8 DEF MarkFailed, MarkNotFound, Status, Processed
  <1>9. ASSUME NEW n \in Names, StoreStatus(n) \/ CheckUnknownFile(n) PROVE Kept
    BY <1>9 DEF StoreStatus, CheckUnknownFile, Die
  <1>10. CASE UNCHANGED vars
    BY <1>10 DEF vars
  <1>. QED  BY <1>4, <1>5, <1>6, <1>7, <1>8, <1>9, <1>10 DEF Next

\* A call leaves a status alone, or stores the one that the counters reflect.
LEMMA StoreStep ==
    ASSUME TypeOK, [Next]_vars, NEW m \in Names
    PROVE  info'[m].status \in {info[m].status, target'[m]}
  <1>1. ASSUME NEW n \in Names, StoreStatus(n) PROVE info'[m].status \in {info[m].status, target'[m]}
    BY <1>1 DEF StoreStatus, TypeOK, Info
  <1>2. ASSUME NEW n \in Names, Found(n) PROVE info'[m].status = info[m].status
    BY <1>2 DEF Found, TypeOK, Info
  <1>3. ASSUME NEW n \in Names, NEW c \in Checksums, RecordChecksum(n, c)
        PROVE  info'[m].status = info[m].status
    BY <1>3 DEF RecordChecksum, TypeOK, Info
  <1>4. ASSUME NEW n \in Names, NEW c \in Checksums, CompareChecksum(n, c)
        PROVE  info'[m].status = info[m].status
    <2>1. info' = info \/ info' = [info EXCEPT ![n].checksum = c]
      BY <1>4 DEF CompareChecksum
    <2>. QED  BY <2>1 DEF TypeOK, Info
  <1>5. ASSUME NEW n \in Names, NEW c \in Answers(n), CheckFile(n, c)
        PROVE  info'[m].status = info[m].status
    <2>1. \/ info' = info
          \/ info' = [info EXCEPT ![n].checksum = c, ![n].checksum_type = TypeToCompute(n)]
      BY <1>5 DEF CheckFile
    <2>. QED  BY <2>1 DEF TypeOK, Info
  <1>6. ASSUME NEW n \in Names, CheckUnknownFile(n) \/ MarkFailed(n) \/ MarkNotFound(n)
        PROVE  info'[m].status = info[m].status
    BY <1>6 DEF CheckUnknownFile, MarkFailed, MarkNotFound
  <1>7. CASE UNCHANGED vars
    BY <1>7 DEF vars
  <1>. QED  BY <1>1, <1>2, <1>3, <1>4, <1>5, <1>6, <1>7 DEF Next

\* A checksum on record is replaced only when the file fails the comparison.
LEMMA ChecksumStep ==
    ASSUME TypeOK, Evidence, [Next]_vars, fault' = "none", NEW m \in Names,
           info[m].checksum # NULL
    PROVE  info'[m].checksum = info[m].checksum \/ target'[m] = "VERIFICATION_FAILED"
  <1>1. ASSUME NEW n \in Names, StoreStatus(n) PROVE info'[m].checksum = info[m].checksum
    BY <1>1 DEF StoreStatus, TypeOK, Info
  <1>2. ASSUME NEW n \in Names, Found(n) PROVE info'[m].checksum = info[m].checksum
    BY <1>2 DEF Found, TypeOK, Info
  <1>3. ASSUME Idle PROVE Supported(m) /\ target[m] = info[m].status
    BY <1>3 DEF Idle, Evidence
  <1>4. ASSUME NEW n \in Names, NEW c \in Checksums, RecordChecksum(n, c)
        PROVE  info'[m].checksum = info[m].checksum
    \* There is no checksum on record yet.
    <2>1. m # n
      BY <1>3, <1>4 DEF RecordChecksum, Supported
    <2>. QED  BY <1>4, <2>1 DEF RecordChecksum, TypeOK, Info
  <1>5. ASSUME NEW n \in Names, NEW c \in Checksums, CompareChecksum(n, c)
        PROVE  info'[m].checksum = info[m].checksum \/ target'[m] = "VERIFICATION_FAILED"
    <2>1. CASE m # n
      BY <1>5, <2>1 DEF CompareChecksum, TypeOK, Info
    <2>2. CASE m = n /\ Transition(n, "VERIFICATION_FAILED")
      BY <1>5, <2>2, TransitionCases DEF CompareChecksum, TypeOK, Status, Processed
    <2>. QED  BY <1>5, <2>1, <2>2 DEF CompareChecksum
  <1>6. ASSUME NEW n \in Names, NEW c \in Answers(n), CheckFile(n, c)
        PROVE  info'[m].checksum = info[m].checksum
    <2>1. m = n => info[n].status # "FOUND"
      BY <1>3, <1>6 DEF CheckFile, Supported
    <2>. QED  BY <1>6, <2>1 DEF CheckFile, TypeOK, Info
  <1>7. ASSUME NEW n \in Names, CheckUnknownFile(n) \/ MarkFailed(n) \/ MarkNotFound(n)
        PROVE  info'[m].checksum = info[m].checksum
    BY <1>7 DEF CheckUnknownFile, MarkFailed, MarkNotFound
  <1>8. CASE UNCHANGED vars
    BY <1>8 DEF vars
  <1>. QED  BY <1>1, <1>2, <1>4, <1>5, <1>6, <1>7, <1>8 DEF Next

\* No call is made once the process has died.
LEMMA FaultStays == [Next]_vars /\ fault' = "none" => fault = "none"
  BY DEF Next, vars, Idle, StoreStatus, Found, RecordChecksum, CompareChecksum, CheckFile,
         CheckUnknownFile, MarkFailed, MarkNotFound

-----------------------------------------------------------------------------
(* The entries *)

\* What the planner has seen has an entry, and what has no entry has no status.
Entries ==
    \A n \in Names : /\ info[n].seen => n \in known
                     /\ n \notin known => target[n] = "NONE"

\* An entry is never removed, and what was seen stays seen.
LEMMA SeenKept ==
    ASSUME TypeOK, [Next]_vars, NEW m \in Names, info[m].seen
    PROVE  info'[m].seen
  <1>1. ASSUME NEW n \in Names, StoreStatus(n) PROVE info'[m].seen
    BY <1>1 DEF StoreStatus, TypeOK, Info
  <1>2. ASSUME NEW n \in Names, Found(n) PROVE info'[m].seen
    BY <1>2 DEF Found, TypeOK, Info
  <1>3. ASSUME NEW n \in Names, NEW c \in Checksums, RecordChecksum(n, c) \/ CompareChecksum(n, c)
        PROVE  info'[m].seen
    BY <1>3, FlagsKept
  <1>4. ASSUME NEW n \in Names, NEW c \in Answers(n), CheckFile(n, c) PROVE info'[m].seen
    BY <1>4, FlagsKept
  <1>5. ASSUME NEW n \in Names, CheckUnknownFile(n) \/ MarkFailed(n) \/ MarkNotFound(n)
        PROVE  info'[m].seen
    BY <1>5 DEF CheckUnknownFile, MarkFailed, MarkNotFound
  <1>6. CASE UNCHANGED vars
    BY <1>6 DEF vars
  <1>. QED  BY <1>1, <1>2, <1>3, <1>4, <1>5, <1>6 DEF Next

\* Every call that marks a name, or changes its status, has an entry for it.
LEMMA EntriesStep == TypeOK /\ Entries /\ [Next]_vars => Entries'
  <1>. SUFFICES ASSUME TypeOK, Entries, [Next]_vars PROVE Entries'
    OBVIOUS
  <1>. USE DEF Entries
  <1>1. ASSUME NEW n \in Names, StoreStatus(n) PROVE Entries'
    <2>1. \A m \in Names : info'[m].seen = info[m].seen
      BY <1>1 DEF StoreStatus, TypeOK, Info
    <2>. QED  BY <1>1, <2>1 DEF StoreStatus
  <1>2. ASSUME NEW n \in Names, Found(n) PROVE Entries'
    <2>1. \A m \in Names : info'[m].seen = (info[m].seen \/ m = n)
      BY <1>2 DEF Found, TypeOK, Info
    <2>2. \A m \in Names \ {n} : target'[m] = target[m]
      BY <1>2 DEF Found, Transition, NoTransition, TypeOK
    <2>. QED  BY <1>2, <2>1, <2>2 DEF Found
  <1>3. ASSUME NEW n \in Names, NEW c \in Checksums, RecordChecksum(n, c) PROVE Entries'
    <2>1. \A m \in Names : info'[m].seen = info[m].seen
      BY <1>3, FlagsKept
    <2>2. \A m \in Names \ {n} : target'[m] = target[m]
      BY <1>3 DEF RecordChecksum, Transition, TypeOK
    <2>. QED  BY <1>3, <2>1, <2>2 DEF RecordChecksum
  <1>4. ASSUME NEW n \in Names, NEW c \in Checksums, CompareChecksum(n, c) PROVE Entries'
    <2>1. \A m \in Names : info'[m].seen = info[m].seen
      BY <1>4, FlagsKept
    <2>2. n \in known /\ known' = known
      BY <1>4 DEF CompareChecksum, Idle
    <2>3. \A m \in Names \ {n} : target'[m] = target[m]
      BY <1>4 DEF CompareChecksum, Transition, NoTransition, Die, TypeOK
    <2>. QED  BY <2>1, <2>2, <2>3
  <1>5. ASSUME NEW n \in Names, NEW c \in Answers(n), CheckFile(n, c) PROVE Entries'
    <2>1. \A m \in Names : info'[m].seen = info[m].seen
      BY <1>5, FlagsKept
    <2>2. n \in known /\ known' = known
      BY <1>5 DEF CheckFile
    <2>3. \A m \in Names \ {n} : target'[m] = target[m]
      BY <1>5 DEF CheckFile, Transition, Die, TypeOK
    <2>. QED  BY <2>1, <2>2, <2>3
  <1>6. ASSUME NEW n \in Names, CheckUnknownFile(n) PROVE Entries'
    BY <1>6 DEF CheckUnknownFile, Die
  <1>7. ASSUME NEW n \in Names, MarkFailed(n) PROVE Entries'
    <2>1. \A m \in Names \ {n} : target'[m] = target[m]
      BY <1>7 DEF MarkFailed, Transition, TypeOK
    <2>. QED  BY <1>7, <2>1 DEF MarkFailed
  <1>8. ASSUME NEW n \in Names, MarkNotFound(n) PROVE Entries'
    <2>1. \A m \in Names \ {n} : target'[m] = target[m]
      BY <1>8 DEF MarkNotFound, Transition, TypeOK
    <2>2. n \in known
      BY <1>8 DEF MarkNotFound, Idle
    <2>. QED  BY <1>8, <2>1, <2>2 DEF MarkNotFound
  <1>9. CASE UNCHANGED vars
    BY <1>9 DEF vars
  <1>. QED  BY <1>1, <1>2, <1>3, <1>4, <1>5, <1>6, <1>7, <1>8, <1>9 DEF Next

-----------------------------------------------------------------------------
(* The theorems *)

\* The inductive invariant holds in every reachable state.
THEOREM Invariance == Spec => []IInv
  <1>1. Init => IInv
    BY TypeInit, StatsInit, EvidenceInit DEF IInv
  <1>2. IInv /\ [Next]_vars => IInv'
    BY TypeStep, SeenStep, StatsStep, EvidenceStep DEF IInv
  <1>. QED  BY <1>1, <1>2, PTL DEF Spec

\* At every moment of a living process the counters the dialog copies equal
\* the number of entries in each outcome, for any set of files and any order
\* of the planner's and the processor's calls.
THEOREM StatsAlwaysAgree == Spec => []StatsAgree
  <1>1. IInv => StatsAgree
    BY DEF IInv
  <1>. QED  BY <1>1, Invariance, PTL

\* No verdict is ever reached without the evidence for it: VERIFIED only if
\* the one listed checksum was computed, NOT_FOUND only if the file was listed
\* and never read, and so on, for any files, checksums and order of calls.
THEOREM VerdictsAreSound == Spec => []VerdictSound
  <1>1. IInv => VerdictSound
    BY EvidenceSuffices DEF IInv
  <1>. QED  BY <1>1, Invariance, PTL

\* The type on record is the type of the checksum on record wherever it decides
\* what is computed or was compared, and no file is verified without one.
THEOREM TypesFit == Spec => []TypeFits
  <1>1. IInv => TypeFits
    BY EvidenceSuffices DEF IInv
  <1>. QED  BY <1>1, Invariance, PTL

\* A verdict is never taken back: neither by a second visit of the processor
\* nor by a later checksum file nor by the sweep.
THEOREM VerdictsAreFinal == Spec => VerdictFinal
  <1>1. TypeOK /\ [Next]_vars =>
          [\A n \in Names : target[n] \in {"VERIFIED", "VERIFICATION_FAILED"} =>
              target'[n] = target[n]]_vars
    BY FinalStep
  <1>2. Spec => []TypeOK
    BY Typing
  <1>. QED  BY <1>1, <1>2, PTL DEF Spec, VerdictFinal
=============================================================================

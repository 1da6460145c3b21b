----------------------------- MODULE TallyProofs -----------------------------
(***************************************************************************)
(* The file list implements Tally, for every set of names and checksums.   *)
(*                                                                         *)
(* A step of the list that changes no outcome changes no counter either;   *)
(* one that changes an outcome is a step of Tally.  That the counters go   *)
(* up and down by exactly one, where the code computes in guint, follows   *)
(* from StatsAgree: a counter is the size of a set of names.               *)
(***************************************************************************)
EXTENDS FileListProofs

\* The flag of a name whose outcome depends on it stays as it is.
FlagSettled(n) ==
    \/ info'[n].checksum_file = info[n].checksum_file
    \/ "COPIED" \notin {target[n], target'[n]}

-----------------------------------------------------------------------------
(* Outcomes and counters *)

\* An entry is counted under its outcome, and nowhere else.
LEMMA CountedUnderOutcome ==
    ASSUME TypeOK, NEW n \in Names
    PROVE  /\ CountedIn(target[n], info[n].checksum_file)
                = IF Outcome(n) = "undecided" THEN {} ELSE {Outcome(n)}
           /\ Outcome(n) \in Counter \cup {"undecided"}
  <1>1. target[n] \in Status /\ info[n].checksum_file \in BOOLEAN
    BY DEF TypeOK, Info
  <1>. QED  BY <1>1 DEF CountedIn, Outcome, Counter, Status, Unprocessed, Processed

\* An outcome changes only with the status the counters reflect.
LEMMA OutcomeKept ==
    ASSUME NEW n \in Names, target'[n] = target[n], FlagSettled(n)
    PROVE  Outcome(n)' = Outcome(n)
  BY DEF Outcome, FlagSettled

\* Counting one name more, or one less, does not leave guint.
LEMMA CountsByOne ==
    ASSUME StatsAgree, fault = "none", NEW n \in Names, NEW c \in Counter
    PROVE  /\ n \notin Tallied(c) => Inc(count[c]) = count[c] + 1
           /\ n \in Tallied(c) => Dec(count[c]) = count[c] - 1
  <1>. DEFINE S == Tallied(c)
  <1>1. count[c] = Cardinality(S) /\ S \in SUBSET Names
    BY DEF StatsAgree, Tallied
  <1>2. /\ Cardinality(S \ {n}) \in Nat
        /\ Cardinality(S \ {n}) < UINT_MAX
        /\ Cardinality(S) = Cardinality(S \ {n}) + (IF n \in S THEN 1 ELSE 0)
    BY <1>1, RoomForOne
  <1>. HIDE DEF S
  <1>3. UINT_MAX \in Nat
    BY ListAssumption DEF ListAssumption
  <1>4. n \notin S => Inc(count[c]) = count[c] + 1
    BY <1>1, <1>2, <1>3 DEF Inc
  <1>5. n \in S => Dec(count[c]) = count[c] - 1
    BY <1>1, <1>2, <1>3 DEF Dec
  <1>. QED  BY <1>4, <1>5 DEF S

-----------------------------------------------------------------------------
(* Steps *)

\* The two ways for a step to be none of Tally's business, and the end.
LEMMA Stutters ==
    ASSUME count' = count, (fault' # "none") = (fault # "none"),
           \A m \in Names : Outcome(m)' = Outcome(m)
    PROVE  UNCHANGED Observed!tallyVars
  BY DEF Observed!tallyVars

\* A step that ends the program.
LEMMA Stops ==
    ASSUME TypeOK', fault = "none", fault' # "none",
           \A m \in Names : Outcome(m)' = Outcome(m)
    PROVE  Observed!Advance
  <1>1. count' \in [Counter -> Nat]
    BY ListAssumption DEF TypeOK, ListAssumption
  <1>2. Observed!Stop
    BY <1>1 DEF Observed!Stop, Observed!Outcome, Counter
  <1>. QED  BY <1>2 DEF Observed!Advance

\* A status change the table accepts, as the calls ask for them: from an
\* unprocessed status, or into VERIFICATION_FAILED.
LEMMA Changes ==
    ASSUME TypeOK, TypeOK', StatsAgree, Idle,
           NEW n \in Names, NEW new \in Status, Transition(n, new), fault' = "none",
           target[n] \in Unprocessed \/ new = "VERIFICATION_FAILED",
           \A m \in Names : FlagSettled(m)
    PROVE  [Observed!Advance]_(Observed!tallyVars)
  <1>. DEFINE flag == info[n].checksum_file
              old  == CountedIn(target[n], flag)
              next == CountedIn(new, flag)
  <1>1. /\ fault = "none"
        /\ new \in Successors[target[n]]
        /\ target' = [target EXCEPT ![n] = new]
        /\ target[n] = info[n].status
        /\ target[n] \in Status
        /\ target'[n] = new
    BY TransitionCases DEF Idle, TypeOK
  <1>2. \A m \in Names \ {n} : Outcome(m)' = Outcome(m)
    BY <1>1, OutcomeKept
  <1>3. /\ count \in [Counter -> 0 .. UINT_MAX]
        /\ count' \in [Counter -> 0 .. UINT_MAX]
        /\ \A c \in Counter :
              LET less == IF c \in old THEN Dec(count[c]) ELSE count[c]
              IN  count'[c] = IF c \in next THEN Inc(less) ELSE less
    BY <1>1 DEF TypeOK, Transition, Recount
  <1>4. \A c \in Counter : n \in Tallied(c) <=> c \in old
    BY DEF Tallied
  <1>5. /\ old = IF Outcome(n) = "undecided" THEN {} ELSE {Outcome(n)}
        /\ Outcome(n) \in Counter \cup {"undecided"}
    BY CountedUnderOutcome
  <1>6. /\ next = IF Outcome(n)' = "undecided" THEN {} ELSE {Outcome(n)'}
        /\ Outcome(n)' \in Counter \cup {"undecided"}
    <2>1. next = CountedIn(new, info'[n].checksum_file)
      BY <1>1 DEF FlagSettled, CountedIn
    <2>. QED  BY <1>1, <2>1 DEF CountedIn, Outcome, Counter, Status, Unprocessed, Processed
  <1>. HIDE DEF old, next
  <1>7. CASE Outcome(n) = "undecided" /\ Outcome(n)' = "undecided"
    <2>1. count' = count
      BY <1>3, <1>5, <1>6, <1>7
    <2>. QED  BY <1>1, <1>2, <1>7, <2>1, Stutters
  <1>8. CASE Outcome(n) = "undecided" /\ Outcome(n)' # "undecided"
    <2>1. PICK c \in Counter : c = Outcome(n)' /\ next = {c} /\ old = {}
      BY <1>5, <1>6, <1>8
    <2>2. Inc(count[c]) = count[c] + 1
      BY <1>1, <1>4, <2>1, CountsByOne
    <2>3. count' = [count EXCEPT ![c] = @ + 1]
      BY <1>3, <2>1, <2>2
    <2>4. [m \in Names |-> Outcome(m)]' = [[m \in Names |-> Outcome(m)] EXCEPT ![n] = c]
      BY <1>2, <2>1
    <2>5. Observed!Decide(n, c)
      BY <1>1, <1>8, <2>3, <2>4 DEF Observed!Decide
    <2>. QED  BY <2>1, <2>5 DEF Observed!Advance, Observed!Outcome, Counter
  <1>9. CASE Outcome(n) # "undecided"
    \* Of the processed statuses only these two have VERIFICATION_FAILED after them.
    <2>1. target[n] \in {"NOT_FOUND", "COPIED"} /\ new = "VERIFICATION_FAILED"
      BY <1>1, <1>9 DEF Outcome, Successors, Status, Unprocessed, Processed
    <2>2. Outcome(n) \in {"COPIED", "NOT_FOUND"} /\ Outcome(n)' = "FAILED"
      BY <1>1, <1>9, <2>1 DEF Outcome, Unprocessed
    <2>3. PICK c \in Counter \ {"FAILED"} : c = Outcome(n) /\ old = {c}
      BY <1>5, <2>2 DEF Counter
    <2>4. "FAILED" \in Counter /\ next = {"FAILED"}
      BY <1>6, <2>2 DEF Counter
    <2>5. Dec(count[c]) = count[c] - 1 /\ Inc(count["FAILED"]) = count["FAILED"] + 1
      BY <1>1, <1>4, <2>3, <2>4, CountsByOne
    <2>6. count' = [count EXCEPT ![c] = @ - 1, !["FAILED"] = @ + 1]
      BY <1>3, <2>3, <2>4, <2>5
    <2>7. [m \in Names |-> Outcome(m)]' = [[m \in Names |-> Outcome(m)] EXCEPT ![n] = "FAILED"]
      BY <1>2, <2>2
    <2>8. Observed!Overturn(n)
      BY <1>1, <2>2, <2>3, <2>6, <2>7 DEF Observed!Overturn
    <2>. QED  BY <2>8 DEF Observed!Advance
  <1>. QED  BY <1>7, <1>8, <1>9

\* The same change, whether or not the table accepts it.
LEMMA Requests ==
    ASSUME TypeOK, TypeOK', StatsAgree, Idle,
           NEW n \in Names, NEW new \in Status, Transition(n, new),
           target[n] \in Unprocessed \/ new = "VERIFICATION_FAILED",
           \A m \in Names : FlagSettled(m)
    PROVE  [Observed!Advance]_(Observed!tallyVars)
  <1>1. CASE fault' = "none"
    BY <1>1, Changes
  <1>2. CASE fault' # "none"
    <2>1. fault = "none" /\ target' = target
      BY <1>2, TransitionCases DEF Idle
    <2>. QED  BY <1>2, <2>1, OutcomeKept, Stops
  <1>. QED  BY <1>1, <1>2

\* A call that changes no status, and the death in the middle of one.
LEMMA Otherwise ==
    ASSUME TypeOK', fault = "none", target' = target, \A m \in Names : FlagSettled(m),
           (UNCHANGED <<count, fault>>) \/ fault' # "none"
    PROVE  [Observed!Advance]_(Observed!tallyVars)
  <1>1. \A m \in Names : Outcome(m)' = Outcome(m)
    BY OutcomeKept
  <1>. QED  BY <1>1, Stutters, Stops

\* Every call is a decision, a failure found late, the end, or not visible.
LEMMA TallyStep ==
    IInv /\ IInv' /\ [Next]_vars => [Observed!Advance]_(Observed!tallyVars)
  <1>. DEFINE Goal == [Observed!Advance]_(Observed!tallyVars)
              Settled == \A m \in Names : FlagSettled(m)
  <1>. SUFFICES ASSUME IInv, IInv', [Next]_vars PROVE Goal
    OBVIOUS
  <1>a. TypeOK /\ TypeOK' /\ SeenWhenFound /\ StatsAgree
    BY DEF IInv
  <1>1. ASSUME NEW n \in Names, StoreStatus(n) PROVE Goal
    <2>1. Settled
      BY <1>1, <1>a DEF StoreStatus, FlagSettled, TypeOK, Info
    <2>. QED  BY <1>1, <1>a, <2>1, Otherwise DEF StoreStatus
  <1>2. ASSUME NEW n \in Names, Found(n) PROVE Goal
    <2>1. Idle /\ target[n] \notin {"FOUND", "COPIED"}
      BY <1>2, <1>a DEF Found, SeenWhenFound
    <2>2. \A m \in Names \ {n} : info'[m].checksum_file = info[m].checksum_file
      BY <1>2, <1>a DEF Found, TypeOK, Info
    <2>3. target'[n] # "COPIED"
      BY <1>2, <1>a, <2>1 DEF Found, Transition, NoTransition, TypeOK
    <2>4. Settled
      BY <2>1, <2>2, <2>3 DEF FlagSettled
    <2>5. CASE info[n].status = "NONE"
      <3>1. Transition(n, "FOUND") /\ target[n] \in Unprocessed /\ "FOUND" \in Status
        BY <1>2, <2>1, <2>5 DEF Found, Idle, Unprocessed, Status
      <3>. QED  BY <1>a, <2>1, <2>4, <3>1, Requests
    <2>6. CASE info[n].status # "NONE"
      BY <1>2, <1>a, <2>1, <2>4, <2>6, Otherwise DEF Found, Idle, NoTransition
    <2>. QED  BY <2>5, <2>6
  <1>3. ASSUME NEW n \in Names, NEW c \in Checksums, RecordChecksum(n, c) PROVE Goal
    <2>1. Settled
      BY <1>3, <1>a, FlagsKept DEF FlagSettled
    <2>2. Idle /\ Transition(n, "VERIFIABLE") /\ target[n] \in Unprocessed /\ "VERIFIABLE" \in Status
      BY <1>3 DEF RecordChecksum, Idle, Unprocessed, Status
    <2>. QED  BY <1>a, <2>1, <2>2, Requests
  <1>4. ASSUME NEW n \in Names, NEW c \in Checksums, CompareChecksum(n, c) PROVE Goal
    <2>1. Settled
      BY <1>4, <1>a, FlagsKept DEF FlagSettled
    <2>2. Idle /\ fault = "none" /\ "VERIFICATION_FAILED" \in Status
      BY <1>4 DEF CompareChecksum, Idle, Processed, Status
    <2>3. CASE Transition(n, "VERIFICATION_FAILED")
      BY <1>a, <2>1, <2>2, <2>3, Requests
    <2>4. CASE NoTransition
      BY <1>a, <2>1, <2>2, <2>4, Otherwise DEF NoTransition
    <2>5. CASE Die("null checksum")
      BY <1>a, <2>1, <2>2, <2>5, Otherwise DEF Die
    <2>. QED  BY <1>4, <2>3, <2>4, <2>5 DEF CompareChecksum
  <1>5. ASSUME NEW n \in Names, NEW c \in Answers(n), CheckFile(n, c) PROVE Goal
    <2>1. Settled
      BY <1>5, <1>a, FlagsKept DEF FlagSettled
    <2>2. Idle /\ fault = "none" /\ target[n] \in Unprocessed
      BY <1>5, <1>a DEF CheckFile, Idle, TypeOK, Status
    <2>3. ASSUME NEW new \in {"COPIED", "VERIFIED", "VERIFICATION_FAILED"}, Transition(n, new)
          PROVE  Goal
      BY <1>a, <2>1, <2>2, <2>3, Requests DEF Status, Processed
    <2>4. CASE Die("null checksum")
      BY <1>a, <2>1, <2>2, <2>4, Otherwise DEF Die
    <2>. QED  BY <1>5, <2>3, <2>4 DEF CheckFile
  <1>6. ASSUME NEW n \in Names, CheckUnknownFile(n) PROVE Goal
    <2>1. Settled /\ fault = "none"
      BY <1>6 DEF CheckUnknownFile, Idle, FlagSettled
    <2>. QED  BY <1>6, <1>a, <2>1, Otherwise DEF CheckUnknownFile, Die
  <1>7. ASSUME NEW n \in Names, MarkFailed(n) \/ MarkNotFound(n) PROVE Goal
    <2>1. Settled
      BY <1>7 DEF MarkFailed, MarkNotFound, FlagSettled
    <2>2. Idle /\ target[n] \in Unprocessed
      BY <1>7, <1>a DEF MarkFailed, MarkNotFound, Idle, TypeOK, Status, Unprocessed
    <2>. QED  BY <1>7, <1>a, <2>1, <2>2, Requests DEF MarkFailed, MarkNotFound, Status, Processed
  <1>8. CASE UNCHANGED vars
    <2>1. \A m \in Names : Outcome(m)' = Outcome(m)
      BY <1>8 DEF vars, Outcome
    <2>. QED  BY <1>8, <2>1, Stutters DEF vars
  <1>. QED  BY <1>1, <1>2, <1>3, <1>4, <1>5, <1>6, <1>7, <1>8 DEF Next

\* Nothing is decided in an empty list.
LEMMA TallyInit == Init => Observed!Begin
  BY DEF Init, Observed!Begin, Observed!Outcome, Counter, Outcome, Unprocessed

-----------------------------------------------------------------------------
\* The file list is a tally of outcomes, for any files, checksums and order of
\* calls: the observer of get_stats sees each file decided once, the counter
\* change in the same step, and an outcome exchanged only for a failure.
THEOREM ListIsTally == Spec => TallySpec
  <1>1. Init => Observed!Begin
    BY TallyInit
  <1>2. IInv /\ IInv' /\ [Next]_vars => [Observed!Advance]_(Observed!tallyVars)
    BY TallyStep
  <1>3. Spec => []IInv
    BY Invariance
  <1>. QED  BY <1>1, <1>2, <1>3, PTL DEF Spec, TallySpec, Observed!TallyRun

=============================================================================

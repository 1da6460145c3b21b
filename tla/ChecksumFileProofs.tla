-------------------------- MODULE ChecksumFileProofs --------------------------
(***************************************************************************)
(* Proofs about the writing of the checksum file, for any names, any limit *)
(* of retries and any number of calls.                                     *)
(*                                                                         *)
(*   NotOverwritten   the creation is exclusive, and others do not create  *)
(*                    what is there                                        *)
(*   CancelKept       what the reset takes away is kept in `aborted`       *)
(*   TypeOK           needs which variables are set at which place         *)
(*   FileComplete     needs that finitely many names can be sorted, and    *)
(*                    that what is written and what is left of the sorted  *)
(*                    list add up to all the lines                         *)
(*   ReadBack         needs that a line was put together by Format, whose  *)
(*                    first space is the one after the checksum, and that  *)
(*                    a call leaves at most one piece of a line            *)
(***************************************************************************)
EXTENDS ChecksumFile, FiniteSetTheorems, SequenceTheorems, WellFoundedInduction, TLAPS

\* Within a call, the user has cancelled if the cancellable says so, or said so
\* before the reset.
RequestKept ==
    /\ pc = "idle" => (cancelled <=> requested)
    /\ pc # "idle" => (cancelled \/ aborted <=> requested)
    /\ pc = "reset" => aborted

FileOurs == NotOverwritten /\ (checksum_file = NULL \/ checksum_file \in Candidates)

IInv == RequestKept /\ FileOurs

-----------------------------------------------------------------------------
\* No call has been made, and no file is ours.
LEMMA InvInit == Init => IInv
  <1>. SUFFICES ASSUME Init PROVE IInv
    OBVIOUS
  <1>1. checksum_file = NULL /\ NULL \notin Nat /\ foreign \subseteq Nat
    BY ChecksumFileAssumption DEF Init, Candidates, ChecksumFileAssumption
  <1>. QED  BY <1>1 DEF Init, IInv, RequestKept, FileOurs, NotOverwritten

\* Every step keeps the request in the cancellable or in the note of it, and
\* creates only what did not exist.
LEMMA InvStep == IInv /\ [Next]_vars => IInv'
  <1>. SUFFICES ASSUME IInv, [Next]_vars PROVE IInv'
    OBVIOUS
  <1>. USE DEF IInv, RequestKept, FileOurs, NotOverwritten, Goto
  <1>1. CASE Cancel
    BY <1>1 DEF Cancel
  <1>2. ASSUME NEW c \in Candidates, OtherCreates(c) PROVE IInv'
    BY <1>2 DEF OtherCreates
  <1>3. CASE Call
    BY <1>3 DEF Call
  <1>4. CASE Reset
    BY <1>4 DEF Reset
  <1>5. CASE AppendTo
    BY <1>5 DEF AppendTo, Opened
  <1>6. CASE Create
    BY <1>6 DEF Create, Opened
  <1>7. CASE Exists
    BY <1>7 DEF Exists
  <1>8. CASE OpenFails
    BY <1>8 DEF OpenFails
  <1>9. CASE WriteLine
    BY <1>9 DEF WriteLine
  <1>10. CASE SkipLine
    BY <1>10 DEF SkipLine
  <1>11. CASE WriteFails
    BY <1>11 DEF WriteFails
  <1>12. CASE Written
    BY <1>12 DEF Written
  <1>13. CASE Close
    BY <1>13 DEF Close
  <1>14. CASE Restore
    BY <1>14 DEF Restore
  <1>15. CASE UNCHANGED vars
    BY <1>15 DEF vars
  <1>. QED  BY <1>1, <1>2, <1>3, <1>4, <1>5, <1>6, <1>7, <1>8, <1>9, <1>10, <1>11, <1>12,
               <1>13, <1>14, <1>15 DEF Next, Step

\* The inductive invariant holds in every reachable state.
THEOREM Invariance == Spec => []IInv
  BY InvInit, InvStep, PTL DEF Spec

-----------------------------------------------------------------------------
\* Whatever others create while names are tried, no file of theirs is written to.
THEOREM NothingOverwritten == Spec => []NotOverwritten
  <1>1. IInv => NotOverwritten
    BY DEF IInv, FileOurs
  <1>. QED  BY <1>1, Invariance, PTL

\* A cancellation is never lost in a call, wherever in it the user cancels, and
\* none is made up.
THEOREM CancelIsKept == Spec => []CancelKept
  <1>1. IInv => CancelKept
    BY DEF IInv, RequestKept, CancelKept
  <1>. QED  BY <1>1, Invariance, PTL

-----------------------------------------------------------------------------
(* The order of the names *)

\* A set of natural numbers has a smallest element.
LEMMA Least ==
    ASSUME NEW S \in SUBSET Nat, S # {}
    PROVE  \E n \in S : \A m \in S : n <= m
  <1>. DEFINE Below == {0 .. n : n \in S}
              R == StrictSubsetOrdering(Nat)
  <1>1. Below # {} /\ Below \subseteq FiniteSubsetsOf(Nat)
    <2>1. \A n \in S : IsFiniteSet(0 .. n) /\ 0 .. n \subseteq Nat
      BY FS_Interval
    <2>. QED  BY <2>1 DEF FiniteSubsetsOf
  <1>2. IsWellFoundedOn(R, FiniteSubsetsOf(Nat))
    BY FS_StrictSubsetOrderingWellFounded
  <1>3. \E x \in Below : \A y \in Below : ~ (<<y, x>> \in R)
    <2>. HIDE DEF R, Below
    <2>. QED  BY <1>1, <1>2, WFMin
  <1>4. PICK n \in S : \A m \in S : <<0 .. m, 0 .. n>> \notin R
    BY <1>3
  <1>5. ASSUME NEW m \in S PROVE n <= m
    <2>1. SUFFICES ASSUME m < n PROVE FALSE
      OBVIOUS
    <2>2. 0 .. m \in SUBSET Nat /\ 0 .. n \in SUBSET Nat /\ 0 .. m \subseteq 0 .. n
      BY <2>1
    <2>3. n \in 0 .. n /\ n \notin 0 .. m
      BY <2>1
    <2>. QED  BY <1>4, <2>2, <2>3 DEF StrictSubsetOrdering
  <1>. QED  BY <1>5

\* The first place at which two strings differ decides.
LEMMA BeforeAt ==
    ASSUME NEW a \in Seq(Nat), NEW b \in Seq(Nat)
    PROVE  Before(a, b) <=>
              \E k \in 0 .. Len(a) :
                  /\ k < Len(b) /\ \A j \in 1 .. k : a[j] = b[j]
                  /\ k = Len(a) \/ a[k + 1] < b[k + 1]
  <1>1. PICK m \in Nat, n \in Nat : m = Len(a) /\ n = Len(b)
    BY LenProperties
  <1>2. ASSUME NEW k \in 0 .. m, k < n
        PROVE  SubSeq(a, 1, k) = SubSeq(b, 1, k) <=> \A j \in 1 .. k : a[j] = b[j]
    <2>1. \A j \in 1 .. k : j + 1 - 1 = j
      OBVIOUS
    <2>2. /\ SubSeq(a, 1, k) \in Seq(Nat) /\ Len(SubSeq(a, 1, k)) = k
          /\ \A j \in 1 .. k : SubSeq(a, 1, k)[j] = a[j]
      BY <1>1, SubSeqProperties
    <2>3. /\ SubSeq(b, 1, k) \in Seq(Nat) /\ Len(SubSeq(b, 1, k)) = k
          /\ \A j \in 1 .. k : SubSeq(b, 1, k)[j] = b[j]
      BY <1>1, <1>2, SubSeqProperties
    <2>. QED  BY <2>2, <2>3, SeqEqual
  <1>. QED  BY <1>1, <1>2 DEF Before

\* What is before a name is before what comes after it.
LEMMA BeforeTransitive ==
    \A a, b, c \in Seq(Nat) : Before(a, b) /\ Before(b, c) => Before(a, c)
  <1>. SUFFICES ASSUME NEW a \in Seq(Nat), NEW b \in Seq(Nat), NEW c \in Seq(Nat),
                       Before(a, b), Before(b, c)
                PROVE  Before(a, c)
    OBVIOUS
  <1>1. PICK l \in Nat, m \in Nat, n \in Nat : l = Len(a) /\ m = Len(b) /\ n = Len(c)
    BY LenProperties
  <1>2. PICK j \in 0 .. l : /\ j < m /\ \A x \in 1 .. j : a[x] = b[x]
                            /\ j = l \/ a[j + 1] < b[j + 1]
    BY <1>1, BeforeAt
  <1>3. PICK k \in 0 .. m : /\ k < n /\ \A x \in 1 .. k : b[x] = c[x]
                            /\ k = m \/ b[k + 1] < c[k + 1]
    BY <1>1, BeforeAt
  <1>t. /\ \A x \in 1 .. l : a[x] \in Nat
        /\ \A x \in 1 .. m : b[x] \in Nat
        /\ \A x \in 1 .. n : c[x] \in Nat
    BY <1>1, ElementOfSeq
  <1>4. CASE j < k
    <2>1. \A x \in 1 .. j : a[x] = c[x]
      BY <1>2, <1>3, <1>4
    <2>2. j + 1 \in 1 .. k
      BY <1>4
    <2>3. j < n /\ (j = l \/ a[j + 1] < c[j + 1])
      BY <1>2, <1>3, <1>4, <2>2
    <2>. QED  BY <1>1, <2>1, <2>3, BeforeAt
  <1>5. CASE j = k
    <2>1. \A x \in 1 .. j : a[x] = c[x]
      BY <1>2, <1>3, <1>5
    <2>2. b[j + 1] < c[j + 1]
      BY <1>2, <1>3, <1>5
    <2>3. j = l \/ a[j + 1] < c[j + 1]
      <3>1. CASE j # l
        <4>1. j + 1 \in 1 .. l /\ j + 1 \in 1 .. m /\ j + 1 \in 1 .. n
          BY <1>2, <1>3, <1>5, <3>1
        <4>2. a[j + 1] \in Nat /\ b[j + 1] \in Nat /\ c[j + 1] \in Nat
          BY <1>t, <4>1
        <4>3. a[j + 1] < b[j + 1]
          BY <1>2, <3>1
        <4>. QED  BY <2>2, <4>2, <4>3
      <3>. QED  BY <3>1
    <2>4. j < n
      BY <1>3, <1>5
    <2>. QED  BY <1>1, <2>1, <2>3, <2>4, BeforeAt
  <1>6. CASE k < j
    <2>1. \A x \in 1 .. k : a[x] = c[x]
      BY <1>2, <1>3, <1>6
    <2>2. k \in 0 .. l /\ k + 1 \in 1 .. j /\ k # m
      BY <1>2, <1>6
    <2>3. a[k + 1] < c[k + 1]
      BY <1>2, <1>3, <2>2
    <2>. QED  BY <1>1, <1>3, <2>1, <2>2, <2>3, BeforeAt
  <1>. QED  BY <1>4, <1>5, <1>6

\* Of two names one is before the other.
LEMMA BeforeTotal ==
    \A a, b \in Seq(Nat) : a = b \/ Before(a, b) \/ Before(b, a)
  <1>. SUFFICES ASSUME NEW a \in Seq(Nat), NEW b \in Seq(Nat)
                PROVE  a = b \/ Before(a, b) \/ Before(b, a)
    OBVIOUS
  <1>1. PICK m \in Nat, n \in Nat : m = Len(a) /\ n = Len(b)
    BY LenProperties
  <1>. DEFINE D == {k \in Nat : k >= m \/ k >= n \/ a[k + 1] # b[k + 1]}
  <1>2. PICK k \in D : \A x \in D : k <= x
    <2>1. D \in SUBSET Nat /\ m \in D
      OBVIOUS
    <2>. HIDE DEF D
    <2>. QED  BY <2>1, Least
  <1>3. m \in D /\ n \in D
    OBVIOUS
  <1>4. k \in 0 .. m /\ k \in 0 .. n
    <2>1. k \in Nat
      OBVIOUS
    <2>2. k <= m /\ k <= n
      <3>. HIDE DEF D
      <3>. QED  BY <1>2, <1>3
    <2>. QED  BY <2>1, <2>2
  <1>5. ASSUME NEW x \in 1 .. k PROVE a[x] = b[x]
    <2>1. x - 1 \in Nat /\ x - 1 < k /\ (x - 1) + 1 = x
      BY <1>4
    <2>2. k \in Nat
      BY <1>4
    <2>3. x - 1 \notin D
      <3>. HIDE DEF D
      <3>. QED  BY <1>2, <2>1, <2>2
    <2>. QED  BY <2>1, <2>3
  <1>6. CASE k = m /\ k = n
    BY <1>1, <1>5, <1>6, SeqEqual
  <1>7. CASE k = m /\ k < n
    BY <1>1, <1>4, <1>5, <1>7, BeforeAt
  <1>8. CASE k = n /\ k < m
    BY <1>1, <1>4, <1>5, <1>8, BeforeAt
  <1>9. CASE k < m /\ k < n
    <2>1. a[k + 1] # b[k + 1]
      BY <1>9
    <2>2. k + 1 \in 1 .. m /\ k + 1 \in 1 .. n
      BY <1>4, <1>9
    <2>3. a[k + 1] \in Nat /\ b[k + 1] \in Nat
      BY <1>1, <2>2, ElementOfSeq
    <2>4. a[k + 1] < b[k + 1] \/ b[k + 1] < a[k + 1]
      BY <2>1, <2>3
    <2>. QED  BY <1>1, <1>4, <1>5, <1>9, <2>4, BeforeAt
  <1>. QED  BY <1>4, <1>6, <1>7, <1>8, <1>9

-----------------------------------------------------------------------------
(* The sorted list *)

\* Of the subsets of a finite set that have a property one is minimal: induction
\* on finite sets, for a property that is not a parameter.
LEMMA Minimal ==
    ASSUME NEW S, IsFiniteSet(S), NEW Family \in SUBSET SUBSET S, Family # {}
    PROVE  \E T \in Family : \A U \in Family : U \subseteq T => U = T
  <1>1. FiniteSubsetsOf(S) = SUBSET S
    BY FS_FiniteSubsetsOfFinite
  <1>2. IsWellFoundedOn(StrictSubsetOrdering(S), FiniteSubsetsOf(S))
    BY FS_StrictSubsetOrderingWellFounded
  <1>3. PICK T \in Family : \A U \in Family : ~ (<<U, T>> \in StrictSubsetOrdering(S))
    BY <1>1, <1>2, WFMin
  <1>4. \A U \in Family : U \subseteq T => U = T
    BY <1>3 DEF StrictSubsetOrdering
  <1>. QED  BY <1>4

\* Of finitely many names one is the first.
LEMMA FirstName ==
    ASSUME NEW S \in SUBSET Seq(Nat), IsFiniteSet(S), S # {}
    PROVE  \E m \in S : \A x \in S : x = m \/ Before(m, x)
  <1>. DEFINE Bad == {T \in SUBSET S : T # {} /\ ~ \E m \in T : \A x \in T : x = m \/ Before(m, x)}
  <1>1. ASSUME Bad # {} PROVE FALSE
    <2>1. Bad \in SUBSET SUBSET S
      OBVIOUS
    <2>2. PICK T \in Bad : \A U \in Bad : U \subseteq T => U = T
      <3>. HIDE DEF Bad
      <3>. QED  BY <1>1, <2>1, Minimal
    <2>3. PICK x \in T : TRUE
      OBVIOUS
    <2>4. T \ {x} \notin Bad
      BY <2>2, <2>3
    <2>5. T \ {x} # {}
      BY <2>3
    <2>6. PICK m \in T \ {x} : \A y \in T \ {x} : y = m \/ Before(m, y)
      BY <2>4, <2>5
    <2>7. x \in Seq(Nat) /\ m \in Seq(Nat) /\ T \subseteq Seq(Nat) /\ m # x
      BY <2>3, <2>6
    <2>8. CASE Before(m, x)
      <3>1. \A y \in T : y = m \/ Before(m, y)
        BY <2>6, <2>8
      <3>. QED  BY <2>6, <3>1
    <2>9. CASE Before(x, m)
      <3>1. \A y \in T : y = x \/ Before(x, y)
        BY <2>6, <2>7, <2>9, BeforeTransitive
      <3>. QED  BY <2>3, <3>1
    <2>. QED  BY <2>7, <2>8, <2>9, BeforeTotal
  <1>. QED  BY <1>1

\* The set's names one by one in their order.
Ascending(list, set) ==
    /\ list \in [1 .. Cardinality(set) -> set]
    /\ \A n \in set : \E k \in 1 .. Cardinality(set) : list[k] = n
    /\ \A j, k \in 1 .. Cardinality(set) : j < k => Before(list[j], list[k])

\* Finitely many names can be sorted.
LEMMA SortedExists ==
    ASSUME NEW S \in SUBSET Seq(Nat), IsFiniteSet(S)
    PROVE  \E list : Ascending(list, S)
  <1>. DEFINE Bad == {T \in SUBSET S : ~ \E list : Ascending(list, T)}
  <1>1. ASSUME Bad # {} PROVE FALSE
    <2>1. Bad \in SUBSET SUBSET S
      OBVIOUS
    <2>2. PICK T \in Bad : \A U \in Bad : U \subseteq T => U = T
      <3>. HIDE DEF Bad
      <3>. QED  BY <1>1, <2>1, Minimal
    <2>3. T \in SUBSET Seq(Nat) /\ IsFiniteSet(T) /\ ~ \E list : Ascending(list, T)
      BY FS_Subset
    <2>4. T # {}
      <3>1. ASSUME T = {} PROVE Ascending([k \in 1 .. 0 |-> 0], T)
        <4>1. Cardinality(T) = 0
          BY <3>1, FS_EmptySet
        <4>. QED  BY <3>1, <4>1 DEF Ascending
      <3>. QED  BY <2>3, <3>1
    <2>5. PICK m \in T : \A x \in T : x = m \/ Before(m, x)
      BY <2>3, <2>4, FirstName
    <2>. DEFINE U == T \ {m}
                c == Cardinality(U)
    <2>6. c \in Nat /\ Cardinality(T) = c + 1
      <3>1. IsFiniteSet(U) /\ Cardinality(U) = Cardinality(T) - 1
        BY <2>3, <2>5, FS_RemoveElement
      <3>2. Cardinality(T) \in Nat /\ Cardinality(U) \in Nat
        BY <2>3, <3>1, FS_CardinalityType
      <3>. QED  BY <3>1, <3>2
    <2>7. PICK u : Ascending(u, U)
      <3>1. U \in SUBSET S /\ U # T /\ U \subseteq T
        BY <2>5
      <3>. QED  BY <2>2, <3>1
    <2>. DEFINE g == [k \in 1 .. c + 1 |-> IF k = 1 THEN m ELSE u[k - 1]]
    <2>8. /\ u \in [1 .. c -> U]
          /\ \A n \in U : \E k \in 1 .. c : u[k] = n
          /\ \A j, k \in 1 .. c : j < k => Before(u[j], u[k])
      BY <2>7 DEF Ascending
    <2>9. \A k \in 2 .. c + 1 : k - 1 \in 1 .. c /\ g[k] = u[k - 1]
      BY <2>6
    <2>10. 1 \in 1 .. c + 1 /\ g[1] = m
      BY <2>6
    <2>11. g \in [1 .. c + 1 -> T]
      <3>1. ASSUME NEW k \in 1 .. c + 1, k # 1 PROVE u[k - 1] \in T
        <4>1. k - 1 \in 1 .. c
          BY <2>6, <3>1
        <4>. QED  BY <2>8, <4>1
      <3>. QED  BY <2>5, <3>1
    <2>12. ASSUME NEW n \in T PROVE \E k \in 1 .. c + 1 : g[k] = n
      <3>1. CASE n = m
        BY <2>10, <3>1
      <3>2. CASE n # m
        <4>1. PICK k \in 1 .. c : u[k] = n
          BY <2>8, <3>2
        <4>2. k + 1 \in 2 .. c + 1 /\ k + 1 \in 1 .. c + 1 /\ (k + 1) - 1 = k
          BY <2>6
        <4>. QED  BY <2>9, <4>1, <4>2
      <3>. QED  BY <3>1, <3>2
    <2>13. ASSUME NEW j \in 1 .. c + 1, NEW k \in 1 .. c + 1, j < k PROVE Before(g[j], g[k])
      <3>1. k \in 2 .. c + 1 /\ k - 1 \in 1 .. c /\ g[k] = u[k - 1]
        BY <2>6, <2>9, <2>13
      <3>2. CASE j = 1
        BY <2>5, <2>8, <2>10, <3>1, <3>2
      <3>3. CASE j # 1
        <4>1. j \in 2 .. c + 1 /\ j - 1 \in 1 .. c /\ g[j] = u[j - 1] /\ j - 1 < k - 1
          BY <2>6, <2>9, <2>13, <3>3
        <4>. QED  BY <2>8, <3>1, <4>1
      <3>. QED  BY <3>2, <3>3
    <2>14. Ascending(g, T)
      <3>. HIDE DEF g, c
      <3>. QED  BY <2>6, <2>11, <2>12, <2>13 DEF Ascending
    <2>. QED  BY <2>3, <2>14
  <1>. QED  BY <1>1

\* The list that is chosen is one of them.
LEMMA SortedIsSorted ==
    ASSUME NEW S \in SUBSET Seq(Nat), IsFiniteSet(S)
    PROVE  Ascending(Sorted(S), S)
  <1>1. PICK list : Ascending(list, S)
    BY SortedExists
  <1>2. ASSUME NEW l \in [1 .. Cardinality(S) -> S]
        PROVE  (Range(l) = S /\ \A j, k \in DOMAIN l : j < k => Before(l[j], l[k])) <=> Ascending(l, S)
    BY DEF Ascending, Range
  <1>3. list \in [1 .. Cardinality(S) -> S]
    BY <1>1 DEF Ascending
  <1>. QED  BY <1>1, <1>2, <1>3 DEF Sorted

-----------------------------------------------------------------------------
(* The lines of a call *)

\* The lines are those of these names, in order.
LinesOf(record, lined, names, lines) ==
    /\ names \in [1 .. Len(lines) -> lined]
    /\ \A k \in 1 .. Len(lines) : lines[k] = Format(record[names[k]].checksum, names[k])
    /\ \A j, k \in 1 .. Len(lines) : j < k => Before(names[j], names[k])

\* The list is sorted, comes after the first m names, and has what of the lines
\* is not theirs.
Rest(selected, lined, m, names, list) ==
    /\ list \in Seq(selected)
    /\ \A j, k \in 1 .. Len(list) : j < k => Before(list[j], list[k])
    /\ \A k \in 1 .. m, j \in 1 .. Len(list) : Before(names[k], list[j])
    /\ \A n \in lined : \/ \E k \in 1 .. m : names[k] = n
                        \/ \E j \in 1 .. Len(list) : list[j] = n

\* The next name of the list leaves it.
LEMMA RestShrinks ==
    ASSUME NEW selected, NEW lined, NEW m \in Nat, NEW names, NEW list, NEW head, NEW tail,
           Rest(selected, lined, m, names, list), list # <<>>, head = Head(list), tail = Tail(list)
    PROVE  /\ head \in selected
           /\ Rest(selected, lined \ {head}, m, names, tail)
           /\ \A j \in 1 .. Len(tail) : Before(head, tail[j])
           /\ \A k \in 1 .. m : Before(names[k], head)
  <1>1. list \in Seq(selected)
    BY DEF Rest
  <1>2. PICK l \in Nat : l = Len(tail) /\ Len(list) = l + 1
    <2>1. Len(list) \in Nat \ {0}
      BY <1>1, EmptySeq
    <2>2. Len(tail) = Len(list) - 1
      BY <1>1, HeadTailProperties
    <2>3. PICK c \in Nat \ {0} : c = Len(list)
      BY <2>1
    <2>4. c - 1 \in Nat /\ c = (c - 1) + 1
      OBVIOUS
    <2>. QED  BY <2>2, <2>3, <2>4
  <1>3. head = list[1] /\ \A j \in 1 .. l : tail[j] = list[j + 1]
    BY <1>1, <1>2, HeadTailProperties
  <1>4. head \in selected /\ tail \in Seq(selected)
    BY <1>1, HeadTailProperties
  <1>5. 1 \in 1 .. l + 1 /\ \A j \in 1 .. l : j + 1 \in 1 .. l + 1 /\ 1 < j + 1
    BY <1>2
  <1>6. /\ \A j, k \in 1 .. l + 1 : j < k => Before(list[j], list[k])
        /\ \A k \in 1 .. m, j \in 1 .. l + 1 : Before(names[k], list[j])
        /\ \A n \in lined : (\E k \in 1 .. m : names[k] = n) \/ (\E j \in 1 .. l + 1 : list[j] = n)
    BY <1>2 DEF Rest
  <1>7. ASSUME NEW j \in 1 .. l, NEW k \in 1 .. l, j < k PROVE Before(tail[j], tail[k])
    <2>1. j + 1 < k + 1
      BY <1>7
    <2>. QED  BY <1>3, <1>5, <1>6, <2>1
  <1>8. ASSUME NEW n \in lined \ {head}, ~ \E k \in 1 .. m : names[k] = n
        PROVE  \E j \in 1 .. l : tail[j] = n
    <2>1. PICK j \in 1 .. l + 1 : list[j] = n
      BY <1>6, <1>8
    <2>2. j # 1
      BY <1>3, <1>8, <2>1
    <2>3. j - 1 \in 1 .. l /\ (j - 1) + 1 = j
      BY <2>2
    <2>. QED  BY <1>3, <2>1, <2>3
  <1>9. \A j \in 1 .. l : Before(head, tail[j])
    BY <1>3, <1>5, <1>6
  <1>10. \A k \in 1 .. m : Before(names[k], head) /\ \A j \in 1 .. l : Before(names[k], tail[j])
    BY <1>3, <1>5, <1>6
  <1>11. Rest(selected, lined \ {head}, m, names, tail)
    BY <1>2, <1>4, <1>7, <1>8, <1>10 DEF Rest
  <1>. QED  BY <1>2, <1>4, <1>9, <1>10, <1>11

\* A name without a line is passed over.
LEMMA NoLine ==
    ASSUME NEW selected, NEW lined, NEW m \in Nat, NEW names, NEW list,
           Rest(selected, lined, m, names, list), list # <<>>, Head(list) \notin lined
    PROVE  Rest(selected, lined, m, names, Tail(list))
  <1>1. Rest(selected, lined \ {Head(list)}, m, names, Tail(list))
    BY RestShrinks
  <1>2. lined \ {Head(list)} = lined
    OBVIOUS
  <1>. QED  BY <1>1, <1>2

\* A name with a line adds it.
LEMMA NextLine ==
    ASSUME NEW record, NEW selected, NEW lined, NEW names, NEW lines \in Seq(Seq(Nat)), NEW list,
           LinesOf(record, lined, names, lines), Rest(selected, lined, Len(lines), names, list),
           list # <<>>, Head(list) \in lined,
           Format(record[Head(list)].checksum, Head(list)) \in Seq(Nat)
    PROVE  \E new : /\ LinesOf(record, lined, new,
                               Append(lines, Format(record[Head(list)].checksum, Head(list))))
                    /\ Rest(selected, lined, Len(lines) + 1, new, Tail(list))
  <1>1. PICK m \in Nat : m = Len(lines)
    BY LenProperties
  <1>. DEFINE h == Head(list)
              line == Format(record[h].checksum, h)
              more == Append(lines, line)
              new == [k \in 1 .. m + 1 |-> IF k = m + 1 THEN h ELSE names[k]]
  <1>2. Len(more) = m + 1 /\ more[m + 1] = line /\ \A k \in 1 .. m : more[k] = lines[k]
    BY <1>1, AppendProperties
  <1>3. /\ names \in [1 .. m -> lined]
        /\ \A k \in 1 .. m : lines[k] = Format(record[names[k]].checksum, names[k])
        /\ \A j, k \in 1 .. m : j < k => Before(names[j], names[k])
    BY <1>1 DEF LinesOf
  <1>4. m + 1 \in 1 .. m + 1 /\ new[m + 1] = h
    OBVIOUS
  <1>5. \A k \in 1 .. m : k \in 1 .. m + 1 /\ k # m + 1 /\ new[k] = names[k]
    OBVIOUS
  <1>6. \A k \in 1 .. m + 1 : k = m + 1 \/ k \in 1 .. m
    OBVIOUS
  <1>7. new \in [1 .. m + 1 -> lined]
    BY <1>3, <1>6
  <1>. HIDE DEF new, more, h, line
  <1>h. h = Head(list)
    BY DEF h
  <1>s. Rest(selected, lined \ {h}, m, names, Tail(list))
    <2>1. Rest(selected, lined, m, names, list)
      BY <1>1
    <2>. QED  BY <1>h, <2>1, RestShrinks
  <1>t. /\ \A j \in 1 .. Len(Tail(list)) : Before(h, Tail(list)[j])
        /\ \A k \in 1 .. m : Before(names[k], h)
    <2>1. Rest(selected, lined, m, names, list)
      BY <1>1
    <2>. QED  BY <1>h, <2>1, RestShrinks
  <1>r. /\ Tail(list) \in Seq(selected)
        /\ \A j, k \in 1 .. Len(Tail(list)) : j < k => Before(Tail(list)[j], Tail(list)[k])
        /\ \A k \in 1 .. m, j \in 1 .. Len(Tail(list)) : Before(names[k], Tail(list)[j])
        /\ \A n \in lined : \/ n = h
                            \/ \E k \in 1 .. m : names[k] = n
                            \/ \E j \in 1 .. Len(Tail(list)) : Tail(list)[j] = n
    BY <1>s DEF Rest
  <1>8. ASSUME NEW k \in 1 .. m + 1 PROVE more[k] = Format(record[new[k]].checksum, new[k])
    <2>1. CASE k = m + 1
      BY <1>2, <1>4, <2>1 DEF line
    <2>2. CASE k \in 1 .. m
      BY <1>2, <1>3, <1>5, <2>2
    <2>. QED  BY <1>6, <2>1, <2>2
  <1>9. ASSUME NEW j \in 1 .. m + 1, NEW k \in 1 .. m + 1, j < k PROVE Before(new[j], new[k])
    <2>1. j \in 1 .. m /\ new[j] = names[j]
      BY <1>5, <1>9
    <2>2. CASE k = m + 1
      BY <1>4, <1>t, <2>1, <2>2
    <2>3. CASE k \in 1 .. m
      BY <1>3, <1>5, <1>9, <2>1, <2>3
    <2>. QED  BY <1>6, <2>2, <2>3
  <1>10. LinesOf(record, lined, new, more)
    BY <1>2, <1>7, <1>8, <1>9 DEF LinesOf
  <1>11. ASSUME NEW k \in 1 .. m + 1, NEW j \in 1 .. Len(Tail(list)) PROVE Before(new[k], Tail(list)[j])
    BY <1>4, <1>5, <1>6, <1>r, <1>t
  <1>12. ASSUME NEW n \in lined
         PROVE  (\E k \in 1 .. m + 1 : new[k] = n) \/ (\E j \in 1 .. Len(Tail(list)) : Tail(list)[j] = n)
    BY <1>4, <1>5, <1>r
  <1>13. Rest(selected, lined, m + 1, new, Tail(list))
    BY <1>11, <1>12, <1>r DEF Rest
  <1>. QED  BY <1>1, <1>10, <1>13 DEF more, line, h

-----------------------------------------------------------------------------
(* Types, and the lines of the file *)

Flags == cancelled \in BOOLEAN /\ aborted \in BOOLEAN /\ io_error \in BOOLEAN /\ requested \in BOOLEAN

Entries == entry \in [Names -> [status   : {"VERIFIED", "COPIED", "VERIFICATION_FAILED"},
                                checksum : Sums \cup {NULL}]]

Places ==
    /\ foreign \subseteq Candidates
    /\ checksum_file \in Candidates \cup {NULL}
    /\ pc \in {"idle", "reset", "open", "write", "close", "restore", "dead"}
    /\ i \in 0 .. MAX_CHECKSUM_FILE_RETRIES + 1
    /\ calls \in 0 .. MaxCalls

Texts == todo \in Seq(Names) /\ wrote \in Seq(Seq(Nat))

\* Every line is for a name that has one.
LinesMean == \A k \in 1 .. Len(wrote) : \E n \in Lines : wrote[k] = Format(entry[n].checksum, n)

\* So is every line that earlier calls left, but for those that begin with a
\* piece of another; a call adds at most one of them, or a piece at the end.
Left ==
    /\ contents \in Seq(Seq(Nat)) /\ torn \in Seq(Nat) /\ stump \in Seq(Nat)
    /\ spoilt \subseteq DOMAIN contents /\ IsFiniteSet(spoilt)
    /\ \A k \in DOMAIN contents \ spoilt : \E n \in Lines : contents[k] = Format(entry[n].checksum, n)
    /\ calls = 0 => pc = "idle" /\ wrote = <<>> /\ stump = <<>> /\ torn = <<>> /\ spoilt = {}
    /\ calls # 0 => Cardinality(spoilt) + Cardinality({torn} \ {<<>>}) <= calls - 1

\* While the file is written, what is written and what is left add up to a line
\* for every name that has one; and when nothing went wrong, nothing is left.
WriteInv ==
    /\ pc \in {"reset", "open"} => wrote = <<>>
    /\ pc = "write" =>
          \E names : LinesOf(entry, Lines, names, wrote) /\ Rest(Selected, Lines, Len(wrote), names, todo)
    /\ pc \in {"close", "restore"} =>
          \/ io_error \/ cancelled
          \/ \E names : LinesOf(entry, Lines, names, wrote) /\ Rest(Selected, Lines, Len(wrote), names, <<>>)

\* The names are strings, and finitely many.
LEMMA NamesType ==
    /\ Names \subseteq Seq(Nat) /\ IsFiniteSet(Names)
    /\ \A n \in Names : Plain(n)
    /\ Lines \subseteq Names /\ Selected \subseteq Names /\ Lines \subseteq Selected
  BY ChecksumFileAssumption DEF ChecksumFileAssumption, Lines, Selected

\* A line is a string.
LEMMA FormatType ==
    ASSUME Entries, NEW n \in Names, entry[n].checksum # NULL
    PROVE  entry[n].checksum \in Sums /\ Format(entry[n].checksum, n) \in Seq(Nat)
  <1>1. entry[n].checksum \in Sums
    BY DEF Entries
  <1>2. entry[n].checksum \in Seq(Nat) /\ n \in Seq(Nat)
    BY <1>1, ChecksumFileAssumption, NamesType DEF ChecksumFileAssumption
  <1>3. <<SPACE, SPACE>> \in Seq(Nat)
    BY DEF SPACE
  <1>4. \A s, t \in Seq(Nat) : s \o t \in Seq(Nat)
    BY ConcatProperties
  <1>. QED  BY <1>1, <1>2, <1>3, <1>4 DEF Format

\* At the start all the lines are left, sorted.
LEMMA RestAtFirst ==
    /\ SortedList \in Seq(Names)
    /\ \E names : LinesOf(entry, Lines, names, <<>>) /\ Rest(Selected, Lines, Len(<<>>), names, SortedList)
  <1>1. Selected \in SUBSET Seq(Nat) /\ IsFiniteSet(Selected)
    BY NamesType, FS_Subset
  <1>2. Ascending(SortedList, Selected)
    BY <1>1, SortedIsSorted DEF SortedList
  <1>3. PICK c \in Nat : c = Cardinality(Selected)
    BY <1>1, FS_CardinalityType
  <1>4. /\ SortedList \in [1 .. c -> Selected]
        /\ \A n \in Selected : \E k \in 1 .. c : SortedList[k] = n
        /\ \A j, k \in 1 .. c : j < k => Before(SortedList[j], SortedList[k])
    BY <1>2, <1>3 DEF Ascending
  <1>5. SortedList \in Seq(Selected) /\ Len(SortedList) = c
    <2>1. SortedList \in UNION {[1 .. n -> Selected] : n \in Nat}
      BY <1>4
    <2>2. SortedList \in Seq(Selected)
      BY <2>1, SeqDef
    <2>3. DOMAIN SortedList = 1 .. c /\ DOMAIN SortedList = 1 .. Len(SortedList) /\ Len(SortedList) \in Nat
      BY <1>4, <2>2, LenProperties
    <2>. QED  BY <2>2, <2>3
  <1>6. SortedList \in Seq(Names)
    BY <1>5, NamesType, SeqMonotonic
  <1>7. Rest(Selected, Lines, 0, [k \in 1 .. 0 |-> 0], SortedList)
    <2>. HIDE DEF SortedList
    <2>1. \A n \in Lines : \E k \in 1 .. c : SortedList[k] = n
      BY <1>4, NamesType
    <2>. QED  BY <1>4, <1>5, <2>1 DEF Rest
  <1>8. LinesOf(entry, Lines, [k \in 1 .. 0 |-> 0], <<>>)
    BY DEF LinesOf
  <1>9. Len(<<>>) = 0
    OBVIOUS
  <1>. QED  BY <1>6, <1>7, <1>8, <1>9

\* The next name is written, or passed over.
LEMMA RestGoesOn ==
    ASSUME Entries, Texts, todo # <<>>,
           NEW names, LinesOf(entry, Lines, names, wrote), Rest(Selected, Lines, Len(wrote), names, todo)
    PROVE  /\ Head(todo) \in Names
           /\ entry[Head(todo)].checksum = NULL => Rest(Selected, Lines, Len(wrote), names, Tail(todo))
           /\ entry[Head(todo)].checksum # NULL =>
                 LET line == Format(entry[Head(todo)].checksum, Head(todo))
                 IN  /\ Head(todo) \in Lines
                     /\ Append(wrote, line) \in Seq(Seq(Nat))
                     /\ \E new : /\ LinesOf(entry, Lines, new, Append(wrote, line))
                                 /\ Rest(Selected, Lines, Len(Append(wrote, line)), new, Tail(todo))
  <1>1. Head(todo) \in Selected
    <2>1. todo \in Seq(Selected)
      BY DEF Rest
    <2>. QED  BY <2>1, HeadTailProperties
  <1>2. Head(todo) \in Names
    BY <1>1, NamesType
  <1>3. Len(wrote) \in Nat
    BY LenProperties DEF Texts
  <1>4. ASSUME entry[Head(todo)].checksum = NULL PROVE Rest(Selected, Lines, Len(wrote), names, Tail(todo))
    <2>1. Head(todo) \notin Lines
      BY <1>4 DEF Lines
    <2>. QED  BY <1>3, <2>1, NoLine
  <1>. DEFINE line == Format(entry[Head(todo)].checksum, Head(todo))
  <1>5. ASSUME entry[Head(todo)].checksum # NULL
        PROVE  /\ Head(todo) \in Lines
               /\ Append(wrote, line) \in Seq(Seq(Nat))
               /\ \E new : /\ LinesOf(entry, Lines, new, Append(wrote, line))
                           /\ Rest(Selected, Lines, Len(Append(wrote, line)), new, Tail(todo))
    <2>1. Head(todo) \in Lines
      BY <1>1, <1>5 DEF Lines
    <2>2. line \in Seq(Nat)
      BY <1>2, <1>5, FormatType
    <2>3. Append(wrote, line) \in Seq(Seq(Nat)) /\ Len(Append(wrote, line)) = Len(wrote) + 1
      <3>. HIDE DEF line
      <3>. QED  BY <2>2, AppendProperties DEF Texts
    <2>4. \E new : /\ LinesOf(entry, Lines, new, Append(wrote, line))
                   /\ Rest(Selected, Lines, Len(wrote) + 1, new, Tail(todo))
      BY <2>1, <2>2, NextLine DEF Texts
    <2>. QED  BY <2>1, <2>3, <2>4
  <1>. QED  BY <1>2, <1>4, <1>5

\* Flags, and where the call is.
LEMMA PlacesStep == Flags /\ Places /\ [Next]_vars => Flags' /\ Places'
  <1>. SUFFICES ASSUME Flags, Places, [Next]_vars PROVE Flags' /\ Places'
    OBVIOUS
  <1>1. MAX_CHECKSUM_FILE_RETRIES \in Nat /\ MaxCalls \in Nat
    BY ChecksumFileAssumption DEF ChecksumFileAssumption
  <1>2. Flags'
    BY DEF Flags, Next, Step, vars, Cancel, OtherCreates, Call, Reset, AppendTo, Create, Exists, OpenFails,
       WriteLine, SkipLine, WriteFails, Written, Close, Restore
  <1>3. (pc \in {"idle", "reset", "open", "write", "close", "restore", "dead"})'
    BY DEF Places, Goto, Next, Step, vars, Cancel, OtherCreates, Call, Reset, AppendTo, Create, Exists, OpenFails,
       WriteLine, SkipLine, WriteFails, Written, Close, Restore, Opened
  <1>4. (foreign \subseteq Candidates /\ checksum_file \in Candidates \cup {NULL})'
    BY DEF Places, Next, Step, vars, Cancel, OtherCreates, Call, Reset, AppendTo, Create, Exists, OpenFails,
       WriteLine, SkipLine, WriteFails, Written, Close, Restore
  <1>5. (i \in 0 .. MAX_CHECKSUM_FILE_RETRIES + 1 /\ calls \in 0 .. MaxCalls)'
    <2>1. CASE Call
      BY <1>1, <2>1 DEF Places, Call
    <2>2. CASE Exists
      BY <1>1, <2>2 DEF Places, Exists, Candidates
    <2>3. CASE ~Call /\ ~Exists
      <3>1. UNCHANGED <<i, calls>>
        BY <2>3 DEF Next, Step, vars, Cancel, OtherCreates, Reset, AppendTo, Create, OpenFails,
           WriteLine, SkipLine, WriteFails, Written, Close, Restore
      <3>. QED  BY <3>1 DEF Places
    <2>. QED  BY <2>1, <2>2, <2>3
  <1>. QED  BY <1>2, <1>3, <1>4, <1>5 DEF Places

\* The records of the files do not change meanwhile.
LEMMA EntriesStep == [Next]_vars => entry' = entry /\ Lines' = Lines /\ Selected' = Selected
  <1>1. [Next]_vars => entry' = entry
    BY DEF Next, Step, vars, Cancel, OtherCreates, Call, Reset, AppendTo, Create, Exists, OpenFails,
       WriteLine, SkipLine, WriteFails, Written, Close, Restore
  <1>2. entry' = entry => Selected' = Selected
    BY DEF Selected
  <1>3. entry' = entry /\ Selected' = Selected => Lines' = Lines
    BY DEF Lines
  <1>. QED  BY <1>1, <1>2, <1>3

\* Each line that is added is for the next name of the list.
LEMMA LinesStep ==
    Entries /\ Texts /\ LinesMean /\ WriteInv /\ [Next]_vars => Texts' /\ LinesMean' /\ WriteInv'
  <1>. SUFFICES ASSUME Entries, Texts, LinesMean, WriteInv, [Next]_vars
                PROVE  Texts' /\ LinesMean' /\ WriteInv'
    OBVIOUS
  <1>e. entry' = entry /\ Lines' = Lines /\ Selected' = Selected
    BY EntriesStep
  <1>s. ASSUME UNCHANGED <<todo, wrote>> PROVE Texts' /\ LinesMean'
    BY <1>e, <1>s DEF Texts, LinesMean
  <1>1. CASE Cancel
    <2>1. WriteInv'
      BY <1>1, <1>e DEF Cancel, WriteInv
    <2>. QED  BY <1>1, <1>s, <2>1 DEF Cancel
  <1>2. ASSUME NEW c \in Candidates, OtherCreates(c) PROVE Texts' /\ LinesMean' /\ WriteInv'
    <2>1. WriteInv'
      BY <1>2, <1>e DEF OtherCreates, WriteInv
    <2>. QED  BY <1>2, <1>s, <2>1 DEF OtherCreates
  <1>3. CASE Call
    <2>1. wrote' = <<>> /\ todo' = todo /\ pc' \in {"reset", "open"}
      BY <1>3 DEF Call, Goto
    <2>2. Texts' /\ LinesMean'
      BY <2>1 DEF Texts, LinesMean
    <2>3. WriteInv'
      BY <2>1 DEF WriteInv
    <2>. QED  BY <2>2, <2>3
  <1>4. CASE Reset
    <2>1. WriteInv'
      BY <1>4, <1>e DEF Reset, WriteInv, Goto
    <2>. QED  BY <1>4, <1>s, <2>1 DEF Reset
  <1>5. CASE AppendTo \/ Create
    <2>1. wrote = <<>> /\ wrote' = wrote /\ todo' = SortedList /\ pc' = "write"
      BY <1>5 DEF AppendTo, Create, Opened, Goto, WriteInv
    <2>2. Texts' /\ LinesMean'
      BY <2>1, <1>e, RestAtFirst DEF Texts, LinesMean
    <2>3. WriteInv'
      BY <2>1, <1>e, RestAtFirst DEF WriteInv
    <2>. QED  BY <2>2, <2>3
  <1>6. CASE Exists
    <2>1. WriteInv'
      BY <1>6, <1>e DEF Exists, WriteInv
    <2>. QED  BY <1>6, <1>s, <2>1 DEF Exists
  <1>7. CASE OpenFails
    <2>1. pc' = "restore" /\ UNCHANGED <<todo, wrote>>
      BY <1>7 DEF OpenFails, Goto
    <2>2. io_error' \/ cancelled'
      BY <1>7 DEF OpenFails
    <2>3. WriteInv'
      BY <2>1, <2>2 DEF WriteInv
    <2>. QED  BY <1>s, <2>1, <2>3
  <1>8. CASE WriteLine \/ SkipLine
    <2>1. pc = "write" /\ pc' = "write" /\ todo # <<>> /\ todo' = Tail(todo)
      BY <1>8 DEF WriteLine, SkipLine
    <2>2. PICK names : LinesOf(entry, Lines, names, wrote) /\ Rest(Selected, Lines, Len(wrote), names, todo)
      BY <2>1 DEF WriteInv
    <2>3. todo' \in Seq(Names)
      BY <2>1, HeadTailProperties DEF Texts
    <2>4. CASE SkipLine
      <3>1. wrote' = wrote /\ entry[Head(todo)].checksum = NULL
        BY <2>4 DEF SkipLine
      <3>2. Rest(Selected, Lines, Len(wrote), names, Tail(todo))
        BY <2>1, <2>2, <3>1, RestGoesOn
      <3>3. WriteInv'
        BY <1>e, <2>1, <2>2, <3>1, <3>2 DEF WriteInv
      <3>4. Texts' /\ LinesMean'
        BY <1>e, <2>3, <3>1 DEF Texts, LinesMean
      <3>. QED  BY <3>3, <3>4
    <2>5. CASE WriteLine
      <3>. DEFINE line == Format(entry[Head(todo)].checksum, Head(todo))
      <3>1. wrote' = Append(wrote, line) /\ entry[Head(todo)].checksum # NULL
        BY <2>5 DEF WriteLine
      <3>2. /\ Head(todo) \in Lines /\ wrote' \in Seq(Seq(Nat)) /\ line \in Seq(Nat)
            /\ \E new : /\ LinesOf(entry, Lines, new, wrote')
                        /\ Rest(Selected, Lines, Len(wrote'), new, Tail(todo))
        BY <2>1, <2>2, <3>1, RestGoesOn, FormatType
      <3>3. WriteInv'
        BY <1>e, <2>1, <3>2 DEF WriteInv
      <3>4. LinesMean'
        <4>1. PICK m \in Nat : m = Len(wrote)
          BY LenProperties DEF Texts
        <4>2. Len(wrote') = m + 1 /\ wrote'[m + 1] = line /\ \A k \in 1 .. m : wrote'[k] = wrote[k]
          <5>. HIDE DEF line
          <5>. QED  BY <3>1, <3>2, <4>1, AppendProperties DEF Texts
        <4>3. ASSUME NEW k \in 1 .. m + 1 PROVE \E n \in Lines : wrote'[k] = Format(entry[n].checksum, n)
          <5>1. CASE k = m + 1
            BY <3>2, <4>2, <5>1
          <5>2. CASE k # m + 1
            <6>1. k \in 1 .. m
              BY <5>2
            <6>. QED  BY <4>1, <4>2, <6>1 DEF LinesMean
          <5>. QED  BY <5>1, <5>2
        <4>. QED  BY <1>e, <4>2, <4>3 DEF LinesMean
      <3>. QED  BY <2>3, <3>2, <3>3, <3>4 DEF Texts
    <2>. QED  BY <1>8, <2>4, <2>5
  <1>9. CASE WriteFails
    <2>1. pc' \in {"close", "dead"} /\ UNCHANGED <<todo, wrote>>
      BY <1>9 DEF WriteFails
    <2>2. io_error' \/ cancelled'
      BY <1>9 DEF WriteFails
    <2>3. WriteInv'
      BY <2>1, <2>2 DEF WriteInv
    <2>. QED  BY <1>s, <2>1, <2>3
  <1>10. CASE Written
    <2>1. WriteInv'
      BY <1>10, <1>e DEF Written, WriteInv, Goto
    <2>. QED  BY <1>10, <1>s, <2>1 DEF Written
  <1>11. CASE Close
    <2>1. io_error' = io_error \/ io_error' = (io_error \/ ~cancelled)
      BY <1>11 DEF Close
    <2>2. (io_error \/ cancelled) => (io_error' \/ cancelled')
      BY <1>11, <2>1 DEF Close
    <2>3. pc = "close" /\ pc' = "restore" /\ UNCHANGED <<todo, wrote>>
      BY <1>11 DEF Close, Goto
    <2>4. WriteInv'
      BY <1>e, <2>2, <2>3 DEF WriteInv
    <2>. QED  BY <1>s, <2>3, <2>4
  <1>12. CASE Restore
    <2>1. WriteInv'
      BY <1>12 DEF Restore, WriteInv, Goto
    <2>. QED  BY <1>12, <1>s, <2>1 DEF Restore
  <1>13. CASE UNCHANGED vars
    <2>1. WriteInv'
      BY <1>13, <1>e DEF vars, WriteInv
    <2>. QED  BY <1>13, <1>s, <2>1 DEF vars
  <1>. QED  BY <1>1, <1>2, <1>3, <1>4, <1>5, <1>6, <1>7, <1>8, <1>9, <1>10, <1>11, <1>12, <1>13 DEF Next, Step

-----------------------------------------------------------------------------
(* What earlier calls have left *)

\* The lines of the file are those of earlier calls and those of this one, the
\* first of which has the torn piece in front of it.
LEMMA FileLinesAre ==
    ASSUME Texts, contents \in Seq(Seq(Nat)), torn \in Seq(Nat)
    PROVE  /\ FileLines \in Seq(Seq(Nat)) /\ Len(FileLines) = Len(contents) + Len(wrote)
           /\ \A k \in 1 .. Len(contents) : FileLines[k] = contents[k]
           /\ \A k \in 1 .. Len(wrote) :
                 FileLines[Len(contents) + k] = IF k = 1 THEN torn \o wrote[1] ELSE wrote[k]
  <1>1. PICK m \in Nat, n \in Nat : m = Len(contents) /\ n = Len(wrote)
    BY LenProperties DEF Texts
  <1>. DEFINE added == IF wrote = <<>> THEN <<>> ELSE <<torn \o Head(wrote)>> \o Tail(wrote)
  <1>2. /\ added \in Seq(Seq(Nat)) /\ Len(added) = n
        /\ \A k \in 1 .. n : added[k] = IF k = 1 THEN torn \o wrote[1] ELSE wrote[k]
    <2>1. CASE wrote = <<>>
      <3>1. added = <<>> /\ n = 0
        BY <1>1, <2>1
      <3>. QED  BY <3>1
    <2>2. CASE wrote # <<>>
      <3>1. PICK l \in Nat : n = l + 1
        <4>1. n \in Nat \ {0}
          BY <1>1, <2>2, EmptySeq DEF Texts
        <4>2. n - 1 \in Nat /\ n = (n - 1) + 1
          BY <4>1
        <4>. QED  BY <4>2
      <3>2. /\ Head(wrote) \in Seq(Nat) /\ Head(wrote) = wrote[1]
            /\ Tail(wrote) \in Seq(Seq(Nat)) /\ Len(Tail(wrote)) = l
            /\ \A k \in 1 .. l : Tail(wrote)[k] = wrote[k + 1]
        <4>1. Len(Tail(wrote)) = Len(wrote) - 1 /\ \A k \in 1 .. Len(wrote) - 1 : Tail(wrote)[k] = wrote[k + 1]
          BY <2>2, HeadTailProperties DEF Texts
        <4>2. Len(wrote) - 1 = l
          BY <1>1, <3>1
        <4>3. Head(wrote) \in Seq(Nat) /\ Tail(wrote) \in Seq(Seq(Nat))
          BY <2>2, HeadTailProperties DEF Texts
        <4>4. Head(wrote) = wrote[1]
          OBVIOUS
        <4>. QED  BY <4>1, <4>2, <4>3, <4>4
      <3>. DEFINE first == torn \o Head(wrote)
      <3>3. first \in Seq(Nat)
        BY <3>2, ConcatProperties
      <3>4. <<first>> \in Seq(Seq(Nat)) /\ Len(<<first>>) = 1 /\ <<first>>[1] = first
        <4>. HIDE DEF first
        <4>. QED  BY <3>3
      <3>5. added = <<first>> \o Tail(wrote)
        BY <2>2
      <3>6. /\ added \in Seq(Seq(Nat)) /\ Len(added) = 1 + l
            /\ \A k \in 1 .. 1 + l : added[k] = IF k <= 1 THEN <<first>>[k] ELSE Tail(wrote)[k - 1]
        <4>1. PICK one, more : one = <<first>> /\ more = Tail(wrote)
          OBVIOUS
        <4>. HIDE DEF added, first
        <4>2. /\ one \in Seq(Seq(Nat)) /\ Len(one) = 1
              /\ more \in Seq(Seq(Nat)) /\ Len(more) = l
          BY <3>2, <3>4, <4>1
        <4>3. /\ one \o more \in Seq(Seq(Nat)) /\ Len(one \o more) = Len(one) + Len(more)
              /\ \A k \in 1 .. Len(one) + Len(more) :
                    (one \o more)[k] = IF k <= Len(one) THEN one[k] ELSE more[k - Len(one)]
          BY <4>2, ConcatProperties
        <4>4. /\ one \o more \in Seq(Seq(Nat)) /\ Len(one \o more) = 1 + l
              /\ \A k \in 1 .. 1 + l : (one \o more)[k] = IF k <= 1 THEN one[k] ELSE more[k - 1]
          BY <4>2, <4>3
        <4>5. added = one \o more
          BY <3>5, <4>1
        <4>. QED  BY <4>1, <4>4, <4>5
      <3>7. ASSUME NEW k \in 1 .. n PROVE added[k] = IF k = 1 THEN torn \o wrote[1] ELSE wrote[k]
        <4>1. k \in 1 .. 1 + l
          BY <3>1
        <4>2. CASE k = 1
          <5>1. added[k] = first
            BY <3>4, <3>6, <4>1, <4>2
          <5>. QED  BY <3>2, <4>2, <5>1
        <4>3. CASE k # 1
          <5>1. k - 1 \in 1 .. l /\ (k - 1) + 1 = k /\ ~(k <= 1)
            BY <4>1, <4>3
          <5>2. added[k] = Tail(wrote)[k - 1]
            <6>. HIDE DEF added, first
            <6>. QED  BY <3>6, <4>1, <5>1
          <5>3. Tail(wrote)[k - 1] = wrote[k]
            BY <3>2, <5>1
          <5>. QED  BY <4>3, <5>2, <5>3
        <4>. QED  BY <4>2, <4>3
      <3>8. n = 1 + l
        BY <3>1
      <3>. QED  BY <3>6, <3>7, <3>8
    <2>. QED  BY <2>1, <2>2
  <1>. HIDE DEF added
  <1>3. /\ contents \o added \in Seq(Seq(Nat)) /\ Len(contents \o added) = m + n
        /\ \A k \in 1 .. m + n : (contents \o added)[k] = IF k <= m THEN contents[k] ELSE added[k - m]
    <2>1. /\ contents \o added \in Seq(Seq(Nat))
          /\ Len(contents \o added) = Len(contents) + Len(added)
          /\ \A k \in 1 .. Len(contents) + Len(added) :
                (contents \o added)[k] = IF k <= Len(contents) THEN contents[k] ELSE added[k - Len(contents)]
      BY <1>2, ConcatProperties
    <2>. QED  BY <1>1, <1>2, <2>1
  <1>4. FileLines = contents \o added
    BY DEF FileLines, added
  <1>5. \A k \in 1 .. m : k \in 1 .. m + n /\ k <= m
    OBVIOUS
  <1>6. \A k \in 1 .. n : m + k \in 1 .. m + n /\ ~(m + k <= m) /\ (m + k) - m = k
    OBVIOUS
  <1>7. \A k \in 1 .. n : (contents \o added)[m + k] = added[k]
    BY <1>3, <1>6
  <1>. QED  BY <1>1, <1>2, <1>3, <1>4, <1>5, <1>7

\* A line that is not spoilt was put together by Format.
LEMMA FileLinesMean ==
    ASSUME Texts, LinesMean, Left, NEW k \in DOMAIN FileLines \ Spoilt
    PROVE  \E n \in Lines : FileLines[k] = Format(entry[n].checksum, n)
  <1>1. PICK m \in Nat, l \in Nat : m = Len(contents) /\ l = Len(wrote)
    BY LenProperties DEF Texts, Left
  <1>2. /\ DOMAIN FileLines = 1 .. m + l
        /\ \A j \in 1 .. m : FileLines[j] = contents[j]
        /\ \A j \in 1 .. l : FileLines[m + j] = IF j = 1 THEN torn \o wrote[1] ELSE wrote[j]
    <2>1. FileLines \in Seq(Seq(Nat)) /\ Len(FileLines) = m + l
      BY <1>1, FileLinesAre DEF Left
    <2>2. DOMAIN FileLines = 1 .. m + l
      BY <2>1, LenProperties
    <2>. QED  BY <1>1, <2>2, FileLinesAre DEF Left
  <1>3. CASE k <= m
    <2>1. k \in 1 .. m /\ DOMAIN contents = 1 .. m
      BY <1>1, <1>2, <1>3, LenProperties DEF Left
    <2>2. k \notin spoilt
      BY DEF Spoilt
    <2>. QED  BY <1>2, <2>1, <2>2 DEF Left
  <1>4. CASE ~(k <= m)
    <2>1. PICK j \in 1 .. l : k = m + j
      <3>1. k - m \in 1 .. l /\ k = m + (k - m)
        BY <1>2, <1>4
      <3>. QED  BY <3>1
    <2>2. FileLines[k] = wrote[j]
      <3>1. CASE j = 1
        <4>1. wrote # <<>> /\ k = Len(contents) + 1
          BY <1>1, <2>1, <3>1
        <4>2. torn = <<>>
          BY <4>1 DEF Spoilt
        <4>3. wrote[1] \in Seq(Nat)
          BY <1>1, <2>1, <3>1, ElementOfSeq DEF Texts
        <4>4. torn \o wrote[1] = wrote[1]
          BY <4>2, <4>3, ConcatEmptySeq
        <4>. QED  BY <1>2, <2>1, <3>1, <4>4
      <3>2. CASE j # 1
        BY <1>2, <2>1, <3>2
      <3>. QED  BY <3>1, <3>2
    <2>. QED  BY <1>1, <2>1, <2>2 DEF LinesMean
  <1>. QED  BY <1>2, <1>3, <1>4

\* The torn piece is part of a line as soon as one is written, and only then is
\* there room for the next.
LEMMA SpoiltCount ==
    ASSUME Texts, Left, calls \in Nat
    PROVE  /\ IsFiniteSet(Spoilt)
           /\ Cardinality(Spoilt) + Cardinality({Remains} \ {<<>>}) \in Nat
           /\ Cardinality(Spoilt) + Cardinality({Remains} \ {<<>>}) <= calls
  <1>p. ASSUME NEW piece PROVE Cardinality({piece} \ {<<>>}) = IF piece = <<>> THEN 0 ELSE 1
    <2>1. CASE piece = <<>>
      <3>1. {piece} \ {<<>>} = {}
        BY <2>1
      <3>. QED  BY <2>1, <3>1, FS_EmptySet
    <2>2. CASE piece # <<>>
      <3>1. {piece} \ {<<>>} = {piece}
        BY <2>2
      <3>. QED  BY <2>2, <3>1, FS_Singleton
    <2>. QED  BY <2>1, <2>2
  <1>. DEFINE P(piece) == Cardinality({piece} \ {<<>>})
  <1>1. \A piece : P(piece) = IF piece = <<>> THEN 0 ELSE 1
    BY <1>p
  <1>2. PICK s \in Nat : s = Cardinality(spoilt)
    BY FS_CardinalityType DEF Left
  <1>3. s + P(torn) + P(stump) <= calls
    <2>1. CASE calls = 0
      <3>1. spoilt = {} /\ torn = <<>> /\ stump = <<>>
        BY <2>1 DEF Left
      <3>2. s = 0
        BY <1>2, <3>1, FS_EmptySet
      <3>3. P(torn) = 0 /\ P(stump) = 0
        BY <1>1, <3>1
      <3>. HIDE DEF P
      <3>. QED  BY <2>1, <3>2, <3>3
    <2>2. CASE calls # 0
      <3>1. s + P(torn) <= calls - 1
        BY <1>2, <2>2 DEF Left
      <3>2. P(torn) \in {0, 1} /\ P(stump) \in {0, 1}
        BY <1>1
      <3>. HIDE DEF P
      <3>. QED  BY <3>1, <3>2
    <2>. QED  BY <2>1, <2>2
  <1>4. CASE wrote # <<>> /\ torn # <<>>
    <2>1. Spoilt = spoilt \cup {Len(contents) + 1}
      BY <1>4 DEF Spoilt
    <2>2. Remains = stump
      <3>1. Remains = <<>> \o stump
        BY <1>4 DEF Remains
      <3>. QED  BY <3>1, ConcatEmptySeq DEF Left
    <2>3. IsFiniteSet(Spoilt) /\ (Cardinality(Spoilt) = s \/ Cardinality(Spoilt) = s + 1)
      BY <1>2, <2>1, FS_AddElement DEF Left
    <2>4. P(torn) = 1 /\ P(stump) \in {0, 1}
      BY <1>1, <1>4
    <2>5. Cardinality(Spoilt) + P(stump) \in Nat /\ Cardinality(Spoilt) + P(stump) <= calls
      <3>. HIDE DEF P
      <3>. QED  BY <1>3, <2>3, <2>4
    <2>. QED  BY <2>2, <2>3, <2>5
  <1>5. CASE ~(wrote # <<>> /\ torn # <<>>)
    <2>1. Spoilt = spoilt
      BY <1>5 DEF Spoilt
    <2>2. P(Remains) <= P(torn) + P(stump) /\ P(Remains) \in Nat
      <3>1. P(torn) \in {0, 1} /\ P(stump) \in {0, 1} /\ P(Remains) \in {0, 1}
        BY <1>1
      <3>2. CASE torn = <<>> /\ stump = <<>>
        <4>1. Remains = <<>> \o <<>>
          BY <3>2 DEF Remains
        <4>2. Remains = <<>>
          BY <4>1
        <4>3. P(Remains) = 0
          BY <1>1, <4>2
        <4>. HIDE DEF P
        <4>. QED  BY <3>1, <4>3
      <3>3. CASE torn # <<>> \/ stump # <<>>
        <4>1. P(torn) = 1 \/ P(stump) = 1
          BY <1>1, <3>3
        <4>. HIDE DEF P
        <4>. QED  BY <3>1, <4>1
      <3>. QED  BY <3>2, <3>3
    <2>3. P(torn) \in {0, 1} /\ P(stump) \in {0, 1}
      BY <1>1
    <2>4. s + P(Remains) \in Nat /\ s + P(Remains) <= calls
      <3>. HIDE DEF P
      <3>. QED  BY <1>3, <2>2, <2>3
    <2>5. IsFiniteSet(spoilt)
      BY DEF Left
    <2>. QED  BY <1>2, <2>1, <2>4, <2>5
  <1>. QED  BY <1>4, <1>5

\* Only a call takes over what the file has, only a failed write leaves a piece.
LEMMA LeftStep ==
    ASSUME Entries, Texts, LinesMean, Left, calls \in Nat, [Next]_vars
    PROVE  Left'
  <1>e. entry' = entry /\ Lines' = Lines
    BY EntriesStep
  <1>1. CASE Call
    <2>1. /\ contents' = FileLines /\ torn' = Remains /\ spoilt' = Spoilt
          /\ stump' = <<>> /\ calls' = calls + 1
      BY <1>1 DEF Call
    <2>2. Remains \in Seq(Nat)
      <3>1. \A s, t \in Seq(Nat) : s \o t \in Seq(Nat)
        BY ConcatProperties
      <3>2. <<>> \in Seq(Nat)
        OBVIOUS
      <3>. QED  BY <3>1, <3>2 DEF Remains, Left
    <2>3. PICK m \in Nat, l \in Nat : m = Len(contents) /\ l = Len(wrote)
      BY LenProperties DEF Texts, Left
    <2>4. FileLines \in Seq(Seq(Nat)) /\ DOMAIN FileLines = 1 .. m + l
      <3>1. FileLines \in Seq(Seq(Nat)) /\ Len(FileLines) = m + l
        BY <2>3, FileLinesAre DEF Left
      <3>. QED  BY <3>1, LenProperties
    <2>5. Spoilt \subseteq DOMAIN FileLines
      <3>1. spoilt \subseteq 1 .. m
        BY <2>3, LenProperties DEF Left
      <3>2. wrote # <<>> => m + 1 \in 1 .. m + l
        <4>1. wrote # <<>> => l # 0
          BY <2>3, EmptySeq DEF Texts
        <4>. QED  BY <4>1
      <3>3. \A k \in Spoilt : k \in spoilt \/ (k = m + 1 /\ wrote # <<>>)
        BY <2>3 DEF Spoilt
      <3>4. \A k \in 1 .. m : k \in 1 .. m + l
        OBVIOUS
      <3>. QED  BY <2>4, <3>1, <3>2, <3>3, <3>4
    <2>6. \A k \in DOMAIN FileLines \ Spoilt : \E n \in Lines : FileLines[k] = Format(entry[n].checksum, n)
      BY FileLinesMean
    <2>7. calls' # 0 /\ calls' - 1 = calls
      BY <2>1
    <2>8. IsFiniteSet(Spoilt) /\ Cardinality(Spoilt) + Cardinality({Remains} \ {<<>>}) <= calls
      BY SpoiltCount
    <2>9. <<>> \in Seq(Nat)
      OBVIOUS
    <2>10. (calls = 0 => pc = "idle" /\ wrote = <<>> /\ stump = <<>> /\ torn = <<>> /\ spoilt = {})'
      BY <2>7
    <2>11. (Cardinality(spoilt) + Cardinality({torn} \ {<<>>}) <= calls - 1)'
      BY <2>1, <2>7, <2>8
    <2>12. (spoilt \subseteq DOMAIN contents /\ IsFiniteSet(spoilt))'
      BY <2>1, <2>5, <2>8
    <2>13. (contents \in Seq(Seq(Nat)) /\ torn \in Seq(Nat) /\ stump \in Seq(Nat))'
      BY <2>1, <2>2, <2>4, <2>9
    <2>14. (\A k \in DOMAIN contents \ spoilt : \E n \in Lines : contents[k] = Format(entry[n].checksum, n))'
      BY <1>e, <2>1, <2>6
    <2>. QED  BY <2>7, <2>10, <2>11, <2>12, <2>13, <2>14 DEF Left
  <1>2. CASE WriteFails
    <2>1. pc = "write" /\ UNCHANGED file /\ calls' = calls
      BY <1>2 DEF WriteFails
    <2>2. calls # 0
      BY <2>1 DEF Left
    <2>3. stump' \in Seq(Nat)
      <3>1. CASE stump' = stump
        BY <3>1 DEF Left
      <3>2. CASE stump' # stump
        <4>. DEFINE line == Format(entry[Head(todo)].checksum, Head(todo))
        <4>1. /\ todo # <<>> /\ entry[Head(todo)].checksum # NULL
              /\ \E k \in 0 .. Len(line) : stump' = SubSeq(line, 1, k)
          BY <1>2, <3>2 DEF WriteFails
        <4>2. Head(todo) \in Names
          BY <4>1, HeadTailProperties DEF Texts
        <4>3. line \in Seq(Nat)
          BY <4>1, <4>2, FormatType
        <4>4. PICK k \in 0 .. Len(line) : stump' = SubSeq(line, 1, k)
          BY <4>1
        <4>5. PICK l \in Nat : l = Len(line)
          BY <4>3, LenProperties
        <4>. HIDE DEF line
        <4>6. k \in 0 .. l /\ \A j \in 1 .. k : line[j] \in Nat
          BY <4>3, <4>4, <4>5, ElementOfSeq
        <4>. QED  BY <4>3, <4>4, <4>5, <4>6, SubSeqProperties
      <3>. QED  BY <3>1, <3>2
    <2>. QED  BY <1>e, <2>1, <2>2, <2>3 DEF Left, file
  <1>3. CASE WriteLine
    <2>1. pc = "write" /\ UNCHANGED <<stump, file, calls>>
      BY <1>3 DEF WriteLine
    <2>2. calls # 0
      BY <2>1 DEF Left
    <2>. QED  BY <1>e, <2>1, <2>2 DEF Left, file
  <1>4. CASE ~Call /\ ~WriteFails /\ ~WriteLine
    <2>1. UNCHANGED <<wrote, stump, file, calls>>
      BY <1>4 DEF Next, Step, vars, Cancel, OtherCreates, Reset, AppendTo, Create, Exists, OpenFails,
         SkipLine, Written, Close, Restore
    <2>2. pc = "idle" => pc' = "idle"
      BY <1>4 DEF Next, Step, vars, Cancel, OtherCreates, Reset, AppendTo, Create, Exists, OpenFails,
         SkipLine, Written, Close, Restore, Goto
    <2>. QED  BY <1>e, <2>1, <2>2 DEF Left, file
  <1>. QED  BY <1>1, <1>2, <1>3, <1>4

FileInv == Flags /\ Entries /\ Places /\ Texts /\ LinesMean /\ Left /\ WriteInv

\* It holds in every reachable state.
THEOREM FileInvariance == Spec => []FileInv
  <1>1. Init => FileInv
    <2>. SUFFICES ASSUME Init PROVE FileInv
      OBVIOUS
    <2>1. MAX_CHECKSUM_FILE_RETRIES \in Nat /\ MaxCalls \in Nat
      BY ChecksumFileAssumption DEF ChecksumFileAssumption
    <2>2. Flags /\ Entries
      BY DEF Init, Flags, Entries
    <2>3. Places
      BY <2>1 DEF Init, Places
    <2>4. Texts /\ LinesMean
      BY DEF Init, Texts, LinesMean
    <2>5. WriteInv
      BY DEF Init, WriteInv
    <2>6. Left
      BY FS_EmptySet DEF Init, Left
    <2>. QED  BY <2>2, <2>3, <2>4, <2>5, <2>6 DEF FileInv
  <1>2. FileInv /\ [Next]_vars => FileInv'
    <2>. SUFFICES ASSUME FileInv, [Next]_vars PROVE FileInv'
      OBVIOUS
    <2>1. Entries'
      BY EntriesStep DEF FileInv, Entries
    <2>2. calls \in Nat
      BY ChecksumFileAssumption DEF FileInv, Places, ChecksumFileAssumption
    <2>3. Left'
      BY <2>2, LeftStep DEF FileInv
    <2>. QED  BY <2>1, <2>3, PlacesStep, LinesStep DEF FileInv
  <1>. QED  BY <1>1, <1>2, PTL DEF Spec

-----------------------------------------------------------------------------
\* Every variable keeps its type: the number of a candidate is at most one past
\* the limit, the list has names and the file has lines.
THEOREM Typing == Spec => []TypeOK
  <1>1. FileInv => TypeOK
    BY DEF FileInv, TypeOK, Flags, Entries, Places, Texts, Left
  <1>. QED  BY <1>1, FileInvariance, PTL

\* A call in which nothing goes wrong writes the line of every file that has
\* one, once, sorted by name, wherever others get in its way, and for any files.
THEOREM FileIsComplete == Spec => []FileComplete
  <1>1. FileInv => FileComplete
    <2>. SUFFICES ASSUME FileInv, pc = "restore", ~io_error, ~cancelled
                  PROVE  \E names \in [DOMAIN wrote -> Lines] :
                            /\ \A n \in Lines : \E k \in DOMAIN wrote : names[k] = n
                            /\ \A k \in DOMAIN wrote : wrote[k] = Format(entry[names[k]].checksum, names[k])
                            /\ \A j, k \in DOMAIN wrote : j < k => Before(names[j], names[k])
      BY DEF FileComplete
    <2>1. PICK names : LinesOf(entry, Lines, names, wrote) /\ Rest(Selected, Lines, Len(wrote), names, <<>>)
      BY DEF FileInv, WriteInv
    <2>2. DOMAIN wrote = 1 .. Len(wrote)
      BY LenProperties DEF FileInv, Texts
    <2>3. \A n \in Lines : \E k \in 1 .. Len(wrote) : names[k] = n
      <3>1. 1 .. Len(<<>>) = {}
        OBVIOUS
      <3>. QED  BY <2>1, <3>1 DEF Rest
    <2>. QED  BY <2>1, <2>2, <2>3 DEF LinesOf
  <1>. QED  BY <1>1, FileInvariance, PTL

-----------------------------------------------------------------------------
(* Reading a line back *)

\* The smallest of some numbers is known by being one.
LEMMA SmallestIs ==
    ASSUME NEW S \in SUBSET Int, NEW m \in S, \A x \in S : m <= x
    PROVE  Min(S) = m
  <1>1. \A x, y \in S : (\A z \in S : x <= z) /\ (\A z \in S : y <= z) => x = y
    <2>1. \A x, y \in S : x <= y /\ y <= x => x = y
      OBVIOUS
    <2>. QED  BY <2>1
  <1>. QED  BY <1>1 DEF Min

\* The parser gets out of a line what was put into it: the first space is the
\* one after the checksum, the spaces end where the name begins, and the name
\* has no mark for the parser to take away.
LEMMA ParseFormat ==
    ASSUME NEW sum \in Sums, NEW name \in Names
    PROVE  Parse(Format(sum, name)) = {[sum |-> sum, name |-> name]}
  <1>1. /\ sum \in Seq(Nat) /\ sum # <<>> /\ ~IsComment(sum) /\ SPACE \notin Range(sum)
        /\ name \in Seq(Nat) /\ name # <<>> /\ Head(name) \notin {SPACE, STAR}
    BY ChecksumFileAssumption DEF ChecksumFileAssumption, Plain
  <1>2. PICK l \in Nat \ {0}, m \in Nat \ {0} : l = Len(sum) /\ m = Len(name)
    BY <1>1, EmptySeq
  <1>3. /\ \A k \in 1 .. l : sum[k] \in Nat /\ sum[k] # SPACE
        /\ \A k \in 1 .. m : name[k] \in Nat
        /\ Head(sum) = sum[1] /\ Head(name) = name[1]
    <2>1. DOMAIN sum = 1 .. l
      BY <1>1, <1>2, LenProperties
    <2>2. \A k \in 1 .. l : sum[k] # SPACE
      BY <1>1, <2>1 DEF Range
    <2>3. \A k \in 1 .. l : sum[k] \in Nat
      BY <1>1, <1>2, ElementOfSeq
    <2>4. \A k \in 1 .. m : name[k] \in Nat
      BY <1>1, <1>2, ElementOfSeq
    <2>5. Head(sum) = sum[1] /\ Head(name) = name[1]
      BY <1>1
    <2>. QED  BY <2>2, <2>3, <2>4, <2>5
  <1>. DEFINE gap == <<SPACE, SPACE>>
              line == Format(sum, name)
  <1>4. gap \in Seq(Nat) /\ Len(gap) = 2 /\ gap[1] = SPACE /\ gap[2] = SPACE
    BY DEF SPACE
  <1>5. /\ line \in Seq(Nat) /\ Len(line) = l + 2 + m
        /\ \A k \in 1 .. l : line[k] = sum[k]
        /\ line[l + 1] = SPACE /\ line[l + 2] = SPACE
        /\ \A k \in 1 .. m : line[l + 2 + k] = name[k]
    <2>. HIDE DEF gap
    <2>1. PICK front : front = sum \o gap
      OBVIOUS
    <2>2. /\ front \in Seq(Nat) /\ Len(front) = l + 2
          /\ \A k \in 1 .. l + 2 : front[k] = IF k <= l THEN sum[k] ELSE gap[k - l]
      <3>1. /\ sum \o gap \in Seq(Nat)
            /\ Len(sum \o gap) = Len(sum) + Len(gap)
            /\ \A k \in 1 .. Len(sum) + Len(gap) :
                  (sum \o gap)[k] = IF k <= Len(sum) THEN sum[k] ELSE gap[k - Len(sum)]
        BY <1>1, <1>4, ConcatProperties
      <3>. QED  BY <1>2, <1>4, <2>1, <3>1
    <2>3. line = front \o name
      BY <2>1 DEF Format, gap
    <2>4. /\ line \in Seq(Nat) /\ Len(line) = l + 2 + m
          /\ \A k \in 1 .. l + 2 + m : line[k] = IF k <= l + 2 THEN front[k] ELSE name[k - (l + 2)]
      <3>. HIDE DEF line
      <3>1. /\ front \o name \in Seq(Nat)
            /\ Len(front \o name) = Len(front) + Len(name)
            /\ \A k \in 1 .. Len(front) + Len(name) :
                  (front \o name)[k] = IF k <= Len(front) THEN front[k] ELSE name[k - Len(front)]
        BY <1>1, <2>2, ConcatProperties
      <3>. QED  BY <1>2, <2>2, <2>3, <3>1
    <2>5. \A k \in 1 .. l + 2 : k \in 1 .. l + 2 + m /\ line[k] = front[k]
      BY <2>4
    <2>6. \A k \in 1 .. l : k \in 1 .. l + 2 /\ front[k] = sum[k]
      BY <2>2
    <2>7. l + 1 \in 1 .. l + 2 /\ l + 2 \in 1 .. l + 2 /\ (l + 1) - l = 1 /\ (l + 2) - l = 2
          /\ ~(l + 1 <= l) /\ ~(l + 2 <= l)
      OBVIOUS
    <2>8. front[l + 1] = SPACE /\ front[l + 2] = SPACE
      BY <1>4, <2>2, <2>7
    <2>9. \A k \in 1 .. m : l + 2 + k \in 1 .. l + 2 + m /\ ~(l + 2 + k <= l + 2) /\ (l + 2 + k) - (l + 2) = k
      OBVIOUS
    <2>10. \A k \in 1 .. m : line[l + 2 + k] = name[k]
      BY <2>4, <2>9
    <2>. QED  BY <2>4, <2>5, <2>6, <2>7, <2>8, <2>10
  <1>. HIDE DEF line, gap
  <1>6. ~IsComment(line)
    <2>1. line # <<>> /\ Head(line) = line[1] /\ 1 \in 1 .. l
      BY <1>5
    <2>2. Head(line) = Head(sum)
      BY <1>3, <1>5, <2>1
    <2>. QED  BY <1>1, <2>2 DEF IsComment
  <1>7. SelectInSeq(line, LAMBDA b : b = SPACE) = l + 1
    <2>. DEFINE I == {k \in 1 .. Len(line) : line[k] = SPACE}
    <2>1. I \in SUBSET Int /\ l + 1 \in I
      BY <1>5
    <2>2. ASSUME NEW k \in I PROVE l + 1 <= k
      <3>1. k \in Int /\ k >= 1 /\ line[k] = SPACE
        BY <1>5
      <3>2. k \notin 1 .. l
        BY <1>3, <1>5, <3>1
      <3>. QED  BY <3>1, <3>2
    <2>3. Min(I) = l + 1
      <3>. HIDE DEF I
      <3>. QED  BY <2>1, <2>2, SmallestIs
    <2>. QED  BY <2>1, <2>3 DEF SelectInSeq
  <1>8. SubSeq(line, 1, l) = sum
    <2>1. \A k \in 1 .. l : line[k] \in Nat /\ 1 + k - 1 = k
      BY <1>3, <1>5
    <2>2. /\ SubSeq(line, 1, l) \in Seq(Nat) /\ Len(SubSeq(line, 1, l)) = l
          /\ \A k \in 1 .. l : SubSeq(line, 1, l)[k] = sum[k]
      BY <1>5, <2>1, SubSeqProperties
    <2>. QED  BY <1>1, <1>2, <2>2, SeqEqual
  <1>. DEFINE rest == After(line, l + 1)
  <1>9. /\ rest \in Seq(Nat) /\ Len(rest) = m + 1
        /\ rest[1] = SPACE /\ \A k \in 1 .. m : rest[1 + k] = name[k]
    <2>1. rest = SubSeq(line, l + 2, l + 2 + m)
      BY <1>5 DEF After
    <2>2. \A k \in l + 2 .. l + 2 + m : line[k] \in Nat
      BY <1>5, ElementOfSeq
    <2>3. (l + 2 + m) - (l + 2) + 1 = m + 1 /\ l + 2 <= l + 2 + m
      OBVIOUS
    <2>4. /\ rest \in Seq(Nat) /\ Len(rest) = m + 1
          /\ \A k \in 1 .. m + 1 : rest[k] = line[l + 2 + k - 1]
      <3>. HIDE DEF rest
      <3>. QED  BY <2>1, <2>2, <2>3, SubSeqProperties
    <2>5. 1 \in 1 .. m + 1 /\ l + 2 + 1 - 1 = l + 2
      OBVIOUS
    <2>6. \A k \in 1 .. m : 1 + k \in 1 .. m + 1 /\ l + 2 + (1 + k) - 1 = l + 2 + k
      OBVIOUS
    <2>. QED  BY <1>5, <2>4, <2>5, <2>6
  <1>. HIDE DEF rest
  <1>10. SelectInSeq(Append(rest, 0), LAMBDA c : c # SPACE) = 2
    <2>1. /\ Len(Append(rest, 0)) = m + 2
          /\ \A k \in 1 .. m + 1 : Append(rest, 0)[k] = rest[k]
      BY <1>9, AppendProperties
    <2>. DEFINE I == {k \in 1 .. Len(Append(rest, 0)) : Append(rest, 0)[k] # SPACE}
    <2>2. 1 \in 1 .. m /\ 1 \in 1 .. m + 1 /\ 2 \in 1 .. m + 1 /\ 2 \in 1 .. m + 2 /\ 1 + 1 = 2
      OBVIOUS
    <2>3. Append(rest, 0)[1] = SPACE /\ Append(rest, 0)[2] = name[1] /\ name[1] # SPACE
      BY <1>1, <1>3, <1>9, <2>1, <2>2
    <2>4. I \in SUBSET Int /\ 2 \in I /\ 1 \notin I /\ \A k \in I : k >= 1
      BY <2>1, <2>2, <2>3
    <2>5. Min(I) = 2
      <3>. HIDE DEF I
      <3>1. \A k \in I : 2 <= k
        BY <2>4
      <3>. QED  BY <2>4, <3>1, SmallestIs
    <2>. QED  BY <2>4, <2>5 DEF SelectInSeq
  <1>11. SkipSpaces(rest) = name
    <2>1. SkipSpaces(rest) = SubSeq(rest, 2, m + 1)
      <3>1. SkipSpaces(rest) = After(rest, 2 - 1)
        BY <1>10 DEF SkipSpaces
      <3>2. (2 - 1) + 1 = 2
        OBVIOUS
      <3>. QED  BY <1>9, <3>1, <3>2 DEF After
    <2>2. \A k \in 2 .. m + 1 : rest[k] \in Nat
      BY <1>9, ElementOfSeq
    <2>3. (m + 1) - 2 + 1 = m /\ 2 <= m + 1 /\ \A k \in 1 .. m : 2 + k - 1 = 1 + k
      OBVIOUS
    <2>4. /\ SubSeq(rest, 2, m + 1) \in Seq(Nat) /\ Len(SubSeq(rest, 2, m + 1)) = m
          /\ \A k \in 1 .. m : SubSeq(rest, 2, m + 1)[k] = name[k]
      BY <1>9, <2>2, <2>3, SubSeqProperties
    <2>. QED  BY <1>1, <1>2, <2>1, <2>4, SeqEqual
  <1>12. SkipStar(name) = name
    BY <1>1 DEF SkipStar
  <1>13. ~(l + 1 <= 1) /\ (l + 1) - 1 = l
    OBVIOUS
  <1>. QED  BY <1>6, <1>7, <1>8, <1>11, <1>12, <1>13 DEF Parse, line, rest

\* A line has no line feed before the one at its end.
LEMMA FormatUnbroken ==
    ASSUME NEW sum \in Sums, NEW name \in Names
    PROVE  Unbroken(Format(sum, name))
  <1>1. sum \in Seq(Nat) /\ Unbroken(sum) /\ name \in Seq(Nat) /\ Unbroken(name)
    BY ChecksumFileAssumption DEF ChecksumFileAssumption, Plain
  <1>2. <<SPACE, SPACE>> \in Seq(Nat) /\ Unbroken(<<SPACE, SPACE>>)
    BY DEF Unbroken, Range, SPACE, LF
  <1>3. ASSUME NEW s \in Seq(Nat), NEW t \in Seq(Nat), Unbroken(s), Unbroken(t)
        PROVE  s \o t \in Seq(Nat) /\ Unbroken(s \o t)
    <2>1. PICK m \in Nat, n \in Nat : m = Len(s) /\ n = Len(t)
      BY LenProperties
    <2>2. /\ s \o t \in Seq(Nat) /\ Len(s \o t) = m + n
          /\ \A k \in 1 .. m + n : (s \o t)[k] = IF k <= m THEN s[k] ELSE t[k - m]
      BY <2>1, ConcatProperties
    <2>3. DOMAIN (s \o t) = 1 .. m + n /\ DOMAIN s = 1 .. m /\ DOMAIN t = 1 .. n
      BY <2>1, <2>2, LenProperties
    <2>4. (\A k \in 1 .. m : s[k] # LF) /\ (\A k \in 1 .. n : t[k] # LF)
      BY <1>3, <2>3 DEF Unbroken, Range
    <2>5. ASSUME NEW k \in 1 .. m + n PROVE (s \o t)[k] # LF
      <3>1. CASE k <= m
        <4>1. k \in 1 .. m
          BY <3>1
        <4>. QED  BY <2>2, <2>4, <3>1, <4>1
      <3>2. CASE ~(k <= m)
        <4>1. k - m \in 1 .. n
          BY <3>2
        <4>. QED  BY <2>2, <2>4, <3>2, <4>1
      <3>. QED  BY <3>1, <3>2
    <2>6. Unbroken(s \o t)
      BY <2>3, <2>5 DEF Unbroken, Range
    <2>. QED  BY <2>2, <2>6
  <1>4. sum \o <<SPACE, SPACE>> \in Seq(Nat) /\ Unbroken(sum \o <<SPACE, SPACE>>)
    BY <1>1, <1>2, <1>3
  <1>. QED  BY <1>1, <1>3, <1>4 DEF Format

\* What the parser gets out of a line when the files are verified is the name
\* and the checksum on record of one of the files, for any names and checksums
\* that fit in a line; a call that fails spoils one line, or the piece at the end.
THEOREM LinesAreReadBack == Spec => []ReadBack
  <1>1. FileInv => ReadBack
    <2>. SUFFICES ASSUME FileInv PROVE ReadBack
      OBVIOUS
    <2>1. ASSUME NEW k \in DOMAIN FileLines \ Spoilt
          PROVE  /\ Unbroken(FileLines[k])
                 /\ \E n \in Lines : Parse(FileLines[k]) = {[sum |-> entry[n].checksum, name |-> n]}
      <3>1. PICK n \in Lines : FileLines[k] = Format(entry[n].checksum, n)
        BY FileLinesMean DEF FileInv
      <3>2. n \in Names /\ entry[n].checksum \in Sums
        BY NamesType, FormatType DEF FileInv, Lines
      <3>. QED  BY <3>1, <3>2, ParseFormat, FormatUnbroken
    <2>2. calls \in Nat
      BY ChecksumFileAssumption DEF FileInv, Places, ChecksumFileAssumption
    <2>3. Cardinality(Spoilt) + Cardinality({Remains} \ {<<>>}) <= calls
      BY <2>2, SpoiltCount DEF FileInv
    <2>. QED  BY <2>1, <2>3 DEF ReadBack
  <1>. QED  BY <1>1, FileInvariance, PTL
=============================================================================

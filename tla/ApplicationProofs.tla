-------------------------- MODULE ApplicationProofs --------------------------
(***************************************************************************)
(* Proofs about the program and its dialog, for any names, any sequence of *)
(* items and any interleaving of the two threads.                          *)
(*                                                                         *)
(*   NoAbort           the timer runs only while the dialog copies         *)
(*   FinalCounters     the counters no longer change                       *)
(*   QuitOnlyWhenDone  the last update goes on under the GDK lock, which a *)
(*                     click has to wait for                               *)
(*   TypeOK            needs where the threads are, and that the counter   *)
(*                     is the number of verdicts                           *)
(*   FinalBar          needs bounds for both sums of sizes, item by item,  *)
(*                     and that a full bar is never ahead of the sums; it  *)
(*                     is for items whose sizes fit                        *)
(***************************************************************************)
EXTENDS Application, FiniteSetTheorems, SequenceTheorems, WellFoundedInduction, TLAPS

\* The places of the GUI thread before there is a worker.
Starting == {"options", "usage", "choosing", "create", "push"}

\* The timer runs exactly as long as the dialog copies; a callback may be
\* under way afterwards, but never before.
TimerInv ==
    /\ idle_tag => status = "COPYING"
    /\ after = "plan" => ~idle_tag /\ gui \notin {"callback", "labels"}
    /\ after # "plan" /\ worker \notin {"updating", "wait"} => idle_tag
    /\ worker \in {"updating", "wait"} => status = "COMPLETED"
    /\ gui \in {"callback", "labels"} => status \in {"COPYING", "COMPLETED"}

\* A question, or a change of status, leads back to where it came from.
PlaceInv ==
    /\ after \in {"plan", "item", "written", "sweep"}
    /\ worker \in {"none", "start", "plan"} => after = "plan"
    /\ worker \in {"item", "reset", "writing", "written", "sweep", "updating", "wait"} =>
          after # "plan"

\* The button says CLOSE only once the worker is done, or is about to be and
\* has the GDK lock.
ButtonInv ==
    /\ button_close = "CLOSE" => worker \in {"updating", "wait"}
    /\ worker = "updating" => gdk = "worker"
    /\ gui \in Starting \cup {"main", "labels"} => gdk = "gui"

\* Only the user cancels, and what cancels again after the writing is what was
\* cancelled before it.
RequestInv == cancelled \/ aborted => requested

\* The worker comes with the main loop.
StartInv ==
    /\ gui \in Starting => worker = "none"
    /\ worker = "none" => gui \in Starting \cup {"quit"}

IInv ==
    /\ TimerInv /\ PlaceInv /\ ButtonInv /\ RequestInv /\ StartInv
    /\ NoAbort /\ FinalCounters /\ QuitOnlyWhenDone

-----------------------------------------------------------------------------
\* Nothing has been asked for, and the dialog is not there yet.
LEMMA InvInit == AppInit => IInv
  BY DEF AppInit, Fresh, IInv, TimerInv, PlaceInv, ButtonInv, RequestInv, StartInv, NoAbort,
     FinalCounters, QuitOnlyWhenDone, Starting

\* While the dialog copies, or is done, the bar may be full.
LEMMA BarKeepsFault ==
    ASSUME NEW st \in {"COPYING", "COMPLETED"}, UpdateProgress(st)
    PROVE  fault' = fault
  BY DEF UpdateProgress

\* The steps of the worker.
LEMMA WorkerKeeps == IInv /\ WorkerStep => IInv'
  <1>. SUFFICES ASSUME IInv, WorkerStep PROVE IInv'
    OBVIOUS
  <1>. USE DEF IInv, TimerInv, PlaceInv, ButtonInv, RequestInv, StartInv,
           NoAbort, FinalCounters, QuitOnlyWhenDone, Starting, Running, At, AtItem
  <1>1. CASE StartCalculating
    BY <1>1 DEF StartCalculating, request, place, list
  <1>2. CASE PlanItem
    BY <1>2 DEF PlanItem, request, place, list
  <1>3. CASE PlanFails
    BY <1>3 DEF PlanFails, request, place, list
  <1>4. CASE ListsDisagree
    BY <1>4 DEF ListsDisagree, request, place, list
  <1>5. CASE StartCopying
    BY <1>5 DEF StartCopying, request, place, list
  <1>6. CASE ItemSkipped
    BY <1>6 DEF ItemSkipped, request, place, list
  <1>7. CASE DirectoryDone
    BY <1>7 DEF DirectoryDone, request, place, list
  <1>8. CASE FileDone
    BY <1>8 DEF FileDone, request, place, list
  <1>9. CASE ItemFails
    BY <1>9 DEF ItemFails, request, place, list
  <1>10. CASE ShowError
    BY <1>10 DEF ShowError, request, place, list
  <1>11. CASE LeaveError
    BY <1>11 DEF LeaveError, request, place, list
  <1>12. CASE LockStats
    BY <1>12 DEF LockStats, request, place, list
  <1>13. CASE CountFile
    BY <1>13 DEF CountFile, request, place, list
  <1>14. CASE StartWriting
    BY <1>14 DEF StartWriting, request, place, list
  <1>15. CASE ResetCancelled
    BY <1>15 DEF ResetCancelled, request, place, list
  <1>16. CASE WriteFails
    BY <1>16 DEF WriteFails, request, place, list
  <1>17. CASE EndWriting
    BY <1>17 DEF EndWriting, request, place, list
  <1>18. CASE SweepEntry
    BY <1>18 DEF SweepEntry, request, place, list
  <1>19. CASE SetCompleted
    \* The timer is there to be taken away.
    <2>1. idle_tag /\ fault' = fault
      BY <1>19, BarKeepsFault DEF SetCompleted
    <2>. QED  BY <1>19, <2>1 DEF SetCompleted, request, place
  <1>20. CASE LastUpdate
    BY <1>20 DEF LastUpdate, request, place, list
  <1>. QED  BY <1>1, <1>2, <1>3, <1>4, <1>5, <1>6, <1>7, <1>8, <1>9, <1>10, <1>11, <1>12, <1>13,
               <1>14, <1>15, <1>16, <1>17, <1>18, <1>19, <1>20 DEF WorkerStep

\* The steps of the GUI thread and of the user.
LEMMA GuiKeeps ==
    ASSUME IInv, GuiStep \/ TimerFires \/ Answer \/ UseDestroyed
                 \/ \E delete \in BOOLEAN : Click(delete)
    PROVE  IInv'
  <1>. USE DEF IInv, TimerInv, PlaceInv, ButtonInv, RequestInv, StartInv,
           NoAbort, FinalCounters, QuitOnlyWhenDone, Starting, Running
  <1>1. CASE TimerFires
    BY <1>1 DEF TimerFires, request, place, list
  <1>2. CASE UpdateBar
    \* The callback comes when there is something to show.
    <2>1. fault' = fault
      BY <1>2, BarKeepsFault DEF UpdateBar
    <2>. QED  BY <1>2, <2>1 DEF UpdateBar, request, place, list
  <1>3. CASE UpdateLabels
    BY <1>3 DEF UpdateLabels, request, place, list
  <1>4. CASE Answer
    BY <1>4 DEF Answer, request, place, list
  <1>5. ASSUME NEW delete \in BOOLEAN, Click(delete) PROVE IInv'
    BY <1>5 DEF Click, request, place, list
  <1>6. CASE UseDestroyed
    BY <1>6 DEF UseDestroyed, request, place, list
  <1>. QED  BY <1>1, <1>2, <1>3, <1>4, <1>5, <1>6 DEF GuiStep

\* The steps of main, before there are two threads.
LEMMA StartUpKeeps == IInv /\ StartUp => IInv'
  <1>. SUFFICES ASSUME IInv, StartUp PROVE IInv'
    OBVIOUS
  <1>. USE DEF IInv, TimerInv, PlaceInv, ButtonInv, RequestInv, StartInv,
           NoAbort, FinalCounters, QuitOnlyWhenDone, Starting
  <1>1. CASE LeaveAtOnce
    BY <1>1 DEF LeaveAtOnce, config, request, place, list
  <1>2. CASE ShowUsage
    BY <1>2 DEF ShowUsage, config, request, place, list
  <1>3. CASE CloseUsage
    BY <1>3 DEF CloseUsage, config, request, place, list
  <1>4. CASE TakeDestination
    BY <1>4 DEF TakeDestination, config, request, place, list
  <1>5. CASE AskForDestination
    BY <1>5 DEF AskForDestination, config, request, place, list
  <1>6. CASE Choose
    BY <1>6 DEF Choose, config, request, place, list
  <1>7. CASE Dismiss
    BY <1>7 DEF Dismiss, config, request, place, list
  <1>8. CASE CreateDialog
    BY <1>8 DEF CreateDialog, config, request, place, list
  <1>9. CASE StartWorker
    BY <1>9 DEF StartWorker, config, request, place, list
  <1>10. CASE EnterMain
    BY <1>10 DEF EnterMain, config, request, place, list
  <1>. QED  BY <1>1, <1>2, <1>3, <1>4, <1>5, <1>6, <1>7, <1>8, <1>9, <1>10
            DEF StartUp

\* The inductive invariant holds in every reachable state, for any items.
THEOREM Invariance == AppSpec => []IInv
  <1>1. IInv /\ [AppNext]_vars => IInv'
    <2>1. ASSUME IInv, UNCHANGED vars PROVE IInv'
      BY <2>1 DEF IInv, TimerInv, PlaceInv, ButtonInv, RequestInv, StartInv, NoAbort,
             FinalCounters, QuitOnlyWhenDone, vars, request, place, list
    <2>. QED  BY <2>1, WorkerKeeps, GuiKeeps, StartUpKeeps DEF AppNext, Next
  <1>. QED  BY <1>1, InvInit, PTL DEF AppSpec

-----------------------------------------------------------------------------
\* Whatever the items and the interleaving, no assertion of the dialog fails.
THEOREM NeverAborts == AppSpec => []NoAbort
  <1>1. IInv => NoAbort
    BY DEF IInv
  <1>. QED  BY <1>1, Invariance, PTL

\* The last counters on display are the counters of the file list.
THEOREM LastCountersShown == AppSpec => []FinalCounters
  <1>1. IInv => FinalCounters
    BY DEF IInv
  <1>. QED  BY <1>1, Invariance, PTL

\* Nobody who has not asked for it leaves the program before its work is done.
THEOREM QuitsWhenDone == AppSpec => []QuitOnlyWhenDone
  <1>1. IInv => QuitOnlyWhenDone
    BY DEF IInv
  <1>. QED  BY <1>1, Invariance, PTL

-----------------------------------------------------------------------------
(* The sums of sizes *)

\* A set of natural numbers has a smallest element: induction on a number, for
\* a formula that is not a parameter.
LEMMA Least ==
    ASSUME NEW S \in SUBSET Nat, S # {}
    PROVE  \E n \in S : \A m \in S : n <= m
  <1>. DEFINE Below == {0 .. n : n \in S}
              R == StrictSubsetOrdering(Nat)
  <1>1. Below # {} /\ Below \subseteq FiniteSubsetsOf(Nat)
    <2>1. \A n \in S : IsFiniteSet(0 .. n) /\ 0 .. n \subseteq Nat
      BY FS_Interval
    <2>. QED  BY <2>1 DEF FiniteSubsetsOf
  <1>2. IsWellFoundedOn(R, FiniteSubsetsOf(Nat))
    BY FS_StrictSubsetOrderingWellFounded
  <1>3. \E x \in Below : \A y \in Below : ~ (<<y, x>> \in R)
    <2>. HIDE DEF R, Below
    <2>. QED  BY <1>1, <1>2, WFMin
  <1>4. PICK n \in S : \A m \in S : <<0 .. m, 0 .. n>> \notin R
    BY <1>3
  <1>5. ASSUME NEW m \in S PROVE n <= m
    <2>1. SUFFICES ASSUME m < n PROVE FALSE
      OBVIOUS
    <2>2. 0 .. m \in SUBSET Nat /\ 0 .. n \in SUBSET Nat /\ 0 .. m \subseteq 0 .. n
      BY <2>1
    <2>3. n \in 0 .. n /\ n \notin 0 .. m
      BY <2>1
    <2>. QED  BY <1>4, <2>2, <2>3 DEF StrictSubsetOrdering
  <1>. QED  BY <1>5

\* The sums of the first elements of a sequence.
Sums(s, n, f) == f \in [0 .. n -> Nat] /\ f[0] = 0 /\ \A k \in 1 .. n : f[k] = f[k - 1] + s[k]

\* They exist.
LEMMA SumsExist ==
    ASSUME NEW n \in Nat, NEW s \in [1 .. n -> Nat]
    PROVE  \E f : Sums(s, n, f)
  <1>. DEFINE T == {m \in 0 .. n : ~ \E f : Sums(s, m, f)}
  <1>. SUFFICES ASSUME ~ \E f : Sums(s, n, f) PROVE FALSE
    OBVIOUS
  <1>1. T # {}
    <2>1. n \in 0 .. n
      OBVIOUS
    <2>. QED  BY <2>1
  <1>2. PICK m \in T : \A k \in T : m <= k
    <2>1. T \subseteq Nat
      OBVIOUS
    <2>. HIDE DEF T
    <2>. QED  BY <1>1, <2>1, Least
  <1>3. m \in 0 .. n /\ ~ \E f : Sums(s, m, f)
    OBVIOUS
  <1>4. m # 0
    <2>1. Sums(s, 0, [k \in 0 .. 0 |-> 0])
      BY DEF Sums
    <2>. QED  BY <1>3, <2>1
  <1>5. m - 1 \in 0 .. n /\ m - 1 \notin T
    BY <1>2, <1>3, <1>4
  <1>6. PICK f : Sums(s, m - 1, f)
    BY <1>5
  <1>. DEFINE g == [k \in 0 .. m |-> IF k = m THEN f[m - 1] + s[m] ELSE f[k]]
  <1>7. m \in Nat \ {0} /\ s[m] \in Nat /\ f \in [0 .. m - 1 -> Nat] /\ f[0] = 0
        /\ \A k \in 1 .. m - 1 : f[k] = f[k - 1] + s[k]
    BY <1>3, <1>4, <1>6 DEF Sums
  <1>8. Sums(s, m, g)
    <2>1. g \in [0 .. m -> Nat]
      BY <1>7
    <2>2. g[0] = 0
      BY <1>7
    <2>3. ASSUME NEW k \in 1 .. m PROVE g[k] = g[k - 1] + s[k]
      BY <1>7
    <2>. QED  BY <2>1, <2>2, <2>3 DEF Sums
  <1>. QED  BY <1>3, <1>8

\* Nothing else adds up in their way.
LEMMA SumsOnly ==
    ASSUME NEW n \in Nat, NEW s \in [1 .. n -> Nat], NEW g,
           g = [k \in 0 .. n |-> IF k = 0 THEN 0 ELSE g[k - 1] + s[k]]
    PROVE  Sums(s, n, g)
  <1>1. g[0] = 0 /\ \A k \in 1 .. n : g[k] = g[k - 1] + s[k]
    <2>1. \A k \in 0 .. n : g[k] = IF k = 0 THEN 0 ELSE g[k - 1] + s[k]
      OBVIOUS
    <2>. QED  BY <2>1
  <1>. DEFINE T == {m \in 0 .. n : g[m] \notin Nat}
  <1>2. ASSUME T # {} PROVE FALSE
    <2>1. PICK m \in T : \A k \in T : m <= k
      <3>1. T \subseteq Nat
        OBVIOUS
      <3>. HIDE DEF T
      <3>. QED  BY <1>2, <3>1, Least
    <2>2. m \in 1 .. n /\ g[m] \notin Nat
      BY <1>1
    <2>3. m - 1 \in 0 .. n /\ m - 1 \notin T
      BY <2>1, <2>2
    <2>4. g[m - 1] \in Nat /\ s[m] \in Nat /\ g[m] = g[m - 1] + s[m]
      BY <1>1, <2>2, <2>3
    <2>. QED  BY <2>2, <2>4
  <1>3. \A k \in 0 .. n : g[k] \in Nat
    BY <1>2
  <1>4. g \in [0 .. n -> Nat]
    BY <1>3
  <1>. QED  BY <1>1, <1>4 DEF Sums

\* The number of items, and what is known of each.
LEMMA ItemsType ==
    /\ Len(Items) \in Nat
    /\ \A k \in 1 .. Len(Items) :
          /\ Items[k].name \in Names
          /\ Items[k].size \in Nat /\ Items[k].most \in Nat /\ Items[k].size <= Items[k].most
  <1>1. Items \in Seq([name : Names, directory : BOOLEAN, size : Nat, most : Nat])
    BY DialogAssumption DEF DialogAssumption
  <1>2. ASSUME NEW k \in 1 .. Len(Items)
        PROVE  /\ Items[k].name \in Names
               /\ Items[k].size \in Nat /\ Items[k].most \in Nat /\ Items[k].size <= Items[k].most
    <2>1. Items[k] \in [name : Names, directory : BOOLEAN, size : Nat, most : Nat]
      BY <1>1, ElementOfSeq
    <2>2. k \in DOMAIN Items
      BY <1>1, LenProperties
    <2>. QED  BY <2>1, <2>2, DialogAssumption DEF DialogAssumption
  <1>. QED  BY <1>1, <1>2, LenProperties

\* The sums of the largest sizes are those the definition describes.
LEMMA ProcessedSums == Sums([k \in 1 .. Len(Items) |-> Items[k].most], Len(Items), ProcessedSize)
  <1>. DEFINE n == Len(Items)
              s == [k \in 1 .. n |-> Items[k].most]
              D(f) == [k \in 0 .. n |-> IF k = 0 THEN 0 ELSE f[k - 1] + Items[k].most]
  <1>1. n \in Nat /\ s \in [1 .. n -> Nat]
    BY ItemsType
  <1>2. PICK f : Sums(s, n, f)
    BY <1>1, SumsExist
  <1>3. f = D(f)
    BY <1>1, <1>2 DEF Sums
  <1>4. ProcessedSize = CHOOSE g : g = D(g)
    BY DEF ProcessedSize
  <1>5. ProcessedSize = D(ProcessedSize)
    BY <1>3, <1>4
  <1>6. ProcessedSize = [k \in 0 .. n |-> IF k = 0 THEN 0 ELSE ProcessedSize[k - 1] + s[k]]
    <2>1. ASSUME NEW k \in 0 .. n, NEW h
          PROVE  (IF k = 0 THEN 0 ELSE h[k - 1] + Items[k].most)
                 = (IF k = 0 THEN 0 ELSE h[k - 1] + s[k])
      BY <1>1
    <2>. QED  BY <1>5, <2>1
  <1>. QED  BY <1>1, <1>6, SumsOnly

\* Those of the sizes that the planner counts are, too.
LEMMA PlannedSums ==
    Sums([k \in 1 .. Len(Items) |-> IF Again(k) THEN 0 ELSE Items[k].size],
         Len(Items), PlannedSize)
  <1>. DEFINE n == Len(Items)
              s == [k \in 1 .. n |-> IF Again(k) THEN 0 ELSE Items[k].size]
              D(f) == [k \in 0 .. n |-> IF k = 0 THEN 0 ELSE f[k - 1] + IF Again(k) THEN 0 ELSE Items[k].size]
  <1>1. n \in Nat /\ s \in [1 .. n -> Nat]
    BY ItemsType
  <1>2. PICK f : Sums(s, n, f)
    BY <1>1, SumsExist
  <1>3. f = D(f)
    BY <1>1, <1>2 DEF Sums
  <1>4. PlannedSize = CHOOSE g : g = D(g)
    BY DEF PlannedSize
  <1>5. PlannedSize = D(PlannedSize)
    BY <1>3, <1>4
  <1>6. PlannedSize = [k \in 0 .. n |-> IF k = 0 THEN 0 ELSE PlannedSize[k - 1] + s[k]]
    <2>1. ASSUME NEW k \in 0 .. n, NEW h
          PROVE  (IF k = 0 THEN 0 ELSE h[k - 1] + (IF Again(k) THEN 0 ELSE Items[k].size))
                 = (IF k = 0 THEN 0 ELSE h[k - 1] + s[k])
      BY <1>1
    <2>. QED  BY <1>5, <2>1
  <1>. QED  BY <1>1, <1>6, SumsOnly

\* What adds up to more in each step adds up to more at the end.
LEMMA SumsOrdered ==
    ASSUME NEW n \in Nat, NEW s \in [1 .. n -> Nat], NEW t \in [1 .. n -> Nat], NEW f, NEW g,
           Sums(s, n, f), Sums(t, n, g), \A k \in 1 .. n : s[k] <= t[k]
    PROVE  \A k \in 0 .. n : f[k] <= g[k]
  <1>. DEFINE T == {m \in 0 .. n : ~ (f[m] <= g[m])}
  <1>1. /\ f \in [0 .. n -> Nat] /\ g \in [0 .. n -> Nat] /\ f[0] = 0 /\ g[0] = 0
        /\ \A k \in 1 .. n : f[k] = f[k - 1] + s[k] /\ g[k] = g[k - 1] + t[k]
    BY DEF Sums
  <1>2. ASSUME T # {} PROVE FALSE
    <2>1. PICK m \in T : \A k \in T : m <= k
      <3>1. T \subseteq Nat
        OBVIOUS
      <3>. HIDE DEF T
      <3>. QED  BY <1>2, <3>1, Least
    <2>2. m \in 1 .. n /\ ~ (f[m] <= g[m])
      BY <1>1
    <2>3. m - 1 \in 0 .. n /\ m - 1 \notin T
      BY <2>1, <2>2
    <2>4. f[m - 1] <= g[m - 1]
      BY <2>3
    <2>5. f[m - 1] \in Nat /\ g[m - 1] \in Nat /\ s[m] \in Nat /\ t[m] \in Nat /\ s[m] <= t[m]
          /\ f[m] = f[m - 1] + s[m] /\ g[m] = g[m - 1] + t[m]
      BY <1>1, <2>2, <2>3
    <2>. QED  BY <2>2, <2>4, <2>5
  <1>. QED  BY <1>2

\* Sums grow.
LEMMA SumsGrow ==
    ASSUME NEW n \in Nat, NEW s \in [1 .. n -> Nat], NEW f, Sums(s, n, f)
    PROVE  \A k \in 0 .. n : f[k] <= f[n]
  <1>. DEFINE T == {m \in 0 .. n : ~ (f[n - m] <= f[n])}
  <1>1. /\ f \in [0 .. n -> Nat]
        /\ \A k \in 1 .. n : f[k] = f[k - 1] + s[k]
    BY DEF Sums
  <1>2. ASSUME T # {} PROVE FALSE
    <2>1. PICK m \in T : \A k \in T : m <= k
      <3>1. T \subseteq Nat
        OBVIOUS
      <3>. HIDE DEF T
      <3>. QED  BY <1>2, <3>1, Least
    <2>2. m \in 1 .. n /\ ~ (f[n - m] <= f[n])
      <3>1. m \in 0 .. n /\ ~ (f[n - m] <= f[n])
        OBVIOUS
      <3>2. m # 0
        <4>1. f[n] \in Nat /\ n - 0 = n
          BY <1>1
        <4>. QED  BY <3>1, <4>1
      <3>. QED  BY <3>1, <3>2
    <2>3. m - 1 \in 0 .. n /\ m - 1 \notin T
      <3>1. m \in Nat /\ m - 1 \in 0 .. n
        BY <2>2
      <3>. HIDE DEF T
      <3>. QED  BY <2>1, <3>1
    <2>4. f[n - (m - 1)] <= f[n]
      BY <2>3
    <2>5. PICK k \in 1 .. n : k = n - (m - 1) /\ k - 1 = n - m
      BY <2>2
    <2>6. f[k] = f[k - 1] + s[k] /\ f[k] \in Nat /\ f[k - 1] \in Nat /\ s[k] \in Nat /\ f[n] \in Nat
      BY <1>1
    <2>. QED  BY <2>2, <2>4, <2>5, <2>6
  <1>3. ASSUME NEW k \in 0 .. n PROVE f[k] <= f[n]
    <2>1. n - k \in 0 .. n /\ n - (n - k) = k
      OBVIOUS
    <2>2. n - k \notin T
      BY <1>2
    <2>. QED  BY <2>1, <2>2
  <1>. QED  BY <1>3

-----------------------------------------------------------------------------
(* Types *)

Flags ==
    /\ verify_only \in BOOLEAN /\ window \in BOOLEAN /\ idle_tag \in BOOLEAN
    /\ cancelled \in BOOLEAN /\ aborted \in BOOLEAN /\ requested \in BOOLEAN /\ erred \in BOOLEAN
    /\ shrunk \in BOOLEAN

Labels ==
    /\ status \in {"INIT", "CALCULATING_SIZE", "COPYING", "COMPLETED"}
    /\ text \in {"empty", "percent", "0%", "100%", "Completed"}
    /\ button_close \in {"CANCEL", "CLOSE"}
    /\ gdk \in {"free", "gui", "worker"}
    /\ stats_mutex \in {"free", "gui", "worker"}
    /\ gui \in {"options", "usage", "choosing", "create", "push", "main",
                "loop", "callback", "labels", "quit"}
    /\ worker \in {"none", "start", "plan", "item", "error", "asking", "answered", "transition",
                   "counting", "reset", "writing", "written", "sweep", "updating", "wait"}
    /\ after \in {"plan", "item", "written", "sweep"}
    /\ fault \in {"none", "done_too_early", "no_timer", "destroyed_dialog",
                  "error_freed_twice", "queue_unset"}

\* The sizes wrap.
Sizes == total_size \in 0 .. SIZE_MOD - 1 /\ curr_size \in 0 .. SIZE_MOD - 1

\* The bar shows a fraction.
BarIn == bar \in 0 .. FULL

\* Where the worker is in its items.
Places ==
    /\ item \in 1 .. Len(Items) + 1
    /\ worker \in {"none", "start"} => item = 1
    /\ worker \in {"reset", "writing", "written", "sweep", "updating", "wait"} =>
          item > Len(Items)
    /\ after \in {"written", "sweep"} => item > Len(Items)

\* The entries of the list.
Entries == seen \in SUBSET Names /\ decided \in SUBSET Names /\ disagreed \in SUBSET decided

\* A verdict that the counter does not know of yet.
Pending == IF worker \in {"transition", "counting"} THEN 1 ELSE 0

\* The counter is the number of verdicts.
Counts == count \in Nat /\ shown \in Nat /\ shown <= count /\ count + Pending = Cardinality(decided)

\* The constants.
LEMMA Bounds == /\ Len(Items) \in Nat /\ IsFiniteSet(Names)
                /\ SIZE_MOD \in Nat \ {0} /\ FULL \in Nat \ {0} /\ GINT_MAX \in Nat /\ FULL <= GINT_MAX
  BY ItemsType, DialogAssumption DEF DialogAssumption

\* What is shown of the progress is one.
LEMMA BarShows ==
    ASSUME NEW st, UpdateProgress(st), bar \in 0 .. FULL
    PROVE  bar' \in 0 .. FULL
  <1>1. PICK permil \in Permil :
           \/ permil = FULL /\ bar' \in {bar, FULL}
           \/ permil \in bar .. FULL - 1 /\ bar' = permil
           \/ bar' = bar
    BY DEF UpdateProgress, display
  <1>2. FULL \in Nat
    BY Bounds
  <1>. QED  BY <1>1, <1>2

\* A sum of sizes wraps.
LEMMA SizeWraps ==
    ASSUME NEW a \in Int, NEW n \in Int
    PROVE  (a + n) % SIZE_MOD \in 0 .. SIZE_MOD - 1
  <1>1. SIZE_MOD \in Nat \ {0} /\ a + n \in Int
    BY Bounds
  <1>. QED  BY <1>1

\* An item's size is added, and wraps.
LEMMA SizeAdded ==
    ASSUME Sizes, NEW n \in Int, AddSize(n), UNCHANGED total_size
    PROVE  Sizes'
  <1>1. curr_size \in Int
    BY Bounds DEF Sizes
  <1>2. curr_size' \in 0 .. SIZE_MOD - 1
    BY <1>1, SizeWraps DEF AddSize
  <1>. QED  BY <1>2 DEF Sizes

\* A sum that is left alone, or grows, stays a guint64.
LEMMA ItemAdded ==
    ASSUME Sizes, NEW n \in 1 .. Len(Items), item = n, AddItem, UNCHANGED total_size
    PROVE  Sizes'
  <1>1. PICK k \in 0 .. Items[n].most : AddSize(k)
    BY DEF AddItem
  <1>2. k \in Int
    BY ItemsType
  <1>. QED  BY <1>1, <1>2, SizeAdded

\* The worker adds up sizes, and goes on in its items.
LEMMA WorkerAmounts ==
    ASSUME Labels, Sizes, Places, PlaceInv, BarIn, WorkerStep
    PROVE  Sizes' /\ Places' /\ BarIn'
  <1>n. PICK n \in Nat : n = Len(Items)
    BY Bounds
  <1>p. /\ item \in 1 .. n + 1
        /\ worker \in {"none", "start"} => item = 1
        /\ worker \in {"reset", "writing", "written", "sweep", "updating", "wait"} => item > n
        /\ after \in {"written", "sweep"} => item > n
    BY <1>n DEF Places
  <1>s. ASSUME UNCHANGED progress PROVE Sizes'
    BY <1>s DEF Sizes, progress
  <1>d. ASSUME UNCHANGED display PROVE BarIn'
    BY <1>d DEF display, BarIn
  <1>i. ASSUME item <= n PROVE item \in 1 .. n /\ Items[item].size \in Nat /\ Items[item].most \in Nat
    <2>1. item \in 1 .. n
      BY <1>i, <1>p
    <2>. QED  BY <2>1, <1>n, ItemsType
  <1>c. ASSUME item <= n, CountSize PROVE total_size' \in 0 .. SIZE_MOD - 1
    <2>1. Items[item].size \in Int /\ total_size \in Int
      BY <1>c, <1>i, Bounds DEF Sizes
    <2>2. (total_size + Items[item].size) % SIZE_MOD \in 0 .. SIZE_MOD - 1
      BY <2>1, SizeWraps
    <2>. QED  BY <1>c, <2>2 DEF CountSize, Sizes
  <1>. USE DEF Running, At, AtItem, request, place, Places
  <1>1. CASE StartCalculating
    <2>1. Places'
      BY <1>1, <1>n, <1>p DEF StartCalculating
    <2>. QED  BY <1>1, <1>s, <1>d, <2>1 DEF StartCalculating
  <1>2. CASE PlanItem
    <2>1. Sizes'
      BY <1>2, <1>n, <1>c DEF PlanItem, Sizes
    <2>2. Places'
      BY <1>2, <1>n, <1>p DEF PlanItem
    <2>. QED  BY <1>2, <1>d, <2>1, <2>2 DEF PlanItem
  <1>3. CASE PlanFails
    <2>1. Sizes'
      BY <1>3, <1>n, <1>c DEF PlanFails, Sizes
    <2>2. Places'
      BY <1>3, <1>n, <1>p DEF PlanFails
    <2>. QED  BY <1>3, <1>d, <2>1, <2>2 DEF PlanFails
  <1>4. CASE ListsDisagree
    <2>1. Places'
      BY <1>4, <1>n, <1>p DEF ListsDisagree
    <2>. QED  BY <1>4, <1>s, <1>d, <2>1 DEF ListsDisagree
  <1>5. CASE StartCopying
    <2>1. Places'
      BY <1>5, <1>n, <1>p DEF StartCopying
    <2>. QED  BY <1>5, <1>s, <1>d, <2>1 DEF StartCopying
  <1>6. CASE ItemSkipped
    <2>1. Places'
      BY <1>6, <1>n, <1>p DEF ItemSkipped
    <2>. QED  BY <1>6, <1>s, <1>d, <2>1 DEF ItemSkipped
  <1>7. CASE DirectoryDone
    <2>1. item \in 1 .. Len(Items)
      BY <1>7, <1>n, <1>i DEF DirectoryDone
    <2>2. Sizes'
      BY <1>7, <2>1, ItemAdded DEF DirectoryDone, Sizes
    <2>3. Places'
      BY <1>7, <1>n, <1>p DEF DirectoryDone
    <2>. QED  BY <1>7, <1>d, <2>2, <2>3 DEF DirectoryDone
  <1>8. CASE FileDone
    <2>1. item \in 1 .. Len(Items)
      BY <1>8, <1>n, <1>i DEF FileDone
    <2>2. Sizes'
      BY <1>8, <2>1, ItemAdded DEF FileDone, Sizes
    <2>3. Places'
      BY <1>8, <1>n, <1>p DEF FileDone
    <2>. QED  BY <1>8, <1>d, <2>2, <2>3 DEF FileDone
  <1>9. CASE ItemFails
    <2>1. PICK k \in IF Name \in decided \/ (Items[item].directory /\ verify_only) THEN {0}
                   ELSE -1 .. Items[item].most : AddSize(k)
      BY <1>9 DEF ItemFails
    <2>2. k \in Int
      BY <1>9, <1>n, <1>i DEF ItemFails
    <2>3. Sizes'
      BY <1>9, <2>1, <2>2, SizeAdded DEF ItemFails
    <2>4. Places'
      BY <1>9, <1>n, <1>p DEF ItemFails
    <2>. QED  BY <1>9, <1>d, <2>3, <2>4 DEF ItemFails
  <1>10. CASE ShowError
    <2>1. Places'
      BY <1>10, <1>n, <1>p DEF ShowError
    <2>. QED  BY <1>10, <1>s, <1>d, <2>1 DEF ShowError
  <1>11. CASE LeaveError
    <2>1. Places'
      BY <1>11, <1>n, <1>p DEF LeaveError, Labels, PlaceInv
    <2>. QED  BY <1>11, <1>s, <1>d, <2>1 DEF LeaveError
  <1>12. CASE LockStats
    <2>1. Places'
      BY <1>12, <1>n, <1>p DEF LockStats
    <2>. QED  BY <1>12, <1>s, <1>d, <2>1 DEF LockStats
  <1>13. CASE CountFile
    <2>1. Places'
      BY <1>13, <1>n, <1>p DEF CountFile, Labels, PlaceInv
    <2>. QED  BY <1>13, <1>s, <1>d, <2>1 DEF CountFile
  <1>14. CASE StartWriting
    <2>1. Places'
      BY <1>14, <1>n, <1>p DEF StartWriting
    <2>. QED  BY <1>14, <1>s, <1>d, <2>1 DEF StartWriting
  <1>15. CASE ResetCancelled
    <2>1. Places'
      BY <1>15, <1>n, <1>p DEF ResetCancelled
    <2>. QED  BY <1>15, <1>s, <1>d, <2>1 DEF ResetCancelled
  <1>16. CASE WriteFails
    <2>1. Places'
      BY <1>16, <1>n, <1>p DEF WriteFails
    <2>. QED  BY <1>16, <1>s, <1>d, <2>1 DEF WriteFails
  <1>17. CASE EndWriting
    <2>1. Places'
      BY <1>17, <1>n, <1>p DEF EndWriting
    <2>. QED  BY <1>17, <1>s, <1>d, <2>1 DEF EndWriting
  <1>18. CASE SweepEntry
    <2>1. Places'
      BY <1>18, <1>n, <1>p DEF SweepEntry
    <2>. QED  BY <1>18, <1>s, <1>d, <2>1 DEF SweepEntry
  <1>19. CASE SetCompleted
    <2>1. BarIn'
      BY <1>19, BarShows DEF SetCompleted, display, BarIn
    <2>2. Places'
      BY <1>19, <1>n, <1>p DEF SetCompleted
    <2>. QED  BY <1>19, <1>s, <2>1, <2>2 DEF SetCompleted
  <1>20. CASE LastUpdate
    <2>1. Places'
      BY <1>20, <1>n, <1>p DEF LastUpdate
    <2>. QED  BY <1>20, <1>s, <1>d, <2>1 DEF LastUpdate
  <1>. QED  BY <1>1, <1>2, <1>3, <1>4, <1>5, <1>6, <1>7, <1>8, <1>9, <1>10, <1>11, <1>12, <1>13,
               <1>14, <1>15, <1>16, <1>17, <1>18, <1>19, <1>20 DEF WorkerStep

\* One more verdict.
LEMMA OneMore ==
    ASSUME Entries, NEW n \in Names \ decided, decided' = decided \cup {n}
    PROVE  decided' \in SUBSET Names /\ Cardinality(decided') = Cardinality(decided) + 1
           /\ Cardinality(decided) \in Nat
  <1>1. IsFiniteSet(decided)
    BY Bounds, FS_Subset DEF Entries
  <1>. QED  BY <1>1, FS_AddElement, FS_CardinalityType DEF Entries

\* The worker counts each verdict once.
LEMMA WorkerVerdicts ==
    ASSUME Places, PlaceInv, Entries, Counts, WorkerStep
    PROVE  Entries' /\ Counts'
  <1>i. ASSUME item <= Len(Items) PROVE Items[item].name \in Names
    <2>1. item \in 1 .. Len(Items)
      BY <1>i, Bounds DEF Places
    <2>. QED  BY <2>1, ItemsType
  <1>. USE DEF Running, At, AtItem, place, list, Entries, Counts, Pending, Name
  <1>1. CASE StartCalculating
    BY <1>1 DEF StartCalculating
  <1>2. CASE PlanItem
    BY <1>2, <1>i DEF PlanItem, CountSize
  <1>3. CASE PlanFails
    BY <1>3, <1>i DEF PlanFails, CountSize
  <1>4. CASE ListsDisagree
    <2>1. PICK n \in Names \ decided : decided' = decided \cup {n}
                                    /\ disagreed' \in {disagreed, disagreed \cup {n}}
      BY <1>4 DEF ListsDisagree
    <2>2. decided' \in SUBSET Names /\ Cardinality(decided') = Cardinality(decided) + 1
      BY <2>1, OneMore
    <2>. QED  BY <1>4, <2>1, <2>2 DEF ListsDisagree
  <1>5. CASE StartCopying
    BY <1>5 DEF StartCopying
  <1>6. CASE ItemSkipped
    BY <1>6 DEF ItemSkipped
  <1>7. CASE DirectoryDone
    BY <1>7 DEF DirectoryDone
  <1>8. CASE FileDone
    <2>1. Name \in Names \ decided /\ decided' = decided \cup {Name}
      BY <1>8, <1>i DEF FileDone
    <2>2. decided' \in SUBSET Names /\ Cardinality(decided') = Cardinality(decided) + 1
      BY <2>1, OneMore
    <2>. QED  BY <1>8, <2>1, <2>2 DEF FileDone
  <1>9. CASE ItemFails
    BY <1>9 DEF ItemFails
  <1>10. CASE ShowError
    BY <1>10 DEF ShowError
  <1>11. CASE LeaveError
    BY <1>11 DEF LeaveError, PlaceInv
  <1>12. CASE LockStats
    BY <1>12 DEF LockStats
  <1>13. CASE CountFile
    BY <1>13 DEF CountFile, PlaceInv
  <1>14. CASE StartWriting
    BY <1>14 DEF StartWriting
  <1>15. CASE ResetCancelled
    BY <1>15 DEF ResetCancelled
  <1>16. CASE WriteFails
    BY <1>16 DEF WriteFails
  <1>17. CASE EndWriting
    BY <1>17 DEF EndWriting
  <1>18. CASE SweepEntry
    <2>1. PICK n \in Names \ decided : decided' = decided \cup {n}
                                    /\ disagreed' \in {disagreed, disagreed \cup {n}}
      BY <1>18 DEF SweepEntry
    <2>2. decided' \in SUBSET Names /\ Cardinality(decided') = Cardinality(decided) + 1
      BY <2>1, OneMore
    <2>. QED  BY <1>18, <2>1, <2>2 DEF SweepEntry
  <1>19. CASE SetCompleted
    BY <1>19 DEF SetCompleted
  <1>20. CASE LastUpdate
    BY <1>20 DEF LastUpdate
  <1>. QED  BY <1>1, <1>2, <1>3, <1>4, <1>5, <1>6, <1>7, <1>8, <1>9, <1>10, <1>11, <1>12, <1>13,
               <1>14, <1>15, <1>16, <1>17, <1>18, <1>19, <1>20 DEF WorkerStep

\* The other steps show what is counted, and count and add up nothing.
LEMMA OtherAmounts ==
    ASSUME Sizes, Places, Entries, Counts, BarIn, StartInv, AppNext, ~WorkerStep
    PROVE  Sizes' /\ Places' /\ Entries' /\ Counts' /\ BarIn'
  <1>. DEFINE Others == GuiStep \/ TimerFires \/ Answer \/ UseDestroyed \/ StartUp
                        \/ \E delete \in BOOLEAN : Click(delete)
  <1>o. Others
    BY DEF AppNext, Next
  <1>. USE DEF GuiStep, UpdateBar, UpdateLabels, TimerFires, Answer, UseDestroyed, Click,
       StartUp, LeaveAtOnce, ShowUsage, CloseUsage, TakeDestination, AskForDestination, Choose,
       Dismiss, CreateDialog, StartWorker, EnterMain
  <1>1. UNCHANGED <<total_size, curr_size, item, after, count, seen, decided, disagreed>>
    BY <1>o DEF progress, place, list
  <1>2. \/ worker' = worker
        \/ worker = "asking" /\ worker' = "answered"
        \/ worker = "none" /\ worker' = "start"
    BY <1>o DEF StartInv, Starting
  <1>3. shown' = shown \/ shown' = count
    BY <1>o
  <1>4. BarIn'
    <2>1. UNCHANGED bar \/ \E st : UpdateProgress(st)
      BY <1>o DEF display
    <2>. QED  BY <2>1, BarShows DEF BarIn
  <1>5. Sizes' /\ Places' /\ Entries'
    BY <1>1, <1>2 DEF Sizes, Places, Entries
  <1>6. Counts'
    <2>1. count \in Nat /\ shown \in Nat /\ shown <= count
      BY DEF Counts
    <2>2. shown' \in Nat /\ shown' <= count'
      BY <1>1, <1>3, <2>1
    <2>3. Pending' = Pending
      BY <1>2 DEF Pending
    <2>. QED  BY <1>1, <2>1, <2>2, <2>3 DEF Counts
  <1>. QED  BY <1>4, <1>5, <1>6

\* Every label is one of those known.
LEMMA LabelsStep == Labels /\ [AppNext]_vars => Labels'
  <1>. SUFFICES ASSUME Labels, [AppNext]_vars PROVE Labels'
    OBVIOUS
  <1>. USE DEF Labels, display, place, config
  <1>1. CASE StartCalculating
    BY <1>1 DEF StartCalculating
  <1>2. CASE PlanItem
    BY <1>2 DEF PlanItem
  <1>3. CASE PlanFails
    BY <1>3 DEF PlanFails
  <1>4. CASE ListsDisagree
    BY <1>4 DEF ListsDisagree
  <1>5. CASE StartCopying
    BY <1>5 DEF StartCopying
  <1>6. CASE ItemSkipped
    BY <1>6 DEF ItemSkipped
  <1>7. CASE DirectoryDone
    BY <1>7 DEF DirectoryDone
  <1>8. CASE FileDone
    BY <1>8 DEF FileDone
  <1>9. CASE ItemFails
    BY <1>9 DEF ItemFails
  <1>10. CASE ShowError
    BY <1>10 DEF ShowError
  <1>11. CASE LeaveError
    BY <1>11 DEF LeaveError
  <1>12. CASE LockStats
    BY <1>12 DEF LockStats
  <1>13. CASE CountFile
    BY <1>13 DEF CountFile
  <1>14. CASE StartWriting
    BY <1>14 DEF StartWriting
  <1>15. CASE ResetCancelled
    BY <1>15 DEF ResetCancelled
  <1>16. CASE WriteFails
    BY <1>16 DEF WriteFails
  <1>17. CASE EndWriting
    BY <1>17 DEF EndWriting
  <1>18. CASE SweepEntry
    BY <1>18 DEF SweepEntry
  <1>19. CASE SetCompleted
    BY <1>19 DEF SetCompleted, UpdateProgress
  <1>20. CASE LastUpdate
    BY <1>20 DEF LastUpdate
  <1>21. CASE TimerFires
    BY <1>21 DEF TimerFires
  <1>22. CASE UpdateBar
    BY <1>22 DEF UpdateBar, UpdateProgress
  <1>23. CASE UpdateLabels
    BY <1>23 DEF UpdateLabels
  <1>24. CASE Answer
    BY <1>24 DEF Answer
  <1>25. CASE UseDestroyed
    BY <1>25 DEF UseDestroyed
  <1>26. CASE LeaveAtOnce
    BY <1>26 DEF LeaveAtOnce
  <1>27. CASE ShowUsage
    BY <1>27 DEF ShowUsage
  <1>28. CASE CloseUsage
    BY <1>28 DEF CloseUsage
  <1>29. CASE TakeDestination
    BY <1>29 DEF TakeDestination
  <1>30. CASE AskForDestination
    BY <1>30 DEF AskForDestination
  <1>31. CASE Choose
    BY <1>31 DEF Choose
  <1>32. CASE Dismiss
    BY <1>32 DEF Dismiss
  <1>33. CASE CreateDialog
    BY <1>33 DEF CreateDialog
  <1>34. CASE StartWorker
    BY <1>34 DEF StartWorker
  <1>35. CASE EnterMain
    BY <1>35 DEF EnterMain
  <1>36. ASSUME NEW delete \in BOOLEAN, Click(delete) PROVE Labels'
    BY <1>36 DEF Click
  <1>37. CASE UNCHANGED vars
    BY <1>37 DEF vars
  <1>. QED  BY <1>1, <1>2, <1>3, <1>4, <1>5, <1>6, <1>7, <1>8, <1>9, <1>10, <1>11, <1>12, <1>13,
               <1>14, <1>15, <1>16, <1>17, <1>18, <1>19, <1>20, <1>21, <1>22, <1>23, <1>24, <1>25,
               <1>26, <1>27, <1>28, <1>29, <1>30, <1>31, <1>32, <1>33, <1>34, <1>35, <1>36, <1>37
               DEF AppNext, Next, WorkerStep, GuiStep, StartUp

\* Every flag is one.
LEMMA FlagsStep == Flags /\ [AppNext]_vars => Flags'
  <1>. SUFFICES ASSUME Flags, [AppNext]_vars PROVE Flags'
    OBVIOUS
  <1>. USE DEF Flags, request, config, progress, AddItem
  <1>1. CASE StartCalculating
    BY <1>1 DEF StartCalculating
  <1>2. CASE PlanItem
    BY <1>2 DEF PlanItem
  <1>3. CASE PlanFails
    BY <1>3 DEF PlanFails
  <1>4. CASE ListsDisagree
    BY <1>4 DEF ListsDisagree
  <1>5. CASE StartCopying
    BY <1>5 DEF StartCopying
  <1>6. CASE ItemSkipped
    BY <1>6 DEF ItemSkipped
  <1>7. CASE DirectoryDone
    BY <1>7 DEF DirectoryDone
  <1>8. CASE FileDone
    BY <1>8 DEF FileDone
  <1>9. CASE ItemFails
    BY <1>9 DEF ItemFails
  <1>10. CASE ShowError
    BY <1>10 DEF ShowError
  <1>11. CASE LeaveError
    BY <1>11 DEF LeaveError
  <1>12. CASE LockStats
    BY <1>12 DEF LockStats
  <1>13. CASE CountFile
    BY <1>13 DEF CountFile
  <1>14. CASE StartWriting
    BY <1>14 DEF StartWriting
  <1>15. CASE ResetCancelled
    BY <1>15 DEF ResetCancelled
  <1>16. CASE WriteFails
    BY <1>16 DEF WriteFails
  <1>17. CASE EndWriting
    BY <1>17 DEF EndWriting
  <1>18. CASE SweepEntry
    BY <1>18 DEF SweepEntry
  <1>19. CASE SetCompleted
    BY <1>19 DEF SetCompleted
  <1>20. CASE LastUpdate
    BY <1>20 DEF LastUpdate
  <1>21. CASE TimerFires
    BY <1>21 DEF TimerFires
  <1>22. CASE UpdateBar
    BY <1>22 DEF UpdateBar
  <1>23. CASE UpdateLabels
    BY <1>23 DEF UpdateLabels
  <1>24. CASE Answer
    BY <1>24 DEF Answer
  <1>25. CASE UseDestroyed
    BY <1>25 DEF UseDestroyed
  <1>26. CASE LeaveAtOnce
    BY <1>26 DEF LeaveAtOnce
  <1>27. CASE ShowUsage
    BY <1>27 DEF ShowUsage
  <1>28. CASE CloseUsage
    BY <1>28 DEF CloseUsage
  <1>29. CASE TakeDestination
    BY <1>29 DEF TakeDestination
  <1>30. CASE AskForDestination
    BY <1>30 DEF AskForDestination
  <1>31. CASE Choose
    BY <1>31 DEF Choose
  <1>32. CASE Dismiss
    BY <1>32 DEF Dismiss
  <1>33. CASE CreateDialog
    BY <1>33 DEF CreateDialog
  <1>34. CASE StartWorker
    BY <1>34 DEF StartWorker
  <1>35. CASE EnterMain
    BY <1>35 DEF EnterMain
  <1>36. ASSUME NEW delete \in BOOLEAN, Click(delete) PROVE Flags'
    BY <1>36 DEF Click
  <1>37. CASE UNCHANGED vars
    BY <1>37 DEF vars
  <1>. QED  BY <1>1, <1>2, <1>3, <1>4, <1>5, <1>6, <1>7, <1>8, <1>9, <1>10, <1>11, <1>12, <1>13,
               <1>14, <1>15, <1>16, <1>17, <1>18, <1>19, <1>20, <1>21, <1>22, <1>23, <1>24, <1>25,
               <1>26, <1>27, <1>28, <1>29, <1>30, <1>31, <1>32, <1>33, <1>34, <1>35, <1>36, <1>37
               DEF AppNext, Next, WorkerStep, GuiStep, StartUp

\* All of it.
TypeInv == Flags /\ Labels /\ Sizes /\ Places /\ Entries /\ Counts /\ BarIn

\* It holds in every reachable state.
THEOREM TypeInvariance == AppSpec => []TypeInv
  <1>1. AppInit => TypeInv
    <2>. SUFFICES ASSUME AppInit PROVE TypeInv
      OBVIOUS
    <2>1. Flags
      BY DEF AppInit, Fresh, Flags
    <2>2. Labels
      BY DEF AppInit, Fresh, Labels
    <2>3. Sizes /\ BarIn /\ Places
      BY Bounds DEF AppInit, Fresh, Sizes, BarIn, Places
    <2>4. Entries /\ Counts
      BY FS_EmptySet DEF AppInit, Fresh, Entries, Counts, Pending
    <2>. QED  BY <2>1, <2>2, <2>3, <2>4 DEF TypeInv
  <1>2. TypeInv /\ IInv /\ [AppNext]_vars => TypeInv'
    <2>. SUFFICES ASSUME TypeInv, IInv, [AppNext]_vars
                  PROVE  Sizes' /\ Places' /\ Entries' /\ Counts' /\ BarIn'
      BY LabelsStep, FlagsStep DEF TypeInv
    <2>1. CASE WorkerStep
      BY <2>1, WorkerAmounts, WorkerVerdicts DEF TypeInv, IInv
    <2>2. CASE AppNext /\ ~WorkerStep
      BY <2>2, OtherAmounts DEF TypeInv, IInv
    <2>3. CASE UNCHANGED vars
      BY <2>3 DEF TypeInv, vars, Sizes, Places, Entries, Counts, Pending, BarIn, progress, place,
         display, list
    <2>. QED  BY <2>1, <2>2, <2>3
  <1>. QED  BY <1>1, <1>2, Invariance, PTL DEF AppSpec

\* Every variable keeps its type; in particular the sizes stay a guint64, the
\* bar a fraction, and the counter within the entries.
THEOREM Typing == AppSpec => []TypeOK
  <1>1. TypeInv => TypeOK
    <2>. SUFFICES ASSUME TypeInv PROVE TypeOK
      OBVIOUS
    <2>1. Cardinality(decided) <= Cardinality(Names) /\ Cardinality(Names) \in Nat
      BY Bounds, FS_Subset, FS_CardinalityType DEF TypeInv, Entries
    <2>2. count \in 0 .. Cardinality(Names) /\ shown \in 0 .. Cardinality(Names)
      BY <2>1 DEF TypeInv, Counts, Pending
    <2>. QED  BY <2>2 DEF TypeInv, TypeOK, Flags, Labels, Sizes, Places, Entries, BarIn
  <1>. QED  BY <1>1, TypeInvariance, PTL

-----------------------------------------------------------------------------
(* The sums of the two sides *)

\* The names of the first k items.
Met(k) == {Items[j].name : j \in 1 .. k}

\* As long as nothing fails and the user does not interfere, "total-size" is
\* the sum over the planned items; and what the processor has added up is no
\* more than the items can add, and no less than the planner has counted of
\* those it is through with, unless one has shrunk or was decided before.
SumInv ==
    ~requested /\ ~erred =>
        /\ after = "plan" =>
              /\ total_size = PlannedSize[item - 1]
              /\ curr_size = 0
              /\ seen = Met(item - 1)
              /\ disagreed = {} => decided = {}
        /\ after # "plan" =>
              /\ total_size = PlannedSize[Len(Items)]
              /\ ~verify_only =>
                    /\ curr_size <= ProcessedSize[item - 1]
                    /\ ~shrunk /\ disagreed = {} =>
                          curr_size >= PlannedSize[item - 1] /\ decided \subseteq Met(item - 1)

\* The bar is never ahead of the sums; from the last update on it is not behind
\* them either.
BarInv ==
    /\ after = "plan" => bar = 0
    /\ ~requested /\ ~erred /\ ~verify_only /\ total_size > 0 =>
          /\ bar = FULL => curr_size >= total_size
          /\ worker \in {"updating", "wait"} /\ curr_size >= total_size =>
                bar = FULL /\ text = "Completed"

\* The two sums, by the items: neither is more than the processor's over all
\* items.
LEMMA SumsStep ==
    /\ ProcessedSize[0] = 0 /\ PlannedSize[0] = 0
    /\ \A k \in 0 .. Len(Items) : ProcessedSize[k] \in Nat /\ PlannedSize[k] \in Nat
                                  /\ ProcessedSize[k] <= ProcessedSize[Len(Items)]
                                  /\ PlannedSize[k] <= ProcessedSize[Len(Items)]
    /\ \A k \in 1 .. Len(Items) :
          /\ ProcessedSize[k] = ProcessedSize[k - 1] + Items[k].most
          /\ PlannedSize[k] = IF Again(k) THEN PlannedSize[k - 1]
                              ELSE PlannedSize[k - 1] + Items[k].size
  <1>. DEFINE n == Len(Items)
              s == [k \in 1 .. n |-> IF Again(k) THEN 0 ELSE Items[k].size]
              t == [k \in 1 .. n |-> Items[k].most]
  <1>1. n \in Nat /\ s \in [1 .. n -> Nat] /\ t \in [1 .. n -> Nat] /\ \A k \in 1 .. n : s[k] <= t[k]
    BY ItemsType
  <1>2. Sums(s, n, PlannedSize) /\ Sums(t, n, ProcessedSize)
    BY ProcessedSums, PlannedSums
  <1>3. /\ ProcessedSize \in [0 .. n -> Nat] /\ ProcessedSize[0] = 0
        /\ \A k \in 1 .. n : ProcessedSize[k] = ProcessedSize[k - 1] + t[k]
        /\ PlannedSize \in [0 .. n -> Nat] /\ PlannedSize[0] = 0
        /\ \A k \in 1 .. n : PlannedSize[k] = PlannedSize[k - 1] + s[k]
    BY <1>2 DEF Sums
  <1>4. \A k \in 0 .. n : PlannedSize[k] <= ProcessedSize[k] /\ ProcessedSize[k] <= ProcessedSize[n]
    <2>. HIDE DEF n, s, t
    <2>. QED  BY <1>1, <1>2, SumsOrdered, SumsGrow
  <1>5. ASSUME NEW k \in 0 .. n
        PROVE  /\ ProcessedSize[k] \in Nat /\ PlannedSize[k] \in Nat
               /\ ProcessedSize[k] <= ProcessedSize[n] /\ PlannedSize[k] <= ProcessedSize[n]
    <2>1. /\ ProcessedSize[k] \in Nat /\ PlannedSize[k] \in Nat
          /\ PlannedSize[k] <= ProcessedSize[k] /\ ProcessedSize[k] <= ProcessedSize[n]
      BY <1>3, <1>4
    <2>2. n \in 0 .. n
      BY <1>1
    <2>3. ProcessedSize[n] \in Nat
      BY <1>3, <2>2
    <2>. QED  BY <2>1, <2>3
  <1>6. ASSUME NEW k \in 1 .. n
        PROVE  /\ ProcessedSize[k] = ProcessedSize[k - 1] + Items[k].most
               /\ PlannedSize[k] = IF Again(k) THEN PlannedSize[k - 1]
                                   ELSE PlannedSize[k - 1] + Items[k].size
    <2>1. k - 1 \in 0 .. n
      BY <1>1
    <2>2. PlannedSize[k - 1] \in Nat
      BY <1>3, <2>1
    <2>. QED  BY <1>3, <2>2
  <1>. QED  BY <1>3, <1>5, <1>6

\* The sums fit: adding what the next item has does not wrap.
LEMMA NextSum ==
    ASSUME SizesFit, NEW k \in 1 .. Len(Items)
    PROVE  /\ ProcessedSize[k] \in Nat /\ ProcessedSize[k - 1] \in Nat
           /\ PlannedSize[k] \in Nat /\ PlannedSize[k - 1] \in Nat
           /\ ProcessedSize[k] = ProcessedSize[k - 1] + Items[k].most
           /\ ProcessedSize[k] < SIZE_MOD
           /\ PlannedSize[k] = IF Again(k) THEN PlannedSize[k - 1]
                               ELSE (PlannedSize[k - 1] + Items[k].size) % SIZE_MOD
           /\ PlannedSize[k] = IF Again(k) THEN PlannedSize[k - 1]
                               ELSE PlannedSize[k - 1] + Items[k].size
           /\ Again(k) <=> Items[k].name \in Met(k - 1)
           /\ Met(k) = Met(k - 1) \cup {Items[k].name}
  <1>1. ASSUME NEW a \in Nat, a < SIZE_MOD PROVE a % SIZE_MOD = a
    BY <1>1, Bounds
  <1>2. k \in 0 .. Len(Items) /\ k - 1 \in 0 .. Len(Items) /\ Len(Items) \in 0 .. Len(Items)
    BY Bounds
  <1>3. /\ ProcessedSize[k] \in Nat /\ PlannedSize[k] \in Nat
        /\ ProcessedSize[k] < SIZE_MOD /\ PlannedSize[k] < SIZE_MOD
    <2>1. ProcessedSize[Len(Items)] < SIZE_MOD /\ SIZE_MOD \in Nat /\ ProcessedSize[Len(Items)] \in Nat
      BY <1>2, SumsStep, Bounds DEF SizesFit
    <2>2. /\ ProcessedSize[k] \in Nat /\ PlannedSize[k] \in Nat
          /\ ProcessedSize[k] <= ProcessedSize[Len(Items)]
          /\ PlannedSize[k] <= ProcessedSize[Len(Items)]
      BY <1>2, SumsStep
    <2>. QED  BY <2>1, <2>2
  <1>4. /\ ProcessedSize[k - 1] \in Nat /\ PlannedSize[k - 1] \in Nat
        /\ ProcessedSize[k] = ProcessedSize[k - 1] + Items[k].most
        /\ PlannedSize[k] = IF Again(k) THEN PlannedSize[k - 1]
                            ELSE PlannedSize[k - 1] + Items[k].size
    BY <1>2, SumsStep
  <1>5. Again(k) <=> Items[k].name \in Met(k - 1)
    BY DEF Again, Met
  <1>6. Met(k) = Met(k - 1) \cup {Items[k].name}
    <2>1. 1 .. k = (1 .. k - 1) \cup {k}
      OBVIOUS
    <2>. QED  BY <2>1 DEF Met
  <1>. QED  BY <1>1, <1>3, <1>4, <1>5, <1>6

\* A quotient is at least m if and only if m divisors fit into the dividend.
LEMMA Quotient ==
    ASSUME NEW a \in Nat, NEW t \in Nat \ {0}, NEW m \in Nat
    PROVE  (a \div t) \in Nat /\ (a \div t >= m <=> a >= t * m)
  <1>. DEFINE q == a \div t
              r == a % t
  <1>1. q \in Nat /\ r \in 0 .. t - 1 /\ a = t * q + r
    OBVIOUS
  <1>. HIDE DEF q, r
  <1>2. ASSUME q >= m PROVE a >= t * m
    <2>1. PICK d \in Nat : q = m + d
      <3>1. q - m \in Nat /\ q = m + (q - m)
        BY <1>1, <1>2
      <3>. QED  BY <3>1
    <2>2. t * q = t * m + t * d /\ t * d \in Nat /\ t * m \in Nat
      BY <2>1
    <2>. QED  BY <1>1, <2>2
  <1>3. ASSUME q < m PROVE a < t * m
    <2>1. PICK d \in Nat : m = q + 1 + d
      <3>1. m - q - 1 \in Nat /\ m = q + 1 + (m - q - 1)
        BY <1>1, <1>3
      <3>. QED  BY <3>1
    <2>2. t * m = t * q + t + t * d /\ t * d \in Nat /\ t * q \in Nat
      BY <1>1, <2>1
    <2>. QED  BY <1>1, <2>2
  <1>4. t * m \in Nat
    OBVIOUS
  <1>. QED  BY <1>1, <1>2, <1>3, <1>4 DEF q

\* More of it makes a product larger.
LEMMA Product ==
    ASSUME NEW c \in Nat, NEW d \in Nat, NEW f \in Nat \ {0}
    PROVE  c * f \in Nat /\ d * f \in Nat /\ (c * f >= d * f <=> c >= d)
  <1>1. ASSUME NEW x \in Nat, NEW y \in Nat, x >= y PROVE x * f >= y * f
    <2>1. PICK e \in Nat : x = y + e
      <3>1. x - y \in Nat /\ x = y + (x - y)
        BY <1>1
      <3>. QED  BY <3>1
    <2>2. x * f = y * f + e * f /\ e * f \in Nat /\ y * f \in Nat
      BY <2>1
    <2>. QED  BY <2>2
  <1>2. ASSUME c < d PROVE c * f < d * f
    <2>1. d >= c + 1 /\ c + 1 \in Nat
      BY <1>2
    <2>2. d * f >= (c + 1) * f
      BY <1>1, <2>1
    <2>3. (c + 1) * f = c * f + f /\ c * f \in Nat /\ d * f \in Nat
      OBVIOUS
    <2>. QED  BY <2>2, <2>3
  <1>3. c * f \in Nat /\ d * f \in Nat
    OBVIOUS
  <1>. QED  BY <1>1, <1>2, <1>3

\* When no error came in between, the fraction is defined, and it is the whole
\* exactly if all that was planned is added up.
LEMMA Fraction ==
    ASSUME SizesFit, Sizes, total_size > 0, total_size = PlannedSize[Len(Items)],
           curr_size <= ProcessedSize[Len(Items)]
    PROVE  \E permil \in 0 .. FULL : Permil = {permil} /\ (permil = FULL <=> curr_size >= total_size)
  <1>1. Len(Items) \in 0 .. Len(Items)
    BY Bounds
  <1>2. total_size \in Nat \ {0} /\ curr_size \in Nat /\ ProcessedSize[Len(Items)] \in Nat
    BY <1>1, SumsStep, Bounds DEF Sizes
  <1>3. FULL \in Nat \ {0} /\ GINT_MAX \in Nat
    BY Bounds
  <1>. DEFINE permil == (curr_size * FULL) \div total_size
              most == (ProcessedSize[Len(Items)] * FULL) \div total_size
  <1>4. curr_size * FULL \in Nat /\ ProcessedSize[Len(Items)] * FULL \in Nat
        /\ total_size * FULL \in Nat
        /\ ProcessedSize[Len(Items)] * FULL >= curr_size * FULL
        /\ (curr_size * FULL >= total_size * FULL <=> curr_size >= total_size)
    BY <1>2, <1>3, Product
  <1>5. permil \in Nat /\ (permil >= FULL <=> curr_size >= total_size)
    BY <1>2, <1>3, <1>4, Quotient
  <1>6. most <= GINT_MAX
    BY <1>2 DEF SizesFit
  <1>7. permil <= most /\ most \in Nat
    <2>1. curr_size * FULL >= total_size * permil
      <3>. DEFINE a == curr_size * FULL
      <3>1. a \in Nat /\ a \div total_size \in Nat
        BY <1>4, <1>5
      <3>. HIDE DEF a
      <3>2. a >= total_size * (a \div total_size)
        BY <3>1, <1>2, Quotient
      <3>. QED  BY <3>2 DEF a
    <2>2. total_size * permil \in Nat
      BY <1>2, <1>5
    <2>3. ProcessedSize[Len(Items)] * FULL >= total_size * permil
      <3>. HIDE DEF permil
      <3>. QED  BY <1>4, <2>1, <2>2
    <2>. HIDE DEF permil
    <2>. QED  BY <2>3, <1>2, <1>4, <1>5, Quotient
  <1>. HIDE DEF most
  <1>8. Permil = {IF permil > FULL THEN FULL ELSE permil}
    <2>1. ~ (total_size = 0 \/ permil > GINT_MAX)
      BY <1>2, <1>3, <1>5, <1>6, <1>7
    <2>. QED  BY <2>1 DEF Permil
  <1>. HIDE DEF permil
  <1>. QED  BY <1>3, <1>5, <1>8

\* What an update makes of a bar that is not ahead: one that is not ahead; and
\* in a dialog that is done, one that is not behind.
LEMMA BarFollows ==
    ASSUME SizesFit, Sizes, BarIn, total_size > 0, total_size = PlannedSize[Len(Items)],
           curr_size <= ProcessedSize[Len(Items)], bar = FULL => curr_size >= total_size,
           NEW st \in {"COPYING", "COMPLETED"}, UpdateProgress(st)
    PROVE  /\ bar' = FULL => curr_size >= total_size
           /\ st = "COMPLETED" /\ curr_size >= total_size => bar' = FULL /\ text' = "Completed"
  <1>1. PICK permil \in 0 .. FULL :
           Permil = {permil} /\ (permil = FULL <=> curr_size >= total_size)
    BY Fraction
  <1>2. FULL \in Nat \ {0} /\ bar \in 0 .. FULL
    BY Bounds DEF BarIn
  <1>3. \/ permil = FULL /\ bar' = FULL /\ (st = "COMPLETED" => text' = "Completed")
        \/ permil # FULL /\ bar' = permil
        \/ permil # FULL /\ bar' = bar
    <2>1. permil \in Int /\ permil >= 0 /\ permil <= FULL
      BY <1>1, <1>2
    <2>. QED  BY <1>1, <1>2, <2>1 DEF UpdateProgress, display
  <1>. QED  BY <1>1, <1>3

\* What is added of an item: no less than nothing, no more than it can add, and
\* as much as was planned unless it has shrunk.
LEMMA ItemAdds ==
    ASSUME SizesFit, Sizes, item \in 1 .. Len(Items), AddItem,
           curr_size <= ProcessedSize[item - 1]
    PROVE  /\ curr_size <= curr_size' /\ curr_size' <= ProcessedSize[item]
           /\ ~shrunk' => /\ ~shrunk
                          /\ curr_size >= PlannedSize[item - 1] => curr_size' >= PlannedSize[item]
  <1>1. PICK k \in 0 .. Items[item].most :
           AddSize(k) /\ shrunk' = (shrunk \/ k < Items[item].size)
    BY DEF AddItem
  <1>2. /\ ProcessedSize[item - 1] \in Nat /\ ProcessedSize[item] \in Nat
        /\ ProcessedSize[item] < SIZE_MOD
        /\ ProcessedSize[item] = ProcessedSize[item - 1] + Items[item].most
        /\ PlannedSize[item - 1] \in Nat /\ PlannedSize[item] \in Nat
        /\ PlannedSize[item] <= PlannedSize[item - 1] + Items[item].size
    <2>. DEFINE i == item
    <2>1. i \in 1 .. Len(Items) /\ Items[i].size \in Nat
      BY ItemsType
    <2>. QED  BY <2>1, NextSum
  <1>3. k \in Nat /\ k <= Items[item].most /\ Items[item].most \in Nat /\ Items[item].size \in Nat
    BY ItemsType
  <1>4. curr_size \in Nat /\ SIZE_MOD \in Nat \ {0}
    BY Bounds DEF Sizes
  <1>5. curr_size + k \in 0 .. SIZE_MOD - 1 /\ curr_size + k <= ProcessedSize[item]
    BY <1>2, <1>3, <1>4
  <1>6. curr_size' = curr_size + k
    <2>1. ASSUME NEW x \in 0 .. SIZE_MOD - 1 PROVE x % SIZE_MOD = x
      BY <1>4
    <2>. QED  BY <1>1, <1>5, <2>1 DEF AddSize
  <1>7. ~shrunk' => ~shrunk /\ k >= Items[item].size
    <2>1. ~shrunk' => ~shrunk /\ ~ (k < Items[item].size)
      BY <1>1, Zenon
    <2>. QED  BY <2>1, <1>3
  <1>. QED  BY <1>2, <1>3, <1>4, <1>5, <1>6, <1>7

\* A step of the worker keeps the bounds.
LEMMA WorkerSums ==
    ASSUME SizesFit, Sizes, Places, PlaceInv, RequestInv, SumInv, WorkerStep
    PROVE  SumInv'
  <1>. SUFFICES ASSUME ~requested', ~erred' PROVE SumInv'
    BY DEF SumInv
  <1>n. PICK n \in Nat : n = Len(Items)
    BY Bounds
  <1>q. requested' = requested /\ ~erred
    BY DEF WorkerStep, StartCalculating, PlanItem, PlanFails, ListsDisagree, StartCopying, ItemSkipped,
       DirectoryDone, FileDone, ItemFails, ShowError, LeaveError, LockStats, CountFile, StartWriting,
       ResetCancelled, WriteFails, EndWriting, SweepEntry, SetCompleted, LastUpdate, request
  <1>p. /\ item \in 1 .. n + 1
        /\ worker \in {"reset", "writing", "written", "sweep", "updating", "wait"} => item > n
        /\ worker \in {"none", "start", "plan"} => after = "plan"
        /\ worker \in {"item", "reset", "writing", "written", "sweep", "updating", "wait"} =>
              after # "plan"
        /\ ~cancelled
        /\ after = "plan" =>
              /\ total_size = PlannedSize[item - 1] /\ curr_size = 0 /\ seen = Met(item - 1)
              /\ disagreed = {} => decided = {}
        /\ after # "plan" =>
              /\ total_size = PlannedSize[n]
              /\ ~verify_only =>
                    /\ curr_size <= ProcessedSize[item - 1]
                    /\ ~shrunk /\ disagreed = {} =>
                          curr_size >= PlannedSize[item - 1] /\ decided \subseteq Met(item - 1)
    BY <1>n, <1>q DEF Places, PlaceInv, RequestInv, SumInv
  <1>z. ProcessedSize[0] = 0 /\ PlannedSize[0] = 0 /\ curr_size \in Nat /\ SIZE_MOD \in Nat \ {0}
    BY SumsStep, Bounds DEF Sizes
  <1>g. SUFFICES /\ after' = "plan" =>
                       /\ total_size' = PlannedSize[item' - 1]
                       /\ curr_size' = 0
                       /\ seen' = Met(item' - 1)
                       /\ disagreed' = {} => decided' = {}
                 /\ after' # "plan" =>
                       /\ total_size' = PlannedSize[n]
                       /\ ~verify_only' =>
                             /\ curr_size' <= ProcessedSize[item' - 1]
                             /\ ~shrunk' /\ disagreed' = {} =>
                                   /\ curr_size' >= PlannedSize[item' - 1]
                                   /\ decided' \subseteq Met(item' - 1)
    BY <1>n DEF SumInv, Met
  <1>i. ASSUME item <= n
        PROVE  /\ item \in 1 .. Len(Items) /\ (item + 1) - 1 = item
               /\ Items[item].size \in Nat /\ Items[item].most \in Nat
    <2>1. item \in 1 .. Len(Items) /\ (item + 1) - 1 = item
      BY <1>i, <1>n, <1>p
    <2>. QED  BY <2>1, ItemsType
  <1>a. ASSUME item <= n, ~verify_only, after # "plan", AddItem
        PROVE  /\ curr_size' <= ProcessedSize[item]
               /\ ~shrunk' /\ disagreed = {} => ~shrunk /\ curr_size' >= PlannedSize[item]
    BY <1>a, <1>i, <1>p, ItemAdds
  <1>. USE DEF Running, At, AtItem, place, progress, config, list, Name
  <1>1. CASE StartCalculating
    BY <1>1, <1>p DEF StartCalculating
  <1>2. CASE PlanItem
    <2>1. item \in 1 .. Len(Items) /\ (item + 1) - 1 = item
      BY <1>2, <1>n, <1>i DEF PlanItem
    <2>2. total_size' = PlannedSize[item]
      BY <1>2, <1>p, <2>1, NextSum DEF PlanItem, CountSize
    <2>3. seen' = Met(item)
      BY <1>2, <1>p, <2>1, NextSum DEF PlanItem, CountSize
    <2>. QED  BY <1>2, <1>p, <2>1, <2>2, <2>3 DEF PlanItem
  <1>3. CASE PlanFails
    BY <1>3, <1>p DEF PlanFails
  <1>4. CASE ListsDisagree
    <2>1. disagreed' # {}
      BY <1>4 DEF ListsDisagree
    <2>. QED  BY <1>4, <1>p, <2>1 DEF ListsDisagree
  <1>5. CASE StartCopying
    <2>1. item = n + 1 /\ item - 1 = n /\ 1 - 1 = 0
      BY <1>5, <1>n, <1>p DEF StartCopying
    <2>. QED  BY <1>5, <1>p, <1>z, <2>1 DEF StartCopying, Met
  <1>6. CASE ItemSkipped
    <2>1. item <= n /\ item \in 1 .. Len(Items) /\ (item + 1) - 1 = item /\ Items[item].most \in Nat
      BY <1>6, <1>n, <1>i DEF ItemSkipped
    <2>2. /\ ProcessedSize[item - 1] \in Nat /\ ProcessedSize[item - 1] <= ProcessedSize[item]
          /\ Name \in Met(item - 1) => PlannedSize[item] = PlannedSize[item - 1]
          /\ Met(item - 1) \subseteq Met(item)
      BY <2>1, NextSum
    <2>3. ASSUME ~verify_only PROVE curr_size <= ProcessedSize[item]
      <3>1. curr_size <= ProcessedSize[item - 1] /\ ProcessedSize[item] \in Nat
        BY <1>6, <1>p, <2>1, <2>3, NextSum DEF ItemSkipped
      <3>. QED  BY <1>z, <2>2, <3>1
    <2>4. ASSUME ~verify_only, ~shrunk, disagreed = {}
          PROVE  curr_size >= PlannedSize[item] /\ decided \subseteq Met(item)
      <3>1. curr_size >= PlannedSize[item - 1] /\ decided \subseteq Met(item - 1)
        BY <1>6, <1>p, <2>4 DEF ItemSkipped
      <3>2. Name \in Met(item - 1)
        BY <1>6, <3>1 DEF ItemSkipped
      <3>. QED  BY <2>2, <3>1, <3>2
    <2>. QED  BY <1>6, <1>p, <2>1, <2>3, <2>4 DEF ItemSkipped
  <1>7. CASE DirectoryDone
    <2>1. item <= n /\ item \in 1 .. Len(Items) /\ (item + 1) - 1 = item /\ after # "plan"
      BY <1>7, <1>n, <1>i, <1>p DEF DirectoryDone
    <2>2. Met(item - 1) \subseteq Met(item)
      BY <2>1, NextSum
    <2>3. ~verify_only => AddItem
      BY <1>7 DEF DirectoryDone
    <2>. QED  BY <1>7, <1>a, <1>p, <2>1, <2>2, <2>3 DEF DirectoryDone
  <1>8. CASE FileDone
    <2>1. item <= n /\ item \in 1 .. Len(Items) /\ (item + 1) - 1 = item /\ after # "plan"
      BY <1>8, <1>n, <1>i, <1>p DEF FileDone
    <2>2. Met(item) = Met(item - 1) \cup {Name}
      BY <2>1, NextSum
    <2>3. AddItem
      BY <1>8 DEF FileDone
    <2>. QED  BY <1>8, <1>a, <1>p, <2>1, <2>2, <2>3 DEF FileDone
  <1>9. CASE ItemFails
    BY <1>9 DEF ItemFails
  <1>10. CASE ShowError
    BY <1>10, <1>p DEF ShowError
  <1>11. CASE LeaveError
    BY <1>11, <1>p DEF LeaveError
  <1>12. CASE LockStats
    BY <1>12, <1>p DEF LockStats
  <1>13. CASE CountFile
    BY <1>13, <1>p DEF CountFile
  <1>14. CASE StartWriting
    <2>1. item = n + 1 /\ item' = item
      BY <1>14, <1>n, <1>p DEF StartWriting
    <2>. QED  BY <1>14, <1>p, <2>1 DEF StartWriting
  <1>15. CASE ResetCancelled
    BY <1>15, <1>p DEF ResetCancelled
  <1>16. CASE WriteFails
    BY <1>16, <1>p DEF WriteFails
  <1>17. CASE EndWriting
    BY <1>17, <1>p DEF EndWriting
  <1>18. CASE SweepEntry
    BY <1>18, <1>p DEF SweepEntry
  <1>19. CASE SetCompleted
    BY <1>19, <1>p DEF SetCompleted
  <1>20. CASE LastUpdate
    BY <1>20, <1>p DEF LastUpdate
  <1>. QED  BY <1>1, <1>2, <1>3, <1>4, <1>5, <1>6, <1>7, <1>8, <1>9, <1>10, <1>11, <1>12, <1>13,
               <1>14, <1>15, <1>16, <1>17, <1>18, <1>19, <1>20 DEF WorkerStep

\* Nobody else adds anything up.
LEMMA OtherStep ==
    ASSUME StartInv, PlaceInv, AppNext, ~WorkerStep
    PROVE  /\ UNCHANGED <<total_size, curr_size, shrunk, item, after, seen, decided, disagreed, erred>>
           /\ requested => requested'
           /\ \/ worker' = worker
              \/ worker = "asking" /\ worker' = "answered"
              \/ worker = "none" /\ worker' = "start"
           /\ verify_only' = verify_only \/ after = "plan"
           /\ UpdateBar \/ UNCHANGED <<bar, text>>
  <1>. USE DEF AppNext, Next, GuiStep, UpdateBar, UpdateLabels, TimerFires, Answer, UseDestroyed, Click,
       StartUp, LeaveAtOnce, ShowUsage, CloseUsage, TakeDestination, AskForDestination, Choose,
       Dismiss, CreateDialog, StartWorker, EnterMain
  <1>1. UNCHANGED <<total_size, curr_size, shrunk, item, after, seen, decided, disagreed, erred>>
    BY DEF progress, place, list
  <1>2. requested => requested'
    BY DEF request
  <1>3. \/ worker' = worker
        \/ worker = "asking" /\ worker' = "answered"
        \/ worker = "none" /\ worker' = "start"
    BY DEF StartInv, Starting
  <1>4. verify_only' = verify_only \/ after = "plan"
    BY DEF StartInv, Starting, PlaceInv, config
  <1>5. UpdateBar \/ UNCHANGED <<bar, text>>
    BY DEF display
  <1>. QED  BY <1>1, <1>2, <1>3, <1>4, <1>5

LEMMA OtherSums ==
    ASSUME StartInv, PlaceInv, SumInv, AppNext, ~WorkerStep
    PROVE  SumInv'
  BY OtherStep DEF SumInv, Met

\* While the processor works and nothing fails, what it has added up only grows.
LEMMA SizeGrows ==
    ASSUME SizesFit, Sizes, Places, PlaceInv, SumInv, WorkerStep, ~requested', ~erred', ~verify_only',
           after # "plan"
    PROVE  /\ total_size' = total_size /\ curr_size <= curr_size' /\ after' # "plan"
           /\ ~requested /\ ~erred /\ ~verify_only
           /\ total_size = PlannedSize[Len(Items)] /\ curr_size <= ProcessedSize[item - 1]
  <1>1. ~requested /\ ~erred /\ ~verify_only
    BY DEF WorkerStep, StartCalculating, PlanItem, PlanFails, ListsDisagree, StartCopying, ItemSkipped,
       DirectoryDone, FileDone, ItemFails, ShowError, LeaveError, LockStats, CountFile, StartWriting,
       ResetCancelled, WriteFails, EndWriting, SweepEntry, SetCompleted, LastUpdate,
       request, config
  <1>2. total_size = PlannedSize[Len(Items)] /\ curr_size <= ProcessedSize[item - 1]
    BY <1>1 DEF SumInv
  <1>3. total_size' = total_size /\ after' # "plan"
    BY DEF WorkerStep, StartCalculating, PlanItem, PlanFails, ListsDisagree, StartCopying, ItemSkipped,
       DirectoryDone, FileDone, ItemFails, ShowError, LeaveError, LockStats, CountFile, StartWriting,
       ResetCancelled, WriteFails, EndWriting, SweepEntry, SetCompleted, LastUpdate,
       At, AtItem, PlaceInv, progress, place
  <1>4. CASE AtItem /\ AddItem
    <2>1. item \in 1 .. Len(Items)
      BY <1>4, Bounds DEF AtItem, Places
    <2>. QED  BY <1>1, <1>2, <1>3, <1>4, <2>1, ItemAdds
  <1>5. CASE curr_size' = curr_size
    BY <1>1, <1>2, <1>3, <1>5, Bounds DEF Sizes
  <1>6. (AtItem /\ AddItem) \/ curr_size' = curr_size
    BY <1>1 DEF WorkerStep, StartCalculating, PlanItem, PlanFails, ListsDisagree, StartCopying, ItemSkipped,
       DirectoryDone, FileDone, ItemFails, ShowError, LeaveError, LockStats, CountFile, StartWriting,
       ResetCancelled, WriteFails, EndWriting, SweepEntry, SetCompleted, LastUpdate,
       At, PlaceInv, progress
  <1>. QED  BY <1>4, <1>5, <1>6

\* A step of the worker keeps the bar with the sums.
LEMMA WorkerBar ==
    ASSUME SizesFit, Labels, Sizes, Places, BarIn, TimerInv, PlaceInv, SumInv, BarInv, WorkerStep
    PROVE  BarInv'
  <1>f. FULL \in Nat \ {0}
    BY Bounds
  <1>1. CASE after = "plan"
    <2>1. UNCHANGED bar /\ worker' \notin {"updating", "wait"}
      BY <1>1 DEF WorkerStep, StartCalculating, PlanItem, PlanFails, ListsDisagree, StartCopying, ItemSkipped,
       DirectoryDone, FileDone, ItemFails, ShowError, LeaveError, LockStats, CountFile, StartWriting,
       ResetCancelled, WriteFails, EndWriting, SweepEntry, SetCompleted, LastUpdate,
         At, AtItem, PlaceInv, display
    <2>. QED  BY <1>1, <1>f, <2>1 DEF BarInv
  <1>2. CASE after # "plan"
    <2>1. after' # "plan"
      BY <1>2 DEF WorkerStep, StartCalculating, PlanItem, PlanFails, ListsDisagree, StartCopying, ItemSkipped,
       DirectoryDone, FileDone, ItemFails, ShowError, LeaveError, LockStats, CountFile, StartWriting,
       ResetCancelled, WriteFails, EndWriting, SweepEntry, SetCompleted, LastUpdate,
         At, AtItem, PlaceInv, place
    <2>. SUFFICES ASSUME ~requested', ~erred', ~verify_only', total_size' > 0
                  PROVE  /\ bar' = FULL => curr_size' >= total_size'
                         /\ worker' \in {"updating", "wait"} /\ curr_size' >= total_size' =>
                               bar' = FULL /\ text' = "Completed"
      BY <2>1 DEF BarInv
    <2>2. /\ total_size' = total_size /\ curr_size <= curr_size'
          /\ ~requested /\ ~erred /\ ~verify_only
          /\ total_size = PlannedSize[Len(Items)] /\ curr_size <= ProcessedSize[item - 1]
      BY <1>2, SizeGrows
    <2>3. total_size \in Int /\ curr_size \in Int /\ total_size > 0
          /\ (bar = FULL => curr_size >= total_size)
      BY <2>2, Bounds DEF Sizes, BarInv
    <2>4. CASE SetCompleted
      <3>1. idle_tag /\ UpdateProgress("COMPLETED") /\ curr_size' = curr_size
        BY <1>2, <2>4 DEF SetCompleted, At, TimerInv, progress
      <3>2. item - 1 = Len(Items)
        BY <2>4, Bounds DEF SetCompleted, At, Places
      <3>. QED  BY <2>2, <2>3, <3>1, <3>2, BarFollows
    <2>5. CASE ~SetCompleted
      <3>1. UNCHANGED <<bar, text>>
        BY <2>5 DEF WorkerStep, StartCalculating, PlanItem, PlanFails, ListsDisagree, StartCopying, ItemSkipped,
       DirectoryDone, FileDone, ItemFails, ShowError, LeaveError, LockStats, CountFile, StartWriting,
       ResetCancelled, WriteFails, EndWriting, SweepEntry, LastUpdate,
           display
      <3>2. worker' \in {"updating", "wait"} => worker = "updating" /\ curr_size' = curr_size
        BY <1>2, <2>5 DEF WorkerStep, StartCalculating, PlanItem, PlanFails, ListsDisagree, StartCopying, ItemSkipped,
       DirectoryDone, FileDone, ItemFails, ShowError, LeaveError, LockStats, CountFile, StartWriting,
       ResetCancelled, WriteFails, EndWriting, SweepEntry, LastUpdate,
           At, AtItem, PlaceInv, progress
      <3>3. curr_size' \in Int
        BY WorkerAmounts, Bounds DEF Sizes
      <3>. QED  BY <2>2, <2>3, <3>1, <3>2, <3>3 DEF BarInv
    <2>. QED  BY <2>4, <2>5
  <1>. QED  BY <1>1, <1>2

\* The update of the timer keeps the bar with the sums, even if it comes last.
LEMMA OtherBar ==
    ASSUME SizesFit, Sizes, Places, BarIn, TimerInv, StartInv, PlaceInv, SumInv, BarInv,
           AppNext, ~WorkerStep
    PROVE  BarInv'
  <1>f. FULL \in Nat \ {0}
    BY Bounds
  <1>1. /\ UNCHANGED <<total_size, curr_size, item, after, erred>>
        /\ requested => requested'
        /\ verify_only' = verify_only \/ after = "plan"
        /\ worker' \in {"updating", "wait"} => worker' = worker
    BY OtherStep
  <1>2. CASE UpdateBar
    <2>1. UpdateProgress(status) /\ worker' = worker /\ after # "plan"
          /\ status \in {"COPYING", "COMPLETED"}
          /\ (worker \in {"updating", "wait"} => status = "COMPLETED")
      BY <1>2 DEF UpdateBar, TimerInv
    <2>. SUFFICES ASSUME ~requested, ~erred, ~verify_only, total_size > 0
                  PROVE  /\ bar' = FULL => curr_size >= total_size
                         /\ worker \in {"updating", "wait"} /\ curr_size >= total_size =>
                               bar' = FULL /\ text' = "Completed"
      BY <1>1, <2>1 DEF BarInv
    <2>2. /\ total_size = PlannedSize[Len(Items)] /\ curr_size <= ProcessedSize[item - 1]
          /\ (bar = FULL => curr_size >= total_size)
      BY <2>1 DEF SumInv, BarInv
    <2>3. curr_size <= ProcessedSize[Len(Items)]
      <3>1. item - 1 \in 0 .. Len(Items) /\ Len(Items) \in 0 .. Len(Items)
        BY Bounds DEF Places
      <3>2. /\ ProcessedSize[item - 1] \in Nat /\ ProcessedSize[Len(Items)] \in Nat
            /\ ProcessedSize[item - 1] <= ProcessedSize[Len(Items)]
        BY <3>1, SumsStep
      <3>3. curr_size \in Int
        BY Bounds DEF Sizes
      <3>. QED  BY <2>2, <3>2, <3>3
    <2>. QED  BY <2>1, <2>2, <2>3, BarFollows
  <1>3. CASE UNCHANGED <<bar, text>>
    <2>1. after = "plan" => worker' \notin {"updating", "wait"} /\ bar' # FULL
      BY <1>1, <1>3, <1>f DEF PlaceInv, BarInv
    <2>. QED  BY <1>1, <1>3, <2>1 DEF BarInv
  <1>. QED  BY <1>2, <1>3, OtherStep

\* However the two threads interleave, and whatever the timer has shown before,
\* the bar that an undisturbed copy leaves behind is full exactly if as much is
\* added up as was planned; and so it is if no item shrinks and no two lists
\* disagree, for any items whose sizes fit.
THEOREM LeavesFinalBar ==
    ASSUME SizesFit
    PROVE  AppSpec => []FinalBar
  <1>1. AppInit => SumInv /\ BarInv
    <2>1. Met(0) = {} /\ FULL \in Nat \ {0}
      BY Bounds DEF Met
    <2>. QED  BY <2>1, SumsStep DEF AppInit, Fresh, SumInv, BarInv
  <1>2. TypeInv /\ IInv /\ SumInv /\ BarInv /\ [AppNext]_vars => (SumInv /\ BarInv)'
    <2>. SUFFICES ASSUME TypeInv, IInv, SumInv, BarInv, [AppNext]_vars PROVE SumInv' /\ BarInv'
      OBVIOUS
    <2>1. CASE WorkerStep
      BY <2>1, WorkerSums, WorkerBar DEF TypeInv, IInv
    <2>2. CASE AppNext /\ ~WorkerStep
      BY <2>2, OtherSums, OtherBar DEF TypeInv, IInv
    <2>3. CASE UNCHANGED vars
      BY <2>3 DEF vars, SumInv, BarInv, Met, progress, display, place, request, config, list
    <2>. QED  BY <2>1, <2>2, <2>3
  <1>3. TypeInv /\ IInv /\ SumInv /\ BarInv => FinalBar
    <2>. SUFFICES ASSUME TypeInv, IInv, SumInv, BarInv, worker = "wait", ~verify_only, ~erred,
                         ~requested, total_size > 0
                  PROVE  /\ bar = FULL <=> curr_size >= total_size
                         /\ bar = FULL => text = "Completed"
                         /\ ~shrunk /\ disagreed = {} => bar = FULL
      BY DEF FinalBar
    <2>1. /\ bar = FULL <=> curr_size >= total_size
          /\ bar = FULL => text = "Completed"
      BY DEF BarInv
    <2>2. after # "plan" /\ item - 1 = Len(Items)
      BY Bounds DEF TypeInv, Places, IInv, PlaceInv
    <2>3. ~shrunk /\ disagreed = {} => curr_size >= total_size
      BY <2>2 DEF SumInv
    <2>. QED  BY <2>1, <2>3
  <1>. QED  BY <1>1, <1>2, <1>3, TypeInvariance, Invariance, PTL DEF AppSpec
=============================================================================

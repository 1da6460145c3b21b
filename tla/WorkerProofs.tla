----------------------------- MODULE WorkerProofs -----------------------------
(***************************************************************************)
(* Proofs about the worker, for every tree, every list in it, every        *)
(* command line, and any number of changes made meanwhile.                 *)
(*                                                                         *)
(*   FileListSpec, WorkerTypeOK                                            *)
(*       need the shape of the nested calls, a path down the tree          *)
(*   ProcessedWasPlanned                                                   *)
(*       needs what the planner's walk has still to come to (Pending): the *)
(*       rest of what is under a queued path was seen                      *)
(*   DoneIsDone                                                            *)
(*       needs the same of the processor's walk: what was seen is decided, *)
(*       or is ahead                                                       *)
(*   EveryFileHandled, ListedIsFound                                       *)
(*       need which step decides a name, and on which grounds; they are    *)
(*       for the trees and lists of Worker's hypotheses                    *)
(*                                                                         *)
(* A history in which nothing was disturbed (Quiet) is what all but the    *)
(* first two are about.                                                    *)
(***************************************************************************)
EXTENDS Worker, FileListProofs, SequenceTheorems

-----------------------------------------------------------------------------
(* Paths *)

\* The first components of a path.
LEMMA PrefixMeans ==
    ASSUME NEW p \in Seq(Components), NEW n \in Nat, n <= Len(p)
    PROVE  /\ SubSeq(p, 1, n) \in Seq(Components)
           /\ Len(SubSeq(p, 1, n)) = n
           /\ \A i \in 1 .. n : SubSeq(p, 1, n)[i] = p[i]
  <1>1. \A i \in 1 .. n : p[i] \in Components
    BY LenProperties
  <1>. QED  BY <1>1, SubSeqProperties

\* A path is under another one if it begins with it.
LEMMA UnderMeans ==
    ASSUME NEW p \in Seq(Components), NEW q \in Seq(Components)
    PROVE  Under(p, q) <=> Len(p) <= Len(q) /\ \A i \in 1 .. Len(p) : q[i] = p[i]
  <1>1. ASSUME Len(p) <= Len(q) PROVE SubSeq(q, 1, Len(p)) \in Seq(Components)
                                      /\ Len(SubSeq(q, 1, Len(p))) = Len(p)
                                      /\ \A i \in 1 .. Len(p) : SubSeq(q, 1, Len(p))[i] = q[i]
    BY <1>1, PrefixMeans, LenProperties
  <1>2. CASE Len(p) <= Len(q) /\ \A i \in 1 .. Len(p) : q[i] = p[i]
    BY <1>1, <1>2, SeqEqual DEF Under
  <1>3. CASE Under(p, q)
    BY <1>1, <1>3 DEF Under
  <1>. QED  BY <1>2, <1>3

\* Every path is under itself, and a path under a path under a third one.
LEMMA UnderOrder ==
    ASSUME NEW p \in Seq(Components), NEW q \in Seq(Components), NEW r \in Seq(Components)
    PROVE  /\ Under(p, p)
           /\ Under(p, q) /\ Under(q, r) => Under(p, r)
  BY UnderMeans, LenProperties

\* A path without its last component.
LEMMA ParentMeans ==
    ASSUME NEW p \in Path
    PROVE  /\ Parent(p) \in Seq(Components)
           /\ Len(p) \in Nat \ {0}
           /\ Len(Parent(p)) = Len(p) - 1
           /\ \A i \in 1 .. Len(p) - 1 : Parent(p)[i] = p[i]
  <1>1. p \in Seq(Components) /\ Len(p) \in Nat \ {0}
    BY EmptySeq DEF Path
  <1>2. Len(p) - 1 \in Nat /\ Len(p) - 1 <= Len(p)
    BY <1>1
  <1>. QED  BY <1>1, <1>2, PrefixMeans DEF Parent

\* A child is one component longer than its parent, which is a node.
LEMMA ChildMeans ==
    ASSUME NEW dir \in Path, NEW child \in Children(dir)
    PROVE  /\ child \in Nodes /\ child \in Path
           /\ Len(child) = Len(dir) + 1
           /\ Under(dir, child)
           /\ dir \in Directories
  <1>1. child \in Nodes /\ child \in Path /\ Parent(child) = dir
    BY WorkerAssumption DEF Children, WorkerAssumption
  <1>2. Len(child) = Len(dir) + 1 /\ \A i \in 1 .. Len(dir) : child[i] = dir[i]
    BY <1>1, ParentMeans, LenProperties DEF Path
  <1>3. Under(dir, child)
    BY <1>1, <1>2, UnderMeans, LenProperties DEF Path
  <1>4. Len(dir) \in 1 .. Len(child) - 1 /\ SubSeq(child, 1, Len(dir)) = dir
    BY <1>1, <1>2, <1>3, ParentMeans DEF Under
  <1>. QED  BY <1>1, <1>2, <1>3, <1>4, WorkerAssumption DEF WorkerAssumption

\* What lies below a directory lies below, or is, one of its children.
LEMMA ChildTowards ==
    ASSUME NEW dir \in Path, NEW p \in Nodes, Under(dir, p), p # dir
    PROVE  \E child \in Children(dir) :
              Under(child, p) /\ (child = p \/ child \in Directories)
  <1>1. p \in Path /\ p \in Seq(Components) /\ dir \in Seq(Components)
    BY WorkerAssumption DEF WorkerAssumption, Path
  <1>2. /\ Len(dir) \in Nat \ {0} /\ Len(p) \in Nat \ {0}
        /\ Len(dir) < Len(p)
        /\ \A i \in 1 .. Len(dir) : p[i] = dir[i]
    BY <1>1, UnderMeans, ParentMeans, SeqEqual
  <1>. DEFINE child == SubSeq(p, 1, Len(dir) + 1)
  <1>3. /\ child \in Seq(Components)
        /\ Len(child) = Len(dir) + 1
        /\ \A i \in 1 .. Len(dir) + 1 : child[i] = p[i]
    <2>1. Len(dir) + 1 \in Nat /\ Len(dir) + 1 <= Len(p)
      BY <1>2
    <2>. QED  BY <1>1, <2>1, PrefixMeans
  <1>4. child = p \/ child \in Directories
    <2>1. CASE Len(p) = Len(dir) + 1
      BY <1>1, <1>3, <2>1, SubSeqFull
    <2>2. CASE Len(p) # Len(dir) + 1
      BY <1>2, <2>2, WorkerAssumption DEF WorkerAssumption
    <2>. QED  BY <2>1, <2>2
  <1>5. child \in Path /\ child \in Nodes
    BY <1>2, <1>3, <1>4, EmptySeq, WorkerAssumption DEF WorkerAssumption, Path
  <1>. HIDE DEF child
  <1>6. Parent(child) = dir
    <2>1. /\ Parent(child) \in Seq(Components)
          /\ Len(Parent(child)) = Len(dir)
          /\ \A i \in 1 .. Len(dir) : Parent(child)[i] = child[i]
      BY <1>2, <1>3, <1>5, ParentMeans
    <2>2. \A i \in 1 .. Len(dir) : child[i] = dir[i]
      BY <1>2, <1>3
    <2>. QED  BY <1>1, <2>1, <2>2, SeqEqual
  <1>7. Under(child, p)
    BY <1>1, <1>2, <1>3, UnderMeans
  <1>8. Len(child) > 0
    BY <1>2, <1>3
  <1>. QED  BY <1>4, <1>5, <1>6, <1>7, <1>8 DEF Children

\* A name relative to a path, put below it, is the full path again.
LEMMA RelativeMeans ==
    ASSUME NEW base \in Seq(Components), NEW p \in Seq(Components), Under(base, p)
    PROVE  /\ Relative(base, p) \in Seq(Components)
           /\ Len(Relative(base, p)) = Len(p) - Len(base)
           /\ base \o Relative(base, p) = p
  <1>. DEFINE name == Relative(base, p)
  <1>1. /\ Len(base) \in Nat /\ Len(p) \in Nat
        /\ Len(base) <= Len(p)
        /\ \A i \in 1 .. Len(base) : base[i] = p[i]
    BY UnderMeans, LenProperties
  <1>2. /\ name \in Seq(Components)
        /\ Len(name) = Len(p) - Len(base)
        /\ \A i \in 1 .. Len(p) - Len(base) : name[i] = p[Len(base) + i]
    <2>1. \A i \in Len(base) + 1 .. Len(p) : p[i] \in Components
      BY <1>1, LenProperties
    <2>. QED  BY <1>1, <2>1, SubSeqProperties DEF Relative
  <1>. HIDE DEF name
  <1>3. base \o name \in Seq(Components) /\ Len(base \o name) = Len(p)
    BY <1>1, <1>2, ConcatProperties
  <1>4. ASSUME NEW i \in 1 .. Len(p) PROVE (base \o name)[i] = p[i]
    <2>1. (base \o name)[i] = IF i <= Len(base) THEN base[i] ELSE name[i - Len(base)]
      BY <1>1, <1>2, ConcatProperties
    <2>2. CASE i <= Len(base)
      BY <1>1, <2>1, <2>2
    <2>3. CASE ~(i <= Len(base))
      <3>1. i - Len(base) \in 1 .. Len(p) - Len(base)
        BY <1>1, <2>3
      <3>2. Len(base) + (i - Len(base)) = i
        BY <1>1
      <3>3. name[i - Len(base)] = p[Len(base) + (i - Len(base))]
        BY <1>2, <3>1
      <3>. QED  BY <2>1, <2>3, <3>2, <3>3
    <2>. QED  BY <2>2, <2>3
  <1>5. base \o name = p
    BY <1>1, <1>3, <1>4, SeqEqual
  <1>. QED  BY <1>2, <1>5 DEF name

\* The directory of a path is above the directory of what lies below the path.
LEMMA ParentsUnder ==
    ASSUME NEW path \in Path, NEW p \in Path, Under(path, p)
    PROVE  Under(Parent(path), p) /\ Under(Parent(path), Parent(p))
  <1>1. path \in Seq(Components) /\ p \in Seq(Components)
    BY DEF Path
  <1>2. /\ Parent(path) \in Seq(Components) /\ Parent(p) \in Seq(Components)
        /\ Len(path) \in Nat \ {0} /\ Len(p) \in Nat \ {0} /\ Len(path) <= Len(p)
        /\ Len(Parent(path)) = Len(path) - 1 /\ Len(Parent(p)) = Len(p) - 1
        /\ \A i \in 1 .. Len(path) - 1 : Parent(path)[i] = path[i]
        /\ \A i \in 1 .. Len(p) - 1 : Parent(p)[i] = p[i]
        /\ \A i \in 1 .. Len(path) : path[i] = p[i]
    BY <1>1, ParentMeans, UnderMeans
  <1>3. /\ Len(Parent(path)) <= Len(Parent(p)) /\ Len(Parent(path)) <= Len(p)
        /\ \A i \in 1 .. Len(Parent(path)) : p[i] = Parent(path)[i] /\ Parent(p)[i] = Parent(path)[i]
    <2>1. Len(Parent(path)) <= Len(Parent(p)) /\ Len(Parent(path)) <= Len(p)
      BY <1>2
    <2>2. ASSUME NEW i \in 1 .. Len(Parent(path))
          PROVE  p[i] = Parent(path)[i] /\ Parent(p)[i] = Parent(path)[i]
      <3>1. i \in 1 .. Len(path) - 1 /\ i \in 1 .. Len(p) - 1 /\ i \in 1 .. Len(path)
        BY <1>2
      <3>. QED  BY <1>2, <3>1
    <2>. QED  BY <2>1, <2>2
  <1>. QED  BY <1>1, <1>2, <1>3, UnderMeans

\* A name in a walk stands for one path only.
LEMMA NameMeans ==
    ASSUME NEW path \in Path, NEW p \in Path, Under(path, p)
    PROVE  Parent(path) \o NameIn(path, p) = p
  BY ParentMeans, ParentsUnder, RelativeMeans DEF NameIn, Path

\* Paths are put together from either end.
LEMMA PathConcat ==
    ASSUME NEW a \in Seq(Components), NEW b \in Seq(Components), NEW c \in Seq(Components)
    PROVE  a \o (b \o c) = (a \o b) \o c
  BY ConcatAssociative

\* The full path of a listed name is the one next to the list.
LEMMA LineMeans ==
    ASSUME NEW path \in Paths, NEW p \in DOMAIN Lines, Under(path, p), NEW i \in DOMAIN Lines[p],
           path \in Path
    PROVE  /\ LineIn(path, p, i) \in [sum : Checksums, name : Names]
           /\ Parent(path) \o LineIn(path, p, i).name = Pointed(p, i)
           /\ Pointed(p, i) \in Paths
           /\ Pointed(p, i) \in Path
  <1>1. /\ p \in Path
        /\ Lines[p] \in Seq([sum : Checksums, name : Path])
        /\ Relative(Parent(path), Parent(p)) \o Lines[p][i].name \in Names
    BY WorkerAssumption DEF WorkerAssumption, NamesClosed, LineIn
  <1>2. Lines[p][i] \in [sum : Checksums, name : Path]
    BY <1>1, LenProperties, ElementOfSeq
  <1>. DEFINE base == Parent(path)
              rel  == Relative(base, Parent(p))
              name == Lines[p][i].name
  <1>3. /\ base \in Seq(Components) /\ Parent(p) \in Seq(Components)
        /\ name \in Seq(Components) /\ name # <<>> /\ Len(name) \in Nat \ {0}
    BY <1>1, <1>2, ParentMeans DEF Path
  <1>4. rel \in Seq(Components) /\ base \o rel = Parent(p)
    BY <1>1, <1>3, ParentsUnder, RelativeMeans
  <1>. HIDE DEF base, rel, name
  <1>5. base \o (rel \o name) = (base \o rel) \o name
    <2>1. base \in Seq(Components) /\ rel \in Seq(Components) /\ name \in Seq(Components)
      BY <1>3, <1>4
    <2>. QED  BY <2>1, PathConcat
  <1>6. Pointed(p, i) \in Path
    <2>0. Pointed(p, i) = Parent(p) \o name
      BY DEF Pointed, name
    <2>1. Parent(p) \o name \in Seq(Components)
      BY <1>3, ConcatProperties
    <2>2. Parent(p) \o name # <<>>
      BY <1>3, ConcatEqualIffEmpty
    <2>. QED  BY <2>0, <2>1, <2>2 DEF Path
  <1>7. Pointed(p, i) \in Paths
    BY DEF Pointed, Paths
  <1>. QED  BY <1>1, <1>2, <1>4, <1>5, <1>6, <1>7 DEF LineIn, Pointed, base, rel, name

\* Paths are not empty.
LEMMA PathsType == Paths \subseteq Path
  <1>1. ASSUME NEW k \in DOMAIN Args PROVE Args[k] \in Path
    BY ElementOfSeq, LenProperties, WorkerAssumption DEF WorkerAssumption
  <1>2. ASSUME NEW p \in DOMAIN Lines, NEW i \in DOMAIN Lines[p] PROVE Pointed(p, i) \in Path
    <2>1. p \in Path /\ Lines[p] \in Seq([sum : Checksums, name : Path])
      BY WorkerAssumption DEF WorkerAssumption
    <2>2. Lines[p][i] \in [sum : Checksums, name : Path]
      BY <2>1, LenProperties, ElementOfSeq
    <2>3. Lines[p][i].name \in Seq(Components) /\ Lines[p][i].name # <<>> /\ Parent(p) \in Seq(Components)
      BY <2>1, <2>2, ParentMeans DEF Path
    <2>4. Pointed(p, i) \in Seq(Components)
      BY <2>3, ConcatProperties DEF Pointed
    <2>5. Pointed(p, i) # <<>>
      BY <2>3, ConcatEqualIffEmpty DEF Pointed
    <2>. QED  BY <2>4, <2>5 DEF Path
  <1>3. ASSUME NEW path \in Paths PROVE path \in Path
    <2>1. CASE \E k \in DOMAIN Args : path = Args[k]
      BY <1>1, <2>1
    <2>2. CASE \E p \in DOMAIN Lines : \E i \in DOMAIN Lines[p] : path = Pointed(p, i)
      BY <1>2, <2>2
    <2>. QED  BY <2>1, <2>2 DEF Paths, Pointed
  <1>. QED  BY <1>3

-----------------------------------------------------------------------------
(* The calls of the traversal *)

Label == {"enter", "process", "list", "left"}
Frame == [node : Path, at : Label, todo : SUBSET Nodes]

\* The ways in which the nested calls can change.
Popped         == stack' = Rest
Left           == Rest # <<>> /\ stack' = [Rest EXCEPT ![Len(Rest)].at = "left"]
Moved(at, todo) == stack' = Append(Rest, [Top EXCEPT !.at = at, !.todo = todo])
Entered(child) == stack' = Append(Append(Rest, [Top EXCEPT !.todo = @ \ {child}]), Call(child))

\* The calls below the innermost one.
LEMMA RestMeans ==
    ASSUME stack \in Seq(Frame), stack # <<>>
    PROVE  /\ Len(stack) \in Nat \ {0} /\ Top \in Frame
           /\ Rest \in Seq(Frame) /\ Len(Rest) = Len(stack) - 1
           /\ Rest = <<>> <=> Len(stack) = 1
           /\ \A i \in 1 .. Len(stack) - 1 : Rest[i] = stack[i]
  <1>1. Len(stack) \in Nat \ {0}
    BY EmptySeq
  <1>2. \A i \in 1 .. Len(stack) : stack[i] \in Frame
    BY ElementOfSeq
  <1>3. Top \in Frame
    BY <1>1, <1>2 DEF Top
  <1>4. /\ Rest \in Seq(Frame) /\ Len(Rest) = Len(stack) - 1
        /\ \A i \in 1 .. Len(stack) - 1 : Rest[i] = stack[i]
    <2>1. \A i \in 1 .. Len(stack) - 1 : stack[i] \in Frame
      BY <1>1, <1>2
    <2>2. Len(stack) - 1 \in Int
      BY <1>1
    <2>3. /\ SubSeq(stack, 1, Len(stack) - 1) \in Seq(Frame)
          /\ Len(SubSeq(stack, 1, Len(stack) - 1))
                = IF 1 <= Len(stack) - 1 THEN Len(stack) - 1 - 1 + 1 ELSE 0
          /\ \A i \in 1 .. Len(stack) - 1 - 1 + 1 :
                SubSeq(stack, 1, Len(stack) - 1)[i] = stack[1 + i - 1]
      BY <2>1, <2>2, SubSeqProperties, 1 \in Int
    <2>4. \A i \in 1 .. Len(stack) - 1 : Rest[i] = stack[i]
      BY <1>1, <2>3 DEF Rest
    <2>5. Len(Rest) = Len(stack) - 1
      <3>1. Len(Rest) = IF 1 <= Len(stack) - 1 THEN Len(stack) - 1 - 1 + 1 ELSE 0
        BY <2>3 DEF Rest
      <3>2. ASSUME NEW n \in Nat \ {0} PROVE (IF 1 <= n - 1 THEN n - 1 - 1 + 1 ELSE 0) = n - 1
        OBVIOUS
      <3>. QED  BY <1>1, <3>1, <3>2, Zenon
    <2>. QED  BY <2>3, <2>4, <2>5 DEF Rest
  <1>5. Rest = <<>> <=> Len(stack) = 1
    BY <1>1, <1>4, EmptySeq
  <1>. QED  BY <1>1, <1>3, <1>4, <1>5

\* The innermost call has returned, FALSE perhaps.
LEMMA PoppedMeans ==
    ASSUME stack \in Seq(Frame), stack # <<>>, Popped \/ Left
    PROVE  /\ stack' \in Seq(Frame) /\ Len(stack') = Len(stack) - 1
           /\ \A i \in 1 .. Len(stack) - 1 :
                /\ stack'[i].node = stack[i].node /\ stack'[i].todo = stack[i].todo
                /\ stack'[i].at \in {stack[i].at, "left"}
                /\ Popped => stack'[i] = stack[i]
  <1>1. CASE Popped
    BY <1>1, RestMeans DEF Popped
  <1>2. CASE Left /\ ~Popped
    <2>. DEFINE n == Len(stack) - 1
    <2>1. Rest \in Seq(Frame) /\ Len(Rest) = n /\ n \in 1 .. Len(Rest) /\ Rest[n] \in Frame
      BY <1>2, RestMeans, ElementOfSeq DEF Left
    <2>2. stack' = [Rest EXCEPT ![n] = [Rest[n] EXCEPT !.at = "left"]]
      BY <1>2, <2>1 DEF Left
    <2>3. [Rest[n] EXCEPT !.at = "left"] \in Frame
      BY <2>1 DEF Frame, Label
    <2>4. /\ stack' \in Seq(Frame) /\ Len(stack') = n
          /\ \A i \in 1 .. n : stack'[i] = IF i = n THEN [Rest[n] EXCEPT !.at = "left"] ELSE Rest[i]
      BY <2>1, <2>2, <2>3, ExceptSeq
    <2>5. \A i \in 1 .. n : Rest[i] = stack[i] /\ Rest[i] \in Frame
      BY <2>1, RestMeans, ElementOfSeq
    <2>. QED  BY <1>2, <2>1, <2>4, <2>5 DEF Frame
  <1>. QED  BY <1>1, <1>2

\* A call with other values in its fields.
LEMMA FrameExcept ==
    ASSUME NEW f \in Frame, NEW at \in Label, NEW todo \in SUBSET Nodes
    PROVE  /\ [f EXCEPT !.at = at, !.todo = todo] = [node |-> f.node, at |-> at, todo |-> todo]
           /\ [f EXCEPT !.todo = todo] = [node |-> f.node, at |-> f.at, todo |-> todo]
           /\ [node |-> f.node, at |-> at, todo |-> todo] \in Frame
  <1>1. f = [node |-> f.node, at |-> f.at, todo |-> f.todo]
    BY DEF Frame
  <1>2. f.node \in Path /\ f.at \in Label
    BY DEF Frame
  <1>3. [f EXCEPT !.at = at, !.todo = todo] = [node |-> f.node, at |-> at, todo |-> todo]
    <2>. DEFINE g == [f EXCEPT !.at = at, !.todo = todo]
    <2>1. g = [x \in {"node", "at", "todo"} |->
                  IF x = "todo" THEN todo ELSE IF x = "at" THEN at ELSE f[x]]
      <3>1. DOMAIN f = {"node", "at", "todo"} /\ f = [x \in {"node", "at", "todo"} |-> f[x]]
        BY DEF Frame
      <3>. QED  BY <3>1
    <2>. QED  BY <2>1
  <1>4. [f EXCEPT !.todo = todo] = [node |-> f.node, at |-> f.at, todo |-> todo]
    BY <1>1
  <1>5. [node |-> f.node, at |-> at, todo |-> todo] \in Frame
    BY <1>2 DEF Frame
  <1>. QED  BY <1>3, <1>4, <1>5

\* The innermost call has gone on.
LEMMA MovedMeans ==
    ASSUME stack \in Seq(Frame), stack # <<>>, NEW at \in Label, NEW todo \in SUBSET Nodes,
           Moved(at, todo)
    PROVE  /\ stack' \in Seq(Frame) /\ Len(stack') = Len(stack)
           /\ \A i \in 1 .. Len(stack) - 1 : stack'[i] = stack[i]
           /\ stack'[Len(stack)] = [node |-> Top.node, at |-> at, todo |-> todo]
  <1>1. [Top EXCEPT !.at = at, !.todo = todo] = [node |-> Top.node, at |-> at, todo |-> todo]
    BY RestMeans, FrameExcept
  <1>2. [node |-> Top.node, at |-> at, todo |-> todo] \in Frame
    BY RestMeans, FrameExcept
  <1>. QED  BY <1>1, <1>2, RestMeans, AppendProperties DEF Moved

\* The innermost call has made another one.
LEMMA EnteredMeans ==
    ASSUME stack \in Seq(Frame), stack # <<>>, NEW child \in Path, Entered(child)
    PROVE  /\ stack' \in Seq(Frame) /\ Len(stack') = Len(stack) + 1
           /\ \A i \in 1 .. Len(stack) - 1 : stack'[i] = stack[i]
           /\ stack'[Len(stack)] = [node |-> Top.node, at |-> Top.at, todo |-> Top.todo \ {child}]
           /\ stack'[Len(stack) + 1] = Call(child)
  <1>. DEFINE f == [node |-> Top.node, at |-> Top.at, todo |-> Top.todo \ {child}]
  <1>1. [Top EXCEPT !.todo = @ \ {child}] = f /\ f \in Frame /\ Call(child) \in Frame
    <2>1. Top \in Frame /\ Top.at \in Label /\ Top.todo \ {child} \in SUBSET Nodes
      BY RestMeans DEF Frame
    <2>2. Call(child) \in Frame
      BY DEF Call, Frame, Label
    <2>. QED  BY <2>1, <2>2, FrameExcept
  <1>2. /\ Append(Rest, f) \in Seq(Frame) /\ Len(Append(Rest, f)) = Len(stack)
        /\ \A i \in 1 .. Len(stack) - 1 : Append(Rest, f)[i] = stack[i]
        /\ Append(Rest, f)[Len(stack)] = f
    BY <1>1, RestMeans, AppendProperties
  <1>3. stack' = Append(Append(Rest, f), Call(child))
    BY <1>1 DEF Entered
  <1>. HIDE DEF f
  <1>4. /\ stack' \in Seq(Frame) /\ Len(stack') = Len(stack) + 1
        /\ \A i \in 1 .. Len(stack) : stack'[i] = Append(Rest, f)[i]
        /\ stack'[Len(stack) + 1] = Call(child)
    BY <1>1, <1>2, <1>3, AppendProperties
  <1>5. Len(stack) \in Nat \ {0}
    BY RestMeans
  <1>6. \A i \in 1 .. Len(stack) - 1 : stack'[i] = stack[i]
    BY <1>2, <1>4, <1>5
  <1>7. stack'[Len(stack)] = f
    BY <1>2, <1>4, <1>5
  <1>. QED  BY <1>4, <1>6, <1>7 DEF f

-----------------------------------------------------------------------------
(* The nested calls go down a tree *)

\* Each call was made for a child of its caller's directory, the first one for
\* a path from the queue.
Nested ==
    /\ stack \in Seq(Frame)
    /\ \A i \in 1 .. Len(stack) :
          /\ stack[i].todo \subseteq Children(stack[i].node)
          /\ stack[i].at # "enter" => stack[i].node \in Nodes
          /\ Under(stack[1].node, stack[i].node)
    /\ \A i \in 1 .. Len(stack) - 1 : stack[i + 1].node \in Children(stack[i].node)
    /\ stack # <<>> => stack[1].node \in Paths /\ root = Parent(stack[1].node)

\* Every call is one.
LEMMA NestedType ==
    ASSUME Nested, NEW i \in 1 .. Len(stack)
    PROVE  /\ stack[i] \in Frame /\ stack[i].at \in Label
           /\ stack[i].node \in Path /\ stack[i].node \in Seq(Components)
  <1>1. stack[i] \in Frame
    BY ElementOfSeq DEF Nested
  <1>. QED  BY <1>1 DEF Frame, Path

\* On the queues are paths.
Queued == ext_q \in Seq(Paths) /\ int_q \in Seq(Paths)

\* A return leaves the callers where they were.
LEMMA NestedReturn ==
    ASSUME Nested, stack # <<>>, Popped \/ Left, root' = root
    PROVE  Nested'
  <1>1. /\ Len(stack) \in Nat \ {0}
        /\ stack' \in Seq(Frame) /\ Len(stack') = Len(stack) - 1
        /\ \A i \in 1 .. Len(stack) - 1 :
             /\ stack'[i].node = stack[i].node /\ stack'[i].todo = stack[i].todo
             /\ stack'[i].at \in {stack[i].at, "left"}
    BY RestMeans, PoppedMeans DEF Nested
  <1>2. ASSUME NEW i \in 1 .. Len(stack) - 1 PROVE stack[i].node \in Nodes
    <2>1. stack[i] \in Frame /\ stack[i].node \in Path /\ stack[i + 1].node \in Children(stack[i].node)
      BY <1>1, NestedType DEF Nested
    <2>. QED  BY <2>1, ChildMeans, WorkerAssumption DEF WorkerAssumption
  <1>3. ASSUME NEW i \in 1 .. Len(stack') PROVE
          /\ stack'[i].todo \subseteq Children(stack'[i].node)
          /\ stack'[i].at # "enter" => stack'[i].node \in Nodes
          /\ Under(stack'[1].node, stack'[i].node)
    <2>1. 1 \in 1 .. Len(stack) - 1 /\ i \in 1 .. Len(stack) - 1 /\ i \in 1 .. Len(stack)
      BY <1>1
    <2>. QED  BY <1>1, <1>2, <2>1 DEF Nested
  <1>4. ASSUME NEW i \in 1 .. Len(stack') - 1 PROVE stack'[i + 1].node \in Children(stack'[i].node)
    BY <1>1 DEF Nested
  <1>5. ASSUME stack' # <<>> PROVE stack'[1].node \in Paths /\ root' = Parent(stack'[1].node)
    <2>1. 1 \in 1 .. Len(stack) - 1
      BY <1>1, <1>5, EmptySeq
    <2>. QED  BY <1>1, <2>1 DEF Nested
  <1>. QED  BY <1>1, <1>3, <1>4, <1>5 DEF Nested

\* A call goes on, at a node that exists.
LEMMA NestedMove ==
    ASSUME Nested, stack # <<>>, NEW at \in Label, NEW todo \in SUBSET Children(Top.node),
           Moved(at, todo), Top.node \in Nodes, root' = root
    PROVE  Nested'
  <1>1. todo \in SUBSET Nodes
    BY DEF Children
  <1>2. /\ Len(stack) \in Nat \ {0}
        /\ stack' \in Seq(Frame) /\ Len(stack') = Len(stack)
        /\ \A i \in 1 .. Len(stack) - 1 : stack'[i] = stack[i]
        /\ stack'[Len(stack)] = [node |-> Top.node, at |-> at, todo |-> todo]
    BY <1>1, RestMeans, MovedMeans DEF Nested
  <1>3. \A i \in 1 .. Len(stack) : stack'[i].node = stack[i].node
    BY <1>2 DEF Top
  <1>4. ASSUME NEW i \in 1 .. Len(stack') PROVE
          /\ stack'[i].todo \subseteq Children(stack'[i].node)
          /\ stack'[i].at # "enter" => stack'[i].node \in Nodes
          /\ Under(stack'[1].node, stack'[i].node)
    <2>1. CASE i = Len(stack)
      BY <1>2, <1>3, <2>1 DEF Nested, Top
    <2>2. CASE i # Len(stack)
      BY <1>2, <1>3, <2>2 DEF Nested
    <2>. QED  BY <2>1, <2>2
  <1>5. ASSUME NEW i \in 1 .. Len(stack') - 1 PROVE stack'[i + 1].node \in Children(stack'[i].node)
    BY <1>2, <1>3 DEF Nested
  <1>6. stack'[1].node \in Paths /\ root' = Parent(stack'[1].node)
    BY <1>2, <1>3 DEF Nested
  <1>. QED  BY <1>2, <1>4, <1>5, <1>6 DEF Nested

\* A call is made for a child.
LEMMA NestedEnter ==
    ASSUME Nested, stack # <<>>, NEW child \in Top.todo, Entered(child), root' = root
    PROVE  Nested'
  <1>1. /\ Len(stack) \in Nat \ {0} /\ Top \in Frame
        /\ child \in Children(Top.node) /\ Top.node \in Path /\ child \in Path
    <2>1. Len(stack) \in Nat \ {0} /\ Top \in Frame /\ Top.todo \subseteq Children(Top.node)
      BY RestMeans DEF Nested, Top
    <2>. QED  BY <2>1, ChildMeans DEF Frame
  <1>2. /\ stack' \in Seq(Frame) /\ Len(stack') = Len(stack) + 1
        /\ \A i \in 1 .. Len(stack) - 1 : stack'[i] = stack[i]
        /\ stack'[Len(stack)] = [node |-> Top.node, at |-> Top.at, todo |-> Top.todo \ {child}]
        /\ stack'[Len(stack) + 1] = [node |-> child, at |-> "enter", todo |-> {}]
    BY <1>1, EnteredMeans DEF Nested, Call
  <1>3. \A i \in 1 .. Len(stack) : /\ stack'[i].node = stack[i].node
                                   /\ stack'[i].at = stack[i].at
                                   /\ stack'[i].todo \subseteq stack[i].todo
    BY <1>2 DEF Top
  <1>4. Under(stack[1].node, child)
    <2>1. /\ stack[1].node \in Seq(Components) /\ Top.node \in Seq(Components)
          /\ child \in Seq(Components)
      BY <1>1, NestedType DEF Frame, Path
    <2>2. Under(stack[1].node, Top.node) /\ Under(Top.node, child)
      BY <1>1, ChildMeans DEF Nested, Top
    <2>. QED  BY <2>1, <2>2, UnderOrder
  <1>5. ASSUME NEW i \in 1 .. Len(stack') PROVE
          /\ stack'[i].todo \subseteq Children(stack'[i].node)
          /\ stack'[i].at # "enter" => stack'[i].node \in Nodes
          /\ Under(stack'[1].node, stack'[i].node)
    <2>1. stack'[1].node = stack[1].node
      BY <1>1, <1>3
    <2>2. CASE i = Len(stack) + 1
      <3>1. stack'[i].node = child /\ stack'[i].at = "enter" /\ stack'[i].todo = {}
        BY <1>2, <2>2
      <3>. QED  BY <1>4, <2>1, <3>1
    <2>3. CASE i # Len(stack) + 1
      <3>1. i \in 1 .. Len(stack)
        BY <1>1, <1>2, <2>3
      <3>2. /\ stack[i].todo \subseteq Children(stack[i].node)
            /\ stack[i].at # "enter" => stack[i].node \in Nodes
            /\ Under(stack[1].node, stack[i].node)
        BY <3>1 DEF Nested
      <3>. QED  BY <1>3, <2>1, <3>1, <3>2
    <2>. QED  BY <2>2, <2>3
  <1>6. ASSUME NEW i \in 1 .. Len(stack') - 1 PROVE stack'[i + 1].node \in Children(stack'[i].node)
    <2>1. CASE i = Len(stack)
      BY <1>1, <1>2, <2>1
    <2>2. CASE i # Len(stack)
      BY <1>1, <1>2, <1>3, <2>2 DEF Nested
    <2>. QED  BY <2>1, <2>2
  <1>7. stack'[1].node \in Paths /\ root' = Parent(stack'[1].node)
    BY <1>1, <1>3 DEF Nested
  <1>. QED  BY <1>2, <1>5, <1>6, <1>7 DEF Nested

\* A walk starts.
LEMMA NestedStart ==
    ASSUME NEW path \in Paths, Traverse(path)
    PROVE  Nested'
  <1>1. /\ stack' = <<[node |-> path, at |-> "enter", todo |-> {}]>>
        /\ root' = Parent(path) /\ path \in Path
    BY PathsType DEF Traverse, Call
  <1>2. [node |-> path, at |-> "enter", todo |-> {}] \in Frame
    BY <1>1 DEF Frame, Label
  <1>3. Under(path, path)
    BY <1>1, UnderOrder DEF Path
  <1>. QED  BY <1>1, <1>2, <1>3 DEF Nested

-----------------------------------------------------------------------------
(* What a step makes of the walk *)

\* The files that exist are nodes, and directories stay.
Standing == Directories \subseteq present /\ present \subseteq Nodes

\* What the planner or the processor does with the node before the walk goes on.
Visit ==
    \/ PlanNew \/ PlanAgain
    \/ ProcessOther \/ ProcessUnopened \/ ProcessFails \/ ProcessFile

\* Every step that is not part of the traversal leaves the walk alone.
LEMMA WalkCases ==
    ASSUME [WorkerNext]_allVars
    PROVE  \/ Enter \/ EnterFails \/ NextChild \/ EnumerationEnds \/ LeaveLoop
           \/ Visit \/ Plan \/ Process
           \/ UNCHANGED walk
  BY DEF WorkerNext, Step, allVars, Visit, ParseLine, ParseFails, StartProcessing, StartSweep,
     Sweep, Complete, FinishTransition, Cancel, Change

\* A visit is to the innermost node, at which the walk goes on as after any other.
LEMMA VisitMeans ==
    ASSUME Visit
    PROVE  /\ At("process") /\ Proceed
           /\ UNCHANGED <<world, cancelled, root, ext_q, int_q, pass, dialog>>
  BY DEF Visit, PlanNew, PlanAgain, ProcessOther, ProcessUnopened, ProcessFails, ProcessFile,
     Processable, loop

\* At the head of a queue is one of its paths.
LEMMA HeadOfPaths ==
    ASSUME NEW q \in Seq(Paths), q # <<>>
    PROVE  /\ Head(q) \in Paths /\ Tail(q) \in Seq(Paths)
           /\ Len(q) \in Nat \ {0} /\ Head(q) = q[1]
           /\ Len(Tail(q)) = Len(q) - 1
           /\ \A k \in 1 .. Len(q) - 1 : Tail(q)[k] = q[k + 1]
  BY HeadTailProperties, EmptySeq

\* The innermost call is at a node, or about to look whether there is one.
LEMMA TopMeans ==
    ASSUME Nested, stack # <<>>
    PROVE  /\ Len(stack) \in Nat \ {0}
           /\ Top = stack[Len(stack)] /\ Len(stack) \in 1 .. Len(stack) /\ 1 \in 1 .. Len(stack)
           /\ Top \in Frame /\ Top.at \in Label
           /\ Top.node \in Path /\ Top.node \in Seq(Components)
           /\ Top.at # "enter" => Top.node \in Nodes
           /\ Top.todo \subseteq Children(Top.node)
           /\ Under(stack[1].node, Top.node)
           /\ stack[1].node \in Paths /\ stack[1].node \in Path
           /\ stack[1].node \in Seq(Components)
           /\ root = Parent(stack[1].node)
           /\ Name = NameIn(stack[1].node, Top.node)
  <1>1. Len(stack) \in Nat \ {0} /\ Len(stack) \in 1 .. Len(stack) /\ 1 \in 1 .. Len(stack)
    BY RestMeans DEF Nested
  <1>2. Top = stack[Len(stack)]
    BY DEF Top
  <1>3. stack[1].node \in Paths /\ root = Parent(stack[1].node)
    BY DEF Nested
  <1>. QED  BY <1>1, <1>2, <1>3, NestedType DEF Nested, Name, NameIn

\* The walk stays in the tree.
LEMMA NestedStep ==
    ASSUME Nested, Queued, Standing, [WorkerNext]_allVars
    PROVE  Nested'
  <1>1. CASE Enter
    <2>1. stack # <<>> /\ Top.node \in Nodes /\ root' = root
      BY <1>1 DEF Enter, At, Standing
    <2>2. [Top EXCEPT !.at = "process"] = [Top EXCEPT !.at = "process", !.todo = Top.todo]
      BY <2>1, TopMeans DEF Frame
    <2>3. Moved("process", Top.todo)
      BY <1>1, <2>2 DEF Enter, Moved
    <2>. QED  BY <2>1, <2>3, TopMeans, NestedMove DEF Label
  <1>2. CASE EnterFails \/ EnumerationEnds \/ LeaveLoop
    <2>1. stack # <<>> /\ (Popped \/ Left) /\ root' = root
      BY <1>2 DEF EnterFails, EnumerationEnds, LeaveLoop, At, Return, ReturnFalse, Popped, Left
    <2>. QED  BY <2>1, NestedReturn
  <1>3. CASE NextChild
    <2>1. PICK child \in Top.todo : Entered(child)
      BY <1>3 DEF NextChild, Entered
    <2>2. stack # <<>> /\ root' = root
      BY <1>3 DEF NextChild, At
    <2>. QED  BY <2>1, <2>2, NestedEnter
  <1>4. CASE Visit
    <2>1. stack # <<>> /\ root' = root /\ Top.at = "process" /\ Proceed
      BY <1>4, VisitMeans DEF At
    <2>2. CASE Top.node \in Directories
      <3>1. Moved("list", Children(Top.node) \cap present)
        BY <2>1, <2>2 DEF Proceed, Moved
      <3>2. Top.node \in Nodes /\ "list" \in Label
        BY <2>1, TopMeans DEF Label
      <3>. QED  BY <2>1, <3>1, <3>2, NestedMove
    <2>3. CASE Top.node \notin Directories
      BY <2>1, <2>3, NestedReturn DEF Proceed, Return, Popped
    <2>. QED  BY <2>2, <2>3
  <1>5. CASE Plan
    BY <1>5, HeadOfPaths, NestedStart DEF Plan, Queued
  <1>6. CASE Process
    BY <1>6, HeadOfPaths, NestedStart DEF Process, Queued
  <1>7. CASE UNCHANGED walk
    BY <1>7 DEF walk, Nested
  <1>. QED  BY <1>1, <1>2, <1>3, <1>4, <1>5, <1>6, <1>7, WalkCases

-----------------------------------------------------------------------------
(* What is read from the lists, and queued *)

\* A line of a list that the walk met.
IsLine(line) ==
    \E path \in Paths, p \in DOMAIN Lines : \E i \in DOMAIN Lines[p] :
        Under(path, p) /\ root = Parent(path) /\ line = LineIn(path, p, i)

Line == [sum : Checksums, name : Names]

\* What is left to parse are lines of the list.
Reading == lines \in Seq(Line) /\ \A k \in 1 .. Len(lines) : IsLine(lines[k])

\* The first line, what follows, and the path under which its file is queued.
LEMMA ReadingMeans ==
    ASSUME Reading, lines # <<>>
    PROVE  /\ Head(lines) \in Line /\ IsLine(Head(lines))
           /\ root \o Head(lines).name \in Paths
           /\ Tail(lines) \in Seq(Line)
           /\ \A k \in 1 .. Len(Tail(lines)) : IsLine(Tail(lines)[k])
  <1>1. /\ Head(lines) \in Line /\ Head(lines) = lines[1] /\ Len(lines) \in Nat \ {0}
        /\ Tail(lines) \in Seq(Line) /\ Len(Tail(lines)) = Len(lines) - 1
        /\ \A k \in 1 .. Len(lines) - 1 : Tail(lines)[k] = lines[k + 1]
    BY HeadTailProperties, EmptySeq DEF Reading
  <1>2. IsLine(Head(lines)) /\ \A k \in 1 .. Len(Tail(lines)) : IsLine(Tail(lines)[k])
    BY <1>1 DEF Reading
  <1>3. root \o Head(lines).name \in Paths
    <2>1. PICK path \in Paths, p \in DOMAIN Lines : \E i \in DOMAIN Lines[p] :
             Under(path, p) /\ root = Parent(path) /\ Head(lines) = LineIn(path, p, i)
      BY <1>2 DEF IsLine
    <2>2. PICK i \in DOMAIN Lines[p] : Head(lines) = LineIn(path, p, i)
      BY <2>1
    <2>3. path \in Path
      BY PathsType
    <2>4. Pointed(p, i) \in Paths /\ Parent(path) \o LineIn(path, p, i).name = Pointed(p, i)
      BY <2>1, <2>3, LineMeans
    <2>. QED  BY <2>1, <2>2, <2>4
  <1>. QED  BY <1>1, <1>2, <1>3

\* The list at a node that the walk is at.
LEMMA ParsedMeans ==
    ASSUME Nested, stack # <<>>, Top.node \in DOMAIN Lines
    PROVE  /\ Parsed(Top.node) \in Seq(Line)
           /\ \A k \in 1 .. Len(Parsed(Top.node)) : IsLine(Parsed(Top.node)[k])
  <1>. DEFINE p == Top.node
              path == stack[1].node
  <1>1. path \in Paths /\ path \in Path /\ Under(path, p) /\ root = Parent(path)
    BY TopMeans
  <1>2. Len(Lines[p]) \in Nat /\ DOMAIN Lines[p] = 1 .. Len(Lines[p])
    BY WorkerAssumption, LenProperties DEF WorkerAssumption
  <1>3. ASSUME NEW i \in DOMAIN Lines[p]
        PROVE  Parsed(p)[i] = LineIn(path, p, i) /\ LineIn(path, p, i) \in Line
    BY <1>1, LineMeans DEF Parsed, LineIn, Line
  <1>4. DOMAIN Parsed(p) = DOMAIN Lines[p]
    BY DEF Parsed
  <1>. HIDE DEF p, path
  <1>5. Parsed(p) = [i \in 1 .. Len(Lines[p]) |-> Parsed(p)[i]]
    BY <1>2, <1>4 DEF Parsed
  <1>6. Parsed(p) \in Seq(Line) /\ Len(Parsed(p)) = Len(Lines[p])
    BY <1>2, <1>3, <1>5, IsASeq, LenProperties
  <1>7. ASSUME NEW k \in 1 .. Len(Parsed(p)) PROVE IsLine(Parsed(p)[k])
    BY <1>1, <1>2, <1>3, <1>6, <1>7 DEF IsLine, p
  <1>. QED  BY <1>6, <1>7 DEF p

\* The worker's loop: when each queue is empty, and what goes on in which pass.
Stages ==
    /\ pass \in {"wait", "plan", "process", "sweep"}
    /\ lines # <<>> => pass = "plan"
    /\ stack # <<>> => pass \in {"plan", "process"}
    /\ pass \in {"process", "sweep"} => ext_q = <<>>
    /\ pass \in {"wait", "sweep"} => int_q = <<>>
    /\ dialog = "COMPLETED" => pass = "wait" /\ ext_q = <<>>

\* The queues, the lines and the loop.
LEMMA LoopStep ==
    ASSUME Nested, Queued, Reading, Stages, Standing, [WorkerNext]_allVars
    PROVE  Queued' /\ Reading' /\ Stages' /\ Standing'
  <1>1. CASE Enter \/ EnterFails \/ NextChild \/ EnumerationEnds \/ LeaveLoop
    <2>1. UNCHANGED <<world, ext_q, int_q, pass, dialog, root, lines>> /\ stack # <<>>
      BY <1>1 DEF Enter, EnterFails, NextChild, EnumerationEnds, LeaveLoop, At, loop
    <2>. QED  BY <2>1 DEF Queued, Reading, IsLine, Stages, Standing, world
  <1>2. CASE Visit
    <2>1. UNCHANGED <<world, ext_q, int_q, pass, dialog, root>> /\ stack # <<>> /\ lines = <<>>
      BY <1>2, VisitMeans DEF At
    <2>2. \/ lines' = <<>>
          \/ Top.node \in DOMAIN Lines /\ lines' = Parsed(Top.node) /\ pass = "plan"
      BY <1>2, <2>1 DEF Visit, PlanNew, PlanAgain, ProcessOther, ProcessUnopened, ProcessFails,
         ProcessFile
    <2>3. Reading' /\ (lines' # <<>> => pass = "plan")
      <3>1. CASE lines' = <<>>
        BY <3>1 DEF Reading
      <3>2. CASE Top.node \in DOMAIN Lines /\ lines' = Parsed(Top.node) /\ pass = "plan"
        <4>1. /\ Parsed(Top.node) \in Seq(Line)
              /\ \A k \in 1 .. Len(Parsed(Top.node)) : IsLine(Parsed(Top.node)[k])
          BY <2>1, <3>2, ParsedMeans
        <4>2. \A x : IsLine(x) => IsLine(x)'
          BY <2>1 DEF IsLine
        <4>3. lines' \in Seq(Line) /\ \A k \in 1 .. Len(lines') : IsLine(lines'[k])
          BY <3>2, <4>1
        <4>. QED  BY <3>2, <4>2, <4>3 DEF Reading
      <3>. QED  BY <2>2, <3>1, <3>2
    <2>. QED  BY <2>1, <2>3 DEF Queued, Stages, Standing, world
  <1>3. CASE ParseLine
    <2>1. /\ UNCHANGED <<world, int_q, pass, dialog, walk>> /\ lines # <<>>
          /\ lines' = Tail(lines) /\ pass = "plan"
          /\ ext_q' = ext_q \/ ext_q' = Append(ext_q, root \o Head(lines).name)
      BY <1>3 DEF ParseLine, Stages
    <2>2. Queued'
      <3>1. root \o Head(lines).name \in Paths
        BY <2>1, ReadingMeans
      <3>2. \A path \in Paths : Append(ext_q, path) \in Seq(Paths)
        BY AppendProperties DEF Queued
      <3>. QED  BY <2>1, <3>1, <3>2 DEF Queued
    <2>3. Reading'
      BY <2>1, ReadingMeans DEF Reading, IsLine, walk
    <2>. QED  BY <2>1, <2>2, <2>3 DEF Stages, Standing, world, walk
  <1>4. CASE ParseFails
    BY <1>4 DEF ParseFails, Queued, Reading, Stages, Standing, world, loop, walk
  <1>5. CASE Plan
    <2>1. Queued'
      BY <1>5, HeadOfPaths, AppendProperties DEF Plan, Queued
    <2>2. Reading' /\ Stages' /\ Standing'
      BY <1>5 DEF Plan, Ready, Reading, Stages, Standing, world
    <2>. QED  BY <2>1, <2>2
  <1>6. CASE Process
    BY <1>6, HeadOfPaths DEF Process, Ready, Queued, Reading, Stages, Standing, world
  <1>7. CASE StartProcessing \/ StartSweep \/ Complete
    BY <1>7 DEF StartProcessing, StartSweep, Complete, Ready, Queued, Reading, Stages, Standing,
       world, walk
  <1>8. CASE Sweep \/ FinishTransition \/ Cancel \/ UNCHANGED allVars
    BY <1>8 DEF Sweep, FinishTransition, Cancel, Queued, Reading, IsLine, Stages, Standing,
       world, walk, loop, allVars
  <1>9. CASE Change
    BY <1>9 DEF Change, Queued, Reading, IsLine, Stages, Standing, walk, loop
  <1>. QED  BY <1>1, <1>2, <1>3, <1>4, <1>5, <1>6, <1>7, <1>8, <1>9 DEF WorkerNext, Step, Visit

-----------------------------------------------------------------------------
(* The worker's calls are calls the list allows for *)

\* A call has a caller, or is the first.
LEMMA OneOrMore == ASSUME NEW n \in Nat \ {0} PROVE n = 1 \/ n >= 2
  OBVIOUS

\* The name of the node that the walk is at is one of the list's.
LEMMA NameOfTop ==
    ASSUME Nested, stack # <<>>
    PROVE  Name \in Names /\ NameIn(stack[1].node, Top.node) \in Names
  <1>1. /\ stack[1].node \in Paths
        /\ Name = Relative(Parent(stack[1].node), Top.node)
        /\ Under(stack[1].node, Top.node)
        /\ Name = NameIn(stack[1].node, Top.node)
    BY TopMeans DEF NameIn
  <1>2. CASE Top.node \in Nodes
    BY <1>1, <1>2, WorkerAssumption DEF WorkerAssumption, NamesClosed
  <1>3. CASE Top.node \notin Nodes
    <2>1. Len(stack) = 1
      <3>1. ASSUME Len(stack) # 1 PROVE FALSE
        <4>1. Len(stack) - 1 \in 1 .. Len(stack) - 1 /\ Len(stack) - 1 \in 1 .. Len(stack)
              /\ Len(stack) - 1 + 1 = Len(stack)
          <5>1. Len(stack) \in Nat \ {0}
            BY TopMeans
          <5>2. Len(stack) = 1 \/ Len(stack) >= 2
            BY <5>1, OneOrMore
          <5>. QED  BY <3>1, <5>1, <5>2
        <4>2. Top.node \in Children(stack[Len(stack) - 1].node)
          BY <4>1, TopMeans DEF Nested
        <4>. QED  BY <1>3, <4>2 DEF Children
      <3>. QED  BY <3>1
    <2>. QED  BY <1>1, <2>1, WorkerAssumption DEF WorkerAssumption, NamesClosed, Top
  <1>. QED  BY <1>1, <1>2, <1>3

\* Each step makes one call, or none.
LEMMA ListStep ==
    ASSUME TypeOK, Nested, Reading, [WorkerNext]_allVars
    PROVE  [Next]_vars
  <1>1. CASE Visit
    <2>1. Name \in Names
      BY <1>1, VisitMeans, NameOfTop DEF At
    <2>2. \/ UNCHANGED vars
          \/ Found(Name) \/ MarkFailed(Name) \/ CheckUnknownFile(Name)
          \/ \E c \in Answers(Name) : CheckFile(Name, c)
      BY <1>1 DEF Visit, PlanNew, PlanAgain, ProcessOther, ProcessUnopened, ProcessFails,
         ProcessFile, list
    <2>. QED  BY <2>1, <2>2 DEF Next
  <1>2. CASE ParseLine
    <2>1. lines # <<>>
      BY <1>2 DEF ParseLine
    <2>2. Head(lines).name \in Names /\ Head(lines).sum \in Checksums
      BY <2>1, ReadingMeans DEF Line
    <2>3. \/ RecordChecksum(Head(lines).name, Head(lines).sum)
          \/ CompareChecksum(Head(lines).name, Head(lines).sum)
      BY <1>2 DEF ParseLine
    <2>. QED  BY <2>2, <2>3 DEF Next
  <1>3. CASE Sweep
    BY <1>3 DEF Sweep, Next, TypeOK
  <1>4. CASE FinishTransition
    BY <1>4 DEF FinishTransition, Next
  <1>5. ASSUME ~Visit, ~ParseLine, ~Sweep, ~FinishTransition PROVE UNCHANGED vars
    BY <1>5 DEF WorkerNext, Step, allVars, list, Visit, Enter, EnterFails, NextChild,
       EnumerationEnds, LeaveLoop, ParseFails, Plan, Process, StartProcessing, StartSweep,
       Complete, Cancel, Change
  <1>. QED  BY <1>1, <1>2, <1>3, <1>4, <1>5

\* How many changes there were, and which files were reported.
Ranges == changes \in 0 .. MaxChanges /\ handled \subseteq Nodes /\ {cancelled, failed} \subseteq BOOLEAN
          /\ dialog \in {"INIT", "CALCULATING_SIZE", "COPYING", "COMPLETED"}

\* The shape of the worker's state.
Shape == Nested /\ Queued /\ Reading /\ Stages /\ Standing /\ Ranges

\* The worker's own flags and histories.
LEMMA RangesStep ==
    ASSUME Nested, Ranges, [WorkerNext]_allVars
    PROVE  Ranges'
  <1>1. MaxChanges \in Nat
    BY WorkerAssumption DEF WorkerAssumption
  <1>2. CASE ProcessFile
    <2>1. Top.node \in Nodes
      BY <1>2, TopMeans DEF ProcessFile, Processable, At
    <2>2. handled' \subseteq Nodes
      BY <1>2, <2>1 DEF ProcessFile, Ranges
    <2>. QED  BY <1>2, <2>2 DEF Ranges, ProcessFile, loop, world
  <1>3. CASE Enter \/ EnterFails \/ NextChild \/ EnumerationEnds \/ LeaveLoop
    BY <1>3 DEF Ranges, Enter, EnterFails, NextChild, EnumerationEnds, LeaveLoop, loop, world
  <1>4. CASE PlanNew \/ PlanAgain \/ ProcessOther \/ ProcessUnopened \/ ProcessFails
    BY <1>4 DEF Ranges, PlanNew, PlanAgain, ProcessOther, ProcessUnopened, ProcessFails, loop, world
  <1>5. CASE Plan \/ Process \/ StartProcessing \/ StartSweep \/ Complete
    BY <1>5 DEF Ranges, Plan, Process, StartProcessing, StartSweep, Complete, world
  <1>6. CASE ParseLine \/ ParseFails \/ Sweep \/ FinishTransition \/ Cancel \/ UNCHANGED allVars
    BY <1>6 DEF Ranges, ParseLine, ParseFails, Sweep, FinishTransition, Cancel, loop, world, allVars
  <1>7. CASE Change
    BY <1>1, <1>7 DEF Ranges, Change, loop
  <1>. QED  BY <1>2, <1>3, <1>4, <1>5, <1>6, <1>7 DEF WorkerNext, Step

\* The worker starts with the command line on its queue.
LEMMA ShapeInit == WorkerInit => Init /\ Shape
  <1>. SUFFICES ASSUME WorkerInit PROVE Shape
    BY DEF WorkerInit
  <1>1. stack = <<>> /\ lines = <<>> /\ int_q = <<>> /\ ext_q = Args
    BY DEF WorkerInit
  <1>2. Len(Args) \in Nat /\ Args \in Seq(Paths)
    <2>1. Args \in Seq(Path) /\ \A k \in 1 .. Len(Args) : Args[k] \in Paths
      BY WorkerAssumption, LenProperties DEF WorkerAssumption, Paths
    <2>. QED  BY <2>1, LenProperties, IsASeq
  <1>3. Nested /\ Queued /\ Reading
    BY <1>1, <1>2 DEF Nested, Queued, Reading
  <1>4. Stages
    BY <1>1 DEF WorkerInit, Stages
  <1>5. Ranges
    <2>1. MaxChanges \in Nat
      BY WorkerAssumption DEF WorkerAssumption
    <2>2. changes = 0 /\ handled = {} /\ cancelled = FALSE /\ failed = FALSE /\ dialog = "INIT"
      BY DEF WorkerInit
    <2>3. {cancelled, failed} \subseteq BOOLEAN
      BY <2>2
    <2>4. changes \in 0 .. MaxChanges /\ handled \subseteq Nodes
      BY <2>1, <2>2
    <2>. QED  BY <2>2, <2>3, <2>4 DEF Ranges
  <1>6. Standing
    BY WorkerAssumption DEF WorkerInit, Standing, WorkerAssumption
  <1>. QED  BY <1>3, <1>4, <1>5, <1>6 DEF Shape

\* Every step keeps the shape.
LEMMA ShapeStep == TypeOK /\ Shape /\ [WorkerNext]_allVars => TypeOK' /\ Shape'
  BY NestedStep, LoopStep, RangesStep, ListStep, TypeStep DEF Shape

\* The worker never calls the list in a way the list does not expect: each of
\* its steps, whichever the order of files, lists and failures, is a step of the
\* file list's specification or leaves the list alone.
THEOREM WorkerCallsTheList == WorkerSpec => FileListSpec
  <1>1. WorkerInit => Init /\ TypeOK /\ Shape
    BY ShapeInit, TypeInit
  <1>2. TypeOK /\ Shape /\ [WorkerNext]_allVars => TypeOK' /\ Shape'
    BY ShapeStep
  <1>3. TypeOK /\ Shape /\ [WorkerNext]_allVars => [Next]_vars
    BY ListStep DEF Shape
  <1>. QED  BY <1>1, <1>2, <1>3, PTL DEF WorkerSpec, FileListSpec, Spec

\* So what holds of the list under any calls holds of it in the program: the
\* counters agree, a verdict has its evidence, and is not taken back.
THEOREM ListIsRightInTheProgram ==
    WorkerSpec => []StatsAgree /\ []VerdictSound /\ []TypeFits /\ VerdictFinal
  BY WorkerCallsTheList, StatsAlwaysAgree, VerdictsAreSound, TypesFit, VerdictsAreFinal, Zenon
     DEF FileListSpec

\* Every variable of the worker keeps its type, and the calls of the traversal
\* are at nodes, or about to look.
THEOREM WorkerTyping == WorkerSpec => []WorkerTypeOK
  <1>1. WorkerInit => TypeOK /\ Shape
    BY ShapeInit, TypeInit
  <1>2. TypeOK /\ Shape /\ [WorkerNext]_allVars => TypeOK' /\ Shape'
    BY ShapeStep
  <1>3. TypeOK /\ Shape => WorkerTypeOK
    <2>. SUFFICES ASSUME TypeOK, Shape PROVE WorkerTypeOK
      OBVIOUS
    <2>1. ASSUME NEW i \in DOMAIN stack
          PROVE  /\ stack[i].node \in Nodes \/ stack[i].at \in {"enter"}
                 /\ stack[i].todo \subseteq Nodes
      <3>1. i \in 1 .. Len(stack)
        BY LenProperties DEF Shape, Nested
      <3>2. stack[i] \in Frame
        BY <3>1, NestedType DEF Shape
      <3>. QED  BY <3>1, <3>2 DEF Shape, Nested, Frame
    <2>. QED  BY <2>1 DEF Shape, Stages, Standing, Ranges, WorkerTypeOK
  <1>. QED  BY <1>1, <1>2, <1>3, PTL DEF WorkerSpec

-----------------------------------------------------------------------------
(* A walk that nothing disturbs *)

\* No file came or went, no access failed, and nobody cancelled.
Quiet == changes = 0 /\ ~failed /\ ~cancelled

\* Then no loop was broken off, and what the calls are at exists; only the path
\* from the queue need not.
Undisturbed ==
    Quiet => \A i \in 1 .. Len(stack) :
        /\ stack[i].at # "left"
        /\ stack[i].todo \subseteq present
        /\ i # 1 \/ stack[i].at # "enter" => stack[i].node \in present

\* What was disturbed stays so.
LEMMA QuietKept ==
    ASSUME Ranges, [WorkerNext]_allVars, Quiet'
    PROVE  Quiet /\ present' = present
  <1>0. changes' = 0 /\ ~failed' /\ ~cancelled'
    BY DEF Quiet
  <1>1. CASE Enter \/ EnterFails \/ NextChild \/ EnumerationEnds \/ LeaveLoop
    <2>1. changes' = changes /\ present' = present /\ cancelled' = cancelled
      BY <1>1 DEF Enter, EnterFails, NextChild, EnumerationEnds, LeaveLoop, world
    <2>2. failed => failed'
      BY <1>1, Zenon DEF Enter, EnterFails, NextChild, EnumerationEnds, LeaveLoop
    <2>. QED  BY <1>0, <2>1, <2>2, Zenon DEF Quiet
  <1>2. CASE PlanNew \/ PlanAgain \/ ParseLine \/ ParseFails
    <2>1. changes' = changes /\ present' = present /\ cancelled' = cancelled
      BY <1>2 DEF PlanNew, PlanAgain, ParseLine, ParseFails, world
    <2>2. failed => failed'
      BY <1>2, Zenon DEF PlanNew, PlanAgain, ParseLine, ParseFails
    <2>. QED  BY <1>0, <2>1, <2>2, Zenon DEF Quiet
  <1>3. CASE ProcessOther \/ ProcessUnopened \/ ProcessFails \/ ProcessFile
    <2>1. changes' = changes /\ present' = present /\ cancelled' = cancelled
      BY <1>3 DEF ProcessOther, ProcessUnopened, ProcessFails, ProcessFile, world
    <2>2. failed => failed'
      BY <1>3, Zenon DEF ProcessOther, ProcessUnopened, ProcessFails, ProcessFile
    <2>. QED  BY <1>0, <2>1, <2>2, Zenon DEF Quiet
  <1>4. CASE Plan \/ Process \/ StartProcessing \/ StartSweep \/ Complete
    BY <1>4 DEF Quiet, Plan, Process, StartProcessing, StartSweep, Complete, world
  <1>5. CASE Sweep \/ FinishTransition \/ Cancel \/ UNCHANGED allVars
    BY <1>5 DEF Quiet, Sweep, FinishTransition, Cancel, world, allVars
  <1>6. CASE Change
    <2>1. MaxChanges \in Nat
      BY WorkerAssumption DEF WorkerAssumption
    <2>2. changes' # 0
      BY <1>6, <2>1 DEF Change, Ranges
    <2>. QED  BY <2>2 DEF Quiet
  <1>. QED  BY <1>1, <1>2, <1>3, <1>4, <1>5, <1>6 DEF WorkerNext, Step

\* A return to nobody.
LEMMA LastReturn ==
    ASSUME stack \in Seq(Frame), stack # <<>>
    PROVE  /\ Len(stack) = 1 /\ ReturnFalse => stack' = <<>>
           /\ Len(stack) \in Nat \ {0}
  BY RestMeans DEF ReturnFalse

\* The innermost call alone may be at a path that does not exist.
LEMMA OnlyFirstMissing ==
    ASSUME Nested, Undisturbed, Quiet, stack # <<>>, Top.node \notin present
    PROVE  Len(stack) = 1
  <1>1. Len(stack) \in Nat \ {0} /\ Top = stack[Len(stack)]
    BY TopMeans
  <1>2. Len(stack) = 1 \/ Len(stack) >= 2
    BY <1>1, OneOrMore
  <1>3. Len(stack) # 1 => Top.node \in present
    BY <1>1, <1>2 DEF Undisturbed
  <1>. QED  BY <1>3

\* The ways in which an undisturbed walk goes on.
LEMMA QuietCases ==
    ASSUME Shape, Undisturbed, [WorkerNext]_allVars, Quiet'
    PROVE  \/ UNCHANGED walk
           \/ Plan \/ Process
           \/ /\ stack # <<>> /\ UNCHANGED <<root, loop>>
              /\ \/ Top.at = "enter" /\ Top.node \in present /\ Moved("process", Top.todo)
                 \/ Top.at = "enter" /\ Top.node \notin present /\ Len(stack) = 1 /\ stack' = <<>>
                 \/ Top.at = "list" /\ \E child \in Top.todo : Entered(child)
                 \/ Top.at = "list" /\ Top.todo = {} /\ Popped
                 \/ /\ Visit /\ Top.at = "process" /\ Top.node \in Directories
                    /\ Moved("list", Children(Top.node) \cap present)
                 \/ Visit /\ Top.at = "process" /\ Top.node \notin Directories /\ Popped
  <1>0. Quiet /\ Nested
    BY QuietKept DEF Shape
  <1>1. CASE Enter
    <2>1. stack # <<>> /\ Top.at = "enter"
      BY <1>1 DEF Enter, At
    <2>2. [Top EXCEPT !.at = "process"] = [Top EXCEPT !.at = "process", !.todo = Top.todo]
      BY <1>0, <2>1, TopMeans DEF Frame
    <2>. QED  BY <1>1, <2>1, <2>2 DEF Enter, Moved
  <1>2. CASE EnterFails
    <2>1. stack # <<>> /\ Top.at = "enter" /\ Top.node \notin present /\ ReturnFalse
      BY <1>0, <1>2 DEF EnterFails, At, Quiet
    <2>2. Len(stack) = 1 /\ stack' = <<>>
      BY <1>0, <2>1, OnlyFirstMissing, LastReturn DEF Nested
    <2>. QED  BY <1>2, <2>1, <2>2 DEF EnterFails
  <1>3. CASE NextChild
    BY <1>3 DEF NextChild, At, Entered
  <1>4. CASE EnumerationEnds
    BY <1>0, <1>4 DEF EnumerationEnds, At, Return, Popped, Quiet
  <1>5. CASE LeaveLoop
    <2>1. stack # <<>> /\ Top.at = "left"
      BY <1>5 DEF LeaveLoop, At
    <2>. QED  BY <1>0, <2>1, TopMeans DEF Undisturbed
  <1>6. CASE Visit
    BY <1>6, VisitMeans DEF At, Proceed, Moved, Return, Popped, loop
  <1>. QED  BY <1>1, <1>2, <1>3, <1>4, <1>5, <1>6, WalkCases

\* The walk stays undisturbed.
LEMMA UndisturbedStep ==
    ASSUME Shape, Undisturbed, [WorkerNext]_allVars
    PROVE  Undisturbed'
  <1>. SUFFICES ASSUME Quiet'
                PROVE  \A i \in 1 .. Len(stack') :
                          /\ stack'[i].at # "left"
                          /\ stack'[i].todo \subseteq present
                          /\ i # 1 \/ stack'[i].at # "enter" => stack'[i].node \in present
    BY QuietKept DEF Undisturbed, Shape
  <1>. DEFINE Fine(s, i) == /\ s[i].at # "left"
                            /\ s[i].todo \subseteq present
                            /\ i # 1 \/ s[i].at # "enter" => s[i].node \in present
  <1>1. Nested /\ stack \in Seq(Frame) /\ \A i \in 1 .. Len(stack) : Fine(stack, i)
    BY QuietKept DEF Undisturbed, Shape, Nested
  <1>2. ASSUME stack # <<>> PROVE /\ Len(stack) \in Nat \ {0} /\ Top = stack[Len(stack)]
                                  /\ Top.at \in Label /\ Top.todo \in SUBSET Nodes
                                  /\ Top.todo \subseteq present
                                  /\ Top.at # "enter" => Top.node \in present
    BY <1>1, <1>2, TopMeans DEF Frame
  <1>. SUFFICES \A i \in 1 .. Len(stack') : Fine(stack', i)
    OBVIOUS
  <1>3. CASE UNCHANGED walk
    BY <1>1, <1>3 DEF walk
  <1>4. CASE Plan \/ Process
    BY <1>4 DEF Plan, Process, Traverse, Call
  <1>5. ASSUME stack # <<>>, NEW at \in Label \ {"left"}, NEW todo \in SUBSET Nodes,
               todo \subseteq present, Top.node \in present, Moved(at, todo)
        PROVE  \A i \in 1 .. Len(stack') : Fine(stack', i)
    <2>1. /\ Len(stack') = Len(stack)
          /\ \A i \in 1 .. Len(stack) - 1 : stack'[i] = stack[i]
          /\ stack'[Len(stack)] = [node |-> Top.node, at |-> at, todo |-> todo]
      BY <1>1, <1>5, MovedMeans
    <2>2. Fine(stack', Len(stack))
      BY <1>5, <2>1
    <2>. QED  BY <1>1, <1>2, <1>5, <2>1, <2>2
  <1>6. ASSUME stack # <<>>, Popped PROVE \A i \in 1 .. Len(stack') : Fine(stack', i)
    BY <1>1, <1>2, <1>6, PoppedMeans
  <1>7. ASSUME stack # <<>>, Top.at = "list", NEW child \in Top.todo, Entered(child)
        PROVE  \A i \in 1 .. Len(stack') : Fine(stack', i)
    <2>1. child \in Path /\ child \in present
      BY <1>1, <1>2, <1>7, TopMeans, ChildMeans
    <2>2. /\ Len(stack') = Len(stack) + 1
          /\ \A i \in 1 .. Len(stack) - 1 : stack'[i] = stack[i]
          /\ stack'[Len(stack)] = [node |-> Top.node, at |-> Top.at, todo |-> Top.todo \ {child}]
          /\ stack'[Len(stack) + 1] = [node |-> child, at |-> "enter", todo |-> {}]
      BY <1>1, <1>7, <2>1, EnteredMeans DEF Call
    <2>3. Fine(stack', Len(stack)) /\ Fine(stack', Len(stack) + 1)
      BY <1>2, <1>7, <2>1, <2>2
    <2>. QED  BY <1>1, <1>2, <1>7, <2>2, <2>3
  <1>8. Children(Top.node) \cap present \in SUBSET Nodes
    BY DEF Children
  <1>9. ASSUME stack # <<>>, stack' = <<>> PROVE \A i \in 1 .. Len(stack') : Fine(stack', i)
    BY <1>9
  <1>. QED
    <2>1. CASE stack # <<>> /\ Top.at = "enter" /\ Top.node \in present /\ Moved("process", Top.todo)
      BY <1>2, <1>5, <2>1 DEF Label
    <2>2. CASE /\ stack # <<>> /\ Top.at = "process" /\ Top.node \in Directories
               /\ Moved("list", Children(Top.node) \cap present)
      BY <1>2, <1>5, <1>8, <2>2 DEF Label
    <2>. QED  BY <1>3, <1>4, <1>6, <1>7, <1>9, <2>1, <2>2, QuietCases

-----------------------------------------------------------------------------
(* What a walk has still to come to *)

\* A path that is under a child still to be visited, or under the node that the
\* innermost call has yet to process.
Pending(p) ==
    /\ stack # <<>>
    /\ \/ \E i \in 1 .. Len(stack) : \E child \in stack[i].todo : Under(child, p)
       \/ Top.at \in {"enter", "process"} /\ Under(Top.node, p)

\* The walk from the path has still to come to p.
Walking(path, p) == stack # <<>> /\ stack[1].node = path /\ Pending(p)

\* At the start of a walk everything is still to come.
LEMMA WalkingStart ==
    ASSUME NEW path, NEW p, Traverse(path), Under(path, p)
    PROVE  Walking(path, p)'
  <1>1. stack' = <<[node |-> path, at |-> "enter", todo |-> {}]>>
    BY DEF Traverse, Call
  <1>2. stack' # <<>> /\ Len(stack') = 1 /\ stack'[1].node = path /\ stack'[1].at = "enter"
    BY <1>1
  <1>. QED  BY <1>2 DEF Walking, Pending, Top

\* Something exists below a directory only.
LEMMA BelowDirectory ==
    ASSUME NEW dir \in Path, NEW p \in Nodes, Under(dir, p)
    PROVE  p = dir \/ (dir \in Directories /\ \E child \in Children(dir) :
                          Under(child, p) /\ (child = p \/ child \in Directories))
  BY ChildTowards, ChildMeans

\* What exists, and is still to come in an undisturbed walk, still is after the
\* next step, unless it was visited just now.
LEMMA WalkingStep ==
    ASSUME Shape, Undisturbed, [WorkerNext]_allVars, Quiet', ~UNCHANGED walk,
           NEW path, NEW p \in present, Walking(path, p)
    PROVE  Walking(path, p)' \/ (Visit /\ Top.node = p)
  <1>1. /\ Nested /\ stack \in Seq(Frame) /\ stack # <<>> /\ Pending(p)
        /\ stack[1].node = path /\ p \in Nodes /\ p \in Path /\ p \in Seq(Components)
    BY WorkerAssumption DEF Shape, Standing, Nested, Walking, WorkerAssumption, Path
  <1>2. /\ Len(stack) \in Nat \ {0} /\ Top = stack[Len(stack)]
        /\ Top.node \in Path /\ Top.node \in Seq(Components) /\ Top.todo \subseteq Children(Top.node)
        /\ Top.at \in Label /\ Top.todo \in SUBSET Nodes
    BY <1>1, TopMeans DEF Frame
  <1>3. Directories \subseteq present /\ \A i \in 1 .. Len(stack) : stack[i].todo \subseteq present
    BY QuietKept DEF Shape, Standing, Undisturbed
  \* In each of the forms that a step can take, it is still to come.
  <1>4. ASSUME Len(stack') \in Nat \ {0}, stack' # <<>>, stack'[1].node = path,
               NEW i \in 1 .. Len(stack'), NEW child \in stack'[i].todo, Under(child, p)
        PROVE  Walking(path, p)'
    BY <1>4 DEF Walking, Pending
  <1>5. ASSUME Len(stack') \in Nat \ {0}, stack' # <<>>, stack'[1].node = path,
               stack'[Len(stack')].at \in {"enter", "process"}, Under(stack'[Len(stack')].node, p)
        PROVE  Walking(path, p)'
    BY <1>5 DEF Walking, Pending, Top
  <1>6. ASSUME NEW i \in 1 .. Len(stack) - 1, NEW child \in stack[i].todo, Under(child, p),
               Len(stack') \in Nat, Len(stack') >= Len(stack) - 1,
               \A k \in 1 .. Len(stack) - 1 : stack'[k] = stack[k]
        PROVE  Walking(path, p)'
    <2>1. /\ Len(stack') \in Nat \ {0} /\ stack' # <<>> /\ i \in 1 .. Len(stack')
          /\ 1 \in 1 .. Len(stack) - 1
      BY <1>2, <1>6, EmptySeq
    <2>2. stack'[1].node = path /\ child \in stack'[i].todo
      BY <1>1, <1>6, <2>1
    <2>. QED  BY <1>4, <1>6, <2>1, <2>2
  <1>7. \/ \E i \in 1 .. Len(stack) - 1 : \E child \in stack[i].todo : Under(child, p)
        \/ \E child \in Top.todo : Under(child, p)
        \/ Top.at \in {"enter", "process"} /\ Under(Top.node, p)
    BY <1>1, <1>2 DEF Pending
  <1>8. ASSUME Top.at # "list" \/ Top.todo = {}
        PROVE  \/ Top.at # "list" /\ Under(Top.node, p)
               \/ \E i \in 1 .. Len(stack) - 1 : \E child \in stack[i].todo : Under(child, p)
    <2>1. ASSUME NEW child \in Top.todo, Under(child, p) PROVE Under(Top.node, p)
      <3>1. child \in Seq(Components) /\ Under(Top.node, child)
        BY <1>2, ChildMeans DEF Path
      <3>. QED  BY <1>1, <1>2, <2>1, <3>1, UnderOrder
    <2>. QED  BY <1>7, <1>8, <2>1
  <1>9. CASE Top.at = "enter" /\ Top.node \in present /\ Moved("process", Top.todo)
    <2>1. /\ Len(stack') = Len(stack)
          /\ \A k \in 1 .. Len(stack) - 1 : stack'[k] = stack[k]
          /\ stack'[Len(stack)] = [node |-> Top.node, at |-> "process", todo |-> Top.todo]
      BY <1>1, <1>2, <1>9, MovedMeans DEF Label
    <2>2. stack' # <<>> /\ stack'[1].node = path
      <3>1. stack'[1].node = stack[1].node
        BY <1>2, <2>1
      <3>. QED  BY <1>1, <1>2, <2>1, <3>1
    <2>3. CASE Under(Top.node, p)
      BY <1>2, <1>5, <2>1, <2>2, <2>3
    <2>4. CASE \E i \in 1 .. Len(stack) - 1 : \E child \in stack[i].todo : Under(child, p)
      BY <1>2, <1>6, <2>1, <2>4
    <2>. QED  BY <1>8, <1>9, <2>3, <2>4
  <1>10. CASE Top.at = "enter" /\ Top.node \notin present /\ Len(stack) = 1 /\ stack' = <<>>
    <2>1. Under(Top.node, p)
      BY <1>8, <1>10
    <2>2. Top.node \in present
      BY <1>1, <1>2, <1>3, <2>1, BelowDirectory
    <2>. QED  BY <1>10, <2>2
  <1>11. CASE Top.at = "list" /\ \E child \in Top.todo : Entered(child)
    <2>1. PICK new \in Top.todo : Entered(new)
      BY <1>11
    <2>2. /\ Len(stack') = Len(stack) + 1
          /\ \A k \in 1 .. Len(stack) - 1 : stack'[k] = stack[k]
          /\ stack'[Len(stack)] = [node |-> Top.node, at |-> Top.at, todo |-> Top.todo \ {new}]
          /\ stack'[Len(stack) + 1] = [node |-> new, at |-> "enter", todo |-> {}]
      <3>1. new \in Path
        BY <1>2, ChildMeans
      <3>. QED  BY <1>1, <2>1, <3>1, EnteredMeans DEF Call
    <2>3. stack' # <<>> /\ stack'[1].node = path
      <3>1. stack'[1].node = stack[1].node
        BY <1>2, <2>2
      <3>. QED  BY <1>1, <1>2, <2>2, <3>1
    <2>4. CASE Under(new, p)
      BY <1>2, <1>5, <2>2, <2>3, <2>4
    <2>5. ASSUME NEW child \in Top.todo \ {new}, Under(child, p) PROVE Walking(path, p)'
      BY <1>2, <1>4, <2>2, <2>3, <2>5
    <2>6. CASE \E i \in 1 .. Len(stack) - 1 : \E child \in stack[i].todo : Under(child, p)
      BY <1>2, <1>6, <2>2, <2>6
    <2>. QED  BY <1>7, <1>11, <2>4, <2>5, <2>6
  <1>12. CASE Top.at = "list" /\ Top.todo = {} /\ Popped
    <2>1. \E i \in 1 .. Len(stack) - 1 : \E child \in stack[i].todo : Under(child, p)
      BY <1>8, <1>12
    <2>2. Len(stack') = Len(stack) - 1 /\ \A k \in 1 .. Len(stack) - 1 : stack'[k] = stack[k]
      BY <1>1, <1>12, PoppedMeans
    <2>. QED  BY <1>2, <1>6, <2>1, <2>2
  <1>13. CASE /\ Visit /\ Top.at = "process" /\ Top.node \in Directories
              /\ Moved("list", Children(Top.node) \cap present)
    <2>. DEFINE todo == Children(Top.node) \cap present
    <2>1. /\ Len(stack') = Len(stack)
          /\ \A k \in 1 .. Len(stack) - 1 : stack'[k] = stack[k]
          /\ stack'[Len(stack)] = [node |-> Top.node, at |-> "list", todo |-> todo]
      <3>1. todo \in SUBSET Nodes /\ "list" \in Label
        BY DEF Children, Label
      <3>. QED  BY <1>1, <1>13, <3>1, MovedMeans
    <2>2. stack' # <<>> /\ stack'[1].node = path
      <3>1. stack'[1].node = stack[1].node
        BY <1>2, <2>1
      <3>. QED  BY <1>1, <1>2, <2>1, <3>1
    <2>3. ASSUME Under(Top.node, p), p # Top.node PROVE Walking(path, p)'
      <3>1. PICK child \in Children(Top.node) : Under(child, p) /\ (child = p \/ child \in Directories)
        BY <1>1, <1>2, <2>3, BelowDirectory
      <3>2. child \in todo
        BY <1>3, <3>1
      <3>3. child \in stack'[Len(stack)].todo
        BY <2>1, <3>2
      <3>. QED  BY <1>2, <1>4, <2>1, <2>2, <3>1, <3>3
    <2>4. CASE \E i \in 1 .. Len(stack) - 1 : \E child \in stack[i].todo : Under(child, p)
      BY <1>2, <1>6, <2>1, <2>4
    <2>. QED  BY <1>8, <1>13, <2>3, <2>4
  <1>14. CASE Visit /\ Top.at = "process" /\ Top.node \notin Directories /\ Popped
    <2>1. CASE Under(Top.node, p)
      <3>1. p = Top.node
        BY <1>1, <1>2, <1>14, <2>1, BelowDirectory
      <3>. QED  BY <1>14, <3>1
    <2>2. CASE \E i \in 1 .. Len(stack) - 1 : \E child \in stack[i].todo : Under(child, p)
      <3>1. Len(stack') = Len(stack) - 1 /\ \A k \in 1 .. Len(stack) - 1 : stack'[k] = stack[k]
        BY <1>1, <1>14, PoppedMeans
      <3>. QED  BY <1>2, <1>6, <2>2, <3>1
    <2>. QED  BY <1>8, <1>14, <2>1, <2>2
  <1>. QED
    <2>1. ~Plan /\ ~Process
      BY <1>1 DEF Plan, Process, Ready
    <2>. QED  BY <1>1, <1>9, <1>10, <1>11, <1>12, <1>13, <1>14, <2>1, QuietCases

-----------------------------------------------------------------------------
(* The planner's walk prepares the processor's *)

\* What exists under the path was seen, or will be when the planner gets there.
Met(path) ==
    \/ In(path, ext_q)
    \/ \A p \in present : Under(path, p) =>
          info[NameIn(path, p)].seen \/ (pass = "plan" /\ Walking(path, p))

\* This is so for the command line, and for what is, or is being, processed.
Planned ==
    Quiet => \A path \in Paths :
        In(path, Args) \/ In(path, int_q) \/ (stack # <<>> /\ stack[1].node = path) => Met(path)

\* On an empty queue is nothing.
LEMMA InEmpty == \A path : ~In(path, <<>>)
  <1>1. Len(<<>>) = 0
    OBVIOUS
  <1>. QED  BY <1>1 DEF In

\* Whatever is taken from the head of a queue, the others stay on it.
LEMMA InTail ==
    ASSUME NEW q \in Seq(Paths), q # <<>>, NEW path, In(path, q)
    PROVE  path = Head(q) \/ In(path, Tail(q))
  <1>1. PICK k \in 1 .. Len(q) : q[k] = path
    BY DEF In
  <1>2. k = 1 \/ k - 1 \in 1 .. Len(q) - 1
    BY HeadOfPaths
  <1>3. CASE k - 1 \in 1 .. Len(q) - 1
    <2>1. /\ Tail(q)[k - 1] = q[k] /\ k - 1 \in 1 .. Len(Tail(q))
      BY <1>3, HeadOfPaths
    <2>. QED  BY <1>1, <2>1 DEF In
  <1>. QED  BY <1>1, <1>2, <1>3, HeadOfPaths

\* What is put at the end of a queue is on it, with all the others.
LEMMA InAppend ==
    ASSUME NEW q \in Seq(Paths), NEW new \in Paths, NEW path
    PROVE  In(path, Append(q, new)) <=> path = new \/ In(path, q)
  <1>1. /\ Len(q) \in Nat /\ Len(Append(q, new)) = Len(q) + 1
        /\ \A k \in 1 .. Len(q) : Append(q, new)[k] = q[k]
        /\ Append(q, new)[Len(q) + 1] = new
    BY AppendProperties, LenProperties
  <1>. QED  BY <1>1 DEF In

\* Only between two walks does the pass change, or a path get to be processed.
LEMMA PassKept ==
    ASSUME [WorkerNext]_allVars, stack # <<>>
    PROVE  /\ pass' = pass /\ int_q' = int_q
           /\ ~Plan /\ ~Process
           /\ stack' # <<>> /\ Nested /\ Standing => stack'[1].node = stack[1].node
  <1>1. pass' = pass /\ int_q' = int_q /\ ~Plan /\ ~Process
    BY DEF WorkerNext, Step, allVars, loop, Ready, Enter, EnterFails, NextChild, EnumerationEnds,
       LeaveLoop, PlanNew, PlanAgain, ParseLine, ParseFails, ProcessOther, ProcessUnopened,
       ProcessFails, ProcessFile, Plan, Process, StartProcessing, StartSweep, Sweep, Complete,
       FinishTransition, Cancel, Change
  <1>2. ASSUME stack' # <<>>, Nested, Standing PROVE stack'[1].node = stack[1].node
    <2>1. /\ Len(stack) \in Nat \ {0} /\ Top = stack[Len(stack)] /\ stack \in Seq(Frame)
          /\ Top \in Frame /\ Top.todo \subseteq Children(Top.node) /\ Top.todo \in SUBSET Nodes
      BY <1>2, TopMeans DEF Nested, Frame
    <2>2. ASSUME NEW at \in Label, NEW todo \in SUBSET Nodes, Moved(at, todo)
          PROVE  stack'[1].node = stack[1].node
      <3>1. /\ \A i \in 1 .. Len(stack) - 1 : stack'[i] = stack[i]
            /\ stack'[Len(stack)] = [node |-> Top.node, at |-> at, todo |-> todo]
        BY <2>1, <2>2, MovedMeans
      <3>. QED  BY <2>1, <3>1
    <2>3. ASSUME Popped \/ Left PROVE stack'[1].node = stack[1].node
      <3>1. /\ stack' \in Seq(Frame) /\ Len(stack') = Len(stack) - 1
            /\ \A i \in 1 .. Len(stack) - 1 : stack'[i].node = stack[i].node
        BY <2>1, <2>3, PoppedMeans
      <3>2. 1 \in 1 .. Len(stack) - 1
        BY <1>2, <2>1, <3>1, EmptySeq
      <3>. QED  BY <3>1, <3>2
    <2>4. ASSUME NEW child \in Top.todo, Entered(child) PROVE stack'[1].node = stack[1].node
      <3>1. child \in Path
        BY <2>1, ChildMeans DEF Frame
      <3>2. /\ \A i \in 1 .. Len(stack) - 1 : stack'[i] = stack[i]
            /\ stack'[Len(stack)] = [node |-> Top.node, at |-> Top.at, todo |-> Top.todo \ {child}]
        BY <2>1, <2>4, <3>1, EnteredMeans
      <3>. QED  BY <2>1, <3>2
    <2>5. CASE Enter
      <3>1. [Top EXCEPT !.at = "process"] = [Top EXCEPT !.at = "process", !.todo = Top.todo]
        BY <2>1 DEF Frame
      <3>2. Moved("process", Top.todo)
        BY <2>5, <3>1 DEF Enter, Moved
      <3>. QED  BY <2>1, <2>2, <3>2 DEF Label
    <2>6. CASE EnterFails \/ EnumerationEnds \/ LeaveLoop
      BY <2>3, <2>6 DEF EnterFails, EnumerationEnds, LeaveLoop, Return, ReturnFalse, Popped, Left
    <2>7. CASE NextChild
      BY <2>4, <2>7 DEF NextChild, Entered
    <2>8. CASE Visit
      <3>1. CASE Top.node \in Directories
        <4>1. Moved("list", Children(Top.node) \cap present)
          BY <2>8, <3>1, VisitMeans DEF Proceed, Moved
        <4>2. Children(Top.node) \cap present \in SUBSET Nodes /\ "list" \in Label
          BY DEF Children, Label
        <4>. QED  BY <2>2, <4>1, <4>2
      <3>2. CASE Top.node \notin Directories
        BY <2>3, <2>8, <3>2, VisitMeans DEF Proceed, Return, Popped
      <3>. QED  BY <3>1, <3>2
    <2>9. CASE UNCHANGED walk
      BY <2>9 DEF walk
    <2>. QED  BY <1>1, <2>5, <2>6, <2>7, <2>8, <2>9, WalkCases
  <1>. QED  BY <1>1, <1>2

\* A path stays on the queue until the planner starts on it.
LEMMA ExtStep ==
    ASSUME Shape, [WorkerNext]_allVars, NEW path, In(path, ext_q)
    PROVE  In(path, ext_q') \/ (Plan /\ path = Head(ext_q))
  <1>1. CASE Plan
    BY <1>1, InTail DEF Plan, Shape, Queued
  <1>2. CASE ParseLine
    <2>1. ext_q' = ext_q \/ ext_q' = Append(ext_q, root \o Head(lines).name)
      BY <1>2 DEF ParseLine
    <2>2. root \o Head(lines).name \in Paths
      BY <1>2, ReadingMeans DEF ParseLine, Shape
    <2>3. In(path, Append(ext_q, root \o Head(lines).name))
      BY <2>2, InAppend DEF Shape, Queued
    <2>. QED  BY <2>1, <2>3
  <1>3. CASE ~Plan /\ ~ParseLine
    <2>1. ext_q' = ext_q
      BY <1>3 DEF WorkerNext, Step, allVars, loop, Enter, EnterFails, NextChild, EnumerationEnds,
         LeaveLoop, PlanNew, PlanAgain, ParseFails, ProcessOther, ProcessUnopened,
         ProcessFails, ProcessFile, Process, StartProcessing, StartSweep, Sweep, Complete,
         FinishTransition, Cancel, Change
    <2>. QED  BY <2>1
  <1>. QED  BY <1>1, <1>2, <1>3

\* What lies under a path from the queue has a name.
LEMMA NameType ==
    ASSUME NEW path \in Paths, NEW p \in Nodes, Under(path, p)
    PROVE  NameIn(path, p) \in Names
  BY WorkerAssumption DEF WorkerAssumption, NamesClosed, NameIn

\* The planner has seen the name of each node that it visits.
LEMMA PlanVisit ==
    ASSUME TypeOK, Visit, pass = "plan", stack # <<>>, Nested
    PROVE  info'[NameIn(stack[1].node, Top.node)].seen
  <1>1. Name = NameIn(stack[1].node, Top.node) /\ Name \in Names
    BY NameOfTop, TopMeans
  <1>2. CASE PlanNew
    <2>1. Found(Name)
      BY <1>2 DEF PlanNew
    <2>. QED  BY <1>1, <2>1 DEF Found, TypeOK, Info
  <1>3. CASE PlanAgain
    BY <1>1, <1>3 DEF PlanAgain, list, vars
  <1>. QED  BY <1>2, <1>3 DEF Visit, ProcessOther, Processable, ProcessUnopened, ProcessFails, ProcessFile

\* Nothing that the planner was given to see is forgotten.
LEMMA MetStep ==
    ASSUME TypeOK, Shape, Undisturbed, [WorkerNext]_allVars, Quiet', NEW path \in Paths, Met(path)
    PROVE  Met(path)'
  <1>1. Nested /\ Standing /\ present' = present /\ [Next]_vars
    BY QuietKept, ListStep DEF Shape
  <1>2. CASE In(path, ext_q)
    <2>1. CASE In(path, ext_q')
      BY <2>1 DEF Met
    <2>2. CASE Plan /\ path = Head(ext_q)
      <3>1. pass' = "plan" /\ Traverse(path)
        BY <2>2 DEF Plan
      <3>2. \A p \in present : Under(path, p) => Walking(path, p)'
        BY <3>1, WalkingStart
      <3>. QED  BY <1>1, <3>1, <3>2 DEF Met
    <2>. QED  BY <1>2, <2>1, <2>2, ExtStep
  <1>3. CASE ~In(path, ext_q)
    <2>1. ASSUME NEW p \in present, Under(path, p)
          PROVE  info'[NameIn(path, p)].seen \/ (pass' = "plan" /\ Walking(path, p)')
      <3>1. NameIn(path, p) \in Names
        BY <1>1, <2>1, NameType DEF Standing
      <3>2. CASE info[NameIn(path, p)].seen
        BY <1>1, <3>1, <3>2, SeenKept
      <3>3. CASE pass = "plan" /\ Walking(path, p)
        <4>1. stack # <<>> /\ stack[1].node = path /\ pass' = "plan"
          BY <3>3, PassKept DEF Walking
        <4>2. CASE UNCHANGED walk
          <5>1. Walking(path, p)'
            BY <3>3, <4>2 DEF walk, Walking, Pending, Top
          <5>. QED  BY <4>1, <5>1
        <4>3. CASE ~UNCHANGED walk
          <5>1. Walking(path, p)' \/ (Visit /\ Top.node = p)
            BY <3>3, <4>3, WalkingStep
          <5>2. CASE Visit /\ Top.node = p
            BY <1>1, <3>3, <4>1, <5>2, PlanVisit
          <5>. QED  BY <4>1, <5>1, <5>2
        <4>. QED  BY <4>2, <4>3
      <3>. QED  BY <1>3, <2>1, <3>2, <3>3 DEF Met
    <2>. QED  BY <1>1, <2>1 DEF Met
  <1>. QED  BY <1>2, <1>3

\* What is handed on to the processor was given to the planner before.
LEMMA PlannedStep ==
    ASSUME TypeOK, Shape, Undisturbed, Planned, [WorkerNext]_allVars
    PROVE  Planned'
  <1>. SUFFICES ASSUME Quiet', NEW path \in Paths,
                       In(path, Args) \/ In(path, int_q') \/ (stack' # <<>> /\ stack'[1].node = path)
                PROVE  Met(path)'
    BY DEF Planned, In
  <1>1. Nested /\ Standing /\ Queued /\ Quiet
    BY QuietKept DEF Shape
  <1>2. SUFFICES Met(path)
    BY MetStep
  <1>3. In(path, Args) \/ In(path, int_q) \/ (stack # <<>> /\ stack[1].node = path) => Met(path)
    BY <1>1 DEF Planned
  <1>4. CASE Plan
    <2>1. Head(ext_q) \in Paths /\ In(Head(ext_q), ext_q)
      BY <1>1, <1>4, HeadOfPaths DEF Plan, Queued, In
    <2>2. Met(Head(ext_q))
      BY <2>1 DEF Met
    <2>3. In(path, int_q') => path = Head(ext_q) \/ In(path, int_q)
      BY <1>1, <1>4, <2>1, InAppend DEF Plan, Queued
    <2>4. stack'[1].node = Head(ext_q)
      BY <1>4 DEF Plan, Traverse, Call
    <2>. QED  BY <1>3, <2>2, <2>3, <2>4
  <1>5. CASE Process
    <2>1. Head(int_q) = int_q[1] /\ 1 \in 1 .. Len(int_q) /\ int_q' = Tail(int_q)
      BY <1>1, <1>5, HeadOfPaths DEF Process, Queued
    <2>2. In(path, int_q') => In(path, int_q)
      <3>1. /\ Len(Tail(int_q)) = Len(int_q) - 1 /\ Len(int_q) \in Nat \ {0}
            /\ \A k \in 1 .. Len(int_q) - 1 : Tail(int_q)[k] = int_q[k + 1]
        BY <1>1, <1>5, HeadOfPaths DEF Process, Queued
      <3>. QED  BY <2>1, <3>1 DEF In
    <2>3. stack'[1].node = int_q[1]
      BY <1>5, <2>1 DEF Process, Traverse, Call
    <2>. QED  BY <1>3, <2>1, <2>2, <2>3 DEF In
  <1>6. CASE ~Plan /\ ~Process
    <2>1. int_q' = int_q
      BY <1>6 DEF WorkerNext, Step, allVars, loop, Enter, EnterFails, NextChild, EnumerationEnds,
         LeaveLoop, PlanNew, PlanAgain, ParseLine, ParseFails, ProcessOther, ProcessUnopened,
         ProcessFails, ProcessFile, StartProcessing, StartSweep, Sweep, Complete,
         FinishTransition, Cancel, Change
    <2>2. ASSUME stack' # <<>> PROVE stack # <<>> /\ stack'[1].node = stack[1].node
      <3>1. stack # <<>>
        BY <1>6, <2>2, WalkCases, VisitMeans DEF Enter, EnterFails, NextChild, EnumerationEnds,
           LeaveLoop, At, walk
      <3>. QED  BY <1>1, <2>2, <3>1, PassKept
    <2>. QED  BY <1>3, <2>1, <2>2 DEF In
  <1>. QED  BY <1>4, <1>5, <1>6

\* Only a file that the processor meets has no entry where one was expected.
LEMMA UnknownFileStep ==
    ASSUME TypeOK, [WorkerNext]_allVars, fault' = "unknown file", fault # "unknown file"
    PROVE  /\ ProcessFile /\ CheckUnknownFile(Name)
  <1>1. ASSUME NEW n, NEW new, Transition(n, new) PROVE FALSE
    BY <1>1 DEF Transition
  <1>2. CASE PlanNew
    BY <1>1, <1>2 DEF PlanNew, Found, NoTransition
  <1>3. CASE ParseLine
    BY <1>1, <1>3 DEF ParseLine, RecordChecksum, CompareChecksum, NoTransition, Die
  <1>4. CASE ProcessUnopened
    BY <1>1, <1>4 DEF ProcessUnopened, MarkFailed
  <1>5. CASE ProcessFile
    <2>1. ASSUME NEW c, CheckFile(Name, c) PROVE FALSE
      BY <1>1, <2>1 DEF CheckFile, Die
    <2>. QED  BY <1>5, <2>1 DEF ProcessFile
  <1>6. CASE Sweep
    BY <1>1, <1>6 DEF Sweep, MarkNotFound
  <1>7. CASE FinishTransition
    BY <1>7 DEF FinishTransition, StoreStatus
  <1>8. ASSUME ~PlanNew, ~ParseLine, ~ProcessUnopened, ~ProcessFile, ~Sweep, ~FinishTransition
        PROVE  fault' = fault
    BY <1>8 DEF WorkerNext, Step, allVars, list, vars, Enter, EnterFails, NextChild,
       EnumerationEnds, LeaveLoop, PlanAgain, ParseFails, ProcessOther, ProcessFails, Plan,
       Process, StartProcessing, StartSweep, Complete, Cancel, Change
  <1>. QED  BY <1>2, <1>3, <1>4, <1>5, <1>6, <1>7, <1>8

\* A counter that does not stand at zero has counted.
LEMMA ZeroOrMore == ASSUME NEW max \in Nat, NEW n \in 0 .. max PROVE n = 0 \/ n > 0
  OBVIOUS

\* The property, in terms of a quiet worker.
LEMMA QuietMeans ==
    ASSUME Ranges
    PROVE  ProcessedWasPlanned <=> (Quiet => fault # "unknown file")
  <1>1. changes = 0 \/ changes > 0
    BY DEF Ranges
  <1>2. ~(changes = 0 /\ changes > 0)
    OBVIOUS
  <1>. QED  BY <1>1, <1>2, Zenon DEF ProcessedWasPlanned, Quiet

\* An undisturbed processor has an entry for each file that it meets.
LEMMA EntryStep ==
    ASSUME TypeOK, Shape, Undisturbed, Entries, Planned, ProcessedWasPlanned,
           [WorkerNext]_allVars
    PROVE  ProcessedWasPlanned'
  <1>. SUFFICES ASSUME fault' = "unknown file", Quiet' PROVE FALSE
    <2>1. Ranges'
      BY RangesStep DEF Shape
    <2>2. changes' = 0 \/ changes' > 0
      <3>1. changes' \in 0 .. MaxChanges
        BY <2>1 DEF Ranges
      <3>2. MaxChanges \in Nat
        BY WorkerAssumption DEF WorkerAssumption
      <3>. QED  BY <3>1, <3>2, ZeroOrMore, Zenon
    <2>. QED  BY <2>2, Zenon DEF ProcessedWasPlanned, Quiet
  <1>1. Quiet /\ Nested /\ Standing /\ Stages
    BY QuietKept DEF Shape
  <1>2. CASE fault = "unknown file"
    BY <1>1, <1>2, QuietMeans DEF Shape
  <1>3. CASE fault # "unknown file"
    <2>1. ProcessFile /\ CheckUnknownFile(Name)
      BY <1>3, UnknownFileStep
    <2>2. stack # <<>> /\ pass = "process" /\ Top.node \in present /\ Name \notin known
      BY <2>1 DEF ProcessFile, Processable, At, CheckUnknownFile
    <2>3. /\ stack[1].node \in Paths /\ Under(stack[1].node, Top.node)
          /\ Name = NameIn(stack[1].node, Top.node) /\ Name \in Names
      BY <1>1, <2>2, TopMeans, NameOfTop
    <2>4. Met(stack[1].node) /\ ~In(stack[1].node, ext_q)
      <3>1. ext_q = <<>>
        BY <1>1, <2>2 DEF Stages
      <3>2. ~In(stack[1].node, ext_q)
        BY <3>1, InEmpty
      <3>. QED  BY <1>1, <2>2, <2>3, <3>2 DEF Planned
    <2>5. info[Name].seen
      BY <2>2, <2>3, <2>4 DEF Met
    <2>. QED  BY <2>2, <2>3, <2>5 DEF Entries
  <1>. QED  BY <1>2, <1>3

\* The worker starts undisturbed, with the command line still to be planned.
LEMMA PlannedInit == WorkerInit => Undisturbed /\ Entries /\ Planned /\ ProcessedWasPlanned
  <1>. SUFFICES ASSUME WorkerInit PROVE Undisturbed /\ Entries /\ Planned /\ ProcessedWasPlanned
    OBVIOUS
  <1>1. stack = <<>> /\ int_q = <<>> /\ ext_q = Args /\ fault = "none"
    BY DEF WorkerInit, Init
  <1>2. Undisturbed
    BY <1>1 DEF Undisturbed
  <1>3. Entries
    BY DEF WorkerInit, Init, Entries, NewInfo
  <1>4. Planned
    BY <1>1, InEmpty DEF Planned, Met
  <1>5. ProcessedWasPlanned
    BY <1>1 DEF ProcessedWasPlanned
  <1>. QED  BY <1>2, <1>3, <1>4, <1>5

\* The inductive invariant of the planner's walk.
PInv == TypeOK /\ Shape /\ Undisturbed /\ Entries /\ Planned /\ ProcessedWasPlanned

\* It holds in every reachable state.
THEOREM PlanningInvariance == WorkerSpec => []PInv
  <1>1. WorkerInit => PInv
    BY ShapeInit, TypeInit, PlannedInit DEF PInv
  <1>2. PInv /\ [WorkerNext]_allVars => PInv'
    BY ShapeStep, UndisturbedStep, EntriesStep, PlannedStep, EntryStep, ListStep DEF PInv, Shape
  <1>. QED  BY <1>1, <1>2, PTL DEF WorkerSpec

\* As long as the files stay as they are, can be accessed, and nobody cancels,
\* the processor meets no name that the planner made no entry for, whatever the
\* tree, the lists in it and the command line.
THEOREM PlannedBeforeProcessed == WorkerSpec => []ProcessedWasPlanned
  <1>1. PInv => ProcessedWasPlanned
    BY DEF PInv
  <1>. QED  BY <1>1, PlanningInvariance, PTL

-----------------------------------------------------------------------------
(* What is done when the dialog says so *)

\* The processor has still to come to p, under the path.
Ahead(path, p) == In(path, int_q) \/ (pass = "process" /\ Walking(path, p))

\* Every name that was seen is decided, is a directory's, or still to be met.
Decided ==
    Quiet /\ fault = "none" => \A n \in Names : info[n].seen =>
        \/ target[n] \in Processed
        \/ n \in DirectoryNames
        \/ \E path \in Paths, p \in present :
              Under(path, p) /\ NameIn(path, p) = n /\ Ahead(path, p)

\* The path that is being planned will be processed.
PlanQueued == pass = "plan" /\ stack # <<>> => In(stack[1].node, int_q)

\* After the sweep, nothing is left to verify.
NoneLeft ==
    fault = "none" /\ dialog = "COMPLETED" /\ verify_only =>
        \A n \in Names : target[n] # "VERIFIABLE"

\* A path stays on the second queue until the processor starts on it.
LEMMA IntStep ==
    ASSUME Shape, [WorkerNext]_allVars, NEW path, In(path, int_q)
    PROVE  In(path, int_q') \/ (Process /\ path = Head(int_q))
  <1>1. CASE Process
    BY <1>1, InTail DEF Process, Shape, Queued
  <1>2. CASE Plan
    <2>1. int_q' = Append(int_q, Head(ext_q)) /\ Head(ext_q) \in Paths /\ int_q \in Seq(Paths)
      BY <1>2, HeadOfPaths DEF Plan, Shape, Queued
    <2>. QED  BY <2>1, InAppend
  <1>3. CASE ~Plan /\ ~Process
    <2>1. int_q' = int_q
      BY <1>3 DEF WorkerNext, Step, allVars, loop, Enter, EnterFails, NextChild, EnumerationEnds,
         LeaveLoop, PlanNew, PlanAgain, ParseLine, ParseFails, ProcessOther, ProcessUnopened,
         ProcessFails, ProcessFile, StartProcessing, StartSweep, Sweep, Complete,
         FinishTransition, Cancel, Change
    <2>. QED  BY <2>1
  <1>. QED  BY <1>1, <1>2, <1>3

\* What exists, and is ahead of an undisturbed processor, stays so until it is
\* visited.
LEMMA AheadStep ==
    ASSUME Shape, Undisturbed, [WorkerNext]_allVars, Quiet',
           NEW path, NEW p \in present, Under(path, p), Ahead(path, p)
    PROVE  Ahead(path, p)' \/ (Visit /\ pass = "process" /\ stack # <<>>
                               /\ stack[1].node = path /\ Top.node = p)
  <1>1. CASE In(path, int_q)
    <2>1. CASE Process /\ path = Head(int_q)
      <3>1. pass' = "process" /\ Traverse(path)
        BY <2>1 DEF Process
      <3>. QED  BY <3>1, WalkingStart DEF Ahead
    <2>. QED  BY <1>1, <2>1, IntStep DEF Ahead
  <1>2. CASE pass = "process" /\ Walking(path, p)
    <2>1. stack # <<>> /\ stack[1].node = path /\ pass' = "process"
      BY <1>2, PassKept DEF Walking
    <2>2. CASE UNCHANGED walk
      <3>1. Walking(path, p)'
        BY <1>2, <2>2 DEF walk, Walking, Pending, Top
      <3>. QED  BY <2>1, <3>1 DEF Ahead
    <2>3. CASE ~UNCHANGED walk
      BY <1>2, <2>1, <2>3, WalkingStep DEF Ahead
    <2>. QED  BY <2>2, <2>3
  <1>. QED  BY <1>1, <1>2 DEF Ahead

\* Of a directory in the walk, the name is a directory's.
LEMMA NameOfDirectory ==
    ASSUME Nested, stack # <<>>, Top.node \in Directories
    PROVE  Name \in DirectoryNames
  <1>1. /\ stack[1].node \in Path /\ Under(stack[1].node, Top.node)
        /\ root = Parent(stack[1].node) /\ Top.node \in Nodes
    BY TopMeans, WorkerAssumption DEF WorkerAssumption
  <1>2. stack[1].node \in Directories
    BY <1>1, BelowDirectory
  <1>. QED  BY <1>1, <1>2 DEF DirectoryNames, Name

\* A change to FAILED of what was not processed is outside the table.
LEMMA MarkFailedDies ==
    ASSUME TypeOK, NEW n \in Names, MarkFailed(n)
    PROVE  fault' # "none"
  <1>1. info[n].status \in Unprocessed
    BY DEF MarkFailed, TypeOK, Info, Status
  <1>2. "FAILED" \notin Successors[info[n].status]
    BY <1>1 DEF Successors, Unprocessed
  <1>. QED  BY <1>2 DEF MarkFailed, Transition

\* A reported checksum decides.
LEMMA CheckDecides ==
    ASSUME TypeOK, NEW n \in Names, NEW c, CheckFile(n, c), fault' = "none"
    PROVE  /\ target'[n] \in {"COPIED", "VERIFIED", "VERIFICATION_FAILED"}
           /\ \A m \in Names \ {n} : target'[m] = target[m]
  <1>1. \E new \in {"COPIED", "VERIFIED", "VERIFICATION_FAILED"} : Transition(n, new)
    BY DEF CheckFile, Die
  <1>. QED  BY <1>1 DEF Transition, TypeOK

\* Whatever the processor visits is decided afterwards, or a directory.
LEMMA VisitDecides ==
    ASSUME TypeOK, Nested, Visit, pass = "process", stack # <<>>, Quiet', fault' = "none"
    PROVE  /\ Name \in Names
           /\ \/ Top.node \in Directories
              \/ target[Name] \in Processed
              \/ /\ Top.node \in handled' /\ ProcessFile
                 /\ target'[Name] \in {"COPIED", "VERIFIED", "VERIFICATION_FAILED"}
                 /\ \A m \in Names \ {Name} : target'[m] = target[m]
  <1>1. Name \in Names
    BY NameOfTop
  <1>2. Idle
    BY VisitMeans DEF At
  <1>3. CASE ProcessOther
    BY <1>1, <1>2, <1>3 DEF ProcessOther, Idle
  <1>4. CASE ProcessUnopened
    BY <1>1, <1>4, MarkFailedDies DEF ProcessUnopened
  <1>5. CASE ProcessFails
    BY <1>5 DEF ProcessFails, Quiet
  <1>6. CASE ProcessFile
    <2>1. ~CheckUnknownFile(Name)
      BY DEF CheckUnknownFile, Die
    <2>2. PICK c : CheckFile(Name, c)
      BY <1>6, <2>1 DEF ProcessFile
    <2>3. Top.node \in handled'
      BY <1>6 DEF ProcessFile
    <2>. QED  BY <1>1, <1>6, <2>2, <2>3, CheckDecides
  <1>7. CASE PlanNew \/ PlanAgain
    BY <1>7 DEF PlanNew, PlanAgain
  <1>. QED  BY <1>3, <1>4, <1>5, <1>6, <1>7 DEF Visit

\* Only the planner marks a name as seen.
LEMMA SeenNew ==
    ASSUME TypeOK, Nested, Reading, [WorkerNext]_allVars,
           NEW n \in Names, info'[n].seen, ~info[n].seen
    PROVE  PlanNew /\ n = Name
  <1>1. CASE PlanNew
    <2>1. Found(Name)
      BY <1>1 DEF PlanNew
    <2>2. Name # n => info'[n].seen = info[n].seen
      BY <2>1 DEF Found, TypeOK, Info
    <2>. QED  BY <1>1, <2>2
  <1>2. CASE ParseLine
    <2>1. Head(lines).name \in Names
      BY <1>2, ReadingMeans DEF ParseLine, Line
    <2>2. \/ RecordChecksum(Head(lines).name, Head(lines).sum)
          \/ CompareChecksum(Head(lines).name, Head(lines).sum)
      BY <1>2 DEF ParseLine
    <2>. QED  BY <2>1, <2>2, FlagsKept
  <1>3. CASE ProcessUnopened
    BY <1>3 DEF ProcessUnopened, MarkFailed
  <1>4. CASE ProcessFile
    <2>1. stack # <<>>
      BY <1>4 DEF ProcessFile, Processable, At
    <2>2. Name \in Names
      BY <2>1, NameOfTop
    <2>3. CASE CheckUnknownFile(Name)
      BY <2>3 DEF CheckUnknownFile
    <2>4. ASSUME NEW c, CheckFile(Name, c) PROVE info'[n].seen = info[n].seen
      BY <2>2, <2>4, FlagsKept
    <2>. QED  BY <1>4, <2>3, <2>4 DEF ProcessFile
  <1>5. CASE Sweep
    BY <1>5 DEF Sweep, MarkNotFound
  <1>6. CASE FinishTransition
    BY <1>6 DEF FinishTransition, StoreStatus, TypeOK, Info
  <1>7. ASSUME ~PlanNew, ~ParseLine, ~ProcessUnopened, ~ProcessFile, ~Sweep, ~FinishTransition
        PROVE  info' = info
    BY <1>7 DEF WorkerNext, Step, allVars, list, vars, Enter, EnterFails, NextChild,
       EnumerationEnds, LeaveLoop, PlanAgain, ParseFails, ProcessOther, ProcessFails, Plan,
       Process, StartProcessing, StartSweep, Complete, Cancel, Change
  <1>. QED  BY <1>1, <1>2, <1>3, <1>4, <1>5, <1>6, <1>7

\* What is planned is on the second queue until the first is empty.
LEMMA PlanQueuedStep ==
    ASSUME Shape, PlanQueued, [WorkerNext]_allVars
    PROVE  PlanQueued'
  <1>. SUFFICES ASSUME pass' = "plan", stack' # <<>> PROVE In(stack[1].node, int_q)'
    BY DEF PlanQueued
  <1>0. Nested /\ Standing /\ Queued
    BY DEF Shape
  <1>1. CASE Plan
    <2>1. Head(ext_q) \in Paths /\ int_q \in Seq(Paths)
      BY <1>0, <1>1, HeadOfPaths DEF Plan, Queued
    <2>2. In(Head(ext_q), int_q')
      BY <1>1, <2>1, InAppend DEF Plan
    <2>3. stack'[1].node = Head(ext_q)
      BY <1>1 DEF Plan, Traverse, Call
    <2>. QED  BY <2>2, <2>3 DEF In
  <1>2. CASE Process
    BY <1>2 DEF Process
  <1>3. CASE ~Plan /\ ~Process
    <2>1. stack # <<>>
      BY <1>3, WalkCases, VisitMeans DEF Enter, EnterFails, NextChild, EnumerationEnds,
         LeaveLoop, At, walk
    <2>2. stack'[1].node = stack[1].node /\ pass' = pass /\ int_q' = int_q
      BY <1>0, <2>1, PassKept
    <2>3. In(stack[1].node, int_q)
      BY <2>1, <2>2 DEF PlanQueued
    <2>. QED  BY <2>2, <2>3 DEF In
  <1>. QED  BY <1>1, <1>2, <1>3

\* A name that was seen is not lost on its way from one queue to the other.
LEMMA DecidedStep ==
    ASSUME TypeOK, Shape, Undisturbed, PlanQueued, Decided, [WorkerNext]_allVars
    PROVE  Decided'
  <1>. SUFFICES ASSUME Quiet', fault' = "none", NEW n \in Names, info'[n].seen
                PROVE  \/ target'[n] \in Processed
                       \/ n \in DirectoryNames
                       \/ \E path \in Paths, p \in present' :
                             Under(path, p) /\ NameIn(path, p) = n /\ Ahead(path, p)'
    BY DEF Decided
  <1>1. /\ Quiet /\ present' = present /\ [Next]_vars /\ fault = "none"
        /\ Nested /\ Reading /\ Standing
    BY QuietKept, ListStep, FaultStays DEF Shape
  <1>2. CASE info[n].seen
    <2>1. CASE target[n] \in Processed
      BY <1>1, <2>1, ProcessedStep
    <2>2. ASSUME NEW path \in Paths, NEW p \in present, Under(path, p), NameIn(path, p) = n,
                 Ahead(path, p)
          PROVE  target'[n] \in Processed \/ n \in DirectoryNames \/ Ahead(path, p)'
      <3>1. CASE Visit /\ pass = "process" /\ stack # <<>> /\ stack[1].node = path /\ Top.node = p
        <4>1. Name = n
          BY <1>1, <2>2, <3>1, TopMeans
        <4>2. \/ Top.node \in Directories
              \/ target[Name] \in Processed
              \/ target'[Name] \in {"COPIED", "VERIFIED", "VERIFICATION_FAILED"}
          BY <1>1, <3>1, VisitDecides
        <4>3. Top.node \in Directories => n \in DirectoryNames
          BY <1>1, <3>1, <4>1, NameOfDirectory
        <4>4. target[n] \in Processed => target'[n] \in Processed
          BY <1>1, ProcessedStep
        <4>. QED  BY <4>1, <4>2, <4>3, <4>4 DEF Processed
      <3>. QED  BY <2>2, <3>1, AheadStep
    <2>. QED  BY <1>1, <1>2, <2>1, <2>2 DEF Decided
  <1>3. CASE ~info[n].seen
    <2>1. PlanNew /\ n = Name
      BY <1>1, <1>3, SeenNew
    <2>2. stack # <<>> /\ pass = "plan" /\ Top.at = "process"
      BY <2>1 DEF PlanNew, At
    <2>3. /\ stack[1].node \in Paths /\ Under(stack[1].node, Top.node)
          /\ Name = NameIn(stack[1].node, Top.node)
      BY <1>1, <2>2, TopMeans
    <2>4. Top.node \in present
      BY <1>1, <2>2, TopMeans DEF Undisturbed
    <2>5. In(stack[1].node, int_q') /\ In(stack[1].node, int_q)
      BY <2>2, PassKept DEF PlanQueued
    <2>6. \E path \in Paths, p \in present : /\ Under(path, p) /\ NameIn(path, p) = n
                                             /\ In(path, int_q')
      BY <2>1, <2>3, <2>4, <2>5
    <2>7. \A path \in Paths, p \in present : In(path, int_q') => Ahead(path, p)'
      BY DEF Ahead, In
    <2>. QED  BY <1>1, <2>6, <2>7
  <1>. QED  BY <1>2, <1>3

\* The sweep leaves nothing to verify, and then nothing happens any more.
LEMMA NoneLeftStep ==
    ASSUME TypeOK, Shape, Entries, NoneLeft, [WorkerNext]_allVars
    PROVE  NoneLeft'
  <1>. SUFFICES ASSUME fault' = "none", dialog' = "COMPLETED", verify_only'
                PROVE  \A n \in Names : target'[n] # "VERIFIABLE"
    BY DEF NoneLeft
  <1>1. fault = "none" /\ Stages
    BY ListStep, FaultStays DEF Shape
  <1>2. CASE Complete
    <2>1. UNCHANGED <<target, known, info, verify_only>> /\ Ready
      BY <1>2 DEF Complete, list, vars
    <2>2. \A n \in known : info[n].status # "VERIFIABLE"
      BY <1>2, <2>1 DEF Complete
    <2>3. \A n \in Names : target[n] = info[n].status
      BY <2>1 DEF Ready, Idle
    <2>4. \A n \in Names \ known : target[n] = "NONE"
      BY DEF Entries
    <2>. QED  BY <2>1, <2>2, <2>3, <2>4
  <1>3. CASE ~Complete
    <2>1. dialog = "COMPLETED"
      BY <1>3 DEF WorkerNext, Step, allVars, loop, Enter, EnterFails, NextChild, EnumerationEnds,
         LeaveLoop, PlanNew, PlanAgain, ParseLine, ParseFails, ProcessOther, ProcessUnopened,
         ProcessFails, ProcessFile, Plan, Process, StartProcessing, StartSweep, Sweep,
         FinishTransition, Cancel, Change
    <2>2. pass = "wait" /\ lines = <<>> /\ stack = <<>>
      BY <1>1, <2>1 DEF Stages
    <2>3. target' = target /\ verify_only' = verify_only
      BY <2>2 DEF WorkerNext, Step, allVars, list, vars, Enter, EnterFails, NextChild,
         EnumerationEnds, LeaveLoop, At, PlanNew, PlanAgain, ParseLine, ParseFails, ProcessOther,
         Processable, ProcessUnopened, ProcessFails, ProcessFile, Plan, Process,
         StartProcessing, StartSweep, Sweep, Complete, FinishTransition, StoreStatus, Cancel, Change
    <2>. QED  BY <1>1, <2>1, <2>3 DEF NoneLeft
  <1>. QED  BY <1>2, <1>3

\* The inductive invariant of the processor's walk.
DInv == PInv /\ PlanQueued /\ Decided /\ NoneLeft

\* It holds in every reachable state.
THEOREM ProcessingInvariance == WorkerSpec => []DInv
  <1>1. WorkerInit => DInv
    <2>1. WorkerInit => PInv
      BY ShapeInit, TypeInit, PlannedInit DEF PInv
    <2>2. WorkerInit => PlanQueued /\ Decided /\ NoneLeft
      BY DEF WorkerInit, Init, NewInfo, PlanQueued, Decided, NoneLeft
    <2>. QED  BY <2>1, <2>2 DEF DInv
  <1>2. DInv /\ [WorkerNext]_allVars => DInv'
    <2>1. PInv /\ [WorkerNext]_allVars => PInv'
      BY ShapeStep, UndisturbedStep, EntriesStep, PlannedStep, EntryStep, ListStep DEF PInv, Shape
    <2>. QED  BY <2>1, PlanQueuedStep, DecidedStep, NoneLeftStep DEF DInv, PInv
  <1>. QED  BY <1>1, <1>2, PTL DEF WorkerSpec

\* When the dialog says "Done.", and nothing went wrong, every name has its
\* verdict; it is a directory's; or nobody asked for it, since it was listed
\* only, and the files were copied.
THEOREM DoneMeansDone == WorkerSpec => []DoneIsDone
  <1>1. DInv /\ IInv => DoneIsDone
    <2>. SUFFICES ASSUME DInv, IInv, Ready, dialog = "COMPLETED", Quiet, NEW n \in known
                  PROVE  \/ info[n].status \in Processed
                         \/ n \in DirectoryNames
                         \/ ~verify_only /\ ~info[n].seen
      BY Zenon DEF DoneIsDone, Quiet
    <2>1. n \in Names /\ fault = "none" /\ target[n] = info[n].status /\ target[n] \in Status
      BY DEF Ready, Idle, IInv, TypeOK
    <2>2. pass = "wait" /\ int_q = <<>>
      BY DEF DInv, PInv, Shape, Stages
    <2>3. CASE info[n].seen
      <3>1. \A path, p : ~Ahead(path, p)
        BY <2>2, InEmpty DEF Ahead
      <3>. QED  BY <2>1, <2>3, <3>1 DEF DInv, Decided
    <2>4. CASE ~info[n].seen /\ verify_only
      <3>1. target[n] \notin {"NONE", "FOUND"}
        BY <2>1, <2>4 DEF IInv, Evidence, Supported, SeenWhenFound
      <3>2. target[n] # "VERIFIABLE"
        BY <2>1, <2>4 DEF DInv, NoneLeft
      <3>. QED  BY <2>1, <3>1, <3>2 DEF Status, Unprocessed
    <2>5. CASE ~info[n].seen /\ ~verify_only
      BY <2>5, Zenon
    <2>. QED  BY <2>3, <2>4, <2>5, Zenon
  <1>2. WorkerSpec => []IInv
    BY WorkerCallsTheList, Invariance DEF FileListSpec
  <1>. QED  BY <1>1, <1>2, ProcessingInvariance, PTL

-----------------------------------------------------------------------------
(* Which step decides *)

\* The changes of a name's status, and the steps that make them.
LEMMA TargetCases ==
    ASSUME TypeOK, Nested, Reading, [WorkerNext]_allVars,
           NEW n \in Names, target'[n] # target[n]
    PROVE  /\ Idle /\ target[n] = info[n].status
           /\ \/ PlanNew /\ target[n] = "NONE" /\ target'[n] = "FOUND"
              \/ /\ ParseLine /\ n = Head(lines).name
                 /\ RecordChecksum(n, Head(lines).sum)
                 /\ target[n] = "NONE" /\ target'[n] = "VERIFIABLE"
              \/ /\ ParseLine /\ n = Head(lines).name
                 /\ info[n].checksum \notin {NULL, Head(lines).sum}
                 /\ target[n] # "NONE" /\ target'[n] = "VERIFICATION_FAILED"
              \/ /\ pass = "process" /\ ProcessFile /\ n = Name /\ target[n] \notin Processed
                 /\ target'[n] \in {"COPIED", "VERIFIED", "VERIFICATION_FAILED"}
              \/ /\ pass = "sweep" /\ Sweep /\ verify_only
                 /\ target[n] = "VERIFIABLE" /\ target'[n] = "NOT_FOUND"
  <1>1. ASSUME NEW m \in Names, NEW new, Idle, Transition(m, new)
        PROVE  /\ m = n /\ new \in Successors[target[n]] /\ target'[n] = new
               /\ target[n] = info[n].status
    BY <1>1 DEF Transition, TypeOK, Idle
  <1>2. CASE PlanNew
    <2>1. Found(Name) /\ Name \in Names /\ Idle
      BY <1>2, NameOfTop DEF PlanNew, At
    <2>2. Transition(Name, "FOUND") /\ info[Name].status = "NONE"
      BY <2>1 DEF Found, NoTransition
    <2>. QED  BY <1>1, <1>2, <2>1, <2>2
  <1>3. CASE ParseLine
    <2>1. Head(lines).name \in Names /\ Head(lines).sum \in Checksums /\ Idle
      BY <1>3, ReadingMeans DEF ParseLine, Line
    <2>2. CASE RecordChecksum(Head(lines).name, Head(lines).sum)
      BY <1>1, <1>3, <2>1, <2>2 DEF RecordChecksum
    <2>3. CASE CompareChecksum(Head(lines).name, Head(lines).sum)
      BY <1>1, <1>3, <2>1, <2>3 DEF CompareChecksum, NoTransition, Die
    <2>. QED  BY <1>3, <2>2, <2>3 DEF ParseLine
  <1>4. CASE ProcessUnopened
    <2>1. MarkFailed(Name) /\ Name \in Names /\ Idle
      BY <1>4, NameOfTop DEF ProcessUnopened, Processable, At
    <2>2. fault' # "none" /\ Transition(Name, "FAILED")
      BY <2>1, MarkFailedDies DEF MarkFailed
    <2>. QED  BY <2>1, <2>2 DEF Transition, Idle
  <1>5. CASE ProcessFile
    <2>1. Name \in Names /\ Idle /\ pass = "process" /\ info[Name].status \notin Processed
      BY <1>5, NameOfTop DEF ProcessFile, Processable, At
    <2>2. ~CheckUnknownFile(Name)
      BY DEF CheckUnknownFile, Die
    <2>3. PICK c : CheckFile(Name, c)
      BY <1>5, <2>2 DEF ProcessFile
    <2>4. \E new \in {"COPIED", "VERIFIED", "VERIFICATION_FAILED"} : Transition(Name, new)
      BY <2>3 DEF CheckFile, Die
    <2>. QED  BY <1>1, <1>5, <2>1, <2>4
  <1>6. CASE Sweep
    <2>1. PICK m \in known : MarkNotFound(m)
      BY <1>6 DEF Sweep
    <2>2. /\ m \in Names /\ Idle /\ verify_only /\ info[m].status = "VERIFIABLE"
          /\ Transition(m, "NOT_FOUND") /\ pass = "sweep"
      BY <1>6, <2>1 DEF MarkNotFound, TypeOK, Sweep
    <2>. QED  BY <1>1, <1>6, <2>2
  <1>7. ASSUME ~PlanNew, ~ParseLine, ~ProcessUnopened, ~ProcessFile, ~Sweep PROVE FALSE
    BY <1>7 DEF WorkerNext, Step, allVars, list, vars, Enter, EnterFails, NextChild,
       EnumerationEnds, LeaveLoop, PlanAgain, ParseFails, ProcessOther, ProcessFails, Plan,
       Process, StartProcessing, StartSweep, Complete, FinishTransition, StoreStatus, Cancel, Change
  <1>. QED  BY <1>2, <1>3, <1>4, <1>5, <1>6, <1>7

\* NOT_FOUND is a status of the sweep, and stays until the next one.
NotFoundSwept ==
    \A n \in Names : target[n] = "NOT_FOUND" =>
        verify_only /\ (pass = "sweep" \/ dialog = "COMPLETED")

\* The sweep comes last.
LEMMA NotFoundStep ==
    ASSUME TypeOK, Shape, NotFoundSwept, [WorkerNext]_allVars
    PROVE  NotFoundSwept'
  <1>. SUFFICES ASSUME NEW n \in Names, target'[n] = "NOT_FOUND"
                PROVE  verify_only' /\ (pass' = "sweep" \/ dialog' = "COMPLETED")
    BY DEF NotFoundSwept
  <1>1. Stages /\ Nested /\ Reading
    BY DEF Shape
  <1>2. verify_only' = verify_only
    BY ListStep, <1>1 DEF Next, vars, StoreStatus, Found, RecordChecksum, CompareChecksum, CheckFile,
       CheckUnknownFile, MarkFailed, MarkNotFound
  <1>3. CASE target[n] = "NOT_FOUND"
    <2>1. pass = "sweep" \/ dialog = "COMPLETED"
      BY <1>3 DEF NotFoundSwept
    <2>2. ~Plan /\ (pass = "sweep" \/ pass = "wait")
      BY <1>1, <2>1 DEF Plan, Stages
    <2>3. (pass' = pass /\ dialog' = dialog) \/ dialog' = "COMPLETED"
      BY <2>2 DEF WorkerNext, Step, allVars, loop, Enter, EnterFails, NextChild, EnumerationEnds,
         LeaveLoop, PlanNew, PlanAgain, ParseLine, ParseFails, ProcessOther, ProcessUnopened,
         ProcessFails, ProcessFile, StartProcessing, Process, StartSweep, Sweep, Complete,
         FinishTransition, Cancel, Change
    <2>. QED  BY <1>2, <1>3, <2>1, <2>3 DEF NotFoundSwept
  <1>4. CASE target[n] # "NOT_FOUND"
    <2>1. Sweep /\ pass = "sweep" /\ verify_only
      BY <1>1, <1>4, TargetCases
    <2>. QED  BY <1>2, <2>1 DEF Sweep, loop
  <1>. QED  BY <1>3, <1>4

\* A name that waits to be verified has the checksum of one of the lines.
SumsListed ==
    fault = "none" => \A n \in Names : target[n] = "VERIFIABLE" =>
        \E path \in Paths, p \in DOMAIN Lines : \E i \in DOMAIN Lines[p] :
            Under(path, p) /\ LineIn(path, p, i) = [sum |-> info[n].checksum, name |-> n]

\* It gets it from the line that is being parsed.
LEMMA SumsListedStep ==
    ASSUME IInv, Shape, SumsListed, [WorkerNext]_allVars
    PROVE  SumsListed'
  <1>. SUFFICES ASSUME fault' = "none", NEW n \in Names, target'[n] = "VERIFIABLE"
                PROVE  \E path \in Paths, p \in DOMAIN Lines : \E i \in DOMAIN Lines[p] :
                          /\ Under(path, p)
                          /\ LineIn(path, p, i) = [sum |-> info'[n].checksum, name |-> n]
    BY DEF SumsListed
  <1>1. TypeOK /\ Evidence /\ Nested /\ Reading /\ [Next]_vars /\ fault = "none"
    BY ListStep, FaultStays DEF Shape, IInv
  <1>2. CASE target[n] = "VERIFIABLE"
    <2>1. info[n].checksum # NULL
      BY <1>1, <1>2, ListAssumption DEF Evidence, Supported, TypeOK, ListAssumption
    <2>2. info'[n].checksum = info[n].checksum
      BY <1>1, <2>1, ChecksumStep
    <2>. QED  BY <1>1, <1>2, <2>2 DEF SumsListed
  <1>3. CASE target[n] # "VERIFIABLE"
    <2>1. ParseLine /\ n = Head(lines).name /\ RecordChecksum(n, Head(lines).sum)
      BY <1>1, <1>3, TargetCases
    <2>2. info'[n].checksum = Head(lines).sum
      BY <1>1, <2>1 DEF RecordChecksum, TypeOK, Info
    <2>3. Head(lines) \in Line /\ IsLine(Head(lines))
      BY <1>1, <2>1, ReadingMeans DEF ParseLine
    <2>4. Head(lines) = [sum |-> Head(lines).sum, name |-> Head(lines).name]
      BY <2>3 DEF Line
    <2>5. Head(lines) = [sum |-> info'[n].checksum, name |-> n]
      BY <2>1, <2>2, <2>4
    <2>. QED  BY <2>3, <2>5 DEF IsLine
  <1>. QED  BY <1>2, <1>3

-----------------------------------------------------------------------------
(* Every file is handled *)

\* A verdict that the processor gave is for a file that was handled.
VerdictsHandled ==
    fault = "none" => \A n \in Names : target[n] \in Processed \ {"NOT_FOUND"} =>
        \E path \in Paths, p \in handled : Under(path, p) /\ NameIn(path, p) = n

\* What is on the command line is handled, or the processor has still to come
\* to it.
HandledOrAhead ==
    Quiet /\ fault = "none" => \A path \in Paths, p \in present \ Directories :
        In(path, Args) /\ Under(path, p) =>
            p \in handled \/ In(path, ext_q) \/ Ahead(path, p)

\* What was handled stays so.
LEMMA HandledKept == [WorkerNext]_allVars => handled \subseteq handled'
  BY DEF WorkerNext, Step, allVars, Enter, EnterFails, NextChild, EnumerationEnds, LeaveLoop,
     PlanNew, PlanAgain, ParseLine, ParseFails, ProcessOther, ProcessUnopened, ProcessFails,
     ProcessFile, Plan, Process, StartProcessing, StartSweep, Sweep, Complete, FinishTransition,
     Cancel, Change

\* With lists that agree, only the processor decides.
LEMMA VerdictsHandledStep ==
    ASSUME ListsAgree, IInv, Shape, NotFoundSwept, SumsListed, VerdictsHandled,
           [WorkerNext]_allVars
    PROVE  VerdictsHandled'
  <1>. SUFFICES ASSUME fault' = "none", NEW n \in Names, target'[n] \in Processed \ {"NOT_FOUND"}
                PROVE  \E path \in Paths, p \in handled' : Under(path, p) /\ NameIn(path, p) = n
    BY DEF VerdictsHandled
  <1>1. /\ TypeOK /\ Evidence /\ Nested /\ Reading /\ Stages /\ fault = "none"
        /\ handled \subseteq handled'
    BY ListStep, FaultStays, HandledKept DEF Shape, IInv
  <1>2. CASE target[n] \in Processed \ {"NOT_FOUND"}
    BY <1>1, <1>2 DEF VerdictsHandled
  <1>3. CASE target[n] \notin Processed \ {"NOT_FOUND"}
    <2>1. target'[n] # target[n]
      BY <1>3
    <2>2. CASE /\ ParseLine /\ n = Head(lines).name
               /\ info[n].checksum \notin {NULL, Head(lines).sum} /\ target[n] # "NONE"
      \* The two lines for the name would not agree.
      <3>1. pass = "plan" /\ lines # <<>> /\ IsLine(Head(lines))
        BY <1>1, <2>2, ReadingMeans DEF ParseLine, Stages
      <3>2. target[n] # "NOT_FOUND"
        BY <1>1, <3>1 DEF NotFoundSwept, Stages
      <3>3. target[n] # "FOUND"
        BY <1>1, <2>2 DEF Evidence, Supported
      <3>4. target[n] = "VERIFIABLE"
        BY <1>1, <1>3, <2>2, <3>2, <3>3 DEF TypeOK, Status, Unprocessed
      <3>5. PICK path \in Paths, p \in DOMAIN Lines : \E i \in DOMAIN Lines[p] :
               Under(path, p) /\ LineIn(path, p, i) = [sum |-> info[n].checksum, name |-> n]
        BY <1>1, <3>4 DEF SumsListed
      <3>6. PICK i \in DOMAIN Lines[p] :
               Under(path, p) /\ LineIn(path, p, i) = [sum |-> info[n].checksum, name |-> n]
        BY <3>5
      <3>7. PICK path2 \in Paths, q \in DOMAIN Lines : \E j \in DOMAIN Lines[q] :
               Under(path2, q) /\ Head(lines) = LineIn(path2, q, j)
        BY <3>1 DEF IsLine
      <3>8. PICK j \in DOMAIN Lines[q] : Under(path2, q) /\ Head(lines) = LineIn(path2, q, j)
        BY <3>7
      <3>9. LineIn(path, p, i).name = n /\ LineIn(path, p, i).sum = info[n].checksum
        BY <3>6
      <3>10. LineIn(path, p, i) = LineIn(path2, q, j)
        BY <2>2, <3>6, <3>8, <3>9 DEF ListsAgree
      <3>. QED  BY <2>2, <3>8, <3>9, <3>10
    <2>3. CASE pass = "process" /\ ProcessFile /\ n = Name
      <3>1. stack # <<>> /\ handled' = handled \cup {Top.node}
        BY <2>3 DEF ProcessFile, Processable, At
      <3>2. /\ stack[1].node \in Paths /\ Under(stack[1].node, Top.node)
            /\ Name = NameIn(stack[1].node, Top.node)
        BY <1>1, <3>1, TopMeans
      <3>. QED  BY <2>3, <3>1, <3>2
    <2>. QED  BY <1>1, <2>1, <2>2, <2>3, TargetCases DEF Processed
  <1>. QED  BY <1>2, <1>3

\* With distinct names, the processor passes over what was handled only.
LEMMA HandledOrAheadStep ==
    ASSUME NamesDistinct, TypeOK, Shape, Undisturbed, NotFoundSwept, VerdictsHandled,
           HandledOrAhead, [WorkerNext]_allVars
    PROVE  HandledOrAhead'
  <1>. SUFFICES ASSUME Quiet', fault' = "none", NEW path \in Paths,
                       NEW p \in present' \ Directories, In(path, Args), Under(path, p)
                PROVE  p \in handled' \/ In(path, ext_q') \/ Ahead(path, p)'
    BY DEF HandledOrAhead, In
  <1>1. /\ Quiet /\ present' = present /\ [Next]_vars /\ fault = "none"
        /\ Nested /\ Reading /\ Standing /\ Stages /\ handled \subseteq Nodes
        /\ handled \subseteq handled' /\ Queued
    BY QuietKept, ListStep, FaultStays, HandledKept DEF Shape, Ranges
  <1>2. p \in handled \/ In(path, ext_q) \/ Ahead(path, p)
    BY <1>1 DEF HandledOrAhead
  <1>3. CASE In(path, ext_q)
    <2>1. CASE Plan /\ path = Head(ext_q)
      <3>1. int_q' = Append(int_q, path) /\ int_q \in Seq(Paths)
        BY <1>1, <2>1 DEF Plan, Queued
      <3>2. In(path, int_q')
        BY <3>1, InAppend
      <3>. QED  BY <3>2 DEF Ahead, In
    <2>. QED  BY <1>3, <2>1, ExtStep
  <1>4. CASE Ahead(path, p)
    <2>1. CASE Visit /\ pass = "process" /\ stack # <<>> /\ stack[1].node = path /\ Top.node = p
      <3>1. Name = NameIn(path, p) /\ Name \in Names
        BY <1>1, <2>1, TopMeans, NameOfTop
      <3>2. \/ target[Name] \in Processed
            \/ p \in handled'
        BY <1>1, <2>1, VisitDecides
      <3>3. CASE target[Name] \in Processed
        <4>1. target[Name] # "NOT_FOUND"
          BY <1>1, <2>1, <3>1 DEF NotFoundSwept, Stages
        <4>2. PICK path2 \in Paths, q \in handled : Under(path2, q) /\ NameIn(path2, q) = Name
          BY <1>1, <3>1, <3>3, <4>1 DEF VerdictsHandled
        <4>3. q = p
          BY <1>1, <3>1, <4>2 DEF NamesDistinct, Standing
        <4>. QED  BY <1>1, <4>2, <4>3
      <3>. QED  BY <3>2, <3>3
    <2>. QED  BY <1>1, <1>4, <2>1, AheadStep
  <1>. QED  BY <1>1, <1>2, <1>3, <1>4

\* The inductive invariant behind it.
HInv == NotFoundSwept /\ SumsListed /\ VerdictsHandled /\ HandledOrAhead

\* Every file at or below a path on the command line is read to its end and
\* reported when the dialog says "Done.", unless something went wrong: for every
\* tree, in whatever order directories are listed, if no two files have one name
\* and the lists do not contradict each other.
THEOREM EveryFileIsHandled ==
    ASSUME NamesDistinct, ListsAgree
    PROVE  WorkerSpec => []EveryFileHandled
  <1>1. WorkerInit => HInv
    <2>. SUFFICES ASSUME WorkerInit PROVE HInv
      OBVIOUS
    <2>1. ext_q = Args /\ \A n \in Names : target[n] = "NONE"
      BY DEF WorkerInit, Init
    <2>. QED  BY <2>1 DEF HInv, NotFoundSwept, SumsListed, VerdictsHandled, HandledOrAhead, Processed
  <1>2. DInv /\ IInv /\ HInv /\ [WorkerNext]_allVars => HInv'
    BY NotFoundStep, SumsListedStep, VerdictsHandledStep, HandledOrAheadStep
       DEF HInv, DInv, PInv
  <1>3. DInv /\ HInv => EveryFileHandled
    <2>. SUFFICES ASSUME DInv, HInv, Ready, dialog = "COMPLETED", Quiet,
                         NEW p \in present \ Directories, NEW k \in DOMAIN Args, Under(Args[k], p)
                  PROVE  p \in handled
      BY Zenon DEF EveryFileHandled, Quiet
    <2>1. pass = "wait" /\ ext_q = <<>> /\ int_q = <<>> /\ fault = "none"
      BY DEF DInv, PInv, Shape, Stages, Ready, Idle
    <2>2. Args[k] \in Paths /\ In(Args[k], Args)
      BY WorkerAssumption, LenProperties DEF WorkerAssumption, Paths, In
    <2>3. ~In(Args[k], ext_q) /\ ~Ahead(Args[k], p)
      BY <2>1, InEmpty DEF Ahead
    <2>. QED  BY <2>1, <2>2, <2>3 DEF HInv, HandledOrAhead
  <1>4. WorkerSpec => []IInv
    BY WorkerCallsTheList, Invariance DEF FileListSpec
  <1>. QED  BY <1>1, <1>2, <1>3, <1>4, ProcessingInvariance, PTL DEF WorkerSpec

-----------------------------------------------------------------------------
(* What is listed, and exists, is found *)

\* When verifying, the planner is given to see what a list names.
ListedMet ==
    Quiet => \A n \in Names : target[n] \in {"VERIFIABLE", "NOT_FOUND"} =>
        \E path \in Paths, p \in DOMAIN Lines : \E i \in DOMAIN Lines[p] :
            /\ Under(path, p) /\ LineIn(path, p, i).name = n
            /\ verify_only => Met(Pointed(p, i))

\* The sweep spares what was seen.
NotFoundUnseen ==
    Quiet => \A n \in Names : target[n] = "NOT_FOUND" => ~info[n].seen \/ n \in DirectoryNames

\* A status is NOT_FOUND only if the counters say so.
NotFoundStored == \A n \in Names : info[n].status = "NOT_FOUND" => target[n] = "NOT_FOUND"

\* A line that is recorded when verifying has its file queued in the same step.
LEMMA ListedMetStep ==
    ASSUME TypeOK, Shape, Undisturbed, ListedMet, [WorkerNext]_allVars
    PROVE  ListedMet'
  <1>. SUFFICES ASSUME Quiet', NEW n \in Names, target'[n] \in {"VERIFIABLE", "NOT_FOUND"}
                PROVE  \E path \in Paths, p \in DOMAIN Lines : \E i \in DOMAIN Lines[p] :
                          /\ Under(path, p) /\ LineIn(path, p, i).name = n
                          /\ verify_only' => Met(Pointed(p, i))'
    BY DEF ListedMet
  <1>1. Quiet /\ Nested /\ Reading /\ Queued /\ [Next]_vars
    BY QuietKept, ListStep DEF Shape
  <1>2. verify_only' = verify_only
    BY <1>1 DEF Next, vars, StoreStatus, Found, RecordChecksum, CompareChecksum, CheckFile,
       CheckUnknownFile, MarkFailed, MarkNotFound
  <1>3. CASE target[n] \in {"VERIFIABLE", "NOT_FOUND"}
    <2>1. PICK path \in Paths, p \in DOMAIN Lines : \E i \in DOMAIN Lines[p] :
             /\ Under(path, p) /\ LineIn(path, p, i).name = n
             /\ verify_only => Met(Pointed(p, i))
      BY <1>1, <1>3 DEF ListedMet
    <2>2. PICK i \in DOMAIN Lines[p] : /\ Under(path, p) /\ LineIn(path, p, i).name = n
                                       /\ verify_only => Met(Pointed(p, i))
      BY <2>1
    <2>3. Pointed(p, i) \in Paths
      BY DEF Paths, Pointed
    <2>4. Met(Pointed(p, i)) => Met(Pointed(p, i))'
      BY <2>3, MetStep
    <2>. QED  BY <1>2, <2>2, <2>4, Zenon
  <1>4. CASE target[n] \notin {"VERIFIABLE", "NOT_FOUND"}
    <2>1. ParseLine /\ n = Head(lines).name /\ RecordChecksum(n, Head(lines).sum)
          /\ target[n] = "NONE"
      BY <1>1, <1>4, TargetCases
    <2>2. lines # <<>> /\ IsLine(Head(lines))
      BY <1>1, <2>1, ReadingMeans DEF ParseLine
    <2>3. PICK path \in Paths, p \in DOMAIN Lines : \E i \in DOMAIN Lines[p] :
             Under(path, p) /\ root = Parent(path) /\ Head(lines) = LineIn(path, p, i)
      BY <2>2 DEF IsLine
    <2>4. PICK i \in DOMAIN Lines[p] :
             Under(path, p) /\ root = Parent(path) /\ Head(lines) = LineIn(path, p, i)
      BY <2>3
    <2>5. Pointed(p, i) = root \o Head(lines).name /\ Pointed(p, i) \in Paths
      <3>1. path \in Path
        BY PathsType
      <3>2. /\ Parent(path) \o LineIn(path, p, i).name = Pointed(p, i)
            /\ Pointed(p, i) \in Paths
        BY <2>4, <3>1, LineMeans
      <3>. QED  BY <2>4, <3>2
    <2>6. verify_only => Met(Pointed(p, i))'
      <3>1. ASSUME verify_only PROVE In(Pointed(p, i), ext_q')
        <4>1. ~CompareChecksum(Head(lines).name, Head(lines).sum)
          BY <2>1 DEF CompareChecksum, RecordChecksum
        <4>2. ext_q' = Append(ext_q, Pointed(p, i))
          BY <2>1, <2>5, <3>1, <4>1 DEF ParseLine
        <4>. QED  BY <1>1, <2>5, <4>2, InAppend DEF Queued
      <3>2. ASSUME In(Pointed(p, i), ext_q') PROVE Met(Pointed(p, i))'
        BY <3>2 DEF Met
      <3>. QED  BY <3>1, <3>2
    <2>. QED  BY <1>2, <2>1, <2>4, <2>6, Zenon
  <1>. QED  BY <1>3, <1>4

\* What the sweep finds undecided, and was seen, is a directory.
LEMMA NotFoundUnseenStep ==
    ASSUME TypeOK, Shape, Undisturbed, Decided, NotFoundSwept, NotFoundUnseen, [WorkerNext]_allVars
    PROVE  NotFoundUnseen'
  <1>. SUFFICES ASSUME Quiet', NEW n \in Names, target'[n] = "NOT_FOUND", info'[n].seen
                PROVE  n \in DirectoryNames
    BY DEF NotFoundUnseen
  <1>1. Quiet /\ Nested /\ Reading /\ Stages
    BY QuietKept DEF Shape
  <1>2. CASE target[n] = "NOT_FOUND"
    <2>1. pass # "plan"
      BY <1>1, <1>2 DEF NotFoundSwept, Stages
    <2>2. info[n].seen
      BY <1>1, <2>1, SeenNew DEF PlanNew
    <2>. QED  BY <1>1, <1>2, <2>2 DEF NotFoundUnseen
  <1>3. CASE target[n] # "NOT_FOUND"
    <2>1. pass = "sweep" /\ target[n] = "VERIFIABLE" /\ Idle
      BY <1>1, <1>3, TargetCases
    <2>2. info[n].seen
      BY <1>1, <2>1, SeenNew DEF PlanNew
    <2>3. \A path, p : ~Ahead(path, p)
      BY <1>1, <2>1, InEmpty DEF Ahead, Stages
    <2>. QED  BY <1>1, <2>1, <2>2, <2>3 DEF Decided, Processed, Idle
  <1>. QED  BY <1>2, <1>3

\* Nothing follows the sweep that could change its verdicts.
LEMMA NotFoundStoredStep ==
    ASSUME TypeOK, Shape, NotFoundSwept, NotFoundStored, [WorkerNext]_allVars
    PROVE  NotFoundStored'
  <1>. SUFFICES ASSUME NEW n \in Names, info'[n].status = "NOT_FOUND", target'[n] # "NOT_FOUND"
                PROVE  FALSE
    BY DEF NotFoundStored
  <1>1. [Next]_vars /\ Nested /\ Reading /\ Stages
    BY ListStep DEF Shape
  <1>2. info[n].status = "NOT_FOUND" /\ target[n] = "NOT_FOUND"
    BY <1>1, StoreStep DEF NotFoundStored
  <1>3. ParseLine
    BY <1>1, <1>2, TargetCases DEF Processed
  <1>. QED  BY <1>1, <1>2, <1>3 DEF NotFoundSwept, Stages, ParseLine

\* The inductive invariant behind it.
FInv == NotFoundSwept /\ ListedMet /\ NotFoundUnseen /\ NotFoundStored

\* With files that stay as they are, and nobody cancelling, the sweep never
\* marks what exists as not found: for every tree and every list that lies next
\* to the files it names.
THEOREM ListedFilesAreFound ==
    ASSUME ListsBeside
    PROVE  WorkerSpec => []ListedIsFound
  <1>1. WorkerInit => FInv
    <2>. SUFFICES ASSUME WorkerInit PROVE FInv
      OBVIOUS
    <2>1. \A n \in Names : target[n] = "NONE" /\ info[n].status = "NONE"
      BY DEF WorkerInit, Init, NewInfo
    <2>. QED  BY <2>1 DEF FInv, NotFoundSwept, ListedMet, NotFoundUnseen, NotFoundStored
  <1>2. DInv /\ FInv /\ [WorkerNext]_allVars => FInv'
    BY NotFoundStep, ListedMetStep, NotFoundUnseenStep, NotFoundStoredStep DEF FInv, DInv, PInv
  <1>3. DInv /\ FInv => ListedIsFound
    <2>. SUFFICES ASSUME DInv, FInv, Quiet, NEW n \in Names, info[n].status = "NOT_FOUND",
                         NEW k \in DOMAIN Args, Parent(Args[k]) \o n \in present
                  PROVE  FALSE
      BY Zenon DEF ListedIsFound, Quiet
    <2>. DEFINE q == Parent(Args[k]) \o n
    <2>1. target[n] = "NOT_FOUND" /\ q \in Nodes /\ k \in 1 .. Len(Args)
      BY WorkerAssumption, LenProperties DEF FInv, NotFoundStored, DInv, PInv, Shape, Standing,
         WorkerAssumption
    <2>2. verify_only /\ pass # "plan" /\ ext_q = <<>>
      BY <2>1 DEF FInv, NotFoundSwept, DInv, PInv, Shape, Stages
    <2>3. PICK path \in Paths, p \in DOMAIN Lines : \E i \in DOMAIN Lines[p] :
             /\ Under(path, p) /\ LineIn(path, p, i).name = n
             /\ verify_only => Met(Pointed(p, i))
      BY <2>1 DEF FInv, ListedMet
    <2>4. PICK i \in DOMAIN Lines[p] : /\ Under(path, p) /\ LineIn(path, p, i).name = n
                                       /\ verify_only => Met(Pointed(p, i))
      BY <2>3
    <2>5. n \notin DirectoryNames /\ \E top \in Paths : /\ In(top, Args) \/ top = Pointed(p, i)
                                                        /\ Under(top, q) /\ NameIn(top, q) = n
      BY <2>1, <2>4 DEF ListsBeside
    <2>6. PICK top \in Paths : /\ In(top, Args) \/ top = Pointed(p, i)
                               /\ Under(top, q) /\ NameIn(top, q) = n
      BY <2>5
    <2>7. Met(top)
      BY <2>2, <2>4, <2>6, Zenon DEF DInv, PInv, Planned
    <2>8. info[n].seen
      BY <2>2, <2>6, <2>7, InEmpty DEF Met
    <2>. QED  BY <2>1, <2>5, <2>8 DEF FInv, NotFoundUnseen
  <1>. QED  BY <1>1, <1>2, <1>3, ProcessingInvariance, PTL DEF WorkerSpec
===============================================================================

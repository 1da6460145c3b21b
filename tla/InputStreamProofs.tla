-------------------------- MODULE InputStreamProofs --------------------------
(***************************************************************************)
(* Proofs about the checksumming stream, for contents of any length and    *)
(* any sequence of calls.                                                  *)
(*                                                                         *)
(* Both properties need to know what a digest holds at any time, not only  *)
(* once it is asked for: all that was handed out, or junk.  An answer      *)
(* stays right because there is none before the stream is closed, and      *)
(* nothing is handed out afterwards.                                       *)
(***************************************************************************)
EXTENDS InputStream, TLAPS

DigestsFollow == \A s \in in_use : taken[s] \in {pos, JUNK}

AnsweredWhenClosed == \A s \in Slots : reply[s] # NULL => closed

IInv == TypeOK /\ DigestsFollow /\ AnsweredWhenClosed /\ AnswersCoverReads

-----------------------------------------------------------------------------
\* The slots and the marks as numbers.
LEMMA SlotNumbers == Slots = 1 .. 4 /\ JUNK = -1 /\ CRC32 = 4
  BY DEF Slots, NO_CHECKSUM, ALL_CHECKSUMS, JUNK, CRC32

\* Whatever type it is asked for, a new stream is a good one.
LEMMA ConstructInv ==
    ASSUME NEW type, NEW n \in 0 .. MaxSize, Construct(type, n)
    PROVE  IInv
  <1>1. in_use \subseteq Slots
    BY DEF Construct, InUse
  <1>2. crc_zero \in BOOLEAN /\ closed \in BOOLEAN
    BY DEF Construct
  <1>3. TypeOK
    <2>1. MaxSize \in Nat /\ 0 \in JUNK .. MaxSize
      BY StreamAssumption, SlotNumbers DEF StreamAssumption
    <2>2. size \in 0 .. MaxSize /\ pos \in 0 .. size
      BY <2>1 DEF Construct
    <2>3. taken \in [Slots -> JUNK .. MaxSize] /\ reply \in [Slots -> Digest \cup {NULL}]
      BY <2>1 DEF Construct
    <2>. QED  BY <1>1, <1>2, <2>2, <2>3 DEF TypeOK
  <1>. QED  BY <1>1, <1>3 DEF IInv, DigestsFollow, AnsweredWhenClosed, AnswersCoverReads, Construct

\* The stream of the specification is a new one.
LEMMA InvInit == Init => IInv
  BY ConstructInv DEF Init

\* What an answer is made of.
LEMMA AnswerCovers ==
    ASSUME IInv, NEW type \in Slots, Answer(type) # NULL
    PROVE  /\ Answer(type) \in Digest
           /\ Answer(type).slot = type
           /\ Answer(type).of \in {pos, JUNK}
  <1>1. type \in in_use /\ Answer(type) = [slot |-> type, of |-> taken[type]]
    BY DEF Answer
  <1>2. taken[type] \in JUNK .. MaxSize
    BY DEF IInv, TypeOK
  <1>. QED  BY <1>1, <1>2 DEF IInv, DigestsFollow, Digest

\* Reading, failing, closing and answering keep the invariant.
LEMMA InvStep == IInv /\ [Next]_vars => IInv'
  <1>. SUFFICES ASSUME IInv, [Next]_vars PROVE IInv'
    OBVIOUS
  <1>a. TypeOK /\ DigestsFollow /\ AnsweredWhenClosed /\ AnswersCoverReads
    BY DEF IInv
  <1>1. ASSUME NEW n \in 0 .. MaxSize, Read(n) PROVE IInv'
    \* Nothing has been answered yet, and every digest takes in the n blocks.
    <2>1. \A s \in Slots : reply'[s] = NULL
      BY <1>1, <1>a DEF Read, AnsweredWhenClosed
    <2>2. /\ pos' = pos + n /\ pos \in 0 .. size /\ n \in 0 .. size - pos
          /\ size \in 0 .. MaxSize /\ MaxSize \in Nat
          /\ \A s \in Slots : taken[s] \in JUNK .. MaxSize
      BY <1>1, <1>a, StreamAssumption DEF Read, TypeOK, StreamAssumption
    <2>3. taken' = [s \in Slots |-> IF s \notin in_use THEN taken[s]
                                   ELSE IF taken[s] = JUNK THEN JUNK ELSE taken[s] + n]
      BY <1>1, <2>2 DEF Read, Update
    <2>4. \A s \in in_use : s \in Slots /\ taken'[s] \in {pos', JUNK}
      BY <1>a, <2>2, <2>3 DEF DigestsFollow, TypeOK
    <2>5. pos' \in 0 .. size /\ taken' \in [Slots -> JUNK .. MaxSize]
      <3>1. pos' \in 0 .. size /\ pos' \in JUNK .. MaxSize /\ JUNK \in JUNK .. MaxSize
        BY <2>2, SlotNumbers
      <3>2. \A s \in Slots : taken'[s] \in JUNK .. MaxSize
        BY <2>2, <2>3, <2>4, <3>1
      <3>. QED  BY <2>3, <3>1, <3>2
    <2>. QED  BY <1>1, <1>a, <2>1, <2>4, <2>5
              DEF IInv, TypeOK, DigestsFollow, AnsweredWhenClosed, AnswersCoverReads, Read
  <1>2. ASSUME ReadError PROVE IInv'
    <2>1. \A s \in Slots : reply'[s] = NULL
      BY <1>2, <1>a DEF ReadError, AnsweredWhenClosed
    <2>2. taken' = [s \in Slots |-> IF s \notin in_use THEN taken[s] ELSE JUNK]
      BY <1>2 DEF ReadError, Update
    <2>3. JUNK \in JUNK .. MaxSize
      BY SlotNumbers, StreamAssumption DEF StreamAssumption
    <2>4. \A s \in in_use : s \in Slots
      BY <1>a DEF TypeOK
    <2>. QED  BY <1>2, <1>a, <2>1, <2>2, <2>3, <2>4
              DEF IInv, TypeOK, DigestsFollow, AnsweredWhenClosed, AnswersCoverReads, ReadError
  <1>3. ASSUME Close PROVE IInv'
    BY <1>3, <1>a DEF IInv, TypeOK, DigestsFollow, AnsweredWhenClosed, AnswersCoverReads, Close
  <1>4. ASSUME NEW type \in Slots, GetChecksum(type) PROVE IInv'
    <2>. DEFINE answer == IF closed THEN Answer(type) ELSE NULL
    <2>1. answer # NULL => /\ closed
                           /\ answer \in Digest
                           /\ answer.slot = type /\ answer.of \in {pos, JUNK}
      BY AnswerCovers
    <2>2. reply' = [reply EXCEPT ![type] = answer]
      BY <1>4 DEF GetChecksum
    <2>. HIDE DEF answer
    <2>3. reply' \in [Slots -> Digest \cup {NULL}]
      BY <1>a, <2>1, <2>2 DEF TypeOK
    <2>4. \A s \in Slots : reply'[s] = IF s = type THEN answer ELSE reply[s]
      BY <1>a, <2>2 DEF TypeOK
    <2>5. UNCHANGED <<size, crc_zero, pos, in_use, taken, closed>>
      BY <1>4 DEF GetChecksum
    <2>. QED  BY <1>a, <2>1, <2>3, <2>4, <2>5
              DEF IInv, TypeOK, DigestsFollow, AnsweredWhenClosed, AnswersCoverReads
  <1>5. CASE UNCHANGED vars
    BY <1>5, <1>a DEF vars, IInv, TypeOK, DigestsFollow, AnsweredWhenClosed, AnswersCoverReads
  <1>. QED  BY <1>1, <1>2, <1>3, <1>4, <1>5 DEF Next

\* The inductive invariant holds in every reachable state, for contents of any
\* length.
THEOREM Invariance == Spec => []IInv
  BY InvInit, InvStep, PTL DEF Spec

-----------------------------------------------------------------------------
\* The digests stay within the content, or are worthless, and there is never one
\* for a type the stream was not built for.
THEOREM StreamTypes == Spec => []TypeOK
  <1>1. IInv => TypeOK
    BY DEF IInv
  <1>. QED  BY <1>1, Invariance, PTL

\* An answer never covers less than what was handed out, for contents of any
\* length, reads of any length and requests at any time.
THEOREM AnswersCover == Spec => []AnswersCoverReads
  <1>1. IInv => AnswersCoverReads
    BY DEF IInv
  <1>. QED  BY <1>1, Invariance, PTL

\* A stream that was read to its end without an error and closed answers with
\* the digest of the whole content, for every type it was built for.
THEOREM ContractHolds == Spec => []Contract
  <1>1. IInv => Contract
    BY DEF IInv, DigestsFollow, Contract, Answer
  <1>. QED  BY <1>1, Invariance, PTL
=============================================================================

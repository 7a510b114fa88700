--------------------------- MODULE TransferTaskProofs ---------------------------
(***************************************************************************)
(* For any number of staging blocks and items, in one queue or two: no     *)
(* block is overwritten while the GPU may read it, binary semaphores       *)
(* alternate, a frame sees exactly what was copied for it unless a copy    *)
(* that waits for this frame runs ahead, no modification is lost, and      *)
(* nothing is waited for in vain.                                          *)
(*                                                                         *)
(* For each kind of data the submissions form a chain, copy, frame, copy   *)
(* and so on, each of which waits for the semaphore that the one before it *)
(* signals.  The inductive invariant says which of the two semaphores of   *)
(* the kind is signaled, by the first submission of the chain, and which   *)
(* one the next submission has to wait for, by the last.                   *)
(***************************************************************************)
EXTENDS TransferTask, SequenceTheorems, FiniteSetTheorems, WellFoundedInduction, TLAPS

--------------------------------------------------------------------------------
(* The inductive invariant.                                                *)

\* The two semaphores of a kind.
Tokens(k) == {Complete(k), ConsumerCompleted(k)}

Awaits(k, submission) == submission.waits \cap Tokens(k)
Gives(k, submission) == submission.signals \cap Tokens(k)
Available(k) == signaled \cap Tokens(k)

Frames == {"frame"} \X (0 .. NumBuffers - 1)
Contents == UNION {[S -> Nat] : S \in SUBSET Items}

Submissions ==
    [queue : {"main", "transfer"}, fence : Blocks \cup Frames,
     waits : SUBSET SemaphoresOf, signals : SUBSET SemaphoresOf,
     data : Contents, begun : BOOLEAN]

CopyShape(k, submission) ==
    /\ submission.fence \in {k} \X (0 .. NumBuffers - 1)
    /\ Gives(k, submission) = {Complete(k)}
    /\ Awaits(k, submission) \in {{}, {Complete(k)}, {ConsumerCompleted(k)}}
    /\ \A l \in Kinds \ {k} : Gives(l, submission) = {} /\ Awaits(l, submission) = {}
    /\ DOMAIN submission.data \subseteq Of(k)

FrameShape(submission) ==
    /\ submission.fence \in Frames
    /\ \A k \in Kinds :
          \/ /\ Gives(k, submission) = {} /\ Awaits(k, submission) = {}
             /\ DOMAIN submission.data \cap Of(k) = {}
          \/ /\ Gives(k, submission) = {ConsumerCompleted(k)}
             /\ Awaits(k, submission) = {Complete(k)}

TaskTypes ==
    /\ pc \in {"idle", "early", "late", "finish"}
    /\ fence \in 0 .. NumBuffers - 1
    /\ dataTransferred \in [Kinds -> Contents]
    /\ \A k \in Kinds : DOMAIN dataTransferred[k] \subseteq Of(k)
    /\ modifiedCount \in [Items -> Nat] /\ copiedCount \in [Items -> Nat]
    /\ assigned \subseteq Items
    /\ frameIndex \in [Kinds -> 0 .. NumBuffers - 1]
    /\ waitOnFence \subseteq Blocks
    /\ staging \in [Blocks -> [Items -> Nat]]
    /\ consumer \in [Kinds -> SUBSET SemaphoresOf]
    /\ \A k \in Kinds : consumer[k] \in {{}, {Complete(k)}, {ConsumerCompleted(k)}}
    /\ failures \in Nat
    /\ transferQueue \in {"main", "transfer"}
    /\ DOMAIN device = Items

\* What is submitted is a copy of one kind or a frame.
SubmissionTypes ==
    /\ submitted \in Seq(Submissions)
    /\ \A n \in DOMAIN submitted :
          /\ FrameShape(submitted[n]) \/ \E k \in Kinds : CopyShape(k, submitted[n])
          /\ submitted[n].queue = IF IsCopy(submitted[n]) THEN transferQueue ELSE "main"

\* A kind whose copy has been submitted in this frame.
Carried(k) == pc # "idle" /\ dataTransferred[k] # Nothing

\* In which order the kinds get their turn in a frame.
KindsInTurn ==
    /\ pc = "early" => dataTransferred["early"] = Nothing
    /\ pc \in {"early", "late"} => dataTransferred["late"] = Nothing
    /\ \A k \in Kinds : Carried(k) => consumer[k] = {}
    /\ failures = 0 => ~dropped

\* A copy that has not been completed has a block of its own, which the task would wait
\* for and which has not been overwritten.
BlocksAreTaken ==
    /\ \A m, n \in DOMAIN submitted :
          /\ IsCopy(submitted[m]) /\ submitted[m].fence = submitted[n].fence => m = n
          /\ IsCopy(submitted[n]) => submitted[n].fence \in waitOnFence \ signaled
    /\ StagingIsStable

\* The last copy of an item carries what it is taken to have, and so has device memory if
\* there is none.
Carriers(i) == {n \in DOMAIN submitted : IsCopy(submitted[n]) /\ i \in DOMAIN submitted[n].data}

LastCopyIsCurrent ==
    failures = 0 =>
        \A i \in Items :
            \/ Carriers(i) = {} /\ (device[i] = copiedCount[i] \/ i \in raced)
            \/ \E n \in Carriers(i) :
                  /\ submitted[n].data[i] = copiedCount[i]
                  /\ \A m \in Carriers(i) : m <= n

TakenBlocksHaveCopies ==
    failures = 0 =>
        \A b \in waitOnFence \ signaled : \E n \in DOMAIN submitted : submitted[n].fence = b

\* A copy at work that has still to wait has not begun, waits for frames only, and has
\* nothing before it in its queue that is not at work; its fence is not signaled.
AtWork(n) == submitted[n].begun \/ submitted[n].fence \in ahead

RunnersWait ==
    /\ ahead \subseteq waitOnFence \ signaled
    /\ \A n \in DOMAIN submitted :
          submitted[n].fence \in ahead =>
              /\ ~submitted[n].begun
              /\ submitted[n].waits \subseteq {ConsumerCompleted(k) : k \in Kinds}
              /\ \A m \in SameQueueBefore(n) : AtWork(m)

\* Copies in the queue of the frames do not race.
NoRaces == InStep /\ transferQueue = "main" => raced = {}

\* The submissions that have to do with a kind of data, in their order.
Chain(k) == {n \in DOMAIN submitted : Gives(k, submitted[n]) # {}}
First(k, n) == n \in Chain(k) /\ \A m \in Chain(k) : n <= m
Final(k, n) == n \in Chain(k) /\ \A m \in Chain(k) : m <= n
Follows(k, m, n) ==
    /\ m \in Chain(k) /\ n \in Chain(k) /\ m < n
    /\ \A l \in Chain(k) : l <= m \/ n <= l

\* The semaphore that the next submission has to wait for.
Expected(k) == IF Carried(k) THEN {Complete(k)} ELSE consumer[k]

\* Two submissions of a chain that are in different queues wait for different semaphores,
\* and only the first of a chain can have begun.
OnlyFirstBegins(k) ==
    \A m, n \in Chain(k) :
        m < n => /\ ~submitted[n].begun
                 /\ Awaits(k, submitted[n]) # {}
                 /\ \/ submitted[m].queue = submitted[n].queue
                    \/ Awaits(k, submitted[m]) # Awaits(k, submitted[n])

\* Each waits for the one before it, the first for what is signaled.
Linked(k) ==
    /\ \A m, n \in DOMAIN submitted :
          Follows(k, m, n) => Awaits(k, submitted[n]) = Gives(k, submitted[m])
    /\ \A n \in DOMAIN submitted :
          First(k, n) => Available(k) = IF submitted[n].begun THEN {} ELSE Awaits(k, submitted[n])
    /\ \A n \in DOMAIN submitted : Final(k, n) => Gives(k, submitted[n]) = Expected(k)
    /\ Chain(k) = {} => Available(k) = Expected(k)

QueuesAreKept ==
    ~handedOver /\ transferQueue # "main" =>
        \A k \in Kinds : consumer[k] # {Complete(k)}
            /\ \A n \in DOMAIN submitted :
                  IsCopy(submitted[n]) => Awaits(k, submitted[n]) # {Complete(k)}

\* For each signal there is one wait, or it is the one that is expected next.
Balanced(k) ==
    \A s \in Tokens(k) :
        Cardinality(Signaling(s)) + (IF s \in signaled THEN 1 ELSE 0)
            = Cardinality(Waiting(s)) + (IF s \in Expected(k) THEN 1 ELSE 0)

\* What is written to device memory is not what the chain says.
Spoilt(i) ==
    \/ i \in raced
    \/ \E m \in DOMAIN submitted : submitted[m].fence \in ahead /\ i \in ItemsOf(m)

\* What a frame reads is on the device, if nothing has spoilt it, if the frame is the first
\* of the chain, and in the copy before it if not.
FrameData(k) ==
    /\ \A n \in DOMAIN submitted :
          First(k, n) /\ ~IsCopy(submitted[n]) =>
              \A i \in DOMAIN submitted[n].data \cap Of(k) :
                  device[i] = submitted[n].data[i] \/ Spoilt(i)
    /\ \A m, n \in DOMAIN submitted :
          Follows(k, m, n) /\ ~IsCopy(submitted[n]) =>
              /\ IsCopy(submitted[m])
              /\ \A i \in DOMAIN submitted[n].data \cap Of(k) :
                    i \in DOMAIN submitted[m].data /\ submitted[n].data[i] = submitted[m].data[i]
    /\ Carried(k) =>
          /\ \A n \in DOMAIN submitted :
                Final(k, n) => IsCopy(submitted[n]) /\ submitted[n].data = dataTransferred[k]
          /\ Chain(k) = {} =>
                \A i \in DOMAIN dataTransferred[k] :
                    device[i] = dataTransferred[k][i] \/ Spoilt(i)

ChainIsSound(k) == OnlyFirstBegins(k) /\ Linked(k) /\ Balanced(k) /\ FrameData(k)

ChainInv == InStep => \A k \in Kinds : ChainIsSound(k)

TransferInv ==
    /\ TaskTypes /\ SubmissionTypes /\ KindsInTurn /\ BlocksAreTaken
    /\ LastCopyIsCurrent /\ TakenBlocksHaveCopies /\ QueuesAreKept
    /\ RunnersWait /\ NoRaces /\ ChainInv

--------------------------------------------------------------------------------
(* Least and greatest elements, and sequences of which one element goes.   *)

\* A set of natural numbers has a least element.
LEMMA LeastElement ==
  ASSUME NEW S \in SUBSET Nat, S # {}
  PROVE  \E m \in S : \A n \in S : m <= n
<1> DEFINE R == OpToRel(<, Nat)
<1>1. IsWellFoundedOn(R, Nat)
  BY NatLessThanWellFounded
<1>2. \A y \in Nat, x \in Nat : y < x => <<y, x>> \in R
  BY DEF OpToRel
<1> HIDE DEF R
<1>3. PICK m \in S : \A n \in S : ~ (<<n, m>> \in R)
  BY <1>1, WFMin, Zenon
<1>4. m \in Nat /\ \A n \in S : n \in Nat
  OBVIOUS
<1>5. ASSUME NEW n \in S PROVE m <= n
  <2>1. ~(n < m)
    BY <1>2, <1>3, <1>4
  <2>2. QED
    BY <1>4, <2>1
<1>6. QED
  BY <1>5

\* A set of positions has a greatest element.
LEMMA GreatestElement ==
  ASSUME NEW L \in Nat, NEW S \in SUBSET (1 .. L), S # {}
  PROVE  \E m \in S : \A n \in S : n <= m
<1> DEFINE U == {u \in Nat : \A n \in S : n <= u}
<1>1. L \in U /\ U \in SUBSET Nat
  OBVIOUS
<1>2. PICK m \in U : \A u \in U : m <= u
  BY <1>1, LeastElement
<1>3. m \in Nat /\ \A n \in S : n <= m /\ n \in 1 .. L
  BY <1>2
<1>4. m \in S
  <2>1. SUFFICES ASSUME m \notin S PROVE FALSE
    OBVIOUS
  <2>2. m > 0
    <3>1. PICK n \in S : TRUE
      OBVIOUS
    <3>2. n \in Nat /\ n > 0 /\ n <= m
      BY <1>3
    <3>3. QED
      BY <1>3, <3>2
  <2>3. \A n \in S : n <= m - 1
    BY <1>3, <2>1
  <2>4. m - 1 \in U
    BY <1>3, <2>2, <2>3
  <2>5. QED
    BY <1>2, <1>3, <2>4
<1>5. QED
  BY <1>3, <1>4

\* Where an element is that is at position j without the one at n.
From(n, j) == IF j < n THEN j ELSE j + 1

\* No place but the one taken out is left over.
LEMMA FromIsOnto ==
  ASSUME NEW L \in Nat, NEW n \in 1 .. L, NEW m \in (1 .. L) \ {n}
  PROVE  \E j \in 1 .. L - 1 : From(n, j) = m
<1>1. CASE m < n
  <2>1. m \in 1 .. L - 1 /\ From(n, m) = m
    BY <1>1 DEF From
  <2>2. QED
    BY <2>1
<1>2. CASE m > n
  <2>1. m - 1 \in 1 .. L - 1 /\ From(n, m - 1) = m
    BY <1>2 DEF From
  <2>2. QED
    BY <2>1
<1>3. QED
  BY <1>1, <1>2

\* The positions but n, in their order.
LEMMA FromIsOrdered ==
  ASSUME NEW L \in Nat, NEW n \in 1 .. L
  PROVE  /\ \A j \in 1 .. L - 1 : From(n, j) \in 1 .. L /\ From(n, j) # n
         /\ \A i, j \in 1 .. L - 1 : /\ i < j <=> From(n, i) < From(n, j)
                                     /\ i <= j <=> From(n, i) <= From(n, j)
                                     /\ i = j <=> From(n, i) = From(n, j)
         /\ \A m \in (1 .. L) \ {n} : \E j \in 1 .. L - 1 : From(n, j) = m
<1>1. \A j \in 1 .. L - 1 : From(n, j) \in 1 .. L /\ From(n, j) # n
  BY DEF From
<1>2. \A i, j \in 1 .. L - 1 : /\ i < j <=> From(n, i) < From(n, j)
                               /\ i <= j <=> From(n, i) <= From(n, j)
                               /\ i = j <=> From(n, i) = From(n, j)
  BY DEF From
<1>3. ASSUME NEW m \in (1 .. L) \ {n} PROVE \E j \in 1 .. L - 1 : From(n, j) = m
  BY <1>3, FromIsOnto
<1>4. QED
  BY <1>1, <1>2, <1>3

\* A sequence without one element.
LEMMA RemovedElement ==
  ASSUME NEW S, NEW q \in Seq(S), NEW n \in DOMAIN q
  PROVE  /\ RemoveAt(q, n) \in Seq(S)
         /\ DOMAIN RemoveAt(q, n) = 1 .. Len(q) - 1
         /\ \A j \in 1 .. Len(q) - 1 : RemoveAt(q, n)[j] = q[From(n, j)]
<1> DEFINE r == RemoveAt(q, n)
           before == SubSeq(q, 1, n - 1)
           behind == SubSeq(q, n + 1, Len(q))
<1>1. /\ Len(q) \in Nat /\ DOMAIN q = 1 .. Len(q) /\ n \in 1 .. Len(q)
      /\ \A j \in 1 .. Len(q) : q[j] \in S
  BY LenProperties
<1>2. /\ before \in Seq(S) /\ Len(before) = n - 1
      /\ \A j \in 1 .. n - 1 : before[j] = q[j]
  <2>1. 1 \in Int /\ n - 1 \in Int /\ \A j \in 1 .. n - 1 : q[j] \in S
    BY <1>1
  <2>2. /\ before \in Seq(S) /\ Len(before) = IF 1 <= n - 1 THEN (n - 1) - 1 + 1 ELSE 0
        /\ \A j \in 1 .. (n - 1) - 1 + 1 : before[j] = q[1 + j - 1]
    BY <2>1, SubSeqProperties
  <2>3. QED
    BY <1>1, <2>2
<1>3. /\ behind \in Seq(S) /\ Len(behind) = Len(q) - n
      /\ \A j \in 1 .. Len(q) - n : behind[j] = q[n + j]
  <2>1. n + 1 \in Int /\ Len(q) \in Int /\ \A j \in n + 1 .. Len(q) : q[j] \in S
    BY <1>1
  <2>2. /\ behind \in Seq(S)
        /\ Len(behind) = IF n + 1 <= Len(q) THEN Len(q) - (n + 1) + 1 ELSE 0
        /\ \A j \in 1 .. Len(q) - (n + 1) + 1 : behind[j] = q[(n + 1) + j - 1]
    BY <2>1, SubSeqProperties
  <2> HIDE DEF behind
  <2>3. Len(q) - (n + 1) + 1 = Len(q) - n /\ Len(behind) = Len(q) - n
    BY <1>1, <2>2
  <2>4. \A j \in 1 .. Len(q) - n : (n + 1) + j - 1 = n + j
    BY <1>1
  <2>5. QED
    BY <2>2, <2>3, <2>4
<1>4. r = before \o behind
  BY DEF RemoveAt
<1> HIDE DEF r, before, behind
<1>5. /\ r \in Seq(S) /\ Len(r) = Len(before) + Len(behind)
      /\ \A j \in 1 .. Len(before) + Len(behind) :
            r[j] = IF j <= Len(before) THEN before[j] ELSE behind[j - Len(before)]
  BY <1>2, <1>3, <1>4, ConcatProperties
<1>6. DOMAIN r = 1 .. Len(q) - 1
  BY <1>1, <1>2, <1>3, <1>5, LenProperties
<1>7. ASSUME NEW j \in 1 .. Len(q) - 1
      PROVE  r[j] = q[From(n, j)]
  <2>1. j \in 1 .. Len(before) + Len(behind)
    BY <1>1, <1>2, <1>3
  <2>2. CASE j < n
    BY <1>1, <1>2, <1>5, <2>1, <2>2 DEF From
  <2>3. CASE j >= n
    <3>1. j - (n - 1) \in 1 .. Len(q) - n /\ n + (j - (n - 1)) = j + 1
      BY <1>1, <2>3
    <3>2. r[j] = behind[j - (n - 1)]
      BY <1>1, <1>2, <1>5, <2>1, <2>3
    <3>3. QED
      BY <1>1, <1>3, <2>3, <3>1, <3>2 DEF From
  <2>4. QED
    BY <1>1, <2>2, <2>3
<1>8. QED
  BY <1>5, <1>6, <1>7 DEF r

\* Positions without one that is not counted are as many as before.
LEMMA ShiftedPositions ==
  ASSUME NEW L \in Nat, NEW n \in 1 .. L, NEW A \in SUBSET ((1 .. L) \ {n})
  PROVE  Cardinality({j \in 1 .. L - 1 : From(n, j) \in A}) = Cardinality(A)
<1> DEFINE B == {j \in 1 .. L - 1 : From(n, j) \in A}
           f == [j \in B |-> From(n, j)]
<1>1. IsFiniteSet(B)
  <2>1. IsFiniteSet(1 .. L - 1) /\ B \in SUBSET (1 .. L - 1)
    BY FS_Interval
  <2>2. QED
    BY <2>1, FS_Subset
<1>2. f \in Injection(B, A)
  <2>1. f \in [B -> A] /\ DOMAIN f = B
    OBVIOUS
  <2>2. ASSUME NEW i \in B, NEW j \in B, f[i] = f[j] PROVE i = j
    <3>1. From(n, i) = From(n, j) /\ i \in 1 .. L - 1 /\ j \in 1 .. L - 1
      BY <2>2
    <3>2. QED
      BY <3>1 DEF From
  <2>3. QED
    BY <2>1, <2>2 DEF Injection, IsInjective
<1>3. f \in Surjection(B, A)
  <2>1. f \in [B -> A]
    OBVIOUS
  <2>2. \A m \in A : \E j \in B : f[j] = m
    BY FromIsOrdered
  <2>3. QED
    BY <2>1, <2>2 DEF Surjection
<1>4. ExistsBijection(B, A)
  BY <1>2, <1>3 DEF ExistsBijection, Bijection
<1>5. QED
  BY <1>1, <1>4, FS_Bijection

--------------------------------------------------------------------------------
(* Semaphores, kinds and shapes.                                           *)

\* No semaphore is that of two kinds, a block, or a fence of a frame.
LEMMA SemaphoresDiffer ==
  /\ \A k \in Kinds : /\ Complete(k) # ConsumerCompleted(k)
                      /\ Tokens(k) \subseteq SemaphoresOf /\ Tokens(k) \cap Blocks = {}
                      /\ {k} \X (0 .. NumBuffers - 1) \subseteq Blocks
  /\ \A k, l \in Kinds : k # l => Tokens(k) \cap Tokens(l) = {}
  /\ \A s \in SemaphoresOf : \E k \in Kinds : s \in Tokens(k)
  /\ Blocks \cap Frames = {} /\ SemaphoresOf \cap Blocks = {}
  /\ \A k, l \in Kinds : k # l => Of(k) \cap Of(l) = {}
  /\ \A k \in Kinds : Of(k) \subseteq Items
<1>1. \A k \in Kinds : /\ Complete(k) # ConsumerCompleted(k)
                       /\ Tokens(k) \subseteq SemaphoresOf
                       /\ {k} \X (0 .. NumBuffers - 1) \subseteq Blocks
  BY DEF Kinds, Complete, ConsumerCompleted, Tokens, SemaphoresOf, Blocks
<1>2. \A k, l \in Kinds : k # l => Tokens(k) \cap Tokens(l) = {}
  BY DEF Kinds, Complete, ConsumerCompleted, Tokens
<1>3. \A s \in SemaphoresOf : \E k \in Kinds : s \in Tokens(k)
  BY DEF Tokens, SemaphoresOf
<1>4. Blocks \cap Frames = {}
  <2>1. ASSUME NEW b \in Blocks, b \in Frames PROVE FALSE
    BY <2>1 DEF Blocks, Frames, Kinds
  <2>2. QED
    BY <2>1
<1>5. SemaphoresOf \cap Blocks = {}
  <2>1. ASSUME NEW b \in Blocks, b \in SemaphoresOf PROVE FALSE
    <3>1. b[1] \in Kinds
      BY DEF Blocks
    <3>2. b[1] \in {"transferComplete", "transferConsumerCompleted"}
      BY <2>1 DEF SemaphoresOf, Complete, ConsumerCompleted
    <3>3. QED
      BY <3>1, <3>2 DEF Kinds
  <2>2. QED
    BY <2>1
<1>6. \A k, l \in Kinds : k # l => Of(k) \cap Of(l) = {}
  BY DEF Kinds, Of
<1>7. \A k \in Kinds : Of(k) \subseteq Items
  BY ItemsAssumption DEF ItemsAssumption, Of
<1>8. QED
  BY <1>1, <1>2, <1>3, <1>4, <1>5, <1>6, <1>7

\* What is known of a submission by its kind.
LEMMA Shapes ==
  ASSUME NEW submission, NEW k \in Kinds,
         FrameShape(submission) \/ \E l \in Kinds : CopyShape(l, submission)
  PROVE  /\ IsCopy(submission) /\ Gives(k, submission) # {} => CopyShape(k, submission)
         /\ IsCopy(submission) => \E l \in Kinds : CopyShape(l, submission)
         /\ ~IsCopy(submission) => FrameShape(submission)
         /\ ~IsCopy(submission) /\ Gives(k, submission) # {}
               => /\ Gives(k, submission) = {ConsumerCompleted(k)}
                  /\ Awaits(k, submission) = {Complete(k)}
         /\ Gives(k, submission) = {} => Awaits(k, submission) = {}
         /\ CopyShape(k, submission) => IsCopy(submission)
<1>1. \A l \in Kinds : CopyShape(l, submission) => IsCopy(submission)
  BY SemaphoresDiffer DEF CopyShape, IsCopy
<1>2. FrameShape(submission) => ~IsCopy(submission)
  BY SemaphoresDiffer DEF FrameShape, IsCopy
<1>3. CASE FrameShape(submission)
  <2>1. /\ Gives(k, submission) = {} => Awaits(k, submission) = {}
        /\ Gives(k, submission) # {} => /\ Gives(k, submission) = {ConsumerCompleted(k)}
                                        /\ Awaits(k, submission) = {Complete(k)}
    BY <1>3 DEF FrameShape
  <2>2. QED
    BY <1>1, <1>2, <1>3, <2>1
<1>4. ASSUME NEW l \in Kinds, CopyShape(l, submission)
      PROVE  /\ Gives(k, submission) # {} => CopyShape(k, submission)
             /\ Gives(k, submission) = {} => Awaits(k, submission) = {}
  <2>1. CASE k = l
    BY <1>4, <2>1 DEF CopyShape
  <2>2. CASE k # l
    BY <1>4, <2>2 DEF CopyShape
  <2>3. QED
    BY <2>1, <2>2
<1>5. CASE \E l \in Kinds : CopyShape(l, submission)
  BY <1>1, <1>4, <1>5
<1>6. QED
  BY <1>3, <1>5

\* The first and the last submission of a chain.
LEMMA ChainEnds ==
  ASSUME SubmissionTypes, NEW k \in Kinds, Chain(k) # {}
  PROVE  /\ \E n \in DOMAIN submitted : First(k, n)
         /\ \E n \in DOMAIN submitted : Final(k, n)
<1>1. /\ Len(submitted) \in Nat /\ DOMAIN submitted = 1 .. Len(submitted)
      /\ Chain(k) \subseteq 1 .. Len(submitted)
  BY LenProperties DEF SubmissionTypes, Chain
<1>2. PICK n \in Chain(k) : \A m \in Chain(k) : n <= m
  <2>1. Chain(k) \in SUBSET Nat
    BY <1>1
  <2>2. QED
    BY <2>1, LeastElement
<1>3. PICK o \in Chain(k) : \A m \in Chain(k) : m <= o
  <2>1. Chain(k) \in SUBSET (1 .. Len(submitted))
    BY <1>1
  <2>2. QED
    BY <1>1, <2>1, GreatestElement
<1>4. QED
  BY <1>1, <1>2, <1>3 DEF First, Final

--------------------------------------------------------------------------------
(* Types, and the turns of the kinds.                                      *)

\* What a copy carries.
LEMMA CopiedData ==
  ASSUME TaskTypes, NEW k \in Kinds
  PROVE  /\ Modified(k) \subseteq Items /\ Modified(k) \subseteq Of(k)
         /\ Copy(k).data = [i \in Modified(k) |-> modifiedCount[i]]
         /\ Copy(k).data \in Contents /\ DOMAIN Copy(k).data = Modified(k)
         /\ Modified(k) # {} => Copy(k).data # Nothing
         /\ Block(k) \in Blocks /\ Block(k) \in {k} \X (0 .. NumBuffers - 1)
<1>1. Modified(k) \subseteq Items /\ Modified(k) \subseteq Of(k)
  BY DEF Modified, TaskTypes
<1>2. Copy(k).data = [i \in Modified(k) |-> modifiedCount[i]]
  BY DEF Copy, Copying, Restrict
<1>3. DOMAIN Copy(k).data = Modified(k) /\ Copy(k).data \in [Modified(k) -> Nat]
  BY <1>1, <1>2 DEF TaskTypes
<1>4. Copy(k).data \in Contents
  BY <1>1, <1>3 DEF Contents
<1>5. Modified(k) # {} => Copy(k).data # Nothing
  <2>1. DOMAIN Nothing = {}
    BY DEF Nothing
  <2>2. QED
    BY <1>3, <2>1
<1>6. Block(k) \in {k} \X (0 .. NumBuffers - 1)
  BY DEF Block, TaskTypes
<1>7. QED
  BY <1>1, <1>2, <1>3, <1>4, <1>5, <1>6, SemaphoresDiffer

\* What a frame reads.
LEMMA FrameDataTypes ==
  ASSUME TaskTypes
  PROVE  /\ Frame.data \in Contents
         /\ DOMAIN Frame.data = DOMAIN dataTransferred["early"] \cup DOMAIN dataTransferred["late"]
         /\ \A k \in Kinds : \A i \in DOMAIN Frame.data \cap Of(k) :
               /\ i \in DOMAIN dataTransferred[k]
               /\ Frame.data[i] = dataTransferred[k][i]
<1> DEFINE dom == DOMAIN dataTransferred["early"] \cup DOMAIN dataTransferred["late"]
<1>1. /\ "early" \in Kinds /\ "late" \in Kinds
      /\ \A k \in Kinds : k = "early" \/ k = "late"
      /\ Of("early") = Items \ Late /\ Of("late") = Late
  BY DEF Kinds, Of
<1>2. /\ DOMAIN dataTransferred["early"] \subseteq Items \ Late
      /\ DOMAIN dataTransferred["late"] \subseteq Late
      /\ Late \subseteq Items
  BY <1>1, ItemsAssumption DEF ItemsAssumption, TaskTypes
<1>3. \A k \in Kinds : \A i \in DOMAIN dataTransferred[k] : dataTransferred[k][i] \in Nat
  BY DEF TaskTypes, Contents
<1>4. /\ DOMAIN Frame.data = dom
      /\ \A i \in dom : Frame.data[i] = IF i \in Late THEN dataTransferred["late"][i]
                                        ELSE dataTransferred["early"][i]
      /\ Frame.data = [i \in dom |-> Frame.data[i]]
  BY DEF Frame
<1>5. \A i \in dom : Frame.data[i] \in Nat
  BY <1>1, <1>2, <1>3, <1>4
<1>6. Frame.data \in [dom -> Nat] /\ dom \in SUBSET Items
  BY <1>2, <1>4, <1>5
<1>7. Frame.data \in Contents
  BY <1>6 DEF Contents
<1>8. \A k \in Kinds : \A i \in dom \cap Of(k) :
          i \in DOMAIN dataTransferred[k] /\ Frame.data[i] = dataTransferred[k][i]
  BY <1>1, <1>2, <1>4
<1>9. QED
  BY <1>4, <1>7, <1>8

\* The types hold at first.
LEMMA TypesInit == Init => TaskTypes /\ SubmissionTypes /\ KindsInTurn
<1> SUFFICES ASSUME Init PROVE TaskTypes /\ SubmissionTypes /\ KindsInTurn
  OBVIOUS
<1>1. Nothing \in Contents /\ DOMAIN Nothing = {}
  <2>1. Nothing \in [{} -> Nat] /\ {} \in SUBSET Items /\ DOMAIN Nothing = {}
    BY DEF Nothing
  <2>2. QED
    BY <2>1 DEF Contents
<1>2. NumBuffers \in Nat \ {0}
  BY RingAssumption DEF RingAssumption
<1>3. TaskTypes
  <2>1. dataTransferred \in [Kinds -> Contents]
        /\ \A k \in Kinds : DOMAIN dataTransferred[k] \subseteq Of(k)
    BY <1>1 DEF Init
  <2>2. /\ frameIndex \in [Kinds -> 0 .. NumBuffers - 1] /\ fence \in 0 .. NumBuffers - 1
        /\ staging \in [Blocks -> [Items -> Nat]]
        /\ modifiedCount \in [Items -> Nat] /\ copiedCount \in [Items -> Nat]
        /\ consumer \in [Kinds -> SUBSET SemaphoresOf]
        /\ \A k \in Kinds : consumer[k] = {}
    BY <1>2 DEF Init
  <2>3. /\ pc \in {"idle", "early", "late", "finish"} /\ assigned \subseteq Items
        /\ waitOnFence \subseteq Blocks /\ failures \in Nat /\ transferQueue \in {"main", "transfer"} /\ DOMAIN device = Items
    BY DEF Init
  <2>4. QED
    BY <2>1, <2>2, <2>3 DEF TaskTypes
<1>4. SubmissionTypes
  BY EmptySeq DEF Init, SubmissionTypes
<1>5. KindsInTurn
  BY DEF Init, KindsInTurn, Carried
<1>6. QED
  BY <1>3, <1>4, <1>5

\* The steps of the application.
ApplicationStep == \E i \in Items : Modify(i) \/ Assign(i) \/ Orphan(i)

\* The application and the threads that compile change counts and collections only.
LEMMA ApplicationChanges ==
  ASSUME TaskTypes, ApplicationStep
  PROVE  /\ UNCHANGED <<taskVars, copiedCount, copyVars, gpuVars, faultVars>>
         /\ modifiedCount' \in [Items -> Nat] /\ assigned' \subseteq Items
<1>1. PICK i \in Items : Modify(i) \/ Assign(i) \/ Orphan(i)
  BY DEF ApplicationStep
<1>2. CASE Modify(i)
  BY <1>2 DEF Modify, TaskTypes
<1>3. CASE Assign(i)
  BY <1>3 DEF Assign, TaskTypes
<1>4. CASE Orphan(i)
  BY <1>4 DEF Orphan, TaskTypes
<1>5. QED
  BY <1>1, <1>2, <1>3, <1>4

\* What a step that fills a block changes.
LEMMA PreparedCopy ==
  ASSUME TaskTypes, NEW k \in Kinds, PrepareCopy(k)
  PROVE  /\ pc = k /\ Modified(k) # {} /\ BlockIsFree(k)
         /\ copiedCount' = [i \in Items |-> IF i \in Modified(k) THEN modifiedCount[i]
                                            ELSE copiedCount[i]]
         /\ copiedCount' \in [Items -> Nat] /\ assigned' \subseteq Items
         /\ frameIndex' \in [Kinds -> 0 .. NumBuffers - 1]
         /\ staging' \in [Blocks -> [Items -> Nat]]
         /\ \A b \in Blocks \ {Block(k)} : staging'[b] = staging[b]
         /\ \A i \in Modified(k) : staging'[Block(k)][i] = modifiedCount[i]
         /\ waitOnFence' = waitOnFence \cup {Block(k)} /\ signaled' = signaled \ {Block(k)}
         /\ consumer' = [consumer EXCEPT ![k] = {}]
         /\ UNCHANGED <<fence, modifiedCount, referenced, ahead, raced, device>>
<1>1. /\ pc = k /\ Modified(k) # {} /\ BlockIsFree(k) /\ FillBlock(k)
      /\ frameIndex' = [frameIndex EXCEPT ![k] = (frameIndex[k] + 1) % NumBuffers]
      /\ waitOnFence' = waitOnFence \cup {Block(k)} /\ signaled' = signaled \ {Block(k)}
      /\ consumer' = [consumer EXCEPT ![k] = {}]
      /\ UNCHANGED <<fence, modifiedCount, referenced, ahead, raced, device>>
  BY DEF PrepareCopy
<1>2. /\ copiedCount' = [i \in Items |-> IF i \in Modified(k) THEN modifiedCount[i]
                                         ELSE copiedCount[i]]
      /\ assigned' = assigned \ (Of(k) \ (referenced \ Static))
      /\ staging' = [staging EXCEPT ![Block(k)] =
                        [i \in Items |-> IF i \in Modified(k) THEN modifiedCount[i]
                                         ELSE staging[Block(k)][i]]]
  BY <1>1 DEF FillBlock
<1>3. /\ Block(k) \in Blocks /\ Modified(k) \subseteq Items
      /\ modifiedCount \in [Items -> Nat] /\ copiedCount \in [Items -> Nat]
      /\ staging \in [Blocks -> [Items -> Nat]]
  BY CopiedData DEF TaskTypes
<1>4. copiedCount' \in [Items -> Nat] /\ assigned' \subseteq Items
  BY <1>2, <1>3 DEF TaskTypes
<1>5. frameIndex' \in [Kinds -> 0 .. NumBuffers - 1]
  <2>1. frameIndex \in [Kinds -> 0 .. NumBuffers - 1] /\ NumBuffers \in Nat \ {0}
    BY RingAssumption DEF RingAssumption, TaskTypes
  <2>2. frameIndex[k] \in Nat
    BY <2>1
  <2>3. (frameIndex[k] + 1) % NumBuffers \in 0 .. NumBuffers - 1
    BY <2>1, <2>2
  <2>4. QED
    BY <1>1, <2>1, <2>3
<1>6. /\ staging' \in [Blocks -> [Items -> Nat]]
      /\ \A b \in Blocks \ {Block(k)} : staging'[b] = staging[b]
      /\ \A i \in Modified(k) : staging'[Block(k)][i] = modifiedCount[i]
  <2> DEFINE filled == [i \in Items |-> IF i \in Modified(k) THEN modifiedCount[i]
                                        ELSE staging[Block(k)][i]]
  <2>1. filled \in [Items -> Nat] /\ \A i \in Modified(k) : filled[i] = modifiedCount[i]
    BY <1>3
  <2>2. staging' = [staging EXCEPT ![Block(k)] = filled]
    BY <1>2
  <2> HIDE DEF filled
  <2>3. QED
    BY <1>3, <2>1, <2>2
<1>7. QED
  BY <1>1, <1>2, <1>4, <1>5, <1>6

\* Types of the task, action by action.
LEMMA TypesStep ==
  ASSUME TaskTypes, KindsInTurn, Next
  PROVE  TaskTypes'
<1> USE DEF TaskTypes
<1>1. Nothing \in Contents /\ DOMAIN Nothing = {} /\ NumBuffers \in Nat \ {0}
  <2>1. Nothing \in [{} -> Nat] /\ {} \in SUBSET Items /\ DOMAIN Nothing = {}
    BY DEF Nothing
  <2>2. QED
    BY <2>1, RingAssumption DEF Contents, RingAssumption
<1>2. CASE ApplicationStep
  BY <1>2, ApplicationChanges DEF taskVars, copyVars, gpuVars, faultVars
<1>3. CASE Start
  <2>1. (fence + 1) % NumBuffers \in 0 .. NumBuffers - 1
    BY <1>1
  <2>2. QED
    BY <1>1, <1>3, <2>1 DEF Start, dataVars, copyVars, gpuVars, faultVars
<1>4. \A semaphores : (\A k \in Kinds : semaphores[k] \in Tokens(k))
          => /\ Assigned(semaphores) \in [Kinds -> SUBSET SemaphoresOf]
             /\ \A k \in Kinds : Assigned(semaphores)[k]
                                     \in {{}, {Complete(k)}, {ConsumerCompleted(k)}}
  <2>1. SUFFICES ASSUME NEW semaphores, \A k \in Kinds : semaphores[k] \in Tokens(k)
                 PROVE  /\ Assigned(semaphores) \in [Kinds -> SUBSET SemaphoresOf]
                        /\ \A k \in Kinds : Assigned(semaphores)[k]
                                     \in {{}, {Complete(k)}, {ConsumerCompleted(k)}}
    OBVIOUS
  <2>2. \A k \in Kinds : semaphores[k] \in SemaphoresOf
            /\ {semaphores[k]} \in {{}, {Complete(k)}, {ConsumerCompleted(k)}}
    BY <2>1, SemaphoresDiffer DEF Tokens
  <2>3. QED
    BY <2>2 DEF Assigned
<1>5. CASE FinishEmpty
  <2>1. consumer' = Assigned([k \in Kinds |-> Complete(k)])
    BY <1>5 DEF FinishEmpty
  <2>2. /\ consumer' \in [Kinds -> SUBSET SemaphoresOf]
        /\ \A k \in Kinds : consumer'[k] \in {{}, {Complete(k)}, {ConsumerCompleted(k)}}
    BY <1>4, <2>1 DEF Tokens
  <2>3. QED
    BY <1>5, <2>2 DEF FinishEmpty, dataVars, gpuVars
<1>6. CASE FinishSubmit \/ FinishSubmitFails
  <2>1. consumer' = Assigned([k \in Kinds |-> ConsumerCompleted(k)])
    BY <1>6 DEF FinishSubmit, FinishSubmitFails
  <2>2. /\ consumer' \in [Kinds -> SUBSET SemaphoresOf]
        /\ \A k \in Kinds : consumer'[k] \in {{}, {Complete(k)}, {ConsumerCompleted(k)}}
    BY <1>4, <2>1 DEF Tokens
  <2>3. CASE FinishSubmit
    BY <2>2, <2>3 DEF FinishSubmit, dataVars, faultVars
  <2>4. CASE FinishSubmitFails
    <3>1. failures' = failures + 1
      BY <2>4 DEF FinishSubmitFails
    <3>2. QED
      BY <2>2, <2>4, <3>1 DEF FinishSubmitFails, dataVars, gpuVars
  <2>5. QED
    BY <1>6, <2>3, <2>4
<1>7. ASSUME NEW k \in Kinds, TransferNothing(k) PROVE TaskTypes'
  <2>1. pc' \in {"idle", "early", "late", "finish"}
    BY <1>7 DEF TransferNothing, After
  <2>2. QED
    BY <1>7, <2>1 DEF TransferNothing, dataVars, copyVars, gpuVars, faultVars
<1>8. ASSUME NEW k \in Kinds, PrepareCopy(k)
      PROVE  /\ fence' \in 0 .. NumBuffers - 1
             /\ modifiedCount' \in [Items -> Nat] /\ copiedCount' \in [Items -> Nat]
             /\ assigned' \subseteq Items /\ frameIndex' \in [Kinds -> 0 .. NumBuffers - 1]
             /\ waitOnFence' \subseteq Blocks /\ staging' \in [Blocks -> [Items -> Nat]]
             /\ consumer' \in [Kinds -> SUBSET SemaphoresOf]
             /\ \A l \in Kinds : consumer'[l] \in {{}, {Complete(l)}, {ConsumerCompleted(l)}}
             /\ DOMAIN device' = Items
  <2>1. /\ copiedCount' \in [Items -> Nat] /\ assigned' \subseteq Items
        /\ frameIndex' \in [Kinds -> 0 .. NumBuffers - 1]
        /\ staging' \in [Blocks -> [Items -> Nat]]
        /\ waitOnFence' = waitOnFence \cup {Block(k)} /\ Block(k) \in Blocks
        /\ consumer' = [consumer EXCEPT ![k] = {}]
        /\ UNCHANGED <<fence, modifiedCount, referenced, device>>
    BY <1>8, PreparedCopy, CopiedData
  <2>2. QED
    BY <2>1
<1>9. ASSUME NEW k \in Kinds, TransferData(k) PROVE TaskTypes'
  <2>1. PrepareCopy(k) /\ pc' = After(k) /\ UNCHANGED faultVars
        /\ dataTransferred' = [dataTransferred EXCEPT ![k] = Copy(k).data]
    BY <1>9 DEF TransferData
  <2>2. Copy(k).data \in Contents /\ DOMAIN Copy(k).data \subseteq Of(k)
    BY CopiedData
  <2>3. dataTransferred' \in [Kinds -> Contents]
        /\ \A l \in Kinds : DOMAIN dataTransferred'[l] \subseteq Of(l)
    BY <2>1, <2>2
  <2>4. pc' \in {"idle", "early", "late", "finish"}
    BY <2>1 DEF After
  <2>5. QED
    BY <1>8, <2>1, <2>3, <2>4 DEF faultVars
<1>10. ASSUME NEW k \in Kinds, TransferFails(k) PROVE TaskTypes'
  <2>1. Fail(k)
    BY <1>10 DEF TransferFails, WaitFails, SubmitCopyFails
  <2>2. /\ pc' \in {"idle", "early", "late", "finish"} /\ failures' \in Nat
        /\ UNCHANGED <<dataTransferred, transferQueue>>
    BY <2>1 DEF Fail
  <2>3. CASE WaitFails(k)
    BY <2>2, <2>3 DEF WaitFails, dataVars, copyVars, gpuVars
  <2>4. CASE SubmitCopyFails(k)
    <3>1. PrepareCopy(k)
      BY <2>4 DEF SubmitCopyFails
    <3>2. QED
      BY <1>8, <2>2, <3>1
  <2>5. QED
    BY <1>10, <2>3, <2>4 DEF TransferFails
<1>11. CASE GpuStep
  <2>1. DOMAIN device' = Items
    BY <1>11 DEF GpuStep, GpuRunsAhead, GpuBegins, GpuCompletes, Writes
  <2>2. QED
    BY <1>11, <2>1 DEF GpuStep, GpuRunsAhead, GpuBegins, GpuCompletes, taskVars, dataVars,
                       copyVars, faultVars
<1>12. QED
  BY <1>2, <1>3, <1>5, <1>6, <1>7, <1>9, <1>10, <1>11
     DEF Next, TaskStep, TransferStep, ApplicationStep

--------------------------------------------------------------------------------
(* How the submissions change.                                             *)

\* Every record of its fields is a submission.
LEMMA SubmissionRecord ==
  ASSUME NEW queue \in {"main", "transfer"}, NEW fenceOf \in Blocks \cup Frames,
         NEW waits \in SUBSET SemaphoresOf, NEW signals \in SUBSET SemaphoresOf,
         NEW data \in Contents
  PROVE  [queue |-> queue, fence |-> fenceOf, waits |-> waits, signals |-> signals,
          data |-> data, begun |-> FALSE] \in Submissions
BY DEF Submissions

\* A copy that is submitted waits for what is expected, and has not begun.
LEMMA CopyIsSubmission ==
  ASSUME TaskTypes, NEW k \in Kinds
  PROVE  /\ Copy(k) \in Submissions /\ CopyShape(k, Copy(k)) /\ IsCopy(Copy(k))
         /\ Copy(k).queue = transferQueue /\ Copy(k).fence = Block(k)
         /\ Awaits(k, Copy(k)) = consumer[k] /\ ~Copy(k).begun
         /\ Copy(k).waits = consumer[k] /\ Copy(k).signals = {Complete(k)}
<1>1. /\ Copy(k) = [queue |-> transferQueue, fence |-> Block(k), waits |-> consumer[k],
                    signals |-> {Complete(k)}, data |-> Copy(k).data, begun |-> FALSE]
      /\ Copy(k).queue = transferQueue /\ Copy(k).fence = Block(k)
      /\ Copy(k).waits = consumer[k] /\ Copy(k).signals = {Complete(k)} /\ ~Copy(k).begun
  BY DEF Copy, Copying
<1>2. /\ Copy(k).data \in Contents /\ DOMAIN Copy(k).data \subseteq Of(k)
      /\ Block(k) \in Blocks /\ Block(k) \in {k} \X (0 .. NumBuffers - 1)
  BY CopiedData
<1>3. /\ consumer[k] \in {{}, {Complete(k)}, {ConsumerCompleted(k)}}
      /\ consumer[k] \subseteq Tokens(k) /\ Complete(k) \in Tokens(k)
      /\ transferQueue \in {"main", "transfer"} /\ Tokens(k) \subseteq SemaphoresOf
  <2>1. /\ consumer[k] \in {{}, {Complete(k)}, {ConsumerCompleted(k)}}
        /\ transferQueue \in {"main", "transfer"}
    BY DEF TaskTypes
  <2>2. consumer[k] \subseteq Tokens(k) /\ Complete(k) \in Tokens(k)
    BY <2>1 DEF Tokens
  <2>3. QED
    BY <2>1, <2>2, SemaphoresDiffer
<1>4. Copy(k) \in Submissions
  <2>1. {Complete(k)} \in SUBSET SemaphoresOf /\ consumer[k] \in SUBSET SemaphoresOf
    BY <1>3
  <2>2. [queue |-> transferQueue, fence |-> Block(k), waits |-> consumer[k],
         signals |-> {Complete(k)}, data |-> Copy(k).data, begun |-> FALSE] \in Submissions
    BY <1>2, <1>3, <2>1, SubmissionRecord
  <2>3. QED
    BY <1>1, <2>2, Zenon
<1>5. Awaits(k, Copy(k)) = consumer[k] /\ Gives(k, Copy(k)) = {Complete(k)}
  BY <1>1, <1>3 DEF Awaits, Gives
<1>6. \A l \in Kinds \ {k} : Gives(l, Copy(k)) = {} /\ Awaits(l, Copy(k)) = {}
  BY <1>1, <1>3, SemaphoresDiffer DEF Awaits, Gives
<1>7. CopyShape(k, Copy(k))
  BY <1>1, <1>2, <1>3, <1>5, <1>6 DEF CopyShape
<1>8. QED
  BY <1>1, <1>2, <1>4, <1>5, <1>7 DEF IsCopy

\* A frame waits for the copies submitted in it.
LEMMA FrameIsSubmission ==
  ASSUME TaskTypes
  PROVE  /\ Frame \in Submissions /\ FrameShape(Frame) /\ ~IsCopy(Frame)
         /\ Frame.queue = "main" /\ ~Frame.begun
         /\ \A k \in Kinds : IF k \in Transferred
                             THEN /\ Gives(k, Frame) = {ConsumerCompleted(k)}
                                  /\ Awaits(k, Frame) = {Complete(k)}
                             ELSE Gives(k, Frame) = {} /\ Awaits(k, Frame) = {}
<1>1. /\ Frame = [queue |-> "main", fence |-> <<"frame", fence>>,
                  waits |-> {Complete(l) : l \in Transferred},
                  signals |-> {ConsumerCompleted(l) : l \in Transferred},
                  data |-> Frame.data, begun |-> FALSE]
      /\ Frame.queue = "main" /\ Frame.fence = <<"frame", fence>> /\ ~Frame.begun
      /\ Frame.waits = {Complete(l) : l \in Transferred}
      /\ Frame.signals = {ConsumerCompleted(l) : l \in Transferred}
  BY DEF Frame
<1>2. /\ Frame.data \in Contents /\ <<"frame", fence>> \in Frames
      /\ \A k \in Kinds : \A i \in DOMAIN Frame.data \cap Of(k) : i \in DOMAIN dataTransferred[k]
  BY FrameDataTypes DEF TaskTypes, Frames
<1>3. Transferred \subseteq Kinds
  BY DEF Transferred
<1>4. \A k \in Kinds : Complete(k) \in SemaphoresOf /\ ConsumerCompleted(k) \in SemaphoresOf
  BY SemaphoresDiffer DEF Tokens
<1>5. Frame \in Submissions
  <2>1. /\ {Complete(l) : l \in Transferred} \in SUBSET SemaphoresOf
        /\ {ConsumerCompleted(l) : l \in Transferred} \in SUBSET SemaphoresOf
    BY <1>3, <1>4
  <2>2. [queue |-> "main", fence |-> <<"frame", fence>>,
         waits |-> {Complete(l) : l \in Transferred},
         signals |-> {ConsumerCompleted(l) : l \in Transferred},
         data |-> Frame.data, begun |-> FALSE] \in Submissions
    BY <1>2, <2>1, SubmissionRecord
  <2>3. QED
    BY <1>1, <2>2, Zenon
<1>6. ASSUME NEW k \in Kinds
      PROVE  IF k \in Transferred
             THEN Gives(k, Frame) = {ConsumerCompleted(k)} /\ Awaits(k, Frame) = {Complete(k)}
             ELSE Gives(k, Frame) = {} /\ Awaits(k, Frame) = {}
  <2>1. \A l \in Kinds : /\ Complete(l) \in Tokens(k) <=> l = k
                         /\ ConsumerCompleted(l) \in Tokens(k) <=> l = k
    BY SemaphoresDiffer DEF Tokens
  <2>2. QED
    BY <1>1, <1>3, <2>1 DEF Gives, Awaits
<1>7. FrameShape(Frame)
  <2>1. ASSUME NEW k \in Kinds, k \notin Transferred PROVE DOMAIN Frame.data \cap Of(k) = {}
    <3>1. DOMAIN dataTransferred[k] = {}
      BY <2>1 DEF Transferred, Nothing
    <3>2. QED
      BY <1>2, <3>1
  <2>2. QED
    BY <1>1, <1>2, <1>6, <2>1 DEF FrameShape
<1>8. QED
  BY <1>1, <1>2, <1>5, <1>6, <1>7, SemaphoresDiffer DEF IsCopy

\* One more submission.
LEMMA AppendedSubmission ==
  ASSUME SubmissionTypes, NEW sub \in Submissions, submitted' = Append(submitted, sub)
  PROVE  /\ Len(submitted) \in Nat /\ DOMAIN submitted = 1 .. Len(submitted)
         /\ submitted' \in Seq(Submissions) /\ DOMAIN submitted' = 1 .. Len(submitted) + 1
         /\ \A j \in 1 .. Len(submitted) : submitted'[j] = submitted[j]
         /\ submitted'[Len(submitted) + 1] = sub
<1>1. submitted \in Seq(Submissions)
  BY DEF SubmissionTypes
<1>2. /\ Append(submitted, sub) \in Seq(Submissions)
      /\ Len(Append(submitted, sub)) = Len(submitted) + 1
      /\ \A j \in 1 .. Len(submitted) : Append(submitted, sub)[j] = submitted[j]
      /\ Append(submitted, sub)[Len(submitted) + 1] = sub
  BY <1>1, AppendProperties
<1>3. QED
  BY <1>1, <1>2, LenProperties

\* A submission that begins changes in nothing else.
LEMMA BegunSubmission ==
  ASSUME SubmissionTypes, NEW n \in DOMAIN submitted,
         submitted' = [submitted EXCEPT ![n].begun = TRUE]
  PROVE  /\ submitted' \in Seq(Submissions) /\ DOMAIN submitted' = DOMAIN submitted
         /\ \A j \in DOMAIN submitted :
               /\ submitted'[j].queue = submitted[j].queue
               /\ submitted'[j].fence = submitted[j].fence
               /\ submitted'[j].waits = submitted[j].waits
               /\ submitted'[j].signals = submitted[j].signals
               /\ submitted'[j].data = submitted[j].data
               /\ submitted'[j].begun = (submitted[j].begun \/ j = n)
<1>1. /\ submitted \in Seq(Submissions) /\ DOMAIN submitted = 1 .. Len(submitted)
      /\ \A j \in DOMAIN submitted : submitted[j] \in Submissions
  BY LenProperties DEF SubmissionTypes
<1> DEFINE sub == [submitted[n] EXCEPT !.begun = TRUE]
<1>2. submitted[n] \in Submissions
  BY <1>1
<1>3. /\ sub \in Submissions /\ sub.begun = TRUE
      /\ sub.queue = submitted[n].queue /\ sub.fence = submitted[n].fence
      /\ sub.waits = submitted[n].waits /\ sub.signals = submitted[n].signals
      /\ sub.data = submitted[n].data
  BY <1>2 DEF Submissions
<1>4. submitted' = [submitted EXCEPT ![n] = sub]
  OBVIOUS
<1>5. \A j \in DOMAIN submitted : submitted[j].begun \in BOOLEAN
  BY <1>1 DEF Submissions
<1> HIDE DEF sub
<1>6. /\ submitted' \in Seq(Submissions) /\ DOMAIN submitted' = DOMAIN submitted
      /\ submitted'[n] = sub
      /\ \A j \in DOMAIN submitted \ {n} : submitted'[j] = submitted[j]
  <2>1. submitted \in Seq(Submissions) /\ n \in 1 .. Len(submitted) /\ sub \in Submissions
    BY <1>1, <1>3
  <2>2. [submitted EXCEPT ![n] = sub] \in Seq(Submissions)
    BY <2>1, ExceptSeq
  <2>3. QED
    BY <1>1, <1>4, <2>1, <2>2
<1>7. QED
  BY <1>3, <1>5, <1>6

\* One submission less.
LEMMA CompletedSubmission ==
  ASSUME SubmissionTypes, NEW n \in DOMAIN submitted, submitted' = RemoveAt(submitted, n)
  PROVE  /\ Len(submitted) \in Nat /\ DOMAIN submitted = 1 .. Len(submitted)
         /\ n \in 1 .. Len(submitted)
         /\ submitted' \in Seq(Submissions) /\ DOMAIN submitted' = 1 .. Len(submitted) - 1
         /\ \A j \in 1 .. Len(submitted) - 1 :
               /\ From(n, j) \in DOMAIN submitted /\ From(n, j) # n
               /\ submitted'[j] = submitted[From(n, j)]
         /\ \A m \in DOMAIN submitted \ {n} : \E j \in DOMAIN submitted' : From(n, j) = m
<1>1. submitted \in Seq(Submissions) /\ DOMAIN submitted = 1 .. Len(submitted)
      /\ Len(submitted) \in Nat
  BY LenProperties DEF SubmissionTypes
<1>2. /\ submitted' \in Seq(Submissions) /\ DOMAIN submitted' = 1 .. Len(submitted) - 1
      /\ \A j \in 1 .. Len(submitted) - 1 : submitted'[j] = submitted[From(n, j)]
  BY <1>1, RemovedElement
<1>3. /\ \A j \in 1 .. Len(submitted) - 1 : From(n, j) \in 1 .. Len(submitted) /\ From(n, j) # n
      /\ \A m \in (1 .. Len(submitted)) \ {n} :
            \E j \in 1 .. Len(submitted) - 1 : From(n, j) = m
  <2>1. PICK L : L = Len(submitted) /\ L \in Nat /\ n \in 1 .. L
    BY <1>1
  <2>2. \A j \in 1 .. L - 1 : From(n, j) \in 1 .. L /\ From(n, j) # n
    <3>1. L \in Nat /\ n \in 1 .. L
      BY <2>1
    <3>2. QED
      BY <3>1, FromIsOrdered, ZenonT(40)
  <2>3. \A m \in (1 .. L) \ {n} : \E j \in 1 .. L - 1 : From(n, j) = m
    <3>1. ASSUME NEW m \in (1 .. L) \ {n} PROVE \E j \in 1 .. L - 1 : From(n, j) = m
      <4>1. L \in Nat /\ n \in 1 .. L /\ m \in (1 .. L) \ {n}
        BY <2>1
      <4>2. QED
        BY <4>1, FromIsOnto, Zenon
    <3>2. QED
      BY <3>1
  <2>4. QED
    BY <2>1, <2>2, <2>3, Zenon
<1>4. QED
  BY <1>1, <1>2, <1>3

\* Everything but the GPU and the submissions of the task leaves them alone.
LEMMA SubmissionsChange ==
  ASSUME Next
  PROVE  \/ UNCHANGED submitted
         \/ \E k \in Kinds : TransferData(k)
         \/ FinishSubmit
         \/ \E n \in DOMAIN submitted : GpuBegins(n) \/ GpuCompletes(n)
BY DEF Next, TaskStep, TransferStep, TransferFails, WaitFails, SubmitCopyFails, FinishSubmitFails,
       TransferNothing, Start, FinishEmpty, Modify, Assign, Orphan, GpuStep, GpuRunsAhead, gpuVars

\* The copies always go to the same queue.
LEMMA QueueIsFixed ==
  ASSUME Next
  PROVE  transferQueue' = transferQueue
BY DEF Next, TaskStep, TransferStep, TransferFails, WaitFails, SubmitCopyFails, FinishSubmitFails,
       FinishSubmit, Fail, TransferData, TransferNothing, Start, FinishEmpty, Modify, Assign,
       Orphan, GpuStep, GpuRunsAhead, GpuBegins, GpuCompletes, faultVars

\* Shapes do not depend on whether a submission has begun.
LEMMA SameShape ==
  ASSUME NEW old, NEW new, new.fence = old.fence, new.waits = old.waits,
         new.signals = old.signals, new.data = old.data
  PROVE  /\ FrameShape(new) <=> FrameShape(old)
         /\ IsCopy(new) <=> IsCopy(old)
         /\ \A k \in Kinds : /\ CopyShape(k, new) <=> CopyShape(k, old)
                             /\ Gives(k, new) = Gives(k, old)
                             /\ Awaits(k, new) = Awaits(k, old)
<1>1. \A k \in Kinds : Gives(k, new) = Gives(k, old) /\ Awaits(k, new) = Awaits(k, old)
  BY DEF Gives, Awaits
<1>2. IsCopy(new) <=> IsCopy(old)
  BY DEF IsCopy
<1>3. FrameShape(new) <=> FrameShape(old)
  BY <1>1 DEF FrameShape
<1>4. \A k \in Kinds : CopyShape(k, new) <=> CopyShape(k, old)
  BY <1>1 DEF CopyShape
<1>5. QED
  BY <1>1, <1>2, <1>3, <1>4

\* A submission that begins is as before, but begun.
LEMMA BegunShape ==
  ASSUME SubmissionTypes, NEW n \in DOMAIN submitted,
         submitted' = [submitted EXCEPT ![n].begun = TRUE]
  PROVE  /\ DOMAIN submitted' = DOMAIN submitted
         /\ \A j \in DOMAIN submitted :
               /\ FrameShape(submitted'[j]) <=> FrameShape(submitted[j])
               /\ IsCopy(submitted'[j]) <=> IsCopy(submitted[j])
               /\ \A k \in Kinds :
                     /\ CopyShape(k, submitted'[j]) <=> CopyShape(k, submitted[j])
                     /\ Gives(k, submitted'[j]) = Gives(k, submitted[j])
                     /\ Awaits(k, submitted'[j]) = Awaits(k, submitted[j])
<1>1. DOMAIN submitted' = DOMAIN submitted
  BY BegunSubmission
<1>2. ASSUME NEW j \in DOMAIN submitted
      PROVE  /\ FrameShape(submitted'[j]) <=> FrameShape(submitted[j])
             /\ IsCopy(submitted'[j]) <=> IsCopy(submitted[j])
             /\ \A k \in Kinds :
                   /\ CopyShape(k, submitted'[j]) <=> CopyShape(k, submitted[j])
                   /\ Gives(k, submitted'[j]) = Gives(k, submitted[j])
                   /\ Awaits(k, submitted'[j]) = Awaits(k, submitted[j])
  <2>1. /\ submitted'[j].fence = submitted[j].fence /\ submitted'[j].waits = submitted[j].waits
        /\ submitted'[j].signals = submitted[j].signals
        /\ submitted'[j].data = submitted[j].data
    BY BegunSubmission
  <2>2. QED
    BY <2>1, SameShape
<1>3. QED
  BY <1>1, <1>2

\* Submissions keep their shapes.
LEMMA SubmissionTypesStep ==
  ASSUME TaskTypes, SubmissionTypes, Next
  PROVE  SubmissionTypes'
<1> DEFINE L == Len(submitted)
<1>1. transferQueue' = transferQueue
  BY QueueIsFixed
<1>2. CASE UNCHANGED submitted
  BY <1>1, <1>2 DEF SubmissionTypes
<1>3. ASSUME NEW sub \in Submissions, submitted' = Append(submitted, sub),
             FrameShape(sub) \/ \E k \in Kinds : CopyShape(k, sub),
             sub.queue = IF IsCopy(sub) THEN transferQueue ELSE "main"
      PROVE  SubmissionTypes'
  <2>1. /\ L \in Nat /\ DOMAIN submitted = 1 .. L
        /\ submitted' \in Seq(Submissions) /\ DOMAIN submitted' = 1 .. L + 1
        /\ \A j \in 1 .. L : submitted'[j] = submitted[j]
        /\ submitted'[L + 1] = sub
    BY <1>3, AppendedSubmission
  <2> HIDE DEF L
  <2>2. ASSUME NEW j \in DOMAIN submitted'
        PROVE  /\ FrameShape(submitted'[j]) \/ \E k \in Kinds : CopyShape(k, submitted'[j])
               /\ submitted'[j].queue = IF IsCopy(submitted'[j]) THEN transferQueue ELSE "main"
    <3>1. CASE j = L + 1
      BY <1>3, <2>1, <3>1
    <3>2. CASE j \in 1 .. L
      BY <2>1, <3>2 DEF SubmissionTypes
    <3>3. QED
      BY <2>1, <3>1, <3>2
  <2>3. QED
    BY <1>1, <2>1, <2>2 DEF SubmissionTypes
<1>4. ASSUME NEW k \in Kinds, TransferData(k) PROVE SubmissionTypes'
  <2>1. submitted' = Append(submitted, Copy(k))
    BY <1>4 DEF TransferData
  <2>2. QED
    BY <1>3, <2>1, CopyIsSubmission
<1>5. CASE FinishSubmit
  <2>1. submitted' = Append(submitted, Frame)
    BY <1>5 DEF FinishSubmit
  <2>2. QED
    BY <1>3, <2>1, FrameIsSubmission
<1>6. ASSUME NEW n \in DOMAIN submitted, GpuBegins(n) PROVE SubmissionTypes'
  <2>1. submitted' = [submitted EXCEPT ![n].begun = TRUE]
    BY <1>6 DEF GpuBegins
  <2>2. /\ submitted' \in Seq(Submissions) /\ DOMAIN submitted' = DOMAIN submitted
        /\ \A j \in DOMAIN submitted : submitted'[j].queue = submitted[j].queue
    BY <2>1, BegunSubmission
  <2>3. ASSUME NEW j \in DOMAIN submitted'
        PROVE  /\ FrameShape(submitted'[j]) \/ \E k \in Kinds : CopyShape(k, submitted'[j])
               /\ submitted'[j].queue = IF IsCopy(submitted'[j]) THEN transferQueue ELSE "main"
    BY <2>1, <2>2, BegunShape DEF SubmissionTypes
  <2>4. QED
    BY <1>1, <2>2, <2>3 DEF SubmissionTypes
<1>7. ASSUME NEW n \in DOMAIN submitted, GpuCompletes(n) PROVE SubmissionTypes'
  <2>1. submitted' = RemoveAt(submitted, n)
    BY <1>7 DEF GpuCompletes
  <2>2. /\ submitted' \in Seq(Submissions) /\ DOMAIN submitted' = 1 .. Len(submitted) - 1
        /\ \A j \in 1 .. Len(submitted) - 1 :
              From(n, j) \in DOMAIN submitted /\ submitted'[j] = submitted[From(n, j)]
    BY <2>1, CompletedSubmission
  <2>3. ASSUME NEW j \in DOMAIN submitted'
        PROVE  /\ FrameShape(submitted'[j]) \/ \E k \in Kinds : CopyShape(k, submitted'[j])
               /\ submitted'[j].queue = IF IsCopy(submitted'[j]) THEN transferQueue ELSE "main"
    BY <2>2 DEF SubmissionTypes
  <2>4. QED
    BY <1>1, <2>2, <2>3 DEF SubmissionTypes
<1>8. QED
  BY <1>2, <1>4, <1>5, <1>6, <1>7, SubmissionsChange

\* The kinds take their turns, and what a frame has copied is not waited for before it ends.
LEMMA TurnsStep ==
  ASSUME TaskTypes, KindsInTurn, Next
  PROVE  KindsInTurn'
<1> USE DEF KindsInTurn
<1>1. \A k \in Kinds : k = "early" \/ k = "late"
  BY DEF Kinds
<1>2. ASSUME UNCHANGED <<pc, dataTransferred, consumer, failures, dropped>> PROVE KindsInTurn'
  BY <1>2 DEF Carried
<1>3. CASE ApplicationStep
  BY <1>2, <1>3, ApplicationChanges DEF taskVars, copyVars, faultVars
<1>4. CASE GpuStep
  BY <1>2, <1>4 DEF GpuStep, GpuRunsAhead, GpuBegins, GpuCompletes, taskVars, copyVars,
                    faultVars
<1>5. CASE Start
  <2>1. dataTransferred' = [k \in Kinds |-> Nothing] /\ UNCHANGED <<consumer, failures, dropped>>
    BY <1>5 DEF Start, copyVars, faultVars
  <2>2. \A k \in Kinds : dataTransferred'[k] = Nothing
    BY <2>1
  <2>3. "early" \in Kinds /\ "late" \in Kinds
    BY DEF Kinds
  <2>4. QED
    BY <2>1, <2>2, <2>3 DEF Carried
<1>6. ASSUME pc' = "idle", failures' = 0 => ~dropped' PROVE KindsInTurn'
  BY <1>6 DEF Carried
<1>7. CASE FinishEmpty \/ FinishSubmit \/ FinishSubmitFails
  <2>1. pc' = "idle"
    BY <1>7 DEF FinishEmpty, FinishSubmit, FinishSubmitFails
  <2>2. failures' = 0 => ~dropped'
    BY <1>7 DEF FinishEmpty, FinishSubmit, FinishSubmitFails, faultVars, TaskTypes
  <2>3. QED
    BY <1>6, <2>1, <2>2
<1>8. ASSUME NEW k \in Kinds, TransferNothing(k) PROVE KindsInTurn'
  <2>1. pc = k /\ pc' = After(k)
        /\ UNCHANGED <<dataTransferred, consumer, failures, dropped>>
    BY <1>8 DEF TransferNothing, copyVars, faultVars
  <2>2. pc # "idle" /\ pc' # "idle" /\ pc' # "early" /\ (pc' = "late" => pc = "early")
    BY <1>1, <2>1 DEF After
  <2>3. QED
    BY <2>1, <2>2 DEF Carried
<1>9. ASSUME NEW k \in Kinds, TransferData(k) PROVE KindsInTurn'
  <2>1. PrepareCopy(k) /\ pc' = After(k) /\ UNCHANGED <<failures, dropped>>
        /\ dataTransferred' = [dataTransferred EXCEPT ![k] = Copy(k).data]
    BY <1>9 DEF TransferData, faultVars
  <2>2. pc = k /\ consumer' = [consumer EXCEPT ![k] = {}]
    BY <2>1, PreparedCopy
  <2>3. pc # "idle" /\ pc' # "idle" /\ pc' # "early" /\ (pc' = "late" => k = "early")
    BY <1>1, <2>1, <2>2 DEF After
  <2>4. pc' = "late" => dataTransferred'["late"] = Nothing
    BY <1>1, <2>1, <2>2, <2>3
  <2>5. ASSUME NEW l \in Kinds, Carried(l)' PROVE consumer'[l] = {}
    <3>1. CASE l = k
      BY <2>2, <3>1 DEF TaskTypes
    <3>2. CASE l # k
      BY <2>1, <2>2, <2>3, <2>5, <3>2 DEF Carried
    <3>3. QED
      BY <3>1, <3>2
  <2>6. QED
    BY <2>1, <2>3, <2>4, <2>5
<1>10. ASSUME NEW k \in Kinds, TransferFails(k) PROVE KindsInTurn'
  <2>1. pc = k /\ Fail(k) /\ (consumer' = consumer \/ consumer' = [consumer EXCEPT ![k] = {}])
    BY <1>10, PreparedCopy DEF TransferFails, WaitFails, SubmitCopyFails, copyVars
  <2>2. /\ failures' = failures + 1 /\ failures' # 0 /\ UNCHANGED dataTransferred
        /\ pc' = "idle" \/ (k = "early" /\ pc' = "late")
    BY <2>1 DEF Fail, TaskTypes
  <2>3. \A l \in Kinds : consumer[l] = {} => consumer'[l] = {}
    BY <2>1 DEF TaskTypes
  <2>4. QED
    BY <2>1, <2>2, <2>3 DEF Carried
<1>11. QED
  BY <1>3, <1>4, <1>5, <1>7, <1>8, <1>9, <1>10
     DEF Next, TaskStep, TransferStep, ApplicationStep

--------------------------------------------------------------------------------
(* The ring of blocks.                                                     *)

\* A copy that has not been completed keeps its block when another is filled.
LEMMA FreeBlock ==
  ASSUME TaskTypes, BlocksAreTaken, NEW k \in Kinds, PrepareCopy(k)
  PROVE  \A n \in DOMAIN submitted :
            IsCopy(submitted[n]) =>
                /\ submitted[n].fence # Block(k)
                /\ submitted[n].fence \in waitOnFence' \ signaled'
                /\ staging'[submitted[n].fence] = staging[submitted[n].fence]
<1>1. /\ BlockIsFree(k) /\ waitOnFence' = waitOnFence \cup {Block(k)}
      /\ signaled' = signaled \ {Block(k)}
      /\ \A b \in Blocks \ {Block(k)} : staging'[b] = staging[b]
  BY PreparedCopy
<1>2. ASSUME NEW n \in DOMAIN submitted, IsCopy(submitted[n])
      PROVE  submitted[n].fence # Block(k) /\ submitted[n].fence \in waitOnFence \ signaled
  BY <1>1, <1>2 DEF BlocksAreTaken, BlockIsFree
<1>3. QED
  BY <1>1, <1>2 DEF IsCopy

\* One more submission, whose block, if it is a copy, has just been filled.
LEMMA AppendedBlock ==
  ASSUME SubmissionTypes, BlocksAreTaken, NEW sub \in Submissions,
         submitted' = Append(submitted, sub),
         \A n \in DOMAIN submitted :
            IsCopy(submitted[n]) =>
                /\ submitted[n].fence # sub.fence
                /\ submitted[n].fence \in waitOnFence' \ signaled'
                /\ staging'[submitted[n].fence] = staging[submitted[n].fence],
         IsCopy(sub) => /\ sub.fence \in waitOnFence' \ signaled'
                        /\ \A i \in DOMAIN sub.data : staging'[sub.fence][i] = sub.data[i]
  PROVE  BlocksAreTaken'
<1> DEFINE L == Len(submitted)
<1>1. /\ L \in Nat /\ DOMAIN submitted = 1 .. L /\ DOMAIN submitted' = 1 .. L + 1
      /\ \A j \in 1 .. L : submitted'[j] = submitted[j]
      /\ submitted'[L + 1] = sub
  BY AppendedSubmission
<1> HIDE DEF L
<1>2. ASSUME NEW n \in DOMAIN submitted', IsCopy(submitted'[n])
      PROVE  /\ submitted'[n].fence \in waitOnFence' \ signaled'
             /\ \A i \in DOMAIN submitted'[n].data :
                   staging'[submitted'[n].fence][i] = submitted'[n].data[i]
  <2>1. CASE n = L + 1
    BY <1>1, <1>2, <2>1
  <2>2. CASE n \in 1 .. L
    BY <1>1, <1>2, <2>2 DEF BlocksAreTaken, StagingIsStable
  <2>3. QED
    BY <1>1, <2>1, <2>2
<1>3. ASSUME NEW m \in DOMAIN submitted', NEW n \in DOMAIN submitted',
             IsCopy(submitted'[m]), submitted'[m].fence = submitted'[n].fence
      PROVE  m = n
  <2>1. CASE m \in 1 .. L /\ n \in 1 .. L
    BY <1>1, <1>3, <2>1 DEF BlocksAreTaken
  <2>2. IsCopy(submitted'[n])
    BY <1>3 DEF IsCopy
  <2>3. CASE m = L + 1 /\ n \in 1 .. L
    BY <1>1, <1>3, <2>2, <2>3
  <2>4. CASE m \in 1 .. L /\ n = L + 1
    BY <1>1, <1>3, <2>4
  <2>5. CASE m = L + 1 /\ n = L + 1
    BY <2>5
  <2>6. QED
    BY <1>1, <2>1, <2>3, <2>4, <2>5
<1>4. QED
  BY <1>2, <1>3 DEF BlocksAreTaken, StagingIsStable, IsCopy

\* The GPU only takes semaphores from what is signaled, and adds the fence of what it
\* completes.
LEMMA GpuBlocks ==
  ASSUME SubmissionTypes, BlocksAreTaken, GpuStep
  PROVE  BlocksAreTaken'
<1>0. UNCHANGED <<staging, waitOnFence>>
  BY DEF GpuStep, GpuRunsAhead, GpuBegins, GpuCompletes, copyVars
<1>1. ASSUME NEW n \in DOMAIN submitted, GpuBegins(n) PROVE BlocksAreTaken'
  <2>1. submitted' = [submitted EXCEPT ![n].begun = TRUE] /\ signaled' \subseteq signaled
    BY <1>1 DEF GpuBegins
  <2>2. /\ DOMAIN submitted' = DOMAIN submitted
        /\ \A j \in DOMAIN submitted : submitted'[j].fence = submitted[j].fence
                                       /\ submitted'[j].data = submitted[j].data
    BY <2>1, BegunSubmission
  <2>3. QED
    BY <1>0, <2>1, <2>2 DEF BlocksAreTaken, StagingIsStable, IsCopy
<1>2. ASSUME NEW n \in DOMAIN submitted, GpuCompletes(n) PROVE BlocksAreTaken'
  <2>1. /\ submitted' = RemoveAt(submitted, n)
        /\ signaled' = signaled \cup submitted[n].signals \cup ({submitted[n].fence} \cap Blocks)
    BY <1>2 DEF GpuCompletes
  <2>2. /\ Len(submitted) \in Nat /\ DOMAIN submitted = 1 .. Len(submitted)
        /\ n \in 1 .. Len(submitted) /\ DOMAIN submitted' = 1 .. Len(submitted) - 1
        /\ \A j \in 1 .. Len(submitted) - 1 :
              /\ From(n, j) \in DOMAIN submitted /\ From(n, j) # n
              /\ submitted'[j] = submitted[From(n, j)]
    BY <2>1, CompletedSubmission
  <2>3. submitted[n].signals \cap Blocks = {}
    <3>1. submitted[n] \in Submissions
      BY DEF SubmissionTypes
    <3>2. submitted[n].signals \subseteq SemaphoresOf
      BY <3>1 DEF Submissions
    <3>3. QED
      BY <3>2, SemaphoresDiffer
  <2>4. ASSUME NEW m \in DOMAIN submitted \ {n}, IsCopy(submitted[m])
        PROVE  submitted[m].fence \in waitOnFence \ signaled'
    <3>1. submitted[m].fence \in waitOnFence \ signaled /\ submitted[m].fence # submitted[n].fence
          /\ submitted[m].fence \in Blocks
      BY <2>4 DEF BlocksAreTaken, IsCopy
    <3>2. QED
      BY <2>1, <2>3, <3>1
  <2>5. ASSUME NEW j \in DOMAIN submitted', IsCopy(submitted'[j])
        PROVE  /\ submitted'[j].fence \in waitOnFence' \ signaled'
               /\ \A i \in DOMAIN submitted'[j].data :
                     staging'[submitted'[j].fence][i] = submitted'[j].data[i]
    <3>1. From(n, j) \in DOMAIN submitted \ {n} /\ submitted'[j] = submitted[From(n, j)]
      BY <2>2
    <3>2. QED
      BY <1>0, <2>4, <2>5, <3>1 DEF BlocksAreTaken, StagingIsStable
  <2>6. ASSUME NEW i \in DOMAIN submitted', NEW j \in DOMAIN submitted',
               IsCopy(submitted'[i]), submitted'[i].fence = submitted'[j].fence
        PROVE  i = j
    <3>1. From(n, i) = From(n, j)
      BY <2>2, <2>6 DEF BlocksAreTaken
    <3>2. QED
      BY <2>2, <3>1, FromIsOrdered
  <2>7. QED
    BY <2>5, <2>6 DEF BlocksAreTaken, StagingIsStable, IsCopy
<1>3. ASSUME NEW n \in DOMAIN submitted, GpuRunsAhead(n) PROVE BlocksAreTaken'
  <2>1. UNCHANGED <<submitted, signaled>>
    BY <1>3 DEF GpuRunsAhead
  <2>2. QED
    BY <1>0, <2>1 DEF BlocksAreTaken, StagingIsStable, IsCopy
<1>4. QED
  BY <1>1, <1>2, <1>3 DEF GpuStep

\* The ring of blocks, action by action.
LEMMA BlocksStep ==
  ASSUME TaskTypes, SubmissionTypes, BlocksAreTaken, Next
  PROVE  BlocksAreTaken'
<1>1. ASSUME UNCHANGED <<submitted, staging, waitOnFence, signaled>> PROVE BlocksAreTaken'
  BY <1>1 DEF BlocksAreTaken, StagingIsStable, IsCopy
<1>2. CASE ApplicationStep
  BY <1>1, <1>2, ApplicationChanges DEF copyVars, gpuVars
<1>3. CASE Start \/ FinishEmpty \/ FinishSubmitFails
  BY <1>1, <1>3 DEF Start, FinishEmpty, FinishSubmitFails, copyVars, gpuVars
<1>4. ASSUME NEW k \in Kinds, TransferNothing(k) \/ WaitFails(k) PROVE BlocksAreTaken'
  BY <1>1, <1>4 DEF TransferNothing, WaitFails, copyVars, gpuVars
<1>5. ASSUME NEW k \in Kinds, SubmitCopyFails(k) PROVE BlocksAreTaken'
  <2>1. PrepareCopy(k) /\ UNCHANGED submitted
    BY <1>5 DEF SubmitCopyFails
  <2>2. \A n \in DOMAIN submitted :
            IsCopy(submitted[n]) =>
                /\ submitted[n].fence \in waitOnFence' \ signaled'
                /\ staging'[submitted[n].fence] = staging[submitted[n].fence]
    BY <2>1, FreeBlock
  <2>3. QED
    BY <2>1, <2>2 DEF BlocksAreTaken, StagingIsStable, IsCopy
<1>6. ASSUME NEW k \in Kinds, TransferData(k) PROVE BlocksAreTaken'
  <2>1. PrepareCopy(k) /\ submitted' = Append(submitted, Copy(k))
    BY <1>6 DEF TransferData
  <2>2. Copy(k) \in Submissions /\ Copy(k).fence = Block(k)
        /\ Copy(k).data = [i \in Modified(k) |-> modifiedCount[i]]
    BY CopyIsSubmission, CopiedData
  <2>3. /\ Block(k) \in waitOnFence' \ signaled'
        /\ \A i \in Modified(k) : staging'[Block(k)][i] = modifiedCount[i]
    BY <2>1, PreparedCopy
  <2>4. \A i \in DOMAIN Copy(k).data : staging'[Copy(k).fence][i] = Copy(k).data[i]
    BY <2>2, <2>3
  <2>5. QED
    BY <2>1, <2>2, <2>3, <2>4, FreeBlock, AppendedBlock
<1>7. CASE FinishSubmit
  <2>1. submitted' = Append(submitted, Frame) /\ UNCHANGED <<staging, waitOnFence, signaled>>
    BY <1>7 DEF FinishSubmit
  <2>2. Frame \in Submissions /\ Frame.fence \notin Blocks /\ ~IsCopy(Frame)
    BY FrameIsSubmission DEF IsCopy
  <2>3. \A n \in DOMAIN submitted :
            IsCopy(submitted[n]) =>
                /\ submitted[n].fence # Frame.fence
                /\ submitted[n].fence \in waitOnFence' \ signaled'
                /\ staging'[submitted[n].fence] = staging[submitted[n].fence]
    BY <2>1, <2>2 DEF BlocksAreTaken, IsCopy
  <2>4. QED
    BY <2>1, <2>2, <2>3, AppendedBlock
<1>8. CASE GpuStep
  BY <1>8, GpuBlocks
<1>9. QED
  BY <1>2, <1>3, <1>4, <1>5, <1>6, <1>7, <1>8
     DEF Next, TaskStep, TransferStep, TransferFails, ApplicationStep

--------------------------------------------------------------------------------
(* While no call fails.                                                    *)

\* Only steps in which no call fails leave the number of failures at zero.
LEMMA StepsWithoutFailure ==
  ASSUME TaskTypes, Next, failures' = 0
  PROVE  /\ failures = 0
         /\ \/ UNCHANGED <<submitted, raced, device, copiedCount, waitOnFence, signaled>>
            \/ \E k \in Kinds : TransferData(k)
            \/ FinishSubmit
            \/ GpuStep
<1>1. failures \in Nat /\ failures + 1 # 0
  BY DEF TaskTypes
<1>2. CASE ApplicationStep
  BY <1>2, ApplicationChanges DEF faultVars, gpuVars, copyVars
<1>3. CASE Start \/ FinishEmpty
  BY <1>3 DEF Start, FinishEmpty, faultVars, gpuVars, copyVars, dataVars
<1>4. CASE FinishSubmit \/ GpuStep
  BY <1>4 DEF FinishSubmit, GpuStep, GpuRunsAhead, GpuBegins, GpuCompletes, faultVars
<1>5. ASSUME NEW k \in Kinds, TransferStep(k)
      PROVE  /\ failures = 0
             /\ \/ TransferData(k)
                \/ UNCHANGED <<submitted, raced, device, copiedCount, waitOnFence, signaled>>
  BY <1>5 DEF TransferStep, TransferNothing, TransferData, faultVars, gpuVars, copyVars, dataVars
<1>6. ~ FinishSubmitFails /\ \A k \in Kinds : ~ TransferFails(k)
  BY <1>1 DEF FinishSubmitFails, TransferFails, WaitFails, SubmitCopyFails, Fail
<1>7. QED
  BY <1>2, <1>3, <1>4, <1>5, <1>6 DEF Next, TaskStep, ApplicationStep

\* A block to wait for has a copy whose completion signals its fence.
LEMMA TakenBlocksStep ==
  ASSUME TaskTypes, SubmissionTypes, TakenBlocksHaveCopies, Next
  PROVE  TakenBlocksHaveCopies'
<1> SUFFICES ASSUME failures' = 0, NEW b \in waitOnFence' \ signaled'
             PROVE  \E n \in DOMAIN submitted' : submitted'[n].fence = b
  BY DEF TakenBlocksHaveCopies
<1>1. failures = 0
  BY StepsWithoutFailure
<1>2. ASSUME b \in waitOnFence \ signaled
      PROVE  \E n \in DOMAIN submitted : submitted[n].fence = b
  BY <1>1, <1>2 DEF TakenBlocksHaveCopies
<1>3. ASSUME NEW sub \in Submissions, submitted' = Append(submitted, sub),
             b \in waitOnFence \ signaled \/ sub.fence = b
      PROVE  \E n \in DOMAIN submitted' : submitted'[n].fence = b
  <2> DEFINE L == Len(submitted)
  <2>1. /\ L \in Nat /\ DOMAIN submitted = 1 .. L /\ DOMAIN submitted' = 1 .. L + 1
        /\ \A j \in 1 .. L : submitted'[j] = submitted[j]
        /\ submitted'[L + 1] = sub
    BY <1>3, AppendedSubmission
  <2> HIDE DEF L
  <2>2. CASE sub.fence = b
    <3>1. L + 1 \in DOMAIN submitted' /\ submitted'[L + 1].fence = b
      BY <2>1, <2>2
    <3>2. QED
      BY <3>1
  <2>3. CASE b \in waitOnFence \ signaled
    <3>1. PICK n \in 1 .. L : submitted[n].fence = b
      BY <1>2, <2>1, <2>3
    <3>2. n \in DOMAIN submitted' /\ submitted'[n].fence = b
      BY <2>1, <3>1
    <3>3. QED
      BY <3>2
  <2>4. QED
    BY <1>3, <2>2, <2>3
<1>4. CASE UNCHANGED <<submitted, raced, device, copiedCount, waitOnFence, signaled>>
  BY <1>2, <1>4
<1>5. ASSUME NEW k \in Kinds, TransferData(k)
      PROVE  \E n \in DOMAIN submitted' : submitted'[n].fence = b
  <2>1. PrepareCopy(k) /\ submitted' = Append(submitted, Copy(k))
    BY <1>5 DEF TransferData
  <2>2. waitOnFence' = waitOnFence \cup {Block(k)} /\ signaled' = signaled \ {Block(k)}
    BY <2>1, PreparedCopy
  <2>3. QED
    BY <1>3, <2>1, <2>2, CopyIsSubmission
<1>6. CASE FinishSubmit
  <2>1. submitted' = Append(submitted, Frame) /\ UNCHANGED <<waitOnFence, signaled>>
    BY <1>6 DEF FinishSubmit
  <2>2. QED
    BY <1>3, <2>1, FrameIsSubmission
<1>7. ASSUME NEW n \in DOMAIN submitted, GpuBegins(n)
      PROVE  \E m \in DOMAIN submitted' : submitted'[m].fence = b
  <2>1. /\ submitted' = [submitted EXCEPT ![n].begun = TRUE]
        /\ signaled' = signaled \ submitted[n].waits /\ waitOnFence' = waitOnFence
    BY <1>7 DEF GpuBegins, copyVars
  <2>2. b \in Blocks /\ submitted[n] \in Submissions
    BY <2>1 DEF TaskTypes, SubmissionTypes
  <2>3. b \notin submitted[n].waits
    BY <2>2, SemaphoresDiffer DEF Submissions
  <2>4. PICK m \in DOMAIN submitted : submitted[m].fence = b
    BY <1>2, <2>1, <2>3
  <2>5. QED
    BY <2>1, <2>4, BegunSubmission
<1>8. ASSUME NEW n \in DOMAIN submitted, GpuCompletes(n)
      PROVE  \E m \in DOMAIN submitted' : submitted'[m].fence = b
  <2>1. /\ submitted' = RemoveAt(submitted, n) /\ waitOnFence' = waitOnFence
        /\ signaled' = signaled \cup submitted[n].signals \cup ({submitted[n].fence} \cap Blocks)
    BY <1>8 DEF GpuCompletes, copyVars
  <2>2. b \in waitOnFence \ signaled /\ b \in Blocks /\ b # submitted[n].fence
    BY <2>1 DEF TaskTypes
  <2>3. PICK m \in DOMAIN submitted \ {n} : submitted[m].fence = b
    BY <1>2, <2>2
  <2>4. PICK j \in DOMAIN submitted' : From(n, j) = m
    BY <2>1, CompletedSubmission
  <2>5. submitted'[j] = submitted[m]
    BY <2>1, <2>4, CompletedSubmission
  <2>6. QED
    BY <2>3, <2>5
<1>9. ASSUME NEW n \in DOMAIN submitted, GpuRunsAhead(n)
      PROVE  \E m \in DOMAIN submitted' : submitted'[m].fence = b
  <2>1. UNCHANGED <<submitted, signaled, waitOnFence>>
    BY <1>9 DEF GpuRunsAhead, copyVars
  <2>2. QED
    BY <1>2, <2>1
<1>10. QED
  BY <1>4, <1>5, <1>6, <1>7, <1>8, <1>9, StepsWithoutFailure DEF GpuStep

\* What a copy does not write is as before, on the device and in the history.
LEMMA Unwritten ==
  ASSUME TaskTypes, NEW n \in DOMAIN submitted, GpuRunsAhead(n) \/ GpuBegins(n)
  PROVE  \A i \in Items \ ItemsOf(n) : device'[i] = device[i] /\ (i \in raced' <=> i \in raced)
<1>1. Writes(n) \/ UNCHANGED <<raced, device>>
  BY DEF GpuRunsAhead, GpuBegins
<1>2. CASE Writes(n)
  BY <1>2 DEF Writes
<1>3. CASE UNCHANGED <<raced, device>>
  BY <1>3
<1>4. QED
  BY <1>1, <1>2, <1>3

\* The copies are completed in their order.
LEMMA CopiesInOrder ==
  ASSUME SubmissionTypes, NEW n \in DOMAIN submitted, IsCopy(submitted[n]), GpuCompletes(n),
         NEW m \in DOMAIN submitted, IsCopy(submitted[m])
  PROVE  n <= m
<1>1. DOMAIN submitted = 1 .. Len(submitted) /\ Len(submitted) \in Nat
  BY LenProperties DEF SubmissionTypes
<1>2. submitted[m].queue = submitted[n].queue
  BY DEF SubmissionTypes
<1>3. m \notin 1 .. n - 1
  BY <1>1, <1>2 DEF GpuCompletes, SameQueueBefore
<1>4. QED
  BY <1>1, <1>3

\* What the last copy of an item carries, action by action.
LEMMA LastCopyStep ==
  ASSUME TaskTypes, SubmissionTypes, BlocksAreTaken, LastCopyIsCurrent, Next
  PROVE  LastCopyIsCurrent'
<1> DEFINE Current(i) ==
              \/ Carriers(i) = {} /\ (device[i] = copiedCount[i] \/ i \in raced)
              \/ \E n \in Carriers(i) : /\ submitted[n].data[i] = copiedCount[i]
                                        /\ \A m \in Carriers(i) : m <= n
<1> SUFFICES ASSUME failures' = 0, NEW i \in Items PROVE Current(i)'
  BY DEF LastCopyIsCurrent, Carriers, IsCopy
<1>1. Current(i)
  <2>1. failures = 0
    BY StepsWithoutFailure
  <2>2. QED
    BY <2>1 DEF LastCopyIsCurrent
<1>2. CASE UNCHANGED <<submitted, raced, device, copiedCount, waitOnFence, signaled>>
  BY <1>1, <1>2 DEF Carriers, IsCopy
<1>3. ASSUME NEW sub \in Submissions, submitted' = Append(submitted, sub),
             ~ (IsCopy(sub) /\ i \in DOMAIN sub.data),
             UNCHANGED <<raced, device>>, copiedCount'[i] = copiedCount[i]
      PROVE  Current(i)'
  <2> DEFINE L == Len(submitted)
  <2>1. /\ L \in Nat /\ DOMAIN submitted = 1 .. L /\ DOMAIN submitted' = 1 .. L + 1
        /\ \A j \in 1 .. L : submitted'[j] = submitted[j]
        /\ submitted'[L + 1] = sub
    BY <1>3, AppendedSubmission
  <2> HIDE DEF L
  <2>2. Carriers(i)' = Carriers(i) /\ Carriers(i) \subseteq 1 .. L
    BY <1>3, <2>1 DEF Carriers, IsCopy
  <2>3. QED
    BY <1>1, <1>3, <2>1, <2>2
<1>4. ASSUME NEW k \in Kinds, TransferData(k) PROVE Current(i)'
  <2>1. PrepareCopy(k) /\ submitted' = Append(submitted, Copy(k))
    BY <1>4 DEF TransferData
  <2>2. /\ copiedCount' = [j \in Items |-> IF j \in Modified(k) THEN modifiedCount[j]
                                           ELSE copiedCount[j]]
        /\ UNCHANGED <<raced, device>>
    BY <2>1, PreparedCopy
  <2>3. /\ Copy(k) \in Submissions /\ IsCopy(Copy(k)) /\ DOMAIN Copy(k).data = Modified(k)
        /\ Copy(k).data = [j \in Modified(k) |-> modifiedCount[j]]
    BY CopyIsSubmission, CopiedData
  <2>4. CASE i \notin Modified(k)
    BY <1>3, <2>1, <2>2, <2>3, <2>4
  <2>5. CASE i \in Modified(k)
    <3> DEFINE L == Len(submitted)
    <3>1. /\ L \in Nat /\ DOMAIN submitted' = 1 .. L + 1 /\ submitted'[L + 1] = Copy(k)
      BY <2>1, <2>3, AppendedSubmission
    <3> HIDE DEF L
    <3>2. L + 1 \in Carriers(i)' /\ \A m \in Carriers(i)' : m <= L + 1
      BY <2>3, <2>5, <3>1 DEF Carriers, IsCopy
    <3>3. submitted'[L + 1].data[i] = copiedCount'[i]
      BY <2>2, <2>3, <2>5, <3>1
    <3>4. QED
      BY <3>2, <3>3
  <2>6. QED
    BY <2>4, <2>5
<1>5. CASE FinishSubmit
  <2>1. submitted' = Append(submitted, Frame) /\ UNCHANGED <<raced, device, copiedCount>>
    BY <1>5 DEF FinishSubmit, dataVars
  <2>2. QED
    BY <1>3, <2>1, FrameIsSubmission
<1>6. ASSUME NEW n \in DOMAIN submitted, GpuRunsAhead(n) \/ GpuBegins(n) PROVE Current(i)'
  <2>1. copiedCount' = copiedCount
    BY <1>6 DEF GpuRunsAhead, GpuBegins, dataVars
  <2>2. /\ DOMAIN submitted' = DOMAIN submitted
        /\ \A j \in DOMAIN submitted : submitted'[j].fence = submitted[j].fence
                                       /\ submitted'[j].data = submitted[j].data
    <3>1. CASE GpuRunsAhead(n)
      BY <3>1 DEF GpuRunsAhead
    <3>2. CASE GpuBegins(n)
      <4>1. submitted' = [submitted EXCEPT ![n].begun = TRUE]
        BY <3>2 DEF GpuBegins
      <4>2. QED
        BY <4>1, BegunSubmission
    <3>3. QED
      BY <1>6, <3>1, <3>2
  <2>3. Carriers(i)' = Carriers(i)
    BY <2>2 DEF Carriers, IsCopy
  <2>4. Carriers(i) = {} => device'[i] = device[i] /\ (i \in raced' <=> i \in raced)
    <3>1. Carriers(i) = {} => i \notin ItemsOf(n)
      BY DEF Carriers, ItemsOf
    <3>2. QED
      BY <1>6, <3>1, Unwritten
  <2>5. \A j \in Carriers(i) : submitted'[j].data[i] = submitted[j].data[i]
    BY <2>2 DEF Carriers
  <2>6. QED
    BY <1>1, <2>1, <2>3, <2>4, <2>5
<1>7. ASSUME NEW n \in DOMAIN submitted, GpuCompletes(n) PROVE Current(i)'
  <2>1. /\ submitted' = RemoveAt(submitted, n) /\ copiedCount' = copiedCount /\ raced' = raced
        /\ device' = [j \in Items |-> IF j \in ItemsOf(n) \ raced
                                      THEN staging[submitted[n].fence][j] ELSE device[j]]
    BY <1>7 DEF GpuCompletes, dataVars
  <2>2. /\ Len(submitted) \in Nat /\ DOMAIN submitted = 1 .. Len(submitted)
        /\ n \in 1 .. Len(submitted) /\ DOMAIN submitted' = 1 .. Len(submitted) - 1
        /\ \A j \in 1 .. Len(submitted) - 1 :
              /\ From(n, j) \in DOMAIN submitted /\ From(n, j) # n
              /\ submitted'[j] = submitted[From(n, j)]
        /\ \A m \in DOMAIN submitted \ {n} : \E j \in DOMAIN submitted' : From(n, j) = m
    BY <2>1, CompletedSubmission
  <2>3. /\ \A j \in DOMAIN submitted' : j \in Carriers(i)' <=> From(n, j) \in Carriers(i)
        /\ Carriers(i)' \subseteq DOMAIN submitted'
    BY <2>2 DEF Carriers, IsCopy
  <2>4. ASSUME NEW w \in Carriers(i), w # n, submitted[w].data[i] = copiedCount[i],
               \A m \in Carriers(i) : m <= w
        PROVE  Current(i)'
    <3>1. w \in DOMAIN submitted \ {n}
      BY <2>4 DEF Carriers
    <3>2. PICK j \in DOMAIN submitted' : From(n, j) = w
      BY <2>2, <3>1
    <3>3. j \in Carriers(i)' /\ submitted'[j] = submitted[w]
      BY <2>2, <2>3, <3>2
    <3>4. \A m \in Carriers(i)' : From(n, m) <= From(n, j)
      BY <2>3, <2>4, <3>2
    <3>5. \A m \in Carriers(i)' : m <= j
      BY <2>2, <2>3, <3>2, <3>4, FromIsOrdered
    <3>6. QED
      BY <2>1, <2>4, <3>3, <3>5
  <2>5. CASE n \in Carriers(i) /\ submitted[n].data[i] = copiedCount[i]
             /\ \A m \in Carriers(i) : m <= n
    <3>1. IsCopy(submitted[n]) /\ i \in DOMAIN submitted[n].data
      BY <2>5 DEF Carriers
    <3>2. \A m \in Carriers(i) : n <= m /\ m \in Nat /\ n \in Nat
      BY <1>7, <2>2, <3>1, CopiesInOrder DEF Carriers
    <3>3. \A m \in Carriers(i) : m = n
      BY <2>5, <3>2
    <3>4. Carriers(i)' = {}
      BY <2>2, <2>3, <3>3
    <3>5. device'[i] = copiedCount'[i] \/ i \in raced'
      BY <2>1, <2>5, <3>1 DEF BlocksAreTaken, StagingIsStable, ItemsOf
    <3>6. QED
      BY <3>4, <3>5
  <2>6. CASE Carriers(i) = {} /\ (device[i] = copiedCount[i] \/ i \in raced)
    <3>1. Carriers(i)' = {}
      BY <2>3, <2>6
    <3>2. device'[i] = device[i]
      BY <2>1, <2>6 DEF Carriers, ItemsOf
    <3>3. QED
      BY <2>1, <2>6, <3>1, <3>2
  <2>7. QED
    BY <1>1, <2>4, <2>5, <2>6
<1>8. QED
  BY <1>2, <1>4, <1>5, <1>6, <1>7, StepsWithoutFailure DEF GpuStep

--------------------------------------------------------------------------------
(* Two queues.                                                             *)

\* While no semaphore was handed to a copy in the other queue, no copy waits for one.
LEMMA QueuesStep ==
  ASSUME TaskTypes, SubmissionTypes, QueuesAreKept, Next
  PROVE  QueuesAreKept'
<1> SUFFICES ASSUME ~handedOver', transferQueue' # "main", NEW k \in Kinds
             PROVE  /\ consumer'[k] # {Complete(k)}
                    /\ \A n \in DOMAIN submitted' :
                          IsCopy(submitted'[n]) => Awaits(k, submitted'[n]) # {Complete(k)}
  BY DEF QueuesAreKept, IsCopy, Awaits
<1>1. transferQueue # "main"
  BY QueueIsFixed
<1>2. {} # {Complete(k)} /\ {ConsumerCompleted(k)} # {Complete(k)}
  BY SemaphoresDiffer
<1>3. ASSUME ~handedOver
      PROVE  /\ consumer[k] # {Complete(k)}
             /\ \A n \in DOMAIN submitted :
                   IsCopy(submitted[n]) => Awaits(k, submitted[n]) # {Complete(k)}
  BY <1>1, <1>3 DEF QueuesAreKept
<1>4. CASE UNCHANGED <<submitted, consumer, handedOver>>
  BY <1>3, <1>4
<1>5. CASE ApplicationStep
  BY <1>4, <1>5, ApplicationChanges DEF gpuVars, copyVars, faultVars
<1>6. CASE Start
  BY <1>4, <1>6 DEF Start, gpuVars, copyVars, faultVars
<1>7. ASSUME NEW l \in Kinds, TransferNothing(l) \/ WaitFails(l)
      PROVE  UNCHANGED <<submitted, consumer, handedOver>>
  BY <1>7 DEF TransferNothing, WaitFails, Fail, gpuVars, copyVars, faultVars
<1>8. CASE FinishEmpty
  <2>1. /\ handedOver' = (handedOver \/ (transferQueue # "main" /\ Transferred # {}))
        /\ consumer' = Assigned([l \in Kinds |-> Complete(l)]) /\ UNCHANGED submitted
    BY <1>8 DEF FinishEmpty, gpuVars
  <2>2. ~handedOver /\ Transferred = {}
    BY <1>1, <2>1
  <2>3. consumer'[k] = consumer[k]
    BY <2>1, <2>2 DEF Assigned
  <2>4. QED
    BY <1>3, <2>1, <2>2, <2>3
<1>9. CASE FinishSubmit \/ FinishSubmitFails
  <2>1. handedOver' = handedOver /\ consumer' = Assigned([l \in Kinds |-> ConsumerCompleted(l)])
    BY <1>9 DEF FinishSubmit, FinishSubmitFails, faultVars
  <2>2. consumer'[k] = consumer[k] \/ consumer'[k] = {ConsumerCompleted(k)}
    BY <2>1 DEF Assigned
  <2>3. consumer'[k] # {Complete(k)}
    BY <1>2, <1>3, <2>1, <2>2
  <2>4. CASE FinishSubmitFails
    BY <1>3, <2>1, <2>3, <2>4 DEF FinishSubmitFails, gpuVars
  <2>5. CASE FinishSubmit
    <3>1. submitted' = Append(submitted, Frame) /\ Frame \in Submissions /\ ~IsCopy(Frame)
      BY <2>5, FrameIsSubmission DEF FinishSubmit
    <3>2. \A n \in DOMAIN submitted' : \/ n \in DOMAIN submitted /\ submitted'[n] = submitted[n]
                                       \/ submitted'[n] = Frame
      <4>1. \A n \in DOMAIN submitted' : n \in 1 .. Len(submitted) \/ n = Len(submitted) + 1
        BY <3>1, AppendedSubmission
      <4>2. QED
        BY <3>1, <4>1, AppendedSubmission
    <3>3. QED
      BY <1>3, <2>1, <2>3, <3>1, <3>2
  <2>6. QED
    BY <1>9, <2>4, <2>5
<1>10. ASSUME NEW l \in Kinds, PrepareCopy(l) PROVE consumer'[k] = {} \/ consumer'[k] = consumer[k]
  <2>1. consumer' = [consumer EXCEPT ![l] = {}] /\ consumer \in [Kinds -> SUBSET SemaphoresOf]
    BY <1>10, PreparedCopy DEF TaskTypes
  <2>2. QED
    BY <2>1
<1>11. ASSUME NEW l \in Kinds, SubmitCopyFails(l)
       PROVE  /\ consumer'[k] # {Complete(k)}
              /\ \A n \in DOMAIN submitted' :
                    IsCopy(submitted'[n]) => Awaits(k, submitted'[n]) # {Complete(k)}
  <2>1. PrepareCopy(l) /\ UNCHANGED <<submitted, handedOver>>
    BY <1>11 DEF SubmitCopyFails, Fail
  <2>2. QED
    BY <1>2, <1>3, <1>10, <2>1
<1>12. ASSUME NEW l \in Kinds, TransferData(l)
       PROVE  /\ consumer'[k] # {Complete(k)}
              /\ \A n \in DOMAIN submitted' :
                    IsCopy(submitted'[n]) => Awaits(k, submitted'[n]) # {Complete(k)}
  <2>1. PrepareCopy(l) /\ submitted' = Append(submitted, Copy(l)) /\ handedOver' = handedOver
    BY <1>12 DEF TransferData, faultVars
  <2>2. Copy(l) \in Submissions /\ Awaits(l, Copy(l)) = consumer[l] /\ CopyShape(l, Copy(l))
    BY CopyIsSubmission
  <2>3. Awaits(k, Copy(l)) # {Complete(k)}
    <3>1. CASE k = l
      BY <1>3, <2>1, <2>2, <3>1
    <3>2. CASE k # l
      BY <2>2, <3>2 DEF CopyShape
    <3>3. QED
      BY <3>1, <3>2
  <2>4. \A n \in DOMAIN submitted' : \/ n \in DOMAIN submitted /\ submitted'[n] = submitted[n]
                                     \/ submitted'[n] = Copy(l)
    <3>1. \A n \in DOMAIN submitted' : n \in 1 .. Len(submitted) \/ n = Len(submitted) + 1
      BY <2>1, <2>2, AppendedSubmission
    <3>2. QED
      BY <2>1, <2>2, <3>1, AppendedSubmission
  <2>5. QED
    BY <1>2, <1>3, <1>10, <2>1, <2>3, <2>4
<1>13. ASSUME NEW n \in DOMAIN submitted, GpuRunsAhead(n) \/ GpuBegins(n) \/ GpuCompletes(n)
       PROVE  /\ UNCHANGED <<consumer, handedOver>>
              /\ \A j \in DOMAIN submitted' : \E m \in DOMAIN submitted :
                    /\ submitted'[j].fence = submitted[m].fence
                    /\ submitted'[j].waits = submitted[m].waits
  <2>1. UNCHANGED <<consumer, handedOver>>
    BY <1>13 DEF GpuRunsAhead, GpuBegins, GpuCompletes, copyVars, faultVars
  <2>2. CASE GpuBegins(n)
    <3>1. submitted' = [submitted EXCEPT ![n].begun = TRUE]
      BY <2>2 DEF GpuBegins
    <3>2. QED
      BY <2>1, <3>1, BegunSubmission
  <2>3. CASE GpuCompletes(n)
    <3>1. submitted' = RemoveAt(submitted, n)
      BY <2>3 DEF GpuCompletes
    <3>2. \A j \in DOMAIN submitted' :
              From(n, j) \in DOMAIN submitted /\ submitted'[j] = submitted[From(n, j)]
      BY <3>1, CompletedSubmission
    <3>3. QED
      BY <2>1, <3>2
  <2>4. CASE GpuRunsAhead(n)
    BY <2>1, <2>4 DEF GpuRunsAhead
  <2>5. QED
    BY <1>13, <2>2, <2>3, <2>4
<1>14. CASE GpuStep
  <2>1. /\ UNCHANGED <<consumer, handedOver>>
        /\ \A j \in DOMAIN submitted' : \E m \in DOMAIN submitted :
              /\ submitted'[j].fence = submitted[m].fence
              /\ submitted'[j].waits = submitted[m].waits
    BY <1>13, <1>14 DEF GpuStep
  <2>2. QED
    BY <1>3, <2>1 DEF IsCopy, Awaits
<1>15. QED
  BY <1>4, <1>5, <1>6, <1>7, <1>8, <1>9, <1>11, <1>12, <1>14
     DEF Next, TaskStep, TransferStep, TransferFails, ApplicationStep

--------------------------------------------------------------------------------
(* Chains of submissions.                                                  *)

\* The first, the last and the next of a chain are members of it.
LEMMA ChainMembers ==
  ASSUME NEW k \in Kinds
  PROVE  /\ Chain(k) \subseteq DOMAIN submitted
         /\ \A n : First(k, n) \/ Final(k, n) => n \in Chain(k)
         /\ \A m, n : Follows(k, m, n) => m \in Chain(k) /\ n \in Chain(k)
BY DEF Chain, First, Final, Follows

\* A step leaves what is written for an item as it is, or spoils it.
LeftAlone(i) == Spoilt(i)' \/ (~Spoilt(i) /\ device'[i] = device[i])

\* What is spoilt stays so while the submissions that are not completed stay.
LEMMA SpoiltStays ==
  ASSUME UNCHANGED <<ahead, raced>>,
         \A m \in DOMAIN submitted : /\ m \in DOMAIN submitted'
                                     /\ submitted'[m].fence = submitted[m].fence
                                     /\ submitted'[m].data = submitted[m].data
  PROVE  \A i : Spoilt(i) => Spoilt(i)'
<1>1. \A m \in DOMAIN submitted : ItemsOf(m)' = ItemsOf(m)
  BY DEF ItemsOf, IsCopy
<1>2. QED
  BY <1>1 DEF Spoilt

\* A chain none of whose submissions changes stays sound.
LEMMA SameChain ==
  ASSUME TaskTypes, NEW k \in Kinds, ChainIsSound(k),
         Chain(k)' = Chain(k), \A n \in Chain(k) : submitted'[n] = submitted[n],
         \A s \in Tokens(k) : Signaling(s)' = Signaling(s) /\ Waiting(s)' = Waiting(s),
         Available(k)' = Available(k), Expected(k)' = Expected(k),
         Carried(k)' => Carried(k) /\ dataTransferred'[k] = dataTransferred[k],
         \A i \in Of(k) : LeftAlone(i)
  PROVE  ChainIsSound(k)'
<1>1. /\ \A n : (First(k, n)' <=> First(k, n)) /\ (Final(k, n)' <=> Final(k, n))
      /\ \A m, n : Follows(k, m, n)' <=> Follows(k, m, n)
  BY DEF First, Final, Follows
<1>2. \A n \in Chain(k) : /\ Awaits(k, submitted'[n]) = Awaits(k, submitted[n])
                          /\ Gives(k, submitted'[n]) = Gives(k, submitted[n])
                          /\ IsCopy(submitted'[n]) <=> IsCopy(submitted[n])
  OBVIOUS
<1>3. Chain(k) \subseteq DOMAIN submitted /\ Chain(k) \subseteq DOMAIN submitted'
  BY DEF Chain
<1>4. OnlyFirstBegins(k)'
  BY <1>2 DEF ChainIsSound, OnlyFirstBegins, Awaits
<1>5. Linked(k)'
  <2>1. \A m, n \in DOMAIN submitted' :
            Follows(k, m, n)' => Awaits(k, submitted'[n]) = Gives(k, submitted'[m])
    BY <1>1, <1>2, <1>3, ChainMembers DEF ChainIsSound, Linked
  <2>2. \A n \in DOMAIN submitted' :
            First(k, n)' => Available(k)' = IF submitted'[n].begun THEN {}
                                            ELSE Awaits(k, submitted'[n])
    BY <1>1, <1>2, <1>3, ChainMembers DEF ChainIsSound, Linked
  <2>3. \A n \in DOMAIN submitted' : Final(k, n)' => Gives(k, submitted'[n]) = Expected(k)'
    BY <1>1, <1>2, <1>3, ChainMembers DEF ChainIsSound, Linked
  <2>4. Chain(k)' = {} => Available(k)' = Expected(k)'
    BY DEF ChainIsSound, Linked
  <2>5. QED
    BY <2>1, <2>2, <2>3, <2>4 DEF Linked, Awaits, Gives
<1>6. Balanced(k)'
  <2>1. \A s \in Tokens(k) : s \in signaled' <=> s \in signaled
    BY DEF Available
  <2>2. QED
    BY <2>1 DEF ChainIsSound, Balanced, Tokens
<1>7. FrameData(k)'
  <2>1. \A n \in DOMAIN submitted' :
            First(k, n)' /\ ~IsCopy(submitted'[n]) =>
                \A i \in DOMAIN submitted'[n].data \cap Of(k) :
                    device'[i] = submitted'[n].data[i] \/ Spoilt(i)'
    BY <1>1, <1>2, <1>3, ChainMembers DEF ChainIsSound, FrameData, LeftAlone
  <2>2. \A m, n \in DOMAIN submitted' :
            Follows(k, m, n)' /\ ~IsCopy(submitted'[n]) =>
                /\ IsCopy(submitted'[m])
                /\ \A i \in DOMAIN submitted'[n].data \cap Of(k) :
                      /\ i \in DOMAIN submitted'[m].data
                      /\ submitted'[n].data[i] = submitted'[m].data[i]
    BY <1>1, <1>2, <1>3, ChainMembers DEF ChainIsSound, FrameData
  <2>3. ASSUME Carried(k)'
        PROVE  /\ \A n \in DOMAIN submitted' :
                     Final(k, n)' => IsCopy(submitted'[n])
                                     /\ submitted'[n].data = dataTransferred'[k]
               /\ Chain(k)' = {} => \A i \in DOMAIN dataTransferred'[k] :
                                       device'[i] = dataTransferred'[k][i] \/ Spoilt(i)'
    <3>1. Carried(k) /\ dataTransferred'[k] = dataTransferred[k]
      BY <2>3
    <3>2. \A n \in DOMAIN submitted' :
              Final(k, n)' => IsCopy(submitted'[n])
                              /\ submitted'[n].data = dataTransferred'[k]
      BY <1>1, <1>2, <1>3, <3>1, ChainMembers DEF ChainIsSound, FrameData
    <3>3. Chain(k)' = {} => \A i \in DOMAIN dataTransferred'[k] :
                               device'[i] = dataTransferred'[k][i] \/ Spoilt(i)'
      BY <3>1 DEF ChainIsSound, FrameData, TaskTypes, LeftAlone
    <3>4. QED
      BY <3>2, <3>3
  <2>4. QED
    BY <2>1, <2>2, <2>3 DEF FrameData, IsCopy, Of
<1>8. QED
  BY <1>4, <1>5, <1>6, <1>7 DEF ChainIsSound

\* What is at the end of a chain, or on the device if there is none, is what the next
\* submission waits for.
LEMMA AppendedLink ==
  ASSUME TaskTypes, SubmissionTypes, NEW k \in Kinds, ChainIsSound(k),
         NEW sub \in Submissions, submitted' = Append(submitted, sub),
         Gives(k, sub) # {}, Awaits(k, sub) = Expected(k), ~sub.begun,
         Expected(k)' = Gives(k, sub), Available(k)' = Available(k),
         \A i \in Of(k) : LeftAlone(i),
         \A m \in Chain(k) : \/ submitted[m].queue = sub.queue
                             \/ Awaits(k, submitted[m]) # Awaits(k, sub),
         Carried(k)' => IsCopy(sub) /\ sub.data = dataTransferred'[k],
         ~IsCopy(sub) => /\ Carried(k)
                         /\ \A i \in DOMAIN sub.data \cap Of(k) :
                               /\ i \in DOMAIN dataTransferred[k]
                               /\ sub.data[i] = dataTransferred[k][i]
  PROVE  ChainIsSound(k)'
<1> DEFINE L == Len(submitted)
<1>1. /\ L \in Nat /\ DOMAIN submitted = 1 .. L /\ DOMAIN submitted' = 1 .. L + 1
      /\ \A j \in 1 .. L : submitted'[j] = submitted[j]
      /\ submitted'[L + 1] = sub
  BY AppendedSubmission
<1> HIDE DEF L
<1>2. /\ Chain(k) \subseteq 1 .. L /\ Chain(k)' = Chain(k) \cup {L + 1}
      /\ \A n \in Chain(k) : n < L + 1 /\ n \in Nat
  BY <1>1 DEF Chain, Gives
<1>3. \A n \in 1 .. L : /\ Awaits(k, submitted'[n]) = Awaits(k, submitted[n])
                        /\ Gives(k, submitted'[n]) = Gives(k, submitted[n])
                        /\ IsCopy(submitted'[n]) <=> IsCopy(submitted[n])
  BY <1>1
<1>4. /\ Awaits(k, submitted'[L + 1]) = Expected(k)
      /\ Gives(k, submitted'[L + 1]) = Expected(k)'
      /\ IsCopy(submitted'[L + 1]) <=> IsCopy(sub)
  BY <1>1
<1>5. \A n : First(k, n)' => \/ n \in 1 .. L /\ First(k, n)
                             \/ n = L + 1 /\ Chain(k) = {}
  BY <1>1, <1>2 DEF First
<1>6. \A m, n : Follows(k, m, n)' => \/ m \in 1 .. L /\ n \in 1 .. L /\ Follows(k, m, n)
                                     \/ n = L + 1 /\ m \in 1 .. L /\ Final(k, m)
  <2>1. SUFFICES ASSUME NEW m, NEW n, Follows(k, m, n)'
                 PROVE  \/ m \in 1 .. L /\ n \in 1 .. L /\ Follows(k, m, n)
                        \/ n = L + 1 /\ m \in 1 .. L /\ Final(k, m)
    OBVIOUS
  <2>2. /\ m \in Chain(k)' /\ n \in Chain(k)' /\ m < n
        /\ \A l \in Chain(k)' : l <= m \/ n <= l
    BY <2>1 DEF Follows
  <2>3. m \in Chain(k) /\ m \in 1 .. L
    BY <1>1, <1>2, <2>2
  <2>4. CASE n = L + 1
    <3>1. \A l \in Chain(k) : l <= m
      BY <1>1, <1>2, <2>2, <2>3, <2>4
    <3>2. QED
      BY <2>3, <2>4, <3>1 DEF Final
  <2>5. CASE n \in Chain(k)
    BY <1>2, <2>2, <2>3, <2>5 DEF Follows
  <2>6. QED
    BY <1>2, <2>2, <2>4, <2>5
<1>7. \A n : Final(k, n)' => n = L + 1
  BY <1>1, <1>2 DEF Final
<1>8. Chain(k) # {} => Expected(k) # {}
  <2>1. SUFFICES ASSUME Chain(k) # {} PROVE Expected(k) # {}
    OBVIOUS
  <2>2. PICK n \in DOMAIN submitted : Final(k, n)
    BY <2>1, ChainEnds
  <2>3. Gives(k, submitted[n]) = Expected(k)
    BY <2>2 DEF ChainIsSound, Linked
  <2>4. QED
    BY <2>2, <2>3, ChainMembers DEF Chain
<1>9. OnlyFirstBegins(k)'
  <2>1. SUFFICES ASSUME NEW m \in Chain(k)', NEW n \in Chain(k)', m < n
                 PROVE  /\ ~submitted'[n].begun
                        /\ Awaits(k, submitted'[n]) # {}
                        /\ \/ submitted'[m].queue = submitted'[n].queue
                           \/ Awaits(k, submitted'[m]) # Awaits(k, submitted'[n])
    BY DEF OnlyFirstBegins, Awaits
  <2>2. m \in Chain(k) /\ submitted'[m] = submitted[m]
    BY <1>1, <1>2, <2>1
  <2>3. CASE n \in Chain(k)
    BY <1>1, <1>2, <2>1, <2>2, <2>3 DEF ChainIsSound, OnlyFirstBegins
  <2>4. CASE n = L + 1
    BY <1>1, <1>8, <2>2, <2>4
  <2>5. QED
    BY <1>2, <2>3, <2>4
<1>10. Linked(k)'
  <2>1. ASSUME NEW m \in DOMAIN submitted', NEW n \in DOMAIN submitted', Follows(k, m, n)'
        PROVE  Awaits(k, submitted'[n]) = Gives(k, submitted'[m])
    <3>1. CASE n = L + 1 /\ m \in 1 .. L /\ Final(k, m)
      <4>1. Gives(k, submitted[m]) = Expected(k)
        BY <1>1, <3>1 DEF ChainIsSound, Linked
      <4>2. QED
        BY <1>3, <1>4, <3>1, <4>1
    <3>2. CASE m \in 1 .. L /\ n \in 1 .. L /\ Follows(k, m, n)
      <4>1. Awaits(k, submitted[n]) = Gives(k, submitted[m])
        BY <1>1, <3>2 DEF ChainIsSound, Linked
      <4>2. QED
        BY <1>3, <3>2, <4>1
    <3>3. QED
      BY <1>6, <2>1, <3>1, <3>2
  <2>2. ASSUME NEW n \in DOMAIN submitted', First(k, n)'
        PROVE  Available(k)' = IF submitted'[n].begun THEN {} ELSE Awaits(k, submitted'[n])
    <3>1. CASE n = L + 1 /\ Chain(k) = {}
      <4>1. Available(k) = Expected(k)
        BY <3>1 DEF ChainIsSound, Linked
      <4>2. QED
        BY <1>1, <1>4, <3>1, <4>1
    <3>2. CASE n \in 1 .. L /\ First(k, n)
      <4>1. Available(k) = IF submitted[n].begun THEN {} ELSE Awaits(k, submitted[n])
        BY <1>1, <3>2 DEF ChainIsSound, Linked
      <4>2. QED
        BY <1>1, <1>3, <3>2, <4>1
    <3>3. QED
      BY <1>5, <2>2, <3>1, <3>2
  <2>3. \A n \in DOMAIN submitted' : Final(k, n)' => Gives(k, submitted'[n]) = Expected(k)'
    BY <1>4, <1>7
  <2>4. Chain(k)' # {}
    BY <1>2
  <2>5. QED
    BY <2>1, <2>2, <2>3, <2>4 DEF Linked, Awaits, Gives
<1>11. Balanced(k)'
  <2>1. SUFFICES ASSUME NEW s \in Tokens(k)
                 PROVE  Cardinality(Signaling(s)') + (IF s \in signaled' THEN 1 ELSE 0)
                           = Cardinality(Waiting(s)') + (IF s \in Expected(k)' THEN 1 ELSE 0)
    BY DEF Balanced, Tokens
  <2>2. Signaling(s)' = IF s \in Gives(k, sub) THEN Signaling(s) \cup {L + 1} ELSE Signaling(s)
    BY <1>1, <2>1 DEF Signaling, Gives
  <2>3. Waiting(s)' = IF s \in Awaits(k, sub) THEN Waiting(s) \cup {L + 1} ELSE Waiting(s)
    BY <1>1, <2>1 DEF Waiting, Awaits
  <2>4. /\ IsFiniteSet(Signaling(s)) /\ IsFiniteSet(Waiting(s))
        /\ L + 1 \notin Signaling(s) /\ L + 1 \notin Waiting(s)
    <3>1. Signaling(s) \subseteq 1 .. L /\ Waiting(s) \subseteq 1 .. L
      BY <1>1 DEF Signaling, Waiting
    <3>2. L + 1 \notin 1 .. L
      BY <1>1
    <3>3. IsFiniteSet(1 .. L)
      BY <1>1, FS_Interval
    <3>4. QED
      BY <3>1, <3>2, <3>3, FS_Subset
  <2>5. /\ Cardinality(Signaling(s)) \in Nat /\ Cardinality(Waiting(s)) \in Nat
        /\ Cardinality(Signaling(s) \cup {L + 1}) = Cardinality(Signaling(s)) + 1
        /\ Cardinality(Waiting(s) \cup {L + 1}) = Cardinality(Waiting(s)) + 1
    BY <2>4, FS_CardinalityType, FS_AddElement
  <2>6. s \in signaled' <=> s \in signaled
    BY <2>1 DEF Available
  <2>7. Cardinality(Signaling(s)) + (IF s \in signaled THEN 1 ELSE 0)
           = Cardinality(Waiting(s)) + (IF s \in Expected(k) THEN 1 ELSE 0)
    BY <2>1 DEF ChainIsSound, Balanced
  <2>8. s \in Gives(k, sub) <=> s \in Expected(k)'
    OBVIOUS
  <2>9. s \in Awaits(k, sub) <=> s \in Expected(k)
    OBVIOUS
  <2> DEFINE a == Cardinality(Signaling(s))
             b == Cardinality(Waiting(s))
  <2>10. Cardinality(Signaling(s)') = IF s \in Expected(k)' THEN a + 1 ELSE a
    BY <2>2, <2>5, <2>8
  <2>11. Cardinality(Waiting(s)') = IF s \in Expected(k) THEN b + 1 ELSE b
    BY <2>3, <2>5, <2>9
  <2>12. a \in Nat /\ b \in Nat
         /\ a + (IF s \in signaled THEN 1 ELSE 0) = b + (IF s \in Expected(k) THEN 1 ELSE 0)
    BY <2>5, <2>7
  <2> HIDE DEF a, b
  <2>13. (IF s \in Expected(k)' THEN a + 1 ELSE a) + (IF s \in signaled THEN 1 ELSE 0)
             = (IF s \in Expected(k) THEN b + 1 ELSE b) + (IF s \in Expected(k)' THEN 1 ELSE 0)
    BY <2>12
  <2>14. QED
    BY <2>6, <2>10, <2>11, <2>13
<1>12. FrameData(k)'
  <2>1. ASSUME NEW n \in DOMAIN submitted', First(k, n)', ~IsCopy(submitted'[n]),
               NEW i \in DOMAIN submitted'[n].data \cap Of(k)
        PROVE  device'[i] = submitted'[n].data[i] \/ Spoilt(i)'
    <3>1. CASE n = L + 1 /\ Chain(k) = {}
      <4>1. Carried(k) /\ i \in DOMAIN dataTransferred[k] /\ sub.data[i] = dataTransferred[k][i]
        BY <1>1, <1>4, <2>1, <3>1
      <4>2. device[i] = dataTransferred[k][i] \/ Spoilt(i)
        BY <3>1, <4>1 DEF ChainIsSound, FrameData
      <4>3. QED
        BY <1>1, <2>1, <3>1, <4>1, <4>2 DEF LeftAlone
    <3>2. CASE n \in 1 .. L /\ First(k, n)
      <4>1. device[i] = submitted[n].data[i] \/ Spoilt(i)
        BY <1>1, <1>3, <2>1, <3>2 DEF ChainIsSound, FrameData
      <4>2. QED
        BY <1>1, <2>1, <3>2, <4>1 DEF LeftAlone
    <3>3. QED
      BY <1>5, <2>1, <3>1, <3>2
  <2>2. ASSUME NEW m \in DOMAIN submitted', NEW n \in DOMAIN submitted', Follows(k, m, n)',
               ~IsCopy(submitted'[n])
        PROVE  /\ IsCopy(submitted'[m])
               /\ \A i \in DOMAIN submitted'[n].data \cap Of(k) :
                     /\ i \in DOMAIN submitted'[m].data
                     /\ submitted'[n].data[i] = submitted'[m].data[i]
    <3>1. CASE n = L + 1 /\ m \in 1 .. L /\ Final(k, m)
      <4>1. /\ Carried(k)
            /\ \A i \in DOMAIN sub.data \cap Of(k) :
                  i \in DOMAIN dataTransferred[k] /\ sub.data[i] = dataTransferred[k][i]
        BY <1>4, <2>2, <3>1
      <4>2. IsCopy(submitted[m]) /\ submitted[m].data = dataTransferred[k]
        BY <1>1, <3>1, <4>1 DEF ChainIsSound, FrameData
      <4>3. QED
        BY <1>1, <1>3, <3>1, <4>1, <4>2
    <3>2. CASE m \in 1 .. L /\ n \in 1 .. L /\ Follows(k, m, n)
      <4>1. /\ IsCopy(submitted[m])
            /\ \A i \in DOMAIN submitted[n].data \cap Of(k) :
                  /\ i \in DOMAIN submitted[m].data
                  /\ submitted[n].data[i] = submitted[m].data[i]
        BY <1>1, <1>3, <2>2, <3>2 DEF ChainIsSound, FrameData
      <4>2. QED
        BY <1>1, <1>3, <3>2, <4>1
    <3>3. QED
      BY <1>6, <2>2, <3>1, <3>2
  <2>3. Carried(k)' => \A n \in DOMAIN submitted' :
                          Final(k, n)' => IsCopy(submitted'[n])
                                          /\ submitted'[n].data = dataTransferred'[k]
    BY <1>1, <1>4, <1>7
  <2>4. Chain(k)' # {}
    BY <1>2
  <2>5. QED
    BY <2>1, <2>2, <2>3, <2>4 DEF FrameData, IsCopy, Of
<1>13. QED
  BY <1>9, <1>10, <1>11, <1>12 DEF ChainIsSound

\* Finitely many submissions signal a semaphore or wait for it.
LEMMA FinitePositions ==
  ASSUME SubmissionTypes, NEW s
  PROVE  /\ Signaling(s) \subseteq 1 .. Len(submitted) /\ Waiting(s) \subseteq 1 .. Len(submitted)
         /\ IsFiniteSet(Signaling(s)) /\ IsFiniteSet(Waiting(s))
<1>1. Len(submitted) \in Nat /\ DOMAIN submitted = 1 .. Len(submitted)
  BY LenProperties DEF SubmissionTypes
<1>2. Signaling(s) \subseteq 1 .. Len(submitted) /\ Waiting(s) \subseteq 1 .. Len(submitted)
  BY <1>1 DEF Signaling, Waiting
<1>3. IsFiniteSet(1 .. Len(submitted))
  BY <1>1, FS_Interval
<1>4. QED
  BY <1>2, <1>3, FS_Subset

\* A submission begins only as the first of each chain that it belongs to.
LEMMA BeginsAsFirst ==
  ASSUME SubmissionTypes, NEW k \in Kinds, ChainIsSound(k),
         NEW n \in Chain(k), GpuBegins(n)
  PROVE  First(k, n) /\ Available(k) = Awaits(k, submitted[n])
<1>1. /\ n \in DOMAIN submitted /\ DOMAIN submitted = 1 .. Len(submitted)
      /\ Len(submitted) \in Nat
  BY LenProperties DEF SubmissionTypes, Chain
<1>2. PICK m \in DOMAIN submitted : First(k, m)
  BY ChainEnds
<1>3. /\ m \in Chain(k) /\ m <= n
      /\ Available(k) = IF submitted[m].begun THEN {} ELSE Awaits(k, submitted[m])
  BY <1>2 DEF First, ChainIsSound, Linked
<1>4. ~submitted[n].begun /\ Awaits(k, submitted[n]) \subseteq Available(k)
  BY DEF GpuBegins, Awaits, Available
<1>5. ASSUME m # n PROVE FALSE
  <2>1. m < n
    BY <1>1, <1>3, <1>5
  <2>2. /\ Awaits(k, submitted[n]) # {}
        /\ \/ submitted[m].queue = submitted[n].queue
           \/ Awaits(k, submitted[m]) # Awaits(k, submitted[n])
    BY <1>3, <2>1 DEF ChainIsSound, OnlyFirstBegins
  <2>3. ~submitted[m].begun /\ Available(k) = Awaits(k, submitted[m])
    BY <1>3, <1>4, <2>2
  <2>4. submitted[m].queue # submitted[n].queue
    <3>1. submitted[m].queue = submitted[n].queue => m \in SameQueueBefore(n)
      BY <1>1, <2>1 DEF SameQueueBefore
    <3>2. QED
      BY <2>3, <3>1 DEF GpuBegins
  <2>5. /\ Awaits(k, submitted[m]) \in {{}, {Complete(k)}, {ConsumerCompleted(k)}}
        /\ Awaits(k, submitted[n]) \in {{}, {Complete(k)}, {ConsumerCompleted(k)}}
    <3>1. ASSUME NEW j \in Chain(k)
          PROVE  Awaits(k, submitted[j]) \in {{}, {Complete(k)}, {ConsumerCompleted(k)}}
      <4>1. /\ FrameShape(submitted[j]) \/ \E l \in Kinds : CopyShape(l, submitted[j])
            /\ Gives(k, submitted[j]) # {}
        BY DEF SubmissionTypes, Chain
      <4>2. CopyShape(k, submitted[j]) \/ Awaits(k, submitted[j]) = {Complete(k)}
        BY <4>1, Shapes
      <4>3. QED
        BY <4>2 DEF CopyShape
    <3>2. QED
      BY <1>3, <3>1
  <2>6. QED
    BY <1>4, <2>2, <2>3, <2>4, <2>5
<1>6. QED
  BY <1>2, <1>3, <1>4, <1>5

\* A submission that has begun is the first of each chain that it belongs to.
LEMMA BegunIsFirst ==
  ASSUME SubmissionTypes, NEW k \in Kinds, ChainIsSound(k),
         NEW n \in Chain(k), submitted[n].begun
  PROVE  First(k, n) /\ Available(k) = {}
<1>1. /\ n \in DOMAIN submitted /\ DOMAIN submitted = 1 .. Len(submitted)
      /\ Len(submitted) \in Nat
  BY LenProperties DEF SubmissionTypes, Chain
<1>2. PICK m \in DOMAIN submitted : First(k, m)
  BY ChainEnds
<1>3. m \in Chain(k) /\ m <= n
  BY <1>2 DEF First
<1>4. m = n
  <2>1. ~ (m < n)
    BY <1>3 DEF ChainIsSound, OnlyFirstBegins
  <2>2. QED
    BY <1>1, <1>3, <2>1
<1>5. QED
  BY <1>1, <1>2, <1>4 DEF ChainIsSound, Linked

\* What does not belong to a chain has nothing to do with its semaphores and its data.
LEMMA OutsideChain ==
  ASSUME SubmissionTypes, NEW k \in Kinds, NEW n \in DOMAIN submitted, n \notin Chain(k)
  PROVE  /\ Gives(k, submitted[n]) = {} /\ Awaits(k, submitted[n]) = {}
         /\ IsCopy(submitted[n]) => DOMAIN submitted[n].data \cap Of(k) = {}
<1>1. /\ FrameShape(submitted[n]) \/ \E l \in Kinds : CopyShape(l, submitted[n])
      /\ Gives(k, submitted[n]) = {}
  BY DEF SubmissionTypes, Chain
<1>2. Awaits(k, submitted[n]) = {}
  BY <1>1, Shapes
<1>3. ASSUME IsCopy(submitted[n]) PROVE DOMAIN submitted[n].data \cap Of(k) = {}
  <2>1. PICK l \in Kinds : CopyShape(l, submitted[n])
    BY <1>1, <1>3, Shapes
  <2>2. DOMAIN submitted[n].data \subseteq Of(l) /\ Gives(l, submitted[n]) # {}
    BY <2>1 DEF CopyShape
  <2>3. k # l
    BY <1>1, <2>2
  <2>4. QED
    BY <2>2, <2>3, SemaphoresDiffer
<1>4. QED
  BY <1>1, <1>2, <1>3

\* A chain is sound after one of its submissions, or another one, has begun.
LEMMA BeginsSoundly ==
  ASSUME TaskTypes, SubmissionTypes, BlocksAreTaken, RunnersWait, NEW k \in Kinds, ChainIsSound(k),
         NEW n \in DOMAIN submitted, GpuBegins(n)
  PROVE  ChainIsSound(k)'
<1>1. /\ submitted' = [submitted EXCEPT ![n].begun = TRUE]
      /\ signaled' = signaled \ submitted[n].waits /\ ~submitted[n].begun
      /\ submitted[n].waits \subseteq signaled /\ ahead' = ahead \ {submitted[n].fence}
      /\ UNCHANGED <<pc, dataTransferred, consumer>>
  BY DEF GpuBegins, taskVars, copyVars
<1>2. /\ DOMAIN submitted' = DOMAIN submitted
      /\ \A j \in DOMAIN submitted :
            /\ submitted'[j].queue = submitted[j].queue
            /\ submitted'[j].fence = submitted[j].fence
            /\ submitted'[j].waits = submitted[j].waits
            /\ submitted'[j].signals = submitted[j].signals
            /\ submitted'[j].data = submitted[j].data
            /\ submitted'[j].begun = (submitted[j].begun \/ j = n)
            /\ IsCopy(submitted'[j]) <=> IsCopy(submitted[j])
            /\ Gives(k, submitted'[j]) = Gives(k, submitted[j])
            /\ Awaits(k, submitted'[j]) = Awaits(k, submitted[j])
  BY <1>1, BegunSubmission, BegunShape
<1>3. /\ Chain(k)' = Chain(k) /\ Chain(k) \subseteq DOMAIN submitted
      /\ \A s \in Tokens(k) : Signaling(s)' = Signaling(s)
  BY <1>2 DEF Chain, Gives, Signaling
<1>4. /\ \A j : (First(k, j)' <=> First(k, j)) /\ (Final(k, j)' <=> Final(k, j))
      /\ \A i, j : Follows(k, i, j)' <=> Follows(k, i, j)
  BY <1>3 DEF First, Final, Follows
<1>5. Expected(k)' = Expected(k) /\ (Carried(k)' <=> Carried(k))
  BY <1>1 DEF Expected, Carried
<1>6. Available(k)' = Available(k) \ Awaits(k, submitted[n])
  BY <1>1 DEF Available, Awaits
<1>a. ASSUME NEW i \in Of(k), i \notin ItemsOf(n) PROVE LeftAlone(i)
  <2>1. device'[i] = device[i] /\ (i \in raced' <=> i \in raced)
    BY <1>a, Unwritten, SemaphoresDiffer
  <2>2. ASSUME NEW m \in DOMAIN submitted, submitted[m].fence \in ahead, i \in ItemsOf(m)
        PROVE  submitted'[m].fence \in ahead' /\ i \in ItemsOf(m)'
    <3>1. m # n /\ IsCopy(submitted[m])
      BY <1>a, <2>2 DEF ItemsOf
    <3>2. submitted[m].fence # submitted[n].fence
      BY <3>1 DEF BlocksAreTaken
    <3>3. QED
      BY <1>1, <1>2, <2>2, <3>2 DEF ItemsOf
  <2>3. Spoilt(i) => Spoilt(i)'
    BY <1>2, <2>1, <2>2 DEF Spoilt
  <2>4. QED
    BY <2>1, <2>3 DEF LeftAlone
<1>7. CASE n \notin Chain(k)
  <2>1. Awaits(k, submitted[n]) = {} /\ ItemsOf(n) \cap Of(k) = {}
    BY <1>7, OutsideChain DEF ItemsOf
  <2>2. \A j \in Chain(k) : submitted'[j] = submitted[j]
    <3>1. submitted \in Seq(Submissions)
      BY DEF SubmissionTypes
    <3>2. \A j \in DOMAIN submitted : j # n => submitted'[j] = submitted[j]
      BY <1>1, <3>1
    <3>3. QED
      BY <1>3, <1>7, <3>2
  <2>3. \A s \in Tokens(k) : Waiting(s)' = Waiting(s)
    <3>1. \A s \in Tokens(k) : s \notin submitted[n].waits
      BY <2>1 DEF Awaits
    <3>2. QED
      BY <1>2, <3>1 DEF Waiting
  <2>4. \A i \in Of(k) : LeftAlone(i)
    BY <1>a, <2>1
  <2>5. QED
    BY <1>1, <1>3, <1>5, <1>6, <2>1, <2>2, <2>3, <2>4, SameChain
<1>8. CASE n \in Chain(k)
  <2>1. First(k, n) /\ Available(k) = Awaits(k, submitted[n]) /\ Available(k)' = {}
    BY <1>6, <1>8, BeginsAsFirst
  <2>2. \A j : First(k, j) => j = n
    <3>1. \A j \in DOMAIN submitted : j \in Nat
      BY LenProperties DEF SubmissionTypes
    <3>2. QED
      BY <1>3, <2>1, <3>1 DEF First
  <2>3. OnlyFirstBegins(k)'
    <3>1. SUFFICES ASSUME NEW i \in Chain(k), NEW j \in Chain(k), i < j
                   PROVE  /\ ~submitted'[j].begun
                          /\ Awaits(k, submitted'[j]) # {}
                          /\ \/ submitted'[i].queue = submitted'[j].queue
                             \/ Awaits(k, submitted'[i]) # Awaits(k, submitted'[j])
      BY <1>3 DEF OnlyFirstBegins, Awaits
    <3>2. j # n
      <4>1. n <= i /\ i \in Nat /\ j \in Nat /\ n \in Nat
        BY <1>3, <2>1, LenProperties DEF First, SubmissionTypes
      <4>2. QED
        BY <3>1, <4>1
    <3>3. /\ ~submitted[j].begun
          /\ Awaits(k, submitted[j]) # {}
          /\ \/ submitted[i].queue = submitted[j].queue
             \/ Awaits(k, submitted[i]) # Awaits(k, submitted[j])
      BY <3>1 DEF ChainIsSound, OnlyFirstBegins
    <3>4. QED
      BY <1>2, <1>3, <3>1, <3>2, <3>3
  <2>4. Linked(k)'
    <3>1. \A i, j \in DOMAIN submitted' :
              Follows(k, i, j)' => Awaits(k, submitted'[j]) = Gives(k, submitted'[i])
      BY <1>2, <1>4 DEF ChainIsSound, Linked
    <3>2. \A j \in DOMAIN submitted' :
              First(k, j)' => Available(k)' = IF submitted'[j].begun THEN {}
                                              ELSE Awaits(k, submitted'[j])
      BY <1>2, <1>4, <2>1, <2>2
    <3>3. \A j \in DOMAIN submitted' : Final(k, j)' => Gives(k, submitted'[j]) = Expected(k)'
      BY <1>2, <1>4, <1>5 DEF ChainIsSound, Linked
    <3>4. Chain(k)' # {}
      BY <1>3, <1>8
    <3>5. QED
      BY <3>1, <3>2, <3>3, <3>4 DEF Linked, Awaits, Gives
  <2>5. Balanced(k)'
    <3>1. SUFFICES ASSUME NEW s \in Tokens(k)
                   PROVE  Cardinality(Signaling(s)) + (IF s \in signaled' THEN 1 ELSE 0)
                             = Cardinality(Waiting(s)') + (IF s \in Expected(k) THEN 1 ELSE 0)
      BY <1>3, <1>5 DEF Balanced, Tokens
    <3> DEFINE b == Cardinality(Waiting(s))
    <3>2. Cardinality(Signaling(s)) + (IF s \in signaled THEN 1 ELSE 0)
             = b + (IF s \in Expected(k) THEN 1 ELSE 0)
      BY <3>1 DEF ChainIsSound, Balanced
    <3>3. /\ Cardinality(Signaling(s)) \in Nat /\ b \in Nat
          /\ IsFiniteSet(Waiting(s))
      BY FinitePositions, FS_CardinalityType
    <3>4. CASE s \notin Awaits(k, submitted[n])
      <4>1. Waiting(s)' = Waiting(s)
        BY <1>2, <3>1, <3>4 DEF Waiting, Awaits
      <4>2. s \in signaled' <=> s \in signaled
        BY <1>1, <3>1, <3>4 DEF Awaits
      <4>3. QED
        BY <3>2, <4>1, <4>2
    <3>5. CASE s \in Awaits(k, submitted[n])
      <4>1. Waiting(s)' = Waiting(s) \ {n} /\ n \in Waiting(s)
        BY <1>1, <1>2, <3>1, <3>5 DEF Waiting, Awaits
      <4>2. s \in signaled /\ s \notin signaled'
        BY <1>1, <3>5 DEF Awaits
      <4>3. Cardinality(Waiting(s)') = b - 1
        BY <3>3, <4>1, FS_RemoveElement
      <4> HIDE DEF b
      <4>4. QED
        BY <3>2, <3>3, <4>2, <4>3
    <3>6. QED
      BY <3>4, <3>5
  <2>6. FrameData(k)'
    <3>1. \A j \in DOMAIN submitted' :
              First(k, j)' /\ ~IsCopy(submitted'[j]) =>
                  \A i \in DOMAIN submitted'[j].data \cap Of(k) :
                      device'[i] = submitted'[j].data[i] \/ Spoilt(i)'
      <4>1. SUFFICES ASSUME ~IsCopy(submitted[n]), NEW i \in DOMAIN submitted[n].data \cap Of(k)
                     PROVE  device'[i] = submitted[n].data[i] \/ Spoilt(i)'
        BY <1>2, <1>4, <2>2
      <4>2. device[i] = submitted[n].data[i] \/ Spoilt(i)
        BY <2>1, <4>1 DEF ChainIsSound, FrameData
      <4>3. LeftAlone(i)
        BY <1>a, <4>1 DEF ItemsOf
      <4>4. QED
        BY <4>2, <4>3 DEF LeftAlone
    <3>2. \A m, j \in DOMAIN submitted' :
              Follows(k, m, j)' /\ ~IsCopy(submitted'[j]) =>
                  /\ IsCopy(submitted'[m])
                  /\ \A i \in DOMAIN submitted'[j].data \cap Of(k) :
                        /\ i \in DOMAIN submitted'[m].data
                        /\ submitted'[j].data[i] = submitted'[m].data[i]
      BY <1>2, <1>4 DEF ChainIsSound, FrameData
    <3>3. Carried(k)' => \A j \in DOMAIN submitted' :
                            Final(k, j)' => IsCopy(submitted'[j])
                                            /\ submitted'[j].data = dataTransferred'[k]
      <4>1. SUFFICES ASSUME Carried(k)', NEW j \in DOMAIN submitted, Final(k, j)'
                     PROVE  IsCopy(submitted'[j]) /\ submitted'[j].data = dataTransferred'[k]
        BY <1>2
      <4>2. Carried(k) /\ Final(k, j)
        BY <1>4, <1>5, <4>1
      <4>3. IsCopy(submitted[j]) /\ submitted[j].data = dataTransferred[k]
        BY <4>2 DEF ChainIsSound, FrameData
      <4>4. dataTransferred' = dataTransferred
        BY <1>1
      <4>5. QED
        BY <1>2, <4>3, <4>4
    <3>4. Chain(k)' # {}
      BY <1>3, <1>8
    <3>5. QED
      BY <3>1, <3>2, <3>3, <3>4 DEF FrameData, IsCopy, Of
  <2>7. QED
    BY <2>3, <2>4, <2>5, <2>6 DEF ChainIsSound
<1>9. QED
  BY <1>7, <1>8

\* A chain is sound after a copy has run ahead, which spoils what it writes.
LEMMA RunsAheadSoundly ==
  ASSUME TaskTypes, SubmissionTypes, NEW k \in Kinds, ChainIsSound(k),
         NEW n \in DOMAIN submitted, GpuRunsAhead(n)
  PROVE  ChainIsSound(k)'
<1>1. /\ UNCHANGED <<submitted, signaled, pc, dataTransferred, consumer>>
      /\ ahead' = ahead \cup {submitted[n].fence}
  BY DEF GpuRunsAhead, taskVars, copyVars
<1>2. \A m \in DOMAIN submitted : ItemsOf(m)' = ItemsOf(m)
  BY <1>1 DEF ItemsOf, IsCopy
<1>3. ASSUME NEW i \in Of(k) PROVE LeftAlone(i)
  <2>1. CASE i \in ItemsOf(n)
    BY <1>1, <1>2, <2>1 DEF LeftAlone, Spoilt
  <2>2. CASE i \notin ItemsOf(n)
    <3>1. device'[i] = device[i] /\ (i \in raced' <=> i \in raced)
      BY <2>2, Unwritten, SemaphoresDiffer
    <3>2. Spoilt(i) => Spoilt(i)'
      BY <1>1, <1>2, <3>1 DEF Spoilt
    <3>3. QED
      BY <3>1, <3>2 DEF LeftAlone
  <2>3. QED
    BY <2>1, <2>2
<1>4. /\ Chain(k)' = Chain(k) /\ Available(k)' = Available(k) /\ Expected(k)' = Expected(k)
      /\ \A s \in Tokens(k) : Signaling(s)' = Signaling(s) /\ Waiting(s)' = Waiting(s)
      /\ Carried(k)' = Carried(k)
  BY <1>1 DEF Chain, Gives, Available, Expected, Carried, Signaling, Waiting
<1>5. QED
  BY <1>1, <1>3, <1>4, SameChain

\* What completes is the first of its chain, and how the rest of the chain moves up.
LEMMA ShorterChain ==
  ASSUME TaskTypes, SubmissionTypes, NEW k \in Kinds, ChainIsSound(k),
         NEW n \in DOMAIN submitted, GpuCompletes(n)
  PROVE  /\ n \in Chain(k) => First(k, n) /\ Available(k) = {}
         /\ Chain(k)' = {j \in DOMAIN submitted' : From(n, j) \in Chain(k)}
         /\ \A j \in DOMAIN submitted' : From(n, j) \in DOMAIN submitted
                                         /\ submitted'[j] = submitted[From(n, j)]
         /\ \A i, j \in DOMAIN submitted' : Follows(k, i, j)' => Follows(k, From(n, i), From(n, j))
         /\ \A j \in DOMAIN submitted' : Final(k, j)' => Final(k, From(n, j))
         /\ \A j \in DOMAIN submitted' : First(k, j)' => IF n \in Chain(k)
                                                         THEN Follows(k, n, From(n, j))
                                                         ELSE First(k, From(n, j))
         /\ Chain(k)' = {} => IF n \in Chain(k) THEN Final(k, n) ELSE Chain(k) = {}
<1>1. submitted' = RemoveAt(submitted, n) /\ submitted[n].begun
  BY DEF GpuCompletes
<1>2. n \in Chain(k) => First(k, n) /\ Available(k) = {}
  BY <1>1, BegunIsFirst
<1>3. /\ Len(submitted) \in Nat /\ DOMAIN submitted = 1 .. Len(submitted)
      /\ n \in 1 .. Len(submitted) /\ DOMAIN submitted' = 1 .. Len(submitted) - 1
      /\ \A j \in 1 .. Len(submitted) - 1 :
            /\ From(n, j) \in DOMAIN submitted /\ From(n, j) # n
            /\ submitted'[j] = submitted[From(n, j)]
      /\ \A m \in DOMAIN submitted \ {n} : \E j \in DOMAIN submitted' : From(n, j) = m
  BY <1>1, CompletedSubmission
<1>4. Chain(k)' = {j \in DOMAIN submitted' : From(n, j) \in Chain(k)}
  BY <1>3 DEF Chain, Gives
<1>5. \A i, j \in DOMAIN submitted' : /\ i < j <=> From(n, i) < From(n, j)
                                      /\ i <= j <=> From(n, i) <= From(n, j)
  BY <1>3, FromIsOrdered
<1>6. \A m \in Chain(k) : m # n => \E j \in Chain(k)' : From(n, j) = m
  BY <1>3, <1>4 DEF Chain
<1>7. /\ \A j \in DOMAIN submitted' : j \in Chain(k)' <=> From(n, j) \in Chain(k)
      /\ Chain(k)' \subseteq DOMAIN submitted' /\ Chain(k) \subseteq DOMAIN submitted
      /\ \A m \in DOMAIN submitted : m \in Nat
  <2>1. Chain(k)' \subseteq DOMAIN submitted' /\ Chain(k) \subseteq DOMAIN submitted
    BY DEF Chain
  <2>2. QED
    BY <1>3, <1>4, <2>1
<1>8. n \in Chain(k) => \A m \in Chain(k) : n <= m
  BY <1>2 DEF First
<1>9. ASSUME NEW i \in DOMAIN submitted', NEW j \in DOMAIN submitted', Follows(k, i, j)'
      PROVE  Follows(k, From(n, i), From(n, j))
  <2>1. /\ i \in Chain(k)' /\ j \in Chain(k)' /\ i < j
        /\ \A l \in Chain(k)' : l <= i \/ j <= l
    BY <1>9 DEF Follows
  <2>2. /\ From(n, i) \in Chain(k) /\ From(n, j) \in Chain(k) /\ From(n, i) < From(n, j)
    BY <1>5, <1>7, <2>1
  <2>3. ASSUME NEW m \in Chain(k) PROVE m <= From(n, i) \/ From(n, j) <= m
    <3>1. CASE m = n
      BY <1>8, <2>2, <2>3, <3>1
    <3>2. CASE m # n
      <4>1. PICK l \in Chain(k)' : From(n, l) = m
        BY <1>6, <2>3, <3>2
      <4>2. l \in DOMAIN submitted' /\ (l <= i \/ j <= l)
        BY <1>7, <2>1
      <4>3. QED
        BY <1>5, <4>1, <4>2
    <3>3. QED
      BY <3>1, <3>2
  <2>4. QED
    BY <2>2, <2>3 DEF Follows
<1>10. ASSUME NEW j \in DOMAIN submitted', Final(k, j)'
       PROVE  Final(k, From(n, j))
  <2>1. j \in Chain(k)' /\ \A l \in Chain(k)' : l <= j
    BY <1>10 DEF Final
  <2>2. From(n, j) \in Chain(k)
    BY <1>7, <2>1
  <2>3. ASSUME NEW m \in Chain(k) PROVE m <= From(n, j)
    <3>1. CASE m = n
      BY <1>8, <2>2, <2>3, <3>1
    <3>2. CASE m # n
      <4>1. PICK l \in Chain(k)' : From(n, l) = m
        BY <1>6, <2>3, <3>2
      <4>2. l \in DOMAIN submitted' /\ l <= j
        BY <1>7, <2>1
      <4>3. QED
        BY <1>5, <4>1, <4>2
    <3>3. QED
      BY <3>1, <3>2
  <2>4. QED
    BY <2>2, <2>3 DEF Final
<1>11. ASSUME NEW j \in DOMAIN submitted', First(k, j)'
       PROVE  IF n \in Chain(k) THEN Follows(k, n, From(n, j)) ELSE First(k, From(n, j))
  <2>1. j \in Chain(k)' /\ \A l \in Chain(k)' : j <= l
    BY <1>11 DEF First
  <2>2. From(n, j) \in Chain(k) /\ From(n, j) # n
    BY <1>3, <1>7, <2>1
  <2>3. ASSUME NEW m \in Chain(k), m # n PROVE From(n, j) <= m
    <3>1. PICK l \in Chain(k)' : From(n, l) = m
      BY <1>6, <2>3
    <3>2. l \in DOMAIN submitted' /\ j <= l
      BY <1>7, <2>1
    <3>3. QED
      BY <1>5, <3>1, <3>2
  <2>4. CASE n \notin Chain(k)
    BY <2>2, <2>3, <2>4 DEF First
  <2>5. CASE n \in Chain(k)
    <3>1. n < From(n, j) /\ n <= n
      BY <1>7, <1>8, <2>2, <2>5
    <3>2. \A m \in Chain(k) : m <= n \/ From(n, j) <= m
      BY <2>3, <3>1
    <3>3. QED
      BY <2>2, <2>5, <3>1, <3>2 DEF Follows
  <2>6. QED
    BY <2>4, <2>5
<1>12. ASSUME Chain(k)' = {}
       PROVE  IF n \in Chain(k) THEN Final(k, n) ELSE Chain(k) = {}
  <2>1. \A m \in Chain(k) : m = n
    BY <1>6, <1>12
  <2>2. n \in Chain(k) => n <= n
    BY <1>7
  <2>3. QED
    BY <2>1, <2>2 DEF Final
<1>13. QED
  BY <1>2, <1>3, <1>4, <1>9, <1>10, <1>11, <1>12

\* For each signal that is given one submission less will give it.
LEMMA CompletesInBalance ==
  ASSUME SubmissionTypes, NEW k \in Kinds, ChainIsSound(k),
         NEW n \in DOMAIN submitted, GpuCompletes(n),
         n \in Chain(k) => Available(k) = {},
         Expected(k)' = Expected(k), Available(k)' = Available(k) \cup Gives(k, submitted[n])
  PROVE  Balanced(k)'
<1>1. submitted' = RemoveAt(submitted, n) /\ submitted[n].begun
  BY DEF GpuCompletes
<1>2. /\ Len(submitted) \in Nat /\ DOMAIN submitted = 1 .. Len(submitted)
      /\ n \in 1 .. Len(submitted) /\ DOMAIN submitted' = 1 .. Len(submitted) - 1
      /\ \A j \in 1 .. Len(submitted) - 1 :
            /\ From(n, j) \in DOMAIN submitted /\ From(n, j) # n
            /\ submitted'[j] = submitted[From(n, j)]
  BY <1>1, CompletedSubmission
<1> SUFFICES ASSUME NEW s \in Tokens(k)
             PROVE  Cardinality(Signaling(s)') + (IF s \in signaled' THEN 1 ELSE 0)
                       = Cardinality(Waiting(s)') + (IF s \in Expected(k) THEN 1 ELSE 0)
  BY DEF Balanced, Tokens
<1> DEFINE a == Cardinality(Signaling(s))
           b == Cardinality(Waiting(s))
<1>3. a + (IF s \in signaled THEN 1 ELSE 0) = b + (IF s \in Expected(k) THEN 1 ELSE 0)
  BY DEF ChainIsSound, Balanced
<1>4. /\ a \in Nat /\ b \in Nat /\ IsFiniteSet(Signaling(s))
      /\ Signaling(s) \subseteq 1 .. Len(submitted) /\ Waiting(s) \subseteq 1 .. Len(submitted)
  BY FinitePositions, FS_CardinalityType
<1>5. Waiting(s)' = {j \in 1 .. Len(submitted) - 1 : From(n, j) \in Waiting(s)}
  BY <1>2 DEF Waiting
<1>6. Waiting(s) \in SUBSET ((1 .. Len(submitted)) \ {n})
  BY <1>1, <1>4 DEF Waiting
<1>7. Cardinality(Waiting(s)') = b
  BY <1>2, <1>5, <1>6, ShiftedPositions
<1>8. Signaling(s)' = {j \in 1 .. Len(submitted) - 1 : From(n, j) \in Signaling(s) \ {n}}
  BY <1>2 DEF Signaling
<1>9. Signaling(s) \ {n} \in SUBSET ((1 .. Len(submitted)) \ {n})
  BY <1>4
<1>10. Cardinality(Signaling(s)') = Cardinality(Signaling(s) \ {n})
  BY <1>2, <1>8, <1>9, ShiftedPositions
<1>11. s \in signaled' <=> s \in signaled \/ s \in Gives(k, submitted[n])
  BY DEF Available, Gives
<1>12. CASE s \in Gives(k, submitted[n])
  <2>1. n \in Chain(k) /\ n \in Signaling(s)
    BY <1>12 DEF Chain, Gives, Signaling
  <2>2. s \notin signaled
    BY <2>1 DEF Available
  <2>3. Cardinality(Signaling(s)') = a - 1
    BY <1>4, <1>10, <2>1, FS_RemoveElement
  <2> HIDE DEF a, b
  <2>4. QED
    BY <1>3, <1>4, <1>7, <1>11, <1>12, <2>2, <2>3
<1>13. CASE s \notin Gives(k, submitted[n])
  <2>1. Signaling(s) \ {n} = Signaling(s)
    BY <1>13 DEF Gives, Signaling
  <2>2. Cardinality(Signaling(s)') = a
    BY <1>10, <2>1
  <2> HIDE DEF a, b
  <2>3. QED
    BY <1>3, <1>4, <1>7, <1>11, <1>13, <2>2
<1>14. QED
  BY <1>12, <1>13

\* A chain is sound after one of its submissions, or another one, has completed.
LEMMA CompletesSoundly ==
  ASSUME TaskTypes, SubmissionTypes, BlocksAreTaken, RunnersWait, NEW k \in Kinds, ChainIsSound(k),
         NEW n \in DOMAIN submitted, GpuCompletes(n)
  PROVE  ChainIsSound(k)'
<1>1. /\ signaled' = signaled \cup submitted[n].signals \cup ({submitted[n].fence} \cap Blocks)
      /\ device' = [j \in Items |-> IF j \in ItemsOf(n) \ raced
                                    THEN staging[submitted[n].fence][j] ELSE device[j]]
      /\ UNCHANGED <<pc, dataTransferred, consumer, ahead, raced>>
      /\ submitted' = RemoveAt(submitted, n) /\ submitted[n].begun
  BY DEF GpuCompletes, taskVars, copyVars
<1>2. Expected(k)' = Expected(k) /\ (Carried(k)' <=> Carried(k))
  BY <1>1 DEF Expected, Carried
<1>3. Available(k)' = Available(k) \cup Gives(k, submitted[n])
  BY <1>1, SemaphoresDiffer DEF Available, Gives
<1>4. /\ n \in Chain(k) => First(k, n) /\ Available(k) = {}
      /\ Chain(k)' = {j \in DOMAIN submitted' : From(n, j) \in Chain(k)}
      /\ \A j \in DOMAIN submitted' : From(n, j) \in DOMAIN submitted
                                      /\ submitted'[j] = submitted[From(n, j)]
      /\ \A i, j \in DOMAIN submitted' : Follows(k, i, j)' => Follows(k, From(n, i), From(n, j))
      /\ \A j \in DOMAIN submitted' : Final(k, j)' => Final(k, From(n, j))
      /\ \A j \in DOMAIN submitted' : First(k, j)' => IF n \in Chain(k)
                                                      THEN Follows(k, n, From(n, j))
                                                      ELSE First(k, From(n, j))
      /\ Chain(k)' = {} => IF n \in Chain(k) THEN Final(k, n) ELSE Chain(k) = {}
  BY ShorterChain
<1>a. \A i : Spoilt(i) => Spoilt(i)'
  <2>1. SUFFICES ASSUME NEW i, NEW m \in DOMAIN submitted, submitted[m].fence \in ahead,
                        i \in ItemsOf(m)
                 PROVE  \E j \in DOMAIN submitted' : submitted'[j].fence \in ahead'
                                                     /\ i \in ItemsOf(j)'
    BY <1>1 DEF Spoilt
  <2>2. m # n
    BY <1>1, <2>1 DEF RunnersWait
  <2>3. PICK j \in DOMAIN submitted' : From(n, j) = m
    BY <1>1, <2>2, CompletedSubmission
  <2>4. submitted'[j] = submitted[m]
    BY <1>4, <2>3
  <2>5. QED
    BY <1>1, <2>1, <2>4 DEF ItemsOf, IsCopy
<1>5. n \notin Chain(k) => Gives(k, submitted[n]) = {} /\ \A i \in Of(k) : LeftAlone(i)
  <2>1. SUFFICES ASSUME n \notin Chain(k)
                 PROVE  Gives(k, submitted[n]) = {} /\ \A i \in Of(k) : LeftAlone(i)
    OBVIOUS
  <2>2. Gives(k, submitted[n]) = {} /\ ItemsOf(n) \cap Of(k) = {}
    BY <2>1, OutsideChain DEF ItemsOf
  <2>3. \A i \in Of(k) : device'[i] = device[i]
    BY <1>1, <2>2, SemaphoresDiffer
  <2>4. QED
    BY <1>a, <2>2, <2>3 DEF LeftAlone
<1>6. IsCopy(submitted[n]) => \A i \in DOMAIN submitted[n].data \cap Of(k) :
                                 device'[i] = submitted[n].data[i] \/ Spoilt(i)'
  BY <1>1, SemaphoresDiffer DEF BlocksAreTaken, StagingIsStable, ItemsOf, Spoilt
<1>7. OnlyFirstBegins(k)'
  <2>1. SUFFICES ASSUME NEW i \in Chain(k)', NEW j \in Chain(k)', i < j
                 PROVE  /\ ~submitted'[j].begun
                        /\ Awaits(k, submitted'[j]) # {}
                        /\ \/ submitted'[i].queue = submitted'[j].queue
                           \/ Awaits(k, submitted'[i]) # Awaits(k, submitted'[j])
    BY DEF OnlyFirstBegins, Awaits
  <2>2. /\ i \in DOMAIN submitted' /\ j \in DOMAIN submitted'
        /\ From(n, i) \in Chain(k) /\ From(n, j) \in Chain(k)
        /\ submitted'[i] = submitted[From(n, i)] /\ submitted'[j] = submitted[From(n, j)]
    BY <1>4
  <2>3. From(n, i) < From(n, j)
    <3>1. submitted' = RemoveAt(submitted, n)
      BY DEF GpuCompletes
    <3>2. /\ Len(submitted) \in Nat /\ n \in 1 .. Len(submitted)
          /\ DOMAIN submitted' = 1 .. Len(submitted) - 1
      BY <3>1, CompletedSubmission
    <3>3. QED
      BY <2>1, <2>2, <3>2, FromIsOrdered
  <2>4. QED
    BY <2>2, <2>3 DEF ChainIsSound, OnlyFirstBegins
<1>8. Linked(k)'
  <2>1. \A i, j \in DOMAIN submitted' :
            Follows(k, i, j)' => Awaits(k, submitted'[j]) = Gives(k, submitted'[i])
    BY <1>4 DEF ChainIsSound, Linked
  <2>2. ASSUME NEW j \in DOMAIN submitted', First(k, j)'
        PROVE  Available(k)' = IF submitted'[j].begun THEN {} ELSE Awaits(k, submitted'[j])
    <3>1. From(n, j) \in DOMAIN submitted /\ submitted'[j] = submitted[From(n, j)]
      BY <1>4
    <3>2. CASE n \notin Chain(k)
      <4>1. First(k, From(n, j)) /\ Available(k)' = Available(k)
        BY <1>3, <1>4, <1>5, <2>2, <3>2
      <4>2. QED
        BY <3>1, <4>1 DEF ChainIsSound, Linked
    <3>3. CASE n \in Chain(k)
      <4>1. Follows(k, n, From(n, j)) /\ Available(k)' = Gives(k, submitted[n])
        BY <1>3, <1>4, <2>2, <3>3
      <4>2. Awaits(k, submitted[From(n, j)]) = Gives(k, submitted[n])
        BY <3>1, <4>1 DEF ChainIsSound, Linked
      <4>3. ~submitted[From(n, j)].begun
        BY <4>1 DEF ChainIsSound, OnlyFirstBegins, Follows
      <4>4. QED
        BY <3>1, <4>1, <4>2, <4>3
    <3>4. QED
      BY <3>2, <3>3
  <2>3. \A j \in DOMAIN submitted' : Final(k, j)' => Gives(k, submitted'[j]) = Expected(k)'
    BY <1>2, <1>4 DEF ChainIsSound, Linked
  <2>4. ASSUME Chain(k)' = {} PROVE Available(k)' = Expected(k)'
    <3>1. CASE n \notin Chain(k)
      BY <1>2, <1>3, <1>4, <1>5, <2>4, <3>1 DEF ChainIsSound, Linked
    <3>2. CASE n \in Chain(k)
      <4>1. Final(k, n) /\ Available(k)' = Gives(k, submitted[n])
        BY <1>3, <1>4, <2>4, <3>2
      <4>2. QED
        BY <1>2, <4>1 DEF ChainIsSound, Linked
    <3>3. QED
      BY <3>1, <3>2
  <2>5. QED
    BY <2>1, <2>2, <2>3, <2>4 DEF Linked, Awaits, Gives
<1>9. Balanced(k)'
  BY <1>2, <1>3, <1>4, CompletesInBalance
<1>10. FrameData(k)'
  <2>1. ASSUME NEW j \in DOMAIN submitted', First(k, j)', ~IsCopy(submitted'[j]),
               NEW i \in DOMAIN submitted'[j].data \cap Of(k)
        PROVE  device'[i] = submitted'[j].data[i] \/ Spoilt(i)'
    <3>1. From(n, j) \in DOMAIN submitted /\ submitted'[j] = submitted[From(n, j)]
          /\ ~IsCopy(submitted[From(n, j)])
      BY <1>4, <2>1
    <3>2. CASE n \notin Chain(k)
      <4>1. First(k, From(n, j)) /\ LeftAlone(i)
        BY <1>4, <1>5, <2>1, <3>2
      <4>2. device[i] = submitted[From(n, j)].data[i] \/ Spoilt(i)
        BY <2>1, <3>1, <4>1 DEF ChainIsSound, FrameData
      <4>3. QED
        BY <3>1, <4>1, <4>2 DEF LeftAlone
    <3>3. CASE n \in Chain(k)
      <4>1. Follows(k, n, From(n, j))
        BY <1>4, <2>1, <3>3
      <4>2. /\ IsCopy(submitted[n]) /\ i \in DOMAIN submitted[n].data
            /\ submitted[From(n, j)].data[i] = submitted[n].data[i]
        BY <3>1, <4>1 DEF ChainIsSound, FrameData
      <4>3. QED
        BY <1>6, <3>1, <4>2
    <3>4. QED
      BY <3>2, <3>3
  <2>2. \A m, j \in DOMAIN submitted' :
            Follows(k, m, j)' /\ ~IsCopy(submitted'[j]) =>
                /\ IsCopy(submitted'[m])
                /\ \A i \in DOMAIN submitted'[j].data \cap Of(k) :
                      /\ i \in DOMAIN submitted'[m].data
                      /\ submitted'[j].data[i] = submitted'[m].data[i]
    BY <1>4 DEF ChainIsSound, FrameData
  <2>3. ASSUME Carried(k)'
        PROVE  /\ \A j \in DOMAIN submitted' :
                     Final(k, j)' => IsCopy(submitted'[j])
                                     /\ submitted'[j].data = dataTransferred'[k]
               /\ Chain(k)' = {} => \A i \in DOMAIN dataTransferred'[k] :
                                       device'[i] = dataTransferred'[k][i] \/ Spoilt(i)'
    <3>1. Carried(k) /\ dataTransferred'[k] = dataTransferred[k]
          /\ DOMAIN dataTransferred[k] \subseteq Of(k)
      BY <1>1, <1>2, <2>3 DEF TaskTypes
    <3>2. \A j \in DOMAIN submitted' :
              Final(k, j)' => IsCopy(submitted'[j]) /\ submitted'[j].data = dataTransferred'[k]
      BY <1>4, <3>1 DEF ChainIsSound, FrameData
    <3>3. ASSUME Chain(k)' = {}, NEW i \in DOMAIN dataTransferred[k]
          PROVE  device'[i] = dataTransferred[k][i] \/ Spoilt(i)'
      <4>1. CASE n \notin Chain(k)
        BY <1>4, <1>5, <3>1, <3>3, <4>1 DEF ChainIsSound, FrameData, LeftAlone
      <4>2. CASE n \in Chain(k)
        <5>1. IsCopy(submitted[n]) /\ submitted[n].data = dataTransferred[k]
          BY <1>4, <3>1, <3>3, <4>2 DEF ChainIsSound, FrameData
        <5>2. i \in DOMAIN submitted[n].data \cap Of(k)
          BY <3>1, <3>3, <5>1
        <5>3. QED
          BY <1>6, <5>1, <5>2
      <4>3. QED
        BY <4>1, <4>2
    <3>4. QED
      BY <3>1, <3>2, <3>3
  <2>4. QED
    BY <2>1, <2>2, <2>3 DEF FrameData, IsCopy, Of
<1>11. QED
  BY <1>7, <1>8, <1>9, <1>10 DEF ChainIsSound

\* A step of which the GPU sees nothing, and that leaves what is expected.
Quiet ==
    /\ UNCHANGED <<submitted, ahead, raced, device>>
    /\ \A k \in Kinds : /\ Available(k)' = Available(k)
                        /\ Expected(k)' = Expected(k)
                        /\ Carried(k)' => Carried(k) /\ dataTransferred'[k] = dataTransferred[k]

\* Steps of the task that do not submit: what a frame has copied is passed on to the next
\* copy, and a call that fails has dropped a semaphore or had none.
LEMMA QuietSteps ==
  ASSUME TaskTypes, KindsInTurn, Next, InStep'
  PROVE  \/ Quiet
         \/ \E k \in Kinds : TransferData(k)
         \/ FinishSubmit
         \/ GpuStep
<1>0. ~dropped' /\ \A k \in Kinds : k # "idle" /\ k # "finish" /\ (k = "early" \/ k = "late")
  BY DEF InStep, Kinds
<1>1. ASSUME UNCHANGED <<submitted, ahead, raced, device, signaled, consumer, pc, dataTransferred>> PROVE Quiet
  BY <1>1 DEF Quiet, Available, Expected, Carried
<1>2. CASE ApplicationStep
  BY <1>1, <1>2, ApplicationChanges DEF taskVars, gpuVars, copyVars
<1>3. CASE Start
  <2>1. /\ pc = "idle" /\ dataTransferred' = [k \in Kinds |-> Nothing]
        /\ UNCHANGED <<submitted, ahead, raced, device, signaled, consumer>>
    BY <1>3 DEF Start, gpuVars, copyVars
  <2>2. \A k \in Kinds : ~Carried(k) /\ ~Carried(k)'
    BY <2>1 DEF Carried
  <2>3. QED
    BY <2>1, <2>2 DEF Quiet, Available, Expected
<1>4. ASSUME NEW k \in Kinds, TransferNothing(k) PROVE Quiet
  <2>1. /\ pc = k /\ pc' = After(k)
        /\ UNCHANGED <<submitted, ahead, raced, device, signaled, consumer, dataTransferred>>
    BY <1>4 DEF TransferNothing, gpuVars, copyVars
  <2>2. pc # "idle" /\ pc' # "idle"
    BY <1>0, <2>1 DEF After
  <2>3. QED
    BY <2>1, <2>2 DEF Quiet, Available, Expected, Carried
<1>5. CASE FinishEmpty
  <2>1. /\ pc = "finish" /\ pc' = "idle" /\ consumer' = Assigned([k \in Kinds |-> Complete(k)])
        /\ UNCHANGED <<submitted, ahead, raced, device, signaled>>
    BY <1>5 DEF FinishEmpty, gpuVars
  <2>2. ASSUME NEW k \in Kinds PROVE Expected(k)' = Expected(k) /\ ~Carried(k)'
    <3>1. Carried(k) <=> k \in Transferred
      BY <2>1 DEF Carried, Transferred
    <3>2. consumer'[k] = IF k \in Transferred THEN {Complete(k)} ELSE consumer[k]
      BY <2>1 DEF Assigned
    <3>3. QED
      BY <2>1, <3>1, <3>2 DEF Expected, Carried
  <2>3. QED
    BY <2>1, <2>2 DEF Quiet, Available
<1>6. CASE FinishSubmitFails
  <2>1. /\ pc = "finish" /\ pc' = "idle" /\ Transferred = {}
        /\ consumer' = Assigned([k \in Kinds |-> ConsumerCompleted(k)])
        /\ UNCHANGED <<submitted, ahead, raced, device, signaled>>
    BY <1>0, <1>6 DEF FinishSubmitFails, gpuVars
  <2>2. ASSUME NEW k \in Kinds PROVE Expected(k)' = Expected(k) /\ ~Carried(k)'
    <3>1. ~Carried(k)
      BY <2>1 DEF Carried, Transferred
    <3>2. consumer'[k] = consumer[k]
      BY <2>1 DEF Assigned
    <3>3. QED
      BY <2>1, <3>1, <3>2 DEF Expected, Carried
  <2>3. QED
    BY <2>1, <2>2 DEF Quiet, Available
<1>7. ASSUME NEW k \in Kinds, pc = k, dataTransferred["early"] = Nothing,
             dataTransferred' = dataTransferred, \A l \in Kinds : consumer'[l] = consumer[l]
      PROVE  \A l \in Kinds : Expected(l)' = Expected(l) /\ ~Carried(l)'
  <2>1. \A l \in Kinds : dataTransferred[l] = Nothing
    BY <1>0, <1>7 DEF KindsInTurn
  <2>2. \A l \in Kinds : ~Carried(l) /\ ~Carried(l)'
    BY <1>7, <2>1 DEF Carried
  <2>3. QED
    BY <1>7, <2>2 DEF Expected
<1>8. ASSUME NEW k \in Kinds, WaitFails(k) PROVE Quiet
  <2>1. /\ pc = k /\ dataTransferred["early"] = Nothing
        /\ UNCHANGED <<submitted, ahead, raced, device, signaled, consumer, dataTransferred>>
    BY <1>0, <1>8 DEF WaitFails, Fail, gpuVars, copyVars
  <2>2. \A l \in Kinds : Expected(l)' = Expected(l) /\ ~Carried(l)'
    BY <1>7, <2>1
  <2>3. QED
    BY <2>1, <2>2 DEF Quiet, Available
<1>9. ASSUME NEW k \in Kinds, SubmitCopyFails(k) PROVE Quiet
  <2>1. /\ PrepareCopy(k) /\ dataTransferred["early"] = Nothing /\ consumer[k] = {}
        /\ UNCHANGED <<submitted, dataTransferred>>
    BY <1>0, <1>9 DEF SubmitCopyFails, Fail
  <2>2. /\ pc = k /\ consumer' = [consumer EXCEPT ![k] = {}] /\ signaled' = signaled \ {Block(k)}
        /\ UNCHANGED <<ahead, raced, device>> /\ Block(k) \in Blocks
    BY <2>1, PreparedCopy, CopiedData
  <2>3. \A l \in Kinds : consumer'[l] = consumer[l]
    BY <2>1, <2>2 DEF TaskTypes
  <2>4. \A l \in Kinds : Expected(l)' = Expected(l) /\ ~Carried(l)'
    BY <1>7, <2>1, <2>2, <2>3
  <2>5. \A l \in Kinds : Available(l)' = Available(l)
    BY <2>2, SemaphoresDiffer DEF Available
  <2>6. QED
    BY <2>1, <2>2, <2>4, <2>5 DEF Quiet
<1>10. QED
  BY <1>2, <1>3, <1>4, <1>5, <1>6, <1>8, <1>9
     DEF Next, TaskStep, TransferStep, TransferFails, ApplicationStep

\* One more submission spoils nothing.
LEMMA AppendedAlone ==
  ASSUME SubmissionTypes, NEW sub \in Submissions, submitted' = Append(submitted, sub),
         UNCHANGED <<ahead, raced, device>>
  PROVE  \A i : LeftAlone(i)
<1>1. \A m \in DOMAIN submitted : m \in DOMAIN submitted' /\ submitted'[m] = submitted[m]
  BY AppendedSubmission
<1>2. QED
  BY <1>1, SpoiltStays DEF LeftAlone

\* One more submission in another chain.
LEMMA AppendedElsewhere ==
  ASSUME TaskTypes, SubmissionTypes, NEW k \in Kinds, ChainIsSound(k),
         NEW sub \in Submissions, submitted' = Append(submitted, sub),
         Gives(k, sub) = {}, Awaits(k, sub) = {},
         Available(k)' = Available(k), Expected(k)' = Expected(k),
         Carried(k)' => Carried(k) /\ dataTransferred'[k] = dataTransferred[k],
         UNCHANGED <<ahead, raced, device>>
  PROVE  ChainIsSound(k)'
<1> DEFINE L == Len(submitted)
<1>1. /\ L \in Nat /\ DOMAIN submitted = 1 .. L /\ DOMAIN submitted' = 1 .. L + 1
      /\ \A j \in 1 .. L : submitted'[j] = submitted[j]
      /\ submitted'[L + 1] = sub
  BY AppendedSubmission
<1> HIDE DEF L
<1>2. Chain(k)' = Chain(k) /\ \A n \in Chain(k) : submitted'[n] = submitted[n]
  BY <1>1 DEF Chain, Gives
<1>3. \A s \in Tokens(k) : s \notin sub.signals /\ s \notin sub.waits
  BY DEF Gives, Awaits
<1>4. \A s \in Tokens(k) : Signaling(s)' = Signaling(s) /\ Waiting(s)' = Waiting(s)
  BY <1>1, <1>3 DEF Signaling, Waiting
<1>5. \A i \in Of(k) : LeftAlone(i)
  BY AppendedAlone
<1>6. QED
  BY <1>2, <1>4, <1>5, SameChain

\* A copy continues the chain of its kind.
LEMMA CopiesSoundly ==
  ASSUME TaskTypes, SubmissionTypes, KindsInTurn, QueuesAreKept, ~handedOver,
         NEW l \in Kinds, TransferData(l), NEW k \in Kinds, ChainIsSound(k)
  PROVE  ChainIsSound(k)'
<1>1. /\ PrepareCopy(l) /\ submitted' = Append(submitted, Copy(l)) /\ pc' = After(l)
      /\ dataTransferred' = [dataTransferred EXCEPT ![l] = Copy(l).data]
  BY DEF TransferData
<1>2. /\ pc = l /\ Modified(l) # {} /\ consumer' = [consumer EXCEPT ![l] = {}]
      /\ signaled' = signaled \ {Block(l)} /\ UNCHANGED <<ahead, raced, device>>
  BY <1>1, PreparedCopy
<1>3. pc # "idle" /\ pc' # "idle" /\ dataTransferred[l] = Nothing
  BY <1>1, <1>2 DEF Kinds, After, KindsInTurn
<1>4. /\ Copy(l) \in Submissions /\ CopyShape(l, Copy(l)) /\ IsCopy(Copy(l))
      /\ Copy(l).queue = transferQueue /\ Awaits(l, Copy(l)) = consumer[l] /\ ~Copy(l).begun
      /\ Gives(l, Copy(l)) = {Complete(l)}
      /\ Copy(l).data # Nothing /\ Block(l) \in Blocks
  BY <1>2, CopyIsSubmission, CopiedData DEF CopyShape
<1>5. Available(k)' = Available(k)
  BY <1>2, <1>4, SemaphoresDiffer DEF Available
<1>6. CASE k # l
  <2>1. Gives(k, Copy(l)) = {} /\ Awaits(k, Copy(l)) = {}
    BY <1>4, <1>6 DEF CopyShape
  <2>2. dataTransferred'[k] = dataTransferred[k] /\ consumer'[k] = consumer[k]
    BY <1>1, <1>2, <1>6 DEF TaskTypes
  <2>3. Expected(k)' = Expected(k) /\ (Carried(k)' => Carried(k))
    BY <1>3, <2>2 DEF Expected, Carried
  <2>4. QED
    BY <1>1, <1>2, <1>4, <1>5, <2>1, <2>2, <2>3, AppendedElsewhere
<1>7. CASE k = l
  <2>1. dataTransferred'[k] = Copy(k).data
    BY <1>1, <1>7 DEF TaskTypes
  <2>2. ~Carried(k) /\ Expected(k) = consumer[k]
    BY <1>3, <1>7 DEF Carried, Expected
  <2>3. Carried(k)' /\ Expected(k)' = {Complete(k)}
    BY <1>3, <1>4, <1>7, <2>1 DEF Carried, Expected
  <2>4. ASSUME NEW m \in Chain(k)
        PROVE  \/ submitted[m].queue = transferQueue
               \/ Awaits(k, submitted[m]) # consumer[k]
    <3>1. /\ m \in DOMAIN submitted /\ Gives(k, submitted[m]) # {}
          /\ FrameShape(submitted[m]) \/ \E j \in Kinds : CopyShape(j, submitted[m])
          /\ submitted[m].queue = IF IsCopy(submitted[m]) THEN transferQueue ELSE "main"
      BY DEF Chain, SubmissionTypes
    <3>2. ~IsCopy(submitted[m]) => Awaits(k, submitted[m]) = {Complete(k)}
      BY <3>1, Shapes
    <3>3. transferQueue # "main" => consumer[k] # {Complete(k)}
      BY DEF QueuesAreKept
    <3>4. QED
      BY <3>1, <3>2, <3>3
  <2>5. \A i \in Of(k) : LeftAlone(i)
    BY <1>1, <1>2, <1>4, AppendedAlone
  <2>6. QED
    BY <1>1, <1>2, <1>4, <1>5, <1>7, <2>1, <2>2, <2>3, <2>4, <2>5, AppendedLink
<1>8. QED
  BY <1>6, <1>7

\* A frame continues the chains of what it has copied.
LEMMA FramesSoundly ==
  ASSUME TaskTypes, SubmissionTypes, QueuesAreKept, ~handedOver, FinishSubmit,
         NEW k \in Kinds, ChainIsSound(k)
  PROVE  ChainIsSound(k)'
<1>1. /\ pc = "finish" /\ pc' = "idle" /\ submitted' = Append(submitted, Frame)
      /\ consumer' = Assigned([l \in Kinds |-> ConsumerCompleted(l)])
      /\ UNCHANGED <<signaled, ahead, raced, device>>
  BY DEF FinishSubmit
<1>2. /\ Frame \in Submissions /\ ~IsCopy(Frame) /\ Frame.queue = "main" /\ ~Frame.begun
      /\ IF k \in Transferred
         THEN Gives(k, Frame) = {ConsumerCompleted(k)} /\ Awaits(k, Frame) = {Complete(k)}
         ELSE Gives(k, Frame) = {} /\ Awaits(k, Frame) = {}
  BY FrameIsSubmission
<1>3. /\ ~Carried(k)' /\ (Carried(k) <=> k \in Transferred) /\ Available(k)' = Available(k)
      /\ consumer'[k] = IF k \in Transferred THEN {ConsumerCompleted(k)} ELSE consumer[k]
  BY <1>1 DEF Carried, Transferred, Available, Assigned
<1>4. CASE k \notin Transferred
  <2>1. Expected(k)' = Expected(k)
    BY <1>3, <1>4 DEF Expected
  <2>2. QED
    BY <1>1, <1>2, <1>3, <1>4, <2>1, AppendedElsewhere
<1>5. CASE k \in Transferred
  <2>1. Expected(k) = {Complete(k)} /\ Expected(k)' = {ConsumerCompleted(k)}
    BY <1>3, <1>5 DEF Expected
  <2>2. ASSUME NEW m \in Chain(k)
        PROVE  submitted[m].queue = "main" \/ Awaits(k, submitted[m]) # {Complete(k)}
    <3>1. /\ m \in DOMAIN submitted
          /\ submitted[m].queue = IF IsCopy(submitted[m]) THEN transferQueue ELSE "main"
      BY DEF Chain, SubmissionTypes
    <3>2. transferQueue # "main" /\ IsCopy(submitted[m])
             => Awaits(k, submitted[m]) # {Complete(k)}
      BY <3>1 DEF QueuesAreKept
    <3>3. QED
      BY <3>1, <3>2
  <2>3. \A i \in DOMAIN Frame.data \cap Of(k) :
            i \in DOMAIN dataTransferred[k] /\ Frame.data[i] = dataTransferred[k][i]
    BY FrameDataTypes
  <2>4. \A i \in Of(k) : LeftAlone(i)
    BY <1>1, <1>2, AppendedAlone
  <2>5. QED
    BY <1>1, <1>2, <1>3, <1>5, <2>1, <2>2, <2>3, <2>4, AppendedLink
<1>6. QED
  BY <1>4, <1>5

\* What was dropped or handed over once stays so.
LEMMA InStepBefore ==
  ASSUME Next, InStep'
  PROVE  InStep
<1>0. ASSUME dropped' = dropped, handedOver' = handedOver PROVE InStep
  BY <1>0, Zenon DEF InStep
<1>1. CASE ApplicationStep \/ Start \/ FinishSubmit
  <2>1. dropped' = dropped /\ handedOver' = handedOver
    BY <1>1 DEF ApplicationStep, Modify, Assign, Orphan, Start, FinishSubmit, faultVars
  <2>2. QED
    BY <1>0, <2>1
<1>2. CASE FinishEmpty
  BY <1>2, Zenon DEF InStep, FinishEmpty
<1>6. CASE FinishSubmitFails
  BY <1>6, Zenon DEF InStep, FinishSubmitFails
<1>3. ASSUME NEW k \in Kinds, TransferStep(k) PROVE InStep
  <2>1. dropped' = dropped /\ handedOver' = handedOver
    BY <1>3 DEF TransferStep, TransferNothing, TransferData, faultVars
  <2>2. QED
    BY <1>0, <2>1
<1>4. ASSUME NEW k \in Kinds, TransferFails(k) PROVE InStep
  <2>1. handedOver' = handedOver /\ (WaitFails(k) \/ SubmitCopyFails(k))
    BY <1>4 DEF TransferFails, WaitFails, SubmitCopyFails, Fail
  <2>2. CASE WaitFails(k)
    BY <2>1, <2>2, Zenon DEF InStep, WaitFails
  <2>3. CASE SubmitCopyFails(k)
    BY <2>1, <2>3, Zenon DEF InStep, SubmitCopyFails
  <2>4. QED
    BY <2>1, <2>2, <2>3
<1>5. CASE GpuStep
  BY <1>5 DEF InStep, GpuStep, GpuRunsAhead, GpuBegins, GpuCompletes, faultVars
<1>7. QED
  BY <1>1, <1>2, <1>3, <1>4, <1>5, <1>6 DEF Next, TaskStep, ApplicationStep

\* The chains, action by action.
LEMMA ChainStep ==
  ASSUME TaskTypes, SubmissionTypes, KindsInTurn, BlocksAreTaken, QueuesAreKept, RunnersWait,
         ChainInv, Next
  PROVE  ChainInv'
<1> SUFFICES ASSUME InStep', NEW k \in Kinds PROVE ChainIsSound(k)'
  BY DEF ChainInv, Kinds
<1>1. InStep /\ ~handedOver /\ ChainIsSound(k)
  BY InStepBefore DEF ChainInv, InStep
<1>2. CASE Quiet
  <2>1. /\ UNCHANGED <<submitted, ahead, raced, device>>
        /\ Available(k)' = Available(k) /\ Expected(k)' = Expected(k)
        /\ Carried(k)' => Carried(k) /\ dataTransferred'[k] = dataTransferred[k]
    BY <1>2 DEF Quiet
  <2>2. Chain(k)' = Chain(k) /\ \A s \in Tokens(k) : Signaling(s)' = Signaling(s)
                                                     /\ Waiting(s)' = Waiting(s)
    BY <2>1 DEF Chain, Gives, Signaling, Waiting
  <2>3. \A i : LeftAlone(i)
    BY <2>1, SpoiltStays DEF LeftAlone
  <2>4. QED
    BY <1>1, <2>1, <2>2, <2>3, SameChain
<1>3. ASSUME NEW l \in Kinds, TransferData(l) PROVE ChainIsSound(k)'
  BY <1>1, <1>3, CopiesSoundly
<1>4. CASE FinishSubmit
  BY <1>1, <1>4, FramesSoundly
<1>5. CASE GpuStep
  BY <1>1, <1>5, RunsAheadSoundly, BeginsSoundly, CompletesSoundly DEF GpuStep
<1>6. QED
  BY <1>2, <1>3, <1>4, <1>5, QuietSteps

--------------------------------------------------------------------------------
(* Copies that run ahead.                                                  *)

\* Copies that run ahead wait for frames and stay in the order of their queue.
LEMMA RunnersStep ==
  ASSUME TaskTypes, SubmissionTypes, BlocksAreTaken, RunnersWait, Next
  PROVE  RunnersWait'
<1>1. ASSUME UNCHANGED <<submitted, ahead>>, waitOnFence \subseteq waitOnFence',
             \A b \in ahead : b \notin signaled'
      PROVE  RunnersWait'
  <2>1. \A n : SameQueueBefore(n)' = SameQueueBefore(n) /\ (AtWork(n)' <=> AtWork(n))
    BY <1>1 DEF SameQueueBefore, AtWork
  <2>2. QED
    BY <1>1, <2>1 DEF RunnersWait
<1>2. CASE ApplicationStep
  BY <1>1, <1>2, ApplicationChanges DEF copyVars, gpuVars, RunnersWait
<1>3. CASE Start \/ FinishEmpty \/ FinishSubmitFails
  BY <1>1, <1>3 DEF Start, FinishEmpty, FinishSubmitFails, copyVars, gpuVars, RunnersWait
<1>4. ASSUME NEW k \in Kinds, TransferNothing(k) \/ WaitFails(k) PROVE RunnersWait'
  BY <1>1, <1>4 DEF TransferNothing, WaitFails, copyVars, gpuVars, RunnersWait
<1>5. ASSUME NEW k \in Kinds, PrepareCopy(k)
      PROVE  /\ UNCHANGED ahead /\ waitOnFence \subseteq waitOnFence'
             /\ \A b \in ahead : b \notin signaled'
             /\ Block(k) \notin ahead
  BY <1>5, PreparedCopy DEF RunnersWait, BlockIsFree
<1>6. ASSUME NEW k \in Kinds, SubmitCopyFails(k) PROVE RunnersWait'
  <2>1. PrepareCopy(k) /\ UNCHANGED submitted
    BY <1>6 DEF SubmitCopyFails
  <2>2. QED
    BY <1>1, <1>5, <2>1
<1>7. ASSUME NEW sub \in Submissions, submitted' = Append(submitted, sub), ahead' = ahead,
             sub.fence \notin ahead, waitOnFence \subseteq waitOnFence',
             \A b \in ahead : b \notin signaled'
      PROVE  RunnersWait'
  <2> DEFINE L == Len(submitted)
  <2>1. /\ L \in Nat /\ DOMAIN submitted = 1 .. L /\ DOMAIN submitted' = 1 .. L + 1
        /\ \A j \in 1 .. L : submitted'[j] = submitted[j]
        /\ submitted'[L + 1] = sub
    BY <1>7, AppendedSubmission
  <2> HIDE DEF L
  <2>2. ASSUME NEW n \in DOMAIN submitted', submitted'[n].fence \in ahead'
        PROVE  /\ ~submitted'[n].begun
               /\ submitted'[n].waits \subseteq {ConsumerCompleted(k) : k \in Kinds}
               /\ \A m \in SameQueueBefore(n)' : AtWork(m)'
    <3>1. n \in 1 .. L /\ submitted'[n] = submitted[n]
      BY <1>7, <2>1, <2>2
    <3>2. \A m \in 1 .. n - 1 : m \in 1 .. L /\ submitted'[m] = submitted[m]
      BY <2>1, <3>1
    <3>3. SameQueueBefore(n)' = SameQueueBefore(n)
      BY <3>1, <3>2 DEF SameQueueBefore
    <3>4. \A m \in SameQueueBefore(n) : AtWork(m)' <=> AtWork(m)
      BY <1>7, <3>2 DEF SameQueueBefore, AtWork
    <3>5. QED
      BY <1>7, <2>1, <2>2, <3>1, <3>3, <3>4 DEF RunnersWait
  <2>3. QED
    BY <1>7, <2>2 DEF RunnersWait
<1>8. ASSUME NEW k \in Kinds, TransferData(k) PROVE RunnersWait'
  <2>1. PrepareCopy(k) /\ submitted' = Append(submitted, Copy(k))
    BY <1>8 DEF TransferData
  <2>2. Copy(k) \in Submissions /\ Copy(k).fence = Block(k)
    BY CopyIsSubmission
  <2>3. QED
    BY <1>5, <1>7, <2>1, <2>2
<1>9. CASE FinishSubmit
  <2>1. submitted' = Append(submitted, Frame) /\ UNCHANGED <<ahead, waitOnFence, signaled>>
    BY <1>9 DEF FinishSubmit
  <2>2. Frame \in Submissions /\ Frame.fence \notin Blocks
    BY FrameIsSubmission DEF IsCopy
  <2>3. ahead \subseteq Blocks /\ \A b \in ahead : b \notin signaled'
    BY <2>1 DEF RunnersWait, TaskTypes
  <2>4. QED
    BY <1>7, <2>1, <2>2, <2>3
<1>10. ASSUME NEW n \in DOMAIN submitted, GpuRunsAhead(n) PROVE RunnersWait'
  <2>1. /\ IsCopy(submitted[n]) /\ ~submitted[n].begun
        /\ submitted[n].waits \subseteq {ConsumerCompleted(k) : k \in Kinds}
        /\ \A m \in SameQueueBefore(n) : AtWork(m)
        /\ ahead' = ahead \cup {submitted[n].fence}
        /\ UNCHANGED <<submitted, signaled, waitOnFence>>
    BY <1>10 DEF GpuRunsAhead, AtWork, copyVars
  <2>2. submitted[n].fence \in waitOnFence \ signaled
    BY <2>1 DEF BlocksAreTaken
  <2>3. /\ \A m : SameQueueBefore(m)' = SameQueueBefore(m)
        /\ \A m : AtWork(m) => AtWork(m)'
    BY <2>1 DEF SameQueueBefore, AtWork
  <2>4. ASSUME NEW m \in DOMAIN submitted, submitted[m].fence = submitted[n].fence
        PROVE  m = n
    BY <2>1, <2>4 DEF BlocksAreTaken
  <2>5. QED
    BY <2>1, <2>2, <2>3, <2>4 DEF RunnersWait
<1>11. ASSUME NEW n \in DOMAIN submitted, GpuBegins(n) PROVE RunnersWait'
  <2>1. /\ submitted' = [submitted EXCEPT ![n].begun = TRUE] /\ signaled' \subseteq signaled
        /\ ahead' = ahead \ {submitted[n].fence} /\ UNCHANGED waitOnFence
    BY <1>11 DEF GpuBegins, copyVars
  <2>2. /\ DOMAIN submitted' = DOMAIN submitted /\ DOMAIN submitted = 1 .. Len(submitted)
        /\ Len(submitted) \in Nat
        /\ \A j \in DOMAIN submitted :
              /\ submitted'[j].queue = submitted[j].queue
              /\ submitted'[j].fence = submitted[j].fence
              /\ submitted'[j].waits = submitted[j].waits
              /\ submitted'[j].begun = (submitted[j].begun \/ j = n)
    BY <2>1, BegunSubmission, LenProperties DEF SubmissionTypes
  <2>3. ASSUME NEW m \in DOMAIN submitted, AtWork(m) PROVE AtWork(m)'
    <3>1. CASE m = n
      BY <2>2, <3>1 DEF AtWork
    <3>2. CASE m # n /\ submitted[m].fence \in ahead
      <4>1. submitted[m].fence \in Blocks
        BY <3>2 DEF RunnersWait, TaskTypes
      <4>2. submitted[m].fence # submitted[n].fence
        BY <3>2, <4>1 DEF BlocksAreTaken, IsCopy
      <4>3. QED
        BY <2>1, <2>2, <3>2, <4>2 DEF AtWork
    <3>3. CASE submitted[m].begun
      BY <2>2, <3>3 DEF AtWork
    <3>4. QED
      BY <2>3, <3>1, <3>2, <3>3 DEF AtWork
  <2>4. ASSUME NEW m \in DOMAIN submitted, submitted'[m].fence \in ahead'
        PROVE  /\ ~submitted'[m].begun
               /\ submitted'[m].waits \subseteq {ConsumerCompleted(k) : k \in Kinds}
               /\ \A j \in SameQueueBefore(m)' : AtWork(j)'
    <3>1. m # n /\ submitted[m].fence \in ahead
      BY <2>1, <2>2, <2>4
    <3>2. SameQueueBefore(m)' = SameQueueBefore(m) /\ SameQueueBefore(m) \subseteq DOMAIN submitted
      BY <2>2 DEF SameQueueBefore
    <3>3. QED
      BY <2>2, <2>3, <3>1, <3>2 DEF RunnersWait
  <2>5. QED
    BY <2>1, <2>2, <2>4 DEF RunnersWait
<1>12. ASSUME NEW n \in DOMAIN submitted, GpuCompletes(n) PROVE RunnersWait'
  <2>1. /\ submitted' = RemoveAt(submitted, n) /\ submitted[n].begun
        /\ signaled' = signaled \cup submitted[n].signals \cup ({submitted[n].fence} \cap Blocks)
        /\ UNCHANGED <<ahead, waitOnFence>>
    BY <1>12 DEF GpuCompletes, copyVars
  <2>2. /\ Len(submitted) \in Nat /\ DOMAIN submitted = 1 .. Len(submitted)
        /\ n \in 1 .. Len(submitted) /\ DOMAIN submitted' = 1 .. Len(submitted) - 1
        /\ \A j \in 1 .. Len(submitted) - 1 :
              /\ From(n, j) \in DOMAIN submitted /\ From(n, j) # n
              /\ submitted'[j] = submitted[From(n, j)]
    BY <2>1, CompletedSubmission
  <2>3. submitted[n].fence \notin ahead /\ submitted[n].signals \cap Blocks = {}
    <3>1. submitted[n] \in Submissions
      BY DEF SubmissionTypes
    <3>2. submitted[n].signals \subseteq SemaphoresOf
      BY <3>1 DEF Submissions
    <3>3. QED
      BY <2>1, <3>2, SemaphoresDiffer DEF RunnersWait
  <2>4. ahead' \subseteq waitOnFence' \ signaled'
    BY <2>1, <2>3 DEF RunnersWait, TaskTypes
  <2>5. ASSUME NEW j \in DOMAIN submitted', submitted'[j].fence \in ahead'
        PROVE  /\ ~submitted'[j].begun
               /\ submitted'[j].waits \subseteq {ConsumerCompleted(k) : k \in Kinds}
               /\ \A m \in SameQueueBefore(j)' : AtWork(m)'
    <3>1. /\ From(n, j) \in DOMAIN submitted /\ submitted'[j] = submitted[From(n, j)]
          /\ submitted[From(n, j)].fence \in ahead
      BY <2>1, <2>2, <2>5
    <3>2. ASSUME NEW m \in SameQueueBefore(j)' PROVE AtWork(m)'
      <4>1. m \in 1 .. j - 1 /\ submitted'[m].queue = submitted'[j].queue
        BY <3>2 DEF SameQueueBefore
      <4>2. /\ m \in 1 .. Len(submitted) - 1 /\ submitted'[m] = submitted[From(n, m)]
            /\ From(n, m) \in 1 .. Len(submitted)
        BY <2>2, <4>1
      <4>3. From(n, m) < From(n, j)
        <5>1. m \in Int /\ j \in Int /\ n \in Int /\ m < j
          BY <2>2, <4>1
        <5>2. QED
          BY <5>1 DEF From
      <4>4. From(n, m) \in SameQueueBefore(From(n, j))
        BY <2>2, <3>1, <4>1, <4>2, <4>3 DEF SameQueueBefore
      <4>5. AtWork(From(n, m))
        BY <3>1, <4>4 DEF RunnersWait
      <4>6. QED
        BY <2>1, <4>2, <4>5 DEF AtWork
    <3>3. QED
      BY <3>1, <3>2 DEF RunnersWait
  <2>6. QED
    BY <2>4, <2>5 DEF RunnersWait
<1>13. CASE GpuStep
  BY <1>10, <1>11, <1>12, <1>13 DEF GpuStep
<1>14. QED
  BY <1>2, <1>3, <1>4, <1>6, <1>8, <1>9, <1>13
     DEF Next, TaskStep, TransferStep, TransferFails, ApplicationStep

\* What a submission of a chain follows.
LEMMA Predecessor ==
  ASSUME SubmissionTypes, NEW k \in Kinds, NEW m \in Chain(k), NEW n \in Chain(k), m < n
  PROVE  \E p \in Chain(k) : Follows(k, p, n) /\ m <= p
<1> DEFINE S == {l \in Chain(k) : l < n}
<1>1. /\ Len(submitted) \in Nat /\ DOMAIN submitted = 1 .. Len(submitted)
      /\ Chain(k) \subseteq 1 .. Len(submitted)
  BY LenProperties DEF SubmissionTypes, Chain
<1>2. S \in SUBSET (1 .. Len(submitted)) /\ m \in S
  BY <1>1
<1>3. PICK p \in S : \A l \in S : l <= p
  BY <1>1, <1>2, GreatestElement
<1>4. p \in Chain(k) /\ p < n /\ m <= p
  BY <1>2, <1>3
<1>5. \A l \in Chain(k) : l <= p \/ n <= l
  BY <1>1, <1>3
<1>6. QED
  BY <1>4, <1>5 DEF Follows

\* In one queue, a copy begins to write only when no other copy of its items is at work.
LEMMA WritesAlone ==
  ASSUME SubmissionTypes, RunnersWait, ahead \subseteq Blocks, transferQueue = "main",
         \A k \in Kinds : ChainIsSound(k),
         NEW n \in DOMAIN submitted, ~AtWork(n), GpuRunsAhead(n) \/ GpuBegins(n),
         NEW m \in DOMAIN submitted, m # n, AtWork(m)
  PROVE  ItemsOf(n) \cap ItemsOf(m) = {}
<1> SUFFICES ASSUME NEW i \in ItemsOf(n), i \in ItemsOf(m) PROVE FALSE
  OBVIOUS
<1>1. /\ IsCopy(submitted[n]) /\ i \in DOMAIN submitted[n].data
      /\ IsCopy(submitted[m]) /\ i \in DOMAIN submitted[m].data
  BY DEF ItemsOf
<1>2. i \in Items
  <2>1. submitted[n] \in Submissions
    BY DEF SubmissionTypes
  <2>2. QED
    BY <1>1, <2>1 DEF Submissions, Contents
<1>3. PICK k \in Kinds : i \in Of(k)
  BY <1>2 DEF Kinds, Of
<1>4. n \in Chain(k) /\ m \in Chain(k) /\ ChainIsSound(k)
  BY <1>1, <1>3, OutsideChain
<1>5. /\ \A j \in DOMAIN submitted : submitted[j].queue = "main"
      /\ DOMAIN submitted = 1 .. Len(submitted) /\ Len(submitted) \in Nat
  BY LenProperties DEF SubmissionTypes
<1>6. \A j \in DOMAIN submitted : \A l \in DOMAIN submitted : j < l => j \in SameQueueBefore(l)
  BY <1>5 DEF SameQueueBefore
<1>7. CASE m < n
  <2>1. CASE GpuBegins(n)
    <3>1. n <= m
      BY <1>4, <2>1, BeginsAsFirst DEF First
    <3>2. QED
      BY <1>5, <1>7, <3>1
  <2>2. CASE GpuRunsAhead(n)
    <3>1. PICK p \in Chain(k) : Follows(k, p, n) /\ m <= p
      BY <1>4, <1>7, Predecessor
    <3>2. p \in DOMAIN submitted /\ p < n
      BY <3>1 DEF Chain, Follows
    <3>3. /\ Awaits(k, submitted[n]) = Gives(k, submitted[p])
          /\ Awaits(k, submitted[n]) # {}
      BY <1>4, <1>7, <3>1, <3>2 DEF ChainIsSound, Linked, OnlyFirstBegins
    <3>4. submitted[n].waits \subseteq {ConsumerCompleted(l) : l \in Kinds}
      BY <2>2 DEF GpuRunsAhead
    <3>5. Complete(k) \notin submitted[n].waits
      BY <3>4 DEF Complete, ConsumerCompleted
    <3>6. ~IsCopy(submitted[p])
      <4>1. ASSUME IsCopy(submitted[p]) PROVE Gives(k, submitted[p]) = {Complete(k)}
        <5>1. /\ FrameShape(submitted[p]) \/ \E l \in Kinds : CopyShape(l, submitted[p])
              /\ Gives(k, submitted[p]) # {}
          BY <3>2, <3>3 DEF SubmissionTypes
        <5>2. CopyShape(k, submitted[p])
          BY <4>1, <5>1, Shapes
        <5>3. QED
          BY <5>2 DEF CopyShape
      <4>2. QED
        BY <3>3, <3>5, <4>1 DEF Awaits
    <3>7. AtWork(p)
      <4>1. p \in SameQueueBefore(n)
        BY <1>6, <3>2
      <4>2. QED
        BY <2>2, <4>1 DEF GpuRunsAhead, AtWork
    <3>8. submitted[p].begun
      BY <3>6, <3>7 DEF AtWork, IsCopy
    <3>9. p <= m
      BY <1>4, <3>1, <3>8, BegunIsFirst DEF First
    <3>10. p = m
      BY <1>5, <3>1, <3>2, <3>9
    <3>11. QED
      BY <1>1, <3>6, <3>10
  <2>3. QED
    BY <2>1, <2>2
<1>8. CASE n < m
  <2>1. CASE submitted[m].begun
    <3>1. m <= n
      BY <1>4, <2>1, BegunIsFirst DEF First
    <3>2. QED
      BY <1>5, <1>8, <3>1
  <2>2. CASE submitted[m].fence \in ahead
    <3>1. n \in SameQueueBefore(m)
      BY <1>6, <1>8
    <3>2. AtWork(n)
      BY <2>2, <3>1 DEF RunnersWait
    <3>3. QED
      BY <3>2
  <2>3. QED
    BY <2>1, <2>2 DEF AtWork
<1>9. QED
  BY <1>5, <1>7, <1>8

\* Races, action by action.
LEMMA RacesStep ==
  ASSUME TaskTypes, SubmissionTypes, KindsInTurn, RunnersWait, NoRaces, ChainInv, Next
  PROVE  NoRaces'
<1> SUFFICES ASSUME InStep', transferQueue' = "main" PROVE raced' = {}
  BY DEF NoRaces
<1>1. InStep /\ transferQueue = "main" /\ raced = {} /\ \A k \in Kinds : ChainIsSound(k)
  BY InStepBefore, QueueIsFixed DEF NoRaces, ChainInv
<1>2. ahead \subseteq Blocks
  BY DEF RunnersWait, TaskTypes
<1>3. CASE Quiet
  BY <1>1, <1>3 DEF Quiet
<1>4. ASSUME NEW k \in Kinds, TransferData(k) PROVE raced' = {}
  BY <1>1, <1>4, PreparedCopy DEF TransferData
<1>5. CASE FinishSubmit
  BY <1>1, <1>5 DEF FinishSubmit
<1>6. ASSUME NEW n \in DOMAIN submitted, GpuRunsAhead(n) \/ GpuBegins(n), Writes(n), ~AtWork(n)
      PROVE  raced' = {}
  <2> DEFINE others == {m \in DOMAIN submitted \ {n} : submitted[m].begun
                                                       \/ submitted[m].fence \in ahead}
  <2>1. raced' = (raced \ ItemsOf(n)) \cup (ItemsOf(n) \cap UNION {ItemsOf(m) : m \in others})
    BY <1>6 DEF Writes
  <2>2. \A m \in others : ItemsOf(n) \cap ItemsOf(m) = {}
    BY <1>1, <1>2, <1>6, WritesAlone DEF AtWork
  <2> HIDE DEF others
  <2>3. QED
    BY <1>1, <2>1, <2>2
<1>7. ASSUME NEW n \in DOMAIN submitted, GpuRunsAhead(n) PROVE raced' = {}
  BY <1>6, <1>7 DEF GpuRunsAhead, AtWork
<1>8. ASSUME NEW n \in DOMAIN submitted, GpuBegins(n) PROVE raced' = {}
  <2>1. CASE submitted[n].fence \in ahead
    BY <1>1, <1>8, <2>1 DEF GpuBegins
  <2>2. CASE submitted[n].fence \notin ahead
    BY <1>6, <1>8, <2>2 DEF GpuBegins, AtWork
  <2>3. QED
    BY <2>1, <2>2
<1>9. ASSUME NEW n \in DOMAIN submitted, GpuCompletes(n) PROVE raced' = {}
  BY <1>1, <1>9 DEF GpuCompletes
<1>10. QED
  BY <1>3, <1>4, <1>5, <1>7, <1>8, <1>9, QuietSteps DEF GpuStep

--------------------------------------------------------------------------------
(* The theorems.                                                           *)

\* The invariant holds at first.
LEMMA TransferInit == Init => TransferInv
<1> SUFFICES ASSUME Init PROVE TransferInv
  OBVIOUS
<1>1. TaskTypes /\ SubmissionTypes /\ KindsInTurn
  BY TypesInit
<1>2. /\ submitted = <<>> /\ DOMAIN submitted = {} /\ signaled = {} /\ waitOnFence = {}
      /\ pc = "idle" /\ ahead = {} /\ raced = {} /\ \A k \in Kinds : consumer[k] = {}
      /\ \A i \in Items : device[i] = copiedCount[i]
  BY DEF Init
<1>3. BlocksAreTaken
  BY <1>2 DEF BlocksAreTaken, StagingIsStable
<1>4. LastCopyIsCurrent /\ TakenBlocksHaveCopies
  BY <1>2 DEF LastCopyIsCurrent, Carriers, TakenBlocksHaveCopies
<1>5. QueuesAreKept /\ RunnersWait /\ NoRaces
  BY <1>2 DEF QueuesAreKept, RunnersWait, NoRaces
<1>6. ASSUME NEW k \in Kinds PROVE ChainIsSound(k)
  <2>1. Chain(k) = {} /\ Available(k) = {} /\ ~Carried(k) /\ Expected(k) = {}
    BY <1>2 DEF Chain, Available, Carried, Expected
  <2>2. OnlyFirstBegins(k) /\ Linked(k) /\ FrameData(k)
    BY <1>2, <2>1 DEF OnlyFirstBegins, Linked, FrameData
  <2>3. \A s : Signaling(s) = {} /\ Waiting(s) = {} /\ s \notin signaled
    BY <1>2 DEF Signaling, Waiting
  <2>4. Balanced(k)
    BY <2>1, <2>3 DEF Balanced
  <2>5. QED
    BY <2>2, <2>4 DEF ChainIsSound
<1>7. QED
  BY <1>1, <1>3, <1>4, <1>5, <1>6 DEF TransferInv, ChainInv

\* Every step keeps the invariant.
LEMMA TransferStepKeeps == TransferInv /\ [Next]_vars => TransferInv'
<1> SUFFICES ASSUME TransferInv, [Next]_vars PROVE TransferInv'
  OBVIOUS
<1> USE DEF TransferInv
<1>1. CASE Next
  BY <1>1, TypesStep, SubmissionTypesStep, TurnsStep, BlocksStep, LastCopyStep,
     TakenBlocksStep, QueuesStep, RunnersStep, RacesStep, ChainStep
<1>2. CASE UNCHANGED vars
  <2>1. TaskTypes' /\ KindsInTurn'
    BY <1>2 DEF vars, taskVars, dataVars, copyVars, gpuVars, faultVars, TaskTypes,
                KindsInTurn, Carried
  <2>2. SubmissionTypes'
    BY <1>2 DEF vars, gpuVars, faultVars, SubmissionTypes
  <2>3. BlocksAreTaken' /\ LastCopyIsCurrent' /\ TakenBlocksHaveCopies' /\ QueuesAreKept'
    BY <1>2 DEF vars, taskVars, dataVars, copyVars, gpuVars, faultVars, BlocksAreTaken,
                StagingIsStable, LastCopyIsCurrent, Carriers, TakenBlocksHaveCopies,
                QueuesAreKept, Awaits, IsCopy
  <2>a. RunnersWait' /\ NoRaces'
    BY <1>2 DEF vars, copyVars, gpuVars, faultVars, RunnersWait, AtWork, SameQueueBefore,
                NoRaces, InStep
  <2>4. ChainInv'
    <3>1. SUFFICES ASSUME InStep, NEW k \in Kinds PROVE ChainIsSound(k)'
      BY <1>2 DEF ChainInv, InStep, Kinds, vars, faultVars
    <3>2. /\ UNCHANGED <<submitted, ahead, raced, device, signaled, consumer, pc,
                         dataTransferred>>
          /\ ChainIsSound(k)
      BY <1>2, <3>1 DEF vars, taskVars, copyVars, gpuVars, ChainInv
    <3>3. /\ Chain(k)' = Chain(k) /\ Available(k)' = Available(k) /\ Expected(k)' = Expected(k)
          /\ \A s \in Tokens(k) : Signaling(s)' = Signaling(s) /\ Waiting(s)' = Waiting(s)
          /\ Carried(k)' = Carried(k)
      BY <3>2 DEF Chain, Gives, Available, Expected, Carried, Signaling, Waiting
    <3>4. \A i : LeftAlone(i)
      BY <3>2, SpoiltStays DEF LeftAlone
    <3>5. QED
      BY <3>2, <3>3, <3>4, SameChain
  <2>5. QED
    BY <2>1, <2>2, <2>3, <2>4, <2>a
<1>3. QED
  BY <1>1, <1>2

\* The inductive invariant: types, turns, the ring of blocks, what the last copies carry,
\* and the chains of copies and frames.
THEOREM TransferInvariant == Spec => []TransferInv
BY TransferInit, TransferStepKeeps, PTL DEF Spec

\* Whatever calls fail, no block is overwritten before the GPU has read it.
THEOREM BlocksAreStable == Spec => []StagingIsStable
<1>1. TransferInv => StagingIsStable
  BY DEF TransferInv, BlocksAreTaken
<1>2. QED
  BY <1>1, TransferInvariant, PTL

\* Unless a call fails, what is taken for copied is on the device or on its way.
THEOREM ModificationsArrive == Spec => []NoModificationLost
<1>1. TransferInv => NoModificationLost
  <2>1. SUFFICES ASSUME LastCopyIsCurrent, failures = 0,
                        NEW i \in Items \ raced, device[i] # copiedCount[i]
                 PROVE  \E n \in DOMAIN submitted :
                           /\ IsCopy(submitted[n]) /\ i \in DOMAIN submitted[n].data
                           /\ submitted[n].data[i] = copiedCount[i]
    BY DEF TransferInv, NoModificationLost
  <2>2. PICK n \in Carriers(i) : submitted[n].data[i] = copiedCount[i]
    BY <2>1 DEF LastCopyIsCurrent
  <2>3. QED
    BY <2>2 DEF Carriers
<1>2. QED
  BY <1>1, TransferInvariant, PTL

\* In step, each wait for a binary semaphore has its own signal, and none is signaled twice.
THEOREM SemaphoresAreBinary == Spec => []SemaphoresAlternate
<1>1. TransferInv => SemaphoresAlternate
  <2>1. SUFFICES ASSUME SubmissionTypes, ChainInv, InStep, NEW s \in SemaphoresOf
                 PROVE  /\ Cardinality(Signaling(s)) + (IF s \in signaled THEN 1 ELSE 0)
                               - Cardinality(Waiting(s)) \in {0, 1}
                        /\ s \in signaled => \A n \in Signaling(s) : ~submitted[n].begun
    BY DEF TransferInv, SemaphoresAlternate
  <2>2. PICK k \in Kinds : s \in Tokens(k)
    BY SemaphoresDiffer
  <2>3. ChainIsSound(k)
    BY <2>1 DEF ChainInv
  <2> DEFINE a == Cardinality(Signaling(s))
             b == Cardinality(Waiting(s))
  <2>4. a + (IF s \in signaled THEN 1 ELSE 0) = b + (IF s \in Expected(k) THEN 1 ELSE 0)
    BY <2>2, <2>3 DEF ChainIsSound, Balanced
  <2>5. a \in Nat /\ b \in Nat
    BY <2>1, FinitePositions, FS_CardinalityType
  <2>6. ASSUME s \in signaled, NEW n \in Signaling(s), submitted[n].begun PROVE FALSE
    <3>1. n \in Chain(k)
      BY <2>2 DEF Chain, Gives, Signaling
    <3>2. Available(k) = {}
      BY <2>1, <2>3, <2>6, <3>1, BegunIsFirst
    <3>3. QED
      BY <2>2, <2>6, <3>2 DEF Available
  <2> HIDE DEF a, b
  <2>7. a + (IF s \in signaled THEN 1 ELSE 0) - b \in {0, 1}
    BY <2>4, <2>5
  <2>8. QED
    BY <2>6, <2>7 DEF a, b
<1>2. QED
  BY <1>1, TransferInvariant, PTL

\* In step, a frame that executes reads exactly what the copies it waited for carried, until
\* a copy that waits for this frame runs ahead; in the queue of the frames no copies race.
THEOREM FramesReadTheirData == Spec => []FrameSeesItsData
<1>1. TransferInv => FrameSeesItsData
  <2>1. SUFFICES ASSUME TransferInv, InStep, NEW n \in DOMAIN submitted,
                        ~IsCopy(submitted[n]), submitted[n].begun,
                        NEW i \in DOMAIN submitted[n].data \ raced
                 PROVE  device[i] = submitted[n].data[i] \/ OverwritesEarly(n, i)
    BY DEF TransferInv, NoRaces, FrameSeesItsData
  <2>2. /\ submitted[n] \in Submissions
        /\ FrameShape(submitted[n]) \/ \E k \in Kinds : CopyShape(k, submitted[n])
    BY <2>1 DEF TransferInv, SubmissionTypes
  <2>3. FrameShape(submitted[n])
    BY <2>1, <2>2, Shapes DEF Kinds
  <2>4. i \in Items
    BY <2>2 DEF Submissions, Contents
  <2>5. PICK k \in Kinds : i \in Of(k)
    BY <2>4 DEF Kinds, Of
  <2>6. n \in Chain(k) /\ Gives(k, submitted[n]) = {ConsumerCompleted(k)}
    BY <2>1, <2>3, <2>5 DEF FrameShape, Chain
  <2>7. SubmissionTypes /\ ChainIsSound(k)
    BY <2>1 DEF TransferInv, ChainInv
  <2>8. First(k, n)
    BY <2>1, <2>6, <2>7, BegunIsFirst
  <2>9. device[i] = submitted[n].data[i] \/ Spoilt(i)
    BY <2>1, <2>5, <2>7, <2>8 DEF ChainIsSound, FrameData
  <2>10. ASSUME NEW m \in DOMAIN submitted, submitted[m].fence \in ahead, i \in ItemsOf(m)
         PROVE  OverwritesEarly(n, i)
    <3>1. IsCopy(submitted[m]) /\ i \in DOMAIN submitted[m].data /\ m # n
      BY <2>1, <2>10 DEF ItemsOf
    <3>2. m \in Chain(k)
      BY <2>5, <2>7, <3>1, OutsideChain
    <3>3. n < m
      BY <2>7, <2>8, <3>1, <3>2, LenProperties DEF First, Chain, SubmissionTypes
    <3>4. Awaits(k, submitted[m]) # {}
      BY <2>6, <2>7, <3>2, <3>3 DEF ChainIsSound, OnlyFirstBegins
    <3>5. submitted[m].waits \subseteq {ConsumerCompleted(l) : l \in Kinds}
      BY <2>1, <2>10 DEF TransferInv, RunnersWait
    <3>6. \A l \in Kinds : ConsumerCompleted(l) \in Tokens(k) => l = k
      BY SemaphoresDiffer DEF Tokens
    <3>7. ConsumerCompleted(k) \in submitted[m].waits
      BY <3>4, <3>5, <3>6 DEF Awaits
    <3>8. ConsumerCompleted(k) \in submitted[n].signals
      BY <2>6 DEF Gives
    <3>9. QED
      BY <2>10, <3>7, <3>8 DEF OverwritesEarly
  <2>11. QED
    BY <2>1, <2>9, <2>10 DEF Spoilt
<1>2. QED
  BY <1>1, TransferInvariant, PTL

\* Unless a call fails or a semaphore goes to the other queue, the oldest submission can
\* always go on, and each fence to wait for is that of a copy.
THEOREM WaitsEnd == Spec => []NothingWaitsInVain
<1>1. TransferInv => NothingWaitsInVain
  <2>1. SUFFICES ASSUME TransferInv, failures = 0, ~handedOver
                 PROVE  /\ submitted # <<>> =>
                              \E n \in DOMAIN submitted :
                                  IF submitted[n].begun THEN SameQueueBefore(n) = {}
                                  ELSE /\ \A m \in SameQueueBefore(n) : submitted[m].begun
                                       /\ submitted[n].waits \subseteq signaled
                        /\ \A b \in waitOnFence \ signaled :
                              \E n \in DOMAIN submitted : submitted[n].fence = b
    BY DEF NothingWaitsInVain
  <2>2. InStep /\ \A k \in Kinds : ChainIsSound(k)
    BY <2>1 DEF TransferInv, KindsInTurn, ChainInv, InStep
  <2>3. ASSUME submitted # <<>>
        PROVE  /\ 1 \in DOMAIN submitted /\ SameQueueBefore(1) = {}
               /\ ~submitted[1].begun => submitted[1].waits \subseteq signaled
    <3>1. /\ Len(submitted) \in Nat /\ DOMAIN submitted = 1 .. Len(submitted)
          /\ Len(submitted) # 0 /\ 1 \in DOMAIN submitted
      <4>1. submitted \in Seq(Submissions)
        BY <2>1 DEF TransferInv, SubmissionTypes
      <4>2. Len(submitted) \in Nat /\ DOMAIN submitted = 1 .. Len(submitted)
        BY <4>1, LenProperties
      <4>3. Len(submitted) # 0
        BY <2>3, <4>1, EmptySeq
      <4>4. QED
        BY <4>2, <4>3
    <3>2. SameQueueBefore(1) = {}
      BY DEF SameQueueBefore
    <3>3. ASSUME ~submitted[1].begun, NEW s \in submitted[1].waits PROVE s \in signaled
      <4>1. /\ submitted[1] \in Submissions
            /\ FrameShape(submitted[1]) \/ \E k \in Kinds : CopyShape(k, submitted[1])
        BY <2>1, <3>1 DEF TransferInv, SubmissionTypes
      <4>2. PICK k \in Kinds : s \in Tokens(k)
        BY <4>1, SemaphoresDiffer DEF Submissions
      <4>3. s \in Awaits(k, submitted[1])
        BY <4>2 DEF Awaits
      <4>4. Gives(k, submitted[1]) # {}
        BY <4>1, <4>3, Shapes
      <4>5. First(k, 1)
        BY <3>1, <4>4 DEF First, Chain
      <4>6. Available(k) = Awaits(k, submitted[1])
        BY <2>2, <3>1, <3>3, <4>5 DEF ChainIsSound, Linked
      <4>7. QED
        BY <4>3, <4>6 DEF Available
    <3>4. QED
      BY <3>1, <3>2, <3>3
  <2>4. ASSUME submitted # <<>>
        PROVE  \E n \in DOMAIN submitted :
                   IF submitted[n].begun THEN SameQueueBefore(n) = {}
                   ELSE /\ \A m \in SameQueueBefore(n) : submitted[m].begun
                        /\ submitted[n].waits \subseteq signaled
    BY <2>3, <2>4
  <2>5. \A b \in waitOnFence \ signaled : \E n \in DOMAIN submitted : submitted[n].fence = b
    BY <2>1 DEF TransferInv, TakenBlocksHaveCopies
  <2>6. QED
    BY <2>4, <2>5
<1>2. QED
  BY <1>1, TransferInvariant, PTL

================================================================================

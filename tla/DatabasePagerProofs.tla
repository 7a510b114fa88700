-------------------------- MODULE DatabasePagerProofs --------------------------
(***************************************************************************)
(* For every number of PagedLODs and read threads, whatever reads fail and *)
(* however requests are dropped or expired.  In this order:                *)
(*                                                                         *)
(* - A PagedLOD is in one hand at a time, and the requests under way are   *)
(*   counted.  HandInv says of each hand which status its PagedLOD has,    *)
(*   that no two hands hold the same one, and that a PagedLOD with a       *)
(*   status is held.  The container plays no part in it.                   *)
(* - The container: its lists are three chains, sequences of elements that *)
(*   the operations shorten, lengthen and extend.  Sound says so, and      *)
(*   implies what check() of the code verifies by walking them.            *)
(* - The container in the pager: ContainerInv adds where the expiry loop   *)
(*   is in the inactive list and what it has left behind.                  *)
(* - The use of the PagedLODs: with one recorder, UseInv says that what    *)
(*   has been used is listed or will be.                                   *)
(***************************************************************************)
EXTENDS DatabasePager, SequenceTheorems, FiniteSetTheorems, WellFoundedInduction, TLAPS

--------------------------------------------------------------------------------
(* Queues without repetition.                                              *)

\* What a queue holds.
LEMMA ElementsOfQueue ==
  ASSUME NEW S, NEW q \in Seq(S)
  PROVE  \A i \in DOMAIN q : q[i] \in S
BY LenProperties

\* What is appended is in the queue, and twice only if it was there before.
LEMMA AppendedQueue ==
  ASSUME NEW S, NEW q \in Seq(S), NEW e \in S
  PROVE  /\ Append(q, e) \in Seq(S) /\ Len(Append(q, e)) = Len(q) + 1
         /\ Range(Append(q, e)) = Range(q) \cup {e}
         /\ IsInjective(q) /\ e \notin Range(q) => IsInjective(Append(q, e))
<1> DEFINE a == Append(q, e)
<1>1. /\ a \in Seq(S) /\ Len(a) = Len(q) + 1 /\ Len(q) \in Nat
      /\ \A i \in 1 .. Len(q) : a[i] = q[i]
      /\ a[Len(q) + 1] = e
      /\ DOMAIN q = 1 .. Len(q) /\ DOMAIN a = 1 .. Len(q) + 1
  BY AppendProperties, LenProperties
<1> HIDE DEF a
<1>2. Range(a) = Range(q) \cup {e}
  <2>1. Range(a) \subseteq Range(q) \cup {e}
    BY <1>1 DEF Range
  <2>2. Range(q) \cup {e} \subseteq Range(a)
    BY <1>1 DEF Range
  <2>3. QED
    BY <2>1, <2>2
<1>3. IsInjective(q) /\ e \notin Range(q) => IsInjective(a)
  BY <1>1 DEF IsInjective, Range
<1>4. QED
  BY <1>1, <1>2, <1>3 DEF a

\* What is behind an element that is removed moves up.
LEMMA ElementsRemain ==
  ASSUME NEW S, NEW q \in Seq(S), NEW i \in DOMAIN q
  PROVE  /\ RemoveAt(q, i) \in Seq(S) /\ Len(RemoveAt(q, i)) = Len(q) - 1
         /\ DOMAIN RemoveAt(q, i) = 1 .. Len(q) - 1
         /\ \A j \in 1 .. Len(q) - 1 :
               RemoveAt(q, i)[j] = IF j < i THEN q[j] ELSE q[j + 1]
<1> DEFINE r == RemoveAt(q, i)
           before == SubSeq(q, 1, i - 1)
           behind == SubSeq(q, i + 1, Len(q))
<1>1. /\ Len(q) \in Nat /\ DOMAIN q = 1 .. Len(q) /\ i \in 1 .. Len(q)
      /\ \A j \in 1 .. Len(q) : q[j] \in S
  BY LenProperties
<1>2. /\ before \in Seq(S) /\ Len(before) = i - 1
      /\ \A j \in 1 .. i - 1 : before[j] = q[j]
  <2>1. 1 \in Int /\ i - 1 \in Int /\ \A j \in 1 .. i - 1 : q[j] \in S
    BY <1>1
  <2>2. /\ before \in Seq(S) /\ Len(before) = IF 1 <= i - 1 THEN (i - 1) - 1 + 1 ELSE 0
        /\ \A j \in 1 .. (i - 1) - 1 + 1 : before[j] = q[1 + j - 1]
    BY <2>1, SubSeqProperties
  <2>3. QED
    BY <1>1, <2>2
<1>3. /\ behind \in Seq(S) /\ Len(behind) = Len(q) - i
      /\ \A j \in 1 .. Len(q) - i : behind[j] = q[i + j]
  <2>1. i + 1 \in Int /\ Len(q) \in Int /\ \A j \in i + 1 .. Len(q) : q[j] \in S
    BY <1>1
  <2>2. /\ behind \in Seq(S)
        /\ Len(behind) = IF i + 1 <= Len(q) THEN Len(q) - (i + 1) + 1 ELSE 0
        /\ \A j \in 1 .. Len(q) - (i + 1) + 1 : behind[j] = q[(i + 1) + j - 1]
    BY <2>1, SubSeqProperties
  <2> HIDE DEF behind
  <2>3. Len(q) - (i + 1) + 1 = Len(q) - i /\ Len(behind) = Len(q) - i
    BY <1>1, <2>2
  <2>4. \A j \in 1 .. Len(q) - i : (i + 1) + j - 1 = i + j
    BY <1>1
  <2>5. QED
    BY <2>2, <2>3, <2>4
<1>4. r = before \o behind
  BY DEF RemoveAt
<1> HIDE DEF r, before, behind
<1>5. /\ r \in Seq(S) /\ Len(r) = Len(q) - 1 /\ DOMAIN r = 1 .. Len(q) - 1
      /\ \A j \in 1 .. Len(q) - 1 : r[j] = IF j < i THEN q[j] ELSE q[j + 1]
  <2>1. /\ r \in Seq(S) /\ Len(r) = Len(before) + Len(behind)
        /\ \A j \in 1 .. Len(before) + Len(behind) :
              r[j] = IF j <= Len(before) THEN before[j] ELSE behind[j - Len(before)]
    BY <1>2, <1>3, <1>4, ConcatProperties
  <2>2. Len(r) = Len(q) - 1 /\ DOMAIN r = 1 .. Len(q) - 1
    BY <1>1, <1>2, <1>3, <2>1, LenProperties
  <2>3. ASSUME NEW j \in 1 .. Len(q) - 1
        PROVE  r[j] = IF j < i THEN q[j] ELSE q[j + 1]
    <3>1. j \in 1 .. Len(before) + Len(behind)
      BY <1>1, <1>2, <1>3
    <3>2. CASE j < i
      BY <1>1, <1>2, <2>1, <3>1, <3>2
    <3>3. CASE j >= i
      <4>1. j - (i - 1) \in 1 .. Len(q) - i /\ i + (j - (i - 1)) = j + 1
        BY <1>1, <3>3
      <4>2. r[j] = behind[j - (i - 1)]
        BY <1>1, <1>2, <2>1, <3>1, <3>3
      <4>3. QED
        BY <1>1, <1>3, <3>3, <4>1, <4>2
    <3>4. QED
      BY <1>1, <3>2, <3>3
  <2>4. QED
    BY <2>1, <2>2, <2>3
<1>6. QED
  BY <1>5 DEF r

\* Without an element, a queue that has no element twice has all the others.
LEMMA ShortenedQueue ==
  ASSUME NEW S, NEW q \in Seq(S), NEW i \in DOMAIN q
  PROVE  /\ RemoveAt(q, i) \in Seq(S) /\ Len(RemoveAt(q, i)) = Len(q) - 1
         /\ IsInjective(q) => /\ IsInjective(RemoveAt(q, i))
                              /\ Range(RemoveAt(q, i)) = Range(q) \ {q[i]}
<1> DEFINE r == RemoveAt(q, i)
<1>1. Len(q) \in Nat /\ DOMAIN q = 1 .. Len(q) /\ i \in 1 .. Len(q)
  BY LenProperties
<1>2. /\ r \in Seq(S) /\ Len(r) = Len(q) - 1 /\ DOMAIN r = 1 .. Len(q) - 1
      /\ \A j \in 1 .. Len(q) - 1 : r[j] = IF j < i THEN q[j] ELSE q[j + 1]
  BY ElementsRemain
<1> HIDE DEF r
<1>3. IsInjective(q) => IsInjective(r)
  <2>1. SUFFICES ASSUME IsInjective(q), NEW j \in 1 .. Len(q) - 1, NEW k \in 1 .. Len(q) - 1,
                        r[j] = r[k]
                 PROVE  j = k
    BY <1>2 DEF IsInjective
  <2> DEFINE from(n) == IF n < i THEN n ELSE n + 1
  <2>2. /\ from(j) \in 1 .. Len(q) /\ from(k) \in 1 .. Len(q)
        /\ q[from(j)] = q[from(k)]
    BY <1>1, <1>2, <2>1
  <2>3. from(j) = from(k)
    BY <1>1, <2>1, <2>2 DEF IsInjective
  <2>4. QED
    BY <1>1, <2>3
<1>4. IsInjective(q) => Range(r) = Range(q) \ {q[i]}
  <2>1. SUFFICES ASSUME IsInjective(q) PROVE Range(r) = Range(q) \ {q[i]}
    OBVIOUS
  <2>2. ASSUME NEW x \in Range(r) PROVE x \in Range(q) \ {q[i]}
    <3>1. PICK j \in 1 .. Len(q) - 1 : x = r[j]
      BY <1>2 DEF Range
    <3>2. QED
      BY <1>1, <1>2, <2>1, <3>1 DEF Range, IsInjective
  <2>3. ASSUME NEW x \in Range(q) \ {q[i]} PROVE x \in Range(r)
    <3>1. PICK j \in 1 .. Len(q) : x = q[j] /\ j # i
      BY <1>1 DEF Range
    <3>2. CASE j < i
      BY <1>1, <1>2, <3>1, <3>2 DEF Range
    <3>3. CASE j > i
      <4>1. j - 1 \in 1 .. Len(q) - 1 /\ r[j - 1] = q[j]
        BY <1>1, <1>2, <3>1, <3>3
      <4>2. QED
        BY <1>2, <3>1, <4>1 DEF Range
    <3>4. QED
      BY <1>1, <3>1, <3>2, <3>3
  <2>4. QED
    BY <2>2, <2>3
<1>5. QED
  BY <1>2, <1>3, <1>4 DEF r

\* The same for the first element.
LEMMA TailOfQueue ==
  ASSUME NEW S, NEW q \in Seq(S), q # <<>>
  PROVE  /\ Head(q) \in S /\ Head(q) \in Range(q)
         /\ Tail(q) \in Seq(S) /\ Len(Tail(q)) = Len(q) - 1
         /\ IsInjective(q) => /\ IsInjective(Tail(q))
                              /\ Range(Tail(q)) = Range(q) \ {Head(q)}
<1>1. /\ Len(q) \in Nat \ {0} /\ DOMAIN q = 1 .. Len(q)
      /\ Tail(q) \in Seq(S) /\ Len(Tail(q)) = Len(q) - 1 /\ Head(q) \in S
      /\ DOMAIN Tail(q) = 1 .. Len(q) - 1
      /\ \A i \in 1 .. Len(q) - 1 : Tail(q)[i] = q[i + 1]
  BY EmptySeq, LenProperties, HeadTailProperties
<1>2. Head(q) = q[1] /\ 1 \in 1 .. Len(q)
  BY <1>1
<1>3. IsInjective(q) => IsInjective(Tail(q))
  BY <1>1 DEF IsInjective
<1>4. IsInjective(q) => Range(Tail(q)) = Range(q) \ {q[1]}
  <2>1. SUFFICES ASSUME IsInjective(q) PROVE Range(Tail(q)) = Range(q) \ {q[1]}
    OBVIOUS
  <2>2. ASSUME NEW x \in Range(Tail(q)) PROVE x \in Range(q) \ {q[1]}
    <3>1. PICK j \in 1 .. Len(q) - 1 : x = q[j + 1]
      BY <1>1 DEF Range
    <3>2. QED
      BY <1>1, <2>1, <3>1 DEF Range, IsInjective
  <2>3. ASSUME NEW x \in Range(q) \ {q[1]} PROVE x \in Range(Tail(q))
    <3>1. PICK j \in 1 .. Len(q) : x = q[j] /\ j # 1
      BY <1>1 DEF Range
    <3>2. j - 1 \in 1 .. Len(q) - 1 /\ Tail(q)[j - 1] = q[j]
      BY <1>1, <3>1
    <3>3. QED
      BY <1>1, <3>1, <3>2 DEF Range
  <2>4. QED
    BY <2>2, <2>3
<1>5. QED
  BY <1>1, <1>2, <1>3, <1>4 DEF Range

\* How often a PagedLOD is in a queue without repetition.
LEMMA PositionsInQueue ==
  ASSUME NEW S, NEW q \in Seq(S), IsInjective(q), NEW p
  PROVE  Cardinality(Positions(q, p)) = IF p \in Range(q) THEN 1 ELSE 0
<1>1. CASE p \in Range(q)
  <2>1. PICK i \in DOMAIN q : q[i] = p
    BY <1>1 DEF Range
  <2>2. Positions(q, p) = {i}
    BY <2>1 DEF Positions, IsInjective
  <2>3. QED
    BY <1>1, <2>2, FS_Singleton
<1>2. CASE p \notin Range(q)
  <2>1. Positions(q, p) = {}
    BY <1>2 DEF Positions, Range
  <2>2. QED
    BY <1>2, <2>1, FS_EmptySet
<1>3. QED
  BY <1>1, <1>2

--------------------------------------------------------------------------------
(* The inductive invariant.                                                *)

HandTypes ==
    /\ mainPc \in {"update", "sweep", "expire", "merge", "record"}
    /\ nodes \in Seq(PagedLODs)
    /\ requestQueue \in Seq(PagedLODs) /\ mergeQueue \in Seq(PagedLODs)
    /\ recPc \in [Recorders -> {"visit", "push", "ask", "request", "queue"}]
    /\ recNode \in [Recorders -> PagedLODs \cup {Nobody}]
    /\ \A c \in Recorders : recPc[c] # "visit" => recNode[c] \in PagedLODs
    /\ readPc \in [Readers -> {"take", "check", "read", "compile", "discard",
                               "discardStatus", "discardPending"}]
    /\ readNode \in [Readers -> PagedLODs \cup {Nobody}]
    /\ \A r \in Readers : readPc[r] = "take" <=> readNode[r] = Nobody
    /\ status \in [PagedLODs -> Statuses]
    /\ leaked \in Nat

\* What take_all() returned has been merged before the next update.
NodesAreMerged == mainPc \in {"update", "record"} => nodes = <<>>

Holds(r) == readPc[r] \notin {"take", "discardPending"}

\* The statuses a PagedLOD may have in the hands of a reader.
HeldStatuses(step) ==
    IF step = "check" THEN {"ReadRequest"}
    ELSE IF step = "read" THEN {"Reading"}
    ELSE IF step = "compile" THEN {"Compiling"}
    ELSE Statuses \ {"NoRequest"}

Queued == Range(requestQueue) \cup Range(mergeQueue) \cup Range(nodes)

QueuesDiffer ==
    /\ IsInjective(requestQueue) /\ IsInjective(mergeQueue) /\ IsInjective(nodes)
    /\ Range(mergeQueue) \cap Range(nodes) = {}
    /\ \A p \in Range(requestQueue) : status[p] = "ReadRequest"
    /\ \A p \in Range(mergeQueue) \cup Range(nodes) : status[p] = "MergeRequest"

ReadersDiffer ==
    /\ \A r \in Readers : Holds(r) => /\ status[readNode[r]] \in HeldStatuses(readPc[r])
                                      /\ readNode[r] \notin Queued
    /\ \A r, s \in Readers : Holds(r) /\ Holds(s) /\ readNode[r] = readNode[s] => r = s

RequestsAreHeld ==
    \A p \in PagedLODs :
        status[p] # "NoRequest"
            => p \in Queued \/ \E r \in Readers : Holds(r) /\ readNode[r] = p

HandInv ==
    /\ HandTypes /\ NodesAreMerged /\ QueuesDiffer /\ ReadersDiffer /\ RequestsAreHeld
    /\ CountedUntilDone

--------------------------------------------------------------------------------
(* The invariant, action by action.                                        *)

\* The readers and the recorders that CountedUntilDone counts.
Serving == {r \in Readers : readNode[r] # Nobody}
Asking == {c \in Recorders : recPc[c] = "queue"}

\* They are finitely many.
LEMMA ThreadsAreFinite ==
  /\ IsFiniteSet(Serving) /\ Cardinality(Serving) \in Nat
  /\ IsFiniteSet(Asking) /\ Cardinality(Asking) \in Nat
<1>1. IsFiniteSet(Readers) /\ IsFiniteSet(Recorders)
  BY PagerAssumption DEF PagerAssumption
<1>2. Serving \in SUBSET Readers /\ Asking \in SUBSET Recorders
  BY DEF Serving, Asking
<1>3. IsFiniteSet(Serving) /\ IsFiniteSet(Asking)
  BY <1>1, <1>2, FS_Subset
<1>4. QED
  BY <1>3, FS_CardinalityType

\* The requests under way, as a sum of numbers.
LEMMA RequestsAreCounted ==
  ASSUME HandInv
  PROVE  /\ Len(requestQueue) \in Nat /\ Len(mergeQueue) \in Nat /\ Len(nodes) \in Nat
         /\ Cardinality(Serving) \in Nat /\ Cardinality(Asking) \in Nat
         /\ numActive = Len(requestQueue) + Len(mergeQueue) + Len(nodes)
                        + Cardinality(Serving) + Cardinality(Asking) + leaked
         /\ numActive \in Nat /\ leaked \in Nat
<1>1. /\ Len(requestQueue) \in Nat /\ Len(mergeQueue) \in Nat /\ Len(nodes) \in Nat
      /\ Cardinality(Serving) \in Nat /\ Cardinality(Asking) \in Nat /\ leaked \in Nat
  BY ThreadsAreFinite, LenProperties DEF HandInv, HandTypes
<1>2. numActive = Len(requestQueue) + Len(mergeQueue) + Len(nodes)
                  + Cardinality(Serving) + Cardinality(Asking) + leaked
  BY DEF HandInv, CountedUntilDone, Serving, Asking
<1>3. QED
  BY <1>1, <1>2

\* A PagedLOD that a reader has is not in a queue, nor with another reader.
LEMMA HeldByReader ==
  ASSUME HandInv, NEW r \in Readers, Holds(r)
  PROVE  /\ readNode[r] \in PagedLODs /\ readNode[r] # Nobody
         /\ status[readNode[r]] \in HeldStatuses(readPc[r])
         /\ status[readNode[r]] # "NoRequest"
         /\ readNode[r] \notin Queued
         /\ \A s \in Readers \ {r} : Holds(s) => readNode[s] # readNode[r]
<1>1. readNode[r] \in PagedLODs /\ readNode[r] # Nobody
  BY DEF HandInv, HandTypes, Holds
<1>2. status[readNode[r]] \in HeldStatuses(readPc[r]) /\ readNode[r] \notin Queued
      /\ \A s \in Readers \ {r} : Holds(s) => readNode[s] # readNode[r]
  BY DEF HandInv, ReadersDiffer
<1>3. status[readNode[r]] # "NoRequest"
  BY <1>2 DEF HeldStatuses
<1>4. QED
  BY <1>1, <1>2, <1>3

\* Nothing is in flight at first.
LEMMA HandInit == Init => HandInv
<1>1. SUFFICES ASSUME Init PROVE HandInv
  OBVIOUS
<1>2. HandTypes
  <2>1. <<>> \in Seq(PagedLODs)
    BY EmptySeq
  <2>2. QED
    BY <1>1, <2>1 DEF Init, HandTypes, Statuses
<1>3. Range(requestQueue) = {} /\ Range(mergeQueue) = {} /\ Range(nodes) = {}
  BY <1>1 DEF Init, Range
<1>4. QueuesDiffer
  BY <1>1, <1>3 DEF Init, QueuesDiffer, IsInjective
<1>5. NodesAreMerged /\ ReadersDiffer /\ RequestsAreHeld
  BY <1>1 DEF Init, NodesAreMerged, ReadersDiffer, Holds, RequestsAreHeld
<1>6. CountedUntilDone
  <2>1. Serving = {} /\ Asking = {}
    BY <1>1 DEF Init, Serving, Asking
  <2>2. Cardinality(Serving) = 0 /\ Cardinality(Asking) = 0
    BY <2>1, FS_EmptySet
  <2>3. /\ Len(requestQueue) = 0 /\ Len(mergeQueue) = 0 /\ Len(nodes) = 0
        /\ numActive = 0 /\ leaked = 0
    BY <1>1, EmptySeq DEF Init
  <2>4. numActive = Len(requestQueue) + Len(mergeQueue) + Len(nodes)
                    + Cardinality(Serving) + Cardinality(Asking) + leaked
    BY <2>2, <2>3
  <2>5. QED
    BY <2>4 DEF CountedUntilDone, Serving, Asking
<1>7. QED
  BY <1>2, <1>4, <1>5, <1>6 DEF HandInv

\* A step that takes nothing into another hand.
LEMMA HandsUnchanged ==
  ASSUME HandInv, UNCHANGED <<nodes, requestQueue, mergeQueue, readPc, readNode, status>>,
         HandTypes', NodesAreMerged', CountedUntilDone'
  PROVE  HandInv'
<1>1. Queued' = Queued /\ \A r \in Readers : Holds(r)' <=> Holds(r)
  BY DEF Queued, Holds
<1>2. QueuesDiffer' /\ ReadersDiffer' /\ RequestsAreHeld'
  BY <1>1 DEF HandInv, QueuesDiffer, ReadersDiffer, RequestsAreHeld
<1>3. QED
  BY <1>2 DEF HandInv

\* The steps of main that touch neither a status nor a queue, and a step of nobody.
LEMMA MainAloneHands ==
  ASSUME HandInv,
         \/ SweepContainer \/ Expire \/ EndExpire \/ BeginRecord \/ EndRecord
         \/ UNCHANGED vars
  PROVE  HandInv'
<1>1. /\ UNCHANGED <<nodes, requestQueue, mergeQueue, readPc, readNode, status>>
      /\ UNCHANGED <<recPc, recNode, numActive, leaked>>
  BY DEF SweepContainer, Expire, EndExpire, BeginRecord, EndRecord, vars, mainVars, recVars,
         readVars, lodVars, queueVars
<1>2. /\ mainPc' \in {"update", "sweep", "expire", "merge", "record"}
      /\ mainPc' \in {"update", "record"} => nodes = <<>>
  BY DEF HandInv, HandTypes, NodesAreMerged, SweepContainer, Expire, EndExpire, BeginRecord,
         EndRecord, vars, mainVars
<1>3. HandTypes' /\ NodesAreMerged' /\ CountedUntilDone'
  BY <1>1, <1>2 DEF HandInv, HandTypes, NodesAreMerged, CountedUntilDone
<1>4. QED
  BY <1>1, <1>3, HandsUnchanged

\* A recorder decides about a PagedLOD, appends it, and asks for its child.
LEMMA RecorderAsksHands ==
  ASSUME HandInv, NEW c \in Recorders,
         (\E p \in PagedLODs : Skip(c, p) \/ Use(c, p)) \/ Push(c) \/ Ask(c)
  PROVE  HandInv'
<1>1. /\ UNCHANGED <<nodes, requestQueue, mergeQueue, readPc, readNode, status>>
      /\ UNCHANGED <<mainPc, numActive, leaked>>
  BY DEF Skip, Use, Push, Ask, mainVars, readVars, lodVars, queueVars
<1>2. /\ recPc \in [Recorders -> {"visit", "push", "ask", "request", "queue"}]
      /\ recNode \in [Recorders -> PagedLODs \cup {Nobody}]
      /\ \A d \in Recorders : recPc[d] # "visit" => recNode[d] \in PagedLODs
  BY DEF HandInv, HandTypes
<1>3. /\ recPc' \in [Recorders -> {"visit", "push", "ask", "request", "queue"}]
      /\ recNode' \in [Recorders -> PagedLODs \cup {Nobody}]
      /\ recPc[c] # "queue" /\ recPc'[c] # "queue"
      /\ \A d \in Recorders \ {c} : recPc'[d] = recPc[d] /\ recNode'[d] = recNode[d]
      /\ recPc'[c] # "visit" => recNode'[c] \in PagedLODs
  <2>1. ASSUME NEW p \in PagedLODs, Skip(c, p) \/ Use(c, p)
        PROVE  /\ recPc' \in [Recorders -> {"visit", "push", "ask", "request", "queue"}]
               /\ recNode' \in [Recorders -> PagedLODs \cup {Nobody}]
               /\ recPc[c] # "queue" /\ recPc'[c] # "queue"
               /\ \A d \in Recorders \ {c} : recPc'[d] = recPc[d] /\ recNode'[d] = recNode[d]
               /\ recPc'[c] # "visit" => recNode'[c] \in PagedLODs
    BY <1>2, <2>1 DEF Skip, Use
  <2>2. CASE Push(c)
    BY <1>2, <2>2 DEF Push
  <2>3. CASE Ask(c)
    BY <1>2, <2>3 DEF Ask, Done
  <2>4. QED
    BY <2>1, <2>2, <2>3
<1>4. HandTypes'
  BY <1>1, <1>2, <1>3 DEF HandInv, HandTypes
<1>5. {d \in Recorders : recPc'[d] = "queue"} = {d \in Recorders : recPc[d] = "queue"}
  BY <1>3
<1>6. NodesAreMerged' /\ CountedUntilDone'
  BY <1>1, <1>5 DEF HandInv, NodesAreMerged, CountedUntilDone
<1>7. QED
  BY <1>1, <1>4, <1>6, HandsUnchanged

\* request() counts first.
LEMMA RequestHands ==
  ASSUME HandInv, NEW c \in Recorders, Request(c)
  PROVE  HandInv'
<1>1. /\ UNCHANGED <<nodes, requestQueue, mergeQueue, readPc, readNode, status>>
      /\ UNCHANGED mainPc
  BY DEF Request, mainVars, readVars, lodVars
<1>2. /\ recPc \in [Recorders -> {"visit", "push", "ask", "request", "queue"}]
      /\ recNode \in [Recorders -> PagedLODs \cup {Nobody}]
      /\ \A d \in Recorders : recPc[d] # "visit" => recNode[d] \in PagedLODs
  BY DEF HandInv, HandTypes
<1>3. /\ recPc[c] = "request"
      /\ recPc' \in [Recorders -> {"visit", "push", "ask", "request", "queue"}]
      /\ recNode' \in [Recorders -> PagedLODs \cup {Nobody}]
      /\ \A d \in Recorders \ {c} : recPc'[d] = recPc[d] /\ recNode'[d] = recNode[d]
      /\ recPc'[c] # "visit" => recNode'[c] \in PagedLODs
      /\ numActive' = numActive + 1
      /\ \/ recPc'[c] = "visit" /\ leaked' = leaked + 1
         \/ recPc'[c] = "queue" /\ leaked' = leaked
  BY <1>2 DEF Request, Done
<1>4. HandTypes' /\ NodesAreMerged'
  <2>1. leaked' \in Nat
    BY <1>3, RequestsAreCounted
  <2>2. QED
    BY <1>1, <1>2, <1>3, <2>1 DEF HandInv, HandTypes, NodesAreMerged
<1>5. /\ Cardinality(Asking') + leaked' = Cardinality(Asking) + leaked + 1
      /\ Cardinality(Asking') \in Nat
  <2>1. c \notin Asking /\ IsFiniteSet(Asking) /\ Cardinality(Asking) \in Nat /\ leaked \in Nat
    BY <1>3, RequestsAreCounted, ThreadsAreFinite DEF Asking
  <2>2. CASE recPc'[c] = "queue"
    <3>1. Asking' = Asking \cup {c}
      BY <1>3, <2>2 DEF Asking
    <3>2. Cardinality(Asking') = Cardinality(Asking) + 1
      BY <2>1, <3>1, FS_AddElement
    <3>3. leaked' = leaked
      BY <1>3, <2>2
    <3>4. QED
      BY <2>1, <3>2, <3>3
  <2>3. CASE recPc'[c] # "queue"
    <3>1. Asking' = Asking
      BY <1>3, <2>3 DEF Asking
    <3>2. leaked' = leaked + 1
      BY <1>3, <2>3
    <3>3. QED
      BY <2>1, <3>1, <3>2
  <2>4. QED
    BY <2>2, <2>3
<1>6. CountedUntilDone'
  <2>1. Serving' = Serving /\ leaked' \in Nat
    BY <1>1, <1>3, RequestsAreCounted DEF Serving
  <2>2. numActive' = Len(requestQueue') + Len(mergeQueue') + Len(nodes')
                     + Cardinality(Serving') + Cardinality(Asking') + leaked'
    <3>1. /\ Len(requestQueue') = Len(requestQueue) /\ Len(mergeQueue') = Len(mergeQueue)
          /\ Len(nodes') = Len(nodes) /\ Cardinality(Serving') = Cardinality(Serving)
      BY <1>1, <2>1
    <3>2. numActive' = numActive + 1
      BY <1>3
    <3>3. QED
      BY <1>5, <2>1, <3>1, <3>2, RequestsAreCounted, SMTT(90)
  <2>3. QED
    BY <2>2 DEF CountedUntilDone, Serving, Asking
<1>7. QED
  BY <1>1, <1>4, <1>6, HandsUnchanged

\* The PagedLOD enters the request queue, or stays counted for ever.
LEMMA QueueHands ==
  ASSUME HandInv, NEW c \in Recorders, Queue(c)
  PROVE  HandInv'
<1> DEFINE p == recNode[c]
<1>1. /\ UNCHANGED <<nodes, mergeQueue, readPc, readNode, mainPc>>
      /\ recPc[c] = "queue" /\ Done(c) /\ numActive' = numActive
      /\ \/ /\ status[p] = "NoRequest" /\ status' = [status EXCEPT ![p] = "ReadRequest"]
            /\ requestQueue' = Append(requestQueue, p) /\ leaked' = leaked
         \/ /\ status[p] # "NoRequest" /\ status' = status
            /\ requestQueue' = requestQueue /\ leaked' = leaked + 1
  BY DEF Queue, mainVars, readVars
<1>2. /\ recPc \in [Recorders -> {"visit", "push", "ask", "request", "queue"}]
      /\ recNode \in [Recorders -> PagedLODs \cup {Nobody}]
      /\ \A d \in Recorders : recPc[d] # "visit" => recNode[d] \in PagedLODs
      /\ p \in PagedLODs
      /\ status \in [PagedLODs -> Statuses] /\ requestQueue \in Seq(PagedLODs)
  BY <1>1 DEF HandInv, HandTypes
<1>3. /\ recPc' \in [Recorders -> {"visit", "push", "ask", "request", "queue"}]
      /\ recNode' \in [Recorders -> PagedLODs \cup {Nobody}]
      /\ recPc'[c] = "visit"
      /\ \A d \in Recorders \ {c} : recPc'[d] = recPc[d] /\ recNode'[d] = recNode[d]
  BY <1>1, <1>2 DEF Done
<1> HIDE DEF p
<1>4. /\ Append(requestQueue, p) \in Seq(PagedLODs)
      /\ Len(Append(requestQueue, p)) = Len(requestQueue) + 1
      /\ Range(Append(requestQueue, p)) = Range(requestQueue) \cup {p}
      /\ IsInjective(requestQueue) /\ p \notin Range(requestQueue)
            => IsInjective(Append(requestQueue, p))
  BY <1>2, AppendedQueue
<1>5. HandTypes' /\ NodesAreMerged'
  <2>1. status' \in [PagedLODs -> Statuses] /\ requestQueue' \in Seq(PagedLODs)
    BY <1>1, <1>2, <1>4 DEF Statuses
  <2>4. leaked' \in Nat
    BY <1>1, RequestsAreCounted
  <2>2. \A d \in Recorders : recPc'[d] # "visit" => recNode'[d] \in PagedLODs
    BY <1>2, <1>3
  <2>3. QED
    BY <1>1, <1>3, <2>1, <2>2, <2>4 DEF HandInv, HandTypes, NodesAreMerged
<1>6. CountedUntilDone'
  <2>1. Cardinality(Asking') = Cardinality(Asking) - 1
    <3>1. c \in Asking /\ Asking' = Asking \ {c}
      BY <1>1, <1>3 DEF Asking
    <3>2. QED
      BY <3>1, ThreadsAreFinite, FS_RemoveElement
  <2>2. Serving' = Serving /\ nodes' = nodes /\ mergeQueue' = mergeQueue
    BY <1>1 DEF Serving
  <2>3. /\ numActive' = numActive
        /\ \/ Len(requestQueue') = Len(requestQueue) + 1 /\ leaked' = leaked
           \/ Len(requestQueue') = Len(requestQueue) /\ leaked' = leaked + 1
    BY <1>1, <1>4, SMTT(40)
  <2>4. numActive' = Len(requestQueue') + Len(mergeQueue') + Len(nodes')
                     + Cardinality(Serving') + Cardinality(Asking') + leaked'
    BY <2>1, <2>2, <2>3, RequestsAreCounted, SMTT(40)
  <2>5. QED
    BY <2>4 DEF CountedUntilDone, Serving, Asking
<1>7. CASE status[p] = "NoRequest"
  <2>1. /\ status' = [status EXCEPT ![p] = "ReadRequest"]
        /\ requestQueue' = Append(requestQueue, p)
    BY <1>1, <1>7
  <2>2. /\ status'[p] = "ReadRequest"
        /\ \A q \in PagedLODs \ {p} : status'[q] = status[q]
    BY <1>2, <2>1
  <2>3. p \notin Queued /\ \A r \in Readers : Holds(r) => readNode[r] # p
    <3>1. p \notin Queued
      BY <1>7 DEF HandInv, QueuesDiffer, Queued
    <3>2. QED
      BY <1>7, <3>1, HeldByReader
  <2>4. Queued' = Queued \cup {p}
    BY <1>1, <1>4, <2>1 DEF Queued
  <2>5. QueuesDiffer'
    <3>1. /\ Range(requestQueue) \subseteq PagedLODs /\ Range(mergeQueue) \subseteq PagedLODs
          /\ Range(nodes) \subseteq PagedLODs
      BY LenProperties DEF Range, HandInv, HandTypes
    <3>2. \A q \in Range(requestQueue') : status'[q] = "ReadRequest"
      BY <1>4, <2>1, <2>2, <3>1 DEF HandInv, QueuesDiffer
    <3>3. \A q \in Range(mergeQueue) \cup Range(nodes) : status'[q] = "MergeRequest"
      BY <2>2, <2>3, <3>1 DEF HandInv, QueuesDiffer, Queued
    <3>4. IsInjective(requestQueue')
      BY <1>4, <2>1, <2>3 DEF HandInv, QueuesDiffer, Queued
    <3>5. QED
      BY <1>1, <3>2, <3>3, <3>4 DEF HandInv, QueuesDiffer
  <2>6. ReadersDiffer'
    <3>1. \A r \in Readers : Holds(r) => status'[readNode[r]] = status[readNode[r]]
      BY <2>2, <2>3, HeldByReader
    <3>2. QED
      BY <1>1, <2>3, <2>4, <3>1 DEF HandInv, ReadersDiffer, Holds
  <2>7. RequestsAreHeld'
    BY <1>1, <2>2, <2>4 DEF HandInv, RequestsAreHeld, Holds
  <2>8. QED
    BY <1>5, <1>6, <2>5, <2>6, <2>7 DEF HandInv
<1>8. CASE status[p] # "NoRequest"
  BY <1>1, <1>5, <1>6, <1>8, HandsUnchanged
<1>9. QED
  BY <1>7, <1>8

\* All that is in the merge queue is taken to be merged.
LEMMA BeginUpdateHands ==
  ASSUME HandInv, BeginUpdate
  PROVE  HandInv'
<1>1. /\ nodes' = mergeQueue /\ mergeQueue' = <<>> /\ mainPc = "update" /\ mainPc' = "sweep"
      /\ UNCHANGED <<requestQueue, numActive, leaked, status, recPc, recNode, readPc, readNode>>
  BY DEF BeginUpdate, recVars, readVars
<1>2. nodes = <<>>
  BY <1>1 DEF HandInv, NodesAreMerged
<1>3. /\ <<>> \in Seq(PagedLODs) /\ Len(<<>>) = 0 /\ Range(<<>>) = {} /\ IsInjective(<<>>)
  BY EmptySeq DEF Range, IsInjective
<1>4. HandTypes' /\ NodesAreMerged'
  BY <1>1, <1>3 DEF HandInv, HandTypes, NodesAreMerged
<1>5. Queued' = Queued /\ \A r \in Readers : Holds(r)' <=> Holds(r)
  BY <1>1, <1>2, <1>3 DEF Queued, Holds
<1>6. QueuesDiffer'
  BY <1>1, <1>2, <1>3 DEF HandInv, QueuesDiffer
<1>7. ReadersDiffer' /\ RequestsAreHeld'
  BY <1>1, <1>5 DEF HandInv, ReadersDiffer, RequestsAreHeld
<1>8. CountedUntilDone'
  <2>1. Serving' = Serving /\ Asking' = Asking
    BY <1>1 DEF Serving, Asking
  <2>2. Len(nodes') = Len(mergeQueue) /\ Len(mergeQueue') = 0 /\ Len(nodes) = 0
    BY <1>1, <1>2, <1>3
  <2>3. numActive' = Len(requestQueue') + Len(mergeQueue') + Len(nodes')
                     + Cardinality(Serving') + Cardinality(Asking') + leaked'
    BY <1>1, <2>1, <2>2, RequestsAreCounted
  <2>4. QED
    BY <2>3 DEF CountedUntilDone, Serving, Asking
<1>9. QED
  BY <1>4, <1>6, <1>7, <1>8 DEF HandInv

\* The PagedLOD that is merged is in no hand any more.
LEMMA MergeHands ==
  ASSUME HandInv, Merge
  PROVE  HandInv'
<1> DEFINE p == Head(nodes)
<1>1. /\ nodes # <<>> /\ nodes' = Tail(nodes) /\ numActive' = numActive - 1
      /\ status[p] = "MergeRequest" => status' = [status EXCEPT ![p] = "NoRequest"]
      /\ UNCHANGED <<mainPc, requestQueue, mergeQueue, recPc, recNode, readPc, readNode>>
      /\ mainPc = "merge" /\ UNCHANGED leaked
  BY DEF Merge, recVars, readVars
<1>2. /\ nodes \in Seq(PagedLODs) /\ IsInjective(nodes)
      /\ status \in [PagedLODs -> Statuses]
  BY DEF HandInv, HandTypes, QueuesDiffer
<1>3. /\ p \in PagedLODs /\ p \in Range(nodes)
      /\ Tail(nodes) \in Seq(PagedLODs) /\ Len(Tail(nodes)) = Len(nodes) - 1
      /\ IsInjective(Tail(nodes)) /\ Range(Tail(nodes)) = Range(nodes) \ {p}
  BY <1>1, <1>2, TailOfQueue
<1> HIDE DEF p
<1>4. /\ status[p] = "MergeRequest" /\ p \notin Range(requestQueue)
      /\ p \notin Range(mergeQueue)
  BY <1>3 DEF HandInv, QueuesDiffer
<1>5. /\ status' \in [PagedLODs -> Statuses] /\ status'[p] = "NoRequest"
      /\ \A q \in PagedLODs \ {p} : status'[q] = status[q]
  BY <1>1, <1>2, <1>3, <1>4 DEF Statuses
<1>6. HandTypes' /\ NodesAreMerged'
  BY <1>1, <1>3, <1>5 DEF HandInv, HandTypes, NodesAreMerged
<1>7. Queued' = Queued \ {p} /\ \A r \in Readers : Holds(r)' <=> Holds(r)
  BY <1>1, <1>3, <1>4 DEF Queued, Holds
<1>8. QueuesDiffer'
  <2>1. /\ Range(requestQueue) \subseteq PagedLODs /\ Range(mergeQueue) \subseteq PagedLODs
        /\ Range(nodes) \subseteq PagedLODs
    BY LenProperties DEF Range, HandInv, HandTypes
  <2>2. QED
    BY <1>1, <1>3, <1>4, <1>5, <2>1 DEF HandInv, QueuesDiffer
<1>9. ReadersDiffer'
  <2>1. \A r \in Readers : Holds(r) => status'[readNode[r]] = status[readNode[r]]
    <3>1. p \in Queued
      BY <1>3 DEF Queued
    <3>2. QED
      BY <1>5, <3>1, HeldByReader
  <2>2. QED
    BY <1>1, <1>7, <2>1 DEF HandInv, ReadersDiffer
<1>10. RequestsAreHeld'
  BY <1>1, <1>5, <1>7 DEF HandInv, RequestsAreHeld
<1>11. CountedUntilDone'
  <2>1. Serving' = Serving /\ Asking' = Asking
    BY <1>1 DEF Serving, Asking
  <2>2. Len(nodes') = Len(nodes) - 1
    BY <1>1, <1>3
  <2>3. numActive' = Len(requestQueue') + Len(mergeQueue') + Len(nodes')
                     + Cardinality(Serving') + Cardinality(Asking') + leaked'
    BY <1>1, <2>1, <2>2, RequestsAreCounted, SMTT(60)
  <2>4. QED
    BY <2>3 DEF CountedUntilDone, Serving, Asking
<1>12. QED
  BY <1>6, <1>8, <1>9, <1>10, <1>11 DEF HandInv

--------------------------------------------------------------------------------
(* The invariant, step by step of a read thread.                           *)

\* What the steps of a read thread leave to the others.
LEMMA OtherReaders ==
  ASSUME HandInv, NEW r \in Readers, NEW here, NEW there,
         Goto(r, here, there), UNCHANGED <<mainVars, recVars>>
  PROVE  /\ readPc[r] = here /\ readPc'[r] = there
         /\ \A s \in Readers \ {r} : readPc'[s] = readPc[s]
         /\ readPc' = [readPc EXCEPT ![r] = there]
         /\ readPc \in [Readers -> {"take", "check", "read", "compile", "discard",
                                    "discardStatus", "discardPending"}]
         /\ readNode \in [Readers -> PagedLODs \cup {Nobody}]
         /\ \A s \in Readers : readPc[s] = "take" <=> readNode[s] = Nobody
         /\ status \in [PagedLODs -> Statuses]
         /\ UNCHANGED <<mainPc, nodes, recPc, recNode>>
         /\ Asking' = Asking
<1>1. /\ readPc \in [Readers -> {"take", "check", "read", "compile", "discard",
                                 "discardStatus", "discardPending"}]
      /\ readNode \in [Readers -> PagedLODs \cup {Nobody}]
      /\ \A s \in Readers : readPc[s] = "take" <=> readNode[s] = Nobody
      /\ status \in [PagedLODs -> Statuses]
  BY DEF HandInv, HandTypes
<1>2. UNCHANGED <<mainPc, nodes, recPc, recNode>> /\ Asking' = Asking
  BY DEF mainVars, recVars, Asking
<1>3. /\ readPc[r] = here /\ readPc' = [readPc EXCEPT ![r] = there]
      /\ readPc'[r] = there /\ \A s \in Readers \ {r} : readPc'[s] = readPc[s]
  BY <1>1 DEF Goto
<1>4. QED
  BY <1>1, <1>2, <1>3

\* The request of a PagedLOD is taken out of the queue.
LEMMA TakeHands ==
  ASSUME HandInv, NEW r \in Readers, Take(r)
  PROVE  HandInv'
<1>1. /\ Goto(r, "take", "check") /\ UNCHANGED <<mainVars, recVars>>
      /\ UNCHANGED <<mergeQueue, numActive, leaked, status>>
  BY DEF Take, lodVars
<1>2. PICK i \in DOMAIN requestQueue :
          /\ readNode' = [readNode EXCEPT ![r] = requestQueue[i]]
          /\ requestQueue' = RemoveAt(requestQueue, i)
  BY DEF Take
<1> DEFINE p == requestQueue[i]
<1>3. /\ readPc[r] = "take" /\ readPc'[r] = "check"
      /\ \A s \in Readers \ {r} : readPc'[s] = readPc[s]
      /\ readPc' = [readPc EXCEPT ![r] = "check"]
      /\ readPc \in [Readers -> {"take", "check", "read", "compile", "discard",
                                 "discardStatus", "discardPending"}]
      /\ readNode \in [Readers -> PagedLODs \cup {Nobody}]
      /\ \A s \in Readers : readPc[s] = "take" <=> readNode[s] = Nobody
      /\ status \in [PagedLODs -> Statuses]
      /\ UNCHANGED <<mainPc, nodes, recPc, recNode>>
      /\ Asking' = Asking
  BY <1>1, OtherReaders
<1>4. requestQueue \in Seq(PagedLODs) /\ IsInjective(requestQueue)
  BY DEF HandInv, HandTypes, QueuesDiffer
<1>5. /\ requestQueue' \in Seq(PagedLODs) /\ Len(requestQueue') = Len(requestQueue) - 1
      /\ IsInjective(requestQueue') /\ Range(requestQueue') = Range(requestQueue) \ {p}
  BY <1>2, <1>4, ShortenedQueue
<1>6. p \in PagedLODs /\ p # Nobody /\ p \in Range(requestQueue)
  BY <1>4, LenProperties, PagerAssumption DEF PagerAssumption, Range
<1>7. /\ readNode' = [readNode EXCEPT ![r] = p] /\ readNode'[r] = p
      /\ \A s \in Readers \ {r} : readNode'[s] = readNode[s]
  BY <1>2, <1>3
<1> HIDE DEF p
<1>8. status[p] = "ReadRequest" /\ p \notin Range(mergeQueue) \cup Range(nodes)
  BY <1>6 DEF HandInv, QueuesDiffer
<1>9. HandTypes' /\ NodesAreMerged'
  <2>1. readPc' \in [Readers -> {"take", "check", "read", "compile", "discard",
                                 "discardStatus", "discardPending"}]
        /\ readNode' \in [Readers -> PagedLODs \cup {Nobody}]
    BY <1>3, <1>6, <1>7
  <2>2. \A s \in Readers : readPc'[s] = "take" <=> readNode'[s] = Nobody
    BY <1>3, <1>6, <1>7
  <2>3. QED
    BY <1>1, <1>3, <1>5, <2>1, <2>2 DEF HandInv, HandTypes, NodesAreMerged
<1>10. /\ Queued' = Queued \ {p} /\ p \in Queued
       /\ ~Holds(r) /\ Holds(r)' /\ \A s \in Readers \ {r} : Holds(s)' <=> Holds(s)
  BY <1>1, <1>3, <1>5, <1>6, <1>8 DEF Queued, Holds
<1>11. QueuesDiffer'
  BY <1>1, <1>3, <1>5 DEF HandInv, QueuesDiffer
<1>12. ReadersDiffer'
  <2>1. \A s \in Readers \ {r} : Holds(s) => readNode[s] # p
    BY <1>10, HeldByReader
  <2>2. \A s \in Readers \ {r} :
            Holds(s)' => /\ status'[readNode'[s]] \in HeldStatuses(readPc'[s])
                         /\ readNode'[s] \notin Queued' /\ readNode'[s] # p
    BY <1>1, <1>3, <1>7, <1>10, <2>1 DEF HandInv, ReadersDiffer
  <2>3. status'[readNode'[r]] \in HeldStatuses(readPc'[r]) /\ readNode'[r] \notin Queued'
    BY <1>1, <1>3, <1>7, <1>8, <1>10 DEF HeldStatuses
  <2>4. \A s, t \in Readers : Holds(s)' /\ Holds(t)' /\ readNode'[s] = readNode'[t] => s = t
    BY <1>7, <1>10, <2>2 DEF HandInv, ReadersDiffer
  <2>5. QED
    BY <2>2, <2>3, <2>4 DEF ReadersDiffer
<1>13. RequestsAreHeld'
  BY <1>1, <1>7, <1>10 DEF HandInv, RequestsAreHeld
<1>14. CountedUntilDone'
  <2>1. r \notin Serving /\ Serving' = Serving \cup {r}
    BY <1>3, <1>6, <1>7 DEF Serving
  <2>2. Cardinality(Serving') = Cardinality(Serving) + 1
    BY <2>1, ThreadsAreFinite, FS_AddElement
  <2>3. numActive' = Len(requestQueue') + Len(mergeQueue') + Len(nodes')
                     + Cardinality(Serving') + Cardinality(Asking') + leaked'
    BY <1>1, <1>3, <1>5, <2>2, RequestsAreCounted
  <2>4. QED
    BY <2>3 DEF CountedUntilDone, Serving, Asking
<1>15. QED
  BY <1>9, <1>11, <1>12, <1>13, <1>14 DEF HandInv

\* A read thread goes on with the PagedLOD it has.
LEMMA ReaderKeeps ==
  ASSUME HandInv, NEW r \in Readers, NEW here, NEW there, NEW st,
         Goto(r, here, there), here \notin {"take", "discardPending"},
         there \in {"read", "compile", "discard", "discardStatus"},
         status' = [status EXCEPT ![readNode[r]] = st], st \in HeldStatuses(there),
         UNCHANGED <<mainVars, recVars, readNode, queueVars>>
  PROVE  HandInv'
<1>1. UNCHANGED <<requestQueue, mergeQueue, numActive, leaked, readNode, mainVars, recVars>>
  BY DEF queueVars
<1>2. /\ readPc[r] = here /\ readPc'[r] = there
      /\ \A s \in Readers \ {r} : readPc'[s] = readPc[s]
      /\ readPc' = [readPc EXCEPT ![r] = there]
      /\ readPc \in [Readers -> {"take", "check", "read", "compile", "discard",
                                 "discardStatus", "discardPending"}]
      /\ readNode \in [Readers -> PagedLODs \cup {Nobody}]
      /\ \A s \in Readers : readPc[s] = "take" <=> readNode[s] = Nobody
      /\ status \in [PagedLODs -> Statuses]
      /\ UNCHANGED <<mainPc, nodes, recPc, recNode>>
      /\ Asking' = Asking
  BY <1>1, OtherReaders
<1>3. Holds(r) /\ Holds(r)' /\ \A s \in Readers \ {r} : Holds(s)' <=> Holds(s)
  BY <1>2 DEF Holds
<1> DEFINE p == readNode[r]
<1>4. /\ p \in PagedLODs /\ p # Nobody /\ p \notin Queued
      /\ \A s \in Readers \ {r} : Holds(s) => readNode[s] # p
  BY <1>3, HeldByReader
<1>5. st \in Statuses \ {"NoRequest"}
  BY DEF HeldStatuses, Statuses
<1>6. /\ status' \in [PagedLODs -> Statuses] /\ status'[p] = st
      /\ \A q \in PagedLODs \ {p} : status'[q] = status[q]
  BY <1>2, <1>4, <1>5
<1>7. readNode'[r] = p /\ \A s \in Readers : readNode'[s] = readNode[s]
  BY <1>1
<1> HIDE DEF p
<1>8. HandTypes' /\ NodesAreMerged'
  <2>1. readPc' \in [Readers -> {"take", "check", "read", "compile", "discard",
                                 "discardStatus", "discardPending"}]
    BY <1>2
  <2>2. \A s \in Readers : readPc'[s] = "take" <=> readNode'[s] = Nobody
    BY <1>2, <1>4, <1>7
  <2>3. QED
    BY <1>1, <1>2, <1>6, <2>1, <2>2 DEF HandInv, HandTypes, NodesAreMerged
<1>9. Queued' = Queued
  BY <1>1, <1>2 DEF Queued
<1>10. QueuesDiffer'
  <2>1. Queued \subseteq PagedLODs
    BY LenProperties DEF Queued, Range, HandInv, HandTypes
  <2>2. \A q \in Queued : status'[q] = status[q]
    BY <1>4, <1>6, <2>1
  <2>3. QED
    BY <1>1, <1>2, <2>2 DEF HandInv, QueuesDiffer, Queued
<1>11. ReadersDiffer'
  <2>1. \A s \in Readers \ {r} :
            Holds(s)' => /\ status'[readNode'[s]] \in HeldStatuses(readPc'[s])
                         /\ readNode'[s] \notin Queued'
    <3>1. \A s \in Readers \ {r} : Holds(s) => status'[readNode[s]] = status[readNode[s]]
      BY <1>4, <1>6, HeldByReader
    <3>2. QED
      BY <1>2, <1>3, <1>7, <1>9, <3>1 DEF HandInv, ReadersDiffer
  <2>2. status'[readNode'[r]] \in HeldStatuses(readPc'[r]) /\ readNode'[r] \notin Queued'
    BY <1>2, <1>4, <1>6, <1>7, <1>9
  <2>3. \A s, t \in Readers : Holds(s)' /\ Holds(t)' /\ readNode'[s] = readNode'[t] => s = t
    BY <1>3, <1>7 DEF HandInv, ReadersDiffer
  <2>4. QED
    BY <2>1, <2>2, <2>3 DEF ReadersDiffer
<1>12. RequestsAreHeld'
  BY <1>3, <1>6, <1>7, <1>9 DEF HandInv, RequestsAreHeld
<1>13. CountedUntilDone'
  BY <1>1, <1>2 DEF HandInv, CountedUntilDone
<1>14. QED
  BY <1>8, <1>10, <1>11, <1>12, <1>13 DEF HandInv

\* It finds the request fresh or expired, reads, fails, or begins to discard.
LEMMA ReaderKeepsHands ==
  ASSUME HandInv, NEW r \in Readers,
         \/ Check(r) \/ Read(r) \/ DiscardCount(r)
         \/ /\ Goto(r, "compile", "discard")
            /\ UNCHANGED <<mainVars, recVars, readNode, lodVars, queueVars, trackVars>>
  PROVE  HandInv'
<1> DEFINE p == readNode[r]
<1>1. status \in [PagedLODs -> Statuses]
  BY DEF HandInv, HandTypes
<1>2. CASE Check(r)
  <2> DEFINE expired == age[p] > 1 \/ status[p] # "ReadRequest"
  <2>1. Goto(r, "check", IF expired THEN "discard" ELSE "read")
        /\ status' = [status EXCEPT ![p] = IF expired THEN status[p] ELSE "Reading"]
        /\ UNCHANGED <<mainVars, recVars, readNode, queueVars>>
    BY <1>2 DEF Check
  <2>2. Holds(r)
    BY <2>1 DEF Goto, Holds
  <2>3. status[p] \in Statuses \ {"NoRequest"}
    BY <1>1, <2>2, HeldByReader
  <2>4. (IF expired THEN status[p] ELSE "Reading")
            \in HeldStatuses(IF expired THEN "discard" ELSE "read")
    BY <2>3 DEF HeldStatuses
  <2> HIDE DEF p, expired
  <2>5. QED
    BY <2>1, <2>4, ReaderKeeps DEF p
<1>3. CASE Read(r)
  <2>1. readPc[r] = "read" /\ UNCHANGED <<mainVars, recVars, readNode, queueVars>>
    BY <1>3 DEF Read, Goto
  <2>2. Holds(r)
    BY <2>1 DEF Holds
  <2>3. p \in PagedLODs /\ status[p] \in Statuses \ {"NoRequest"}
    BY <1>1, <2>2, HeldByReader
  <2>4. CASE Goto(r, "read", "compile") /\ status' = [status EXCEPT ![p] = "Compiling"]
    <3>1. "Compiling" \in HeldStatuses("compile")
      BY DEF HeldStatuses
    <3> HIDE DEF p
    <3>2. QED
      BY <2>1, <2>4, <3>1, ReaderKeeps DEF p
  <2>5. CASE Goto(r, "read", "discard") /\ UNCHANGED status
    <3>1. status[p] \in HeldStatuses("discard")
      BY <2>3 DEF HeldStatuses
    <3>2. status' = [status EXCEPT ![p] = status[p]]
      BY <1>1, <2>3, <2>5
    <3> HIDE DEF p
    <3>3. QED
      BY <2>1, <2>5, <3>1, <3>2, ReaderKeeps DEF p
  <2>6. QED
    BY <1>3, <2>4, <2>5 DEF Read, lodVars
<1>4. ASSUME NEW here, NEW there, Goto(r, here, there), here \in {"compile", "discard"},
             there \in {"discard", "discardStatus"},
             UNCHANGED <<mainVars, recVars, readNode, queueVars, status>>
      PROVE  HandInv'
  <2>1. readPc[r] = here
    BY <1>4 DEF Goto
  <2>2. Holds(r)
    BY <1>4, <2>1 DEF Holds
  <2>3. p \in PagedLODs /\ status[p] \in Statuses \ {"NoRequest"}
    BY <1>1, <2>2, HeldByReader
  <2>4. status[p] \in HeldStatuses(there)
    BY <1>4, <2>3 DEF HeldStatuses
  <2>5. status' = [status EXCEPT ![p] = status[p]]
    BY <1>1, <1>4, <2>3
  <2> HIDE DEF p
  <2>6. QED
    BY <1>4, <2>4, <2>5, ReaderKeeps DEF p
<1>5. CASE DiscardCount(r)
  <2>1. Goto(r, "discard", "discardStatus")
        /\ UNCHANGED <<mainVars, recVars, readNode, queueVars, status>>
    BY <1>5 DEF DiscardCount
  <2>2. QED
    BY <1>4, <2>1
<1>6. CASE /\ Goto(r, "compile", "discard")
           /\ UNCHANGED <<mainVars, recVars, readNode, lodVars, queueVars, trackVars>>
  <2>1. Goto(r, "compile", "discard")
        /\ UNCHANGED <<mainVars, recVars, readNode, queueVars, status>>
    BY <1>6 DEF lodVars
  <2>2. QED
    BY <1>4, <2>1
<1>7. QED
  BY <1>2, <1>3, <1>5, <1>6

\* The compiled subgraph passes from the read thread to the merge queue.
LEMMA CompiledHands ==
  ASSUME HandInv, NEW r \in Readers,
         Goto(r, "compile", "take"),
         readNode' = [readNode EXCEPT ![r] = Nobody],
         status' = [status EXCEPT ![readNode[r]] = "MergeRequest"],
         mergeQueue' = Append(mergeQueue, readNode[r]),
         UNCHANGED <<mainVars, recVars, requestQueue, numActive, leaked>>
  PROVE  HandInv'
<1> DEFINE p == readNode[r]
<1>1. /\ readPc[r] = "compile" /\ readPc'[r] = "take"
      /\ \A s \in Readers \ {r} : readPc'[s] = readPc[s]
      /\ readPc' = [readPc EXCEPT ![r] = "take"]
      /\ readPc \in [Readers -> {"take", "check", "read", "compile", "discard",
                                 "discardStatus", "discardPending"}]
      /\ readNode \in [Readers -> PagedLODs \cup {Nobody}]
      /\ \A s \in Readers : readPc[s] = "take" <=> readNode[s] = Nobody
      /\ status \in [PagedLODs -> Statuses]
      /\ UNCHANGED <<mainPc, nodes, recPc, recNode>>
      /\ Asking' = Asking
  BY OtherReaders
<1>2. Holds(r) /\ ~Holds(r)' /\ \A s \in Readers \ {r} : Holds(s)' <=> Holds(s)
  BY <1>1 DEF Holds
<1>3. /\ p \in PagedLODs /\ p # Nobody /\ p \notin Queued
      /\ \A s \in Readers \ {r} : Holds(s) => readNode[s] # p
  BY <1>2, HeldByReader
<1>4. /\ readNode'[r] = Nobody /\ \A s \in Readers \ {r} : readNode'[s] = readNode[s]
      /\ readNode' \in [Readers -> PagedLODs \cup {Nobody}]
  BY <1>1
<1>5. /\ status' \in [PagedLODs -> Statuses] /\ status'[p] = "MergeRequest"
      /\ \A q \in PagedLODs \ {p} : status'[q] = status[q]
  BY <1>1, <1>3 DEF Statuses
<1> HIDE DEF p
<1>6. /\ mergeQueue \in Seq(PagedLODs) /\ IsInjective(mergeQueue)
      /\ p \notin Range(mergeQueue) /\ p \notin Range(nodes) /\ p \notin Range(requestQueue)
  BY <1>3 DEF HandInv, HandTypes, QueuesDiffer, Queued
<1>7. /\ mergeQueue' \in Seq(PagedLODs) /\ Len(mergeQueue') = Len(mergeQueue) + 1
      /\ Range(mergeQueue') = Range(mergeQueue) \cup {p} /\ IsInjective(mergeQueue')
  BY <1>3, <1>6, AppendedQueue DEF p
<1>8. HandTypes' /\ NodesAreMerged'
  <2>1. readPc' \in [Readers -> {"take", "check", "read", "compile", "discard",
                                 "discardStatus", "discardPending"}]
    BY <1>1
  <2>2. \A s \in Readers : readPc'[s] = "take" <=> readNode'[s] = Nobody
    BY <1>1, <1>4
  <2>3. QED
    BY <1>1, <1>4, <1>5, <1>7, <2>1, <2>2 DEF HandInv, HandTypes, NodesAreMerged
<1>9. Queued' = Queued \cup {p}
  BY <1>1, <1>7 DEF Queued
<1>10. QueuesDiffer'
  <2>1. Queued \subseteq PagedLODs
    BY LenProperties DEF Queued, Range, HandInv, HandTypes
  <2>2. \A q \in Queued : status'[q] = status[q]
    BY <1>3, <1>5, <2>1
  <2>3. Range(mergeQueue') \cap Range(nodes) = {}
    BY <1>6, <1>7 DEF HandInv, QueuesDiffer
  <2>4. \A q \in Range(mergeQueue') \cup Range(nodes) : status'[q] = "MergeRequest"
    BY <1>5, <1>7, <2>2 DEF HandInv, QueuesDiffer, Queued
  <2>5. \A q \in Range(requestQueue) : status'[q] = "ReadRequest"
    BY <2>2 DEF HandInv, QueuesDiffer, Queued
  <2>6. QED
    BY <1>1, <1>7, <2>3, <2>4, <2>5 DEF HandInv, QueuesDiffer
<1>11. ReadersDiffer'
  <2>1. \A s \in Readers \ {r} : Holds(s) => status'[readNode[s]] = status[readNode[s]]
    BY <1>3, <1>5, HeldByReader
  <2>2. QED
    BY <1>1, <1>2, <1>3, <1>4, <1>9, <2>1 DEF HandInv, ReadersDiffer
<1>12. RequestsAreHeld'
  <2>1. \A q \in PagedLODs \ {p} : status'[q] # "NoRequest"
            => q \in Queued' \/ \E s \in Readers : Holds(s)' /\ readNode'[s] = q
    <3>1. \A q \in PagedLODs \ {p} : status[q] # "NoRequest"
              => q \in Queued \/ \E s \in Readers \ {r} : Holds(s) /\ readNode[s] = q
      BY DEF HandInv, RequestsAreHeld, p
    <3>2. QED
      BY <1>2, <1>4, <1>5, <1>9, <3>1
  <2>2. QED
    BY <1>9, <2>1 DEF RequestsAreHeld
<1>13. CountedUntilDone'
  <2>1. r \in Serving /\ Serving' = Serving \ {r}
    BY <1>3, <1>4 DEF Serving, p
  <2>2. Cardinality(Serving') = Cardinality(Serving) - 1
    BY <2>1, ThreadsAreFinite, FS_RemoveElement
  <2>3. numActive' = Len(requestQueue') + Len(mergeQueue') + Len(nodes')
                     + Cardinality(Serving') + Cardinality(Asking') + leaked'
    BY <1>1, <1>7, <2>2, RequestsAreCounted
  <2>4. QED
    BY <2>3 DEF CountedUntilDone, Serving, Asking
<1>14. QED
  BY <1>8, <1>10, <1>11, <1>12, <1>13 DEF HandInv

\* A read thread gives its PagedLOD up when it sets the status back.
LEMMA DiscardStatusHands ==
  ASSUME HandInv, NEW r \in Readers, DiscardStatus(r)
  PROVE  HandInv'
<1> DEFINE p == readNode[r]
<1>1. /\ Goto(r, "discardStatus", "discardPending") /\ UNCHANGED <<mainVars, recVars>>
      /\ status' = [status EXCEPT ![p] = "NoRequest"]
      /\ UNCHANGED <<requestQueue, mergeQueue, numActive, leaked, readNode>>
  BY DEF DiscardStatus, queueVars
<1>2. /\ readPc[r] = "discardStatus" /\ readPc'[r] = "discardPending"
      /\ \A s \in Readers \ {r} : readPc'[s] = readPc[s]
      /\ readPc' = [readPc EXCEPT ![r] = "discardPending"]
      /\ readPc \in [Readers -> {"take", "check", "read", "compile", "discard",
                                 "discardStatus", "discardPending"}]
      /\ readNode \in [Readers -> PagedLODs \cup {Nobody}]
      /\ \A s \in Readers : readPc[s] = "take" <=> readNode[s] = Nobody
      /\ status \in [PagedLODs -> Statuses]
      /\ UNCHANGED <<mainPc, nodes, recPc, recNode>>
      /\ Asking' = Asking
  BY <1>1, OtherReaders
<1>3. Holds(r) /\ ~Holds(r)' /\ \A s \in Readers \ {r} : Holds(s)' <=> Holds(s)
  BY <1>2 DEF Holds
<1>4. /\ p \in PagedLODs /\ p # Nobody /\ p \notin Queued
      /\ \A s \in Readers \ {r} : Holds(s) => readNode[s] # p
  BY <1>3, HeldByReader
<1>5. /\ status' \in [PagedLODs -> Statuses] /\ status'[p] = "NoRequest"
      /\ \A q \in PagedLODs \ {p} : status'[q] = status[q]
  BY <1>1, <1>2, <1>4 DEF Statuses
<1> HIDE DEF p
<1>6. HandTypes' /\ NodesAreMerged'
  <2>1. readPc' \in [Readers -> {"take", "check", "read", "compile", "discard",
                                 "discardStatus", "discardPending"}]
    BY <1>2
  <2>2. \A s \in Readers : readPc'[s] = "take" <=> readNode'[s] = Nobody
    BY <1>1, <1>2
  <2>3. QED
    BY <1>1, <1>2, <1>5, <2>1, <2>2 DEF HandInv, HandTypes, NodesAreMerged
<1>7. Queued' = Queued /\ Serving' = Serving
  BY <1>1, <1>2 DEF Queued, Serving
<1>8. QueuesDiffer'
  <2>1. Queued \subseteq PagedLODs
    BY LenProperties DEF Queued, Range, HandInv, HandTypes
  <2>2. \A q \in Queued : status'[q] = status[q]
    BY <1>4, <1>5, <2>1
  <2>3. QED
    BY <1>1, <1>2, <2>2 DEF HandInv, QueuesDiffer, Queued
<1>9. ReadersDiffer'
  <2>1. \A s \in Readers \ {r} : Holds(s) => status'[readNode[s]] = status[readNode[s]]
    BY <1>4, <1>5, HeldByReader
  <2>2. QED
    BY <1>1, <1>2, <1>3, <1>7, <2>1 DEF HandInv, ReadersDiffer
<1>10. RequestsAreHeld'
  <2>1. \A q \in PagedLODs \ {p} : status[q] # "NoRequest"
            => q \in Queued \/ \E s \in Readers \ {r} : Holds(s) /\ readNode[s] = q
    BY DEF HandInv, RequestsAreHeld, p
  <2>2. QED
    BY <1>1, <1>3, <1>5, <1>7, <2>1 DEF RequestsAreHeld
<1>11. CountedUntilDone'
  BY <1>1, <1>2 DEF HandInv, CountedUntilDone
<1>12. QED
  BY <1>6, <1>8, <1>9, <1>10, <1>11 DEF HandInv

\* What it does with the PagedLOD after that is in nobody's name.
LEMMA DiscardPendingHands ==
  ASSUME HandInv, NEW r \in Readers, DiscardPending(r)
  PROVE  HandInv'
<1>1. /\ Goto(r, "discardPending", "take") /\ UNCHANGED <<mainVars, recVars>>
      /\ readNode' = [readNode EXCEPT ![r] = Nobody] /\ numActive' = numActive - 1
      /\ UNCHANGED <<requestQueue, mergeQueue, status, leaked>>
  BY DEF DiscardPending
<1>2. /\ readPc[r] = "discardPending" /\ readPc'[r] = "take"
      /\ \A s \in Readers \ {r} : readPc'[s] = readPc[s]
      /\ readPc' = [readPc EXCEPT ![r] = "take"]
      /\ readPc \in [Readers -> {"take", "check", "read", "compile", "discard",
                                 "discardStatus", "discardPending"}]
      /\ readNode \in [Readers -> PagedLODs \cup {Nobody}]
      /\ \A s \in Readers : readPc[s] = "take" <=> readNode[s] = Nobody
      /\ status \in [PagedLODs -> Statuses]
      /\ UNCHANGED <<mainPc, nodes, recPc, recNode>>
      /\ Asking' = Asking
  BY <1>1, OtherReaders
<1>3. ~Holds(r) /\ ~Holds(r)' /\ \A s \in Readers \ {r} : Holds(s)' <=> Holds(s)
  BY <1>2 DEF Holds
<1>4. /\ readNode[r] # Nobody /\ readNode'[r] = Nobody
      /\ \A s \in Readers \ {r} : readNode'[s] = readNode[s]
      /\ readNode' \in [Readers -> PagedLODs \cup {Nobody}]
  BY <1>1, <1>2
<1>5. HandTypes' /\ NodesAreMerged'
  <2>1. readPc' \in [Readers -> {"take", "check", "read", "compile", "discard",
                                 "discardStatus", "discardPending"}]
    BY <1>2
  <2>2. \A s \in Readers : readPc'[s] = "take" <=> readNode'[s] = Nobody
    BY <1>2, <1>4
  <2>3. QED
    BY <1>1, <1>2, <1>4, <2>1, <2>2 DEF HandInv, HandTypes, NodesAreMerged
<1>6. Queued' = Queued
  BY <1>1, <1>2 DEF Queued
<1>7. QueuesDiffer' /\ ReadersDiffer'
  BY <1>1, <1>2, <1>3, <1>4, <1>6 DEF HandInv, QueuesDiffer, ReadersDiffer
<1>8. RequestsAreHeld'
  BY <1>1, <1>3, <1>4, <1>6 DEF HandInv, RequestsAreHeld
<1>9. CountedUntilDone'
  <2>1. r \in Serving /\ Serving' = Serving \ {r}
    BY <1>4 DEF Serving
  <2>2. Cardinality(Serving') = Cardinality(Serving) - 1
    BY <2>1, ThreadsAreFinite, FS_RemoveElement
  <2>3. numActive' = Len(requestQueue') + Len(mergeQueue') + Len(nodes')
                     + Cardinality(Serving') + Cardinality(Asking') + leaked'
    BY <1>1, <1>2, <2>2, RequestsAreCounted
  <2>4. QED
    BY <2>3 DEF CountedUntilDone, Serving, Asking
<1>10. QED
  BY <1>5, <1>7, <1>8, <1>9 DEF HandInv

--------------------------------------------------------------------------------
(* The theorems.                                                           *)

\* Every step keeps the invariant.
LEMMA HandStep == HandInv /\ [Next]_vars => HandInv'
<1> SUFFICES ASSUME HandInv, [Next]_vars PROVE HandInv'
  OBVIOUS
<1>1. CASE MainStep
  BY <1>1, BeginUpdateHands, MergeHands, MainAloneHands DEF MainStep
<1>2. ASSUME NEW c \in Recorders, RecorderStep(c) PROVE HandInv'
  <2>1. (\E p \in PagedLODs : Skip(c, p) \/ Use(c, p)) \/ Push(c) \/ Ask(c)
            \/ Request(c) \/ Queue(c)
    BY <1>2 DEF RecorderStep
  <2>2. QED
    BY <2>1, RecorderAsksHands, RequestHands, QueueHands
<1>3. ASSUME NEW r \in Readers, ReaderStep(r) PROVE HandInv'
  <2>1. \/ Take(r) \/ Check(r) \/ Read(r) \/ Compile(r)
        \/ DiscardCount(r) \/ DiscardStatus(r) \/ DiscardPending(r)
    BY <1>3 DEF ReaderStep
  <2>2. CASE Compile(r)
    <3>1. \/ /\ Goto(r, "compile", "take")
             /\ readNode' = [readNode EXCEPT ![r] = Nobody]
             /\ status' = [status EXCEPT ![readNode[r]] = "MergeRequest"]
             /\ mergeQueue' = Append(mergeQueue, readNode[r])
             /\ UNCHANGED <<mainVars, recVars, requestQueue, numActive, leaked>>
          \/ /\ Goto(r, "compile", "discard")
             /\ UNCHANGED <<mainVars, recVars, readNode, lodVars, queueVars, trackVars>>
      BY <2>2 DEF Compile
    <3>2. QED
      BY <3>1, CompiledHands, ReaderKeepsHands
  <2>3. QED
    BY <2>1, <2>2, TakeHands, ReaderKeepsHands, DiscardStatusHands, DiscardPendingHands
<1>4. CASE UNCHANGED vars
  BY <1>4, MainAloneHands
<1>5. QED
  BY <1>1, <1>2, <1>3, <1>4 DEF Next

\* The inductive invariant holds in every reachable state.
THEOREM HandsAreInvariant == Spec => []HandInv
<1>1. QED
  BY HandInit, HandStep, PTL DEF Spec

\* For any number of threads numActiveRequests is never lowered below the requests
\* under way, and exceeds them by exactly the calls of request() that queued nothing
\* (DatabasePager.cpp:183-420).
THEOREM RequestsUnderWayAreCounted == Spec => []CountedUntilDone
<1>1. HandInv => CountedUntilDone
  BY DEF HandInv
<1>2. QED
  BY <1>1, HandsAreInvariant, PTL

\* No two threads load the same PagedLOD, none is queued twice, and the status of a
\* PagedLOD tells whether it is in a hand (DatabasePager.cpp:183-420).
THEOREM PagedLODsAreInOneHand == Spec => []InFlightOnce
<1>1. HandInv => InFlightOnce
  <2>1. SUFFICES ASSUME HandInv, NEW p \in PagedLODs
                 PROVE  Cardinality(Positions(requestQueue, p)) + Cardinality(Loading(p))
                          + Cardinality(Positions(mergeQueue, p))
                          + Cardinality(Positions(nodes, p))
                        = IF status[p] = "NoRequest" THEN 0 ELSE 1
    BY DEF InFlightOnce
  <2>2. /\ Cardinality(Positions(requestQueue, p)) = IF p \in Range(requestQueue) THEN 1 ELSE 0
        /\ Cardinality(Positions(mergeQueue, p)) = IF p \in Range(mergeQueue) THEN 1 ELSE 0
        /\ Cardinality(Positions(nodes, p)) = IF p \in Range(nodes) THEN 1 ELSE 0
    <3>1. /\ requestQueue \in Seq(PagedLODs) /\ IsInjective(requestQueue)
          /\ mergeQueue \in Seq(PagedLODs) /\ IsInjective(mergeQueue)
          /\ nodes \in Seq(PagedLODs) /\ IsInjective(nodes)
      BY <2>1 DEF HandInv, HandTypes, QueuesDiffer
    <3>2. QED
      BY <3>1, PositionsInQueue
  <2>3. \A r \in Readers : r \in Loading(p) <=> Holds(r) /\ readNode[r] = p
    <3>1. p # Nobody
      BY PagerAssumption DEF PagerAssumption
    <3>2. QED
      BY <2>1, <3>1 DEF HandInv, HandTypes, Loading, Holds
  <2>4. \/ Loading(p) = {} /\ Cardinality(Loading(p)) = 0
        \/ Cardinality(Loading(p)) = 1 /\ \E r \in Readers : Holds(r) /\ readNode[r] = p
    <3>1. CASE Loading(p) = {}
      BY <3>1, FS_EmptySet
    <3>2. CASE Loading(p) # {}
      <4>1. PICK r \in Readers : r \in Loading(p)
        BY <3>2 DEF Loading
      <4>2. Loading(p) = {r}
        <5>1. \A s \in Loading(p) : s = r
          BY <2>1, <2>3, <4>1 DEF HandInv, ReadersDiffer, Loading
        <5>2. QED
          BY <4>1, <5>1
      <4>3. Cardinality(Loading(p)) = 1
        BY <4>2, FS_Singleton
      <4>4. QED
        BY <2>3, <4>1, <4>3
    <3>3. QED
      BY <3>1, <3>2
  <2>5. /\ p \in Range(requestQueue) => /\ status[p] = "ReadRequest"
                                        /\ p \notin Range(mergeQueue) \cup Range(nodes)
        /\ p \in Range(mergeQueue) => status[p] = "MergeRequest" /\ p \notin Range(nodes)
        /\ p \in Range(nodes) => status[p] = "MergeRequest"
    BY <2>1 DEF HandInv, QueuesDiffer
  <2>6. (\E r \in Readers : Holds(r) /\ readNode[r] = p)
            => p \notin Queued /\ status[p] # "NoRequest"
    BY <2>1, HeldByReader
  <2>7. status[p] # "NoRequest"
            => p \in Queued \/ \E r \in Readers : Holds(r) /\ readNode[r] = p
    BY <2>1 DEF HandInv, RequestsAreHeld
  <2>8. CASE p \in Queued
    BY <2>2, <2>4, <2>5, <2>6, <2>8 DEF Queued
  <2>9. CASE p \notin Queued
    <3>1. /\ Cardinality(Positions(requestQueue, p)) = 0
          /\ Cardinality(Positions(mergeQueue, p)) = 0 /\ Cardinality(Positions(nodes, p)) = 0
      BY <2>2, <2>9 DEF Queued
    <3>2. Cardinality(Loading(p)) = IF status[p] = "NoRequest" THEN 0 ELSE 1
      BY <2>3, <2>4, <2>6, <2>7, <2>9
    <3>3. QED
      BY <3>1, <3>2
  <2>10. QED
    BY <2>8, <2>9
<1>2. QED
  BY <1>1, HandsAreInvariant, PTL

\* A set of numbers that has 0, and n + 1 if it has n, has them all.
LEMMA NumbersByInduction ==
  ASSUME NEW T \in SUBSET Nat, 0 \in T, \A n \in T : n + 1 \in T
  PROVE  T = Nat
<1>1. SUFFICES ASSUME Nat \ T # {} PROVE FALSE
  OBVIOUS
<1> DEFINE Rest == {1 .. n : n \in Nat \ T}
<1>2. PICK n \in Nat \ T : \A m \in Nat \ T : ~(m < n)
  <2>1. Rest \subseteq FiniteSubsetsOf(Nat) /\ Rest # {}
    <3>1. \A n \in Nat : 1 .. n \subseteq Nat /\ IsFiniteSet(1 .. n)
      BY FS_Interval
    <3>2. QED
      BY <1>1, <3>1 DEF FiniteSubsetsOf
  <2>2. PICK x \in Rest : \A y \in Rest : ~(<<y, x>> \in StrictSubsetOrdering(Nat))
    BY <2>1, FS_StrictSubsetOrderingWellFounded, WFMin
  <2>3. PICK n \in Nat \ T : x = 1 .. n
    BY <2>2
  <2>4. ASSUME NEW m \in Nat \ T, m < n PROVE FALSE
    <3>1. /\ 1 .. m \in SUBSET Nat /\ 1 .. n \in SUBSET Nat
          /\ 1 .. m \subseteq 1 .. n /\ n \in 1 .. n /\ n \notin 1 .. m
      BY <2>4
    <3>2. <<1 .. m, 1 .. n>> \in StrictSubsetOrdering(Nat)
      BY <3>1 DEF StrictSubsetOrdering
    <3>3. QED
      BY <2>2, <2>3, <3>2
  <2>5. QED
    BY <2>4
<1>3. n # 0 /\ n - 1 \in Nat
  BY <1>2
<1>4. n - 1 < n
  BY <1>3
<1>5. n - 1 \in T
  BY <1>2, <1>3, <1>4
<1>6. (n - 1) + 1 \in T
  BY <1>5
<1>7. QED
  BY <1>2, <1>3, <1>6

--------------------------------------------------------------------------------
(* The container as chains of elements.                                    *)

Element == [previous : Nat, next : Nat, plod : PagedLODs \cup {NoPagedLOD}, list : Lists]
ListRecord == [head : Nat, tail : Nat, count : Nat]
Container ==
    [elements : Seq(Element), lists : [Lists -> ListRecord], index : [PagedLODs -> Nat]]

\* The list is the chain of these elements, in this order.
IsChain(c, name, chain) ==
    /\ chain \in Seq(1 .. Size(c)) /\ IsInjective(chain)
    /\ c.lists[name].head = IF Len(chain) = 0 THEN 0 ELSE chain[1]
    /\ c.lists[name].tail = IF Len(chain) = 0 THEN 0 ELSE chain[Len(chain)]
    /\ c.lists[name].count = Len(chain)
    /\ \A k \in 1 .. Len(chain) :
          LET e == c.elements[chain[k]]
          IN  /\ e.list = name
              /\ e.previous = IF k = 1 THEN 0 ELSE chain[k - 1]
              /\ e.next = IF k = Len(chain) THEN 0 ELSE chain[k + 1]

\* Every element is in the chain of its list, except those that are being moved.
Linked(c, chains, loose) ==
    /\ c \in Container
    /\ \A name \in Lists : IsChain(c, name, chains[name])
    /\ \A i \in 1 .. Size(c) :
          i \in Range(chains[c.elements[i].list]) <=> i \notin loose
    /\ DOMAIN chains = Lists

\* A function on 1 .. n is a sequence of n elements.
LEMMA SequenceOfLength ==
  ASSUME NEW S, NEW n \in Nat, NEW f \in [1 .. n -> S]
  PROVE  f \in Seq(S) /\ Len(f) = n
<1>1. f \in Seq(S)
  BY SeqDef
<1>2. DOMAIN f = 1 .. n /\ DOMAIN f = 1 .. Len(f) /\ Len(f) \in Nat
  BY <1>1, LenProperties
<1>3. QED
  BY <1>1, <1>2

\* What a chain is made of, with its domain.
LEMMA ChainFacts ==
  ASSUME NEW c \in Container, NEW name \in Lists, NEW q, IsChain(c, name, q)
  PROVE  /\ Size(c) \in Nat /\ DOMAIN c.elements = 1 .. Size(c)
         /\ \A i \in 1 .. Size(c) : c.elements[i] \in Element
         /\ q \in Seq(1 .. Size(c)) /\ Len(q) \in Nat /\ DOMAIN q = 1 .. Len(q)
         /\ \A k \in 1 .. Len(q) : q[k] \in 1 .. Size(c)
         /\ \A j, k \in 1 .. Len(q) : q[j] = q[k] => j = k
<1>1. c.elements \in Seq(Element)
  BY DEF Container
<1>2. Size(c) \in Nat /\ DOMAIN c.elements = 1 .. Size(c)
      /\ \A i \in 1 .. Size(c) : c.elements[i] \in Element
  BY <1>1, LenProperties DEF Size
<1>3. q \in Seq(1 .. Size(c)) /\ IsInjective(q)
  BY DEF IsChain
<1>4. Len(q) \in Nat /\ DOMAIN q = 1 .. Len(q) /\ \A k \in 1 .. Len(q) : q[k] \in 1 .. Size(c)
  BY <1>3, LenProperties
<1>5. QED
  BY <1>2, <1>3, <1>4 DEF IsInjective

ListWithout(list, i, e) ==
    [head |-> IF list.head = i THEN e.next ELSE list.head,
     tail |-> IF list.tail = i THEN e.previous ELSE list.tail,
     count |-> list.count - 1]

\* The fields of the container u, which is c when the element e at i has left its list.
FieldsWithout(c, i, e, u) ==
    /\ u \in Container /\ Size(u) = Size(c) /\ u.index = c.index
    /\ \A n \in 1 .. Size(c) :
          /\ u.elements[n].list = c.elements[n].list
          /\ u.elements[n].plod = c.elements[n].plod
          /\ u.elements[n].next = IF n = e.previous THEN e.next ELSE c.elements[n].next
          /\ u.elements[n].previous = IF n = e.next /\ n # e.previous THEN e.previous
                                      ELSE c.elements[n].previous
    /\ \A name \in Lists \ {e.list} : u.lists[name] = c.lists[name]
    /\ u.lists[e.list] = ListWithout(c.lists[e.list], i, e)

\* An element leaves its list.
LEMMA UnlinkedFields ==
  ASSUME NEW c \in Container, NEW i \in 1 .. Size(c), NEW e, e = c.elements[i],
         c.lists[e.list].count # 0, NEW u, u = Unlinked(c, i)
  PROVE  FieldsWithout(c, i, e, u)
<1> DEFINE elements == [n \in DOMAIN c.elements |->
                          IF n = e.previous THEN [c.elements[n] EXCEPT !.next = e.next]
                          ELSE IF n = e.next THEN [c.elements[n] EXCEPT !.previous = e.previous]
                          ELSE c.elements[n]]
           list == [head |-> IF c.lists[e.list].head = i THEN e.next ELSE c.lists[e.list].head,
                    tail |-> IF c.lists[e.list].tail = i THEN e.previous
                             ELSE c.lists[e.list].tail,
                    count |-> c.lists[e.list].count - 1]
<1>1. /\ c.elements \in Seq(Element) /\ c.lists \in [Lists -> ListRecord]
      /\ c.index \in [PagedLODs -> Nat]
      /\ c = [elements |-> c.elements, lists |-> c.lists, index |-> c.index]
  BY DEF Container
<1>2. /\ Size(c) \in Nat /\ DOMAIN c.elements = 1 .. Size(c)
      /\ \A n \in 1 .. Size(c) : c.elements[n] \in Element
  BY <1>1, LenProperties DEF Size
<1>3. e \in Element /\ e.list \in Lists /\ c.lists[e.list] \in ListRecord
  BY <1>1, <1>2 DEF Element
<1>4. list \in ListRecord
  BY <1>3 DEF Element, ListRecord
<1>5. u = [c EXCEPT !.elements = elements, !.lists[e.list] = list]
  BY DEF Unlinked
<1> DEFINE lists == [c.lists EXCEPT ![e.list] = list]
<1>6. u = [elements |-> elements, lists |-> lists, index |-> c.index]
  BY <1>1, <1>5
<1>7. \A n \in 1 .. Size(c) :
         /\ elements[n] \in Element
         /\ elements[n].list = c.elements[n].list
         /\ elements[n].plod = c.elements[n].plod
         /\ elements[n].next = IF n = e.previous THEN e.next ELSE c.elements[n].next
         /\ elements[n].previous = IF n = e.next /\ n # e.previous THEN e.previous
                                   ELSE c.elements[n].previous
  BY <1>2, <1>3 DEF Element
<1>8. elements \in Seq(Element) /\ Len(elements) = Size(c)
  <2>1. elements \in [1 .. Size(c) -> Element]
    BY <1>2, <1>7
  <2>2. QED
    BY <1>2, <2>1, SequenceOfLength
<1>9. lists \in [Lists -> ListRecord]
  BY <1>1, <1>4
<1> HIDE DEF elements, list
<1>10. u \in Container /\ Size(u) = Size(c) /\ u.index = c.index
  BY <1>1, <1>6, <1>8, <1>9 DEF Container, Size
<1>11. u.elements = elements /\ u.lists = lists
  BY <1>6
<1>12. /\ \A name \in Lists \ {e.list} : u.lists[name] = c.lists[name]
       /\ u.lists[e.list] = list
  BY <1>1, <1>3, <1>11
<1>13. \A n \in 1 .. Size(c) :
          /\ u.elements[n].list = c.elements[n].list
          /\ u.elements[n].plod = c.elements[n].plod
          /\ u.elements[n].next = IF n = e.previous THEN e.next ELSE c.elements[n].next
          /\ u.elements[n].previous = IF n = e.next /\ n # e.previous THEN e.previous
                                      ELSE c.elements[n].previous
  BY <1>7, <1>11, Zenon
<1>14. QED
  BY <1>10, <1>12, <1>13 DEF list, ListWithout, FieldsWithout

\* The element at k of a list has left it and is loose.
HasLeft(c, s, name, q, k, i) ==
    /\ Linked(Unlinked(c, i), [s EXCEPT ![name] = RemoveAt(q, k)], {i})
    /\ i \in 1 .. Size(c) /\ c.elements[i].list = name
    /\ Size(Unlinked(c, i)) = Size(c) /\ Unlinked(c, i).index = c.index
    /\ \A n \in 1 .. Size(c) :
          /\ Unlinked(c, i).elements[n].list = c.elements[n].list
          /\ Unlinked(c, i).elements[n].plod = c.elements[n].plod

\* An element that leaves its list is loose, and the others keep their order.
LEMMA UnlinkedChains ==
  ASSUME NEW c, NEW s, Linked(c, s, {}), NEW name \in Lists, NEW q, q = s[name],
         NEW k \in 1 .. Len(q), NEW i, i = q[k]
  PROVE  HasLeft(c, s, name, q, k, i)
<1>0. PICK e, u, r, t, len, size :
         /\ e = c.elements[i] /\ u = Unlinked(c, i) /\ r = RemoveAt(q, k)
         /\ t = [s EXCEPT ![name] = r] /\ len = Len(q) /\ size = Size(c)
  OBVIOUS
<1>1. /\ c \in Container /\ DOMAIN s = Lists
      /\ \A l \in Lists : IsChain(c, l, s[l])
      /\ \A n \in 1 .. size : n \in Range(s[c.elements[n].list])
  BY <1>0 DEF Linked
<1>2. /\ size \in Nat /\ \A n \in 1 .. size : c.elements[n] \in Element
      /\ q \in Seq(1 .. size) /\ len \in Nat /\ DOMAIN q = 1 .. len
      /\ \A j \in 1 .. len : q[j] \in 1 .. size
      /\ \A j, m \in 1 .. len : q[j] = q[m] => j = m
      /\ k \in 1 .. len /\ k \in DOMAIN q /\ i \in 1 .. size
  <2>1. IsChain(c, name, q)
    BY <1>1
  <2>2. /\ size \in Nat /\ \A n \in 1 .. size : c.elements[n] \in Element
        /\ q \in Seq(1 .. size) /\ len \in Nat /\ DOMAIN q = 1 .. len
        /\ \A j \in 1 .. len : q[j] \in 1 .. size
        /\ \A j, m \in 1 .. len : q[j] = q[m] => j = m
    <3>1. /\ Size(c) \in Nat /\ DOMAIN c.elements = 1 .. Size(c)
          /\ \A n \in 1 .. Size(c) : c.elements[n] \in Element
          /\ q \in Seq(1 .. Size(c)) /\ Len(q) \in Nat /\ DOMAIN q = 1 .. Len(q)
          /\ \A j \in 1 .. Len(q) : q[j] \in 1 .. Size(c)
          /\ \A j, m \in 1 .. Len(q) : q[j] = q[m] => j = m
      BY <1>1, <2>1, ChainFacts
    <3>2. QED
      BY <1>0, <3>1, Zenon
  <2>3. QED
    BY <1>0, <2>2
<1>3. /\ c.lists[name].count = len
      /\ c.lists[name].head = q[1] /\ c.lists[name].tail = q[len]
      /\ \A j \in 1 .. len : /\ c.elements[q[j]].list = name
                             /\ c.elements[q[j]].previous = IF j = 1 THEN 0 ELSE q[j - 1]
                             /\ c.elements[q[j]].next = IF j = len THEN 0 ELSE q[j + 1]
  <2>1. IsChain(c, name, q) /\ len # 0
    BY <1>0, <1>1, <1>2
  <2>2. QED
    BY <1>0, <2>1 DEF IsChain
<1>4. /\ e.list = name
      /\ e.previous = IF k = 1 THEN 0 ELSE q[k - 1]
      /\ e.next = IF k = len THEN 0 ELSE q[k + 1]
  BY <1>0, <1>2, <1>3
<1>5. /\ r \in Seq(1 .. size) /\ Len(r) = len - 1
      /\ \A j \in 1 .. len - 1 : r[j] = IF j < k THEN q[j] ELSE q[j + 1]
  <2>1. q \in Seq(1 .. size) /\ k \in DOMAIN q
    BY <1>2
  <2>2. /\ r \in Seq(1 .. size) /\ Len(r) = Len(q) - 1
        /\ \A j \in 1 .. Len(q) - 1 : r[j] = IF j < k THEN q[j] ELSE q[j + 1]
    BY <1>0, <2>1, ElementsRemain, Zenon
  <2>3. QED
    BY <1>0, <2>2, Zenon
<1>6. IsInjective(r) /\ Range(r) = Range(q) \ {i}
  BY <1>0, <1>1, <1>2, ShortenedQueue DEF IsChain
<1>7. /\ u \in Container /\ Size(u) = size /\ u.index = c.index
      /\ \A n \in 1 .. size :
            /\ u.elements[n].list = c.elements[n].list
            /\ u.elements[n].plod = c.elements[n].plod
            /\ u.elements[n].next = IF n = e.previous THEN e.next ELSE c.elements[n].next
            /\ u.elements[n].previous = IF n = e.next /\ n # e.previous THEN e.previous
                                        ELSE c.elements[n].previous
      /\ \A l \in Lists \ {name} : u.lists[l] = c.lists[l]
      /\ u.lists[name] = ListWithout(c.lists[name], i, e)
  <2>1. c.lists[e.list].count # 0
    BY <1>2, <1>3, <1>4
  <2>2. QED
    <3>1. i \in 1 .. Size(c) /\ e = c.elements[i] /\ u = Unlinked(c, i) /\ c \in Container
      BY <1>0, <1>1, <1>2
    <3>2. FieldsWithout(c, i, e, u)
      BY <2>1, <3>1, UnlinkedFields
    <3>3. QED
      BY <1>0, <1>4, <3>2, Zenon DEF FieldsWithout
<1>8. /\ \A j \in 1 .. len : q[j] = e.previous <=> j = k - 1
      /\ \A j \in 1 .. len : q[j] = e.next <=> j = k + 1
  <2>1. ASSUME NEW j \in 1 .. len PROVE q[j] = e.previous <=> j = k - 1
    <3>1. CASE k = 1
      BY <1>2, <1>4, <3>1
    <3>2. CASE k # 1
      <4>1. k - 1 \in 1 .. len
        BY <1>2, <3>2
      <4>2. QED
        BY <1>2, <1>4, <3>2, <4>1
    <3>3. QED
      BY <3>1, <3>2
  <2>2. ASSUME NEW j \in 1 .. len PROVE q[j] = e.next <=> j = k + 1
    <3>1. CASE k = len
      BY <1>2, <1>4, <3>1
    <3>2. CASE k # len
      <4>1. k + 1 \in 1 .. len
        BY <1>2, <3>2
      <4>2. QED
        BY <1>2, <1>4, <3>2, <4>1
    <3>3. QED
      BY <3>1, <3>2
  <2>3. QED
    BY <2>1, <2>2
<1>9. \A j \in 1 .. len - 1 :
         LET m == IF j < k THEN j ELSE j + 1
         IN  m \in 1 .. len /\ r[j] = q[m] /\ m # k
  <2>1. ASSUME NEW j \in 1 .. len - 1, j < k PROVE j \in 1 .. len /\ r[j] = q[j] /\ j # k
    BY <1>2, <1>5, <2>1
  <2>2. ASSUME NEW j \in 1 .. len - 1, ~(j < k)
        PROVE  j + 1 \in 1 .. len /\ r[j] = q[j + 1] /\ j + 1 # k
    BY <1>2, <1>5, <2>2
  <2>3. QED
    BY <2>1, <2>2
<1>10. IsChain(u, name, r)
  <2>1. ASSUME NEW j \in 1 .. len - 1
        PROVE  /\ u.elements[r[j]].list = name
               /\ u.elements[r[j]].previous = IF j = 1 THEN 0 ELSE r[j - 1]
               /\ u.elements[r[j]].next = IF j = len - 1 THEN 0 ELSE r[j + 1]
    <3>1. PICK m : m = IF j < k THEN j ELSE j + 1
      OBVIOUS
    <3>2. m \in 1 .. len /\ r[j] = q[m] /\ q[m] \in 1 .. size
      BY <1>2, <1>9, <3>1
    <3>a. /\ len \in Nat /\ k \in 1 .. len /\ m \in 1 .. len /\ m # k
          /\ j < k => m = j
          /\ ~(j < k) => m = j + 1
      BY <1>2, <1>9, <3>1
    <3>3. (q[m] = e.previous <=> m = k - 1) /\ (q[m] = e.next <=> m = k + 1)
      BY <1>8, <3>2
    <3>4. u.elements[r[j]].list = name
      BY <1>3, <1>7, <3>2, SMTT(40)
    <3>5. u.elements[q[m]].next = IF m = k - 1 THEN e.next ELSE c.elements[q[m]].next
      BY <1>7, <3>2, <3>3, Zenon
    <3>6. u.elements[q[m]].next = IF j = len - 1 THEN 0 ELSE r[j + 1]
      <4>1. CASE m = k - 1
        <5>1. j = k - 1
          BY <1>2, <3>1, <4>1
        <5>2. u.elements[q[m]].next = IF k = len THEN 0 ELSE q[k + 1]
          BY <1>4, <3>5, <4>1
        <5>3. k # len => k \in 1 .. len - 1 /\ r[k] = q[k + 1]
          BY <1>2, <1>5
        <5>4. (j = len - 1 <=> k = len) /\ j + 1 = k
          BY <3>a, <5>1
        <5>5. QED
          BY <5>2, <5>3, <5>4
      <4>2. CASE m # k - 1
        <5>1. u.elements[q[m]].next = IF m = len THEN 0 ELSE q[m + 1]
          BY <1>3, <3>2, <3>5, <4>2
        <5>2. m = len <=> j = len - 1
          BY <1>2, <3>1, <3>2, <4>2
        <5>3. m # len => j + 1 \in 1 .. len - 1 /\ r[j + 1] = q[m + 1]
          <6>1. CASE m < k
            <7>1. m = j /\ j + 1 < k /\ j + 1 \in 1 .. len - 1
              BY <3>a, <4>2, <6>1
            <7>2. QED
              BY <1>5, <7>1
          <6>2. CASE m > k /\ m # len
            <7>1. m = j + 1 /\ ~(j + 1 < k) /\ j + 1 \in 1 .. len - 1
              BY <3>a, <6>2
            <7>2. QED
              BY <1>5, <7>1
          <6>3. QED
            BY <3>a, <6>1, <6>2
        <5>4. QED
          BY <5>1, <5>2, <5>3
      <4>3. QED
        BY <4>1, <4>2
    <3>7. u.elements[q[m]].previous = IF m = k + 1 THEN e.previous
                                      ELSE c.elements[q[m]].previous
      <4>1. m = k + 1 => m # k - 1
        BY <1>2, <3>2
      <4>2. QED
        BY <1>7, <3>2, <3>3, <4>1, Zenon
    <3>8. u.elements[q[m]].previous = IF j = 1 THEN 0 ELSE r[j - 1]
      <4>1. CASE m = k + 1
        <5>1. j = k
          BY <1>2, <3>1, <4>1
        <5>2. u.elements[q[m]].previous = IF k = 1 THEN 0 ELSE q[k - 1]
          BY <1>4, <3>7, <4>1
        <5>3. k # 1 => k - 1 \in 1 .. len - 1 /\ r[k - 1] = q[k - 1]
          BY <1>2, <1>5
        <5>4. QED
          BY <5>1, <5>2, <5>3
      <4>2. CASE m # k + 1
        <5>1. u.elements[q[m]].previous = IF m = 1 THEN 0 ELSE q[m - 1]
          BY <1>3, <3>2, <3>7, <4>2
        <5>2. m = 1 <=> j = 1
          BY <1>2, <3>1, <3>2, <4>2
        <5>3. m # 1 => j - 1 \in 1 .. len - 1 /\ r[j - 1] = q[m - 1]
          <6>1. CASE m < k /\ m # 1
            <7>1. m = j /\ j - 1 < k /\ j - 1 \in 1 .. len - 1
              BY <3>a, <6>1
            <7>2. QED
              BY <1>5, <7>1
          <6>2. CASE m > k
            <7>1. m = j + 1 /\ ~(j - 1 < k) /\ j - 1 \in 1 .. len - 1 /\ (j - 1) + 1 = m - 1
              BY <3>a, <4>2, <6>2
            <7>2. QED
              BY <1>5, <7>1
          <6>3. QED
            BY <3>a, <6>1, <6>2
        <5>4. QED
          BY <5>1, <5>2, <5>3
      <4>3. QED
        BY <4>1, <4>2
    <3>9. QED
      BY <3>2, <3>4, <3>6, <3>8
  <2>2. /\ u.lists[name].head = IF q[1] = i THEN e.next ELSE q[1]
        /\ u.lists[name].tail = IF q[len] = i THEN e.previous ELSE q[len]
        /\ u.lists[name].count = len - 1
    BY <1>3, <1>7 DEF ListWithout
  <2>3. (q[1] = i <=> k = 1) /\ (q[len] = i <=> k = len)
    <3>1. 1 \in 1 .. len /\ len \in 1 .. len
      BY <1>2
    <3>2. QED
      BY <1>0, <1>2, <3>1
  <2>4. u.lists[name].head = IF len - 1 = 0 THEN 0 ELSE r[1]
    <3>1. CASE k = 1
      <4>1. u.lists[name].head = IF len = 1 THEN 0 ELSE q[2]
        BY <1>4, <2>2, <2>3, <3>1
      <4>2. len # 1 => 1 \in 1 .. len - 1 /\ r[1] = q[2]
        BY <1>2, <1>5, <3>1
      <4>3. QED
        BY <1>2, <4>1, <4>2
    <3>2. CASE k # 1
      <4>1. 1 \in 1 .. len - 1 /\ r[1] = q[1]
        <5>1. len \in Nat /\ k \in 1 .. len
          BY <1>2
        <5>2. 1 \in 1 .. len - 1 /\ 1 < k
          BY <3>2, <5>1
        <5>3. QED
          BY <1>5, <5>2
      <4>2. u.lists[name].head = q[1]
        BY <2>2, <2>3, <3>2
      <4>3. len - 1 # 0
        BY <1>2, <4>1
      <4>4. QED
        BY <4>1, <4>2, <4>3
    <3>3. QED
      BY <3>1, <3>2
  <2>5. u.lists[name].tail = IF len - 1 = 0 THEN 0 ELSE r[len - 1]
    <3>1. CASE k = len
      <4>1. u.lists[name].tail = IF len = 1 THEN 0 ELSE q[len - 1]
        BY <1>4, <2>2, <2>3, <3>1
      <4>2. len # 1 => len - 1 \in 1 .. len - 1 /\ r[len - 1] = q[len - 1]
        BY <1>2, <1>5, <3>1
      <4>3. QED
        BY <1>2, <4>1, <4>2
    <3>2. CASE k # len
      <4>1. len \in Nat /\ k \in 1 .. len
        BY <1>2
      <4>2. len - 1 \in 1 .. len - 1 /\ ~(len - 1 < k) /\ len - 1 + 1 = len
        BY <3>2, <4>1
      <4>3. r[len - 1] = q[len]
        BY <1>5, <4>2
      <4>4. u.lists[name].tail = q[len]
        BY <2>2, <2>3, <3>2
      <4>5. len - 1 # 0
        BY <4>2
      <4>6. QED
        BY <4>3, <4>4, <4>5
    <3>3. QED
      BY <3>1, <3>2
  <2>6. QED
    BY <1>5, <1>6, <1>7, <2>1, <2>2, <2>4, <2>5 DEF IsChain
<1>11. ASSUME NEW l \in Lists \ {name} PROVE IsChain(u, l, s[l])
  <2>1. IsChain(c, l, s[l])
    BY <1>1
  <2>2. \A j \in 1 .. Len(s[l]) : s[l][j] \in 1 .. size /\ c.elements[s[l][j]].list = l
    <3>1. c \in Container /\ l \in Lists
      BY <1>1
    <3>2. \A j \in 1 .. Len(s[l]) : s[l][j] \in 1 .. Size(c)
      BY <2>1, <3>1, ChainFacts, Zenon
    <3>3. \A j \in 1 .. Len(s[l]) : c.elements[s[l][j]].list = l
      BY <2>1 DEF IsChain
    <3>4. QED
      BY <1>0, <3>2, <3>3
  <2>3. e.previous \notin 1 .. size \/ c.elements[e.previous].list = name
    <3>1. k # 1 => k - 1 \in 1 .. len
      BY <1>2
    <3>2. QED
      BY <1>3, <1>4, <3>1
  <2>4. e.next \notin 1 .. size \/ c.elements[e.next].list = name
    <3>1. k # len => k + 1 \in 1 .. len
      BY <1>2
    <3>2. QED
      BY <1>3, <1>4, <3>1
  <2>5. \A j \in 1 .. Len(s[l]) : u.elements[s[l][j]].list = c.elements[s[l][j]].list
                                  /\ u.elements[s[l][j]].next = c.elements[s[l][j]].next
                                  /\ u.elements[s[l][j]].previous = c.elements[s[l][j]].previous
    <3>1. ASSUME NEW j \in 1 .. Len(s[l])
          PROVE  s[l][j] \in 1 .. size /\ s[l][j] # e.previous /\ s[l][j] # e.next
      BY <2>2, <2>3, <2>4
    <3>2. QED
      BY <1>7, <3>1
  <2>6. u.lists[l] = c.lists[l] /\ Size(u) = Size(c)
    BY <1>0, <1>7
  <2>7. \A j \in 1 .. Len(s[l]) :
           /\ u.elements[s[l][j]].list = l
           /\ u.elements[s[l][j]].previous = IF j = 1 THEN 0 ELSE s[l][j - 1]
           /\ u.elements[s[l][j]].next = IF j = Len(s[l]) THEN 0 ELSE s[l][j + 1]
    <3>1. \A j \in 1 .. Len(s[l]) :
             /\ c.elements[s[l][j]].list = l
             /\ c.elements[s[l][j]].previous = IF j = 1 THEN 0 ELSE s[l][j - 1]
             /\ c.elements[s[l][j]].next = IF j = Len(s[l]) THEN 0 ELSE s[l][j + 1]
      BY <2>1 DEF IsChain
    <3>2. QED
      BY <2>5, <3>1, Zenon
  <2>8. /\ s[l] \in Seq(1 .. Size(u)) /\ IsInjective(s[l])
        /\ u.lists[l].head = IF Len(s[l]) = 0 THEN 0 ELSE s[l][1]
        /\ u.lists[l].tail = IF Len(s[l]) = 0 THEN 0 ELSE s[l][Len(s[l])]
        /\ u.lists[l].count = Len(s[l])
    BY <2>1, <2>6 DEF IsChain
  <2>9. QED
    BY <2>7, <2>8 DEF IsChain
<1>12. DOMAIN t = Lists /\ t[name] = r /\ \A l \in Lists \ {name} : t[l] = s[l]
  BY <1>0, <1>1
<1>13. ASSUME NEW n \in 1 .. size
       PROVE  n \in Range(t[c.elements[n].list]) <=> n # i
  <2>1. c.elements[n].list \in Lists
    BY <1>2 DEF Element
  <2>2. n \in Range(s[c.elements[n].list])
    BY <1>1
  <2>3. CASE c.elements[n].list = name
    BY <1>6, <1>12, <2>2, <2>3
  <2>4. CASE c.elements[n].list # name
    BY <1>0, <1>4, <1>12, <2>1, <2>2, <2>4
  <2>5. QED
    BY <2>3, <2>4
<1>14. \A l \in Lists : IsChain(u, l, t[l])
  BY <1>10, <1>11, <1>12
<1>15. \A n \in 1 .. Size(u) : n \in Range(t[u.elements[n].list]) <=> n \notin {i}
  BY <1>7, <1>13
<1>16. Linked(u, t, {i})
  BY <1>7, <1>12, <1>14, <1>15 DEF Linked
<1>17. QED
  BY <1>0, <1>2, <1>4, <1>7, <1>16 DEF HasLeft

ListWith(list, i) ==
    [head |-> IF list.head = 0 THEN i ELSE list.head, tail |-> i, count |-> list.count + 1]

\* The fields of the container when an element has entered a list.
LEMMA AppendedFields ==
  ASSUME NEW c \in Container, NEW i \in 1 .. Size(c), NEW name \in Lists,
         NEW tail, tail = c.lists[name].tail, tail # i, tail \in 0 .. Size(c),
         NEW a, a = Appended(c, i, name)
  PROVE  /\ a \in Container /\ Size(a) = Size(c) /\ a.index = c.index
         /\ a.elements[i].list = name /\ a.elements[i].plod = c.elements[i].plod
         /\ a.elements[i].previous = tail /\ a.elements[i].next = 0
         /\ \A n \in 1 .. Size(c) \ {i} :
               /\ a.elements[n].list = c.elements[n].list
               /\ a.elements[n].plod = c.elements[n].plod
               /\ a.elements[n].next = IF n = tail THEN i ELSE c.elements[n].next
               /\ a.elements[n].previous = c.elements[n].previous
         /\ \A l \in Lists \ {name} : a.lists[l] = c.lists[l]
         /\ a.lists[name] = ListWith(c.lists[name], i)
<1> DEFINE linked == IF tail > 0 THEN [c.elements EXCEPT ![tail].next = i] ELSE c.elements
           elements == [linked EXCEPT ![i] = [@ EXCEPT !.previous = tail, !.next = 0,
                                                       !.list = name]]
           lists == [c.lists EXCEPT ![name] = ListWith(c.lists[name], i)]
<1>1. /\ c.elements \in Seq(Element) /\ c.lists \in [Lists -> ListRecord]
      /\ c.index \in [PagedLODs -> Nat]
      /\ c = [elements |-> c.elements, lists |-> c.lists, index |-> c.index]
  BY DEF Container
<1>2. /\ Size(c) \in Nat /\ DOMAIN c.elements = 1 .. Size(c)
      /\ \A n \in 1 .. Size(c) : c.elements[n] \in Element
  BY <1>1, LenProperties DEF Size
<1>3. a = [c EXCEPT !.elements = elements, !.lists[name] = ListWith(c.lists[name], i)]
  BY DEF Appended, ListWith
<1>4. a = [elements |-> elements, lists |-> lists, index |-> c.index]
  BY <1>1, <1>3
<1>5. /\ DOMAIN linked = 1 .. Size(c)
      /\ \A n \in 1 .. Size(c) :
            linked[n] = IF n = tail THEN [c.elements[n] EXCEPT !.next = i] ELSE c.elements[n]
  <2>1. tail > 0 => tail \in 1 .. Size(c)
    BY <1>2
  <2>2. CASE tail > 0
    BY <1>2, <2>1, <2>2
  <2>3. CASE ~(tail > 0)
    <3>1. tail \notin 1 .. Size(c)
      BY <1>2, <2>3
    <3>2. QED
      BY <1>2, <2>3, <3>1
  <2>4. QED
    BY <2>2, <2>3
<1> HIDE DEF linked
<1>6. ASSUME NEW n \in 1 .. Size(c)
      PROVE  /\ linked[n] \in Element
             /\ linked[n].list = c.elements[n].list
             /\ linked[n].plod = c.elements[n].plod
             /\ linked[n].next = IF n = tail THEN i ELSE c.elements[n].next
             /\ linked[n].previous = c.elements[n].previous
  <2>1. c.elements[n] \in Element /\ i \in Nat
    BY <1>2
  <2>2. CASE n = tail
    BY <1>5, <2>1, <2>2 DEF Element
  <2>3. CASE n # tail
    BY <1>5, <2>1, <2>3 DEF Element
  <2>4. QED
    BY <2>2, <2>3
<1>7. /\ DOMAIN elements = 1 .. Size(c)
      /\ elements[i] = [linked[i] EXCEPT !.previous = tail, !.next = 0, !.list = name]
      /\ \A n \in 1 .. Size(c) \ {i} : elements[n] = linked[n]
      /\ elements = [n \in 1 .. Size(c) |-> elements[n]]
  BY <1>5
<1> HIDE DEF elements
<1>8. /\ elements[i] \in Element
      /\ elements[i].list = name /\ elements[i].plod = c.elements[i].plod
      /\ elements[i].previous = tail /\ elements[i].next = 0
  <2>1. tail \in Nat /\ linked[i] \in Element /\ linked[i].plod = c.elements[i].plod
    BY <1>2, <1>6
  <2>2. /\ elements[i].previous = tail /\ elements[i].next = 0 /\ elements[i].list = name
        /\ elements[i].plod = linked[i].plod
        /\ elements[i] = [previous |-> tail, next |-> 0, plod |-> linked[i].plod, list |-> name]
    BY <1>7, <2>1 DEF Element
  <2>3. linked[i].plod \in PagedLODs \cup {NoPagedLOD}
    BY <2>1 DEF Element
  <2>4. QED
    BY <2>1, <2>2, <2>3 DEF Element
<1>9. elements \in [1 .. Size(c) -> Element]
  BY <1>6, <1>7, <1>8
<1>10. lists \in [Lists -> ListRecord]
  <2>1. ListWith(c.lists[name], i) \in ListRecord
    <3>1. c.lists[name] \in ListRecord /\ i \in Nat
      BY <1>1, <1>2
    <3>2. QED
      BY <3>1 DEF ListRecord, ListWith
  <2>2. QED
    BY <1>1, <2>1
<1>11. elements \in Seq(Element) /\ Len(elements) = Size(c)
  BY <1>2, <1>9, SequenceOfLength
<1> HIDE DEF lists
<1>12. a \in Container /\ Size(a) = Size(c) /\ a.index = c.index
  BY <1>1, <1>4, <1>10, <1>11 DEF Container, Size
<1>13. a.elements = elements /\ a.lists = lists
  BY <1>4
<1>14. /\ \A l \in Lists \ {name} : a.lists[l] = c.lists[l]
       /\ a.lists[name] = ListWith(c.lists[name], i)
  BY <1>1, <1>13 DEF lists
<1>15. \A n \in 1 .. Size(c) \ {i} :
          /\ a.elements[n].list = c.elements[n].list
          /\ a.elements[n].plod = c.elements[n].plod
          /\ a.elements[n].next = IF n = tail THEN i ELSE c.elements[n].next
          /\ a.elements[n].previous = c.elements[n].previous
  BY <1>6, <1>7, <1>13
<1>16. QED
  BY <1>8, <1>12, <1>13, <1>14, <1>15

\* A loose element has entered a list.
HasEntered(c, s, name, q, i) ==
    /\ Linked(Appended(c, i, name), [s EXCEPT ![name] = Append(q, i)], {})
    /\ Size(Appended(c, i, name)) = Size(c) /\ Appended(c, i, name).index = c.index
    /\ Appended(c, i, name).elements[i].list = name
    /\ \A n \in 1 .. Size(c) \ {i} :
          Appended(c, i, name).elements[n].list = c.elements[n].list
    /\ \A n \in 1 .. Size(c) :
          Appended(c, i, name).elements[n].plod = c.elements[n].plod

\* A loose element enters a list at its end.
LEMMA AppendedChains ==
  ASSUME NEW c, NEW s, NEW i \in 1 .. Size(c), Linked(c, s, {i}), NEW name \in Lists,
         NEW q, q = s[name]
  PROVE  HasEntered(c, s, name, q, i)
<1>0. PICK a, r, t, len, size, tail :
         /\ a = Appended(c, i, name) /\ r = Append(q, i) /\ t = [s EXCEPT ![name] = r]
         /\ len = Len(q) /\ size = Size(c) /\ tail = c.lists[name].tail
  OBVIOUS
<1>1. /\ c \in Container /\ DOMAIN s = Lists
      /\ \A l \in Lists : IsChain(c, l, s[l])
      /\ \A n \in 1 .. size : n \in Range(s[c.elements[n].list]) <=> n # i
  BY <1>0 DEF Linked
<1>2. /\ size \in Nat /\ \A n \in 1 .. size : c.elements[n] \in Element
      /\ q \in Seq(1 .. size) /\ len \in Nat /\ DOMAIN q = 1 .. len
      /\ \A j \in 1 .. len : q[j] \in 1 .. size
      /\ \A j, m \in 1 .. len : q[j] = q[m] => j = m
      /\ i \in 1 .. size
  <2>1. IsChain(c, name, q)
    BY <1>1
  <2>2. /\ Size(c) \in Nat /\ DOMAIN c.elements = 1 .. Size(c)
        /\ \A n \in 1 .. Size(c) : c.elements[n] \in Element
        /\ q \in Seq(1 .. Size(c)) /\ Len(q) \in Nat /\ DOMAIN q = 1 .. Len(q)
        /\ \A j \in 1 .. Len(q) : q[j] \in 1 .. Size(c)
        /\ \A j, m \in 1 .. Len(q) : q[j] = q[m] => j = m
    BY <1>1, <2>1, ChainFacts
  <2>3. QED
    BY <1>0, <2>2, Zenon
<1>3. /\ c.lists[name].count = len
      /\ c.lists[name].head = IF len = 0 THEN 0 ELSE q[1]
      /\ tail = IF len = 0 THEN 0 ELSE q[len]
      /\ \A j \in 1 .. len : /\ c.elements[q[j]].list = name
                             /\ c.elements[q[j]].previous = IF j = 1 THEN 0 ELSE q[j - 1]
                             /\ c.elements[q[j]].next = IF j = len THEN 0 ELSE q[j + 1]
  <2>1. IsChain(c, name, q)
    BY <1>1
  <2>2. QED
    BY <1>0, <2>1 DEF IsChain
<1>4. \A l \in Lists : i \notin Range(s[l])
  <2>1. ASSUME NEW l \in Lists, i \in Range(s[l]) PROVE FALSE
    <3>1. PICK j \in DOMAIN s[l] : s[l][j] = i
      BY <2>1 DEF Range
    <3>2. DOMAIN s[l] = 1 .. Len(s[l])
      BY <1>1, ChainFacts
    <3>3. c.elements[i].list = l
      BY <1>1, <3>1, <3>2 DEF IsChain
    <3>4. QED
      BY <1>1, <1>2, <2>1, <3>3
  <2>2. QED
    BY <2>1
<1>5. \A j \in 1 .. len : q[j] # i
  BY <1>0, <1>2, <1>4 DEF Range
<1>6. tail \in 0 .. size /\ tail # i
  <2>1. len # 0 => len \in 1 .. len
    BY <1>2
  <2>2. QED
    BY <1>2, <1>3, <1>5, <2>1
<1>7. /\ r \in Seq(1 .. size) /\ Len(r) = len + 1 /\ r[len + 1] = i
      /\ \A j \in 1 .. len : r[j] = q[j]
  BY <1>0, <1>2, AppendProperties
<1>8. IsInjective(r) /\ Range(r) = Range(q) \cup {i}
  BY <1>0, <1>1, <1>2, <1>4, AppendedQueue DEF IsChain
<1>9. /\ a \in Container /\ Size(a) = size /\ a.index = c.index
      /\ a.elements[i].list = name /\ a.elements[i].plod = c.elements[i].plod
      /\ a.elements[i].previous = tail /\ a.elements[i].next = 0
      /\ \A n \in 1 .. size \ {i} :
            /\ a.elements[n].list = c.elements[n].list
            /\ a.elements[n].plod = c.elements[n].plod
            /\ a.elements[n].next = IF n = tail THEN i ELSE c.elements[n].next
            /\ a.elements[n].previous = c.elements[n].previous
      /\ \A l \in Lists \ {name} : a.lists[l] = c.lists[l]
      /\ a.lists[name] = ListWith(c.lists[name], i)
  <2>1. i \in 1 .. Size(c) /\ c \in Container /\ tail = c.lists[name].tail
        /\ tail \in 0 .. Size(c) /\ tail # i /\ a = Appended(c, i, name)
    BY <1>0, <1>1, <1>2, <1>6
  <2>2. /\ a \in Container /\ Size(a) = Size(c) /\ a.index = c.index
        /\ a.elements[i].list = name /\ a.elements[i].plod = c.elements[i].plod
        /\ a.elements[i].previous = tail /\ a.elements[i].next = 0
    BY <2>1, AppendedFields
  <2>3. \A n \in 1 .. Size(c) \ {i} :
           /\ a.elements[n].list = c.elements[n].list
           /\ a.elements[n].plod = c.elements[n].plod
           /\ a.elements[n].next = IF n = tail THEN i ELSE c.elements[n].next
           /\ a.elements[n].previous = c.elements[n].previous
    BY <2>1, AppendedFields
  <2>4. /\ \A l \in Lists \ {name} : a.lists[l] = c.lists[l]
        /\ a.lists[name] = ListWith(c.lists[name], i)
    BY <2>1, AppendedFields
  <2>5. QED
    BY <1>0, <2>2, <2>3, <2>4, Zenon
<1>10. IsChain(a, name, r)
  <2>1. ASSUME NEW j \in 1 .. len
        PROVE  /\ a.elements[r[j]].list = name
               /\ a.elements[r[j]].previous = IF j = 1 THEN 0 ELSE r[j - 1]
               /\ a.elements[r[j]].next = r[j + 1]
    <3>1. r[j] = q[j] /\ q[j] \in 1 .. size \ {i}
      BY <1>2, <1>5, <1>7
    <3>2. a.elements[r[j]].list = name
      BY <1>3, <1>9, <3>1
    <3>3. a.elements[r[j]].previous = IF j = 1 THEN 0 ELSE r[j - 1]
      <4>1. j # 1 => j - 1 \in 1 .. len /\ r[j - 1] = q[j - 1]
        BY <1>2, <1>7
      <4>2. a.elements[r[j]].previous = IF j = 1 THEN 0 ELSE q[j - 1]
        BY <1>3, <1>9, <3>1
      <4>3. QED
        BY <4>1, <4>2
    <3>4. a.elements[r[j]].next = IF q[j] = tail THEN i ELSE c.elements[q[j]].next
      BY <1>9, <3>1
    <3>5. CASE j = len
      <4>1. q[j] = tail
        BY <1>2, <1>3, <3>5
      <4>2. QED
        BY <1>7, <3>2, <3>3, <3>4, <3>5, <4>1
    <3>6. CASE j # len
      <4>1. len \in 1 .. len /\ j + 1 \in 1 .. len
        BY <1>2, <3>6
      <4>2. q[j] # tail
        BY <1>2, <1>3, <3>6, <4>1
      <4>3. c.elements[q[j]].next = q[j + 1] /\ r[j + 1] = q[j + 1]
        BY <1>3, <1>7, <3>6, <4>1
      <4>4. QED
        BY <3>2, <3>3, <3>4, <4>2, <4>3
    <3>7. QED
      BY <3>5, <3>6
  <2>2. /\ a.elements[r[len + 1]].list = name
        /\ a.elements[r[len + 1]].next = 0
        /\ a.elements[r[len + 1]].previous = IF len + 1 = 1 THEN 0 ELSE r[len]
    <3>1. len # 0 => len \in 1 .. len /\ r[len] = q[len]
      BY <1>2, <1>7
    <3>2. QED
      BY <1>2, <1>3, <1>7, <1>9, <3>1
  <2>3. \A j \in 1 .. Len(r) :
           /\ a.elements[r[j]].list = name
           /\ a.elements[r[j]].previous = IF j = 1 THEN 0 ELSE r[j - 1]
           /\ a.elements[r[j]].next = IF j = Len(r) THEN 0 ELSE r[j + 1]
    <3>1. ASSUME NEW j \in 1 .. Len(r)
          PROVE  /\ a.elements[r[j]].list = name
                 /\ a.elements[r[j]].previous = IF j = 1 THEN 0 ELSE r[j - 1]
                 /\ a.elements[r[j]].next = IF j = Len(r) THEN 0 ELSE r[j + 1]
      <4>1. \/ j \in 1 .. len /\ j # Len(r)
            \/ j = len + 1 /\ j = Len(r) /\ j - 1 = len
        <5>1. len \in Nat /\ Len(r) = len + 1
          BY <1>2, <1>7
        <5>2. QED
          BY <5>1
      <4>2. CASE j \in 1 .. len /\ j # Len(r)
        BY <2>1, <4>2
      <4>3. CASE j = len + 1 /\ j = Len(r) /\ j - 1 = len
        BY <2>2, <4>3
      <4>4. QED
        BY <4>1, <4>2, <4>3
    <3>2. QED
      BY <3>1
  <2>4. Len(r) # 0 /\ a.lists[name].tail = r[Len(r)] /\ a.lists[name].count = Len(r)
    BY <1>2, <1>3, <1>7, <1>9 DEF ListWith
  <2>5. a.lists[name].head = r[1]
    <3>1. a.lists[name].head = IF c.lists[name].head = 0 THEN i ELSE c.lists[name].head
      BY <1>9 DEF ListWith
    <3>2. CASE len = 0
      BY <1>3, <1>7, <3>1, <3>2
    <3>3. CASE len # 0
      <4>1. 1 \in 1 .. len /\ q[1] # 0 /\ r[1] = q[1]
        BY <1>2, <1>7, <3>3
      <4>2. QED
        BY <1>3, <3>1, <3>3, <4>1
    <3>4. QED
      BY <3>2, <3>3
  <2>6. r \in Seq(1 .. Size(a))
    BY <1>7, <1>9
  <2>7. QED
    BY <1>8, <2>3, <2>4, <2>5, <2>6 DEF IsChain
<1>11. ASSUME NEW l \in Lists \ {name} PROVE IsChain(a, l, s[l])
  <2>1. IsChain(c, l, s[l])
    BY <1>1
  <2>2. \A j \in 1 .. Len(s[l]) : s[l][j] \in 1 .. size /\ c.elements[s[l][j]].list = l
    <3>1. c \in Container /\ l \in Lists
      BY <1>1
    <3>2. \A j \in 1 .. Len(s[l]) : s[l][j] \in 1 .. Size(c)
      BY <2>1, <3>1, ChainFacts, Zenon
    <3>3. \A j \in 1 .. Len(s[l]) : c.elements[s[l][j]].list = l
      BY <2>1 DEF IsChain
    <3>4. QED
      BY <1>0, <3>2, <3>3
  <2>3. \A j \in 1 .. Len(s[l]) : s[l][j] # i
    BY <1>1, <1>4, <2>1, ChainFacts DEF Range
  <2>4. tail = 0 \/ c.elements[tail].list = name
    <3>1. len # 0 => len \in 1 .. len
      BY <1>2
    <3>2. QED
      BY <1>3, <3>1
  <2>5. \A j \in 1 .. Len(s[l]) : a.elements[s[l][j]].list = c.elements[s[l][j]].list
                                  /\ a.elements[s[l][j]].next = c.elements[s[l][j]].next
                                  /\ a.elements[s[l][j]].previous = c.elements[s[l][j]].previous
    BY <1>9, <2>2, <2>3, <2>4, SMTT(40)
  <2>6. a.lists[l] = c.lists[l] /\ Size(a) = Size(c)
    BY <1>0, <1>9
  <2>7. \A j \in 1 .. Len(s[l]) :
           /\ a.elements[s[l][j]].list = l
           /\ a.elements[s[l][j]].previous = IF j = 1 THEN 0 ELSE s[l][j - 1]
           /\ a.elements[s[l][j]].next = IF j = Len(s[l]) THEN 0 ELSE s[l][j + 1]
    <3>1. \A j \in 1 .. Len(s[l]) :
             /\ c.elements[s[l][j]].list = l
             /\ c.elements[s[l][j]].previous = IF j = 1 THEN 0 ELSE s[l][j - 1]
             /\ c.elements[s[l][j]].next = IF j = Len(s[l]) THEN 0 ELSE s[l][j + 1]
      BY <2>1 DEF IsChain
    <3>2. QED
      BY <2>5, <3>1, Zenon
  <2>8. /\ s[l] \in Seq(1 .. Size(a)) /\ IsInjective(s[l])
        /\ a.lists[l].head = IF Len(s[l]) = 0 THEN 0 ELSE s[l][1]
        /\ a.lists[l].tail = IF Len(s[l]) = 0 THEN 0 ELSE s[l][Len(s[l])]
        /\ a.lists[l].count = Len(s[l])
    BY <2>1, <2>6 DEF IsChain
  <2>9. QED
    BY <2>7, <2>8 DEF IsChain
<1>12. DOMAIN t = Lists /\ t[name] = r /\ \A l \in Lists \ {name} : t[l] = s[l]
  BY <1>0, <1>1
<1>13. \A l \in Lists : IsChain(a, l, t[l])
  BY <1>10, <1>11, <1>12
<1>14. ASSUME NEW n \in 1 .. size PROVE n \in Range(t[a.elements[n].list])
  <2>1. CASE n = i
    BY <1>8, <1>9, <1>12, <2>1
  <2>2. CASE n # i
    <3>1. a.elements[n].list = c.elements[n].list /\ n \in Range(s[c.elements[n].list])
          /\ c.elements[n].list \in Lists
      BY <1>1, <1>2, <1>9, <2>2 DEF Element
    <3>2. QED
      BY <1>8, <1>12, <3>1
  <2>3. QED
    BY <2>1, <2>2
<1>15. Linked(a, t, {})
  BY <1>9, <1>12, <1>13, <1>14 DEF Linked
<1>16. QED
  BY <1>0, <1>9, <1>15 DEF HasEntered

\* What a chain says of its list, with the length and the size by name.
ChainOfList(c, name, q, len, size) ==
    /\ c \in Container /\ size \in Nat /\ DOMAIN c.elements = 1 .. size
    /\ \A n \in 1 .. size : c.elements[n] \in Element /\ c.elements[n].list \in Lists
    /\ q \in Seq(1 .. size) /\ len \in Nat /\ DOMAIN q = 1 .. len
    /\ \A j \in 1 .. len : q[j] \in 1 .. size
    /\ \A j, m \in 1 .. len : q[j] = q[m] => j = m
    /\ c.lists[name].count = len
    /\ c.lists[name].head = IF len = 0 THEN 0 ELSE q[1]
    /\ c.lists[name].tail = IF len = 0 THEN 0 ELSE q[len]
    /\ \A j \in 1 .. len :
          /\ c.elements[q[j]].list = name
          /\ c.elements[q[j]].previous = IF j = 1 THEN 0 ELSE q[j - 1]
          /\ c.elements[q[j]].next = IF j = len THEN 0 ELSE q[j + 1]

\* It says so.
LEMMA ChainIsOfList ==
  ASSUME NEW c \in Container, NEW name \in Lists, NEW q, IsChain(c, name, q)
  PROVE  ChainOfList(c, name, q, Len(q), Size(c))
<1>1. /\ Size(c) \in Nat /\ DOMAIN c.elements = 1 .. Size(c)
      /\ \A n \in 1 .. Size(c) : c.elements[n] \in Element
      /\ q \in Seq(1 .. Size(c)) /\ Len(q) \in Nat /\ DOMAIN q = 1 .. Len(q)
      /\ \A j \in 1 .. Len(q) : q[j] \in 1 .. Size(c)
      /\ \A j, m \in 1 .. Len(q) : q[j] = q[m] => j = m
  BY ChainFacts
<1>2. \A n \in 1 .. Size(c) : c.elements[n].list \in Lists
  BY <1>1 DEF Element
<1>3. /\ c.lists[name].count = Len(q)
      /\ c.lists[name].head = IF Len(q) = 0 THEN 0 ELSE q[1]
      /\ c.lists[name].tail = IF Len(q) = 0 THEN 0 ELSE q[Len(q)]
      /\ \A j \in 1 .. Len(q) :
            /\ c.elements[q[j]].list = name
            /\ c.elements[q[j]].previous = IF j = 1 THEN 0 ELSE q[j - 1]
            /\ c.elements[q[j]].next = IF j = Len(q) THEN 0 ELSE q[j + 1]
  BY DEF IsChain
<1>4. QED
  BY <1>1, <1>2, <1>3, Zenon DEF ChainOfList

\* The same of the lists of a container that is linked.
LEMMA LinkedFacts ==
  ASSUME NEW c, NEW s, NEW loose, Linked(c, s, loose), NEW name \in Lists,
         NEW q, q = s[name], NEW len, len = Len(q), NEW size, size = Size(c)
  PROVE  ChainOfList(c, name, q, len, size)
<1>1. c \in Container /\ IsChain(c, name, q)
  BY DEF Linked
<1>2. ChainOfList(c, name, q, Len(q), Size(c))
  BY <1>1, ChainIsOfList, Zenon
<1>3. QED
  BY <1>2, Zenon

\* Taking the head of the available list is unlinking it.
LEMMA TakenIsUnlinked ==
  ASSUME NEW c, NEW s, Linked(c, s, {}), NEW q, q = s["available"], Len(q) # 0
  PROVE  Taken(c) = Unlinked(c, q[1]) /\ c.lists["available"].head = q[1]
<1>0. PICK i, e, next, len, size, list :
         /\ i = q[1] /\ e = c.elements[i] /\ next = e.next /\ len = Len(q) /\ size = Size(c)
         /\ list = c.lists["available"]
  OBVIOUS
<1>1. "available" \in Lists
  BY DEF Lists
<1>2. /\ c \in Container /\ size \in Nat /\ DOMAIN c.elements = 1 .. size
      /\ \A n \in 1 .. size : c.elements[n] \in Element
      /\ len \in Nat \ {0}
      /\ \A j \in 1 .. len : q[j] \in 1 .. size
      /\ \A j, m \in 1 .. len : q[j] = q[m] => j = m
  BY <1>0, <1>1, LinkedFacts DEF ChainOfList
<1>3. list.head = i /\ list.tail = q[len]
  BY <1>0, <1>1, <1>2, LinkedFacts DEF ChainOfList
<1>4. \A j \in 1 .. len :
         /\ c.elements[q[j]].list = "available"
         /\ c.elements[q[j]].previous = IF j = 1 THEN 0 ELSE q[j - 1]
         /\ c.elements[q[j]].next = IF j = len THEN 0 ELSE q[j + 1]
  <2>1. IsChain(c, "available", q)
    BY <1>1 DEF Linked
  <2>2. QED
    BY <1>0, <2>1 DEF IsChain
<1>5. /\ e.list = "available" /\ e.previous = 0 /\ i \in 1 .. size
      /\ next = IF 1 = len THEN 0 ELSE q[2]
  <2>1. 1 \in 1 .. len /\ (1 # len => 1 + 1 = 2)
    BY <1>2
  <2>2. /\ c.elements[q[1]].list = "available" /\ c.elements[q[1]].previous = 0
        /\ c.elements[q[1]].next = IF 1 = len THEN 0 ELSE q[2]
    BY <1>4, <2>1
  <2>3. QED
    BY <1>0, <1>2, <2>1, <2>2
<1>6. list.tail = i <=> len = 1
  <2>1. 1 \in 1 .. len /\ len \in 1 .. len
    BY <1>2
  <2>2. q[len] = q[1] <=> len = 1
    BY <1>2, <2>1
  <2>3. QED
    BY <1>0, <1>3, <2>2
<1>7. next = 0 <=> len = 1
  BY <1>2, <1>5
<1>8. next \in 0 .. size
  BY <1>2, <1>5
<1> DEFINE taken == IF next > 0 THEN [c.elements EXCEPT ![next].previous = 0] ELSE c.elements
           unlinked == [n \in DOMAIN c.elements |->
                          IF n = e.previous THEN [c.elements[n] EXCEPT !.next = e.next]
                          ELSE IF n = e.next THEN [c.elements[n] EXCEPT !.previous = e.previous]
                          ELSE c.elements[n]]
<1>9. taken = unlinked
  <2>1. c.elements = [n \in 1 .. size |-> c.elements[n]]
    BY <1>2 DEF Container, Size
  <2>2. \A n \in 1 .. size : n # 0
    OBVIOUS
  <2>3. CASE next > 0
    <3>1. taken = [n \in 1 .. size |-> IF n = next THEN [c.elements[n] EXCEPT !.previous = 0]
                                        ELSE c.elements[n]]
      BY <1>2, <1>8, <2>1, <2>3
    <3>2. e.previous = 0 /\ e.next = next /\ DOMAIN c.elements = 1 .. size
      BY <1>0, <1>2, <1>5
    <3>3. unlinked = [n \in 1 .. size |-> IF n = next THEN [c.elements[n] EXCEPT !.previous = 0]
                                           ELSE c.elements[n]]
      BY <2>2, <3>2
    <3>4. QED
      BY <3>1, <3>3
  <2>4. CASE ~(next > 0)
    <3>1. next = 0
      BY <1>8, <2>4
    <3>2. e.previous = 0 /\ e.next = 0 /\ DOMAIN c.elements = 1 .. size
      BY <1>0, <1>2, <1>5, <3>1
    <3>3. unlinked = [n \in 1 .. size |-> c.elements[n]]
      BY <2>2, <3>2
    <3>4. taken = c.elements
      BY <2>4
    <3>5. QED
      BY <2>1, <3>3, <3>4
  <2>5. QED
    BY <2>3, <2>4
<1>10. [head |-> IF list.head = list.tail THEN 0 ELSE next,
        tail |-> IF list.head = list.tail THEN 0 ELSE list.tail,
        count |-> list.count - 1]
       = [head |-> IF list.head = i THEN e.next ELSE list.head,
          tail |-> IF list.tail = i THEN e.previous ELSE list.tail,
          count |-> list.count - 1]
  BY <1>0, <1>3, <1>5, <1>6, <1>7
<1>11. Taken(c) = [c EXCEPT !.elements = taken,
                            !.lists["available"] =
                               [head |-> IF list.head = list.tail THEN 0 ELSE next,
                                tail |-> IF list.head = list.tail THEN 0 ELSE list.tail,
                                count |-> list.count - 1]]
  BY <1>0, <1>3 DEF Taken
<1>12. Unlinked(c, i) = [c EXCEPT !.elements = unlinked,
                                  !.lists["available"] =
                               [head |-> IF list.head = i THEN e.next ELSE list.head,
                                tail |-> IF list.tail = i THEN e.previous ELSE list.tail,
                                count |-> list.count - 1]]
  BY <1>0, <1>5 DEF Unlinked
<1>13. QED
  BY <1>0, <1>3, <1>9, <1>10, <1>11, <1>12

\* A container from its parts.
Parts(elements, lists, index) == [elements |-> elements, lists |-> lists, index |-> index]

\* A container made of three parts has these.
LEMMA ContainerFromParts ==
  ASSUME NEW elements \in Seq(Element), NEW lists \in [Lists -> ListRecord],
         NEW index \in [PagedLODs -> Nat]
  PROVE  /\ Parts(elements, lists, index) \in Container
         /\ Size(Parts(elements, lists, index)) = Len(elements)
         /\ Parts(elements, lists, index).elements = elements
         /\ Parts(elements, lists, index).lists = lists
         /\ Parts(elements, lists, index).index = index
<1>1. /\ Parts(elements, lists, index).elements = elements
      /\ Parts(elements, lists, index).lists = lists
      /\ Parts(elements, lists, index).index = index
  BY DEF Parts
<1>2. Parts(elements, lists, index) \in Container
  BY DEF Container, Parts
<1>3. QED
  BY <1>1, <1>2 DEF Size

\* A chain whose elements are not touched is still a chain.
LEMMA UntouchedChain ==
  ASSUME NEW c, NEW d, NEW name, NEW q, IsChain(c, name, q), q \in Seq(1 .. Size(d)),
         d.lists[name] = c.lists[name],
         \A k \in 1 .. Len(q) : d.elements[q[k]] = c.elements[q[k]]
  PROVE  IsChain(d, name, q)
BY DEF IsChain

\* The element i and the PagedLOD p point elsewhere, and no list has changed.
IsRelabelled(c, s, p, x, i, y, e) ==
    /\ Linked(e, s, {}) /\ Size(e) = Size(c)
    /\ e.index = [c.index EXCEPT ![p] = x]
    /\ \A n \in 1 .. Size(c) : /\ e.elements[n].list = c.elements[n].list
                               /\ n # i => e.elements[n].plod = c.elements[n].plod
    /\ e.elements[i].plod = y

\* The element and the PagedLOD that point to each other are not part of the chains.
LEMMA RelabelledChains ==
  ASSUME NEW c, NEW s, Linked(c, s, {}), NEW p \in PagedLODs, NEW i \in 1 .. Size(c),
         NEW x \in Nat, NEW y \in PagedLODs \cup {NoPagedLOD},
         NEW e, e = [c EXCEPT !.index[p] = x, !.elements[i].plod = y]
  PROVE  IsRelabelled(c, s, p, x, i, y, e)
<1>0. PICK d : d = e
  OBVIOUS
<1> DEFINE elements == [c.elements EXCEPT ![i].plod = y]
           index == [c.index EXCEPT ![p] = x]
<1>1. /\ c \in Container /\ c.elements \in Seq(Element) /\ c.lists \in [Lists -> ListRecord]
      /\ c.index \in [PagedLODs -> Nat]
      /\ c = [elements |-> c.elements, lists |-> c.lists, index |-> c.index]
  BY DEF Linked, Container
<1>2. /\ Size(c) \in Nat /\ DOMAIN c.elements = 1 .. Size(c)
      /\ \A n \in 1 .. Size(c) : c.elements[n] \in Element
  BY <1>1, LenProperties DEF Size
<1>3. d = [elements |-> elements, lists |-> c.lists, index |-> index]
  BY <1>0, <1>1
<1>4. /\ elements = [n \in 1 .. Size(c) |-> elements[n]]
      /\ elements[i] = [c.elements[i] EXCEPT !.plod = y]
      /\ \A n \in 1 .. Size(c) \ {i} : elements[n] = c.elements[n]
  BY <1>2
<1> HIDE DEF elements
<1>5. /\ elements[i] \in Element /\ elements[i].plod = y
      /\ elements[i].list = c.elements[i].list
      /\ elements[i].next = c.elements[i].next
      /\ elements[i].previous = c.elements[i].previous
  <2>1. c.elements[i] \in Element
    BY <1>2
  <2>2. QED
    BY <1>4, <2>1 DEF Element
<1>6. \A n \in 1 .. Size(c) : /\ elements[n] \in Element
                              /\ elements[n].list = c.elements[n].list
                              /\ elements[n].next = c.elements[n].next
                              /\ elements[n].previous = c.elements[n].previous
                              /\ n # i => elements[n].plod = c.elements[n].plod
  BY <1>2, <1>4, <1>5
<1>7. elements \in Seq(Element) /\ Len(elements) = Size(c)
  <2>1. elements \in [1 .. Size(c) -> Element]
    BY <1>4, <1>6
  <2>2. QED
    BY <1>2, <2>1, SequenceOfLength
<1>8. index \in [PagedLODs -> Nat]
  BY <1>1
<1> HIDE DEF index
<1>9. /\ d \in Container /\ Size(d) = Size(c)
      /\ d.elements = elements /\ d.lists = c.lists /\ d.index = index
  <2>1. d = Parts(elements, c.lists, index) /\ c.lists \in [Lists -> ListRecord]
    BY <1>1, <1>3 DEF Parts
  <2>2. /\ Parts(elements, c.lists, index) \in Container
        /\ Size(Parts(elements, c.lists, index)) = Len(elements)
        /\ Parts(elements, c.lists, index).elements = elements
        /\ Parts(elements, c.lists, index).lists = c.lists
        /\ Parts(elements, c.lists, index).index = index
    BY <1>7, <1>8, <2>1, ContainerFromParts
  <2>3. QED
    BY <1>7, <2>1, <2>2, Zenon
<1>10. ASSUME NEW l \in Lists PROVE IsChain(d, l, s[l])
  <2>1. IsChain(c, l, s[l])
    BY DEF Linked
  <2>2. \A k \in 1 .. Len(s[l]) : s[l][k] \in 1 .. Size(c)
    BY <1>1, <2>1, ChainFacts
  <2>3. \A k \in 1 .. Len(s[l]) :
           /\ d.elements[s[l][k]].list = c.elements[s[l][k]].list
           /\ d.elements[s[l][k]].next = c.elements[s[l][k]].next
           /\ d.elements[s[l][k]].previous = c.elements[s[l][k]].previous
    BY <1>6, <1>9, <2>2
  <2>4. d.lists[l] = c.lists[l]
    BY <1>9
  <2>5. QED
    BY <1>9, <2>1, <2>3, <2>4 DEF IsChain
<1>11. \A n \in 1 .. Size(d) : n \in Range(s[d.elements[n].list])
  BY <1>6, <1>9 DEF Linked
<1>12. Linked(d, s, {})
  BY <1>9, <1>10, <1>11 DEF Linked
<1>13. QED
  BY <1>0, <1>5, <1>6, <1>9, <1>12 DEF index, IsRelabelled

\* The container has that size, and its new elements are available.
HasGrown(c, s, size, e) ==
    /\ \E fresh : /\ Linked(e, [s EXCEPT !["available"] = fresh], {})
                  /\ Len(fresh) = size - Size(c)
    /\ Size(e) = size /\ e.index = c.index
    /\ \A n \in 1 .. Size(c) : /\ e.elements[n].list = c.elements[n].list
                               /\ e.elements[n].plod = c.elements[n].plod
    /\ \A n \in Size(c) + 1 .. size : /\ e.elements[n].list = "available"
                                      /\ e.elements[n].plod = NoPagedLOD

\* A container grows when no element is available.
LEMMA ResizedChains ==
  ASSUME NEW c, NEW s, Linked(c, s, {}), Len(s["available"]) = 0,
         NEW size \in Nat, Size(c) < size, NEW e, e = Resized(c, size)
  PROVE  HasGrown(c, s, size, e)
<1>0. PICK d, old, fresh, t, list :
         /\ d = e /\ old = Size(c) /\ fresh = [k \in 1 .. size - old |-> old + k]
         /\ t = [s EXCEPT !["available"] = fresh]
         /\ list = [head |-> old + 1, tail |-> size, count |-> size - old]
  OBVIOUS
<1>a. old < size /\ old = Size(c)
  BY <1>0
<1> DEFINE Fresh(n) == [previous |-> IF n = old + 1 THEN 0 ELSE n - 1,
                        next |-> IF n = size THEN 0 ELSE n + 1,
                        plod |-> NoPagedLOD, list |-> "available"]
           elements == [n \in 1 .. size |-> IF n < old + 1 THEN c.elements[n] ELSE Fresh(n)]
           lists == [c.lists EXCEPT !["available"] = list]
<1>1. "available" \in Lists
  BY DEF Lists
<1>2. /\ c \in Container /\ old \in Nat /\ DOMAIN c.elements = 1 .. old
      /\ \A n \in 1 .. old : c.elements[n] \in Element
      /\ c.lists["available"].count = 0 /\ c.lists["available"].head = 0
      /\ c.lists["available"].tail = 0
  BY <1>0, <1>1, LinkedFacts DEF ChainOfList
<1>3. /\ c.elements \in Seq(Element) /\ c.lists \in [Lists -> ListRecord]
      /\ c.index \in [PagedLODs -> Nat]
      /\ c = [elements |-> c.elements, lists |-> c.lists, index |-> c.index]
  BY <1>2 DEF Container
<1>4. d = [c EXCEPT !.elements = elements, !.lists["available"] = list]
  <2>1. \A n \in 1 .. old : n # 0
    BY <1>2
  <2>2. [n \in 1 .. size |->
           IF n < old + 1
           THEN IF n = 0 THEN [c.elements[n] EXCEPT !.next = old + 1] ELSE c.elements[n]
           ELSE Fresh(n)]
        = elements
    BY <1>2, <2>1
  <2>3. 0 + size - old = size - old
    BY <1>2
  <2>4. QED
    <3>1. d = [c EXCEPT
                 !.elements = [n \in 1 .. size |->
                    IF n < Size(c) + 1
                    THEN IF n = c.lists["available"].tail
                         THEN [c.elements[n] EXCEPT !.next = Size(c) + 1] ELSE c.elements[n]
                    ELSE [previous |-> IF n = Size(c) + 1 THEN c.lists["available"].tail
                                       ELSE n - 1,
                          next |-> IF n = size THEN 0 ELSE n + 1,
                          plod |-> NoPagedLOD, list |-> "available"]],
                 !.lists["available"] =
                    [head |-> IF c.lists["available"].head = 0 THEN Size(c) + 1
                              ELSE c.lists["available"].head,
                     tail |-> size,
                     count |-> c.lists["available"].count + size - Size(c)]]
      BY <1>0, <1>3 DEF Resized
    <3>2. QED
      <4>1. /\ c.lists["available"].head = 0 /\ c.lists["available"].tail = 0
            /\ c.lists["available"].count = 0 /\ Size(c) = old
        BY <1>0, <1>2
      <4>2. d = [c EXCEPT
                   !.elements = [n \in 1 .. size |->
                      IF n < old + 1
                      THEN IF n = 0 THEN [c.elements[n] EXCEPT !.next = old + 1]
                           ELSE c.elements[n]
                      ELSE Fresh(n)],
                   !.lists["available"] = [head |-> old + 1, tail |-> size,
                                           count |-> 0 + size - old]]
        BY <3>1, <4>1
      <4>3. QED
        BY <1>0, <2>2, <2>3, <4>2
<1>5. d = [elements |-> elements, lists |-> lists, index |-> c.index]
  BY <1>3, <1>4
<1>6. \A n \in 1 .. old : elements[n] = c.elements[n]
  BY <1>0, <1>2
<1>7. \A n \in old + 1 .. size :
         /\ elements[n] = Fresh(n) /\ Fresh(n) \in Element
         /\ Fresh(n).list = "available" /\ Fresh(n).plod = NoPagedLOD
  <2>1. ASSUME NEW n \in old + 1 .. size PROVE elements[n] = Fresh(n) /\ Fresh(n) \in Element
    <3>1. n \in 1 .. size /\ ~(n < old + 1) /\ n - 1 \in Nat /\ n + 1 \in Nat
      BY <1>2
    <3>2. QED
      BY <3>1 DEF Element, Lists
  <2>2. QED
    BY <2>1
<1>8. elements \in [1 .. size -> Element]
  <2>1. \A n \in 1 .. size : n \in 1 .. old \/ n \in old + 1 .. size
    BY <1>2
  <2>2. \A n \in 1 .. size : elements[n] \in Element
    BY <1>2, <1>6, <1>7, <2>1
  <2>3. QED
    BY <2>2
<1> HIDE DEF elements
<1>9. elements \in Seq(Element) /\ Len(elements) = size
  BY <1>8, SequenceOfLength
<1>10. lists \in [Lists -> ListRecord]
  <2>1. old + 1 \in Nat /\ size - old \in Nat
    BY <1>0, <1>2
  <2>2. list \in ListRecord
    BY <1>0, <2>1 DEF ListRecord
  <2>3. QED
    BY <1>3, <2>2
<1>11. /\ d \in Container /\ Size(d) = size
       /\ d.elements = elements /\ d.index = c.index
       /\ d.lists["available"] = list
       /\ \A l \in Lists \ {"available"} : d.lists[l] = c.lists[l]
  <2>1. lists["available"] = list /\ \A l \in Lists \ {"available"} : lists[l] = c.lists[l]
    BY <1>1, <1>3
  <2> HIDE DEF lists
  <2>2. QED
    <3>1. /\ d \in Container /\ Size(d) = Len(elements)
          /\ d.elements = elements /\ d.lists = lists /\ d.index = c.index
      <4>1. d = Parts(elements, lists, c.index) /\ c.index \in [PagedLODs -> Nat]
        BY <1>3, <1>5 DEF Parts
      <4>2. /\ Parts(elements, lists, c.index) \in Container
            /\ Size(Parts(elements, lists, c.index)) = Len(elements)
            /\ Parts(elements, lists, c.index).elements = elements
            /\ Parts(elements, lists, c.index).lists = lists
            /\ Parts(elements, lists, c.index).index = c.index
        BY <1>9, <1>10, <4>1, ContainerFromParts
      <4>3. QED
        BY <4>1, <4>2, Zenon
    <3>2. QED
      BY <1>9, <2>1, <3>1, Zenon
<1>12. fresh \in Seq(1 .. size) /\ Len(fresh) = size - old /\ DOMAIN fresh = 1 .. size - old
       /\ \A k \in 1 .. size - old : fresh[k] = old + k
  <2>1. fresh \in [1 .. size - old -> 1 .. size] /\ size - old \in Nat
    BY <1>0, <1>2
  <2>2. fresh \in Seq(1 .. size) /\ Len(fresh) = size - old
    BY <2>1, SequenceOfLength, Zenon
  <2>3. DOMAIN fresh = 1 .. size - old /\ \A k \in 1 .. size - old : fresh[k] = old + k
    BY <1>0
  <2>4. QED
    BY <2>2, <2>3
<1>13. IsInjective(fresh) /\ Range(fresh) = old + 1 .. size
  <2>1. IsInjective(fresh)
    BY <1>2, <1>12 DEF IsInjective
  <2>2. \A n \in old + 1 .. size : n - old \in 1 .. size - old /\ fresh[n - old] = n
    BY <1>2, <1>12
  <2>3. \A k \in 1 .. size - old : fresh[k] \in old + 1 .. size
    BY <1>2, <1>12
  <2>4. QED
    BY <1>12, <2>1, <2>2, <2>3 DEF Range
<1>14. IsChain(d, "available", fresh)
  <2>1. ASSUME NEW k \in 1 .. Len(fresh)
        PROVE  /\ d.elements[fresh[k]].list = "available"
               /\ d.elements[fresh[k]].previous = IF k = 1 THEN 0 ELSE fresh[k - 1]
               /\ d.elements[fresh[k]].next = IF k = Len(fresh) THEN 0 ELSE fresh[k + 1]
    <3>1. PICK n : n = fresh[k]
      OBVIOUS
    <3>2. n = old + k /\ n \in old + 1 .. size /\ k \in 1 .. size - old
      <4>1. k \in 1 .. size - old
        BY <1>12
      <4>2. n = old + k
        BY <1>12, <3>1, <4>1
      <4>3. old \in Nat /\ size \in Nat
        BY <1>2
      <4>4. QED
        BY <4>1, <4>2, <4>3
    <3>3. /\ d.elements[n].list = "available"
          /\ d.elements[n].previous = IF n = old + 1 THEN 0 ELSE n - 1
          /\ d.elements[n].next = IF n = size THEN 0 ELSE n + 1
      <4>1. elements[n] = Fresh(n) /\ d.elements = elements
        BY <1>7, <1>11, <3>2
      <4>2. QED
        BY <4>1
    <3>4. /\ k = 1 <=> n = old + 1
          /\ k # 1 => fresh[k - 1] = n - 1
          /\ k = Len(fresh) <=> n = size
          /\ k # Len(fresh) => fresh[k + 1] = n + 1
      <4>1. k \in Nat /\ size - old \in Nat /\ old \in Nat
        BY <1>0, <1>2, <3>2
      <4>2. k # 1 => k - 1 \in 1 .. size - old /\ old + (k - 1) = n - 1
        BY <3>2, <4>1
      <4>3. k # size - old => k + 1 \in 1 .. size - old /\ old + (k + 1) = n + 1
        BY <3>2, <4>1
      <4>4. (k = 1 <=> n = old + 1) /\ (k = size - old <=> n = size)
        BY <3>2, <4>1
      <4>5. QED
        BY <1>12, <4>2, <4>3, <4>4
    <3> HIDE DEF Fresh
    <3>5. QED
      BY <3>1, <3>3, <3>4, Zenon
  <2>2. /\ Len(fresh) # 0 /\ list.head = fresh[1] /\ list.tail = fresh[Len(fresh)]
        /\ list.count = Len(fresh)
    <3>1. size - old \in Nat \ {0} /\ old + (size - old) = size
      BY <1>0, <1>2
    <3>2. QED
      BY <1>0, <1>12, <3>1
  <2>3. QED
    BY <1>11, <1>12, <1>13, <2>1, <2>2 DEF IsChain
<1>15. ASSUME NEW l \in Lists \ {"available"} PROVE IsChain(d, l, s[l])
  <2>1. IsChain(c, l, s[l])
    BY DEF Linked
  <2>2. s[l] \in Seq(1 .. old) /\ \A k \in 1 .. Len(s[l]) : s[l][k] \in 1 .. old
    BY <1>0, <1>2, <2>1, ChainFacts
  <2>3. s[l] \in Seq(1 .. size)
    <3>1. 1 .. old \subseteq 1 .. size
      BY <1>0, <1>2
    <3>2. QED
      BY <2>2, <3>1, SeqMonotonic
  <2>4. \A k \in 1 .. Len(s[l]) : d.elements[s[l][k]] = c.elements[s[l][k]]
    BY <1>6, <1>11, <2>2
  <2>5. QED
    <3>1. d.lists[l] = c.lists[l] /\ Size(d) = size
      BY <1>11
    <3>2. QED
      BY <2>1, <2>3, <2>4, <3>1, UntouchedChain
<1>16. DOMAIN s = Lists /\ DOMAIN t = Lists /\ t["available"] = fresh
       /\ \A l \in Lists \ {"available"} : t[l] = s[l]
  BY <1>0, <1>1 DEF Linked
<1>17. ASSUME NEW n \in 1 .. size PROVE n \in Range(t[d.elements[n].list])
  <2>1. n \in 1 .. old \/ n \in old + 1 .. size
    BY <1>2
  <2>2. CASE n \in 1 .. old
    <3>1. n \in Range(s[c.elements[n].list]) /\ c.elements[n].list \in Lists
      BY <1>0, <1>2, <2>2 DEF Linked, Element
    <3>2. c.elements[n].list # "available"
      <4>1. Range(s["available"]) = {}
        <5>1. DOMAIN s["available"] = 1 .. 0
          BY <1>1, <1>2, ChainFacts DEF Linked
        <5>2. QED
          BY <5>1 DEF Range
      <4>2. QED
        BY <3>1, <4>1
    <3>3. QED
      BY <1>6, <1>11, <1>16, <2>2, <3>1, <3>2
  <2>3. CASE n \in old + 1 .. size
    <3>1. d.elements[n].list = "available"
      BY <1>7, <1>11, <2>3
    <3>2. QED
      BY <1>13, <1>16, <2>3, <3>1
  <2>4. QED
    BY <2>1, <2>2, <2>3
<1>18. Linked(d, t, {})
  BY <1>11, <1>14, <1>15, <1>16, <1>17 DEF Linked
<1>19. /\ \A n \in 1 .. old : /\ d.elements[n].list = c.elements[n].list
                              /\ d.elements[n].plod = c.elements[n].plod
       /\ \A n \in old + 1 .. size : /\ d.elements[n].list = "available"
                                     /\ d.elements[n].plod = NoPagedLOD
  <2>1. d.elements = elements
    BY <1>11
  <2> HIDE DEF Fresh
  <2>2. QED
    BY <1>6, <1>7, <2>1
<1>20. QED
  BY <1>0, <1>11, <1>12, <1>18, <1>19 DEF HasGrown

--------------------------------------------------------------------------------
(* The functions of the container.                                         *)

\* The element at k of a list has passed to the end of another one.
HasPassed(c, s, here, there, k, i) ==
    /\ Linked(Appended(Unlinked(c, i), i, there),
              [[s EXCEPT ![here] = RemoveAt(s[here], k)]
                  EXCEPT ![there] = Append(s[there], i)], {})
    /\ i \in 1 .. Size(c) /\ c.elements[i].list = here
    /\ Size(Appended(Unlinked(c, i), i, there)) = Size(c)
    /\ Appended(Unlinked(c, i), i, there).index = c.index
    /\ Appended(Unlinked(c, i), i, there).elements[i].list = there
    /\ \A n \in 1 .. Size(c) \ {i} :
          Appended(Unlinked(c, i), i, there).elements[n].list = c.elements[n].list
    /\ \A n \in 1 .. Size(c) :
          Appended(Unlinked(c, i), i, there).elements[n].plod = c.elements[n].plod

\* An element passes from a list to the end of another one.
LEMMA RelinkedChains ==
  ASSUME NEW c, NEW s, Linked(c, s, {}), NEW here \in Lists, NEW there \in Lists,
         here # there, NEW k \in 1 .. Len(s[here]), NEW i, i = s[here][k]
  PROVE  HasPassed(c, s, here, there, k, i)
<1>0. PICK q, u, r, a :
         /\ q = s[here] /\ u = Unlinked(c, i) /\ r = [s EXCEPT ![here] = RemoveAt(q, k)]
         /\ a = Appended(u, i, there)
  OBVIOUS
<1>1. /\ Linked(u, r, {i}) /\ i \in 1 .. Size(c) /\ c.elements[i].list = here
      /\ Size(u) = Size(c) /\ u.index = c.index
      /\ \A n \in 1 .. Size(c) : /\ u.elements[n].list = c.elements[n].list
                                 /\ u.elements[n].plod = c.elements[n].plod
  <2>1. k \in 1 .. Len(q) /\ i = q[k] /\ q = s[here]
    BY <1>0
  <2>2. /\ Linked(Unlinked(c, i), [s EXCEPT ![here] = RemoveAt(q, k)], {i})
        /\ i \in 1 .. Size(c) /\ c.elements[i].list = here
        /\ Size(Unlinked(c, i)) = Size(c) /\ Unlinked(c, i).index = c.index
        /\ \A n \in 1 .. Size(c) :
              /\ Unlinked(c, i).elements[n].list = c.elements[n].list
              /\ Unlinked(c, i).elements[n].plod = c.elements[n].plod
    <3>1. HasLeft(c, s, here, q, k, i)
      BY <2>1, UnlinkedChains
    <3>2. QED
      BY <3>1, Zenon DEF HasLeft
  <2>3. QED
    BY <1>0, <2>2, Zenon
<1>2. r[there] = s[there]
  BY <1>0 DEF Linked
<1>3. /\ Linked(a, [r EXCEPT ![there] = Append(s[there], i)], {})
      /\ Size(a) = Size(u) /\ a.index = u.index
      /\ a.elements[i].list = there
      /\ \A n \in 1 .. Size(u) \ {i} : a.elements[n].list = u.elements[n].list
      /\ \A n \in 1 .. Size(u) : a.elements[n].plod = u.elements[n].plod
  <2>1. i \in 1 .. Size(u)
    BY <1>1
  <2>2. PICK z : z = s[there]
    OBVIOUS
  <2>3. z = r[there]
    BY <1>2, <2>2
  <2>4. /\ Linked(Appended(u, i, there), [r EXCEPT ![there] = Append(z, i)], {})
        /\ Size(Appended(u, i, there)) = Size(u) /\ Appended(u, i, there).index = u.index
        /\ Appended(u, i, there).elements[i].list = there
        /\ \A n \in 1 .. Size(u) \ {i} :
              Appended(u, i, there).elements[n].list = u.elements[n].list
        /\ \A n \in 1 .. Size(u) :
              Appended(u, i, there).elements[n].plod = u.elements[n].plod
    <3>1. HasEntered(u, r, there, z, i)
      BY <1>1, <2>1, <2>3, AppendedChains
    <3>2. QED
      BY <3>1, Zenon DEF HasEntered
  <2>5. QED
    BY <1>0, <2>2, <2>4, Zenon
<1>4. /\ Size(a) = Size(c) /\ a.index = c.index
      /\ \A n \in 1 .. Size(c) \ {i} : a.elements[n].list = c.elements[n].list
      /\ \A n \in 1 .. Size(c) : a.elements[n].plod = c.elements[n].plod
  BY <1>1, <1>3
<1>5. QED
  BY <1>0, <1>1, <1>3, <1>4, Zenon DEF HasPassed

\* An element has a PagedLOD if it is not available, and they point to each other.
Owned(c) ==
    /\ \A p \in PagedLODs :
          c.index[p] # 0 => c.index[p] \in 1 .. Size(c) /\ c.elements[c.index[p]].plod = p
    /\ \A i \in 1 .. Size(c) :
          /\ c.elements[i].list = "available" => c.elements[i].plod = NoPagedLOD
          /\ c.elements[i].list # "available" => /\ c.elements[i].plod \in PagedLODs
                                                 /\ c.index[c.elements[i].plod] = i

\* The list of a PagedLOD, if that of one element changes between two others.
LEMMA MovedIsOwned ==
  ASSUME NEW c, NEW s, Linked(c, s, {}), Owned(c), NEW p \in PagedLODs, c.index[p] # 0,
         NEW name \in Lists \ {"available"}, NEW i, i = c.index[p],
         NEW d, NEW t, Linked(d, t, {}), Size(d) = Size(c), d.index = c.index,
         d.elements[i].list = name,
         \A n \in 1 .. Size(c) \ {i} : d.elements[n].list = c.elements[n].list,
         \A n \in 1 .. Size(c) : d.elements[n].plod = c.elements[n].plod
  PROVE  /\ Owned(d)
         /\ \A r \in PagedLODs : ListOf(d, r) = IF r = p THEN name ELSE ListOf(c, r)
<1>1. i \in 1 .. Size(c) /\ c.elements[i].plod = p /\ c.elements[i].list # "available"
  BY ContainerAssumption DEF Owned
<1>2. Owned(d)
  BY <1>1 DEF Owned
<1>3. ASSUME NEW r \in PagedLODs
      PROVE  ListOf(d, r) = IF r = p THEN name ELSE ListOf(c, r)
  <2>1. CASE r = p
    BY <2>1 DEF ListOf
  <2>2. CASE r # p /\ c.index[r] = 0
    BY <2>2 DEF ListOf
  <2>3. CASE r # p /\ c.index[r] # 0
    <3>1. c.index[r] \in 1 .. Size(c) /\ c.elements[c.index[r]].plod = r
      BY <2>3 DEF Owned
    <3>2. c.index[r] # i
      BY <1>1, <2>3, <3>1
    <3>3. QED
      BY <2>3, <3>1, <3>2 DEF ListOf
  <2>4. QED
    BY <2>1, <2>2, <2>3
<1>4. QED
  BY <1>2, <1>3

\* What an operation of the container keeps: it has a size, its lists are chains of all
\* elements, and they belong to their PagedLODs.
Sound(c) ==
    /\ Size(c) \in Nat \ {0} /\ Owned(c)
    /\ \E s : Linked(c, s, {})

\* There is always an element for a PagedLOD that has none.
HasRoom(c, room, s) ==
    /\ Linked(room, s, {}) /\ Len(s["available"]) # 0 /\ Owned(room)
    /\ Size(room) \in Nat \ {0} /\ room.index = c.index
    /\ \A r \in PagedLODs : ListOf(room, r) = ListOf(c, r)

\* The container grows if no element is available.
LEMMA RoomIsMade ==
  ASSUME NEW c, Sound(c), NEW room,
         room = IF c.lists["available"].head = 0 THEN Resized(c, 2 * Size(c)) ELSE c
  PROVE  \E s : HasRoom(c, room, s)
<1>1. PICK s : Linked(c, s, {})
  BY DEF Sound
<1>2. PICK q, size : q = s["available"] /\ size = Size(c)
  OBVIOUS
<1>3. /\ c.lists["available"].head = IF Len(q) = 0 THEN 0 ELSE q[1]
      /\ \A j \in 1 .. Len(q) : q[j] \in 1 .. size
      /\ Len(q) \in Nat /\ size \in Nat \ {0}
  <2>1. "available" \in Lists
    BY DEF Lists
  <2>2. IsChain(c, "available", q) /\ c \in Container
    BY <1>1, <1>2, <2>1 DEF Linked
  <2>3. Len(q) \in Nat /\ \A j \in 1 .. Len(q) : q[j] \in 1 .. Size(c)
    BY <2>1, <2>2, ChainFacts
  <2>4. c.lists["available"].head = IF Len(q) = 0 THEN 0 ELSE q[1]
    BY <2>2 DEF IsChain
  <2>5. QED
    BY <1>2, <2>3, <2>4 DEF Sound
<1>4. CASE Len(q) # 0
  <2>1. 1 \in 1 .. Len(q)
    BY <1>3, <1>4
  <2>2. room = c
    BY <1>3, <1>4, <2>1
  <2>3. HasRoom(c, c, s)
    BY <1>1, <1>2, <1>4 DEF HasRoom, Sound
  <2>4. QED
    BY <2>2, <2>3
<1>5. CASE Len(q) = 0
  <2>1. room = Resized(c, 2 * size)
    BY <1>2, <1>3, <1>5
  <2>2. 2 * size \in Nat \ {0} /\ size < 2 * size /\ 2 * size - size = size
    BY <1>3
  <2>3. HasGrown(c, s, 2 * size, room)
    <3>1. PICK z : z = 2 * size
      OBVIOUS
    <3>2. z \in Nat /\ Size(c) < z /\ Len(s["available"]) = 0 /\ room = Resized(c, z)
      BY <1>2, <1>5, <2>1, <2>2, <3>1
    <3>3. HasGrown(c, s, z, room)
      BY <1>1, <3>2, ResizedChains
    <3>4. QED
      BY <3>1, <3>3
  <2>4. PICK fresh : /\ Linked(room, [s EXCEPT !["available"] = fresh], {})
                     /\ Len(fresh) = size
    BY <1>2, <2>2, <2>3 DEF HasGrown
  <2>5. PICK t : t = [s EXCEPT !["available"] = fresh]
    OBVIOUS
  <2>6. /\ Linked(room, t, {}) /\ Len(t["available"]) # 0
    <3>1. "available" \in DOMAIN s
      BY <1>1 DEF Linked, Lists
    <3>2. t["available"] = fresh
      BY <2>5, <3>1
    <3>3. QED
      BY <1>3, <2>4, <2>5, <3>2
  <2>7. /\ Size(room) = 2 * size /\ room.index = c.index
        /\ \A n \in 1 .. size : /\ room.elements[n].list = c.elements[n].list
                                /\ room.elements[n].plod = c.elements[n].plod
        /\ \A n \in size + 1 .. 2 * size : /\ room.elements[n].list = "available"
                                           /\ room.elements[n].plod = NoPagedLOD
    BY <1>2, <2>3, Zenon DEF HasGrown
  <2>8. \A n \in 1 .. 2 * size : n \in 1 .. size \/ n \in size + 1 .. 2 * size
    BY <1>3
  <2>9. Owned(room) /\ \A r \in PagedLODs : ListOf(room, r) = ListOf(c, r)
    <3>1. 1 .. size \subseteq 1 .. 2 * size
      BY <1>3
    <3>2. Owned(c) /\ Size(c) = size
      BY <1>2 DEF Sound
    <3>3. ASSUME NEW r \in PagedLODs, c.index[r] # 0
          PROVE  /\ room.index[r] \in 1 .. Size(room)
                 /\ room.elements[room.index[r]].plod = r
                 /\ room.elements[room.index[r]].list = c.elements[c.index[r]].list
      BY <2>7, <3>1, <3>2, <3>3 DEF Owned
    <3>4. ASSUME NEW n \in 1 .. Size(room)
          PROVE  /\ room.elements[n].list = "available" => room.elements[n].plod = NoPagedLOD
                 /\ room.elements[n].list # "available" =>
                       /\ room.elements[n].plod \in PagedLODs
                       /\ room.index[room.elements[n].plod] = n
      <4>1. CASE n \in 1 .. size
        BY <2>7, <3>2, <4>1 DEF Owned
      <4>2. CASE n \in size + 1 .. 2 * size
        BY <2>7, <4>2
      <4>3. QED
        BY <2>7, <2>8, <4>1, <4>2, SMTT(40)
    <3>5. Owned(room)
      <4>1. \A r \in PagedLODs : room.index[r] # 0 =>
               room.index[r] \in 1 .. Size(room) /\ room.elements[room.index[r]].plod = r
        BY <2>7, <3>3
      <4>2. QED
        BY <3>4, <4>1, Zenon DEF Owned
    <3>6. ASSUME NEW r \in PagedLODs PROVE ListOf(room, r) = ListOf(c, r)
      BY <2>7, <3>3 DEF ListOf
    <3>7. QED
      BY <3>5, <3>6
  <2>10. HasRoom(c, room, t)
    BY <2>2, <2>6, <2>7, <2>9 DEF HasRoom
  <2>11. QED
    BY <2>10
<1>6. QED
  BY <1>4, <1>5

\* What _move() does to the lists of the PagedLODs.
HasMoved(c, p, name, d) ==
    /\ Sound(d)
    /\ \A r \in PagedLODs : ListOf(d, r) = IF r = p THEN name ELSE ListOf(c, r)

\* An element that was available belongs to its PagedLOD when it has been assigned.
LEMMA AssignedIsOwned ==
  ASSUME NEW c, NEW room, NEW s, HasRoom(c, room, s), NEW p \in PagedLODs, c.index[p] = 0,
         NEW name \in Lists \ {"available"}, NEW i \in 1 .. Size(room),
         room.elements[i].list = "available",
         NEW a, Size(a) = Size(room), a.index = room.index, a.elements[i].list = name,
         \A n \in 1 .. Size(room) \ {i} : a.elements[n].list = room.elements[n].list,
         \A n \in 1 .. Size(room) : a.elements[n].plod = room.elements[n].plod,
         NEW t, NEW d, IsRelabelled(a, t, p, i, i, p, d)
  PROVE  HasMoved(c, p, name, d)
<1>0. PICK size : size = Size(room)
  OBVIOUS
<1>1. /\ Linked(room, s, {}) /\ Owned(room) /\ size \in Nat \ {0} /\ room.index = c.index
      /\ \A r \in PagedLODs : ListOf(room, r) = ListOf(c, r)
      /\ i \in 1 .. size
  BY <1>0 DEF HasRoom
<1>2. /\ Linked(d, t, {}) /\ Size(d) = size
      /\ d.index = [room.index EXCEPT ![p] = i]
      /\ d.elements[i].list = name /\ d.elements[i].plod = p
      /\ \A n \in 1 .. size \ {i} : /\ d.elements[n].list = room.elements[n].list
                                    /\ d.elements[n].plod = room.elements[n].plod
  BY <1>0, <1>1 DEF IsRelabelled
<1>3. room.index \in [PagedLODs -> Nat]
  BY <1>1 DEF Linked, Container
<1>4. d.index[p] = i /\ \A r \in PagedLODs \ {p} : d.index[r] = room.index[r]
  BY <1>2, <1>3
<1>5. room.elements[i].list = "available" /\ room.elements[i].plod = NoPagedLOD
  BY <1>0, <1>1 DEF Owned
<1>6. ASSUME NEW r \in PagedLODs \ {p}, room.index[r] # 0
      PROVE  /\ room.index[r] \in 1 .. size /\ room.index[r] # i
             /\ room.elements[room.index[r]].plod = r
  <2>1. room.index[r] \in 1 .. size /\ room.elements[room.index[r]].plod = r
    BY <1>0, <1>1, <1>6 DEF Owned
  <2>2. NoPagedLOD \notin PagedLODs
    BY ContainerAssumption DEF ContainerAssumption
  <2>3. QED
    BY <1>5, <2>1, <2>2
<1>7. ASSUME NEW n \in 1 .. size
      PROVE  /\ d.elements[n].list = "available" => d.elements[n].plod = NoPagedLOD
             /\ d.elements[n].list # "available" => /\ d.elements[n].plod \in PagedLODs
                                                    /\ d.index[d.elements[n].plod] = n
  <2>1. CASE n = i
    BY <1>2, <1>4, <2>1
  <2>2. CASE n # i
    <3>1. /\ d.elements[n].list = room.elements[n].list
          /\ d.elements[n].plod = room.elements[n].plod
      BY <1>2, <2>2
    <3>2. /\ room.elements[n].list = "available" => room.elements[n].plod = NoPagedLOD
          /\ room.elements[n].list # "available" =>
                /\ room.elements[n].plod \in PagedLODs
                /\ room.index[room.elements[n].plod] = n
      BY <1>0, <1>1 DEF Owned
    <3>3. room.index[p] = 0 /\ n # 0
      BY <1>1
    <3>4. QED
      BY <1>4, <3>1, <3>2, <3>3
  <2>3. QED
    BY <2>1, <2>2
<1>8. Owned(d)
  <2>1. ASSUME NEW r \in PagedLODs, d.index[r] # 0
        PROVE  d.index[r] \in 1 .. size /\ d.elements[d.index[r]].plod = r
    <3>1. CASE r = p
      BY <1>1, <1>2, <1>4, <3>1
    <3>2. CASE r # p
      BY <1>2, <1>4, <1>6, <2>1, <3>2
    <3>3. QED
      BY <3>1, <3>2
  <2>2. QED
    BY <1>2, <1>7, <2>1 DEF Owned
<1>9. ASSUME NEW r \in PagedLODs
      PROVE  ListOf(d, r) = IF r = p THEN name ELSE ListOf(c, r)
  <2>1. CASE r = p
    <3>1. i # 0
      BY <1>1
    <3>2. QED
      BY <1>2, <1>4, <2>1, <3>1 DEF ListOf
  <2>2. CASE r # p
    <3>1. ListOf(d, r) = ListOf(room, r)
      <4>1. CASE room.index[r] = 0
        BY <1>4, <2>2, <4>1 DEF ListOf
      <4>2. CASE room.index[r] # 0
        BY <1>2, <1>4, <1>6, <2>2, <4>2 DEF ListOf
      <4>3. QED
        BY <4>1, <4>2
    <3>2. QED
      BY <1>1, <2>2, <3>1
  <2>3. QED
    BY <2>1, <2>2
<1>10. QED
  BY <1>1, <1>2, <1>8, <1>9 DEF HasMoved, Sound

\* A PagedLOD without an element gets the first one that is available.
LEMMA AssignedInLists ==
  ASSUME NEW c, Sound(c), NEW p \in PagedLODs, c.index[p] = 0,
         NEW name \in Lists \ {"available"}
  PROVE  HasMoved(c, p, name, Assigned(c, p, name))
<1>1. PICK room : room = IF c.lists["available"].head = 0 THEN Resized(c, 2 * Size(c)) ELSE c
  OBVIOUS
<1>2. PICK s : HasRoom(c, room, s)
  BY <1>1, RoomIsMade
<1>3. PICK q, i : q = s["available"] /\ i = q[1]
  OBVIOUS
<1>4. /\ Linked(room, s, {}) /\ "available" \in Lists /\ name \in Lists /\ "available" # name
      /\ Len(q) # 0 /\ 1 \in 1 .. Len(q)
  <2>1. Linked(room, s, {}) /\ "available" \in Lists /\ Len(q) # 0
    BY <1>2, <1>3 DEF HasRoom, Lists
  <2>2. IsChain(room, "available", q) /\ room \in Container
    BY <1>3, <2>1 DEF Linked
  <2>3. Len(q) \in Nat
    BY <2>1, <2>2, ChainFacts
  <2>4. QED
    BY <2>1, <2>3
<1>5. Taken(room) = Unlinked(room, i) /\ room.lists["available"].head = i
  BY <1>3, <1>4, TakenIsUnlinked
<1>6. HasPassed(room, s, "available", name, 1, i)
  <2>1. 1 \in 1 .. Len(s["available"]) /\ i = s["available"][1]
    BY <1>3, <1>4
  <2>2. QED
    BY <1>4, <2>1, RelinkedChains
<1>7. PICK a, t : /\ a = Appended(Unlinked(room, i), i, name)
                  /\ t = [[s EXCEPT !["available"] = RemoveAt(s["available"], 1)]
                             EXCEPT ![name] = Append(s[name], i)]
  OBVIOUS
<1>8. /\ Linked(a, t, {}) /\ i \in 1 .. Size(room) /\ room.elements[i].list = "available"
      /\ Size(a) = Size(room) /\ a.index = room.index /\ a.elements[i].list = name
      /\ \A n \in 1 .. Size(room) \ {i} : a.elements[n].list = room.elements[n].list
      /\ \A n \in 1 .. Size(room) : a.elements[n].plod = room.elements[n].plod
  BY <1>6, <1>7, Zenon DEF HasPassed
<1>9. PICK d : d = Assigned(c, p, name)
  OBVIOUS
<1>10. d = [a EXCEPT !.index[p] = i, !.elements[i].plod = p]
  <2>1. d = [Appended(Taken(room), room.lists["available"].head, name)
               EXCEPT !.index[p] = room.lists["available"].head,
                      !.elements[room.lists["available"].head].plod = p]
    BY <1>1, <1>9 DEF Assigned
  <2>2. a = Appended(Taken(room), i, name)
    BY <1>5, <1>7
  <2>3. QED
    BY <1>5, <2>1, <2>2
<1>11. IsRelabelled(a, t, p, i, i, p, d)
  <2>1. i \in 1 .. Size(a) /\ i \in Nat /\ p \in PagedLODs \cup {NoPagedLOD}
    <3>1. Size(room) \in Nat
      BY <1>2 DEF HasRoom
    <3>2. QED
      BY <1>8, <3>1
  <2>2. QED
    BY <1>8, <1>10, <2>1, RelabelledChains
<1>12. HasMoved(c, p, name, d)
  BY <1>2, <1>8, <1>11, AssignedIsOwned
<1>13. QED
  BY <1>9, <1>12

\* The chain of an element and its position there.
LEMMA PositionInChain ==
  ASSUME NEW c, NEW s, Linked(c, s, {}), NEW i \in 1 .. Size(c)
  PROVE  /\ c.elements[i].list \in Lists
         /\ \E k \in 1 .. Len(s[c.elements[i].list]) : s[c.elements[i].list][k] = i
<1>1. c \in Container
  BY DEF Linked
<1>2. c.elements[i].list \in Lists
  <2>1. c.elements \in Seq(Element)
    BY <1>1 DEF Container
  <2>2. c.elements[i] \in Element
    BY <2>1, LenProperties DEF Size
  <2>3. QED
    BY <2>2 DEF Element
<1>3. PICK q : q = s[c.elements[i].list]
  OBVIOUS
<1>4. i \in Range(q) /\ IsChain(c, c.elements[i].list, q)
  BY <1>2, <1>3 DEF Linked
<1>5. DOMAIN q = 1 .. Len(q)
  BY <1>1, <1>2, <1>4, ChainFacts
<1>6. QED
  BY <1>2, <1>3, <1>4, <1>5 DEF Range

\* What _move() does: the PagedLOD is in that list, and all the others where they were.
LEMMA MoveInLists ==
  ASSUME NEW c, Sound(c), NEW p \in PagedLODs, NEW name \in Lists \ {"available"}
  PROVE  HasMoved(c, p, name, Move(c, p, name))
<1>1. CASE c.index[p] = 0
  BY <1>1, AssignedInLists DEF Move
<1>2. CASE c.index[p] # 0 /\ ListOf(c, p) = name
  BY <1>2 DEF Move, HasMoved
<1>3. CASE c.index[p] # 0 /\ ListOf(c, p) # name
  <2>1. PICK s : Linked(c, s, {})
    BY DEF Sound
  <2>2. PICK i, here : i = c.index[p] /\ here = c.elements[i].list
    OBVIOUS
  <2>3. i \in 1 .. Size(c) /\ Owned(c) /\ Size(c) \in Nat \ {0}
    BY <1>3, <2>2 DEF Sound, Owned
  <2>4. PICK k \in 1 .. Len(s[here]) : s[here][k] = i
    BY <2>1, <2>2, <2>3, PositionInChain
  <2>5. here \in Lists /\ here # name /\ name \in Lists
    BY <1>3, <2>1, <2>2, <2>3, PositionInChain DEF ListOf
  <2>6. HasPassed(c, s, here, name, k, i)
    BY <2>1, <2>4, <2>5, RelinkedChains
  <2>7. PICK d, t : /\ d = Appended(Unlinked(c, i), i, name)
                    /\ t = [[s EXCEPT ![here] = RemoveAt(s[here], k)]
                               EXCEPT ![name] = Append(s[name], i)]
    OBVIOUS
  <2>8. /\ Linked(d, t, {}) /\ Size(d) = Size(c) /\ d.index = c.index
        /\ d.elements[i].list = name
        /\ \A n \in 1 .. Size(c) \ {i} : d.elements[n].list = c.elements[n].list
        /\ \A n \in 1 .. Size(c) : d.elements[n].plod = c.elements[n].plod
    BY <2>6, <2>7, Zenon DEF HasPassed
  <2>9. Owned(d) /\ \A r \in PagedLODs : ListOf(d, r) = IF r = p THEN name ELSE ListOf(c, r)
    BY <1>3, <2>1, <2>2, <2>3, <2>8, MovedIsOwned
  <2>10. HasMoved(c, p, name, d)
    BY <2>3, <2>8, <2>9 DEF HasMoved, Sound
  <2>11. Move(c, p, name) = d
    BY <1>3, <2>2, <2>7 DEF Move
  <2>12. QED
    BY <2>10, <2>11
<1>4. QED
  BY <1>1, <1>2, <1>3

\* What remove() of an inactive PagedLOD does to its list and to the others.
HasRemoved(c, s, k, p, d) ==
    /\ Sound(d) /\ Size(d) = Size(c)
    /\ \E t : /\ Linked(d, t, {}) /\ t["inactive"] = RemoveAt(s["inactive"], k)
              /\ t["active"] = s["active"]
    /\ \A r \in PagedLODs : ListOf(d, r) = IF r = p THEN "none" ELSE ListOf(c, r)
    /\ \A n \in 1 .. Size(c) \ {s["inactive"][k]} : d.elements[n].plod = c.elements[n].plod

\* Its element becomes available again.
LEMMA RemovedInLists ==
  ASSUME NEW c, NEW s, Sound(c), Linked(c, s, {}), NEW k \in 1 .. Len(s["inactive"]),
         NEW p, p = c.elements[s["inactive"][k]].plod
  PROVE  /\ p \in PagedLODs /\ ListOf(c, p) = "inactive"
         /\ HasRemoved(c, s, k, p, Removed(c, p))
<1>1. PICK i : i = s["inactive"][k]
  OBVIOUS
<1>2. /\ "inactive" \in Lists /\ "available" \in Lists /\ "active" \in Lists
      /\ "inactive" # "available" /\ "inactive" # "active" /\ "active" # "available"
  BY DEF Lists
<1>3. HasPassed(c, s, "inactive", "available", k, i)
  BY <1>1, <1>2, RelinkedChains
<1>4. PICK a, t : /\ a = Appended(Unlinked(c, i), i, "available")
                  /\ t = [[s EXCEPT !["inactive"] = RemoveAt(s["inactive"], k)]
                             EXCEPT !["available"] = Append(s["available"], i)]
  OBVIOUS
<1>5. /\ Linked(a, t, {}) /\ i \in 1 .. Size(c) /\ c.elements[i].list = "inactive"
      /\ Size(a) = Size(c) /\ a.index = c.index /\ a.elements[i].list = "available"
      /\ \A n \in 1 .. Size(c) \ {i} : a.elements[n].list = c.elements[n].list
      /\ \A n \in 1 .. Size(c) : a.elements[n].plod = c.elements[n].plod
  BY <1>3, <1>4, Zenon DEF HasPassed
<1>6. /\ t["inactive"] = RemoveAt(s["inactive"], k) /\ t["active"] = s["active"]
  BY <1>2, <1>4 DEF Linked
<1>7. /\ p \in PagedLODs /\ c.index[p] = i /\ i # 0 /\ Owned(c) /\ Size(c) \in Nat \ {0}
      /\ c.index \in [PagedLODs -> Nat]
  BY <1>1, <1>2, <1>5 DEF Sound, Owned, Linked, Container
<1>8. ListOf(c, p) = "inactive"
  BY <1>5, <1>7 DEF ListOf
<1>9. PICK d : d = Removed(c, p)
  OBVIOUS
<1>10. d = [a EXCEPT !.index[p] = 0, !.elements[i].plod = NoPagedLOD]
  <2>1. Move(c, p, "available") = a
    BY <1>2, <1>4, <1>7, <1>8 DEF Move
  <2>2. QED
    BY <1>7, <1>9, <2>1 DEF Removed
<1>11. IsRelabelled(a, t, p, 0, i, NoPagedLOD, d)
  BY <1>5, <1>7, <1>10, RelabelledChains
<1>12. /\ Linked(d, t, {}) /\ Size(d) = Size(c) /\ d.index = [c.index EXCEPT ![p] = 0]
       /\ d.elements[i].list = "available" /\ d.elements[i].plod = NoPagedLOD
       /\ \A n \in 1 .. Size(c) \ {i} : /\ d.elements[n].list = c.elements[n].list
                                        /\ d.elements[n].plod = c.elements[n].plod
  BY <1>5, <1>11 DEF IsRelabelled
<1>13. d.index[p] = 0 /\ \A r \in PagedLODs \ {p} : d.index[r] = c.index[r]
  BY <1>7, <1>12
<1>14. ASSUME NEW r \in PagedLODs \ {p}, c.index[r] # 0
       PROVE  /\ c.index[r] \in 1 .. Size(c) /\ c.index[r] # i
              /\ c.elements[c.index[r]].plod = r
  BY <1>1, <1>7, <1>14 DEF Owned
<1>15. ASSUME NEW n \in 1 .. Size(d)
       PROVE  /\ d.elements[n].list = "available" => d.elements[n].plod = NoPagedLOD
              /\ d.elements[n].list # "available" => /\ d.elements[n].plod \in PagedLODs
                                                     /\ d.index[d.elements[n].plod] = n
  <2>1. CASE n = i
    BY <1>12, <2>1
  <2>2. CASE n # i
    <3>1. /\ n \in 1 .. Size(c) /\ d.elements[n].list = c.elements[n].list
          /\ d.elements[n].plod = c.elements[n].plod
      BY <1>12, <2>2
    <3>2. /\ c.elements[n].list = "available" => c.elements[n].plod = NoPagedLOD
          /\ c.elements[n].list # "available" => /\ c.elements[n].plod \in PagedLODs
                                                 /\ c.index[c.elements[n].plod] = n
      BY <1>7, <3>1 DEF Owned
    <3>3. QED
      BY <1>7, <1>13, <2>2, <3>1, <3>2
  <2>3. QED
    BY <2>1, <2>2
<1>16. Owned(d)
  <2>1. ASSUME NEW r \in PagedLODs, d.index[r] # 0
        PROVE  d.index[r] \in 1 .. Size(d) /\ d.elements[d.index[r]].plod = r
    BY <1>12, <1>13, <1>14, <2>1
  <2>2. QED
    BY <1>15, <2>1 DEF Owned
<1>17. ASSUME NEW r \in PagedLODs
       PROVE  ListOf(d, r) = IF r = p THEN "none" ELSE ListOf(c, r)
  <2>1. CASE r = p
    BY <1>13, <2>1 DEF ListOf
  <2>2. CASE r # p /\ c.index[r] = 0
    BY <1>13, <2>2 DEF ListOf
  <2>3. CASE r # p /\ c.index[r] # 0
    BY <1>12, <1>13, <1>14, <2>3 DEF ListOf
  <2>4. QED
    BY <2>1, <2>2, <2>3
<1>18. HasRemoved(c, s, k, p, d)
  <2>1. Sound(d)
    BY <1>7, <1>12, <1>16 DEF Sound
  <2>2. QED
    BY <1>1, <1>6, <1>12, <1>17, <2>1 DEF HasRemoved
<1>19. QED
  BY <1>7, <1>8, <1>9, <1>18

--------------------------------------------------------------------------------
(* Moving PagedLODs one after the other.                                   *)

\* The folds of the model with the function that they are defined by.
IsIteration(g, n, c, q, name) ==
    g = [s \in SUBSET (1 .. n) |->
            IF s = {} THEN c ELSE Move(g[s \ {Max(s)}], q[Max(s)], name)]

\* A fold over a queue is the iteration at its length.
LEMMA FoldsAreIterations ==
  ASSUME NEW c, NEW q, NEW n, DOMAIN q = 1 .. n
  PROVE  /\ FoldLeft(Active, c, q) = (CHOOSE g : IsIteration(g, n, c, q, "active"))[1 .. n]
         /\ FoldLeft(Inactive, c, q) = (CHOOSE g : IsIteration(g, n, c, q, "inactive"))[1 .. n]
<1>1. FoldLeft(Active, c, q) = (CHOOSE g : IsIteration(g, n, c, q, "active"))[1 .. n]
  BY Zenon DEF FoldLeft, MapThenFoldSet, IsIteration, Active
<1>2. FoldLeft(Inactive, c, q) = (CHOOSE g : IsIteration(g, n, c, q, "inactive"))[1 .. n]
  BY Zenon DEF FoldLeft, MapThenFoldSet, IsIteration, Inactive
<1>3. QED
  BY <1>1, <1>2

\* The largest number of a set that is below a bound and contains it.
LEMMA MaxIsBound ==
  ASSUME NEW n \in Nat, NEW s \in SUBSET (1 .. n), n \in s
  PROVE  Max(s) = n
<1>1. \A y \in s : n >= y
  OBVIOUS
<1>2. \A x \in s : (\A y \in s : x >= y) => x = n
  OBVIOUS
<1>3. QED
  BY <1>1, <1>2 DEF Max

\* There is such a function for every number.
LEMMA IterationExists ==
  ASSUME NEW c, NEW q, NEW name, NEW n \in Nat
  PROVE  \E g : IsIteration(g, n, c, q, name)
<1> DEFINE T == {m \in Nat : \E g : IsIteration(g, m, c, q, name)}
<1>1. 0 \in T
  <2>1. PICK g : g = [s \in SUBSET (1 .. 0) |-> c]
    OBVIOUS
  <2>2. \A s \in SUBSET (1 .. 0) : s = {}
    OBVIOUS
  <2>3. IsIteration(g, 0, c, q, name)
    BY <2>1, <2>2 DEF IsIteration
  <2>4. QED
    BY <2>3
<1>2. ASSUME NEW m \in T PROVE m + 1 \in T
  <2>1. PICK g : IsIteration(g, m, c, q, name)
    OBVIOUS
  <2>2. m \in Nat /\ m + 1 \in Nat
    OBVIOUS
  <2>3. PICK h : h = [s \in SUBSET (1 .. m + 1) |->
                        IF m + 1 \in s THEN Move(g[s \ {m + 1}], q[m + 1], name) ELSE g[s]]
    OBVIOUS
  <2>4. \A s \in SUBSET (1 .. m + 1) : m + 1 \notin s => s \in SUBSET (1 .. m)
    BY <2>2
  <2>5. \A s \in SUBSET (1 .. m) : s \in SUBSET (1 .. m + 1) /\ m + 1 \notin s
    BY <2>2
  <2>6. ASSUME NEW s \in SUBSET (1 .. m + 1)
        PROVE  h[s] = IF s = {} THEN c ELSE Move(h[s \ {Max(s)}], q[Max(s)], name)
    <3>1. CASE m + 1 \in s
      <4>1. Max(s) = m + 1 /\ s # {}
        BY <2>2, <3>1, MaxIsBound
      <4>2. s \ {m + 1} \in SUBSET (1 .. m + 1) /\ m + 1 \notin s \ {m + 1}
        OBVIOUS
      <4>3. h[s \ {m + 1}] = g[s \ {m + 1}]
        BY <2>3, <4>2
      <4>4. QED
        BY <2>3, <3>1, <4>1, <4>3
    <3>2. CASE m + 1 \notin s
      <4>1. s \in SUBSET (1 .. m) /\ s \ {Max(s)} \in SUBSET (1 .. m)
        BY <2>4, <3>2
      <4>2. h[s] = g[s] /\ h[s \ {Max(s)}] = g[s \ {Max(s)}]
        BY <2>3, <2>5, <4>1
      <4>3. g[s] = IF s = {} THEN c ELSE Move(g[s \ {Max(s)}], q[Max(s)], name)
        BY <2>1, <4>1 DEF IsIteration
      <4>4. QED
        BY <4>2, <4>3
    <3>3. QED
      BY <3>1, <3>2
  <2>7. IsIteration(h, m + 1, c, q, name)
    <3>1. h = [s \in SUBSET (1 .. m + 1) |-> h[s]]
      BY <2>3
    <3>2. QED
      BY <2>6, <3>1, Zenon DEF IsIteration
  <2>8. QED
    BY <2>2, <2>7
<1>3. T = Nat
  <2>1. T \in SUBSET Nat /\ \A m \in T : m + 1 \in T
    BY <1>2
  <2> HIDE DEF T
  <2>2. QED
    BY <1>1, <2>1, NumbersByInduction
<1>4. QED
  BY <1>3

\* When some PagedLODs have been moved to a list, they are there, and the others are
\* where they were.
AllMoved(c, moved, name, d) ==
    /\ Sound(d)
    /\ \A r \in PagedLODs : ListOf(d, r) = IF r \in moved THEN name ELSE ListOf(c, r)

\* So it is after any number of them.
LEMMA IterationInLists ==
  ASSUME NEW c, Sound(c), NEW q \in Seq(PagedLODs), NEW name \in Lists \ {"available"},
         NEW n, n = Len(q), NEW g, IsIteration(g, n, c, q, name)
  PROVE  AllMoved(c, Range(q), name, g[1 .. n])
<1>1. n \in Nat /\ DOMAIN q = 1 .. n /\ \A k \in 1 .. n : q[k] \in PagedLODs
  BY LenProperties
<1> DEFINE Before(m) == {q[k] : k \in 1 .. m}
           T == {m \in Nat : m <= n => AllMoved(c, Before(m), name, g[1 .. m])}
<1>2. 0 \in T
  <2>1. 1 .. 0 = {} /\ 1 .. 0 \in SUBSET (1 .. n)
    BY <1>1
  <2>2. g[1 .. 0] = c
    BY <2>1 DEF IsIteration
  <2>3. Before(0) = {}
    BY <2>1
  <2>4. AllMoved(c, Before(0), name, c)
    BY <2>3 DEF AllMoved
  <2>5. QED
    BY <2>2, <2>4
<1>3. ASSUME NEW m \in T PROVE m + 1 \in T
  <2>1. SUFFICES ASSUME m + 1 <= n
                 PROVE  AllMoved(c, Before(m + 1), name, g[1 .. m + 1])
    <3>1. m \in Nat /\ m + 1 \in Nat
      OBVIOUS
    <3>2. QED
      BY <3>1, ZenonT(40)
  <2>2. /\ m \in Nat /\ m + 1 \in 1 .. n /\ 1 .. m + 1 \in SUBSET (1 .. n)
        /\ m + 1 \in 1 .. m + 1 /\ (1 .. m + 1) \ {m + 1} = 1 .. m
    BY <1>1, <2>1
  <2>3. Max(1 .. m + 1) = m + 1
    BY <2>2, MaxIsBound
  <2>4. PICK d : d = g[1 .. m]
    OBVIOUS
  <2>5. g[1 .. m + 1] = Move(d, q[m + 1], name)
    <3>1. g[1 .. m + 1] = Move(g[(1 .. m + 1) \ {Max(1 .. m + 1)}], q[Max(1 .. m + 1)], name)
      BY <2>2 DEF IsIteration
    <3>2. QED
      BY <2>2, <2>3, <2>4, <3>1
  <2>6. AllMoved(c, Before(m), name, d)
    BY <2>1, <2>2, <2>4
  <2>7. q[m + 1] \in PagedLODs /\ Sound(d)
    BY <1>1, <2>2, <2>6 DEF AllMoved
  <2>8. HasMoved(d, q[m + 1], name, Move(d, q[m + 1], name))
    BY <2>7, MoveInLists
  <2>9. Before(m + 1) = Before(m) \cup {q[m + 1]}
    BY <2>2
  <2> HIDE DEF Before
  <2>10. QED
    BY <2>5, <2>6, <2>8, <2>9 DEF AllMoved, HasMoved
<1>4. T = Nat
  <2>1. T \in SUBSET Nat /\ \A m \in T : m + 1 \in T
    BY <1>3
  <2> HIDE DEF T
  <2>2. QED
    BY <1>2, <2>1, NumbersByInduction
<1>5. Before(n) = Range(q)
  BY <1>1 DEF Range
<1>6. n \in T
  BY <1>1, <1>4
<1>7. QED
  BY <1>1, <1>5, <1>6

\* Both folds of the sweep.
LEMMA FoldsInLists ==
  ASSUME NEW c, Sound(c), NEW q \in Seq(PagedLODs)
  PROVE  /\ AllMoved(c, Range(q), "active", FoldLeft(Active, c, q))
         /\ AllMoved(c, Range(q), "inactive", FoldLeft(Inactive, c, q))
<1>1. PICK n : n = Len(q)
  OBVIOUS
<1>2. n \in Nat /\ DOMAIN q = 1 .. n
  BY <1>1, LenProperties
<1>3. ASSUME NEW name \in Lists \ {"available"}
      PROVE  AllMoved(c, Range(q), name, (CHOOSE g : IsIteration(g, n, c, q, name))[1 .. n])
  <2>1. PICK g : g = CHOOSE h : IsIteration(h, n, c, q, name)
    OBVIOUS
  <2>2. \E h : IsIteration(h, n, c, q, name)
    BY <1>2, IterationExists
  <2>3. IsIteration(g, n, c, q, name)
    BY <2>1, <2>2, Zenon
  <2>4. AllMoved(c, Range(q), name, g[1 .. n])
    BY <1>1, <2>3, IterationInLists
  <2>5. QED
    BY <2>1, <2>4, Zenon
<1>4. "active" \in Lists \ {"available"} /\ "inactive" \in Lists \ {"available"}
  BY DEF Lists
<1>5. QED
  BY <1>2, <1>3, <1>4, FoldsAreIterations

--------------------------------------------------------------------------------
(* The first container, and what check() walks.                            *)

\* The container is created with all its elements available.
LEMMA EmptyIsSound == Sound(EmptyContainer) /\ \A p \in PagedLODs : EmptyContainer.index[p] = 0
<1>1. PICK e, s, size :
         /\ e = [elements |-> <<>>,
                 lists |-> [name \in Lists |-> [head |-> 0, tail |-> 0, count |-> 0]],
                 index |-> [p \in PagedLODs |-> 0]]
         /\ s = [name \in Lists |-> <<>>] /\ size = ContainerSize
  OBVIOUS
<1>2. /\ <<>> \in Seq(Element) /\ Len(<<>>) = 0 /\ DOMAIN <<>> = {}
      /\ \A S : <<>> \in Seq(S)
  BY EmptySeq
<1>3. /\ e.lists \in [Lists -> ListRecord] /\ e.index \in [PagedLODs -> Nat]
      /\ e.elements = <<>> /\ \A p \in PagedLODs : e.index[p] = 0
      /\ \A name \in Lists : e.lists[name] = [head |-> 0, tail |-> 0, count |-> 0]
  BY <1>1 DEF ListRecord
<1>4. e \in Container /\ Size(e) = 0
  BY <1>1, <1>2, <1>3 DEF Container, Size
<1>5. \A name \in Lists : s[name] = <<>> /\ Len(s[name]) = 0
  BY <1>1, <1>2
<1>6. DOMAIN s = Lists
  BY <1>1
<1>7. ASSUME NEW name \in Lists PROVE IsChain(e, name, s[name])
  <2>1. s[name] \in Seq(1 .. Size(e)) /\ IsInjective(s[name])
    BY <1>2, <1>5 DEF IsInjective
  <2>2. \A k \in 1 .. Len(s[name]) : FALSE
    BY <1>5
  <2>3. /\ e.lists[name].head = 0 /\ e.lists[name].tail = 0 /\ e.lists[name].count = 0
    BY <1>3
  <2>4. QED
    BY <1>5, <2>1, <2>2, <2>3 DEF IsChain
<1>8. Linked(e, s, {})
  BY <1>4, <1>6, <1>7 DEF Linked
<1>9. size \in Nat \ {0}
  BY <1>1, ContainerAssumption DEF ContainerAssumption
<1>10. PICK d : d = Resized(e, size)
  OBVIOUS
<1>11. HasGrown(e, s, size, d)
  <2>1. Len(s["available"]) = 0 /\ Size(e) < size /\ size \in Nat
    BY <1>4, <1>5, <1>9 DEF Lists
  <2>2. QED
    BY <1>8, <1>10, <2>1, ResizedChains
<1>12. /\ \E t : Linked(d, t, {})
       /\ Size(d) = size /\ d.index = e.index
       /\ \A n \in 0 + 1 .. size : /\ d.elements[n].list = "available"
                                   /\ d.elements[n].plod = NoPagedLOD
  BY <1>4, <1>11 DEF HasGrown
<1>13. \A p \in PagedLODs : d.index[p] = 0
  BY <1>3, <1>12
<1>14. Owned(d)
  BY <1>12, <1>13 DEF Owned
<1>15. Sound(d)
  BY <1>9, <1>12, <1>14 DEF Sound
<1>16. d = EmptyContainer
  BY <1>1, <1>10 DEF EmptyContainer
<1>17. QED
  BY <1>13, <1>15, <1>16

\* What the walk from the head of a list finds: the elements of the chain, then nothing.
IsWalk(walk, c, name) ==
    walk = [k \in 1 .. Size(c) + 1 |->
               IF k = 1 THEN c.lists[name].head
               ELSE IF walk[k - 1] = 0 THEN 0 ELSE c.elements[walk[k - 1]].next]

\* The walk of check() follows the chain.
LEMMA WalkAlongChain ==
  ASSUME NEW c, NEW s, Linked(c, s, {}), NEW name \in Lists, NEW q, q = s[name],
         NEW size, size = Size(c), NEW len, len = Len(q)
  PROVE  /\ \E walk : IsWalk(walk, c, name)
         /\ \A walk : IsWalk(walk, c, name) =>
               \A k \in 1 .. size + 1 : walk[k] = IF k <= len THEN q[k] ELSE 0
<1>1. /\ size \in Nat /\ len \in Nat
      /\ \A j \in 1 .. len : q[j] \in 1 .. size
      /\ c.lists[name].head = IF len = 0 THEN 0 ELSE q[1]
      /\ \A j \in 1 .. len : c.elements[q[j]].next = IF j = len THEN 0 ELSE q[j + 1]
  <2>1. ChainOfList(c, name, q, len, size)
    BY LinkedFacts
  <2>2. QED
    BY <2>1 DEF ChainOfList
<1> DEFINE Found(k) == IF k <= len THEN q[k] ELSE 0
<1>2. Found(1) = c.lists[name].head
  BY <1>1
<1>3. ASSUME NEW k \in 1 .. size
      PROVE  Found(k + 1) = IF Found(k) = 0 THEN 0 ELSE c.elements[Found(k)].next
  <2>1. CASE k <= len
    <3>1. k \in 1 .. len /\ Found(k) = q[k] /\ q[k] # 0
      BY <1>1, <2>1
    <3>2. c.elements[q[k]].next = IF k = len THEN 0 ELSE q[k + 1]
      BY <1>1, <3>1
    <3>3. Found(k + 1) = IF k = len THEN 0 ELSE q[k + 1]
      BY <1>1, <3>1
    <3>4. QED
      BY <3>1, <3>2, <3>3
  <2>2. CASE ~(k <= len)
    <3>1. Found(k) = 0 /\ Found(k + 1) = 0
      BY <1>1, <2>2
    <3>2. QED
      BY <3>1
  <2>3. QED
    BY <2>1, <2>2
<1> HIDE DEF Found
<1>4. \E walk : IsWalk(walk, c, name)
  <2>1. PICK walk : walk = [k \in 1 .. size + 1 |-> Found(k)]
    OBVIOUS
  <2>2. ASSUME NEW k \in 1 .. size + 1
        PROVE  walk[k] = IF k = 1 THEN c.lists[name].head
                         ELSE IF walk[k - 1] = 0 THEN 0 ELSE c.elements[walk[k - 1]].next
    <3>1. CASE k = 1
      BY <1>2, <2>1, <3>1
    <3>2. CASE k # 1
      <4>1. PICK j : j = k - 1
        OBVIOUS
      <4>2. j \in 1 .. size /\ j \in 1 .. size + 1 /\ k = j + 1
        BY <1>1, <3>2, <4>1
      <4>3. walk[j] = Found(j) /\ walk[k] = Found(j + 1)
        BY <2>1, <4>2
      <4>4. QED
        BY <1>3, <3>2, <4>1, <4>2, <4>3
    <3>3. QED
      BY <3>1, <3>2
  <2>3. walk = [k \in 1 .. Size(c) + 1 |-> walk[k]]
    BY <2>1
  <2>4. IsWalk(walk, c, name)
    BY <2>2, <2>3, Zenon DEF IsWalk
  <2>5. QED
    BY <2>4
<1>5. ASSUME NEW walk, IsWalk(walk, c, name)
      PROVE  \A k \in 1 .. size + 1 : walk[k] = Found(k)
  <2> DEFINE T == {m \in Nat : m + 1 \in 1 .. size + 1 => walk[m + 1] = Found(m + 1)}
  <2>1. /\ walk[1] = c.lists[name].head
        /\ \A k \in 1 .. size :
              walk[k + 1] = IF walk[k] = 0 THEN 0 ELSE c.elements[walk[k]].next
    <3>1. 1 \in 1 .. Size(c) + 1
      BY <1>1
    <3>2. walk[1] = c.lists[name].head
      BY <1>5, <3>1 DEF IsWalk
    <3>3. ASSUME NEW k \in 1 .. size
          PROVE  walk[k + 1] = IF walk[k] = 0 THEN 0 ELSE c.elements[walk[k]].next
      <4>1. k + 1 \in 1 .. Size(c) + 1 /\ k + 1 # 1 /\ (k + 1) - 1 = k
        BY <1>1
      <4>2. walk[k + 1] = IF walk[(k + 1) - 1] = 0 THEN 0
                          ELSE c.elements[walk[(k + 1) - 1]].next
        BY <1>5, <4>1 DEF IsWalk
      <4>3. QED
        BY <4>1, <4>2
    <3>4. QED
      BY <3>2, <3>3
  <2>2. 0 \in T
    BY <1>2, <2>1
  <2>3. ASSUME NEW m \in T PROVE m + 1 \in T
    <3>1. SUFFICES ASSUME (m + 1) + 1 \in 1 .. size + 1
                   PROVE  walk[(m + 1) + 1] = Found((m + 1) + 1)
      OBVIOUS
    <3>2. m + 1 \in 1 .. size /\ m + 1 \in 1 .. size + 1
      BY <1>1, <3>1
    <3>3. walk[m + 1] = Found(m + 1)
      BY <3>2
    <3>4. QED
      BY <1>3, <2>1, <3>2, <3>3
  <2>4. T = Nat
    <3>1. T \in SUBSET Nat /\ \A m \in T : m + 1 \in T
      BY <2>3
    <3> HIDE DEF T
    <3>2. QED
      BY <2>2, <3>1, NumbersByInduction
  <2>5. ASSUME NEW k \in 1 .. size + 1 PROVE walk[k] = Found(k)
    <3>1. k - 1 \in Nat /\ (k - 1) + 1 = k
      BY <1>1
    <3>2. k - 1 \in T
      BY <2>4, <3>1
    <3>3. QED
      BY <3>1, <3>2
  <2>6. QED
    BY <2>5
<1>6. QED
  BY <1>4, <1>5 DEF Found

\* check() of one list, with its walk by name.
WalkOf(c, name) == CHOOSE walk : IsWalk(walk, c, name)
Walked(c, name) == {WalkOf(c, name)[k] : k \in DOMAIN WalkOf(c, name)} \ {0}

\* A list is sound if the walk says so.
LEMMA ListFromWalk ==
  ASSUME NEW c, NEW name,
         WalkOf(c, name)[Size(c) + 1] = 0,
         Cardinality(Walked(c, name)) = c.lists[name].count,
         c.lists[name].head = 0 <=> c.lists[name].tail = 0,
         \A i \in Walked(c, name) :
            /\ IF c.elements[i].previous = 0 THEN i = c.lists[name].head
               ELSE c.elements[c.elements[i].previous].next = i
            /\ IF c.elements[i].next = 0 THEN i = c.lists[name].tail
               ELSE c.elements[c.elements[i].next].previous = i,
         Walked(c, name) = {i \in DOMAIN c.elements : c.elements[i].list = name}
  PROVE  ListIsSound(c, name)
BY Zenon DEF ListIsSound, IsWalk, WalkOf, Walked

\* The neighbours of an element of a chain point back to it.
LEMMA NeighboursInChain ==
  ASSUME NEW c, NEW name, NEW q, NEW len, NEW size, ChainOfList(c, name, q, len, size),
         NEW k \in 1 .. len, NEW i, i = q[k]
  PROVE  /\ IF c.elements[i].previous = 0 THEN i = c.lists[name].head
            ELSE c.elements[c.elements[i].previous].next = i
         /\ IF c.elements[i].next = 0 THEN i = c.lists[name].tail
            ELSE c.elements[c.elements[i].next].previous = i
<1>1. /\ len \in Nat /\ \A j \in 1 .. len : q[j] \in 1 .. size
      /\ c.lists[name].head = IF len = 0 THEN 0 ELSE q[1]
      /\ c.lists[name].tail = IF len = 0 THEN 0 ELSE q[len]
      /\ \A j \in 1 .. len :
            /\ c.elements[q[j]].previous = IF j = 1 THEN 0 ELSE q[j - 1]
            /\ c.elements[q[j]].next = IF j = len THEN 0 ELSE q[j + 1]
      /\ size \in Nat
  BY DEF ChainOfList
<1>2. /\ c.elements[i].previous = IF k = 1 THEN 0 ELSE q[k - 1]
      /\ c.elements[i].next = IF k = len THEN 0 ELSE q[k + 1]
  BY <1>1
<1>3. CASE k = 1 /\ k = len
  BY <1>1, <1>2, <1>3
<1>4. ASSUME k # 1 PROVE q[k - 1] # 0 /\ c.elements[q[k - 1]].next = i
  <2>1. PICK j : j = k - 1
    OBVIOUS
  <2>2. j \in 1 .. len /\ j # len /\ j + 1 = k
    BY <1>1, <1>4, <2>1
  <2>3. q[j] # 0 /\ c.elements[q[j]].next = q[j + 1]
    BY <1>1, <2>2
  <2>4. QED
    BY <2>1, <2>2, <2>3
<1>5. ASSUME k # len PROVE q[k + 1] # 0 /\ c.elements[q[k + 1]].previous = i
  <2>1. PICK j : j = k + 1
    OBVIOUS
  <2>2. j \in 1 .. len /\ j # 1 /\ j - 1 = k
    BY <1>1, <1>5, <2>1
  <2>3. q[j] # 0 /\ c.elements[q[j]].previous = q[j - 1]
    BY <1>1, <2>2
  <2>4. QED
    BY <2>1, <2>2, <2>3
<1>6. len # 0
  BY <1>1
<1>7. QED
  BY <1>1, <1>2, <1>4, <1>5, <1>6

\* A chain without repetition is not longer than the container.
LEMMA ChainIsShort ==
  ASSUME NEW c, NEW name, NEW q, NEW len, NEW size, ChainOfList(c, name, q, len, size)
  PROVE  len <= size /\ Cardinality(Range(q)) = len
<1>1. /\ len \in Nat /\ size \in Nat /\ DOMAIN q = 1 .. len
      /\ \A j \in 1 .. len : q[j] \in 1 .. size
      /\ \A j, m \in 1 .. len : q[j] = q[m] => j = m
      /\ q \in Seq(1 .. size)
  BY DEF ChainOfList
<1>2. q = [j \in 1 .. len |-> q[j]]
  BY <1>1, SeqDef
<1>3. q \in Bijection(1 .. len, Range(q))
  BY <1>1, <1>2 DEF Bijection, Injection, Surjection, IsInjective, Range
<1>4. ExistsBijection(1 .. len, Range(q))
  BY <1>3 DEF ExistsBijection
<1>5. IsFiniteSet(1 .. len) /\ Cardinality(1 .. len) = len
      /\ IsFiniteSet(1 .. size) /\ Cardinality(1 .. size) = size
  BY <1>1, FS_Interval
<1>6. IsFiniteSet(Range(q)) /\ Cardinality(Range(q)) = len
  BY <1>4, <1>5, FS_Bijection
<1>7. Range(q) \subseteq 1 .. size
  BY <1>1 DEF Range
<1>8. QED
  BY <1>5, <1>6, <1>7, FS_Subset

\* Every list of a sound container passes the check.
LEMMA ListsAreSound ==
  ASSUME NEW c, NEW s, Linked(c, s, {}), NEW name \in Lists
  PROVE  ListIsSound(c, name)
<1>1. PICK q, len, size : q = s[name] /\ len = Len(q) /\ size = Size(c)
  OBVIOUS
<1>2. ChainOfList(c, name, q, len, size)
  BY <1>1, LinkedFacts
<1>3. /\ len \in Nat /\ size \in Nat /\ DOMAIN q = 1 .. len /\ DOMAIN c.elements = 1 .. size
      /\ \A j \in 1 .. len : q[j] \in 1 .. size
      /\ c.lists[name].head = IF len = 0 THEN 0 ELSE q[1]
      /\ c.lists[name].tail = IF len = 0 THEN 0 ELSE q[len]
      /\ c.lists[name].count = len
      /\ \A j \in 1 .. len : c.elements[q[j]].list = name
  BY <1>2 DEF ChainOfList
<1>4. len <= size /\ Cardinality(Range(q)) = len
  BY <1>2, ChainIsShort
<1>5. PICK walk : walk = WalkOf(c, name)
  OBVIOUS
<1>6. /\ IsWalk(walk, c, name)
      /\ \A k \in 1 .. size + 1 : walk[k] = IF k <= len THEN q[k] ELSE 0
  <2>1. \E w : IsWalk(w, c, name)
    BY <1>1, WalkAlongChain
  <2>2. IsWalk(walk, c, name)
    BY <1>5, <2>1, Zenon DEF WalkOf
  <2>3. QED
    BY <1>1, <2>2, WalkAlongChain
<1>7. DOMAIN walk = 1 .. size + 1
  <2>1. walk = [k \in 1 .. size + 1 |->
                  IF k = 1 THEN c.lists[name].head
                  ELSE IF walk[k - 1] = 0 THEN 0 ELSE c.elements[walk[k - 1]].next]
    BY <1>1, <1>6 DEF IsWalk
  <2>2. PICK f : f = walk
    OBVIOUS
  <2>3. f = [k \in 1 .. size + 1 |->
                  IF k = 1 THEN c.lists[name].head
                  ELSE IF walk[k - 1] = 0 THEN 0 ELSE c.elements[walk[k - 1]].next]
    BY <2>1, <2>2
  <2>4. QED
    BY <2>2, <2>3
<1>8. PICK walked : walked = Walked(c, name) /\ walked = {walk[k] : k \in DOMAIN walk} \ {0}
  BY <1>5 DEF Walked
<1>9. walked = Range(q)
  <2>1. \A k \in 1 .. len : k \in 1 .. size + 1 /\ walk[k] = q[k] /\ q[k] # 0
    BY <1>3, <1>4, <1>6
  <2>2. \A k \in 1 .. size + 1 : walk[k] # 0 => k \in 1 .. len /\ walk[k] = q[k]
    BY <1>3, <1>6
  <2>3. walked \subseteq Range(q)
    <3>1. ASSUME NEW i \in walked PROVE i \in Range(q)
      <4>1. PICK k \in 1 .. size + 1 : i = walk[k] /\ i # 0
        BY <1>7, <1>8
      <4>2. k \in DOMAIN q /\ i = q[k]
        BY <1>3, <2>2, <4>1
      <4>3. QED
        BY <4>2 DEF Range
    <3>2. QED
      BY <3>1
  <2>4. Range(q) \subseteq walked
    <3>1. ASSUME NEW k \in DOMAIN q PROVE q[k] \in walked
      <4>1. k \in DOMAIN walk /\ walk[k] = q[k] /\ q[k] # 0
        BY <1>3, <1>7, <2>1
      <4>2. QED
        BY <1>8, <4>1
    <3>2. QED
      BY <3>1 DEF Range
  <2>5. QED
    BY <2>3, <2>4
<1>10. walk[Size(c) + 1] = 0
  BY <1>1, <1>3, <1>4, <1>6
<1>11. c.lists[name].head = 0 <=> c.lists[name].tail = 0
  <2>1. CASE len = 0
    BY <1>3, <2>1
  <2>2. CASE len # 0
    <3>1. 1 \in 1 .. len /\ len \in 1 .. len
      BY <1>3, <2>2
    <3>2. q[1] # 0 /\ q[len] # 0
      BY <1>3, <3>1
    <3>3. QED
      BY <1>3, <2>2, <3>2
  <2>3. QED
    BY <2>1, <2>2
<1>12. ASSUME NEW i \in walked
       PROVE  /\ IF c.elements[i].previous = 0 THEN i = c.lists[name].head
                 ELSE c.elements[c.elements[i].previous].next = i
              /\ IF c.elements[i].next = 0 THEN i = c.lists[name].tail
                 ELSE c.elements[c.elements[i].next].previous = i
  <2>1. PICK k \in 1 .. len : i = q[k]
    BY <1>3, <1>9 DEF Range
  <2>2. QED
    BY <1>2, <2>1, NeighboursInChain
<1>13. walked = {i \in DOMAIN c.elements : c.elements[i].list = name}
  <2>1. \A i \in walked : i \in DOMAIN c.elements /\ c.elements[i].list = name
    BY <1>3, <1>9 DEF Range
  <2>2. ASSUME NEW i \in DOMAIN c.elements, c.elements[i].list = name PROVE i \in walked
    <3>1. i \in 1 .. Size(c)
      BY <1>1, <1>3
    <3>2. i \in Range(s[c.elements[i].list])
      BY <3>1 DEF Linked
    <3>3. QED
      BY <1>1, <1>9, <2>2, <3>2
  <2>3. QED
    BY <2>1, <2>2
<1>14. Cardinality(walked) = c.lists[name].count
  BY <1>3, <1>4, <1>9
<1>15. /\ WalkOf(c, name)[Size(c) + 1] = 0
       /\ Cardinality(Walked(c, name)) = c.lists[name].count
       /\ Walked(c, name) = {i \in DOMAIN c.elements : c.elements[i].list = name}
  BY <1>5, <1>8, <1>10, <1>13, <1>14
<1>16. ASSUME NEW i \in Walked(c, name)
       PROVE  /\ IF c.elements[i].previous = 0 THEN i = c.lists[name].head
                 ELSE c.elements[c.elements[i].previous].next = i
              /\ IF c.elements[i].next = 0 THEN i = c.lists[name].tail
                 ELSE c.elements[c.elements[i].next].previous = i
  BY <1>8, <1>12
<1>17. QED
  BY <1>11, <1>15, <1>16, ListFromWalk

\* A sound container passes the whole check.
LEMMA SoundIsChecked ==
  ASSUME NEW c, Sound(c)
  PROVE  ContainerSound(c)
<1>1. PICK s : Linked(c, s, {})
  BY DEF Sound
<1>2. DOMAIN c.elements = 1 .. Size(c)
  <2>1. c.elements \in Seq(Element)
    BY <1>1 DEF Linked, Container
  <2>2. QED
    BY <2>1, LenProperties DEF Size
<1>3. \A name \in Lists : ListIsSound(c, name)
  BY <1>1, ListsAreSound
<1>4. /\ \A p \in PagedLODs : c.index[p] # 0 => c.elements[c.index[p]].plod = p
      /\ \A i \in DOMAIN c.elements :
            IF c.elements[i].list = "available" THEN c.elements[i].plod = NoPagedLOD
            ELSE c.elements[i].plod \in PagedLODs /\ c.index[c.elements[i].plod] = i
  BY <1>2 DEF Sound, Owned
<1>5. QED
  BY <1>3, <1>4, Zenon DEF ContainerSound

--------------------------------------------------------------------------------
(* The container in the steps of the pager.                                *)

ContainerTypes ==
    /\ newHighresRequired \in Seq(PagedLODs) /\ snapshot \in [Recorders -> Seq(PagedLODs)]
    /\ child \in [PagedLODs -> BOOLEAN] /\ pending \in [PagedLODs -> BOOLEAN]
    /\ age \in [PagedLODs -> Nat] /\ keep \in Nat
    /\ toRecord \in [Recorders -> SUBSET PagedLODs]

\* The record traversals are over when main does anything else.
RecordersIdle ==
    mainPc # "record" => \A c \in Recorders : toRecord[c] = {} /\ recPc[c] = "visit"

\* Nothing is in flight for a PagedLOD that has its child, nor will be.
LoadedIsSettled ==
    \A p \in PagedLODs :
        child[p] => /\ status[p] = "NoRequest"
                    /\ \A c \in Recorders : recPc[c] \in {"request", "queue"} => recNode[c] # p

\* What is kept inactive leaves the total at the target, if that is possible.
KeepIsBelow ==
    mainPc = "expire" =>
        keep = 0 \/ keep + container.lists["active"].count + Len(nodes) <= TargetMax

\* The expiry loop stands on an element of the inactive list, and what it has passed
\* there has no child.
LoopIsInList ==
    mainPc = "expire" =>
        \E s : \E k \in 1 .. Len(s["inactive"]) + 1 :
            /\ Linked(container, s, {})
            /\ visit = IF k <= Len(s["inactive"]) THEN s["inactive"][k] ELSE 0
            /\ \A j \in 1 .. k - 1 : ~child[container.elements[s["inactive"][j]].plod]

ContainerInv ==
    /\ HandInv /\ ContainerTypes /\ RecordersIdle /\ LoadedIsSettled
    /\ Sound(container) /\ KeepIsBelow /\ LoopIsInList

--------------------------------------------------------------------------------
(* Who does what to the container.                                         *)

\* The recorders leave main and the lists alone, and work while a frame is recorded.
LEMMA RecordersAlone ==
  ASSUME HandInv, RecordersIdle, NEW c \in Recorders, RecorderStep(c)
  PROVE  /\ mainPc = "record" /\ UNCHANGED <<mainPc, nodes, visit, keep>>
         /\ UNCHANGED <<container, child, pending, readPc, readNode, mergeQueue>>
<1>1. (\E p \in PagedLODs : Skip(c, p) \/ Use(c, p)) \/ Push(c) \/ Ask(c)
          \/ Request(c) \/ Queue(c)
  BY DEF RecorderStep
<1>2. ASSUME NEW p \in PagedLODs, Skip(c, p) \/ Use(c, p)
      PROVE  /\ p \in toRecord[c] /\ UNCHANGED <<mainPc, nodes, visit, keep>>
             /\ UNCHANGED <<container, child, pending, readPc, readNode, mergeQueue>>
  BY <1>2 DEF Skip, Use, mainVars, readVars, lodVars, queueVars, trackVars
<1>3. ASSUME Push(c) \/ Ask(c) \/ Request(c) \/ Queue(c)
      PROVE  /\ recPc[c] # "visit" /\ UNCHANGED <<mainPc, nodes, visit, keep>>
             /\ UNCHANGED <<container, child, pending, readPc, readNode, mergeQueue>>
  BY <1>3 DEF Push, Ask, Request, Queue, mainVars, readVars, lodVars, queueVars, trackVars
<1>4. QED
  BY <1>1, <1>2, <1>3 DEF RecordersIdle

\* The read threads leave them alone at any time.
LEMMA ReadersAlone ==
  ASSUME NEW r \in Readers, ReaderStep(r)
  PROVE  /\ UNCHANGED <<mainPc, nodes, visit, keep, toRecord, recPc, recNode, snapshot>>
         /\ UNCHANGED <<container, newHighresRequired, firstUse, child, age>>
<1>1. CASE Take(r) \/ Check(r) \/ Read(r) \/ Compile(r)
  BY <1>1 DEF Take, Check, Read, Compile, mainVars, recVars, lodVars, trackVars
<1>2. CASE DiscardCount(r) \/ DiscardStatus(r) \/ DiscardPending(r)
  BY <1>2 DEF DiscardCount, DiscardStatus, DiscardPending, mainVars, recVars, trackVars
<1>3. QED
  BY <1>1, <1>2 DEF ReaderStep

\* Main changes the lists in two steps only.
LEMMA MainMostlyAlone ==
  ASSUME BeginUpdate \/ EndExpire \/ Merge \/ BeginRecord \/ EndRecord \/ UNCHANGED vars
  PROVE  /\ UNCHANGED <<container, newHighresRequired, firstUse, recPc, recNode, snapshot>>
         /\ UNCHANGED pending
         /\ mainPc' = "expire" => UNCHANGED <<mainPc, nodes, visit, keep, child>>
         /\ UNCHANGED age \/ BeginUpdate
         /\ UNCHANGED child \/ Merge
         /\ UNCHANGED toRecord \/ BeginRecord
<1>1. CASE BeginUpdate
  BY <1>1 DEF BeginUpdate, recVars, trackVars
<1>2. CASE EndExpire
  BY <1>2 DEF EndExpire, recVars, lodVars, trackVars
<1>3. CASE Merge
  BY <1>3 DEF Merge, recVars, trackVars
<1>4. CASE BeginRecord
  BY <1>4 DEF BeginRecord, lodVars, trackVars
<1>5. CASE EndRecord
  BY <1>5 DEF EndRecord, recVars, lodVars, trackVars
<1>6. CASE UNCHANGED vars
  BY <1>6 DEF vars, mainVars, recVars, lodVars, trackVars
<1>7. QED
  BY <1>1, <1>2, <1>3, <1>4, <1>5, <1>6

\* The numbers of a sound container.
LEMMA CountsOfLists ==
  ASSUME NEW c, Sound(c), NEW name \in Lists
  PROVE  c.lists[name].count \in Nat /\ Size(c) \in Nat
<1>1. c \in Container
  BY DEF Sound, Linked
<1>2. QED
  BY <1>1 DEF Sound, Container, ListRecord

--------------------------------------------------------------------------------
(* The sweep.                                                              *)

\* What is culled is stale, in any order.
LEMMA CulledAreStale ==
  ASSUME NEW culled \in SetToSeqs(Stale)
  PROVE  culled \in Seq(PagedLODs) /\ Range(culled) \subseteq Stale
<1>1. Stale \in SUBSET PagedLODs
  BY DEF Stale, InList
<1>2. IsFiniteSet(Stale)
  BY <1>1, ContainerAssumption, FS_Subset DEF ContainerAssumption
<1>3. PICK n : n = Cardinality(Stale) /\ n \in Nat
  BY <1>2, FS_CardinalityType
<1>4. culled \in [1 .. n -> Stale]
  BY <1>3 DEF SetToSeqs
<1>5. culled \in [1 .. n -> PagedLODs]
  BY <1>1, <1>4
<1>6. QED
  BY <1>3, <1>4, <1>5, SequenceOfLength DEF Range

\* Where the sweep leaves each PagedLOD.
LEMMA SweptLists ==
  ASSUME ContainerInv, SweepContainer
  PROVE  /\ Sound(container')
         /\ \E culled \in SUBSET Stale : \A p \in PagedLODs :
               ListOf(container', p) = IF p \in Range(newHighresRequired) THEN "active"
                                       ELSE IF p \in culled THEN "inactive"
                                       ELSE ListOf(container, p)
<1>1. PICK culled \in SetToSeqs(Stale) :
         container' = FoldLeft(Active, FoldLeft(Inactive, container, culled),
                               newHighresRequired)
  BY DEF SweepContainer
<1>2. culled \in Seq(PagedLODs) /\ Range(culled) \subseteq Stale
  BY CulledAreStale
<1>3. PICK c : c = FoldLeft(Inactive, container, culled)
  OBVIOUS
<1>4. AllMoved(container, Range(culled), "inactive", c)
  BY <1>2, <1>3, FoldsInLists DEF ContainerInv
<1>5. Sound(c) /\ newHighresRequired \in Seq(PagedLODs)
  BY <1>4 DEF AllMoved, ContainerInv, ContainerTypes
<1>6. AllMoved(c, Range(newHighresRequired), "active",
               FoldLeft(Active, c, newHighresRequired))
  BY <1>5, FoldsInLists
<1>7. AllMoved(c, Range(newHighresRequired), "active", container')
  BY <1>1, <1>3, <1>6
<1>8. ASSUME NEW p \in PagedLODs
      PROVE  ListOf(container', p) = IF p \in Range(newHighresRequired) THEN "active"
                                     ELSE IF p \in Range(culled) THEN "inactive"
                                     ELSE ListOf(container, p)
  BY <1>4, <1>7 DEF AllMoved
<1>9. QED
  BY <1>2, <1>7, <1>8 DEF AllMoved

\* How many may stay inactive.
LEMMA TargetIsKept ==
  ASSUME nodes \in Seq(PagedLODs), NEW a \in Nat, NEW i \in Nat, NEW k,
         k = TargetNumInactive(a, i)
  PROVE  k \in Nat /\ (k = 0 \/ k + a + Len(nodes) <= TargetMax)
<1>1. Len(nodes) \in Nat /\ TargetMax \in Nat
  BY LenProperties, PagerAssumption DEF PagerAssumption
<1>2. PICK n \in Nat, target \in Nat : n = Len(nodes) /\ target = TargetMax
  BY <1>1
<1>3. TargetNumInactive(a, i) =
          IF n + a + i > target
          THEN IF n + a + i - target < i THEN i - (n + a + i - target) ELSE 0
          ELSE i
  BY <1>1, <1>2, SMT DEF TargetNumInactive
<1>4. PICK t : t = TargetNumInactive(a, i)
  OBVIOUS
<1>5. n \in Nat /\ target \in Nat /\ t = k
  BY <1>1, <1>2, <1>4
<1>6. t = IF n + a + i > target
          THEN IF n + a + i - target < i THEN i - (n + a + i - target) ELSE 0
          ELSE i
  BY <1>3, <1>4
<1>7. t \in Nat /\ (t = 0 \/ t + a + n <= target)
  BY <1>5, <1>6
<1>8. QED
  BY <1>2, <1>5, <1>7

\* The sweep begins the expiry loop at the head of the inactive list.
LEMMA SweepContainerInv ==
  ASSUME ContainerInv, SweepContainer
  PROVE  Sound(container)' /\ KeepIsBelow' /\ LoopIsInList' /\ keep' \in Nat
<1>1. PICK d : d = container'
  OBVIOUS
<1>2. Sound(d)
  BY <1>1, SweptLists
<1>3. /\ visit' = d.lists["inactive"].head /\ nodes' = nodes /\ child' = child
      /\ keep' = TargetNumInactive(d.lists["active"].count, d.lists["inactive"].count)
  BY <1>1 DEF SweepContainer, lodVars
<1>4. "active" \in Lists /\ "inactive" \in Lists
  BY DEF Lists
<1>5. keep' \in Nat /\ (keep' = 0 \/ keep' + d.lists["active"].count + Len(nodes) <= TargetMax)
  <2>1. d.lists["active"].count \in Nat /\ d.lists["inactive"].count \in Nat
    BY <1>2, <1>4, CountsOfLists
  <2>2. nodes \in Seq(PagedLODs)
    BY DEF ContainerInv, HandInv, HandTypes
  <2>3. PICK a, i : a = d.lists["active"].count /\ i = d.lists["inactive"].count
    OBVIOUS
  <2>4. a \in Nat /\ i \in Nat /\ keep' = TargetNumInactive(a, i)
    BY <1>3, <2>1, <2>3
  <2>5. QED
    BY <2>2, <2>3, <2>4, TargetIsKept
<1>6. KeepIsBelow'
  BY <1>1, <1>3, <1>5 DEF KeepIsBelow
<1>7. LoopIsInList'
  <2>1. PICK s : Linked(d, s, {})
    BY <1>2 DEF Sound
  <2>2. PICK q : q = s["inactive"]
    OBVIOUS
  <2>3. IsChain(d, "inactive", q) /\ d \in Container
    BY <1>4, <2>1, <2>2 DEF Linked
  <2>4. Len(q) \in Nat /\ d.lists["inactive"].head = IF Len(q) = 0 THEN 0 ELSE q[1]
    BY <1>4, <2>3, ChainFacts DEF IsChain
  <2>5. /\ 1 \in 1 .. Len(q) + 1 /\ visit' = IF 1 <= Len(q) THEN q[1] ELSE 0
        /\ \A j \in 1 .. 1 - 1 : FALSE
    BY <1>3, <2>4
  <2>6. QED
    BY <1>1, <2>1, <2>2, <2>5 DEF LoopIsInList
<1>8. QED
  BY <1>1, <1>2, <1>5, <1>6, <1>7

--------------------------------------------------------------------------------
(* The expiry loop.                                                        *)

\* The loop is at k of the inactive list, and has passed what is before.
LoopIsAt(s, q, len, k) ==
    /\ Linked(container, s, {}) /\ q = s["inactive"] /\ len = Len(q)
    /\ k \in 1 .. len /\ visit = q[k] /\ len \in Nat /\ DOMAIN q = 1 .. len
    /\ q \in Seq(1 .. Size(container))
    /\ \A i, j \in 1 .. len : q[i] = q[j] => i = j
    /\ container.elements[visit].next = IF k = len THEN 0 ELSE q[k + 1]
    /\ \A j \in 1 .. k - 1 : ~child[container.elements[q[j]].plod]

\* While it has an element, it is in that list.
LEMMA LoopIsOnElement ==
  ASSUME ContainerInv, mainPc = "expire", visit # 0
  PROVE  \E s, q, len, k : LoopIsAt(s, q, len, k)
<1>1. PICK s, k : /\ k \in 1 .. Len(s["inactive"]) + 1
                  /\ Linked(container, s, {})
                  /\ visit = IF k <= Len(s["inactive"]) THEN s["inactive"][k] ELSE 0
                  /\ \A j \in 1 .. k - 1 : ~child[container.elements[s["inactive"][j]].plod]
  BY DEF ContainerInv, LoopIsInList
<1>2. "inactive" \in Lists
  BY DEF Lists
<1>3. PICK q, len, size : q = s["inactive"] /\ len = Len(q) /\ size = Size(container)
  OBVIOUS
<1>4. ChainOfList(container, "inactive", q, len, size)
  BY <1>1, <1>2, <1>3, LinkedFacts
<1>5. /\ len \in Nat /\ DOMAIN q = 1 .. len /\ q \in Seq(1 .. size)
      /\ \A i, j \in 1 .. len : q[i] = q[j] => i = j
      /\ \A j \in 1 .. len : container.elements[q[j]].next = IF j = len THEN 0 ELSE q[j + 1]
  BY <1>4 DEF ChainOfList
<1>6. k \in 1 .. len /\ visit = q[k]
  BY <1>1, <1>3, <1>5
<1>7. container.elements[visit].next = IF k = len THEN 0 ELSE q[k + 1]
  BY <1>5, <1>6
<1>8. /\ q \in Seq(1 .. Size(container))
      /\ \A j \in 1 .. k - 1 : ~child[container.elements[q[j]].plod]
  <2>1. q \in Seq(1 .. Size(container))
    BY <1>3, <1>5
  <2>2. \A j \in 1 .. k - 1 : ~child[container.elements[q[j]].plod]
    BY <1>1, <1>3, Zenon
  <2>3. QED
    BY <2>1, <2>2
<1>9. QED
  <2>1. LoopIsAt(s, q, len, k)
    BY <1>1, <1>3, <1>5, <1>6, <1>7, <1>8, Zenon DEF LoopIsAt
  <2>2. QED
    BY <2>1

\* Without the element at k, the loop stands on the one that was behind it.
GoesOn(q, len, k, r) ==
    /\ Len(r) = len - 1 /\ k \in 1 .. Len(r) + 1
    /\ (IF k = len THEN 0 ELSE q[k + 1]) = (IF k <= Len(r) THEN r[k] ELSE 0)
    /\ \A j \in 1 .. k - 1 : r[j] = q[j] /\ j \in 1 .. len /\ j # k

\* It is, whether or not the element was the last.
LEMMA LoopGoesOn ==
  ASSUME NEW S, NEW q \in Seq(S), NEW len, len = Len(q), len \in Nat, DOMAIN q = 1 .. len,
         NEW k \in 1 .. len, NEW r, r = RemoveAt(q, k)
  PROVE  GoesOn(q, len, k, r)
<1>1. k \in DOMAIN q
  OBVIOUS
<1>2. /\ r \in Seq(S) /\ Len(r) = len - 1
      /\ \A j \in 1 .. len - 1 : r[j] = IF j < k THEN q[j] ELSE q[j + 1]
  BY <1>1, ElementsRemain, Zenon
<1>3. k \in 1 .. (len - 1) + 1 /\ \A j \in 1 .. k - 1 : j \in 1 .. len - 1 /\ j < k /\ j \in 1 .. len
  OBVIOUS
<1>4. \A j \in 1 .. k - 1 : r[j] = q[j] /\ j \in 1 .. len /\ j # k
  BY <1>2, <1>3
<1>5. CASE k = len
  BY <1>2, <1>3, <1>4, <1>5 DEF GoesOn
<1>6. CASE k # len
  <2>1. k \in 1 .. len - 1 /\ ~(k < k) /\ k <= len - 1
    BY <1>6
  <2>2. r[k] = q[k + 1]
    BY <1>2, <2>1
  <2>3. QED
    BY <1>2, <1>3, <1>4, <1>6, <2>1, <2>2 DEF GoesOn
<1>7. QED
  BY <1>5, <1>6

\* A turn of the loop that leaves the PagedLOD alone.
LEMMA ExpireKeepsInv ==
  ASSUME ContainerInv, Expire, status[container.elements[visit].plod] # "NoRequest"
  PROVE  Sound(container)' /\ KeepIsBelow' /\ LoopIsInList'
<1>1. /\ mainPc = "expire" /\ visit # 0 /\ visit' = container.elements[visit].next
      /\ UNCHANGED <<mainPc, nodes, keep, container, child>>
  BY DEF Expire, StillExpiring
<1>2. Sound(container)' /\ KeepIsBelow'
  BY <1>1 DEF ContainerInv, KeepIsBelow
<1>3. PICK s, q, len, k :
         /\ Linked(container, s, {}) /\ q = s["inactive"] /\ len = Len(q)
         /\ k \in 1 .. len /\ visit = q[k] /\ len \in Nat
         /\ container.elements[visit].next = IF k = len THEN 0 ELSE q[k + 1]
         /\ \A j \in 1 .. k - 1 : ~child[container.elements[q[j]].plod]
  BY <1>1, LoopIsOnElement DEF LoopIsAt
<1>4. "inactive" \in Lists
  BY DEF Lists
<1>5. container.elements[visit].plod \in PagedLODs
  <2>1. k \in 1 .. Len(s["inactive"]) /\ visit = s["inactive"][k] /\ Sound(container)
    BY <1>3 DEF ContainerInv
  <2>2. QED
    BY <1>3, <2>1, RemovedInLists
<1>6. ~child[container.elements[visit].plod]
  BY <1>5 DEF ContainerInv, LoadedIsSettled
<1>8. /\ k + 1 \in 1 .. len + 1
      /\ visit' = IF k + 1 <= len THEN q[k + 1] ELSE 0
      /\ \A j \in 1 .. (k + 1) - 1 : j = k \/ j \in 1 .. k - 1
  BY <1>1, <1>3
<1>9. \A j \in 1 .. (k + 1) - 1 : ~child[container.elements[q[j]].plod]
  BY <1>3, <1>6, <1>8
<1>10. LoopIsInList'
  <2>1. PICK m : m = k + 1
    OBVIOUS
  <2>2. /\ m \in 1 .. Len(s["inactive"]) + 1
        /\ visit' = IF m <= Len(s["inactive"]) THEN s["inactive"][m] ELSE 0
        /\ \A j \in 1 .. m - 1 : ~child[container.elements[s["inactive"][j]].plod]
    BY <1>3, <1>8, <1>9, <2>1
  <2>3. QED
    BY <1>1, <1>3, <2>2 DEF LoopIsInList
<1>11. QED
  BY <1>2, <1>10

\* A turn of the loop that removes the PagedLOD.
LEMMA ExpireRemovesInv ==
  ASSUME ContainerInv, Expire, status[container.elements[visit].plod] = "NoRequest"
  PROVE  /\ Sound(container)' /\ KeepIsBelow' /\ LoopIsInList'
         /\ container.elements[visit].plod \in PagedLODs
         /\ ListOf(container, container.elements[visit].plod) = "inactive"
         /\ \A r \in PagedLODs : ListOf(container', r) =
               IF r = container.elements[visit].plod THEN "none" ELSE ListOf(container, r)
<1>1. PICK p, next, d : /\ p = container.elements[visit].plod
                        /\ next = container.elements[visit].next /\ d = container'
  OBVIOUS
<1>2. /\ mainPc = "expire" /\ visit # 0 /\ visit' = next
      /\ UNCHANGED <<mainPc, nodes, keep>>
      /\ child' = [child EXCEPT ![p] = FALSE]
      /\ d = Removed(container, p)
  BY <1>1 DEF Expire, StillExpiring
<1>3. PICK s, q, len, k :
         /\ Linked(container, s, {}) /\ q = s["inactive"] /\ len = Len(q)
         /\ k \in 1 .. len /\ visit = q[k] /\ len \in Nat /\ DOMAIN q = 1 .. len
         /\ q \in Seq(1 .. Size(container))
         /\ \A i, j \in 1 .. len : q[i] = q[j] => i = j
         /\ container.elements[visit].next = IF k = len THEN 0 ELSE q[k + 1]
         /\ \A j \in 1 .. k - 1 : ~child[container.elements[q[j]].plod]
  BY <1>2, LoopIsOnElement DEF LoopIsAt
<1>4. /\ p \in PagedLODs /\ ListOf(container, p) = "inactive"
      /\ HasRemoved(container, s, k, p, Removed(container, p))
      /\ \A j \in 1 .. len : container.elements[q[j]].plod \in PagedLODs
  <2>1. /\ p = container.elements[s["inactive"][k]].plod /\ Sound(container)
        /\ k \in 1 .. Len(s["inactive"])
    BY <1>1, <1>3 DEF ContainerInv
  <2>2. /\ p \in PagedLODs /\ ListOf(container, p) = "inactive"
        /\ HasRemoved(container, s, k, p, Removed(container, p))
    BY <1>3, <2>1, RemovedInLists
  <2>3. \A j \in 1 .. Len(s["inactive"]) :
           container.elements[s["inactive"][j]].plod \in PagedLODs
    BY <1>3, <2>1, RemovedInLists
  <2>4. QED
    BY <1>3, <2>2, <2>3, Zenon
<1>5. HasRemoved(container, s, k, p, d)
  BY <1>2, <1>4
<1>7. PICK t : /\ Linked(d, t, {}) /\ t["inactive"] = RemoveAt(q, k)
               /\ t["active"] = s["active"]
  BY <1>3, <1>5 DEF HasRemoved
<1>8. /\ Sound(d) /\ Size(d) = Size(container)
      /\ \A r \in PagedLODs : ListOf(d, r) = IF r = p THEN "none" ELSE ListOf(container, r)
      /\ \A n \in 1 .. Size(container) \ {visit} :
            d.elements[n].plod = container.elements[n].plod
  BY <1>3, <1>5 DEF HasRemoved
<1>9. "inactive" \in Lists /\ "active" \in Lists
  BY DEF Lists
<1>10. KeepIsBelow'
  <2>1. IsChain(d, "active", t["active"]) /\ IsChain(container, "active", s["active"])
    BY <1>3, <1>7, <1>9 DEF Linked
  <2>2. d.lists["active"].count = container.lists["active"].count
    BY <1>7, <2>1 DEF IsChain
  <2>3. KeepIsBelow
    BY DEF ContainerInv
  <2>4. QED
    BY <1>1, <1>2, <2>2, <2>3 DEF KeepIsBelow
<1>11. PICK r : r = RemoveAt(q, k)
  OBVIOUS
<1>12. /\ Len(r) = len - 1 /\ k \in 1 .. Len(r) + 1
       /\ (IF k = len THEN 0 ELSE q[k + 1]) = (IF k <= Len(r) THEN r[k] ELSE 0)
       /\ \A j \in 1 .. k - 1 : r[j] = q[j] /\ j \in 1 .. len /\ j # k
  <2>1. /\ q \in Seq(1 .. Size(container)) /\ len \in Nat /\ DOMAIN q = 1 .. len
        /\ k \in 1 .. len /\ len = Len(q) /\ r = RemoveAt(q, k)
    BY <1>3, <1>11
  <2>2. QED
    <3>1. GoesOn(q, len, k, r)
      BY <2>1, LoopGoesOn
    <3>2. QED
      BY <3>1, Zenon DEF GoesOn
<1>13. visit' = IF k <= Len(r) THEN r[k] ELSE 0
  BY <1>1, <1>2, <1>3, <1>12
<1>14. ASSUME NEW j \in 1 .. k - 1 PROVE ~child'[d.elements[r[j]].plod]
  <2>1. r[j] = q[j] /\ j \in 1 .. len /\ k \in 1 .. len /\ j # k
    <3>1. k \in 1 .. len /\ len \in Nat
      BY <1>3
    <3>2. \A i \in 1 .. k - 1 : r[i] = q[i] /\ i \in 1 .. len /\ i # k
      BY <1>12, Zenon
    <3>3. QED
      BY <3>1, <3>2
  <2>2. q[j] \in 1 .. Size(container) /\ q[j] # visit
    <3>1. /\ q \in Seq(1 .. Size(container)) /\ DOMAIN q = 1 .. len /\ visit = q[k]
          /\ \A i, m \in 1 .. len : q[i] = q[m] => i = m
      BY <1>3
    <3>2. \A i \in DOMAIN q : q[i] \in 1 .. Size(container)
      BY <3>1, ElementsOfQueue
    <3>3. QED
      BY <2>1, <3>1, <3>2
  <2>3. d.elements[r[j]].plod = container.elements[q[j]].plod
    BY <1>8, <2>1, <2>2
  <2>4. ~child[container.elements[q[j]].plod]
    BY <1>3
  <2>5. container.elements[q[j]].plod \in PagedLODs
    BY <1>4, <2>1
  <2>6. child \in [PagedLODs -> BOOLEAN]
    BY DEF ContainerInv, ContainerTypes
  <2>7. QED
    BY <1>2, <2>3, <2>4, <2>5, <2>6
<1>15. LoopIsInList'
  <2>1. /\ k \in 1 .. Len(t["inactive"]) + 1
        /\ visit' = IF k <= Len(t["inactive"]) THEN t["inactive"][k] ELSE 0
        /\ \A j \in 1 .. k - 1 : ~child'[d.elements[t["inactive"][j]].plod]
    BY <1>7, <1>11, <1>12, <1>13, <1>14
  <2>2. QED
    BY <1>1, <1>7, <2>1 DEF LoopIsInList
<1>16. QED
  BY <1>1, <1>4, <1>8, <1>10, <1>15

--------------------------------------------------------------------------------
(* The invariant of the container, part by part.                           *)

\* Types.
LEMMA ContainerTypesStep ==
  ASSUME ContainerInv, [Next]_vars
  PROVE  ContainerTypes'
<1>1. /\ newHighresRequired \in Seq(PagedLODs) /\ snapshot \in [Recorders -> Seq(PagedLODs)]
      /\ child \in [PagedLODs -> BOOLEAN] /\ pending \in [PagedLODs -> BOOLEAN]
      /\ age \in [PagedLODs -> Nat] /\ keep \in Nat
      /\ toRecord \in [Recorders -> SUBSET PagedLODs]
  BY DEF ContainerInv, ContainerTypes
<1>2. <<>> \in Seq(PagedLODs)
  BY EmptySeq
<1>3. ASSUME BeginUpdate \/ EndExpire \/ Merge \/ BeginRecord \/ EndRecord \/ UNCHANGED vars
      PROVE  ContainerTypes'
  <2>1. UNCHANGED <<newHighresRequired, snapshot, pending>>
    BY <1>3, MainMostlyAlone
  <2>2. age' \in [PagedLODs -> Nat]
    <3>1. CASE BeginUpdate
      <4>1. AgeLimit \in Nat
        BY PagerAssumption DEF PagerAssumption, AgeLimit
      <4>2. age' = [p \in PagedLODs |-> IF age[p] = AgeLimit THEN AgeLimit ELSE age[p] + 1]
        BY <3>1 DEF BeginUpdate
      <4>3. QED
        BY <1>1, <4>1, <4>2
    <3>2. QED
      BY <1>1, <1>3, <3>1, MainMostlyAlone
  <2>3. child' \in [PagedLODs -> BOOLEAN]
    <3>1. CASE Merge
      <4>1. child' = child \/ child' = [child EXCEPT ![Head(nodes)] = pending[Head(nodes)]]
        BY <3>1 DEF Merge
      <4>2. Head(nodes) \in PagedLODs
        <5>1. nodes \in Seq(PagedLODs) /\ nodes # <<>>
          BY <3>1 DEF Merge, ContainerInv, HandInv, HandTypes
        <5>2. QED
          BY <5>1, HeadTailProperties
      <4>3. QED
        BY <1>1, <4>1, <4>2
    <3>2. QED
      BY <1>1, <1>3, <3>1, MainMostlyAlone
  <2>4. keep' \in Nat
    BY <1>1, <1>3 DEF BeginUpdate, EndExpire, Merge, BeginRecord, EndRecord, vars, mainVars
  <2>5. toRecord' \in [Recorders -> SUBSET PagedLODs]
    <3>1. CASE BeginRecord
      BY <3>1 DEF BeginRecord
    <3>2. QED
      BY <1>1, <1>3, <3>1, MainMostlyAlone
  <2>6. QED
    BY <1>1, <2>1, <2>2, <2>3, <2>4, <2>5 DEF ContainerTypes
<1>4. CASE SweepContainer
  <2>1. /\ newHighresRequired' = <<>>
        /\ UNCHANGED <<snapshot, child, pending, age, toRecord>>
    BY <1>4 DEF SweepContainer, recVars, lodVars
  <2>2. QED
    BY <1>1, <1>2, <1>4, <2>1, SweepContainerInv DEF ContainerTypes
<1>5. CASE Expire
  <2>1. /\ UNCHANGED <<newHighresRequired, snapshot, age, toRecord, keep>>
        /\ child' \in [PagedLODs -> BOOLEAN] /\ pending' \in [PagedLODs -> BOOLEAN]
    BY <1>1, <1>5 DEF Expire, recVars
  <2>2. QED
    BY <1>1, <2>1 DEF ContainerTypes
<1>6. ASSUME NEW c \in Recorders, RecorderStep(c) PROVE ContainerTypes'
  <2>1. recNode \in [Recorders -> PagedLODs \cup {Nobody}]
        /\ (recPc[c] # "visit" => recNode[c] \in PagedLODs)
    BY DEF ContainerInv, HandInv, HandTypes
  <2>2. UNCHANGED <<keep, child, pending>>
    BY <1>6, RecordersAlone DEF ContainerInv
  <2>3. ASSUME NEW p \in PagedLODs, Skip(c, p) PROVE ContainerTypes'
    <3>1. /\ UNCHANGED <<newHighresRequired, snapshot, age>>
          /\ toRecord' = [toRecord EXCEPT ![c] = @ \ {p}]
      BY <2>3 DEF Skip, lodVars, trackVars
    <3>2. QED
      BY <1>1, <2>2, <3>1 DEF ContainerTypes
  <2>4. ASSUME NEW p \in PagedLODs, Use(c, p) PROVE ContainerTypes'
    <3>1. /\ UNCHANGED newHighresRequired
          /\ \E q \in {newHighresRequired, <<>>} : snapshot' = [snapshot EXCEPT ![c] = q]
          /\ age' = [age EXCEPT ![p] = 0]
          /\ toRecord' = [toRecord EXCEPT ![c] = @ \ {p}]
      BY <2>4 DEF Use
    <3>2. snapshot' \in [Recorders -> Seq(PagedLODs)]
      BY <1>1, <1>2, <3>1
    <3>3. QED
      BY <1>1, <2>2, <3>1, <3>2 DEF ContainerTypes
  <2>5. CASE Push(c)
    <3>1. /\ newHighresRequired' = Append(snapshot[c], recNode[c])
          /\ snapshot' = [snapshot EXCEPT ![c] = <<>>]
          /\ UNCHANGED <<age, toRecord>> /\ recPc[c] = "push"
      BY <2>5 DEF Push, lodVars
    <3>2. newHighresRequired' \in Seq(PagedLODs)
      BY <1>1, <2>1, <3>1, AppendProperties
    <3>3. snapshot' \in [Recorders -> Seq(PagedLODs)]
      BY <1>1, <1>2, <3>1
    <3>4. QED
      BY <1>1, <2>2, <3>1, <3>2, <3>3 DEF ContainerTypes
  <2>6. CASE Ask(c) \/ Request(c) \/ Queue(c)
    <3>1. UNCHANGED <<newHighresRequired, snapshot, age, toRecord>>
      BY <2>6 DEF Ask, Request, Queue, lodVars, trackVars
    <3>2. QED
      BY <1>1, <2>2, <3>1 DEF ContainerTypes
  <2>7. QED
    BY <1>6, <2>3, <2>4, <2>5, <2>6 DEF RecorderStep
<1>7. ASSUME NEW r \in Readers, ReaderStep(r) PROVE ContainerTypes'
  <2>1. UNCHANGED <<newHighresRequired, snapshot, age, toRecord, keep, child>>
    BY <1>7, ReadersAlone
  <2>2. pending' \in [PagedLODs -> BOOLEAN]
    BY <1>1, <1>7 DEF ReaderStep, Take, Check, Read, Compile, DiscardCount, DiscardStatus,
                      DiscardPending, lodVars
  <2>3. QED
    BY <1>1, <2>1, <2>2 DEF ContainerTypes
<1>8. QED
  BY <1>3, <1>4, <1>5, <1>6, <1>7 DEF Next, MainStep

\* Recorders work only while the frame is recorded.
LEMMA RecordersIdleStep ==
  ASSUME ContainerInv, [Next]_vars
  PROVE  RecordersIdle'
<1>1. RecordersIdle /\ HandInv
  BY DEF ContainerInv
<1>2. CASE EndRecord
  <2>1. \A c \in Recorders : toRecord[c] = {} /\ recPc[c] = "visit"
    BY <1>2 DEF EndRecord
  <2>2. UNCHANGED <<toRecord, recPc>>
    BY <1>2 DEF EndRecord, recVars
  <2>3. QED
    BY <2>1, <2>2 DEF RecordersIdle
<1>3. CASE BeginRecord
  BY <1>3 DEF BeginRecord, RecordersIdle
<1>4. CASE BeginUpdate \/ SweepContainer \/ Expire \/ EndExpire \/ Merge \/ UNCHANGED vars
  <2>1. UNCHANGED <<toRecord, recPc>> /\ (mainPc = "record" => mainPc' = "record")
    BY <1>4 DEF BeginUpdate, SweepContainer, Expire, EndExpire, Merge, vars, mainVars, recVars
  <2>2. QED
    BY <1>1, <2>1 DEF RecordersIdle
<1>5. ASSUME NEW c \in Recorders, RecorderStep(c) PROVE RecordersIdle'
  BY <1>1, <1>5, RecordersAlone DEF RecordersIdle
<1>6. ASSUME NEW r \in Readers, ReaderStep(r) PROVE RecordersIdle'
  BY <1>1, <1>6, ReadersAlone DEF RecordersIdle
<1>7. QED
  BY <1>2, <1>3, <1>4, <1>5, <1>6 DEF Next, MainStep

\* A read thread does not touch the status of a PagedLOD without a request.
LEMMA ReadersNeedRequests ==
  ASSUME HandInv, NEW r \in Readers, ReaderStep(r)
  PROVE  \A p \in PagedLODs : status'[p] # "NoRequest" => status[p] # "NoRequest"
<1>1. status \in [PagedLODs -> Statuses]
  BY DEF HandInv, HandTypes
<1>2. CASE Take(r) \/ DiscardCount(r) \/ DiscardPending(r)
  BY <1>2 DEF Take, DiscardCount, DiscardPending, lodVars
<1>3. CASE Check(r)
  <2>1. PICK p : p = readNode[r]
    OBVIOUS
  <2>2. status' = status \/ (status' = [status EXCEPT ![p] = "Reading"] /\ status[p] = "ReadRequest")
    BY <1>1, <1>3, <2>1 DEF Check
  <2>3. QED
    BY <1>1, <2>2
<1>4. CASE Read(r)
  <2>1. PICK p : p = readNode[r]
    OBVIOUS
  <2>2. status' = status \/ (status' = [status EXCEPT ![p] = "Compiling"] /\ status[p] = "Reading")
    BY <1>4, <2>1 DEF Read, lodVars
  <2>3. QED
    BY <1>1, <2>2
<1>5. CASE Compile(r)
  <2>1. PICK p : p = readNode[r]
    OBVIOUS
  <2>2. readPc[r] = "compile"
        /\ (status' = status \/ status' = [status EXCEPT ![p] = "MergeRequest"])
    BY <1>5, <2>1 DEF Compile, Goto, lodVars
  <2>3. status[p] # "NoRequest"
    BY <2>1, <2>2, HeldByReader DEF Holds
  <2>4. QED
    BY <1>1, <2>2, <2>3
<1>6. CASE DiscardStatus(r)
  BY <1>1, <1>6 DEF DiscardStatus
<1>7. QED
  BY <1>2, <1>3, <1>4, <1>5, <1>6 DEF ReaderStep

\* A PagedLOD gets its child when its request is over, and no request while it has one.
LEMMA LoadedIsSettledStep ==
  ASSUME ContainerInv, [Next]_vars
  PROVE  LoadedIsSettled'
<1>1. /\ status \in [PagedLODs -> Statuses] /\ child \in [PagedLODs -> BOOLEAN]
      /\ recPc \in [Recorders -> {"visit", "push", "ask", "request", "queue"}]
      /\ recNode \in [Recorders -> PagedLODs \cup {Nobody}]
      /\ \A c \in Recorders : recPc[c] # "visit" => recNode[c] \in PagedLODs
      /\ LoadedIsSettled /\ RecordersIdle /\ HandInv
  BY DEF ContainerInv, ContainerTypes, HandInv, HandTypes
<1>2. CASE \/ BeginUpdate \/ SweepContainer \/ EndExpire \/ BeginRecord \/ EndRecord
           \/ UNCHANGED vars
  <2>1. UNCHANGED <<status, child, recPc, recNode>>
    BY <1>2 DEF BeginUpdate, SweepContainer, EndExpire, BeginRecord, EndRecord, vars, recVars,
                lodVars
  <2>2. QED
    BY <1>1, <2>1 DEF LoadedIsSettled
<1>3. CASE Expire
  <2>1. /\ UNCHANGED <<status, recPc, recNode>>
        /\ \A p \in PagedLODs : child'[p] => child[p]
    BY <1>1, <1>3 DEF Expire, recVars
  <2>2. QED
    BY <1>1, <2>1 DEF LoadedIsSettled
<1>4. CASE Merge
  <2>1. PICK p : p = Head(nodes)
    OBVIOUS
  <2>2. /\ UNCHANGED <<recPc, recNode>> /\ mainPc = "merge"
        /\ \/ UNCHANGED <<child, status>>
           \/ /\ child' = [child EXCEPT ![p] = pending[p]]
              /\ status' = [status EXCEPT ![p] = "NoRequest"]
    BY <1>4, <2>1 DEF Merge, recVars
  <2>3. \A c \in Recorders : recPc[c] = "visit"
    BY <1>1, <2>2 DEF RecordersIdle
  <2>4. QED
    BY <1>1, <2>2, <2>3 DEF LoadedIsSettled
<1>5. ASSUME NEW c \in Recorders, RecorderStep(c) PROVE LoadedIsSettled'
  <2>1. UNCHANGED child
    BY <1>1, <1>5, RecordersAlone
  <2>2. CASE (\E p \in PagedLODs : Skip(c, p) \/ Use(c, p)) \/ Push(c)
    <3>1. /\ UNCHANGED status
          /\ \A d \in Recorders : recPc'[d] \in {"request", "queue"} =>
                recPc'[d] = recPc[d] /\ recNode'[d] = recNode[d]
      BY <1>1, <2>2 DEF Skip, Use, Push, lodVars
    <3>2. QED
      BY <1>1, <2>1, <3>1 DEF LoadedIsSettled
  <2>3. CASE Ask(c)
    <3>1. /\ UNCHANGED status
          /\ \A d \in Recorders \ {c} : recPc'[d] = recPc[d] /\ recNode'[d] = recNode[d]
      BY <1>1, <2>3 DEF Ask, Done
    <3>2. recPc'[c] \in {"request", "queue"} => ~child[recNode[c]] /\ recNode'[c] = recNode[c]
      BY <1>1, <2>3 DEF Ask, Done
    <3>3. QED
      BY <1>1, <2>1, <3>1, <3>2 DEF LoadedIsSettled
  <2>4. CASE Request(c)
    <3>1. /\ UNCHANGED status /\ recPc[c] = "request"
          /\ \A d \in Recorders \ {c} : recPc'[d] = recPc[d] /\ recNode'[d] = recNode[d]
      BY <1>1, <2>4 DEF Request, Done, lodVars
    <3>2. recPc'[c] \in {"request", "queue"} => recNode'[c] = recNode[c]
      BY <1>1, <2>4 DEF Request, Done
    <3>3. QED
      BY <1>1, <2>1, <3>1, <3>2 DEF LoadedIsSettled
  <2>5. CASE Queue(c)
    <3>1. PICK p : p = recNode[c]
      OBVIOUS
    <3>2. /\ recPc[c] = "queue" /\ recPc'[c] = "visit"
          /\ \A d \in Recorders \ {c} : recPc'[d] = recPc[d] /\ recNode'[d] = recNode[d]
          /\ \A r \in PagedLODs : r # p => status'[r] = status[r]
      BY <1>1, <2>5, <3>1 DEF Queue, Done
    <3>3. p \in PagedLODs /\ ~child[p]
      BY <1>1, <3>1, <3>2 DEF LoadedIsSettled
    <3>4. QED
      BY <1>1, <2>1, <3>2, <3>3 DEF LoadedIsSettled
  <2>6. QED
    BY <1>5, <2>2, <2>3, <2>4, <2>5 DEF RecorderStep
<1>6. ASSUME NEW r \in Readers, ReaderStep(r) PROVE LoadedIsSettled'
  <2>1. UNCHANGED <<child, recPc, recNode>>
    BY <1>6, ReadersAlone
  <2>2. \A p \in PagedLODs : status'[p] # "NoRequest" => status[p] # "NoRequest"
    BY <1>1, <1>6, ReadersNeedRequests
  <2>3. QED
    BY <1>1, <2>1, <2>2 DEF LoadedIsSettled
<1>7. QED
  BY <1>2, <1>3, <1>4, <1>5, <1>6 DEF Next, MainStep

\* The invariant holds at first.
LEMMA ContainerInvInit == Init => ContainerInv
<1>1. SUFFICES ASSUME Init PROVE ContainerInv
  OBVIOUS
<1>2. <<>> \in Seq(PagedLODs)
  BY EmptySeq
<1>3. ContainerTypes
  BY <1>1, <1>2 DEF Init, ContainerTypes
<1>4. RecordersIdle /\ LoadedIsSettled /\ KeepIsBelow /\ LoopIsInList
  BY <1>1 DEF Init, RecordersIdle, LoadedIsSettled, KeepIsBelow, LoopIsInList
<1>5. Sound(container)
  BY <1>1, EmptyIsSound DEF Init
<1>6. QED
  BY <1>1, <1>3, <1>4, <1>5, HandInit DEF ContainerInv

\* Every step keeps it.
LEMMA ContainerInvStep ==
  ASSUME ContainerInv, [Next]_vars
  PROVE  ContainerInv'
<1>1. HandInv' /\ ContainerTypes' /\ RecordersIdle' /\ LoadedIsSettled'
  BY HandStep, ContainerTypesStep, RecordersIdleStep, LoadedIsSettledStep DEF ContainerInv
<1>2. CASE SweepContainer
  BY <1>1, <1>2, SweepContainerInv DEF ContainerInv
<1>3. CASE Expire
  BY <1>1, <1>3, ExpireKeepsInv, ExpireRemovesInv DEF ContainerInv
<1>4. ASSUME UNCHANGED container,
             mainPc' = "expire" => UNCHANGED <<mainPc, nodes, visit, keep, child>>
      PROVE  ContainerInv'
  <2>1. Sound(container)'
    BY <1>4 DEF ContainerInv
  <2>2. KeepIsBelow'
    BY <1>4 DEF ContainerInv, KeepIsBelow
  <2>3. LoopIsInList'
    <3>1. SUFFICES ASSUME mainPc' = "expire" PROVE LoopIsInList'
      BY DEF LoopIsInList
    <3>2. UNCHANGED <<mainPc, visit, child, container>>
      BY <1>4, <3>1
    <3>3. LoopIsInList
      BY DEF ContainerInv
    <3>4. QED
      BY <3>2, <3>3 DEF LoopIsInList
  <2>4. QED
    BY <1>1, <2>1, <2>2, <2>3 DEF ContainerInv
<1>5. CASE BeginUpdate \/ EndExpire \/ Merge \/ BeginRecord \/ EndRecord \/ UNCHANGED vars
  BY <1>4, <1>5, MainMostlyAlone
<1>6. ASSUME NEW c \in Recorders, RecorderStep(c) PROVE ContainerInv'
  BY <1>4, <1>6, RecordersAlone DEF ContainerInv
<1>7. ASSUME NEW r \in Readers, ReaderStep(r) PROVE ContainerInv'
  BY <1>4, <1>7, ReadersAlone
<1>8. QED
  BY <1>2, <1>3, <1>5, <1>6, <1>7 DEF Next, MainStep

\* The inductive invariant of the container holds in every reachable state.
THEOREM ContainerIsInvariant == Spec => []ContainerInv
<1>1. ContainerInv /\ [Next]_vars => ContainerInv'
  BY ContainerInvStep
<1>2. QED
  BY <1>1, ContainerInvInit, PTL DEF Spec

\* The lists of the container pass the check of the code in every state, for any number
\* of PagedLODs and however often the container has grown (PagedLOD.cpp:383-468).
THEOREM ListsStaySound == Spec => []ContainerIsSound
<1>1. ContainerInv => ContainerIsSound
  BY SoundIsChecked DEF ContainerInv, ContainerIsSound
<1>2. QED
  BY <1>1, ContainerIsInvariant, PTL

--------------------------------------------------------------------------------
(* What the container means for the children.                              *)

\* An inactive PagedLOD has an element in the inactive list.
LEMMA InactiveHasElement ==
  ASSUME NEW c, NEW s, Sound(c), Linked(c, s, {}), NEW p \in PagedLODs,
         ListOf(c, p) = "inactive"
  PROVE  \E j \in 1 .. Len(s["inactive"]) : c.elements[s["inactive"][j]].plod = p
<1>1. PICK i : i = c.index[p]
  OBVIOUS
<1>2. i # 0 /\ c.elements[i].list = "inactive"
  BY <1>1 DEF ListOf
<1>3. i \in 1 .. Size(c) /\ c.elements[i].plod = p
  BY <1>1, <1>2 DEF Sound, Owned
<1>4. \E k \in 1 .. Len(s[c.elements[i].list]) : s[c.elements[i].list][k] = i
  BY <1>3, PositionInChain
<1>5. QED
  BY <1>2, <1>3, <1>4

\* The expiry loop ends with no child left that could go, or with the total at the target.
LEMMA ExpiryEndsAtTarget ==
  ASSUME ContainerInv, EndExpire,
         container.lists["active"].count + container.lists["inactive"].count
             + Len(nodes) > TargetMax,
         NEW p \in PagedLODs, ListOf(container, p) = "inactive"
  PROVE  ~child[p]
<1>1. mainPc = "expire" /\ (visit = 0 \/ ~(container.lists["inactive"].count > keep))
  BY DEF EndExpire, StillExpiring
<1>2. PICK s, k : /\ k \in 1 .. Len(s["inactive"]) + 1
                  /\ Linked(container, s, {})
                  /\ visit = IF k <= Len(s["inactive"]) THEN s["inactive"][k] ELSE 0
                  /\ \A j \in 1 .. k - 1 : ~child[container.elements[s["inactive"][j]].plod]
  BY <1>1 DEF ContainerInv, LoopIsInList
<1>3. "inactive" \in Lists /\ "active" \in Lists
  BY DEF Lists
<1>4. PICK q, len, size : q = s["inactive"] /\ len = Len(q) /\ size = Size(container)
  OBVIOUS
<1>5. /\ len \in Nat /\ DOMAIN q = 1 .. len /\ q \in Seq(1 .. size)
      /\ container.lists["inactive"].count = len
  <2>1. ChainOfList(container, "inactive", q, len, size)
    BY <1>2, <1>3, <1>4, LinkedFacts
  <2>2. IsChain(container, "inactive", q)
    BY <1>2, <1>3, <1>4 DEF Linked
  <2>3. QED
    BY <1>4, <2>1, <2>2 DEF ChainOfList, IsChain
<1>6. PICK j : j \in 1 .. len /\ container.elements[q[j]].plod = p
  <2>1. Sound(container)
    BY DEF ContainerInv
  <2>2. QED
    BY <1>2, <1>4, <2>1, InactiveHasElement
<1>7. container.lists["active"].count \in Nat /\ Len(nodes) \in Nat /\ keep \in Nat
  <2>1. Sound(container)
    BY DEF ContainerInv
  <2>2. Len(nodes) \in Nat
    BY LenProperties DEF ContainerInv, HandInv, HandTypes
  <2>3. QED
    BY <1>3, <2>1, <2>2, CountsOfLists DEF ContainerInv, ContainerTypes
<1>8. CASE visit = 0
  <2>1. k = len + 1
    <3>1. \A n \in 1 .. len : q[n] # 0
      <4>1. \A n \in DOMAIN q : q[n] \in 1 .. size
        BY <1>5, ElementsOfQueue
      <4>2. size \in Nat
        BY <1>3, <1>4, CountsOfLists DEF ContainerInv
      <4>3. QED
        BY <1>5, <4>1, <4>2
    <3>2. k \in 1 .. len + 1 /\ visit = IF k <= len THEN q[k] ELSE 0
      BY <1>2, <1>4
    <3>3. QED
      BY <1>5, <1>8, <3>1, <3>2
  <2>2. \A n \in 1 .. k - 1 : ~child[container.elements[q[n]].plod]
    BY <1>2, <1>4, Zenon
  <2>3. j \in 1 .. k - 1
    BY <1>5, <1>6, <2>1
  <2>4. QED
    BY <1>6, <2>2, <2>3, Zenon
<1>9. CASE ~(container.lists["inactive"].count > keep)
  <2>1. PICK a \in Nat, n \in Nat, target \in Nat :
           a = container.lists["active"].count /\ n = Len(nodes) /\ target = TargetMax
    BY <1>7, PagerAssumption DEF PagerAssumption
  <2>2. a + len + n > target /\ ~(len > keep)
    BY <1>5, <1>9, <2>1
  <2>3. keep = 0 \/ keep + a + n <= target
    BY <1>1, <2>1 DEF ContainerInv, KeepIsBelow
  <2>4. keep = 0 => len = 0
    BY <1>5, <1>7, <2>2
  <2>5. len # 0
    BY <1>5, <1>6
  <2>6. a \in Nat /\ n \in Nat /\ target \in Nat /\ len \in Nat /\ keep \in Nat
    BY <1>5, <1>7, <2>1
  <2>7. QED
    BY <2>2, <2>3, <2>4, <2>5, <2>6
<1>10. QED
  BY <1>1, <1>8, <1>9

\* If the expiry loop ends above the target, what is left to expire has no child: the
\* invariant says what the loop has passed and how many it was to keep, for any number of
\* recorders (DatabasePager.cpp:333-360).
THEOREM ExpiryReachesItsTarget == Spec => ExpiryReachesTarget
<1>1. ContainerInv /\ [Next]_vars =>
        [/\ mainPc = "expire" /\ mainPc' = "merge"
         /\ container.lists["active"].count + container.lists["inactive"].count
                + Len(nodes) > TargetMax
         => \A p \in InList("inactive") : ~child[p]]_vars
  <2>1. SUFFICES ASSUME ContainerInv, [Next]_vars, mainPc = "expire", mainPc' = "merge",
                        container.lists["active"].count + container.lists["inactive"].count
                            + Len(nodes) > TargetMax,
                        NEW p \in InList("inactive")
                 PROVE  ~child[p]
    OBVIOUS
  <2>2. EndExpire
    <3>1. HandInv /\ RecordersIdle
      BY <2>1 DEF ContainerInv
    <3>2. ASSUME NEW c \in Recorders, RecorderStep(c) PROVE FALSE
      BY <2>1, <3>1, <3>2, RecordersAlone
    <3>3. ASSUME NEW r \in Readers, ReaderStep(r) PROVE FALSE
      BY <2>1, <3>3, ReadersAlone
    <3>4. ~UNCHANGED vars
      BY <2>1 DEF vars, mainVars
    <3>5. MainStep
      BY <2>1, <3>2, <3>3, <3>4 DEF Next
    <3>6. QED
      BY <2>1, <3>5 DEF MainStep, BeginUpdate, SweepContainer, Expire, Merge, BeginRecord,
                        EndRecord
  <2>3. p \in PagedLODs /\ ListOf(container, p) = "inactive"
    BY <2>1 DEF InList
  <2>4. QED
    BY <2>1, <2>2, <2>3, ExpiryEndsAtTarget
<1>2. QED
  BY <1>1, ContainerIsInvariant, PTL DEF Spec, ExpiryReachesTarget

--------------------------------------------------------------------------------
(* The use of the PagedLODs, with one recorder.                            *)

\* Two recorders that append at the same time may lose what one of them appends.
OneRecorder == \A c, d \in Recorders : c = d

Listed(p) == ListOf(container, p) # "none"
AtHand(p) == \E c \in Recorders : recPc[c] # "visit" /\ recNode[c] = p

\* A PagedLOD that the next sweep will find required.
Required(p) ==
    \/ p \in Range(newHighresRequired)
    \/ \E c \in Recorders : recPc[c] = "push" /\ recNode[c] = p

RequiredIsSwept == mainPc = "expire" => newHighresRequired = <<>>

\* Nobody else appends to what a recorder has read.
SnapshotIsCurrent ==
    \A c \in Recorders : recPc[c] = "push" => snapshot[c] = newHighresRequired

\* An inactive PagedLOD that has been used again will become active.
UsedIsRequired ==
    \A p \in PagedLODs :
        ListOf(container, p) = "inactive" => age[p] > InactiveAge \/ Required(p)

NeverIsUnused ==
    \A p \in PagedLODs :
        firstUse[p] = "never" => ~child[p] /\ status[p] = "NoRequest" /\ ~AtHand(p)

\* What has been used, is used or is in flight has an element or will get one.
LaterIsTracked ==
    \A p \in PagedLODs :
        /\ firstUse[p] = "later"
        /\ status[p] # "NoRequest" \/ ~(age[p] > InactiveAge) \/ AtHand(p)
        => Listed(p) \/ Required(p)

LoadedIsListed ==
    \A p \in PagedLODs :
        firstUse[p] = "later" /\ child[p] => Listed(p) \/ p \in Range(newHighresRequired)

UseTypes == firstUse \in [PagedLODs -> {"never", "early", "later"}]

UseInv ==
    /\ ContainerInv /\ OneRecorder /\ UseTypes /\ RequiredIsSwept /\ SnapshotIsCurrent
    /\ UsedIsRequired /\ NeverIsUnused /\ LaterIsTracked /\ LoadedIsListed

\* A PagedLOD has a list if it has an element.
LEMMA ListedHaveElements ==
  ASSUME NEW c, Sound(c), NEW p \in PagedLODs
  PROVE  c.index[p] # 0 <=> ListOf(c, p) # "none"
<1>1. CASE c.index[p] = 0
  BY <1>1 DEF ListOf
<1>2. CASE c.index[p] # 0
  <2>1. PICK s : Linked(c, s, {})
    BY DEF Sound
  <2>2. c.index[p] \in 1 .. Size(c)
    BY <1>2 DEF Sound, Owned
  <2>3. c.elements[c.index[p]].list \in Lists
    BY <2>1, <2>2, PositionInChain
  <2>4. QED
    BY <1>2, <2>3 DEF ListOf, Lists
<1>3. QED
  BY <1>1, <1>2

\* While main does anything else, what is required has been appended.
LEMMA NobodyAtHand ==
  ASSUME UseInv, mainPc # "record", NEW p
  PROVE  /\ \A c \in Recorders : recPc[c] = "visit"
         /\ ~AtHand(p) /\ (Required(p) => p \in Range(newHighresRequired))
<1>1. \A c \in Recorders : recPc[c] = "visit"
  BY DEF UseInv, ContainerInv, RecordersIdle
<1>2. QED
  BY <1>1 DEF AtHand, Required

\* Steps in which no PagedLOD is used for the first time, gets its child, or leaves its
\* list.
UsesLess ==
    /\ UNCHANGED <<container, firstUse>>
    /\ \A p \in PagedLODs :
          /\ age[p] > InactiveAge => age'[p] > InactiveAge
          /\ status'[p] # "NoRequest" => status[p] # "NoRequest" \/ AtHand(p)
          /\ AtHand(p)' => AtHand(p)
          /\ child'[p] => child[p]
          /\ Required(p) => Required(p)'
          /\ p \in Range(newHighresRequired) => p \in Range(newHighresRequired')

\* They keep the invariant.
LEMMA UsesLessInv ==
  ASSUME UseInv, UsesLess
  PROVE  UseTypes' /\ UsedIsRequired' /\ NeverIsUnused' /\ LaterIsTracked' /\ LoadedIsListed'
<1>1. /\ UseTypes /\ UsedIsRequired /\ NeverIsUnused /\ LaterIsTracked /\ LoadedIsListed
      /\ UNCHANGED <<container, firstUse>>
  BY DEF UseInv, UsesLess
<1>2. \A p \in PagedLODs :
          /\ age[p] > InactiveAge => age'[p] > InactiveAge
          /\ status'[p] # "NoRequest" => status[p] # "NoRequest" \/ AtHand(p)
          /\ AtHand(p)' => AtHand(p)
          /\ child'[p] => child[p]
          /\ Required(p) => Required(p)'
          /\ p \in Range(newHighresRequired) => p \in Range(newHighresRequired')
  BY DEF UsesLess
<1>3. \A p \in PagedLODs : ListOf(container', p) = ListOf(container, p)
  BY <1>1
<1>4. UseTypes'
  BY <1>1 DEF UseTypes
<1>5. UsedIsRequired'
  BY <1>1, <1>2, <1>3, Zenon DEF UsedIsRequired
<1>6. NeverIsUnused'
  BY <1>1, <1>2, Zenon DEF NeverIsUnused
<1>7. \A p \in PagedLODs : Listed(p) => Listed(p)'
  BY <1>3 DEF Listed
<1>8. LaterIsTracked'
  BY <1>1, <1>2, <1>7, Zenon DEF LaterIsTracked
<1>9. LoadedIsListed'
  BY <1>1, <1>2, <1>7, Zenon DEF LoadedIsListed
<1>10. QED
  BY <1>4, <1>5, <1>6, <1>8, <1>9

\* What main does without the lists and the children: the ages grow.
LEMMA MainUsesLess ==
  ASSUME UseInv, BeginUpdate \/ EndExpire \/ BeginRecord \/ EndRecord \/ UNCHANGED vars
  PROVE  UsesLess /\ RequiredIsSwept' /\ SnapshotIsCurrent'
<1>1. /\ UNCHANGED <<container, newHighresRequired, firstUse, recPc, recNode, snapshot>>
      /\ UNCHANGED <<status, child>> /\ (mainPc' = "expire" => mainPc = "expire")
  <2>1. /\ UNCHANGED <<container, newHighresRequired, firstUse, recPc, recNode, snapshot>>
        /\ (mainPc' = "expire" => UNCHANGED mainPc) /\ (UNCHANGED child \/ Merge)
    BY MainMostlyAlone
  <2>2. UNCHANGED <<status, child>>
    BY DEF BeginUpdate, EndExpire, BeginRecord, EndRecord, lodVars, vars
  <2>3. QED
    BY <2>1, <2>2
<1>2. ASSUME NEW p \in PagedLODs, age[p] > InactiveAge PROVE age'[p] > InactiveAge
  <2>1. CASE UNCHANGED age
    BY <1>2, <2>1
  <2>2. CASE BeginUpdate
    <3>1. age'[p] = IF age[p] = AgeLimit THEN AgeLimit ELSE age[p] + 1
      BY <2>2 DEF BeginUpdate
    <3>2. age[p] \in Nat /\ InactiveAge \in Nat
      BY PagerAssumption DEF PagerAssumption, UseInv, ContainerInv, ContainerTypes
    <3>3. QED
      BY <1>2, <3>1, <3>2
  <2>3. QED
    BY <2>1, <2>2, MainMostlyAlone
<1>3. \A p : /\ AtHand(p)' => AtHand(p)
             /\ Required(p) => Required(p)'
             /\ p \in Range(newHighresRequired) => p \in Range(newHighresRequired')
  BY <1>1 DEF AtHand, Required
<1>4. UsesLess
  BY <1>1, <1>2, <1>3 DEF UsesLess
<1>5. RequiredIsSwept' /\ SnapshotIsCurrent'
  BY <1>1 DEF UseInv, RequiredIsSwept, SnapshotIsCurrent
<1>6. QED
  BY <1>4, <1>5

\* The sweep gives every PagedLOD that is required an element.
LEMMA SweepUse ==
  ASSUME UseInv, SweepContainer
  PROVE  /\ UseTypes' /\ RequiredIsSwept' /\ SnapshotIsCurrent' /\ UsedIsRequired'
         /\ NeverIsUnused' /\ LaterIsTracked' /\ LoadedIsListed'
<1>1. PICK culled \in SUBSET Stale : \A p \in PagedLODs :
         ListOf(container', p) = IF p \in Range(newHighresRequired) THEN "active"
                                 ELSE IF p \in culled THEN "inactive"
                                 ELSE ListOf(container, p)
  BY SweptLists DEF UseInv
<1>2. /\ newHighresRequired' = <<>> /\ mainPc = "sweep"
      /\ UNCHANGED <<firstUse, recPc, recNode, snapshot, age, status, child>>
  BY DEF SweepContainer, recVars, lodVars
<1>3. /\ UseTypes /\ UsedIsRequired /\ NeverIsUnused /\ LaterIsTracked /\ LoadedIsListed
      /\ OneRecorder /\ \A c \in Recorders : recPc[c] = "visit"
  BY <1>2, NobodyAtHand DEF UseInv
<1>4. \A p : Required(p) => p \in Range(newHighresRequired)
  BY <1>3 DEF Required
<1>5. \A p \in PagedLODs : Listed(p) \/ Required(p) => Listed(p)'
  BY <1>1, <1>4 DEF Listed
<1>6. UsedIsRequired'
  <2>1. SUFFICES ASSUME NEW p \in PagedLODs, ListOf(container', p) = "inactive"
                 PROVE  age'[p] > InactiveAge
    BY DEF UsedIsRequired
  <2>2. p \notin Range(newHighresRequired)
    BY <1>1, <2>1
  <2>3. CASE p \in culled
    <3>1. ~(age[p] <= InactiveAge)
      BY <2>3 DEF Stale, HighResActive
    <3>2. age[p] \in Nat /\ InactiveAge \in Nat
      BY PagerAssumption DEF PagerAssumption, UseInv, ContainerInv, ContainerTypes
    <3>3. QED
      BY <1>2, <3>1, <3>2
  <2>4. CASE p \notin culled
    <3>1. ListOf(container, p) = "inactive" /\ ~Required(p)
      BY <1>1, <1>4, <2>1, <2>2, <2>4
    <3>2. QED
      BY <1>2, <1>3, <3>1 DEF UsedIsRequired
  <2>5. QED
    BY <2>3, <2>4
<1>7. \A p : AtHand(p)' => AtHand(p)
  BY <1>2 DEF AtHand
<1>8. NeverIsUnused' /\ UseTypes'
  BY <1>2, <1>3, <1>7 DEF NeverIsUnused, UseTypes
<1>9. LaterIsTracked'
  BY <1>2, <1>3, <1>5, <1>7 DEF LaterIsTracked
<1>10. LoadedIsListed'
  <2>1. ASSUME NEW p \in PagedLODs, firstUse'[p] = "later", child'[p]
        PROVE  Listed(p)'
    <3>1. Listed(p) \/ Required(p)
      BY <1>2, <1>3, <2>1 DEF LoadedIsListed, Required
    <3>2. QED
      BY <1>5, <3>1
  <2>2. QED
    BY <2>1 DEF LoadedIsListed
<1>11. RequiredIsSwept' /\ SnapshotIsCurrent'
  BY <1>2, <1>3 DEF RequiredIsSwept, SnapshotIsCurrent
<1>12. QED
  BY <1>6, <1>8, <1>9, <1>10, <1>11

\* What the expiry loop removes has not been used for long, and nobody wants it.
LEMMA ExpiredIsUnused ==
  ASSUME UseInv, Expire, status[container.elements[visit].plod] = "NoRequest",
         NEW p, p = container.elements[visit].plod
  PROVE  /\ p \in PagedLODs /\ age[p] > InactiveAge /\ ~AtHand(p)
         /\ \A r \in PagedLODs : ListOf(container', r) =
               IF r = p THEN "none" ELSE ListOf(container, r)
<1>1. ContainerInv /\ mainPc = "expire" /\ newHighresRequired = <<>>
  BY DEF UseInv, RequiredIsSwept, Expire
<1>2. /\ p \in PagedLODs /\ ListOf(container, p) = "inactive"
      /\ \A r \in PagedLODs : ListOf(container', r) =
            IF r = p THEN "none" ELSE ListOf(container, r)
  BY <1>1, ExpireRemovesInv
<1>3. ~AtHand(p) /\ (Required(p) => p \in Range(newHighresRequired))
  BY <1>1, NobodyAtHand
<1>4. p \notin Range(newHighresRequired)
  BY <1>1 DEF Range
<1>5. age[p] > InactiveAge
  BY <1>2, <1>3, <1>4 DEF UseInv, UsedIsRequired
<1>6. QED
  BY <1>2, <1>3, <1>5

\* A turn of the expiry loop.
LEMMA ExpireUse ==
  ASSUME UseInv, Expire
  PROVE  /\ UseTypes' /\ RequiredIsSwept' /\ SnapshotIsCurrent' /\ UsedIsRequired'
         /\ NeverIsUnused' /\ LaterIsTracked' /\ LoadedIsListed'
<1>1. PICK p : p = container.elements[visit].plod
  OBVIOUS
<1>2. /\ mainPc = "expire"
      /\ UNCHANGED <<firstUse, newHighresRequired, recPc, recNode, snapshot, age, status>>
      /\ IF status[p] = "NoRequest" THEN child' = [child EXCEPT ![p] = FALSE]
         ELSE UNCHANGED <<child, container>>
  BY <1>1 DEF Expire, recVars
<1>3. RequiredIsSwept' /\ SnapshotIsCurrent'
  BY <1>2 DEF UseInv, RequiredIsSwept, SnapshotIsCurrent
<1>4. \A r : (AtHand(r)' <=> AtHand(r)) /\ (Required(r)' <=> Required(r))
  BY <1>2 DEF AtHand, Required
<1>5. CASE status[p] # "NoRequest"
  <2>1. UsesLess
    BY <1>2, <1>4, <1>5 DEF UsesLess
  <2>2. QED
    BY <1>3, <2>1, UsesLessInv
<1>6. CASE status[p] = "NoRequest"
  <2>1. /\ p \in PagedLODs /\ age[p] > InactiveAge /\ ~AtHand(p)
        /\ \A r \in PagedLODs : ListOf(container', r) =
              IF r = p THEN "none" ELSE ListOf(container, r)
    BY <1>1, <1>6, ExpiredIsUnused
  <2>2. /\ UseTypes /\ UsedIsRequired /\ NeverIsUnused /\ LaterIsTracked /\ LoadedIsListed
        /\ child \in [PagedLODs -> BOOLEAN]
    BY DEF UseInv, ContainerInv, ContainerTypes
  <2>3. ~child'[p] /\ \A r \in PagedLODs : r # p => child'[r] = child[r]
    BY <1>2, <1>6, <2>1, <2>2
  <2>4. \A r \in PagedLODs : r # p => (Listed(r)' <=> Listed(r))
    BY <2>1 DEF Listed
  <2>5. UseTypes' /\ UsedIsRequired'
    BY <1>2, <1>4, <2>1, <2>2 DEF UseTypes, UsedIsRequired
  <2>6. NeverIsUnused'
    BY <1>2, <1>4, <2>2, <2>3 DEF NeverIsUnused
  <2>7. LaterIsTracked'
    <3>1. \A r \in PagedLODs : r # p \/ (status[r] = "NoRequest" /\ age[r] > InactiveAge
                                             /\ ~AtHand(r))
      BY <1>6, <2>1
    <3>2. QED
      BY <1>2, <1>4, <2>2, <2>4, <3>1, Zenon DEF LaterIsTracked
  <2>8. LoadedIsListed'
    BY <1>2, <2>2, <2>3, <2>4 DEF LoadedIsListed
  <2>9. QED
    BY <1>3, <2>5, <2>6, <2>7, <2>8
<1>7. QED
  BY <1>5, <1>6

\* The child that is merged belongs to a PagedLOD in flight, which is tracked.
LEMMA MergeUse ==
  ASSUME UseInv, Merge
  PROVE  /\ UseTypes' /\ RequiredIsSwept' /\ SnapshotIsCurrent' /\ UsedIsRequired'
         /\ NeverIsUnused' /\ LaterIsTracked' /\ LoadedIsListed'
<1>1. PICK p : p = Head(nodes)
  OBVIOUS
<1>2. /\ mainPc = "merge" /\ UNCHANGED mainPc
      /\ UNCHANGED <<firstUse, newHighresRequired, recPc, recNode, snapshot, age, container>>
      /\ IF status[p] = "MergeRequest"
         THEN /\ child' = [child EXCEPT ![p] = pending[p]]
              /\ status' = [status EXCEPT ![p] = "NoRequest"]
         ELSE UNCHANGED <<child, status>>
  BY <1>1 DEF Merge, recVars, trackVars
<1>3. RequiredIsSwept' /\ SnapshotIsCurrent'
  BY <1>2 DEF UseInv, RequiredIsSwept, SnapshotIsCurrent
<1>4. \A r : /\ AtHand(r)' <=> AtHand(r)
             /\ Required(r)' <=> Required(r)
             /\ Listed(r)' <=> Listed(r)
  BY <1>2 DEF AtHand, Required, Listed
<1>5. /\ UseTypes /\ UsedIsRequired /\ NeverIsUnused /\ LaterIsTracked /\ LoadedIsListed
      /\ child \in [PagedLODs -> BOOLEAN] /\ status \in [PagedLODs -> Statuses]
  BY DEF UseInv, ContainerInv, ContainerTypes, HandInv, HandTypes
<1>6. \A r \in PagedLODs : /\ status'[r] # "NoRequest" => status[r] # "NoRequest"
                           /\ child'[r] => child[r] \/ status[r] # "NoRequest"
  BY <1>2, <1>5
<1>7. UseTypes' /\ UsedIsRequired'
  BY <1>2, <1>4, <1>5 DEF UseTypes, UsedIsRequired
<1>8. NeverIsUnused'
  BY <1>2, <1>4, <1>5, <1>6 DEF NeverIsUnused
<1>9. LaterIsTracked'
  BY <1>2, <1>4, <1>5, <1>6, Zenon DEF LaterIsTracked
<1>10. LoadedIsListed'
  <2>1. SUFFICES ASSUME NEW r \in PagedLODs, firstUse'[r] = "later", child'[r]
                 PROVE  Listed(r)' \/ r \in Range(newHighresRequired')
    BY DEF LoadedIsListed
  <2>2. CASE child[r]
    BY <1>2, <1>4, <1>5, <2>1, <2>2 DEF LoadedIsListed
  <2>3. CASE status[r] # "NoRequest"
    <3>1. Listed(r) \/ Required(r)
      BY <1>2, <1>5, <2>1, <2>3 DEF LaterIsTracked
    <3>2. Required(r) => r \in Range(newHighresRequired)
      BY <1>2, NobodyAtHand
    <3>3. QED
      BY <1>2, <1>4, <3>1, <3>2
  <2>4. QED
    BY <1>6, <2>1, <2>2, <2>3
<1>11. QED
  BY <1>3, <1>7, <1>8, <1>9, <1>10

\* The steps of a recorder that do not use another PagedLOD.
LEMMA RecorderUsesLess ==
  ASSUME UseInv, NEW c \in Recorders,
         (\E p \in PagedLODs : Skip(c, p)) \/ Push(c) \/ Ask(c) \/ Request(c) \/ Queue(c)
  PROVE  UsesLess /\ SnapshotIsCurrent'
<1>1. /\ recPc \in [Recorders -> {"visit", "push", "ask", "request", "queue"}]
      /\ recNode \in [Recorders -> PagedLODs \cup {Nobody}]
      /\ \A d \in Recorders : recPc[d] # "visit" => recNode[d] \in PagedLODs
      /\ newHighresRequired \in Seq(PagedLODs) /\ snapshot \in [Recorders -> Seq(PagedLODs)]
      /\ status \in [PagedLODs -> Statuses] /\ OneRecorder /\ SnapshotIsCurrent
      /\ \A d \in Recorders : d = c
  BY DEF UseInv, ContainerInv, ContainerTypes, HandInv, HandTypes, OneRecorder
<1>2. UNCHANGED <<container, firstUse, age, child>>
  BY DEF Skip, Push, Ask, Request, Queue, lodVars, trackVars
<1>3. /\ recPc'[c] # "visit" => recPc[c] # "visit" /\ recNode'[c] = recNode[c]
      /\ recPc'[c] # "push"
      /\ ~Push(c) => recPc[c] # "push" /\ UNCHANGED newHighresRequired
  <2>1. CASE \E p \in PagedLODs : Skip(c, p)
    BY <2>1 DEF Skip, trackVars
  <2>2. CASE Push(c)
    BY <1>1, <2>2 DEF Push
  <2>3. CASE Ask(c)
    BY <1>1, <2>3 DEF Ask, Done, trackVars
  <2>4. CASE Request(c)
    BY <1>1, <2>4 DEF Request, Done, trackVars
  <2>5. CASE Queue(c)
    BY <1>1, <2>5 DEF Queue, Done, trackVars
  <2>6. QED
    BY <2>1, <2>2, <2>3, <2>4, <2>5
<1>4. \A p : AtHand(p)' => AtHand(p)
  BY <1>1, <1>3 DEF AtHand
<1>5. SnapshotIsCurrent'
  BY <1>1, <1>3 DEF SnapshotIsCurrent
<1>6. \A p \in PagedLODs : status'[p] # "NoRequest" => status[p] # "NoRequest" \/ AtHand(p)
  <2>1. CASE Queue(c)
    <3>1. recPc[c] = "queue" /\ AtHand(recNode[c])
      BY <2>1 DEF Queue, AtHand
    <3>2. UNCHANGED status \/ status' = [status EXCEPT ![recNode[c]] = "ReadRequest"]
      BY <2>1 DEF Queue
    <3>3. QED
      BY <1>1, <3>1, <3>2
  <2>2. CASE ~Queue(c)
    <3>1. UNCHANGED status
      BY <2>2 DEF Skip, Push, Ask, Request, lodVars
    <3>2. QED
      BY <3>1
  <2>3. QED
    BY <2>1, <2>2
<1>7. \A p : /\ Required(p) => Required(p)'
             /\ p \in Range(newHighresRequired) => p \in Range(newHighresRequired')
  <2>1. CASE Push(c)
    <3>1. recPc[c] = "push" /\ newHighresRequired' = Append(snapshot[c], recNode[c])
          /\ snapshot[c] = newHighresRequired /\ recNode[c] \in PagedLODs
      BY <1>1, <2>1 DEF Push, SnapshotIsCurrent
    <3>2. newHighresRequired' = Append(newHighresRequired, recNode[c])
      BY <3>1
    <3>3. Range(newHighresRequired') = Range(newHighresRequired) \cup {recNode[c]}
      BY <1>1, <3>1, <3>2, AppendedQueue
    <3>4. QED
      BY <1>1, <3>3 DEF Required
  <2>2. CASE ~Push(c)
    BY <1>1, <1>3, <2>2 DEF Required
  <2>3. QED
    BY <2>1, <2>2
<1>8. UsesLess
  BY <1>2, <1>4, <1>6, <1>7 DEF UsesLess
<1>9. QED
  BY <1>5, <1>8

\* A PagedLOD that is used again becomes required unless it was used in this frame or the
\* one before.
LEMMA UseUse ==
  ASSUME UseInv, NEW c \in Recorders, NEW p \in PagedLODs, Use(c, p)
  PROVE  /\ UseTypes' /\ SnapshotIsCurrent' /\ UsedIsRequired'
         /\ NeverIsUnused' /\ LaterIsTracked' /\ LoadedIsListed'
<1>1. /\ recPc \in [Recorders -> {"visit", "push", "ask", "request", "queue"}]
      /\ recNode \in [Recorders -> PagedLODs \cup {Nobody}]
      /\ snapshot \in [Recorders -> Seq(PagedLODs)]
      /\ age \in [PagedLODs -> Nat] /\ InactiveAge \in Nat \ {0}
      /\ UseTypes /\ UsedIsRequired /\ NeverIsUnused /\ LaterIsTracked /\ LoadedIsListed
      /\ \A d \in Recorders : d = c
  BY PagerAssumption DEF PagerAssumption, UseInv, ContainerInv, ContainerTypes, HandInv,
                         HandTypes, OneRecorder
<1>2. /\ UNCHANGED <<container, newHighresRequired, status, child>>
      /\ recPc[c] = "visit" /\ recPc'[c] = IF age[p] > 1 THEN "push" ELSE "ask"
      /\ recNode'[c] = p
      /\ age[p] > 1 => snapshot'[c] = newHighresRequired
  BY <1>1 DEF Use
<1>3. /\ age'[p] = 0 /\ \A r \in PagedLODs : r # p => age'[r] = age[r]
      /\ firstUse'[p] = IF firstUse[p] # "never" THEN firstUse[p]
                        ELSE IF age[p] > 1 THEN "later" ELSE "early"
      /\ \A r \in PagedLODs : r # p => firstUse'[r] = firstUse[r]
      /\ UseTypes'
  <2>1. /\ age' = [age EXCEPT ![p] = 0]
        /\ firstUse' = [firstUse EXCEPT ![p] =
                            IF firstUse[p] # "never" THEN firstUse[p]
                            ELSE IF age[p] > 1 THEN "later" ELSE "early"]
    BY DEF Use
  <2>2. QED
    BY <1>1, <2>1 DEF UseTypes
<1>4. /\ \A r : ~AtHand(r) /\ (AtHand(r)' <=> r = p)
      /\ \A r : Required(r) <=> r \in Range(newHighresRequired)
      /\ \A r : Required(r) => Required(r)'
      /\ \A r : Listed(r)' <=> Listed(r)
      /\ age[p] > 1 => Required(p)'
  BY <1>1, <1>2 DEF AtHand, Required, Listed
<1>5. ~(age[p] > 1) => ~(age[p] > InactiveAge)
  BY <1>1
<1>6. SnapshotIsCurrent'
  BY <1>1, <1>2 DEF SnapshotIsCurrent
<1>7. UsedIsRequired'
  <2>1. SUFFICES ASSUME NEW r \in PagedLODs, ListOf(container', r) = "inactive"
                 PROVE  age'[r] > InactiveAge \/ Required(r)'
    BY DEF UsedIsRequired
  <2>2. age[r] > InactiveAge \/ Required(r)
    BY <1>1, <1>2, <2>1 DEF UsedIsRequired
  <2>3. CASE r # p
    BY <1>3, <1>4, <2>2, <2>3
  <2>4. CASE r = p
    BY <1>4, <1>5, <2>2, <2>4
  <2>5. QED
    BY <2>3, <2>4
<1>8. NeverIsUnused'
  BY <1>1, <1>2, <1>3, <1>4 DEF NeverIsUnused
<1>9. LaterIsTracked'
  <2>1. SUFFICES ASSUME NEW r \in PagedLODs, firstUse'[r] = "later",
                        status'[r] # "NoRequest" \/ ~(age'[r] > InactiveAge) \/ AtHand(r)'
                 PROVE  Listed(r)' \/ Required(r)'
    BY DEF LaterIsTracked
  <2>2. CASE r # p
    BY <1>1, <1>2, <1>3, <1>4, <2>1, <2>2, Zenon DEF LaterIsTracked
  <2>3. CASE r = p /\ age[p] > 1
    BY <1>4, <2>3
  <2>4. CASE r = p /\ ~(age[p] > 1)
    <3>1. firstUse[p] = "later" /\ ~(age[p] > InactiveAge)
      BY <1>1, <1>3, <1>5, <2>1, <2>4 DEF UseTypes
    <3>2. Listed(p) \/ Required(p)
      BY <1>1, <3>1 DEF LaterIsTracked
    <3>3. QED
      BY <1>4, <2>4, <3>2
  <2>5. QED
    BY <2>2, <2>3, <2>4
<1>10. LoadedIsListed'
  <2>1. SUFFICES ASSUME NEW r \in PagedLODs, firstUse'[r] = "later", child[r]
                 PROVE  Listed(r) \/ r \in Range(newHighresRequired)
    BY <1>2, <1>4 DEF LoadedIsListed
  <2>2. firstUse[r] # "never"
    BY <1>1, <2>1 DEF NeverIsUnused
  <2>3. firstUse[r] = "later"
    BY <1>3, <2>1, <2>2
  <2>4. QED
    BY <1>1, <2>1, <2>3 DEF LoadedIsListed
<1>11. QED
  BY <1>3, <1>6, <1>7, <1>8, <1>9, <1>10

\* The read threads end what is in flight, and begin nothing.
LEMMA ReaderUsesLess ==
  ASSUME UseInv, NEW r \in Readers, ReaderStep(r)
  PROVE  UsesLess /\ RequiredIsSwept' /\ SnapshotIsCurrent'
<1>1. /\ UNCHANGED <<mainPc, recPc, recNode, snapshot>>
      /\ UNCHANGED <<container, newHighresRequired, firstUse, child, age>>
  BY ReadersAlone
<1>2. \A p \in PagedLODs : status'[p] # "NoRequest" => status[p] # "NoRequest"
  BY ReadersNeedRequests DEF UseInv, ContainerInv
<1>3. \A p : (AtHand(p)' <=> AtHand(p)) /\ (Required(p)' <=> Required(p))
  BY <1>1 DEF AtHand, Required
<1>4. UsesLess
  BY <1>1, <1>2, <1>3 DEF UsesLess
<1>5. RequiredIsSwept' /\ SnapshotIsCurrent'
  BY <1>1 DEF UseInv, RequiredIsSwept, SnapshotIsCurrent
<1>6. QED
  BY <1>4, <1>5

\* At first nothing has been used.
LEMMA UseInvInit == Init /\ OneRecorder => UseInv
<1>1. SUFFICES ASSUME Init, OneRecorder PROVE UseInv
  OBVIOUS
<1>2. ContainerInv
  BY <1>1, ContainerInvInit
<1>3. /\ mainPc = "sweep" /\ firstUse = [p \in PagedLODs |-> "never"]
      /\ \A p \in PagedLODs : ~child[p] /\ status[p] = "NoRequest"
      /\ \A c \in Recorders : recPc[c] = "visit"
  BY <1>1 DEF Init
<1>4. \A p \in PagedLODs : ListOf(container, p) # "inactive"
  BY <1>1, EmptyIsSound DEF Init, ListOf
<1>5. UseTypes /\ RequiredIsSwept /\ SnapshotIsCurrent /\ UsedIsRequired
  BY <1>3, <1>4 DEF UseTypes, RequiredIsSwept, SnapshotIsCurrent, UsedIsRequired
<1>6. NeverIsUnused /\ LaterIsTracked /\ LoadedIsListed
  BY <1>3 DEF NeverIsUnused, LaterIsTracked, LoadedIsListed, AtHand
<1>7. QED
  BY <1>1, <1>2, <1>5, <1>6 DEF UseInv

\* Every step keeps the invariant.
LEMMA UseInvStep ==
  ASSUME UseInv, [Next]_vars
  PROVE  UseInv'
<1>1. ContainerInv' /\ OneRecorder'
  <2>1. ContainerInv /\ OneRecorder
    BY DEF UseInv
  <2>2. QED
    BY <2>1, ContainerInvStep DEF OneRecorder
<1>2. SUFFICES /\ UseTypes' /\ RequiredIsSwept' /\ SnapshotIsCurrent' /\ UsedIsRequired'
               /\ NeverIsUnused' /\ LaterIsTracked' /\ LoadedIsListed'
  BY <1>1 DEF UseInv
<1>3. CASE BeginUpdate \/ EndExpire \/ BeginRecord \/ EndRecord \/ UNCHANGED vars
  BY <1>3, MainUsesLess, UsesLessInv
<1>4. CASE SweepContainer
  BY <1>4, SweepUse
<1>5. CASE Expire
  BY <1>5, ExpireUse
<1>6. CASE Merge
  BY <1>6, MergeUse
<1>7. ASSUME NEW c \in Recorders, RecorderStep(c)
      PROVE  /\ UseTypes' /\ RequiredIsSwept' /\ SnapshotIsCurrent' /\ UsedIsRequired'
             /\ NeverIsUnused' /\ LaterIsTracked' /\ LoadedIsListed'
  <2>1. RequiredIsSwept'
    <3>1. HandInv /\ RecordersIdle
      BY DEF UseInv, ContainerInv
    <3>2. mainPc = "record" /\ UNCHANGED mainPc
      BY <1>7, <3>1, RecordersAlone
    <3>3. QED
      BY <3>2 DEF RequiredIsSwept
  <2>2. CASE (\E p \in PagedLODs : Skip(c, p)) \/ Push(c) \/ Ask(c) \/ Request(c) \/ Queue(c)
    BY <2>1, <2>2, RecorderUsesLess, UsesLessInv
  <2>3. CASE \E p \in PagedLODs : Use(c, p)
    BY <2>1, <2>3, UseUse
  <2>4. QED
    BY <1>7, <2>2, <2>3 DEF RecorderStep
<1>8. ASSUME NEW r \in Readers, ReaderStep(r)
      PROVE  /\ UseTypes' /\ RequiredIsSwept' /\ SnapshotIsCurrent' /\ UsedIsRequired'
             /\ NeverIsUnused' /\ LaterIsTracked' /\ LoadedIsListed'
  BY <1>8, ReaderUsesLess, UsesLessInv
<1>9. QED
  BY <1>3, <1>4, <1>5, <1>6, <1>7, <1>8 DEF Next, MainStep

\* With one recorder, the inductive invariant of the use of the PagedLODs holds in every
\* reachable state.
THEOREM UseIsInvariant == Spec /\ OneRecorder => []UseInv
<1>1. UseInv /\ [Next]_vars => UseInv'
  BY UseInvStep
<1>2. QED
  BY <1>1, UseInvInit, PTL DEF Spec

\* With one recorder, a loaded child can be expired, because its PagedLOD is in the
\* container or about to enter it, or was wanted in the first two frames already
\* (RecordTraversal.cpp:229-262).
THEOREM LoadedStaysTracked == Spec /\ OneRecorder => []LoadedIsTracked
<1>1. UseInv => LoadedIsTracked
  <2>1. SUFFICES ASSUME UseInv, NEW p \in PagedLODs, child[p], firstUse[p] # "early"
                 PROVE  \/ container.index[p] # 0
                        \/ \E i \in DOMAIN newHighresRequired : newHighresRequired[i] = p
    BY DEF LoadedIsTracked
  <2>2. firstUse[p] = "later"
    BY <2>1 DEF UseInv, UseTypes, NeverIsUnused
  <2>3. ListOf(container, p) # "none" \/ p \in Range(newHighresRequired)
    BY <2>1, <2>2 DEF UseInv, LoadedIsListed, Listed
  <2>4. Sound(container)
    BY <2>1 DEF UseInv, ContainerInv
  <2>5. QED
    BY <2>3, <2>4, ListedHaveElements DEF Range
<1>2. QED
  BY <1>1, UseIsInvariant, PTL

\* With one recorder, a child that was in use in one of the last frames is not taken out
\* of the scene graph, neither by the expiry nor by the merge (DatabasePager.cpp:333-400).
THEOREM UsedChildrenStay == Spec /\ OneRecorder => ExpireOnlyUnused
<1>1. UseInv /\ [Next]_vars =>
        [\A p \in PagedLODs : child[p] /\ ~child'[p] => ~HighResActive(p)]_vars
  <2>1. SUFFICES ASSUME UseInv, [Next]_vars, NEW p \in PagedLODs, child[p], ~child'[p]
                 PROVE  ~(age[p] <= InactiveAge)
    BY DEF HighResActive
  <2>2. /\ HandInv /\ RecordersIdle /\ LoadedIsSettled
        /\ child \in [PagedLODs -> BOOLEAN]
    BY <2>1 DEF UseInv, ContainerInv, ContainerTypes
  <2>3. Expire \/ Merge
    <3>1. ASSUME NEW c \in Recorders, RecorderStep(c) PROVE FALSE
      BY <2>1, <2>2, <3>1, RecordersAlone
    <3>2. ASSUME NEW r \in Readers, ReaderStep(r) PROVE FALSE
      BY <2>1, <3>2, ReadersAlone
    <3>3. ~SweepContainer
      BY <2>1 DEF SweepContainer, lodVars
    <3>4. ~(BeginUpdate \/ EndExpire \/ BeginRecord \/ EndRecord \/ UNCHANGED vars) \/ Merge
      BY <2>1, MainMostlyAlone
    <3>5. QED
      BY <2>1, <3>1, <3>2, <3>3, <3>4 DEF Next, MainStep
  <2>4. CASE Expire
    <3>1. PICK r : r = container.elements[visit].plod
      OBVIOUS
    <3>2. status[r] = "NoRequest" /\ child' = [child EXCEPT ![r] = FALSE]
      BY <2>1, <2>4, <3>1 DEF Expire
    <3>3. r \in PagedLODs /\ age[r] > InactiveAge
      BY <2>1, <2>4, <3>1, <3>2, ExpiredIsUnused
    <3>4. r = p
      BY <2>1, <2>2, <3>2
    <3>5. age[p] \in Nat /\ InactiveAge \in Nat
      BY <2>1, PagerAssumption DEF PagerAssumption, UseInv, ContainerInv, ContainerTypes
    <3>6. QED
      BY <3>3, <3>4, <3>5
  <2>5. CASE Merge
    <3>1. PICK r : r = Head(nodes)
      OBVIOUS
    <3>2. UNCHANGED child \/ (status[r] = "MergeRequest" /\ child' = [child EXCEPT ![r] = pending[r]])
      BY <2>5, <3>1 DEF Merge
    <3>3. status[p] = "NoRequest"
      BY <2>1, <2>2 DEF LoadedIsSettled
    <3>4. QED
      BY <2>1, <2>2, <3>2, <3>3
  <2>6. QED
    BY <2>3, <2>4, <2>5
<1>2. QED
  BY <1>1, UseIsInvariant, PTL DEF Spec, ExpireOnlyUnused

================================================================================

-------------------------- MODULE ReadOperationsProofs --------------------------
(***************************************************************************)
(* Proof that every operation is run once, by one thread, and that a read  *)
(* goes on only when all of its entries have their objects, for any number *)
(* of workers and callers and any files within files.                      *)
(*                                                                         *)
(* The latch of a read counts exactly the entries that nobody has finished *)
(* as long as no operation is begun twice.  That it is not, cannot be seen *)
(* from the queue and the stacks at one moment: the entries of a read that *)
(* begins must never have existed, and this is because an entry exists     *)
(* only when its read has begun (Descent), and a read begins once.         *)
(***************************************************************************)
EXTENDS ReadOperations, FiniteSetTheorems, SequenceTheorems, TLAPS

Files == DOMAIN Contents

\* The names of reads: a caller, and a way from file to file.
Reads ==
    {r \in Seq(Callers \cup Files) :
        /\ Len(r) > 0 /\ r[1] \in Callers
        /\ \A k \in 2 .. Len(r) : r[k] \in Files}

FrameRecord ==
    [read : Reads, todo : Seq(Reads),
     step : {"add", "run", "inline", "wait", "assign", "countDown"}]

\* The frames of all stacks, the reads they are for, and the reads that have ever existed.
Stacked ==
    {f \in FrameRecord : \E t \in Threads : \E i \in 1 .. Len(stack[t]) : stack[t][i] = f}
Reading == {f.read : f \in Stacked}
Queued == {r \in Reads : \E i \in 1 .. Len(queue) : queue[i] = r}
Born == Queued \cup Reading \cup objects

\* Entries that are done: assigned, and counted down.
Finished(r) == {e \in Entries(r) : e \in objects \ Reading}

ReadTypes ==
    /\ queue \in Seq(Reads)
    /\ stack \in [Threads -> Seq(FrameRecord)]
    /\ latch \in [DOMAIN latch -> Int]
    /\ objects \subseteq Reads

\* An operation that waits is not done and nobody has taken it.
QueueIsSound ==
    /\ \A i, j \in 1 .. Len(queue) : queue[i] = queue[j] => i = j
    /\ \A r \in Queued : IsOperation(r) /\ r \notin objects /\ r \notin Reading

\* A read has one place on one stack.
PlacesDiffer ==
    \A t, u \in Threads : \A i \in 1 .. Len(stack[t]), j \in 1 .. Len(stack[u]) :
        stack[t][i].read = stack[u][j].read => t = u /\ i = j

\* A call of read() is outermost; a file that is not an operation is read on top of the
\* read that asks for it; and below the top are those that run operations or read inline.
Nested(t, i) ==
    /\ Len(stack[t][i].read) = 1 => i = 1
    /\ Len(stack[t][i].read) > 1 /\ ~IsOperation(stack[t][i].read) =>
          i > 1 /\ stack[t][i - 1].read = Parent(stack[t][i].read)
    /\ i < Len(stack[t]) => stack[t][i].step \in {"run", "inline"}

StacksAreNested == \A t \in Threads : \A i \in 1 .. Len(stack[t]) : Nested(t, i)

\* What a frame knows of its entries: the latch counts those that are not finished, those
\* still to be added do not exist, and all are there when it goes on.
Latching(f) ==
    f.step \in {"add", "run", "wait"} =>
        /\ InThreads(f.read) /\ f.read \in DOMAIN latch
        /\ latch[f.read] = Len(Paths(f.read)) - Cardinality(Finished(f.read))

Adding(f) ==
    f.step = "add" =>
        /\ f.todo # <<>>
        /\ \A i, j \in 1 .. Len(f.todo) : f.todo[i] = f.todo[j] => i = j
        /\ \A i \in 1 .. Len(f.todo) : f.todo[i] \in Entries(f.read) \ Born

ReadingInline(f) ==
    f.step = "inline" =>
        ~InThreads(f.read) /\ f.todo # <<>> /\ Entries(f.read) = {f.todo[1]}

Complete(f) ==
    /\ f.step \in {"assign", "countDown"} => Entries(f.read) \subseteq objects
    /\ f.read \in objects <=> f.step = "countDown"
    /\ f.step = "countDown" => IsOperation(f.read)

FrameIsSound(f) == Latching(f) /\ Adding(f) /\ ReadingInline(f) /\ Complete(f)

FramesAreSound == \A f \in Stacked : FrameIsSound(f)

\* Nothing exists before the read it is an entry of has begun.
Descent ==
    \A r \in Born : Len(r) > 1 =>
        /\ r \in Entries(Parent(r))
        /\ Len(Parent(r)) = 1 \/ Parent(r) \in Reading \cup objects

\* The read that an operation belongs to is still there: its thread is adding, running or
\* waiting, so the entries and the latch are those on its stack (read.cpp:160-190).
CallersWait ==
    \A r \in Queued \cup Reading : IsOperation(r) =>
        \E f \in Stacked : f.read = Parent(r) /\ f.step \in {"add", "run", "wait"}

ReadInv ==
    /\ ReadTypes /\ QueueIsSound /\ PlacesDiffer /\ StacksAreNested
    /\ FramesAreSound /\ Descent /\ CallersWait

--------------------------------------------------------------------------------
(* Names of reads and their entries.                                       *)

\* The paths of a read are files.
LEMMA PathsOfRead ==
  ASSUME NEW r \in Reads
  PROVE  Paths(r) \in Seq(Files) /\ Len(Paths(r)) \in Nat
<1>1. r \in Seq(Callers \cup Files) /\ Len(r) \in Nat /\ Len(r) > 0
  BY LenProperties DEF Reads
<1>2. CASE Len(r) = 1
  <2>1. r[1] \in Callers
    BY DEF Reads
  <2>2. Paths(r) = Requested[r[1]]
    BY <1>2 DEF Paths
  <2>3. Paths(r) \in Seq(Files)
    BY <2>1, <2>2, ReadAssumption DEF Files
  <2>4. QED
    BY <2>3, LenProperties
<1>3. CASE Len(r) # 1
  <2>1. Len(r) \in 2 .. Len(r)
    <3>1. PICK n \in Nat : n = Len(r)
      BY <1>1
    <3>2. n > 0 /\ n # 1
      BY <1>1, <1>3, <3>1
    <3>3. n \in 2 .. n
      BY <3>2
    <3>4. QED
      BY <3>1, <3>3
  <2>2. Last(r) \in Files
    <3>1. \A k \in 2 .. Len(r) : r[k] \in Files
      BY DEF Reads
    <3>2. QED
      BY <2>1, <3>1 DEF Last
  <2>3. Paths(r) = Contents[Last(r)]
    BY <1>3 DEF Paths
  <2>4. Paths(r) \in Seq(Files)
    BY <2>2, <2>3, ReadAssumption DEF Files
  <2>5. QED
    BY <2>4, LenProperties
<1>4. QED
  BY <1>2, <1>3

\* An entry is a read, of a path of its parent.
LEMMA EntryIsRead ==
  ASSUME NEW r \in Reads, NEW e \in Entries(r)
  PROVE  e \in Reads /\ Parent(e) = r /\ Len(e) = Len(r) + 1 /\ Len(e) > 1
<1>1. PICK path \in Range(Paths(r)) : e = Append(r, path)
  BY DEF Entries
<1>2. path \in Files
  <2>1. PICK k \in DOMAIN Paths(r) : path = Paths(r)[k]
    BY <1>1 DEF Range
  <2>2. QED
    BY <2>1, PathsOfRead, LenProperties, ElementOfSeq
<1>3. r \in Seq(Callers \cup Files) /\ Len(r) \in Nat /\ Len(r) > 0
  BY LenProperties DEF Reads
<1>4. /\ e \in Seq(Callers \cup Files) /\ Len(e) = Len(r) + 1
      /\ \A i \in 1 .. Len(r) : e[i] = r[i]
      /\ e[Len(r) + 1] = path
  BY <1>1, <1>2, <1>3, AppendProperties
<1>5. e \in Reads
  <2>1. e[1] \in Callers
    BY <1>3, <1>4 DEF Reads
  <2>2. ASSUME NEW k \in 2 .. Len(e) PROVE e[k] \in Files
    <3>1. CASE k = Len(r) + 1
      BY <1>2, <1>4, <3>1
    <3>2. CASE k # Len(r) + 1
      <4>1. k \in 2 .. Len(r) /\ k \in 1 .. Len(r)
        BY <1>3, <1>4, <3>2
      <4>2. r[k] \in Files
        BY <4>1 DEF Reads
      <4>3. QED
        BY <1>4, <4>1, <4>2
    <3>3. QED
      BY <3>1, <3>2
  <2>3. QED
    BY <1>3, <1>4, <2>1, <2>2 DEF Reads
<1>6. Parent(e) = r
  <2>1. Parent(e) = SubSeq(e, 1, Len(r))
    BY <1>3, <1>4 DEF Parent, Front
  <2>2. /\ SubSeq(e, 1, Len(r)) \in Seq(Callers \cup Files)
        /\ Len(SubSeq(e, 1, Len(r))) = Len(r)
        /\ \A i \in 1 .. Len(r) : SubSeq(e, 1, Len(r))[i] = e[i]
    <3>1. \A i \in 1 .. Len(r) : e[i] \in Callers \cup Files
      BY <1>3, <1>4, ElementOfSeq
    <3>2. 1 \in Int /\ Len(r) \in Int
      BY <1>3
    <3>3. QED
      BY <1>3, <3>1, <3>2, SubSeqProperties
  <2>3. QED
    BY <1>3, <1>4, <2>1, <2>2, SeqEqual
<1>7. QED
  BY <1>3, <1>4, <1>5, <1>6

\* The parent of a read that is not outermost is a read.
LEMMA ParentIsRead ==
  ASSUME NEW r \in Reads, Len(r) > 1
  PROVE  Parent(r) \in Reads /\ Len(Parent(r)) = Len(r) - 1
<1>1. r \in Seq(Callers \cup Files) /\ Len(r) \in Nat
  BY LenProperties DEF Reads
<1>2. /\ Parent(r) \in Seq(Callers \cup Files)
      /\ Len(Parent(r)) = Len(r) - 1
      /\ \A i \in 1 .. Len(r) - 1 : Parent(r)[i] = r[i]
  <2>1. \A i \in 1 .. Len(r) - 1 : r[i] \in Callers \cup Files
    BY <1>1, ElementOfSeq
  <2>2. 1 \in Int /\ Len(r) - 1 \in Int /\ 1 <= Len(r) - 1
    BY <1>1
  <2>3. /\ SubSeq(r, 1, Len(r) - 1) \in Seq(Callers \cup Files)
        /\ Len(SubSeq(r, 1, Len(r) - 1)) = (Len(r) - 1) - 1 + 1
        /\ \A i \in 1 .. (Len(r) - 1) - 1 + 1 : SubSeq(r, 1, Len(r) - 1)[i] = r[1 + i - 1]
    BY <2>1, <2>2, SubSeqProperties
  <2>4. QED
    BY <1>1, <2>3 DEF Parent, Front
<1>3. Parent(r)[1] \in Callers /\ \A k \in 2 .. Len(Parent(r)) : Parent(r)[k] \in Files
  BY <1>1, <1>2 DEF Reads
<1>4. QED
  BY <1>1, <1>2, <1>3 DEF Reads

\* A read has no more entries than paths.
LEMMA EntriesAreFinite ==
  ASSUME NEW r \in Reads
  PROVE  /\ IsFiniteSet(Entries(r)) /\ Cardinality(Entries(r)) \in Nat
         /\ Cardinality(Entries(r)) <= Len(Paths(r))
<1> DEFINE n == Len(Paths(r))
<1>1. n \in Nat /\ DOMAIN Paths(r) = 1 .. n
  BY PathsOfRead, LenProperties
<1>2. Entries(r) = {Append(r, Paths(r)[k]) : k \in 1 .. n}
  BY <1>1 DEF Entries, Range
<1>3. IsFiniteSet(1 .. n) /\ Cardinality(1 .. n) = n
  <2>1. IsFiniteSet(1 .. n) /\ Cardinality(1 .. n) = IF 1 <= n THEN n - 1 + 1 ELSE 0
    BY <1>1, FS_Interval
  <2>2. QED
    BY <1>1, <2>1
<1> DEFINE entry == [k \in 1 .. n |-> Append(r, Paths(r)[k])]
<1>4. entry \in Surjection(1 .. n, Entries(r))
  <2>1. entry \in [1 .. n -> Entries(r)]
    BY <1>2
  <2>2. ASSUME NEW e \in Entries(r) PROVE \E k \in 1 .. n : entry[k] = e
    BY <1>2
  <2>3. QED
    BY <2>1, <2>2 DEF Surjection
<1>5. IsFiniteSet(Entries(r)) /\ Cardinality(Entries(r)) <= n
  <2> HIDE DEF entry
  <2>1. IsFiniteSet(Entries(r)) /\ Cardinality(Entries(r)) <= Cardinality(1 .. n)
    BY <1>3, <1>4, FS_Surjection, Zenon
  <2>2. QED
    BY <1>3, <2>1
<1>6. QED
  BY <1>5, FS_CardinalityType

\* A read of one path or more has an entry, of one path exactly one.
LEMMA EntriesOfPaths ==
  ASSUME NEW r \in Reads
  PROVE  /\ Paths(r) = <<>> => Entries(r) = {}
         /\ Paths(r) # <<>> => Entries(r) # {}
         /\ Paths(r) # <<>> /\ ~InThreads(r) => \E e \in Entries(r) : Entries(r) = {e}
<1> DEFINE n == Len(Paths(r))
<1>1. /\ n \in Nat /\ DOMAIN Paths(r) = 1 .. n /\ Paths(r) \in Seq(Files)
      /\ Paths(r) = <<>> <=> n = 0
  BY PathsOfRead, LenProperties, EmptySeq
<1>2. Entries(r) = {Append(r, Paths(r)[k]) : k \in 1 .. n}
  BY <1>1 DEF Entries, Range
<1>3. n = 0 => 1 .. n = {}
  BY <1>1
<1>4. n # 0 => 1 \in 1 .. n
  BY <1>1
<1>5. n # 0 /\ ~InThreads(r) => 1 .. n = {1}
  <2>1. n # 0 /\ ~(n > 1) => n = 1
    BY <1>1
  <2>2. QED
    BY <2>1 DEF InThreads
<1> HIDE DEF n
<1>6. n # 0 /\ ~InThreads(r) => Entries(r) = {Append(r, Paths(r)[1])}
  BY <1>2, <1>5
<1>7. QED
  BY <1>1, <1>2, <1>3, <1>4, <1>6

\* A finite set as a sequence without repetition.
LEMMA SequenceOfSet ==
  ASSUME NEW S, IsFiniteSet(S), NEW q, q = SetToSeq(S)
  PROVE  /\ q \in Seq(S) /\ Len(q) = Cardinality(S)
         /\ \A i, j \in 1 .. Len(q) : q[i] = q[j] => i = j
<1> DEFINE n == Cardinality(S)
<1>1. n \in Nat /\ ExistsBijection(1 .. n, S)
  BY FS_CardinalityType
<1>2. \E f \in [1 .. n -> S] : IsInjective(f)
  BY <1>1 DEF ExistsBijection, Bijection, Injection
<1>3. q \in [1 .. n -> S] /\ IsInjective(q)
  BY <1>2, Zenon DEF SetToSeq
<1>4. q \in Seq(S)
  BY <1>1, <1>3, SeqDef
<1>5. Len(q) = n /\ DOMAIN q = 1 .. n
  BY <1>1, <1>3, <1>4, LenProperties
<1>6. QED
  BY <1>3, <1>4, <1>5 DEF IsInjective

\* The frame of a read that begins.
LEMMA EnteredFrame ==
  ASSUME NEW r \in Reads, NEW f, f = Entered(r)
  PROVE  /\ f \in FrameRecord /\ f.read = r
         /\ f.step \in {"add", "inline", "assign"}
         /\ f.step = "add" <=> InThreads(r)
         /\ f.step = "assign" => Entries(r) = {}
         /\ f.step \in {"add", "inline"} => f.todo # <<>>
         /\ \A i, j \in 1 .. Len(f.todo) : f.todo[i] = f.todo[j] => i = j
         /\ \A i \in 1 .. Len(f.todo) : f.todo[i] \in Entries(r)
         /\ f.step = "inline" => Entries(r) = {f.todo[1]}
<1>1. /\ f.read = r /\ f.todo = SetToSeq(Entries(r))
      /\ f.step = IF InThreads(r) THEN "add" ELSE IF Paths(r) # <<>> THEN "inline" ELSE "assign"
      /\ f = [read |-> r, todo |-> f.todo, step |-> f.step]
  BY DEF Entered
<1>2. /\ f.todo \in Seq(Entries(r)) /\ Len(f.todo) = Cardinality(Entries(r))
      /\ \A i, j \in 1 .. Len(f.todo) : f.todo[i] = f.todo[j] => i = j
  BY <1>1, EntriesAreFinite, SequenceOfSet
<1>3. Entries(r) \subseteq Reads
  BY EntryIsRead
<1>4. f.todo \in Seq(Reads)
  BY <1>2, <1>3, SeqMonotonic
<1>5. f \in FrameRecord
  BY <1>1, <1>4 DEF FrameRecord
<1>6. \A i \in 1 .. Len(f.todo) : f.todo[i] \in Entries(r)
  BY <1>2, ElementOfSeq
<1>7. InThreads(r) => Paths(r) # <<>>
  <2>1. Len(<<>>) = 0
    OBVIOUS
  <2>2. QED
    BY <2>1 DEF InThreads
<1>8. Paths(r) # <<>> => Len(f.todo) # 0 /\ f.todo # <<>>
  <2>1. Paths(r) # <<>> => Cardinality(Entries(r)) # 0
    BY EntriesAreFinite, EntriesOfPaths, FS_EmptySet
  <2>2. QED
    BY <1>2, <2>1, EmptySeq
<1>9. f.step = "inline" => Entries(r) = {f.todo[1]}
  <2>1. Len(f.todo) # 0 => 1 \in 1 .. Len(f.todo)
    BY <1>2, EntriesAreFinite
  <2>2. f.step = "inline" => Paths(r) # <<>> /\ ~InThreads(r)
    BY <1>1
  <2>3. QED
    BY <1>6, <1>8, <2>1, <2>2, EntriesOfPaths
<1>10. f.step = "assign" => Entries(r) = {}
  BY <1>1, EntriesOfPaths
<1>11. QED
  BY <1>1, <1>2, <1>5, <1>6, <1>7, <1>8, <1>9, <1>10

--------------------------------------------------------------------------------
(* Stacks.                                                                 *)

\* The stack of a thread, and its top.
LEMMA StackOf ==
  ASSUME ReadTypes, NEW t \in Threads
  PROVE  /\ stack[t] \in Seq(FrameRecord) /\ Len(stack[t]) \in Nat
         /\ DOMAIN stack[t] = 1 .. Len(stack[t])
         /\ \A i \in 1 .. Len(stack[t]) : stack[t][i] \in FrameRecord
         /\ stack[t] = <<>> <=> Len(stack[t]) = 0
         /\ stack[t] # <<>> => /\ Len(stack[t]) \in 1 .. Len(stack[t])
                               /\ Top(t) = stack[t][Len(stack[t])]
                               /\ Top(t) \in Stacked /\ Top(t).read \in Reading
<1>1. stack[t] \in Seq(FrameRecord)
  BY DEF ReadTypes
<1>2. /\ Len(stack[t]) \in Nat /\ DOMAIN stack[t] = 1 .. Len(stack[t])
      /\ \A i \in 1 .. Len(stack[t]) : stack[t][i] \in FrameRecord
      /\ stack[t] = <<>> <=> Len(stack[t]) = 0
  BY <1>1, LenProperties, ElementOfSeq, EmptySeq
<1>3. Len(stack[t]) # 0 => Len(stack[t]) \in 1 .. Len(stack[t])
  BY <1>2
<1>4. Top(t) = stack[t][Len(stack[t])]
  BY DEF Top, Last
<1>5. Len(stack[t]) # 0 => Top(t) \in Stacked
  BY <1>2, <1>3, <1>4 DEF Stacked
<1>6. QED
  BY <1>1, <1>2, <1>3, <1>4, <1>5 DEF Reading

\* A read on a stack has one frame.
LEMMA OneFrame ==
  ASSUME ReadTypes, PlacesDiffer
  PROVE  /\ \A f \in Stacked : /\ f \in FrameRecord /\ f.read \in Reads /\ f.read \in Reading
                               /\ f.todo \in Seq(Reads)
         /\ \A f, g \in Stacked : f.read = g.read => f = g
         /\ Reading \subseteq Reads
<1>1. \A f \in Stacked : f \in FrameRecord /\ f.read \in Reads /\ f.todo \in Seq(Reads)
  BY DEF Stacked, FrameRecord
<1>2. ASSUME NEW f \in Stacked, NEW g \in Stacked, f.read = g.read PROVE f = g
  <2>1. PICK t, i : t \in Threads /\ i \in 1 .. Len(stack[t]) /\ stack[t][i] = f
    BY DEF Stacked
  <2>2. PICK u, j : u \in Threads /\ j \in 1 .. Len(stack[u]) /\ stack[u][j] = g
    BY DEF Stacked
  <2>3. t = u /\ i = j
    BY <1>2, <2>1, <2>2 DEF PlacesDiffer
  <2>4. QED
    BY <2>1, <2>2, <2>3
<1>3. QED
  BY <1>1, <1>2 DEF Reading

\* A frame that is not the top stands on its stack below it.
LEMMA TopIsOne ==
  ASSUME ReadTypes, PlacesDiffer, NEW t \in Threads, stack[t] # <<>>,
         NEW u \in Threads, NEW i \in 1 .. Len(stack[u]), stack[u][i].read = Top(t).read
  PROVE  u = t /\ i = Len(stack[t])
BY StackOf DEF PlacesDiffer

\* The top of a stack changes, and remains the frame of its read.
LEMMA ChangedTop ==
  ASSUME ReadTypes, PlacesDiffer, StacksAreNested,
         NEW t \in Threads, stack[t] # <<>>, NEW g \in FrameRecord,
         g.read = Top(t).read, stack' = SetTop(t, g)
  PROVE  /\ stack' \in [Threads -> Seq(FrameRecord)]
         /\ PlacesDiffer' /\ StacksAreNested'
         /\ Stacked' = (Stacked \ {Top(t)}) \cup {g}
         /\ Reading' = Reading
<1> DEFINE d == Len(stack[t])
<1>1. /\ d \in Nat /\ d \in 1 .. d /\ stack[t] \in Seq(FrameRecord) /\ Top(t) = stack[t][d]
      /\ \A u \in Threads : Len(stack[u]) \in Nat
      /\ \A u \in Threads : \A i \in 1 .. Len(stack[u]) : stack[u][i] \in FrameRecord
  BY StackOf
<1>2. /\ Append(Front(stack[t]), g) \in Seq(FrameRecord)
      /\ Len(Append(Front(stack[t]), g)) = d
      /\ \A i \in 1 .. d : Append(Front(stack[t]), g)[i] = IF i = d THEN g ELSE stack[t][i]
  <2>1. \A i \in 1 .. d - 1 : stack[t][i] \in FrameRecord
    BY <1>1
  <2>2. 1 \in Int /\ d - 1 \in Int
    BY <1>1
  <2>3. /\ Front(stack[t]) \in Seq(FrameRecord)
        /\ Len(Front(stack[t])) = IF 1 <= d - 1 THEN (d - 1) - 1 + 1 ELSE 0
        /\ \A i \in 1 .. (d - 1) - 1 + 1 : Front(stack[t])[i] = stack[t][1 + i - 1]
    BY <2>1, <2>2, SubSeqProperties DEF Front
  <2>4. Len(Front(stack[t])) = d - 1 /\ \A i \in 1 .. d - 1 : Front(stack[t])[i] = stack[t][i]
    <3> HIDE DEF d
    <3>1. (d - 1) - 1 + 1 = d - 1 /\ (~(1 <= d - 1) => d - 1 = 0)
      BY <1>1
    <3>2. QED
      BY <1>1, <2>3, <3>1
  <2>5. /\ Append(Front(stack[t]), g) \in Seq(FrameRecord)
        /\ Len(Append(Front(stack[t]), g)) = (d - 1) + 1
        /\ \A i \in 1 .. d - 1 : Append(Front(stack[t]), g)[i] = Front(stack[t])[i]
        /\ Append(Front(stack[t]), g)[(d - 1) + 1] = g
    BY <2>3, <2>4, AppendProperties
  <2>6. QED
    BY <1>1, <2>4, <2>5
<1>3. stack' = [stack EXCEPT ![t] = Append(Front(stack[t]), g)]
  BY DEF SetTop
<1>4. /\ stack' \in [Threads -> Seq(FrameRecord)]
      /\ \A u \in Threads : Len(stack'[u]) = Len(stack[u])
      /\ \A u \in Threads : \A i \in 1 .. Len(stack[u]) :
            stack'[u][i] = IF u = t /\ i = d THEN g ELSE stack[u][i]
  BY <1>2, <1>3 DEF ReadTypes
<1> HIDE DEF d
<1>5. \A u \in Threads : \A i \in 1 .. Len(stack[u]) : stack'[u][i].read = stack[u][i].read
  BY <1>1, <1>4
<1>6. PlacesDiffer'
  BY <1>4, <1>5 DEF PlacesDiffer
<1>7. StacksAreNested'
  <2>1. ASSUME NEW u \in Threads, NEW i \in 1 .. Len(stack[u]) PROVE Nested(u, i)'
    <3>1. Nested(u, i)
      BY DEF StacksAreNested
    <3>2. i > 1 => i - 1 \in 1 .. Len(stack[u])
      BY <1>1
    <3>3. i < Len(stack[u]) => stack'[u][i] = stack[u][i]
      BY <1>1, <1>4 DEF d
    <3>4. QED
      BY <1>4, <1>5, <3>1, <3>2, <3>3 DEF Nested
  <2>2. QED
    BY <1>4, <2>1 DEF StacksAreNested
<1>8. Stacked' = (Stacked \ {Top(t)}) \cup {g}
  <2>1. ASSUME NEW f \in Stacked' PROVE f \in (Stacked \ {Top(t)}) \cup {g}
    <3>1. PICK u, i : u \in Threads /\ i \in 1 .. Len(stack[u]) /\ stack'[u][i] = f
      BY <1>4 DEF Stacked
    <3>2. CASE u = t /\ i = d
      BY <1>4, <3>1, <3>2
    <3>3. CASE ~(u = t /\ i = d)
      <4>1. stack[u][i] = f /\ f \in FrameRecord
        BY <1>1, <1>4, <3>1, <3>3
      <4>2. f # Top(t)
        BY <3>1, <3>3, <4>1, TopIsOne DEF d
      <4>3. QED
        BY <3>1, <4>1, <4>2 DEF Stacked
    <3>4. QED
      BY <3>2, <3>3
  <2>2. g \in Stacked'
    <3>1. stack'[t][d] = g /\ d \in 1 .. Len(stack'[t])
      BY <1>1, <1>4 DEF d
    <3>2. QED
      BY <3>1 DEF Stacked
  <2>3. ASSUME NEW f \in Stacked, f # Top(t) PROVE f \in Stacked'
    <3>1. PICK u, i : u \in Threads /\ i \in 1 .. Len(stack[u]) /\ stack[u][i] = f
      BY DEF Stacked
    <3>2. ~(u = t /\ i = d)
      BY <1>1, <2>3, <3>1
    <3>3. stack'[u][i] = f /\ i \in 1 .. Len(stack'[u])
      BY <1>4, <3>1, <3>2
    <3>4. f \in FrameRecord
      BY DEF Stacked
    <3>5. QED
      BY <3>1, <3>3, <3>4 DEF Stacked
  <2>4. QED
    BY <2>1, <2>2, <2>3
<1>9. Reading' = Reading
  <2>1. Top(t) \in Stacked
    BY StackOf
  <2>2. QED
    BY <1>8, <2>1 DEF Reading
<1>10. QED
  BY <1>4, <1>6, <1>7, <1>8, <1>9

\* A frame is put on a stack, for a read that is on none.
LEMMA PushedFrame ==
  ASSUME ReadTypes, PlacesDiffer, StacksAreNested,
         NEW t \in Threads, NEW g \in FrameRecord,
         stack' = [stack EXCEPT ![t] = Append(@, g)],
         g.read \notin Reading, Len(g.read) > 1,
         stack[t] # <<>> => Top(t).step \in {"run", "inline"},
         ~IsOperation(g.read) => stack[t] # <<>> /\ Top(t).read = Parent(g.read)
  PROVE  /\ stack' \in [Threads -> Seq(FrameRecord)]
         /\ PlacesDiffer' /\ StacksAreNested'
         /\ Stacked' = Stacked \cup {g}
         /\ Reading' = Reading \cup {g.read}
<1> DEFINE d == Len(stack[t])
<1>1. /\ d \in Nat /\ stack[t] \in Seq(FrameRecord)
      /\ d # 0 => d \in 1 .. d /\ Top(t) = stack[t][d] /\ stack[t] # <<>>
      /\ stack[t] # <<>> => d # 0
      /\ \A u \in Threads : Len(stack[u]) \in Nat
      /\ \A u \in Threads : \A i \in 1 .. Len(stack[u]) : stack[u][i] \in FrameRecord
  BY StackOf
<1>2. /\ Append(stack[t], g) \in Seq(FrameRecord)
      /\ Len(Append(stack[t], g)) = d + 1
      /\ \A i \in 1 .. d : Append(stack[t], g)[i] = stack[t][i]
      /\ Append(stack[t], g)[d + 1] = g
  BY <1>1, AppendProperties
<1>3. /\ stack' \in [Threads -> Seq(FrameRecord)]
      /\ \A u \in Threads : Len(stack'[u]) = IF u = t THEN d + 1 ELSE Len(stack[u])
      /\ \A u \in Threads : \A i \in 1 .. Len(stack[u]) : stack'[u][i] = stack[u][i]
      /\ stack'[t][d + 1] = g
  BY <1>2 DEF ReadTypes
<1> HIDE DEF d
<1>4. ASSUME NEW u \in Threads, NEW i \in 1 .. Len(stack'[u])
      PROVE  \/ u = t /\ i = d + 1 /\ stack'[u][i] = g
             \/ i \in 1 .. Len(stack[u]) /\ stack'[u][i] = stack[u][i]
                /\ stack[u][i] \in Stacked
  <2>1. CASE u = t /\ i = d + 1
    BY <1>3, <2>1
  <2>2. CASE ~(u = t /\ i = d + 1)
    <3>1. i \in 1 .. Len(stack[u])
      BY <1>1, <1>3, <2>2 DEF d
    <3>2. QED
      BY <1>1, <1>3, <3>1 DEF Stacked
  <2>3. QED
    BY <2>1, <2>2
<1>5. PlacesDiffer'
  <2>1. ASSUME NEW u \in Threads, NEW v \in Threads,
               NEW i \in 1 .. Len(stack'[u]), NEW j \in 1 .. Len(stack'[v]),
               stack'[u][i].read = stack'[v][j].read
        PROVE  u = v /\ i = j
    <3>1. CASE u = t /\ i = d + 1 /\ stack'[u][i] = g
      <4>1. ~(stack'[v][j] \in Stacked)
        BY <2>1, <3>1 DEF Reading
      <4>2. QED
        BY <1>4, <3>1, <4>1
    <3>2. CASE v = t /\ j = d + 1 /\ stack'[v][j] = g
      <4>1. ~(stack'[u][i] \in Stacked)
        BY <2>1, <3>2 DEF Reading
      <4>2. QED
        BY <1>4, <3>2, <4>1
    <3>3. CASE /\ i \in 1 .. Len(stack[u]) /\ stack'[u][i] = stack[u][i]
               /\ j \in 1 .. Len(stack[v]) /\ stack'[v][j] = stack[v][j]
      BY <2>1, <3>3 DEF PlacesDiffer
    <3>4. QED
      BY <1>4, <3>1, <3>2, <3>3
  <2>2. QED
    BY <2>1 DEF PlacesDiffer
<1>6. StacksAreNested'
  <2>1. ASSUME NEW u \in Threads, NEW i \in 1 .. Len(stack'[u]) PROVE Nested(u, i)'
    <3>1. CASE u = t /\ i = d + 1 /\ stack'[u][i] = g
      <4>1. ~(i < Len(stack'[u]))
        BY <1>1, <1>3, <3>1
      <4>2. ~IsOperation(g.read) =>
               /\ i > 1 /\ stack'[u][i - 1].read = Parent(g.read)
        <5>1. d # 0 => stack'[t][d] = stack[t][d] /\ (d + 1) - 1 = d /\ d + 1 > 1
          BY <1>1, <1>3 DEF d
        <5>2. QED
          BY <1>1, <3>1, <5>1
      <4>3. ~(Len(g.read) = 1)
        <5>1. \A n : n > 1 => n # 1
          OBVIOUS
        <5>2. QED
          BY <5>1
      <4>4. QED
        BY <3>1, <4>1, <4>2, <4>3 DEF Nested
    <3>2. CASE i \in 1 .. Len(stack[u]) /\ stack'[u][i] = stack[u][i]
      <4>1. Nested(u, i)
        BY <3>2 DEF StacksAreNested
      <4>2. i > 1 => i - 1 \in 1 .. Len(stack[u]) /\ stack'[u][i - 1] = stack[u][i - 1]
        BY <1>1, <1>3, <3>2
      <4>3. i < Len(stack'[u]) => stack[u][i].step \in {"run", "inline"}
        <5>1. CASE i < Len(stack[u])
          BY <4>1, <5>1 DEF Nested
        <5>2. CASE ~(i < Len(stack[u]))
          <6>1. i = Len(stack[u]) /\ Len(stack[u]) # 0
            BY <1>1, <3>2, <5>2
          <6>2. i < Len(stack'[u]) => u = t /\ i = d
            BY <1>1, <1>3, <6>1 DEF d
          <6>3. QED
            BY <1>1, <6>1, <6>2 DEF d
        <5>3. QED
          BY <5>1, <5>2
      <4>4. QED
        BY <3>2, <4>1, <4>2, <4>3 DEF Nested
    <3>3. QED
      BY <1>4, <3>1, <3>2
  <2>2. QED
    BY <2>1 DEF StacksAreNested
<1>7. Stacked' = Stacked \cup {g}
  <2>1. ASSUME NEW f \in Stacked' PROVE f \in Stacked \cup {g}
    <3>1. PICK u, i : u \in Threads /\ i \in 1 .. Len(stack'[u]) /\ stack'[u][i] = f
      BY DEF Stacked
    <3>2. QED
      BY <1>4, <3>1
  <2>2. g \in Stacked'
    <3>1. d + 1 \in 1 .. Len(stack'[t])
      BY <1>1, <1>3
    <3>2. QED
      BY <1>3, <3>1 DEF Stacked
  <2>3. ASSUME NEW f \in Stacked PROVE f \in Stacked'
    <3>1. PICK u, i : u \in Threads /\ i \in 1 .. Len(stack[u]) /\ stack[u][i] = f
      BY DEF Stacked
    <3>2. i \in 1 .. Len(stack'[u]) /\ stack'[u][i] = f
      BY <1>1, <1>3, <3>1 DEF d
    <3>3. f \in FrameRecord
      BY DEF Stacked
    <3>4. QED
      BY <3>1, <3>2, <3>3 DEF Stacked
  <2>4. QED
    BY <2>1, <2>2, <2>3
<1>8. Reading' = Reading \cup {g.read}
  BY <1>7 DEF Reading
<1>9. QED
  BY <1>3, <1>5, <1>6, <1>7, <1>8

\* The top of a stack is taken away.
LEMMA PoppedFrame ==
  ASSUME ReadTypes, PlacesDiffer, StacksAreNested,
         NEW t \in Threads, stack[t] # <<>>, stack' = [stack EXCEPT ![t] = Front(@)]
  PROVE  /\ stack' \in [Threads -> Seq(FrameRecord)]
         /\ PlacesDiffer' /\ StacksAreNested'
         /\ Stacked' = Stacked \ {Top(t)}
         /\ Reading' = Reading \ {Top(t).read}
<1> DEFINE d == Len(stack[t])
<1>1. /\ d \in Nat /\ d # 0 /\ d \in 1 .. d /\ stack[t] \in Seq(FrameRecord) /\ Top(t) = stack[t][d]
      /\ \A u \in Threads : Len(stack[u]) \in Nat
      /\ \A u \in Threads : \A i \in 1 .. Len(stack[u]) : stack[u][i] \in FrameRecord
  BY StackOf
<1>2. /\ Front(stack[t]) \in Seq(FrameRecord)
      /\ Len(Front(stack[t])) = d - 1
      /\ \A i \in 1 .. d - 1 : Front(stack[t])[i] = stack[t][i]
  <2>1. \A i \in 1 .. d - 1 : stack[t][i] \in FrameRecord
    BY <1>1
  <2>2. 1 \in Int /\ d - 1 \in Int
    BY <1>1
  <2>3. /\ Front(stack[t]) \in Seq(FrameRecord)
        /\ Len(Front(stack[t])) = IF 1 <= d - 1 THEN (d - 1) - 1 + 1 ELSE 0
        /\ \A i \in 1 .. (d - 1) - 1 + 1 : Front(stack[t])[i] = stack[t][1 + i - 1]
    BY <2>1, <2>2, SubSeqProperties DEF Front
  <2> HIDE DEF d
  <2>4. (d - 1) - 1 + 1 = d - 1 /\ (~(1 <= d - 1) => d - 1 = 0)
    BY <1>1
  <2>5. QED
    BY <1>1, <2>3, <2>4
<1>3. /\ stack' \in [Threads -> Seq(FrameRecord)]
      /\ \A u \in Threads : Len(stack'[u]) = IF u = t THEN d - 1 ELSE Len(stack[u])
      /\ \A u \in Threads : \A i \in 1 .. Len(stack'[u]) :
            i \in 1 .. Len(stack[u]) /\ stack'[u][i] = stack[u][i]
  <2>1. /\ stack' \in [Threads -> Seq(FrameRecord)]
        /\ stack'[t] = Front(stack[t]) /\ \A u \in Threads \ {t} : stack'[u] = stack[u]
    BY <1>2 DEF ReadTypes
  <2>2. \A i \in 1 .. d - 1 : i \in 1 .. d
    BY <1>1
  <2>3. QED
    BY <1>2, <2>1, <2>2
<1> HIDE DEF d
<1>4. PlacesDiffer'
  BY <1>3 DEF PlacesDiffer
<1>5. StacksAreNested'
  <2>1. ASSUME NEW u \in Threads, NEW i \in 1 .. Len(stack'[u]) PROVE Nested(u, i)'
    <3>1. Nested(u, i) /\ i \in 1 .. Len(stack[u]) /\ stack'[u][i] = stack[u][i]
      BY <1>3 DEF StacksAreNested
    <3>2. Len(stack'[u]) \in Nat /\ Len(stack'[u]) <= Len(stack[u])
      BY <1>1, <1>3 DEF d
    <3>3. i > 1 => i - 1 \in 1 .. Len(stack'[u]) /\ stack'[u][i - 1] = stack[u][i - 1]
      BY <1>3, <3>2
    <3>4. i < Len(stack'[u]) => i < Len(stack[u])
      BY <1>1, <3>2
    <3>5. QED
      BY <3>1, <3>3, <3>4 DEF Nested
  <2>2. QED
    BY <2>1 DEF StacksAreNested
<1>6. Stacked' = Stacked \ {Top(t)}
  <2>1. ASSUME NEW f \in Stacked' PROVE f \in Stacked \ {Top(t)}
    <3>1. PICK u, i : u \in Threads /\ i \in 1 .. Len(stack'[u]) /\ stack'[u][i] = f
      BY DEF Stacked
    <3>2. i \in 1 .. Len(stack[u]) /\ stack[u][i] = f /\ f \in FrameRecord
      BY <1>1, <1>3, <3>1
    <3>3. ~(u = t /\ i = d)
      BY <1>1, <1>3, <3>1
    <3>4. f # Top(t)
      BY <3>1, <3>2, <3>3, TopIsOne DEF d
    <3>5. QED
      BY <3>1, <3>2, <3>4 DEF Stacked
  <2>2. ASSUME NEW f \in Stacked, f # Top(t) PROVE f \in Stacked'
    <3>1. PICK u, i : u \in Threads /\ i \in 1 .. Len(stack[u]) /\ stack[u][i] = f
      BY DEF Stacked
    <3>2. ~(u = t /\ i = d)
      BY <1>1, <2>2, <3>1
    <3>3. i \in 1 .. Len(stack'[u])
      BY <1>1, <1>3, <3>1, <3>2 DEF d
    <3>4. stack'[u][i] = f /\ f \in FrameRecord
      BY <1>3, <3>1, <3>3 DEF Stacked
    <3>5. QED
      BY <3>1, <3>3, <3>4 DEF Stacked
  <2>3. QED
    BY <2>1, <2>2
<1>7. Reading' = Reading \ {Top(t).read}
  <2>1. Top(t) \in Stacked /\ \A f \in Stacked : f.read = Top(t).read => f = Top(t)
    BY StackOf, OneFrame
  <2>2. QED
    BY <1>6, <2>1 DEF Reading
<1>8. QED
  BY <1>3, <1>4, <1>5, <1>6, <1>7

--------------------------------------------------------------------------------
(* The queue.                                                              *)

\* The operation at the front is taken.
LEMMA TakenOperation ==
  ASSUME ReadTypes, QueueIsSound, queue # <<>>, queue' = Tail(queue)
  PROVE  /\ Head(queue) \in Queued
         /\ queue' \in Seq(Reads)
         /\ \A i, j \in 1 .. Len(queue') : queue'[i] = queue'[j] => i = j
         /\ Queued' = Queued \ {Head(queue)}
<1> DEFINE n == Len(queue)
<1>1. queue \in Seq(Reads) /\ n \in Nat /\ n # 0
  BY LenProperties, EmptySeq DEF ReadTypes
<1>2. \A i \in 1 .. n : queue[i] \in Reads
  BY <1>1, ElementOfSeq
<1>3. Head(queue) = queue[1] /\ 1 \in 1 .. n
  BY <1>1, HeadTailProperties
<1>4. /\ queue' \in Seq(Reads) /\ Len(queue') = n - 1
      /\ \A i \in 1 .. n - 1 : queue'[i] = queue[i + 1]
  BY <1>1, HeadTailProperties
<1>5. \A i, j \in 1 .. n : queue[i] = queue[j] => i = j
  BY DEF QueueIsSound
<1> HIDE DEF n
<1>6. \A i \in 1 .. n - 1 : i + 1 \in 1 .. n /\ i + 1 # 1
  BY <1>1
<1>7. \A i, j \in 1 .. Len(queue') : queue'[i] = queue'[j] => i = j
  <2>1. ASSUME NEW i \in 1 .. n - 1, NEW j \in 1 .. n - 1, queue'[i] = queue'[j]
        PROVE  i = j
    <3>1. i + 1 = j + 1
      BY <1>4, <1>5, <1>6, <2>1
    <3>2. QED
      BY <1>1, <3>1
  <2>2. QED
    BY <1>4, <2>1
<1>8. Queued' = Queued \ {Head(queue)}
  <2>1. ASSUME NEW r \in Queued' PROVE r \in Queued \ {Head(queue)}
    <3>1. PICK i \in 1 .. n - 1 : queue'[i] = r
      BY <1>4 DEF Queued
    <3>2. queue[i + 1] = r /\ i + 1 \in 1 .. n /\ i + 1 # 1
      BY <1>4, <1>6, <3>1
    <3>3. r # queue[1]
      BY <1>3, <1>5, <3>2
    <3>4. QED
      BY <1>2, <1>3, <3>2, <3>3 DEF Queued, n
  <2>2. ASSUME NEW r \in Queued, r # Head(queue) PROVE r \in Queued'
    <3>1. PICK i \in 1 .. n : queue[i] = r
      BY DEF Queued, n
    <3>2. i - 1 \in 1 .. n - 1 /\ (i - 1) + 1 = i
      BY <1>1, <1>3, <2>2, <3>1
    <3>3. queue'[i - 1] = r
      BY <1>4, <3>1, <3>2
    <3>4. QED
      BY <1>4, <3>2, <3>3 DEF Queued
  <2>3. QED
    BY <2>1, <2>2
<1>9. QED
  BY <1>2, <1>3, <1>4, <1>7, <1>8 DEF Queued, n

\* An operation that is not in the queue is added at the end.
LEMMA AddedOperation ==
  ASSUME ReadTypes, QueueIsSound, NEW e \in Reads, e \notin Queued, queue' = Append(queue, e)
  PROVE  /\ queue' \in Seq(Reads)
         /\ \A i, j \in 1 .. Len(queue') : queue'[i] = queue'[j] => i = j
         /\ Queued' = Queued \cup {e}
<1> DEFINE n == Len(queue)
<1>1. queue \in Seq(Reads) /\ n \in Nat
  BY LenProperties DEF ReadTypes
<1>2. \A i \in 1 .. n : queue[i] \in Reads /\ queue[i] # e
  BY <1>1, ElementOfSeq DEF Queued
<1>3. /\ queue' \in Seq(Reads) /\ Len(queue') = n + 1 /\ queue'[n + 1] = e
      /\ \A i \in 1 .. n : queue'[i] = queue[i]
  BY <1>1, AppendProperties
<1>4. \A i, j \in 1 .. n : queue[i] = queue[j] => i = j
  BY DEF QueueIsSound
<1>5. Queued = {r \in Reads : \E i \in 1 .. n : queue[i] = r}
  BY DEF Queued
<1> HIDE DEF n
<1>6. \A i \in 1 .. n + 1 : i = n + 1 \/ i \in 1 .. n
  BY <1>1
<1>7. n + 1 \in 1 .. n + 1 /\ \A i \in 1 .. n : i \in 1 .. n + 1
  BY <1>1
<1>8. \A i, j \in 1 .. Len(queue') : queue'[i] = queue'[j] => i = j
  BY <1>2, <1>3, <1>4, <1>6
<1>9. Queued' = Queued \cup {e}
  <2>1. Queued' = {r \in Reads : \E i \in 1 .. n + 1 : queue'[i] = r}
    BY <1>3 DEF Queued
  <2>2. QED
    BY <1>2, <1>3, <1>5, <1>6, <1>7, <2>1
<1>10. QED
  BY <1>3, <1>8, <1>9

--------------------------------------------------------------------------------
(* What a step leaves of the invariant.                                    *)

\* The entries of a read that has not begun do not exist.
LEMMA UnbornEntries ==
  ASSUME ReadTypes, Descent, NEW r \in Reads, Len(r) > 1, r \notin Reading \cup objects
  PROVE  \A e \in Entries(r) : e \notin Born
<1>1. ASSUME NEW e \in Entries(r) PROVE e \notin Born
  <2>1. Parent(e) = r /\ Len(e) > 1
    BY EntryIsRead
  <2>2. ~(Len(r) = 1)
    BY LenProperties DEF Reads
  <2>3. QED
    BY <2>1, <2>2 DEF Descent
<1>2. QED
  BY <1>1

\* A frame is sound after a step that leaves its latch, and what is finished of its entries.
LEMMA KeptFrame ==
  ASSUME NEW f, FrameIsSound(f),
         f.step \in {"add", "run", "wait"} =>
            /\ f.read \in DOMAIN latch' /\ latch'[f.read] = latch[f.read]
            /\ Finished(f.read)' = Finished(f.read),
         f.step = "add" => \A i \in 1 .. Len(f.todo) : f.todo[i] \notin Born',
         objects \subseteq objects', f.read \in objects' <=> f.read \in objects
  PROVE  FrameIsSound(f)'
<1>1. Latching(f)'
  BY DEF FrameIsSound, Latching
<1>2. Adding(f)'
  BY DEF FrameIsSound, Adding
<1>3. ReadingInline(f)'
  BY DEF FrameIsSound, ReadingInline
<1>4. Complete(f)'
  BY DEF FrameIsSound, Complete
<1>5. QED
  BY <1>1, <1>2, <1>3, <1>4 DEF FrameIsSound

\* The finished entries of a read that gets none.
LEMMA KeptFinished ==
  ASSUME NEW r, \A e \in Entries(r) : e \in objects' \ Reading' <=> e \in objects \ Reading
  PROVE  Finished(r)' = Finished(r)
BY DEF Finished

\* Nothing happens to the queue, the stacks, the latches and the entries.
LEMMA NothingRead ==
  ASSUME ReadInv, UNCHANGED <<queue, stack, latch, objects>>
  PROVE  ReadInv'
<1>1. queue' = queue /\ stack' = stack /\ latch' = latch /\ objects' = objects
  OBVIOUS
<1>2. Stacked' = Stacked /\ Queued' = Queued
  BY <1>1 DEF Stacked, Queued
<1>3. Reading' = Reading
  BY <1>2 DEF Reading
<1>4. Born' = Born
  BY <1>1, <1>2, <1>3 DEF Born
<1>5. ReadTypes'
  BY <1>1 DEF ReadInv, ReadTypes
<1>6. QueueIsSound'
  BY <1>1, <1>2, <1>3 DEF ReadInv, QueueIsSound
<1>7. PlacesDiffer' /\ StacksAreNested'
  BY <1>1 DEF ReadInv, PlacesDiffer, StacksAreNested, Nested
<1>8. FramesAreSound'
  <2>1. ASSUME NEW f \in Stacked' PROVE FrameIsSound(f)'
    <3>1. FrameIsSound(f)
      BY <1>2 DEF ReadInv, FramesAreSound
    <3>2. Finished(f.read)' = Finished(f.read)
      BY <1>1, <1>3, KeptFinished
    <3>3. f.step \in {"add", "run", "wait"} => f.read \in DOMAIN latch
      BY <3>1 DEF FrameIsSound, Latching
    <3>4. f.step = "add" => \A i \in 1 .. Len(f.todo) : f.todo[i] \notin Born
      BY <3>1 DEF FrameIsSound, Adding
    <3>5. QED
      BY <1>1, <1>4, <3>1, <3>2, <3>3, <3>4, KeptFrame
  <2>2. QED
    BY <2>1 DEF FramesAreSound
<1>9. Descent'
  BY <1>1, <1>3, <1>4 DEF ReadInv, Descent
<1>10. CallersWait'
  BY <1>2, <1>3 DEF ReadInv, CallersWait
<1>11. QED
  BY <1>5, <1>6, <1>7, <1>8, <1>9, <1>10 DEF ReadInv

\* A thread goes on in its read, and takes nothing and gives nothing.
LEMMA FrameChanges ==
  ASSUME ReadInv, NEW t \in Threads, stack[t] # <<>>, NEW g \in FrameRecord,
         g.read = Top(t).read, stack' = SetTop(t, g), UNCHANGED <<queue, latch, objects>>,
         FrameIsSound(g),
         \/ g.step \in {"add", "run", "wait"}
         \/ \A r \in Queued \cup Reading : IsOperation(r) => Parent(r) # g.read
  PROVE  ReadInv'
<1> DEFINE f == Top(t)
<1>1. /\ ReadTypes /\ QueueIsSound /\ PlacesDiffer /\ StacksAreNested
      /\ FramesAreSound /\ Descent /\ CallersWait
      /\ queue' = queue /\ latch' = latch /\ objects' = objects
  BY DEF ReadInv
<1>2. f \in Stacked /\ f.read \in Reading
  BY <1>1, StackOf
<1>3. /\ stack' \in [Threads -> Seq(FrameRecord)] /\ PlacesDiffer' /\ StacksAreNested'
      /\ Stacked' = (Stacked \ {f}) \cup {g} /\ Reading' = Reading
  BY <1>1, ChangedTop
<1> HIDE DEF f
<1>4. Queued' = Queued /\ Born' = Born
  <2>1. Queued' = Queued
    BY <1>1 DEF Queued
  <2>2. QED
    BY <1>1, <1>3, <2>1 DEF Born
<1>5. ReadTypes'
  BY <1>1, <1>3 DEF ReadTypes
<1>6. QueueIsSound'
  BY <1>1, <1>3, <1>4 DEF QueueIsSound
<1>7. FramesAreSound'
  <2>1. ASSUME NEW h \in Stacked' PROVE FrameIsSound(h)'
    <3>1. FrameIsSound(h)
      BY <1>1, <1>3 DEF FramesAreSound
    <3>2. Finished(h.read)' = Finished(h.read)
      BY <1>1, <1>3, KeptFinished
    <3>3. h.step \in {"add", "run", "wait"} => h.read \in DOMAIN latch
      BY <3>1 DEF FrameIsSound, Latching
    <3>4. h.step = "add" => \A i \in 1 .. Len(h.todo) : h.todo[i] \notin Born
      BY <3>1 DEF FrameIsSound, Adding
    <3>5. QED
      BY <1>1, <1>4, <3>1, <3>2, <3>3, <3>4, KeptFrame
  <2>2. QED
    BY <2>1 DEF FramesAreSound
<1>8. Descent'
  BY <1>1, <1>3, <1>4 DEF Descent
<1>9. CallersWait'
  <2>1. ASSUME NEW r \in Queued \cup Reading, IsOperation(r)
        PROVE  \E h \in Stacked' : h.read = Parent(r) /\ h.step \in {"add", "run", "wait"}
    <3>1. PICK h \in Stacked : h.read = Parent(r) /\ h.step \in {"add", "run", "wait"}
      BY <1>1, <2>1 DEF CallersWait
    <3>2. CASE h = f
      BY <1>3, <2>1, <3>1, <3>2 DEF f
    <3>3. CASE h # f
      BY <1>3, <3>1, <3>3
    <3>4. QED
      BY <3>2, <3>3
  <2>2. QED
    BY <1>3, <1>4, <2>1 DEF CallersWait
<1>10. QED
  BY <1>3, <1>5, <1>6, <1>7, <1>8, <1>9 DEF ReadInv

\* A thread begins a read that has not begun before.
LEMMA ReadBegins ==
  ASSUME ReadInv, NEW t \in Threads, NEW e \in Reads, Len(e) > 1, e \notin Reading \cup objects,
         e \in Entries(Parent(e)), Len(Parent(e)) = 1 \/ Parent(e) \in Reading \cup objects,
         \A f \in Stacked : f.step = "add" => \A i \in 1 .. Len(f.todo) : f.todo[i] # e,
         IsOperation(e) => e \in Queued,
         stack[t] # <<>> => Top(t).step \in {"run", "inline"},
         ~IsOperation(e) => stack[t] # <<>> /\ Top(t).read = Parent(e),
         Begin(t, e), objects' = objects, queue' \in Seq(Reads), Queued' = Queued \ {e},
         \A i, j \in 1 .. Len(queue') : queue'[i] = queue'[j] => i = j
  PROVE  ReadInv'
<1> DEFINE g == Entered(e)
<1>1. /\ ReadTypes /\ QueueIsSound /\ PlacesDiffer /\ StacksAreNested
      /\ FramesAreSound /\ Descent /\ CallersWait
  BY DEF ReadInv
<1>2. /\ g \in FrameRecord /\ g.read = e /\ g.step \in {"add", "inline", "assign"}
      /\ g.step = "add" <=> InThreads(e)
      /\ g.step = "assign" => Entries(e) = {}
      /\ g.step \in {"add", "inline"} => g.todo # <<>>
      /\ \A i, j \in 1 .. Len(g.todo) : g.todo[i] = g.todo[j] => i = j
      /\ \A i \in 1 .. Len(g.todo) : g.todo[i] \in Entries(e)
      /\ g.step = "inline" => Entries(e) = {g.todo[1]}
  BY EnteredFrame
<1>3. /\ stack' \in [Threads -> Seq(FrameRecord)] /\ PlacesDiffer' /\ StacksAreNested'
      /\ Stacked' = Stacked \cup {g} /\ Reading' = Reading \cup {e}
  <2>1. stack' = [stack EXCEPT ![t] = Append(@, g)]
    BY DEF Begin, Push
  <2> HIDE DEF g
  <2>2. QED
    BY <1>1, <1>2, <2>1, PushedFrame
<1> HIDE DEF g
<1>4. Born' \subseteq Born \cup {e} /\ \A x \in Entries(e) : x \notin Born'
  <2>1. Born' \subseteq Born \cup {e}
    BY <1>3 DEF Born
  <2>2. \A x \in Entries(e) : x \notin Born /\ x # e
    <3>1. \A x \in Entries(e) : x \notin Born
      BY <1>1, UnbornEntries
    <3>2. \A x \in Entries(e) : Len(x) = Len(e) + 1 /\ Len(e) \in Nat
      BY EntryIsRead, LenProperties DEF Reads
    <3>3. QED
      BY <3>1, <3>2
  <2>3. QED
    BY <2>1, <2>2
<1>5. /\ latch' \in [DOMAIN latch' -> Int]
      /\ InThreads(e) => e \in DOMAIN latch' /\ latch'[e] = Len(Paths(e))
      /\ \A s \in DOMAIN latch \ {e} : s \in DOMAIN latch' /\ latch'[s] = latch[s]
  <2>1. latch' = Latched(e) /\ latch \in [DOMAIN latch -> Int]
    BY <1>1 DEF Begin, ReadTypes
  <2>2. CASE InThreads(e)
    <3>1. latch' = [s \in DOMAIN latch \cup {e} |-> IF s = e THEN Len(Paths(e)) ELSE latch[s]]
      BY <2>1, <2>2 DEF Latched
    <3>2. Len(Paths(e)) \in Int
      BY PathsOfRead
    <3>3. QED
      BY <2>1, <3>1, <3>2
  <2>3. CASE ~InThreads(e)
    <3>1. latch' = latch
      BY <2>1, <2>3 DEF Latched
    <3>2. QED
      BY <2>1, <2>3, <3>1
  <2>4. QED
    BY <2>2, <2>3
<1>6. ReadTypes'
  BY <1>1, <1>3, <1>5 DEF ReadTypes
<1>7. QueueIsSound'
  BY <1>1, <1>3 DEF QueueIsSound
<1>8. FramesAreSound'
  <2>1. FrameIsSound(g)'
    <3>1. Finished(e)' = {}
      BY <1>4 DEF Finished, Born
    <3>2. Cardinality(Finished(e)') = 0 /\ Len(Paths(e)) \in Nat
      BY <3>1, FS_EmptySet, PathsOfRead
    <3>3. Latching(g)'
      BY <1>2, <1>5, <3>2 DEF Latching
    <3>4. Adding(g)'
      BY <1>2, <1>4 DEF Adding
    <3>5. ReadingInline(g)'
      <4>1. g.step = "inline" => ~InThreads(e)
        BY <1>2
      <4>2. QED
        BY <1>2, <4>1 DEF ReadingInline
    <3>6. Complete(g)'
      BY <1>2 DEF Complete
    <3>7. QED
      BY <3>3, <3>4, <3>5, <3>6 DEF FrameIsSound
  <2>2. ASSUME NEW f \in Stacked PROVE FrameIsSound(f)'
    <3>1. FrameIsSound(f)
      BY <1>1 DEF FramesAreSound
    <3>2. f.read # e
      BY <1>1, OneFrame
    <3>3. f.step \in {"add", "run", "wait"} => f.read \in DOMAIN latch
      BY <3>1 DEF FrameIsSound, Latching
    <3>4. Finished(f.read)' = Finished(f.read)
      BY <1>3, KeptFinished
    <3>5. f.step = "add" => \A i \in 1 .. Len(f.todo) : f.todo[i] \notin Born'
      <4>1. f.step = "add" => \A i \in 1 .. Len(f.todo) : f.todo[i] \notin Born
        BY <3>1 DEF FrameIsSound, Adding
      <4>2. QED
        BY <1>4, <4>1
    <3>6. QED
      BY <1>5, <3>1, <3>2, <3>3, <3>4, <3>5, KeptFrame
  <2>3. QED
    BY <1>3, <2>1, <2>2 DEF FramesAreSound
<1>9. Descent'
  BY <1>1, <1>3, <1>4 DEF Descent
<1>10. CallersWait'
  <2>1. \A r \in Queued' \cup Reading' : IsOperation(r) => r \in Queued \cup Reading
    BY <1>3
  <2>2. QED
    BY <1>1, <1>3, <2>1 DEF CallersWait
<1>11. QED
  BY <1>3, <1>6, <1>7, <1>8, <1>9, <1>10 DEF ReadInv

--------------------------------------------------------------------------------
(* The actions.                                                            *)

\* The next operation is put into the queue.
LEMMA AddOperationInv ==
  ASSUME ReadInv, NEW t \in Threads, AddOperation(t)
  PROVE  ReadInv'
<1> DEFINE f == Top(t)
           e == Head(f.todo)
           rest == Tail(f.todo)
           next == [f EXCEPT !.todo = rest, !.step = IF rest = <<>> THEN "run" ELSE @]
<1>1. /\ ReadTypes /\ QueueIsSound /\ PlacesDiffer /\ StacksAreNested
      /\ FramesAreSound /\ Descent /\ CallersWait
  BY DEF ReadInv
<1>2. /\ stack[t] # <<>> /\ f.step = "add" /\ queue' = Append(queue, e)
      /\ stack' = SetTop(t, next) /\ latch' = latch /\ objects' = objects
  BY DEF AddOperation, At
<1>3. /\ f \in Stacked /\ f \in FrameRecord /\ f.read \in Reads /\ f.read \in Reading
      /\ f.todo \in Seq(Reads) /\ FrameIsSound(f)
  BY <1>1, <1>2, StackOf, OneFrame DEF FramesAreSound
<1>4. /\ InThreads(f.read) /\ f.read \in DOMAIN latch /\ f.todo # <<>>
      /\ \A i, j \in 1 .. Len(f.todo) : f.todo[i] = f.todo[j] => i = j
      /\ \A i \in 1 .. Len(f.todo) : f.todo[i] \in Entries(f.read) /\ f.todo[i] \notin Born
  BY <1>2, <1>3 DEF FrameIsSound, Latching, Adding
<1>5. /\ Len(f.todo) \in Nat /\ Len(f.todo) # 0 /\ e = f.todo[1]
      /\ rest \in Seq(Reads) /\ Len(rest) = Len(f.todo) - 1
      /\ \A i \in 1 .. Len(f.todo) - 1 : rest[i] = f.todo[i + 1]
  BY <1>3, <1>4, LenProperties, EmptySeq, HeadTailProperties
<1>6. PICK g \in FrameRecord : /\ g = next /\ g.read = f.read /\ g.todo = rest
                               /\ g.step = IF rest = <<>> THEN "run" ELSE "add"
  <2>1. /\ next \in FrameRecord /\ next.read = f.read /\ next.todo = rest
        /\ next.step = IF rest = <<>> THEN "run" ELSE "add"
    BY <1>2, <1>3, <1>5 DEF FrameRecord
  <2> HIDE DEF next
  <2>2. QED
    BY <2>1
<1> HIDE DEF f
<1>7. /\ e \in Entries(f.read) /\ e \notin Born
      /\ e \in Reads /\ Parent(e) = f.read /\ Len(e) > 1 /\ IsOperation(e)
  <2>1. 1 \in 1 .. Len(f.todo)
    BY <1>5
  <2>2. e \in Entries(f.read) /\ e \notin Born
    BY <1>4, <1>5, <2>1
  <2>3. e \in Reads /\ Parent(e) = f.read /\ Len(e) > 1
    BY <1>3, <2>2, EntryIsRead
  <2>4. QED
    BY <1>4, <2>2, <2>3 DEF IsOperation
<1>8. /\ \A i \in 1 .. Len(rest) : rest[i] \in Entries(f.read) /\ rest[i] \notin Born /\ rest[i] # e
      /\ \A i, j \in 1 .. Len(rest) : rest[i] = rest[j] => i = j
  <2>1. \A i \in 1 .. Len(rest) : /\ i \in 1 .. Len(f.todo) - 1 /\ i + 1 \in 1 .. Len(f.todo)
                                  /\ i + 1 # 1
    BY <1>5
  <2>2. 1 \in 1 .. Len(f.todo)
    BY <1>5
  <2>3. \A i \in 1 .. Len(rest) : rest[i] \in Entries(f.read) /\ rest[i] \notin Born
    BY <1>4, <1>5, <2>1
  <2>4. \A i \in 1 .. Len(rest) : rest[i] # e
    BY <1>4, <1>5, <2>1, <2>2
  <2>5. ASSUME NEW i \in 1 .. Len(rest), NEW j \in 1 .. Len(rest), rest[i] = rest[j]
        PROVE  i = j
    <3>1. i + 1 = j + 1
      BY <1>4, <1>5, <2>1, <2>5
    <3>2. QED
      BY <3>1
  <2>6. QED
    BY <2>3, <2>4, <2>5
<1>9. /\ stack' \in [Threads -> Seq(FrameRecord)] /\ PlacesDiffer' /\ StacksAreNested'
      /\ Stacked' = (Stacked \ {f}) \cup {g} /\ Reading' = Reading
  <2> HIDE DEF next
  <2>1. QED
    BY <1>1, <1>2, <1>6, ChangedTop DEF f
<1>10. /\ queue' \in Seq(Reads) /\ Queued' = Queued \cup {e} /\ e \notin Queued
       /\ \A i, j \in 1 .. Len(queue') : queue'[i] = queue'[j] => i = j
  BY <1>1, <1>2, <1>7, AddedOperation DEF Born
<1> HIDE DEF e, next, rest
<1>11. Born' = Born \cup {e} /\ e \notin objects /\ e \notin Reading
  BY <1>2, <1>7, <1>9, <1>10 DEF Born
<1>12. ReadTypes'
  BY <1>1, <1>2, <1>9, <1>10 DEF ReadTypes
<1>13. QueueIsSound'
  BY <1>1, <1>2, <1>7, <1>9, <1>10, <1>11 DEF QueueIsSound
<1>14. \A r : Finished(r)' = Finished(r)
  BY <1>2, <1>9, KeptFinished
<1>15. FramesAreSound'
  <2>1. FrameIsSound(g)'
    <3>1. Latching(g)'
      <4>1. Latching(f)
        BY <1>3 DEF FrameIsSound
      <4>2. latch[f.read] = Len(Paths(f.read)) - Cardinality(Finished(f.read))
        BY <1>2, <4>1 DEF Latching
      <4>3. QED
        BY <1>2, <1>4, <1>6, <1>14, <4>2 DEF Latching
    <3>2. Adding(g)'
      BY <1>6, <1>8, <1>11 DEF Adding
    <3>3. ReadingInline(g)'
      BY <1>6 DEF ReadingInline
    <3>4. Complete(g)'
      BY <1>2, <1>3, <1>6 DEF FrameIsSound, Complete
    <3>5. QED
      BY <3>1, <3>2, <3>3, <3>4 DEF FrameIsSound
  <2>2. ASSUME NEW h \in Stacked, h # f PROVE FrameIsSound(h)'
    <3>1. FrameIsSound(h) /\ h.read # f.read /\ h.read \in Reads
      BY <1>1, <1>3, <2>2, OneFrame DEF FramesAreSound
    <3>2. h.step \in {"add", "run", "wait"} => h.read \in DOMAIN latch
      BY <3>1 DEF FrameIsSound, Latching
    <3>3. h.step = "add" => \A i \in 1 .. Len(h.todo) : h.todo[i] \notin Born'
      <4>1. h.step = "add" => \A i \in 1 .. Len(h.todo) :
                 h.todo[i] \in Entries(h.read) /\ h.todo[i] \notin Born
        BY <3>1 DEF FrameIsSound, Adding
      <4>2. e \notin Entries(h.read)
        BY <1>7, <3>1, EntryIsRead
      <4>3. QED
        BY <1>11, <4>1, <4>2
    <3>4. QED
      BY <1>2, <1>14, <3>1, <3>2, <3>3, KeptFrame
  <2>3. QED
    BY <1>9, <2>1, <2>2 DEF FramesAreSound
<1>16. Descent'
  BY <1>1, <1>2, <1>3, <1>7, <1>9, <1>11 DEF Descent
<1>17. CallersWait'
  <2>1. g \in Stacked' /\ g.read = f.read /\ g.step \in {"add", "run", "wait"}
    BY <1>6, <1>9
  <2>2. ASSUME NEW r \in Queued \cup Reading, IsOperation(r)
        PROVE  \E h \in Stacked' : h.read = Parent(r) /\ h.step \in {"add", "run", "wait"}
    <3>1. PICK h \in Stacked : h.read = Parent(r) /\ h.step \in {"add", "run", "wait"}
      BY <1>1, <2>2 DEF CallersWait
    <3>2. CASE h = f
      BY <2>1, <3>1, <3>2
    <3>3. CASE h # f
      BY <1>9, <3>1, <3>3
    <3>4. QED
      BY <3>2, <3>3
  <2>3. QED
    BY <1>7, <1>9, <1>10, <2>1, <2>2 DEF CallersWait
<1>18. QED
  BY <1>9, <1>12, <1>13, <1>15, <1>16, <1>17 DEF ReadInv

\* The first operation of the queue is taken and begins, by whoever takes it.
LEMMA OperationBegins ==
  ASSUME ReadInv, NEW t \in Threads, queue # <<>>, queue' = Tail(queue), Begin(t, Head(queue)),
         objects' = objects, stack[t] # <<>> => Top(t).step = "run"
  PROVE  ReadInv'
<1> DEFINE e == Head(queue)
<1>1. /\ ReadTypes /\ QueueIsSound /\ PlacesDiffer /\ StacksAreNested
      /\ FramesAreSound /\ Descent /\ CallersWait
  BY DEF ReadInv
<1>2. /\ e \in Queued /\ queue' \in Seq(Reads) /\ Queued' = Queued \ {e}
      /\ \A i, j \in 1 .. Len(queue') : queue'[i] = queue'[j] => i = j
  BY <1>1, TakenOperation
<1> HIDE DEF e
<1>3. e \in Reads /\ IsOperation(e) /\ e \notin Reading \cup objects /\ e \in Born /\ Len(e) > 1
  <2>1. e \in Reads /\ IsOperation(e) /\ e \notin Reading \cup objects /\ e \in Born
    BY <1>1, <1>2 DEF QueueIsSound, Queued, Born
  <2>2. QED
    BY <2>1 DEF IsOperation
<1>4. /\ e \in Entries(Parent(e))
      /\ Len(Parent(e)) = 1 \/ Parent(e) \in Reading \cup objects
  BY <1>1, <1>3 DEF Descent
<1>5. \A f \in Stacked : f.step = "add" => \A i \in 1 .. Len(f.todo) : f.todo[i] # e
  BY <1>1, <1>3 DEF FramesAreSound, FrameIsSound, Adding
<1>6. Begin(t, e)
  BY DEF e
<1>7. QED
  BY <1>2, <1>3, <1>4, <1>5, <1>6, ReadBegins

\* A thread that has added its operations runs what is in the queue.
LEMMA RunTakesInv ==
  ASSUME ReadInv, NEW t \in Threads, RunTakes(t)
  PROVE  ReadInv'
BY OperationBegins DEF RunTakes, At

\* A worker takes an operation.
LEMMA WorkerTakesInv ==
  ASSUME ReadInv, NEW t \in Threads, WorkerTakes(t)
  PROVE  ReadInv'
BY OperationBegins DEF WorkerTakes

\* The queue is empty, the thread waits.
LEMMA RunEndsInv ==
  ASSUME ReadInv, NEW t \in Threads, RunEnds(t)
  PROVE  ReadInv'
<1> DEFINE f == Top(t)
           g == [f EXCEPT !.step = "wait"]
<1>1. /\ stack[t] # <<>> /\ f.step = "run" /\ stack' = SetTop(t, g)
      /\ UNCHANGED <<queue, latch, objects>>
  BY DEF RunEnds, At, Goto
<1>2. f \in FrameRecord /\ FrameIsSound(f)
  BY <1>1, StackOf, OneFrame DEF ReadInv, FramesAreSound
<1>3. g \in FrameRecord /\ g.read = f.read /\ g.todo = f.todo /\ g.step = "wait"
  BY <1>2 DEF FrameRecord
<1>4. FrameIsSound(g)
  BY <1>1, <1>2, <1>3 DEF FrameIsSound, Latching, Adding, ReadingInline, Complete
<1> HIDE DEF g
<1>5. QED
  BY <1>1, <1>3, <1>4, FrameChanges

\* The latch of a read that waits is at zero when all of its entries are done.
LEMMA LatchIsZero ==
  ASSUME ReadInv, NEW f \in Stacked, f.step = "wait", latch[f.read] <= 0
  PROVE  /\ Entries(f.read) \subseteq objects
         /\ \A r \in Queued \cup Reading : IsOperation(r) => Parent(r) # f.read
<1> DEFINE all == Entries(f.read)
           done == Finished(f.read)
           n == Len(Paths(f.read))
<1>1. /\ ReadTypes /\ QueueIsSound /\ PlacesDiffer /\ FramesAreSound /\ Descent
      /\ f.read \in Reads
  BY OneFrame DEF ReadInv
<1>2. latch[f.read] = n - Cardinality(done)
  BY <1>1 DEF FramesAreSound, FrameIsSound, Latching
<1>3. IsFiniteSet(all) /\ Cardinality(all) \in Nat /\ Cardinality(all) <= n /\ n \in Nat
  BY <1>1, EntriesAreFinite, PathsOfRead
<1>4. done \subseteq all /\ done \subseteq objects \ Reading
  BY DEF Finished
<1>5. /\ Cardinality(done) \in Nat /\ Cardinality(done) <= Cardinality(all)
      /\ Cardinality(done) = Cardinality(all) => done = all
  BY <1>3, <1>4, FS_Subset, FS_CardinalityType
<1> HIDE DEF all, done, n
<1>6. done = all
  BY <1>2, <1>3, <1>5
<1>7. ASSUME NEW r \in Queued \cup Reading, IsOperation(r), Parent(r) = f.read PROVE FALSE
  <2>1. r \in Born /\ Len(r) > 1
    BY <1>7 DEF Born, IsOperation
  <2>2. r \in all
    BY <1>1, <1>7, <2>1 DEF Descent, all
  <2>3. r \in objects /\ r \notin Reading
    BY <1>4, <1>6, <2>2
  <2>4. QED
    BY <1>1, <1>7, <2>3 DEF QueueIsSound
<1>8. QED
  BY <1>4, <1>6, <1>7 DEF all

\* The wait is over.
LEMMA WaitReturnsInv ==
  ASSUME ReadInv, NEW t \in Threads, WaitReturns(t)
  PROVE  ReadInv'
<1> DEFINE f == Top(t)
           g == [f EXCEPT !.step = "assign"]
<1>1. /\ stack[t] # <<>> /\ f.step = "wait" /\ latch[f.read] <= 0 /\ stack' = SetTop(t, g)
      /\ UNCHANGED <<queue, latch, objects>>
  BY DEF WaitReturns, At, Goto
<1>2. f \in Stacked /\ f \in FrameRecord /\ FrameIsSound(f)
  BY <1>1, StackOf, OneFrame DEF ReadInv, FramesAreSound
<1>3. g \in FrameRecord /\ g.read = f.read /\ g.todo = f.todo /\ g.step = "assign"
  BY <1>2 DEF FrameRecord
<1>4. /\ Entries(f.read) \subseteq objects
      /\ \A r \in Queued \cup Reading : IsOperation(r) => Parent(r) # f.read
  BY <1>1, <1>2, LatchIsZero
<1>5. FrameIsSound(g)
  BY <1>1, <1>2, <1>3, <1>4 DEF FrameIsSound, Latching, Adding, ReadingInline, Complete
<1> HIDE DEF g
<1>6. QED
  BY <1>1, <1>3, <1>4, <1>5, FrameChanges

\* A thread that reads a single path begins it, or finds it done.
LEMMA ReadInlineInv ==
  ASSUME ReadInv, NEW t \in Threads, ReadInline(t)
  PROVE  ReadInv'
<1> DEFINE f == Top(t)
           e == Head(f.todo)
           g == [f EXCEPT !.step = "assign"]
<1>1. /\ ReadTypes /\ QueueIsSound /\ PlacesDiffer /\ StacksAreNested
      /\ FramesAreSound /\ Descent /\ CallersWait
  BY DEF ReadInv
<1>2. /\ stack[t] # <<>> /\ f.step = "inline" /\ queue' = queue /\ objects' = objects
      /\ e \in objects => stack' = SetTop(t, g) /\ latch' = latch
      /\ e \notin objects => Begin(t, e)
  BY DEF ReadInline, At, Goto
<1>3. /\ f \in Stacked /\ f \in FrameRecord /\ f.read \in Reads /\ f.read \in Reading
      /\ f.todo \in Seq(Reads) /\ FrameIsSound(f)
  BY <1>1, <1>2, StackOf, OneFrame DEF FramesAreSound
<1>4. ~InThreads(f.read) /\ f.todo # <<>> /\ Entries(f.read) = {f.todo[1]} /\ e = f.todo[1]
  <2>1. ~InThreads(f.read) /\ f.todo # <<>> /\ Entries(f.read) = {f.todo[1]}
    BY <1>2, <1>3 DEF FrameIsSound, ReadingInline
  <2>2. QED
    BY <1>3, <2>1, HeadTailProperties
<1>5. /\ e \in Entries(f.read) /\ e \in Reads /\ Parent(e) = f.read /\ Len(e) > 1
      /\ ~IsOperation(e)
  <2>1. e \in Entries(f.read)
    BY <1>4
  <2>2. e \in Reads /\ Parent(e) = f.read /\ Len(e) > 1
    BY <1>3, <2>1, EntryIsRead
  <2>3. QED
    BY <1>4, <2>1, <2>2 DEF IsOperation
<1>6. CASE e \in objects
  <2>1. g \in FrameRecord /\ g.read = f.read /\ g.todo = f.todo /\ g.step = "assign"
    BY <1>3 DEF FrameRecord
  <2>2. FrameIsSound(g)
    BY <1>2, <1>3, <1>4, <1>6, <2>1 DEF FrameIsSound, Latching, Adding, ReadingInline, Complete
  <2>3. \A r \in Queued \cup Reading : IsOperation(r) => Parent(r) # g.read
    BY <1>4, <2>1 DEF IsOperation
  <2>4. stack' = SetTop(t, g) /\ UNCHANGED <<queue, latch, objects>>
    BY <1>2, <1>6
  <2> HIDE DEF g
  <2>5. QED
    BY <1>2, <2>1, <2>2, <2>3, <2>4, FrameChanges
<1>7. CASE e \notin objects
  <2>1. e \notin Reading
    <3>1. SUFFICES ASSUME e \in Reading PROVE FALSE
      OBVIOUS
    <3>2. PICK h \in Stacked : h.read = e
      BY <3>1 DEF Reading
    <3>3. PICK u, i : u \in Threads /\ i \in 1 .. Len(stack[u]) /\ stack[u][i] = h
      BY DEF Stacked
    <3>4. i > 1 /\ stack[u][i - 1].read = f.read
      BY <1>1, <1>5, <3>2, <3>3 DEF StacksAreNested, Nested
    <3>5. Len(stack[u]) \in Nat /\ i - 1 \in 1 .. Len(stack[u])
      BY <1>1, <3>3, <3>4, StackOf
    <3>6. u = t /\ i - 1 = Len(stack[t])
      BY <1>1, <1>2, <3>3, <3>4, <3>5, TopIsOne
    <3>7. QED
      BY <3>3, <3>5, <3>6
  <2>2. e \notin Queued /\ Queued' = Queued
    BY <1>1, <1>2, <1>5 DEF QueueIsSound, Queued
  <2>3. \A h \in Stacked : h.step = "add" => \A i \in 1 .. Len(h.todo) : h.todo[i] # e
    <3>1. ASSUME NEW h \in Stacked, h.step = "add", NEW i \in 1 .. Len(h.todo), h.todo[i] = e
          PROVE  FALSE
      <4>1. e \in Entries(h.read) /\ h.read \in Reads
        BY <1>1, <3>1, OneFrame DEF FramesAreSound, FrameIsSound, Adding
      <4>2. h.read = f.read
        BY <1>5, <4>1, EntryIsRead
      <4>3. h = f
        BY <1>1, <1>3, <4>2, OneFrame
      <4>4. QED
        BY <1>2, <3>1, <4>3
    <3>2. QED
      BY <3>1
  <2>4. /\ queue' \in Seq(Reads)
        /\ \A i, j \in 1 .. Len(queue') : queue'[i] = queue'[j] => i = j
    BY <1>1, <1>2 DEF ReadTypes, QueueIsSound
  <2>5. Begin(t, e) /\ Queued' = Queued \ {e} /\ objects' = objects
    BY <1>2, <1>7, <2>2
  <2>6. /\ e \in Entries(Parent(e)) /\ Parent(e) \in Reading /\ e \notin Reading \cup objects
        /\ Top(t).read = Parent(e) /\ Top(t).step \in {"run", "inline"}
    BY <1>2, <1>3, <1>5, <1>7, <2>1
  <2> HIDE DEF e, f
  <2>7. QED
    BY <1>2, <1>5, <2>3, <2>4, <2>5, <2>6, ReadBegins
<1>8. QED
  BY <1>6, <1>7

\* An operation stores its object in the entries of its caller.
LEMMA AssignOperationInv ==
  ASSUME ReadInv, NEW t \in Threads, Assign(t), IsOperation(Top(t).read)
  PROVE  ReadInv'
<1>1. /\ ReadTypes /\ QueueIsSound /\ PlacesDiffer /\ StacksAreNested
      /\ FramesAreSound /\ Descent /\ CallersWait
  BY DEF ReadInv
<1>2. PICK f \in Stacked : f = Top(t) /\ f \in FrameRecord /\ f.read \in Reads /\ f.read \in Reading
  BY <1>1, StackOf, OneFrame DEF Assign, At
<1>3. PICK e \in Reads : e = f.read
  BY <1>2
<1>4. PICK g \in FrameRecord : /\ g = [f EXCEPT !.step = "countDown"] /\ g.read = e
                               /\ g.todo = f.todo /\ g.step = "countDown"
  <2> DEFINE next == [f EXCEPT !.step = "countDown"]
  <2>1. /\ next \in FrameRecord /\ next.read = e /\ next.todo = f.todo
        /\ next.step = "countDown"
    BY <1>2, <1>3 DEF FrameRecord
  <2> HIDE DEF next
  <2>2. QED
    BY <2>1 DEF next
<1>5. /\ stack[t] # <<>> /\ f.step = "assign" /\ queue' = queue /\ latch' = latch
      /\ objects' = objects \cup {e} /\ stack' = SetTop(t, g) /\ IsOperation(e)
  BY <1>2, <1>3, <1>4 DEF Assign, At, Goto
<1>6. Entries(e) \subseteq objects /\ e \notin objects /\ e \in Reading
  BY <1>1, <1>2, <1>3, <1>5 DEF FramesAreSound, FrameIsSound, Complete
<1>7. /\ stack' \in [Threads -> Seq(FrameRecord)] /\ PlacesDiffer' /\ StacksAreNested'
      /\ Stacked' = (Stacked \ {f}) \cup {g} /\ Reading' = Reading
  BY <1>1, <1>2, <1>3, <1>4, <1>5, ChangedTop
<1>8. Queued' = Queued /\ e \notin Queued /\ Born' = Born
  <2>1. Queued' = Queued
    BY <1>5 DEF Queued
  <2>2. QED
    BY <1>1, <1>5, <1>6, <1>7, <2>1 DEF QueueIsSound, Born
<1>9. ReadTypes'
  BY <1>1, <1>5, <1>7 DEF ReadTypes
<1>10. QueueIsSound'
  BY <1>1, <1>5, <1>7, <1>8 DEF QueueIsSound
<1>11. \A r : Finished(r)' = Finished(r)
  BY <1>5, <1>6, <1>7, KeptFinished
<1>12. FramesAreSound'
  <2>1. FrameIsSound(g)'
    <3>1. Latching(g)' /\ Adding(g)' /\ ReadingInline(g)'
      BY <1>4 DEF Latching, Adding, ReadingInline
    <3>2. Complete(g)'
      BY <1>4, <1>5, <1>6 DEF Complete
    <3>3. QED
      BY <3>1, <3>2 DEF FrameIsSound
  <2>2. ASSUME NEW h \in Stacked, h # f PROVE FrameIsSound(h)'
    <3>1. FrameIsSound(h) /\ h.read # e
      BY <1>1, <1>2, <1>3, <2>2, OneFrame DEF FramesAreSound
    <3>2. h.step \in {"add", "run", "wait"} => h.read \in DOMAIN latch
      BY <3>1 DEF FrameIsSound, Latching
    <3>3. h.step = "add" => \A i \in 1 .. Len(h.todo) : h.todo[i] \notin Born
      BY <3>1 DEF FrameIsSound, Adding
    <3>4. QED
      BY <1>5, <1>8, <1>11, <3>1, <3>2, <3>3, KeptFrame
  <2>3. QED
    BY <1>7, <2>1, <2>2 DEF FramesAreSound
<1>13. Descent'
  BY <1>1, <1>5, <1>7, <1>8 DEF Descent
<1>14. CallersWait'
  <2>1. \A h \in Stacked : h.step \in {"add", "run", "wait"} => h \in Stacked'
    BY <1>5, <1>7
  <2>2. QED
    BY <1>1, <1>7, <1>8, <2>1 DEF CallersWait
<1>15. QED
  BY <1>7, <1>9, <1>10, <1>12, <1>13, <1>14 DEF ReadInv

\* A file that was read by the thread itself is done.
LEMMA AssignInlineInv ==
  ASSUME ReadInv, NEW t \in Threads, Assign(t), ~IsOperation(Top(t).read)
  PROVE  ReadInv'
<1>1. /\ ReadTypes /\ QueueIsSound /\ PlacesDiffer /\ StacksAreNested
      /\ FramesAreSound /\ Descent /\ CallersWait
  BY DEF ReadInv
<1>2. PICK f \in Stacked : f = Top(t) /\ f.read \in Reads /\ f.read \in Reading
  BY <1>1, StackOf, OneFrame DEF Assign, At
<1>3. PICK e \in Reads : e = f.read
  BY <1>2
<1>4. /\ stack[t] # <<>> /\ f.step = "assign" /\ queue' = queue /\ latch' = latch
      /\ objects' = objects \cup {e} /\ stack' = [stack EXCEPT ![t] = Front(@)]
      /\ ~IsOperation(e) /\ Len(e) > 1
  BY <1>2, <1>3 DEF Assign, At
<1>5. e \notin objects /\ e \in Reading
  BY <1>1, <1>2, <1>3, <1>4 DEF FramesAreSound, FrameIsSound, Complete
<1>6. /\ stack' \in [Threads -> Seq(FrameRecord)] /\ PlacesDiffer' /\ StacksAreNested'
      /\ Stacked' = Stacked \ {f} /\ Reading' = Reading \ {e}
  BY <1>1, <1>2, <1>3, <1>4, PoppedFrame
<1>7. Queued' = Queued /\ e \notin Queued /\ Born' = Born
  <2>1. Queued' = Queued
    BY <1>4 DEF Queued
  <2>2. QED
    BY <1>1, <1>4, <1>5, <1>6, <2>1 DEF QueueIsSound, Born
<1>8. ReadTypes'
  BY <1>1, <1>4, <1>6 DEF ReadTypes
<1>9. QueueIsSound'
  BY <1>1, <1>4, <1>6, <1>7 DEF QueueIsSound
<1>10. FramesAreSound'
  <2>1. ASSUME NEW h \in Stacked, h # f PROVE FrameIsSound(h)'
    <3>1. FrameIsSound(h) /\ h.read # e /\ h.read \in Reads
      BY <1>1, <1>2, <1>3, <2>1, OneFrame DEF FramesAreSound
    <3>2. h.step \in {"add", "run", "wait"} => h.read \in DOMAIN latch /\ InThreads(h.read)
      BY <3>1 DEF FrameIsSound, Latching
    <3>3. h.step = "add" => \A i \in 1 .. Len(h.todo) : h.todo[i] \notin Born
      BY <3>1 DEF FrameIsSound, Adding
    <3>4. InThreads(h.read) => e \notin Entries(h.read)
      BY <1>4, <3>1, EntryIsRead DEF IsOperation
    <3>5. InThreads(h.read) => Finished(h.read)' = Finished(h.read)
      BY <1>4, <1>6, <3>4, KeptFinished
    <3>6. QED
      BY <1>4, <1>7, <3>1, <3>2, <3>3, <3>5, KeptFrame
  <2>2. QED
    BY <1>6, <2>1 DEF FramesAreSound
<1>11. Descent'
  BY <1>1, <1>4, <1>6, <1>7 DEF Descent
<1>12. CallersWait'
  <2>1. \A h \in Stacked : h.step \in {"add", "run", "wait"} => h \in Stacked'
    BY <1>4, <1>6
  <2>2. QED
    BY <1>1, <1>6, <1>7, <2>1 DEF CallersWait
<1>13. QED
  BY <1>6, <1>8, <1>9, <1>10, <1>11, <1>12 DEF ReadInv

\* A file is assigned.
LEMMA AssignInv ==
  ASSUME ReadInv, NEW t \in Threads, Assign(t)
  PROVE  ReadInv'
BY AssignOperationInv, AssignInlineInv

\* An operation counts down, and is done.
LEMMA CountDownInv ==
  ASSUME ReadInv, NEW t \in Threads, CountDown(t)
  PROVE  ReadInv'
<1>1. /\ ReadTypes /\ QueueIsSound /\ PlacesDiffer /\ StacksAreNested
      /\ FramesAreSound /\ Descent /\ CallersWait
  BY DEF ReadInv
<1>2. PICK f \in Stacked : f = Top(t) /\ f.read \in Reads /\ f.read \in Reading
  BY <1>1, StackOf, OneFrame DEF CountDown, At
<1>3. PICK e \in Reads : e = f.read
  BY <1>2
<1>4. PICK p : p = Parent(e)
  OBVIOUS
<1>5. /\ stack[t] # <<>> /\ f.step = "countDown" /\ queue' = queue /\ objects' = objects
      /\ latch' = [latch EXCEPT ![p] = @ - 1] /\ stack' = [stack EXCEPT ![t] = Front(@)]
  BY <1>2, <1>3, <1>4 DEF CountDown, At
<1>6. e \in objects /\ e \in Reading /\ IsOperation(e) /\ e \in Born /\ Len(e) > 1
  <2>1. e \in objects /\ IsOperation(e)
    BY <1>1, <1>2, <1>3, <1>5 DEF FramesAreSound, FrameIsSound, Complete
  <2>2. QED
    BY <1>2, <1>3, <2>1 DEF IsOperation, Born
<1>7. e \in Entries(p)
  BY <1>1, <1>4, <1>6 DEF Descent
<1>8. /\ stack' \in [Threads -> Seq(FrameRecord)] /\ PlacesDiffer' /\ StacksAreNested'
      /\ Stacked' = Stacked \ {f} /\ Reading' = Reading \ {e}
  BY <1>1, <1>2, <1>3, <1>5, PoppedFrame
<1>9. PICK w \in Stacked : w.read = p /\ w.step \in {"add", "run", "wait"}
  BY <1>1, <1>4, <1>6 DEF CallersWait
<1>10. /\ p \in Reads /\ p \in DOMAIN latch /\ InThreads(p)
       /\ latch[p] = Len(Paths(p)) - Cardinality(Finished(p))
  BY <1>1, <1>9, OneFrame DEF FramesAreSound, FrameIsSound, Latching
<1>11. /\ latch' \in [DOMAIN latch' -> Int] /\ DOMAIN latch' = DOMAIN latch
       /\ latch'[p] = latch[p] - 1
       /\ \A s \in DOMAIN latch \ {p} : latch'[s] = latch[s]
  BY <1>1, <1>5, <1>10 DEF ReadTypes
<1>12. Queued' = Queued /\ e \notin Queued /\ Born' = Born
  <2>1. Queued' = Queued
    BY <1>5 DEF Queued
  <2>2. QED
    BY <1>1, <1>5, <1>6, <1>8, <2>1 DEF QueueIsSound, Born
<1>13. ReadTypes'
  BY <1>1, <1>5, <1>8, <1>11 DEF ReadTypes
<1>14. QueueIsSound'
  BY <1>1, <1>5, <1>8, <1>12 DEF QueueIsSound
<1>15. latch'[p] = Len(Paths(p)) - Cardinality(Finished(p)')
  <2>1. Finished(p)' = Finished(p) \cup {e} /\ e \notin Finished(p)
    BY <1>5, <1>6, <1>7, <1>8 DEF Finished
  <2>2. IsFiniteSet(Finished(p))
    <3>1. IsFiniteSet(Entries(p)) /\ Finished(p) \subseteq Entries(p)
      BY <1>10, EntriesAreFinite DEF Finished
    <3>2. QED
      BY <3>1, FS_Subset
  <2>3. /\ Cardinality(Finished(p) \cup {e}) = Cardinality(Finished(p)) + 1
        /\ Cardinality(Finished(p)) \in Nat /\ Len(Paths(p)) \in Nat
    BY <1>10, <2>1, <2>2, FS_AddElement, FS_CardinalityType, PathsOfRead
  <2>4. QED
    BY <1>10, <1>11, <2>1, <2>3
<1>16. FramesAreSound'
  <2>1. ASSUME NEW h \in Stacked, h # f PROVE FrameIsSound(h)'
    <3>1. FrameIsSound(h) /\ h.read # e /\ h.read \in Reads
      BY <1>1, <1>2, <1>3, <2>1, OneFrame DEF FramesAreSound
    <3>2. h.step \in {"add", "run", "wait"} => h.read \in DOMAIN latch
      BY <3>1 DEF FrameIsSound, Latching
    <3>3. h.step = "add" => \A i \in 1 .. Len(h.todo) : h.todo[i] \notin Born
      BY <3>1 DEF FrameIsSound, Adding
    <3>4. CASE h.read = p
      <4>1. Latching(h)'
        BY <1>10, <1>11, <1>15, <3>4 DEF Latching
      <4>2. Adding(h)'
        BY <1>12, <3>1 DEF FrameIsSound, Adding
      <4>3. ReadingInline(h)'
        BY <3>1 DEF FrameIsSound, ReadingInline
      <4>4. Complete(h)'
        BY <1>5, <3>1 DEF FrameIsSound, Complete
      <4>5. QED
        BY <4>1, <4>2, <4>3, <4>4 DEF FrameIsSound
    <3>5. CASE h.read # p
      <4>1. e \notin Entries(h.read)
        BY <1>4, <3>1, <3>5, EntryIsRead
      <4>2. Finished(h.read)' = Finished(h.read)
        BY <1>5, <1>8, <4>1, KeptFinished
      <4>3. QED
        BY <1>5, <1>11, <1>12, <3>1, <3>2, <3>3, <3>5, <4>2, KeptFrame
    <3>6. QED
      BY <3>4, <3>5
  <2>2. QED
    BY <1>8, <2>1 DEF FramesAreSound
<1>17. Descent'
  BY <1>1, <1>5, <1>6, <1>8, <1>12 DEF Descent
<1>18. CallersWait'
  <2>1. \A h \in Stacked : h.step \in {"add", "run", "wait"} => h \in Stacked'
    BY <1>5, <1>8
  <2>2. QED
    BY <1>1, <1>8, <1>12, <2>1 DEF CallersWait
<1>19. QED
  BY <1>8, <1>13, <1>14, <1>16, <1>17, <1>18 DEF ReadInv

\* The outermost read returns: nothing is under it on its stack.
LEMMA ReturnInv ==
  ASSUME ReadInv, NEW t \in Threads, Return(t)
  PROVE  ReadInv'
<1>1. /\ ReadTypes /\ QueueIsSound /\ PlacesDiffer /\ StacksAreNested
      /\ FramesAreSound /\ Descent /\ CallersWait
  BY DEF ReadInv
<1>2. PICK f \in Stacked : f = Top(t) /\ f.read \in Reads /\ f.read \in Reading
  BY <1>1, StackOf, OneFrame DEF Return, At
<1>3. PICK e \in Reads : e = f.read
  BY <1>2
<1>4. /\ stack[t] # <<>> /\ f.step = "assign" /\ queue' = queue /\ objects' = objects
      /\ latch' = latch /\ stack' = [stack EXCEPT ![t] = <<>>] /\ Len(e) = 1
  BY <1>2, <1>3 DEF Return, At
<1>5. e \notin objects /\ e \notin Queued
  <2>1. e \notin objects
    BY <1>1, <1>2, <1>3, <1>4 DEF FramesAreSound, FrameIsSound, Complete
  <2>2. QED
    BY <1>1, <1>2, <1>3, <2>1 DEF QueueIsSound
<1>6. Front(stack[t]) = <<>>
  <2>1. stack[t] \in Seq(FrameRecord) /\ Len(stack[t]) \in 1 .. Len(stack[t])
        /\ f = stack[t][Len(stack[t])]
    BY <1>1, <1>2, <1>4, StackOf
  <2>2. Len(stack[t]) = 1
    BY <1>1, <1>3, <1>4, <2>1 DEF StacksAreNested, Nested
  <2>3. Front(stack[t]) = SubSeq(stack[t], 1, 0)
    BY <2>2 DEF Front
  <2>4. Len(SubSeq(stack[t], 1, 0)) = 0 /\ SubSeq(stack[t], 1, 0) \in Seq(FrameRecord)
    BY <2>1, SubSeqProperties
  <2>5. QED
    BY <2>3, <2>4, EmptySeq
<1>7. /\ stack' \in [Threads -> Seq(FrameRecord)] /\ PlacesDiffer' /\ StacksAreNested'
      /\ Stacked' = Stacked \ {f} /\ Reading' = Reading \ {e}
  <2>1. stack' = [stack EXCEPT ![t] = Front(@)]
    BY <1>4, <1>6
  <2>2. QED
    BY <1>1, <1>2, <1>3, <1>4, <2>1, PoppedFrame
<1>8. Queued' = Queued /\ Born' \subseteq Born
  <2>1. Queued' = Queued
    BY <1>4 DEF Queued
  <2>2. QED
    BY <1>4, <1>7, <2>1 DEF Born
<1>9. ReadTypes'
  BY <1>1, <1>4, <1>7 DEF ReadTypes
<1>10. QueueIsSound'
  BY <1>1, <1>4, <1>7, <1>8 DEF QueueIsSound
<1>11. \A r : Finished(r)' = Finished(r)
  BY <1>4, <1>5, <1>7, KeptFinished
<1>12. FramesAreSound'
  <2>1. ASSUME NEW h \in Stacked, h # f PROVE FrameIsSound(h)'
    <3>1. FrameIsSound(h)
      BY <1>1 DEF FramesAreSound
    <3>2. h.step \in {"add", "run", "wait"} => h.read \in DOMAIN latch
      BY <3>1 DEF FrameIsSound, Latching
    <3>3. h.step = "add" => \A i \in 1 .. Len(h.todo) : h.todo[i] \notin Born'
      BY <1>8, <3>1 DEF FrameIsSound, Adding
    <3>4. QED
      BY <1>4, <1>11, <3>1, <3>2, <3>3, KeptFrame
  <2>2. QED
    BY <1>7, <2>1 DEF FramesAreSound
<1>13. Descent'
  BY <1>1, <1>4, <1>7, <1>8, <1>3 DEF Descent
<1>14. CallersWait'
  <2>1. \A h \in Stacked : h.step \in {"add", "run", "wait"} => h \in Stacked'
    BY <1>4, <1>7
  <2>2. QED
    BY <1>1, <1>7, <1>8, <2>1 DEF CallersWait
<1>15. QED
  BY <1>7, <1>9, <1>10, <1>12, <1>13, <1>14 DEF ReadInv

\* At first the callers have begun, and nothing else exists.
LEMMA InitInv == Init => ReadInv
<1> SUFFICES ASSUME Init PROVE ReadInv
  OBVIOUS
<1> DEFINE call(c) == <<c>>
           frame(c) == Entered(call(c))
<1>1. ASSUME NEW c \in Callers
      PROVE  /\ call(c) \in Reads /\ Len(call(c)) = 1
             /\ \A d \in Callers : call(c) = call(d) => c = d
  BY <1>1 DEF Reads
<1>2. ASSUME NEW c \in Callers
      PROVE  /\ frame(c) \in FrameRecord /\ frame(c).read = call(c)
             /\ frame(c).step \in {"add", "inline", "assign"}
             /\ frame(c).step = "add" <=> InThreads(call(c))
             /\ frame(c).step = "assign" => Entries(call(c)) = {}
             /\ frame(c).step \in {"add", "inline"} => frame(c).todo # <<>>
             /\ \A i, j \in 1 .. Len(frame(c).todo) : frame(c).todo[i] = frame(c).todo[j] => i = j
             /\ \A i \in 1 .. Len(frame(c).todo) : frame(c).todo[i] \in Entries(call(c))
             /\ frame(c).step = "inline" => Entries(call(c)) = {frame(c).todo[1]}
  <2>1. call(c) \in Reads
    BY <1>1
  <2>2. QED
    BY <2>1, EnteredFrame
<1>3. /\ queue = <<>> /\ objects = {}
      /\ stack = [t \in Threads |-> IF t \in Callers THEN <<frame(t)>> ELSE <<>>]
      /\ latch = [r \in {call(c) : c \in {d \in Callers : InThreads(call(d))}} |-> Len(Paths(r))]
  BY DEF Init
<1> HIDE DEF frame, call
<1>4. \A t \in Threads : \A i \in 1 .. Len(stack[t]) :
         t \in Callers /\ i = 1 /\ Len(stack[t]) = 1 /\ stack[t][i] = frame(t)
  <2>1. ASSUME NEW t \in Threads, NEW i \in 1 .. Len(stack[t])
        PROVE  t \in Callers /\ i = 1 /\ Len(stack[t]) = 1 /\ stack[t][i] = frame(t)
    <3>1. CASE t \in Callers
      <4>1. stack[t] = <<frame(t)>>
        BY <1>3, <3>1
      <4>2. Len(<<frame(t)>>) = 1 /\ <<frame(t)>>[1] = frame(t)
        OBVIOUS
      <4>3. QED
        BY <2>1, <3>1, <4>1, <4>2
    <3>2. CASE t \notin Callers
      <4>1. stack[t] = <<>>
        BY <1>3, <3>2
      <4>2. QED
        BY <2>1, <4>1
    <3>3. QED
      BY <3>1, <3>2
  <2>2. QED
    BY <2>1
<1>5. ASSUME NEW f \in Stacked PROVE \E c \in Callers : f = frame(c)
  BY <1>4 DEF Stacked
<1>6. Reading \subseteq {call(c) : c \in Callers} /\ Queued = {} /\ Born = Reading
  <2>1. Reading \subseteq {call(c) : c \in Callers}
    BY <1>2, <1>5 DEF Reading
  <2>2. Queued = {}
    BY <1>3 DEF Queued
  <2>3. QED
    BY <1>3, <2>1, <2>2 DEF Born
<1>7. ReadTypes
  <2>1. queue \in Seq(Reads) /\ objects \subseteq Reads
    BY <1>3
  <2>2. stack \in [Threads -> Seq(FrameRecord)]
    BY <1>2, <1>3
  <2>3. latch \in [DOMAIN latch -> Int]
    <3>1. \A c \in Callers : Len(Paths(call(c))) \in Int
      BY <1>1, PathsOfRead
    <3>2. QED
      BY <1>3, <3>1
  <2>4. QED
    BY <2>1, <2>2, <2>3 DEF ReadTypes
<1>8. QueueIsSound
  BY <1>3, <1>6 DEF QueueIsSound
<1>9. PlacesDiffer
  BY <1>1, <1>2, <1>4 DEF PlacesDiffer
<1>10. StacksAreNested
  BY <1>1, <1>2, <1>4 DEF StacksAreNested, Nested
<1>11. FramesAreSound
  <2>1. ASSUME NEW c \in Callers PROVE FrameIsSound(frame(c))
    <3>1. Latching(frame(c))
      <4>1. frame(c).step \in {"add", "run", "wait"} => InThreads(call(c))
        BY <1>2
      <4>2. InThreads(call(c)) => call(c) \in DOMAIN latch /\ latch[call(c)] = Len(Paths(call(c)))
        BY <1>3
      <4>3. Cardinality(Finished(call(c))) = 0 /\ Len(Paths(call(c))) \in Nat
        <5>1. Finished(call(c)) = {}
          BY <1>3 DEF Finished
        <5>2. QED
          BY <1>1, <5>1, FS_EmptySet, PathsOfRead
      <4>4. QED
        BY <1>2, <4>1, <4>2, <4>3 DEF Latching
    <3>2. Adding(frame(c))
      <4>1. \A e \in Entries(call(c)) : e \notin Born
        <5>1. \A e \in Entries(call(c)) : Len(e) > 1
          BY <1>1, EntryIsRead
        <5>2. \A r \in Born : ~(Len(r) > 1)
          BY <1>1, <1>6
        <5>3. QED
          BY <5>1, <5>2
      <4>2. QED
        BY <1>2, <4>1 DEF Adding
    <3>3. ReadingInline(frame(c))
      <4>1. frame(c).step = "inline" => ~InThreads(call(c))
        BY <1>2
      <4>2. QED
        BY <1>2, <4>1 DEF ReadingInline
    <3>4. Complete(frame(c))
      BY <1>2, <1>3 DEF Complete
    <3>5. QED
      BY <3>1, <3>2, <3>3, <3>4 DEF FrameIsSound
  <2>2. QED
    BY <1>5, <2>1 DEF FramesAreSound
<1>12. \A r \in Born : ~(Len(r) > 1)
  BY <1>1, <1>6
<1>13. Descent
  BY <1>12 DEF Descent
<1>14. CallersWait
  BY <1>6, <1>12 DEF CallersWait, IsOperation
<1>15. QED
  BY <1>7, <1>8, <1>9, <1>10, <1>11, <1>13, <1>14 DEF ReadInv

\* Every step keeps the invariant.
LEMMA NextInv == ReadInv /\ [Next]_vars => ReadInv'
<1> SUFFICES ASSUME ReadInv, [Next]_vars PROVE ReadInv'
  OBVIOUS
<1>1. ASSUME NEW t \in Threads, Step(t) PROVE ReadInv'
  <2>1. CASE AddOperation(t)
    BY <2>1, AddOperationInv
  <2>2. CASE RunTakes(t)
    BY <2>2, RunTakesInv
  <2>3. CASE RunEnds(t)
    BY <2>3, RunEndsInv
  <2>4. CASE WaitReturns(t)
    BY <2>4, WaitReturnsInv
  <2>5. CASE ReadInline(t)
    BY <2>5, ReadInlineInv
  <2>6. CASE Assign(t)
    BY <2>6, AssignInv
  <2>7. CASE CountDown(t)
    BY <2>7, CountDownInv
  <2>8. CASE Return(t)
    BY <2>8, ReturnInv
  <2>9. CASE WorkerTakes(t)
    BY <2>9, WorkerTakesInv
  <2>10. CASE WorkerEnds(t)
    BY <2>10, NothingRead DEF WorkerEnds
  <2>11. QED
    BY <1>1, <2>1, <2>2, <2>3, <2>4, <2>5, <2>6, <2>7, <2>8, <2>9, <2>10 DEF Step
<1>2. CASE Stop
  BY <1>2, NothingRead DEF Stop
<1>3. CASE UNCHANGED vars
  BY <1>3, NothingRead DEF vars
<1>4. QED
  BY <1>1, <1>2, <1>3 DEF Next

--------------------------------------------------------------------------------
(* The theorems.                                                           *)

\* The invariant of the queue, the stacks, the latches and the entries, whichever threads
\* take the operations and whenever the threads are stopped (OperationThreads.cpp, read.cpp).
THEOREM ReadsAreInvariant == Spec => []ReadInv
BY InitInv, NextInv, PTL DEF Spec

\* The frames of a stack, as the properties name them.
LEMMA FramesOfThreads ==
  ASSUME ReadTypes, NEW t \in Threads, NEW f \in Frames(t)
  PROVE  f \in Stacked
<1>1. PICK i \in 1 .. Len(stack[t]) : stack[t][i] = f
  BY StackOf DEF Frames
<1>2. f \in FrameRecord
  BY <1>1, StackOf
<1>3. QED
  BY <1>1, <1>2 DEF Stacked

\* Every operation is run once, by one thread: what is in the queue is there once and
\* nobody has it, what is on a stack is on no other, and what is done is never run again
\* (OperationQueue.h:96-133).
THEOREM OperationsRunOnce == Spec => []EveryOperationOnce
<1>1. ASSUME ReadInv PROVE EveryOperationOnce
  <2>1. /\ ReadTypes /\ QueueIsSound /\ PlacesDiffer /\ FramesAreSound
        /\ DOMAIN queue = 1 .. Len(queue) /\ Range(queue) = Queued
    <3>1. /\ ReadTypes /\ QueueIsSound /\ PlacesDiffer /\ FramesAreSound
          /\ queue \in Seq(Reads)
      BY <1>1 DEF ReadInv, ReadTypes
    <3>2. DOMAIN queue = 1 .. Len(queue) /\ \A i \in 1 .. Len(queue) : queue[i] \in Reads
      BY <3>1, LenProperties, ElementOfSeq
    <3>3. QED
      BY <3>1, <3>2 DEF Range, Queued
  <2>2. \A t \in Threads : DOMAIN stack[t] = 1 .. Len(stack[t])
    BY <2>1, StackOf
  <2>3. \A i, j \in DOMAIN queue : queue[i] = queue[j] => i = j
    BY <2>1 DEF QueueIsSound
  <2>4. \A t, u \in Threads : \A i \in DOMAIN stack[t], j \in DOMAIN stack[u] :
           stack[t][i].read = stack[u][j].read => t = u /\ i = j
    BY <2>1, <2>2 DEF PlacesDiffer
  <2>5. ASSUME NEW t \in Threads, NEW f \in Frames(t)
        PROVE  f.read \notin Range(queue) /\ (f.read \in objects => f.step = "countDown")
    <3>1. f \in Stacked /\ f.read \in Reading
      BY <2>1, FramesOfThreads, OneFrame
    <3>2. QED
      BY <2>1, <3>1 DEF QueueIsSound, FramesAreSound, FrameIsSound, Complete
  <2>6. \A i \in DOMAIN queue : queue[i] \notin objects
    <3>1. \A i \in DOMAIN queue : queue[i] \in Range(queue)
      BY DEF Range
    <3>2. QED
      BY <2>1, <3>1 DEF QueueIsSound
  <2>7. QED
    BY <2>3, <2>4, <2>5, <2>6 DEF EveryOperationOnce
<1>2. QED
  BY <1>1, ReadsAreInvariant, PTL

\* When the wait of a read is over every entry has its object, and no thread is still in
\* the read of one of them that would write into the entries (read.cpp:160-190).
THEOREM EntriesComplete == Spec => []EntriesAreComplete
<1>1. ASSUME ReadInv PROVE EntriesAreComplete
  <2>1. ReadTypes /\ FramesAreSound
    BY <1>1 DEF ReadInv
  <2>2. ASSUME NEW t \in Threads, NEW f \in Frames(t), f.step \in {"assign", "countDown"}
        PROVE  Entries(f.read) \subseteq objects
    <3>1. f \in Stacked
      BY <2>1, FramesOfThreads
    <3>2. QED
      BY <2>1, <2>2, <3>1 DEF FramesAreSound, FrameIsSound, Complete
  <2>3. ASSUME NEW u \in Threads, NEW g \in Frames(u), g.step \in {"add", "run", "wait", "assign"}
        PROVE  g.read \notin objects
    <3>1. g \in Stacked
      BY <2>1, FramesOfThreads
    <3>2. QED
      BY <2>1, <2>3, <3>1 DEF FramesAreSound, FrameIsSound, Complete
  <2>4. QED
    BY <2>2, <2>3 DEF EntriesAreComplete
<1>2. QED
  BY <1>1, ReadsAreInvariant, PTL

\* The entries that an operation writes into and the latch it counts down are those of a
\* read that is still on its stack, adding, running or waiting: both are on the stack of
\* its thread, the entries by reference (read.cpp:160-190).
THEOREM CallersStay == Spec => []CallersWait
<1>1. ReadInv => CallersWait
  BY DEF ReadInv
<1>2. QED
  BY <1>1, ReadsAreInvariant, PTL

================================================================================

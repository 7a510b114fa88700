----------------------------- MODULE ReadOperations -----------------------------
(***************************************************************************)
(* vsg::read(Paths, Options) with OperationThreads: every path is an       *)
(* operation in one queue that worker threads and the calling threads      *)
(* empty together, and the caller then waits on a Latch for the operations *)
(* that others took.                                                       *)
(*                                                                         *)
(* A file may itself contain paths (External, tile) that are read the same *)
(* way, by whichever thread reads the file: so a thread has a stack of     *)
(* reads, and on top of a read that still needs its entries it may run     *)
(* operations that have nothing to do with it.                             *)
(***************************************************************************)
EXTENDS Integers, Sequences, SequencesExt, Functions

CONSTANTS
    Workers,      \* OperationThreads::threads
    Callers,      \* other threads, that call read(Paths)
    Requested,    \* [Callers -> the paths they ask for]
    Contents      \* [files -> the paths that reading them asks for]

\* Paths are files, and a file without paths is one that asks for nothing, or that is
\* not there.
ASSUME ReadAssumption ==
    /\ Requested \in [Callers -> Seq(DOMAIN Contents)]
    /\ \A file \in DOMAIN Contents : Contents[file] \in Seq(DOMAIN Contents)

Threads == Workers \cup Callers

VARIABLES
    queue,        \* OperationQueue::_queue
    stack,        \* [Threads -> reads in progress, the innermost last]
    latch,        \* [reads of several paths -> count of their Latch]
    objects,      \* operations whose entry has its object
    active,       \* ActivityStatus
    working       \* worker threads that have not ended

vars == <<queue, stack, latch, objects, active, working>>

(***************************************************************************)
(* A read is named by the way to it: the thread that called, then a file   *)
(* within a file.                                                          *)
(***************************************************************************)
Paths(r) == IF Len(r) = 1 THEN Requested[r[1]] ELSE Contents[Last(r)]
Entries(r) == {Append(r, path) : path \in Range(Paths(r))}
Parent(r) == Front(r)

InThreads(r) == Len(Paths(r)) > 1
IsOperation(r) == Len(r) > 1 /\ InThreads(Parent(r))

Top(t) == Last(stack[t])
At(t, step) == stack[t] # <<>> /\ Top(t).step = step

\* How read() of a file or of a list of paths begins: the entries are a map, so a path
\* that is given twice is one entry, and they are added in the order of the map.
Entered(r) ==
    [read |-> r, todo |-> SetToSeq(Entries(r)),
     step |-> IF InThreads(r) THEN "add" ELSE IF Paths(r) # <<>> THEN "inline" ELSE "assign"]

Push(t, r) == [stack EXCEPT ![t] = Append(@, Entered(r))]
SetTop(t, frame) == [stack EXCEPT ![t] = Append(Front(@), frame)]
Goto(t, step) == SetTop(t, [Top(t) EXCEPT !.step = step])

Init ==
    /\ queue = <<>>
    /\ stack = [t \in Threads |-> IF t \in Callers THEN <<Entered(<<t>>)>> ELSE <<>>]
    /\ latch = [r \in {<<c>> : c \in {d \in Callers : InThreads(<<d>>)}} |-> Len(Paths(r))]
    /\ objects = {}
    /\ active = TRUE /\ working = Workers

\* The Latch of a read that begins counts the paths it was given.
Latched(r) ==
    IF InThreads(r) THEN [s \in DOMAIN latch \cup {r} |-> IF s = r THEN Len(Paths(r)) ELSE latch[s]]
    ELSE latch

Begin(t, r) ==
    /\ stack' = Push(t, r)
    /\ latch' = Latched(r)

--------------------------------------------------------------------------------
(* read(Paths).                                                            *)

AddOperation(t) ==
    /\ At(t, "add")
    /\ queue' = Append(queue, Head(Top(t).todo))
    /\ LET rest == Tail(Top(t).todo)
       IN  stack' = SetTop(t, [Top(t) EXCEPT !.todo = rest,
                                             !.step = IF rest = <<>> THEN "run" ELSE @])
    /\ UNCHANGED <<latch, objects, active, working>>

\* OperationThreads::run(): the caller takes whatever is first in the queue.
RunTakes(t) ==
    /\ At(t, "run") /\ queue # <<>>
    /\ queue' = Tail(queue)
    /\ Begin(t, Head(queue))
    /\ UNCHANGED <<objects, active, working>>

\* Variant: the caller leaves the operations to the worker threads.
RunNothing(t) ==
    /\ At(t, "run")
    /\ stack' = Goto(t, "wait")
    /\ UNCHANGED <<queue, latch, objects, active, working>>

RunEnds(t) ==
    /\ At(t, "run") /\ queue = <<>>
    /\ stack' = Goto(t, "wait")
    /\ UNCHANGED <<queue, latch, objects, active, working>>

\* Variant: the wait is over when one operation is left.
WaitReturnsEarly(t) ==
    /\ At(t, "wait") /\ latch[Top(t).read] <= 1
    /\ stack' = Goto(t, "assign")
    /\ UNCHANGED <<queue, latch, objects, active, working>>

WaitReturns(t) ==
    /\ At(t, "wait") /\ latch[Top(t).read] <= 0
    /\ stack' = Goto(t, "assign")
    /\ UNCHANGED <<queue, latch, objects, active, working>>

\* A single path is read by the thread itself.
ReadInline(t) ==
    /\ At(t, "inline")
    /\ IF Head(Top(t).todo) \in objects
       THEN stack' = Goto(t, "assign") /\ UNCHANGED latch
       ELSE Begin(t, Head(Top(t).todo))
    /\ UNCHANGED <<queue, objects, active, working>>

\* The object of the file is there: the operation stores it in the entries of its
\* caller, and then counts down.
Assign(t) ==
    /\ At(t, "assign") /\ Len(Top(t).read) > 1
    /\ objects' = objects \cup {Top(t).read}
    /\ stack' = IF IsOperation(Top(t).read) THEN Goto(t, "countDown")
                ELSE [stack EXCEPT ![t] = Front(@)]
    /\ UNCHANGED <<queue, latch, active, working>>

CountDown(t) ==
    /\ At(t, "countDown")
    /\ latch' = [latch EXCEPT ![Parent(Top(t).read)] = @ - 1]
    /\ stack' = [stack EXCEPT ![t] = Front(@)]
    /\ UNCHANGED <<queue, objects, active, working>>

\* The outermost read returns to the application.
Return(t) ==
    /\ At(t, "assign") /\ Len(Top(t).read) = 1
    /\ stack' = [stack EXCEPT ![t] = <<>>]
    /\ UNCHANGED <<queue, latch, objects, active, working>>

--------------------------------------------------------------------------------
(* The worker threads.                                                     *)

\* Variant: the operation is not erased from the queue.
WorkerTakesCopy(t) ==
    /\ t \in working /\ stack[t] = <<>> /\ active /\ queue # <<>>
    /\ Begin(t, Head(queue))
    /\ UNCHANGED <<queue, objects, active, working>>

\* take_when_available(), woken by add() or after 100 ms.
WorkerTakes(t) ==
    /\ t \in working /\ stack[t] = <<>> /\ active /\ queue # <<>>
    /\ queue' = Tail(queue)
    /\ Begin(t, Head(queue))
    /\ UNCHANGED <<objects, active, working>>

\* Variant: take_when_available() does not look at the status while the queue is empty.
WorkerEndsWhenWoken(t) ==
    /\ t \in working /\ stack[t] = <<>> /\ ~active /\ queue # <<>>
    /\ working' = working \ {t}
    /\ UNCHANGED <<queue, stack, latch, objects, active>>

WorkerEnds(t) ==
    /\ t \in working /\ stack[t] = <<>> /\ ~active
    /\ working' = working \ {t}
    /\ UNCHANGED <<queue, stack, latch, objects, active>>

\* stop(), at any time, by a thread that then joins the workers.
Stop ==
    /\ active
    /\ active' = FALSE
    /\ UNCHANGED <<queue, stack, latch, objects, working>>

--------------------------------------------------------------------------------

Step(t) ==
    \/ AddOperation(t) \/ RunTakes(t) \/ RunEnds(t) \/ WaitReturns(t)
    \/ ReadInline(t) \/ Assign(t) \/ CountDown(t) \/ Return(t)
    \/ WorkerTakes(t) \/ WorkerEnds(t)

Next == (\E t \in Threads : Step(t)) \/ Stop

\* Every thread keeps running, reading a file ends, and a notification or the timeout of
\* 100 ms wakes a worker; nobody has to stop the threads.
Spec == Init /\ [][Next]_vars /\ \A t \in Threads : WF_vars(Step(t))

--------------------------------------------------------------------------------
(* Properties.                                                             *)

Frames(t) == {stack[t][i] : i \in DOMAIN stack[t]}

\* When the wait of a read is over every entry has its object: nobody writes into the
\* entries any more, which are gone with the stack frame (read.cpp:160-190).
EntriesAreComplete ==
    \A t \in Threads : \A f \in Frames(t) :
        f.step \in {"assign", "countDown"} =>
            /\ Entries(f.read) \subseteq objects
            /\ \A u \in Threads : \A g \in Frames(u) : g.step \in {"add", "run", "wait", "assign"}
                  => g.read \notin Entries(f.read)

\* Every operation is run once, by one thread: it is in the queue, or on one stack, or
\* done (OperationQueue.h:96-133).
EveryOperationOnce ==
    /\ \A i, j \in DOMAIN queue : queue[i] = queue[j] => i = j
    /\ \A t, u \in Threads : \A i \in DOMAIN stack[t], j \in DOMAIN stack[u] :
          stack[t][i].read = stack[u][j].read => t = u /\ i = j
    /\ \A t \in Threads : \A f \in Frames(t) :
          /\ f.read \notin Range(queue)
          /\ f.read \in objects => f.step = "countDown"
    /\ \A i \in DOMAIN queue : queue[i] \notin objects

\* read() returns, whatever other operations its thread has run on the way, and also if
\* the threads are stopped meanwhile (read.cpp:187-190).
ReadReturns == \A c \in Callers : <>(stack[c] = <<>>)

\* stop() returns: a worker that is not in an operation, or done with it, ends
\* (OperationThreads.cpp:68-81, OperationQueue.h:118-127).
StopReturns == ~active ~> (working = {})
================================================================================

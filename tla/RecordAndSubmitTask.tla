--------------------------- MODULE RecordAndSubmitTask ---------------------------
(***************************************************************************)
(* vsg::RecordAndSubmitTask: the ring of NumBuffers fences that bounds the *)
(* number of frames the GPU may lag behind, and the command buffers that   *)
(* the task's command graphs take from their pools.                        *)
(*                                                                         *)
(* The threads that serve a task start it, record its graphs and finish it *)
(* in this order (module ViewerThreading), so the task is sequential here; *)
(* the GPU runs concurrently and finishes submissions in any order.        *)
(* vkWaitForFences without a time limit fails only when the device is lost *)
(* or memory is exhausted: what follows such a start() is not modelled.    *)
(***************************************************************************)
EXTENDS Integers, FiniteSets, FiniteSetsExt

CONSTANTS
    NumBuffers,     \* number of fences, 3 in the viewer
    Graphs,         \* commandGraphs of the task
    MaxFrame,       \* bound on the number of frames
    MaxFailures     \* bound on the number of late transfers that fail

ASSUME BuffersAssumption == NumBuffers \in Nat /\ NumBuffers > 1

ASSUME BoundsAssumption == MaxFrame \in Nat /\ MaxFailures \in Nat

Fences == 0 .. NumBuffers - 1
Unset == NumBuffers    \* an index that has not been assigned

\* Command buffers: the i-th one a graph has allocated.
Buffers == Graphs \X (Nat \ {0})

VARIABLES
    pc,                  \* "idle", "start" or "record"
    frame,               \* number of calls of advance()
    currentFrameIndex,
    indices,
    toRecord,            \* graphs with a visible window that are still to be recorded
    pool,                \* number of command buffers each graph has allocated
    inUse,               \* command buffers with numDependentSubmissions() > 0
    recorded,            \* recordedCommandBuffers
    dependents,          \* dependentCommandBuffers() of each fence
    signaled,            \* fences that are signaled
    executing,           \* GPU: what the submission of each fence still executes
    frameOf,             \* history: the frame each fence was last submitted for
    refused,             \* history: fences given to a submission the queue refused
    failures             \* history: number of frames whose late transfer failed

taskVars == <<toRecord, pool, inUse, recorded>>
fenceVars == <<dependents, signaled, executing, frameOf, refused>>
vars == <<pc, frame, currentFrameIndex, indices, taskVars, fenceVars, failures>>

Init ==
    /\ pc = "idle" /\ frame = 0
    /\ currentFrameIndex = Unset
    /\ indices = [k \in Fences |-> Unset]
    /\ toRecord = {}
    /\ pool = [g \in Graphs |-> 0]
    /\ inUse = {} /\ recorded = {}
    /\ dependents = [f \in Fences |-> {}]
    /\ signaled = {}
    /\ executing = [f \in Fences |-> {}]
    /\ frameOf = [f \in Fences |-> 0]
    /\ refused = {} /\ failures = 0

\* The first call sets the index to 0, the others go round the ring.
NextIndex ==
    IF currentFrameIndex >= NumBuffers - 1 THEN 0 ELSE currentFrameIndex + 1

\* Mutant: the loop runs upwards and copies the first index all along.
ShiftedUpwards ==
    IF currentFrameIndex = Unset THEN indices ELSE [k \in Fences |-> indices[0]]

\* The indices of the earlier frames move up by one, except in the first call.
Shifted ==
    IF currentFrameIndex = Unset THEN indices
    ELSE [k \in Fences |-> IF k = 0 THEN indices[0] ELSE indices[k - 1]]

Advance ==
    /\ pc = "idle" /\ frame < MaxFrame
    /\ pc' = "start"
    /\ frame' = frame + 1
    /\ currentFrameIndex' = NextIndex
    /\ indices' = [Shifted EXCEPT ![0] = NextIndex]
    /\ UNCHANGED <<taskVars, fenceVars, failures>>

\* fence(relativeFrameIndex) of an index that is set
Fence(relativeFrameIndex) == indices[relativeFrameIndex]

\* Mutant: resetFenceAndDependencies() is called without waiting.
StartWithoutWait ==
    LET f == Fence(0) IN
    /\ pc = "start"
    /\ inUse' = inUse \ dependents[f]
    /\ dependents' = [dependents EXCEPT ![f] = {}]
    /\ signaled' = signaled \ {f}
    /\ pc' = "record"
    /\ \E visible \in SUBSET Graphs : toRecord' = visible
    /\ UNCHANGED <<frame, currentFrameIndex, indices, pool, recorded, executing, frameOf>>
    /\ UNCHANGED <<refused, failures>>

\* Mutant: the fence is not reset.
StartWithoutReset ==
    LET f == Fence(0) IN
    /\ pc = "start"
    /\ dependents[f] # {} => f \in signaled
    /\ inUse' = inUse \ dependents[f]
    /\ dependents' = [dependents EXCEPT ![f] = {}]
    /\ pc' = "record"
    /\ \E visible \in SUBSET Graphs : toRecord' = visible
    /\ UNCHANGED <<frame, currentFrameIndex, indices, pool, recorded, signaled, executing>>
    /\ UNCHANGED <<frameOf, refused, failures>>

\* start(): if something depends on the fence, wait for it, release what depends
\* on it, and reset it.
Start ==
    LET f == Fence(0) IN
    /\ pc = "start"
    /\ IF dependents[f] # {}
       THEN /\ f \in signaled
            /\ inUse' = inUse \ dependents[f]
            /\ dependents' = [dependents EXCEPT ![f] = {}]
            /\ signaled' = signaled \ {f}
       ELSE UNCHANGED <<inUse, dependents, signaled>>
    /\ pc' = "record"
    /\ \E visible \in SUBSET Graphs : toRecord' = visible
    /\ UNCHANGED <<frame, currentFrameIndex, indices, pool, recorded, executing, frameOf>>
    /\ UNCHANGED <<refused, failures>>

Free(g) == {i \in 1 .. pool[g] : <<g, i>> \notin inUse}

\* Mutant: the first command buffer is reused whatever depends on it.
TakeFirst(g, i) == i = 1 /\ pool' = [pool EXCEPT ![g] = IF @ = 0 THEN 1 ELSE @]

\* The first command buffer nothing depends on, or a new one.
TakeBuffer(g, i) ==
    IF Free(g) = {}
    THEN /\ i = pool[g] + 1
         /\ pool' = [pool EXCEPT ![g] = i]
    ELSE /\ i \in Free(g) /\ \A j \in Free(g) : i <= j
         /\ UNCHANGED pool

\* CommandGraph::record of a graph whose window is visible
Record(g) ==
    /\ pc = "record" /\ g \in toRecord
    /\ toRecord' = toRecord \ {g}
    /\ \E i \in 1 .. pool[g] + 1 :
          /\ TakeBuffer(g, i)
          /\ inUse' = inUse \cup {<<g, i>>}
          /\ recorded' = recorded \cup {<<g, i>>}
    /\ UNCHANGED <<pc, frame, currentFrameIndex, indices, fenceVars, failures>>

\* finish() returns early when the late transfer fails, and the caller drops what
\* has been recorded.
FinishTransferFails ==
    /\ pc = "record" /\ toRecord = {} /\ failures < MaxFailures
    /\ pc' = "idle"
    /\ recorded' = {}
    /\ failures' = failures + 1
    /\ UNCHANGED <<frame, currentFrameIndex, indices, toRecord, pool, inUse, fenceVars>>

\* finish() with nothing to submit.  An early transfer that fails makes submit()
\* return before anything is recorded, which comes to the same.
FinishEmpty ==
    /\ pc = "record" /\ toRecord = {} /\ recorded = {}
    /\ pc' = "idle"
    /\ UNCHANGED <<frame, currentFrameIndex, indices, taskVars, fenceVars, failures>>

\* Mutant: the command buffers are not made dependents of the fence.
SubmitWithoutDependents ==
    LET f == Fence(0) IN
    /\ pc = "record" /\ toRecord = {} /\ recorded # {}
    /\ pc' = "idle"
    /\ executing' = [executing EXCEPT ![f] = recorded]
    /\ frameOf' = [frameOf EXCEPT ![f] = frame]
    /\ recorded' = {}
    /\ UNCHANGED <<frame, currentFrameIndex, indices, toRecord, pool, inUse, dependents, signaled>>
    /\ UNCHANGED <<refused, failures>>

\* Mutant: the queue is not given the fence.
SubmitWithoutFence ==
    LET f == Fence(0) IN
    /\ pc = "record" /\ toRecord = {} /\ recorded # {}
    /\ pc' = "idle"
    /\ dependents' = [dependents EXCEPT ![f] = @ \cup recorded]
    /\ recorded' = {}
    /\ UNCHANGED <<frame, currentFrameIndex, indices, toRecord, pool, inUse, signaled, executing>>
    /\ UNCHANGED <<frameOf, refused, failures>>

\* finish(): the command buffers become dependents of the fence, and the queue is
\* given them together with the fence.
FinishSubmit ==
    LET f == Fence(0) IN
    /\ pc = "record" /\ toRecord = {} /\ recorded # {}
    /\ pc' = "idle"
    /\ dependents' = [dependents EXCEPT ![f] = @ \cup recorded]
    /\ executing' = [executing EXCEPT ![f] = recorded]
    /\ frameOf' = [frameOf EXCEPT ![f] = frame]
    /\ recorded' = {}
    /\ UNCHANGED <<frame, currentFrameIndex, indices, toRecord, pool, inUse, signaled>>
    /\ UNCHANGED <<refused, failures>>

\* finish() when the queue refuses the submission: the command buffers depend all
\* the same on the fence, which nothing will signal.
FinishRefused ==
    LET f == Fence(0) IN
    /\ pc = "record" /\ toRecord = {} /\ recorded # {}
    /\ pc' = "idle"
    /\ dependents' = [dependents EXCEPT ![f] = @ \cup recorded]
    /\ refused' = refused \cup {f}
    /\ recorded' = {}
    /\ UNCHANGED <<frame, currentFrameIndex, indices, toRecord, pool, inUse, signaled, executing>>
    /\ UNCHANGED <<frameOf, failures>>

\* The GPU finishes the submission of a fence and signals it.
GpuCompletes(f) ==
    /\ executing[f] # {}
    /\ executing' = [executing EXCEPT ![f] = {}]
    /\ signaled' = signaled \cup {f}
    /\ UNCHANGED <<pc, frame, currentFrameIndex, indices, taskVars, dependents, frameOf>>
    /\ UNCHANGED <<refused, failures>>

TaskStep ==
    \/ Start \/ FinishTransferFails \/ FinishEmpty \/ FinishSubmit \/ FinishRefused
    \/ \E g \in Graphs : Record(g)

Next == Advance \/ TaskStep \/ \E f \in Fences : GpuCompletes(f)

\* The thread of a task that has been started goes on, and so does the GPU.
Fairness == WF_vars(TaskStep) /\ \A f \in Fences : WF_vars(GpuCompletes(f))

Spec == Init /\ [][Next]_vars
FairSpec == Spec /\ Fairness
--------------------------------------------------------------------------------
TypeOK ==
    /\ pc \in {"idle", "start", "record"}
    /\ frame \in 0 .. MaxFrame
    /\ currentFrameIndex \in IF frame = 0 THEN {Unset} ELSE Fences
    /\ indices \in [Fences -> Fences \cup {Unset}]
    /\ toRecord \subseteq Graphs
    /\ pool \in [Graphs -> Nat]
    /\ inUse \subseteq Buffers /\ recorded \subseteq Buffers
    /\ dependents \in [Fences -> SUBSET Buffers]
    /\ signaled \subseteq Fences
    /\ executing \in [Fences -> SUBSET Buffers]
    /\ frameOf \in [Fences -> 0 .. MaxFrame]
    /\ refused \subseteq Fences
    /\ failures \in 0 .. MaxFailures

\* The GPU works on no command buffer that is being recorded or waits for its
\* submission: CommandGraph::record resets and rerecords only what is free.
RecordingIsPrivate == \A f \in Fences : recorded \cap executing[f] = {}

\* From the end of start() to the submission the fence is unsignaled and belongs
\* to no submission, as vkQueueSubmit demands.
FenceIsFresh ==
    pc = "record" => /\ Fence(0) \notin signaled
                     /\ executing[Fence(0)] = {}
                     /\ dependents[Fence(0)] = {}

\* fence(k) is the fence of k frames ago, or none if there was no such frame.
IndicesAreHistory ==
    \A k \in Fences :
        indices[k] = IF k < frame THEN (frame - 1 - k) % NumBuffers ELSE Unset

\* A graph needs no more command buffers than there are fences, and one more for
\* each frame that was recorded and dropped, because its late transfer failed.
PoolIsBounded == \A g \in Graphs : pool[g] <= NumBuffers + failures

\* The task implements FramesInFlight: the GPU lags behind by NumBuffers at most.
Frames == INSTANCE FramesInFlight WITH
    stage <- IF pc = "start" THEN "update" ELSE "record",
    inFlight <- {frameOf[f] : f \in {e \in Fences : executing[e] # {}}}

ImplementsFramesInFlight == Frames!Spec

\* start() is left waiting for ever only by a submission that the queue refused, when
\* the turn of its fence comes again; whatever else fails, every frame is finished.
FrameIsFinished ==
    pc # "idle" ~> (pc = "idle" \/ (pc = "start" /\ Fence(0) \in refused))
================================================================================

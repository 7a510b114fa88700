------------------------------ MODULE TransferTask ------------------------------
(***************************************************************************)
(* vsg::TransferTask with the part of vsg::RecordAndSubmitTask that uses   *)
(* it: modified data are copied into a staging block and from there by a   *)
(* submission to the transfer queue, early for what is modified before the *)
(* record traversal and late for what is modified during it.  Binary       *)
(* semaphores order the copies and the frames that read what they write.   *)
(*                                                                         *)
(* A queue of the GPU begins its submissions in their order, each once the *)
(* semaphores it waits for are signaled, and completes them in that order; *)
(* between the two, the work of several submissions overlaps.  A wait at   *)
(* the bottom of the pipe holds back the completion and not the work.  The *)
(* copies go to the queue of the frames unless the device has another one. *)
(***************************************************************************)
EXTENDS Integers, Sequences, FiniteSets, Functions, SequencesExt

CONSTANTS
    NumBuffers,     \* fences of the task and blocks of each kind, 3 in the viewer
    Items,          \* BufferInfos and ImageInfos that may be assigned
    Late,           \* those with DYNAMIC_DATA_TRANSFER_AFTER_RECORD
    Static,         \* those whose data is not dynamic
    MaxCount,       \* bound on the modified count of each item
    MaxFailures     \* bound on Vulkan calls that fail

ASSUME ItemsAssumption == Late \subseteq Items /\ Static \subseteq Items \ Late
ASSUME RingAssumption == NumBuffers \in Nat \ {0}
ASSUME LimitsAssumption == MaxCount \in [Items -> Nat] /\ MaxFailures \in Nat

Kinds == {"early", "late"}
Of(kind) == IF kind = "late" THEN Late ELSE Items \ Late
Blocks == Kinds \X (0 .. NumBuffers - 1)

Torn == -1            \* contents of device memory that is being written, or that two
                      \* copies have written at a time
Nothing == [i \in {} |-> 0]    \* what a frame without a copy of a kind carries

\* transferCompleteSemaphore of a kind, and the semaphore of the task that tells
\* that the frame has read what was copied
Complete(kind) == <<"transferComplete", kind>>
ConsumerCompleted(kind) == <<"transferConsumerCompleted", kind>>
SemaphoresOf == {Complete(k) : k \in Kinds} \cup {ConsumerCompleted(k) : k \in Kinds}

VARIABLES
    pc,                 \* of the task: "idle", "early", "late" or "finish"
    fence,              \* index of the fence of the frame
    dataTransferred,    \* early/lateDataTransferredSemaphore: what its copy carries
    modifiedCount, copiedCount,
    referenced,         \* items that somebody else refers to
    assigned,           \* dataMap and imageInfoSet of both kinds
    frameIndex,         \* the next block of each kind
    waitOnFence,        \* blocks whose fence has to be waited for
    staging,            \* contents of the blocks
    consumer,           \* transferConsumerCompletedSemaphore of each kind, if set
    failures,
    dropped,            \* history: a semaphore to wait for was dropped by a failure
    handedOver,         \* history: one was handed to a copy in the other queue
    unsubmitted,        \* fences of frames that the queue has not taken
    transferQueue,      \* where the copies go, "main" as the frames or "transfer"
    submitted,          \* submissions the GPU has not completed
    signaled,           \* semaphores and fences of blocks that are signaled
    ahead,              \* fences of copies at work that have still to wait
    raced,              \* items that are, or were last, written by two copies at a time
    device              \* contents of device memory

taskVars == <<pc, fence, dataTransferred>>
dataVars == <<modifiedCount, copiedCount, referenced, assigned>>
copyVars == <<frameIndex, waitOnFence, staging, consumer>>
gpuVars == <<submitted, signaled, ahead, raced, device>>
faultVars == <<failures, dropped, handedOver, unsubmitted, transferQueue>>
vars == <<taskVars, dataVars, copyVars, gpuVars, faultVars>>

Init ==
    /\ pc = "idle" /\ fence = NumBuffers - 1
    /\ dataTransferred = [k \in Kinds |-> Nothing]
    /\ modifiedCount = [i \in Items |-> 0] /\ copiedCount = [i \in Items |-> 0]
    /\ referenced = Items /\ assigned = {}
    /\ frameIndex = [k \in Kinds |-> 0]
    /\ waitOnFence = {}
    /\ staging = [b \in Blocks |-> [i \in Items |-> 0]]
    /\ consumer = [k \in Kinds |-> {}]
    /\ failures = 0 /\ dropped = FALSE /\ handedOver = FALSE /\ unsubmitted = {}
    /\ transferQueue \in {"main", "transfer"}
    /\ submitted = <<>> /\ signaled = {} /\ ahead = {} /\ raced = {}
    /\ device = [i \in Items |-> 0]

--------------------------------------------------------------------------------
(* The application and the threads that compile.                           *)

\* Data::dirty(): early data change between frames, late data also during the
\* record traversal, which comes before the late transfer.
Modify(i) ==
    /\ pc = "idle" \/ (i \in Late /\ pc \in {"early", "late"})
    /\ i \in referenced /\ i \notin Static
    /\ modifiedCount[i] < MaxCount[i]
    /\ modifiedCount' = [modifiedCount EXCEPT ![i] = @ + 1]
    /\ UNCHANGED <<taskVars, copiedCount, referenced, assigned, copyVars, gpuVars, faultVars>>

\* createBufferAndTransferData(): what has been compiled is dirty and assigned.
Assign(i) ==
    /\ i \in referenced \ assigned
    /\ modifiedCount[i] < MaxCount[i]
    /\ modifiedCount' = [modifiedCount EXCEPT ![i] = @ + 1]
    /\ assigned' = assigned \cup {i}
    /\ UNCHANGED <<taskVars, copiedCount, referenced, copyVars, gpuVars, faultVars>>

\* The last reference but that of the task goes.
Orphan(i) ==
    /\ i \in referenced
    /\ referenced' = referenced \ {i}
    /\ UNCHANGED <<taskVars, modifiedCount, copiedCount, assigned, copyVars, gpuVars, faultVars>>

--------------------------------------------------------------------------------
(* TransferTask::_transferData, under the mutex.                           *)

\* The items to copy; requiresCopy() if there are any.
Modified(kind) ==
    {i \in assigned \cap Of(kind) \cap referenced : modifiedCount[i] # copiedCount[i]}

Block(kind) == <<kind, frameIndex[kind]>>

\* Mutant: the block is taken without waiting for the GPU to have read it.
BlockIsFreeUnwaited(kind) == TRUE

BlockIsFree(kind) == Block(kind) \in waitOnFence => Block(kind) \in signaled

\* Mutant: the modified counts are synced, and nothing is written.
FillBlockSyncingOnly(kind) ==
    /\ copiedCount' = [i \in Items |-> IF i \in Modified(kind) THEN modifiedCount[i] ELSE copiedCount[i]]
    /\ assigned' = assigned \ (Of(kind) \ (referenced \ Static))
    /\ UNCHANGED staging

\* _transferBufferInfos and _transferImageInfos: the modified counts are synced,
\* and orphans and static data leave the collection.
FillBlock(kind) ==
    /\ copiedCount' = [i \in Items |-> IF i \in Modified(kind) THEN modifiedCount[i] ELSE copiedCount[i]]
    /\ assigned' = assigned \ (Of(kind) \ (referenced \ Static))
    /\ staging' = [staging EXCEPT ![Block(kind)] =
                      [i \in Items |-> IF i \in Modified(kind) THEN modifiedCount[i] ELSE @[i]]]

Copying(kind, waits) ==
    [queue |-> transferQueue,
     fence |-> Block(kind), waits |-> waits, signals |-> {Complete(kind)},
     data |-> Restrict(modifiedCount, Modified(kind)), begun |-> FALSE]

\* Mutant: the copy does not wait for the frame that reads what was copied before.
CopyWithoutWait(kind) == Copying(kind, {})

Copy(kind) == Copying(kind, consumer[kind])

After(kind) == IF kind = "early" THEN "late" ELSE "finish"

TransferNothing(kind) ==
    /\ pc = kind /\ Modified(kind) = {}
    /\ pc' = After(kind)
    /\ UNCHANGED <<fence, dataTransferred, dataVars, copyVars, gpuVars, faultVars>>

\* Everything that does not depend on whether the queue takes the submission.
PrepareCopy(kind) ==
    /\ pc = kind /\ Modified(kind) # {}
    /\ BlockIsFree(kind)
    /\ FillBlock(kind)
    /\ frameIndex' = [frameIndex EXCEPT ![kind] = (@ + 1) % NumBuffers]
    /\ waitOnFence' = waitOnFence \cup {Block(kind)}
    /\ consumer' = [consumer EXCEPT ![kind] = {}]
    /\ signaled' = signaled \ {Block(kind)}
    /\ UNCHANGED <<fence, modifiedCount, referenced, ahead, raced, device>>

TransferData(kind) ==
    /\ PrepareCopy(kind)
    /\ submitted' = Append(submitted, Copy(kind))
    /\ dataTransferred' = [dataTransferred EXCEPT ![kind] = Copy(kind).data]
    /\ pc' = After(kind)
    /\ UNCHANGED faultVars

\* After a failure submit() and finish() return, and the frame is over; the thread
\* for early transfers of a viewer with threads goes on.
Fail(kind) ==
    /\ failures < MaxFailures /\ failures' = failures + 1
    /\ pc' = "idle" \/ (kind = "early" /\ pc' = "late")
    /\ UNCHANGED <<dataTransferred, handedOver, unsubmitted, transferQueue>>

WaitFails(kind) ==
    /\ pc = kind /\ Modified(kind) # {} /\ Block(kind) \in waitOnFence
    /\ Fail(kind)
    /\ dropped' = (dropped \/ dataTransferred["early"] # Nothing)
    /\ UNCHANGED <<fence, dataVars, copyVars, gpuVars>>

SubmitCopyFails(kind) ==
    /\ PrepareCopy(kind)
    /\ Fail(kind)
    /\ dropped' = (dropped \/ dataTransferred["early"] # Nothing \/ consumer[kind] # {})
    /\ UNCHANGED submitted

--------------------------------------------------------------------------------
(* RecordAndSubmitTask.                                                    *)

\* advance(), and start() that waits for the fence of the frame
Start ==
    LET next == (fence + 1) % NumBuffers IN
    /\ pc = "idle"
    /\ next \notin unsubmitted
    /\ \A n \in DOMAIN submitted : submitted[n].fence # <<"frame", next>>
    /\ pc' = "early"
    /\ fence' = next
    /\ dataTransferred' = [k \in Kinds |-> Nothing]
    /\ UNCHANGED <<dataVars, copyVars, gpuVars, faultVars>>

Transferred == {k \in Kinds : dataTransferred[k] # Nothing}

\* The assignments of transferConsumerCompletedSemaphore in finish().
Assigned(semaphores) ==
    [k \in Kinds |-> IF k \in Transferred THEN {semaphores[k]} ELSE consumer[k]]

\* Mutant: the semaphore of the transfer is left signaled.
FinishEmptyWithoutAssignment ==
    /\ pc = "finish"
    /\ pc' = "idle"
    /\ UNCHANGED <<fence, dataTransferred, dataVars, copyVars, gpuVars, faultVars>>

\* Mutant: the next copy waits for the semaphore of a frame that is not submitted.
FinishEmptyAsIfSubmitted ==
    /\ pc = "finish"
    /\ consumer' = Assigned([k \in Kinds |-> ConsumerCompleted(k)])
    /\ pc' = "idle"
    /\ UNCHANGED <<fence, dataTransferred, dataVars, frameIndex, waitOnFence, staging,
                   gpuVars, faultVars>>

\* finish() of a frame that has recorded nothing: the next copy waits for this one.
FinishEmpty ==
    /\ pc = "finish"
    /\ consumer' = Assigned([k \in Kinds |-> Complete(k)])
    /\ pc' = "idle"
    /\ handedOver' = (handedOver \/ (transferQueue # "main" /\ Transferred # {}))
    /\ UNCHANGED <<fence, dataTransferred, dataVars, frameIndex, waitOnFence, staging,
                   gpuVars, failures, dropped, unsubmitted, transferQueue>>

Frame ==
    [queue |-> "main", fence |-> <<"frame", fence>>,
     waits |-> {Complete(k) : k \in Transferred},
     signals |-> {ConsumerCompleted(k) : k \in Transferred},
     data |-> [i \in DOMAIN dataTransferred["early"] \cup DOMAIN dataTransferred["late"] |->
                  IF i \in Late THEN dataTransferred["late"][i] ELSE dataTransferred["early"][i]],
     begun |-> FALSE]

\* finish() of a frame that has recorded command buffers.
FinishSubmit ==
    /\ pc = "finish"
    /\ submitted' = Append(submitted, Frame)
    /\ consumer' = Assigned([k \in Kinds |-> ConsumerCompleted(k)])
    /\ pc' = "idle"
    /\ UNCHANGED <<fence, dataTransferred, dataVars, frameIndex, waitOnFence, staging,
                   signaled, ahead, raced, device, faultVars>>

\* The queue does not take the frame, whose semaphores have been assigned; its
\* fence has command buffers and nothing will signal it.
FinishSubmitFails ==
    /\ pc = "finish"
    /\ failures < MaxFailures /\ failures' = failures + 1
    /\ dropped' = (dropped \/ Transferred # {})
    /\ unsubmitted' = unsubmitted \cup {fence}
    /\ consumer' = Assigned([k \in Kinds |-> ConsumerCompleted(k)])
    /\ pc' = "idle"
    /\ UNCHANGED <<fence, dataTransferred, dataVars, frameIndex, waitOnFence, staging,
                   gpuVars, handedOver, transferQueue>>

--------------------------------------------------------------------------------
(* The GPU.                                                                *)

SameQueueBefore(n) == {m \in 1 .. n - 1 : submitted[m].queue = submitted[n].queue}

IsCopy(submission) == submission.fence \in Blocks

ItemsOf(n) == IF IsCopy(submitted[n]) THEN DOMAIN submitted[n].data ELSE {}

\* A copy that begins to write; nothing orders it with another one at work.
Writes(n) ==
    LET others == {m \in DOMAIN submitted \ {n} : submitted[m].begun \/ submitted[m].fence \in ahead}
    IN  /\ raced' = (raced \ ItemsOf(n)) \cup (ItemsOf(n) \cap UNION {ItemsOf(m) : m \in others})
        /\ device' = [i \in Items |-> IF i \in ItemsOf(n) THEN Torn ELSE device[i]]

\* The semaphores of the task have the default stage, the bottom of the pipe, so that
\* a copy that waits for nothing else is not held back, nor what is behind it in the
\* queue; those of the transfers have the stage of all commands.
GpuRunsAhead(n) ==
    /\ IsCopy(submitted[n]) /\ ~submitted[n].begun /\ submitted[n].fence \notin ahead
    /\ submitted[n].waits \subseteq {ConsumerCompleted(k) : k \in Kinds}
    /\ \A m \in SameQueueBefore(n) : submitted[m].begun \/ submitted[m].fence \in ahead
    /\ ahead' = ahead \cup {submitted[n].fence}
    /\ Writes(n)
    /\ UNCHANGED <<taskVars, dataVars, copyVars, faultVars, submitted, signaled>>

GpuBegins(n) ==
    /\ ~submitted[n].begun /\ \A m \in SameQueueBefore(n) : submitted[m].begun
    /\ submitted[n].waits \subseteq signaled
    /\ submitted' = [submitted EXCEPT ![n].begun = TRUE]
    /\ signaled' = signaled \ submitted[n].waits
    /\ ahead' = ahead \ {submitted[n].fence}
    /\ IF submitted[n].fence \in ahead THEN UNCHANGED <<raced, device>> ELSE Writes(n)
    /\ UNCHANGED <<taskVars, dataVars, copyVars, faultVars>>

\* Device memory gets what is in the block by now.
GpuCompletes(n) ==
    /\ submitted[n].begun /\ SameQueueBefore(n) = {}
    /\ submitted' = RemoveAt(submitted, n)
    /\ signaled' = signaled \cup submitted[n].signals \cup ({submitted[n].fence} \cap Blocks)
    /\ device' = [i \in Items |-> IF i \in ItemsOf(n) \ raced
                                 THEN staging[submitted[n].fence][i] ELSE device[i]]
    /\ UNCHANGED <<taskVars, dataVars, copyVars, faultVars, ahead, raced>>

--------------------------------------------------------------------------------
TransferStep(kind) == TransferNothing(kind) \/ TransferData(kind)
TransferFails(kind) == WaitFails(kind) \/ SubmitCopyFails(kind)

TaskStep == Start \/ FinishEmpty \/ FinishSubmit \/ \E k \in Kinds : TransferStep(k)

GpuStep == \E n \in DOMAIN submitted : GpuRunsAhead(n) \/ GpuBegins(n) \/ GpuCompletes(n)

Next ==
    \/ TaskStep \/ FinishSubmitFails \/ \E k \in Kinds : TransferFails(k)
    \/ \E i \in Items : Modify(i) \/ Assign(i) \/ Orphan(i)
    \/ GpuStep

Spec == Init /\ [][Next]_vars
--------------------------------------------------------------------------------
TypeOK ==
    /\ pc \in {"idle", "early", "late", "finish"}
    /\ fence \in 0 .. NumBuffers - 1
    /\ \A i \in Items : copiedCount[i] \in 0 .. modifiedCount[i] /\ modifiedCount[i] \in 0 .. MaxCount[i]
    /\ referenced \subseteq Items /\ assigned \subseteq Items
    /\ frameIndex \in [Kinds -> 0 .. NumBuffers - 1]
    /\ waitOnFence \subseteq Blocks
    /\ \A b \in Blocks, i \in Items : staging[b][i] \in 0 .. copiedCount[i]
    /\ consumer \in [Kinds -> SUBSET SemaphoresOf]
    /\ failures \in 0 .. MaxFailures /\ dropped \in BOOLEAN /\ handedOver \in BOOLEAN
    /\ unsubmitted \subseteq 0 .. NumBuffers - 1
    /\ transferQueue \in {"main", "transfer"}
    /\ signaled \subseteq SemaphoresOf \cup Blocks
    /\ ahead \subseteq Blocks /\ raced \subseteq Items
    /\ \A i \in Items : device[i] \in {Torn} \cup 0 .. copiedCount[i]

\* Whatever fails, the block of a copy the GPU has not completed holds what was
\* written for that copy: the ring of blocks never laps the GPU.
StagingIsStable ==
    \A n \in {m \in DOMAIN submitted : IsCopy(submitted[m])} :
        \A i \in DOMAIN submitted[n].data :
            staging[submitted[n].fence][i] = submitted[n].data[i]

\* No call has dropped a semaphore, and no copy was given one that a frame in the
\* other queue may wait for as well.
InStep == ~dropped /\ ~handedOver

Signaling(s) == {n \in DOMAIN submitted : s \in submitted[n].signals}
Waiting(s) == {n \in DOMAIN submitted : s \in submitted[n].waits /\ ~submitted[n].begun}

\* Binary semaphores alternate, as Vulkan demands: each wait has its own signal, and
\* a semaphore that is signaled has no signal pending before the wait for it.
SemaphoresAlternate ==
    InStep =>
        \A s \in SemaphoresOf :
            /\ Cardinality(Signaling(s)) + (IF s \in signaled THEN 1 ELSE 0)
                   - Cardinality(Waiting(s)) \in {0, 1}
            /\ s \in signaled => \A n \in Signaling(s) : ~submitted[n].begun

\* A copy at work that has still to wait for the frame n.
OverwritesEarly(n, i) ==
    \E m \in DOMAIN submitted :
        /\ submitted[m].fence \in ahead /\ i \in ItemsOf(m)
        /\ submitted[m].waits \cap submitted[n].signals # {}

\* A frame that has waited for copies reads exactly what these copies carried, for as
\* long as it executes.  The one that can spoil it is a copy that waits for this very
\* frame, at the bottom of the pipe; or two copies were at work at a time before, which
\* takes a queue of their own.
FrameSeesItsData ==
    InStep =>
        /\ transferQueue = "main" => raced = {}
        /\ \A n \in {m \in DOMAIN submitted : ~IsCopy(submitted[m]) /\ submitted[m].begun} :
            \A i \in DOMAIN submitted[n].data \ raced :
                device[i] = submitted[n].data[i] \/ OverwritesEarly(n, i)

\* Unless a call fails, what is taken for copied is on the device or on its way, if no
\* two copies of it were at work at a time.
NoModificationLost ==
    failures = 0 =>
        \A i \in {j \in Items \ raced : device[j] # copiedCount[j]} :
            \E n \in DOMAIN submitted :
                /\ IsCopy(submitted[n]) /\ i \in DOMAIN submitted[n].data
                /\ submitted[n].data[i] = copiedCount[i]

\* Unless a call fails, neither the GPU nor the task ever waits for what nobody will
\* signal: some submission can go on, and the fence to wait for is that of a copy.
NothingWaitsInVain ==
    failures = 0 /\ ~handedOver =>
        /\ submitted # <<>> =>
              \E n \in DOMAIN submitted :
                  IF submitted[n].begun THEN SameQueueBefore(n) = {}
                  ELSE /\ \A m \in SameQueueBefore(n) : submitted[m].begun
                       /\ submitted[n].waits \subseteq signaled
        /\ \A b \in waitOnFence \ signaled : \E n \in DOMAIN submitted : submitted[n].fence = b

--------------------------------------------------------------------------------
(* What the code is meant to do and does not; see the README.              *)

\* RecordAndSubmitTask.h: "data is transferred for this frame".  After a frame that
\* recorded nothing, a copy in the other queue and the frame wait for one semaphore,
\* and the frame reads what is not there even if every wait holds back the copies.
DataIsTransferredForThisFrame ==
    ~dropped /\ ahead = {} /\ raced = {} =>
        \A n \in {m \in DOMAIN submitted : ~IsCopy(submitted[m]) /\ submitted[m].begun} :
            \A i \in DOMAIN submitted[n].data : device[i] = submitted[n].data[i]
================================================================================

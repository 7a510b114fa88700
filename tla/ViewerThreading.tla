---------------------------- MODULE ViewerThreading ----------------------------
(***************************************************************************)
(* The frame loop of vsg::Viewer and the threads Viewer::setupThreading()  *)
(* starts for its RecordAndSubmitTasks.                                    *)
(*                                                                         *)
(* The thread that owns the viewer ("main") publishes a frame through a    *)
(* FrameBlock and meets the tasks at the barrier _submissionCompleted.  A  *)
(* task is served either by a single "run" thread, or by one thread per    *)
(* CommandGraph -- the first one, "primary", also starts and finishes the  *)
(* task -- and a "transfer" thread for the early data transfer; these meet *)
(* at the task's recordStartBarrier and recordCompletedBarrier.            *)
(*                                                                         *)
(* Barriers are used as AbstractBarrier describes them, which module       *)
(* Barrier implements: a barrier is the set of threads inside it, emptied  *)
(* by the last arrival; a thread that waits leaves once it is not in it.   *)
(***************************************************************************)
EXTENDS Naturals, FiniteSets

CONSTANTS
    Main,          \* the thread that runs the frame loop
    Tasks,         \* recordAndSubmitTasks with a non empty list of commandGraphs
    Workers,       \* the threads started by setupThreading()
    TaskOf,        \* [Workers -> Tasks]
    Role,          \* [Workers -> Roles]
    Executor,      \* secondary command graphs: the graph whose ExecuteCommands runs them
    Windows,       \* windows of the viewer
    WindowOf,      \* [Workers -> Windows], the window of the thread's command graph
    MaxFrame       \* bound on the number of frames

Roles == {"run", "primary", "secondary", "transfer"}

Graphs(t) == {w \in Workers : TaskOf[w] = t /\ Role[w] # "transfer"}
Team(t) == {w \in Workers : TaskOf[w] = t}
HasTransfer(t) == \E w \in Team(t) : Role[w] = "transfer"
Leaders == {w \in Workers : Role[w] \in {"run", "primary"}}

\* The secondary graphs the ExecuteCommands of g waits for.
Secondaries(g) == {w \in DOMAIN Executor : Executor[w] = g}

ASSUME ThreadAssumption ==
    /\ IsFiniteSet(Tasks) /\ IsFiniteSet(Workers)
    /\ Tasks # {}
    /\ Main \notin Workers
    /\ TaskOf \in [Workers -> Tasks]
    /\ Role \in [Workers -> Roles]
    /\ \A t \in Tasks : \E w \in Team(t) : Team(t) \cap Leaders = {w}
    /\ \A w \in Workers : Role[w] = "run" => Team(TaskOf[w]) = {w}

\* Viewer::assignRecordAndSubmitTaskAndPresentation groups the graphs of one
\* device and queue family, so an ExecuteCommands and the secondary graphs
\* connected to it share a task; they draw in the same window.
ASSUME ExecutorAssumption ==
    /\ DOMAIN Executor \subseteq Workers
    /\ WindowOf \in [Workers -> Windows]
    /\ \A w \in DOMAIN Executor :
          /\ Executor[w] \in Graphs(TaskOf[w]) \ DOMAIN Executor
          /\ w \in Graphs(TaskOf[w])
          /\ WindowOf[Executor[w]] = WindowOf[w]

\* The frame stamp of the constructor is the first.
ASSUME FrameAssumption == MaxFrame \in Nat \ {0}

VARIABLES
    mainPc,        \* where main is in its frame loop
    frame,         \* Viewer::_frameStamp, the constructor's being 1
    closed,        \* Viewer::_close
    restart,       \* stopThreading() was called by setupThreading()
    resume,        \* where main continues after setupThreading()/stopThreading()
    threading,     \* Viewer::_threading
    status,        \* Viewer::status, ActivityStatus
    visible,       \* windows that are visible
    block,         \* FrameBlock::_value
    blockAsleep,   \* threads blocked in FrameBlock::_cv.wait
    pc,            \* where each worker is in its loop
    seen,          \* local frameStamp of each worker
    atStart,       \* threads inside the recordStartBarrier of each task
    atDone,        \* threads inside the recordCompletedBarrier of each task
    atSubmit,      \* threads inside _submissionCompleted
    latch,         \* ExecuteCommands::_latch of each graph
    buffer,        \* what its ExecuteCommands holds of each secondary graph: the
                   \* frame of the command buffer, or NoFrame
    recorded,      \* recordedCommandBuffers of each task: graph and frame
    early,         \* frame of earlyDataTransferredSemaphore, or NoFrame
    unsignalled,   \* tasks with a fence whose queue submission has failed
    submitted,     \* what each task has submitted in this frame (history)
    abandoned      \* tasks that returned early, with an error, in this frame (history)

mainVars == <<mainPc, frame, closed, restart, resume, threading, status, visible>>
blockVars == <<block, blockAsleep>>
barriers == <<atStart, atDone, atSubmit>>
history == <<submitted, abandoned>>
taskVars == <<latch, buffer, recorded, early, unsignalled, history>>
vars == <<mainVars, blockVars, pc, seen, barriers, taskVars>>

NoFrame == 0     \* FrameBlock::initial_value, a null ref_ptr

MainPcs == {"idle", "update", "reset", "publish", "arrive", "inside", "present",
            "stopping", "wake", "join", "setup"}
WorkerPcs == {"none", "exited", "wait", "start", "arriveStart", "insideStart",
              "record", "add", "transfer", "arriveDone", "insideDone", "finish", "clear",
              "arriveSubmit", "insideSubmit", "drop"}

\* Where main stands between two frames, where applications add and remove
\* graphs and windows, start and stop the threads.
Between == {"idle", "update"}

VisibleGraphs(t) == {g \in Graphs(t) : WindowOf[g] \in visible}

Init ==
    /\ mainPc = "idle" /\ frame = 1 /\ closed = FALSE
    /\ restart = FALSE /\ resume = "idle"
    /\ threading = FALSE /\ status = TRUE
    /\ visible = Windows
    /\ block = NoFrame /\ blockAsleep = {}
    /\ pc = [w \in Workers |-> "none"]
    /\ seen = [w \in Workers |-> NoFrame]
    /\ atStart = [t \in Tasks |-> {}]
    /\ atDone = [t \in Tasks |-> {}]
    /\ atSubmit = {}
    /\ latch = [w \in Workers |-> 0]
    /\ buffer = [w \in Workers |-> NoFrame]
    /\ recorded = [t \in Tasks |-> {}]
    /\ early = [t \in Tasks |-> NoFrame]
    /\ unsignalled = {}
    /\ submitted = [t \in Tasks |-> {}] /\ abandoned = {}

\* The content of a barrier of n threads after p has arrived.
Entered(barrier, n, p) ==
    IF Cardinality(barrier) + 1 = n THEN {} ELSE barrier \cup {p}

--------------------------------------------------------------------------------
(* The frame loop: advanceToNextFrame, handleEvents and update,            *)
(* recordAndSubmit, present.                                               *)

Goto(here, there) == mainPc = here /\ mainPc' = there

\* pollEvents() lets windows be minimised and restored.
AdvanceToNextFrame ==
    /\ Goto("idle", "update")
    /\ ~closed /\ frame < MaxFrame
    /\ frame' = frame + 1
    /\ visible' \in SUBSET Windows
    /\ UNCHANGED <<closed, restart, resume, threading, status>>
    /\ UNCHANGED <<blockVars, pc, seen, barriers, taskVars>>

RecordAndSubmit ==
    /\ Goto("update", "reset")
    /\ UNCHANGED <<frame, closed, restart, resume, threading, status, visible>>
    /\ UNCHANGED <<blockVars, pc, seen, barriers, taskVars>>

\* Mutant: the latches keep the count the last frame left.
ResetNothing ==
    /\ Goto("reset", "publish")
    /\ UNCHANGED <<frame, closed, restart, resume, threading, status, visible>>
    /\ UNCHANGED <<blockVars, pc, seen, barriers, taskVars>>

\* commandGraph->reset() of every graph, which resets the ExecuteCommands the
\* secondary graphs are connected to.
ResetExecuteCommands ==
    /\ Goto("reset", "publish")
    /\ latch' = [g \in Workers |-> Cardinality(Secondaries(g))]
    /\ buffer' = [w \in Workers |-> NoFrame]
    /\ UNCHANGED <<frame, closed, restart, resume, threading, status, visible>>
    /\ UNCHANGED <<blockVars, pc, seen, barriers, recorded, early, unsignalled, history>>

\* FrameBlock::set
Publish ==
    /\ threading
    /\ Goto("publish", "arrive")
    /\ block' = frame /\ blockAsleep' = {}
    /\ UNCHANGED <<frame, closed, restart, resume, threading, status, visible>>
    /\ UNCHANGED <<pc, seen, barriers, taskVars>>

\* The secondary graphs that record in this frame when the tasks in ts do.
Recording(ts) ==
    {w \in DOMAIN Executor : TaskOf[w] \in ts /\ WindowOf[w] \in visible}

\* Without threads main calls RecordAndSubmitTask::submit() of each task; the
\* secondary graphs come first in the list of a task, so no latch blocks it.
\* submit() returns without recording when start() or the early transfer fails,
\* without submitting when the late transfer does; a submission fails when the
\* queue refuses it.  The viewer ignores all of these results.
SubmitUnthreaded ==
    /\ ~threading
    /\ Goto("publish", "present")
    /\ \E recording \in SUBSET Tasks :
          /\ latch' = [g \in Workers |->
                          latch[g] - Cardinality(Secondaries(g) \cap Recording(recording))]
          /\ buffer' = [w \in Workers |-> IF w \in Recording(recording) THEN frame ELSE buffer[w]]
          /\ \E done \in SUBSET recording, refused \in SUBSET recording :
                /\ refused \cap done = {}
                /\ \A t \in refused : VisibleGraphs(t) # {}
                /\ submitted' = [t \in Tasks |-> IF t \in done THEN VisibleGraphs(t) \X {frame}
                                                            ELSE {}]
                /\ abandoned' = Tasks \ done
                /\ unsignalled' = unsignalled \cup refused
    /\ \E transferred \in SUBSET {t \in Tasks : HasTransfer(t)} :
          early' = [t \in Tasks |-> IF t \in transferred THEN frame ELSE NoFrame]
    /\ UNCHANGED <<frame, closed, restart, resume, threading, status, visible>>
    /\ UNCHANGED <<blockVars, pc, seen, barriers, recorded>>

\* Mutant: main is not counted.
SubmitThreadsWithoutMain == Cardinality(Tasks)

SubmitThreads == 1 + Cardinality(Tasks)

\* Mutant: main uses arrive_and_drop().
MainArrivesAndDrops ==
    /\ Goto("arrive", "present")
    /\ atSubmit' = Entered(atSubmit, SubmitThreads, Main)
    /\ UNCHANGED <<frame, closed, restart, resume, threading, status, visible>>
    /\ UNCHANGED <<blockVars, pc, seen, atStart, atDone, taskVars>>

MainArrives ==
    /\ mainPc = "arrive"
    /\ atSubmit' = Entered(atSubmit, SubmitThreads, Main)
    /\ mainPc' = IF Main \in atSubmit' THEN "inside" ELSE "present"
    /\ UNCHANGED <<frame, closed, restart, resume, threading, status, visible>>
    /\ UNCHANGED <<blockVars, pc, seen, atStart, atDone, taskVars>>

MainReleased ==
    /\ Goto("inside", "present")
    /\ Main \notin atSubmit
    /\ UNCHANGED <<frame, closed, restart, resume, threading, status, visible>>
    /\ UNCHANGED <<blockVars, pc, seen, barriers, taskVars>>

\* The histories are those of one frame.
Present ==
    /\ Goto("present", "idle")
    /\ submitted' = [t \in Tasks |-> {}] /\ abandoned' = {}
    /\ UNCHANGED <<frame, closed, restart, resume, threading, status, visible>>
    /\ UNCHANGED <<blockVars, pc, seen, barriers>>
    /\ UNCHANGED <<latch, buffer, recorded, early, unsignalled>>

--------------------------------------------------------------------------------
(* setupThreading(), stopThreading() and close().                          *)

\* What stopThreading() does first: nothing when there are no threads.
BeginStop ==
    /\ resume' = mainPc
    /\ mainPc' = IF threading THEN "stopping" ELSE IF restart' THEN "setup" ELSE mainPc
    /\ threading' = FALSE

\* Called by the application, and by assignRecordAndSubmitTaskAndPresentation()
\* and assignInstrumentation() when there are threads.
SetupThreading ==
    /\ mainPc \in Between /\ ~closed
    /\ restart' = TRUE
    /\ BeginStop
    /\ UNCHANGED <<frame, closed, status, visible>>
    /\ UNCHANGED <<blockVars, pc, seen, barriers, taskVars>>

StopThreading ==
    /\ mainPc \in Between /\ threading
    /\ restart' = FALSE
    /\ BeginStop
    /\ UNCHANGED <<frame, closed, status, visible>>
    /\ UNCHANGED <<blockVars, pc, seen, barriers, taskVars>>

Close ==
    /\ mainPc \in Between /\ ~closed
    /\ closed' = TRUE
    /\ status' = FALSE
    /\ restart' = FALSE
    /\ BeginStop
    /\ UNCHANGED <<frame, visible>>
    /\ UNCHANGED <<blockVars, pc, seen, barriers, taskVars>>

ClearStatus ==
    /\ Goto("stopping", "wake")
    /\ status' = FALSE
    /\ UNCHANGED <<frame, closed, restart, resume, threading, visible>>
    /\ UNCHANGED <<blockVars, pc, seen, barriers, taskVars>>

\* Mutant: the threads asleep on the frame block are not woken.
WakeNobody ==
    /\ Goto("wake", "join")
    /\ UNCHANGED <<frame, closed, restart, resume, threading, status, visible, block>>
    /\ UNCHANGED <<blockAsleep, pc, seen, barriers, taskVars>>

\* FrameBlock::wake
Wake ==
    /\ Goto("wake", "join")
    /\ blockAsleep' = {}
    /\ UNCHANGED <<frame, closed, restart, resume, threading, status, visible, block>>
    /\ UNCHANGED <<pc, seen, barriers, taskVars>>

Join ==
    /\ mainPc = "join"
    /\ \A w \in Workers : pc[w] = "exited"
    /\ pc' = [w \in Workers |-> "none"]
    /\ mainPc' = IF restart THEN "setup" ELSE resume
    /\ UNCHANGED <<frame, closed, restart, resume, threading, status, visible>>
    /\ UNCHANGED <<blockVars, seen, barriers, taskVars>>

\* The FrameBlock, the barriers and the recordedCommandBuffers are new objects.
StartThreads ==
    /\ Goto("setup", resume)
    /\ status' = TRUE /\ threading' = TRUE
    /\ block' = NoFrame /\ blockAsleep' = {}
    /\ pc' = [w \in Workers |-> "wait"]
    /\ seen' = [w \in Workers |-> NoFrame]
    /\ atStart' = [t \in Tasks |-> {}]
    /\ atDone' = [t \in Tasks |-> {}]
    /\ atSubmit' = {}
    /\ recorded' = [t \in Tasks |-> {}]
    /\ UNCHANGED <<frame, closed, restart, resume, visible>>
    /\ UNCHANGED <<latch, buffer, early, unsignalled, history>>

\* The frame loop ends when the viewer is closed.
Terminated ==
    /\ closed /\ mainPc = "idle"
    /\ UNCHANGED vars

--------------------------------------------------------------------------------
(* The worker threads.                                                     *)

FirstStep == [run |-> "start", primary |-> "start",
              secondary |-> "arriveStart", transfer |-> "arriveStart"]

Step(w, here, there) == pc[w] = here /\ pc' = [pc EXCEPT ![w] = there]

\* FrameBlock::wait_for_change, one evaluation of its condition.
WaitForChange(w) ==
    /\ pc[w] = "wait" /\ w \notin blockAsleep
    /\ \/ /\ block = seen[w] /\ status
          /\ blockAsleep' = blockAsleep \cup {w}
          /\ UNCHANGED <<pc, seen>>
       \/ /\ block # seen[w] \/ ~status
          /\ seen' = [seen EXCEPT ![w] = block]
          /\ pc' = [pc EXCEPT ![w] = IF status THEN FirstStep[Role[w]] ELSE "exited"]
          /\ UNCHANGED blockAsleep
    /\ UNCHANGED <<mainVars, block, barriers, taskVars>>

SpuriousWakeup(w) ==
    /\ w \in blockAsleep
    /\ blockAsleep' = blockAsleep \ {w}
    /\ UNCHANGED <<mainVars, block, pc, seen, barriers, taskVars>>

\* Mutant: the semaphore of an earlier frame is kept.
StartKeepsSemaphore(w) ==
    /\ Step(w, "start", IF Role[w] = "run" THEN "record" ELSE "arriveStart")
    /\ UNCHANGED <<mainVars, blockVars, seen, barriers, taskVars>>

\* RecordAndSubmitTask::start: forget the semaphores, wait for the fence.  When the
\* wait fails, submit() returns and the run thread goes on to the barrier; the
\* primary thread of a team ignores the result.
Start(w) ==
    /\ \/ /\ Step(w, "start", IF Role[w] = "run" THEN "record" ELSE "arriveStart")
          /\ UNCHANGED abandoned
       \/ /\ Role[w] = "run"
          /\ Step(w, "start", "drop")
          /\ abandoned' = abandoned \cup {TaskOf[w]}
    /\ early' = [early EXCEPT ![TaskOf[w]] = NoFrame]
    /\ UNCHANGED <<mainVars, blockVars, seen, barriers>>
    /\ UNCHANGED <<latch, buffer, recorded, unsignalled, submitted>>

Activity(w) == IF Role[w] = "transfer" THEN "transfer" ELSE "record"

TeamSize(w) == Cardinality(Team(TaskOf[w]))

ArriveStart(w) ==
    /\ pc[w] = "arriveStart"
    /\ atStart' = [atStart EXCEPT ![TaskOf[w]] = Entered(@, TeamSize(w), w)]
    /\ pc' = [pc EXCEPT ![w] =
                IF w \in atStart'[TaskOf[w]] THEN "insideStart" ELSE Activity(w)]
    /\ UNCHANGED <<mainVars, blockVars, seen, atDone, atSubmit, taskVars>>

LeaveStart(w) ==
    /\ w \notin atStart[TaskOf[w]]
    /\ Step(w, "insideStart", Activity(w))
    /\ UNCHANGED <<mainVars, blockVars, seen, barriers, taskVars>>

AfterRecord(w) == IF Role[w] = "run" THEN "finish" ELSE "arriveDone"

\* What a secondary graph does at the end of its recording, ExecuteCommands::completed:
\* its command buffer becomes known, then the latch is counted down.
Complete(w) ==
    /\ buffer' = [buffer EXCEPT ![w] = IF w \in DOMAIN Executor THEN seen[w] ELSE @]
    /\ latch' = [g \in Workers |-> IF w \in Secondaries(g) THEN latch[g] - 1 ELSE latch[g]]

\* Mutant: a primary graph executes its secondary graphs without waiting.
RecordWithoutLatch(w) ==
    /\ IF WindowOf[w] \in visible
       THEN Step(w, "record", "add") /\ Complete(w)
       ELSE Step(w, "record", AfterRecord(w)) /\ UNCHANGED <<buffer, latch>>
    /\ UNCHANGED <<mainVars, blockVars, seen, barriers>>
    /\ UNCHANGED <<recorded, early, unsignalled, history>>

\* CommandGraph::record and SecondaryCommandGraph::record: nothing at all when
\* the window is not visible; otherwise a graph with an ExecuteCommands waits for
\* its latch and executes what the ExecuteCommands holds, and a secondary graph
\* completes its own.
Record(w) ==
    /\ IF WindowOf[w] \in visible
       THEN latch[w] = 0 /\ Step(w, "record", "add") /\ Complete(w)
       ELSE Step(w, "record", AfterRecord(w)) /\ UNCHANGED <<buffer, latch>>
    /\ UNCHANGED <<mainVars, blockVars, seen, barriers>>
    /\ UNCHANGED <<recorded, early, unsignalled, history>>

\* The last call of record(): recordedCommandBuffers->add.  The graph that executes
\* a secondary graph may get here before the secondary does.
AddRecorded(w) ==
    /\ Step(w, "add", AfterRecord(w))
    /\ recorded' = [recorded EXCEPT ![TaskOf[w]] = @ \cup {<<w, seen[w]>>}]
    /\ UNCHANGED <<mainVars, blockVars, seen, barriers>>
    /\ UNCHANGED <<latch, buffer, early, unsignalled, history>>

\* transferData(TRANSFER_BEFORE_RECORD_TRAVERSAL): no semaphore when there is nothing
\* to copy or when it fails, which the thread ignores.
EarlyTransfer(w) ==
    /\ Step(w, "transfer", "arriveDone")
    /\ \E semaphore \in {early[TaskOf[w]], seen[w]} :
          early' = [early EXCEPT ![TaskOf[w]] = semaphore]
    /\ UNCHANGED <<mainVars, blockVars, seen, barriers>>
    /\ UNCHANGED <<latch, buffer, recorded, unsignalled, history>>

AfterDone(w) == IF Role[w] = "primary" THEN "finish" ELSE "wait"

\* Mutant: the primary thread does not wait for the other threads.
ArriveDoneAndDrop(w) ==
    /\ pc[w] = "arriveDone"
    /\ atDone' = [atDone EXCEPT ![TaskOf[w]] = Entered(@, TeamSize(w), w)]
    /\ pc' = [pc EXCEPT ![w] =
                IF w \in atDone'[TaskOf[w]] /\ Role[w] # "primary"
                THEN "insideDone" ELSE AfterDone(w)]
    /\ UNCHANGED <<mainVars, blockVars, seen, atStart, atSubmit, taskVars>>

ArriveDone(w) ==
    /\ pc[w] = "arriveDone"
    /\ atDone' = [atDone EXCEPT ![TaskOf[w]] = Entered(@, TeamSize(w), w)]
    /\ pc' = [pc EXCEPT ![w] =
                IF w \in atDone'[TaskOf[w]] THEN "insideDone" ELSE AfterDone(w)]
    /\ UNCHANGED <<mainVars, blockVars, seen, atStart, atSubmit, taskVars>>

LeaveDone(w) ==
    /\ w \notin atDone[TaskOf[w]]
    /\ Step(w, "insideDone", AfterDone(w))
    /\ UNCHANGED <<mainVars, blockVars, seen, barriers, taskVars>>

\* RecordAndSubmitTask::finish: submit what has been recorded, unless the late
\* transfer fails; the queue may refuse the submission, which leaves a fence that
\* nothing signals.  The callers ignore the result.  The buffers of a run thread
\* are local to RecordAndSubmitTask::submit.
Finish(w) ==
    LET t == TaskOf[w] IN
    /\ Step(w, "finish", IF Role[w] = "run" THEN "drop" ELSE "clear")
    /\ \/ /\ submitted' = [submitted EXCEPT ![t] = recorded[t]]
          /\ UNCHANGED <<unsignalled, abandoned>>
       \/ /\ HasTransfer(t)
          /\ abandoned' = abandoned \cup {t}
          /\ UNCHANGED <<unsignalled, submitted>>
       \/ /\ recorded[t] # {}
          /\ abandoned' = abandoned \cup {t}
          /\ unsignalled' = unsignalled \cup {t}
          /\ UNCHANGED submitted
    /\ recorded' = [recorded EXCEPT ![t] = IF Role[w] = "run" THEN {} ELSE @]
    /\ UNCHANGED <<mainVars, blockVars, seen, barriers, latch, buffer, early>>

\* Mutant: the recorded command buffers are left for the next frame.
ClearNothing(w) ==
    /\ Step(w, "clear", "arriveSubmit")
    /\ UNCHANGED <<mainVars, blockVars, seen, barriers, taskVars>>

ClearRecorded(w) ==
    /\ Step(w, "clear", "arriveSubmit")
    /\ recorded' = [recorded EXCEPT ![TaskOf[w]] = {}]
    /\ UNCHANGED <<mainVars, blockVars, seen, barriers>>
    /\ UNCHANGED <<latch, buffer, early, unsignalled, history>>

ArriveSubmit(w) ==
    /\ pc[w] = "arriveSubmit"
    /\ atSubmit' = Entered(atSubmit, SubmitThreads, w)
    /\ pc' = [pc EXCEPT ![w] = IF w \in atSubmit' THEN "insideSubmit" ELSE "wait"]
    /\ UNCHANGED <<mainVars, blockVars, seen, atStart, atDone, taskVars>>

LeaveSubmit(w) ==
    /\ w \notin atSubmit
    /\ Step(w, "insideSubmit", "wait")
    /\ UNCHANGED <<mainVars, blockVars, seen, barriers, taskVars>>

\* The run thread of a task uses arrive_and_drop().
DropSubmit(w) ==
    /\ Step(w, "drop", "wait")
    /\ atSubmit' = Entered(atSubmit, SubmitThreads, w)
    /\ UNCHANGED <<mainVars, blockVars, seen, atStart, atDone, taskVars>>

--------------------------------------------------------------------------------
MainStep ==
    \/ RecordAndSubmit \/ ResetExecuteCommands \/ Publish \/ SubmitUnthreaded
    \/ MainArrives \/ MainReleased \/ Present
    \/ ClearStatus \/ Wake \/ Join \/ StartThreads

ApplicationStep ==
    \/ AdvanceToNextFrame \/ SetupThreading \/ StopThreading \/ Close

WorkerStep(w) ==
    \/ WaitForChange(w) \/ Start(w) \/ ArriveStart(w) \/ LeaveStart(w)
    \/ Record(w) \/ AddRecorded(w) \/ EarlyTransfer(w) \/ ArriveDone(w) \/ LeaveDone(w)
    \/ Finish(w) \/ ClearRecorded(w) \/ ArriveSubmit(w) \/ LeaveSubmit(w)
    \/ DropSubmit(w)

Next ==
    \/ MainStep \/ ApplicationStep \/ Terminated
    \/ \E w \in Workers : WorkerStep(w) \/ SpuriousWakeup(w)

\* The fence start() waits for is signalled, unless its submission has failed.
MainWaits == mainPc = "publish" /\ ~threading /\ unsignalled # {}
WorkerWaits(w) == pc[w] = "start" /\ TaskOf[w] \in unsignalled

\* Every thread that can take a step is eventually scheduled.  Nothing is owed by
\* the application: it may stop calling the viewer at any time.
Fairness ==
    /\ WF_vars(MainStep /\ ~MainWaits)
    /\ \A w \in Workers : WF_vars(WorkerStep(w) /\ ~WorkerWaits(w))

Spec == Init /\ [][Next]_vars
FairSpec == Spec /\ Fairness
--------------------------------------------------------------------------------
TypeOK ==
    /\ mainPc \in MainPcs /\ resume \in Between
    /\ frame \in 1 .. MaxFrame
    /\ {closed, restart, threading, status} \subseteq BOOLEAN
    /\ visible \subseteq Windows
    /\ block \in 0 .. MaxFrame /\ blockAsleep \subseteq Workers
    /\ pc \in [Workers -> WorkerPcs]
    /\ seen \in [Workers -> 0 .. MaxFrame]
    /\ atStart \in [Tasks -> SUBSET Workers]
    /\ atDone \in [Tasks -> SUBSET Workers]
    /\ atSubmit \subseteq Workers \cup {Main}
    /\ latch \in [Workers -> 0 .. Cardinality(Workers)]
    /\ buffer \in [Workers -> 0 .. MaxFrame]
    /\ recorded \in [Tasks -> SUBSET (Workers \X (1 .. MaxFrame))]
    /\ early \in [Tasks -> 0 .. MaxFrame]
    /\ unsignalled \subseteq Tasks /\ abandoned \subseteq Tasks
    /\ submitted \in [Tasks -> SUBSET (Workers \X (1 .. MaxFrame))]

\* A worker between the start of a task and the end of its submission.
Busy(w) == pc[w] \notin {"none", "exited", "wait", "insideDone", "insideSubmit"}

\* While main handles events, updates the scene graph, compiles or sets threads
\* up, no worker traverses the scene graph, transfers data or touches a task;
\* and a worker that is at work works on the frame main has published.
UpdateExcludesRecording ==
    \A w \in Workers : Busy(w) => mainPc \in {"arrive", "inside"} /\ seen[w] = frame

\* When recordAndSubmit() returns, a task has submitted the command buffer of each
\* of its visible graphs, recorded for this frame, and nothing else; or a call of
\* Vulkan has failed and it has submitted nothing at all.  A task never submits a
\* part of a frame, nor what an earlier frame left behind.
FrameIsComplete ==
    mainPc = "present" =>
        \A t \in Tasks :
            submitted[t] = IF t \in abandoned THEN {} ELSE VisibleGraphs(t) \X {frame}

\* A graph that has run its ExecuteCommands executed the command buffers of all its
\* secondary graphs, completed in this frame.  (They need not be in the list of
\* recorded command buffers yet.)
SecondariesFirst ==
    \A g \in Workers :
        pc[g] = "add" \/ <<g, frame>> \in recorded[TaskOf[g]]
            => \A w \in Secondaries(g) : buffer[w] = frame

\* The thread that starts and finishes a task is never in start(), finish() or
\* clear() while another thread of the task records or transfers: the list of
\* recorded command buffers and the semaphores are handed over by the barriers.
TaskIsExclusive ==
    \A p \in Leaders :
        pc[p] \in {"start", "finish", "clear"}
            => \A w \in Team(TaskOf[p]) \ {p} : pc[w] \notin {"record", "add", "transfer"}

\* A submission waits at most for an early transfer of its own frame; a semaphore
\* left from an earlier frame would be waited for twice and never signalled.
SemaphoreOfThisFrame ==
    \A p \in Leaders : pc[p] = "finish" => early[TaskOf[p]] \in {NoFrame, frame}

\* A thread leaves its loop only when no thread is left inside a barrier it would
\* have been expected at.
ExitLeavesNobodyBehind ==
    \A w \in Workers : pc[w] = "exited" =>
        atSubmit = {} /\ atStart[TaskOf[w]] = {} /\ atDone[TaskOf[w]] = {}

\* recordAndSubmit(), stopThreading() and setupThreading() return: no barrier,
\* latch or frame block keeps main for ever, whatever fails; only a fence whose
\* submission has failed can.
MainAlwaysReturns == mainPc \notin Between ~> mainPc \in Between \/ unsignalled # {}
================================================================================

------------------------- MODULE ViewerThreadingProofs -------------------------
(***************************************************************************)
(* For every set of tasks, graphs and threads: what the frame loop, its    *)
(* threads and its barriers promise to each other.                         *)
(*                                                                         *)
(* The inductive invariant has two layers.  The first one is about control *)
(* only: as long as main has not been released from _submissionCompleted,  *)
(* the threads of a task are together before, between or behind the two    *)
(* barriers of the task; at all other times every thread is at rest.  The  *)
(* second one says what the latches, the recorded command buffers and the  *)
(* submissions hold, in terms of how far each thread has come.             *)
(***************************************************************************)
EXTENDS ViewerThreading, FiniteSetTheorems, TLAPS

--------------------------------------------------------------------------------
(* Control.                                                                *)

ControlTypes ==
    /\ mainPc \in MainPcs /\ resume \in Between
    /\ frame \in 1 .. MaxFrame
    /\ closed \in BOOLEAN /\ restart \in BOOLEAN
    /\ threading \in BOOLEAN /\ status \in BOOLEAN
    /\ block \in 0 .. MaxFrame /\ blockAsleep \subseteq Workers
    /\ pc \in [Workers -> WorkerPcs]
    /\ seen \in [Workers -> 0 .. MaxFrame]
    /\ atStart \in [Tasks -> SUBSET Workers]
    /\ atDone \in [Tasks -> SUBSET Workers]
    /\ atSubmit \subseteq Workers \cup {Main}

Resting == {"none", "exited", "wait"}

\* The program counters of a thread while it serves a frame.
PcsOf(role) ==
    IF role = "run" THEN {"start", "record", "add", "finish", "drop"}
    ELSE {"arriveStart", "insideStart", "arriveDone", "insideDone"} \cup
         (IF role = "transfer" THEN {"transfer"} ELSE {"record", "add"}) \cup
         (IF role = "primary" THEN {"start", "finish", "clear", "arriveSubmit", "insideSubmit"}
          ELSE {})

RolesFit == \A w \in Workers : pc[w] \in Resting \cup PcsOf(Role[w])

Stopping == {"stopping", "wake", "join"}

\* The threads there are while threads are used, being stopped, or stopped.
ThreadsExist ==
    /\ threading => /\ status /\ mainPc \notin Stopping \cup {"setup"}
                    /\ \A w \in Workers : pc[w] \notin {"none", "exited"}
    /\ ~threading /\ mainPc \notin Stopping => \A w \in Workers : pc[w] = "none"
    /\ mainPc \in {"arrive", "inside"} => threading

\* Main has published the frame, and has not been released from the barrier.
InFrame == mainPc = "arrive" \/ (mainPc = "inside" /\ Main \in atSubmit)

\* The frame main is at has not been published.
Unpublished ==
    \/ mainPc \in {"update", "reset", "publish"}
    \/ mainPc \in Stopping \cup {"setup"} /\ resume = "update"

FramesInOrder ==
    /\ block <= frame
    /\ Unpublished => block < frame
    /\ mainPc \in {"arrive", "inside"} => block = frame

\* Between frames the threads wait for the next one, or have yet to notice that
\* they have been released from the last barrier of the last one.
Quiet ==
    /\ atSubmit = {}
    /\ \A t \in Tasks : atStart[t] = {} /\ atDone[t] = {}
    /\ \A w \in Workers :
          /\ \/ pc[w] \in Resting \cup {"insideSubmit"}
             \/ pc[w] = "insideDone" /\ w \notin Leaders
          /\ seen[w] = block

\* Who is in a barrier waits there, in the frame of main.
BarriersHoldThreads ==
    /\ \A t \in Tasks :
          /\ \A w \in atStart[t] : w \in Team(t) /\ pc[w] = "insideStart" /\ seen[w] = frame
          /\ \A w \in atDone[t] : w \in Team(t) /\ pc[w] = "insideDone" /\ seen[w] = frame
    /\ \A w \in atSubmit \ {Main} :
          w \in Leaders /\ pc[w] \in {"insideSubmit", "wait"} /\ seen[w] = frame
    /\ Main \in atSubmit => mainPc = "inside"

BeforeStart(w) ==
    \/ /\ seen[w] # frame
       /\ \/ pc[w] \in {"wait", "insideSubmit"}
          \/ pc[w] = "insideDone" /\ w \notin Leaders
    \/ /\ seen[w] = frame
       /\ \/ pc[w] \in {"start", "arriveStart"}
          \/ pc[w] = "insideStart" /\ w \in atStart[TaskOf[w]]

BeforeDone(w) ==
    /\ seen[w] = frame
    /\ \/ pc[w] = "insideStart" /\ w \notin atStart[TaskOf[w]]
       \/ pc[w] \in {"record", "add", "transfer", "arriveDone"}
       \/ pc[w] = "insideDone" /\ w \in atDone[TaskOf[w]]

Done(w) ==
    /\ seen[w] = frame
    /\ \/ pc[w] = "insideDone" /\ w \notin atDone[TaskOf[w]]
       \/ pc[w] \in {"finish", "clear", "arriveSubmit", "insideSubmit", "drop", "wait"}

\* The threads of a task pass the barriers of the task together.
TaskInStep(t) ==
    \/ \A w \in Team(t) : BeforeStart(w)
    \/ \A w \in Team(t) : BeforeDone(w)
    \/ \A w \in Team(t) : Done(w)

Phases ==
    /\ BarriersHoldThreads
    /\ InFrame => \A t \in Tasks : TaskInStep(t)
    /\ ~InFrame => Quiet

ControlInv == ControlTypes /\ RolesFit /\ ThreadsExist /\ FramesInOrder /\ Phases

--------------------------------------------------------------------------------
(* Data.                                                                   *)

\* A thread that has recorded in the frame of main, and one that has also put its
\* command buffer into the list.
PastRecord(w) ==
    seen[w] = frame /\ pc[w] \notin {"start", "arriveStart", "insideStart", "record"}
Listed(w) == PastRecord(w) /\ pc[w] # "add"

\* A leader that has submitted in the frame of main, or given up, and one that has
\* also cleared what was recorded.
Submitted(p) ==
    seen[p] = frame
    /\ pc[p] \in Resting \cup {"clear", "arriveSubmit", "insideSubmit", "drop"}
Cleared(p) == Submitted(p) /\ pc[p] # "clear"

DataTypes ==
    /\ visible \subseteq Windows
    /\ latch \in [Workers -> 0 .. Cardinality(Workers)]
    /\ buffer \in [Workers -> 0 .. MaxFrame]
    /\ recorded \in [Tasks -> SUBSET (Workers \X (1 .. MaxFrame))]
    /\ early \in [Tasks -> 0 .. MaxFrame]
    /\ unsignalled \subseteq Tasks /\ abandoned \subseteq Tasks
    /\ submitted \in [Tasks -> SUBSET (Workers \X (1 .. MaxFrame))]

Awaited(g) == {w \in Secondaries(g) : ~(WindowOf[w] \in visible /\ PastRecord(w))}

\* From its reset to the end of the frame a latch counts the secondary graphs that
\* have not been recorded, and their executor holds the buffers of the others.
LatchesCount ==
    mainPc \in {"publish", "arrive", "inside"} =>
        \A g \in Workers : latch[g] = Cardinality(Awaited(g))

BuffersAreHeld ==
    \A w \in DOMAIN Executor : WindowOf[w] \in visible /\ PastRecord(w) => buffer[w] = frame

RecordedIsListed ==
    \A p \in Leaders :
        recorded[TaskOf[p]] = IF Cleared(p) THEN {}
                              ELSE {w \in VisibleGraphs(TaskOf[p]) : Listed(w)} \X {frame}

\* All that is visible, or nothing.
SubmittedAll(t) ==
    submitted[t] = IF t \in abandoned THEN {} ELSE VisibleGraphs(t) \X {frame}
Untouched(t) == submitted[t] = {} /\ t \notin abandoned

SubmittedIsComplete ==
    \A p \in Leaders :
        IF mainPc \in {"arrive", "inside"} /\ Submitted(p)
        THEN SubmittedAll(TaskOf[p])
        ELSE mainPc # "present" => Untouched(TaskOf[p])

AddIsVisible == \A w \in Workers : pc[w] = "add" => WindowOf[w] \in visible

RecordedInOrder ==
    \A g \in Workers :
        WindowOf[g] \in visible /\ PastRecord(g) => \A w \in Secondaries(g) : PastRecord(w)

SemaphoresAreFresh ==
    \A p \in Leaders :
        pc[p] \in {"arriveStart", "insideStart", "record", "add", "arriveDone", "insideDone",
                   "finish"}
            => early[TaskOf[p]] \in {NoFrame, frame}

DataInv ==
    /\ DataTypes /\ LatchesCount /\ BuffersAreHeld /\ RecordedIsListed /\ SubmittedIsComplete
    /\ RecordedInOrder /\ SemaphoresAreFresh /\ FrameIsComplete

--------------------------------------------------------------------------------
(* Teams, leaders and arrivals.                                            *)

\* Every task has one leader, and a run thread is the only one of its task.
LEMMA TeamFacts ==
  /\ Main \notin Workers /\ Leaders \subseteq Workers
  /\ \A w \in Workers : TaskOf[w] \in Tasks /\ w \in Team(TaskOf[w]) /\ Role[w] \in Roles
  /\ \A t \in Tasks : Team(t) \subseteq Workers /\ \A w \in Team(t) : TaskOf[w] = t
  /\ \A t \in Tasks : \E p \in Leaders : p \in Team(t)
  /\ \A p, q \in Leaders : TaskOf[p] = TaskOf[q] => p = q
  /\ \A w \in Workers : Role[w] = "run" => Team(TaskOf[w]) = {w}
  /\ \A w \in Workers : w \in Leaders <=> Role[w] \in {"run", "primary"}
<1>1. \A t \in Tasks : \E p \in Leaders : p \in Team(t)
  BY ThreadAssumption DEF ThreadAssumption
<1>2. \A p, q \in Leaders : TaskOf[p] = TaskOf[q] => p = q
  <2>1. SUFFICES ASSUME NEW p \in Leaders, NEW q \in Leaders, TaskOf[p] = TaskOf[q]
                 PROVE  p = q
    OBVIOUS
  <2>2. TaskOf[p] \in Tasks /\ p \in Team(TaskOf[p]) /\ q \in Team(TaskOf[p])
    BY <2>1, ThreadAssumption DEF ThreadAssumption, Leaders, Team
  <2>3. PICK w \in Team(TaskOf[p]) : Team(TaskOf[p]) \cap Leaders = {w}
    BY <2>2, ThreadAssumption DEF ThreadAssumption
  <2>4. QED
    BY <2>1, <2>2, <2>3
<1>3. QED
  BY <1>1, <1>2, ThreadAssumption DEF ThreadAssumption, Leaders, Team

\* Teams are finite, so are the participants of the last barrier, of which there are
\* as many as setupThreading() gives it.
LEMMA Participants ==
  /\ \A t \in Tasks : IsFiniteSet(Team(t))
  /\ IsFiniteSet(Leaders \cup {Main})
  /\ Cardinality(Leaders \cup {Main}) = SubmitThreads
<1>1. IsFiniteSet(Tasks) /\ IsFiniteSet(Workers)
  BY ThreadAssumption DEF ThreadAssumption
<1>2. \A t \in Tasks : IsFiniteSet(Team(t))
  BY <1>1, FS_Subset DEF Team
<1>3. IsFiniteSet(Leaders)
  BY <1>1, FS_Subset DEF Leaders
<1>4. Cardinality(Leaders) = Cardinality(Tasks)
  <2> DEFINE task == [p \in Leaders |-> TaskOf[p]]
  <2>1. task \in [Leaders -> Tasks] /\ \A p, q \in Leaders : task[p] = task[q] => p = q
    BY TeamFacts
  <2>2. \A t \in Tasks : \E p \in Leaders : task[p] = t
    BY TeamFacts
  <2>3. task \in Bijection(Leaders, Tasks)
    BY <2>1, <2>2 DEF Bijection, Injection, Surjection, IsInjective
  <2>4. ExistsBijection(Leaders, Tasks)
    BY <2>3 DEF ExistsBijection
  <2>5. QED
    BY <1>3, <2>4, FS_Bijection
<1>5. Main \notin Leaders
  BY TeamFacts
<1>6. /\ IsFiniteSet(Leaders \cup {Main})
      /\ Cardinality(Leaders \cup {Main}) = Cardinality(Leaders) + 1
  BY <1>3, <1>5, FS_AddElement
<1>7. Cardinality(Tasks) \in Nat
  BY <1>1, FS_CardinalityType
<1>8. QED
  BY <1>2, <1>4, <1>6, <1>7 DEF SubmitThreads

\* A barrier empties when the last of its participants arrives, and not before.
LEMMA Arrival ==
  ASSUME NEW All, IsFiniteSet(All), NEW barrier \in SUBSET All, NEW p \in All \ barrier
  PROVE  Entered(barrier, Cardinality(All), p) =
             IF barrier \cup {p} = All THEN {} ELSE barrier \cup {p}
<1>1. IsFiniteSet(barrier)
  BY FS_Subset
<1>2. /\ IsFiniteSet(barrier \cup {p})
      /\ Cardinality(barrier \cup {p}) = Cardinality(barrier) + 1
  BY <1>1, FS_AddElement
<1>3. barrier \cup {p} \in SUBSET All
  OBVIOUS
<1>4. Cardinality(barrier \cup {p}) = Cardinality(All) => barrier \cup {p} = All
  BY <1>3, FS_Subset
<1>5. QED
  BY <1>2, <1>4 DEF Entered

--------------------------------------------------------------------------------
(* The control invariant, action by action.                                *)

\* Before the first frame there are no threads.
LEMMA ControlInit == Init => ControlInv
<1>1. SUFFICES ASSUME Init PROVE ControlInv
  OBVIOUS
<1>2. ControlTypes
  <2>1. frame \in 1 .. MaxFrame /\ block \in 0 .. MaxFrame /\ 0 \in 0 .. MaxFrame
    BY <1>1, FrameAssumption DEF FrameAssumption, Init, NoFrame
  <2>2. /\ mainPc \in MainPcs /\ resume \in Between
        /\ closed \in BOOLEAN /\ restart \in BOOLEAN
        /\ threading \in BOOLEAN /\ status \in BOOLEAN
    BY <1>1 DEF Init, MainPcs, Between
  <2>3. pc \in [Workers -> WorkerPcs] /\ seen \in [Workers -> 0 .. MaxFrame]
    BY <1>1, <2>1 DEF Init, WorkerPcs, NoFrame
  <2>4. /\ atStart \in [Tasks -> SUBSET Workers] /\ atDone \in [Tasks -> SUBSET Workers]
        /\ atSubmit \subseteq Workers \cup {Main} /\ blockAsleep \subseteq Workers
    BY <1>1 DEF Init
  <2>5. QED
    BY <2>1, <2>2, <2>3, <2>4 DEF ControlTypes
<1>3. RolesFit /\ ThreadsExist /\ FramesInOrder
  BY <1>1 DEF Init, RolesFit, Resting, ThreadsExist, Stopping, FramesInOrder, Unpublished,
              NoFrame
<1>4. Phases
  BY <1>1 DEF Init, Phases, BarriersHoldThreads, InFrame, Quiet, Resting, NoFrame
<1>5. QED
  BY <1>2, <1>3, <1>4 DEF ControlInv

\* Main moves between two frames, and no thread notices.
LEMMA MainAloneControl ==
  ASSUME ControlInv,
         \/ AdvanceToNextFrame \/ RecordAndSubmit \/ ResetExecuteCommands \/ SubmitUnthreaded
         \/ Present \/ SetupThreading \/ StopThreading \/ Close \/ ClearStatus \/ Wake
  PROVE  ControlInv'
<1>1. ~InFrame /\ ~InFrame' /\ UNCHANGED <<block, pc, seen, atStart, atDone, atSubmit>>
  BY DEF InFrame, Goto, Between, BeginStop, blockVars, barriers,
         AdvanceToNextFrame, RecordAndSubmit, ResetExecuteCommands, SubmitUnthreaded,
         Present, SetupThreading, StopThreading, Close, ClearStatus, Wake
<1>2. Quiet
  BY <1>1 DEF ControlInv, Phases
<1>3. Phases'
  BY <1>1, <1>2 DEF Quiet, Phases, BarriersHoldThreads
<1>4. ControlTypes'
  <2>1. /\ mainPc' \in MainPcs /\ resume' \in Between
        /\ frame' \in 1 .. MaxFrame
    BY FrameAssumption
    DEF FrameAssumption, ControlInv, ControlTypes, MainPcs, Goto, Between, BeginStop,
        AdvanceToNextFrame, RecordAndSubmit, ResetExecuteCommands, SubmitUnthreaded,
        Present, SetupThreading, StopThreading, Close, ClearStatus, Wake
  <2>2. /\ closed' \in BOOLEAN /\ restart' \in BOOLEAN
        /\ threading' \in BOOLEAN /\ status' \in BOOLEAN
    BY DEF ControlInv, ControlTypes, BeginStop,
        AdvanceToNextFrame, RecordAndSubmit, ResetExecuteCommands, SubmitUnthreaded,
        Present, SetupThreading, StopThreading, Close, ClearStatus, Wake
  <2>3. blockAsleep' \subseteq Workers
    BY DEF ControlInv, ControlTypes, blockVars,
        AdvanceToNextFrame, RecordAndSubmit, ResetExecuteCommands, SubmitUnthreaded,
        Present, SetupThreading, StopThreading, Close, ClearStatus, Wake
  <2>4. QED
    BY <1>1, <2>1, <2>2, <2>3 DEF ControlInv, ControlTypes
<1>5. RolesFit'
  BY <1>1 DEF ControlInv, RolesFit
<1>6. ThreadsExist'
  BY <1>1 DEF ControlInv, ThreadsExist, Stopping, Goto, Between, BeginStop,
         AdvanceToNextFrame, RecordAndSubmit, ResetExecuteCommands, SubmitUnthreaded,
         Present, SetupThreading, StopThreading, Close, ClearStatus, Wake
<1>7. FramesInOrder'
  BY <1>1 DEF ControlInv, ControlTypes, FramesInOrder, Unpublished, Stopping, Goto, Between,
         BeginStop,
         AdvanceToNextFrame, RecordAndSubmit, ResetExecuteCommands, SubmitUnthreaded,
         Present, SetupThreading, StopThreading, Close, ClearStatus, Wake
<1>8. QED
  BY <1>3, <1>4, <1>5, <1>6, <1>7 DEF ControlInv

\* The threads are joined when all have left their loops, and started at rest.
LEMMA JoinControl ==
  ASSUME ControlInv, Join \/ StartThreads
  PROVE  ControlInv'
<1>1. /\ ~InFrame /\ ~InFrame' /\ mainPc \notin {"arrive", "inside"}
      /\ mainPc' \in Between \cup {"setup"} /\ resume \in Between
      /\ UNCHANGED <<frame, closed, restart, resume>>
  BY DEF ControlInv, ControlTypes, InFrame, Goto, Between, Join, StartThreads
<1>2. Quiet
  BY <1>1 DEF ControlInv, Phases
<1>3. CASE Join
  <2>1. /\ mainPc = "join" /\ ~threading
        /\ mainPc' = IF restart THEN "setup" ELSE resume
        /\ pc' = [w \in Workers |-> "none"]
        /\ UNCHANGED <<threading, status, block, blockAsleep, seen, atStart, atDone, atSubmit>>
    BY <1>3 DEF Join, ControlInv, ThreadsExist, Stopping, blockVars, barriers
  <2>2. ControlTypes'
    BY <1>1, <2>1 DEF ControlInv, ControlTypes, Between, MainPcs, WorkerPcs
  <2>3. RolesFit' /\ Quiet'
    BY <1>2, <2>1 DEF RolesFit, Quiet, Resting
  <2>4. ThreadsExist'
    BY <1>1, <2>1 DEF ThreadsExist, Stopping, Between
  <2>5. FramesInOrder'
    BY <1>1, <2>1 DEF ControlInv, FramesInOrder, Unpublished, Stopping, Between
  <2>6. QED
    BY <1>1, <2>2, <2>3, <2>4, <2>5 DEF ControlInv, Phases, BarriersHoldThreads, Quiet
<1>4. CASE StartThreads
  <2>1. /\ mainPc = "setup" /\ mainPc' = resume
        /\ status' = TRUE /\ threading' = TRUE
        /\ block' = 0 /\ blockAsleep' = {}
        /\ pc' = [w \in Workers |-> "wait"]
        /\ seen' = [w \in Workers |-> 0]
        /\ atStart' = [t \in Tasks |-> {}] /\ atDone' = [t \in Tasks |-> {}]
        /\ atSubmit' = {}
    BY <1>4 DEF StartThreads, Goto, NoFrame
  <2>2. ControlTypes'
    <3>1. 0 \in 0 .. MaxFrame
      BY FrameAssumption DEF FrameAssumption
    <3>2. QED
      BY <1>1, <2>1, <3>1 DEF ControlInv, ControlTypes, Between, MainPcs, WorkerPcs
  <2>3. RolesFit' /\ Quiet'
    BY <2>1 DEF RolesFit, Quiet, Resting
  <2>4. ThreadsExist'
    BY <1>1, <2>1 DEF ThreadsExist, Stopping, Between
  <2>5. FramesInOrder'
    BY <1>1, <2>1 DEF ControlInv, ControlTypes, FramesInOrder, Between
  <2>6. QED
    BY <1>1, <2>2, <2>3, <2>4, <2>5 DEF ControlInv, Phases, BarriersHoldThreads, Quiet
<1>5. QED
  BY <1>3, <1>4

\* When main publishes a frame, every thread has yet to begin it.
LEMMA PublishControl ==
  ASSUME ControlInv, Publish
  PROVE  ControlInv'
<1>1. /\ threading /\ mainPc = "publish" /\ mainPc' = "arrive"
      /\ block' = frame /\ blockAsleep' = {}
      /\ UNCHANGED <<frame, closed, restart, resume, threading, status>>
      /\ UNCHANGED <<pc, seen, atStart, atDone, atSubmit>>
  BY DEF Publish, Goto, barriers
<1>2. Quiet /\ block < frame
  BY <1>1 DEF ControlInv, Phases, InFrame, FramesInOrder, Unpublished
<1>3. ControlTypes'
  BY <1>1 DEF ControlInv, ControlTypes, MainPcs
<1>4. RolesFit' /\ ThreadsExist'
  BY <1>1 DEF ControlInv, RolesFit, ThreadsExist, Stopping
<1>5. FramesInOrder'
  BY <1>1 DEF ControlInv, ControlTypes, FramesInOrder, Unpublished, Stopping
<1>6. \A w \in Workers : BeforeStart(w)'
  <2>1. SUFFICES ASSUME NEW w \in Workers PROVE BeforeStart(w)'
    OBVIOUS
  <2>2. seen[w] # frame
    BY <1>2 DEF Quiet, ControlInv, ControlTypes
  <2>3. \/ pc[w] \in {"wait", "insideSubmit"}
        \/ pc[w] = "insideDone" /\ w \notin Leaders
    BY <1>1, <1>2 DEF Quiet, Resting, ControlInv, ThreadsExist
  <2>4. QED
    BY <1>1, <2>2, <2>3 DEF BeforeStart
<1>7. \A t \in Tasks : TaskInStep(t)'
  BY <1>6, TeamFacts DEF TaskInStep
<1>8. Phases'
  BY <1>1, <1>2, <1>7 DEF Phases, InFrame, Quiet, BarriersHoldThreads
<1>9. QED
  BY <1>3, <1>4, <1>5, <1>8 DEF ControlInv

\* A thread is on one side of a barrier only, and takes its team with it.
LEMMA TeamIsTogether ==
  ASSUME ControlInv, InFrame, NEW w \in Workers
  PROVE  LET t == TaskOf[w] IN
         /\ BeforeStart(w) => (\A v \in Team(t) : BeforeStart(v)) /\ atDone[t] = {}
         /\ BeforeDone(w) => (\A v \in Team(t) : BeforeDone(v)) /\ atStart[t] = {}
         /\ Done(w) => (\A v \in Team(t) : Done(v)) /\ atStart[t] = {} /\ atDone[t] = {}
<1> DEFINE t == TaskOf[w]
<1>1. \A v \in Workers : /\ ~(BeforeStart(v) /\ BeforeDone(v))
                         /\ ~(BeforeStart(v) /\ Done(v))
                         /\ ~(BeforeDone(v) /\ Done(v))
  BY DEF BeforeStart, BeforeDone, Done
<1>2. w \in Team(t) /\ t \in Tasks /\ Team(t) \subseteq Workers
  BY TeamFacts
<1>3. TaskInStep(t)
  BY <1>2 DEF ControlInv, Phases
<1>4. /\ \A v \in atStart[t] : v \in Team(t) /\ BeforeStart(v)
      /\ \A v \in atDone[t] : v \in Team(t) /\ BeforeDone(v)
  <2>1. \A v \in Team(t) : TaskOf[v] = t
    BY <1>2, TeamFacts
  <2>2. QED
    BY <1>2, <2>1 DEF ControlInv, Phases, BarriersHoldThreads, BeforeStart, BeforeDone
<1>5. /\ BeforeStart(w) => \A v \in Team(t) : BeforeStart(v)
      /\ BeforeDone(w) => \A v \in Team(t) : BeforeDone(v)
      /\ Done(w) => \A v \in Team(t) : Done(v)
  BY <1>1, <1>2, <1>3 DEF TaskInStep
<1>6. QED
  BY <1>1, <1>2, <1>4, <1>5

\* A thread that is done and not a leader is at rest, or has been released.
LEMMA FollowersRest ==
  ASSUME ControlInv, NEW w \in Workers, w \notin Leaders, Done(w)
  PROVE  pc[w] \in {"insideDone", "wait"}
BY TeamFacts DEF ControlInv, RolesFit, Resting, PcsOf, Roles, Done

\* When every leader is done and has arrived, the frame is over for everybody.
LEMMA FrameIsOver ==
  ASSUME ControlInv, InFrame, NEW last,
         \A p \in Leaders \ {last} : p \in atSubmit,
         last \in Leaders => Done(last)
  PROVE  /\ \A t \in Tasks : atStart[t] = {} /\ atDone[t] = {}
         /\ \A w \in Workers \ {last} :
               /\ \/ pc[w] \in Resting \cup {"insideSubmit"}
                  \/ pc[w] = "insideDone" /\ w \notin Leaders
               /\ seen[w] = frame
<1>1. Main \notin Leaders
  BY TeamFacts
<1>2. \A p \in Leaders : Done(p)
  BY <1>1 DEF ControlInv, Phases, BarriersHoldThreads, Done
<1>3. \A t \in Tasks : /\ atStart[t] = {} /\ atDone[t] = {}
                       /\ \A v \in Team(t) : Done(v)
  <2>1. SUFFICES ASSUME NEW t \in Tasks
                 PROVE  atStart[t] = {} /\ atDone[t] = {} /\ \A v \in Team(t) : Done(v)
    OBVIOUS
  <2>2. PICK p \in Leaders : p \in Team(t)
    BY TeamFacts
  <2>3. p \in Workers /\ TaskOf[p] = t
    BY <2>2, TeamFacts
  <2>4. QED
    BY <1>2, <2>3, TeamIsTogether
<1>4. \A w \in Workers : Done(w)
  BY <1>3, TeamFacts
<1>5. ASSUME NEW w \in Workers \ {last}
      PROVE  /\ \/ pc[w] \in Resting \cup {"insideSubmit"}
                \/ pc[w] = "insideDone" /\ w \notin Leaders
             /\ seen[w] = frame
  <2>1. CASE w \in Leaders
    BY <1>1, <2>1 DEF ControlInv, Phases, BarriersHoldThreads, Resting
  <2>2. CASE w \notin Leaders
    BY <1>4, <2>2, FollowersRest DEF Done, Resting
  <2>3. QED
    BY <2>1, <2>2
<1>6. QED
  BY <1>3, <1>5

\* Main arrives as the last one, when all is quiet, or waits for the leaders.
LEMMA MainArrivesControl ==
  ASSUME ControlInv, MainArrives
  PROVE  ControlInv'
<1>1. /\ mainPc = "arrive" /\ InFrame
      /\ mainPc' = IF Main \in atSubmit' THEN "inside" ELSE "present"
      /\ UNCHANGED <<frame, closed, restart, resume, threading, status>>
      /\ UNCHANGED <<block, blockAsleep, pc, seen, atStart, atDone>>
  BY DEF MainArrives, InFrame, blockVars
<1>2. atSubmit \subseteq Leaders \cup {Main} /\ Main \notin atSubmit
  BY <1>1 DEF ControlInv, Phases, BarriersHoldThreads
<1>3. atSubmit' = IF atSubmit \cup {Main} = Leaders \cup {Main} THEN {} ELSE atSubmit \cup {Main}
  BY <1>2, Participants, Arrival DEF MainArrives
<1>4. ControlTypes'
  BY <1>1, <1>3 DEF ControlInv, ControlTypes, MainPcs
<1>5. RolesFit' /\ ThreadsExist' /\ FramesInOrder'
  BY <1>1 DEF ControlInv, RolesFit, ThreadsExist, FramesInOrder, Unpublished, Stopping
<1>6. CASE atSubmit \cup {Main} = Leaders \cup {Main}
  <2>1. atSubmit' = {} /\ mainPc' = "present" /\ ~InFrame'
    BY <1>1, <1>3, <1>6 DEF InFrame
  <2>2. /\ \A t \in Tasks : atStart[t] = {} /\ atDone[t] = {}
        /\ \A w \in Workers \ {Main} :
              /\ \/ pc[w] \in Resting \cup {"insideSubmit"}
                 \/ pc[w] = "insideDone" /\ w \notin Leaders
              /\ seen[w] = frame
    BY <1>1, <1>2, <1>6, TeamFacts, FrameIsOver
  <2>3. Main \notin Workers /\ block = frame
    BY <1>1, TeamFacts DEF ControlInv, FramesInOrder
  <2>4. Quiet'
    BY <1>1, <2>1, <2>2, <2>3 DEF Quiet
  <2>5. QED
    BY <1>1, <1>4, <1>5, <2>1, <2>4 DEF ControlInv, Phases, Quiet, BarriersHoldThreads
<1>7. CASE atSubmit \cup {Main} # Leaders \cup {Main}
  <2>1. atSubmit' = atSubmit \cup {Main} /\ mainPc' = "inside" /\ InFrame'
    BY <1>1, <1>3, <1>7 DEF InFrame
  <2>2. BarriersHoldThreads'
    BY <1>1, <2>1 DEF ControlInv, Phases, BarriersHoldThreads
  <2>3. \A t \in Tasks : TaskInStep(t)'
    BY <1>1 DEF ControlInv, Phases, TaskInStep, BeforeStart, BeforeDone, Done
  <2>4. QED
    BY <1>4, <1>5, <2>1, <2>2, <2>3 DEF ControlInv, Phases
<1>8. QED
  BY <1>6, <1>7

\* Main leaves the barrier when it has been released.
LEMMA MainReleasedControl ==
  ASSUME ControlInv, MainReleased
  PROVE  ControlInv'
<1>1. /\ mainPc = "inside" /\ mainPc' = "present" /\ ~InFrame /\ ~InFrame'
      /\ UNCHANGED <<frame, closed, restart, resume, threading, status>>
      /\ UNCHANGED <<block, blockAsleep, pc, seen, atStart, atDone, atSubmit>>
  BY DEF MainReleased, Goto, InFrame, blockVars, barriers
<1>2. ControlTypes'
  BY <1>1 DEF ControlInv, ControlTypes, MainPcs
<1>3. RolesFit' /\ ThreadsExist' /\ FramesInOrder'
  BY <1>1 DEF ControlInv, RolesFit, ThreadsExist, FramesInOrder, Unpublished, Stopping
<1>4. Phases'
  BY <1>1 DEF ControlInv, Phases, Quiet, BarriersHoldThreads
<1>5. QED
  BY <1>2, <1>3, <1>4 DEF ControlInv

\* Between frames a thread goes to sleep, leaves its loop or the barrier it has been
\* released from, and nothing else.
LEMMA WorkerRestsControl ==
  ASSUME ControlInv, ~InFrame, NEW w \in Workers, WorkerStep(w)
  PROVE  ControlInv'
<1>1. Quiet
  BY DEF ControlInv, Phases
<1>2. pc[w] \in {"wait", "insideDone", "insideSubmit"} /\ (pc[w] = "insideDone" => w \notin Leaders)
  BY <1>1 DEF Quiet, Resting, WorkerStep, WaitForChange, Step, Start, ArriveStart, LeaveStart,
      Record, AddRecorded, EarlyTransfer, ArriveDone, LeaveDone, Finish, ClearRecorded,
      ArriveSubmit, LeaveSubmit, DropSubmit
<1>3. WaitForChange(w) \/ LeaveDone(w) \/ LeaveSubmit(w)
  BY <1>2 DEF WorkerStep, Step, Start, ArriveStart, LeaveStart, Record, AddRecorded,
      EarlyTransfer, ArriveDone, Finish, ClearRecorded, ArriveSubmit, DropSubmit
<1>4. /\ UNCHANGED <<mainPc, frame, closed, restart, resume, threading, status>>
      /\ UNCHANGED <<block, atStart, atDone, atSubmit>>
      /\ blockAsleep' \subseteq Workers
  BY <1>3 DEF ControlInv, ControlTypes, WaitForChange, LeaveDone, LeaveSubmit, mainVars,
      blockVars, barriers
<1>5. /\ seen' = seen
      /\ \/ pc' = pc
         \/ pc' = [pc EXCEPT ![w] = "wait"]
         \/ pc' = [pc EXCEPT ![w] = "exited"] /\ ~status
  <2>1. CASE WaitForChange(w)
    BY <1>1, <2>1 DEF WaitForChange, Quiet, ControlInv, ControlTypes
  <2>2. CASE LeaveDone(w)
    BY <1>2, <2>2, TeamFacts DEF LeaveDone, Step, AfterDone, Roles
  <2>3. CASE LeaveSubmit(w)
    BY <2>3 DEF LeaveSubmit, Step
  <2>4. QED
    BY <1>3, <2>1, <2>2, <2>3
<1>6. pc \in [Workers -> WorkerPcs] /\ pc[w] \in WorkerPcs \ {"none"}
  BY <1>2 DEF ControlInv, ControlTypes, WorkerPcs
<1>7. ControlTypes'
  BY <1>4, <1>5, <1>6 DEF ControlInv, ControlTypes, WorkerPcs
<1>8. RolesFit'
  BY <1>5, <1>6 DEF ControlInv, RolesFit, Resting
<1>9. ThreadsExist' /\ FramesInOrder'
  BY <1>4, <1>5, <1>6 DEF ControlInv, ThreadsExist, FramesInOrder, Unpublished, Stopping
<1>10. Phases'
  BY <1>1, <1>4, <1>5, <1>6 DEF Phases, Quiet, Resting, BarriersHoldThreads, InFrame
<1>11. QED
  BY <1>7, <1>8, <1>9, <1>10 DEF ControlInv

\* A spurious wakeup changes nothing but who sleeps.
LEMMA WakeupControl ==
  ASSUME ControlInv, NEW w \in Workers, SpuriousWakeup(w)
  PROVE  ControlInv'
<1>1. /\ UNCHANGED <<mainPc, frame, closed, restart, resume, threading, status>>
      /\ UNCHANGED <<block, pc, seen, atStart, atDone, atSubmit>>
      /\ blockAsleep' \subseteq Workers
  BY DEF ControlInv, ControlTypes, SpuriousWakeup, mainVars, barriers
<1>2. ControlTypes' /\ RolesFit' /\ ThreadsExist' /\ FramesInOrder'
  BY <1>1 DEF ControlInv, ControlTypes, RolesFit, ThreadsExist, FramesInOrder, Unpublished
<1>3. Phases'
  BY <1>1 DEF ControlInv, Phases, BarriersHoldThreads, InFrame, Quiet, TaskInStep, BeforeStart,
              BeforeDone, Done
<1>4. QED
  BY <1>2, <1>3 DEF ControlInv

\* What the steps of a worker in a frame have in common.
LEMMA InFrameStep ==
  ASSUME ControlInv, InFrame, NEW w \in Workers, NEW there,
         UNCHANGED <<mainPc, frame, closed, restart, resume, threading, status, block>>,
         blockAsleep' \subseteq Workers,
         pc' = [pc EXCEPT ![w] = there], there \in {"wait"} \cup PcsOf(Role[w]),
         seen' = [seen EXCEPT ![w] = seen'[w]], seen'[w] \in {seen[w], frame},
         atStart' \in [Tasks -> SUBSET Workers], atDone' \in [Tasks -> SUBSET Workers],
         atSubmit' \subseteq Workers \cup {Main},
         \A t \in Tasks \ {TaskOf[w]} : atStart'[t] = atStart[t] /\ atDone'[t] = atDone[t],
         InFrame' => BarriersHoldThreads' /\ TaskInStep(TaskOf[w])',
         ~InFrame' => Quiet' /\ BarriersHoldThreads'
  PROVE  ControlInv'
<1>1. PcsOf(Role[w]) \subseteq WorkerPcs \ {"none", "exited"}
  BY DEF PcsOf, WorkerPcs
<1>2. ControlTypes'
  BY <1>1 DEF ControlInv, ControlTypes, WorkerPcs
<1>3. RolesFit'
  BY DEF ControlInv, ControlTypes, RolesFit, Resting
<1>4. threading /\ mainPc \in {"arrive", "inside"}
  BY DEF ControlInv, ThreadsExist, InFrame
<1>5. ThreadsExist' /\ FramesInOrder'
  BY <1>1, <1>4 DEF ControlInv, ControlTypes, ThreadsExist, FramesInOrder, Unpublished, Stopping
<1>6. ASSUME NEW t \in Tasks \ {TaskOf[w]}
      PROVE  TaskInStep(t)'
  <2>1. TaskInStep(t) /\ w \notin Team(t) /\ Team(t) \subseteq Workers
    BY TeamFacts DEF ControlInv, Phases
  <2>2. \A v \in Team(t) : pc'[v] = pc[v] /\ seen'[v] = seen[v] /\ TaskOf[v] = t
    BY <2>1, TeamFacts DEF ControlInv, ControlTypes
  <2>3. \A v \in Team(t) : /\ BeforeStart(v) => BeforeStart(v)'
                           /\ BeforeDone(v) => BeforeDone(v)'
                           /\ Done(v) => Done(v)'
    BY <2>2 DEF BeforeStart, BeforeDone, Done
  <2>4. QED
    BY <2>1, <2>3 DEF TaskInStep
<1>7. Phases'
  BY <1>6 DEF Phases
<1>8. QED
  BY <1>2, <1>3, <1>5, <1>7 DEF ControlInv

\* A step that enters no barrier, of a thread that stays on its side of the two
\* barriers of its task, or is alone.
LEMMA LocalStep ==
  ASSUME ControlInv, InFrame, NEW w \in Workers, NEW there,
         UNCHANGED <<mainPc, frame, closed, restart, resume, threading, status, block>>,
         UNCHANGED <<atStart, atDone, atSubmit>>,
         blockAsleep' \subseteq Workers,
         pc' = [pc EXCEPT ![w] = there], there \in {"wait"} \cup PcsOf(Role[w]),
         seen' = [seen EXCEPT ![w] = seen'[w]], seen'[w] \in {seen[w], frame},
         w \notin atStart[TaskOf[w]] \cup atDone[TaskOf[w]] \cup atSubmit,
         \/ BeforeStart(w) /\ BeforeStart(w)'
         \/ BeforeDone(w) /\ BeforeDone(w)'
         \/ Done(w) /\ Done(w)'
         \/ Role[w] = "run" /\ (BeforeStart(w)' \/ BeforeDone(w)' \/ Done(w)')
  PROVE  ControlInv'
<1> DEFINE t == TaskOf[w]
<1>1. t \in Tasks /\ w \in Team(t) /\ Team(t) \subseteq Workers /\ Main # w
      /\ \A v \in Team(t) : TaskOf[v] = t
  BY TeamFacts
<1>2. \A v \in Workers \ {w} : pc'[v] = pc[v] /\ seen'[v] = seen[v]
  BY DEF ControlInv, ControlTypes
<1>3. BarriersHoldThreads'
  <2>1. BarriersHoldThreads /\ Leaders \subseteq Workers
    BY TeamFacts DEF ControlInv, Phases
  <2>2. \A u \in Tasks : w \notin atStart[u] /\ w \notin atDone[u]
    BY <2>1, TeamFacts DEF BarriersHoldThreads
  <2>3. QED
    BY <1>2, <2>1, <2>2, TeamFacts DEF BarriersHoldThreads
<1>4. TaskInStep(t)'
  <2>1. \A v \in Team(t) \ {w} : /\ BeforeStart(v) => BeforeStart(v)'
                                 /\ BeforeDone(v) => BeforeDone(v)'
                                 /\ Done(v) => Done(v)'
    BY <1>1, <1>2 DEF BeforeStart, BeforeDone, Done
  <2>2. \/ (\A v \in Team(t) : BeforeStart(v)) /\ BeforeStart(w)'
        \/ (\A v \in Team(t) : BeforeDone(v)) /\ BeforeDone(w)'
        \/ (\A v \in Team(t) : Done(v)) /\ Done(w)'
        \/ Team(t) = {w} /\ (BeforeStart(w)' \/ BeforeDone(w)' \/ Done(w)')
    BY TeamIsTogether, TeamFacts
  <2>3. QED
    BY <1>1, <2>1, <2>2 DEF TaskInStep
<1>5. InFrame'
  BY DEF InFrame
<1>6. atStart' \in [Tasks -> SUBSET Workers] /\ atDone' \in [Tasks -> SUBSET Workers]
      /\ atSubmit' \subseteq Workers \cup {Main}
  BY DEF ControlInv, ControlTypes
<1>7. QED
  BY <1>3, <1>4, <1>5, <1>6, InFrameStep


\* In a frame, the steps of a thread that enter no barrier.
LEMMA WorkerMovesControl ==
  ASSUME ControlInv, InFrame, NEW w \in Workers,
         \/ WaitForChange(w) \/ Start(w) \/ LeaveStart(w)
         \/ Record(w) \/ AddRecorded(w) \/ EarlyTransfer(w)
         \/ LeaveDone(w) \/ Finish(w) \/ ClearRecorded(w) \/ LeaveSubmit(w)
  PROVE  ControlInv'
<1> DEFINE t == TaskOf[w]
<1>1. /\ UNCHANGED <<mainPc, frame, closed, restart, resume, threading, status, block>>
      /\ UNCHANGED <<atStart, atDone, atSubmit>>
      /\ blockAsleep' \subseteq Workers
  BY DEF ControlInv, ControlTypes, mainVars, blockVars, barriers, WaitForChange, Start,
      LeaveStart, Record, AddRecorded, EarlyTransfer, LeaveDone, Finish, ClearRecorded,
      LeaveSubmit
<1>2. /\ t \in Tasks /\ w \in Team(t) /\ Role[w] \in Roles
      /\ w \in Leaders <=> Role[w] \in {"run", "primary"}
  BY TeamFacts
<1>3. pc[w] \in Resting \cup PcsOf(Role[w])
  BY DEF ControlInv, RolesFit
<1>4. block = frame /\ status /\ w # Main /\ w \in DOMAIN pc /\ w \in DOMAIN seen
      /\ pc = [v \in Workers |-> pc[v]] /\ seen = [v \in Workers |-> seen[v]]
  BY TeamFacts DEF InFrame, ControlInv, ControlTypes, ThreadsExist, FramesInOrder
<1>5. BeforeStart(w) \/ BeforeDone(w) \/ Done(w)
  BY <1>2 DEF ControlInv, Phases, TaskInStep
<1>6. /\ w \in atStart[t] => pc[w] = "insideStart" /\ seen[w] = frame
      /\ w \in atDone[t] => pc[w] = "insideDone" /\ seen[w] = frame
      /\ w \in atSubmit => pc[w] \in {"insideSubmit", "wait"} /\ seen[w] = frame
  BY <1>2, <1>4 DEF ControlInv, Phases, BarriersHoldThreads
<1>7. CASE WaitForChange(w) /\ seen[w] = frame
  <2>1. /\ UNCHANGED <<mainPc, frame, closed, restart, resume, threading, status, block>>
        /\ UNCHANGED <<pc, seen, atStart, atDone, atSubmit>>
        /\ blockAsleep' \subseteq Workers
    BY <1>1, <1>4, <1>7 DEF WaitForChange
  <2>2. ControlTypes' /\ RolesFit' /\ ThreadsExist' /\ FramesInOrder'
    BY <2>1 DEF ControlInv, ControlTypes, RolesFit, ThreadsExist, FramesInOrder, Unpublished
  <2>3. Phases'
    BY <2>1 DEF ControlInv, Phases, BarriersHoldThreads, InFrame, Quiet, TaskInStep,
                BeforeStart, BeforeDone, Done
  <2>4. QED
    BY <2>2, <2>3 DEF ControlInv
<1>8. CASE WaitForChange(w) /\ seen[w] # frame
  <2> DEFINE there == FirstStep[Role[w]]
  <2>1. /\ pc[w] = "wait" /\ pc' = [pc EXCEPT ![w] = there]
        /\ seen' = [seen EXCEPT ![w] = seen'[w]] /\ seen'[w] = frame
    BY <1>4, <1>8 DEF WaitForChange
  <2>2. there \in {"start", "arriveStart"} /\ there \in PcsOf(Role[w])
    BY <1>2 DEF FirstStep, PcsOf, Roles
  <2>3. w \notin atStart[t] \cup atDone[t] \cup atSubmit
    BY <1>6, <1>8
  <2>4. BeforeStart(w) /\ BeforeStart(w)'
    BY <1>1, <1>4, <1>8, <2>1, <2>2 DEF BeforeStart
  <2>5. QED
    BY <1>1, <2>1, <2>2, <2>3, <2>4, LocalStep
<1>9. CASE ~WaitForChange(w)
  <2>1. seen' = seen /\ pc' = [pc EXCEPT ![w] = pc'[w]]
    BY <1>4, <1>9 DEF Step, Start, LeaveStart, Record, AddRecorded, EarlyTransfer, LeaveDone,
                      Finish, ClearRecorded, LeaveSubmit
  <2>2. w \notin atStart[t] \cup atDone[t] \cup atSubmit
    BY <1>6, <1>9 DEF Step, Start, LeaveStart, Record, AddRecorded, EarlyTransfer, LeaveDone,
                      Finish, ClearRecorded, LeaveSubmit
  <2>3. \/ Start(w) \/ LeaveStart(w) \/ Record(w) \/ AddRecorded(w) \/ EarlyTransfer(w)
        \/ LeaveDone(w) \/ Finish(w) \/ ClearRecorded(w) \/ LeaveSubmit(w)
    BY <1>9
  <2>4. /\ pc'[w] \in {"wait"} \cup PcsOf(Role[w])
        /\ \/ BeforeStart(w) /\ BeforeStart(w)'
           \/ BeforeDone(w) /\ BeforeDone(w)'
           \/ Done(w) /\ Done(w)'
           \/ Role[w] = "run" /\ (BeforeStart(w)' \/ BeforeDone(w)' \/ Done(w)')
    <3>1. CASE LeaveDone(w)
      <4>1. /\ pc[w] = "insideDone" /\ pc'[w] = AfterDone(w)
            /\ Role[w] # "run"
            /\ AfterDone(w) = IF w \in Leaders THEN "finish" ELSE "wait"
        BY <1>2, <1>3, <1>4, <3>1 DEF LeaveDone, Step, AfterDone, PcsOf, Resting
      <4>2. w \in Leaders => "finish" \in PcsOf(Role[w])
        BY <1>2, <4>1 DEF PcsOf
      <4>3. \/ BeforeStart(w) /\ BeforeStart(w)'
            \/ Done(w) /\ Done(w)'
        BY <1>1, <1>4, <1>5, <2>1, <2>2, <4>1 DEF BeforeStart, BeforeDone, Done
      <4>4. QED
        BY <4>1, <4>2, <4>3
    <3>2. CASE Start(w)
      <4>1. /\ pc[w] = "start"
            /\ IF Role[w] = "run" THEN pc'[w] \in {"record", "drop"} ELSE pc'[w] = "arriveStart"
        BY <1>4, <3>2 DEF Start, Step
      <4>2. pc'[w] \in PcsOf(Role[w])
        BY <1>2, <4>1 DEF PcsOf, Roles
      <4>3. seen[w] = frame
        BY <1>5, <4>1 DEF BeforeStart, BeforeDone, Done
      <4>4. QED
        BY <1>1, <1>4, <2>1, <4>1, <4>2, <4>3 DEF BeforeStart, BeforeDone, Done
    <3>3. CASE LeaveStart(w)
      <4>1. pc[w] = "insideStart" /\ pc'[w] = Activity(w) /\ Role[w] # "run"
        BY <1>3, <1>4, <3>3 DEF LeaveStart, Step, PcsOf, Resting
      <4>2. pc'[w] \in PcsOf(Role[w]) /\ pc'[w] \in {"record", "transfer"}
        BY <1>2, <4>1 DEF PcsOf, Roles, Activity
      <4>3. QED
        BY <1>1, <1>5, <2>1, <2>2, <4>1, <4>2 DEF BeforeStart, BeforeDone, Done
    <3>4. CASE Record(w) \/ AddRecorded(w) \/ EarlyTransfer(w)
      <4>1. /\ pc[w] \in {"record", "add", "transfer"}
            /\ \/ pc'[w] = IF Role[w] = "run" THEN "finish" ELSE "arriveDone"
               \/ pc[w] = "record" /\ pc'[w] = "add"
        BY <1>2, <1>3, <1>4, <3>4
        DEF Record, AddRecorded, EarlyTransfer, Step, AfterRecord, PcsOf, Roles, Resting
      <4>2. pc'[w] \in PcsOf(Role[w])
        BY <1>2, <1>3, <4>1 DEF PcsOf, Roles, Resting
      <4>3. BeforeDone(w)
        BY <1>5, <4>1 DEF BeforeStart, BeforeDone, Done
      <4>4. QED
        BY <1>1, <2>1, <4>1, <4>2, <4>3 DEF BeforeDone, Done
    <3>5. CASE Finish(w) \/ ClearRecorded(w)
      <4>1. /\ pc[w] \in {"finish", "clear"} /\ pc'[w] \in {"drop", "clear", "arriveSubmit"}
            /\ Role[w] = "run" => pc'[w] = "drop"
            /\ Role[w] # "run" => pc'[w] \in {"clear", "arriveSubmit"} /\ Role[w] = "primary"
        BY <1>2, <1>3, <1>4, <3>5 DEF Finish, ClearRecorded, Step, PcsOf, Roles, Resting
      <4>2. pc'[w] \in PcsOf(Role[w])
        BY <1>2, <4>1 DEF PcsOf, Roles
      <4>3. QED
        BY <1>1, <1>5, <2>1, <4>1, <4>2 DEF BeforeStart, BeforeDone, Done
    <3>6. CASE LeaveSubmit(w)
      <4>1. pc[w] = "insideSubmit" /\ pc'[w] = "wait"
        BY <1>4, <3>6 DEF LeaveSubmit, Step
      <4>2. QED
        BY <1>1, <1>5, <2>1, <4>1 DEF BeforeStart, BeforeDone, Done
    <3>7. QED
      BY <2>3, <3>1, <3>2, <3>3, <3>4, <3>5, <3>6
  <2>5. seen' = [seen EXCEPT ![w] = seen'[w]] /\ seen'[w] = seen[w]
    BY <1>4, <2>1
  <2>6. QED
    BY <1>1, <2>1, <2>2, <2>4, <2>5, LocalStep
<1>10. QED
  BY <1>7, <1>8, <1>9


\* The threads of a task enter the first barrier of the task, and leave it together.
LEMMA ArriveStartControl ==
  ASSUME ControlInv, InFrame, NEW w \in Workers, ArriveStart(w)
  PROVE  ControlInv'
<1> DEFINE t == TaskOf[w]
           there == IF w \in atStart'[t] THEN "insideStart" ELSE Activity(w)
<1>1. /\ UNCHANGED <<mainPc, frame, closed, restart, resume, threading, status, block>>
      /\ UNCHANGED <<atDone, atSubmit, seen, blockAsleep>>
      /\ pc[w] = "arriveStart" /\ pc' = [pc EXCEPT ![w] = there]
      /\ atStart' = [atStart EXCEPT ![t] = Entered(@, TeamSize(w), w)]
  BY DEF mainVars, blockVars, ArriveStart
<1>2. /\ t \in Tasks /\ w \in Team(t) /\ Team(t) \subseteq Workers /\ Role[w] \in Roles
      /\ w # Main /\ \A v \in Team(t) : TaskOf[v] = t
  BY TeamFacts
<1>3. /\ pc \in [Workers -> WorkerPcs] /\ seen \in [Workers -> 0 .. MaxFrame]
      /\ atStart \in [Tasks -> SUBSET Workers] /\ atDone \in [Tasks -> SUBSET Workers]
      /\ atSubmit \subseteq Workers \cup {Main} /\ blockAsleep \subseteq Workers
      /\ BarriersHoldThreads /\ pc[w] \in Resting \cup PcsOf(Role[w])
  BY DEF ControlInv, ControlTypes, Phases, RolesFit
<1>4. BeforeStart(w) /\ seen[w] = frame
  BY <1>1, <1>2 DEF ControlInv, Phases, TaskInStep, BeforeStart, BeforeDone, Done
<1>5. /\ \A v \in Team(t) : BeforeStart(v)
      /\ atDone[t] = {}
  BY <1>4, TeamIsTogether
<1>6. atStart[t] \subseteq Team(t) /\ w \notin atStart[t] \cup atDone[t] \cup atSubmit
  BY <1>1, <1>2, <1>3, <1>5 DEF BarriersHoldThreads
<1>7. atStart'[t] = IF atStart[t] \cup {w} = Team(t) THEN {} ELSE atStart[t] \cup {w}
  <2>1. IsFiniteSet(Team(t)) /\ atStart[t] \in SUBSET Team(t) /\ w \in Team(t) \ atStart[t]
    BY <1>2, <1>6, Participants
  <2>2. Entered(atStart[t], Cardinality(Team(t)), w)
           = IF atStart[t] \cup {w} = Team(t) THEN {} ELSE atStart[t] \cup {w}
    BY <2>1, Arrival
  <2>3. atStart'[t] = Entered(atStart[t], Cardinality(Team(t)), w)
    BY <1>1, <1>2, <1>3 DEF TeamSize
  <2>4. QED
    BY <2>2, <2>3
<1>8. Role[w] # "run" /\ Activity(w) \in {"record", "transfer"}
      /\ Activity(w) \in PcsOf(Role[w]) /\ "insideStart" \in PcsOf(Role[w])
  BY <1>1, <1>2, <1>3 DEF PcsOf, Roles, Activity, Resting
<1>9. \A v \in Workers \ {w} : pc'[v] = pc[v] /\ seen'[v] = seen[v]
  BY <1>1, <1>3
<1>10. \A u \in Tasks \ {t} : atStart'[u] = atStart[u] /\ w \notin atStart[u] /\ w \notin atDone[u]
  BY <1>1, <1>2, <1>3, TeamFacts DEF BarriersHoldThreads
<1>11. InFrame'
  BY <1>1 DEF InFrame
<1>12. /\ atStart' \in [Tasks -> SUBSET Workers]
       /\ there \in PcsOf(Role[w]) /\ seen' = [seen EXCEPT ![w] = seen'[w]]
       /\ seen'[w] = seen[w]
  <2>1. atStart'[t] \subseteq Workers
    BY <1>2, <1>3, <1>7
  <2>2. QED
    BY <1>1, <1>2, <1>3, <1>8, <2>1
<1>13. CASE atStart[t] \cup {w} = Team(t)
  <2>1. there = Activity(w) /\ atStart'[t] = {} /\ pc'[w] = Activity(w)
    BY <1>1, <1>3, <1>7, <1>13
  <2>2. \A v \in Team(t) \ {w} : pc[v] = "insideStart" /\ seen[v] = frame
    BY <1>2, <1>3, <1>13 DEF BarriersHoldThreads
  <2>3. \A v \in Team(t) : BeforeDone(v)'
    BY <1>1, <1>2, <1>4, <1>8, <1>9, <2>1, <2>2 DEF BeforeDone
  <2>4. BarriersHoldThreads'
    BY <1>1, <1>2, <1>3, <1>5, <1>6, <1>9, <1>10, <2>1, TeamFacts DEF BarriersHoldThreads
  <2>5. QED
    BY <1>1, <1>3, <1>10, <1>11, <1>12, <2>3, <2>4, InFrameStep DEF TaskInStep
<1>14. CASE atStart[t] \cup {w} # Team(t)
  <2>1. there = "insideStart" /\ atStart'[t] = atStart[t] \cup {w} /\ pc'[w] = "insideStart"
    BY <1>1, <1>3, <1>7, <1>14
  <2>2. \A v \in Team(t) : BeforeStart(v)'
    BY <1>1, <1>2, <1>4, <1>5, <1>9, <2>1 DEF BeforeStart
  <2>3. \A v \in atStart'[t] : v \in Team(t) /\ pc'[v] = "insideStart" /\ seen'[v] = frame
    BY <1>1, <1>2, <1>3, <1>4, <1>9, <2>1 DEF BarriersHoldThreads
  <2>4. BarriersHoldThreads'
    BY <1>1, <1>2, <1>3, <1>5, <1>6, <1>9, <1>10, <2>3, TeamFacts DEF BarriersHoldThreads
  <2>5. QED
    BY <1>1, <1>3, <1>10, <1>11, <1>12, <2>2, <2>4, InFrameStep DEF TaskInStep
<1>15. QED
  BY <1>13, <1>14

\* The same for the second barrier.
LEMMA ArriveDoneControl ==
  ASSUME ControlInv, InFrame, NEW w \in Workers, ArriveDone(w)
  PROVE  ControlInv'
<1> DEFINE t == TaskOf[w]
           there == IF w \in atDone'[t] THEN "insideDone" ELSE AfterDone(w)
<1>1. /\ UNCHANGED <<mainPc, frame, closed, restart, resume, threading, status, block>>
      /\ UNCHANGED <<atStart, atSubmit, seen, blockAsleep>>
      /\ pc[w] = "arriveDone" /\ pc' = [pc EXCEPT ![w] = there]
      /\ atDone' = [atDone EXCEPT ![t] = Entered(@, TeamSize(w), w)]
  BY DEF mainVars, blockVars, ArriveDone
<1>2. /\ t \in Tasks /\ w \in Team(t) /\ Team(t) \subseteq Workers /\ Role[w] \in Roles
      /\ w # Main /\ \A v \in Team(t) : TaskOf[v] = t
  BY TeamFacts
<1>3. /\ pc \in [Workers -> WorkerPcs] /\ seen \in [Workers -> 0 .. MaxFrame]
      /\ atStart \in [Tasks -> SUBSET Workers] /\ atDone \in [Tasks -> SUBSET Workers]
      /\ atSubmit \subseteq Workers \cup {Main} /\ blockAsleep \subseteq Workers
      /\ BarriersHoldThreads /\ pc[w] \in Resting \cup PcsOf(Role[w])
  BY DEF ControlInv, ControlTypes, Phases, RolesFit
<1>4. BeforeDone(w) /\ seen[w] = frame
  BY <1>1, <1>2 DEF ControlInv, Phases, TaskInStep, BeforeStart, BeforeDone, Done
<1>5. /\ \A v \in Team(t) : BeforeDone(v)
      /\ atStart[t] = {}
  BY <1>4, TeamIsTogether
<1>6. atDone[t] \subseteq Team(t) /\ w \notin atStart[t] \cup atDone[t] \cup atSubmit
  BY <1>1, <1>2, <1>3, <1>5 DEF BarriersHoldThreads
<1>7. atDone'[t] = IF atDone[t] \cup {w} = Team(t) THEN {} ELSE atDone[t] \cup {w}
  <2>1. IsFiniteSet(Team(t)) /\ atDone[t] \in SUBSET Team(t) /\ w \in Team(t) \ atDone[t]
    BY <1>2, <1>6, Participants
  <2>2. Entered(atDone[t], Cardinality(Team(t)), w)
           = IF atDone[t] \cup {w} = Team(t) THEN {} ELSE atDone[t] \cup {w}
    BY <2>1, Arrival
  <2>3. atDone'[t] = Entered(atDone[t], Cardinality(Team(t)), w)
    BY <1>1, <1>2, <1>3 DEF TeamSize
  <2>4. QED
    BY <2>2, <2>3
<1>8. Role[w] # "run" /\ AfterDone(w) \in {"wait", "finish"}
      /\ AfterDone(w) \in {"wait"} \cup PcsOf(Role[w]) /\ "insideDone" \in PcsOf(Role[w])
  BY <1>1, <1>2, <1>3 DEF PcsOf, Roles, AfterDone, Resting
<1>9. \A v \in Workers \ {w} : pc'[v] = pc[v] /\ seen'[v] = seen[v]
  BY <1>1, <1>3
<1>10. \A u \in Tasks \ {t} : atDone'[u] = atDone[u] /\ w \notin atStart[u] /\ w \notin atDone[u]
  BY <1>1, <1>2, <1>3, TeamFacts DEF BarriersHoldThreads
<1>11. InFrame'
  BY <1>1 DEF InFrame
<1>12. /\ atDone' \in [Tasks -> SUBSET Workers]
       /\ there \in {"wait"} \cup PcsOf(Role[w]) /\ seen' = [seen EXCEPT ![w] = seen'[w]]
       /\ seen'[w] = seen[w]
  <2>1. atDone'[t] \subseteq Workers
    BY <1>2, <1>3, <1>7
  <2>2. QED
    BY <1>1, <1>2, <1>3, <1>8, <2>1
<1>13. CASE atDone[t] \cup {w} = Team(t)
  <2>1. there = AfterDone(w) /\ atDone'[t] = {} /\ pc'[w] = AfterDone(w)
    BY <1>1, <1>3, <1>7, <1>13
  <2>2. \A v \in Team(t) \ {w} : pc[v] = "insideDone" /\ seen[v] = frame
    BY <1>2, <1>3, <1>13 DEF BarriersHoldThreads
  <2>3. \A v \in Team(t) : Done(v)'
    BY <1>1, <1>2, <1>4, <1>8, <1>9, <2>1, <2>2 DEF Done
  <2>4. BarriersHoldThreads'
    BY <1>1, <1>2, <1>3, <1>5, <1>6, <1>9, <1>10, <2>1, TeamFacts DEF BarriersHoldThreads
  <2>5. QED
    BY <1>1, <1>3, <1>10, <1>11, <1>12, <2>3, <2>4, InFrameStep DEF TaskInStep
<1>14. CASE atDone[t] \cup {w} # Team(t)
  <2>1. there = "insideDone" /\ atDone'[t] = atDone[t] \cup {w} /\ pc'[w] = "insideDone"
    BY <1>1, <1>3, <1>7, <1>14
  <2>2. \A v \in Team(t) : BeforeDone(v)'
    BY <1>1, <1>2, <1>4, <1>5, <1>9, <2>1 DEF BeforeDone
  <2>3. \A v \in atDone'[t] : v \in Team(t) /\ pc'[v] = "insideDone" /\ seen'[v] = frame
    BY <1>1, <1>2, <1>3, <1>4, <1>9, <2>1 DEF BarriersHoldThreads
  <2>4. BarriersHoldThreads'
    BY <1>1, <1>2, <1>3, <1>5, <1>6, <1>9, <1>10, <2>3, TeamFacts DEF BarriersHoldThreads
  <2>5. QED
    BY <1>1, <1>3, <1>10, <1>11, <1>12, <2>2, <2>4, InFrameStep DEF TaskInStep
<1>15. QED
  BY <1>13, <1>14

\* A leader arrives at the barrier of main: the last arrival ends the frame.
LEMMA ArriveSubmitControl ==
  ASSUME ControlInv, InFrame, NEW w \in Workers, ArriveSubmit(w) \/ DropSubmit(w)
  PROVE  ControlInv'
<1> DEFINE t == TaskOf[w]
           there == pc'[w]
<1>1. /\ UNCHANGED <<mainPc, frame, closed, restart, resume, threading, status, block>>
      /\ UNCHANGED <<atStart, atDone, seen, blockAsleep>>
      /\ pc[w] \in {"arriveSubmit", "drop"}
      /\ atSubmit' = Entered(atSubmit, SubmitThreads, w)
  BY DEF mainVars, blockVars, ArriveSubmit, DropSubmit, Step
<1>2. /\ t \in Tasks /\ w \in Team(t) /\ Team(t) \subseteq Workers /\ Role[w] \in Roles
      /\ w # Main /\ (w \in Leaders <=> Role[w] \in {"run", "primary"})
      /\ Main \notin Leaders /\ Leaders \subseteq Workers
  BY TeamFacts
<1>3. /\ pc \in [Workers -> WorkerPcs] /\ seen \in [Workers -> 0 .. MaxFrame]
      /\ atStart \in [Tasks -> SUBSET Workers] /\ atDone \in [Tasks -> SUBSET Workers]
      /\ atSubmit \subseteq Workers \cup {Main} /\ blockAsleep \subseteq Workers
      /\ BarriersHoldThreads /\ pc[w] \in Resting \cup PcsOf(Role[w])
  BY DEF ControlInv, ControlTypes, Phases, RolesFit
<1>4. Done(w) /\ seen[w] = frame /\ w \in Leaders
  BY <1>1, <1>2, <1>3 DEF ControlInv, Phases, TaskInStep, BeforeStart, BeforeDone, Done,
     PcsOf, Roles, Resting
<1>5. /\ \A v \in Team(t) : Done(v)
      /\ atStart[t] = {} /\ atDone[t] = {}
  BY <1>4, TeamIsTogether
<1>6. atSubmit \subseteq Leaders \cup {Main} /\ w \in (Leaders \cup {Main}) \ atSubmit
  BY <1>1, <1>2, <1>3, <1>4 DEF BarriersHoldThreads
<1>7. atSubmit' = IF atSubmit \cup {w} = Leaders \cup {Main} THEN {} ELSE atSubmit \cup {w}
  BY <1>1, <1>6, Participants, Arrival
<1>8. /\ pc' = [pc EXCEPT ![w] = there]
      /\ there \in {"insideSubmit", "wait"} /\ there \in {"wait"} \cup PcsOf(Role[w])
      /\ w \notin atSubmit' => there = "wait"
  BY <1>2, <1>3 DEF ArriveSubmit, DropSubmit, Step, PcsOf, Roles, Resting
<1>9. \A v \in Workers \ {w} : pc'[v] = pc[v] /\ seen'[v] = seen[v]
  BY <1>1, <1>3, <1>8
<1>10. \A u \in Tasks : w \notin atStart[u] /\ w \notin atDone[u]
  BY <1>1, <1>3 DEF BarriersHoldThreads
<1>11. seen' = [seen EXCEPT ![w] = seen'[w]] /\ seen'[w] = seen[w]
  BY <1>1, <1>3
<1>12. CASE atSubmit \cup {w} = Leaders \cup {Main}
  <2>1. atSubmit' = {} /\ there = "wait"
    BY <1>7, <1>8, <1>12
  <2>2. mainPc = "inside" /\ ~InFrame'
    BY <1>1, <1>2, <1>3, <1>12, <2>1 DEF BarriersHoldThreads, InFrame
  <2>3. \A p \in Leaders \ {w} : p \in atSubmit
    BY <1>12
  <2>4. /\ \A u \in Tasks : atStart[u] = {} /\ atDone[u] = {}
        /\ \A v \in Workers \ {w} :
              /\ \/ pc[v] \in Resting \cup {"insideSubmit"}
                 \/ pc[v] = "insideDone" /\ v \notin Leaders
              /\ seen[v] = frame
    BY <1>4, <2>3, FrameIsOver
  <2>5. block = frame
    BY <2>2 DEF ControlInv, FramesInOrder
  <2>6. Quiet'
    <3>1. \A v \in Workers :
             /\ \/ pc'[v] \in Resting \cup {"insideSubmit"}
                \/ pc'[v] = "insideDone" /\ v \notin Leaders
             /\ seen'[v] = block
      BY <1>1, <1>3, <1>4, <1>8, <1>9, <2>1, <2>4, <2>5 DEF Resting
    <3>2. QED
      BY <1>1, <2>1, <2>4, <3>1 DEF Quiet
  <2>7. BarriersHoldThreads'
    BY <1>1, <2>1, <2>4 DEF BarriersHoldThreads
  <2>8. QED
    BY <1>1, <1>3, <1>8, <1>11, <2>1, <2>2, <2>6, <2>7, InFrameStep
<1>13. CASE atSubmit \cup {w} # Leaders \cup {Main}
  <2>1. atSubmit' = atSubmit \cup {w}
    BY <1>7, <1>13
  <2>2. InFrame'
    BY <1>1, <2>1 DEF InFrame
  <2>3. \A v \in Team(t) : Done(v)'
    BY <1>1, <1>2, <1>3, <1>4, <1>5, <1>8, <1>9 DEF Done
  <2>4. BarriersHoldThreads'
    <3>1. \A u \in Tasks :
             /\ \A v \in atStart'[u] : v \in Team(u) /\ pc'[v] = "insideStart" /\ seen'[v] = frame
             /\ \A v \in atDone'[u] : v \in Team(u) /\ pc'[v] = "insideDone" /\ seen'[v] = frame
      BY <1>1, <1>3, <1>9, <1>10 DEF BarriersHoldThreads
    <3>2. \A v \in atSubmit' \ {Main} :
             v \in Leaders /\ pc'[v] \in {"insideSubmit", "wait"} /\ seen'[v] = frame
      BY <1>1, <1>2, <1>3, <1>4, <1>8, <1>9, <2>1 DEF BarriersHoldThreads
    <3>3. QED
      BY <1>1, <1>2, <1>3, <2>1, <3>1, <3>2 DEF BarriersHoldThreads
  <2>5. QED
    BY <1>1, <1>2, <1>3, <1>8, <1>11, <2>1, <2>2, <2>3, <2>4, InFrameStep DEF TaskInStep
<1>14. QED
  BY <1>12, <1>13

\* The control invariant is kept by every step.
LEMMA ControlStep == ControlInv /\ [Next]_vars => ControlInv'
<1>1. SUFFICES ASSUME ControlInv, [Next]_vars PROVE ControlInv'
  OBVIOUS
<1>2. CASE UNCHANGED vars
  <2>1. /\ UNCHANGED <<mainPc, frame, closed, restart, resume, threading, status>>
        /\ UNCHANGED <<block, blockAsleep, pc, seen, atStart, atDone, atSubmit>>
    BY <1>2 DEF vars, mainVars, blockVars, barriers
  <2>2. ControlTypes' /\ RolesFit' /\ ThreadsExist' /\ FramesInOrder'
    BY <1>1, <2>1 DEF ControlInv, ControlTypes, RolesFit, ThreadsExist, FramesInOrder, Unpublished
  <2>3. Phases'
    BY <1>1, <2>1 DEF ControlInv, Phases, BarriersHoldThreads, InFrame, Quiet, TaskInStep,
                BeforeStart, BeforeDone, Done
  <2>4. QED
    BY <2>2, <2>3 DEF ControlInv
<1>3. CASE MainStep
  BY <1>1, <1>3, MainAloneControl, JoinControl, PublishControl, MainArrivesControl,
     MainReleasedControl DEF MainStep
<1>4. CASE ApplicationStep
  BY <1>1, <1>4, MainAloneControl DEF ApplicationStep
<1>5. CASE Terminated
  BY <1>2, <1>5 DEF Terminated
<1>6. ASSUME NEW w \in Workers, WorkerStep(w)
      PROVE  ControlInv'
  <2>1. CASE InFrame
    BY <1>1, <1>6, <2>1, WorkerMovesControl, ArriveStartControl, ArriveDoneControl,
       ArriveSubmitControl DEF WorkerStep
  <2>2. CASE ~InFrame
    BY <1>1, <1>6, <2>2, WorkerRestsControl
  <2>3. QED
    BY <2>1, <2>2
<1>7. ASSUME NEW w \in Workers, SpuriousWakeup(w)
      PROVE  ControlInv'
  BY <1>1, <1>7, WakeupControl
<1>8. QED
  BY <1>1, <1>2, <1>3, <1>4, <1>5, <1>6, <1>7 DEF Next

\* The control invariant always holds.
THEOREM ControlIsInvariant == Spec => []ControlInv
<1>1. Init => ControlInv
  BY ControlInit
<1>2. ControlInv /\ [Next]_vars => ControlInv'
  BY ControlStep
<1>3. QED
  BY <1>1, <1>2, PTL DEF Spec


\* A thread at work is in the frame of main, in step with its team.
LEMMA BusyInFrame ==
  ASSUME ControlInv, NEW w \in Workers, Busy(w)
  PROVE  InFrame /\ seen[w] = frame /\ mainPc \in {"arrive", "inside"}
<1>1. InFrame
  BY DEF ControlInv, Phases, Quiet, Busy, Resting
<1>2. BeforeStart(w) \/ BeforeDone(w) \/ Done(w)
  BY <1>1, TeamFacts DEF ControlInv, Phases, TaskInStep
<1>3. seen[w] = frame
  BY <1>2 DEF Busy, BeforeStart, BeforeDone, Done
<1>4. QED
  BY <1>1, <1>3 DEF InFrame

\* The invariant UpdateExcludesRecording: no worker is at work unless main waits for
\* the tasks of the frame, and then it works on that frame.
THEOREM UpdatesAreExclusive == Spec => []UpdateExcludesRecording
<1>1. ControlInv => UpdateExcludesRecording
  BY BusyInFrame DEF UpdateExcludesRecording
<1>2. QED
  BY <1>1, ControlIsInvariant, PTL

\* The invariant TaskIsExclusive: a leader starts, finishes and clears a task only
\* while no other thread of the task records or transfers.
THEOREM TasksAreExclusive == Spec => []TaskIsExclusive
<1>1. ControlInv => TaskIsExclusive
  <2>1. SUFFICES ASSUME ControlInv, NEW p \in Leaders, pc[p] \in {"start", "finish", "clear"},
                        NEW w \in Team(TaskOf[p]) \ {p}
                 PROVE  pc[w] \notin {"record", "add", "transfer"}
    BY DEF TaskIsExclusive
  <2>2. p \in Workers /\ TaskOf[p] \in Tasks /\ w \in Workers
    BY TeamFacts
  <2>3. InFrame
    BY <2>1, <2>2, BusyInFrame DEF Busy
  <2>4. BeforeStart(p) \/ Done(p)
    BY <2>1, <2>2, <2>3, TeamFacts
    DEF ControlInv, Phases, TaskInStep, BeforeStart, BeforeDone, Done
  <2>5. BeforeStart(w) \/ Done(w)
    BY <2>1, <2>2, <2>3, <2>4, TeamIsTogether
  <2>6. QED
    BY <2>5 DEF BeforeStart, Done
<1>2. QED
  BY <1>1, ControlIsInvariant, PTL

\* The invariant ExitLeavesNobodyBehind: when a thread leaves its loop, no thread is
\* inside a barrier it would have been expected at.
THEOREM ExitsLeaveNobodyBehind == Spec => []ExitLeavesNobodyBehind
<1>1. ControlInv => ExitLeavesNobodyBehind
  <2>1. SUFFICES ASSUME ControlInv, NEW w \in Workers, pc[w] = "exited"
                 PROVE  atSubmit = {} /\ atStart[TaskOf[w]] = {} /\ atDone[TaskOf[w]] = {}
    BY DEF ExitLeavesNobodyBehind
  <2>2. ~threading /\ ~InFrame
    BY <2>1 DEF ControlInv, ThreadsExist, InFrame
  <2>3. QED
    BY <2>1, <2>2, TeamFacts DEF ControlInv, Phases, Quiet
<1>2. QED
  BY <1>1, ControlIsInvariant, PTL

--------------------------------------------------------------------------------
(* What is recorded and submitted, action by action.                       *)

\* A graph and its secondary graphs are served by recording threads of one task, and
\* drawn in one window.
LEMMA SecondaryFacts ==
  /\ \A g \in Workers : Secondaries(g) \subseteq Workers /\ IsFiniteSet(Secondaries(g))
  /\ \A g \in Workers : \A w \in Secondaries(g) :
        /\ TaskOf[w] = TaskOf[g] /\ WindowOf[w] = WindowOf[g]
        /\ w \in Graphs(TaskOf[g]) /\ Role[w] # "transfer" /\ Role[g] # "transfer"
  /\ \A g \in Workers : Cardinality(Secondaries(g)) \in 0 .. Cardinality(Workers)
  /\ \A g, h \in Workers : \A w \in Secondaries(g) \cap Secondaries(h) : g = h
<1>1. IsFiniteSet(Workers)
  BY ThreadAssumption DEF ThreadAssumption
<1>2. \A g \in Workers : Secondaries(g) \subseteq Workers
  BY ExecutorAssumption DEF ExecutorAssumption, Secondaries
<1>3. ASSUME NEW g \in Workers
      PROVE  /\ IsFiniteSet(Secondaries(g))
             /\ Cardinality(Secondaries(g)) \in 0 .. Cardinality(Workers)
  <2>1. /\ IsFiniteSet(Secondaries(g))
        /\ Cardinality(Secondaries(g)) <= Cardinality(Workers)
    BY <1>1, <1>2, FS_Subset
  <2>2. Cardinality(Secondaries(g)) \in Nat /\ Cardinality(Workers) \in Nat
    BY <1>1, <2>1, FS_CardinalityType
  <2>3. QED
    BY <2>1, <2>2
<1>4. \A g \in Workers : \A w \in Secondaries(g) :
         /\ TaskOf[w] = TaskOf[g] /\ WindowOf[w] = WindowOf[g]
         /\ w \in Graphs(TaskOf[g]) /\ Role[w] # "transfer" /\ Role[g] # "transfer"
  BY ExecutorAssumption DEF ExecutorAssumption, Secondaries, Graphs
<1>5. QED
  BY <1>2, <1>3, <1>4 DEF Secondaries

\* A latch that counts to zero has nobody left to wait for, and one thread less to
\* wait for makes one less to count.
LEMMA AwaitedCount ==
  ASSUME NEW g \in Workers, NEW S \in SUBSET Secondaries(g)
  PROVE  /\ IsFiniteSet(S) /\ Cardinality(S) \in 0 .. Cardinality(Workers)
         /\ Cardinality(S) = 0 => S = {}
         /\ \A w \in S : Cardinality(S \ {w}) = Cardinality(S) - 1
         /\ Cardinality(Secondaries(g)) - Cardinality(S) \in 0 .. Cardinality(Workers)
<1>1. IsFiniteSet(Secondaries(g)) /\ Cardinality(Secondaries(g)) \in 0 .. Cardinality(Workers)
  BY SecondaryFacts
<1>2. IsFiniteSet(S) /\ Cardinality(S) <= Cardinality(Secondaries(g))
  BY <1>1, FS_Subset
<1>3. Cardinality(S) \in Nat /\ (Cardinality(S) = 0 <=> S = {})
  BY <1>2, FS_CardinalityType, FS_EmptySet
<1>4. \A w \in S : Cardinality(S \ {w}) = Cardinality(S) - 1
  BY <1>2, FS_RemoveElement
<1>5. Cardinality(Workers) \in Nat
  BY ThreadAssumption, FS_CardinalityType DEF ThreadAssumption
<1>6. QED
  BY <1>1, <1>2, <1>3, <1>4, <1>5

\* Before the first frame nothing is recorded.
LEMMA DataInit == Init => DataInv
<1>1. SUFFICES ASSUME Init PROVE DataInv
  OBVIOUS
<1>2. 0 \in 0 .. MaxFrame /\ 0 \in 0 .. Cardinality(Workers)
  BY FrameAssumption, ThreadAssumption, FS_CardinalityType
  DEF FrameAssumption, ThreadAssumption
<1>3. DataTypes
  BY <1>1, <1>2 DEF Init, DataTypes, NoFrame
<1>4. \A w \in Workers : seen[w] # frame
  BY <1>1 DEF Init, NoFrame
<1>5. RecordedIsListed
  BY <1>1, <1>4, TeamFacts DEF Init, RecordedIsListed, Listed, PastRecord, VisibleGraphs, Graphs
<1>6. RecordedInOrder /\ BuffersAreHeld
  BY <1>4, ExecutorAssumption DEF ExecutorAssumption, RecordedInOrder, BuffersAreHeld, PastRecord
<1>7. SemaphoresAreFresh /\ LatchesCount /\ SubmittedIsComplete /\ FrameIsComplete
  BY <1>1, TeamFacts DEF Init, SemaphoresAreFresh, LatchesCount, SubmittedIsComplete,
                         Untouched, FrameIsComplete
<1>8. QED
  BY <1>3, <1>5, <1>6, <1>7 DEF DataInv

\* Between frames nothing is left of what was recorded, and no leader is at work.
LEMMA NothingIsLeft ==
  ASSUME ControlInv, DataInv, ~InFrame
  PROVE  /\ \A t \in Tasks : recorded[t] = {}
         /\ \A p \in Leaders : pc[p] \in Resting \cup {"insideSubmit"} /\ seen[p] = block
         /\ SemaphoresAreFresh
<1>1. Quiet
  BY DEF ControlInv, Phases
<1>2. \A p \in Leaders : pc[p] \in Resting \cup {"insideSubmit"} /\ seen[p] = block
  BY <1>1, TeamFacts DEF Quiet
<1>3. ASSUME NEW t \in Tasks
      PROVE  recorded[t] = {}
  <2>1. PICK p \in Leaders : TaskOf[p] = t
    BY TeamFacts
  <2>2. CASE block = frame
    BY <1>2, <2>1, <2>2 DEF DataInv, RecordedIsListed, Cleared, Submitted, Resting
  <2>3. CASE block # frame
    BY <1>1, <2>1, <2>3
    DEF DataInv, RecordedIsListed, Quiet, Listed, PastRecord, VisibleGraphs, Graphs
  <2>4. QED
    BY <2>2, <2>3
<1>4. SemaphoresAreFresh
  BY <1>2 DEF SemaphoresAreFresh, Resting
<1>5. QED
  BY <1>2, <1>3, <1>4

\* A frame that is not published has not been recorded by anybody.
LEMMA NobodyIsPast ==
  ASSUME ControlInv, Unpublished
  PROVE  \A w \in Workers : seen[w] # frame /\ ~PastRecord(w) /\ ~Listed(w)
<1>1. ~InFrame /\ block < frame
  BY DEF ControlInv, FramesInOrder, Unpublished, InFrame, Stopping
<1>2. QED
  BY <1>1 DEF ControlInv, ControlTypes, Phases, Quiet, PastRecord, Listed

\* The histories of a task are those of its leader.
LEMMA AllTasks ==
  ASSUME DataInv, mainPc \notin {"arrive", "inside", "present"}
  PROVE  \A t \in Tasks : submitted[t] = {} /\ t \notin abandoned
<1>1. SUFFICES ASSUME NEW t \in Tasks PROVE Untouched(t)
  BY DEF Untouched
<1>2. PICK p \in Leaders : TaskOf[p] = t
  BY TeamFacts
<1>3. QED
  BY <1>2 DEF DataInv, SubmittedIsComplete

\* The list of a task is what it was while its threads are where they were.
LEMMA ListStays ==
  ASSUME DataInv, UNCHANGED <<frame, visible, recorded>>,
         \A w \in Workers : Listed(w)' <=> Listed(w),
         \A p \in Leaders : Cleared(p)' <=> Cleared(p)
  PROVE  RecordedIsListed'
<1>1. ASSUME NEW p \in Leaders
      PROVE  {w \in VisibleGraphs(TaskOf[p])' : Listed(w)'}
               = {w \in VisibleGraphs(TaskOf[p]) : Listed(w)}
  BY DEF VisibleGraphs, Graphs
<1>2. QED
  BY <1>1 DEF DataInv, RecordedIsListed

\* The steps of main that leave the data alone: when they end a frame, every task has
\* submitted.
LEMMA MainMovesData ==
  ASSUME ControlInv, ControlInv', DataInv,
         \/ RecordAndSubmit \/ Publish \/ MainArrives \/ MainReleased
         \/ SetupThreading \/ StopThreading \/ Close \/ ClearStatus \/ Wake
         \/ UNCHANGED vars
  PROVE  DataInv'
<1>1. /\ UNCHANGED <<frame, visible, pc, seen, latch, buffer, recorded, early, unsignalled>>
      /\ UNCHANGED <<submitted, abandoned>>
      /\ mainPc' \in {"publish", "arrive", "inside"} =>
             mainPc \in {"publish", "arrive", "inside"}
      /\ mainPc' = "present" => mainPc \in {"present", "arrive", "inside"} /\ UNCHANGED block
      /\ mainPc \in {"arrive", "inside"} => mainPc' \in {"arrive", "inside", "present"}
      /\ mainPc = "present" => mainPc' = "present"
  BY DEF RecordAndSubmit, Publish, MainArrives, MainReleased, SetupThreading,
         StopThreading, Close, ClearStatus, Wake, BeginStop, Goto, Between, vars, mainVars,
         blockVars, taskVars, history
<1>2. \A w \in Workers : (PastRecord(w)' <=> PastRecord(w)) /\ (Listed(w)' <=> Listed(w))
  BY <1>1 DEF PastRecord, Listed
<1>3. \A p \in Leaders : (Submitted(p)' <=> Submitted(p)) /\ (Cleared(p)' <=> Cleared(p))
  BY <1>1 DEF Cleared, Submitted
<1>4. DataTypes' /\ SemaphoresAreFresh'
  BY <1>1 DEF DataInv, DataTypes, SemaphoresAreFresh
<1>5. LatchesCount'
  <2>1. \A g \in Workers : Awaited(g)' = Awaited(g)
    BY <1>1, <1>2, SecondaryFacts DEF Awaited
  <2>2. QED
    BY <1>1, <2>1 DEF DataInv, LatchesCount
<1>6. RecordedIsListed'
  BY <1>1, <1>2, <1>3, ListStays
<1>7. RecordedInOrder' /\ BuffersAreHeld'
  BY <1>1, <1>2, SecondaryFacts, ExecutorAssumption
  DEF ExecutorAssumption, DataInv, RecordedInOrder, BuffersAreHeld
<1>8. SubmittedIsComplete'
  <2>1. SUFFICES ASSUME NEW p \in Leaders, NEW t \in Tasks, t = TaskOf[p]
                 PROVE  IF mainPc' \in {"arrive", "inside"} /\ Submitted(p)
                        THEN SubmittedAll(t) ELSE mainPc' # "present" => Untouched(t)
    BY <1>1, <1>3, TeamFacts
    DEF SubmittedIsComplete, SubmittedAll, Untouched, VisibleGraphs, Graphs
  <2>2. mainPc = "publish" => ~Submitted(p)
    BY <2>1, TeamFacts, NobodyIsPast DEF Unpublished, Submitted
  <2>3. IF mainPc \in {"arrive", "inside"} /\ Submitted(p)
        THEN SubmittedAll(t) ELSE mainPc # "present" => Untouched(t)
    BY <2>1 DEF DataInv, SubmittedIsComplete
  <2>4. QED
    BY <1>1, <2>2, <2>3
<1>9. FrameIsComplete'
  <2>1. SUFFICES ASSUME mainPc' = "present", NEW t \in Tasks
                 PROVE  SubmittedAll(t)
    BY <1>1 DEF FrameIsComplete, SubmittedAll, VisibleGraphs, Graphs
  <2>2. CASE mainPc = "present"
    BY <2>1, <2>2 DEF DataInv, FrameIsComplete, SubmittedAll
  <2>3. CASE mainPc \in {"arrive", "inside"}
    <3>1. PICK p \in Leaders : TaskOf[p] = t
      BY TeamFacts
    <3>2. Quiet'
      BY <2>1 DEF InFrame, ControlInv, Phases
    <3>3. block = frame /\ UNCHANGED block
      BY <1>1, <2>1, <2>3 DEF ControlInv, FramesInOrder
    <3>4. Submitted(p)
      BY <1>1, <3>2, <3>3, TeamFacts DEF Quiet, Submitted
    <3>5. QED
      BY <2>3, <3>1, <3>4 DEF DataInv, SubmittedIsComplete
  <2>4. QED
    BY <1>1, <2>1, <2>2, <2>3
<1>10. QED
  BY <1>4, <1>5, <1>6, <1>7, <1>8, <1>9 DEF DataInv

\* When a frame is presented its histories end.
LEMMA PresentData ==
  ASSUME ControlInv, DataInv, Present
  PROVE  DataInv'
<1>1. /\ mainPc = "present" /\ mainPc' = "idle"
      /\ submitted' = [t \in Tasks |-> {}] /\ abandoned' = {}
      /\ UNCHANGED <<frame, visible, pc, seen, latch, buffer, recorded, early, unsignalled>>
  BY DEF Present, Goto, blockVars
<1>2. \A w \in Workers : (PastRecord(w)' <=> PastRecord(w)) /\ (Listed(w)' <=> Listed(w))
  BY <1>1 DEF PastRecord, Listed
<1>3. \A p \in Leaders : Cleared(p)' <=> Cleared(p)
  BY <1>1 DEF Cleared, Submitted
<1>4. DataTypes' /\ SemaphoresAreFresh'
  BY <1>1 DEF DataInv, DataTypes, SemaphoresAreFresh
<1>5. RecordedIsListed'
  BY <1>1, <1>2, <1>3, ListStays
<1>6. RecordedInOrder' /\ BuffersAreHeld'
  BY <1>1, <1>2, SecondaryFacts, ExecutorAssumption
  DEF ExecutorAssumption, DataInv, RecordedInOrder, BuffersAreHeld
<1>7. LatchesCount' /\ SubmittedIsComplete' /\ FrameIsComplete'
  BY <1>1, TeamFacts DEF LatchesCount, SubmittedIsComplete, Untouched, FrameIsComplete
<1>8. QED
  BY <1>4, <1>5, <1>6, <1>7 DEF DataInv

\* A new frame starts with nothing recorded, whatever windows it shows.
LEMMA AdvanceData ==
  ASSUME ControlInv, ControlInv', DataInv, AdvanceToNextFrame
  PROVE  DataInv'
<1>1. /\ mainPc = "idle" /\ mainPc' = "update" /\ visible' \subseteq Windows
      /\ UNCHANGED <<pc, seen, latch, buffer, recorded, early, unsignalled>>
      /\ UNCHANGED <<submitted, abandoned>>
  BY DEF AdvanceToNextFrame, Goto, taskVars, history
<1>2. \A w \in Workers : seen'[w] # frame' /\ ~PastRecord(w)' /\ ~Listed(w)'
  <2>1. Unpublished'
    BY <1>1 DEF Unpublished
  <2>2. ~InFrame' /\ (block < frame)' /\ Quiet'
    BY <1>1, <2>1 DEF InFrame, ControlInv, FramesInOrder, Phases
  <2>3. QED
    BY <2>2 DEF ControlInv, ControlTypes, Quiet, PastRecord, Listed
<1>3. \A t \in Tasks : recorded[t] = {}
  BY <1>1, NothingIsLeft DEF InFrame
<1>4. RecordedIsListed'
  <2>1. SUFFICES ASSUME NEW p \in Leaders
                 PROVE  recorded'[TaskOf[p]] = {}
                        /\ {w \in VisibleGraphs(TaskOf[p])' : Listed(w)'} = {}
    BY DEF RecordedIsListed
  <2>2. QED
    BY <1>1, <1>2, <1>3, TeamFacts DEF VisibleGraphs, Graphs
<1>5. RecordedInOrder' /\ BuffersAreHeld'
  BY <1>2, ExecutorAssumption DEF ExecutorAssumption, RecordedInOrder, BuffersAreHeld
<1>6. SemaphoresAreFresh'
  <2>1. \A p \in Leaders : pc[p] \in Resting \cup {"insideSubmit"}
    BY <1>1, NothingIsLeft DEF InFrame
  <2>2. QED
    BY <1>1, <2>1 DEF SemaphoresAreFresh, Resting
<1>7. DataTypes' /\ LatchesCount' /\ SubmittedIsComplete' /\ FrameIsComplete'
  BY <1>1 DEF DataInv, DataTypes, LatchesCount, SubmittedIsComplete, Untouched, FrameIsComplete
<1>8. QED
  BY <1>4, <1>5, <1>6, <1>7 DEF DataInv

\* The latches are reset while nobody has recorded.
LEMMA ResetData ==
  ASSUME ControlInv, DataInv, ResetExecuteCommands
  PROVE  DataInv'
<1>1. /\ mainPc = "reset" /\ mainPc' = "publish"
      /\ latch' = [g \in Workers |-> Cardinality(Secondaries(g))]
      /\ buffer' = [w \in Workers |-> NoFrame]
      /\ UNCHANGED <<frame, visible, pc, seen, recorded, early, unsignalled>>
      /\ UNCHANGED <<submitted, abandoned>>
  BY DEF ResetExecuteCommands, Goto, blockVars, history
<1>2. \A w \in Workers : seen[w] # frame /\ ~PastRecord(w)' /\ ~Listed(w) /\ ~Listed(w)'
  <2>1. \A w \in Workers : seen[w] # frame /\ ~Listed(w)
    BY <1>1, NobodyIsPast DEF Unpublished
  <2>2. QED
    BY <1>1, <2>1 DEF PastRecord, Listed
<1>3. DataTypes' /\ SemaphoresAreFresh'
  BY <1>1, SecondaryFacts, FrameAssumption
  DEF FrameAssumption, NoFrame, DataInv, DataTypes, SemaphoresAreFresh
<1>4. LatchesCount'
  <2>1. \A g \in Workers : Awaited(g)' = Secondaries(g)
    BY <1>2, SecondaryFacts DEF Awaited
  <2>2. QED
    BY <1>1, <2>1 DEF LatchesCount
<1>5. RecordedIsListed'
  <2>1. \A p \in Leaders : ~Cleared(p) /\ ~Cleared(p)'
    BY <1>1, <1>2, TeamFacts DEF Cleared, Submitted
  <2>2. QED
    BY <1>1, <1>2, <2>1, TeamFacts DEF DataInv, RecordedIsListed, VisibleGraphs, Graphs
<1>6. RecordedInOrder' /\ BuffersAreHeld' /\ FrameIsComplete'
  BY <1>1, <1>2, ExecutorAssumption
  DEF ExecutorAssumption, RecordedInOrder, BuffersAreHeld, FrameIsComplete
<1>7. SubmittedIsComplete'
  BY <1>1, AllTasks, TeamFacts DEF SubmittedIsComplete, Untouched
<1>8. QED
  BY <1>3, <1>4, <1>5, <1>6, <1>7 DEF DataInv

\* Without threads main submits by itself all of a task, or nothing.
LEMMA UnthreadedData ==
  ASSUME ControlInv, DataInv, SubmitUnthreaded
  PROVE  DataInv'
<1>1. PICK recording \in SUBSET Tasks :
        /\ latch' = [g \in Workers |->
                        latch[g] - Cardinality(Secondaries(g) \cap Recording(recording))]
        /\ buffer' = [w \in Workers |-> IF w \in Recording(recording) THEN frame ELSE buffer[w]]
        /\ \E done \in SUBSET recording, refused \in SUBSET recording :
              /\ submitted' = [t \in Tasks |-> IF t \in done THEN VisibleGraphs(t) \X {frame}
                                                          ELSE {}]
              /\ abandoned' = Tasks \ done
              /\ unsignalled' = unsignalled \cup refused
  BY DEF SubmitUnthreaded
<1>2. PICK done \in SUBSET recording :
        /\ submitted' = [t \in Tasks |-> IF t \in done THEN VisibleGraphs(t) \X {frame} ELSE {}]
        /\ abandoned' = Tasks \ done
        /\ \E refused \in SUBSET recording : unsignalled' = unsignalled \cup refused
  BY <1>1
<1>3. /\ mainPc = "publish" /\ mainPc' = "present"
      /\ \E transferred \in SUBSET Tasks :
            early' = [t \in Tasks |-> IF t \in transferred THEN frame ELSE NoFrame]
      /\ UNCHANGED <<frame, visible, pc, seen, recorded>>
  BY DEF SubmitUnthreaded, Goto, blockVars
<1>4. \A w \in Workers : seen[w] # frame /\ ~PastRecord(w)' /\ ~Listed(w) /\ ~Listed(w)'
  <2>1. \A w \in Workers : seen[w] # frame /\ ~Listed(w)
    BY <1>3, NobodyIsPast DEF Unpublished
  <2>2. QED
    BY <1>3, <2>1 DEF PastRecord, Listed
<1>5. frame \in 1 .. MaxFrame /\ MaxFrame \in Nat
  BY FrameAssumption DEF FrameAssumption, ControlInv, ControlTypes
<1>6. latch' \in [Workers -> 0 .. Cardinality(Workers)]
  <2>1. SUFFICES ASSUME NEW g \in Workers PROVE latch'[g] \in 0 .. Cardinality(Workers)
    BY <1>1
  <2> DEFINE some == Secondaries(g) \cap Recording(recording)
  <2>2. latch[g] = Cardinality(Secondaries(g))
    <3>1. \A w \in Workers : ~PastRecord(w)
      BY <1>4 DEF PastRecord
    <3>2. Awaited(g) = Secondaries(g)
      BY <3>1, SecondaryFacts DEF Awaited
    <3>3. QED
      BY <1>3, <3>2 DEF DataInv, LatchesCount
  <2>3. latch'[g] = Cardinality(Secondaries(g)) - Cardinality(some)
    BY <1>1, <2>2
  <2>4. some \in SUBSET Secondaries(g)
    OBVIOUS
  <2>5. QED
    BY <2>3, <2>4, AwaitedCount
<1>7. submitted' \in [Tasks -> SUBSET (Workers \X (1 .. MaxFrame))]
  <2>1. \A t \in Tasks : VisibleGraphs(t) \X {frame} \in SUBSET (Workers \X (1 .. MaxFrame))
    BY <1>5 DEF VisibleGraphs, Graphs
  <2>2. QED
    BY <1>2, <2>1
<1>8. early' \in [Tasks -> 0 .. MaxFrame] /\ buffer' \in [Workers -> 0 .. MaxFrame]
  <2>1. {NoFrame, frame} \subseteq 0 .. MaxFrame
    BY <1>5 DEF NoFrame
  <2>2. QED
    BY <1>1, <1>3, <2>1 DEF DataInv, DataTypes
<1>9. DataTypes'
  <2>1. unsignalled' \subseteq Tasks /\ abandoned' \subseteq Tasks
    BY <1>2 DEF DataInv, DataTypes
  <2>2. QED
    BY <1>3, <1>6, <1>7, <1>8, <2>1 DEF DataInv, DataTypes
<1>10. RecordedIsListed'
  <2>1. \A p \in Leaders : ~Cleared(p) /\ ~Cleared(p)'
    BY <1>3, <1>4, TeamFacts DEF Cleared, Submitted
  <2>2. QED
    BY <1>3, <1>4, <2>1, TeamFacts, ZenonT(40)
    DEF DataInv, RecordedIsListed, VisibleGraphs, Graphs
<1>11. SemaphoresAreFresh'
  <2>1. \A p \in Leaders : pc[p] \in Resting \cup {"insideSubmit"}
    BY <1>3, NothingIsLeft DEF InFrame
  <2>2. QED
    BY <1>3, <2>1 DEF SemaphoresAreFresh, Resting
<1>12. LatchesCount' /\ SubmittedIsComplete' /\ RecordedInOrder' /\ BuffersAreHeld'
  BY <1>3, <1>4, ExecutorAssumption
  DEF ExecutorAssumption, RecordedInOrder, BuffersAreHeld, SubmittedIsComplete, LatchesCount
<1>13. FrameIsComplete'
  <2>1. \A t \in Tasks : VisibleGraphs(t)' = VisibleGraphs(t)
    BY <1>3 DEF VisibleGraphs, Graphs
  <2>2. QED
    BY <1>2, <1>3, <2>1 DEF FrameIsComplete
<1>14. QED
  BY <1>9, <1>10, <1>11, <1>12, <1>13 DEF DataInv

\* Threads that are joined have recorded what they had before, new ones nothing.
LEMMA JoinData ==
  ASSUME ControlInv, DataInv, Join \/ StartThreads
  PROVE  DataInv'
<1>1. /\ ~InFrame /\ mainPc' \in Between \cup {"setup"}
      /\ mainPc \notin {"arrive", "inside", "present"}
      /\ UNCHANGED <<frame, visible, latch, buffer, early, unsignalled, submitted, abandoned>>
  BY DEF ControlInv, ControlTypes, InFrame, Goto, Between, Join, StartThreads, taskVars, history
<1>2. LatchesCount' /\ SubmittedIsComplete' /\ FrameIsComplete'
  BY <1>1, AllTasks, TeamFacts
  DEF Between, LatchesCount, SubmittedIsComplete, Untouched, FrameIsComplete
<1>3. CASE Join
  <2>1. /\ \A w \in Workers : pc[w] = "exited"
        /\ pc' = [w \in Workers |-> "none"]
        /\ UNCHANGED <<seen, recorded>>
    BY <1>3 DEF Join, taskVars
  <2>2. \A w \in Workers : (PastRecord(w)' <=> PastRecord(w)) /\ (Listed(w)' <=> Listed(w))
    BY <1>1, <2>1 DEF PastRecord, Listed
  <2>3. \A p \in Leaders : Cleared(p)' <=> Cleared(p)
    BY <1>1, <2>1, TeamFacts, SMTT(40) DEF Cleared, Submitted, Resting
  <2>4. RecordedIsListed'
    BY <1>1, <2>1, <2>2, <2>3, ListStays
  <2>5. RecordedInOrder' /\ BuffersAreHeld'
    BY <1>1, <2>2, SecondaryFacts, ExecutorAssumption
    DEF ExecutorAssumption, DataInv, RecordedInOrder, BuffersAreHeld
  <2>6. DataTypes' /\ SemaphoresAreFresh'
    BY <1>1, <2>1, TeamFacts DEF DataInv, DataTypes, SemaphoresAreFresh
  <2>7. QED
    BY <1>2, <2>4, <2>5, <2>6 DEF DataInv
<1>4. CASE StartThreads
  <2>1. /\ pc' = [w \in Workers |-> "wait"]
        /\ seen' = [w \in Workers |-> 0]
        /\ recorded' = [t \in Tasks |-> {}]
    BY <1>4 DEF StartThreads, NoFrame
  <2>2. \A w \in Workers : ~PastRecord(w)' /\ ~Listed(w)'
    BY <1>1, <2>1 DEF PastRecord, Listed, ControlInv, ControlTypes
  <2>3. RecordedIsListed'
    BY <2>1, <2>2, TeamFacts DEF RecordedIsListed, VisibleGraphs, Graphs
  <2>4. RecordedInOrder' /\ BuffersAreHeld'
    BY <2>2, ExecutorAssumption DEF ExecutorAssumption, RecordedInOrder, BuffersAreHeld
  <2>5. DataTypes' /\ SemaphoresAreFresh'
    BY <1>1, <2>1, TeamFacts DEF DataInv, DataTypes, SemaphoresAreFresh
  <2>6. QED
    BY <1>2, <2>3, <2>4, <2>5 DEF DataInv
<1>5. QED
  BY <1>3, <1>4

\* A step that changes neither how far the graphs have been recorded nor how far the
\* leaders have submitted.
LEMMA NobodyRecords ==
  ASSUME DataInv, UNCHANGED <<mainPc, frame, visible, latch, buffer, recorded, unsignalled>>,
         UNCHANGED <<submitted, abandoned>>,
         early' \in [Tasks -> 0 .. MaxFrame], SemaphoresAreFresh',
         \A g \in Workers : Role[g] # "transfer" => /\ PastRecord(g)' <=> PastRecord(g)
                                                    /\ Listed(g)' <=> Listed(g),
         \A p \in Leaders : (Submitted(p)' <=> Submitted(p)) /\ (Cleared(p)' <=> Cleared(p))
  PROVE  DataInv'
<1>1. DataTypes'
  BY DEF DataInv, DataTypes
<1>2. LatchesCount'
  <2>1. \A g \in Workers : Awaited(g)' = Awaited(g)
    BY SecondaryFacts DEF Awaited
  <2>2. QED
    BY <2>1 DEF DataInv, LatchesCount
<1>3. RecordedIsListed'
  <2>1. SUFFICES ASSUME NEW p \in Leaders
                 PROVE  recorded[TaskOf[p]] =
                          IF Cleared(p) THEN {}
                          ELSE {w \in VisibleGraphs(TaskOf[p])' : Listed(w)'} \X {frame}
    BY DEF RecordedIsListed
  <2>2. VisibleGraphs(TaskOf[p])' = VisibleGraphs(TaskOf[p])
    BY DEF VisibleGraphs, Graphs
  <2>3. \A w \in VisibleGraphs(TaskOf[p]) : Listed(w)' <=> Listed(w)
    BY DEF VisibleGraphs, Graphs
  <2>4. {w \in VisibleGraphs(TaskOf[p])' : Listed(w)'}
          = {w \in VisibleGraphs(TaskOf[p]) : Listed(w)}
    BY <2>2, <2>3
  <2>5. QED
    BY <2>4 DEF DataInv, RecordedIsListed
<1>4. RecordedInOrder'
  <2>1. SUFFICES ASSUME NEW g \in Workers, NEW w \in Secondaries(g),
                        WindowOf[g] \in visible', PastRecord(g)'
                 PROVE  PastRecord(w)'
    BY DEF RecordedInOrder
  <2>2. Role[g] # "transfer" /\ Role[w] # "transfer" /\ w \in Workers
    BY SecondaryFacts
  <2>3. QED
    BY <2>1, <2>2 DEF DataInv, RecordedInOrder
<1>5. BuffersAreHeld'
  BY SecondaryFacts, ExecutorAssumption
  DEF ExecutorAssumption, DataInv, BuffersAreHeld, Graphs
<1>6. SubmittedIsComplete' /\ FrameIsComplete'
  BY DEF DataInv, SubmittedIsComplete, SubmittedAll, Untouched, FrameIsComplete,
         VisibleGraphs, Graphs
<1>7. QED
  BY <1>1, <1>2, <1>3, <1>4, <1>5, <1>6 DEF DataInv

\* The steps in which a thread only passes a barrier or the frame block.
LEMMA PassingData ==
  ASSUME ControlInv, DataInv, NEW w \in Workers,
         \/ WaitForChange(w) \/ ArriveStart(w) \/ LeaveStart(w) \/ ArriveDone(w)
         \/ LeaveDone(w) \/ ArriveSubmit(w) \/ LeaveSubmit(w) \/ DropSubmit(w)
  PROVE  DataInv'
<1>1. /\ UNCHANGED <<mainPc, frame, visible, latch, buffer, recorded, unsignalled, early, block>>
      /\ UNCHANGED <<submitted, abandoned>>
  BY DEF mainVars, taskVars, history, blockVars, WaitForChange, ArriveStart, LeaveStart,
         ArriveDone, LeaveDone, ArriveSubmit, LeaveSubmit, DropSubmit
<1>2. pc \in [Workers -> WorkerPcs] /\ seen \in [Workers -> 0 .. MaxFrame]
      /\ pc[w] \in Resting \cup PcsOf(Role[w])
      /\ Role[w] \in Roles /\ (w \in Leaders <=> Role[w] \in {"run", "primary"})
  BY TeamFacts DEF ControlInv, ControlTypes, RolesFit
<1>3. \A v \in Workers \ {w} : pc'[v] = pc[v] /\ seen'[v] = seen[v]
  BY <1>2 DEF WaitForChange, ArriveStart, LeaveStart, ArriveDone, LeaveDone, ArriveSubmit,
              LeaveSubmit, DropSubmit, Step
<1>4. /\ Role[w] # "transfer" => /\ PastRecord(w)' <=> PastRecord(w)
                                 /\ Listed(w)' <=> Listed(w)
      /\ w \in Leaders => (Submitted(w)' <=> Submitted(w)) /\ (Cleared(w)' <=> Cleared(w))
      /\ w \in Leaders =>
            (pc'[w] \in {"arriveStart", "insideStart", "record", "add", "arriveDone", "insideDone",
                         "finish"} =>
                pc[w] \in {"arriveStart", "insideStart", "record", "add", "arriveDone", "insideDone",
                           "finish"})
  <2>1. CASE WaitForChange(w)
    <3>1. \/ UNCHANGED <<pc, seen>>
          \/ pc[w] = "wait" /\ pc'[w] = "exited" /\ seen'[w] = seen[w]
          \/ /\ pc[w] = "wait" /\ seen[w] # frame
             /\ pc'[w] \in {"start", "arriveStart"}
             /\ w \in Leaders => pc'[w] = "start"
      <4>1. CASE InFrame
        <5>1. block = frame /\ status
          BY <4>1 DEF ControlInv, ThreadsExist, FramesInOrder, InFrame
        <5>2. FirstStep[Role[w]] \in {"start", "arriveStart"}
              /\ (w \in Leaders => FirstStep[Role[w]] = "start")
          BY <1>2 DEF FirstStep, Roles
        <5>3. QED
          BY <1>2, <2>1, <5>1, <5>2 DEF WaitForChange
      <4>2. CASE ~InFrame
        <5>1. seen[w] = block
          BY <4>2 DEF ControlInv, Phases, Quiet
        <5>2. QED
          BY <1>2, <2>1, <5>1 DEF WaitForChange
      <4>3. QED
        BY <4>1, <4>2
    <3>2. QED
      BY <1>1, <3>1 DEF PastRecord, Listed, Submitted, Cleared, Resting
  <2>2. CASE ArriveStart(w) \/ LeaveStart(w)
    <3>1. /\ pc[w] \in {"arriveStart", "insideStart"} /\ seen'[w] = seen[w]
          /\ pc'[w] \in {"insideStart", Activity(w)}
      BY <1>2, <2>2 DEF ArriveStart, LeaveStart, Step
    <3>2. Role[w] # "transfer" => Activity(w) = "record"
      BY DEF Activity
    <3>3. QED
      BY <1>1, <1>2, <3>1, <3>2 DEF PastRecord, Listed, Submitted, Cleared, Resting
  <2>3. CASE ArriveDone(w) \/ LeaveDone(w)
    <3>1. /\ pc[w] \in {"arriveDone", "insideDone"} /\ seen'[w] = seen[w]
          /\ pc'[w] \in {"insideDone", AfterDone(w)}
      BY <1>2, <2>3 DEF ArriveDone, LeaveDone, Step
    <3>2. /\ AfterDone(w) \in {"finish", "wait"}
          /\ w \in Leaders => AfterDone(w) = "finish"
      BY <1>2, <3>1 DEF AfterDone, Resting, PcsOf, Roles
    <3>3. QED
      BY <1>1, <1>2, <3>1, <3>2 DEF PastRecord, Listed, Submitted, Cleared, Resting
  <2>4. CASE ArriveSubmit(w) \/ LeaveSubmit(w) \/ DropSubmit(w)
    <3>1. /\ pc[w] \in {"arriveSubmit", "insideSubmit", "drop"} /\ seen'[w] = seen[w]
          /\ pc'[w] \in {"insideSubmit", "wait"}
      BY <1>2, <2>4 DEF ArriveSubmit, LeaveSubmit, DropSubmit, Step
    <3>2. QED
      BY <1>1, <1>2, <3>1 DEF PastRecord, Listed, Submitted, Cleared, Resting
  <2>5. QED
    BY <2>1, <2>2, <2>3, <2>4
<1>5. \A v \in Workers \ {w} : /\ PastRecord(v)' <=> PastRecord(v)
                               /\ Listed(v)' <=> Listed(v)
                               /\ Submitted(v)' <=> Submitted(v)
                               /\ Cleared(v)' <=> Cleared(v)
  BY <1>1, <1>3 DEF PastRecord, Listed, Submitted, Cleared
<1>6. SemaphoresAreFresh'
  BY <1>1, <1>3, <1>4, TeamFacts DEF DataInv, SemaphoresAreFresh
<1>7. early' \in [Tasks -> 0 .. MaxFrame]
  BY <1>1 DEF DataInv, DataTypes
<1>8. QED
  BY <1>1, <1>4, <1>5, <1>6, <1>7, TeamFacts, NobodyRecords

\* The semaphores of a task are forgotten when it starts, and set to the frame that
\* is recorded.
LEMMA SemaphoreData ==
  ASSUME ControlInv, DataInv, NEW w \in Workers,
         \/ Start(w) /\ pc'[w] # "drop"
         \/ EarlyTransfer(w)
  PROVE  DataInv'
<1>1. /\ UNCHANGED <<mainPc, frame, visible, latch, buffer, recorded, unsignalled, seen>>
      /\ UNCHANGED <<submitted, abandoned>>
  <2>1. pc \in [Workers -> WorkerPcs]
    BY DEF ControlInv, ControlTypes
  <2>2. QED
    BY <2>1 DEF mainVars, history, Step, Start, EarlyTransfer
<1>2. pc \in [Workers -> WorkerPcs] /\ seen \in [Workers -> 0 .. MaxFrame]
      /\ pc[w] \in Resting \cup PcsOf(Role[w]) /\ TaskOf[w] \in Tasks
      /\ Role[w] \in Roles /\ (w \in Leaders <=> Role[w] \in {"run", "primary"})
      /\ early \in [Tasks -> 0 .. MaxFrame]
  BY TeamFacts DEF ControlInv, ControlTypes, RolesFit, DataInv, DataTypes
<1>3. /\ pc[w] \in {"start", "transfer"} /\ pc'[w] \in {"record", "arriveStart", "arriveDone"}
      /\ \A v \in Workers \ {w} : pc'[v] = pc[v]
      /\ Role[w] # "transfer" => Start(w)
      /\ Start(w) => pc[w] = "start" /\ pc'[w] \in {"record", "arriveStart"}
  BY <1>2 DEF Start, EarlyTransfer, Step, PcsOf, Roles, Resting
<1>4. seen[w] = frame
  BY <1>3, BusyInFrame DEF Busy
<1>5. Start(w) => w \in Leaders
  BY <1>2, <1>3 DEF PcsOf, Roles, Resting
<1>6. EarlyTransfer(w) => w \notin Leaders
  BY <1>2 DEF EarlyTransfer, Step, PcsOf, Roles, Resting
<1>7. /\ early' = [early EXCEPT ![TaskOf[w]] = early'[TaskOf[w]]]
      /\ Start(w) => early'[TaskOf[w]] = NoFrame
      /\ EarlyTransfer(w) => early'[TaskOf[w]] \in {early[TaskOf[w]], frame}
  BY <1>2, <1>4 DEF Start, EarlyTransfer
<1>8. early' \in [Tasks -> 0 .. MaxFrame]
  <2>1. {NoFrame, frame, early[TaskOf[w]]} \subseteq 0 .. MaxFrame
    BY <1>2, FrameAssumption DEF FrameAssumption, NoFrame, ControlInv, ControlTypes
  <2>2. QED
    BY <1>2, <1>7, <2>1
<1>9. SemaphoresAreFresh'
  <2>1. SUFFICES ASSUME NEW p \in Leaders,
                        pc'[p] \in {"arriveStart", "insideStart", "record", "add", "arriveDone",
                                    "insideDone", "finish"}
                 PROVE  early'[TaskOf[p]] \in {NoFrame, frame}
    BY <1>1 DEF SemaphoresAreFresh
  <2>2. CASE Start(w) /\ TaskOf[p] = TaskOf[w]
    BY <1>7, <2>2
  <2>3. CASE ~Start(w) \/ TaskOf[p] # TaskOf[w]
    <3>1. p # w /\ pc'[p] = pc[p] /\ TaskOf[p] \in Tasks
      BY <1>3, <1>5, <1>6, <2>1, <2>3, TeamFacts
    <3>2. early[TaskOf[p]] \in {NoFrame, frame}
      BY <2>1, <3>1 DEF DataInv, SemaphoresAreFresh
    <3>3. QED
      BY <1>2, <1>7, <2>3, <3>1, <3>2
  <2>4. QED
    BY <2>2, <2>3
<1>10. \A v \in Workers : Role[v] # "transfer" => /\ PastRecord(v)' <=> PastRecord(v)
                                                  /\ Listed(v)' <=> Listed(v)
  BY <1>1, <1>3 DEF PastRecord, Listed
<1>11. \A p \in Leaders : (Submitted(p)' <=> Submitted(p)) /\ (Cleared(p)' <=> Cleared(p))
  BY <1>1, <1>3, <1>5, <1>6, TeamFacts DEF Submitted, Cleared, Resting
<1>12. QED
  BY <1>1, <1>8, <1>9, <1>10, <1>11, NobodyRecords

\* A run thread that cannot start its task has recorded and submitted nothing.
LEMMA StartFailsData ==
  ASSUME ControlInv, DataInv, NEW w \in Workers, Start(w), pc'[w] = "drop"
  PROVE  DataInv'
<1> DEFINE t == TaskOf[w]
<1>1. pc \in [Workers -> WorkerPcs] /\ early \in [Tasks -> 0 .. MaxFrame] /\ t \in Tasks
  BY TeamFacts DEF ControlInv, ControlTypes, DataInv, DataTypes
<1>2. /\ UNCHANGED <<mainPc, frame, visible, latch, buffer, recorded, unsignalled, seen>>
      /\ Role[w] = "run" /\ pc[w] = "start" /\ pc' = [pc EXCEPT ![w] = "drop"]
      /\ submitted' = submitted /\ abandoned' = abandoned \cup {t}
      /\ early' = [early EXCEPT ![t] = NoFrame]
  BY <1>1 DEF mainVars, Step, Start
<1>3. seen[w] = frame /\ mainPc \in {"arrive", "inside"}
  BY <1>2, BusyInFrame DEF Busy
<1>4. Team(t) = {w} /\ w \in Leaders /\ \A p \in Leaders \ {w} : TaskOf[p] # t
  BY <1>2, TeamFacts
<1>5. w \notin DOMAIN Executor /\ Secondaries(w) = {}
  BY <1>4, ExecutorAssumption DEF ExecutorAssumption, Secondaries, Graphs, Team
<1>6. \A v \in Workers \ {w} : /\ pc'[v] = pc[v]
                               /\ PastRecord(v)' <=> PastRecord(v)
                               /\ Listed(v)' <=> Listed(v)
                               /\ Submitted(v)' <=> Submitted(v)
                               /\ Cleared(v)' <=> Cleared(v)
  BY <1>1, <1>2 DEF PastRecord, Listed, Submitted, Cleared
<1>7. ~Listed(w) /\ ~Cleared(w) /\ ~Submitted(w) /\ Submitted(w)' /\ Cleared(w)'
  BY <1>1, <1>2, <1>3 DEF PastRecord, Listed, Submitted, Cleared, Resting
<1>8. DataTypes'
  <2>1. NoFrame \in 0 .. MaxFrame
    BY FrameAssumption DEF FrameAssumption, NoFrame
  <2>2. QED
    BY <1>1, <1>2, <2>1 DEF DataInv, DataTypes
<1>9. LatchesCount'
  <2>1. \A g \in Workers : w \notin Secondaries(g)
    BY <1>5 DEF Secondaries
  <2>2. \A g \in Workers : Awaited(g)' = Awaited(g)
    BY <1>2, <1>6, <2>1, SecondaryFacts DEF Awaited
  <2>3. QED
    BY <1>2, <2>2 DEF DataInv, LatchesCount
<1>10. BuffersAreHeld' /\ RecordedInOrder'
  <2>1. BuffersAreHeld'
    BY <1>2, <1>5, <1>6, ExecutorAssumption DEF ExecutorAssumption, DataInv, BuffersAreHeld
  <2>2. SUFFICES ASSUME NEW g \in Workers \ {w}, NEW v \in Secondaries(g),
                        WindowOf[g] \in visible, PastRecord(g)
                 PROVE  PastRecord(v)'
    BY <1>2, <1>5, <1>6, <2>1 DEF RecordedInOrder
  <2>3. v \in Workers \ {w}
    BY <1>5, SecondaryFacts DEF Secondaries
  <2>4. QED
    BY <1>6, <2>2, <2>3 DEF DataInv, RecordedInOrder
<1>11. RecordedIsListed'
  <2>1. SUFFICES ASSUME NEW p \in Leaders
                 PROVE  recorded[TaskOf[p]] =
                          IF Cleared(p)' THEN {}
                          ELSE {g \in VisibleGraphs(TaskOf[p]) : Listed(g)'} \X {frame}
    BY <1>2 DEF RecordedIsListed, VisibleGraphs, Graphs
  <2>2. CASE p = w
    <3>1. {g \in VisibleGraphs(t) : Listed(g)} = {}
      BY <1>4, <1>7 DEF VisibleGraphs, Graphs, Team
    <3>2. QED
      BY <1>7, <2>2, <3>1 DEF DataInv, RecordedIsListed
  <2>3. CASE p # w
    <3>1. \A g \in VisibleGraphs(TaskOf[p]) : Listed(g)' <=> Listed(g)
      BY <1>4, <1>6, <2>3 DEF VisibleGraphs, Graphs
    <3>2. {g \in VisibleGraphs(TaskOf[p]) : Listed(g)'}
             = {g \in VisibleGraphs(TaskOf[p]) : Listed(g)}
      BY <3>1
    <3>3. Cleared(p)' <=> Cleared(p)
      BY <1>6, <2>3, TeamFacts
    <3>4. QED
      BY <3>2, <3>3 DEF DataInv, RecordedIsListed
  <2>4. QED
    BY <2>2, <2>3
<1>12. SubmittedIsComplete'
  <2>1. SUFFICES ASSUME NEW p \in Leaders
                 PROVE  IF Submitted(p)' THEN SubmittedAll(TaskOf[p])'
                                         ELSE Untouched(TaskOf[p])'
    BY <1>2, <1>3 DEF SubmittedIsComplete
  <2>2. IF Submitted(p) THEN SubmittedAll(TaskOf[p]) ELSE Untouched(TaskOf[p])
    BY <1>3 DEF DataInv, SubmittedIsComplete
  <2>3. CASE p = w
    BY <1>2, <1>7, <2>2, <2>3 DEF SubmittedAll, Untouched
  <2>4. CASE p # w
    BY <1>2, <1>4, <1>6, <2>2, <2>4, TeamFacts
    DEF SubmittedAll, Untouched, VisibleGraphs, Graphs
  <2>5. QED
    BY <2>3, <2>4
<1>13. SemaphoresAreFresh'
  <2>1. \A p \in Leaders \ {w} : pc'[p] = pc[p] /\ early'[TaskOf[p]] = early[TaskOf[p]]
    BY <1>1, <1>2, <1>4, <1>6, TeamFacts
  <2>2. QED
    BY <1>1, <1>2, <2>1 DEF DataInv, SemaphoresAreFresh
<1>14. FrameIsComplete'
  BY <1>2, <1>3 DEF FrameIsComplete
<1>15. QED
  BY <1>8, <1>9, <1>10, <1>11, <1>12, <1>13, <1>14 DEF DataInv

\* A leader submits what all the graphs of its task have recorded, in this frame, or
\* nothing.
LEMMA FinishData ==
  ASSUME ControlInv, DataInv, NEW w \in Workers, Finish(w)
  PROVE  DataInv'
<1> DEFINE t == TaskOf[w]
<1>1. /\ UNCHANGED <<mainPc, frame, visible, seen, latch, early>>
      /\ pc[w] = "finish" /\ pc' = [pc EXCEPT ![w] = IF Role[w] = "run" THEN "drop" ELSE "clear"]
      /\ UNCHANGED buffer /\ unsignalled' \in {unsignalled, unsignalled \cup {t}}
      /\ \/ submitted' = [submitted EXCEPT ![t] = recorded[t]] /\ UNCHANGED abandoned
         \/ submitted' = submitted /\ abandoned' = abandoned \cup {t}
      /\ recorded' = [recorded EXCEPT ![t] = IF Role[w] = "run" THEN {} ELSE @]
  BY DEF mainVars, Finish, Step
<1>2. /\ pc \in [Workers -> WorkerPcs] /\ t \in Tasks /\ w \in Leaders
      /\ recorded \in [Tasks -> SUBSET (Workers \X (1 .. MaxFrame))]
      /\ submitted \in [Tasks -> SUBSET (Workers \X (1 .. MaxFrame))]
      /\ \A p \in Leaders \ {w} : TaskOf[p] # t
  BY <1>1, TeamFacts DEF ControlInv, ControlTypes, RolesFit, DataInv, DataTypes, PcsOf, Roles,
     Resting
<1>3. seen[w] = frame /\ InFrame /\ mainPc \in {"arrive", "inside"}
  BY <1>1, BusyInFrame DEF Busy
<1>4. \A g \in VisibleGraphs(t) : Listed(g)
  <2>1. Done(w)
    BY <1>1, <1>3, TeamFacts
    DEF ControlInv, Phases, TaskInStep, BeforeStart, BeforeDone, Done
  <2>2. \A g \in Team(t) : Done(g)
    BY <1>3, <2>1, TeamIsTogether
  <2>3. QED
    BY <2>2 DEF VisibleGraphs, Graphs, Team, Done, PastRecord, Listed
<1>5. recorded[t] = VisibleGraphs(t) \X {frame}
  <2>1. ~Cleared(w)
    BY <1>1 DEF Cleared, Submitted, Resting
  <2>2. {g \in VisibleGraphs(t) : Listed(g)} = VisibleGraphs(t)
    BY <1>4
  <2>3. QED
    BY <1>2, <2>1, <2>2 DEF DataInv, RecordedIsListed
<1>6. /\ pc'[w] = (IF Role[w] = "run" THEN "drop" ELSE "clear")
      /\ \A v \in Workers \ {w} : pc'[v] = pc[v]
  BY <1>1, <1>2
<1>7. \A v \in Workers : (PastRecord(v)' <=> PastRecord(v)) /\ (Listed(v)' <=> Listed(v))
  BY <1>1, <1>6 DEF PastRecord, Listed
<1>8. \A p \in Leaders \ {w} : /\ Submitted(p)' <=> Submitted(p)
                               /\ Cleared(p)' <=> Cleared(p)
  BY <1>1, <1>6, TeamFacts DEF Cleared, Submitted
<1>9. (Cleared(w)' <=> Role[w] = "run") /\ Submitted(w)' /\ ~Submitted(w)
  BY <1>1, <1>3, <1>6 DEF Cleared, Submitted, Resting
<1>10. DataTypes'
  <2>1. recorded' \in [Tasks -> SUBSET (Workers \X (1 .. MaxFrame))]
    BY <1>1, <1>2
  <2>2. submitted' \in [Tasks -> SUBSET (Workers \X (1 .. MaxFrame))]
    BY <1>1, <1>2
  <2>3. unsignalled' \subseteq Tasks /\ abandoned' \subseteq Tasks
    BY <1>1, <1>2 DEF DataInv, DataTypes
  <2>4. QED
    BY <1>1, <2>1, <2>2, <2>3 DEF DataInv, DataTypes
<1>11. LatchesCount'
  <2>1. \A g \in Workers : Awaited(g)' = Awaited(g)
    BY <1>1, <1>7, SecondaryFacts DEF Awaited
  <2>2. QED
    BY <1>1, <2>1 DEF DataInv, LatchesCount
<1>12. RecordedIsListed'
  <2>1. SUFFICES ASSUME NEW p \in Leaders
                 PROVE  recorded'[TaskOf[p]] =
                          IF Cleared(p)' THEN {}
                          ELSE {g \in VisibleGraphs(TaskOf[p]) : Listed(g)} \X {frame}
    <3>1. ASSUME NEW p \in Leaders
          PROVE  {g \in VisibleGraphs(TaskOf[p])' : Listed(g)'}
                   = {g \in VisibleGraphs(TaskOf[p]) : Listed(g)}
      BY <1>1, <1>7 DEF VisibleGraphs, Graphs
    <3>2. QED
      BY <1>1, <3>1 DEF RecordedIsListed
  <2>2. CASE p = w
    <3>1. {g \in VisibleGraphs(t) : Listed(g)} = VisibleGraphs(t)
      BY <1>4
    <3>2. recorded'[t] = IF Role[w] = "run" THEN {} ELSE recorded[t]
      BY <1>1, <1>2
    <3>3. QED
      BY <1>5, <1>9, <2>2, <3>1, <3>2
  <2>3. CASE p # w
    <3>1. recorded'[TaskOf[p]] = recorded[TaskOf[p]]
      BY <1>1, <1>2, <2>3, TeamFacts
    <3>2. QED
      BY <1>8, <2>3, <3>1 DEF DataInv, RecordedIsListed
  <2>4. QED
    BY <2>2, <2>3
<1>13. SubmittedIsComplete'
  <2>1. SUFFICES ASSUME NEW p \in Leaders
                 PROVE  IF Submitted(p)' THEN SubmittedAll(TaskOf[p])'
                                         ELSE Untouched(TaskOf[p])'
    BY <1>1, <1>3 DEF SubmittedIsComplete
  <2>2. IF Submitted(p) THEN SubmittedAll(TaskOf[p]) ELSE Untouched(TaskOf[p])
    BY <1>3 DEF DataInv, SubmittedIsComplete
  <2>3. CASE p = w
    <3>1. submitted[t] = {} /\ t \notin abandoned
      BY <1>9, <2>2, <2>3 DEF Untouched
    <3>2. VisibleGraphs(t)' = VisibleGraphs(t)
      BY <1>1 DEF VisibleGraphs, Graphs
    <3>3. submitted'[t] = IF t \in abandoned' THEN {} ELSE VisibleGraphs(t) \X {frame}
      BY <1>1, <1>2, <1>5, <3>1
    <3>4. QED
      BY <1>1, <1>9, <2>3, <3>2, <3>3 DEF SubmittedAll
  <2>4. CASE p # w
    <3>1. /\ submitted'[TaskOf[p]] = submitted[TaskOf[p]]
          /\ TaskOf[p] \in abandoned' <=> TaskOf[p] \in abandoned
      BY <1>1, <1>2, <2>4, TeamFacts
    <3>2. VisibleGraphs(TaskOf[p])' = VisibleGraphs(TaskOf[p])
      BY <1>1 DEF VisibleGraphs, Graphs
    <3>3. QED
      BY <1>1, <1>8, <2>2, <2>4, <3>1, <3>2 DEF SubmittedAll, Untouched
  <2>5. QED
    BY <2>3, <2>4
<1>14. RecordedInOrder' /\ BuffersAreHeld'
  BY <1>1, <1>7, SecondaryFacts, ExecutorAssumption
  DEF ExecutorAssumption, DataInv, RecordedInOrder, BuffersAreHeld
<1>15. SemaphoresAreFresh' /\ FrameIsComplete'
  <2>1. SemaphoresAreFresh'
    BY <1>1, <1>2, <1>6, TeamFacts DEF DataInv, SemaphoresAreFresh
  <2>2. FrameIsComplete'
    BY <1>1, <1>3 DEF FrameIsComplete
  <2>3. QED
    BY <2>1, <2>2
<1>16. QED
  BY <1>10, <1>11, <1>12, <1>13, <1>14, <1>15 DEF DataInv

\* What has been submitted is taken out of the list.
LEMMA ClearData ==
  ASSUME ControlInv, DataInv, NEW w \in Workers, ClearRecorded(w)
  PROVE  DataInv'
<1> DEFINE t == TaskOf[w]
<1>1. /\ UNCHANGED <<mainPc, frame, visible, seen, latch, buffer, early, unsignalled>>
      /\ UNCHANGED <<submitted, abandoned>>
      /\ pc[w] = "clear" /\ pc' = [pc EXCEPT ![w] = "arriveSubmit"]
      /\ recorded' = [recorded EXCEPT ![t] = {}]
  BY DEF mainVars, history, ClearRecorded, Step
<1>2. /\ pc \in [Workers -> WorkerPcs] /\ t \in Tasks /\ w \in Leaders
      /\ recorded \in [Tasks -> SUBSET (Workers \X (1 .. MaxFrame))]
      /\ \A p \in Leaders \ {w} : TaskOf[p] # t
  BY <1>1, TeamFacts DEF ControlInv, ControlTypes, RolesFit, DataInv, DataTypes, PcsOf, Roles,
     Resting
<1>3. seen[w] = frame /\ mainPc \in {"arrive", "inside"}
  BY <1>1, BusyInFrame DEF Busy
<1>4. /\ pc'[w] = "arriveSubmit"
      /\ \A v \in Workers \ {w} : pc'[v] = pc[v]
  BY <1>1, <1>2
<1>5. \A v \in Workers : (PastRecord(v)' <=> PastRecord(v)) /\ (Listed(v)' <=> Listed(v))
  BY <1>1, <1>4 DEF PastRecord, Listed
<1>6. /\ \A p \in Leaders : Submitted(p)' <=> Submitted(p)
      /\ \A p \in Leaders \ {w} : Cleared(p)' <=> Cleared(p)
      /\ Cleared(w)'
  BY <1>1, <1>3, <1>4, TeamFacts DEF Cleared, Submitted
<1>7. DataTypes'
  BY <1>1, <1>2 DEF DataInv, DataTypes
<1>8. LatchesCount'
  <2>1. \A g \in Workers : Awaited(g)' = Awaited(g)
    BY <1>1, <1>5, SecondaryFacts DEF Awaited
  <2>2. QED
    BY <1>1, <2>1 DEF DataInv, LatchesCount
<1>9. RecordedIsListed'
  <2>1. SUFFICES ASSUME NEW p \in Leaders
                 PROVE  recorded'[TaskOf[p]] =
                          IF Cleared(p)' THEN {}
                          ELSE {g \in VisibleGraphs(TaskOf[p]) : Listed(g)} \X {frame}
    <3>1. ASSUME NEW p \in Leaders
          PROVE  {g \in VisibleGraphs(TaskOf[p])' : Listed(g)'}
                   = {g \in VisibleGraphs(TaskOf[p]) : Listed(g)}
      BY <1>1, <1>5 DEF VisibleGraphs, Graphs
    <3>2. QED
      BY <1>1, <3>1 DEF RecordedIsListed
  <2>2. CASE p = w
    BY <1>1, <1>2, <1>6, <2>2
  <2>3. CASE p # w
    <3>1. recorded'[TaskOf[p]] = recorded[TaskOf[p]]
      BY <1>1, <1>2, <2>3, TeamFacts
    <3>2. QED
      BY <1>6, <2>3, <3>1 DEF DataInv, RecordedIsListed
  <2>4. QED
    BY <2>2, <2>3
<1>10. SubmittedIsComplete'
  BY <1>1, <1>6
  DEF DataInv, SubmittedIsComplete, SubmittedAll, Untouched, VisibleGraphs, Graphs
<1>11. RecordedInOrder' /\ BuffersAreHeld'
  BY <1>1, <1>5, SecondaryFacts, ExecutorAssumption
  DEF ExecutorAssumption, DataInv, RecordedInOrder, BuffersAreHeld
<1>12. SemaphoresAreFresh'
  BY <1>1, <1>2, <1>4, TeamFacts DEF DataInv, SemaphoresAreFresh
<1>13. FrameIsComplete'
  BY <1>1, <1>3 DEF FrameIsComplete
<1>14. QED
  BY <1>7, <1>8, <1>9, <1>10, <1>11, <1>12, <1>13 DEF DataInv

\* A graph is recorded after its secondary graphs, and its command buffer held and
\* counted down by the graph that executes it.
LEMMA RecordData ==
  ASSUME ControlInv, DataInv, NEW w \in Workers, Record(w)
  PROVE  DataInv'
<1> DEFINE t == TaskOf[w]
           shown == WindowOf[w] \in visible
<1>1. /\ UNCHANGED <<mainPc, frame, visible, seen, recorded, early, unsignalled>>
      /\ UNCHANGED <<submitted, abandoned>>
      /\ pc[w] = "record"
      /\ pc' = [pc EXCEPT ![w] = IF shown THEN "add" ELSE AfterRecord(w)]
      /\ shown =>
           /\ latch[w] = 0
           /\ buffer' = [buffer EXCEPT ![w] = IF w \in DOMAIN Executor THEN seen[w] ELSE @]
           /\ latch' = [g \in Workers |-> IF w \in Secondaries(g) THEN latch[g] - 1
                                                                ELSE latch[g]]
      /\ ~shown => UNCHANGED <<buffer, latch>>
  BY DEF mainVars, history, Record, Complete, Step
<1>2. /\ pc \in [Workers -> WorkerPcs] /\ t \in Tasks /\ w \in Team(t)
      /\ recorded \in [Tasks -> SUBSET (Workers \X (1 .. MaxFrame))]
      /\ latch \in [Workers -> 0 .. Cardinality(Workers)]
      /\ buffer \in [Workers -> 0 .. MaxFrame]
      /\ frame \in 1 .. MaxFrame /\ Role[w] # "transfer" /\ w \in Graphs(t)
  <2>1. pc[w] \in Resting \cup PcsOf(Role[w])
    BY DEF ControlInv, RolesFit
  <2>2. Role[w] # "transfer"
    BY <1>1, <2>1 DEF PcsOf, Roles, Resting
  <2>3. QED
    BY <2>2, TeamFacts DEF ControlInv, ControlTypes, DataInv, DataTypes, Graphs
<1>3. seen[w] = frame /\ InFrame /\ mainPc \in {"arrive", "inside"}
  BY <1>1, BusyInFrame DEF Busy
<1>4. /\ pc'[w] \in {"add", "arriveDone", "finish"} /\ (shown => pc'[w] = "add")
      /\ \A v \in Workers \ {w} : pc'[v] = pc[v]
  BY <1>1, <1>2 DEF AfterRecord
<1>5. /\ ~PastRecord(w) /\ PastRecord(w)' /\ ~Listed(w) /\ (shown => ~Listed(w)')
      /\ \A v \in Workers \ {w} : (PastRecord(v)' <=> PastRecord(v)) /\ (Listed(v)' <=> Listed(v))
  BY <1>1, <1>3, <1>4 DEF PastRecord, Listed
<1>6. \A p \in Leaders : (Submitted(p)' <=> Submitted(p)) /\ (Cleared(p)' <=> Cleared(p))
  BY <1>1, <1>4, TeamFacts DEF Cleared, Submitted, Resting
<1>7. \A g \in Workers :
         Awaited(g)' = IF shown THEN Awaited(g) \ {w} ELSE Awaited(g)
  <2>1. SUFFICES ASSUME NEW g \in Workers
                 PROVE  Awaited(g)' = IF shown THEN Awaited(g) \ {w} ELSE Awaited(g)
    OBVIOUS
  <2>2. \A v \in Secondaries(g) \ {w} :
           (WindowOf[v] \in visible /\ PastRecord(v))'
              <=> (WindowOf[v] \in visible /\ PastRecord(v))
    BY <1>1, <1>5, SecondaryFacts
  <2>3. (WindowOf[w] \in visible /\ PastRecord(w))' <=> shown
    BY <1>1, <1>5
  <2>4. QED
    BY <2>2, <2>3, <1>5 DEF Awaited
<1>8. \A g \in Workers : w \in Secondaries(g) => w \in Awaited(g)
  BY <1>5 DEF Awaited
<1>9. \A g \in Workers : /\ latch[g] = Cardinality(Awaited(g))
                         /\ latch'[g] = Cardinality(Awaited(g)')
                         /\ latch'[g] \in 0 .. Cardinality(Workers)
  <2>1. SUFFICES ASSUME NEW g \in Workers
                 PROVE  /\ latch[g] = Cardinality(Awaited(g))
                        /\ latch'[g] = Cardinality(Awaited(g)')
                        /\ latch'[g] \in 0 .. Cardinality(Workers)
    OBVIOUS
  <2>2. latch[g] = Cardinality(Awaited(g))
    BY <1>3 DEF DataInv, LatchesCount
  <2>3. Awaited(g) \in SUBSET Secondaries(g) /\ Awaited(g) \ {w} \in SUBSET Secondaries(g)
    BY DEF Awaited
  <2>4. CASE shown /\ w \in Secondaries(g)
    <3>1. latch'[g] = latch[g] - 1 /\ Awaited(g)' = Awaited(g) \ {w}
      BY <1>1, <1>7, <2>4
    <3>2. w \in Awaited(g)
      BY <1>8, <2>4
    <3>3. Cardinality(Awaited(g) \ {w}) = Cardinality(Awaited(g)) - 1
      BY <2>3, <3>2, AwaitedCount
    <3>4. Cardinality(Awaited(g) \ {w}) \in 0 .. Cardinality(Workers)
      BY <2>3, AwaitedCount
    <3>5. QED
      BY <2>2, <3>1, <3>3, <3>4
  <2>5. CASE ~(shown /\ w \in Secondaries(g))
    <3>1. latch'[g] = latch[g]
      BY <1>1, <2>5
    <3>2. Awaited(g)' = Awaited(g)
      BY <1>7, <2>3, <2>5
    <3>3. QED
      BY <1>2, <2>2, <3>1, <3>2
  <2>6. QED
    BY <2>4, <2>5
<1>10. LatchesCount'
  BY <1>9 DEF LatchesCount
<1>11. DataTypes'
  <2>1. latch' \in [Workers -> 0 .. Cardinality(Workers)]
    BY <1>1, <1>2, <1>9
  <2>2. buffer' \in [Workers -> 0 .. MaxFrame]
    BY <1>1, <1>2, <1>3
  <2>3. QED
    BY <1>1, <2>1, <2>2 DEF DataInv, DataTypes
<1>12. RecordedIsListed'
  <2>1. SUFFICES ASSUME NEW p \in Leaders
                 PROVE  recorded[TaskOf[p]] =
                          IF Cleared(p) THEN {}
                          ELSE {g \in VisibleGraphs(TaskOf[p]) : Listed(g)'} \X {frame}
    BY <1>1, <1>6, TeamFacts DEF RecordedIsListed, VisibleGraphs, Graphs
  <2>2. \A g \in VisibleGraphs(TaskOf[p]) : Listed(g)' <=> Listed(g)
    BY <1>5 DEF VisibleGraphs, Graphs
  <2>3. {g \in VisibleGraphs(TaskOf[p]) : Listed(g)'}
          = {g \in VisibleGraphs(TaskOf[p]) : Listed(g)}
    BY <2>2
  <2>4. QED
    BY <2>3 DEF DataInv, RecordedIsListed
<1>13. RecordedInOrder'
  <2>1. SUFFICES ASSUME NEW g \in Workers, NEW v \in Secondaries(g),
                        WindowOf[g] \in visible, PastRecord(g)'
                 PROVE  PastRecord(v)'
    BY <1>1 DEF RecordedInOrder
  <2>2. v \in Workers
    BY SecondaryFacts
  <2>3. CASE g = w
    <3>1. Awaited(w) = {}
      <4>1. Cardinality(Awaited(w)) = 0
        BY <1>1, <1>9, <2>1, <2>3
      <4>2. Awaited(w) \in SUBSET Secondaries(w)
        BY DEF Awaited
      <4>3. QED
        BY <4>1, <4>2, AwaitedCount
    <3>2. PastRecord(v)
      BY <2>3, <3>1 DEF Awaited
    <3>3. QED
      BY <1>5, <2>2, <3>2
  <2>4. CASE g # w
    BY <1>5, <2>1, <2>2, <2>4 DEF DataInv, RecordedInOrder
  <2>5. QED
    BY <2>3, <2>4
<1>14. SubmittedIsComplete'
  BY <1>1, <1>6
  DEF DataInv, SubmittedIsComplete, SubmittedAll, Untouched, VisibleGraphs, Graphs
<1>15. SemaphoresAreFresh'
  <2>1. \A p \in Leaders :
           pc'[p] = pc[p] \/ (pc[p] = "record" /\ pc'[p] \in {"add", "arriveDone", "finish"})
    BY <1>1, <1>4, TeamFacts
  <2>2. QED
    BY <1>1, <2>1 DEF DataInv, SemaphoresAreFresh
<1>16. FrameIsComplete'
  BY <1>1, <1>3 DEF FrameIsComplete
<1>17. BuffersAreHeld'
  <2>1. SUFFICES ASSUME NEW v \in DOMAIN Executor, WindowOf[v] \in visible, PastRecord(v)'
                 PROVE  buffer'[v] = frame
    BY <1>1 DEF BuffersAreHeld
  <2>2. CASE v = w
    BY <1>1, <1>2, <1>3, <2>1, <2>2
  <2>3. CASE v # w
    <3>1. v \in Workers /\ PastRecord(v)
      BY <1>5, <2>1, <2>3, ExecutorAssumption DEF ExecutorAssumption
    <3>2. buffer'[v] = buffer[v]
      BY <1>1, <1>2, <2>3, <3>1
    <3>3. QED
      BY <2>1, <3>1, <3>2 DEF DataInv, BuffersAreHeld
  <2>4. QED
    BY <2>2, <2>3
<1>18. QED
  BY <1>10, <1>11, <1>12, <1>13, <1>14, <1>15, <1>16, <1>17 DEF DataInv

\* The last call of the recording puts a visible graph into the list of its task.
LEMMA AddData ==
  ASSUME ControlInv, DataInv, AddIsVisible, NEW w \in Workers, AddRecorded(w)
  PROVE  DataInv'
<1> DEFINE t == TaskOf[w]
<1>1. /\ UNCHANGED <<mainPc, frame, visible, seen, latch, buffer, early, unsignalled>>
      /\ UNCHANGED <<submitted, abandoned>>
      /\ pc[w] = "add" /\ pc' = [pc EXCEPT ![w] = AfterRecord(w)]
      /\ recorded' = [recorded EXCEPT ![t] = @ \cup {<<w, seen[w]>>}]
  BY DEF mainVars, history, AddRecorded, Step
<1>2. /\ pc \in [Workers -> WorkerPcs] /\ t \in Tasks /\ w \in Team(t)
      /\ recorded \in [Tasks -> SUBSET (Workers \X (1 .. MaxFrame))]
      /\ frame \in 1 .. MaxFrame /\ w \in VisibleGraphs(t)
  <2>1. pc[w] \in Resting \cup PcsOf(Role[w])
    BY DEF ControlInv, RolesFit
  <2>2. Role[w] # "transfer"
    BY <1>1, <2>1 DEF PcsOf, Roles, Resting
  <2>3. QED
    BY <1>1, <2>2, TeamFacts
    DEF ControlInv, ControlTypes, DataInv, DataTypes, Graphs, VisibleGraphs, AddIsVisible
<1>3. /\ seen[w] = frame /\ InFrame /\ mainPc \in {"arrive", "inside"}
      /\ BeforeDone(w)
  <2>1. seen[w] = frame /\ InFrame /\ mainPc \in {"arrive", "inside"}
    BY <1>1, BusyInFrame DEF Busy
  <2>2. BeforeDone(w)
    BY <1>1, <2>1, TeamFacts
    DEF ControlInv, Phases, TaskInStep, BeforeStart, BeforeDone, Done
  <2>3. QED
    BY <2>1, <2>2
<1>4. /\ pc'[w] \in {"arriveDone", "finish"}
      /\ \A v \in Workers \ {w} : pc'[v] = pc[v]
  BY <1>1, <1>2 DEF AfterRecord
<1>5. /\ \A v \in Workers : PastRecord(v)' <=> PastRecord(v)
      /\ \A v \in Workers \ {w} : Listed(v)' <=> Listed(v)
      /\ Listed(w)'
  BY <1>1, <1>3, <1>4 DEF PastRecord, Listed
<1>6. \A p \in Leaders : (Submitted(p)' <=> Submitted(p)) /\ (Cleared(p)' <=> Cleared(p))
  BY <1>1, <1>4, TeamFacts DEF Cleared, Submitted, Resting
<1>7. DataTypes'
  BY <1>1, <1>2, <1>3 DEF DataInv, DataTypes
<1>8. LatchesCount'
  <2>1. \A g \in Workers : Awaited(g)' = Awaited(g)
    BY <1>1, <1>5, SecondaryFacts DEF Awaited
  <2>2. QED
    BY <1>1, <2>1 DEF DataInv, LatchesCount
<1>9. RecordedIsListed'
  <2>1. SUFFICES ASSUME NEW p \in Leaders
                 PROVE  recorded'[TaskOf[p]] =
                          IF Cleared(p) THEN {}
                          ELSE {g \in VisibleGraphs(TaskOf[p]) : Listed(g)'} \X {frame}
    <3>1. ASSUME NEW p \in Leaders
          PROVE  VisibleGraphs(TaskOf[p])' = VisibleGraphs(TaskOf[p])
      BY <1>1 DEF VisibleGraphs, Graphs
    <3>2. QED
      BY <1>1, <1>6, <3>1 DEF RecordedIsListed
  <2> DEFINE past == {g \in VisibleGraphs(TaskOf[p]) : Listed(g)}
             past_1 == {g \in VisibleGraphs(TaskOf[p]) : Listed(g)'}
  <2>2. recorded[TaskOf[p]] = IF Cleared(p) THEN {} ELSE past \X {frame}
    BY DEF DataInv, RecordedIsListed
  <2>3. VisibleGraphs(TaskOf[p]) \subseteq Workers
    BY DEF VisibleGraphs, Graphs
  <2>4. CASE TaskOf[p] = t
    <3>1. BeforeDone(p)
      <4>1. p \in Team(t)
        BY <2>4, TeamFacts
      <4>2. QED
        BY <1>3, <4>1, TeamIsTogether
    <3>2. ~Cleared(p)
      BY <3>1 DEF BeforeDone, Cleared, Submitted, Resting
    <3>3. past_1 = past \cup {w}
      BY <1>2, <1>5, <2>3, <2>4
    <3>4. recorded'[t] = recorded[t] \cup {<<w, frame>>}
      BY <1>1, <1>2, <1>3, <2>4
    <3>5. (past \X {frame}) \cup {<<w, frame>>} = (past \cup {w}) \X {frame}
      OBVIOUS
    <3>6. QED
      BY <2>2, <2>4, <3>2, <3>3, <3>4, <3>5
  <2>5. CASE TaskOf[p] # t
    <3>1. recorded'[TaskOf[p]] = recorded[TaskOf[p]]
      BY <1>1, <1>2, <2>5, TeamFacts
    <3>2. w \notin VisibleGraphs(TaskOf[p])
      BY <2>5 DEF VisibleGraphs, Graphs
    <3>3. past_1 = past
      BY <1>5, <2>3, <3>2
    <3>4. QED
      BY <2>2, <3>1, <3>3
  <2>6. QED
    BY <2>4, <2>5
<1>10. RecordedInOrder' /\ BuffersAreHeld'
  BY <1>1, <1>5, SecondaryFacts, ExecutorAssumption
  DEF ExecutorAssumption, DataInv, RecordedInOrder, BuffersAreHeld
<1>11. SubmittedIsComplete'
  BY <1>1, <1>6
  DEF DataInv, SubmittedIsComplete, SubmittedAll, Untouched, VisibleGraphs, Graphs
<1>12. SemaphoresAreFresh'
  <2>1. SUFFICES ASSUME NEW p \in Leaders, p = w \/ pc'[p] = pc[p],
                        pc'[p] \in {"arriveStart", "insideStart", "record", "add", "arriveDone",
                                    "insideDone", "finish"}
                 PROVE  early[TaskOf[p]] \in {NoFrame, frame}
    BY <1>1, <1>4, TeamFacts DEF SemaphoresAreFresh
  <2>2. QED
    BY <1>1, <1>4, <2>1 DEF DataInv, SemaphoresAreFresh
<1>13. FrameIsComplete'
  BY <1>1, <1>3 DEF FrameIsComplete
<1>14. QED
  BY <1>7, <1>8, <1>9, <1>10, <1>11, <1>12, <1>13 DEF DataInv

\* Only the graphs of visible windows get as far as the list.
LEMMA VisibleStep == ControlInv /\ AddIsVisible /\ [Next]_vars => AddIsVisible'
<1>1. SUFFICES ASSUME ControlInv, AddIsVisible, [Next]_vars PROVE AddIsVisible'
  OBVIOUS
<1>2. pc \in [Workers -> WorkerPcs] /\ \A w \in Workers : Role[w] \in Roles
  BY <1>1, TeamFacts DEF ControlInv, ControlTypes
<1>3. CASE AdvanceToNextFrame
  <2>1. Quiet /\ pc' = pc
    BY <1>1, <1>3 DEF AdvanceToNextFrame, Goto, ControlInv, Phases, InFrame
  <2>2. QED
    BY <2>1 DEF AddIsVisible, Quiet, Resting
<1>4. CASE \/ MainStep \/ SetupThreading \/ StopThreading \/ Close \/ UNCHANGED vars
  <2>1. /\ visible' = visible
        /\ \/ pc' = pc
           \/ pc' = [w \in Workers |-> "none"]
           \/ pc' = [w \in Workers |-> "wait"]
    BY <1>4 DEF MainStep, RecordAndSubmit, ResetExecuteCommands, Publish, SubmitUnthreaded,
       MainArrives, MainReleased, Present, ClearStatus, Wake, Join, StartThreads,
       SetupThreading, StopThreading, Close, vars, mainVars
  <2>2. QED
    BY <1>1, <2>1 DEF AddIsVisible
<1>5. ASSUME NEW w \in Workers, WorkerStep(w) \/ SpuriousWakeup(w)
      PROVE  AddIsVisible'
  <2>1. visible' = visible /\ \A v \in Workers \ {w} : pc'[v] = pc[v]
    BY <1>2, <1>5 DEF mainVars, Step, WorkerStep, SpuriousWakeup, WaitForChange, Start,
       ArriveStart, LeaveStart, Record, AddRecorded, EarlyTransfer, ArriveDone, LeaveDone,
       Finish, ClearRecorded, ArriveSubmit, LeaveSubmit, DropSubmit
  <2>2. pc'[w] = "add" => pc[w] = "add" \/ Record(w)
    BY <1>2, <1>5 DEF Step, WorkerStep, SpuriousWakeup, WaitForChange, Start,
       ArriveStart, LeaveStart, AddRecorded, EarlyTransfer, ArriveDone, LeaveDone,
       Finish, ClearRecorded, ArriveSubmit, LeaveSubmit, DropSubmit,
       FirstStep, Roles, Activity, AfterRecord, AfterDone
  <2>3. Record(w) /\ pc'[w] = "add" => WindowOf[w] \in visible
    BY <1>2 DEF Record, Step, AfterRecord
  <2>4. QED
    BY <1>1, <2>1, <2>2, <2>3 DEF AddIsVisible
<1>6. QED
  BY <1>1, <1>3, <1>4, <1>5 DEF Next, ApplicationStep, Terminated

\* Both layers of the invariant are kept by every step.
LEMMA DataStep == ControlInv /\ AddIsVisible /\ DataInv /\ [Next]_vars => DataInv'
<1>1. SUFFICES ASSUME ControlInv, AddIsVisible, DataInv, [Next]_vars PROVE DataInv'
  OBVIOUS
<1>2. ControlInv'
  BY <1>1, ControlStep
<1>3. CASE MainStep
  BY <1>1, <1>2, <1>3, MainMovesData, PresentData, ResetData, UnthreadedData,
     JoinData DEF MainStep
<1>4. CASE ApplicationStep
  BY <1>1, <1>2, <1>4, MainMovesData, AdvanceData DEF ApplicationStep
<1>5. CASE Terminated \/ UNCHANGED vars
  BY <1>1, <1>2, <1>5, MainMovesData DEF Terminated
<1>6. ASSUME NEW w \in Workers, WorkerStep(w)
      PROVE  DataInv'
  BY <1>1, <1>6, PassingData, SemaphoreData, StartFailsData, RecordData, AddData, FinishData,
     ClearData DEF WorkerStep
<1>7. ASSUME NEW w \in Workers, SpuriousWakeup(w)
      PROVE  DataInv'
  <2>1. /\ UNCHANGED <<mainPc, frame, visible, latch, buffer, recorded, unsignalled>>
        /\ UNCHANGED <<submitted, abandoned, early, pc, seen>>
    BY <1>7 DEF SpuriousWakeup, mainVars, taskVars, history
  <2>2. early' \in [Tasks -> 0 .. MaxFrame] /\ SemaphoresAreFresh'
    BY <1>1, <2>1 DEF DataInv, DataTypes, SemaphoresAreFresh
  <2>3. \A v \in Workers : (PastRecord(v)' <=> PastRecord(v)) /\ (Listed(v)' <=> Listed(v))
    BY <2>1 DEF PastRecord, Listed
  <2>4. \A p \in Leaders : (Submitted(p)' <=> Submitted(p)) /\ (Cleared(p)' <=> Cleared(p))
    BY <2>1 DEF Cleared, Submitted
  <2>5. QED
    BY <1>1, <2>1, <2>2, <2>3, <2>4, NobodyRecords
<1>8. QED
  BY <1>1, <1>3, <1>4, <1>5, <1>6, <1>7 DEF Next

\* Latches, recorded command buffers, submissions and semaphores are always what the
\* progress of the threads says.
THEOREM DataIsInvariant == Spec => [](ControlInv /\ AddIsVisible /\ DataInv)
<1>1. Init => ControlInv /\ AddIsVisible /\ DataInv
  <2>1. Init => AddIsVisible
    BY DEF Init, AddIsVisible
  <2>2. QED
    BY <2>1, ControlInit, DataInit
<1>2. (ControlInv /\ AddIsVisible /\ DataInv) /\ [Next]_vars
         => (ControlInv /\ AddIsVisible /\ DataInv)'
  BY ControlStep, VisibleStep, DataStep
<1>3. QED
  BY <1>1, <1>2, PTL DEF Spec

\* The type invariant of the frame loop and its threads: in particular no latch is
\* ever counted below zero.
THEOREM ThreadTypesOK == Spec => []TypeOK
<1>1. ControlInv /\ AddIsVisible /\ DataInv => TypeOK
  <2>1. SUFFICES ASSUME ControlInv, DataInv PROVE TypeOK
    OBVIOUS
  <2>2. {closed, restart, threading, status} \subseteq BOOLEAN
    <3>1. closed \in BOOLEAN /\ restart \in BOOLEAN /\ threading \in BOOLEAN /\ status \in BOOLEAN
      BY <2>1 DEF ControlInv, ControlTypes
    <3>2. QED
      BY <3>1, Zenon
  <2>3. QED
    BY <2>1, <2>2 DEF ControlInv, ControlTypes, DataInv, DataTypes, TypeOK
<1>2. QED
  BY <1>1, DataIsInvariant, PTL

\* The invariant FrameIsComplete: when recordAndSubmit() returns, a task has submitted
\* each of its visible graphs, recorded for this frame, and nothing else, or -- after an
\* error that it returned with -- nothing at all.
THEOREM FramesAreComplete == Spec => []FrameIsComplete
<1>1. ControlInv /\ AddIsVisible /\ DataInv => FrameIsComplete
  BY DEF DataInv
<1>2. QED
  BY <1>1, DataIsInvariant, PTL

\* The invariant SecondariesFirst: a graph that has passed its latch executes the
\* command buffers that all its secondary graphs have completed in this frame.
THEOREM SecondariesComeFirst == Spec => []SecondariesFirst
<1>1. ControlInv /\ AddIsVisible /\ DataInv => SecondariesFirst
  <2>1. SUFFICES ASSUME ControlInv, AddIsVisible, DataInv, NEW g \in Workers,
                        pc[g] = "add" \/ <<g, frame>> \in recorded[TaskOf[g]],
                        NEW w \in Secondaries(g)
                 PROVE  buffer[w] = frame
    BY DEF SecondariesFirst
  <2>2. WindowOf[g] \in visible /\ PastRecord(g)
    <3>1. CASE pc[g] = "add"
      <4>1. seen[g] = frame
        BY <2>1, <3>1, BusyInFrame DEF Busy
      <4>2. QED
        BY <2>1, <3>1, <4>1 DEF AddIsVisible, PastRecord
    <3>2. CASE <<g, frame>> \in recorded[TaskOf[g]]
      <4>1. PICK p \in Leaders : TaskOf[p] = TaskOf[g]
        BY TeamFacts
      <4>2. recorded[TaskOf[g]] = {v \in VisibleGraphs(TaskOf[g]) : Listed(v)} \X {frame}
        BY <2>1, <3>2, <4>1 DEF DataInv, RecordedIsListed
      <4>3. g \in VisibleGraphs(TaskOf[g]) /\ Listed(g)
        BY <3>2, <4>2
      <4>4. QED
        BY <4>3 DEF VisibleGraphs, Listed
    <3>3. QED
      BY <2>1, <3>1, <3>2
  <2>3. PastRecord(w) /\ w \in DOMAIN Executor
    BY <2>1, <2>2 DEF DataInv, RecordedInOrder, Secondaries
  <2>4. WindowOf[w] \in visible
    BY <2>1, <2>2, SecondaryFacts
  <2>5. QED
    BY <2>1, <2>3, <2>4 DEF DataInv, BuffersAreHeld
<1>2. QED
  BY <1>1, DataIsInvariant, PTL

\* The invariant SemaphoreOfThisFrame: a submission waits for no early transfer but
\* that of its own frame.
THEOREM SemaphoresAreOfThisFrame == Spec => []SemaphoreOfThisFrame
<1>1. ControlInv /\ AddIsVisible /\ DataInv => SemaphoreOfThisFrame
  BY DEF DataInv, SemaphoresAreFresh, SemaphoreOfThisFrame
<1>2. QED
  BY <1>1, DataIsInvariant, PTL

================================================================================

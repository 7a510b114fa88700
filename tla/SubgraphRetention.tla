---------------------------- MODULE SubgraphRetention ----------------------------
(***************************************************************************)
(* The life of a paged subgraph, from its merge into the scene graph to    *)
(* its deletion: the frame loop and the GPU as FramesInFlight describes    *)
(* them (module RecordAndSubmitTask implements it), composed with the      *)
(* DeleteQueue of the DatabasePager.  A frame that is in flight executes   *)
(* commands that refer to the buffers and images of the subgraphs it was   *)
(* recorded from, so these must not be deleted before it is finished.      *)
(*                                                                         *)
(* What is followed is the reference that one load of a PagedLOD makes     *)
(* (see DeleteQueue), whether or not other PagedLODs share the subgraph.   *)
(***************************************************************************)
EXTENDS DeleteQueue

CONSTANTS
    NumBuffers,    \* fences of each RecordAndSubmitTask
    MaxFrame       \* bound on the number of frames

\* Viewer creates its tasks with numBuffers = 3, DeleteQueue retains for 3 frames.
ASSUME RetentionAssumption ==
    /\ NumBuffers \in Nat \ {0} /\ MaxFrame \in Nat
    /\ NumBuffers <= RetainForFrameCount

VARIABLES
    frame, stage, inFlight,   \* see FramesInFlight
    pagerFrame,               \* DatabasePager::frameCount
    attached,                 \* references that PagedLODs of the scene graph hold
    uses                      \* history: frames recorded by way of each reference

Frames == INSTANCE FramesInFlight

sceneVars == <<pagerFrame, attached, uses>>
systemVars == <<deleteVars, frame, stage, inFlight, sceneVars>>

SystemInit ==
    /\ Init
    /\ Frames!Init
    /\ pagerFrame = 0 /\ attached = {}
    /\ uses = [o \in Objects |-> {}]

\* Viewer::advanceToNextFrame
BeginFrame ==
    /\ Frames!BeginFrame
    /\ UNCHANGED <<deleteVars, sceneVars>>

\* DatabasePager::updateSceneGraph begins with the new frame count.
UpdatePager ==
    /\ stage = "update" /\ pagerFrame # frame
    /\ pagerFrame' = frame
    /\ Advance
    /\ UNCHANGED <<frame, stage, inFlight, attached, uses>>

InUpdate == stage = "update" /\ pagerFrame = frame

\* A load has made the reference o: it has been nowhere before, its subgraph may
\* have been, by way of other references.
MergeSubgraph(o) ==
    /\ InUpdate
    /\ o \notin Known \cup attached
    /\ attached' = attached \cup {o}
    /\ UNCHANGED <<deleteVars, frame, stage, inFlight, pagerFrame, uses>>

\* PagedLOD::pending refers to the merged subgraph too: it is what is handed over,
\* and the child is reset, which count as one reference here.
ExpireSubgraph(o) ==
    /\ InUpdate
    /\ o \in attached
    /\ attached' = attached \ {o}
    /\ AddPrune(o)
    /\ UNCHANGED <<frame, stage, inFlight, pagerFrame, uses>>

\* RecordAndSubmitTask::start
StartRecording ==
    /\ InUpdate
    /\ Frames!StartRecording
    /\ UNCHANGED <<deleteVars, sceneVars>>

\* The recording traverses some of the subgraphs.
RecordAndSubmit ==
    /\ frame \notin inFlight
    /\ Frames!Submit
    /\ \E visible \in SUBSET attached :
          uses' = [o \in Objects |-> uses[o] \cup (IF o \in visible THEN {frame} ELSE {})]
    /\ UNCHANGED <<deleteVars, pagerFrame, attached>>

CompleteFrame(f) ==
    /\ Frames!Complete(f)
    /\ UNCHANGED <<deleteVars, sceneVars>>

DeleteStep ==
    /\ DeleteThread
    /\ UNCHANGED <<frame, stage, inFlight, sceneVars>>

\* The pager is destroyed: its delete thread ends.
DestroyPager ==
    /\ Stop
    /\ UNCHANGED <<frame, stage, inFlight, sceneVars>>

SystemNext ==
    \/ DestroyPager
    \/ BeginFrame \/ UpdatePager \/ StartRecording \/ RecordAndSubmit \/ DeleteStep
    \/ \E o \in Objects : MergeSubgraph(o) \/ ExpireSubgraph(o)
    \/ \E f \in inFlight : CompleteFrame(f)

SystemSpec == SystemInit /\ [][SystemNext]_systemVars
--------------------------------------------------------------------------------
SystemTypeOK ==
    /\ pagerFrame \in 0 .. MaxFrame
    /\ attached \subseteq Objects
    /\ uses \in [Objects -> SUBSET (1 .. MaxFrame)]

\* No frame that is in flight was recorded by way of a reference that has been
\* dropped: the three frames of retention are enough for the three frames of lag.
\* So no frame in flight uses a subgraph that has been deleted, as each frame that
\* was recorded from it was by way of one of its references.
GpuUsesNothingDeleted == \A o \in deleted : uses[o] \cap inFlight = {}
================================================================================

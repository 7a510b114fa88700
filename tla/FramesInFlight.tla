----------------------------- MODULE FramesInFlight -----------------------------
(***************************************************************************)
(* What the fences of a RecordAndSubmitTask promise to the rest of the     *)
(* viewer: the recording of a frame does not start before the GPU has      *)
(* finished the frame NumBuffers frames earlier.  While the viewer updates *)
(* the scene graph for frame n, the GPU is at work on frames n-NumBuffers  *)
(* to n-1 at most.                                                         *)
(***************************************************************************)
EXTENDS Integers

CONSTANTS NumBuffers, MaxFrame

VARIABLES
    frame,       \* the frame the viewer is at, 0 before the first one
    stage,       \* "update" or "record"
    inFlight     \* frames that are submitted and not finished by the GPU

frameVars == <<frame, stage, inFlight>>

Init ==
    /\ frame = 0
    /\ stage = "record"
    /\ inFlight = {}

BeginFrame ==
    /\ stage = "record" /\ frame < MaxFrame
    /\ stage' = "update"
    /\ frame' = frame + 1
    /\ UNCHANGED inFlight

\* Before anything is recorded every frame but the last NumBuffers is finished.
StartRecording ==
    /\ stage = "update"
    /\ \A f \in inFlight : f + NumBuffers > frame
    /\ stage' = "record"
    /\ UNCHANGED <<frame, inFlight>>

\* A frame may have nothing to submit.
Submit ==
    /\ stage = "record" /\ frame > 0
    /\ inFlight' = inFlight \cup {frame}
    /\ UNCHANGED <<frame, stage>>

Complete(f) ==
    /\ f \in inFlight
    /\ inFlight' = inFlight \ {f}
    /\ UNCHANGED <<frame, stage>>

Next == BeginFrame \/ StartRecording \/ Submit \/ \E f \in inFlight : Complete(f)

Spec == Init /\ [][Next]_frameVars

TypeOK ==
    /\ frame \in 0 .. MaxFrame
    /\ stage \in {"update", "record"}
    /\ inFlight \subseteq 1 .. MaxFrame
================================================================================

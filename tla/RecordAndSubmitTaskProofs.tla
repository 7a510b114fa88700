----------------------- MODULE RecordAndSubmitTaskProofs -----------------------
(***************************************************************************)
(* For every number of buffers, graphs and frames: the task rerecords only *)
(* what the GPU has finished with, submits with a fresh fence, and bounds  *)
(* the lag of the GPU as FramesInFlight says.                              *)
(*                                                                         *)
(* The invariant has two parts.  Ownership: a command buffer that is in    *)
(* use is being recorded or depends on one fence, and what a fence         *)
(* executes depends on it.  Age: the fences are used in turn, so the frame *)
(* that a fence executes is the one in which it was current last.  On it   *)
(* rest the history of the indices and the bound on the pools.             *)
(***************************************************************************)
EXTENDS RecordAndSubmitTask, FiniteSetTheorems, TLAPS

Current == currentFrameIndex

IndexIsCurrent == frame > 0 => indices[0] = Current

Phases ==
    /\ pc # "idle" => frame > 0
    /\ pc # "record" => recorded = {} /\ toRecord = {}

\* Command buffers in use are allocated; those that are recorded or depend on a
\* fence are in use, and no two of these hold the same one.
Ownership ==
    /\ \A b \in inUse : b[2] <= pool[b[1]]
    /\ recorded \subseteq inUse
    /\ \A f \in Fences : dependents[f] \subseteq inUse /\ recorded \cap dependents[f] = {}
    /\ \A f, e \in Fences : f # e => dependents[f] \cap dependents[e] = {}

\* A fence nothing depends on is at rest; one that executes is not signaled.
FencesAreSound ==
    \A f \in Fences :
        /\ executing[f] \subseteq dependents[f]
        /\ executing[f] # {} => f \notin signaled
        /\ dependents[f] = {} => f \notin signaled

\* How many frames ago a fence was current last; the current one itself, as long
\* as it is not started, belongs to the frame NumBuffers ago.
Age(f) ==
    IF f = Current THEN IF pc = "start" THEN NumBuffers ELSE 0
    ELSE IF f < Current THEN Current - f ELSE Current + NumBuffers - f

FrameIsAge ==
    \A f \in Fences : executing[f] # {} => frame > 0 /\ frameOf[f] = frame - Age(f)

Inv ==
    /\ TypeOK /\ IndexIsCurrent /\ Phases /\ Ownership /\ FencesAreSound
    /\ FenceIsFresh /\ FrameIsAge

InFlight == {frameOf[f] : f \in {e \in Fences : executing[e] # {}}}

--------------------------------------------------------------------------------
USE BuffersAssumption, BoundsAssumption DEF BuffersAssumption, BoundsAssumption

\* The indices of fences and the value that stands for none.
LEMMA FenceTypes ==
  /\ NumBuffers \in Nat /\ NumBuffers > 1 /\ 0 \in Fences
  /\ Fences \subseteq Nat /\ Unset \notin Fences /\ Unset \in Nat
  /\ \A f \in Fences : f < NumBuffers
BY DEF Fences, Unset

\* The invariant holds in the initial state.
LEMMA InitInv == Init => Inv
<1>1. SUFFICES ASSUME Init PROVE Inv
  OBVIOUS
<1>2. TypeOK
  BY <1>1 DEF Init, TypeOK, Buffers
<1>3. IndexIsCurrent /\ Phases /\ FenceIsFresh
  BY <1>1 DEF Init, IndexIsCurrent, Phases, FenceIsFresh
<1>4. Ownership /\ FencesAreSound /\ FrameIsAge
  BY <1>1 DEF Init, Ownership, FencesAreSound, FrameIsAge
<1>5. QED
  BY <1>2, <1>3, <1>4 DEF Inv

\* While a frame is prepared, the current index is that of a fence.
LEMMA CurrentIsFence ==
  ASSUME Inv, frame > 0
  PROVE  Current \in Fences /\ Fence(0) = Current
<1>1. frame \in Nat
  BY DEF Inv, TypeOK
<1>2. QED
  BY <1>1 DEF Inv, TypeOK, IndexIsCurrent, Current, Fence

\* The next index is that of the fence that was current longest ago.
LEMMA AdvanceInv ==
  ASSUME Inv, Advance
  PROVE  Inv'
<1>1. /\ pc = "idle" /\ frame < MaxFrame /\ pc' = "start" /\ frame' = frame + 1
      /\ currentFrameIndex' = NextIndex
      /\ indices' = [Shifted EXCEPT ![0] = NextIndex]
      /\ UNCHANGED <<toRecord, pool, inUse, recorded, dependents, signaled, executing>>
      /\ UNCHANGED <<frameOf, refused, failures>>
  BY DEF Advance, taskVars, fenceVars
<1>2. /\ frame \in Nat /\ MaxFrame \in Nat
      /\ currentFrameIndex \in IF frame = 0 THEN {Unset} ELSE Fences
      /\ indices \in [Fences -> Fences \cup {Unset}]
      /\ frameOf \in [Fences -> 0 .. MaxFrame]
  BY DEF Inv, TypeOK
<1>3. /\ NextIndex \in Fences
      /\ frame = 0 \/ Current = NumBuffers - 1 => NextIndex = 0
      /\ frame > 0 /\ Current < NumBuffers - 1 => NextIndex = Current + 1
  BY <1>2 DEF NextIndex, Fences, Unset, Current
<1>4. Shifted \in [Fences -> Fences \cup {Unset}]
  <2>1. \A k \in Fences : k # 0 => k - 1 \in Fences
    BY DEF Fences
  <2>2. QED
    BY <1>2, <2>1, FenceTypes DEF Shifted
<1>5. indices' \in [Fences -> Fences \cup {Unset}] /\ indices'[0] = NextIndex
  BY <1>1, <1>3, <1>4, FenceTypes
<1>6. TypeOK'
  BY <1>1, <1>2, <1>3, <1>5 DEF Inv, TypeOK
<1>7. (IndexIsCurrent /\ Phases /\ Ownership /\ FencesAreSound /\ FenceIsFresh)'
  <2>1. (IndexIsCurrent /\ Phases /\ FenceIsFresh)'
    BY <1>1, <1>2, <1>5 DEF Inv, IndexIsCurrent, Phases, FenceIsFresh, Current
  <2>2. (Ownership /\ FencesAreSound)'
    BY <1>1 DEF Inv, Ownership, FencesAreSound
  <2>3. QED
    BY <2>1, <2>2
<1>8. FrameIsAge'
  <2>1. SUFFICES ASSUME NEW f \in Fences, executing[f] # {}
                 PROVE  frame' > 0 /\ frameOf[f] = frame' - Age(f)'
    BY <1>1 DEF FrameIsAge
  <2>2. frame > 0 /\ frameOf[f] = frame - Age(f)
    BY <2>1 DEF Inv, FrameIsAge
  <2>3. Current \in Fences /\ f \in Nat /\ f < NumBuffers
    BY <2>2, CurrentIsFence, FenceTypes
  <2>4. Age(f) = IF f <= Current THEN Current - f ELSE Current + NumBuffers - f
    BY <1>1, <2>3, FenceTypes DEF Age
  <2>5. Age(f)' = IF f = NextIndex THEN NumBuffers
                  ELSE IF f < NextIndex THEN NextIndex - f ELSE NextIndex + NumBuffers - f
    BY <1>1 DEF Age, Current
  <2>6. Age(f)' = Age(f) + 1
    <3>1. CASE Current = NumBuffers - 1
      BY <1>2, <1>3, <2>2, <2>3, <2>4, <2>5, <3>1, FenceTypes
    <3>2. CASE Current < NumBuffers - 1
      BY <1>2, <1>3, <2>2, <2>3, <2>4, <2>5, <3>2, FenceTypes
    <3>3. QED
      BY <2>3, <3>1, <3>2, FenceTypes
  <2>7. Age(f) \in Int
    BY <2>3, <2>4, FenceTypes
  <2>8. QED
    BY <1>1, <1>2, <2>2, <2>6, <2>7
<1>9. QED
  BY <1>6, <1>7, <1>8 DEF Inv

\* What start() finds: the current fence executes nothing, and the other fences
\* keep what depends on them.
LEMMA StartInv ==
  ASSUME Inv, Start
  PROVE  Inv'
<1> DEFINE c == Current
<1>1. pc = "start" /\ frame > 0 /\ frame \in Nat /\ recorded = {}
  BY DEF Inv, TypeOK, Start, Phases
<1>2. c \in Fences /\ Fence(0) = c
  BY <1>1, CurrentIsFence
<1>3. /\ pc' = "record" /\ toRecord' \subseteq Graphs
      /\ UNCHANGED <<frame, currentFrameIndex, indices, pool, recorded, executing, frameOf>>
      /\ UNCHANGED <<refused, failures>>
      /\ dependents[c] # {} => c \in signaled
      /\ inUse' = inUse \ dependents[c]
      /\ dependents' = [dependents EXCEPT ![c] = {}]
      /\ signaled' = signaled \ {c}
  <2>1. dependents[c] = {} => c \notin signaled
    BY <1>2 DEF Inv, FencesAreSound
  <2>2. dependents \in [Fences -> SUBSET Buffers]
    BY DEF Inv, TypeOK
  <2>3. CASE dependents[c] # {}
    BY <1>2, <2>3 DEF Start
  <2>4. CASE dependents[c] = {}
    <3>1. [dependents EXCEPT ![c] = {}] = dependents
      BY <2>2, <2>4
    <3>2. QED
      BY <1>2, <2>1, <2>4, <3>1 DEF Start
  <2>5. QED
    BY <2>3, <2>4
<1>4. executing[c] = {}
  BY <1>2, <1>3 DEF Inv, FencesAreSound
<1>5. /\ dependents \in [Fences -> SUBSET Buffers]
      /\ dependents'[c] = {}
      /\ \A f \in Fences : f # c => dependents'[f] = dependents[f]
  BY <1>2, <1>3 DEF Inv, TypeOK
<1>6. TypeOK'
  BY <1>1, <1>2, <1>3 DEF Inv, TypeOK
<1>7. (IndexIsCurrent /\ Phases)'
  BY <1>1, <1>3 DEF Inv, IndexIsCurrent, Phases, Current
<1>8. Ownership'
  <2>1. \A b \in inUse' : b[2] <= pool'[b[1]]
    BY <1>3 DEF Inv, Ownership
  <2>2. \A f \in Fences : dependents'[f] \subseteq inUse'
    BY <1>2, <1>3, <1>5 DEF Inv, Ownership
  <2>3. \A f, e \in Fences : f # e => dependents'[f] \cap dependents'[e] = {}
    BY <1>2, <1>5 DEF Inv, Ownership
  <2>4. QED
    BY <1>1, <1>3, <2>1, <2>2, <2>3 DEF Ownership
<1>9. FencesAreSound'
  BY <1>2, <1>3, <1>4, <1>5 DEF Inv, FencesAreSound
<1>10. FenceIsFresh'
  BY <1>2, <1>3, <1>4, <1>5 DEF FenceIsFresh, Fence
<1>11. FrameIsAge'
  BY <1>1, <1>2, <1>3, <1>4 DEF Inv, FrameIsAge, Age, Current
<1>12. QED
  BY <1>6, <1>7, <1>8, <1>9, <1>10, <1>11 DEF Inv

\* A graph records what no fence holds: what is free is not in use, and what is
\* new has not been in use.
LEMMA RecordInv ==
  ASSUME Inv, NEW g \in Graphs, Record(g)
  PROVE  Inv'
<1>1. PICK i \in 1 .. pool[g] + 1 :
        /\ TakeBuffer(g, i)
        /\ inUse' = inUse \cup {<<g, i>>}
        /\ recorded' = recorded \cup {<<g, i>>}
  BY DEF Record
<1>2. /\ pc = "record" /\ toRecord' = toRecord \ {g}
      /\ UNCHANGED <<pc, frame, currentFrameIndex, indices, dependents, signaled, executing>>
      /\ UNCHANGED <<frameOf, refused, failures>>
  BY DEF Record, fenceVars
<1>3. pool[g] \in Nat /\ i \in Nat \ {0} /\ <<g, i>> \in Buffers
  BY DEF Inv, TypeOK, Buffers
<1>4. pool' \in [Graphs -> Nat] /\ i <= pool'[g] /\ \A h \in Graphs : pool[h] <= pool'[h]
  <2>1. CASE Free(g) = {}
    BY <1>1, <1>3, <2>1 DEF TakeBuffer, Inv, TypeOK
  <2>2. CASE Free(g) # {}
    BY <1>1, <1>3, <2>2 DEF TakeBuffer, Free, Inv, TypeOK
  <2>3. QED
    BY <2>1, <2>2
<1>5. <<g, i>> \notin inUse
  <2>1. CASE Free(g) = {}
    BY <1>1, <1>3, <2>1 DEF TakeBuffer, Inv, Ownership
  <2>2. CASE Free(g) # {}
    BY <1>1, <2>2 DEF TakeBuffer, Free
  <2>3. QED
    BY <2>1, <2>2
<1>6. TypeOK'
  BY <1>1, <1>2, <1>3, <1>4 DEF Inv, TypeOK
<1>7. (IndexIsCurrent /\ Phases)'
  BY <1>2 DEF Inv, IndexIsCurrent, Phases, Current
<1>8. Ownership'
  <2>1. ASSUME NEW b \in inUse' PROVE b[2] <= pool'[b[1]]
    <3>1. CASE b = <<g, i>>
      BY <1>4, <3>1
    <3>2. CASE b \in inUse
      <4>1. b[1] \in Graphs /\ b[2] \in Nat /\ b[2] <= pool[b[1]] /\ pool[b[1]] \in Nat
        BY <3>2 DEF Inv, TypeOK, Ownership, Buffers
      <4>2. QED
        BY <1>4, <4>1
    <3>3. QED
      BY <1>1, <2>1, <3>1, <3>2
  <2>2. recorded' \subseteq inUse'
    BY <1>1 DEF Inv, Ownership
  <2>3. \A f \in Fences : dependents'[f] \subseteq inUse' /\ recorded' \cap dependents'[f] = {}
    BY <1>1, <1>2, <1>5 DEF Inv, Ownership
  <2>4. \A f, e \in Fences : f # e => dependents'[f] \cap dependents'[e] = {}
    BY <1>2 DEF Inv, Ownership
  <2>5. QED
    BY <2>1, <2>2, <2>3, <2>4 DEF Ownership
<1>9. (FencesAreSound /\ FenceIsFresh /\ FrameIsAge)'
  BY <1>2 DEF Inv, FencesAreSound, FenceIsFresh, Fence, FrameIsAge, Age, Current
<1>10. QED
  BY <1>6, <1>7, <1>8, <1>9 DEF Inv

\* A frame that is dropped or empty leaves the fences as they are.
LEMMA FinishNothingInv ==
  ASSUME Inv, FinishTransferFails \/ FinishEmpty
  PROVE  Inv'
<1>1. /\ pc = "record" /\ toRecord = {} /\ pc' = "idle" /\ recorded' = {}
      /\ UNCHANGED <<frame, currentFrameIndex, indices, toRecord, pool, inUse>>
      /\ UNCHANGED <<dependents, signaled, executing, frameOf, refused>>
      /\ failures' \in 0 .. MaxFailures
  BY DEF FinishTransferFails, FinishEmpty, taskVars, fenceVars, Inv, TypeOK
<1>2. TypeOK'
  BY <1>1 DEF Inv, TypeOK
<1>3. (IndexIsCurrent /\ Phases /\ Ownership /\ FencesAreSound /\ FenceIsFresh)'
  BY <1>1 DEF Inv, IndexIsCurrent, Current, Phases, Ownership, FencesAreSound, FenceIsFresh
<1>4. FrameIsAge'
  BY <1>1 DEF Inv, FrameIsAge, Age, Current
<1>5. QED
  BY <1>2, <1>3, <1>4 DEF Inv

\* The submission hands over what is recorded to the fence, which was fresh.
LEMMA FinishSubmitInv ==
  ASSUME Inv, FinishSubmit
  PROVE  Inv'
<1> DEFINE c == Current
<1>1. pc = "record" /\ frame > 0 /\ frame \in Nat /\ frame \in 0 .. MaxFrame
  BY DEF Inv, TypeOK, FinishSubmit, Phases
<1>2. c \in Fences /\ Fence(0) = c
  BY <1>1, CurrentIsFence
<1>3. c \notin signaled /\ executing[c] = {} /\ dependents[c] = {}
  BY <1>1, <1>2 DEF Inv, FenceIsFresh
<1>4. /\ toRecord = {} /\ recorded # {} /\ pc' = "idle" /\ recorded' = {}
      /\ dependents' = [dependents EXCEPT ![c] = recorded]
      /\ executing' = [executing EXCEPT ![c] = recorded]
      /\ frameOf' = [frameOf EXCEPT ![c] = frame]
      /\ UNCHANGED <<frame, currentFrameIndex, indices, toRecord, pool, inUse, signaled>>
      /\ UNCHANGED <<refused, failures>>
  BY <1>2, <1>3 DEF FinishSubmit, Inv, TypeOK
<1>5. /\ dependents'[c] = recorded /\ executing'[c] = recorded /\ frameOf'[c] = frame
      /\ \A f \in Fences : f # c => /\ dependents'[f] = dependents[f]
                                    /\ executing'[f] = executing[f]
                                    /\ frameOf'[f] = frameOf[f]
  BY <1>2, <1>4 DEF Inv, TypeOK
<1>6. TypeOK'
  BY <1>1, <1>2, <1>4 DEF Inv, TypeOK
<1>7. (IndexIsCurrent /\ Phases /\ FenceIsFresh)'
  BY <1>1, <1>4 DEF Inv, IndexIsCurrent, Phases, FenceIsFresh, Current
<1>8. Ownership'
  <2>1. \A f \in Fences : dependents'[f] \subseteq inUse'
    BY <1>2, <1>4, <1>5 DEF Inv, Ownership
  <2>2. \A f, e \in Fences : f # e => dependents'[f] \cap dependents'[e] = {}
    BY <1>2, <1>5 DEF Inv, Ownership
  <2>3. QED
    BY <1>4, <2>1, <2>2 DEF Inv, Ownership
<1>9. FencesAreSound'
  BY <1>2, <1>3, <1>4, <1>5 DEF Inv, FencesAreSound
<1>10. FrameIsAge'
  <2>1. \A f \in Fences : f = c => Age(f)' = 0
    BY <1>4 DEF Age, Current
  <2>2. \A f \in Fences : f # c => Age(f)' = Age(f)
    BY <1>4 DEF Age, Current
  <2>3. SUFFICES ASSUME NEW f \in Fences, executing'[f] # {}
                 PROVE  frame' > 0 /\ frameOf'[f] = frame' - Age(f)'
    BY DEF FrameIsAge
  <2>4. CASE f = c
    BY <1>1, <1>4, <1>5, <2>1, <2>4
  <2>5. CASE f # c
    BY <1>4, <1>5, <2>2, <2>3, <2>5 DEF Inv, FrameIsAge
  <2>6. QED
    BY <2>4, <2>5
<1>11. QED
  BY <1>6, <1>7, <1>8, <1>9, <1>10 DEF Inv

\* A submission that is refused leaves what is recorded to the fence, at rest.
LEMMA FinishRefusedInv ==
  ASSUME Inv, FinishRefused
  PROVE  Inv'
<1> DEFINE c == Current
<1>1. pc = "record" /\ frame > 0
  BY DEF Inv, FinishRefused, Phases
<1>2. c \in Fences /\ Fence(0) = c
  BY <1>1, CurrentIsFence
<1>3. c \notin signaled /\ executing[c] = {} /\ dependents[c] = {}
  BY <1>1, <1>2 DEF Inv, FenceIsFresh
<1>4. /\ toRecord = {} /\ recorded # {} /\ pc' = "idle" /\ recorded' = {}
      /\ dependents' = [dependents EXCEPT ![c] = recorded]
      /\ refused' = refused \cup {c}
      /\ UNCHANGED <<frame, currentFrameIndex, indices, toRecord, pool, inUse, signaled>>
      /\ UNCHANGED <<executing, frameOf, failures>>
  BY <1>2, <1>3 DEF FinishRefused, Inv, TypeOK
<1>5. /\ dependents'[c] = recorded
      /\ \A f \in Fences : f # c => dependents'[f] = dependents[f]
  BY <1>2, <1>4 DEF Inv, TypeOK
<1>6. TypeOK'
  BY <1>2, <1>4 DEF Inv, TypeOK
<1>7. (IndexIsCurrent /\ Phases /\ FenceIsFresh)'
  BY <1>1, <1>4 DEF Inv, IndexIsCurrent, Phases, FenceIsFresh, Current
<1>8. Ownership'
  <2>1. \A f \in Fences : dependents'[f] \subseteq inUse'
    BY <1>2, <1>4, <1>5 DEF Inv, Ownership
  <2>2. \A f, e \in Fences : f # e => dependents'[f] \cap dependents'[e] = {}
    BY <1>2, <1>5 DEF Inv, Ownership
  <2>3. QED
    BY <1>4, <2>1, <2>2 DEF Inv, Ownership
<1>9. FencesAreSound'
  BY <1>2, <1>3, <1>4, <1>5 DEF Inv, FencesAreSound
<1>10. FrameIsAge'
  <2>1. \A f \in Fences : f # c => Age(f)' = Age(f)
    BY <1>4 DEF Age, Current
  <2>2. QED
    BY <1>3, <1>4, <2>1 DEF Inv, FrameIsAge
<1>11. QED
  BY <1>6, <1>7, <1>8, <1>9, <1>10 DEF Inv

\* The GPU signals a fence that something depends on, never the fresh one.
LEMMA GpuCompletesInv ==
  ASSUME Inv, NEW f \in Fences, GpuCompletes(f)
  PROVE  Inv'
<1>1. /\ executing[f] # {}
      /\ executing' = [executing EXCEPT ![f] = {}]
      /\ signaled' = signaled \cup {f}
      /\ UNCHANGED <<pc, frame, currentFrameIndex, indices, toRecord, pool, inUse, recorded>>
      /\ UNCHANGED <<dependents, frameOf, refused, failures>>
  BY DEF GpuCompletes, taskVars
<1>2. /\ executing'[f] = {}
      /\ \A e \in Fences : e # f => executing'[e] = executing[e]
  BY <1>1 DEF Inv, TypeOK
<1>3. TypeOK'
  BY <1>1 DEF Inv, TypeOK
<1>4. (IndexIsCurrent /\ Phases /\ Ownership)'
  BY <1>1 DEF Inv, IndexIsCurrent, Current, Phases, Ownership
<1>5. FencesAreSound'
  BY <1>1, <1>2 DEF Inv, FencesAreSound
<1>6. FenceIsFresh'
  <2>1. SUFFICES ASSUME pc = "record"
                 PROVE  /\ Fence(0) \notin signaled'
                        /\ executing'[Fence(0)] = {}
                        /\ dependents[Fence(0)] = {}
    BY <1>1 DEF FenceIsFresh, Fence
  <2>2. Fence(0) \in Fences
    BY <2>1, CurrentIsFence DEF Inv, Phases
  <2>3. /\ Fence(0) \notin signaled /\ executing[Fence(0)] = {} /\ dependents[Fence(0)] = {}
    BY <2>1 DEF Inv, FenceIsFresh
  <2>4. QED
    BY <1>1, <1>2, <2>2, <2>3
<1>7. FrameIsAge'
  BY <1>1, <1>2 DEF Inv, FrameIsAge, Age, Current
<1>8. QED
  BY <1>3, <1>4, <1>5, <1>6, <1>7 DEF Inv

--------------------------------------------------------------------------------
\* The inductive invariant: who owns a command buffer, what state its fence is in
\* and which frame a fence belongs to.
THEOREM TaskInvariant == Spec => []Inv
<1>1. Init => Inv
  BY InitInv
<1>2. Inv /\ [Next]_vars => Inv'
  <2>1. SUFFICES ASSUME Inv, [Next]_vars PROVE Inv'
    OBVIOUS
  <2>2. CASE Advance
    BY <2>1, <2>2, AdvanceInv
  <2>3. CASE Start
    BY <2>1, <2>3, StartInv
  <2>4. CASE FinishTransferFails \/ FinishEmpty
    BY <2>1, <2>4, FinishNothingInv
  <2>5. CASE FinishSubmit
    BY <2>1, <2>5, FinishSubmitInv
  <2>6. CASE \E g \in Graphs : Record(g)
    BY <2>1, <2>6, RecordInv
  <2>7. CASE \E f \in Fences : GpuCompletes(f)
    BY <2>1, <2>7, GpuCompletesInv
  <2>8. CASE UNCHANGED vars
    <3>1. UNCHANGED <<pc, frame, currentFrameIndex, indices, toRecord, pool, inUse, recorded>>
      BY <2>8 DEF vars, taskVars
    <3>2. UNCHANGED <<dependents, signaled, executing, frameOf, refused, failures>>
      BY <2>8 DEF vars, fenceVars
    <3>3. (TypeOK /\ IndexIsCurrent /\ Phases)'
      BY <2>1, <3>1, <3>2 DEF Inv, TypeOK, IndexIsCurrent, Current, Phases
    <3>4. (Ownership /\ FencesAreSound /\ FenceIsFresh /\ FrameIsAge)'
      BY <2>1, <3>1, <3>2
      DEF Inv, Ownership, FencesAreSound, FenceIsFresh, Fence, FrameIsAge, Age, Current
    <3>5. QED
      BY <3>3, <3>4 DEF Inv
  <2>9. CASE FinishRefused
    BY <2>1, <2>9, FinishRefusedInv
  <2>10. QED
    BY <2>1, <2>2, <2>3, <2>4, <2>5, <2>6, <2>7, <2>8, <2>9 DEF Next, TaskStep
<1>3. QED
  BY <1>1, <1>2, PTL DEF Spec

\* The variables of the task, its command buffers and its fences have their types
\* for any number of fences and graphs.
THEOREM TaskTypeOK == Spec => []TypeOK
<1>1. Inv => TypeOK
  BY DEF Inv
<1>2. QED
  BY <1>1, TaskInvariant, PTL

\* CommandGraph::record never rerecords a command buffer the GPU still executes.
THEOREM GpuKeepsOutOfRecording == Spec => []RecordingIsPrivate
<1>1. Inv => RecordingIsPrivate
  BY DEF Inv, Ownership, FencesAreSound, RecordingIsPrivate
<1>2. QED
  BY <1>1, TaskInvariant, PTL

\* finish() submits with a fence that is reset and belongs to no submission.
THEOREM FencesAreResetBeforeUse == Spec => []FenceIsFresh
<1>1. Inv => FenceIsFresh
  BY DEF Inv
<1>2. QED
  BY <1>1, TaskInvariant, PTL

\* No two fences were current last in the same frame.
LEMMA AgeIsInjective ==
  ASSUME Inv, frame > 0, NEW f \in Fences, NEW e \in Fences, f # e
  PROVE  Age(f) # Age(e)
<1>1. Current \in Fences /\ f \in Nat /\ e \in Nat /\ Current \in Nat
      /\ f < NumBuffers /\ e < NumBuffers /\ Current < NumBuffers
  BY CurrentIsFence, FenceTypes
<1>2. QED
  BY <1>1, FenceTypes DEF Age

\* A frame that waits for its start leaves no frame in flight that is NumBuffers
\* or more frames old: the fence of that frame is the current one.
LEMMA LagIsBounded ==
  ASSUME Inv, pc = "start", executing[Current] = {}
  PROVE  \A n \in InFlight : n + NumBuffers > frame
<1>1. SUFFICES ASSUME NEW f \in Fences, executing[f] # {}
               PROVE  frameOf[f] + NumBuffers > frame
  BY DEF InFlight
<1>2. frame > 0 /\ frameOf[f] = frame - Age(f) /\ frame \in Nat
  BY <1>1 DEF Inv, TypeOK, FrameIsAge
<1>3. Current \in Nat /\ f \in Nat /\ f < NumBuffers /\ Current < NumBuffers /\ f # Current
  BY <1>1, <1>2, CurrentIsFence, FenceTypes
<1>4. Age(f) \in Int /\ Age(f) < NumBuffers
  BY <1>3, FenceTypes DEF Age
<1>5. QED
  BY <1>2, <1>4, FenceTypes

\* A fence that completes takes its own frame, and no other, out of flight.
LEMMA CompletesItsFrame ==
  ASSUME Inv, NEW f \in Fences, GpuCompletes(f)
  PROVE  frameOf[f] \in InFlight /\ InFlight' = InFlight \ {frameOf[f]}
<1>1. executing[f] # {} /\ executing' = [executing EXCEPT ![f] = {}] /\ frameOf' = frameOf
  BY DEF GpuCompletes
<1>2. /\ executing'[f] = {}
      /\ \A e \in Fences : e # f => executing'[e] = executing[e]
  BY <1>1 DEF Inv, TypeOK
<1>3. \A e \in Fences : e # f /\ executing[e] # {} => frameOf[e] # frameOf[f]
  <2>1. SUFFICES ASSUME NEW e \in Fences, e # f, executing[e] # {}
                 PROVE  frameOf[e] # frameOf[f]
    OBVIOUS
  <2>2. /\ frame > 0 /\ frame \in Nat
        /\ frameOf[e] = frame - Age(e) /\ frameOf[f] = frame - Age(f)
    BY <1>1, <2>1 DEF Inv, TypeOK, FrameIsAge
  <2>3. Age(e) # Age(f)
    BY <2>1, <2>2, AgeIsInjective
  <2>4. Age(e) \in Int /\ Age(f) \in Int
    <3>1. Current \in Nat /\ e \in Nat /\ f \in Nat
      BY <2>2, CurrentIsFence, FenceTypes
    <3>2. QED
      BY <3>1, FenceTypes DEF Age
  <2>5. QED
    BY <2>2, <2>3, <2>4
<1>4. QED
  BY <1>1, <1>2, <1>3 DEF InFlight

\* The submission puts the current frame in flight, and takes none out: the fence
\* it uses executed nothing.
LEMMA SubmitsTheFrame ==
  ASSUME Inv, FinishSubmit
  PROVE  InFlight' = InFlight \cup {frame}
<1> DEFINE c == Current
<1>1. pc = "record" /\ frame > 0
  BY DEF Inv, FinishSubmit, Phases
<1>2. c \in Fences /\ Fence(0) = c
  BY <1>1, CurrentIsFence
<1>3. executing[c] = {}
  BY <1>1, <1>2 DEF Inv, FenceIsFresh
<1>4. /\ executing'[c] # {} /\ frameOf'[c] = frame
      /\ \A f \in Fences : f # c => executing'[f] = executing[f] /\ frameOf'[f] = frameOf[f]
  BY <1>2 DEF FinishSubmit, Inv, TypeOK
<1>5. QED
  BY <1>2, <1>3, <1>4 DEF InFlight

\* The fences implement the bound on the lag of the GPU that the viewer relies on:
\* when start() has returned, every frame but the last NumBuffers is finished.
THEOREM TaskImplementsFramesInFlight == Spec => ImplementsFramesInFlight
<1>1. Init => Frames!Init
  BY DEF Init, Frames!Init
<1>2. Inv /\ [Next]_vars => [Frames!Next]_(Frames!frameVars)
  <2>1. SUFFICES ASSUME Inv, [Next]_vars PROVE [Frames!Next]_(Frames!frameVars)
    OBVIOUS
  <2>2. CASE Advance
    <3>1. Frames!BeginFrame
      BY <2>2 DEF Advance, fenceVars, Frames!BeginFrame
    <3>2. QED
      BY <3>1 DEF Frames!Next
  <2>3. CASE Start
    <3>1. pc = "start" /\ pc' = "record" /\ UNCHANGED <<frame, executing, frameOf>>
      BY <2>3 DEF Start
    <3>2. Current \in Fences /\ Fence(0) = Current
      BY <2>1, <3>1, CurrentIsFence DEF Inv, Phases
    <3>3. executing[Current] = {}
      BY <2>1, <2>3, <3>2 DEF Start, Inv, FencesAreSound
    <3>4. \A n \in InFlight : n + NumBuffers > frame
      BY <2>1, <3>1, <3>3, LagIsBounded
    <3>5. Frames!StartRecording
      BY <3>1, <3>4 DEF InFlight, Frames!StartRecording
    <3>6. QED
      BY <3>5 DEF Frames!Next
  <2>4. CASE FinishTransferFails \/ FinishEmpty
    BY <2>4 DEF FinishTransferFails, FinishEmpty, fenceVars, Frames!frameVars
  <2>5. CASE FinishSubmit
    <3>1. pc = "record" /\ pc' = "idle" /\ frame > 0 /\ frame' = frame
      BY <2>1, <2>5 DEF FinishSubmit, Inv, Phases
    <3>2. InFlight' = InFlight \cup {frame}
      BY <2>1, <2>5, SubmitsTheFrame
    <3>3. Frames!Submit
      BY <3>1, <3>2 DEF InFlight, Frames!Submit
    <3>4. QED
      BY <3>3 DEF Frames!Next
  <2>6. CASE \E g \in Graphs : Record(g)
    BY <2>6 DEF Record, fenceVars, Frames!frameVars
  <2>7. ASSUME NEW f \in Fences, GpuCompletes(f) PROVE Frames!Next
    <3>1. pc' = pc /\ frame' = frame
      BY <2>7 DEF GpuCompletes
    <3>2. frameOf[f] \in InFlight /\ InFlight' = InFlight \ {frameOf[f]}
      BY <2>1, <2>7, CompletesItsFrame
    <3>3. \E n \in InFlight :
             n \in InFlight /\ InFlight' = InFlight \ {n} /\ pc' = pc /\ frame' = frame
      BY <3>1, <3>2
    <3>4. QED
      BY <3>3 DEF InFlight, Frames!Next, Frames!Complete
  <2>8. CASE UNCHANGED vars
    BY <2>8 DEF vars, fenceVars, Frames!frameVars
  <2>9. CASE FinishRefused
    BY <2>9 DEF FinishRefused, Frames!frameVars
  <2>10. QED
    BY <2>1, <2>2, <2>3, <2>4, <2>5, <2>6, <2>7, <2>8, <2>9 DEF Next, TaskStep
<1>3. QED
  BY <1>1, <1>2, TaskInvariant, PTL DEF Spec, ImplementsFramesInFlight, Frames!Spec

--------------------------------------------------------------------------------
(* The indices of the frames before.                                       *)

\* Division by a positive number, with quotient and remainder.
LEMMA Division ==
  ASSUME NEW n \in Nat, NEW d \in Nat \ {0}
  PROVE  n = (d * (n \div d)) + (n % d) /\ n % d \in 0 .. d - 1 /\ n \div d \in Nat
OBVIOUS

\* The remainder is the one number below the divisor that is left by a multiple.
LEMMA RemainderIsUnique ==
  ASSUME NEW d \in Nat \ {0}, NEW q \in Int, NEW r \in 0 .. d - 1
  PROVE  ((d * q) + r) % d = r
OBVIOUS

\* Counting up goes round the ring.
LEMMA NextRemainder ==
  ASSUME NEW n \in Nat, NEW d \in Nat \ {0}
  PROVE  (n + 1) % d = IF n % d = d - 1 THEN 0 ELSE (n % d) + 1
<1> DEFINE q == n \div d
           r == n % d
<1>1. n = (d * q) + r /\ r \in 0 .. d - 1 /\ q \in Nat
  BY Division
<1> HIDE DEF q, r
<1>2. CASE r = d - 1
  <2>1. n + 1 = (d * (q + 1)) + 0
    BY <1>1, <1>2
  <2>2. (n + 1) % d = 0
    BY <1>1, <2>1, RemainderIsUnique
  <2>3. QED
    BY <1>2, <2>2 DEF r
<1>3. CASE r # d - 1
  <2>1. n + 1 = (d * q) + (r + 1) /\ r + 1 \in 0 .. d - 1
    BY <1>1, <1>3
  <2>2. (n + 1) % d = r + 1
    BY <1>1, <2>1, RemainderIsUnique
  <2>3. QED
    BY <1>3, <2>2 DEF r
<1>4. QED
  BY <1>2, <1>3

\* The index that advance() takes next is the number of the frame, modulo the ring.
LEMMA NextIndexIsFrame ==
  ASSUME Inv, IndicesAreHistory
  PROVE  NextIndex = frame % NumBuffers
<1>1. frame \in Nat /\ NumBuffers \in Nat \ {0} /\ 0 \in Fences
  BY FenceTypes DEF Inv, TypeOK
<1>2. CASE frame = 0
  <2>1. 0 % NumBuffers = 0
    BY <1>1
  <2>2. NextIndex = 0
    BY <1>2 DEF Inv, TypeOK, NextIndex, Unset
  <2>3. QED
    BY <1>2, <2>1, <2>2
<1>3. CASE frame > 0
  <2>1. currentFrameIndex = (frame - 1) % NumBuffers /\ currentFrameIndex \in Fences
    BY <1>1, <1>3, CurrentIsFence DEF IndicesAreHistory, Fence, Current
  <2>2. (frame - 1) + 1 = frame /\ frame - 1 \in Nat
    BY <1>1, <1>3
  <2>3. frame % NumBuffers = IF currentFrameIndex = NumBuffers - 1 THEN 0
                             ELSE currentFrameIndex + 1
    BY <1>1, <2>1, <2>2, NextRemainder
  <2>4. QED
    BY <1>1, <2>1, <2>3 DEF NextIndex, Fences
<1>4. QED
  BY <1>1, <1>2, <1>3

\* fence(k) is the fence of k frames ago, for every size of the ring: what start()
\* waits for and what the transfers look back at is the frame they mean.
THEOREM IndicesGoBack == Spec => []IndicesAreHistory
<1>1. Init => IndicesAreHistory
  BY DEF Init, IndicesAreHistory, Fences
<1>2. Inv /\ IndicesAreHistory /\ [Next]_vars => IndicesAreHistory'
  <2>1. SUFFICES ASSUME Inv, IndicesAreHistory, [Next]_vars PROVE IndicesAreHistory'
    OBVIOUS
  <2>2. CASE Advance
    <3>1. /\ frame' = frame + 1 /\ frame \in Nat
          /\ indices' = [Shifted EXCEPT ![0] = NextIndex]
          /\ currentFrameIndex = Unset <=> frame = 0
      BY <2>1, <2>2, FenceTypes DEF Advance, Inv, TypeOK
    <3>2. NextIndex = frame % NumBuffers
      BY <2>1, NextIndexIsFrame
    <3>3. \A k \in Fences : k \in Nat /\ (k # 0 => k - 1 \in Fences)
      BY DEF Fences
    <3>4. indices \in [Fences -> Fences \cup {Unset}]
      BY <2>1 DEF Inv, TypeOK
    <3>5. ASSUME NEW k \in Fences
          PROVE  indices'[k] = IF k < frame' THEN (frame' - 1 - k) % NumBuffers ELSE Unset
      <4>1. CASE k = 0
        <5>1. indices'[k] = NextIndex
          BY <3>1, <3>4, <4>1, FenceTypes DEF Shifted
        <5>2. k < frame' /\ frame' - 1 - k = frame
          BY <3>1, <4>1
        <5>3. QED
          BY <3>2, <5>1, <5>2
      <4>2. CASE k # 0 /\ frame = 0
        <5>1. indices'[k] = indices[k] /\ ~(k < frame') /\ ~(k < frame)
          BY <3>1, <3>3, <3>4, <4>2 DEF Shifted
        <5>2. QED
          BY <2>1, <5>1 DEF IndicesAreHistory
      <4>3. CASE k # 0 /\ frame # 0
        <5>1. indices'[k] = indices[k - 1] /\ k - 1 \in Fences
          BY <3>1, <3>3, <3>4, <4>3 DEF Shifted
        <5>2. /\ (k - 1 < frame) <=> (k < frame')
              /\ frame - 1 - (k - 1) = frame' - 1 - k
          BY <3>1, <3>3
        <5>3. QED
          BY <2>1, <5>1, <5>2 DEF IndicesAreHistory
      <4>4. QED
        BY <4>1, <4>2, <4>3
    <3>6. QED
      BY <3>5 DEF IndicesAreHistory
  <2>3. CASE UNCHANGED <<frame, indices>>
    BY <2>1, <2>3 DEF IndicesAreHistory
  <2>4. QED
    BY <2>1, <2>2, <2>3
    DEF Next, TaskStep, Start, FinishTransferFails, FinishEmpty, FinishSubmit, FinishRefused,
        Record, GpuCompletes, vars
<1>3. QED
  BY <1>1, <1>2, TaskInvariant, PTL DEF Spec

--------------------------------------------------------------------------------
(* The number of command buffers.  A graph has one at most in each fence   *)
(* and one in what is recorded; those of frames that were dropped    *)
(* are in use for ever, and are counted.                                   *)

\* Command buffers of a graph that are in use though nothing will release them.
Abandoned(g) ==
    {i \in 1 .. pool[g] : /\ <<g, i>> \in inUse \ recorded
                          /\ \A f \in Fences : <<g, i>> \notin dependents[f]}

OnePerGraph(buffers) == \A b, c \in buffers : b[1] = c[1] => b = c

PoolInv ==
    /\ OnePerGraph(recorded)
    /\ \A b \in recorded : b[1] \notin toRecord
    /\ \A f \in Fences : OnePerGraph(dependents[f])
    /\ \A g \in Graphs : Cardinality(Abandoned(g)) <= failures
    /\ PoolIsBounded

\* A graph has allocated finitely many.
LEMMA AbandonedIsFinite ==
  ASSUME Inv, NEW g \in Graphs
  PROVE  IsFiniteSet(Abandoned(g)) /\ Cardinality(Abandoned(g)) \in Nat
<1>1. pool[g] \in Nat /\ Abandoned(g) \subseteq 1 .. pool[g]
  BY DEF Inv, TypeOK, Abandoned
<1>2. IsFiniteSet(1 .. pool[g])
  BY <1>1, FS_Interval
<1>3. QED
  BY <1>1, <1>2, FS_Subset, FS_CardinalityType

\* No more are abandoned if every one that is now was before.
LEMMA AbandonedShrinks ==
  ASSUME Inv, NEW g \in Graphs, Abandoned(g)' \subseteq Abandoned(g)
  PROVE  Cardinality(Abandoned(g)') <= Cardinality(Abandoned(g))
BY AbandonedIsFinite, FS_Subset

\* What the other fences hold of a graph is not more than there are other fences.
LEMMA HeldByOthers ==
  ASSUME Inv, PoolInv, NEW g \in Graphs, NEW c \in Fences
  PROVE  LET held == {i \in 1 .. pool[g] :
                         \E f \in Fences \ {c} : <<g, i>> \in dependents[f]}
         IN  IsFiniteSet(held) /\ Cardinality(held) <= NumBuffers - 1
<1> DEFINE held == {i \in 1 .. pool[g] : \E f \in Fences \ {c} : <<g, i>> \in dependents[f]}
           holder == [i \in held |-> CHOOSE f \in Fences \ {c} : <<g, i>> \in dependents[f]]
<1>1. IsFiniteSet(Fences) /\ Cardinality(Fences) = NumBuffers
  BY FS_Interval DEF Fences
<1>2. IsFiniteSet(Fences \ {c}) /\ Cardinality(Fences \ {c}) = NumBuffers - 1
  BY <1>1, FS_RemoveElement
<1>3. \A i \in held : holder[i] \in Fences \ {c} /\ <<g, i>> \in dependents[holder[i]]
  OBVIOUS
<1>4. ASSUME NEW i \in held, NEW j \in held, holder[i] = holder[j] PROVE i = j
  <2>1. <<g, i>> \in dependents[holder[i]] /\ <<g, j>> \in dependents[holder[i]]
        /\ holder[i] \in Fences
    BY <1>3, <1>4
  <2>2. <<g, i>> = <<g, j>>
    BY <2>1 DEF PoolInv, OnePerGraph
  <2>3. QED
    BY <2>2
<1>5. holder \in Injection(held, Fences \ {c})
  <2>1. holder \in [held -> Fences \ {c}]
    BY <1>3
  <2>2. QED
    BY <1>4, <2>1 DEF Injection, IsInjective
<1> HIDE DEF held, holder
<1>6. IsFiniteSet(held) /\ Cardinality(held) <= Cardinality(Fences \ {c})
  BY <1>2, <1>5, FS_Injection
<1>7. QED
  BY <1>2, <1>6 DEF held

\* A graph that finds no free command buffer has few enough of them: each is
\* abandoned or held by a fence other than the current one.
LEMMA NoneIsFree ==
  ASSUME Inv, PoolInv, NEW g \in Graphs, Record(g), Free(g) = {}
  PROVE  pool[g] + 1 <= NumBuffers + failures
<1> DEFINE c == Current
           held == {i \in 1 .. pool[g] : \E f \in Fences \ {c} : <<g, i>> \in dependents[f]}
<1>1. pc = "record" /\ g \in toRecord /\ c \in Fences /\ dependents[c] = {}
  BY CurrentIsFence DEF Record, Inv, Phases, FenceIsFresh
<1>2. 1 .. pool[g] \subseteq Abandoned(g) \cup held
  <2>1. SUFFICES ASSUME NEW i \in 1 .. pool[g], i \notin held PROVE i \in Abandoned(g)
    OBVIOUS
  <2>2. <<g, i>> \in inUse
    BY DEF Free
  <2>3. <<g, i>> \notin recorded
    BY <1>1 DEF PoolInv
  <2>4. \A f \in Fences : <<g, i>> \notin dependents[f]
    BY <1>1, <2>1
  <2>5. QED
    BY <2>2, <2>3, <2>4 DEF Abandoned
<1>3. /\ IsFiniteSet(held) /\ Cardinality(held) <= NumBuffers - 1
      /\ Cardinality(held) \in Nat
  BY <1>1, HeldByOthers, FS_CardinalityType
<1>4. /\ IsFiniteSet(Abandoned(g)) /\ Cardinality(Abandoned(g)) \in Nat
      /\ Cardinality(Abandoned(g)) <= failures
  BY AbandonedIsFinite DEF PoolInv
<1> HIDE DEF held
<1>5. /\ IsFiniteSet(Abandoned(g) \cup held)
      /\ Cardinality(Abandoned(g) \cup held) <= NumBuffers - 1 + failures
  <2>1. IsFiniteSet(Abandoned(g) \cap held) /\ Cardinality(Abandoned(g) \cap held) \in Nat
    BY <1>4, FS_Intersection, FS_CardinalityType
  <2>2. Cardinality(Abandoned(g) \cup held)
            = Cardinality(Abandoned(g)) + Cardinality(held) - Cardinality(Abandoned(g) \cap held)
    BY <1>3, <1>4, FS_Union
  <2>3. IsFiniteSet(Abandoned(g) \cup held)
    BY <1>3, <1>4, FS_Union
  <2>4. failures \in Nat
    BY DEF Inv, TypeOK
  <2>5. QED
    BY <1>3, <1>4, <2>1, <2>2, <2>3, <2>4
<1>6. pool[g] \in Nat /\ Cardinality(1 .. pool[g]) = pool[g]
  <2>1. pool[g] \in Nat
    BY DEF Inv, TypeOK
  <2>2. QED
    BY <2>1, FS_Interval
<1>7. pool[g] <= Cardinality(Abandoned(g) \cup held)
  BY <1>2, <1>5, <1>6, FS_Subset
<1>8. Cardinality(Abandoned(g) \cup held) \in Nat /\ failures \in Nat
  BY <1>5, FS_CardinalityType DEF Inv, TypeOK
<1>9. QED
  BY <1>5, <1>6, <1>7, <1>8

\* start() takes what depends on the fence out of use, all of it.
LEMMA StartPool ==
  ASSUME Inv, PoolInv, Start
  PROVE  PoolInv'
<1> DEFINE c == Current
<1>1. pc = "start" /\ recorded = {} /\ c \in Fences /\ Fence(0) = c
  BY CurrentIsFence DEF Start, Inv, Phases
<1>2. /\ UNCHANGED <<pool, recorded, failures>>
      /\ inUse' = inUse \ dependents[c]
      /\ dependents' = [dependents EXCEPT ![c] = {}]
  <2>1. dependents \in [Fences -> SUBSET Buffers]
    BY DEF Inv, TypeOK
  <2>2. CASE dependents[c] # {}
    BY <1>1, <2>2 DEF Start
  <2>3. CASE dependents[c] = {}
    BY <1>1, <2>1, <2>3 DEF Start
  <2>4. QED
    BY <2>2, <2>3
<1>3. /\ dependents'[c] = {}
      /\ \A f \in Fences : f # c => dependents'[f] = dependents[f]
  BY <1>1, <1>2 DEF Inv, TypeOK
<1>4. \A g \in Graphs : Abandoned(g)' \subseteq Abandoned(g)
  BY <1>1, <1>2, <1>3 DEF Abandoned
<1>5. \A g \in Graphs : Cardinality(Abandoned(g)') <= failures'
  <2>1. SUFFICES ASSUME NEW g \in Graphs PROVE Cardinality(Abandoned(g)') <= failures
    BY <1>2
  <2>2. /\ Cardinality(Abandoned(g)') <= Cardinality(Abandoned(g))
        /\ Cardinality(Abandoned(g)) <= failures
    BY <1>4, AbandonedShrinks DEF PoolInv
  <2>3. IsFiniteSet(Abandoned(g)') /\ Cardinality(Abandoned(g)') \in Nat
    BY <1>4, AbandonedIsFinite, FS_Subset, FS_CardinalityType
  <2>4. Cardinality(Abandoned(g)) \in Nat /\ failures \in Nat
    BY AbandonedIsFinite DEF Inv, TypeOK
  <2>5. QED
    BY <2>2, <2>3, <2>4
<1>6. \A f \in Fences : OnePerGraph(dependents'[f])
  BY <1>1, <1>3 DEF PoolInv, OnePerGraph
<1>7. QED
  BY <1>1, <1>2, <1>5, <1>6 DEF PoolInv, PoolIsBounded, OnePerGraph

\* A graph records once in a frame, and allocates only if it finds nothing free.
LEMMA RecordPool ==
  ASSUME Inv, PoolInv, NEW g \in Graphs, Record(g)
  PROVE  PoolInv'
<1>1. PICK i \in 1 .. pool[g] + 1 :
        /\ TakeBuffer(g, i)
        /\ inUse' = inUse \cup {<<g, i>>}
        /\ recorded' = recorded \cup {<<g, i>>}
  BY DEF Record
<1>2. /\ g \in toRecord /\ toRecord' = toRecord \ {g}
      /\ UNCHANGED <<dependents, failures>>
  BY DEF Record, fenceVars
<1>3. OnePerGraph(recorded') /\ \A b \in recorded' : b[1] \notin toRecord'
  BY <1>1, <1>2 DEF PoolInv, OnePerGraph
<1>4. pool \in [Graphs -> Nat] /\ failures \in Nat
  BY DEF Inv, TypeOK
<1>5. \A h \in Graphs : pool'[h] <= NumBuffers + failures
  <2>1. CASE Free(g) = {}
    BY <1>1, <1>4, <2>1, NoneIsFree DEF TakeBuffer, PoolInv, PoolIsBounded
  <2>2. CASE Free(g) # {}
    BY <1>1, <2>2 DEF TakeBuffer, PoolInv, PoolIsBounded
  <2>3. QED
    BY <2>1, <2>2
<1>6. \A h \in Graphs : Abandoned(h)' \subseteq Abandoned(h)
  <2>1. SUFFICES ASSUME NEW h \in Graphs, NEW n \in 1 .. pool'[h],
                        <<h, n>> \in inUse' \ recorded',
                        \A f \in Fences : <<h, n>> \notin dependents[f]
                 PROVE  n \in Abandoned(h)
    BY <1>2 DEF Abandoned
  <2>2. <<h, n>> \in inUse \ recorded
    BY <1>1, <2>1
  <2>3. n <= pool[h]
    BY <2>2 DEF Inv, Ownership
  <2>4. n \in 1 .. pool[h]
    BY <1>4, <2>1, <2>3
  <2>5. QED
    BY <2>1, <2>2, <2>4 DEF Abandoned
<1>7. \A h \in Graphs : Cardinality(Abandoned(h)') <= failures'
  <2>1. SUFFICES ASSUME NEW h \in Graphs PROVE Cardinality(Abandoned(h)') <= failures
    BY <1>2
  <2>2. /\ Cardinality(Abandoned(h)') <= Cardinality(Abandoned(h))
        /\ Cardinality(Abandoned(h)) <= failures
    BY <1>6, AbandonedShrinks DEF PoolInv
  <2>3. IsFiniteSet(Abandoned(h)') /\ Cardinality(Abandoned(h)') \in Nat
    BY <1>6, AbandonedIsFinite, FS_Subset, FS_CardinalityType
  <2>4. Cardinality(Abandoned(h)) \in Nat
    BY AbandonedIsFinite
  <2>5. QED
    BY <1>4, <2>2, <2>3, <2>4
<1>8. QED
  BY <1>2, <1>3, <1>5, <1>7 DEF PoolInv, PoolIsBounded

\* A frame that fails abandons one command buffer of each graph at most.
LEMMA FailurePool ==
  ASSUME Inv, PoolInv, FinishTransferFails
  PROVE  PoolInv'
<1>1. /\ recorded' = {} /\ failures' = failures + 1
      /\ UNCHANGED <<toRecord, pool, inUse, dependents>>
  BY DEF FinishTransferFails, fenceVars
<1>2. failures \in Nat
  BY DEF Inv, TypeOK
<1>3. ASSUME NEW g \in Graphs
      PROVE  Cardinality(Abandoned(g)') <= failures + 1
  <2>1. IsFiniteSet(Abandoned(g)) /\ Cardinality(Abandoned(g)) \in Nat
        /\ Cardinality(Abandoned(g)) <= failures
    BY AbandonedIsFinite DEF PoolInv
  <2>2. PICK n : Abandoned(g)' \subseteq Abandoned(g) \cup {n}
    <3>1. CASE \E i \in 1 .. pool[g] : <<g, i>> \in recorded
      <4>1. PICK i \in 1 .. pool[g] : <<g, i>> \in recorded
        BY <3>1
      <4>2. \A j \in 1 .. pool[g] : <<g, j>> \in recorded => j = i
        BY <4>1 DEF PoolInv, OnePerGraph
      <4>3. Abandoned(g)' \subseteq Abandoned(g) \cup {i}
        BY <1>1, <4>2 DEF Abandoned
      <4>4. QED
        BY <4>3
    <3>2. CASE ~ \E i \in 1 .. pool[g] : <<g, i>> \in recorded
      <4>1. Abandoned(g)' \subseteq Abandoned(g) \cup {0}
        BY <1>1, <3>2 DEF Abandoned
      <4>2. QED
        BY <4>1
    <3>3. QED
      BY <3>1, <3>2
  <2>3. /\ IsFiniteSet(Abandoned(g) \cup {n})
        /\ Cardinality(Abandoned(g) \cup {n}) <= failures + 1
        /\ Cardinality(Abandoned(g) \cup {n}) \in Nat
    <3>1. /\ IsFiniteSet(Abandoned(g) \cup {n})
          /\ Cardinality(Abandoned(g) \cup {n}) = IF n \in Abandoned(g)
                THEN Cardinality(Abandoned(g)) ELSE Cardinality(Abandoned(g)) + 1
      BY <2>1, FS_AddElement
    <3>2. QED
      BY <1>2, <2>1, <3>1
  <2>4. /\ IsFiniteSet(Abandoned(g)')
        /\ Cardinality(Abandoned(g)') <= Cardinality(Abandoned(g) \cup {n})
    BY <2>2, <2>3, FS_Subset
  <2>5. Cardinality(Abandoned(g)') \in Nat
    BY <2>4, FS_CardinalityType
  <2>6. QED
    BY <1>2, <2>3, <2>4, <2>5
<1>4. PoolIsBounded'
  BY <1>1, <1>2 DEF Inv, TypeOK, PoolInv, PoolIsBounded
<1>5. QED
  BY <1>1, <1>3, <1>4 DEF PoolInv, OnePerGraph

\* A submission hands over one command buffer of each graph at most to its fence,
\* whether the queue takes it or not.
LEMMA SubmitPool ==
  ASSUME Inv, PoolInv, FinishSubmit \/ FinishRefused
  PROVE  PoolInv'
<1> DEFINE c == Current
<1>1. c \in Fences /\ Fence(0) = c /\ dependents[c] = {}
  BY CurrentIsFence DEF FinishSubmit, FinishRefused, Inv, Phases, FenceIsFresh
<1>2. /\ recorded' = {}
      /\ dependents' = [dependents EXCEPT ![c] = recorded]
      /\ UNCHANGED <<toRecord, pool, inUse, failures>>
  BY <1>1 DEF FinishSubmit, FinishRefused
<1>3. /\ dependents'[c] = recorded
      /\ \A f \in Fences : f # c => dependents'[f] = dependents[f]
  BY <1>1, <1>2 DEF Inv, TypeOK
<1>4. \A g \in Graphs : Abandoned(g)' = Abandoned(g)
  BY <1>1, <1>2, <1>3 DEF Abandoned
<1>5. \A f \in Fences : OnePerGraph(dependents'[f])
  BY <1>3 DEF PoolInv
<1>6. QED
  BY <1>2, <1>4, <1>5 DEF PoolInv, PoolIsBounded, OnePerGraph

\* A graph never has more command buffers than there are fences and one for each
\* frame that was recorded and dropped: CommandGraph::record reuses them.
THEOREM PoolsStayBounded == Spec => []PoolIsBounded
<1>1. Init => PoolInv
  <2>1. SUFFICES ASSUME Init PROVE PoolInv
    OBVIOUS
  <2>2. \A g \in Graphs : Abandoned(g) = {}
    BY <2>1 DEF Init, Abandoned
  <2>3. QED
    BY <2>1, <2>2, FS_EmptySet DEF Init, PoolInv, PoolIsBounded, OnePerGraph
<1>2. Inv /\ PoolInv /\ [Next]_vars => PoolInv'
  <2>1. SUFFICES ASSUME Inv, PoolInv, [Next]_vars PROVE PoolInv'
    OBVIOUS
  <2>2. CASE Start
    BY <2>1, <2>2, StartPool
  <2>3. CASE FinishTransferFails
    BY <2>1, <2>3, FailurePool
  <2>4. CASE FinishSubmit \/ FinishRefused
    BY <2>1, <2>4, SubmitPool
  <2>5. CASE \E g \in Graphs : Record(g)
    BY <2>1, <2>5, RecordPool
  <2>6. CASE UNCHANGED <<toRecord, pool, inUse, recorded, dependents, failures>>
    BY <2>1, <2>6 DEF PoolInv, PoolIsBounded, Abandoned, OnePerGraph
  <2>7. QED
    BY <2>1, <2>2, <2>3, <2>4, <2>5, <2>6
    DEF Next, TaskStep, Advance, FinishEmpty, GpuCompletes, vars, taskVars, fenceVars
<1>3. PoolInv => PoolIsBounded
  BY DEF PoolInv
<1>4. QED
  BY <1>1, <1>2, <1>3, TaskInvariant, PTL DEF Spec
================================================================================

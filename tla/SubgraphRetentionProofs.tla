------------------------ MODULE SubgraphRetentionProofs ------------------------
(***************************************************************************)
(* For every number of references, buffers and frames: no frame in flight  *)
(* was recorded by way of a reference that has been dropped.               *)
(*                                                                         *)
(* The invariant dates everything.  A reference that is listed with due    *)
(* frames to wait was last recorded RetainForFrameCount + 1 - due frames   *)
(* before the pager's frame or earlier; one that is taken or deleted was   *)
(* last recorded RetainForFrameCount + 1 frames before it.  The fences     *)
(* keep only the last NumBuffers frames in flight, and these are later     *)
(* since NumBuffers <= RetainForFrameCount.                                *)
(***************************************************************************)
EXTENDS SubgraphRetention, SequenceTheorems, FiniteSetTheorems, TLAPS

Types == TypeOK /\ Frames!TypeOK /\ SystemTypeOK

\* The fences bound how far the GPU is behind.
Lag == \A f \in inFlight :
          /\ f <= frame
          /\ stage = "record" => f + NumBuffers > frame
          /\ stage = "update" => f + NumBuffers >= frame

\* The pager is updated once in the update of every frame, before it is recorded.
PagerFollows ==
    /\ stage = "record" => pagerFrame = frame
    /\ stage = "update" => pagerFrame = frame \/ pagerFrame + 1 = frame

UsesArePast == \A o \in Objects : \A u \in uses[o] : u <= frame /\ (stage = "update" => u < frame)

\* Reference o was last followed more than n frames before the pager's frame.
Unused(o, n) == \A u \in uses[o] : u + n + 1 <= pagerFrame

ListedIsUnused ==
    \A i \in DOMAIN objectsToDelete : \A u \in uses[objectsToDelete[i].object] :
        u + RetainForFrameCount + 1 <= pagerFrame + objectsToDelete[i].due

BatchIsUnused == \A i \in DOMAIN batch : Unused(batch[i].object, RetainForFrameCount)

DeletedIsUnused == \A o \in deleted : Unused(o, RetainForFrameCount)

\* A reference is not handed over while a PagedLOD holds it.
AttachedIsUnknown == attached \cap Known = {}

Inv ==
    /\ Types /\ Lag /\ PagerFollows /\ UsesArePast
    /\ ListedIsUnused /\ BatchIsUnused /\ DeletedIsUnused
    /\ AttachedIsUnknown

--------------------------------------------------------------------------------
USE RetainAssumption, RetentionAssumption DEF RetainAssumption, RetentionAssumption

\* Both lists of the delete queue hold entries, at the positions up to their length.
LEMMA ListTypes ==
  ASSUME Types
  PROVE  /\ objectsToDelete \in Seq(Entries) /\ Len(objectsToDelete) \in Nat
         /\ DOMAIN objectsToDelete = 1 .. Len(objectsToDelete)
         /\ \A i \in DOMAIN objectsToDelete : objectsToDelete[i] \in Entries
<1>1. objectsToDelete \in Seq(Entries)
  BY DEF Types, TypeOK
<1>2. QED
  BY <1>1, LenProperties, ElementOfSeq

\* The batch of the delete thread likewise.
LEMMA BatchTypes ==
  ASSUME Types
  PROVE  /\ batch \in Seq(Entries)
         /\ \A i \in DOMAIN batch : batch[i] \in Entries /\ batch[i].object \in Objects
<1>1. batch \in Seq(Entries)
  BY DEF Types, TypeOK
<1>2. DOMAIN batch = 1 .. Len(batch)
  BY <1>1, LenProperties
<1>3. \A i \in DOMAIN batch : batch[i] \in Entries
  BY <1>1, <1>2, ElementOfSeq
<1>4. QED
  BY <1>1, <1>3 DEF Entries

\* The invariant holds in the initial state.
LEMMA InitInv == SystemInit => Inv
<1>1. SUFFICES ASSUME SystemInit PROVE Inv
  OBVIOUS
<1>2. objectsToDelete = <<>> /\ batch = <<>>
  BY <1>1 DEF SystemInit, Init
<1>3. DOMAIN objectsToDelete = {} /\ DOMAIN batch = {}
  BY <1>2
<1>4. objectsToDelete \in Seq(Entries) /\ batch \in Seq(Entries)
  BY <1>2
<1>5. Types
  <2>1. TypeOK
    BY <1>1, <1>4 DEF TypeOK, SystemInit, Init
  <2>2. Frames!TypeOK
    BY <1>1 DEF Frames!TypeOK, SystemInit, Frames!Init
  <2>3. SystemTypeOK
    BY <1>1 DEF SystemTypeOK, SystemInit
  <2>4. QED
    BY <2>1, <2>2, <2>3 DEF Types
<1>6. Lag /\ PagerFollows /\ UsesArePast /\ DeletedIsUnused /\ AttachedIsUnknown
  BY <1>1 DEF Lag, PagerFollows, UsesArePast, DeletedIsUnused, AttachedIsUnknown,
              SystemInit, Init, Frames!Init
<1>7. ListedIsUnused /\ BatchIsUnused
  BY <1>3 DEF ListedIsUnused, BatchIsUnused
<1>8. QED
  BY <1>5, <1>6, <1>7 DEF Inv

--------------------------------------------------------------------------------
(* The calls of the pager.                                                 *)

\* Advancing the pager ages the list by as much as the pager's frame grows.
LEMMA UpdatePagerInv == Inv /\ UpdatePager => Inv'
<1>1. SUFFICES ASSUME Inv, UpdatePager PROVE Inv'
  OBVIOUS
<1>2. /\ objectsToDelete \in Seq(Entries)
      /\ DOMAIN objectsToDelete = 1 .. Len(objectsToDelete) /\ Len(objectsToDelete) \in Nat
  BY <1>1, ListTypes DEF Inv
<1>3. \A i \in 1 .. Len(objectsToDelete) : objectsToDelete[i] \in Entries
  BY <1>1, <1>2, ListTypes DEF Inv
<1>4. objectsToDelete' = [i \in 1 .. Len(objectsToDelete) |-> OneFrameOlder(objectsToDelete[i])]
  BY <1>1, <1>2 DEF UpdatePager, Advance
<1>5. \A e \in Entries : /\ OneFrameOlder(e) \in Entries
                         /\ OneFrameOlder(e).object = e.object
                         /\ OneFrameOlder(e).due = IF e.due = 0 THEN 0 ELSE e.due - 1
  BY DEF OneFrameOlder, Entries
<1>6. objectsToDelete' \in Seq(Entries)
  BY <1>2, <1>3, <1>4, <1>5
<1>7. pagerFrame + 1 = frame /\ pagerFrame' = frame /\ stage = "update"
  BY <1>1 DEF Inv, PagerFollows, UpdatePager
<1>8. frame \in Nat /\ pagerFrame \in Nat
  BY <1>1 DEF Inv, Types, Frames!TypeOK, SystemTypeOK
<1>9. /\ UNCHANGED <<frame, stage, inFlight, attached, uses, active>>
      /\ UNCHANGED <<delPc, batch, batchPrunes, deleted, sharedObjectsToPrune>>
  BY <1>1 DEF UpdatePager, Advance, threadVars
<1>10. Types'
  BY <1>1, <1>6, <1>7, <1>9 DEF Inv, Types, TypeOK, Frames!TypeOK, SystemTypeOK, UpdatePager, Advance
<1>11. (Lag /\ PagerFollows /\ UsesArePast)'
  BY <1>1, <1>7, <1>9 DEF Inv, Lag, PagerFollows, UsesArePast
<1>12. uses \in [Objects -> SUBSET (1 .. MaxFrame)]
  BY <1>1 DEF Inv, Types, SystemTypeOK
<1>13. ListedIsUnused'
  <2>1. SUFFICES ASSUME NEW i \in 1 .. Len(objectsToDelete), NEW u \in uses[objectsToDelete[i].object]
                 PROVE  u + RetainForFrameCount + 1
                            <= frame + OneFrameOlder(objectsToDelete[i]).due
    BY <1>3, <1>4, <1>5, <1>7, <1>9 DEF ListedIsUnused
  <2>2. objectsToDelete[i] \in Entries
    BY <1>3
  <2>3. objectsToDelete[i].due \in Nat /\ objectsToDelete[i].object \in Objects
    BY <2>2 DEF Entries
  <2>4. u \in Nat
    BY <1>12, <2>3
  <2>5. u + RetainForFrameCount + 1 <= pagerFrame + objectsToDelete[i].due
    BY <1>1, <1>2 DEF Inv, ListedIsUnused
  <2>6. OneFrameOlder(objectsToDelete[i]).due
          = IF objectsToDelete[i].due = 0 THEN 0 ELSE objectsToDelete[i].due - 1
    BY <1>5, <2>2
  <2>7. QED
    BY <1>7, <1>8, <2>3, <2>4, <2>5, <2>6
<1>14. \A o \in Objects : Unused(o, RetainForFrameCount) => Unused(o, RetainForFrameCount)'
  BY <1>7, <1>8, <1>9, <1>12 DEF Unused
<1>15. (BatchIsUnused /\ DeletedIsUnused)'
  <2>1. \A i \in DOMAIN batch : batch[i].object \in Objects
    BY <1>1, BatchTypes DEF Inv
  <2>2. deleted \subseteq Objects
    BY <1>1 DEF Inv, Types, TypeOK
  <2>3. QED
    BY <1>1, <1>9, <1>14, <2>1, <2>2 DEF Inv, BatchIsUnused, DeletedIsUnused
<1>16. ListedObjects' = ListedObjects
  <2>1. DOMAIN objectsToDelete' = DOMAIN objectsToDelete
    BY <1>2, <1>4
  <2>2. \A i \in DOMAIN objectsToDelete : objectsToDelete'[i].object = objectsToDelete[i].object
    BY <1>2, <1>3, <1>4, <1>5
  <2>3. QED
    BY <2>1, <2>2 DEF ListedObjects
<1>17. AttachedIsUnknown'
  BY <1>1, <1>9, <1>16 DEF Inv, AttachedIsUnknown, Known, BatchObjects
<1>18. QED
  BY <1>10, <1>11, <1>13, <1>15, <1>17 DEF Inv

\* What is merged is new: it is neither listed nor deleted.
LEMMA MergeSubgraphInv ==
  ASSUME Inv, NEW o \in Objects, MergeSubgraph(o)
  PROVE  Inv'
<1>1. /\ UNCHANGED <<frame, stage, inFlight, pagerFrame, uses, objectsToDelete, batch, deleted>>
      /\ UNCHANGED <<active, advanced, delPc, batchPrunes, sharedObjectsToPrune>>
      /\ attached' = attached \cup {o} /\ o \notin Known
  BY DEF MergeSubgraph, deleteVars, listVars, threadVars
<1>2. Types'
  BY <1>1 DEF Inv, Types, TypeOK, Frames!TypeOK, SystemTypeOK
<1>3. (Lag /\ PagerFollows /\ UsesArePast)'
  BY <1>1 DEF Inv, Lag, PagerFollows, UsesArePast
<1>4. (ListedIsUnused /\ BatchIsUnused /\ DeletedIsUnused)'
  BY <1>1 DEF Inv, ListedIsUnused, BatchIsUnused, DeletedIsUnused, Unused
<1>5. AttachedIsUnknown'
  BY <1>1 DEF Inv, AttachedIsUnknown, Known, ListedObjects, BatchObjects
<1>6. QED
  BY <1>2, <1>3, <1>4, <1>5 DEF Inv

\* A reference is listed before the frame is recorded, so its last use is in an
\* earlier frame.
LEMMA ExpireSubgraphInv ==
  ASSUME Inv, NEW o \in Objects, ExpireSubgraph(o)
  PROVE  Inv'
<1> DEFINE n == Len(objectsToDelete)
<1>1. /\ UNCHANGED <<frame, stage, inFlight, pagerFrame, uses, batch, deleted>>
      /\ UNCHANGED <<active, advanced, delPc, batchPrunes>>
      /\ attached' = attached \ {o}
      /\ objectsToDelete' = Append(objectsToDelete, Entry(o))
      /\ stage = "update" /\ pagerFrame = frame
  BY DEF ExpireSubgraph, AddPrune, Enlist, InUpdate, threadVars
<1>2. Entry(o) \in Entries /\ Entry(o).object = o /\ Entry(o).due = RetainForFrameCount
  BY DEF Entry, Entries
<1>3. objectsToDelete \in Seq(Entries) /\ n \in Nat /\ DOMAIN objectsToDelete = 1 .. n
  BY ListTypes DEF Inv
<1>4. /\ objectsToDelete' \in Seq(Entries) /\ Len(objectsToDelete') = n + 1
      /\ \A i \in 1 .. n : objectsToDelete'[i] = objectsToDelete[i]
      /\ objectsToDelete'[n + 1] = Entry(o)
  BY <1>1, <1>2, <1>3, AppendProperties
<1>5. DOMAIN objectsToDelete' = 1 .. (n + 1)
  BY <1>4, LenProperties
<1>6. ListedObjects' = ListedObjects \cup {o}
  BY <1>2, <1>3, <1>4, <1>5 DEF ListedObjects
<1>7. Types'
  BY <1>1, <1>4 DEF Inv, Types, TypeOK, Frames!TypeOK, SystemTypeOK
<1>8. (Lag /\ PagerFollows /\ UsesArePast)'
  BY <1>1 DEF Inv, Lag, PagerFollows, UsesArePast
<1>9. ListedIsUnused'
  <2>1. SUFFICES ASSUME NEW i \in 1 .. (n + 1), NEW u \in uses[objectsToDelete'[i].object]
                 PROVE  u + RetainForFrameCount + 1 <= pagerFrame + objectsToDelete'[i].due
    BY <1>1, <1>5 DEF ListedIsUnused
  <2>2. CASE i \in 1 .. n
    BY <1>3, <1>4, <2>1, <2>2 DEF Inv, ListedIsUnused
  <2>3. CASE i = n + 1
    <3>1. u \in uses[o] /\ u \in Nat /\ frame \in Nat
      BY <1>2, <1>4, <2>1, <2>3 DEF Inv, Types, SystemTypeOK, Frames!TypeOK
    <3>2. u < frame
      BY <1>1, <3>1 DEF Inv, UsesArePast
    <3>3. QED
      BY <1>1, <1>2, <1>4, <2>3, <3>1, <3>2
  <2>4. QED
    BY <1>3, <2>2, <2>3
<1>10. (BatchIsUnused /\ DeletedIsUnused)'
  BY <1>1 DEF Inv, BatchIsUnused, DeletedIsUnused, Unused
<1>11. AttachedIsUnknown'
  BY <1>1, <1>6 DEF Inv, AttachedIsUnknown, Known, BatchObjects
<1>12. QED
  BY <1>7, <1>8, <1>9, <1>10, <1>11 DEF Inv

--------------------------------------------------------------------------------
(* The delete thread.                                                      *)

\* The list is divided into what is taken and what stays.
LEMMA TakeSplits ==
  ASSUME Inv, Take
  PROVE  \E n \in 0 .. Len(objectsToDelete) :
           /\ ExpiredPrefix(n)
           /\ batch' \in Seq(Entries) /\ DOMAIN batch' = 1 .. n
           /\ \A i \in 1 .. n : batch'[i] = objectsToDelete[i]
           /\ objectsToDelete' \in Seq(Entries)
           /\ DOMAIN objectsToDelete' = 1 .. (Len(objectsToDelete) - n)
           /\ \A i \in 1 .. (Len(objectsToDelete) - n) : objectsToDelete'[i] = objectsToDelete[n + i]
<1> DEFINE len == Len(objectsToDelete)
<1>1. PICK n \in 0 .. len :
        /\ ExpiredPrefix(n)
        /\ batch' = SubSeq(objectsToDelete, 1, n)
        /\ objectsToDelete' = SubSeq(objectsToDelete, n + 1, len)
  BY DEF Take
<1>3. objectsToDelete \in Seq(Entries) /\ len \in Nat /\ DOMAIN objectsToDelete = 1 .. len
  BY ListTypes DEF Inv
<1>4. /\ batch' \in Seq(Entries) /\ DOMAIN batch' = 1 .. n
      /\ \A i \in 1 .. n : batch'[i] = objectsToDelete[i]
  <2>1. \A i \in 1 .. n : objectsToDelete[i] \in Entries
    BY <1>3, ElementOfSeq
  <2>2. /\ SubSeq(objectsToDelete, 1, n) \in Seq(Entries)
        /\ Len(SubSeq(objectsToDelete, 1, n)) = n
        /\ \A i \in 1 .. n : SubSeq(objectsToDelete, 1, n)[i] = objectsToDelete[i]
    BY <1>3, <2>1, SubSeqProperties
  <2>3. QED
    BY <1>1, <2>2, LenProperties
<1>5. /\ objectsToDelete' \in Seq(Entries) /\ DOMAIN objectsToDelete' = 1 .. (len - n)
      /\ \A i \in 1 .. (len - n) : objectsToDelete'[i] = objectsToDelete[n + i]
  <2>1. \A i \in (n + 1) .. len : objectsToDelete[i] \in Entries
    BY <1>3, ElementOfSeq
  <2>2. /\ SubSeq(objectsToDelete, n + 1, len) \in Seq(Entries)
        /\ Len(SubSeq(objectsToDelete, n + 1, len)) = len - n
        /\ \A i \in 1 .. (len - n) : SubSeq(objectsToDelete, n + 1, len)[i] = objectsToDelete[n + i]
    <3>1. /\ SubSeq(objectsToDelete, n + 1, len) \in Seq(Entries)
          /\ Len(SubSeq(objectsToDelete, n + 1, len))
               = IF n + 1 <= len THEN len - (n + 1) + 1 ELSE 0
          /\ \A i \in 1 .. len - (n + 1) + 1 :
                SubSeq(objectsToDelete, n + 1, len)[i] = objectsToDelete[(n + 1) + i - 1]
      BY <1>3, <2>1, n + 1 \in Int, len \in Int, SubSeqProperties
    <3>2. n \in Int /\ len \in Int /\ n <= len
      BY <1>3
    <3>3. len - (n + 1) + 1 = len - n
      BY <3>2
    <3>4. Len(SubSeq(objectsToDelete, n + 1, len)) = len - n
      <4>1. CASE n + 1 <= len
        BY <3>1, <3>3, <4>1
      <4>2. CASE ~(n + 1 <= len)
        BY <3>1, <3>2, <4>2
      <4>3. QED
        BY <4>1, <4>2
    <3>5. \A i \in 1 .. len - n : (n + 1) + i - 1 = n + i
      BY <3>2
    <3>6. QED
      BY <3>1, <3>3, <3>4, <3>5
  <2>3. QED
    BY <1>1, <2>2, LenProperties
<1>6. QED
  BY <1>1, <1>4, <1>5

\* What is taken is due: it has not been used for the frames of retention.
LEMMA TakeInv ==
  ASSUME Inv, Take, UNCHANGED <<frame, stage, inFlight, sceneVars>>
  PROVE  Inv'
<1> DEFINE len == Len(objectsToDelete)
<1>1. PICK n \in 0 .. len :
        /\ ExpiredPrefix(n)
        /\ batch' \in Seq(Entries) /\ DOMAIN batch' = 1 .. n
        /\ \A i \in 1 .. n : batch'[i] = objectsToDelete[i]
        /\ objectsToDelete' \in Seq(Entries)
        /\ DOMAIN objectsToDelete' = 1 .. (len - n)
        /\ \A i \in 1 .. (len - n) : objectsToDelete'[i] = objectsToDelete[n + i]
  BY TakeSplits
<1>2. /\ UNCHANGED <<frame, stage, inFlight, pagerFrame, attached, uses>>
      /\ UNCHANGED <<active, advanced, deleted>>
      /\ delPc' = "release"
  BY DEF Take, sceneVars
<1>3. objectsToDelete \in Seq(Entries) /\ len \in Nat /\ DOMAIN objectsToDelete = 1 .. len
  BY ListTypes DEF Inv
<1>4. /\ batch' \in Seq(Entries) /\ DOMAIN batch' = 1 .. n
      /\ \A i \in 1 .. n : batch'[i] = objectsToDelete[i]
  BY <1>1
<1>5. /\ objectsToDelete' \in Seq(Entries) /\ DOMAIN objectsToDelete' = 1 .. (len - n)
      /\ \A i \in 1 .. (len - n) : objectsToDelete'[i] = objectsToDelete[n + i]
  BY <1>1
<1>6. Types'
  BY <1>2, <1>4, <1>5 DEF Inv, Types, TypeOK, Frames!TypeOK, SystemTypeOK
<1>7. (Lag /\ PagerFollows /\ UsesArePast /\ DeletedIsUnused)'
  BY <1>2 DEF Inv, Lag, PagerFollows, UsesArePast, DeletedIsUnused, Unused
<1>8. ListedIsUnused'
  <2>1. \A i \in 1 .. (len - n) : n + i \in 1 .. len
    BY <1>3
  <2>2. QED
    BY <1>2, <1>3, <1>5, <2>1 DEF Inv, ListedIsUnused
<1>9. BatchIsUnused'
  <2>1. SUFFICES ASSUME NEW i \in 1 .. n, NEW u \in uses[objectsToDelete[i].object]
                 PROVE  u + RetainForFrameCount + 1 <= pagerFrame
    BY <1>2, <1>4 DEF BatchIsUnused, Unused
  <2>2. objectsToDelete[i].due = 0 /\ i \in DOMAIN objectsToDelete
    BY <1>1, <1>3 DEF ExpiredPrefix, Expired
  <2>3. u + RetainForFrameCount + 1 <= pagerFrame + objectsToDelete[i].due
    BY <2>2 DEF Inv, ListedIsUnused
  <2>4. pagerFrame \in Nat
    BY DEF Inv, Types, SystemTypeOK
  <2>5. QED
    BY <2>2, <2>3, <2>4
<1>10. ListedObjects' \subseteq ListedObjects /\ BatchObjects' \subseteq ListedObjects
  <2>1. \A i \in 1 .. (len - n) : n + i \in 1 .. len
    BY <1>3
  <2>2. ListedObjects' \subseteq ListedObjects
    BY <1>3, <1>5, <2>1 DEF ListedObjects
  <2>3. BatchObjects' \subseteq ListedObjects
    BY <1>3, <1>4 DEF ListedObjects, BatchObjects
  <2>4. QED
    BY <2>2, <2>3
<1>11. AttachedIsUnknown'
  BY <1>2, <1>10 DEF Inv, AttachedIsUnknown, Known
<1>12. QED
  BY <1>6, <1>7, <1>8, <1>9, <1>11 DEF Inv

\* The other steps of the thread change neither the list nor the scene.
LEMMA ThreadInv ==
  ASSUME Inv, Enter \/ Release \/ Prune, UNCHANGED <<frame, stage, inFlight, sceneVars>>
  PROVE  Inv'
<1>1. /\ UNCHANGED <<frame, stage, inFlight, pagerFrame, attached, uses>>
      /\ UNCHANGED <<active, objectsToDelete>>
  BY DEF Enter, Release, Prune, listVars, sceneVars
<1>2. (Frames!TypeOK /\ SystemTypeOK /\ Lag /\ PagerFollows /\ UsesArePast /\ ListedIsUnused)'
  BY <1>1 DEF Inv, Types, Frames!TypeOK, SystemTypeOK, Lag, PagerFollows, UsesArePast,
              ListedIsUnused
<1>3. ListedObjects' = ListedObjects
  BY <1>1 DEF ListedObjects
<1>4. /\ batch \in Seq(Entries) /\ BatchObjects \subseteq Objects
      /\ \A i \in DOMAIN batch : batch[i].object \in Objects
  BY BatchTypes DEF Inv, BatchObjects
<1>5. CASE Enter
  <2>1. UNCHANGED <<batch, deleted>> /\ advanced' = FALSE
        /\ delPc' \in {"wait", "exited"}
    BY <1>5 DEF Enter
  <2>2. TypeOK'
    BY <1>1, <2>1 DEF Inv, Types, TypeOK
  <2>3. (BatchIsUnused /\ DeletedIsUnused)'
    BY <1>1, <2>1 DEF Inv, BatchIsUnused, DeletedIsUnused, Unused
  <2>4. AttachedIsUnknown'
    BY <1>1, <1>3, <2>1 DEF Inv, AttachedIsUnknown, Known, BatchObjects
  <2>5. QED
    BY <1>2, <2>2, <2>3, <2>4 DEF Inv, Types
<1>6. CASE Release
  <2>1. /\ UNCHANGED <<batch, advanced>> /\ delPc' = "prune"
        /\ deleted' = deleted \cup BatchObjects
    BY <1>6 DEF Release
  <2>2. TypeOK'
    BY <1>1, <1>4, <2>1 DEF Inv, Types, TypeOK
  <2>3. BatchIsUnused'
    BY <1>1, <2>1 DEF Inv, BatchIsUnused, Unused
  <2>4. DeletedIsUnused'
    BY <1>1, <2>1 DEF Inv, BatchIsUnused, DeletedIsUnused, Unused, BatchObjects
  <2>5. AttachedIsUnknown'
    BY <1>1, <1>3, <2>1 DEF Inv, AttachedIsUnknown, Known, BatchObjects
  <2>6. QED
    BY <1>2, <2>2, <2>3, <2>4, <2>5 DEF Inv, Types
<1>7. CASE Prune
  <2>1. /\ UNCHANGED <<deleted, advanced>> /\ delPc' = "enter" /\ batch' = <<>>
    BY <1>7 DEF Prune
  <2>2. batch' \in Seq(Entries) /\ DOMAIN batch' = {} /\ BatchObjects' = {}
    BY <2>1 DEF BatchObjects
  <2>3. TypeOK'
    BY <1>1, <2>1, <2>2 DEF Inv, Types, TypeOK
  <2>4. (BatchIsUnused /\ DeletedIsUnused)'
    BY <1>1, <2>1, <2>2 DEF Inv, BatchIsUnused, DeletedIsUnused, Unused
  <2>5. AttachedIsUnknown'
    BY <1>1, <1>3, <2>1, <2>2 DEF Inv, AttachedIsUnknown, Known
  <2>6. QED
    BY <1>2, <2>3, <2>4, <2>5 DEF Inv, Types
<1>8. QED
  BY <1>5, <1>6, <1>7

--------------------------------------------------------------------------------
(* The frame loop and the GPU.                                             *)

\* Steps of the frame loop and the GPU leave the delete queue and the scene graph alone.
LEMMA QueueUntouched ==
  ASSUME Inv, UNCHANGED <<deleteVars, pagerFrame, attached>>
  PROVE  TypeOK' /\ AttachedIsUnknown'
<1>1. /\ UNCHANGED <<objectsToDelete, batch, deleted, pagerFrame, attached>>
      /\ UNCHANGED <<active, advanced, delPc, batchPrunes, sharedObjectsToPrune>>
  BY DEF deleteVars, listVars, threadVars
<1>2. TypeOK'
  BY <1>1 DEF Inv, Types, TypeOK
<1>3. AttachedIsUnknown'
  BY <1>1 DEF Inv, AttachedIsUnknown, Known, ListedObjects, BatchObjects
<1>4. QED
  BY <1>2, <1>3

\* A new frame puts the GPU one more frame behind; a recording then waits until it
\* has caught up.
LEMMA FrameInv ==
  ASSUME Inv,
         BeginFrame \/ StartRecording \/ \E f \in inFlight : CompleteFrame(f)
  PROVE  Inv'
<1>1. UNCHANGED <<deleteVars, pagerFrame, attached, uses>>
  BY DEF BeginFrame, StartRecording, CompleteFrame, sceneVars
<1>2. UNCHANGED <<objectsToDelete, batch, deleted>>
  BY <1>1 DEF deleteVars, listVars, threadVars
<1>3. TypeOK' /\ AttachedIsUnknown'
  BY <1>1, QueueUntouched
<1>4. SystemTypeOK'
  BY <1>1 DEF Inv, Types, SystemTypeOK
<1>5. (ListedIsUnused /\ BatchIsUnused /\ DeletedIsUnused)'
  BY <1>1, <1>2 DEF Inv, ListedIsUnused, BatchIsUnused, DeletedIsUnused, Unused
<1>6. /\ frame \in 0 .. MaxFrame /\ inFlight \subseteq 1 .. MaxFrame
      /\ pagerFrame \in 0 .. MaxFrame /\ uses \in [Objects -> SUBSET (1 .. MaxFrame)]
  BY DEF Inv, Types, Frames!TypeOK, SystemTypeOK
<1>7. (Frames!TypeOK /\ Lag /\ PagerFollows /\ UsesArePast)'
  <2>1. CASE BeginFrame
    <3>1. /\ stage = "record" /\ frame < MaxFrame /\ stage' = "update"
          /\ frame' = frame + 1 /\ inFlight' = inFlight
      BY <2>1 DEF BeginFrame, Frames!BeginFrame
    <3>2. Frames!TypeOK'
      BY <1>6, <3>1 DEF Frames!TypeOK
    <3>3. Lag'
      BY <1>6, <3>1 DEF Inv, Lag
    <3>4. PagerFollows'
      BY <1>1, <1>6, <3>1 DEF Inv, PagerFollows
    <3>5. UsesArePast'
      BY <1>1, <1>6, <3>1 DEF Inv, UsesArePast
    <3>6. QED
      BY <3>2, <3>3, <3>4, <3>5
  <2>2. CASE StartRecording
    <3>1. /\ stage = "update" /\ pagerFrame = frame /\ stage' = "record"
          /\ UNCHANGED <<frame, inFlight>>
          /\ \A f \in inFlight : f + NumBuffers > frame
      BY <2>2 DEF StartRecording, InUpdate, Frames!StartRecording
    <3>2. Frames!TypeOK'
      BY <1>6, <3>1 DEF Frames!TypeOK
    <3>3. Lag'
      BY <1>6, <3>1 DEF Inv, Lag
    <3>4. PagerFollows' /\ UsesArePast'
      BY <1>1, <3>1 DEF Inv, PagerFollows, UsesArePast
    <3>5. QED
      BY <3>2, <3>3, <3>4
  <2>3. CASE \E f \in inFlight : CompleteFrame(f)
    <3>1. inFlight' \subseteq inFlight /\ UNCHANGED <<frame, stage>>
      BY <2>3 DEF CompleteFrame, Frames!Complete
    <3>2. Frames!TypeOK' /\ Lag'
      BY <1>6, <3>1 DEF Inv, Types, Frames!TypeOK, Lag
    <3>3. PagerFollows' /\ UsesArePast'
      BY <1>1, <3>1 DEF Inv, PagerFollows, UsesArePast
    <3>4. QED
      BY <3>2, <3>3
  <2>4. QED
    BY <2>1, <2>2, <2>3
<1>8. QED
  BY <1>3, <1>4, <1>5, <1>7 DEF Inv, Types

\* Only references of the scene graph are followed, and none of these is listed,
\* taken or dropped.
LEMMA RecordAndSubmitInv ==
  ASSUME Inv, RecordAndSubmit
  PROVE  Inv'
<1>1. /\ UNCHANGED <<deleteVars, pagerFrame, attached, frame, stage>>
      /\ stage = "record" /\ frame > 0 /\ inFlight' = inFlight \cup {frame}
  BY DEF RecordAndSubmit, Frames!Submit
<1>2. UNCHANGED <<objectsToDelete, batch, deleted>>
  BY <1>1 DEF deleteVars, listVars, threadVars
<1>3. PICK visible \in SUBSET attached :
        uses' = [o \in Objects |-> uses[o] \cup (IF o \in visible THEN {frame} ELSE {})]
  BY DEF RecordAndSubmit
<1>4. TypeOK' /\ AttachedIsUnknown'
  BY <1>1, QueueUntouched
<1>5. /\ frame \in 1 .. MaxFrame /\ inFlight \subseteq 1 .. MaxFrame
      /\ pagerFrame \in 0 .. MaxFrame /\ uses \in [Objects -> SUBSET (1 .. MaxFrame)]
  BY <1>1 DEF Inv, Types, Frames!TypeOK, SystemTypeOK
<1>6. SystemTypeOK'
  <2>1. uses' \in [Objects -> SUBSET (1 .. MaxFrame)]
    BY <1>3, <1>5
  <2>2. QED
    BY <1>1, <2>1 DEF Inv, Types, SystemTypeOK
<1>7. (Frames!TypeOK /\ Lag /\ PagerFollows)'
  BY <1>1, <1>5 DEF Inv, Types, Frames!TypeOK, Lag, PagerFollows
<1>8. UsesArePast'
  BY <1>1, <1>3, <1>5 DEF Inv, UsesArePast
<1>9. \A o \in Objects \cap Known : uses'[o] = uses[o]
  BY <1>3, <1>5 DEF Inv, AttachedIsUnknown
<1>10. (ListedIsUnused /\ BatchIsUnused /\ DeletedIsUnused)'
  <2>1. \A i \in DOMAIN objectsToDelete : objectsToDelete[i].object \in Objects \cap Known
    BY ListTypes DEF Inv, Entries, Known, ListedObjects
  <2>2. \A i \in DOMAIN batch : batch[i].object \in Objects \cap Known
    BY BatchTypes DEF Inv, Known, BatchObjects
  <2>3. deleted \subseteq Objects \cap Known
    BY DEF Inv, Types, TypeOK, Known
  <2>4. ListedIsUnused'
    BY <1>1, <1>2, <1>9, <2>1 DEF Inv, ListedIsUnused
  <2>5. (BatchIsUnused /\ DeletedIsUnused)'
    BY <1>1, <1>2, <1>9, <2>2, <2>3 DEF Inv, BatchIsUnused, DeletedIsUnused, Unused
  <2>6. QED
    BY <2>4, <2>5
<1>11. QED
  BY <1>4, <1>6, <1>7, <1>8, <1>10 DEF Inv, Types

\* The delete thread is told to end; its list stays as it is.
LEMMA DestroyPagerInv ==
  ASSUME Inv, DestroyPager
  PROVE  Inv'
<1>1. /\ UNCHANGED <<frame, stage, inFlight, pagerFrame, attached, uses>>
      /\ UNCHANGED <<objectsToDelete, batch, deleted, delPc, advanced>>
      /\ active' = FALSE
  BY DEF DestroyPager, Stop, listVars, threadVars, sceneVars
<1>2. Types'
  BY <1>1 DEF Inv, Types, TypeOK, Frames!TypeOK, SystemTypeOK
<1>3. (Lag /\ PagerFollows /\ UsesArePast)'
  BY <1>1 DEF Inv, Lag, PagerFollows, UsesArePast
<1>4. (ListedIsUnused /\ BatchIsUnused /\ DeletedIsUnused)'
  BY <1>1 DEF Inv, ListedIsUnused, BatchIsUnused, DeletedIsUnused, Unused
<1>5. AttachedIsUnknown'
  BY <1>1 DEF Inv, AttachedIsUnknown, Known, ListedObjects, BatchObjects
<1>6. QED
  BY <1>2, <1>3, <1>4, <1>5 DEF Inv

--------------------------------------------------------------------------------
\* The invariant holds in every state of the viewer, its pager and the GPU.
THEOREM RetentionInvariant == SystemSpec => []Inv
<1>1. SystemInit => Inv
  BY InitInv
<1>2. Inv /\ [SystemNext]_systemVars => Inv'
  <2>1. SUFFICES ASSUME Inv, [SystemNext]_systemVars PROVE Inv'
    OBVIOUS
  <2>2. CASE BeginFrame \/ StartRecording \/ \E f \in inFlight : CompleteFrame(f)
    BY <2>1, <2>2, FrameInv
  <2>3. CASE UpdatePager
    BY <2>1, <2>3, UpdatePagerInv
  <2>4. CASE RecordAndSubmit
    BY <2>1, <2>4, RecordAndSubmitInv
  <2>5. CASE DeleteStep
    <3>1. CASE Take
      BY <2>1, <2>5, <3>1, TakeInv DEF DeleteStep
    <3>2. CASE Enter \/ Release \/ Prune
      BY <2>1, <2>5, <3>2, ThreadInv DEF DeleteStep
    <3>3. QED
      BY <2>5, <3>1, <3>2 DEF DeleteStep, DeleteThread
  <2>6. CASE \E o \in Objects : MergeSubgraph(o) \/ ExpireSubgraph(o)
    BY <2>1, <2>6, MergeSubgraphInv, ExpireSubgraphInv
  <2>9. CASE DestroyPager
    BY <2>1, <2>9, DestroyPagerInv
  <2>7. CASE UNCHANGED systemVars
    <3>1. /\ UNCHANGED <<frame, stage, inFlight, pagerFrame, attached, uses>>
          /\ UNCHANGED <<objectsToDelete, batch, deleted, deleteVars>>
      BY <2>7 DEF systemVars, sceneVars, deleteVars, listVars, threadVars
    <3>2. TypeOK' /\ AttachedIsUnknown'
      BY <2>1, <3>1, QueueUntouched
    <3>3. (Frames!TypeOK /\ SystemTypeOK /\ Lag /\ PagerFollows /\ UsesArePast)'
      BY <2>1, <3>1 DEF Inv, Types, Frames!TypeOK, SystemTypeOK, Lag, PagerFollows, UsesArePast
    <3>4. (ListedIsUnused /\ BatchIsUnused /\ DeletedIsUnused)'
      BY <2>1, <3>1 DEF Inv, ListedIsUnused, BatchIsUnused, DeletedIsUnused, Unused
    <3>5. QED
      BY <3>2, <3>3, <3>4 DEF Inv, Types
  <2>8. QED
    BY <2>1, <2>2, <2>3, <2>4, <2>5, <2>6, <2>7, <2>9 DEF SystemNext
<1>3. QED
  BY <1>1, <1>2, PTL DEF SystemSpec

\* Types of the composition's own variables.
THEOREM RetentionTypeOK == SystemSpec => []SystemTypeOK
<1>1. Inv => SystemTypeOK
  BY DEF Inv, Types
<1>2. QED
  BY <1>1, RetentionInvariant, PTL

\* No frame that is in flight was recorded by way of a reference that the queue has
\* dropped, if it retains for as many frames as there are buffers or more.
THEOREM NothingInUseIsDeleted == SystemSpec => []GpuUsesNothingDeleted
<1>1. Inv => GpuUsesNothingDeleted
  <2>1. SUFFICES ASSUME Inv, NEW o \in deleted, NEW f \in inFlight, f \in uses[o]
                 PROVE  FALSE
    BY DEF GpuUsesNothingDeleted
  <2>2. f + RetainForFrameCount + 1 <= pagerFrame
    BY <2>1 DEF Inv, DeletedIsUnused, Unused
  <2>3. frame \in Nat /\ f \in Nat /\ pagerFrame \in Nat /\ stage \in {"update", "record"}
    BY <2>1 DEF Inv, Types, Frames!TypeOK, SystemTypeOK
  <2>4. pagerFrame <= frame
    BY <2>1, <2>3 DEF Inv, PagerFollows
  <2>5. f + NumBuffers >= frame
    BY <2>1, <2>3 DEF Inv, Lag
  <2>6. QED
    BY <2>2, <2>3, <2>4, <2>5
<1>2. QED
  BY <1>1, RetentionInvariant, PTL

--------------------------------------------------------------------------------
(* The list of the delete queue: who owns an object, and its order.        *)

\* The list is ordered by the frames that its entries have still to wait for.
Ordered ==
    \A i, j \in DOMAIN objectsToDelete :
        i <= j => objectsToDelete[i].due <= objectsToDelete[j].due

QueueInv == OneOwner /\ Ordered

\* Advancing by a frame keeps the objects of the list and their order.
LEMMA UpdatePagerQueue ==
  ASSUME Inv, QueueInv, UpdatePager
  PROVE  QueueInv'
<1>1. /\ DOMAIN objectsToDelete = 1 .. Len(objectsToDelete)
      /\ \A i \in DOMAIN objectsToDelete : objectsToDelete[i] \in Entries
  BY ListTypes DEF Inv
<1>2. /\ objectsToDelete' = [i \in DOMAIN objectsToDelete |-> OneFrameOlder(objectsToDelete[i])]
      /\ UNCHANGED <<batch, deleted>>
  BY DEF UpdatePager, Advance, threadVars
<1>3. \A e \in Entries : /\ OneFrameOlder(e).object = e.object
                         /\ OneFrameOlder(e).due = IF e.due = 0 THEN 0 ELSE e.due - 1
                         /\ e.due \in Nat
  BY DEF OneFrameOlder, Entries
<1>4. /\ DOMAIN objectsToDelete' = DOMAIN objectsToDelete
      /\ \A i \in DOMAIN objectsToDelete :
            /\ objectsToDelete'[i].object = objectsToDelete[i].object
            /\ objectsToDelete[i].due \in Nat
            /\ objectsToDelete'[i].due
                 = IF objectsToDelete[i].due = 0 THEN 0 ELSE objectsToDelete[i].due - 1
  BY <1>1, <1>2, <1>3
<1>5. OneOwner'
  <2>1. ListedObjects' = ListedObjects /\ BatchObjects' = BatchObjects
    BY <1>2, <1>4 DEF ListedObjects, BatchObjects
  <2>2. QED
    BY <1>2, <1>4, <2>1 DEF QueueInv, OneOwner
<1>6. Ordered'
  BY <1>4 DEF QueueInv, Ordered
<1>7. QED
  BY <1>5, <1>6 DEF QueueInv

\* What is handed over is new to the queue, and has to wait longest.
LEMMA ExpireSubgraphQueue ==
  ASSUME Inv, QueueInv, NEW o \in Objects, ExpireSubgraph(o)
  PROVE  QueueInv'
<1> DEFINE n == Len(objectsToDelete)
<1>1. /\ UNCHANGED <<batch, deleted>>
      /\ objectsToDelete' = Append(objectsToDelete, Entry(o))
      /\ o \in attached
  BY DEF ExpireSubgraph, AddPrune, Enlist, threadVars
<1>2. Entry(o) \in Entries /\ Entry(o).object = o /\ Entry(o).due = RetainForFrameCount
  BY DEF Entry, Entries
<1>3. /\ objectsToDelete \in Seq(Entries) /\ n \in Nat /\ DOMAIN objectsToDelete = 1 .. n
      /\ \A i \in 1 .. n : objectsToDelete[i].due \in 0 .. RetainForFrameCount
  BY ListTypes DEF Inv, Entries
<1>4. /\ objectsToDelete' \in Seq(Entries) /\ Len(objectsToDelete') = n + 1
      /\ \A i \in 1 .. n : objectsToDelete'[i] = objectsToDelete[i]
      /\ objectsToDelete'[n + 1] = Entry(o)
  BY <1>1, <1>2, <1>3, AppendProperties
<1>5. DOMAIN objectsToDelete' = 1 .. (n + 1)
  BY <1>4, LenProperties
<1>6. o \notin ListedObjects \cup BatchObjects \cup deleted
  BY <1>1 DEF Inv, AttachedIsUnknown, Known
<1>7. \A i \in 1 .. n : objectsToDelete[i].object # o
  BY <1>3, <1>6 DEF ListedObjects
<1>8. OneOwner'
  <2>1. ListedObjects' = ListedObjects \cup {o} /\ BatchObjects' = BatchObjects
    BY <1>1, <1>2, <1>3, <1>4, <1>5 DEF ListedObjects, BatchObjects
  <2>2. ListedObjects' \cap (BatchObjects \cup deleted)' = {}
    BY <1>1, <1>6, <2>1 DEF QueueInv, OneOwner
  <2>3. \A i, j \in 1 .. (n + 1) :
          objectsToDelete'[i].object = objectsToDelete'[j].object => i = j
    <3>1. \A i \in 1 .. (n + 1) : i \in 1 .. n \/ i = n + 1
      BY <1>3
    <3>2. QED
      BY <1>2, <1>3, <1>4, <1>7, <3>1 DEF QueueInv, OneOwner
  <2>4. QED
    BY <1>5, <2>2, <2>3 DEF OneOwner
<1>9. Ordered'
  <2>1. SUFFICES ASSUME NEW i \in 1 .. (n + 1), NEW j \in 1 .. (n + 1), i <= j
                 PROVE  objectsToDelete'[i].due <= objectsToDelete'[j].due
    BY <1>5 DEF Ordered
  <2>2. CASE j \in 1 .. n
    <3>1. i \in 1 .. n
      BY <1>3, <2>1, <2>2
    <3>2. objectsToDelete[i].due <= objectsToDelete[j].due
      BY <1>3, <2>1, <2>2, <3>1 DEF QueueInv, Ordered
    <3>3. QED
      BY <1>4, <2>2, <3>1, <3>2
  <2>3. CASE j = n + 1
    BY <1>2, <1>3, <1>4, <2>1, <2>3
  <2>4. QED
    BY <1>3, <2>2, <2>3
<1>10. QED
  BY <1>8, <1>9 DEF QueueInv

\* The list is divided into what is taken and what stays, and because it is ordered
\* nothing that stays is due.
LEMMA TakeQueue ==
  ASSUME Inv, QueueInv, Take
  PROVE  /\ QueueInv'
         /\ \A i \in DOMAIN objectsToDelete' : ~Expired(objectsToDelete'[i])
<1> DEFINE len == Len(objectsToDelete)
<1>1. PICK n \in 0 .. len :
        /\ ExpiredPrefix(n)
        /\ batch' \in Seq(Entries) /\ DOMAIN batch' = 1 .. n
        /\ \A i \in 1 .. n : batch'[i] = objectsToDelete[i]
        /\ objectsToDelete' \in Seq(Entries)
        /\ DOMAIN objectsToDelete' = 1 .. (len - n)
        /\ \A i \in 1 .. (len - n) : objectsToDelete'[i] = objectsToDelete[n + i]
  BY TakeSplits
<1>2. deleted' = deleted
  BY DEF Take
<1>3. /\ len \in Nat /\ DOMAIN objectsToDelete = 1 .. len
      /\ objectsToDelete \in Seq(Entries)
      /\ \A i \in 1 .. len : objectsToDelete[i].due \in Nat
  BY ListTypes DEF Inv, Entries
<1>4. /\ batch' \in Seq(Entries) /\ DOMAIN batch' = 1 .. n
      /\ \A i \in 1 .. n : batch'[i] = objectsToDelete[i]
  BY <1>1
<1>5. /\ objectsToDelete' \in Seq(Entries) /\ DOMAIN objectsToDelete' = 1 .. (len - n)
      /\ \A i \in 1 .. (len - n) : objectsToDelete'[i] = objectsToDelete[n + i]
  BY <1>1
<1>6. \A i \in 1 .. (len - n) : n + i \in 1 .. len /\ n + 1 \in 1 .. len /\ n + 1 <= n + i /\ n < len
  BY <1>3
<1>7. OneOwner'
  <2>1. \A i, j \in DOMAIN objectsToDelete' :
          objectsToDelete'[i].object = objectsToDelete'[j].object => i = j
    <3>1. SUFFICES ASSUME NEW i \in 1 .. (len - n), NEW j \in 1 .. (len - n),
                          objectsToDelete[n + i].object = objectsToDelete[n + j].object
                   PROVE  i = j
      BY <1>5
    <3>2. n + i = n + j
      BY <1>3, <1>6, <3>1 DEF QueueInv, OneOwner
    <3>3. QED
      BY <1>3, <3>2
  <2>2. ListedObjects' \subseteq ListedObjects
    BY <1>3, <1>5, <1>6 DEF ListedObjects
  <2>3. ListedObjects' \cap BatchObjects' = {}
    <3>1. SUFFICES \A i \in 1 .. (len - n), j \in 1 .. n :
                      objectsToDelete[n + i].object # objectsToDelete[j].object
      <4>1. \A x \in BatchObjects' : \E j \in 1 .. n : x = objectsToDelete[j].object
        BY <1>4 DEF BatchObjects
      <4>2. \A x \in ListedObjects' : \E i \in DOMAIN objectsToDelete' : x = objectsToDelete'[i].object
        BY DEF ListedObjects
      <4>3. \A x \in ListedObjects' : \E i \in 1 .. (len - n) : x = objectsToDelete[n + i].object
        <5>1. TAKE x \in ListedObjects'
        <5>2. PICK i \in 1 .. (len - n) : x = objectsToDelete'[i].object
          BY <1>5, <4>2
        <5>3. objectsToDelete'[i] = objectsToDelete[n + i]
          BY <1>5
        <5>4. QED
          BY <5>2, <5>3
      <4>4. SUFFICES ASSUME NEW x \in ListedObjects', x \in BatchObjects' PROVE FALSE
        OBVIOUS
      <4>5. PICK i \in 1 .. (len - n) : x = objectsToDelete[n + i].object
        BY <4>3
      <4>6. PICK j \in 1 .. n : x = objectsToDelete[j].object
        BY <4>1, <4>4
      <4>7. QED
        BY <3>1, <4>5, <4>6
    <3>2. \A i \in 1 .. (len - n), j \in 1 .. n :
             n + i \in 1 .. len /\ j \in 1 .. len /\ n + i # j
      BY <1>3
    <3>3. QED
      BY <1>3, <3>2 DEF QueueInv, OneOwner
  <2>4. QED
    BY <1>2, <2>1, <2>2, <2>3 DEF QueueInv, OneOwner
<1>8. Ordered'
  <2>1. \A i, j \in 1 .. (len - n) : i <= j => n + i <= n + j
    BY <1>3
  <2>2. QED
    BY <1>3, <1>5, <1>6, <2>1 DEF QueueInv, Ordered
<1>9. \A i \in DOMAIN objectsToDelete' : ~Expired(objectsToDelete'[i])
  <2>1. SUFFICES ASSUME NEW i \in 1 .. (len - n) PROVE objectsToDelete[n + i].due # 0
    BY <1>5 DEF Expired
  <2>2. objectsToDelete[n + 1].due # 0
    BY <1>1, <1>6 DEF ExpiredPrefix, Expired
  <2>3. objectsToDelete[n + 1].due <= objectsToDelete[n + i].due
    BY <1>3, <1>6 DEF QueueInv, Ordered
  <2>4. objectsToDelete[n + 1].due \in Nat /\ objectsToDelete[n + i].due \in Nat
    BY <1>3, <1>6
  <2>5. QED
    BY <2>2, <2>3, <2>4
<1>10. QED
  BY <1>7, <1>8, <1>9 DEF QueueInv

\* The other steps of the thread do not touch the list, and what they delete is
\* what they have taken.
LEMMA ThreadQueue ==
  ASSUME QueueInv, Enter \/ Release \/ Prune
  PROVE  QueueInv'
<1>1. objectsToDelete' = objectsToDelete
  BY DEF Enter, Release, Prune, listVars
<1>2. (BatchObjects \cup deleted)' \subseteq BatchObjects \cup deleted
  BY DEF Enter, Release, Prune, BatchObjects
<1>3. QED
  BY <1>1, <1>2 DEF QueueInv, OneOwner, Ordered, ListedObjects

\* Ownership and order hold throughout.
THEOREM QueueIsSound == SystemSpec => []QueueInv
<1>1. SystemInit => QueueInv
  BY DEF SystemInit, Init, QueueInv, OneOwner, Ordered, ListedObjects, BatchObjects
<1>2. Inv /\ QueueInv /\ [SystemNext]_systemVars => QueueInv'
  <2>1. SUFFICES ASSUME Inv, QueueInv, [SystemNext]_systemVars PROVE QueueInv'
    OBVIOUS
  <2>2. CASE UpdatePager
    BY <2>1, <2>2, UpdatePagerQueue
  <2>3. CASE \E o \in Objects : ExpireSubgraph(o)
    BY <2>1, <2>3, ExpireSubgraphQueue
  <2>4. CASE DeleteStep
    BY <2>1, <2>4, TakeQueue, ThreadQueue DEF DeleteStep, DeleteThread
  <2>5. CASE UNCHANGED <<objectsToDelete, batch, deleted>>
    BY <2>1, <2>5 DEF QueueInv, OneOwner, Ordered, ListedObjects, BatchObjects
  <2>6. CASE \/ DestroyPager \/ BeginFrame \/ StartRecording \/ RecordAndSubmit
             \/ \E f \in inFlight : CompleteFrame(f)
             \/ \E o \in Objects : MergeSubgraph(o)
             \/ UNCHANGED systemVars
    <3>1. UNCHANGED <<objectsToDelete, batch, deleted>>
      BY <2>6 DEF DestroyPager, Stop, BeginFrame, StartRecording, RecordAndSubmit, CompleteFrame,
                  MergeSubgraph, systemVars, deleteVars, listVars, threadVars
    <3>2. QED
      BY <2>5, <3>1
  <2>7. QED
    BY <2>1, <2>2, <2>3, <2>4, <2>6 DEF SystemNext
<1>3. QED
  BY <1>1, <1>2, RetentionInvariant, PTL DEF SystemSpec

\* A reference is in one place at most: in the list, in the batch, or dropped.
THEOREM ObjectsHaveOneOwner == SystemSpec => []OneOwner
<1>1. QueueInv => OneOwner
  BY DEF QueueInv
<1>2. QED
  BY <1>1, QueueIsSound, PTL

\* The thread looks no further than the first entry that is not due, and never
\* leaves one behind that is.
THEOREM NothingDueStays == SystemSpec => TakeMissesNothing
<1>1. Inv /\ QueueInv /\ [SystemNext]_systemVars
        => [delPc = "wait" /\ delPc' = "release"
              => \A i \in DOMAIN objectsToDelete' : ~Expired(objectsToDelete'[i])]_deleteVars
  <2>1. SUFFICES ASSUME Inv, QueueInv, [SystemNext]_systemVars,
                        delPc = "wait", delPc' = "release"
                 PROVE  \A i \in DOMAIN objectsToDelete' : ~Expired(objectsToDelete'[i])
    OBVIOUS
  <2>2. CASE Take
    BY <2>1, <2>2, TakeQueue
  <2>3. CASE ~Take
    <3>1. delPc' = delPc \/ Enter \/ Release \/ Prune
      BY <2>1, <2>3 DEF SystemNext, DestroyPager, Stop, BeginFrame, StartRecording, RecordAndSubmit,
           CompleteFrame, MergeSubgraph, ExpireSubgraph, AddPrune, UpdatePager, Advance, DeleteStep,
           DeleteThread, systemVars, deleteVars, listVars, threadVars
    <3>2. QED
      BY <2>1, <3>1 DEF Enter, Release, Prune
  <2>4. QED
    BY <2>2, <2>3
<1>2. QED
  BY <1>1, RetentionInvariant, QueueIsSound, PTL DEF SystemSpec, TakeMissesNothing

--------------------------------------------------------------------------------
\* The frame loop inside the composition is the one that RecordAndSubmitTask
\* implements.
THEOREM FramesAreFramesInFlight == SystemSpec => Frames!Spec
<1>1. SystemInit => Frames!Init
  BY DEF SystemInit
<1>2. [SystemNext]_systemVars => [Frames!Next]_(Frames!frameVars)
  <2>1. SUFFICES ASSUME [SystemNext]_systemVars PROVE [Frames!Next]_(Frames!frameVars)
    OBVIOUS
  <2>2. CASE BeginFrame \/ StartRecording \/ RecordAndSubmit \/ \E f \in inFlight : CompleteFrame(f)
    BY <2>2 DEF BeginFrame, StartRecording, RecordAndSubmit, CompleteFrame, Frames!Next
  <2>3. CASE UpdatePager \/ DeleteStep \/ DestroyPager \/ UNCHANGED systemVars
    BY <2>3 DEF UpdatePager, DeleteStep, DestroyPager, systemVars, Frames!frameVars
  <2>4. CASE \E o \in Objects : MergeSubgraph(o) \/ ExpireSubgraph(o)
    BY <2>4 DEF MergeSubgraph, ExpireSubgraph, Frames!frameVars
  <2>5. QED
    BY <2>1, <2>2, <2>3, <2>4 DEF SystemNext
<1>3. QED
  BY <1>1, <1>2, PTL DEF SystemSpec, Frames!Spec

--------------------------------------------------------------------------------
(* The reference counts that the deletion of a subgraph relies on: the     *)
(* queue deletes a subgraph by dropping its reference, and whoever has     *)
(* another one, also one that an observer_ptr was converted to, keeps the  *)
(* object.  A ref_ptr is never left with a deleted object, for any threads *)
(* and any number of references.                                           *)

CONSTANTS ObjectThreads, References, NoThread
VARIABLES owner, referenceCount, connected, observers, auxiliaryCount, auxiliaryDeleted,
          objectDeleted, pc

Object == INSTANCE ObjectLifetime WITH Threads <- ObjectThreads, deleted <- objectDeleted

\* The count is exact; once the Auxiliary is disconnected nobody holds a reference, and
\* only then the object is deleted.
LifetimeInv ==
    /\ Object!TypeOK
    /\ referenceCount = Cardinality(Object!Held)
    /\ ~connected => Object!Held = {}
    /\ objectDeleted => ~connected
    /\ \A t \in ObjectThreads : pc[t] = "delete" => ~connected

\* The references held are finitely many, and as many as the count says when one is
\* added or taken away.
LEMMA HeldIsFinite ==
    ASSUME Object!LifetimeAssumption
    PROVE  /\ IsFiniteSet(Object!Held)
           /\ Cardinality(Object!Held) \in Nat
           /\ Cardinality(Object!Held) = 0 <=> Object!Held = {}
<1>1. Object!Held \subseteq References BY DEF Object!Held
<1>2. IsFiniteSet(References)
    BY DEF Object!LifetimeAssumption, Object!IsFiniteSet, IsFiniteSet
<1>3. IsFiniteSet(Object!Held) BY <1>1, <1>2, FS_Subset
<1> QED BY <1>3, FS_CardinalityType, FS_EmptySet

\* A reference that comes into being is counted.
LEMMA HeldGrows ==
    ASSUME Object!LifetimeAssumption, Object!TypeOK,
           NEW u \in ObjectThreads, NEW r \in References \ Object!Held,
           owner' = [owner EXCEPT ![r] = u]
    PROVE  /\ owner' \in [References -> ObjectThreads \cup {NoThread}]
           /\ Object!Held' # {}
           /\ Cardinality(Object!Held') = Cardinality(Object!Held) + 1
<1>1. Object!Held' = Object!Held \cup {r}
    BY DEF Object!Held, Object!TypeOK, Object!LifetimeAssumption
<1>2. Cardinality(Object!Held \cup {r}) = Cardinality(Object!Held) + 1
    BY HeldIsFinite, FS_AddElement
<1> QED BY <1>1, <1>2 DEF Object!TypeOK

\* A reference that ends is no longer counted.
LEMMA HeldShrinks ==
    ASSUME Object!LifetimeAssumption, Object!TypeOK,
           NEW t \in ObjectThreads, NEW r \in Object!OwnedBy(t),
           owner' = [owner EXCEPT ![r] = NoThread]
    PROVE  /\ owner' \in [References -> ObjectThreads \cup {NoThread}]
           /\ Object!Held # {}
           /\ Cardinality(Object!Held') = Cardinality(Object!Held) - 1
<1>1. r \in Object!Held BY DEF Object!OwnedBy, Object!Held, Object!LifetimeAssumption
<1>2. Object!Held' = Object!Held \ {r}
    BY DEF Object!OwnedBy, Object!Held, Object!TypeOK, Object!LifetimeAssumption
<1>3. Cardinality(Object!Held \ {r}) = Cardinality(Object!Held) - 1
    BY <1>1, HeldIsFinite, FS_RemoveElement
<1> QED BY <1>1, <1>2, <1>3 DEF Object!TypeOK, Object!OwnedBy

\* The new object has the one reference of its creator.
LEMMA LifetimeInit ==
    ASSUME Object!LifetimeAssumption, Object!Init
    PROVE  LifetimeInv
<1>1. PICK t \in ObjectThreads, r \in References :
        /\ owner = [s \in References |-> IF s = r THEN t ELSE NoThread]
        /\ observers = {t}
    BY DEF Object!Init
<1>2. Object!Held = {r} BY <1>1 DEF Object!Held, Object!LifetimeAssumption
<1>3. Cardinality(Object!Held) = 1 BY <1>2, FS_Singleton
<1>4. /\ referenceCount = 1 /\ connected = TRUE /\ auxiliaryCount = 2
      /\ auxiliaryDeleted = FALSE /\ objectDeleted = FALSE
      /\ pc = [u \in ObjectThreads |-> "running"]
    BY DEF Object!Init
<1>5. Object!TypeOK BY <1>1, <1>4 DEF Object!TypeOK
<1> QED BY <1>3, <1>4, <1>5 DEF LifetimeInv

\* Every step keeps the invariant.
LEMMA LifetimeNext ==
    ASSUME Object!LifetimeAssumption, LifetimeInv, [Object!Next]_(Object!vars)
    PROVE  LifetimeInv'
<1> USE DEF LifetimeInv
<1>1. ASSUME NEW t \in ObjectThreads, NEW u \in ObjectThreads, Object!Ref(t, u) PROVE LifetimeInv'
    <2>1. PICK r \in References \ Object!Held : owner' = [owner EXCEPT ![r] = u]
        BY <1>1 DEF Object!Ref
    <2>2. connected BY <1>1 DEF Object!Ref, Object!OwnedBy, Object!Held, Object!LifetimeAssumption
    <2>3. /\ owner' \in [References -> ObjectThreads \cup {NoThread}]
          /\ Cardinality(Object!Held') = Cardinality(Object!Held) + 1
        BY <2>1, HeldGrows
    <2>4. referenceCount' \in Nat /\ referenceCount' = Cardinality(Object!Held')
        BY <1>1, <2>3, HeldIsFinite DEF Object!Ref
    <2>5. Object!TypeOK' BY <1>1, <2>3, <2>4 DEF Object!Ref, Object!TypeOK, Object!auxVars
    <2> QED BY <1>1, <2>2, <2>4, <2>5 DEF Object!Ref, Object!auxVars
<1>2. ASSUME NEW t \in ObjectThreads, Object!Unref(t) PROVE LifetimeInv'
    <2>1. PICK r \in Object!OwnedBy(t) : owner' = [owner EXCEPT ![r] = NoThread]
        BY <1>2 DEF Object!Unref
    <2>2. /\ owner' \in [References -> ObjectThreads \cup {NoThread}]
          /\ Object!Held # {}
          /\ Cardinality(Object!Held') = Cardinality(Object!Held) - 1
        BY <2>1, HeldShrinks
    <2>3. referenceCount' \in Nat /\ referenceCount' = Cardinality(Object!Held')
        BY <1>2, <2>2, HeldIsFinite DEF Object!Unref
    <2>4. Object!TypeOK' BY <1>2, <2>2, <2>3 DEF Object!Unref, Object!TypeOK, Object!auxVars
    <2>5. connected' /\ ~objectDeleted' /\ \A v \in ObjectThreads : pc'[v] # "delete"
        BY <1>2, <2>2 DEF Object!Unref, Object!TypeOK
    <2> QED BY <2>3, <2>4, <2>5
<1>3. ASSUME NEW t \in ObjectThreads, Object!KeepObject(t) PROVE LifetimeInv'
    <2>1. Object!Held' = Object!Held BY <1>3 DEF Object!KeepObject, Object!Held
    <2> QED BY <1>3, <2>1 DEF Object!KeepObject, Object!TypeOK, Object!auxVars
<1>4. ASSUME NEW t \in ObjectThreads, Object!Disconnect(t) PROVE LifetimeInv'
    <2>1. Object!Held' = Object!Held BY <1>4 DEF Object!Disconnect, Object!Held
    <2>2. Object!Held = {} BY <1>4, HeldIsFinite DEF Object!Disconnect, Object!TypeOK
    <2> QED BY <1>4, <2>1, <2>2 DEF Object!Disconnect, Object!TypeOK, Object!auxVars
<1>5. ASSUME NEW t \in ObjectThreads, Object!Delete(t) PROVE LifetimeInv'
    <2>1. Object!Held' = Object!Held BY <1>5 DEF Object!Delete, Object!Held
    <2> QED BY <1>5, <2>1 DEF Object!Delete, Object!UnrefAuxiliary, Object!TypeOK
<1>6. ASSUME NEW t \in ObjectThreads, Object!DropObserver(t) PROVE LifetimeInv'
    <2>1. Object!Held' = Object!Held BY <1>6 DEF Object!DropObserver, Object!Held
    <2> QED BY <1>6, <2>1 DEF Object!DropObserver, Object!UnrefAuxiliary, Object!TypeOK
<1>7. ASSUME NEW t \in ObjectThreads, NEW u \in ObjectThreads, Object!Observe(t, u)
      PROVE  LifetimeInv'
    <2>1. Object!Held' = Object!Held BY <1>7 DEF Object!Observe, Object!Held
    <2> QED BY <1>7, <2>1 DEF Object!Observe, Object!TypeOK
<1>8. ASSUME NEW t \in ObjectThreads, Object!Lock(t) PROVE LifetimeInv'
    <2>1. PICK r \in References \ Object!Held : owner' = [owner EXCEPT ![r] = t]
        BY <1>8 DEF Object!Lock
    <2>2. /\ owner' \in [References -> ObjectThreads \cup {NoThread}]
          /\ Cardinality(Object!Held') = Cardinality(Object!Held) + 1
        BY <2>1, HeldGrows
    <2> QED BY <1>8, <2>2, HeldIsFinite DEF Object!Lock, Object!TypeOK, Object!auxVars
<1>9. CASE UNCHANGED Object!vars BY <1>9 DEF Object!vars, Object!auxVars, Object!TypeOK, Object!Held
<1> QED BY <1>1, <1>2, <1>3, <1>4, <1>5, <1>6, <1>7, <1>8, <1>9 DEF Object!Next

\* The reference count is the number of references, and the object is deleted only when
\* there is none and there can be none any more.
THEOREM LifetimeInvariant ==
    ASSUME Object!LifetimeAssumption
    PROVE  Object!Spec => []LifetimeInv
<1>1. Object!Init => LifetimeInv BY LifetimeInit
<1>2. LifetimeInv /\ [Object!Next]_(Object!vars) => LifetimeInv' BY LifetimeNext
<1> QED BY <1>1, <1>2, PTL DEF Object!Spec

\* A ref_ptr is safe to use: its object is neither deleted nor about to be deleted
\* (observer_ptr.h:177-186, Auxiliary.cpp:68-84).
THEOREM LifetimeReferencesAreSafe ==
    ASSUME Object!LifetimeAssumption
    PROVE  Object!Spec => []Object!ReferencesAreSafe
<1>1. LifetimeInv => Object!ReferencesAreSafe BY DEF LifetimeInv, Object!ReferencesAreSafe
<1> QED BY <1>1, LifetimeInvariant, PTL
================================================================================

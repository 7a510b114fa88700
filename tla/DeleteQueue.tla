------------------------------- MODULE DeleteQueue -------------------------------
(***************************************************************************)
(* vsg::DeleteQueue: updateSceneGraph() hands over the subgraphs it has    *)
(* taken out of the scene graph, and a background thread deletes each of   *)
(* them RetainForFrameCount frames later, and then prunes the caches of    *)
(* shared objects that the subgraphs were loaded with.                     *)
(*                                                                         *)
(* The thread sleeps on a condition variable for at most 100 ms before it  *)
(* tests its condition again, so a notification only makes it faster; a    *)
(* sleeping thread is one whose Take is not enabled.                       *)
(*                                                                         *)
(* Frame counts occur only as differences: an entry carries the number of  *)
(* frames it has still to wait for, its frameCount - this->frameCount.     *)
(*                                                                         *)
(* The queue holds references, so Objects are the references to subgraphs: *)
(* each load of a PagedLOD makes one, a new one even if options->          *)
(* sharedObjects made vsg::read return a subgraph that another PagedLOD    *)
(* has, or that is still queued.  A subgraph lives as long as one of the   *)
(* references to it, or longer if a cache has it too.                      *)
(***************************************************************************)
EXTENDS Naturals, Sequences

CONSTANTS
    Objects,               \* references to subgraphs that are removed
    SharedOf,              \* [Objects -> caches], options->sharedObjects
    RetainForFrameCount    \* retainForFrameCount, 3 in the code

ASSUME RetainAssumption == RetainForFrameCount \in Nat

VARIABLES
    objectsToDelete,       \* _objectsToDelete
    sharedObjectsToPrune,  \* _sharedObjectsToPrune
    active,                \* _status
    delPc,                 \* delete thread: "enter", "wait", "release", "prune", "exited"
    advanced,              \* delete thread: frameCount # previous_frameCount
    batch, batchPrunes,    \* delete thread: its local lists
    deleted                \* references that have been dropped

listVars == <<objectsToDelete, sharedObjectsToPrune>>
threadVars == <<delPc, batch, batchPrunes, deleted>>
deleteVars == <<active, advanced, listVars, threadVars>>

Entries == [due : 0 .. RetainForFrameCount, object : Objects]

Init ==
    /\ active = TRUE
    /\ objectsToDelete = <<>> /\ sharedObjectsToPrune = {}
    /\ delPc = "enter" /\ advanced = FALSE
    /\ batch = <<>> /\ batchPrunes = {}
    /\ deleted = {}

--------------------------------------------------------------------------------
(* The calls of updateSceneGraph() and of the pager's destructor.          *)

OneFrameOlder(entry) == [entry EXCEPT !.due = IF @ = 0 THEN 0 ELSE @ - 1]

\* advance() by one frame
Advance ==
    /\ active
    /\ advanced' = TRUE
    /\ objectsToDelete' = [i \in DOMAIN objectsToDelete |-> OneFrameOlder(objectsToDelete[i])]
    /\ UNCHANGED <<active, sharedObjectsToPrune, threadVars>>

\* Mutant: retention starts with the frame before.
EntryOneEarly(object) == [due |-> RetainForFrameCount - 1, object |-> object]

Entry(object) == [due |-> RetainForFrameCount, object |-> object]

\* Mutant: the object is put at the front of the list.
EnlistAtFront(object) == <<Entry(object)>> \o objectsToDelete

Enlist(object) == Append(objectsToDelete, Entry(object))

\* add_prune of one object; several calls stand for a longer list.
AddPrune(object) ==
    /\ active
    /\ objectsToDelete' = Enlist(object)
    /\ sharedObjectsToPrune' = sharedObjectsToPrune \cup {SharedOf[object]}
    /\ UNCHANGED <<active, advanced, threadVars>>

ListedObjects == {objectsToDelete[i].object : i \in DOMAIN objectsToDelete}

\* ~DatabasePager: the status is cleared and the thread joined.
Stop ==
    /\ active
    /\ active' = FALSE
    /\ UNCHANGED <<advanced, listVars, threadVars>>

--------------------------------------------------------------------------------
(* The delete thread: wait_then_clear() in a loop.                         *)

Enter ==
    /\ delPc = "enter"
    /\ delPc' = IF active THEN "wait" ELSE "exited"
    /\ advanced' = FALSE
    /\ UNCHANGED <<active, listVars, batch, batchPrunes, deleted>>

Expired(entry) == entry.due = 0

\* find_if delimits the first n entries: they are expired and the next one is not.
ExpiredPrefix(n) ==
    /\ \A i \in 1 .. n : Expired(objectsToDelete[i])
    /\ n < Len(objectsToDelete) => ~Expired(objectsToDelete[n + 1])

WaitIsOver == (objectsToDelete # <<>> /\ advanced) \/ ~active

\* Mutant: the entries are taken and left in the list as well.
TakeAndKeep ==
    /\ delPc = "wait" /\ WaitIsOver
    /\ delPc' = "release"
    /\ \E n \in 0 .. Len(objectsToDelete) :
          ExpiredPrefix(n) /\ batch' = SubSeq(objectsToDelete, 1, n)
    /\ batchPrunes' = sharedObjectsToPrune
    /\ sharedObjectsToPrune' = {}
    /\ UNCHANGED <<active, advanced, objectsToDelete, deleted>>

\* The expired prefix and all caches to prune move to the local lists.
Take ==
    /\ delPc = "wait" /\ WaitIsOver
    /\ delPc' = "release"
    /\ \E n \in 0 .. Len(objectsToDelete) :
          /\ ExpiredPrefix(n)
          /\ batch' = SubSeq(objectsToDelete, 1, n)
          /\ objectsToDelete' = SubSeq(objectsToDelete, n + 1, Len(objectsToDelete))
    /\ batchPrunes' = sharedObjectsToPrune
    /\ sharedObjectsToPrune' = {}
    /\ UNCHANGED <<active, advanced, deleted>>

BatchObjects == {batch[i].object : i \in DOMAIN batch}

\* objectsToDelete.clear(), without the mutex
Release ==
    /\ delPc = "release"
    /\ delPc' = "prune"
    /\ deleted' = deleted \cup BatchObjects
    /\ UNCHANGED <<active, advanced, listVars, batch, batchPrunes>>

\* The caches are pruned only if something has been deleted; the local list of
\* caches is dropped in either case.
Prune ==
    /\ delPc = "prune"
    /\ delPc' = "enter"
    /\ batch' = <<>> /\ batchPrunes' = {}
    /\ UNCHANGED <<active, advanced, listVars, deleted>>

DeleteThread == Enter \/ Take \/ Release \/ Prune

--------------------------------------------------------------------------------
Known == ListedObjects \cup BatchObjects \cup deleted

TypeOK ==
    /\ active \in BOOLEAN /\ advanced \in BOOLEAN
    /\ objectsToDelete \in Seq(Entries) /\ batch \in Seq(Entries)
    /\ delPc \in {"enter", "wait", "release", "prune", "exited"}
    /\ deleted \subseteq Objects

\* A reference is in one place at most: in the list once, in the batch, or dropped.
\* None is dropped twice, or dropped and still listed.
OneOwner ==
    /\ \A i, j \in DOMAIN objectsToDelete :
          objectsToDelete[i].object = objectsToDelete[j].object => i = j
    /\ ListedObjects \cap (BatchObjects \cup deleted) = {}

\* The thread never looks beyond the first entry that is not expired, and misses
\* none: the list is ordered by frame.
TakeMissesNothing ==
    [][delPc = "wait" /\ delPc' = "release"
        => \A i \in DOMAIN objectsToDelete' : ~Expired(objectsToDelete'[i])]_deleteVars
================================================================================

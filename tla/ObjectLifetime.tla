----------------------------- MODULE ObjectLifetime -----------------------------
(***************************************************************************)
(* The life of one vsg::Object: its reference count, its Auxiliary, and    *)
(* the threads that share it through ref_ptr and observer_ptr.             *)
(*                                                                         *)
(* A strong reference is a member of References with the thread that owns  *)
(* it.  Dropping the last one and deciding whether to delete are separate  *)
(* steps: between them an observer may bring the object back.              *)
(***************************************************************************)
EXTENDS Naturals, FiniteSets

CONSTANTS
    Threads,
    References,      \* bound on the ref_ptrs that exist at a time
    NoThread         \* owner of a reference that does not exist

LifetimeAssumption == IsFiniteSet(References) /\ NoThread \notin Threads

VARIABLES
    owner,              \* [References -> Threads or NoThread]
    referenceCount,
    connected,          \* Auxiliary::_connectedObject # nullptr
    observers,          \* threads that have an observer_ptr
    auxiliaryCount,     \* Auxiliary::_referenceCount
    auxiliaryDeleted,
    deleted,
    pc                  \* what a thread is doing in unref()

vars == <<owner, referenceCount, connected, observers, auxiliaryCount, auxiliaryDeleted, deleted,
          pc>>

Held == {r \in References : owner[r] # NoThread}
OwnedBy(t) == {r \in References : owner[r] = t}

\* The thread that has created the object has its one reference and an observer_ptr,
\* hence an Auxiliary, before others know of it.
Init ==
    \E t \in Threads, r \in References :
        /\ owner = [s \in References |-> IF s = r THEN t ELSE NoThread]
        /\ referenceCount = 1 /\ connected = TRUE
        /\ observers = {t} /\ auxiliaryCount = 2 /\ auxiliaryDeleted = FALSE
        /\ deleted = FALSE /\ pc = [u \in Threads |-> "running"]

auxVars == <<observers, auxiliaryCount, auxiliaryDeleted>>

--------------------------------------------------------------------------------
(* ref_ptr                                                                 *)

\* A thread copies a reference of its own, for itself or for another thread.
Ref(t, u) ==
    /\ pc[t] = "running" /\ OwnedBy(t) # {}
    /\ \E r \in References \ Held : owner' = [owner EXCEPT ![r] = u]
    /\ referenceCount' = referenceCount + 1
    /\ UNCHANGED <<connected, auxVars, deleted, pc>>

Unref(t) ==
    /\ pc[t] = "running"
    /\ \E r \in OwnedBy(t) : owner' = [owner EXCEPT ![r] = NoThread]
    /\ referenceCount' = referenceCount - 1
    /\ pc' = [pc EXCEPT ![t] = IF referenceCount <= 1 THEN "attemptDelete" ELSE @]
    /\ UNCHANGED <<connected, auxVars, deleted>>

\* signalConnectedObjectToBeDeleted(), under the mutex of the Auxiliary.
KeepObject(t) ==
    /\ pc[t] = "attemptDelete" /\ connected /\ referenceCount > 0
    /\ pc' = [pc EXCEPT ![t] = "running"]
    /\ UNCHANGED <<owner, referenceCount, connected, auxVars, deleted>>

Disconnect(t) ==
    /\ pc[t] = "attemptDelete" /\ ~(connected /\ referenceCount > 0)
    /\ connected' = FALSE
    /\ pc' = [pc EXCEPT ![t] = "delete"]
    /\ UNCHANGED <<owner, referenceCount, auxVars, deleted>>

UnrefAuxiliary ==
    /\ auxiliaryCount' = IF auxiliaryCount = 0 THEN 0 ELSE auxiliaryCount - 1
    /\ auxiliaryDeleted' = (auxiliaryDeleted \/ auxiliaryCount <= 1)

\* delete this, and ~Object().
Delete(t) ==
    /\ pc[t] = "delete"
    /\ deleted' = TRUE
    /\ UnrefAuxiliary
    /\ pc' = [pc EXCEPT ![t] = "running"]
    /\ UNCHANGED <<owner, referenceCount, connected, observers>>

--------------------------------------------------------------------------------
(* observer_ptr                                                            *)

\* A copy of an observer_ptr, or one made from a ref_ptr, for the thread or for another.
Observe(t, u) ==
    /\ pc[t] = "running" /\ (t \in observers \/ OwnedBy(t) # {}) /\ u \notin observers
    /\ observers' = observers \cup {u}
    /\ auxiliaryCount' = auxiliaryCount + 1
    /\ UNCHANGED <<owner, referenceCount, connected, auxiliaryDeleted, deleted, pc>>

DropObserver(t) ==
    /\ pc[t] = "running" /\ t \in observers
    /\ observers' = observers \ {t}
    /\ UnrefAuxiliary
    /\ UNCHANGED <<owner, referenceCount, connected, deleted, pc>>

\* operator ref_ptr(): under the mutex; an observer that is disconnected gives null.
Lock(t) ==
    /\ pc[t] = "running" /\ t \in observers /\ connected
    /\ \E r \in References \ Held : owner' = [owner EXCEPT ![r] = t]
    /\ referenceCount' = referenceCount + 1
    /\ UNCHANGED <<connected, auxVars, deleted, pc>>

Next ==
    \E t \in Threads :
        \/ Unref(t) \/ KeepObject(t) \/ Disconnect(t) \/ Delete(t)
        \/ DropObserver(t) \/ Lock(t)
        \/ \E u \in Threads : Ref(t, u) \/ Observe(t, u)

Spec == Init /\ [][Next]_vars

--------------------------------------------------------------------------------

TypeOK ==
    /\ owner \in [References -> Threads \cup {NoThread}]
    /\ referenceCount \in Nat /\ connected \in BOOLEAN
    /\ observers \subseteq Threads /\ auxiliaryCount \in Nat /\ auxiliaryDeleted \in BOOLEAN
    /\ deleted \in BOOLEAN
    /\ pc \in [Threads -> {"running", "attemptDelete", "delete"}]

\* Whoever has a ref_ptr, copied or made from an observer_ptr at any moment of the
\* deletion, can safely access the object: it is neither deleted nor about to be.
ReferencesAreSafe ==
    Held # {} => ~deleted /\ \A t \in Threads : pc[t] # "delete"

\* The object is deleted by one thread, and no other thread asks a deleted object
\* whether to delete it (Object.cpp:97).
DeletedByOne ==
    /\ deleted => \A t \in Threads : pc[t] = "running"
    /\ \A t, u \in Threads : pc[t] = "delete" /\ pc[u] = "delete" => t = u
================================================================================

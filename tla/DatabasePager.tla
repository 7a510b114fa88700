----------------------------- MODULE DatabasePager -----------------------------
(***************************************************************************)
(* vsg::DatabasePager: the record traversal requests the high resolution   *)
(* child of a PagedLOD that comes close, read threads load and compile it, *)
(* and updateSceneGraph() merges it, or removes it again once it has not   *)
(* been used for a while and too many are loaded.                          *)
(*                                                                         *)
(* Actors: main, which alternates updateSceneGraph() with the recording of *)
(* the frame (module ViewerThreading shows that the two never overlap);    *)
(* Recorders, the threads whose record traversal visits the PagedLODs; and *)
(* Readers, the read threads started by start(), which run all the time.   *)
(*                                                                         *)
(* Frame numbers occur only as differences, so each PagedLOD carries the   *)
(* age of its last use, frameCount - frameHighResLastUsed, up to AgeLimit. *)
(***************************************************************************)
EXTENDS PagedLODContainer, SequencesExt

CONSTANTS
    Readers,
    Recorders,
    InactiveAge,     \* PagedLOD::highResActive, 3 in the code
    TargetMax,       \* targetMaxNumPagedLODWithHighResSubgraphs
    MaxLeaked        \* bound: recorders stop asking after this many leaks

Nobody == "nobody"   \* no PagedLOD at hand

ASSUME PagerAssumption ==
    /\ IsFiniteSet(Readers) /\ IsFiniteSet(Recorders)
    /\ Nobody \notin PagedLODs
    /\ InactiveAge \in Nat \ {0}
    /\ TargetMax \in Nat /\ MaxLeaked \in Nat

VARIABLES
    mainPc,          \* "update", "sweep", "expire", "merge" or "record"
    nodes,           \* main: what take_all() returned
    visit,           \* main: index of the element the expiry loop visits next, or 0
    keep,            \* main: targetNumInactive
    toRecord,        \* PagedLODs each recorder has yet to decide about in this frame
    recPc, recNode,  \* where each recorder is, and its PagedLOD
    snapshot,        \* newHighresRequired as read by a recorder's emplace_back
    readPc, readNode,
    age,             \* frameCount - frameHighResLastUsed
    status,          \* requestStatus
    requested,       \* requestCount > 0
    child,           \* children[0].node is set
    pending,         \* pending is set
    requestQueue, mergeQueue,    \* _requestQueue, _toMergeQueue
    numActive,       \* numActiveRequests
    leaked,          \* history: the calls of request() that queued nothing
    container,       \* pagedLODContainer
    newHighresRequired,      \* culledPagedLODs->newHighresRequired
    firstUse         \* history: when the child was first wanted

mainVars == <<mainPc, nodes, visit, keep>>
recVars == <<toRecord, recPc, recNode, snapshot>>
readVars == <<readPc, readNode>>
lodVars == <<age, status, requested, child, pending>>
queueVars == <<requestQueue, mergeQueue, numActive, leaked>>
trackVars == <<container, newHighresRequired, firstUse>>
vars == <<mainVars, recVars, readVars, lodVars, queueVars, trackVars>>

AgeLimit == InactiveAge + 1

Statuses == {"NoRequest", "ReadRequest", "Reading", "Compiling", "MergeRequest"}

Init ==
    /\ mainPc = "sweep" /\ nodes = <<>> /\ visit = 0 /\ keep = 0
    /\ toRecord = [c \in Recorders |-> {}]
    /\ recPc = [c \in Recorders |-> "visit"]
    /\ recNode = [c \in Recorders |-> Nobody]
    /\ snapshot = [c \in Recorders |-> <<>>]
    /\ readPc = [r \in Readers |-> "take"]
    /\ readNode = [r \in Readers |-> Nobody]
    /\ age = [p \in PagedLODs |-> 0]
    /\ status = [p \in PagedLODs |-> "NoRequest"]
    /\ requested = [p \in PagedLODs |-> FALSE]
    /\ child = [p \in PagedLODs |-> FALSE]
    /\ pending = [p \in PagedLODs |-> FALSE]
    /\ requestQueue = <<>> /\ mergeQueue = <<>> /\ numActive = 0 /\ leaked = 0
    /\ container = EmptyContainer /\ newHighresRequired = <<>>
    /\ firstUse = [p \in PagedLODs |-> "never"]

HighResActive(p) == age[p] <= InactiveAge

--------------------------------------------------------------------------------
(* updateSceneGraph, by main.                                              *)

\* The next frame: frameCount.exchange and take_all.
BeginUpdate ==
    /\ mainPc = "update"
    /\ mainPc' = "sweep"
    /\ age' = [p \in PagedLODs |-> IF age[p] = AgeLimit THEN AgeLimit ELSE age[p] + 1]
    /\ nodes' = mergeQueue
    /\ mergeQueue' = <<>>
    /\ UNCHANGED <<visit, keep, recVars, readVars, status, requested, child, pending>>
    /\ UNCHANGED <<requestQueue, numActive, leaked, trackVars>>

\* Mutant: the subgraphs about to be merged are not counted.
TargetNumInactiveOfLoaded(numActiveList, numInactiveList) ==
    LET total == numActiveList + numInactiveList
        remove == total - TargetMax
    IN  IF total > TargetMax
        THEN IF remove < numInactiveList THEN numInactiveList - remove ELSE 0
        ELSE numInactiveList

\* How many inactive PagedLODs may stay: targetNumInactive.
TargetNumInactive(numActiveList, numInactiveList) ==
    LET total == Len(nodes) + numActiveList + numInactiveList
        remove == total - TargetMax
    IN  IF total > TargetMax
        THEN IF remove < numInactiveList THEN numInactiveList - remove ELSE 0
        ELSE numInactiveList

InList(name) == {p \in PagedLODs : ListOf(container, p) = name}
Stale == {p \in InList("active") : ~HighResActive(p)}

\* Mutant: the PagedLODs that are required again stay in the inactive list.
SweepKeepsInactive ==
    /\ mainPc = "sweep"
    /\ mainPc' = "expire"
    /\ \E culled \in SetToSeqs(Stale) :
          container' = FoldLeft(Active, FoldLeft(Inactive, container, culled),
                                SelectSeq(newHighresRequired, LAMBDA p : container.index[p] = 0))
    /\ newHighresRequired' = <<>>
    /\ visit' = container'.lists["inactive"].head
    /\ keep' = TargetNumInactive(container'.lists["active"].count,
                                 container'.lists["inactive"].count)
    /\ UNCHANGED <<nodes, recVars, readVars, lodVars, queueVars, firstUse>>

\* Active PagedLODs that have not been used become inactive, first those of
\* highresCulled in the order in which they were culled, so the order is open; those
\* that are newly required become active.
SweepContainer ==
    /\ mainPc = "sweep"
    /\ mainPc' = "expire"
    /\ \E culled \in SetToSeqs(Stale) :
          container' = FoldLeft(Active, FoldLeft(Inactive, container, culled), newHighresRequired)
    /\ newHighresRequired' = <<>>
    /\ visit' = container'.lists["inactive"].head
    /\ keep' = TargetNumInactive(container'.lists["active"].count,
                                 container'.lists["inactive"].count)
    /\ UNCHANGED <<nodes, recVars, readVars, lodVars, queueVars, firstUse>>

StillExpiring == visit # 0 /\ container.lists["inactive"].count > keep

\* Mutant: a request in flight does not protect a PagedLOD.
ExpireRegardless ==
    LET element == container.elements[visit]
        p == element.plod
    IN  /\ mainPc = "expire" /\ StillExpiring
        /\ visit' = element.next
        /\ child' = [child EXCEPT ![p] = FALSE]
        /\ requested' = [requested EXCEPT ![p] = FALSE]
        /\ status' = [status EXCEPT ![p] = "NoRequest"]
        /\ pending' = [pending EXCEPT ![p] = FALSE]
        /\ container' = Removed(container, p)
        /\ UNCHANGED <<mainPc, nodes, keep, recVars, readVars, age, queueVars>>
        /\ UNCHANGED <<newHighresRequired, firstUse>>

\* One turn of the expiry loop, from the one that has been inactive longest: a
\* PagedLOD with a request in flight is left alone.
Expire ==
    LET element == container.elements[visit]
        p == element.plod
    IN  /\ mainPc = "expire" /\ StillExpiring
        /\ visit' = element.next
        /\ IF status[p] = "NoRequest"
           THEN /\ child' = [child EXCEPT ![p] = FALSE]
                /\ requested' = [requested EXCEPT ![p] = FALSE]
                /\ pending' = [pending EXCEPT ![p] = FALSE]
                /\ container' = Removed(container, p)
           ELSE UNCHANGED <<child, requested, pending, container>>
        /\ UNCHANGED <<mainPc, nodes, keep, recVars, readVars, age, status, queueVars>>
        /\ UNCHANGED <<newHighresRequired, firstUse>>

EndExpire ==
    /\ mainPc = "expire" /\ ~StillExpiring
    /\ mainPc' = "merge"
    /\ visit' = 0 /\ keep' = 0
    /\ UNCHANGED <<nodes, recVars, readVars, lodVars, queueVars, trackVars>>

\* The subgraph becomes the high resolution child.  numActiveRequests is lowered
\* node by node here, by nodes.size() at the end of the loop in the code.
Merge ==
    /\ mainPc = "merge" /\ nodes # <<>>
    /\ LET p == Head(nodes) IN
       IF status[p] = "MergeRequest"
       THEN /\ child' = [child EXCEPT ![p] = pending[p]]
            /\ status' = [status EXCEPT ![p] = "NoRequest"]
       ELSE UNCHANGED <<child, status>>
    /\ nodes' = Tail(nodes)
    /\ numActive' = numActive - 1
    /\ UNCHANGED <<mainPc, visit, keep, recVars, readVars, age, requested, pending>>
    /\ UNCHANGED <<requestQueue, mergeQueue, leaked, trackVars>>

\* Each recorder will visit the PagedLODs of its view.
BeginRecord ==
    /\ mainPc = "merge" /\ nodes = <<>>
    /\ mainPc' = "record"
    /\ toRecord' = [c \in Recorders |-> PagedLODs]
    /\ UNCHANGED <<nodes, visit, keep, recPc, recNode, snapshot>>
    /\ UNCHANGED <<readVars, lodVars, queueVars, trackVars>>

\* The frame is recorded; the next one begins with an update.
EndRecord ==
    /\ mainPc = "record"
    /\ \A c \in Recorders : toRecord[c] = {} /\ recPc[c] = "visit"
    /\ mainPc' = "update"
    /\ UNCHANGED <<nodes, visit, keep, recVars, readVars, lodVars, queueVars, trackVars>>

MainStep ==
    \/ BeginUpdate \/ SweepContainer \/ EndExpire \/ Merge \/ BeginRecord \/ EndRecord
    \/ Expire

--------------------------------------------------------------------------------
(* RecordTraversal::apply(const PagedLOD&) and request(), by the recorders. *)

\* The PagedLOD is not reached, is out of view, or small enough for the low
\* resolution child: nothing changes but highresCulled.
Skip(c, p) ==
    /\ recPc[c] = "visit" /\ p \in toRecord[c]
    /\ toRecord' = [toRecord EXCEPT ![c] = @ \ {p}]
    /\ UNCHANGED <<mainVars, recPc, recNode, snapshot, readVars, lodVars, queueVars, trackVars>>

\* The high resolution child is wanted: frameHighResLastUsed.exchange.
Use(c, p) ==
    /\ recPc[c] = "visit" /\ p \in toRecord[c]
    /\ leaked < MaxLeaked
    /\ toRecord' = [toRecord EXCEPT ![c] = @ \ {p}]
    /\ recNode' = [recNode EXCEPT ![c] = p]
    /\ age' = [age EXCEPT ![p] = 0]
    /\ recPc' = [recPc EXCEPT ![c] = IF age[p] > 1 THEN "push" ELSE "ask"]
    /\ snapshot' = [snapshot EXCEPT ![c] = IF age[p] > 1 THEN newHighresRequired ELSE <<>>]
    /\ firstUse' = [firstUse EXCEPT ![p] =
                        IF @ # "never" THEN @ ELSE IF age[p] > 1 THEN "later" ELSE "early"]
    /\ UNCHANGED <<mainVars, readVars, status, requested, child, pending, queueVars>>
    /\ UNCHANGED <<container, newHighresRequired>>

\* Mutant: the PagedLOD is not appended.
PushNothing(c) ==
    /\ recPc[c] = "push"
    /\ snapshot' = [snapshot EXCEPT ![c] = <<>>]
    /\ recPc' = [recPc EXCEPT ![c] = "ask"]
    /\ UNCHANGED <<mainVars, toRecord, recNode, readVars, lodVars, queueVars, trackVars>>

\* newHighresRequired.emplace_back, which nothing protects: another recorder may
\* have appended since the end of the vector was read.
Push(c) ==
    /\ recPc[c] = "push"
    /\ newHighresRequired' = Append(snapshot[c], recNode[c])
    /\ snapshot' = [snapshot EXCEPT ![c] = <<>>]
    /\ recPc' = [recPc EXCEPT ![c] = "ask"]
    /\ UNCHANGED <<mainVars, toRecord, recNode, readVars, lodVars, queueVars>>
    /\ UNCHANGED <<container, firstUse>>

Done(c) ==
    /\ recPc' = [recPc EXCEPT ![c] = "visit"]
    /\ recNode' = [recNode EXCEPT ![c] = Nobody]

\* The child is there, or requestCount.fetch_add tells whether to call request().
Ask(c) ==
    LET p == recNode[c] IN
    /\ recPc[c] = "ask"
    /\ requested' = [requested EXCEPT ![p] = @ \/ ~child[p]]
    /\ IF child[p] \/ requested[p]
       THEN Done(c)
       ELSE recPc' = [recPc EXCEPT ![c] = "request"] /\ UNCHANGED recNode
    /\ UNCHANGED <<mainVars, toRecord, snapshot, readVars, age, status, child, pending>>
    /\ UNCHANGED <<queueVars, trackVars>>

\* request(): ++numActiveRequests, then nothing more if there is a pending subgraph.
Request(c) ==
    LET p == recNode[c] IN
    /\ recPc[c] = "request"
    /\ IF pending[p]
       THEN /\ leaked' = leaked + 1
            /\ Done(c)
       ELSE /\ recPc' = [recPc EXCEPT ![c] = "queue"]
            /\ UNCHANGED <<leaked, recNode>>
    /\ numActive' = numActive + 1
    /\ UNCHANGED <<mainVars, toRecord, snapshot, readVars, lodVars>>
    /\ UNCHANGED <<requestQueue, mergeQueue, trackVars>>

\* request(): NoRequest becomes ReadRequest and the PagedLOD is queued, or the
\* request is dropped, counted for ever.
Queue(c) ==
    LET p == recNode[c] IN
    /\ recPc[c] = "queue"
    /\ IF status[p] = "NoRequest"
       THEN /\ status' = [status EXCEPT ![p] = "ReadRequest"]
            /\ requestQueue' = Append(requestQueue, p)
            /\ UNCHANGED leaked
       ELSE /\ leaked' = leaked + 1
            /\ UNCHANGED <<status, requestQueue>>
    /\ Done(c)
    /\ UNCHANGED <<mainVars, toRecord, snapshot, readVars, age, requested, child, pending>>
    /\ UNCHANGED <<mergeQueue, numActive, trackVars>>

RecorderStep(c) ==
    \/ \E p \in PagedLODs : Skip(c, p) \/ Use(c, p)
    \/ Push(c) \/ Ask(c) \/ Request(c) \/ Queue(c)

--------------------------------------------------------------------------------
(* The read threads.                                                       *)

Goto(r, here, there) == readPc[r] = here /\ readPc' = [readPc EXCEPT ![r] = there]

\* take_when_available returns the PagedLOD of highest priority, here any.
Take(r) ==
    /\ Goto(r, "take", "check")
    /\ \E i \in DOMAIN requestQueue :
          /\ readNode' = [readNode EXCEPT ![r] = requestQueue[i]]
          /\ requestQueue' = RemoveAt(requestQueue, i)
    /\ UNCHANGED <<mainVars, recVars, lodVars, mergeQueue, numActive, leaked, trackVars>>

\* A request that has not been renewed in the last frame is expired.
Check(r) ==
    LET p == readNode[r]
        expired == age[p] > 1 \/ status[p] # "ReadRequest"
    IN  /\ Goto(r, "check", IF expired THEN "discard" ELSE "read")
        /\ status' = [status EXCEPT ![p] = IF expired THEN @ ELSE "Reading"]
        /\ UNCHANGED <<mainVars, recVars, readNode, age, requested, child, pending>>
        /\ UNCHANGED <<queueVars, trackVars>>

\* vsg::read: the file may be missing or broken.
Read(r) ==
    LET p == readNode[r] IN
    \/ /\ Goto(r, "read", "compile")
       /\ status[p] = "Reading"
       /\ status' = [status EXCEPT ![p] = "Compiling"]
       /\ pending' = [pending EXCEPT ![p] = TRUE]
       /\ UNCHANGED <<mainVars, recVars, readNode, age, requested, child, queueVars, trackVars>>
    \/ /\ Goto(r, "read", "discard")
       /\ UNCHANGED <<mainVars, recVars, readNode, lodVars, queueVars, trackVars>>

\* CompileManager::compile succeeds or fails.
Compile(r) ==
    LET p == readNode[r] IN
    \/ /\ Goto(r, "compile", "take")
       /\ readNode' = [readNode EXCEPT ![r] = Nobody]
       /\ status' = [status EXCEPT ![p] = "MergeRequest"]
       /\ mergeQueue' = Append(mergeQueue, p)
       /\ UNCHANGED <<mainVars, recVars, age, requested, child, pending>>
       /\ UNCHANGED <<requestQueue, numActive, leaked, trackVars>>
    \/ /\ Goto(r, "compile", "discard")
       /\ UNCHANGED <<mainVars, recVars, readNode, lodVars, queueVars, trackVars>>

\* requestDiscarded, which takes no lock: requestCount, requestStatus, pending.
DiscardCount(r) ==
    /\ Goto(r, "discard", "discardStatus")
    /\ requested' = [requested EXCEPT ![readNode[r]] = FALSE]
    /\ UNCHANGED <<mainVars, recVars, readNode, age, status, child, pending>>
    /\ UNCHANGED <<queueVars, trackVars>>

DiscardStatus(r) ==
    /\ Goto(r, "discardStatus", "discardPending")
    /\ status' = [status EXCEPT ![readNode[r]] = "NoRequest"]
    /\ UNCHANGED <<mainVars, recVars, readNode, age, requested, child, pending>>
    /\ UNCHANGED <<queueVars, trackVars>>

\* Mutant: the request is still counted.
DiscardUncounted(r) ==
    /\ Goto(r, "discardPending", "take")
    /\ pending' = [pending EXCEPT ![readNode[r]] = FALSE]
    /\ readNode' = [readNode EXCEPT ![r] = Nobody]
    /\ UNCHANGED <<mainVars, recVars, age, status, requested, child, queueVars, trackVars>>

DiscardPending(r) ==
    /\ Goto(r, "discardPending", "take")
    /\ pending' = [pending EXCEPT ![readNode[r]] = FALSE]
    /\ readNode' = [readNode EXCEPT ![r] = Nobody]
    /\ numActive' = numActive - 1
    /\ UNCHANGED <<mainVars, recVars, age, status, requested, child>>
    /\ UNCHANGED <<requestQueue, mergeQueue, leaked, trackVars>>

ReaderStep(r) ==
    \/ Take(r) \/ Check(r) \/ Read(r) \/ Compile(r)
    \/ DiscardCount(r) \/ DiscardStatus(r) \/ DiscardPending(r)

--------------------------------------------------------------------------------
Next ==
    \/ MainStep
    \/ \E c \in Recorders : RecorderStep(c)
    \/ \E r \in Readers : ReaderStep(r)

Spec == Init /\ [][Next]_vars
--------------------------------------------------------------------------------
Positions(queue, p) == {i \in DOMAIN queue : queue[i] = p}

\* Readers with the right to load p: a reader that has set the status back to
\* NoRequest has given p up.
Loading(p) == {r \in Readers : readNode[r] = p /\ readPc[r] # "discardPending"}

TypeOK ==
    /\ mainPc \in {"update", "sweep", "expire", "merge", "record"}
    /\ nodes \in Seq(PagedLODs) /\ visit \in 0 .. Size(container) /\ keep \in Nat
    /\ toRecord \in [Recorders -> SUBSET PagedLODs]
    /\ recPc \in [Recorders -> {"visit", "push", "ask", "request", "queue"}]
    /\ recNode \in [Recorders -> PagedLODs \cup {Nobody}]
    /\ snapshot \in [Recorders -> Seq(PagedLODs)]
    /\ readPc \in [Readers -> {"take", "check", "read", "compile", "discard",
                               "discardStatus", "discardPending"}]
    /\ readNode \in [Readers -> PagedLODs \cup {Nobody}]
    /\ age \in [PagedLODs -> 0 .. AgeLimit]
    /\ status \in [PagedLODs -> Statuses]
    /\ requested \in [PagedLODs -> BOOLEAN]
    /\ child \in [PagedLODs -> BOOLEAN]
    /\ pending \in [PagedLODs -> BOOLEAN]
    /\ requestQueue \in Seq(PagedLODs) /\ mergeQueue \in Seq(PagedLODs)
    /\ numActive \in Nat /\ leaked \in Nat
    /\ newHighresRequired \in Seq(PagedLODs)
    /\ firstUse \in [PagedLODs -> {"never", "early", "later"}]

\* A PagedLOD is in one hand at most, and its status says in which: the request
\* queue, one read thread, the merge queue or the update that empties it.  No two
\* threads ever load the same PagedLOD.
InFlightOnce ==
    \A p \in PagedLODs :
        LET hands == Cardinality(Positions(requestQueue, p)) + Cardinality(Loading(p))
                     + Cardinality(Positions(mergeQueue, p))
                     + Cardinality(Positions(nodes, p))
        IN  hands = IF status[p] = "NoRequest" THEN 0 ELSE 1

\* numActiveRequests, raised and lowered by several threads and by nodes.size() at a
\* time, never falls below the requests that are under way, so the unsigned counter
\* does not wrap, and exceeds them by every call of request() that queued nothing:
\* requestDiscarded() and updateSceneGraph() give none of these back.
CountedUntilDone ==
    numActive = Len(requestQueue) + Len(mergeQueue) + Len(nodes)
                + Cardinality({r \in Readers : readNode[r] # Nobody})
                + Cardinality({c \in Recorders : recPc[c] = "queue"})
                + leaked

\* A loaded child can be expired, because its PagedLOD is in the container or
\* about to enter it -- unless it was wanted in the first two frames already, when
\* frameHighResLastUsed, initially 0, looks as if it had been in use before.
LoadedIsTracked ==
    \A p \in PagedLODs :
        child[p] => \/ container.index[p] # 0
                    \/ \E i \in DOMAIN newHighresRequired : newHighresRequired[i] = p
                    \/ firstUse[p] = "early"

\* The lists of the container stay linked both ways through every move, resize and
\* removal, also of the element the expiry loop stands on (PagedLOD.cpp:383-468).
ContainerIsSound == ContainerSound(container)

\* If the expiry loop ends above the target, what is left to expire has no child:
\* every loaded child above the target belongs to an active PagedLOD.
ExpiryReachesTarget ==
    [][/\ mainPc = "expire" /\ mainPc' = "merge"
       /\ container.lists["active"].count + container.lists["inactive"].count
              + Len(nodes) > TargetMax
       => \A p \in InList("inactive") : ~child[p]]_vars

\* A child that was in use in one of the last InactiveAge frames is not taken out
\* of the scene graph.
ExpireOnlyUnused ==
    [][\A p \in PagedLODs : child[p] /\ ~child'[p] => ~HighResActive(p)]_vars

--------------------------------------------------------------------------------
(* What the code is meant to do and does not; see the README.              *)

\* A PagedLOD that has been asked for and is not loaded is being taken care of:
\* its next request is not ignored because requestCount is not zero.  A discard
\* that is late drops the request made meanwhile, or wipes its pending subgraph.
NoLostRequest ==
    \A p \in PagedLODs :
        requested[p] /\ ~child[p] /\ status[p] = "NoRequest"
            => \/ \E r \in Readers : readNode[r] = p
               \/ \E c \in Recorders : recNode[c] = p
================================================================================

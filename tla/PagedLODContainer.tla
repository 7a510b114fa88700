--------------------------- MODULE PagedLODContainer ---------------------------
(***************************************************************************)
(* vsg::PagedLODContainer: one array of elements that are linked into      *)
(* three lists by their indices, 0 being no element.  A PagedLOD knows the *)
(* index of its element.  The container is a value here, and its functions *)
(* are operators on it; DatabasePager holds it.                            *)
(***************************************************************************)
EXTENDS Naturals, Sequences, FiniteSets

CONSTANTS
    PagedLODs,
    NoPagedLOD,       \* plod of an element that is available
    ContainerSize     \* maxNumPagedLOD, at least 10 in the code

ASSUME ContainerAssumption ==
    /\ IsFiniteSet(PagedLODs) /\ NoPagedLOD \notin PagedLODs
    /\ ContainerSize \in Nat \ {0}

Lists == {"available", "active", "inactive"}

Size(c) == Len(c.elements)
ListOf(c, p) == IF c.index[p] = 0 THEN "none" ELSE c.elements[c.index[p]].list

--------------------------------------------------------------------------------
\* Elements from the old size on are linked to the end of the available list.
Resized(c, size) ==
    LET first == Size(c) + 1
        tail == c.lists["available"].tail
        Fresh(n) == [previous |-> IF n = first THEN tail ELSE n - 1,
                     next |-> IF n = size THEN 0 ELSE n + 1,
                     plod |-> NoPagedLOD, list |-> "available"]
        Kept(n) == IF n = tail THEN [c.elements[n] EXCEPT !.next = first] ELSE c.elements[n]
    IN  [c EXCEPT !.elements = [n \in 1 .. size |-> IF n < first THEN Kept(n) ELSE Fresh(n)],
                  !.lists["available"] = [head |-> IF @.head = 0 THEN first ELSE @.head,
                                          tail |-> size,
                                          count |-> @.count + size - Size(c)]]

EmptyContainer ==
    Resized([elements |-> <<>>,
             lists |-> [name \in Lists |-> [head |-> 0, tail |-> 0, count |-> 0]],
             index |-> [p \in PagedLODs |-> 0]],
            ContainerSize)

\* The head of the available list leaves it.
Taken(c) ==
    LET list == c.lists["available"]
        next == c.elements[list.head].next
    IN  [c EXCEPT !.elements = IF next > 0 THEN [@ EXCEPT ![next].previous = 0] ELSE @,
                  !.lists["available"] =
                      [head |-> IF list.head = list.tail THEN 0 ELSE next,
                       tail |-> IF list.head = list.tail THEN 0 ELSE list.tail,
                       count |-> list.count - 1]]

\* Variant: the neighbour behind keeps its link to the element that has left.
UnlinkedForwards(c, i) ==
    LET e == c.elements[i]
    IN  [c EXCEPT !.elements =
                      [n \in DOMAIN @ |->
                          IF n = e.previous THEN [@[n] EXCEPT !.next = e.next] ELSE @[n]],
                  !.lists[e.list] =
                      [head |-> IF @.head = i THEN e.next ELSE @.head,
                       tail |-> IF @.tail = i THEN e.previous ELSE @.tail,
                       count |-> @.count - 1]]

\* An element leaves its list.
Unlinked(c, i) ==
    LET e == c.elements[i]
    IN  [c EXCEPT !.elements =
                      [n \in DOMAIN @ |->
                          IF n = e.previous THEN [@[n] EXCEPT !.next = e.next]
                          ELSE IF n = e.next THEN [@[n] EXCEPT !.previous = e.previous]
                          ELSE @[n]],
                  !.lists[e.list] =
                      [head |-> IF @.head = i THEN e.next ELSE @.head,
                       tail |-> IF @.tail = i THEN e.previous ELSE @.tail,
                       count |-> @.count - 1]]

\* An element enters a list at its end.
Appended(c, i, name) ==
    LET tail == c.lists[name].tail
        linked == IF tail > 0 THEN [c.elements EXCEPT ![tail].next = i] ELSE c.elements
    IN  [c EXCEPT !.elements = [linked EXCEPT ![i] = [@ EXCEPT !.previous = tail, !.next = 0,
                                                               !.list = name]],
                  !.lists[name] = [head |-> IF @.head = 0 THEN i ELSE @.head, tail |-> i,
                                   count |-> @.count + 1]]

\* _move() of a PagedLOD that has no element yet.
Assigned(c, p, name) ==
    LET room == IF c.lists["available"].head = 0 THEN Resized(c, 2 * Size(c)) ELSE c
        i == room.lists["available"].head
    IN  [Appended(Taken(room), i, name) EXCEPT !.index[p] = i, !.elements[i].plod = p]

Move(c, p, name) ==
    IF c.index[p] = 0 THEN Assigned(c, p, name)
    ELSE IF ListOf(c, p) = name THEN c
    ELSE Appended(Unlinked(c, c.index[p]), c.index[p], name)

Active(c, p) == Move(c, p, "active")
Inactive(c, p) == Move(c, p, "inactive")

Removed(c, p) ==
    IF c.index[p] = 0 THEN c
    ELSE [Move(c, p, "available") EXCEPT !.index[p] = 0,
                                         !.elements[c.index[p]].plod = NoPagedLOD]

--------------------------------------------------------------------------------
\* What check() of the code verifies of one list, walking it from its head.
ListIsSound(c, name) ==
    LET list == c.lists[name]
        walk[k \in 1 .. Size(c) + 1] ==
            IF k = 1 THEN list.head
            ELSE IF walk[k - 1] = 0 THEN 0 ELSE c.elements[walk[k - 1]].next
        walked == {walk[k] : k \in DOMAIN walk} \ {0}
    IN  /\ walk[Size(c) + 1] = 0
        /\ Cardinality(walked) = list.count
        /\ list.head = 0 <=> list.tail = 0
        /\ \A i \in walked :
              LET e == c.elements[i]
              IN  /\ IF e.previous = 0 THEN i = list.head ELSE c.elements[e.previous].next = i
                  /\ IF e.next = 0 THEN i = list.tail ELSE c.elements[e.next].previous = i
        /\ walked = {i \in DOMAIN c.elements : c.elements[i].list = name}

\* Every element is in one list, linked both ways, and belongs to the PagedLOD that
\* points to it.
ContainerSound(c) ==
    /\ \A name \in Lists : ListIsSound(c, name)
    /\ \A p \in PagedLODs : c.index[p] # 0 => c.elements[c.index[p]].plod = p
    /\ \A i \in DOMAIN c.elements :
          IF c.elements[i].list = "available" THEN c.elements[i].plod = NoPagedLOD
          ELSE c.elements[i].plod \in PagedLODs /\ c.index[c.elements[i].plod] = i
================================================================================

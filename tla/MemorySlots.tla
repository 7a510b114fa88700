------------------------------- MODULE MemorySlots -------------------------------
(***************************************************************************)
(* vsg::MemorySlots, the bookkeeping behind Buffer and DeviceMemory: which *)
(* parts of a block are reserved and which are available.  The available   *)
(* slots are kept twice, ordered by size to find the best fit and by       *)
(* offset to merge neighbours.                                             *)
(*                                                                         *)
(* The operators work on the value of one MemorySlots object, so that a    *)
(* specification may hold as many of them as it needs.  A std::map is a    *)
(* function; the multimap is a set of <<size, offset>>, and the order of   *)
(* entries of equal size is left open.                                     *)
(***************************************************************************)
EXTENDS Integers

NoEntries == [offset \in {} |-> 0]

\* std::map::emplace leaves the entry alone if there is one.
Emplace(map, key, value) ==
    [k \in DOMAIN map \cup {key} |-> IF k \in DOMAIN map THEN map[k] ELSE value]

Erase(map, keys) == [k \in DOMAIN map \ keys |-> map[k]]

InsertAvailableSlot(slots, offset, size) ==
    [slots EXCEPT !.offsetSizes = Emplace(@, offset, size),
                  !.available = @ \cup {<<size, offset>>}]

RemoveAvailableSlot(slots, offset, size) ==
    [slots EXCEPT !.offsetSizes = Erase(@, {offset}),
                  !.available = @ \ {<<size, offset>>}]

\* The constructor.
NewSlots(size) ==
    InsertAvailableSlot([total |-> size, available |-> {}, offsetSizes |-> NoEntries,
                         reserved |-> NoEntries], 0, size)

Full(slots) == slots.available = {}

\* maximumAvailableSpace() >= size
HasSpace(slots, size) == \E slot \in slots.available : slot[1] >= size

--------------------------------------------------------------------------------
Aligned(offset, alignment) == ((offset + alignment - 1) \div alignment) * alignment

Fits(slot, size, alignment) ==
    /\ slot[1] >= size
    /\ Aligned(slot[2], alignment) + size <= slot[2] + slot[1]

\* The slots that reserve() may choose: the search goes from smaller slots to
\* larger ones and ends at the first that is large enough after alignment.
BestFits(slots, size, alignment) ==
    {slot \in slots.available :
        /\ Fits(slot, size, alignment)
        /\ \A other \in slots.available : Fits(other, size, alignment) => slot[1] <= other[1]}

\* Mutant: the space behind the reserved slot starts at the end of the slot unaligned.
ReserveAtUnalignedBack(slots, slot, size, alignment) ==
    LET start == Aligned(slot[2], alignment)
        end == slot[2] + size
        slotEnd == slot[2] + slot[1]
        taken == RemoveAvailableSlot(slots, slot[2], slot[1])
        front == IF slot[2] < start
                 THEN InsertAvailableSlot(taken, slot[2], start - slot[2]) ELSE taken
        back == IF end < slotEnd THEN InsertAvailableSlot(front, end, slotEnd - end) ELSE front
    IN  [back EXCEPT !.reserved = Emplace(@, start, size)]

\* reserve() once the slot is found: what is left before and behind the aligned
\* part is available again.
ReserveAt(slots, slot, size, alignment) ==
    LET start == Aligned(slot[2], alignment)
        end == start + size
        slotEnd == slot[2] + slot[1]
        taken == RemoveAvailableSlot(slots, slot[2], slot[1])
        front == IF slot[2] < start
                 THEN InsertAvailableSlot(taken, slot[2], start - slot[2]) ELSE taken
        back == IF end < slotEnd THEN InsertAvailableSlot(front, end, slotEnd - end) ELSE front
    IN  [back EXCEPT !.reserved = Emplace(@, start, size)]

--------------------------------------------------------------------------------
\* The available slot before offset, if it ends there.
MergedBefore(slots, offset) ==
    {p \in DOMAIN slots.offsetSizes :
        /\ p < offset /\ p + slots.offsetSizes[p] = offset
        /\ \A q \in DOMAIN slots.offsetSizes : q < offset => q <= p}

\* The first available slot from offset on, if it begins at end.
MergedBehind(slots, offset, end) ==
    {n \in DOMAIN slots.offsetSizes :
        /\ n = end
        /\ \A q \in DOMAIN slots.offsetSizes : q >= offset => n <= q}

\* Mutant: the slot behind is merged and not the one before.
ReleaseMergingBehind(slots, offset) ==
    LET size == slots.reserved[offset]
        behind == MergedBehind(slots, offset, offset + size)
        end == IF behind = {} THEN offset + size ELSE offset + size + slots.offsetSizes[offset + size]
        others == [slots EXCEPT !.reserved = Erase(@, {offset}),
                                !.offsetSizes = Erase(@, behind),
                                !.available = {s \in @ : s[2] \notin behind}]
    IN  IF offset \notin DOMAIN slots.reserved THEN slots
        ELSE InsertAvailableSlot(others, offset, end - offset)

\* release(): the size of the caller is ignored for the recorded one, an unknown
\* offset changes nothing, and the slot is merged with its available neighbours.
Release(slots, offset) ==
    LET size == slots.reserved[offset]
        before == MergedBefore(slots, offset)
        behind == MergedBehind(slots, offset, offset + size)
        start == IF before = {} THEN offset ELSE CHOOSE p \in before : TRUE
        end == IF behind = {} THEN offset + size ELSE offset + size + slots.offsetSizes[offset + size]
        others == [slots EXCEPT !.reserved = Erase(@, {offset}),
                                !.offsetSizes = Erase(@, before \cup behind),
                                !.available = {s \in @ : s[2] \notin before \cup behind}]
    IN  IF offset \notin DOMAIN slots.reserved THEN slots
        ELSE InsertAvailableSlot(others, start, end - start)

--------------------------------------------------------------------------------
(* What the bookkeeping has to be at any time.                             *)

IsMap(map) == DOMAIN map \subseteq Nat /\ map \in [DOMAIN map -> Nat \ {0}]

IsSlots(slots) ==
    /\ DOMAIN slots = {"total", "available", "offsetSizes", "reserved"}
    /\ slots.total \in Nat
    /\ IsMap(slots.offsetSizes) /\ IsMap(slots.reserved)

\* Both views of the available slots are the same.
ViewsAgree(slots) ==
    slots.available = {<<slots.offsetSizes[o], o>> : o \in DOMAIN slots.offsetSizes}

InSlot(byte, map, o) == o <= byte /\ byte < o + map[o]

IsAvailable(slots, byte) ==
    \E o \in DOMAIN slots.offsetSizes : InSlot(byte, slots.offsetSizes, o)

IsReserved(slots, byte) == \E o \in DOMAIN slots.reserved : InSlot(byte, slots.reserved, o)

\* Slots of one map do not overlap.
Disjoint(map) == \A o, p \in DOMAIN map : o < p => o + map[o] <= p

Within(map, total) == \A o \in DOMAIN map : o + map[o] <= total

Apart(map, other) ==
    \A o \in DOMAIN map, p \in DOMAIN other : o + map[o] <= p \/ p + other[p] <= o

\* Every byte of the block, and no other, is in exactly one slot.
Partition(slots) ==
    /\ Disjoint(slots.offsetSizes) /\ Within(slots.offsetSizes, slots.total)
    /\ Disjoint(slots.reserved) /\ Within(slots.reserved, slots.total)
    /\ Apart(slots.offsetSizes, slots.reserved)
    /\ \A byte \in 0 .. slots.total - 1 : IsAvailable(slots, byte) \/ IsReserved(slots, byte)

\* Neighbours are merged: no available slot ends where another begins, so a free
\* block is one slot.
Merged(slots) ==
    \A o \in DOMAIN slots.offsetSizes : o + slots.offsetSizes[o] \notin DOMAIN slots.offsetSizes

Sound(slots) == IsSlots(slots) /\ ViewsAgree(slots) /\ Partition(slots) /\ Merged(slots)
================================================================================

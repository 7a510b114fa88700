---------------------------- MODULE MemoryBufferPools ----------------------------
(***************************************************************************)
(* vsg::MemoryBufferPools with its Buffers and DeviceMemory: a BufferInfo  *)
(* is a slot of a Buffer, and a Buffer is bound to a slot of a             *)
(* DeviceMemory.  Buffers and memories that have room when they are        *)
(* created stay in the pools and are shared by the compile contexts of all *)
(* threads.                                                                *)
(*                                                                         *)
(* reserveBuffer() takes the mutex twice: for the slot of the buffer, and  *)
(* in reserveMemory() for the memory of a new buffer.                      *)
(***************************************************************************)
EXTENDS MemorySlots, Sequences, FiniteSets

CONSTANTS
    Threads,                 \* threads that compile
    Buffers, Memories,       \* objects, bound on how many exist at a time
    Usages,                  \* VkBufferUsageFlags
    Requests,                \* sizes and alignments asked for
    minimumBufferSize,
    minimumDeviceMemorySize,
    memoryAlignment,         \* VkMemoryRequirements::alignment of every buffer
    MaxFailures              \* bound on allocations of device memory and bindings that fail

Positive == Nat \ {0}

ASSUME PoolsAssumption ==
    /\ Requests \subseteq [size : Positive, alignment : Positive]
    /\ minimumBufferSize \in Nat /\ minimumDeviceMemorySize \in Nat
    /\ memoryAlignment \in Positive /\ MaxFailures \in Nat

VARIABLES
    bufferSlots,    \* [existing buffers -> their MemorySlots]
    usage,          \* [existing buffers -> Usages]
    binding,        \* [buffers bound to memory -> [memory, offset]]
    memorySlots,    \* [existing memories -> their MemorySlots]
    bufferPools, memoryPools,
    infos,          \* BufferInfos that reserveBuffer() has returned
    binds,          \* [threads about to get memory for a new buffer -> its BufferInfo]
    failures,       \* how often an allocation of device memory or a binding has failed
    leaked          \* history: the [memory, offset] whose binding has failed

vars == <<bufferSlots, usage, binding, memorySlots, bufferPools, memoryPools, infos, binds,
          failures, leaked>>

Existing == DOMAIN bufferSlots
BufferInfos == infos \cup {binds[t] : t \in DOMAIN binds}

Info(buffer, offset, range) == [buffer |-> buffer, offset |-> offset, range |-> range]

Init ==
    /\ bufferSlots = NoEntries /\ usage = NoEntries /\ binding = NoEntries
    /\ memorySlots = NoEntries
    /\ bufferPools = <<>> /\ memoryPools = <<>>
    /\ infos = {} /\ binds = NoEntries /\ failures = 0 /\ leaked = {}

Larger(a, b) == IF a < b THEN b ELSE a

\* The first entry of a pool that has a slot for the request.
FirstWithSlot(pool, slotsOf, suitable, size, alignment) ==
    LET fitting == {i \in DOMAIN pool :
                       pool[i] \in suitable /\ BestFits(slotsOf[pool[i]], size, alignment) # {}}
    IN  {i \in fitting : \A j \in fitting : i <= j}

--------------------------------------------------------------------------------
(* reserveBuffer, under the mutex.                                         *)

BufferFor(size, alignment, flags) ==
    LET suitable == {b \in Existing : usage[b] = flags /\ bufferSlots[b].total >= size}
    IN  FirstWithSlot(bufferPools, bufferSlots, suitable, size, alignment)

ReserveFromPool(t, size, alignment, flags) ==
    /\ t \notin DOMAIN binds
    /\ \E i \in BufferFor(size, alignment, flags) :
          LET b == bufferPools[i]
          IN  \E slot \in BestFits(bufferSlots[b], size, alignment) :
                /\ bufferSlots' = [bufferSlots EXCEPT ![b] = ReserveAt(@, slot, size, alignment)]
                /\ infos' = infos \cup {Info(b, Aligned(slot[2], alignment), size)}
    /\ UNCHANGED <<usage, binding, memorySlots, bufferPools, memoryPools, binds, failures,
                   leaked>>

\* A new buffer, in the pool if it has room for more: from here on other threads
\* take slots of it.
CreateBuffer(t, size, alignment, flags, b) ==
    /\ t \notin DOMAIN binds
    /\ BufferFor(size, alignment, flags) = {}
    /\ b \notin Existing
    /\ LET new == NewSlots(Larger(size, minimumBufferSize))
       IN  \E slot \in BestFits(new, size, alignment) :
             LET slots == ReserveAt(new, slot, size, alignment)
             IN  /\ bufferSlots' = Emplace(bufferSlots, b, slots)
                 /\ bufferPools' = IF Full(slots) THEN bufferPools ELSE Append(bufferPools, b)
                 /\ binds' = Emplace(binds, t, Info(b, Aligned(slot[2], alignment), size))
    /\ usage' = Emplace(usage, b, flags)
    /\ UNCHANGED <<binding, memorySlots, memoryPools, infos, failures, leaked>>

--------------------------------------------------------------------------------
(* reserveMemory, and the binding of the buffer.                           *)

\* vkGetBufferMemoryRequirements
RequiredSize(size) == Aligned(size, memoryAlignment)

MemoryFor(size) ==
    LET suitable == {m \in DOMAIN memorySlots : HasSpace(memorySlots[m], size)}
    IN  FirstWithSlot(memoryPools, memorySlots, suitable, size, memoryAlignment)

\* Buffer::bind; its result is ignored.  If vkBindBufferMemory fails the buffer knows
\* of no memory, and nobody knows any more of the slot that was reserved for it.
Bound(t, memory, offset) ==
    /\ binding' = Emplace(binding, binds[t].buffer, [memory |-> memory, offset |-> offset])
    /\ UNCHANGED <<failures, leaked>>

NotBound(memory, offset) ==
    /\ failures < MaxFailures
    /\ failures' = failures + 1
    /\ leaked' = leaked \cup {[memory |-> memory, offset |-> offset]}
    /\ UNCHANGED binding

Return(t) ==
    /\ infos' = infos \cup {binds[t]}
    /\ binds' = Erase(binds, {t})

BindPooledMemory(t) ==
    /\ t \in DOMAIN binds
    /\ LET size == RequiredSize(bufferSlots[binds[t].buffer].total)
       IN  \E i \in MemoryFor(size) :
             LET m == memoryPools[i]
             IN  \E slot \in BestFits(memorySlots[m], size, memoryAlignment) :
                   LET offset == Aligned(slot[2], memoryAlignment)
                   IN  /\ memorySlots' = [memorySlots EXCEPT ![m] =
                                             ReserveAt(@, slot, size, memoryAlignment)]
                       /\ Bound(t, m, offset) \/ NotBound(m, offset)
    /\ Return(t)
    /\ UNCHANGED <<bufferSlots, usage, bufferPools, memoryPools>>

\* The memory that deviceMemory->reserve() leaves, with the slot it gives.
NewMemory(size) ==
    LET new == NewSlots(Aligned(Larger(size, minimumDeviceMemorySize), memoryAlignment))
    IN  {[slots |-> ReserveAt(new, slot, size, memoryAlignment),
          offset |-> Aligned(slot[2], memoryAlignment)] :
             slot \in BestFits(new, size, memoryAlignment)}

BindNewMemory(t, m) ==
    /\ t \in DOMAIN binds
    /\ m \notin DOMAIN memorySlots
    /\ LET size == RequiredSize(bufferSlots[binds[t].buffer].total)
       IN  /\ MemoryFor(size) = {}
           /\ \E new \in NewMemory(size) :
                /\ memorySlots' = Emplace(memorySlots, m, new.slots)
                /\ memoryPools' = IF Full(new.slots) THEN memoryPools ELSE Append(memoryPools, m)
                /\ Bound(t, m, new.offset) \/ (~Full(new.slots) /\ NotBound(m, new.offset))
    /\ Return(t)
    /\ UNCHANGED <<bufferSlots, usage, bufferPools>>

\* A memory that is full at once is in no pool: when its binding fails, the end of
\* reserveBuffer() drops the only reference to it.
BindLostMemory(t) ==
    /\ t \in DOMAIN binds
    /\ failures < MaxFailures
    /\ LET size == RequiredSize(bufferSlots[binds[t].buffer].total)
       IN  /\ MemoryFor(size) = {}
           /\ \E new \in NewMemory(size) : Full(new.slots)
    /\ failures' = failures + 1
    /\ Return(t)
    /\ UNCHANGED <<bufferSlots, usage, binding, memorySlots, bufferPools, memoryPools, leaked>>

--------------------------------------------------------------------------------
(* ~BufferInfo: its slot is released; the last reference to a buffer that  *)
(* is not in the pool destroys it, and likewise the memory.                *)

Pooled(pool) == {pool[i] : i \in DOMAIN pool}

\* Mutant: the destructor of the buffer keeps its memory.
DestroyBufferKeepsMemory(b) ==
    /\ bufferSlots' = Erase(bufferSlots, {b})
    /\ usage' = Erase(usage, {b})
    /\ binding' = Erase(binding, {b})
    /\ UNCHANGED memorySlots

\* ~Buffer, and ~DeviceMemory if nothing else refers to the memory
DestroyBuffer(b) ==
    /\ bufferSlots' = Erase(bufferSlots, {b})
    /\ usage' = Erase(usage, {b})
    /\ binding' = Erase(binding, {b})
    /\ IF b \notin DOMAIN binding THEN UNCHANGED memorySlots
       ELSE LET m == binding[b].memory
                inUse == m \in Pooled(memoryPools)
                         \/ \E other \in DOMAIN binding \ {b} : binding[other].memory = m
            IN  memorySlots' = IF inUse
                               THEN [memorySlots EXCEPT ![m] = Release(@, binding[b].offset)]
                               ELSE Erase(memorySlots, {m})

\* BufferInfo::release; none of reserveBuffer() has a parent.
Drop(info) ==
    LET b == info.buffer
    IN  IF b \in Pooled(bufferPools) \/ \E other \in BufferInfos \ {info} : other.buffer = b
        THEN /\ bufferSlots' = [bufferSlots EXCEPT ![b] = Release(@, info.offset)]
             /\ UNCHANGED <<usage, binding, memorySlots>>
        ELSE DestroyBuffer(b)

ReleaseInfo(info) ==
    /\ info \in infos
    /\ infos' = infos \ {info}
    /\ Drop(info)
    /\ UNCHANGED <<bufferPools, memoryPools, binds, failures, leaked>>

\* vkAllocateMemory fails: the exception leaves reserveBuffer(), which drops the
\* info; the buffer remains in the pool if it is there.
FailMemory(t) ==
    /\ t \in DOMAIN binds
    /\ failures < MaxFailures
    /\ MemoryFor(RequiredSize(bufferSlots[binds[t].buffer].total)) = {}
    /\ failures' = failures + 1
    /\ binds' = Erase(binds, {t})
    /\ Drop(binds[t])
    /\ UNCHANGED <<infos, bufferPools, memoryPools, leaked>>

--------------------------------------------------------------------------------
ReserveBuffer(t) ==
    \E r \in Requests, flags \in Usages :
        \/ ReserveFromPool(t, r.size, r.alignment, flags)
        \/ \E b \in Buffers : CreateBuffer(t, r.size, r.alignment, flags, b)

ReserveMemory(t) ==
    \/ BindPooledMemory(t)
    \/ \E m \in Memories : BindNewMemory(t, m)
    \/ BindLostMemory(t)
    \/ FailMemory(t)

Next ==
    \/ \E t \in Threads : ReserveBuffer(t) \/ ReserveMemory(t)
    \/ \E info \in infos : ReleaseInfo(info)

Spec == Init /\ [][Next]_vars
--------------------------------------------------------------------------------
TypeOK ==
    /\ Existing \subseteq Buffers /\ DOMAIN memorySlots \subseteq Memories
    /\ DOMAIN usage = Existing /\ DOMAIN binding \subseteq Existing
    /\ \A b \in DOMAIN binding : binding[b] \in [memory : DOMAIN memorySlots, offset : Nat]
    /\ bufferPools \in Seq(Existing) /\ memoryPools \in Seq(DOMAIN memorySlots)
    /\ BufferInfos \subseteq [buffer : Existing, offset : Nat, range : Positive]
    /\ \A t \in DOMAIN binds : t \in Threads /\ binds[t].buffer \notin DOMAIN binding
    /\ failures \in 0 .. MaxFailures
    /\ leaked \subseteq [memory : DOMAIN memorySlots, offset : Nat]

\* The slots of every buffer and of every memory are a partition into available
\* and reserved ones, found alike in both orders, with free neighbours merged.
SlotsAreSound ==
    /\ \A b \in Existing : Sound(bufferSlots[b])
    /\ \A m \in DOMAIN memorySlots : Sound(memorySlots[m])

BufferSlotsAreOwned ==
    /\ \A i \in BufferInfos :
          /\ i.offset \in DOMAIN bufferSlots[i.buffer].reserved
          /\ bufferSlots[i.buffer].reserved[i.offset] = i.range
    /\ \A b \in Existing : \A o \in DOMAIN bufferSlots[b].reserved :
          \E i \in BufferInfos : i.buffer = b /\ i.offset = o

MemorySlotsAreOwned ==
    /\ \A b \in DOMAIN binding :
          LET slots == memorySlots[binding[b].memory]
          IN  /\ binding[b].offset \in DOMAIN slots.reserved
              /\ slots.reserved[binding[b].offset] = RequiredSize(bufferSlots[b].total)
    /\ \A m \in DOMAIN memorySlots : \A o \in DOMAIN memorySlots[m].reserved :
          \/ \E b \in DOMAIN binding : binding[b].memory = m /\ binding[b].offset = o
          \/ \E place \in leaked : place.memory = m /\ place.offset = o
    /\ \A place \in leaked : /\ place.memory \in Pooled(memoryPools)
                            /\ place.offset \in DOMAIN memorySlots[place.memory].reserved

OwnersDiffer ==
    /\ \A i, j \in BufferInfos : i.buffer = j.buffer /\ i.offset = j.offset => i = j
    /\ \A b, c \in DOMAIN binding : binding[b] = binding[c] => b = c
    /\ \A b \in DOMAIN binding : binding[b] \notin leaked
    /\ \A t \in DOMAIN binds : binds[t] \notin infos
    /\ \A t, u \in DOMAIN binds : binds[t] = binds[u] => t = u

\* What is reserved belongs to exactly one owner, who will release it: a slot of a
\* buffer to a BufferInfo, a slot of a memory to a buffer.  Nothing is given twice, and
\* nothing is lost by a failing allocation; what leaks is exactly the slots whose
\* binding failed, in memories that stay in the pool.
ReservedIsOwned == BufferSlotsAreOwned /\ MemorySlotsAreOwned /\ OwnersDiffer

Address(info) == binding[info.buffer].offset + info.offset

\* Two BufferInfos never share a byte of device memory, though neither the slots of
\* a buffer nor those of a memory know of the other level.
InfosAreDisjoint ==
    \A i, j \in {k \in infos : k.buffer \in DOMAIN binding} :
        i # j /\ binding[i.buffer].memory = binding[j.buffer].memory
            => \/ Address(i) + i.range <= Address(j)
               \/ Address(j) + j.range <= Address(i)
================================================================================

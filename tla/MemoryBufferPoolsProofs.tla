-------------------------- MODULE MemoryBufferPoolsProofs --------------------------
(***************************************************************************)
(* Whatever threads reserve and release, and whatever fails, the slots of  *)
(* buffers and memories stay sound, each has one owner, and no two         *)
(* BufferInfos share memory.                                               *)
(*                                                                         *)
(* The two levels are told apart by what an action changes: a BufferInfo   *)
(* comes or goes with the slot of a buffer, a buffer with that of a        *)
(* memory.                                                                 *)
(***************************************************************************)
EXTENDS MemoryBufferPools, TLAPS

--------------------------------------------------------------------------------
(* The slots of one block: reserve() and release() keep them sound.        *)

\* An offset is aligned upwards.
LEMMA AlignedIsBehind ==
    ASSUME NEW offset \in Nat, NEW alignment \in Nat \ {0}
    PROVE  Aligned(offset, alignment) \in Nat /\ Aligned(offset, alignment) >= offset
<1> DEFINE n == offset + alignment - 1
<1> DEFINE q == n \div alignment
<1>1. n \in Nat /\ q \in Nat
  BY SMT
<1>2. n = alignment * q + (n % alignment) /\ (n % alignment) \in 0 .. alignment - 1
  BY <1>1, SMT
<1>3. alignment * q = q * alignment /\ q * alignment \in Nat
  BY <1>1, SMT
<1> HIDE DEF q
<1>4. q * alignment >= offset
  BY <1>1, <1>2, <1>3, SMT
<1>5. QED
  BY <1>3, <1>4 DEF Aligned, q

--------------------------------------------------------------------------------
\* A new block is one available slot (MemorySlots.cpp:30-42).
THEOREM NewSlotsAreSound ==
    ASSUME NEW size \in Nat \ {0}
    PROVE  Sound(NewSlots(size)) /\ NewSlots(size).total = size
<1> DEFINE s == NewSlots(size)
<1>1. /\ s = [total |-> size, available |-> {<<size, 0>>}, offsetSizes |-> [k \in {0} |-> size],
              reserved |-> NoEntries]
      /\ DOMAIN s.reserved = {} /\ DOMAIN s.offsetSizes = {0}
  BY DEF NewSlots, InsertAvailableSlot, Emplace, NoEntries
<1> HIDE DEF s
<1>2. IsSlots(s)
  BY <1>1 DEF IsSlots, IsMap, NoEntries
<1>3. ViewsAgree(s) /\ Merged(s)
  BY <1>1 DEF ViewsAgree, Merged
<1>4. Partition(s)
  BY <1>1 DEF Partition, Disjoint, Within, Apart, IsAvailable, InSlot
<1>5. QED
  BY <1>1, <1>2, <1>3, <1>4 DEF Sound, s

\* What the best fits are taken from.
LEMMA AvailableSlot ==
    ASSUME NEW slots, Sound(slots), NEW slot \in slots.available
    PROVE  /\ slot[1] \in Nat \ {0} /\ slot[2] \in DOMAIN slots.offsetSizes /\ slot[2] \in Nat
           /\ slots.offsetSizes[slot[2]] = slot[1] /\ slot = <<slot[1], slot[2]>>
<1>1. PICK o \in DOMAIN slots.offsetSizes : slot = <<slots.offsetSizes[o], o>>
  BY DEF Sound, ViewsAgree
<1>2. QED
  BY <1>1 DEF Sound, IsSlots, IsMap

\* Taking an aligned part out of an available slot, which leaves what is before and
\* behind it available, keeps the slots a partition, in both views, with merged
\* neighbours (MemorySlots.cpp:204-230).
THEOREM ReserveIsSound ==
    ASSUME NEW slots, Sound(slots),
           NEW size \in Nat \ {0}, NEW alignment \in Nat \ {0},
           NEW slot \in slots.available, Fits(slot, size, alignment)
    PROVE  Sound(ReserveAt(slots, slot, size, alignment))
<1> DEFINE o == slot[2]
           z == slot[1]
           f == slots.offsetSizes
           start == Aligned(slot[2], alignment)
           end == start + size
           r == ReserveAt(slots, slot, size, alignment)
<1>1. /\ z \in Nat \ {0} /\ o \in DOMAIN f /\ o \in Nat /\ f[o] = z /\ slot = <<z, o>>
  BY AvailableSlot
<1>2. start \in Nat /\ o <= start /\ end \in Nat /\ start < end /\ end <= o + z
  BY <1>1, AlignedIsBehind DEF Fits
<1>3. end \notin DOMAIN f \/ end = o + z
  BY <1>1, <1>2 DEF Sound, Partition, Disjoint, IsSlots, IsMap
<1>4. start \notin DOMAIN slots.reserved
  BY <1>1, <1>2 DEF Sound, Partition, Apart, IsSlots, IsMap
<1> HIDE DEF start
<1>5. DOMAIN r = DOMAIN slots /\ r.total = slots.total
      /\ r.reserved = Emplace(slots.reserved, start, size)
  BY DEF r, ReserveAt, start, InsertAvailableSlot, RemoveAvailableSlot, Sound, IsSlots
<1>6. DOMAIN r.offsetSizes = (DOMAIN f \ {o}) \cup {p \in {o} : o < start} \cup {p \in {end} : end < o + z}
  BY <1>1, <1>2, SMTT(40)
  DEF r, ReserveAt, start, InsertAvailableSlot, RemoveAvailableSlot, Emplace, Erase, Sound, IsSlots
<1>7. /\ \A p \in DOMAIN f \ {o} : p \in DOMAIN r.offsetSizes /\ r.offsetSizes[p] = f[p]
      /\ o < start => r.offsetSizes[o] = start - o
      /\ end < o + z => r.offsetSizes[end] = o + z - end
  <2>1. \A p \in DOMAIN f \ {o} : p \in DOMAIN r.offsetSizes /\ r.offsetSizes[p] = f[p]
    BY <1>1, <1>2, <1>3, SMTT(60)
    DEF r, ReserveAt, start, InsertAvailableSlot, RemoveAvailableSlot, Emplace, Erase, Sound, IsSlots
  <2>2. o < start => r.offsetSizes[o] = start - o
    BY <1>1, <1>2, <1>3, SMTT(60)
    DEF r, ReserveAt, start, InsertAvailableSlot, RemoveAvailableSlot, Emplace, Erase, Sound, IsSlots
  <2>3. end < o + z => r.offsetSizes[end] = o + z - end
    BY <1>1, <1>2, <1>3, SMTT(60)
    DEF r, ReserveAt, start, InsertAvailableSlot, RemoveAvailableSlot, Emplace, Erase, Sound, IsSlots
  <2>4. QED
    BY <2>1, <2>2, <2>3
<1>8. r.available = (slots.available \ {slot}) \cup {<<start - o, p>> : p \in {q \in {o} : o < start}}
                    \cup {<<o + z - end, p>> : p \in {q \in {end} : end < o + z}}
  BY <1>1, <1>2 DEF r, ReserveAt, start, InsertAvailableSlot, RemoveAvailableSlot, Sound, IsSlots
<1>9. /\ DOMAIN r.reserved = DOMAIN slots.reserved \cup {start}
      /\ r.reserved[start] = size
      /\ \A p \in DOMAIN slots.reserved : r.reserved[p] = slots.reserved[p]
  BY <1>4, <1>5 DEF Emplace
<1> HIDE DEF r
<1>10. \A p \in DOMAIN r.offsetSizes :
          \/ p \in DOMAIN f \ {o} /\ r.offsetSizes[p] = f[p]
          \/ p = o /\ o < start /\ r.offsetSizes[p] = start - o
          \/ p = end /\ end < o + z /\ r.offsetSizes[p] = o + z - end
  BY <1>6, <1>7
<1>11. \A p \in DOMAIN f : p \in Nat /\ f[p] \in Nat \ {0} /\ p + f[p] <= slots.total
  BY DEF Sound, IsSlots, IsMap, Partition, Within
<1>12. \A p \in DOMAIN slots.reserved :
          p \in Nat /\ slots.reserved[p] \in Nat \ {0} /\ p + slots.reserved[p] <= slots.total
  BY DEF Sound, IsSlots, IsMap, Partition, Within
<1>13. slots.total \in Nat
  BY DEF Sound, IsSlots
<1>14. IsSlots(r)
  <2>1. r.offsetSizes \in [DOMAIN r.offsetSizes -> Nat \ {0}]
    <3>1. \A p \in DOMAIN r.offsetSizes : r.offsetSizes[p] \in Nat \ {0}
      BY <1>1, <1>2, <1>10, <1>11
    <3>2. r.offsetSizes = LET taken == Erase(f, {o})
                              front == IF o < start THEN Emplace(taken, o, start - o) ELSE taken
                          IN  IF end < o + z THEN Emplace(front, end, o + z - end) ELSE front
      BY <1>1, <1>2 DEF r, ReserveAt, start, InsertAvailableSlot, RemoveAvailableSlot, Sound, IsSlots
    <3>3. r.offsetSizes = [p \in DOMAIN r.offsetSizes |-> r.offsetSizes[p]]
      <4>1. CASE end < o + z
        BY <3>2, <4>1 DEF Emplace
      <4>2. CASE ~(end < o + z) /\ o < start
        BY <3>2, <4>2 DEF Emplace
      <4>3. CASE ~(end < o + z) /\ ~(o < start)
        BY <3>2, <4>3 DEF Erase
      <4>4. QED
        BY <4>1, <4>2, <4>3
    <3>4. QED
      BY <3>1, <3>3
  <2>2. r.reserved \in [DOMAIN r.reserved -> Nat \ {0}]
    BY <1>5, <1>9, <1>12 DEF Emplace
  <2>3. DOMAIN r.offsetSizes \subseteq Nat /\ DOMAIN r.reserved \subseteq Nat
    BY <1>1, <1>2, <1>10, <1>11, <1>9, <1>12
  <2>4. QED
    BY <1>5, <1>13, <2>1, <2>2, <2>3 DEF IsSlots, IsMap, Sound
<1>15. ViewsAgree(r)
  <2>1. slots.available \ {slot} = {<<f[p], p>> : p \in DOMAIN f \ {o}}
    BY <1>1 DEF Sound, ViewsAgree
  <2>2. {<<r.offsetSizes[p], p>> : p \in DOMAIN r.offsetSizes} =
           {<<f[p], p>> : p \in DOMAIN f \ {o}} \cup {<<start - o, p>> : p \in {q \in {o} : o < start}}
           \cup {<<o + z - end, p>> : p \in {q \in {end} : end < o + z}}
    BY <1>2, <1>6, <1>7, <1>10
  <2>3. QED
    BY <1>8, <2>1, <2>2 DEF ViewsAgree
<1>16. Merged(r)
  <2>1. \A p \in DOMAIN f : p + f[p] \notin DOMAIN f
    BY DEF Sound, Merged
  <2>2. \A p, q \in DOMAIN f : p < q => p + f[p] <= q
    BY DEF Sound, Partition, Disjoint
  <2>3. ASSUME NEW p \in DOMAIN r.offsetSizes, NEW q \in DOMAIN r.offsetSizes,
               p + r.offsetSizes[p] = q
        PROVE  FALSE
    BY <1>1, <1>2, <1>10, <1>11, <2>1, <2>2, <2>3
  <2>4. QED
    BY <2>3 DEF Merged
<1>17. Partition(r)
  <2>1. Disjoint(r.offsetSizes)
    BY <1>1, <1>2, <1>10, <1>11 DEF Sound, Partition, Disjoint
  <2>2. Within(r.offsetSizes, r.total)
    BY <1>1, <1>2, <1>5, <1>10, <1>11, <1>13 DEF Within
  <2>3. Disjoint(r.reserved)
    BY <1>1, <1>2, <1>9, <1>12 DEF Sound, Partition, Disjoint, Apart
  <2>4. Within(r.reserved, r.total)
    BY <1>1, <1>2, <1>5, <1>9, <1>11, <1>12, <1>13 DEF Within
  <2>5. Apart(r.offsetSizes, r.reserved)
    BY <1>1, <1>2, <1>9, <1>10, <1>11, <1>12 DEF Sound, Partition, Disjoint, Apart
  <2>6. ASSUME NEW byte \in 0 .. r.total - 1
        PROVE  IsAvailable(r, byte) \/ IsReserved(r, byte)
    <3>1. byte \in 0 .. slots.total - 1 /\ byte \in Nat
      BY <1>5, <1>13
    <3>2. CASE \E p \in DOMAIN f : p # o /\ InSlot(byte, f, p)
      BY <1>7, <3>2 DEF IsAvailable, InSlot
    <3>3. CASE InSlot(byte, f, o)
      BY <1>1, <1>2, <1>6, <1>7, <1>9, <3>1, <3>3 DEF IsAvailable, IsReserved, InSlot
    <3>4. CASE IsReserved(slots, byte)
      BY <1>9, <3>4 DEF IsReserved, InSlot
    <3>5. QED
      BY <3>1, <3>2, <3>3, <3>4 DEF Sound, Partition, IsAvailable
  <2>7. QED
    BY <2>1, <2>2, <2>3, <2>4, <2>5, <2>6 DEF Partition
<1>18. QED
  BY <1>14, <1>15, <1>16, <1>17 DEF Sound, r, start

--------------------------------------------------------------------------------
\* So does giving a slot back, merged with the available slots before and behind it; an
\* unknown offset changes nothing (MemorySlots.cpp:252-340).
THEOREM ReleaseIsSound ==
    ASSUME NEW slots, Sound(slots), NEW offset
    PROVE  Sound(Release(slots, offset))
<1>1. CASE offset \notin DOMAIN slots.reserved
  BY <1>1 DEF Release
<1>2. CASE offset \in DOMAIN slots.reserved
  <2> DEFINE f == slots.offsetSizes
             size == slots.reserved[offset]
             before == MergedBefore(slots, offset)
             behind == MergedBehind(slots, offset, offset + size)
             start == IF before = {} THEN offset ELSE CHOOSE p \in before : TRUE
             end == IF behind = {} THEN offset + size ELSE offset + size + f[offset + size]
             merged == before \cup behind
             r == Release(slots, offset)
  <2>1. \A p \in DOMAIN f : p \in Nat /\ f[p] \in Nat \ {0} /\ p + f[p] <= slots.total
    BY DEF Sound, IsSlots, IsMap, Partition, Within
  <2>2. \A p \in DOMAIN slots.reserved :
          p \in Nat /\ slots.reserved[p] \in Nat \ {0} /\ p + slots.reserved[p] <= slots.total
    BY DEF Sound, IsSlots, IsMap, Partition, Within
  <2>3. slots.total \in Nat
    BY DEF Sound, IsSlots
  <2>4. \A p, q \in DOMAIN f : p < q => p + f[p] <= q
    BY DEF Sound, Partition, Disjoint
  <2>5. \A p \in DOMAIN f, q \in DOMAIN slots.reserved :
            p + f[p] <= q \/ q + slots.reserved[q] <= p
    BY DEF Sound, Partition, Apart
  <2>6. \A p \in DOMAIN f : p + f[p] \notin DOMAIN f
    BY DEF Sound, Merged
  \* A slot that ends at offset is the one before it, and one that begins at the end
  \* is the next one.
  <2>7. \A p : p \in before <=> p \in DOMAIN f /\ p + f[p] = offset
    BY <1>2, <2>1, <2>2, <2>4 DEF MergedBefore
  <2>8. \A p : p \in behind <=> p \in DOMAIN f /\ p = offset + size
    BY <1>2, <2>1, <2>2, <2>4, <2>5 DEF MergedBehind
  <2>9. /\ before = {} => start = offset
        /\ before # {} => start \in DOMAIN f /\ start + f[start] = offset /\ before = {start}
    BY <2>1, <2>4, <2>7
  <2>10. /\ behind = {} => end = offset + size
         /\ behind # {} => /\ behind = {offset + size} /\ offset + size \in DOMAIN f
                           /\ end = offset + size + f[offset + size]
    BY <2>8
  <2> HIDE DEF before, behind, start, end
  <2>11. /\ DOMAIN r = DOMAIN slots /\ r.total = slots.total
         /\ r.reserved = Erase(slots.reserved, {offset})
         /\ r.offsetSizes = Emplace(Erase(f, merged), start, end - start)
         /\ r.available = {s \in slots.available : s[2] \notin merged} \cup {<<end - start, start>>}
    BY <1>2 DEF r, Release, before, behind, start, end, InsertAvailableSlot, Sound, IsSlots
  <2> HIDE DEF r
  <2>12. start \in Nat /\ end \in Nat /\ start <= offset /\ offset + size <= end /\ offset < end
         /\ offset \in Nat /\ size \in Nat \ {0} /\ end <= slots.total
    BY <1>2, <2>1, <2>2, <2>9, <2>10
  <2>13. start \notin DOMAIN f \ merged
    BY <1>2, <2>2, <2>5, <2>9, <2>12, <2>1
  <2>14. /\ DOMAIN r.offsetSizes = (DOMAIN f \ merged) \cup {start}
         /\ r.offsetSizes[start] = end - start
         /\ \A p \in DOMAIN f \ merged : r.offsetSizes[p] = f[p]
    BY <2>11, <2>13 DEF Emplace, Erase
  <2>15. /\ DOMAIN r.reserved = DOMAIN slots.reserved \ {offset}
         /\ \A p \in DOMAIN r.reserved : r.reserved[p] = slots.reserved[p]
    BY <2>11 DEF Erase
  \* The other available slots keep a distance from the merged one.
  <2>16. \A p \in DOMAIN f \ merged : p + f[p] < start \/ end < p
    BY <1>2, <2>1, <2>2, <2>4, <2>5, <2>6, <2>7, <2>8, <2>9, <2>10, <2>12
  <2>17. \A p \in DOMAIN slots.reserved \ {offset} : p + slots.reserved[p] <= start \/ end <= p
    <3>1. \A p \in DOMAIN slots.reserved \ {offset} :
             p + slots.reserved[p] <= offset \/ offset + size <= p
      BY <1>2, <2>2 DEF Sound, Partition, Disjoint
    <3>2. \A p \in DOMAIN slots.reserved : before # {} => p + slots.reserved[p] <= start \/ offset <= p
      BY <2>5, <2>9, <2>1, <2>2
    <3>3. \A p \in DOMAIN slots.reserved : behind # {} => p + slots.reserved[p] <= offset + size \/ end <= p
      BY <2>5, <2>10, <2>1, <2>2
    <3>4. QED
      BY <2>2, <2>9, <2>10, <2>12, <3>1, <3>2, <3>3
  <2>18. IsSlots(r)
    <3>1. \A p \in DOMAIN r.offsetSizes : r.offsetSizes[p] \in Nat \ {0} /\ p \in Nat
      BY <2>1, <2>12, <2>14
    <3>2. r.offsetSizes \in [DOMAIN r.offsetSizes -> Nat \ {0}]
      BY <2>11, <3>1 DEF Emplace
    <3>3. r.reserved \in [DOMAIN r.reserved -> Nat \ {0}]
      BY <2>2, <2>11, <2>15 DEF Erase
    <3>4. QED
      BY <2>2, <2>3, <2>11, <2>15, <3>1, <3>2, <3>3 DEF IsSlots, IsMap, Sound
  <2>19. ViewsAgree(r)
    <3>1. {s \in slots.available : s[2] \notin merged} = {<<f[p], p>> : p \in DOMAIN f \ merged}
      BY DEF Sound, ViewsAgree
    <3>2. {<<r.offsetSizes[p], p>> : p \in DOMAIN r.offsetSizes} =
             {<<f[p], p>> : p \in DOMAIN f \ merged} \cup {<<end - start, start>>}
      BY <2>14
    <3>3. QED
      BY <2>11, <3>1, <3>2 DEF ViewsAgree
  <2>20. Merged(r)
    <3>1. ASSUME NEW p \in DOMAIN r.offsetSizes, NEW q \in DOMAIN r.offsetSizes,
                 p + r.offsetSizes[p] = q
          PROVE  FALSE
      BY <2>1, <2>6, <2>12, <2>14, <2>16, <3>1
    <3>2. QED
      BY <3>1 DEF Merged
  <2>21. Partition(r)
    <3>1. Disjoint(r.offsetSizes)
      BY <2>1, <2>4, <2>12, <2>14, <2>16 DEF Disjoint
    <3>2. Within(r.offsetSizes, r.total)
      <4>1. start + r.offsetSizes[start] <= slots.total
        BY <2>3, <2>12, <2>14
      <4>2. QED
        BY <2>1, <2>11, <2>14, <4>1 DEF Within
    <3>3. Disjoint(r.reserved)
      BY <2>15 DEF Sound, Partition, Disjoint
    <3>4. Within(r.reserved, r.total)
      BY <2>11, <2>15 DEF Sound, Partition, Within
    <3>5. Apart(r.offsetSizes, r.reserved)
      BY <2>1, <2>2, <2>5, <2>12, <2>14, <2>15, <2>17 DEF Apart
    <3>6. ASSUME NEW byte \in 0 .. r.total - 1
          PROVE  IsAvailable(r, byte) \/ IsReserved(r, byte)
      <4>1. byte \in 0 .. slots.total - 1 /\ byte \in Nat
        BY <2>3, <2>11
      <4>2. CASE start <= byte /\ byte < end
        BY <2>12, <2>14, <4>1, <4>2 DEF IsAvailable, InSlot
      <4>3. CASE \E p \in DOMAIN f \ merged : InSlot(byte, f, p)
        BY <2>14, <4>3 DEF IsAvailable, InSlot
      <4>4. CASE \E p \in merged : InSlot(byte, f, p)
        BY <2>1, <2>7, <2>8, <2>9, <2>10, <2>12, <4>1, <4>2, <4>4 DEF InSlot
      <4>5. CASE \E p \in DOMAIN slots.reserved \ {offset} : InSlot(byte, slots.reserved, p)
        BY <2>15, <4>5 DEF IsReserved, InSlot
      <4>6. CASE InSlot(byte, slots.reserved, offset)
        BY <1>2, <2>2, <2>12, <4>1, <4>2, <4>6 DEF InSlot
      <4>7. QED
        BY <4>1, <4>2, <4>3, <4>4, <4>5, <4>6 DEF Sound, Partition, IsAvailable, IsReserved
    <3>7. QED
      BY <3>1, <3>2, <3>3, <3>4, <3>5, <3>6 DEF Partition
  <2>22. QED
    BY <2>18, <2>19, <2>20, <2>21 DEF Sound, r
<1>3. QED
  BY <1>1, <1>2
--------------------------------------------------------------------------------
\* Nothing is reserved in a new block.
LEMMA NothingReserved ==
    ASSUME NEW size \in Nat \ {0}
    PROVE  DOMAIN NewSlots(size).reserved = {}
BY DEF NewSlots, InsertAvailableSlot, NoEntries

\* reserve() adds the aligned offset to what is reserved, and nothing else.
LEMMA ReserveAddsOne ==
    ASSUME NEW slots, Sound(slots),
           NEW size \in Nat \ {0}, NEW alignment \in Nat \ {0},
           NEW slot \in BestFits(slots, size, alignment)
    PROVE  /\ Sound(ReserveAt(slots, slot, size, alignment))
           /\ ReserveAt(slots, slot, size, alignment).total = slots.total
           /\ Aligned(slot[2], alignment) \in Nat \ DOMAIN slots.reserved
           /\ ReserveAt(slots, slot, size, alignment).reserved
                  = Emplace(slots.reserved, Aligned(slot[2], alignment), size)
<1> DEFINE start == Aligned(slot[2], alignment)
<1>1. slot \in slots.available /\ Fits(slot, size, alignment)
  BY DEF BestFits
<1>2. /\ slot[1] \in Nat \ {0} /\ slot[2] \in DOMAIN slots.offsetSizes /\ slot[2] \in Nat
      /\ slots.offsetSizes[slot[2]] = slot[1]
  BY <1>1, AvailableSlot
<1>3. start \in Nat /\ slot[2] <= start /\ start + size <= slot[2] + slot[1]
  BY <1>1, <1>2, AlignedIsBehind DEF Fits
<1>4. start \notin DOMAIN slots.reserved
  BY <1>2, <1>3 DEF Sound, Partition, Apart, IsSlots, IsMap
<1>5. /\ ReserveAt(slots, slot, size, alignment).total = slots.total
      /\ ReserveAt(slots, slot, size, alignment).reserved = Emplace(slots.reserved, start, size)
  BY DEF ReserveAt, InsertAvailableSlot, RemoveAvailableSlot, Sound, IsSlots
<1>6. QED
  BY <1>1, <1>3, <1>4, <1>5, ReserveIsSound

\* release() removes the offset, and nothing else.
LEMMA ReleaseRemovesOne ==
    ASSUME NEW slots, Sound(slots), NEW offset \in DOMAIN slots.reserved
    PROVE  /\ Sound(Release(slots, offset))
           /\ Release(slots, offset).total = slots.total
           /\ Release(slots, offset).reserved = Erase(slots.reserved, {offset})
<1>1. /\ Release(slots, offset).total = slots.total
      /\ Release(slots, offset).reserved = Erase(slots.reserved, {offset})
  BY DEF Release, InsertAvailableSlot, Sound, IsSlots
<1>2. QED
  BY <1>1, ReleaseIsSound

--------------------------------------------------------------------------------
(* The pools.                                                              *)

\* Threads get memory for different buffers, each for the one it has created.
BindsDiffer == \A t, u \in DOMAIN binds : binds[t].buffer = binds[u].buffer => t = u

Inv == TypeOK /\ BindsDiffer /\ SlotsAreSound /\ ReservedIsOwned

\* A block that is large enough for a request is not empty, and what a buffer requires
\* is at least its size.
LEMMA Sizes ==
    ASSUME NEW size \in Positive, NEW minimum \in Nat
    PROVE  /\ Larger(size, minimum) \in Positive
           /\ RequiredSize(size) \in Positive /\ RequiredSize(size) >= size
           /\ Aligned(Larger(size, minimum), memoryAlignment) \in Positive
<1>1. Larger(size, minimum) \in Positive
  BY DEF Larger, Positive
<1>2. memoryAlignment \in Nat \ {0}
  BY PoolsAssumption DEF Positive
<1>3. QED
  BY <1>1, <1>2, AlignedIsBehind DEF RequiredSize, Positive

\* The total of a sound block that has a reserved slot is positive.
LEMMA TotalIsPositive ==
    ASSUME NEW slots, Sound(slots), DOMAIN slots.reserved # {}
    PROVE  slots.total \in Positive
<1>1. PICK o \in DOMAIN slots.reserved : TRUE
  OBVIOUS
<1>2. /\ o \in Nat /\ slots.reserved[o] \in Nat \ {0} /\ o + slots.reserved[o] <= slots.total
      /\ slots.total \in Nat
  BY <1>1 DEF Sound, IsSlots, IsMap, Partition, Within
<1>3. QED
  BY <1>2 DEF Positive

\* A pool of what exists holds what exists when more exists, and when something goes
\* that is not in it.
LEMMA PoolStaysTyped ==
    ASSUME NEW S, NEW T, NEW pool \in Seq(S), \A i \in DOMAIN pool : pool[i] \in T
    PROVE  pool \in Seq(T)
OBVIOUS

--------------------------------------------------------------------------------
\* At first there is nothing.
LEMMA InitInv == Init => Inv
<1>1. SUFFICES ASSUME Init PROVE Inv
  OBVIOUS
<1>2. /\ Existing = {} /\ DOMAIN binding = {} /\ DOMAIN memorySlots = {} /\ DOMAIN binds = {}
      /\ DOMAIN usage = {} /\ BufferInfos = {} /\ leaked = {}
  BY <1>1 DEF Init, NoEntries, Existing, BufferInfos
<1>3. TypeOK
  BY <1>1, <1>2, PoolsAssumption DEF Init, TypeOK
<1>4. QED
  BY <1>1, <1>2, <1>3 DEF Inv, BindsDiffer, SlotsAreSound, ReservedIsOwned, BufferSlotsAreOwned,
                          MemorySlotsAreOwned, OwnersDiffer

--------------------------------------------------------------------------------
(* A slot of a buffer for a new BufferInfo.                                *)

\* A slot that was not reserved gets a BufferInfo that did not exist.
LEMMA ReserveFromPoolKeepsInv ==
    ASSUME Inv, NEW t \in Threads, NEW r \in Requests, NEW flags \in Usages,
           ReserveFromPool(t, r.size, r.alignment, flags)
    PROVE  Inv'
<1>1. r.size \in Positive /\ r.alignment \in Positive
  BY PoolsAssumption
<1>2. PICK i \in BufferFor(r.size, r.alignment, flags) :
          \E slot \in BestFits(bufferSlots[bufferPools[i]], r.size, r.alignment) :
             /\ bufferSlots' = [bufferSlots EXCEPT ![bufferPools[i]] =
                                   ReserveAt(@, slot, r.size, r.alignment)]
             /\ infos' = infos \cup {Info(bufferPools[i], Aligned(slot[2], r.alignment), r.size)}
  BY DEF ReserveFromPool
<1> DEFINE b == bufferPools[i]
<1>3. b \in Existing
  BY DEF BufferFor, FirstWithSlot
<1> HIDE DEF b
<1>4. PICK slot \in BestFits(bufferSlots[b], r.size, r.alignment) :
          /\ bufferSlots' = [bufferSlots EXCEPT ![b] = ReserveAt(@, slot, r.size, r.alignment)]
          /\ infos' = infos \cup {Info(b, Aligned(slot[2], r.alignment), r.size)}
  BY <1>2 DEF b
<1> DEFINE start == Aligned(slot[2], r.alignment)
           new == Info(b, start, r.size)
<1>5. /\ Sound(bufferSlots'[b]) /\ bufferSlots'[b].total = bufferSlots[b].total
      /\ start \in Nat \ DOMAIN bufferSlots[b].reserved
      /\ bufferSlots'[b].reserved = Emplace(bufferSlots[b].reserved, start, r.size)
  BY <1>1, <1>3, <1>4, ReserveAddsOne DEF Inv, SlotsAreSound, Positive, Existing
<1> HIDE DEF start
<1>6. /\ Existing' = Existing
      /\ \A c \in Existing : c # b => bufferSlots'[c] = bufferSlots[c]
      /\ \A c \in Existing : bufferSlots'[c].total = bufferSlots[c].total
  BY <1>3, <1>4, <1>5 DEF Existing
<1>7. UNCHANGED <<usage, binding, memorySlots, bufferPools, memoryPools, binds, failures, leaked>>
  BY DEF ReserveFromPool
<1>8. /\ DOMAIN bufferSlots'[b].reserved = DOMAIN bufferSlots[b].reserved \cup {start}
      /\ bufferSlots'[b].reserved[start] = r.size
      /\ \A o \in DOMAIN bufferSlots[b].reserved :
            bufferSlots'[b].reserved[o] = bufferSlots[b].reserved[o]
  BY <1>5 DEF Emplace
<1>9. /\ new.buffer = b /\ new.offset = start /\ new.range = r.size
      /\ new \in [buffer : Existing, offset : Nat, range : Positive]
      /\ BufferInfos' = BufferInfos \cup {new}
  BY <1>1, <1>3, <1>4, <1>5, <1>7 DEF Info, BufferInfos, start
<1> HIDE DEF new
<1>10. TypeOK'
  BY <1>6, <1>7, <1>9 DEF Inv, TypeOK
<1>11. BindsDiffer'
  BY <1>7 DEF Inv, BindsDiffer
<1>12. SlotsAreSound'
  BY <1>3, <1>5, <1>6, <1>7 DEF Inv, SlotsAreSound
<1>13. BufferSlotsAreOwned'
  <2>1. \A k \in BufferInfos' : /\ k.offset \in DOMAIN bufferSlots'[k.buffer].reserved
                                /\ bufferSlots'[k.buffer].reserved[k.offset] = k.range
    <3>1. \A k \in BufferInfos : /\ k.buffer \in Existing
                                 /\ k.offset \in DOMAIN bufferSlots[k.buffer].reserved
                                 /\ bufferSlots[k.buffer].reserved[k.offset] = k.range
      BY DEF Inv, TypeOK, ReservedIsOwned, BufferSlotsAreOwned
    <3>2. QED
      BY <1>6, <1>8, <1>9, <3>1
  <2>2. ASSUME NEW c \in Existing', NEW o \in DOMAIN bufferSlots'[c].reserved
        PROVE  \E k \in BufferInfos' : k.buffer = c /\ k.offset = o
    <3>1. CASE c = b /\ o = start
      BY <1>9, <3>1
    <3>2. CASE ~(c = b /\ o = start)
      <4>1. c \in Existing /\ o \in DOMAIN bufferSlots[c].reserved
        BY <1>6, <1>8, <2>2, <3>2
      <4>2. QED
        BY <1>9, <4>1 DEF Inv, ReservedIsOwned, BufferSlotsAreOwned
    <3>3. QED
      BY <3>1, <3>2
  <2>3. QED
    BY <2>1, <2>2 DEF BufferSlotsAreOwned
<1>14. MemorySlotsAreOwned'
  <2>1. \A c \in DOMAIN binding : bufferSlots'[c].total = bufferSlots[c].total
    BY <1>6 DEF Inv, TypeOK
  <2>2. QED
    BY <1>7, <2>1 DEF Inv, ReservedIsOwned, MemorySlotsAreOwned
<1>15. OwnersDiffer'
  <2>1. \A k \in BufferInfos : ~(k.buffer = b /\ k.offset = start)
    BY <1>5 DEF Inv, ReservedIsOwned, BufferSlotsAreOwned
  <2>2. infos' = infos \cup {new} /\ \A u \in DOMAIN binds : binds[u] # new
    BY <1>4, <1>9, <2>1 DEF BufferInfos, new, start
  <2>3. \A k, l \in BufferInfos' : k.buffer = l.buffer /\ k.offset = l.offset => k = l
    BY <1>9, <2>1 DEF Inv, ReservedIsOwned, OwnersDiffer
  <2>4. QED
    BY <1>7, <2>2, <2>3 DEF Inv, ReservedIsOwned, OwnersDiffer
<1>16. QED
  BY <1>10, <1>11, <1>12, <1>13, <1>14, <1>15 DEF Inv, ReservedIsOwned

\* A new buffer begins with one slot, which belongs to the thread that is going to bind it.
LEMMA CreateBufferKeepsInv ==
    ASSUME Inv, NEW t \in Threads, NEW r \in Requests, NEW flags \in Usages, NEW b \in Buffers,
           CreateBuffer(t, r.size, r.alignment, flags, b)
    PROVE  Inv'
<1> DEFINE total == Larger(r.size, minimumBufferSize)
           new == NewSlots(total)
<1>1. r.size \in Positive /\ r.alignment \in Positive /\ total \in Positive
  BY PoolsAssumption, Sizes
<1>2. PICK slot \in BestFits(new, r.size, r.alignment) :
          LET slots == ReserveAt(new, slot, r.size, r.alignment)
          IN  /\ bufferSlots' = Emplace(bufferSlots, b, slots)
              /\ bufferPools' = IF Full(slots) THEN bufferPools ELSE Append(bufferPools, b)
              /\ binds' = Emplace(binds, t, Info(b, Aligned(slot[2], r.alignment), r.size))
  BY DEF CreateBuffer
<1> DEFINE slots == ReserveAt(new, slot, r.size, r.alignment)
           start == Aligned(slot[2], r.alignment)
           info == Info(b, start, r.size)
<1>3. Sound(new) /\ DOMAIN new.reserved = {} /\ new.total = total
  BY <1>1, NewSlotsAreSound, NothingReserved DEF Positive
<1> HIDE DEF new, total
<1>4. /\ Sound(slots) /\ start \in Nat
      /\ slots.reserved = Emplace(new.reserved, start, r.size)
  BY <1>1, <1>3, ReserveAddsOne DEF Positive
<1>5. /\ bufferSlots' = Emplace(bufferSlots, b, slots)
      /\ bufferPools' = bufferPools \/ bufferPools' = Append(bufferPools, b)
      /\ binds' = Emplace(binds, t, info)
  BY <1>2
<1>6. t \notin DOMAIN binds /\ b \notin Existing
  BY DEF CreateBuffer
<1>7. /\ usage' = Emplace(usage, b, flags)
      /\ UNCHANGED <<binding, memorySlots, memoryPools, infos, failures, leaked>>
  BY DEF CreateBuffer
<1> HIDE DEF slots, start
<1>8. /\ Existing' = Existing \cup {b} /\ bufferSlots'[b] = slots
      /\ \A c \in Existing : bufferSlots'[c] = bufferSlots[c]
  BY <1>5, <1>6 DEF Emplace, Existing
<1>9. DOMAIN slots.reserved = {start} /\ slots.reserved[start] = r.size
  BY <1>3, <1>4 DEF Emplace
<1>10. /\ DOMAIN binds' = DOMAIN binds \cup {t} /\ binds'[t] = info
       /\ \A u \in DOMAIN binds : binds'[u] = binds[u]
  BY <1>5, <1>6 DEF Emplace
<1>11. /\ info.buffer = b /\ info.offset = start /\ info.range = r.size
       /\ info \in [buffer : Existing', offset : Nat, range : Positive]
  BY <1>1, <1>4, <1>8 DEF Info
<1> HIDE DEF info
<1>12. BufferInfos' = BufferInfos \cup {info}
  BY <1>7, <1>10 DEF BufferInfos
<1>13. \A k \in BufferInfos : k.buffer \in Existing /\ k.buffer # b
  BY <1>6 DEF Inv, TypeOK
<1>14. TypeOK'
  <2>1. Existing' \subseteq Buffers /\ DOMAIN usage' = Existing' /\ DOMAIN binding' \subseteq Existing'
    BY <1>7, <1>8 DEF Inv, TypeOK, Emplace
  <2>2. bufferPools' \in Seq(Existing')
    <3>1. bufferPools \in Seq(Existing) /\ Existing \subseteq Existing' /\ b \in Existing'
      BY <1>8 DEF Inv, TypeOK
    <3>2. bufferPools \in Seq(Existing')
      BY <3>1
    <3>3. QED
      BY <1>5, <3>1, <3>2
  <2>3. BufferInfos' \subseteq [buffer : Existing', offset : Nat, range : Positive]
    BY <1>8, <1>11, <1>12 DEF Inv, TypeOK
  <2>4. \A u \in DOMAIN binds' : u \in Threads /\ binds'[u].buffer \notin DOMAIN binding'
    BY <1>6, <1>7, <1>10, <1>11 DEF Inv, TypeOK
  <2>5. QED
    BY <1>7, <2>1, <2>2, <2>3, <2>4 DEF Inv, TypeOK
<1>15. BindsDiffer'
  BY <1>10, <1>11, <1>13 DEF Inv, BindsDiffer, BufferInfos
<1>16. SlotsAreSound'
  BY <1>4, <1>7, <1>8 DEF Inv, SlotsAreSound
<1>17. BufferSlotsAreOwned'
  <2>1. \A k \in BufferInfos' : /\ k.offset \in DOMAIN bufferSlots'[k.buffer].reserved
                                /\ bufferSlots'[k.buffer].reserved[k.offset] = k.range
    BY <1>8, <1>9, <1>11, <1>12, <1>13 DEF Inv, ReservedIsOwned, BufferSlotsAreOwned
  <2>2. \A c \in Existing' : \A o \in DOMAIN bufferSlots'[c].reserved :
           \E k \in BufferInfos' : k.buffer = c /\ k.offset = o
    BY <1>8, <1>9, <1>11, <1>12 DEF Inv, ReservedIsOwned, BufferSlotsAreOwned
  <2>3. QED
    BY <2>1, <2>2 DEF BufferSlotsAreOwned
<1>18. MemorySlotsAreOwned'
  BY <1>7, <1>8 DEF Inv, TypeOK, ReservedIsOwned, MemorySlotsAreOwned, RequiredSize
<1>19. OwnersDiffer'
  <2>1. \A k, l \in BufferInfos' : k.buffer = l.buffer /\ k.offset = l.offset => k = l
    BY <1>11, <1>12, <1>13 DEF Inv, ReservedIsOwned, OwnersDiffer
  <2>2. \A u \in DOMAIN binds' : binds'[u] \notin infos'
    BY <1>7, <1>10, <1>11, <1>13 DEF Inv, ReservedIsOwned, OwnersDiffer, BufferInfos
  <2>3. \A u, v \in DOMAIN binds' : binds'[u] = binds'[v] => u = v
    BY <1>15 DEF BindsDiffer
  <2>4. QED
    BY <1>7, <2>1, <2>2, <2>3 DEF Inv, ReservedIsOwned, OwnersDiffer
<1>20. QED
  BY <1>14, <1>15, <1>16, <1>17, <1>18, <1>19 DEF Inv, ReservedIsOwned

--------------------------------------------------------------------------------
(* A slot of a memory for a new buffer.                                    *)

\* The ways to bind a buffer differ in where the memory comes from; this is what they
\* share: a slot that was not reserved goes to a buffer that was not bound, or leaks in
\* a memory of the pool.
LEMMA BindKeepsInv ==
    ASSUME Inv, NEW t \in DOMAIN binds, NEW m, NEW start \in Nat,
           Bound(t, m, start) \/ (m \in Pooled(memoryPools') /\ NotBound(m, start)),
           Return(t), UNCHANGED <<bufferSlots, usage, bufferPools>>,
           DOMAIN memorySlots' = DOMAIN memorySlots \cup {m},
           DOMAIN memorySlots' \subseteq Memories, memoryPools' \in Seq(DOMAIN memorySlots'),
           Pooled(memoryPools) \subseteq Pooled(memoryPools'),
           Sound(memorySlots'[m]),
           DOMAIN memorySlots'[m].reserved =
               {start} \cup (IF m \in DOMAIN memorySlots THEN DOMAIN memorySlots[m].reserved ELSE {}),
           memorySlots'[m].reserved[start] = RequiredSize(bufferSlots[binds[t].buffer].total),
           m \in DOMAIN memorySlots =>
               /\ start \notin DOMAIN memorySlots[m].reserved
               /\ \A o \in DOMAIN memorySlots[m].reserved :
                     memorySlots'[m].reserved[o] = memorySlots[m].reserved[o],
           \A n \in DOMAIN memorySlots \ {m} : memorySlots'[n] = memorySlots[n]
    PROVE  Inv'
<1> DEFINE b == binds[t].buffer
           place == [memory |-> m, offset |-> start]
<1>1. b \notin DOMAIN binding /\ b \in Existing
  BY DEF Inv, TypeOK, BufferInfos
<1>2. Existing' = Existing
  BY DEF Existing
<1>3. /\ infos' = infos \cup {binds[t]}
      /\ DOMAIN binds' = DOMAIN binds \ {t}
      /\ \A u \in DOMAIN binds' : binds'[u] = binds[u] /\ binds[u].buffer # b
  BY DEF Return, Erase, Inv, BindsDiffer
<1>4. BufferInfos' = BufferInfos
  BY <1>3 DEF BufferInfos
<1>5. \/ /\ DOMAIN binding' = DOMAIN binding \cup {b} /\ binding'[b] = place
         /\ \A c \in DOMAIN binding : binding'[c] = binding[c]
         /\ leaked' = leaked
      \/ /\ binding' = binding /\ leaked' = leaked \cup {place}
         /\ m \in Pooled(memoryPools')
  BY <1>1 DEF Bound, NotBound, Emplace
<1>6. failures' \in 0 .. MaxFailures
  BY PoolsAssumption DEF Bound, NotBound, Inv, TypeOK
<1>7. /\ \A c \in DOMAIN binding : binding[c] \in [memory : DOMAIN memorySlots, offset : Nat]
      /\ \A p \in leaked : p \in [memory : DOMAIN memorySlots, offset : Nat]
      /\ place \in [memory : DOMAIN memorySlots', offset : Nat]
      /\ place.memory = m /\ place.offset = start
  BY DEF Inv, TypeOK
<1>8. /\ \A c \in DOMAIN binding :
            binding[c].offset \in DOMAIN memorySlots[binding[c].memory].reserved
      /\ \A p \in leaked : /\ p.memory \in Pooled(memoryPools)
                           /\ p.offset \in DOMAIN memorySlots[p.memory].reserved
  BY DEF Inv, ReservedIsOwned, MemorySlotsAreOwned
<1>9. /\ \A c \in DOMAIN binding : binding[c] # place
      /\ \A p \in leaked : p # place
  BY <1>7, <1>8
<1>10. \A n \in DOMAIN memorySlots : \A o \in DOMAIN memorySlots[n].reserved :
          /\ n \in DOMAIN memorySlots' /\ o \in DOMAIN memorySlots'[n].reserved
          /\ memorySlots'[n].reserved[o] = memorySlots[n].reserved[o]
  OBVIOUS
<1> HIDE DEF b, place
<1>11. TypeOK'
  <2>1. \A c \in DOMAIN binding' : binding'[c] \in [memory : DOMAIN memorySlots', offset : Nat]
    BY <1>5, <1>7
  <2>2. DOMAIN binding' \subseteq Existing'
    BY <1>1, <1>2, <1>5 DEF Inv, TypeOK
  <2>3. \A u \in DOMAIN binds' : u \in Threads /\ binds'[u].buffer \notin DOMAIN binding'
    BY <1>3, <1>5 DEF Inv, TypeOK
  <2>4. leaked' \subseteq [memory : DOMAIN memorySlots', offset : Nat]
    BY <1>5, <1>7
  <2>5. QED
    BY <1>2, <1>4, <1>6, <2>1, <2>2, <2>3, <2>4 DEF Inv, TypeOK
<1>12. BindsDiffer'
  BY <1>3 DEF Inv, BindsDiffer
<1>13. SlotsAreSound'
  BY <1>2 DEF Inv, SlotsAreSound
<1>14. BufferSlotsAreOwned'
  BY <1>2, <1>4 DEF Inv, ReservedIsOwned, BufferSlotsAreOwned
<1>15. MemorySlotsAreOwned'
  <2>1. ASSUME NEW c \in DOMAIN binding'
        PROVE  LET slots == memorySlots'[binding'[c].memory]
               IN  /\ binding'[c].offset \in DOMAIN slots.reserved
                   /\ slots.reserved[binding'[c].offset] = RequiredSize(bufferSlots'[c].total)
    <3>1. CASE c \in DOMAIN binding
      <4>1. binding'[c] = binding[c]
        BY <1>5, <3>1
      <4>2. memorySlots[binding[c].memory].reserved[binding[c].offset]
                = RequiredSize(bufferSlots[c].total)
        BY <3>1 DEF Inv, ReservedIsOwned, MemorySlotsAreOwned
      <4>3. QED
        BY <1>7, <1>8, <1>10, <3>1, <4>1, <4>2
    <3>2. CASE c \notin DOMAIN binding
      BY <1>5, <1>7, <2>1, <3>2 DEF b
    <3>3. QED
      BY <3>1, <3>2
  <2>2. ASSUME NEW n \in DOMAIN memorySlots', NEW o \in DOMAIN memorySlots'[n].reserved
        PROVE  \/ \E c \in DOMAIN binding' : binding'[c].memory = n /\ binding'[c].offset = o
               \/ \E p \in leaked' : p.memory = n /\ p.offset = o
    <3>1. CASE n = m /\ o = start
      BY <1>5, <1>7, <3>1
    <3>2. CASE ~(n = m /\ o = start)
      <4>1. n \in DOMAIN memorySlots /\ o \in DOMAIN memorySlots[n].reserved
        BY <2>2, <3>2
      <4>2. \/ \E c \in DOMAIN binding : binding[c].memory = n /\ binding[c].offset = o
            \/ \E p \in leaked : p.memory = n /\ p.offset = o
        BY <4>1 DEF Inv, ReservedIsOwned, MemorySlotsAreOwned
      <4>3. QED
        BY <1>5, <4>2
    <3>3. QED
      BY <3>1, <3>2
  <2>3. ASSUME NEW p \in leaked'
        PROVE  /\ p.memory \in Pooled(memoryPools')
               /\ p.offset \in DOMAIN memorySlots'[p.memory].reserved
    <3>1. CASE p \in leaked
      BY <1>7, <1>8, <1>10, <3>1
    <3>2. CASE p \notin leaked
      BY <1>5, <1>7, <2>3, <3>2
    <3>3. QED
      BY <3>1, <3>2
  <2>4. QED
    BY <2>1, <2>2, <2>3 DEF MemorySlotsAreOwned, RequiredSize
<1>16. OwnersDiffer'
  <2>1. \A c, d \in DOMAIN binding' : binding'[c] = binding'[d] => c = d
    BY <1>5, <1>9 DEF Inv, ReservedIsOwned, OwnersDiffer
  <2>2. \A c \in DOMAIN binding' : binding'[c] \notin leaked'
    BY <1>5, <1>9 DEF Inv, ReservedIsOwned, OwnersDiffer
  <2>3. \A u \in DOMAIN binds' : binds'[u] \notin infos'
    BY <1>3 DEF Inv, ReservedIsOwned, OwnersDiffer
  <2>4. \A u, v \in DOMAIN binds' : binds'[u] = binds'[v] => u = v
    BY <1>12 DEF BindsDiffer
  <2>5. QED
    BY <1>4, <2>1, <2>2, <2>3, <2>4 DEF Inv, ReservedIsOwned, OwnersDiffer
<1>17. QED
  BY <1>11, <1>12, <1>13, <1>14, <1>15, <1>16 DEF Inv, ReservedIsOwned

\* A buffer that waits to be bound has a size.
LEMMA UnboundHasSize ==
    ASSUME Inv, NEW t \in DOMAIN binds
    PROVE  /\ bufferSlots[binds[t].buffer].total \in Positive
           /\ RequiredSize(bufferSlots[binds[t].buffer].total) \in Positive
<1>1. /\ binds[t].buffer \in Existing
      /\ DOMAIN bufferSlots[binds[t].buffer].reserved # {}
  BY DEF Inv, TypeOK, BufferInfos, ReservedIsOwned, BufferSlotsAreOwned
<1>2. bufferSlots[binds[t].buffer].total \in Positive
  BY <1>1, TotalIsPositive DEF Inv, SlotsAreSound
<1>3. QED
  BY <1>2, Sizes, PoolsAssumption

\* reserveMemory() finds a memory of the pool that has room.
LEMMA BindPooledMemoryKeepsInv ==
    ASSUME Inv, NEW t \in Threads, BindPooledMemory(t)
    PROVE  Inv'
<1> DEFINE size == RequiredSize(bufferSlots[binds[t].buffer].total)
<1>1. /\ t \in DOMAIN binds /\ Return(t)
      /\ UNCHANGED <<bufferSlots, usage, bufferPools, memoryPools>>
  BY DEF BindPooledMemory
<1>2. size \in Positive /\ memoryAlignment \in Positive
  BY <1>1, UnboundHasSize, PoolsAssumption
<1>3. PICK i \in MemoryFor(size) :
          \E slot \in BestFits(memorySlots[memoryPools[i]], size, memoryAlignment) :
             /\ memorySlots' = [memorySlots EXCEPT ![memoryPools[i]] =
                                   ReserveAt(@, slot, size, memoryAlignment)]
             /\ \/ Bound(t, memoryPools[i], Aligned(slot[2], memoryAlignment))
                \/ NotBound(memoryPools[i], Aligned(slot[2], memoryAlignment))
  BY DEF BindPooledMemory
<1> DEFINE m == memoryPools[i]
<1>4. m \in DOMAIN memorySlots /\ m \in Pooled(memoryPools)
  BY DEF MemoryFor, FirstWithSlot, Pooled
<1> HIDE DEF m, size
<1>5. PICK slot \in BestFits(memorySlots[m], size, memoryAlignment) :
          /\ memorySlots' = [memorySlots EXCEPT ![m] = ReserveAt(@, slot, size, memoryAlignment)]
          /\ \/ Bound(t, m, Aligned(slot[2], memoryAlignment))
             \/ NotBound(m, Aligned(slot[2], memoryAlignment))
  BY <1>3 DEF m
<1> DEFINE start == Aligned(slot[2], memoryAlignment)
<1>6. /\ Sound(memorySlots'[m]) /\ start \in Nat \ DOMAIN memorySlots[m].reserved
      /\ memorySlots'[m].reserved = Emplace(memorySlots[m].reserved, start, size)
  BY <1>2, <1>4, <1>5, ReserveAddsOne DEF Inv, SlotsAreSound, Positive
<1> HIDE DEF start
<1>7. /\ DOMAIN memorySlots' = DOMAIN memorySlots
      /\ \A n \in DOMAIN memorySlots \ {m} : memorySlots'[n] = memorySlots[n]
  BY <1>5
<1>8. /\ DOMAIN memorySlots'[m].reserved = {start} \cup DOMAIN memorySlots[m].reserved
      /\ memorySlots'[m].reserved[start] = size
      /\ \A o \in DOMAIN memorySlots[m].reserved :
            memorySlots'[m].reserved[o] = memorySlots[m].reserved[o]
  BY <1>6 DEF Emplace
<1>9. DOMAIN memorySlots' \subseteq Memories /\ memoryPools' \in Seq(DOMAIN memorySlots')
  BY <1>1, <1>7 DEF Inv, TypeOK
<1>10. Bound(t, m, start) \/ NotBound(m, start)
  BY <1>5 DEF start
<1>11. QED
  BY <1>1, <1>4, <1>6, <1>7, <1>8, <1>9, <1>10, BindKeepsInv DEF size

\* reserveMemory() allocates a memory, whose first slot goes to the buffer.
LEMMA BindNewMemoryKeepsInv ==
    ASSUME Inv, NEW t \in Threads, NEW m \in Memories, BindNewMemory(t, m)
    PROVE  Inv'
<1> DEFINE size == RequiredSize(bufferSlots[binds[t].buffer].total)
           total == Aligned(Larger(size, minimumDeviceMemorySize), memoryAlignment)
           empty == NewSlots(total)
<1>1. /\ t \in DOMAIN binds /\ m \notin DOMAIN memorySlots /\ Return(t)
      /\ UNCHANGED <<bufferSlots, usage, bufferPools>>
  BY DEF BindNewMemory
<1>2. size \in Positive /\ memoryAlignment \in Positive
  BY <1>1, UnboundHasSize, PoolsAssumption
<1>3. PICK new \in NewMemory(size) :
          /\ memorySlots' = Emplace(memorySlots, m, new.slots)
          /\ memoryPools' = IF Full(new.slots) THEN memoryPools ELSE Append(memoryPools, m)
          /\ Bound(t, m, new.offset) \/ (~Full(new.slots) /\ NotBound(m, new.offset))
  BY DEF BindNewMemory
<1> DEFINE slots == new.slots
           start == new.offset
<1>4. PICK slot \in BestFits(empty, size, memoryAlignment) :
          /\ slots = ReserveAt(empty, slot, size, memoryAlignment)
          /\ start = Aligned(slot[2], memoryAlignment)
  BY DEF NewMemory
<1> HIDE DEF size
<1>5. total \in Positive
  BY <1>2, Sizes, PoolsAssumption
<1>6. Sound(empty) /\ DOMAIN empty.reserved = {}
  BY <1>5, NewSlotsAreSound, NothingReserved DEF Positive
<1> HIDE DEF empty, total
<1>7. /\ Sound(slots) /\ start \in Nat
      /\ slots.reserved = Emplace(empty.reserved, start, size)
  BY <1>2, <1>4, <1>6, ReserveAddsOne DEF Positive
<1>8. /\ memorySlots' = Emplace(memorySlots, m, slots)
      /\ \/ memoryPools' = memoryPools /\ Bound(t, m, start)
         \/ memoryPools' = Append(memoryPools, m) /\ (Bound(t, m, start) \/ NotBound(m, start))
  BY <1>3
<1> HIDE DEF slots, start
<1>9. /\ DOMAIN memorySlots' = DOMAIN memorySlots \cup {m} /\ memorySlots'[m] = slots
      /\ \A n \in DOMAIN memorySlots \ {m} : memorySlots'[n] = memorySlots[n]
  BY <1>1, <1>8 DEF Emplace
<1>10. DOMAIN slots.reserved = {start} /\ slots.reserved[start] = size
  BY <1>6, <1>7 DEF Emplace
<1>11. memoryPools \in Seq(DOMAIN memorySlots) /\ DOMAIN memorySlots \subseteq Memories
  BY DEF Inv, TypeOK
<1>12. DOMAIN memorySlots' \subseteq Memories /\ memoryPools' \in Seq(DOMAIN memorySlots')
  BY <1>8, <1>9, <1>11
<1>13. /\ Pooled(memoryPools) \subseteq Pooled(memoryPools')
       /\ Bound(t, m, start) \/ (m \in Pooled(memoryPools') /\ NotBound(m, start))
  <2>1. CASE memoryPools' = memoryPools /\ Bound(t, m, start)
    BY <2>1
  <2>2. CASE /\ memoryPools' = Append(memoryPools, m)
             /\ Bound(t, m, start) \/ NotBound(m, start)
    <3>1. /\ Len(memoryPools) \in Nat /\ DOMAIN memoryPools = 1 .. Len(memoryPools)
          /\ DOMAIN memoryPools' = 1 .. (Len(memoryPools) + 1)
          /\ memoryPools'[Len(memoryPools) + 1] = m
          /\ \A i \in DOMAIN memoryPools : memoryPools'[i] = memoryPools[i]
      BY <1>11, <2>2
    <3>2. QED
      BY <2>2, <3>1 DEF Pooled
  <2>3. QED
    BY <1>8, <2>1, <2>2
<1>14. QED
  BY <1>1, <1>7, <1>9, <1>10, <1>12, <1>13, BindKeepsInv DEF size

\* A memory that no pool keeps ends with the binding that failed.
LEMMA BindLostMemoryKeepsInv ==
    ASSUME Inv, NEW t \in Threads, BindLostMemory(t)
    PROVE  Inv'
<1>1. /\ t \in DOMAIN binds /\ infos' = infos \cup {binds[t]}
      /\ DOMAIN binds' = DOMAIN binds \ {t} /\ \A u \in DOMAIN binds' : binds'[u] = binds[u]
      /\ failures' \in 0 .. MaxFailures
      /\ UNCHANGED <<bufferSlots, usage, binding, memorySlots, bufferPools, memoryPools, leaked>>
  BY PoolsAssumption DEF BindLostMemory, Return, Erase, Inv, TypeOK
<1>2. BufferInfos' = BufferInfos /\ Existing' = Existing
  BY <1>1 DEF BufferInfos, Existing
<1>3. TypeOK' /\ BindsDiffer' /\ SlotsAreSound'
  BY <1>1, <1>2 DEF Inv, TypeOK, BindsDiffer, SlotsAreSound
<1>4. BufferSlotsAreOwned' /\ MemorySlotsAreOwned'
  BY <1>1, <1>2 DEF Inv, ReservedIsOwned, BufferSlotsAreOwned, MemorySlotsAreOwned, RequiredSize
<1>5. OwnersDiffer'
  BY <1>1, <1>2 DEF Inv, ReservedIsOwned, OwnersDiffer
<1>6. QED
  BY <1>3, <1>4, <1>5 DEF Inv, ReservedIsOwned

--------------------------------------------------------------------------------
(* The end of a BufferInfo.                                                *)

\* The owners that remain differ as before.
LEMMA FewerOwnersDiffer ==
    ASSUME Inv, BufferInfos' \subseteq BufferInfos, infos' \subseteq infos,
           DOMAIN binds' \subseteq DOMAIN binds, \A u \in DOMAIN binds' : binds'[u] = binds[u],
           DOMAIN binding' \subseteq DOMAIN binding,
           \A c \in DOMAIN binding' : binding'[c] = binding[c], UNCHANGED leaked
    PROVE  OwnersDiffer' /\ BindsDiffer'
BY DEF Inv, ReservedIsOwned, OwnersDiffer, BindsDiffer

\* The slot is released, the buffer stays.
LEMMA ReleaseOfBufferKeepsInv ==
    ASSUME Inv, NEW info \in BufferInfos,
           bufferSlots' = [bufferSlots EXCEPT ![info.buffer] = Release(@, info.offset)],
           BufferInfos' = BufferInfos \ {info}, infos' \subseteq infos,
           DOMAIN binds' \subseteq DOMAIN binds, \A u \in DOMAIN binds' : binds'[u] = binds[u],
           failures' \in 0 .. MaxFailures,
           UNCHANGED <<usage, binding, memorySlots, bufferPools, memoryPools, leaked>>
    PROVE  Inv'
<1> DEFINE b == info.buffer
<1>1. /\ b \in Existing /\ info.offset \in DOMAIN bufferSlots[b].reserved
      /\ Sound(bufferSlots[b])
  BY DEF Inv, TypeOK, SlotsAreSound, ReservedIsOwned, BufferSlotsAreOwned
<1>2. /\ Existing' = Existing /\ bufferSlots'[b] = Release(bufferSlots[b], info.offset)
      /\ \A c \in Existing : c # b => bufferSlots'[c] = bufferSlots[c]
  BY <1>1 DEF Existing
<1>3. /\ Sound(bufferSlots'[b]) /\ bufferSlots'[b].total = bufferSlots[b].total
      /\ bufferSlots'[b].reserved = Erase(bufferSlots[b].reserved, {info.offset})
  <2>1. /\ Sound(Release(bufferSlots[b], info.offset))
        /\ Release(bufferSlots[b], info.offset).total = bufferSlots[b].total
        /\ Release(bufferSlots[b], info.offset).reserved
               = Erase(bufferSlots[b].reserved, {info.offset})
    BY <1>1, ReleaseRemovesOne
  <2>2. QED
    BY <1>2, <2>1
<1>4. /\ DOMAIN bufferSlots'[b].reserved = DOMAIN bufferSlots[b].reserved \ {info.offset}
      /\ \A o \in DOMAIN bufferSlots'[b].reserved :
            bufferSlots'[b].reserved[o] = bufferSlots[b].reserved[o]
  BY <1>3 DEF Erase
<1> HIDE DEF b
<1>5. TypeOK'
  BY <1>2 DEF Inv, TypeOK
<1>6. SlotsAreSound'
  BY <1>2, <1>3 DEF Inv, SlotsAreSound
<1>7. BufferSlotsAreOwned'
  <2>1. \A k \in BufferInfos : /\ k.buffer \in Existing
                               /\ k.offset \in DOMAIN bufferSlots[k.buffer].reserved
                               /\ bufferSlots[k.buffer].reserved[k.offset] = k.range
    BY DEF Inv, TypeOK, ReservedIsOwned, BufferSlotsAreOwned
  <2>2. \A k \in BufferInfos' : ~(k.buffer = b /\ k.offset = info.offset)
    BY DEF Inv, ReservedIsOwned, OwnersDiffer, b
  <2>3. \A k \in BufferInfos' : /\ k.offset \in DOMAIN bufferSlots'[k.buffer].reserved
                                /\ bufferSlots'[k.buffer].reserved[k.offset] = k.range
    BY <1>2, <1>4, <2>1, <2>2
  <2>4. ASSUME NEW c \in Existing', NEW o \in DOMAIN bufferSlots'[c].reserved
        PROVE  \E k \in BufferInfos' : k.buffer = c /\ k.offset = o
    <3>1. o \in DOMAIN bufferSlots[c].reserved /\ ~(c = b /\ o = info.offset)
      BY <1>2, <1>4, <2>4
    <3>2. PICK k \in BufferInfos : k.buffer = c /\ k.offset = o
      BY <1>2, <3>1 DEF Inv, ReservedIsOwned, BufferSlotsAreOwned
    <3>3. QED
      BY <3>1, <3>2 DEF b
  <2>5. QED
    BY <2>3, <2>4 DEF BufferSlotsAreOwned
<1>8. MemorySlotsAreOwned'
  <2>1. \A c \in DOMAIN binding : bufferSlots'[c].total = bufferSlots[c].total
    BY <1>2, <1>3 DEF Inv, TypeOK
  <2>2. QED
    BY <2>1 DEF Inv, ReservedIsOwned, MemorySlotsAreOwned
<1>9. OwnersDiffer' /\ BindsDiffer'
  BY FewerOwnersDiffer
<1>10. QED
  BY <1>5, <1>6, <1>7, <1>8, <1>9 DEF Inv, ReservedIsOwned

\* The buffer ends with its last slot, and the memory with its last buffer, unless
\* it is in the pool.
LEMMA MemoryOfDestroyedBuffer ==
    ASSUME Inv, NEW b \in Existing, DestroyBuffer(b), UNCHANGED <<memoryPools, leaked>>
    PROVE  /\ memoryPools' \in Seq(DOMAIN memorySlots') /\ DOMAIN memorySlots' \subseteq Memories
           /\ \A m \in DOMAIN memorySlots' : Sound(memorySlots'[m])
           /\ MemorySlotsAreOwned'
           /\ \A c \in DOMAIN binding' : binding'[c].memory \in DOMAIN memorySlots'
           /\ \A place \in leaked : place.memory \in DOMAIN memorySlots'
<1> DEFINE m == binding[b].memory
           inUse == m \in Pooled(memoryPools)
                    \/ \E other \in DOMAIN binding \ {b} : binding[other].memory = m
<1>1. /\ DOMAIN binding' = DOMAIN binding \ {b}
      /\ \A c \in DOMAIN binding' : binding'[c] = binding[c]
  BY DEF DestroyBuffer, Erase
<1>2. /\ Existing' = Existing \ {b}
      /\ \A c \in Existing' : bufferSlots'[c] = bufferSlots[c]
  BY DEF DestroyBuffer, Erase, Existing
<1>3. \A c \in DOMAIN binding : /\ c \in Existing /\ binding[c].memory \in DOMAIN memorySlots
                                /\ binding[c].offset \in DOMAIN memorySlots[binding[c].memory].reserved
                                /\ memorySlots[binding[c].memory].reserved[binding[c].offset]
                                       = RequiredSize(bufferSlots[c].total)
                                /\ binding[c] = [memory |-> binding[c].memory,
                                                 offset |-> binding[c].offset]
  BY DEF Inv, TypeOK, ReservedIsOwned, MemorySlotsAreOwned
<1>4. \A n \in DOMAIN memorySlots : Sound(memorySlots[n])
  BY DEF Inv, SlotsAreSound
<1>5. \A n \in DOMAIN memorySlots : \A o \in DOMAIN memorySlots[n].reserved :
          \/ \E c \in DOMAIN binding : binding[c].memory = n /\ binding[c].offset = o
          \/ \E p \in leaked : p.memory = n /\ p.offset = o
  BY DEF Inv, ReservedIsOwned, MemorySlotsAreOwned
<1>0. /\ \A p \in leaked : /\ p.memory \in Pooled(memoryPools)
                           /\ p.memory \in DOMAIN memorySlots
                           /\ p = [memory |-> p.memory, offset |-> p.offset]
      /\ \A p \in leaked : p.offset \in DOMAIN memorySlots[p.memory].reserved
      /\ \A c \in DOMAIN binding : binding[c] \notin leaked
  BY DEF Inv, TypeOK, ReservedIsOwned, MemorySlotsAreOwned, OwnersDiffer
<1>6. memoryPools \in Seq(DOMAIN memorySlots) /\ DOMAIN memorySlots \subseteq Memories
  BY DEF Inv, TypeOK
<1>7. \A c \in DOMAIN binding' : c \in Existing' /\ bufferSlots'[c].total = bufferSlots[c].total
  BY <1>1, <1>2, <1>3
<1>8. CASE b \notin DOMAIN binding
  <2>1. memorySlots' = memorySlots
    BY <1>8 DEF DestroyBuffer
  <2>2. QED
    BY <1>0, <1>1, <1>3, <1>4, <1>5, <1>6, <1>7, <1>8, <2>1 DEF MemorySlotsAreOwned, RequiredSize
<1>9. CASE b \in DOMAIN binding /\ inUse
  <2>1. /\ memorySlots' = [memorySlots EXCEPT ![m] = Release(@, binding[b].offset)]
        /\ m \in DOMAIN memorySlots
    BY <1>3, <1>9 DEF DestroyBuffer
  <2>2. /\ DOMAIN memorySlots' = DOMAIN memorySlots
        /\ memorySlots'[m] = Release(memorySlots[m], binding[b].offset)
        /\ \A n \in DOMAIN memorySlots : n # m => memorySlots'[n] = memorySlots[n]
    BY <2>1
  <2>3. /\ Sound(memorySlots'[m])
        /\ memorySlots'[m].reserved = Erase(memorySlots[m].reserved, {binding[b].offset})
    <3>1. /\ Sound(memorySlots[m])
          /\ binding[b].offset \in DOMAIN memorySlots[m].reserved
      BY <1>3, <1>4, <1>9
    <3>2. QED
      BY <2>2, <3>1, ReleaseRemovesOne
  <2>4. /\ DOMAIN memorySlots'[m].reserved = DOMAIN memorySlots[m].reserved \ {binding[b].offset}
        /\ \A o \in DOMAIN memorySlots'[m].reserved :
              memorySlots'[m].reserved[o] = memorySlots[m].reserved[o]
    BY <2>3 DEF Erase
  <2> HIDE DEF m
  <2>5. \A c \in DOMAIN binding' : ~(binding[c].memory = m /\ binding[c].offset = binding[b].offset)
    BY <1>1, <1>3, <1>9 DEF Inv, ReservedIsOwned, OwnersDiffer, m
  <2>6. ASSUME NEW c \in DOMAIN binding'
        PROVE  LET slots == memorySlots'[binding'[c].memory]
               IN  /\ binding'[c].offset \in DOMAIN slots.reserved
                   /\ slots.reserved[binding'[c].offset] = RequiredSize(bufferSlots'[c].total)
    BY <1>1, <1>3, <1>7, <2>2, <2>4, <2>5
  <2>7. ASSUME NEW n \in DOMAIN memorySlots', NEW o \in DOMAIN memorySlots'[n].reserved
        PROVE  \/ \E c \in DOMAIN binding' : binding'[c].memory = n /\ binding'[c].offset = o
               \/ \E p \in leaked : p.memory = n /\ p.offset = o
    <3>1. /\ n \in DOMAIN memorySlots /\ o \in DOMAIN memorySlots[n].reserved
          /\ ~(n = m /\ o = binding[b].offset)
      BY <2>2, <2>4, <2>7
    <3>2. \A c \in DOMAIN binding : binding[c].memory = n /\ binding[c].offset = o => c # b
      BY <3>1 DEF m
    <3>3. QED
      BY <1>1, <1>5, <3>1, <3>2
  <2>8. ASSUME NEW p \in leaked
        PROVE  /\ p.memory \in DOMAIN memorySlots'
               /\ p.offset \in DOMAIN memorySlots'[p.memory].reserved
    <3>1. ~(p.memory = m /\ p.offset = binding[b].offset)
      BY <1>0, <1>3, <1>9 DEF m
    <3>2. QED
      BY <1>0, <2>2, <2>4, <3>1
  <2>9. MemorySlotsAreOwned'
    BY <1>0, <2>6, <2>7, <2>8 DEF MemorySlotsAreOwned, RequiredSize
  <2>10. QED
    BY <1>1, <1>3, <1>4, <1>6, <2>2, <2>3, <2>8, <2>9
<1>10. CASE b \in DOMAIN binding /\ ~inUse
  <2>1. memorySlots' = Erase(memorySlots, {m})
    BY <1>10 DEF DestroyBuffer
  <2>2. /\ DOMAIN memorySlots' = DOMAIN memorySlots \ {m}
        /\ \A n \in DOMAIN memorySlots' : memorySlots'[n] = memorySlots[n]
    BY <2>1 DEF Erase
  <2>3. \A i \in DOMAIN memoryPools : memoryPools[i] \in DOMAIN memorySlots'
    BY <1>6, <1>10, <2>2 DEF Pooled
  <2>4. memoryPools \in Seq(DOMAIN memorySlots')
    BY <1>6, <2>3, PoolStaysTyped
  <2>5. \A c \in DOMAIN binding' : binding[c].memory # m
    BY <1>1, <1>10
  <2>6. ASSUME NEW n \in DOMAIN memorySlots', NEW o \in DOMAIN memorySlots'[n].reserved
        PROVE  \/ \E c \in DOMAIN binding' : binding'[c].memory = n /\ binding'[c].offset = o
               \/ \E p \in leaked : p.memory = n /\ p.offset = o
    <3>1. n \in DOMAIN memorySlots /\ n # m /\ o \in DOMAIN memorySlots[n].reserved
      BY <2>2
    <3>2. QED
      BY <1>1, <1>5, <3>1
  <2>7. \A p \in leaked : /\ p.memory \in DOMAIN memorySlots'
                         /\ p.offset \in DOMAIN memorySlots'[p.memory].reserved
    BY <1>0, <1>10, <2>2
  <2>8. MemorySlotsAreOwned'
    BY <1>0, <1>1, <1>3, <1>7, <2>2, <2>5, <2>6, <2>7 DEF MemorySlotsAreOwned, RequiredSize
  <2>9. QED
    BY <1>1, <1>3, <1>4, <1>6, <2>2, <2>4, <2>5, <2>7, <2>8
<1>11. QED
  BY <1>8, <1>9, <1>10

\* ~Buffer of a buffer that is in no pool and has no other BufferInfo.
LEMMA DestroyBufferKeepsInv ==
    ASSUME Inv, NEW info \in BufferInfos, DestroyBuffer(info.buffer),
           info.buffer \notin Pooled(bufferPools),
           \A other \in BufferInfos \ {info} : other.buffer # info.buffer,
           BufferInfos' = BufferInfos \ {info}, infos' \subseteq infos,
           DOMAIN binds' \subseteq DOMAIN binds, \A u \in DOMAIN binds' : binds'[u] = binds[u],
           failures' \in 0 .. MaxFailures, UNCHANGED <<bufferPools, memoryPools, leaked>>
    PROVE  Inv'
<1> DEFINE b == info.buffer
<1>1. b \in Existing
  BY DEF Inv, TypeOK
<1>2. /\ Existing' = Existing \ {b} /\ DOMAIN usage' = DOMAIN usage \ {b}
      /\ \A c \in Existing' : bufferSlots'[c] = bufferSlots[c]
  BY DEF DestroyBuffer, Erase, Existing
<1>3. /\ DOMAIN binding' = DOMAIN binding \ {b}
      /\ \A c \in DOMAIN binding' : binding'[c] = binding[c]
  BY DEF DestroyBuffer, Erase
<1>4. /\ memoryPools' \in Seq(DOMAIN memorySlots') /\ DOMAIN memorySlots' \subseteq Memories
      /\ \A m \in DOMAIN memorySlots' : Sound(memorySlots'[m])
      /\ MemorySlotsAreOwned'
      /\ \A c \in DOMAIN binding' : binding'[c].memory \in DOMAIN memorySlots'
      /\ \A place \in leaked : place.memory \in DOMAIN memorySlots'
  BY <1>1, MemoryOfDestroyedBuffer
<1>5. \A k \in BufferInfos' : k.buffer \in Existing' /\ k \in BufferInfos
  BY <1>2 DEF Inv, TypeOK
<1> HIDE DEF b
<1>6. TypeOK'
  <2>1. bufferPools' \in Seq(Existing')
    <3>1. bufferPools \in Seq(Existing) /\ \A i \in DOMAIN bufferPools : bufferPools[i] \in Existing'
      BY <1>2 DEF Inv, TypeOK, Pooled, b
    <3>2. QED
      BY <3>1, PoolStaysTyped
  <2>2. \A c \in DOMAIN binding' : binding'[c] \in [memory : DOMAIN memorySlots', offset : Nat]
    BY <1>3, <1>4 DEF Inv, TypeOK
  <2>3. BufferInfos' \subseteq [buffer : Existing', offset : Nat, range : Positive]
    BY <1>5 DEF Inv, TypeOK
  <2>4. Existing' \subseteq Buffers /\ DOMAIN usage' = Existing' /\ DOMAIN binding' \subseteq Existing'
    BY <1>2, <1>3 DEF Inv, TypeOK
  <2>5. \A u \in DOMAIN binds' : u \in Threads /\ binds'[u].buffer \notin DOMAIN binding'
    BY <1>3 DEF Inv, TypeOK
  <2>6. leaked' \subseteq [memory : DOMAIN memorySlots', offset : Nat]
    BY <1>4 DEF Inv, TypeOK
  <2>7. QED
    BY <1>4, <2>1, <2>2, <2>3, <2>4, <2>5, <2>6 DEF TypeOK
<1>7. SlotsAreSound'
  BY <1>2, <1>4 DEF Inv, SlotsAreSound
<1>8. BufferSlotsAreOwned'
  <2>1. ASSUME NEW c \in Existing', NEW o \in DOMAIN bufferSlots'[c].reserved
        PROVE  \E k \in BufferInfos' : k.buffer = c /\ k.offset = o
    <3>1. c \in Existing /\ c # b /\ o \in DOMAIN bufferSlots[c].reserved
      BY <1>2, <2>1
    <3>2. PICK k \in BufferInfos : k.buffer = c /\ k.offset = o
      BY <3>1 DEF Inv, ReservedIsOwned, BufferSlotsAreOwned
    <3>3. QED
      BY <3>1, <3>2 DEF b
  <2>2. QED
    BY <1>2, <1>5, <2>1 DEF Inv, ReservedIsOwned, BufferSlotsAreOwned
<1>9. OwnersDiffer' /\ BindsDiffer'
  BY <1>3, FewerOwnersDiffer
<1>10. QED
  BY <1>4, <1>6, <1>7, <1>8, <1>9 DEF Inv, ReservedIsOwned

\* ~BufferInfo in either case.
LEMMA DropKeepsInv ==
    ASSUME Inv, NEW info \in BufferInfos, Drop(info),
           BufferInfos' = BufferInfos \ {info}, infos' \subseteq infos,
           DOMAIN binds' \subseteq DOMAIN binds, \A u \in DOMAIN binds' : binds'[u] = binds[u],
           failures' \in 0 .. MaxFailures, UNCHANGED <<bufferPools, memoryPools, leaked>>
    PROVE  Inv'
<1> DEFINE shared == \/ info.buffer \in Pooled(bufferPools)
                     \/ \E other \in BufferInfos \ {info} : other.buffer = info.buffer
<1>1. CASE shared
  BY <1>1, ReleaseOfBufferKeepsInv DEF Drop
<1>2. CASE ~shared
  BY <1>2, DestroyBufferKeepsInv DEF Drop
<1>3. QED
  BY <1>1, <1>2

\* The application drops a BufferInfo.
LEMMA ReleaseInfoKeepsInv ==
    ASSUME Inv, NEW info \in infos, ReleaseInfo(info)
    PROVE  Inv'
<1>1. /\ infos' = infos \ {info} /\ Drop(info)
      /\ UNCHANGED <<bufferPools, memoryPools, binds, failures, leaked>>
  BY DEF ReleaseInfo
<1>2. info \in BufferInfos /\ BufferInfos' = BufferInfos \ {info}
  BY <1>1 DEF BufferInfos, Inv, ReservedIsOwned, OwnersDiffer
<1>3. failures' \in 0 .. MaxFailures
  BY <1>1 DEF Inv, TypeOK
<1>4. QED
  BY <1>1, <1>2, <1>3, DropKeepsInv

\* The allocation of memory fails, and the BufferInfo is dropped by the exception.
LEMMA FailMemoryKeepsInv ==
    ASSUME Inv, NEW t \in Threads, FailMemory(t)
    PROVE  Inv'
<1>1. /\ t \in DOMAIN binds /\ Drop(binds[t]) /\ binds' = Erase(binds, {t})
      /\ failures < MaxFailures /\ failures' = failures + 1
      /\ UNCHANGED <<infos, bufferPools, memoryPools, leaked>>
  BY DEF FailMemory
<1>2. DOMAIN binds' = DOMAIN binds \ {t} /\ \A u \in DOMAIN binds' : binds'[u] = binds[u]
  BY <1>1 DEF Erase
<1>3. binds[t] \in BufferInfos /\ BufferInfos' = BufferInfos \ {binds[t]}
  <2>1. binds[t] \notin infos /\ \A u \in DOMAIN binds' : binds'[u] # binds[t]
    BY <1>1, <1>2 DEF Inv, ReservedIsOwned, OwnersDiffer
  <2>2. \A k \in BufferInfos : k # binds[t] => k \in BufferInfos'
    BY <1>1, <1>2 DEF BufferInfos
  <2>3. \A k \in BufferInfos' : k \in BufferInfos /\ k # binds[t]
    BY <1>1, <1>2, <2>1 DEF BufferInfos
  <2>4. QED
    BY <1>1, <2>2, <2>3 DEF BufferInfos
<1>4. failures' \in 0 .. MaxFailures
  BY <1>1, PoolsAssumption DEF Inv, TypeOK
<1>5. QED
  BY <1>1, <1>2, <1>3, <1>4, DropKeepsInv

--------------------------------------------------------------------------------
\* The invariant: types, sound slots, and one owner for each that is reserved.
THEOREM PoolsInvariant == Spec => []Inv
<1>1. Inv /\ UNCHANGED vars => Inv'
  BY DEF vars, Inv, TypeOK, BindsDiffer, SlotsAreSound, ReservedIsOwned, BufferSlotsAreOwned,
         MemorySlotsAreOwned, OwnersDiffer, Existing, BufferInfos
<1>2. Inv /\ Next => Inv'
  <2>1. SUFFICES ASSUME Inv, Next PROVE Inv'
    OBVIOUS
  <2>2. ASSUME NEW t \in Threads, ReserveBuffer(t) PROVE Inv'
    BY <2>1, <2>2, ReserveFromPoolKeepsInv, CreateBufferKeepsInv DEF ReserveBuffer
  <2>3. ASSUME NEW t \in Threads, ReserveMemory(t) PROVE Inv'
    BY <2>1, <2>3, BindPooledMemoryKeepsInv, BindNewMemoryKeepsInv, BindLostMemoryKeepsInv,
       FailMemoryKeepsInv DEF ReserveMemory
  <2>4. ASSUME NEW info \in infos, ReleaseInfo(info) PROVE Inv'
    BY <2>1, <2>4, ReleaseInfoKeepsInv
  <2>5. QED
    BY <2>1, <2>2, <2>3, <2>4 DEF Next
<1>3. QED
  BY <1>1, <1>2, InitInv, PTL DEF Spec

\* Types of buffers, memories and pools (MemoryBufferPools.cpp:99-203).
THEOREM PoolsTypeOK == Spec => []TypeOK
BY PoolsInvariant, PTL DEF Inv

\* The slots of every buffer and of every memory are sound at any time
\* (MemorySlots.cpp:181-340 as driven by MemoryBufferPools.cpp:99-203).
THEOREM SlotsStaySound == Spec => []SlotsAreSound
BY PoolsInvariant, PTL DEF Inv

\* Every reserved slot has exactly one owner, who releases it, except the slots of memory
\* whose binding failed: no slot is given twice, and no other one leaks
\* (BufferInfo.cpp:104-118, Buffer.cpp:23-36, MemoryBufferPools.cpp:139-163).
THEOREM SlotsAreOwnedOnce == Spec => []ReservedIsOwned
BY PoolsInvariant, PTL DEF Inv

\* No two BufferInfos share a byte of device memory.
THEOREM NoMemoryIsShared == Spec => []InfosAreDisjoint
<1>1. Inv => InfosAreDisjoint
  <2>1. SUFFICES ASSUME Inv, NEW i \in infos, NEW j \in infos, i # j,
                        i.buffer \in DOMAIN binding, j.buffer \in DOMAIN binding,
                        binding[i.buffer].memory = binding[j.buffer].memory
                 PROVE  \/ Address(i) + i.range <= Address(j)
                        \/ Address(j) + j.range <= Address(i)
    BY DEF InfosAreDisjoint
  <2> DEFINE slots == memorySlots[binding[i.buffer].memory]
             I == binding[i.buffer].offset
             J == binding[j.buffer].offset
  <2>2. \A k \in {i, j} :
           /\ k.buffer \in Existing /\ k.offset \in DOMAIN bufferSlots[k.buffer].reserved
           /\ bufferSlots[k.buffer].reserved[k.offset] = k.range
           /\ Sound(bufferSlots[k.buffer])
    BY <2>1 DEF Inv, TypeOK, SlotsAreSound, ReservedIsOwned, BufferSlotsAreOwned, BufferInfos
  <2>3. \A k \in {i, j} :
           /\ k.offset \in Nat /\ k.range \in Positive
           /\ k.offset + k.range <= bufferSlots[k.buffer].total
           /\ bufferSlots[k.buffer].total \in Nat
    BY <2>2 DEF Sound, Partition, Within, IsSlots, IsMap, Positive
  <2>4. \A k \in {i, j} : /\ RequiredSize(bufferSlots[k.buffer].total) \in Positive
                          /\ RequiredSize(bufferSlots[k.buffer].total) >= bufferSlots[k.buffer].total
    <3>1. \A k \in {i, j} : bufferSlots[k.buffer].total \in Positive
      BY <2>2, TotalIsPositive
    <3>2. QED
      BY <3>1, Sizes, PoolsAssumption
  <2>5. /\ Sound(slots) /\ I \in DOMAIN slots.reserved /\ J \in DOMAIN slots.reserved
        /\ slots.reserved[I] = RequiredSize(bufferSlots[i.buffer].total)
        /\ slots.reserved[J] = RequiredSize(bufferSlots[j.buffer].total)
        /\ I \in Nat /\ J \in Nat
    BY <2>1 DEF Inv, TypeOK, SlotsAreSound, ReservedIsOwned, MemorySlotsAreOwned
  <2>6. CASE i.buffer = j.buffer
    <3>1. i.offset # j.offset
      BY <2>1, <2>6 DEF Inv, ReservedIsOwned, OwnersDiffer, BufferInfos
    <3>2. i.offset + i.range <= j.offset \/ j.offset + j.range <= i.offset
      <4> DEFINE reserved == bufferSlots[i.buffer].reserved
      <4>1. Disjoint(reserved)
        BY <2>2 DEF Sound, Partition
      <4>2. /\ i.offset \in DOMAIN reserved /\ reserved[i.offset] = i.range
            /\ j.offset \in DOMAIN reserved /\ reserved[j.offset] = j.range
        BY <2>2, <2>6
      <4>3. i.offset < j.offset \/ j.offset < i.offset
        BY <2>3, <3>1
      <4> HIDE DEF reserved
      <4>4. QED
        BY <4>1, <4>2, <4>3 DEF Disjoint
    <3>3. QED
      BY <2>3, <2>5, <2>6, <3>2 DEF Address, Positive
  <2>7. CASE i.buffer # j.buffer
    <3>1. I # J
      BY <2>1, <2>7 DEF Inv, TypeOK, ReservedIsOwned, OwnersDiffer
    <3>2. I + slots.reserved[I] <= J \/ J + slots.reserved[J] <= I
      <4>1. Disjoint(slots.reserved)
        BY <2>5 DEF Sound, Partition
      <4>2. I < J \/ J < I
        BY <2>5, <3>1
      <4> HIDE DEF slots, I, J
      <4>3. QED
        BY <2>5, <4>1, <4>2 DEF Disjoint
    <3>3. /\ i.offset + i.range <= slots.reserved[I] /\ slots.reserved[I] \in Nat
          /\ j.offset + j.range <= slots.reserved[J] /\ slots.reserved[J] \in Nat
      BY <2>3, <2>4, <2>5 DEF Positive
    <3>4. /\ i.offset \in Nat /\ i.range \in Nat /\ j.offset \in Nat /\ j.range \in Nat
          /\ I \in Nat /\ J \in Nat
      BY <2>3, <2>5 DEF Positive
    <3>5. Address(i) = I + i.offset /\ Address(j) = J + j.offset
      BY DEF Address
    <3> HIDE DEF slots, I, J
    <3>6. I + slots.reserved[I] <= J => Address(i) + i.range <= Address(j)
      BY <3>3, <3>4, <3>5, SMT
    <3>7. J + slots.reserved[J] <= I => Address(j) + j.range <= Address(i)
      BY <3>3, <3>4, <3>5, SMT
    <3>8. QED
      BY <3>2, <3>6, <3>7
  <2>8. QED
    BY <2>6, <2>7
<1>2. QED
  BY <1>1, PoolsInvariant, PTL
================================================================================

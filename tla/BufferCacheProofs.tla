------------------------- MODULE BufferCacheProofs -------------------------
(***************************************************************************)
(* Proofs about BufferCache, for every cache size, device and data set.    *)
(* Inv is inductive: that a clean slot agrees with the device needs that   *)
(* no other slot of the same sector can be flushed over it, and both need  *)
(* the types.  The refinement of SectorStore follows from it.              *)
(***************************************************************************)
EXTENDS BufferCache, TLAPS

Inv == TypeOK /\ OneCopy /\ CleanIsOnDisk

----------------------------------------------------------------------------
(* What the helpers of the actions return.                                 *)

\* The hand of buffer_cache_evict never leaves the array.
LEMMA HandInSlots ==
    ASSUME clock \in Slots, NEW k \in 0 .. BUFFER_CACHE_SIZE
    PROVE  HandAt(k) \in Slots
  BY SizeAssumption DEF HandAt, Slots

\* A filled slot is a cache entry.
LEMMA SlotType ==
    ASSUME NEW s \in Sectors, NEW v \in Data, NEW d \in BOOLEAN
    PROVE  Slot(s, v, d) \in buffer_cache_entry_t
  BY DEF Slot, buffer_cache_entry_t

\* buffer_cache_flush writes sector contents only.
LEMMA FlushType ==
    ASSUME TypeOK, NEW i \in Slots
    PROVE  buffer_cache_flush(i) \in [Sectors -> Data]
  BY DEF TypeOK, buffer_cache_flush, buffer_cache_entry_t

\* buffer_cache_flush touches the sector of its slot and no other.
LEMMA FlushValue ==
    ASSUME TypeOK, NEW i \in Slots, NEW t \in Sectors
    PROVE  buffer_cache_flush(i)[t] =
             IF cache[i].occupied /\ cache[i].dirty /\ cache[i].disk_sector = t
             THEN cache[i].buffer ELSE disk[t]
  BY DEF TypeOK, buffer_cache_flush, buffer_cache_entry_t

\* What a miss does to the slots it does not fill: at most the access bit.
LEMMA MissOthers ==
    ASSUME TypeOK, NEW s \in Sectors, NEW k \in 0 .. BUFFER_CACHE_SIZE,
           NEW used \in buffer_cache_entry_t, Miss(s, k, used)
    PROVE  /\ HandAt(k) \in Slots
           /\ cache' \in [Slots -> buffer_cache_entry_t]
           /\ cache'[HandAt(k)] = used
           /\ \A i \in Slots \ {HandAt(k)} :
                /\ cache'[i].occupied = cache[i].occupied
                /\ cache'[i].disk_sector = cache[i].disk_sector
                /\ cache'[i].buffer = cache[i].buffer
                /\ cache'[i].dirty = cache[i].dirty
<1>1. HandAt(k) \in Slots
  BY HandInSlots DEF TypeOK
<1>2. \A i \in Slots : /\ i = HandAt(k) => cache'[i] = used
                       /\ i # HandAt(k) => \/ cache'[i] = cache[i]
                                           \/ cache'[i] = [cache[i] EXCEPT !.access = FALSE]
  BY Zenon DEF Miss, HandLeft
<1>3. \A i \in Slots : cache[i] \in buffer_cache_entry_t
  BY DEF TypeOK
<1>4. \A i \in Slots : cache'[i] \in buffer_cache_entry_t
  BY <1>2, <1>3 DEF buffer_cache_entry_t
<1>5. cache' = [i \in Slots |-> cache'[i]]
  BY DEF Miss, HandLeft
<1>6. cache' \in [Slots -> buffer_cache_entry_t]
  BY <1>4, <1>5
<1>7. QED
  BY <1>1, <1>2, <1>3, <1>6 DEF buffer_cache_entry_t

----------------------------------------------------------------------------
(* Inv is inductive.                                                       *)

\* A miss keeps Inv if the filled slot holds its sector and is clean only
\* when it agrees with the device after the flush.
LEMMA MissInv ==
    ASSUME Inv, NEW s \in Sectors, NEW k \in 0 .. BUFFER_CACHE_SIZE,
           NEW used \in buffer_cache_entry_t, Miss(s, k, used),
           used.disk_sector = s,
           ~used.dirty => used.buffer = buffer_cache_flush(HandAt(k))[s]
    PROVE  Inv'
<1> DEFINE h == HandAt(k)
<1>1. TypeOK /\ OneCopy /\ CleanIsOnDisk
  BY DEF Inv
<1>2. /\ h \in Slots
      /\ cache' \in [Slots -> buffer_cache_entry_t]
      /\ cache'[h] = used
      /\ \A i \in Slots \ {h} : /\ cache'[i].occupied = cache[i].occupied
                                /\ cache'[i].disk_sector = cache[i].disk_sector
                                /\ cache'[i].buffer = cache[i].buffer
                                /\ cache'[i].dirty = cache[i].dirty
  BY <1>1, MissOthers
<1>3. disk' = buffer_cache_flush(h) /\ clock' = h
  BY DEF Miss, HandLeft
<1>4. \A i \in Slots : ~(cache[i].occupied /\ cache[i].disk_sector = s)
  BY DEF Miss, HandLeft, buffer_cache_lookup
<1> HIDE DEF h
<1>5. TypeOK'
  BY <1>1, <1>2, <1>3, FlushType DEF TypeOK
<1>6. OneCopy'
  BY <1>1, <1>2, <1>4 DEF OneCopy
<1>7. CleanIsOnDisk'
  <2> SUFFICES ASSUME NEW i \in Slots, cache'[i].occupied, ~cache'[i].dirty
               PROVE  cache'[i].buffer = disk'[cache'[i].disk_sector]
    BY DEF CleanIsOnDisk
  <2>1. CASE i = h
    BY <2>1, <1>2, <1>3 DEF h
  <2>2. CASE i # h
    <3>1. cache[i].occupied /\ ~cache[i].dirty /\ cache[i].disk_sector \in Sectors
      BY <2>2, <1>1, <1>2 DEF TypeOK, buffer_cache_entry_t
    <3>2. cache[i].buffer = disk[cache[i].disk_sector]
      BY <3>1, <1>1 DEF CleanIsOnDisk
    <3>3. ~(cache[h].occupied /\ cache[h].disk_sector = cache[i].disk_sector)
      BY <3>1, <2>2, <1>1, <1>2 DEF OneCopy
    <3>4. disk'[cache[i].disk_sector] = disk[cache[i].disk_sector]
      BY <3>1, <3>3, <1>1, <1>2, <1>3, FlushValue
    <3>5. QED
      BY <3>2, <3>4, <2>2, <1>2
  <2>3. QED
    BY <2>1, <2>2
<1>8. QED
  BY <1>5, <1>6, <1>7 DEF Inv

\* A hit keeps Inv if the slot keeps its sector and stays clean only when
\* its contents did not change.
LEMMA HitInv ==
    ASSUME Inv, NEW s \in Sectors, NEW i \in Slots,
           NEW used \in buffer_cache_entry_t, Hit(s, i, used),
           used.disk_sector = s,
           ~used.dirty => ~cache[i].dirty /\ used.buffer = cache[i].buffer
    PROVE  Inv'
<1>1. cache[i].occupied /\ cache[i].disk_sector = s
  BY DEF Hit, FirstOf, buffer_cache_lookup
<1>2. cache' = [cache EXCEPT ![i] = used] /\ clock' = clock /\ disk' = disk
  BY DEF Hit
<1>3. TypeOK'
  BY <1>2 DEF Inv, TypeOK
<1>4. OneCopy'
  BY <1>1, <1>2 DEF Inv, TypeOK, OneCopy
<1>5. CleanIsOnDisk'
  BY <1>1, <1>2 DEF Inv, TypeOK, CleanIsOnDisk
<1>6. QED
  BY <1>3, <1>4, <1>5 DEF Inv

LEMMA ReadInv ==
    ASSUME Inv, NEW s \in Sectors, buffer_cache_read(s)
    PROVE  Inv'
<1>1. CASE ReadHit(s)
  <2>1. PICK i \in Slots : Hit(s, i, Slot(s, cache[i].buffer, cache[i].dirty))
    BY <1>1 DEF ReadHit
  <2>2. cache[i].buffer \in Data /\ cache[i].dirty \in BOOLEAN
    BY DEF Inv, TypeOK, buffer_cache_entry_t
  <2>3. Slot(s, cache[i].buffer, cache[i].dirty) \in buffer_cache_entry_t
    BY <2>2, SlotType
  <2>4. QED
    BY <2>1, <2>2, <2>3, HitInv DEF Slot
<1>2. CASE ReadMiss(s)
  <2>1. PICK k \in 0 .. BUFFER_CACHE_SIZE :
               Miss(s, k, Slot(s, buffer_cache_flush(HandAt(k))[s], FALSE))
    BY <1>2 DEF ReadMiss
  <2>2. buffer_cache_flush(HandAt(k))[s] \in Data
    BY HandInSlots, FlushType DEF Inv, TypeOK
  <2>3. Slot(s, buffer_cache_flush(HandAt(k))[s], FALSE) \in buffer_cache_entry_t
    BY <2>2, SlotType
  <2>4. QED
    BY <2>1, <2>2, <2>3, MissInv DEF Slot
<1>3. QED
  BY <1>1, <1>2 DEF buffer_cache_read

LEMMA WriteInv ==
    ASSUME Inv, NEW s \in Sectors, NEW v \in Data, buffer_cache_write(s, v)
    PROVE  Inv'
<1>1. Slot(s, v, TRUE) \in buffer_cache_entry_t /\ Slot(s, v, TRUE).dirty
      /\ Slot(s, v, TRUE).disk_sector = s
  BY SlotType DEF Slot
<1>2. CASE WriteHit(s, v)
  <2>1. PICK i \in Slots : Hit(s, i, Slot(s, v, TRUE))
    BY <1>2 DEF WriteHit
  <2>2. QED
    BY <2>1, <1>1, HitInv
<1>3. CASE WriteMiss(s, v)
  <2>1. PICK k \in 0 .. BUFFER_CACHE_SIZE : Miss(s, k, Slot(s, v, TRUE))
    BY <1>3 DEF WriteMiss
  <2>2. QED
    BY <2>1, <1>1, MissInv
<1>4. QED
  BY <1>2, <1>3 DEF buffer_cache_write

\* The device after a close: by OneCopy the slot of a sector is unique.
LEMMA CloseDisk ==
    ASSUME Inv, buffer_cache_close
    PROVE  /\ disk' \in [Sectors -> Data]
           /\ \A i \in Slots : cache[i].occupied
                => disk'[cache[i].disk_sector] = cache[i].buffer
           /\ \A t \in Sectors : buffer_cache_lookup(t) = {} => disk'[t] = disk[t]
<1>1. ASSUME NEW t \in Sectors, NEW i \in DirtySlots(t)
      PROVE  (CHOOSE j \in DirtySlots(t) : TRUE) = i
  <2>1. (CHOOSE j \in DirtySlots(t) : TRUE) \in DirtySlots(t)
    BY <1>1
  <2>2. \A j \in DirtySlots(t) : j \in Slots /\ cache[j].occupied /\ cache[j].disk_sector = t
    BY DEF DirtySlots, buffer_cache_lookup
  <2>3. QED
    BY <1>1, <2>1, <2>2 DEF Inv, OneCopy
<1>2. \A t \in Sectors : \A i \in DirtySlots(t) : i \in Slots /\ disk'[t] = cache[i].buffer
  BY <1>1 DEF buffer_cache_close, DirtySlots, buffer_cache_lookup
<1>3. \A t \in Sectors : DirtySlots(t) = {} => disk'[t] = disk[t]
  BY DEF buffer_cache_close
<1>4. \A t \in Sectors : disk'[t] \in Data
  BY <1>2, <1>3 DEF Inv, TypeOK, buffer_cache_entry_t
<1>5. disk' \in [Sectors -> Data]
  BY <1>4 DEF buffer_cache_close
<1>6. ASSUME NEW i \in Slots, cache[i].occupied
      PROVE  disk'[cache[i].disk_sector] = cache[i].buffer
  <2>1. cache[i].disk_sector \in Sectors
    BY DEF Inv, TypeOK, buffer_cache_entry_t
  <2>2. CASE cache[i].dirty
    <3>1. i \in DirtySlots(cache[i].disk_sector)
      BY <1>6, <2>2 DEF DirtySlots, buffer_cache_lookup
    <3>2. QED
      BY <3>1, <2>1, <1>2
  <2>3. CASE ~cache[i].dirty
    <3>1. DirtySlots(cache[i].disk_sector) = {}
      BY <1>6, <2>3 DEF DirtySlots, buffer_cache_lookup, Inv, OneCopy
    <3>2. QED
      BY <3>1, <2>1, <2>3, <1>3, <1>6 DEF Inv, CleanIsOnDisk
  <2>4. QED
    BY <2>2, <2>3
<1>7. QED
  BY <1>3, <1>5, <1>6 DEF DirtySlots

\* buffer_cache_close changes nothing of a slot but its dirty bit.
LEMMA CloseSlots ==
    ASSUME Inv, buffer_cache_close
    PROVE  /\ cache' \in [Slots -> buffer_cache_entry_t]
           /\ \A i \in Slots : /\ cache'[i].occupied = cache[i].occupied
                               /\ cache'[i].disk_sector = cache[i].disk_sector
                               /\ cache'[i].buffer = cache[i].buffer
<1>1. \A i \in Slots : \/ cache'[i] = cache[i]
                       \/ cache'[i] = [cache[i] EXCEPT !.dirty = FALSE]
  BY Zenon DEF buffer_cache_close
<1>2. \A i \in Slots : cache[i] \in buffer_cache_entry_t
  BY DEF Inv, TypeOK
<1>3. \A i \in Slots : cache'[i] \in buffer_cache_entry_t
  BY <1>1, <1>2 DEF buffer_cache_entry_t
<1>4. cache' = [i \in Slots |-> cache'[i]]
  BY DEF buffer_cache_close
<1>5. QED
  BY <1>1, <1>2, <1>3, <1>4 DEF buffer_cache_entry_t

LEMMA CloseInv ==
    ASSUME Inv, buffer_cache_close
    PROVE  Inv'
<1>1. TypeOK'
  BY CloseDisk, CloseSlots DEF Inv, TypeOK, buffer_cache_close
<1>2. OneCopy'
  BY CloseSlots DEF Inv, OneCopy
<1>3. CleanIsOnDisk'
  BY CloseSlots, CloseDisk DEF CleanIsOnDisk
<1>4. QED
  BY <1>1, <1>2, <1>3 DEF Inv

\* A new process begins with no slot occupied.
LEMMA EmptyInv ==
    ASSUME cache = EmptyCache, clock = 0, disk \in [Sectors -> Data]
    PROVE  Inv
  BY SizeAssumption, SectorAssumption, DataAssumption
     DEF Inv, TypeOK, OneCopy, CleanIsOnDisk, EmptyCache, Slots, buffer_cache_entry_t

LEMMA RestartInv ==
    ASSUME Inv, Restart
    PROVE  Inv'
  BY SizeAssumption, SectorAssumption, DataAssumption
     DEF Inv, TypeOK, OneCopy, CleanIsOnDisk, EmptyCache, Slots, buffer_cache_entry_t, Restart

LEMMA NextInv ==
    ASSUME Inv, [Next]_vars
    PROVE  Inv'
<1>1. CASE Next
  BY <1>1, ReadInv, WriteInv, CloseInv, RestartInv DEF Next
<1>2. CASE UNCHANGED vars
  BY <1>2 DEF vars, Inv, TypeOK, OneCopy, CleanIsOnDisk
<1>3. QED
  BY <1>1, <1>2

\* Every reachable state of the cache satisfies the inductive invariant.
THEOREM Invariance == Spec => []Inv
<1>1. Init => Inv
  BY EmptyInv DEF Init
<1>2. QED
  BY <1>1, NextInv, PTL DEF Spec

\* The cache's slots, hand and device always hold values of their C types:
\* the hand of buffer_cache_evict never runs off the array.
THEOREM TypeCorrect == Spec => []TypeOK
<1>1. Inv => TypeOK
  BY DEF Inv
<1>2. QED
  BY <1>1, Invariance, PTL

\* For every cache size no sector is ever in two slots of cache.c.
THEOREM CopiesUnique == Spec => []OneCopy
<1>1. Inv => OneCopy
  BY DEF Inv
<1>2. QED
  BY <1>1, Invariance, PTL

\* For every cache size a slot dropped by buffer_cache_evict without a write
\* holds nothing the device does not.
THEOREM CleanSlotsSafe == Spec => []CleanIsOnDisk
<1>1. Inv => CleanIsOnDisk
  BY DEF Inv
<1>2. QED
  BY <1>1, Invariance, PTL

----------------------------------------------------------------------------
(* The cache implements SectorStore.                                       *)

\* What a caller sees of a sector: its slot, or the device.
LEMMA ViewValue ==
    ASSUME Inv
    PROVE  /\ \A i \in Slots : cache[i].occupied => View[cache[i].disk_sector] = cache[i].buffer
           /\ \A t \in Sectors : buffer_cache_lookup(t) = {} => View[t] = disk[t]
<1>1. ASSUME NEW i \in Slots, cache[i].occupied
      PROVE  View[cache[i].disk_sector] = cache[i].buffer
  <2> DEFINE t == cache[i].disk_sector
             c == CHOOSE j \in buffer_cache_lookup(t) : TRUE
  <2>1. t \in Sectors
    BY DEF Inv, TypeOK, buffer_cache_entry_t
  <2>2. i \in buffer_cache_lookup(t)
    BY <1>1 DEF buffer_cache_lookup
  <2>3. c \in buffer_cache_lookup(t)
    BY <2>2
  <2>4. c = i
    BY <2>2, <2>3 DEF buffer_cache_lookup, Inv, OneCopy
  <2>5. View[t] = cache[c].buffer
    BY <2>1, <2>2 DEF View
  <2>6. QED
    BY <2>4, <2>5
<1>2. QED
  BY <1>1 DEF View

\* What a caller sees is the contents of the slot or of the device, typed.
LEMMA ViewType ==
    ASSUME Inv
    PROVE  View \in [Sectors -> Data]
<1>1. \A t \in Sectors : View[t] \in Data
  <2> SUFFICES ASSUME NEW t \in Sectors PROVE View[t] \in Data
    OBVIOUS
  <2>1. CASE buffer_cache_lookup(t) = {}
    BY <2>1, ViewValue DEF Inv, TypeOK
  <2>2. CASE buffer_cache_lookup(t) # {}
    BY <2>2, ViewValue DEF buffer_cache_lookup, Inv, TypeOK, buffer_cache_entry_t
  <2>3. QED
    BY <2>1, <2>2
<1>2. QED
  BY <1>1 DEF View

\* The facts about View together, to state them of the next state too.
ViewFacts ==
    /\ \A i \in Slots : cache[i].occupied => View[cache[i].disk_sector] = cache[i].buffer
    /\ \A t \in Sectors : buffer_cache_lookup(t) = {} => View[t] = disk[t]
    /\ View \in [Sectors -> Data]

LEMMA ViewValueNext == Inv' => ViewFacts'
<1>1. Inv => ViewFacts
  BY ViewValue, ViewType DEF ViewFacts
<1>2. QED
  BY <1>1, PTL

\* A miss changes what callers see at most at its own sector, brings to the
\* device only what they saw, and finds there what they saw of its sector.
LEMMA MissView ==
    ASSUME Inv, Inv', NEW s \in Sectors, NEW k \in 0 .. BUFFER_CACHE_SIZE,
           NEW used \in buffer_cache_entry_t, Miss(s, k, used),
           used.occupied, used.disk_sector = s
    PROVE  /\ View' = [View EXCEPT ![s] = used.buffer]
           /\ Store!WriteBack
           /\ buffer_cache_flush(HandAt(k))[s] = View[s]
<1> DEFINE h == HandAt(k)
<1>1. /\ h \in Slots
      /\ cache'[h] = used
      /\ \A i \in Slots \ {h} : /\ cache'[i].occupied = cache[i].occupied
                                /\ cache'[i].disk_sector = cache[i].disk_sector
                                /\ cache'[i].buffer = cache[i].buffer
  BY MissOthers DEF Inv
<1>2. disk' = buffer_cache_flush(h)
  BY DEF Miss, HandLeft
<1>3. buffer_cache_lookup(s) = {}
  BY DEF Miss, HandLeft
<1>4. \A t \in Sectors : disk'[t] =
        IF cache[h].occupied /\ cache[h].dirty /\ cache[h].disk_sector = t
        THEN cache[h].buffer ELSE disk[t]
  BY <1>1, <1>2, FlushValue DEF Inv
<1> HIDE DEF h
<1>5. \A t \in Sectors : disk'[t] \in {disk[t], View[t]}
  BY <1>1, <1>4, ViewValue
<1>6. disk'[s] = View[s]
  BY <1>1, <1>3, <1>4, ViewValue DEF buffer_cache_lookup
<1>7. ASSUME NEW t \in Sectors, t # s
      PROVE  View'[t] = View[t]
  <2>1. CASE \E i \in Slots \ {h} : cache[i].occupied /\ cache[i].disk_sector = t
    BY <2>1, <1>1, ViewValue, ViewValueNext DEF ViewFacts
  <2>2. CASE /\ cache[h].occupied /\ cache[h].disk_sector = t
             /\ \A i \in Slots \ {h} : ~(cache[i].occupied /\ cache[i].disk_sector = t)
    <3>1. (buffer_cache_lookup(t))' = {}
      BY <2>2, <1>1, <1>7 DEF buffer_cache_lookup
    <3>2. View'[t] = disk'[t]
      BY <3>1, ViewValueNext DEF ViewFacts
    <3>3. disk'[t] = cache[h].buffer
      BY <2>2, <1>1, <1>4 DEF Inv, CleanIsOnDisk
    <3>4. QED
      BY <3>2, <3>3, <2>2, <1>1, ViewValue
  <2>3. CASE \A i \in Slots : ~(cache[i].occupied /\ cache[i].disk_sector = t)
    <3>1. buffer_cache_lookup(t) = {} /\ (buffer_cache_lookup(t))' = {}
      BY <2>3, <1>1, <1>7 DEF buffer_cache_lookup
    <3>2. QED
      BY <3>1, <2>3, <1>1, <1>4, ViewValue, ViewValueNext DEF ViewFacts
  <2>4. QED
    BY <2>1, <2>2, <2>3, <1>1
<1>8. View'[s] = used.buffer
  BY <1>1, ViewValueNext DEF ViewFacts
<1>9. View' = [View EXCEPT ![s] = used.buffer]
  BY <1>7, <1>8, ViewType, ViewValueNext DEF ViewFacts
<1>10. disk' \in [Sectors -> Data]
  BY DEF Inv, TypeOK
<1>11. QED
  BY <1>2, <1>5, <1>6, <1>9, <1>10 DEF Store!WriteBack, h

\* A hit changes what callers see at most at its own sector.
LEMMA HitView ==
    ASSUME Inv, Inv', NEW s \in Sectors, NEW i \in Slots,
           NEW used \in buffer_cache_entry_t, Hit(s, i, used),
           used.occupied, used.disk_sector = s
    PROVE  /\ View' = [View EXCEPT ![s] = used.buffer]
           /\ View[s] = cache[i].buffer
           /\ Store!WriteBack
<1>1. cache[i].occupied /\ cache[i].disk_sector = s
  BY DEF Hit, FirstOf, buffer_cache_lookup
<1>2. cache' = [cache EXCEPT ![i] = used] /\ disk' = disk
  BY DEF Hit
<1>3. cache'[i] = used /\ \A j \in Slots \ {i} : cache'[j] = cache[j]
  BY <1>2 DEF Inv, TypeOK
<1>4. View'[s] = used.buffer
  BY <1>3, ViewValueNext DEF ViewFacts
<1>5. ASSUME NEW t \in Sectors, t # s
      PROVE  View'[t] = View[t]
  <2>1. CASE \E j \in Slots : cache[j].occupied /\ cache[j].disk_sector = t
    BY <2>1, <1>1, <1>3, <1>5, ViewValue, ViewValueNext DEF ViewFacts
  <2>2. CASE \A j \in Slots : ~(cache[j].occupied /\ cache[j].disk_sector = t)
    <3>1. buffer_cache_lookup(t) = {} /\ (buffer_cache_lookup(t))' = {}
      BY <2>2, <1>3, <1>5 DEF buffer_cache_lookup
    <3>2. QED
      BY <3>1, <1>2, ViewValue, ViewValueNext DEF ViewFacts
  <2>3. QED
    BY <2>1, <2>2
<1>6. View' = [View EXCEPT ![s] = used.buffer]
  BY <1>4, <1>5, ViewType, ViewValueNext DEF ViewFacts
<1>7. Store!WriteBack
  BY <1>2 DEF Store!WriteBack, Inv, TypeOK
<1>8. QED
  BY <1>1, <1>6, <1>7, ViewValue

LEMMA ReadRefines ==
    ASSUME Inv, Inv', NEW s \in Sectors, buffer_cache_read(s)
    PROVE  Store!Read(s)
<1>1. CASE ReadHit(s)
  <2>1. PICK i \in Slots :
          /\ Hit(s, i, Slot(s, cache[i].buffer, cache[i].dirty))
          /\ last' = [op |-> "read", sector |-> s, data |-> cache[i].buffer]
    BY <1>1 DEF ReadHit
  <2> DEFINE used == Slot(s, cache[i].buffer, cache[i].dirty)
  <2>2. used \in buffer_cache_entry_t
    BY SlotType DEF Inv, TypeOK, buffer_cache_entry_t
  <2>3. used.occupied /\ used.disk_sector = s /\ used.buffer = cache[i].buffer
    BY DEF Slot
  <2>4. /\ View' = [View EXCEPT ![s] = cache[i].buffer]
        /\ View[s] = cache[i].buffer
        /\ Store!WriteBack
    BY <2>1, <2>2, <2>3, HitView
  <2>5. View' = View
    BY <2>4, ViewType
  <2>6. QED
    BY <2>1, <2>4, <2>5 DEF Store!Read
<1>2. CASE ReadMiss(s)
  <2>1. PICK k \in 0 .. BUFFER_CACHE_SIZE :
          /\ Miss(s, k, Slot(s, buffer_cache_flush(HandAt(k))[s], FALSE))
          /\ last' = [op |-> "read", sector |-> s,
                      data |-> buffer_cache_flush(HandAt(k))[s]]
    BY <1>2 DEF ReadMiss
  <2> DEFINE d == buffer_cache_flush(HandAt(k))[s]
             used == Slot(s, d, FALSE)
  <2>2. d \in Data
    BY HandInSlots, FlushType DEF Inv, TypeOK
  <2>3. used \in buffer_cache_entry_t
    BY <2>2, SlotType
  <2>4. used.occupied /\ used.disk_sector = s /\ used.buffer = d
    BY DEF Slot
  <2>5. Miss(s, k, used) /\ last' = [op |-> "read", sector |-> s, data |-> d]
    BY <2>1
  <2> HIDE DEF used
  <2>6. /\ View' = [View EXCEPT ![s] = used.buffer]
        /\ Store!WriteBack
        /\ d = View[s]
    BY <2>5, <2>3, <2>4, MissView
  <2>7. View' = View
    BY <2>4, <2>6, ViewType
  <2>8. QED
    BY <2>5, <2>6, <2>7 DEF Store!Read
<1>3. QED
  BY <1>1, <1>2 DEF buffer_cache_read

LEMMA WriteRefines ==
    ASSUME Inv, Inv', NEW s \in Sectors, NEW v \in Data, buffer_cache_write(s, v)
    PROVE  Store!Write(s, v)
<1> DEFINE used == Slot(s, v, TRUE)
<1>1. /\ used \in buffer_cache_entry_t
      /\ used.occupied /\ used.disk_sector = s /\ used.buffer = v
  BY SlotType DEF Slot
<1> HIDE DEF used
<1>2. CASE WriteHit(s, v)
  <2>1. PICK i \in Slots : /\ Hit(s, i, used)
                           /\ last' = [op |-> "write", sector |-> s, data |-> v]
    BY <1>2 DEF WriteHit, used
  <2>2. View' = [View EXCEPT ![s] = used.buffer] /\ Store!WriteBack
    BY <2>1, <1>1, HitView
  <2>3. QED
    BY <2>1, <2>2, <1>1 DEF Store!Write
<1>3. CASE WriteMiss(s, v)
  <2>1. PICK k \in 0 .. BUFFER_CACHE_SIZE :
          /\ Miss(s, k, used)
          /\ last' = [op |-> "write", sector |-> s, data |-> v]
    BY <1>3 DEF WriteMiss, used
  <2>2. View' = [View EXCEPT ![s] = used.buffer] /\ Store!WriteBack
    BY <2>1, <1>1, MissView
  <2>3. QED
    BY <2>1, <2>2, <1>1 DEF Store!Write
<1>4. QED
  BY <1>2, <1>3 DEF buffer_cache_write

LEMMA CloseRefines ==
    ASSUME Inv, Inv', buffer_cache_close
    PROVE  Store!Close
<1>1. ASSUME NEW t \in Sectors
      PROVE  disk'[t] = View[t] /\ View'[t] = View[t]
  <2>1. CASE \E i \in Slots : cache[i].occupied /\ cache[i].disk_sector = t
    BY <2>1, CloseSlots, CloseDisk, ViewValue, ViewValueNext DEF ViewFacts
  <2>2. CASE \A i \in Slots : ~(cache[i].occupied /\ cache[i].disk_sector = t)
    <3>1. buffer_cache_lookup(t) = {} /\ (buffer_cache_lookup(t))' = {}
      BY <2>2, CloseSlots DEF buffer_cache_lookup
    <3>2. QED
      BY <3>1, CloseDisk, ViewValue, ViewValueNext DEF ViewFacts
  <2>3. QED
    BY <2>1, <2>2
<1>2. disk' = View /\ View' = View
  BY <1>1, CloseDisk, ViewType, ViewValueNext DEF ViewFacts
<1>3. QED
  BY <1>2 DEF Store!Close, buffer_cache_close

LEMMA RestartRefines ==
    ASSUME Inv, Inv', Restart
    PROVE  Store!Restart
<1>1. \A t \in Sectors : (buffer_cache_lookup(t))' = {}
  BY DEF Restart, EmptyCache, buffer_cache_lookup
<1>2. View' = disk'
  BY <1>1, ViewValueNext DEF ViewFacts, Inv, TypeOK
<1>3. QED
  BY <1>2 DEF Store!Restart, Restart

\* The cache implements an array of sectors, for every number of slots, every
\* device and all data: a read delivers the last write whatever was evicted
\* in between, and a close brings every write to the device.
THEOREM Refinement == Spec => StoreSpec
<1>1. Init => Store!Init
  <2> SUFFICES ASSUME Init PROVE Store!Init
    OBVIOUS
  <2>1. Inv
    BY EmptyInv DEF Init
  <2>2. \A t \in Sectors : buffer_cache_lookup(t) = {}
    BY DEF Init, EmptyCache, buffer_cache_lookup
  <2>3. View = disk
    BY <2>1, <2>2, ViewValue, ViewType DEF Init
  <2>4. QED
    BY <2>3 DEF Init, Store!Init
<1>2. Inv /\ Inv' /\ [Next]_vars => [Store!Next]_(Store!vars)
  <2> SUFFICES ASSUME Inv, Inv', [Next]_vars PROVE [Store!Next]_(Store!vars)
    OBVIOUS
  <2>1. CASE UNCHANGED vars
    BY <2>1 DEF vars, Store!vars, View, buffer_cache_lookup
  <2>2. CASE Next
    BY <2>2, ReadRefines, WriteRefines, CloseRefines, RestartRefines DEF Next, Store!Next
  <2>3. QED
    BY <2>1, <2>2
<1>3. QED
  BY <1>1, <1>2, Invariance, PTL DEF Spec, StoreSpec, Store!Spec
=============================================================================

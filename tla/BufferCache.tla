---------------------------- MODULE BufferCache ----------------------------
(***************************************************************************)
(* a3/fs/cache.c: the write-back cache between the file system and the     *)
(* block device, with second-chance (clock) eviction.  The shell is single *)
(* threaded, so each cache function is one action.                         *)
(***************************************************************************)
EXTENDS Naturals

CONSTANTS BUFFER_CACHE_SIZE,    \* slots of the cache (64 in cache.c)
          Sectors,              \* sectors of the device (block->size of them)
          Data,                 \* contents of a sector
          Zeros                 \* the all-zero contents of static storage

ASSUME SizeAssumption == BUFFER_CACHE_SIZE \in Nat \ {0}
ASSUME SectorAssumption == Sectors \subseteq Nat /\ 0 \in Sectors
ASSUME DataAssumption == Zeros \in Data

Slots == 0 .. BUFFER_CACHE_SIZE - 1

buffer_cache_entry_t == [occupied : BOOLEAN, disk_sector : Sectors,
                         buffer : Data, dirty : BOOLEAN, access : BOOLEAN]

VARIABLES cache,        \* the slots
          clock,        \* the hand of buffer_cache_evict, static there
          disk,         \* contents of the block device
          last          \* the last operation, with the data it moved

vars == <<cache, clock, disk, last>>

(***************************************************************************)
(* A new process: static storage is zero, and buffer_cache_init only       *)
(* writes zeros over it.                                                   *)
(***************************************************************************)
EmptyCache == [i \in Slots |-> [occupied |-> FALSE, disk_sector |-> 0,
                                buffer |-> Zeros, dirty |-> FALSE,
                                access |-> FALSE]]

Init == /\ cache = EmptyCache
        /\ clock = 0
        /\ disk \in [Sectors -> Data]
        /\ last = [op |-> "start"]

----------------------------------------------------------------------------
\* A bug: the scan starts after slot 0.
buffer_cache_lookup_short(s) ==
    {i \in Slots \ {0} : cache[i].occupied /\ cache[i].disk_sector = s}

(***************************************************************************)
(* buffer_cache_lookup: the slots that hold sector s; it returns the first.*)
(***************************************************************************)
buffer_cache_lookup(s) ==
    {i \in Slots : cache[i].occupied /\ cache[i].disk_sector = s}

FirstOf(S, i) == i \in S /\ \A j \in S : i <= j

(***************************************************************************)
(* buffer_cache_evict: the hand passes occupied slots whose access bit is  *)
(* set, clearing the bit, and stops at the first other slot.  After a full *)
(* turn every bit is clear and it stops where it began.  HandAt(k) is      *)
(* where the hand is after k moves, EvictAfter(k) says it stops there.     *)
(***************************************************************************)
HandAt(k) == IF clock + k < BUFFER_CACHE_SIZE
             THEN clock + k ELSE clock + k - BUFFER_CACHE_SIZE

SecondChance(i) == cache[i].occupied /\ cache[i].access

EvictAfter(k) ==
    /\ \A j \in 0 .. k - 1 : SecondChance(HandAt(j))
    /\ k < BUFFER_CACHE_SIZE => ~SecondChance(HandAt(k))

\* A bug: the hand moves on behind the victim, without wrapping.
HandLeft_past(k) == HandAt(k) + 1

\* The hand stays at the slot that was found.
HandLeft(k) == HandAt(k)

Passed(k) == {HandAt(j) : j \in 0 .. k - 1}

\* A bug: the victim's slot is reused without writing it back.
buffer_cache_flush_lost(i) == disk

(***************************************************************************)
(* block_write and buffer_cache_flush: a dirty slot goes to its sector.    *)
(***************************************************************************)
buffer_cache_flush(i) ==
    IF cache[i].occupied /\ cache[i].dirty
    THEN [disk EXCEPT ![cache[i].disk_sector] = cache[i].buffer]
    ELSE disk

(***************************************************************************)
(* The part buffer_cache_read and buffer_cache_write share.  On a miss the *)
(* victim is flushed, then the slot is filled from the device: the filled  *)
(* slot is what the operation works on.                                    *)
(***************************************************************************)
Hit(s, i, used) ==
    /\ FirstOf(buffer_cache_lookup(s), i)
    /\ cache' = [cache EXCEPT ![i] = used]
    /\ UNCHANGED <<clock, disk>>

Miss(s, k, used) ==
    /\ buffer_cache_lookup(s) = {}
    /\ EvictAfter(k)
    /\ clock' = HandLeft(k)
    /\ disk' = buffer_cache_flush(HandAt(k))
    /\ cache' = [i \in Slots |->
                   CASE i = HandAt(k) -> used
                     [] i # HandAt(k) /\ i \in Passed(k) ->
                          [cache[i] EXCEPT !.access = FALSE]
                     [] OTHER -> cache[i]]

\* A bug: the slot forgets that it differs from the device.
SlotClean(s, data, isDirty) ==
    [occupied |-> TRUE, disk_sector |-> s, buffer |-> data,
     dirty |-> FALSE, access |-> TRUE]

Slot(s, data, isDirty) ==
    [occupied |-> TRUE, disk_sector |-> s, buffer |-> data,
     dirty |-> isDirty, access |-> TRUE]

ReadHit(s) == \E i \in Slots :
    /\ Hit(s, i, Slot(s, cache[i].buffer, cache[i].dirty))
    /\ last' = [op |-> "read", sector |-> s, data |-> cache[i].buffer]

ReadMiss(s) == \E k \in 0 .. BUFFER_CACHE_SIZE :
    /\ Miss(s, k, Slot(s, buffer_cache_flush(HandAt(k))[s], FALSE))
    /\ last' = [op |-> "read", sector |-> s,
                data |-> buffer_cache_flush(HandAt(k))[s]]

WriteHit(s, v) == \E i \in Slots :
    /\ Hit(s, i, Slot(s, v, TRUE))
    /\ last' = [op |-> "write", sector |-> s, data |-> v]

WriteMiss(s, v) == \E k \in 0 .. BUFFER_CACHE_SIZE :
    /\ Miss(s, k, Slot(s, v, TRUE))
    /\ last' = [op |-> "write", sector |-> s, data |-> v]

buffer_cache_read(s) == ReadHit(s) \/ ReadMiss(s)

buffer_cache_write(s, v) == WriteHit(s, v) \/ WriteMiss(s, v)

\* A bug: the slots are marked clean but not written.
buffer_cache_close_lost ==
    /\ cache' = [i \in Slots |-> [cache[i] EXCEPT !.dirty = FALSE]]
    /\ last' = [op |-> "close"]
    /\ UNCHANGED <<clock, disk>>

(***************************************************************************)
(* buffer_cache_close, called by filesys_done: every slot is flushed and   *)
(* stays in the cache, clean.  By OneCopy a sector has at most one slot,   *)
(* so the CHOOSE has one candidate.                                        *)
(***************************************************************************)
DirtySlots(s) == {i \in buffer_cache_lookup(s) : cache[i].dirty}

buffer_cache_close ==
    /\ disk' = [s \in Sectors |->
                  IF DirtySlots(s) = {} THEN disk[s]
                  ELSE cache[CHOOSE i \in DirtySlots(s) : TRUE].buffer]
    /\ cache' = [i \in Slots |-> IF cache[i].occupied
                                 THEN [cache[i] EXCEPT !.dirty = FALSE]
                                 ELSE cache[i]]
    /\ last' = [op |-> "close"]
    /\ UNCHANGED clock

(***************************************************************************)
(* The process ends, with or without a close before (quit calls            *)
(* filesys_done; the exit(99) of the kernel and of PANIC does not), and    *)
(* the shell is started again on the same disk image.                      *)
(***************************************************************************)
Restart == /\ cache' = EmptyCache
           /\ clock' = 0
           /\ last' = [op |-> "start"]
           /\ UNCHANGED disk

Next == \/ \E s \in Sectors : buffer_cache_read(s)
        \/ \E s \in Sectors, v \in Data : buffer_cache_write(s, v)
        \/ buffer_cache_close
        \/ Restart

Spec == Init /\ [][Next]_vars

----------------------------------------------------------------------------
(***************************************************************************)
(* The state of cache.c is well formed: slots, hand and device hold values *)
(* of their C types.                                                       *)
(***************************************************************************)
TypeOK == /\ cache \in [Slots -> buffer_cache_entry_t]
          /\ clock \in Slots
          /\ disk \in [Sectors -> Data]

(***************************************************************************)
(* No sector is in two slots: buffer_cache_lookup returns the first match, *)
(* so a second copy would be stale and could be flushed over the first.    *)
(***************************************************************************)
OneCopy == \A i, j \in Slots :
    /\ cache[i].occupied /\ cache[j].occupied
    /\ cache[i].disk_sector = cache[j].disk_sector
    => i = j

(***************************************************************************)
(* A slot that buffer_cache_evict may drop without a write (not dirty)     *)
(* holds what the device holds.                                            *)
(***************************************************************************)
CleanIsOnDisk == \A i \in Slots :
    cache[i].occupied /\ ~cache[i].dirty
    => cache[i].buffer = disk[cache[i].disk_sector]

(***************************************************************************)
(* The cache implements SectorStore: a caller cannot tell it from an array *)
(* of sectors, whatever was evicted when, and buffer_cache_close leaves    *)
(* everything on the device.                                               *)
(***************************************************************************)
View == [s \in Sectors |->
           IF buffer_cache_lookup(s) = {} THEN disk[s]
           ELSE cache[CHOOSE i \in buffer_cache_lookup(s) : TRUE].buffer]

Store == INSTANCE SectorStore WITH store <- View

StoreSpec == Store!Spec
=============================================================================

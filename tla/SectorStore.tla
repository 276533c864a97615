---------------------------- MODULE SectorStore ----------------------------
(***************************************************************************)
(* What the buffer cache of a3/fs promises the layers above it (cache.h):  *)
(* the device behaves as one array of sectors.  A read delivers the last   *)
(* value written to that sector.  Writes may reach the device in any order *)
(* and at any later moment, a close brings all of them to the device, and  *)
(* what never reached the device is lost when the process ends.            *)
(***************************************************************************)
CONSTANTS Sectors,      \* the sectors of the device
          Data          \* the contents a sector can have

VARIABLES store,        \* the contents as the callers see them
          disk,         \* what the device holds
          last          \* the last operation: its name, sector and data

vars == <<store, disk, last>>

Init == /\ disk \in [Sectors -> Data]
        /\ store = disk
        /\ last = [op |-> "start"]

(***************************************************************************)
(* Any set of sectors may have been written back, each with its current    *)
(* contents; nothing else changes on the device.                           *)
(***************************************************************************)
WriteBack == /\ disk' \in [Sectors -> Data]
             /\ \A s \in Sectors : disk'[s] \in {disk[s], store[s]}

Read(s) == /\ last' = [op |-> "read", sector |-> s, data |-> store[s]]
           /\ WriteBack
           /\ UNCHANGED store

Write(s, v) == /\ store' = [store EXCEPT ![s] = v]
               /\ last' = [op |-> "write", sector |-> s, data |-> v]
               /\ WriteBack

Close == /\ disk' = store
         /\ last' = [op |-> "close"]
         /\ UNCHANGED store

Restart == /\ store' = disk
           /\ last' = [op |-> "start"]
           /\ UNCHANGED disk

Next == \/ \E s \in Sectors : Read(s)
        \/ \E s \in Sectors, v \in Data : Write(s, v)
        \/ Close
        \/ Restart

Spec == Init /\ [][Next]_vars
=============================================================================

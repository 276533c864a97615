------------------------------ MODULE FileStore ------------------------------
(***************************************************************************)
(* What the file commands of the a3 shell promise: a set of named files,   *)
(* each a sequence of bytes.  A command that fails changes nothing, and no *)
(* command changes a file it does not name.  Looking at files, closing the *)
(* file system and starting it again, and defragmenting it are no steps.   *)
(***************************************************************************)
EXTENDS Naturals, Sequences

CONSTANTS Names,        \* file names
          Nul,          \* the byte 0; every other byte is a file's name
          Absent        \* the file does not exist

VARIABLE files

Init == files = [n \in Names |-> Absent]

Blank(k) == [i \in 1 .. k |-> Nul]
Fill(n, k) == [i \in 1 .. k |-> n]

\* Contents c after buf was written at position p, with zeros between.
Overlay(c, p, buf) ==
    [i \in 1 .. IF p + Len(buf) > Len(c) THEN p + Len(buf) ELSE Len(c) |->
       IF i - p \in DOMAIN buf THEN buf[i - p]
       ELSE IF i \in DOMAIN c THEN c[i] ELSE Nul]

\* A command takes file n from old to new, one of them possibly Absent.
Create(old, new) == /\ old = Absent
                    /\ new # Absent
                    /\ new = Blank(Len(new))

\* k bytes of text, with the one or two zero bytes the shell puts behind it.
Write(n, old, new) ==
    /\ old # Absent /\ new # Absent
    /\ \E z \in 1 .. 2 : \E k \in 0 .. Len(new) - z : \E p \in 0 .. Len(new) - z - k :
         new = Overlay(old, p, Fill(n, k) \o Blank(z))

\* k bytes of a host file, and the zero bytes copy_in puts behind them.
CopyIn(n, old, new) ==
    /\ old = Absent /\ new # Absent
    /\ \E z \in 1 .. 2 : /\ Len(new) >= z
                         /\ new = Fill(n, Len(new) - z) \o Blank(z)

Remove(old, new) == old # Absent /\ new = Absent

Change(n, old, new) == \/ Create(old, new)
                       \/ Write(n, old, new)
                       \/ CopyIn(n, old, new)
                       \/ Remove(old, new)

\* (old and new are bound so that TLC computes them once.)
Next == \E old \in {files}, new \in {files'} : \E n \in Names :
          /\ old[n] # new[n]
          /\ Change(n, old[n], new[n])
          /\ \A o \in Names \ {n} : new[o] = old[o]

Spec == Init /\ [][Next]_files
=============================================================================

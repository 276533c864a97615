------------------------- MODULE PagedKernelProofs -------------------------
(***************************************************************************)
(* Proofs about PagedKernel, for every number of frames, of processes and  *)
(* of lines of their scripts, as long as a script has as many lines as     *)
(* count_lines counts and none of them returns 1 (Counted).                *)
(*                                                                         *)
(* Everything hangs on one fact: the page that is evicted is never one     *)
(* that its process has still to read, because load_PAGE could not bring   *)
(* it back.  Nothing in the code looks at that.  It is true because all    *)
(* processes go through their scripts in step (Lockstep), which orders     *)
(* their pages in the LRU list (Recency): when a process faults, the page  *)
(* before its last one is older than every page that is needed.            *)
(***************************************************************************)
EXTENDS PagedKernel, FiniteSetTheorems, WellFoundedInduction, TLAPS

Counted == \A s \in Scripts :
    /\ count_lines(s) = Len(s.line)
    /\ \A k \in 1 .. Len(s.line) : ~Returns1(s.line[k])

----------------------------------------------------------------------------
(* A process, and how far it is.                                           *)

Alive(P)    == P.size > 0
Total(P)    == Len(P.source_file.line)
Executed(P) == Total(P) - P.size

\* The first page that its process has to load by a fault.
Ahead(P) == IF P.pos <= 6 THEN 2 ELSE (P.pos + 2) \div 3

\* The executed lines of a page, of which d are in front of the next line.
Behind(d) == IF d <= 0 THEN 0 ELSE IF d >= 3 THEN 3 ELSE d

Page == [index : [0 .. 2 -> Frame \cup {Never}], valid : [0 .. 2 -> BOOLEAN]]

IsPCB(P) ==
    P = [size |-> P.size, program_counter |-> P.program_counter,
         page_table |-> P.page_table, source_file |-> P.source_file, pos |-> P.pos]

WellFormed(P) ==
    /\ IsPCB(P)
    /\ P.source_file \in Scripts
    /\ P.size \in 0 .. Total(P)
    /\ P.pos \in Nat /\ Ahead(P) \in Nat
    /\ P.pos = IF 3 * Ahead(P) <= Total(P) THEN 3 * Ahead(P) ELSE Total(P)
    /\ P.page_table \in [0 .. PAGE_table_size(Total(P)) - 1 -> Page]
    /\ P.program_counter = [i \in Pages(P) |-> Behind(Executed(P) - 3 * i)]
    /\ Ahead(P) >= 2 /\ Executed(P) <= 3 * Ahead(P)
    /\ Alive(P) /\ Ahead(P) > 2 => Executed(P) >= 3 * (Ahead(P) - 1)

----------------------------------------------------------------------------
(* The lists.                                                              *)

Listed(L) == {L[k] : k \in DOMAIN L}

Distinct(L) == \A k1, k2 \in DOMAIN L : k1 # k2 => L[k1] # L[k2]

\* Page x was used before page y.
Older(L, x, y) == \E k1, k2 \in DOMAIN L : k2 < k1 /\ L[k1] = x /\ L[k2] = y

ListsOK ==
    /\ mem = [l \in Mem |-> mem[l]]
    /\ pcb = [p \in Pids |-> pcb[p]] /\ ran = [p \in Pids |-> ran[p]]
    /\ at \in {"shell", "admit", "sched", "second", "exit"}
    /\ PID_counter \in 1 .. MaxPid + 1
    /\ ALL_PCB \in Seq(1 .. PID_counter - 1)
    /\ \A k1, k2 \in DOMAIN ALL_PCB : k1 < k2 => ALL_PCB[k1] < ALL_PCB[k2]
    /\ QUEUE \in Seq(Admitted) /\ Distinct(QUEUE)
    /\ LRU_CACHE \in Seq(Admitted \X Nat) /\ Distinct(LRU_CACHE)
    /\ at = "shell" => ALL_PCB = <<>>
    /\ at = "admit" => /\ todo \in Seq(Scripts) \ {<<>>}
                       /\ PID_counter + Len(todo) - 1 <= MaxPid

----------------------------------------------------------------------------
(* Pages in memory.                                                        *)

Base(P, i) == P.page_table[i].index[0]

\* Page i of process p, which is P, is in its frame of memory m.
InFrame(m, p, P, i) ==
    /\ i \in Pages(P) /\ i < Ahead(P)
    /\ Base(P, i) \in Nat /\ Base(P, i) + 2 \in Frame
    /\ P.page_table[i] = [index |-> [j \in 0 .. 2 |-> Base(P, i) + j],
                          valid |-> [j \in 0 .. 2 |-> 3 * i + j < Total(P)]]
    /\ \A j \in 0 .. 2 :
         /\ m[Base(P, i) + j].var = p
         /\ 3 * i + j < Total(P) =>
              m[Base(P, i) + j].value = P.source_file.line[3 * i + j + 1]

Apart(b, c) == b + 2 < c \/ c + 2 < b

\* Page i of P is one that P has still to read, or was the last before it.
Needed(P, i) == Alive(P) /\ i \in Pages(P) /\ i \in Ahead(P) - 2 .. Ahead(P) - 1

\* The needed pages of the processes A are listed in L.
NeededOf(A, Ps, L) ==
    \A p \in A : \A i \in Pages(Ps[p]) : Needed(Ps[p], i) => <<p, i>> \in Listed(L)

\* A page that is not listed has no valid line.
AbsentOf(A, Ps, L) ==
    \A p \in A : \A i \in Pages(Ps[p]) :
        <<p, i>> \notin Listed(L) => \A j \in 0 .. 2 : ~Ps[p].page_table[i].valid[j]

ProcsOK ==
    /\ \A p \in Admitted :
         /\ WellFormed(pcb[p])
         /\ ran[p] = [k \in 1 .. Executed(pcb[p]) |-> Source(p)[k]]
    /\ NeededOf(Admitted, pcb, LRU_CACHE)
    /\ AbsentOf(Admitted, pcb, LRU_CACHE)

\* The frames of memory m hold the pages that L lists, each its own.
FramesOf(m, Ps, L) ==
    /\ \A x \in Listed(L) : InFrame(m, x[1], Ps[x[1]], x[2])
    /\ \A x, y \in Listed(L) :
          x # y => Apart(Base(Ps[x[1]], x[2]), Base(Ps[y[1]], y[2]))
    /\ \A l \in Frame : m[l].var # None =>
          \E x \in Listed(L) : l \in Base(Ps[x[1]], x[2]) .. Base(Ps[x[1]], x[2]) + 2

FramesOK == FramesOf(mem, pcb, LRU_CACHE)

Idle == \A p \in Pids : p \notin Admitted => ran[p] = <<>>

----------------------------------------------------------------------------
(* Turns.                                                                  *)

\* P is a turn further than a process that has executed e lines and has to
\* load page c next.
TurnOn(P, e, c) ==
    IF e = 3 * c THEN Executed(P) = e /\ Ahead(P) = c + 1
    ELSE IF e + 1 = 3 * c THEN Executed(P) = e + 1 /\ Ahead(P) = c + 1
    ELSE Executed(P) = e + 2 /\ Ahead(P) = c

\* How R, of process r, compares with process p, which has its turn before it
\* and had executed e lines at its beginning.
InStep(p, e, c, r, R) ==
    /\ p < r => Executed(R) = e /\ Ahead(R) = c
    /\ r < p => TurnOn(R, e, c)

\* The unfinished processes Ps of queue q compare so.
Ordered(q, Ps) ==
    \A k1, k2 \in DOMAIN q :
        k1 < k2 /\ Alive(Ps[q[k1]]) /\ Alive(Ps[q[k2]]) =>
          InStep(q[k1], Executed(Ps[q[k1]]), Ahead(Ps[q[k1]]), q[k2], Ps[q[k2]])

Lockstep ==
    /\ Ordered(QUEUE, pcb)
    /\ at = "second" =>
         /\ curr \in Admitted /\ curr \notin Waiting /\ Alive(pcb[curr])
         /\ Executed(pcb[curr]) > 0
         /\ \A r \in Waiting : Alive(pcb[r]) =>
              InStep(curr, Executed(pcb[curr]) - 1, Ahead(pcb[curr]), r, pcb[r])
         /\ LRU_CACHE # <<>>
         /\ Executed(pcb[curr]) = 3 => LRU_CACHE[1] = <<curr, 0>>
    /\ at = "admit" =>
         \A p \in Admitted : Executed(pcb[p]) = 0 /\ Ahead(pcb[p]) = 2
    /\ \A p \in Admitted : Alive(pcb[p]) => p \in Waiting \/ (at = "second" /\ p = curr)
    /\ \A p \in Admitted : Alive(pcb[p]) /\ Ahead(pcb[p]) = 2 =>
         Executed(pcb[p]) \in (IF at = "second" /\ p = curr THEN {1, 3, 5} ELSE {0, 2, 4, 6})

----------------------------------------------------------------------------
(* The order of the needed pages in the LRU list.                          *)

\* P has left its first page, if that and the next are the ones it needs.
Going(P) == Alive(P) /\ (Ahead(P) > 2 \/ Executed(P) > 3)

\* P has read a line of its last loaded page, after all others left page 0.
Reading(P) == Executed(P) > (IF Ahead(P) = 2 THEN 4 ELSE 3 * (Ahead(P) - 1))

\* P has read all of its loaded pages.
AtFault(P) == Executed(P) = 3 * Ahead(P)

\* What process p, which is P, has to do with another one in the LRU list L.
Before(L, p, P, r, R) ==
    LET old(q, Q) == <<q, Ahead(Q) - 2>>
        new(q, Q) == <<q, Ahead(Q) - 1>>
    IN  /\ Ahead(P) = Ahead(R) /\ p < r =>
             Older(L, old(p, P), old(r, R)) /\ Older(L, old(p, P), new(r, R))
        /\ Ahead(R) = Ahead(P) + 1 =>
             Older(L, old(p, P), old(r, R)) /\ Older(L, old(p, P), new(r, R))
        /\ Ahead(P) = Ahead(R) /\ Reading(R) => Older(L, old(p, P), new(r, R))
        /\ Ahead(P) = Ahead(R) + 1 /\ p < r /\ AtFault(R) => Older(L, old(p, P), new(r, R))
        /\ Ahead(P) = Ahead(R) /\ p < r /\ AtFault(P) /\ AtFault(R) =>
             Older(L, new(p, P), new(r, R))

RecencyOf(A, Ps, L) ==
    /\ \A p \in A : Going(Ps[p]) =>
         Older(L, <<p, Ahead(Ps[p]) - 2>>, <<p, Ahead(Ps[p]) - 1>>)
    /\ \A p, r \in A : p # r /\ Going(Ps[p]) /\ Going(Ps[r]) => Before(L, p, Ps[p], r, Ps[r])

Recency == RecencyOf(Admitted, pcb, LRU_CACHE)

KernelInv == ListsOK /\ Idle /\ ProcsOK /\ FramesOK /\ Lockstep /\ Recency

----------------------------------------------------------------------------
(* Choices.                                                                *)

\* A set of numbers that is not empty has a least one.
LEMMA Least ==
    ASSUME NEW T, T \subseteq Nat, T # {}
    PROVE  \E m \in T : \A k \in T : m <= k
<1> DEFINE R == {x \in Nat \X Nat : x[1] < x[2]}
<1>1. R = OpToRel(<, Nat)
  BY DEF OpToRel
<1>2. IsWellFoundedOn(R, Nat)
  BY <1>1, NatLessThanWellFounded
<1>3. PICK m \in T : \A k \in T : ~ (<<k, m>> \in R)
  <2> HIDE DEF R
  <2> QED
    BY <1>2, WFMin
<1>4. ASSUME NEW k \in T PROVE m <= k
  <2>1. ~ (<<k, m>> \in R) /\ <<k, m>> \in Nat \X Nat
    BY <1>3
  <2>2. ~ (k < m)
    BY <2>1
  <2>3. QED
    BY <2>2
<1>5. QED
  BY <1>4

\* FirstOf takes the least number of a set.
LEMMA FirstOfLeast ==
    ASSUME NEW T, T \subseteq Nat, T # {}
    PROVE  FirstOf(T) \in T /\ \A k \in T : FirstOf(T) <= k
  BY Least DEF FirstOf

\* The least number is the one FirstOf takes.
LEMMA FirstOfUnique ==
    ASSUME NEW T, T \subseteq Nat, NEW m \in T, \A k \in T : m <= k
    PROVE  FirstOf(T) = m
<1>1. FirstOf(T) \in T /\ \A k \in T : FirstOf(T) <= k
  BY FirstOfLeast
<1>2. FirstOf(T) <= m /\ m <= FirstOf(T) /\ FirstOf(T) \in Nat /\ m \in Nat
  BY <1>1
<1>3. QED
  BY <1>2

----------------------------------------------------------------------------
(* Scripts and memory.                                                     *)

\* A script has at least one line.
LEMMA ScriptLines ==
    ASSUME NEW s \in Scripts
    PROVE  /\ Len(s.line) \in Nat \ {0}
           /\ s.line = [k \in 1 .. Len(s.line) |-> s.line[k]]
<1> DEFINE S == {s.line[k] : k \in DOMAIN s.line}
<1>1. s.line \in Seq(S) /\ s.line # <<>>
  BY ScriptAssumption
<1> HIDE DEF S
<1>2. QED
  BY <1>1

\* frame_alloc finds a place of three free lines if there is one.
LEMMA AllocPlace ==
    ASSUME NEW m, NEW f \in frame_alloc(m)
    PROVE  /\ f \in Nat /\ f + 2 \in Frame
           /\ \A j \in 0 .. 2 : f + j \in Frame /\ m[f + j].var = None
<1>1. f \in Frame /\ \A l \in f .. f + 2 : l \in Frame /\ m[l].var = None
  BY DEF frame_alloc, FreePlaces
<1>2. f \in Nat
  BY <1>1, StoreAssumption DEF Frame
<1>3. \A j \in 0 .. 2 : f + j \in f .. f + 2
  BY <1>2
<1>4. f + 2 \in f .. f + 2
  BY <1>2
<1>5. QED
  BY <1>1, <1>2, <1>3, <1>4

\* frame_alloc does not fail when there is a place.
LEMMA AllocSome ==
    ASSUME NEW m, NEW f \in Nat, \A l \in f .. f + 2 : l \in Frame /\ m[l].var = None
    PROVE  frame_alloc(m) # {}
<1>1. FreePlaces(m) \subseteq Nat
  BY StoreAssumption DEF FreePlaces, Frame
<1>2. f \in FreePlaces(m)
  BY DEF FreePlaces
<1>3. QED
  BY <1>1, <1>2, Least DEF frame_alloc

\* Memory n is a memory that agrees with m on the frames.
SameFrames(m, n) == n = [l \in Mem |-> n[l]] /\ \A l \in Frame : n[l] = m[l]

\* Commands change variables, never frames.
LEMMA InterpreterFrames ==
    ASSUME NEW m, m = [l \in Mem |-> m[l]], NEW c
    PROVE  SameFrames(m, interpreter(m, c))
<1>1. VarZone \subseteq Nat /\ VarZone \cap Frame = {}
  BY StoreAssumption DEF VarZone, Mem, Frame
<1>2. ASSUME NEW x, NEW v PROVE SameFrames(m, mem_set_value(m, x, v))
  <2> DEFINE known == {l \in VarZone : m[l].var = x}
             free  == {l \in VarZone : m[l].var = None}
  <2>1. known # {} => FirstOf(known) \in VarZone
    BY <1>1, FirstOfLeast
  <2>2. free # {} => FirstOf(free) \in VarZone
    BY <1>1, FirstOfLeast
  <2>3. ASSUME NEW w \in VarZone, NEW y PROVE SameFrames(m, [m EXCEPT ![w] = y])
    BY <1>1 DEF SameFrames
  <2>4. CASE known # {}
    <3>1. mem_set_value(m, x, v) = [m EXCEPT ![FirstOf(known)].value = v]
      BY <2>4 DEF mem_set_value
    <3>2. PICK w \in VarZone : w = FirstOf(known)
      BY <2>1, <2>4
    <3> DEFINE y == [m[w] EXCEPT !.value = v]
    <3>3. mem_set_value(m, x, v) = [m EXCEPT ![w] = y]
      BY <3>1, <3>2
    <3> HIDE DEF y, known, free
    <3>4. SameFrames(m, [m EXCEPT ![w] = y])
      BY <2>3
    <3>5. QED
      BY <3>3, <3>4
  <2>5. CASE known = {} /\ free # {}
    <3>1. mem_set_value(m, x, v) = [m EXCEPT ![FirstOf(free)] = [var |-> x, value |-> v]]
      BY <2>5 DEF mem_set_value
    <3>2. PICK w \in VarZone : w = FirstOf(free)
      BY <2>2, <2>5
    <3> DEFINE y == [var |-> x, value |-> v]
    <3>3. mem_set_value(m, x, v) = [m EXCEPT ![w] = y]
      BY <3>1, <3>2
    <3> HIDE DEF y, known, free
    <3>4. SameFrames(m, [m EXCEPT ![w] = y])
      BY <2>3
    <3>5. QED
      BY <3>3, <3>4
  <2>6. CASE known = {} /\ free = {}
    <3>1. mem_set_value(m, x, v) = m
      BY <2>6 DEF mem_set_value
    <3>2. QED
      BY <3>1 DEF SameFrames
  <2>7. QED
    BY <2>4, <2>5, <2>6
<1>3. SameFrames(m, mem_free_at(m, VarZone))
  BY <1>1, StoreAssumption DEF mem_free_at, Mem, Frame, SameFrames
<1>4. CASE c.op = "set"
  BY <1>2, <1>4 DEF interpreter
<1>5. CASE c.op = "resetmem"
  BY <1>3, <1>5 DEF interpreter
<1>6. CASE c.op # "set" /\ c.op # "resetmem"
  <2>1. interpreter(m, c) = m
    BY <1>6 DEF interpreter
  <2>2. QED
    BY <2>1 DEF SameFrames
<1>7. QED
  BY <1>4, <1>5, <1>6

----------------------------------------------------------------------------
(* The LRU list.                                                           *)

\* A page is put in front.
LEMMA Push ==
    ASSUME NEW S, NEW L \in Seq(S), Distinct(L), NEW x \in S, x \notin Listed(L)
    PROVE  /\ <<x>> \o L \in Seq(S) /\ Distinct(<<x>> \o L)
           /\ Listed(<<x>> \o L) = Listed(L) \cup {x}
           /\ \A a, b : Older(L, a, b) => Older(<<x>> \o L, a, b)
           /\ \A a \in Listed(L) : Older(<<x>> \o L, a, x)
<1> DEFINE M == <<x>> \o L
<1>1. /\ M \in Seq(S) /\ Len(M) = Len(L) + 1 /\ M[1] = x
      /\ \A k \in 1 .. Len(L) : M[k + 1] = L[k]
  OBVIOUS
<1>2. DOMAIN M = 1 .. Len(L) + 1 /\ DOMAIN L = 1 .. Len(L) /\ Len(L) \in Nat
  BY <1>1
<1> HIDE DEF M
<1>3. \A k \in DOMAIN M : k = 1 \/ (k - 1 \in DOMAIN L /\ M[k] = L[k - 1])
  <2> SUFFICES ASSUME NEW k \in DOMAIN M, k # 1
               PROVE  k - 1 \in DOMAIN L /\ M[k] = L[k - 1]
    OBVIOUS
  <2>1. k - 1 \in 1 .. Len(L) /\ (k - 1) + 1 = k
    BY <1>2
  <2>2. QED
    BY <2>1, <1>1, <1>2
<1>4. \A k \in DOMAIN L : k + 1 \in DOMAIN M /\ M[k + 1] = L[k]
  BY <1>1, <1>2
<1>5. 1 \in DOMAIN M
  BY <1>2
<1>6. Listed(M) = Listed(L) \cup {x}
  BY <1>1, <1>3, <1>4, <1>5 DEF Listed
<1>7. Distinct(M)
  <2> SUFFICES ASSUME NEW k1 \in DOMAIN M, NEW k2 \in DOMAIN M, k1 < k2 PROVE M[k1] # M[k2]
    BY <1>2 DEF Distinct
  <2>1. k2 # 1 /\ k2 - 1 \in DOMAIN L /\ M[k2] = L[k2 - 1]
    BY <1>2, <1>3
  <2>2. CASE k1 = 1
    BY <2>1, <2>2, <1>1 DEF Listed
  <2>3. CASE k1 # 1
    <3>1. k1 - 1 \in DOMAIN L /\ M[k1] = L[k1 - 1] /\ k1 - 1 # k2 - 1
      BY <2>3, <1>2, <1>3
    <3>2. QED
      BY <2>1, <3>1 DEF Distinct
  <2>4. QED
    BY <2>2, <2>3
<1>8. ASSUME NEW a, NEW b, Older(L, a, b) PROVE Older(M, a, b)
  <2>1. PICK k1 \in DOMAIN L, k2 \in DOMAIN L : k2 < k1 /\ L[k1] = a /\ L[k2] = b
    BY <1>8 DEF Older
  <2>2. k2 + 1 < k1 + 1
    BY <2>1, <1>2
  <2>3. QED
    BY <2>1, <2>2, <1>4 DEF Older
<1>9. ASSUME NEW a \in Listed(L) PROVE Older(M, a, x)
  <2>1. PICK k \in DOMAIN L : L[k] = a
    BY <1>9 DEF Listed
  <2>2. 1 < k + 1
    BY <2>1, <1>2
  <2>3. QED
    BY <2>1, <2>2, <1>1, <1>4, <1>5 DEF Older
<1>10. QED
  BY <1>1, <1>6, <1>7, <1>8, <1>9 DEF M

\* A page is taken out.
LEMMA Take ==
    ASSUME NEW S, NEW L \in Seq(S), Distinct(L), NEW k \in DOMAIN L
    PROVE  /\ Without(L, k) \in Seq(S) /\ Distinct(Without(L, k))
           /\ Listed(Without(L, k)) = Listed(L) \ {L[k]}
           /\ \A a, b : a # L[k] /\ b # L[k] /\ Older(L, a, b) => Older(Without(L, k), a, b)
<1> DEFINE M == Without(L, k)
           up(j) == IF j < k THEN j ELSE j + 1
           down(j) == IF j < k THEN j ELSE j - 1
<1>0. DOMAIN L = 1 .. Len(L) /\ Len(L) \in Nat /\ k \in 1 .. Len(L)
  OBVIOUS
<1>1. /\ M \in Seq(S) /\ Len(M) = Len(L) - 1
      /\ \A j \in 1 .. Len(L) - 1 : M[j] = L[up(j)]
  <2> DEFINE A == SubSeq(L, 1, k - 1)
             B == SubSeq(L, k + 1, Len(L))
  <2>1. A \in Seq(S) /\ Len(A) = k - 1 /\ \A j \in 1 .. k - 1 : A[j] = L[j]
    BY <1>0
  <2>2. B \in Seq(S) /\ Len(B) = Len(L) - k /\ \A j \in 1 .. Len(L) - k : B[j] = L[k + j]
    BY <1>0
  <2>3. M = A \o B
    BY DEF Without
  <2> HIDE DEF A, B, M
  <2>4. M \in Seq(S) /\ Len(M) = Len(L) - 1
    <3>1. M \in Seq(S) /\ Len(M) = Len(A) + Len(B)
      <4>1. A \in Seq(S) /\ B \in Seq(S)
        BY <2>1, <2>2
      <4>2. A \o B \in Seq(S) /\ Len(A \o B) = Len(A) + Len(B)
        BY <4>1
      <4>3. QED
        BY <4>2, <2>3
    <3>2. QED
      BY <3>1, <2>1, <2>2, <1>0
  <2>5. ASSUME NEW j \in 1 .. Len(L) - 1 PROVE M[j] = L[up(j)]
    <3>1. CASE j < k
      BY <2>1, <2>2, <2>3, <3>1, <1>0
    <3>2. CASE j >= k
      <4>1. M[j] = B[j - (k - 1)] /\ j - (k - 1) \in 1 .. Len(L) - k
        <5>1. j - (k - 1) \in 1 .. Len(L) - k
          BY <3>2, <1>0
        <5>2. A \in Seq(S) /\ B \in Seq(S) /\ Len(A) = k - 1
          BY <2>1, <2>2
        <5>3. j \in 1 .. Len(A) + Len(B) /\ j > Len(A)
          BY <2>2, <3>2, <5>2, <1>0
        <5>4. (A \o B)[j] = B[j - Len(A)]
          BY <5>2, <5>3
        <5>5. QED
          BY <2>3, <5>1, <5>2, <5>4
      <4>2. k + (j - (k - 1)) = j + 1 /\ up(j) = j + 1
        BY <1>0, <3>2
      <4> DEFINE i == j - (k - 1)
      <4> HIDE DEF i, up
      <4>3. B[i] = L[k + i]
        BY <4>1, <2>2 DEF i
      <4>4. QED
        BY <4>1, <4>2, <4>3 DEF i
    <3>3. QED
      BY <3>1, <3>2, <1>0
  <2>6. QED
    BY <2>4, <2>5
<1> HIDE DEF M
<1>2. DOMAIN M = 1 .. Len(L) - 1
  BY <1>1
<1>3. \A j \in DOMAIN M : up(j) \in DOMAIN L /\ up(j) # k /\ M[j] = L[up(j)]
  BY <1>0, <1>1, <1>2
<1>4. \A j \in DOMAIN L : j # k => down(j) \in DOMAIN M /\ M[down(j)] = L[j]
  <2> SUFFICES ASSUME NEW j \in DOMAIN L, j # k
               PROVE  down(j) \in DOMAIN M /\ M[down(j)] = L[j]
    OBVIOUS
  <2>1. down(j) \in 1 .. Len(L) - 1 /\ up(down(j)) = j
    BY <1>0
  <2>2. QED
    BY <2>1, <1>1, <1>2
<1>5. Distinct(M)
  <2> SUFFICES ASSUME NEW k1 \in DOMAIN M, NEW k2 \in DOMAIN M, k1 # k2 PROVE M[k1] # M[k2]
    BY DEF Distinct
  <2>1. up(k1) # up(k2)
    BY <1>0, <1>2
  <2>2. QED
    BY <2>1, <1>3 DEF Distinct
<1>6. Listed(M) = Listed(L) \ {L[k]}
  <2>1. \A j \in DOMAIN M : M[j] \in Listed(L) \ {L[k]}
    BY <1>3 DEF Listed, Distinct
  <2>2. \A j \in DOMAIN L : L[j] # L[k] => L[j] \in Listed(M)
    <3> SUFFICES ASSUME NEW j \in DOMAIN L, L[j] # L[k] PROVE L[j] \in Listed(M)
      OBVIOUS
    <3>1. down(j) \in DOMAIN M /\ M[down(j)] = L[j]
      BY <1>4
    <3> HIDE DEF down
    <3>2. QED
      BY <3>1 DEF Listed
  <2>3. QED
    BY <2>1, <2>2 DEF Listed
<1>7. ASSUME NEW a, NEW b, a # L[k], b # L[k], Older(L, a, b) PROVE Older(M, a, b)
  <2>1. PICK k1 \in DOMAIN L, k2 \in DOMAIN L : k2 < k1 /\ L[k1] = a /\ L[k2] = b
    BY <1>7 DEF Older
  <2>2. k1 # k /\ k2 # k
    BY <2>1, <1>7
  <2>3. down(k2) < down(k1)
    BY <2>1, <2>2, <1>0
  <2>4. /\ down(k1) \in DOMAIN M /\ down(k2) \in DOMAIN M
        /\ M[down(k1)] = a /\ M[down(k2)] = b
    BY <2>1, <2>2, <1>4
  <2> HIDE DEF down
  <2>5. QED
    BY <2>3, <2>4 DEF Older
<1>8. QED
  BY <1>1, <1>5, <1>6, <1>7 DEF M

\* Touch: a page that is listed moves to the front.
LEMMA MoveToFront ==
    ASSUME NEW S, NEW L \in Seq(S), Distinct(L), NEW k \in DOMAIN L
    PROVE  LET M == <<L[k]>> \o Without(L, k)
           IN  /\ M \in Seq(S) /\ Distinct(M) /\ Listed(M) = Listed(L)
               /\ M # <<>> /\ M[1] = L[k]
               /\ \A a, b : a # L[k] /\ Older(L, a, b) => Older(M, a, b)
               /\ \A a \in Listed(L) : a # L[k] => Older(M, a, L[k])
<1> DEFINE N == Without(L, k)
           M == <<L[k]>> \o N
<1>1. /\ N \in Seq(S) /\ Distinct(N) /\ Listed(N) = Listed(L) \ {L[k]}
      /\ \A a, b : a # L[k] /\ b # L[k] /\ Older(L, a, b) => Older(N, a, b)
  BY Take
<1>2. L[k] \in S /\ L[k] \in Listed(L)
  BY DEF Listed
<1> HIDE DEF N
<1>3. /\ M \in Seq(S) /\ Distinct(M) /\ Listed(M) = Listed(N) \cup {L[k]}
      /\ \A a, b : Older(N, a, b) => Older(M, a, b)
      /\ \A a \in Listed(N) : Older(M, a, L[k])
  BY <1>1, <1>2, Push
<1>4. M # <<>> /\ M[1] = L[k]
  BY <1>1
<1> HIDE DEF M
<1>5. \A a, b : Older(L, a, b) => a \in Listed(L)
  BY DEF Older, Listed
<1>6. QED
  BY <1>1, <1>2, <1>3, <1>4, <1>5 DEF M, N

\* The last page is older than all others.
LEMMA LastIsOldest ==
    ASSUME NEW S, NEW L \in Seq(S), Distinct(L), L # <<>>, NEW a, NEW b, Older(L, a, b)
    PROVE  b # L[Len(L)]
  BY DEF Older, Distinct

----------------------------------------------------------------------------
(* A process.                                                              *)

\* The numbers of lines and pages of a process, and the pages it has.
LEMMA Numbers ==
    ASSUME NEW P, WellFormed(P)
    PROVE  /\ Total(P) \in Nat \ {0} /\ Executed(P) \in 0 .. Total(P) /\ P.size \in Nat
           /\ P.size = Total(P) - Executed(P)
           /\ Ahead(P) \in Nat /\ Ahead(P) >= 2 /\ Executed(P) <= 3 * Ahead(P)
           /\ Pages(P) \subseteq Nat
           /\ \A i \in Nat : i \in Pages(P) <=> 3 * i < Total(P)
<1>1. Total(P) \in Nat \ {0}
  BY ScriptLines DEF WellFormed, Total
<1>2. /\ Executed(P) \in 0 .. Total(P) /\ P.size \in Nat /\ P.size = Total(P) - Executed(P)
      /\ Ahead(P) \in Nat /\ Ahead(P) >= 2 /\ Executed(P) <= 3 * Ahead(P)
  BY <1>1 DEF WellFormed, Executed
<1>3. Pages(P) = 0 .. PAGE_table_size(Total(P)) - 1
  BY DEF WellFormed, Pages
<1>4. Pages(P) \subseteq Nat /\ \A i \in Nat : i \in Pages(P) <=> 3 * i < Total(P)
  BY <1>1, <1>3 DEF PAGE_table_size
<1>5. QED
  BY <1>1, <1>2, <1>4

\* The page RR runs and the line in it are those of the next line.
LEMMA Current ==
    ASSUME NEW P, WellFormed(P), Alive(P)
    PROVE  /\ CurrentPage(P) \in Pages(P) /\ P.program_counter[CurrentPage(P)] \in 0 .. 2
           /\ Executed(P) = 3 * CurrentPage(P) + P.program_counter[CurrentPage(P)]
<1> DEFINE e == Executed(P)
           i == e \div 3
           S == {k \in Pages(P) : P.program_counter[k] # 3}
<1>1. e \in Nat /\ e < Total(P) /\ Total(P) \in Nat
  BY Numbers DEF Alive
<1>2. i \in Nat /\ e = 3 * i + (e % 3) /\ e % 3 \in 0 .. 2
  BY <1>1
<1>3. i \in Pages(P)
  <2>1. 3 * i < Total(P)
    BY <1>1, <1>2
  <2>2. QED
    BY <2>1, <1>2, Numbers
<1> HIDE DEF i
<1>4. \A k \in Pages(P) : P.program_counter[k] = Behind(e - 3 * k)
  BY DEF WellFormed
<1>5. P.program_counter[i] = e % 3
  BY <1>2, <1>3, <1>4 DEF Behind
<1>6. i \in S
  BY <1>2, <1>3, <1>5
<1>7. \A k \in S : i <= k
  BY <1>1, <1>2, <1>4, Numbers DEF Behind
<1>8. FirstOf(S) = i
  BY <1>6, <1>7, Numbers, FirstOfUnique
<1>9. CurrentPage(P) = i
  BY <1>8 DEF CurrentPage
<1>10. QED
  BY <1>2, <1>3, <1>5, <1>9

\* A process executes a line.
LEMMA AdvancedProc ==
    ASSUME NEW P, WellFormed(P), Alive(P), Executed(P) < 3 * Ahead(P)
    PROVE  LET Q == Advanced(P)
           IN  /\ WellFormed(Q)
               /\ Executed(Q) = Executed(P) + 1 /\ Ahead(Q) = Ahead(P) /\ Q.size = P.size - 1
               /\ Q.page_table = P.page_table /\ Q.source_file = P.source_file
               /\ \A k \in Pages(P) : P.program_counter[k] <= Q.program_counter[k]
<1> DEFINE Q == Advanced(P)
           i == CurrentPage(P)
           j == P.program_counter[i]
           e == Executed(P)
<1>1. i \in Pages(P) /\ j \in 0 .. 2 /\ e = 3 * i + j /\ i \in Nat
  BY Current, Numbers
<1>2. /\ e \in 0 .. Total(P) /\ P.size \in Nat \ {0} /\ P.size = Total(P) - e
      /\ Total(P) \in Nat /\ Ahead(P) \in Nat
  BY Numbers DEF Alive
<1>3. /\ Q.page_table = P.page_table /\ Q.source_file = P.source_file /\ Q.pos = P.pos
      /\ Q.size = P.size - 1
      /\ Q.program_counter = [P.program_counter EXCEPT ![i] = j + 1]
      /\ IsPCB(Q)
  <2> DEFINE R == [P EXCEPT !.program_counter[i] = @ + 1]
  <2>1. /\ IsPCB(R) /\ R.program_counter = [P.program_counter EXCEPT ![i] = j + 1]
        /\ R.size = P.size /\ R.page_table = P.page_table
        /\ R.source_file = P.source_file /\ R.pos = P.pos
    BY DEF WellFormed, IsPCB
  <2>2. Q = [R EXCEPT !.size = P.size - 1]
    BY DEF Advanced
  <2> HIDE DEF R, Q
  <2>3. QED
    BY <2>1, <2>2 DEF IsPCB
<1> HIDE DEF Q
<1>4. Total(Q) = Total(P) /\ Pages(Q) = Pages(P) /\ Ahead(Q) = Ahead(P)
  BY <1>3 DEF Total, Pages, Ahead
<1>5. Executed(Q) = e + 1
  BY <1>2, <1>3, <1>4 DEF Executed
<1>6. P.program_counter = [k \in Pages(P) |-> Behind(e - 3 * k)]
  BY DEF WellFormed
<1> HIDE DEF i, j, e
<1>7. /\ Q.program_counter = [k \in Pages(P) |-> Behind((e + 1) - 3 * k)]
      /\ \A k \in Pages(P) : P.program_counter[k] <= Q.program_counter[k]
  <2>1. \A k \in Pages(P) : k \in Nat
    BY Numbers
  <2>2. ASSUME NEW k \in Pages(P), k # i PROVE Behind((e + 1) - 3 * k) = Behind(e - 3 * k)
    BY <2>1, <2>2, <1>1 DEF Behind
  <2>3. Behind((e + 1) - 3 * i) = j + 1 /\ Behind(e - 3 * i) = j
    BY <1>1 DEF Behind
  <2>4. \A k \in Pages(P) : Behind(e - 3 * k) \in Int
    BY <2>1, <1>2 DEF Behind
  <2>5. Q.program_counter = [k \in Pages(P) |-> Behind((e + 1) - 3 * k)]
    <3> DEFINE old(k) == Behind(e - 3 * k)
               new(k) == Behind((e + 1) - 3 * k)
    <3>1. P.program_counter = [k \in Pages(P) |-> old(k)]
      BY <1>6
    <3>2. new(i) = j + 1 /\ \A k \in Pages(P) : k # i => new(k) = old(k)
      BY <2>2, <2>3
    <3> HIDE DEF old, new
    <3>3. Q.program_counter = [k \in Pages(P) |-> new(k)]
      BY <1>1, <1>3, <3>1, <3>2
    <3>4. QED
      BY <3>3 DEF new
  <2>6. \A k \in Pages(P) : P.program_counter[k] <= Q.program_counter[k]
    <3>1. ASSUME NEW k \in Pages(P) PROVE Behind(e - 3 * k) <= Behind((e + 1) - 3 * k)
      <4>1. CASE k = i
        BY <4>1, <1>1, <2>3
      <4>2. CASE k # i
        BY <4>2, <2>2, <2>4
      <4>3. QED
        BY <4>1, <4>2
    <3>2. QED
      BY <1>6, <2>5, <3>1
  <2>7. QED
    BY <2>5, <2>6
<1>8. WellFormed(Q)
  BY <1>2, <1>3, <1>4, <1>5, <1>7 DEF WellFormed, Alive, e
<1>9. QED
  BY <1>3, <1>4, <1>5, <1>7, <1>8 DEF Q, e

\* A page of a process whose first line is the next of the file.
LoadedPage(P, i, f) == [index |-> [j \in 0 .. 2 |-> f + j],
                        valid |-> [j \in 0 .. 2 |-> 3 * i + j < Total(P)]]

\* The page that load_PAGE makes of the next lines of the file.
FetchedPage(P, f) == [index |-> [j \in 0 .. 2 |-> f + j],
                      valid |-> [j \in 0 .. 2 |-> Fetched(P, j)]]

\* What load_PAGE changes in a process.
LEMMA LoadedFields ==
    ASSUME NEW P, IsPCB(P), NEW i, NEW f
    PROVE  LET Q == LoadedPCB(P, i, f)
           IN  /\ IsPCB(Q) /\ Q.size = P.size /\ Q.source_file = P.source_file
               /\ Q.program_counter = P.program_counter
               /\ Q.page_table = [P.page_table EXCEPT ![i] = FetchedPage(P, f)]
               /\ Q.pos = IF Fetched(P, 2) THEN P.pos + 3 ELSE Total(P)
<1> DEFINE Q == LoadedPCB(P, i, f)
           R == [P EXCEPT !.page_table[i] = FetchedPage(P, f)]
<1>1. Q = [R EXCEPT !.pos = IF Fetched(P, 2) THEN P.pos + 3 ELSE Total(P)]
  BY DEF LoadedPCB, Total, FetchedPage
<1> HIDE DEF Q
<1>2. /\ IsPCB(R) /\ R.page_table = [P.page_table EXCEPT ![i] = FetchedPage(P, f)]
      /\ R.size = P.size /\ R.program_counter = P.program_counter
      /\ R.source_file = P.source_file /\ R.pos = P.pos
  BY DEF IsPCB
<1> HIDE DEF R
<1>3. /\ IsPCB(Q) /\ Q.page_table = [P.page_table EXCEPT ![i] = FetchedPage(P, f)]
      /\ Q.size = P.size /\ Q.program_counter = P.program_counter
      /\ Q.source_file = P.source_file
      /\ Q.pos = IF Fetched(P, 2) THEN P.pos + 3 ELSE Total(P)
  BY <1>1, <1>2 DEF IsPCB
<1>4. QED
  BY <1>3 DEF Q

\* A page whose first line is the next of the file.
LEMMA NextLines ==
    ASSUME NEW P, NEW i, NEW f, \A j \in 0 .. 2 : Fetched(P, j) = (3 * i + j < Total(P))
    PROVE  FetchedPage(P, f) = LoadedPage(P, i, f)
<1>1. [j \in 0 .. 2 |-> Fetched(P, j)] = [j \in 0 .. 2 |-> 3 * i + j < Total(P)]
  OBVIOUS
<1>2. QED
  BY <1>1 DEF FetchedPage, LoadedPage

\* A process gets the page it faulted on.
LEMMA LoadedProc ==
    ASSUME NEW P, WellFormed(P), Alive(P), AtFault(P), NEW f \in Nat, f + 2 \in Frame
    PROVE  LET i == Ahead(P)
               Q == LoadedPCB(P, i, f)
           IN  /\ WellFormed(Q) /\ i \in Pages(P)
               /\ Executed(Q) = Executed(P) /\ Ahead(Q) = i + 1
               /\ Q.size = P.size /\ Q.source_file = P.source_file
               /\ Q.program_counter = P.program_counter
               /\ Q.page_table = [P.page_table EXCEPT ![i] = LoadedPage(P, i, f)]
               /\ \A j \in 0 .. 2 : Fetched(P, j) => P.pos + j + 1 = 3 * i + j + 1
               /\ \A j \in 0 .. 2 : Fetched(P, j) <=> 3 * i + j < Total(P)
<1> DEFINE i == Ahead(P)
           Q == LoadedPCB(P, i, f)
<1>1. /\ Executed(P) = 3 * i /\ i \in Nat /\ i >= 2 /\ Total(P) \in Nat
      /\ Executed(P) < Total(P)
  BY Numbers DEF AtFault, Alive
<1>2. i \in Pages(P)
  BY <1>1, Numbers
<1>3. P.pos = 3 * i
  BY <1>1 DEF WellFormed
<1>4. \A j \in 0 .. 2 : Fetched(P, j) = (3 * i + j < Total(P))
  BY <1>3 DEF Fetched, Total
<1>5. /\ Q.size = P.size /\ Q.source_file = P.source_file
      /\ Q.program_counter = P.program_counter
      /\ Q.page_table = [P.page_table EXCEPT ![i] = FetchedPage(P, f)]
      /\ Q.pos = IF Fetched(P, 2) THEN P.pos + 3 ELSE Total(P)
      /\ IsPCB(Q)
  <2>1. IsPCB(P)
    BY DEF WellFormed
  <2>2. QED
    BY <2>1, LoadedFields
<1> HIDE DEF Q
<1>7. Q.page_table = [P.page_table EXCEPT ![i] = LoadedPage(P, i, f)]
  <2>1. FetchedPage(P, f) = LoadedPage(P, i, f)
    BY <1>4, NextLines
  <2>2. QED
    BY <1>5, <2>1
<1>8. Total(Q) = Total(P) /\ Executed(Q) = Executed(P)
  BY <1>5 DEF Total, Executed
<1>9. Pages(Q) = Pages(P)
  BY <1>2, <1>7 DEF Pages, WellFormed
<1>10. Q.pos = (IF 3 * (i + 1) <= Total(P) THEN 3 * (i + 1) ELSE Total(P))
  <2>1. Q.pos = IF 3 * i + 2 < Total(P) THEN 3 * i + 3 ELSE Total(P)
    BY <1>3, <1>5 DEF Fetched, Total
  <2>2. QED
    BY <2>1, <1>1
<1>11. Ahead(Q) = i + 1
  <2>1. Q.pos > 6 /\ Q.pos \in Nat
    BY <1>1, <1>10
  <2>2. (Q.pos + 2) \div 3 = i + 1
    BY <1>1, <1>10
  <2>3. QED
    BY <2>1, <2>2 DEF Ahead
<1>12. LoadedPage(P, i, f) \in Page
  <2>1. \A j \in 0 .. 2 : f + j \in Frame
    BY StoreAssumption DEF Frame
  <2>2. QED
    BY <2>1 DEF LoadedPage, Page
<1>13. Q.page_table \in [0 .. PAGE_table_size(Total(P)) - 1 -> Page]
  BY <1>2, <1>7, <1>12 DEF WellFormed, Pages
<1>14. WellFormed(Q)
  BY <1>1, <1>5, <1>8, <1>9, <1>10, <1>11, <1>13 DEF WellFormed, Alive
<1>15. QED
  BY <1>2, <1>3, <1>4, <1>5, <1>7, <1>8, <1>11, <1>14 DEF Q

NoPage == [index |-> [j \in 0 .. 2 |-> 0], valid |-> [j \in 0 .. 2 |-> FALSE]]

\* A process loses a page.
LEMMA EvictedProc ==
    ASSUME NEW P, WellFormed(P), NEW i \in Pages(P), 0 \in Frame
    PROVE  LET Q == EvictedPCB(P, i)
           IN  /\ WellFormed(Q)
               /\ Executed(Q) = Executed(P) /\ Ahead(Q) = Ahead(P) /\ Q.size = P.size
               /\ Q.source_file = P.source_file /\ Q.program_counter = P.program_counter
               /\ Q.pos = P.pos
               /\ Q.page_table = [P.page_table EXCEPT ![i] = NoPage]
<1> DEFINE Q == EvictedPCB(P, i)
<1>1. /\ Q.size = P.size /\ Q.source_file = P.source_file /\ Q.pos = P.pos
      /\ Q.program_counter = P.program_counter
      /\ Q.page_table = [P.page_table EXCEPT ![i] = NoPage]
      /\ IsPCB(Q)
  <2>1. Q = [P EXCEPT !.page_table[i] = NoPage]
    BY DEF EvictedPCB, NoPage
  <2> HIDE DEF Q
  <2>2. QED
    BY <2>1 DEF WellFormed, IsPCB
<1> HIDE DEF Q
<1>2. NoPage \in Page
  BY DEF NoPage, Page
<1>3. Total(Q) = Total(P) /\ Executed(Q) = Executed(P) /\ Ahead(Q) = Ahead(P)
  BY <1>1 DEF Total, Executed, Ahead
<1>4. Pages(Q) = Pages(P) /\ Q.page_table \in [0 .. PAGE_table_size(Total(P)) - 1 -> Page]
  BY <1>1, <1>2 DEF Pages, WellFormed
<1>5. WellFormed(Q)
  BY <1>1, <1>3, <1>4 DEF WellFormed, Alive
<1>6. QED
  BY <1>1, <1>3, <1>5 DEF Q

\* A function is changed at one place.
LEMMA Changed ==
    ASSUME NEW D, NEW S, NEW T \in [D -> S], NEW k \in D, NEW y \in S
    PROVE  LET U == [T EXCEPT ![k] = y]
           IN  U \in [D -> S] /\ U[k] = y /\ \A i \in D : i # k => U[i] = T[i]
  OBVIOUS

\* The pages of PAGE_table_size hold all lines.
LEMMA TableSize ==
    ASSUME NEW t \in Nat \ {0}
    PROVE  LET n == PAGE_table_size(t)
           IN  n \in Nat \ {0} /\ (n = 1 => t <= 3) /\ (n # 1 => t > 3) /\ 3 * n >= t
  BY DEF PAGE_table_size

\* new_proc gives a process its first page, and its second if it has one.
LEMMA NewProc ==
    ASSUME Counted, NEW s \in Scripts, NEW f \in Nat, f + 2 \in Frame,
           NEW g \in Nat, g + 2 \in Frame
    PROVE  LET P0 == NewPCB(s)
               P  == LoadedPCB(P0, 0, f)
               Q  == LoadedPCB(P, 1, g)
               R  == IF Pages(P) = {0} THEN P ELSE Q
           IN  /\ WellFormed(R) /\ Alive(R) /\ Executed(R) = 0 /\ Ahead(R) = 2
               /\ R.source_file = s /\ P.source_file = s /\ P0.source_file = s
               /\ 0 \in Pages(R) /\ R.page_table[0] = LoadedPage(R, 0, f)
               /\ Pages(P) # {0} => 1 \in Pages(R) /\ R.page_table[1] = LoadedPage(R, 1, g)
               /\ \A i \in Pages(R) :
                    i # 0 /\ (Pages(P) = {0} \/ i # 1) => R.page_table[i] = PAGE_init
               /\ P0.pos = 0 /\ \A j \in 0 .. 2 : Fetched(P0, j) <=> j < Len(s.line)
               /\ Pages(P) # {0} =>
                    P.pos = 3 /\ \A j \in 0 .. 2 : Fetched(P, j) <=> 3 + j < Len(s.line)
<1> DEFINE P0 == NewPCB(s)
           P  == LoadedPCB(P0, 0, f)
           Q  == LoadedPCB(P, 1, g)
           t  == Len(s.line)
           n  == PAGE_table_size(t)
<1>1. t \in Nat \ {0} /\ count_lines(s) = t
  BY ScriptLines DEF Counted
<1>2. n \in Nat \ {0} /\ (n = 1 => t <= 3) /\ (n # 1 => t > 3) /\ 3 * n >= t
  BY <1>1, TableSize
<1>3. /\ IsPCB(P0) /\ P0.size = t /\ P0.program_counter = [i \in 0 .. n - 1 |-> 0]
      /\ P0.page_table = [i \in 0 .. n - 1 |-> PAGE_init] /\ P0.source_file = s /\ P0.pos = 0
  BY <1>1 DEF NewPCB, IsPCB
<1> HIDE DEF P0, n
<1>4. Total(P0) = t /\ \A j \in 0 .. 2 : Fetched(P0, j) = (j < t)
  BY <1>1, <1>3 DEF Fetched, Total
<1>5. /\ IsPCB(P) /\ P.size = t /\ P.source_file = s
      /\ P.program_counter = P0.program_counter
      /\ P.page_table = [P0.page_table EXCEPT ![0] = FetchedPage(P0, f)]
      /\ P.pos = IF Fetched(P0, 2) THEN P0.pos + 3 ELSE Total(P0)
  <2>1. IsPCB(P0)
    BY <1>3
  <2>2. /\ IsPCB(P) /\ P.size = P0.size /\ P.source_file = P0.source_file
        /\ P.program_counter = P0.program_counter
        /\ P.page_table = [P0.page_table EXCEPT ![0] = FetchedPage(P0, f)]
        /\ P.pos = IF Fetched(P0, 2) THEN P0.pos + 3 ELSE Total(P0)
    BY <2>1, LoadedFields
  <2> HIDE DEF P
  <2>3. QED
    BY <2>2, <1>3
<1> DEFINE page(i, h) == [index |-> [j \in 0 .. 2 |-> h + j],
                          valid |-> [j \in 0 .. 2 |-> 3 * i + j < t]]
<1> HIDE DEF P
<1>6. FetchedPage(P0, f) = LoadedPage(P0, 0, f) /\ LoadedPage(P0, 0, f) = page(0, f)
  <2>1. \A j \in 0 .. 2 : Fetched(P0, j) = (3 * 0 + j < Total(P0))
    BY <1>4, <1>1
  <2>2. QED
    BY <2>1, <1>4, NextLines DEF LoadedPage
<1>7. P.page_table = [P0.page_table EXCEPT ![0] = page(0, f)]
  BY <1>5, <1>6
<1>8. P.pos = IF t > 2 THEN 3 ELSE t
  <2>1. P.pos = IF 0 + 2 < t THEN 0 + 3 ELSE t
    BY <1>3, <1>4, <1>5 DEF Fetched
  <2>2. QED
    BY <2>1, <1>1
<1>9. Pages(P) = 0 .. n - 1 /\ 0 \in 0 .. n - 1
  BY <1>2, <1>3, <1>7 DEF Pages
<1>10. Pages(P) = {0} <=> n = 1
  <2>1. n # 1 => 1 \in 0 .. n - 1
    BY <1>2
  <2>2. n = 1 => 0 .. n - 1 = {0}
    OBVIOUS
  <2>3. QED
    BY <2>1, <2>2, <1>9
<1>11. /\ IsPCB(Q) /\ Q.size = t /\ Q.source_file = s
       /\ Q.program_counter = P0.program_counter
       /\ Q.page_table = [P.page_table EXCEPT ![1] = FetchedPage(P, g)]
       /\ Q.pos = IF Fetched(P, 2) THEN P.pos + 3 ELSE Total(P)
  <2>1. IsPCB(P)
    BY <1>5
  <2>2. /\ IsPCB(Q) /\ Q.size = P.size /\ Q.source_file = P.source_file
        /\ Q.program_counter = P.program_counter
        /\ Q.page_table = [P.page_table EXCEPT ![1] = FetchedPage(P, g)]
        /\ Q.pos = IF Fetched(P, 2) THEN P.pos + 3 ELSE Total(P)
    BY <2>1, LoadedFields
  <2> HIDE DEF Q
  <2>3. QED
    BY <2>2, <1>5
<1> HIDE DEF Q
<1>12. /\ Total(P) = t
       /\ n # 1 => P.pos = 3 /\ \A j \in 0 .. 2 : Fetched(P, j) = (3 + j < t)
  <2>1. Total(P) = t
    BY <1>5 DEF Total
  <2>2. n # 1 => P.pos = 3
    BY <1>1, <1>2, <1>8
  <2>3. QED
    BY <1>5, <2>1, <2>2 DEF Fetched
<1>13. n # 1 => Q.page_table = [P.page_table EXCEPT ![1] = page(1, g)]
  <2> SUFFICES ASSUME n # 1 PROVE Q.page_table = [P.page_table EXCEPT ![1] = page(1, g)]
    OBVIOUS
  <2>1. \A j \in 0 .. 2 : Fetched(P, j) = (3 * 1 + j < Total(P))
    BY <1>12, <1>1
  <2>2. FetchedPage(P, g) = LoadedPage(P, 1, g) /\ LoadedPage(P, 1, g) = page(1, g)
    BY <2>1, <1>12, NextLines DEF LoadedPage
  <2>3. QED
    BY <1>11, <2>2
<1>14. n # 1 => Q.pos = IF t > 5 THEN 6 ELSE t
  <2> SUFFICES ASSUME n # 1 PROVE Q.pos = IF t > 5 THEN 6 ELSE t
    OBVIOUS
  <2>1. Q.pos = IF 3 + 2 < t THEN 3 + 3 ELSE t
    BY <1>5, <1>11, <1>12 DEF Fetched
  <2>2. QED
    BY <2>1, <1>1
<1> DEFINE R == IF Pages(P) = {0} THEN P ELSE Q
<1>15. /\ IsPCB(R) /\ R.size = t /\ R.source_file = s /\ R.program_counter = P0.program_counter
       /\ R.pos = IF t > 5 THEN 6 ELSE t
  BY <1>1, <1>2, <1>5, <1>8, <1>10, <1>11, <1>14
<1>16. \A i, h : h \in Nat /\ h + 2 \in Frame => page(i, h) \in Page
  BY StoreAssumption DEF Page, Frame
<1>17. PAGE_init \in Page
  BY DEF PAGE_init, Page
<1>18. /\ R.page_table \in [0 .. n - 1 -> Page] /\ R.page_table[0] = page(0, f)
       /\ n # 1 => R.page_table[1] = page(1, g)
       /\ \A i \in 0 .. n - 1 : i # 0 /\ (n = 1 \/ i # 1) => R.page_table[i] = PAGE_init
  <2> HIDE DEF page
  <2>1. page(0, f) \in Page /\ page(1, g) \in Page
    BY <1>16
  <2>2. /\ P.page_table \in [0 .. n - 1 -> Page] /\ P.page_table[0] = page(0, f)
        /\ \A i \in 0 .. n - 1 : i # 0 => P.page_table[i] = PAGE_init
    BY <1>3, <1>7, <1>9, <1>17, <2>1
  <2>3. n # 1 => 1 \in 0 .. n - 1
    BY <1>2
  <2>4. CASE n = 1
    BY <2>2, <2>4, <1>10
  <2>5. CASE n # 1
    <3>1. R = Q
      BY <2>5, <1>10
    <3>2. Q.page_table = [P.page_table EXCEPT ![1] = page(1, g)]
      BY <2>5, <1>13
    <3> HIDE DEF R
    <3>3. /\ Q.page_table \in [0 .. n - 1 -> Page] /\ Q.page_table[1] = page(1, g)
          /\ \A i \in 0 .. n - 1 : i # 1 => Q.page_table[i] = P.page_table[i]
      <4> DEFINE D == 0 .. n - 1
                 T == P.page_table
                 y == page(1, g)
                 U == [T EXCEPT ![1] = y]
      <4>1. T \in [D -> Page] /\ 1 \in D /\ y \in Page
        BY <2>1, <2>2, <2>3, <2>5
      <4>2. Q.page_table = U
        BY <3>2
      <4> HIDE DEF D, T, y
      <4>3. U \in [D -> Page] /\ U[1] = y /\ \A i \in D : i # 1 => U[i] = T[i]
        BY <4>1, Changed
      <4>4. QED
        BY <4>2, <4>3 DEF D, T, y
    <3>4. QED
      BY <2>2, <2>5, <1>9, <3>1, <3>3
  <2>6. QED
    BY <2>4, <2>5
<1> HIDE DEF R
<1>19. Total(R) = t /\ Executed(R) = 0 /\ Ahead(R) = 2 /\ Alive(R) /\ Pages(R) = 0 .. n - 1
  <2>1. Total(R) = t
    BY <1>15 DEF Total
  <2>2. Executed(R) = 0 /\ Alive(R)
    BY <2>1, <1>1, <1>15 DEF Executed, Alive
  <2>3. Ahead(R) = 2
    <3>1. R.pos <= 6
      BY <1>1, <1>15
    <3>2. QED
      BY <3>1 DEF Ahead
  <2>4. Pages(R) = 0 .. n - 1
    BY <1>18 DEF Pages
  <2>5. QED
    BY <2>1, <2>2, <2>3, <2>4
<1>20. R.program_counter = [i \in Pages(R) |-> Behind(Executed(R) - 3 * i)]
  <2>1. \A i \in 0 .. n - 1 : Behind(0 - 3 * i) = 0
    BY <1>2 DEF Behind
  <2>2. QED
    BY <2>1, <1>3, <1>15, <1>19
<1>21. WellFormed(R)
  BY <1>1, <1>15, <1>18, <1>19, <1>20 DEF WellFormed, n
<1>22. LoadedPage(R, 0, f) = page(0, f) /\ LoadedPage(R, 1, g) = page(1, g)
  BY <1>19 DEF LoadedPage
<1>23. n # 1 => 1 \in 0 .. n - 1
  BY <1>2
<1>24. QED
  BY <1>3, <1>4, <1>5, <1>9, <1>10, <1>12, <1>15, <1>18, <1>19, <1>21, <1>22, <1>23
  DEF R, P, Q, P0

----------------------------------------------------------------------------
(* Frames.                                                                 *)

\* What load_PAGE writes into a frame, and nothing else.
LEMMA LoadedLines ==
    ASSUME NEW m, m = [l \in Mem |-> m[l]], NEW p, NEW P, NEW f \in Nat, f + 2 \in Frame
    PROVE  LET n == LoadedMem(m, p, P, f)
           IN  /\ n = [l \in Mem |-> n[l]]
               /\ \A l \in Mem : l \notin f .. f + 2 => n[l] = m[l]
               /\ \A j \in 0 .. 2 :
                    /\ n[f + j].var = p
                    /\ Fetched(P, j) => n[f + j].value = P.source_file.line[P.pos + j + 1]
<1> DEFINE line(j) == LoadedLine(m, p, P, f, j)
           n == LoadedMem(m, p, P, f)
<1>1. f \in Mem /\ f + 1 \in Mem /\ f + 2 \in Mem
  BY StoreAssumption DEF Frame, Mem
<1>2. n = [m EXCEPT ![f] = line(0), ![f + 1] = line(1), ![f + 2] = line(2)]
  BY DEF LoadedMem
<1>3. \A j \in 0 .. 2 : line(j).var = p /\
         (Fetched(P, j) => line(j).value = P.source_file.line[P.pos + j + 1])
  BY DEF LoadedLine
<1> HIDE DEF line, n
<1>4. /\ n = [l \in Mem |-> n[l]]
      /\ \A l \in Mem : l \notin f .. f + 2 => n[l] = m[l]
      /\ n[f] = line(0) /\ n[f + 1] = line(1) /\ n[f + 2] = line(2)
  <2> DEFINE m1 == [m EXCEPT ![f] = line(0)]
             m2 == [m1 EXCEPT ![f + 1] = line(1)]
             m3 == [m2 EXCEPT ![f + 2] = line(2)]
  <2>1. n = m3
    BY <1>2
  <2>2. m1 = [l \in Mem |-> IF l = f THEN line(0) ELSE m[l]]
    BY <1>1
  <2> HIDE DEF m1
  <2>3. m2 = [l \in Mem |-> IF l = f + 1 THEN line(1) ELSE m1[l]]
    BY <1>1, <2>2
  <2> HIDE DEF m2
  <2>4. m3 = [l \in Mem |-> IF l = f + 2 THEN line(2) ELSE m2[l]]
    BY <1>1, <2>3
  <2> HIDE DEF m3
  <2>5. \A l \in Mem : l \notin f .. f + 2 => n[l] = m[l]
    BY <2>1, <2>2, <2>3, <2>4
  <2>6. f # f + 1 /\ f # f + 2 /\ f + 1 # f + 2
    OBVIOUS
  <2>7. n[f] = line(0) /\ n[f + 1] = line(1) /\ n[f + 2] = line(2)
    BY <1>1, <2>1, <2>2, <2>3, <2>4, <2>6
  <2>8. n = [l \in Mem |-> n[l]]
    BY <2>1, <2>4
  <2>9. QED
    BY <2>5, <2>7, <2>8
<1>5. ASSUME NEW j \in 0 .. 2 PROVE n[f + j] = line(j)
  <2>1. CASE j = 0
    <3>1. f + j = f
      BY <2>1
    <3>2. QED
      BY <2>1, <3>1, <1>4
  <2>2. CASE j = 1
    BY <2>2, <1>4
  <2>3. CASE j = 2
    BY <2>3, <1>4
  <2>4. QED
    BY <2>1, <2>2, <2>3
<1>6. QED
  BY <1>3, <1>4, <1>5 DEF n

\* A page of another frame of the memory m is in that frame of memory n too.
LEMMA InFrameKept ==
    ASSUME NEW m, NEW n, NEW p, NEW P, NEW Q, NEW i, InFrame(m, p, P, i),
           i \in Pages(Q), i < Ahead(Q), Q.source_file = P.source_file,
           Q.page_table[i] = P.page_table[i],
           \A j \in 0 .. 2 : n[Base(P, i) + j] = m[Base(P, i) + j]
    PROVE  InFrame(n, p, Q, i) /\ Base(Q, i) = Base(P, i)
<1>1. Base(Q, i) = Base(P, i) /\ Total(Q) = Total(P)
  BY DEF Base, Total
<1>2. QED
  BY <1>1 DEF InFrame

\* A page that is in a frame as long as P becomes Q is there afterwards.
Stays(P, Q, i) == /\ i \in Pages(Q) /\ i < Ahead(Q) /\ Q.source_file = P.source_file
                  /\ Q.page_table[i] = P.page_table[i]

\* A step that keeps the frames and the pages in them.
LEMMA FramesKept ==
    ASSUME NEW m, NEW n, SameFrames(m, n), NEW Ps, NEW Qs, NEW L, NEW M, FramesOf(m, Ps, L),
           Listed(M) = Listed(L),
           \A x \in Listed(L) : Stays(Ps[x[1]], Qs[x[1]], x[2])
    PROVE  FramesOf(n, Qs, M)
<1>1. ASSUME NEW x \in Listed(L)
      PROVE  InFrame(n, x[1], Qs[x[1]], x[2]) /\ Base(Qs[x[1]], x[2]) = Base(Ps[x[1]], x[2])
  <2> DEFINE P == Ps[x[1]]
             Q == Qs[x[1]]
             b == Base(P, x[2])
  <2>1. InFrame(m, x[1], P, x[2])
    BY DEF FramesOf
  <2>2. b \in Nat /\ b + 2 \in Frame
    BY <2>1 DEF InFrame
  <2>3. \A j \in 0 .. 2 : b + j \in Frame
    BY <2>2, StoreAssumption DEF Frame
  <2>4. \A j \in 0 .. 2 : n[b + j] = m[b + j]
    BY <2>3 DEF SameFrames
  <2>5. /\ x[2] \in Pages(Q) /\ x[2] < Ahead(Q) /\ Q.source_file = P.source_file
        /\ Q.page_table[x[2]] = P.page_table[x[2]]
    BY DEF Stays
  <2> HIDE DEF P, Q
  <2>6. InFrame(n, x[1], Q, x[2]) /\ Base(Q, x[2]) = b
    BY <2>1, <2>4, <2>5, InFrameKept
  <2>7. QED
    BY <2>6 DEF P, Q
<1>2. \A x, y \in Listed(L) :
          x # y => Apart(Base(Qs[x[1]], x[2]), Base(Qs[y[1]], y[2]))
  BY <1>1 DEF FramesOf
<1>3. \A l \in Frame : n[l].var # None =>
          \E x \in Listed(L) : l \in Base(Qs[x[1]], x[2]) .. Base(Qs[x[1]], x[2]) + 2
  <2> SUFFICES ASSUME NEW l \in Frame, n[l].var # None
               PROVE  \E x \in Listed(L) : l \in Base(Qs[x[1]], x[2]) .. Base(Qs[x[1]], x[2]) + 2
    OBVIOUS
  <2>1. m[l].var # None
    BY DEF SameFrames
  <2>2. PICK x \in Listed(L) : l \in Base(Ps[x[1]], x[2]) .. Base(Ps[x[1]], x[2]) + 2
    BY <2>1 DEF FramesOf
  <2>3. QED
    BY <2>2, <1>1
<1>4. QED
  BY <1>1, <1>2, <1>3 DEF FramesOf

\* A page is put into three free lines, and in front of the list.
LEMMA FramesPut ==
    ASSUME NEW m, NEW n, NEW Ps, NEW Qs, NEW L, NEW M, FramesOf(m, Ps, L),
           NEW h, NEW i, Listed(M) = Listed(L) \cup {<<h, i>>},
           NEW f \in frame_alloc(m),
           \A l \in Frame : l \notin f .. f + 2 => n[l] = m[l],
           \A x \in Listed(L) : x[1] \in Nat /\ Stays(Ps[x[1]], Qs[x[1]], x[2]),
           InFrame(n, h, Qs[h], i), Base(Qs[h], i) = f
    PROVE  FramesOf(n, Qs, M)
<1>1. /\ f \in Nat /\ f + 2 \in Frame
      /\ \A j \in 0 .. 2 : f + j \in Frame /\ m[f + j].var = None
  BY AllocPlace
<1>2. ASSUME NEW x \in Listed(L)
      PROVE  /\ InFrame(n, x[1], Qs[x[1]], x[2])
             /\ Base(Qs[x[1]], x[2]) = Base(Ps[x[1]], x[2])
             /\ Base(Ps[x[1]], x[2]) \in Nat
             /\ Apart(Base(Qs[x[1]], x[2]), f) /\ Apart(f, Base(Qs[x[1]], x[2]))
  <2> DEFINE P == Ps[x[1]]
             Q == Qs[x[1]]
             b == Base(P, x[2])
  <2>1. InFrame(m, x[1], P, x[2])
    BY DEF FramesOf
  <2>2. /\ b \in Nat /\ b + 2 \in Frame
        /\ \A j \in 0 .. 2 : m[b + j].var = x[1]
    BY <2>1 DEF InFrame
  <2>3. \A j \in 0 .. 2 : b + j \in Frame
    BY <2>2, StoreAssumption DEF Frame
  <2>4. x[1] # None
    BY NoneAssumption
  <2>5. \A j, k \in 0 .. 2 : b + j # f + k
    BY <2>2, <2>4, <1>1
  <2> HIDE DEF b
  <2>6. Apart(b, f) /\ Apart(f, b)
    <3>1. b # f /\ b # f + 1 /\ b # f + 2 /\ f # b + 1 /\ f # b + 2
      <4>1. b + 0 # f + 0 /\ b + 0 # f + 1 /\ b + 0 # f + 2 /\ b + 1 # f + 0 /\ b + 2 # f + 0
        BY <2>5
      <4>2. QED
        BY <4>1, <2>2, <1>1
    <3>2. QED
      BY <3>1, <2>2, <1>1 DEF Apart
  <2>7. \A j \in 0 .. 2 : b + j \notin f .. f + 2
    BY <2>2, <2>6, <1>1 DEF Apart
  <2>8. \A j \in 0 .. 2 : n[b + j] = m[b + j]
    BY <2>3, <2>7
  <2>9. /\ x[2] \in Pages(Q) /\ x[2] < Ahead(Q) /\ Q.source_file = P.source_file
        /\ Q.page_table[x[2]] = P.page_table[x[2]]
    BY DEF Stays
  <2> HIDE DEF P, Q
  <2>10. InFrame(n, x[1], Q, x[2]) /\ Base(Q, x[2]) = b
    BY <2>1, <2>8, <2>9, InFrameKept DEF b
  <2>11. QED
    BY <2>2, <2>6, <2>10 DEF P, Q, b
<1>3. \A x \in Listed(M) : InFrame(n, x[1], Qs[x[1]], x[2])
  BY <1>2
<1>4. ASSUME NEW x \in Listed(M), NEW y \in Listed(M), x # y
      PROVE  Apart(Base(Qs[x[1]], x[2]), Base(Qs[y[1]], y[2]))
  <2>1. CASE x \in Listed(L) /\ y \in Listed(L)
    BY <2>1, <1>2, <1>4 DEF FramesOf
  <2>2. CASE x = <<h, i>>
    <3>1. y \in Listed(L) /\ Base(Qs[x[1]], x[2]) = f
      BY <2>2, <1>4
    <3>2. QED
      BY <3>1, <1>2
  <2>3. CASE y = <<h, i>>
    <3>1. x \in Listed(L) /\ Base(Qs[y[1]], y[2]) = f
      BY <2>3, <1>4
    <3>2. QED
      BY <3>1, <1>2
  <2>4. QED
    BY <2>1, <2>2, <2>3
<1>5. ASSUME NEW l \in Frame, n[l].var # None
      PROVE  \E x \in Listed(M) : l \in Base(Qs[x[1]], x[2]) .. Base(Qs[x[1]], x[2]) + 2
  <2>1. CASE l \in f .. f + 2
    <3>1. PICK x \in Listed(M) : x = <<h, i>>
      OBVIOUS
    <3>2. Base(Qs[x[1]], x[2]) = f
      BY <3>1
    <3>3. QED
      BY <2>1, <3>2
  <2>2. CASE l \notin f .. f + 2
    <3>1. m[l].var # None
      BY <2>2, <1>5
    <3>2. PICK x \in Listed(L) : l \in Base(Ps[x[1]], x[2]) .. Base(Ps[x[1]], x[2]) + 2
      BY <3>1 DEF FramesOf
    <3>3. QED
      BY <3>2, <1>2
  <2>3. QED
    BY <2>1, <2>2
<1>6. QED
  BY <1>3, <1>4, <1>5 DEF FramesOf

\* The valid lines of a page in a frame are lines of the script.
LEMMA InFrameValid ==
    ASSUME NEW m, NEW p, NEW P, NEW i, InFrame(m, p, P, i), NEW j \in 0 .. 2
    PROVE  P.page_table[i].valid[j] => 3 * i + j < Total(P)
<1>1. P.page_table[i].valid = [k \in 0 .. 2 |-> 3 * i + k < Total(P)]
  BY DEF InFrame
<1>2. P.page_table[i].valid[j] = (3 * i + j < Total(P))
  BY <1>1, Zenon
<1>3. QED
  BY <1>2

\* The lines of a page in a frame.
LEMMA FrameLines ==
    ASSUME NEW m, NEW p, NEW P, NEW i, InFrame(m, p, P, i)
    PROVE  /\ IndexLines(P.page_table[i]) = Base(P, i) .. Base(P, i) + 2
           /\ Base(P, i) .. Base(P, i) + 2 \subseteq Frame
           /\ 0 \in Frame
<1> DEFINE b == Base(P, i)
<1>1. b \in Nat /\ b + 2 \in Frame /\ P.page_table[i].index = [j \in 0 .. 2 |-> b + j]
  BY DEF InFrame
<1> HIDE DEF b
<1>2. b .. b + 2 \subseteq Frame /\ 0 \in Frame /\ Frame \subseteq Mem
  BY <1>1, StoreAssumption DEF Frame, Mem
<1>3. {P.page_table[i].index[j] : j \in 0 .. 2} = b .. b + 2
  <2>1. {P.page_table[i].index[j] : j \in 0 .. 2} = {b + j : j \in 0 .. 2}
    BY <1>1
  <2>2. \A l \in b .. b + 2 : l - b \in 0 .. 2 /\ b + (l - b) = l
    BY <1>1
  <2>3. {b + j : j \in 0 .. 2} = b .. b + 2
    BY <1>1, <2>2
  <2>4. QED
    BY <2>1, <2>3
<1>4. QED
  BY <1>2, <1>3 DEF b, IndexLines

IsMemory(m) == m = [l \in Mem |-> m[l]]

\* A page is evicted.
LEMMA FramesEvict ==
    ASSUME NEW m, IsMemory(m), NEW Ps, NEW Qs, NEW L, NEW M, FramesOf(m, Ps, L),
           NEW x \in Listed(L), Listed(M) = Listed(L) \ {x},
           \A y \in Listed(M) : Stays(Ps[y[1]], Qs[y[1]], y[2])
    PROVE  LET n == EvictedMem(m, Ps[x[1]], x[2])
           IN  FramesOf(n, Qs, M) /\ IsMemory(n) /\ frame_alloc(n) # {}
<1> DEFINE n == EvictedMem(m, Ps[x[1]], x[2])
           f == Base(Ps[x[1]], x[2])
<1>1. InFrame(m, x[1], Ps[x[1]], x[2])
  BY DEF FramesOf
<1>2. /\ IndexLines(Ps[x[1]].page_table[x[2]]) = f .. f + 2
      /\ f .. f + 2 \subseteq Frame /\ f \in Nat
  <2>1. IndexLines(Ps[x[1]].page_table[x[2]]) = f .. f + 2 /\ f .. f + 2 \subseteq Frame
    BY <1>1, FrameLines
  <2>2. f \in Nat
    BY <1>1 DEF InFrame
  <2>3. QED
    BY <2>1, <2>2
<1>3. n = [l \in Mem |-> IF l \in f .. f + 2 THEN FreeLine ELSE m[l]]
  BY <1>2 DEF EvictedMem, mem_free_at, IsMemory
<1> HIDE DEF n
<1>4. Frame \subseteq Mem /\ Frame \subseteq Nat
  BY StoreAssumption DEF Frame, Mem
<1>5. /\ n = [l \in Mem |-> n[l]]
      /\ \A l \in Frame : n[l] = IF l \in f .. f + 2 THEN FreeLine ELSE m[l]
  BY <1>3, <1>4
<1>6. frame_alloc(n) # {}
  <2>1. \A l \in f .. f + 2 : l \in Frame /\ n[l].var = None
    BY <1>2, <1>5 DEF FreeLine
  <2> HIDE DEF f
  <2>2. QED
    BY <2>1, <1>2, AllocSome
<1>7. ASSUME NEW y \in Listed(M)
      PROVE  InFrame(n, y[1], Qs[y[1]], y[2]) /\ Base(Qs[y[1]], y[2]) = Base(Ps[y[1]], y[2])
  <2> DEFINE P == Ps[y[1]]
             Q == Qs[y[1]]
             b == Base(P, y[2])
  <2>1. y \in Listed(L) /\ y # x
    OBVIOUS
  <2>2. InFrame(m, y[1], P, y[2])
    BY <2>1 DEF FramesOf
  <2>3. b \in Nat /\ b + 2 \in Frame
    BY <2>2 DEF InFrame
  <2>4. \A j \in 0 .. 2 : b + j \in Frame
    BY <2>3, StoreAssumption DEF Frame
  <2>5. Apart(b, f)
    BY <2>1 DEF FramesOf
  <2>6. \A j \in 0 .. 2 : n[b + j] = m[b + j]
    <3> HIDE DEF b, f
    <3>1. \A j \in 0 .. 2 : b + j \notin f .. f + 2
      BY <2>3, <2>5, <1>2 DEF Apart
    <3>2. QED
      BY <3>1, <2>4, <1>5
  <2>7. /\ y[2] \in Pages(Q) /\ y[2] < Ahead(Q) /\ Q.source_file = P.source_file
        /\ Q.page_table[y[2]] = P.page_table[y[2]]
    BY DEF Stays
  <2> HIDE DEF P, Q, b, f
  <2> DEFINE p == y[1]
             i == y[2]
  <2>8. /\ InFrame(m, p, P, i) /\ i \in Pages(Q) /\ i < Ahead(Q)
        /\ Q.source_file = P.source_file /\ Q.page_table[i] = P.page_table[i]
        /\ \A j \in 0 .. 2 : n[Base(P, i) + j] = m[Base(P, i) + j]
    BY <2>2, <2>6, <2>7 DEF b
  <2> HIDE DEF p, i
  <2>9. InFrame(n, p, Q, i) /\ Base(Q, i) = Base(P, i)
    BY <2>8, InFrameKept
  <2>10. QED
    BY <2>9 DEF P, Q, b, p, i
<1>8. \A y, z \in Listed(M) :
          y # z => Apart(Base(Qs[y[1]], y[2]), Base(Qs[z[1]], z[2]))
  BY <1>7 DEF FramesOf
<1>9. ASSUME NEW l \in Frame, n[l].var # None
      PROVE  \E y \in Listed(M) : l \in Base(Qs[y[1]], y[2]) .. Base(Qs[y[1]], y[2]) + 2
  <2>1. l \notin f .. f + 2 /\ m[l].var # None
    BY <1>5, <1>9 DEF FreeLine
  <2>2. PICK y \in Listed(L) : l \in Base(Ps[y[1]], y[2]) .. Base(Ps[y[1]], y[2]) + 2
    BY <2>1 DEF FramesOf
  <2>3. QED
    BY <2>1, <2>2, <1>7
<1>10. QED
  BY <1>5, <1>6, <1>7, <1>8, <1>9 DEF FramesOf, IsMemory, n

----------------------------------------------------------------------------
(* The order of the needed pages.                                          *)

\* How far Q is, is how far P is.
SameTurn(P, Q) == Executed(Q) = Executed(P) /\ Ahead(Q) = Ahead(P) /\ Q.size = P.size

\* The order depends on how far the processes are, and on nothing else.
LEMMA SameTurnSame ==
    ASSUME NEW P, NEW Q, SameTurn(P, Q), NEW R, NEW S, SameTurn(R, S), NEW L, NEW p, NEW r
    PROVE  /\ Alive(Q) = Alive(P) /\ Going(Q) = Going(P)
           /\ Before(L, p, Q, r, S) = Before(L, p, P, r, R)
  BY DEF SameTurn, Alive, Going, Before, Reading, AtFault

\* The two pages that the order is about are needed.
LEMMA GoingPages ==
    ASSUME NEW P, WellFormed(P), Going(P)
    PROVE  /\ Ahead(P) - 2 \in Pages(P) /\ Needed(P, Ahead(P) - 2)
           /\ Ahead(P) - 1 \in Pages(P) /\ Needed(P, Ahead(P) - 1)
<1>1. /\ Ahead(P) \in Nat /\ Ahead(P) >= 2 /\ Executed(P) \in Nat /\ Total(P) \in Nat
      /\ Executed(P) < Total(P) /\ Alive(P)
  BY Numbers DEF Going, Alive
<1>2. Ahead(P) > 2 => Executed(P) >= 3 * (Ahead(P) - 1)
  BY <1>1 DEF WellFormed
<1>3. 3 * (Ahead(P) - 1) < Total(P)
  BY <1>1, <1>2 DEF Going
<1>4. Ahead(P) - 2 \in Pages(P) /\ Ahead(P) - 1 \in Pages(P)
  BY <1>1, <1>3, Numbers
<1>5. QED
  BY <1>1, <1>4 DEF Needed

\* When process h faults, in a turn at whose beginning it had executed e lines,
\* every other process is about to fault on the same page or has just loaded it.
LEMMA FaultTurn ==
    ASSUME NEW P, WellFormed(P), Alive(P), AtFault(P),
           NEW e \in {Executed(P) - 1, Executed(P)},
           NEW h \in Nat, NEW r \in Nat, h # r, NEW R, WellFormed(R), Alive(R),
           InStep(h, e, Ahead(P), r, R)
    PROVE  /\ Going(P) /\ Going(R)
           /\ h < r => Ahead(R) = Ahead(P)
           /\ r < h => Ahead(R) = Ahead(P) + 1 /\ Executed(R) = 3 * Ahead(P)
<1>1. /\ Ahead(P) \in Nat /\ Ahead(P) >= 2 /\ Executed(P) = 3 * Ahead(P)
      /\ Ahead(R) \in Nat /\ Executed(R) \in Nat /\ e \in Nat
  BY Numbers DEF AtFault
<1>2. h < r => Ahead(R) = Ahead(P) /\ Executed(R) = e
  BY DEF InStep
<1>3. r < h => Ahead(R) = Ahead(P) + 1 /\ Executed(R) = 3 * Ahead(P)
  BY <1>1 DEF InStep, TurnOn
<1>4. Going(P) /\ Going(R)
  BY <1>1, <1>2, <1>3 DEF Going
<1>5. QED
  BY <1>2, <1>3, <1>4

\* Then every needed page was used after the page before the last of h.
LEMMA Spared ==
    ASSUME NEW A, A \subseteq Nat, NEW Ps, NEW L, \A p \in A : WellFormed(Ps[p]),
           RecencyOf(A, Ps, L),
           NEW h \in A, Alive(Ps[h]), AtFault(Ps[h]),
           NEW e \in {Executed(Ps[h]) - 1, Executed(Ps[h])},
           \A r \in A : r # h /\ Alive(Ps[r]) => InStep(h, e, Ahead(Ps[h]), r, Ps[r]),
           NEW p \in A, NEW i, Needed(Ps[p], i), <<p, i>> # <<h, Ahead(Ps[h]) - 2>>
    PROVE  Older(L, <<h, Ahead(Ps[h]) - 2>>, <<p, i>>)
<1>1. Alive(Ps[p]) /\ (i = Ahead(Ps[p]) - 2 \/ i = Ahead(Ps[p]) - 1)
  <2>1. Ahead(Ps[p]) \in Nat
    BY Numbers
  <2>2. QED
    BY <2>1 DEF Needed
<1>2. CASE p = h
  <2>1. Going(Ps[h])
    BY Numbers DEF AtFault, Going
  <2>2. QED
    BY <1>1, <1>2, <2>1 DEF RecencyOf
<1>3. CASE p # h
  <2>1. InStep(h, e, Ahead(Ps[h]), p, Ps[p])
    BY <1>1, <1>3
  <2>2. /\ Going(Ps[h]) /\ Going(Ps[p])
        /\ h < p => Ahead(Ps[p]) = Ahead(Ps[h])
        /\ p < h => Ahead(Ps[p]) = Ahead(Ps[h]) + 1
    BY <1>1, <1>3, <2>1, FaultTurn
  <2>3. Before(L, h, Ps[h], p, Ps[p])
    BY <1>3, <2>2 DEF RecencyOf
  <2>4. h < p \/ p < h
    BY <1>3
  <2>5. QED
    BY <1>1, <2>2, <2>3, <2>4 DEF Before
<1>4. QED
  BY <1>2, <1>3

\* List M is L with page x in front, and without its last page if that is v.
Replaced(L, M, v, x) ==
    /\ \A a, b : Older(L, a, b) => b # v
    /\ \A a, b : a # v /\ b # v /\ Older(L, a, b) => Older(M, a, b)
    /\ \A a \in Listed(L) : a # v => Older(M, a, x)

\* The order after a fault of h, in which page v was evicted, if any.
LEMMA RecencyFault ==
    ASSUME NEW A, A \subseteq Nat, NEW Ps, NEW Qs, NEW L, NEW M,
           \A p \in A : WellFormed(Ps[p]), RecencyOf(A, Ps, L),
           NEW h \in A, Alive(Ps[h]), AtFault(Ps[h]),
           NEW e \in {Executed(Ps[h]) - 1, Executed(Ps[h])},
           \A r \in A : r # h /\ Alive(Ps[r]) => InStep(h, e, Ahead(Ps[h]), r, Ps[r]),
           \A p \in A : p # h => SameTurn(Ps[p], Qs[p]),
           Executed(Qs[h]) = Executed(Ps[h]), Ahead(Qs[h]) = Ahead(Ps[h]) + 1,
           Qs[h].size = Ps[h].size,
           NEW v, Replaced(L, M, v, <<h, Ahead(Ps[h])>>)
    PROVE  RecencyOf(A, Qs, M)
<1> DEFINE c == Ahead(Ps[h])
           old(p) == <<p, Ahead(Ps[p]) - 2>>
           new(p) == <<p, Ahead(Ps[p]) - 1>>
<1>0. /\ \A a, b : Older(L, a, b) => b # v
      /\ \A a, b : a # v /\ b # v /\ Older(L, a, b) => Older(M, a, b)
      /\ \A a \in Listed(L) : a # v => Older(M, a, <<h, Ahead(Ps[h])>>)
  BY DEF Replaced
<1>1. /\ c \in Nat /\ c >= 2 /\ Executed(Ps[h]) = 3 * c /\ Going(Ps[h])
  <2>1. WellFormed(Ps[h])
    OBVIOUS
  <2>2. c \in Nat /\ c >= 2
    BY <2>1, Numbers
  <2>3. QED
    BY <2>2 DEF AtFault, Going
<1>2. ASSUME NEW p \in A, p # h, Alive(Ps[p])
      PROVE  /\ Going(Ps[p]) /\ Ahead(Ps[p]) \in Nat
             /\ h < p => Ahead(Ps[p]) = c
             /\ p < h => Ahead(Ps[p]) = c + 1 /\ Executed(Ps[p]) = 3 * c
             /\ old(p) # v /\ new(p) # v /\ old(p) \in Listed(L)
  <2>1. InStep(h, e, Ahead(Ps[h]), p, Ps[p])
    BY <1>2
  <2>2. /\ Going(Ps[p])
        /\ h < p => Ahead(Ps[p]) = c
        /\ p < h => Ahead(Ps[p]) = c + 1 /\ Executed(Ps[p]) = 3 * c
    BY <1>2, <2>1, FaultTurn
  <2>3. Needed(Ps[p], Ahead(Ps[p]) - 2) /\ Needed(Ps[p], Ahead(Ps[p]) - 1)
    BY <2>2, GoingPages
  <2>4. Older(L, <<h, c - 2>>, old(p)) /\ Older(L, <<h, c - 2>>, new(p))
    BY <1>2, <2>3, Spared
  <2>5. old(p) \in Listed(L)
    BY <2>2 DEF RecencyOf, Older, Listed
  <2>6. QED
    BY <2>2, <2>4, <2>5, <1>0, Numbers
<1>3. new(h) # v /\ new(h) \in Listed(L)
  <2>1. Older(L, old(h), new(h))
    BY <1>1 DEF RecencyOf
  <2>2. QED
    BY <2>1, <1>0 DEF Older, Listed
<1>4. /\ Alive(Qs[h]) /\ Going(Qs[h]) /\ <<h, Ahead(Qs[h]) - 2>> = new(h)
      /\ <<h, Ahead(Qs[h]) - 1>> = <<h, c>>
      /\ Executed(Qs[h]) = 3 * c
  BY <1>1 DEF Alive, Going
<1>5. \A p \in A : p # h => /\ Alive(Qs[p]) = Alive(Ps[p]) /\ Going(Qs[p]) = Going(Ps[p])
                            /\ <<p, Ahead(Qs[p]) - 2>> = old(p)
                            /\ <<p, Ahead(Qs[p]) - 1>> = new(p)
  BY DEF SameTurn, Alive, Going
<1> HIDE DEF old, new
<1>6. ASSUME NEW p \in A, Going(Qs[p])
      PROVE  Older(M, <<p, Ahead(Qs[p]) - 2>>, <<p, Ahead(Qs[p]) - 1>>)
  <2>1. CASE p = h
    BY <2>1, <1>0, <1>3, <1>4
  <2>2. CASE p # h
    <3>1. Going(Ps[p]) /\ Alive(Ps[p])
      BY <1>5, <1>6, <2>2 DEF Going
    <3>2. Older(L, old(p), new(p))
      BY <3>1 DEF RecencyOf, old, new
    <3>3. QED
      BY <2>2, <3>1, <3>2, <1>0, <1>2, <1>5
  <2>3. QED
    BY <2>1, <2>2
<1>7. ASSUME NEW p \in A, NEW r \in A, p # r, Going(Qs[p]), Going(Qs[r])
      PROVE  Before(M, p, Qs[p], r, Qs[r])
  <2>0. h \in Nat /\ p \in Nat /\ r \in Nat
    OBVIOUS
  <2>1. \A q \in A : q # h /\ Going(Qs[q]) => Going(Ps[q]) /\ Alive(Ps[q])
    BY <1>5 DEF Going
  <2>2. Going(Ps[p]) /\ Going(Ps[r]) /\ Before(L, p, Ps[p], r, Ps[r])
    BY <1>1, <1>7, <2>1 DEF RecencyOf
  <2>3. CASE p # h /\ r # h
    <3>1. SameTurn(Ps[p], Qs[p]) /\ SameTurn(Ps[r], Qs[r])
      BY <2>3
    <3>2. Before(M, p, Qs[p], r, Qs[r]) = Before(M, p, Ps[p], r, Ps[r])
      BY <3>1, SameTurnSame
    <3>3. old(p) # v /\ new(p) # v /\ old(r) # v /\ new(r) # v
      BY <1>2, <1>7, <2>1, <2>3
    <3>4. Before(M, p, Ps[p], r, Ps[r])
      BY <2>2, <3>3, <1>0 DEF Before, old, new
    <3>5. QED
      BY <3>2, <3>4
  <2>4. CASE r = h
    <3>1. p # h /\ Alive(Ps[p]) /\ (h < p \/ p < h)
      BY <1>7, <2>0, <2>1, <2>4
    <3>2. /\ Ahead(Ps[p]) \in Nat
          /\ h < p => Ahead(Ps[p]) = c
          /\ p < h => Ahead(Ps[p]) = c + 1
          /\ old(p) # v /\ new(p) # v /\ old(p) \in Listed(L)
      BY <3>1, <1>2
    <3>3. new(p) \in Listed(L)
      BY <2>2 DEF RecencyOf, Older, Listed, new
    <3>4. Older(M, old(p), <<h, c>>) /\ Older(M, new(p), <<h, c>>)
      BY <3>2, <3>3, <1>0
    <3>5. Older(L, old(p), new(h))
      <4>1. CASE h < p
        <5>1. Reading(Ps[h])
          BY <1>1 DEF Reading
        <5>2. QED
          BY <2>2, <2>4, <3>2, <4>1, <5>1 DEF Before, old, new
      <4>2. CASE p < h
        BY <2>2, <2>4, <3>2, <4>2 DEF Before, old, new
      <4>3. QED
        BY <3>1, <4>1, <4>2
    <3>6. Older(M, old(p), new(h))
      BY <1>0, <1>3, <3>2, <3>5
    <3>7. Ahead(Qs[p]) = Ahead(Ps[p])
      BY <3>1 DEF SameTurn
    <3>8. QED
      BY <2>4, <3>1, <3>4, <3>6, <1>4, <1>5 DEF Before
  <2>5. CASE p = h
    <3>1. r # h /\ Alive(Ps[r]) /\ (h < r \/ r < h)
      BY <1>7, <2>0, <2>1, <2>5
    <3>2. /\ Ahead(Ps[r]) \in Nat
          /\ h < r => Ahead(Ps[r]) = c
          /\ r < h => Ahead(Ps[r]) = c + 1 /\ Executed(Ps[r]) = 3 * c
          /\ old(r) # v /\ new(r) # v
      BY <3>1, <1>2
    <3>3. Ahead(Qs[r]) = Ahead(Ps[r]) /\ Executed(Qs[r]) = Executed(Ps[r])
      BY <3>1 DEF SameTurn
    <3>4. CASE h < r
      <4>1. Ahead(Qs[r]) = c /\ Ahead(Qs[h]) = c + 1
        BY <3>2, <3>3, <3>4
      <4>2. AtFault(Qs[r]) => Older(M, new(h), new(r))
        <5>1. AtFault(Qs[r]) => AtFault(Ps[r])
          BY <3>3 DEF AtFault
        <5>2. AtFault(Ps[r]) => Older(L, new(h), new(r))
          BY <2>2, <2>5, <3>2, <3>4 DEF Before, new
        <5>3. QED
          BY <5>1, <5>2, <1>0, <1>3, <3>2
      <4>3. QED
        BY <2>5, <3>1, <3>4, <4>1, <4>2, <1>1, <1>4, <1>5 DEF Before
    <3>5. CASE r < h
      <4>1. Ahead(Qs[r]) = c + 1 /\ Ahead(Qs[h]) = c + 1
        BY <3>2, <3>3, <3>5
      <4>2. ~Reading(Qs[r])
        BY <4>1, <3>2, <3>3, <3>5, <1>1 DEF Reading
      <4>3. QED
        BY <2>0, <2>5, <3>5, <4>1, <4>2, <1>1 DEF Before
    <3>6. QED
      BY <3>1, <3>4, <3>5
  <2>6. QED
    BY <2>3, <2>4, <2>5
<1>8. QED
  BY <1>6, <1>7 DEF RecencyOf

\* The order after process h executed a line of page x, in a turn at whose
\* beginning it had executed e lines.
LEMMA RecencyExec ==
    ASSUME NEW A, A \subseteq Nat, NEW Ps, NEW Qs, NEW L, NEW M,
           \A p \in A : WellFormed(Ps[p]), NeededOf(A, Ps, L), RecencyOf(A, Ps, L),
           NEW h \in A, Alive(Ps[h]), Executed(Ps[h]) < 3 * Ahead(Ps[h]),
           NEW e \in {Executed(Ps[h]) - 1, Executed(Ps[h])},
           \A r \in A : r # h /\ Alive(Ps[r]) => InStep(h, e, Ahead(Ps[h]), r, Ps[r]),
           \A p \in A : p # h => Qs[p] = Ps[p],
           Executed(Qs[h]) = Executed(Ps[h]) + 1, Ahead(Qs[h]) = Ahead(Ps[h]),
           Qs[h].size = Ps[h].size - 1,
           NEW x, x = <<h, CurrentPage(Ps[h])>>,
           \A a, b : a # x /\ Older(L, a, b) => Older(M, a, b),
           \A a \in Listed(L) : a # x => Older(M, a, x),
           Ahead(Ps[h]) = 2 /\ Executed(Ps[h]) = 3 =>
               e = 2 /\ \A a \in Listed(L) : a # <<h, 0>> => Older(L, a, <<h, 0>>)
    PROVE  RecencyOf(A, Qs, M)
<1> DEFINE c == Ahead(Ps[h])
           E == Executed(Ps[h])
           old(p) == <<p, Ahead(Ps[p]) - 2>>
           new(p) == <<p, Ahead(Ps[p]) - 1>>
<1>1. /\ c \in Nat /\ c >= 2 /\ E \in Nat /\ E < 3 * c /\ E < Total(Ps[h])
      /\ Total(Ps[h]) \in Nat
  BY Numbers DEF Alive
<1>2. c > 2 => E >= 3 * (c - 1)
  BY <1>1 DEF WellFormed
<1>3. /\ CurrentPage(Ps[h]) \in Nat /\ CurrentPage(Ps[h]) \in Pages(Ps[h])
      /\ 3 * CurrentPage(Ps[h]) <= E /\ E <= 3 * CurrentPage(Ps[h]) + 2
  <2>1. /\ CurrentPage(Ps[h]) \in Pages(Ps[h])
        /\ Ps[h].program_counter[CurrentPage(Ps[h])] \in 0 .. 2
        /\ E = 3 * CurrentPage(Ps[h]) + Ps[h].program_counter[CurrentPage(Ps[h])]
    BY Current
  <2>2. CurrentPage(Ps[h]) \in Nat
    BY <2>1, Numbers
  <2> DEFINE i == CurrentPage(Ps[h])
             j == Ps[h].program_counter[i]
  <2>3. i \in Nat /\ i \in Pages(Ps[h]) /\ j \in 0 .. 2 /\ E = 3 * i + j
    BY <2>1, <2>2
  <2> HIDE DEF i, j, E
  <2>4. i \in Nat /\ i \in Pages(Ps[h]) /\ 3 * i <= E /\ E <= 3 * i + 2
    BY <2>3
  <2>5. QED
    BY <2>4 DEF i
<1>4. Needed(Ps[h], CurrentPage(Ps[h])) /\ x \in Listed(L)
  <2>1. CurrentPage(Ps[h]) \in c - 2 .. c - 1
    BY <1>1, <1>2, <1>3
  <2>2. Needed(Ps[h], CurrentPage(Ps[h]))
    BY <2>1, <1>3 DEF Needed
  <2>3. QED
    BY <2>2, <1>3 DEF NeededOf
\* h has left page c - 2 when it has its turn, if it has left it after that.
<1>5. ASSUME Going(Qs[h])
      PROVE  /\ x = new(h) /\ old(h) # x /\ old(h) \in Listed(L)
             /\ Going(Ps[h]) \/ (c = 2 /\ E = 3)
  <2>1. c > 2 \/ E + 1 > 3
    BY <1>5, <1>1 DEF Going
  <2>2. CurrentPage(Ps[h]) = c - 1
    BY <2>1, <1>1, <1>2, <1>3
  <2>3. c - 2 \in Pages(Ps[h])
    BY <1>1, <1>3, <2>2, Numbers
  <2>4. Needed(Ps[h], c - 2)
    BY <1>1, <2>3 DEF Needed
  <2>5. old(h) \in Listed(L)
    BY <2>3, <2>4 DEF NeededOf
  <2>6. Going(Ps[h]) \/ (c = 2 /\ E = 3)
    BY <2>1, <1>1 DEF Going
  <2>7. QED
    BY <2>2, <2>5, <2>6, <1>1
<1>6. \A p \in A : /\ <<p, Ahead(Qs[p]) - 2>> = old(p)
                   /\ <<p, Ahead(Qs[p]) - 1>> = new(p)
  OBVIOUS
<1>7. ASSUME NEW p \in A, p # h, Going(Ps[p])
      PROVE  /\ old(p) # x /\ new(p) # x /\ old(p) \in Listed(L) /\ new(p) \in Listed(L)
             /\ Older(L, old(p), new(p))
  <2>1. Older(L, old(p), new(p))
    BY <1>7 DEF RecencyOf
  <2>2. QED
    BY <2>1, <1>7 DEF Older, Listed
<1> HIDE DEF old, new
<1>8. ASSUME NEW p \in A, Going(Qs[p])
      PROVE  Older(M, <<p, Ahead(Qs[p]) - 2>>, <<p, Ahead(Qs[p]) - 1>>)
  <2>1. CASE p = h
    BY <2>1, <1>5, <1>6, <1>8
  <2>2. CASE p # h
    <3>1. Going(Ps[p])
      BY <1>8, <2>2
    <3>2. Older(M, old(p), new(p))
      BY <3>1, <2>2, <1>7
    <3>3. QED
      BY <3>2, <1>6
  <2>3. QED
    BY <2>1, <2>2
<1>9. ASSUME NEW p \in A, NEW r \in A, p # r, Going(Qs[p]), Going(Qs[r])
      PROVE  Before(M, p, Qs[p], r, Qs[r])
  <2>0. h \in Nat /\ p \in Nat /\ r \in Nat
    OBVIOUS
  <2>1. CASE p # h /\ r # h
    <3>1. Before(L, p, Ps[p], r, Ps[r]) /\ Qs[p] = Ps[p] /\ Qs[r] = Ps[r]
      BY <1>9, <2>1 DEF RecencyOf
    <3>2. old(p) # x /\ new(p) # x
      BY <1>7, <1>9, <2>1, <3>1
    <3>3. Before(M, p, Ps[p], r, Ps[r])
      BY <3>1, <3>2 DEF Before, old, new
    <3>4. QED
      BY <3>1, <3>3
  <2>2. CASE r = h
    <3>1. p # h /\ Going(Ps[p]) /\ Qs[p] = Ps[p] /\ x = new(h)
      BY <1>5, <1>9, <2>2
    <3>2. /\ old(p) # x /\ new(p) # x /\ old(p) \in Listed(L) /\ new(p) \in Listed(L)
      BY <3>1, <1>7
    <3>3. Older(M, old(p), new(h)) /\ Older(M, new(p), new(h))
      BY <3>1, <3>2
    <3>4. /\ Ahead(Ps[p]) = c /\ p < h => Older(M, old(p), old(h))
          /\ c = Ahead(Ps[p]) + 1 => Older(M, old(p), old(h))
      <4>1. CASE Going(Ps[h])
        <5>1. Before(L, p, Ps[p], h, Ps[h])
          BY <3>1, <4>1 DEF RecencyOf
        <5>2. QED
          BY <5>1, <3>2 DEF Before, old, new
      <4>2. CASE c = 2 /\ E = 3
        <5>1. old(h) = <<h, 0>>
          BY <4>2 DEF old
        <5>2. old(p) # old(h)
          BY <3>1 DEF old
        <5>3. Older(L, old(p), old(h))
          BY <4>2, <3>2, <5>1, <5>2
        <5>4. QED
          BY <5>3, <3>2
      <4>3. QED
        BY <4>1, <4>2, <1>5, <1>9, <2>2
    <3>5. QED
      BY <2>2, <3>1, <3>3, <3>4, <1>6 DEF Before
  <2>3. CASE p = h
    <3>1. r # h /\ Going(Ps[r]) /\ Alive(Ps[r]) /\ Qs[r] = Ps[r]
      BY <1>9, <2>3 DEF Going
    <3>2. InStep(h, e, c, r, Ps[r]) /\ Ahead(Ps[r]) \in Nat /\ Executed(Ps[r]) \in Nat
      <4>1. WellFormed(Ps[r]) /\ InStep(h, e, c, r, Ps[r])
        BY <3>1
      <4>2. QED
        BY <4>1, Numbers
    <3>3. h < r => Executed(Ps[r]) = e /\ Ahead(Ps[r]) = c
      BY <3>2 DEF InStep
    <3>4. ~ (Ahead(Qs[h]) = Ahead(Qs[r]) /\ h < r /\ AtFault(Qs[h]) /\ AtFault(Qs[r]))
      BY <3>1, <3>3, <1>1 DEF AtFault
    <3>5. CASE Going(Ps[h])
      <4>1. Before(L, h, Ps[h], r, Ps[r])
        BY <3>1, <3>5 DEF RecencyOf
      <4>2. old(h) # x
        BY <1>5, <1>9, <2>3
      <4>3. /\ c = Ahead(Ps[r]) /\ h < r =>
                 Older(M, old(h), old(r)) /\ Older(M, old(h), new(r))
            /\ Ahead(Ps[r]) = c + 1 => Older(M, old(h), old(r)) /\ Older(M, old(h), new(r))
            /\ c = Ahead(Ps[r]) /\ Reading(Ps[r]) => Older(M, old(h), new(r))
            /\ c = Ahead(Ps[r]) + 1 /\ h < r /\ AtFault(Ps[r]) => Older(M, old(h), new(r))
        BY <4>1, <4>2 DEF Before, old, new
      <4>4. QED
        BY <2>3, <3>1, <3>4, <4>3, <1>6 DEF Before
    <3>6. CASE c = 2 /\ E = 3
      <4>1. e = 2
        BY <3>6
      <4>2. h < r => Executed(Ps[r]) = 2 /\ Ahead(Ps[r]) = 2
        BY <3>3, <3>6, <4>1
      <4>3. r < h => Executed(Ps[r]) = 4 /\ Ahead(Ps[r]) = 2
        BY <3>2, <3>6, <4>1 DEF InStep, TurnOn
      <4>4. r < h /\ Executed(Ps[r]) = 4 /\ Ahead(Ps[r]) = 2
        BY <4>2, <4>3, <3>1, <2>0 DEF Going
      <4>5. ~Reading(Ps[r])
        BY <4>4 DEF Reading
      <4>6. QED
        BY <2>0, <2>3, <3>1, <3>6, <4>4, <4>5 DEF Before
    <3>7. QED
      BY <3>5, <3>6, <1>5, <1>9, <2>3
  <2>4. QED
    BY <2>1, <2>2, <2>3
<1>10. QED
  BY <1>8, <1>9 DEF RecencyOf

----------------------------------------------------------------------------
(* run_proc.                                                               *)

\* Which pids are admitted, wait, and own listed pages.
LEMMA AdmittedPids ==
    ASSUME ListsOK
    PROVE  /\ Admitted \subseteq Nat /\ Admitted \subseteq Pids
           /\ \A p \in Admitted : p < PID_counter
           /\ Waiting \subseteq Admitted
           /\ \A x \in Listed(LRU_CACHE) : x[1] \in Admitted /\ x = <<x[1], x[2]>>
<1>1. \A p \in Admitted : p \in 1 .. PID_counter - 1
  BY DEF ListsOK, Admitted
<1>2. PID_counter \in 1 .. MaxPid + 1 /\ MaxPid \in Nat
  BY PidAssumption DEF ListsOK
<1>3. \A p \in Admitted : p \in Nat /\ p \in Pids /\ p < PID_counter
  BY <1>1, <1>2 DEF Pids
<1>4. Waiting \subseteq Admitted
  BY DEF ListsOK, Waiting
<1>5. \A x \in Listed(LRU_CACHE) : x[1] \in Admitted /\ x = <<x[1], x[2]>>
  BY DEF ListsOK, Listed
<1>6. QED
  BY <1>3, <1>4, <1>5

\* The next line of a process is in memory, unless it is at a fault.
LEMMA NextLine ==
    ASSUME KernelInv, NEW h \in Admitted, Alive(pcb[h])
    PROVE  LET P == pcb[h]
               i == CurrentPage(P)
               j == P.program_counter[i]
           IN  IF Executed(P) < 3 * Ahead(P)
               THEN /\ P.page_table[i].valid[j]
                    /\ mem[P.page_table[i].index[j]].value = Source(h)[Executed(P) + 1]
                    /\ \E k \in DOMAIN LRU_CACHE : /\ LRU_CACHE[k] = <<h, i>>
                                                   /\ SameFrame(<<h, i>>) = {k}
               ELSE AtFault(P) /\ i = Ahead(P) /\ ~P.page_table[i].valid[j]
<1> DEFINE P == pcb[h]
           i == CurrentPage(P)
           j == P.program_counter[i]
<1>0. WellFormed(P)
  BY DEF KernelInv, ProcsOK
<1>1. /\ Ahead(P) \in Nat /\ Ahead(P) >= 2 /\ Executed(P) \in Nat
      /\ Executed(P) < Total(P) /\ Total(P) \in Nat /\ Executed(P) <= 3 * Ahead(P)
  BY <1>0, Numbers DEF Alive
<1>2. i \in Pages(P) /\ i \in Nat /\ j \in 0 .. 2 /\ Executed(P) = 3 * i + j
  BY <1>0, Current, Numbers
<1>3. Ahead(P) > 2 => Executed(P) >= 3 * (Ahead(P) - 1)
  BY <1>0, <1>1 DEF WellFormed
<1> HIDE DEF i, j
<1>4. CASE Executed(P) < 3 * Ahead(P)
  <2>1. i \in Ahead(P) - 2 .. Ahead(P) - 1
    BY <1>1, <1>2, <1>3, <1>4
  <2>2. <<h, i>> \in Listed(LRU_CACHE)
    BY <2>1, <1>2 DEF Needed, NeededOf, KernelInv, ProcsOK
  <2>3. FramesOf(mem, pcb, LRU_CACHE)
    BY DEF KernelInv, FramesOK
  <2>4. InFrame(mem, h, P, i)
    BY <2>2, <2>3 DEF FramesOf
  <2>5. /\ P.page_table[i].index[j] = Base(P, i) + j
        /\ P.page_table[i].valid[j] = (3 * i + j < Total(P))
        /\ 3 * i + j < Total(P) =>
             mem[Base(P, i) + j].value = P.source_file.line[3 * i + j + 1]
    BY <2>4, <1>2 DEF InFrame
  <2>6. /\ P.page_table[i].valid[j]
        /\ mem[P.page_table[i].index[j]].value = Source(h)[Executed(P) + 1]
    BY <2>5, <1>1, <1>2 DEF Source
  <2>7. PICK k \in DOMAIN LRU_CACHE : LRU_CACHE[k] = <<h, i>>
    BY <2>2 DEF Listed
  <2>8. SameFrame(<<h, i>>) = {k}
    <3>1. \A y \in Listed(LRU_CACHE) : Resident(pcb, y).index[0] = Base(pcb[y[1]], y[2])
      BY DEF Resident, Base
    <3>2. \A y \in Listed(LRU_CACHE) : y # <<h, i>> =>
             Base(pcb[y[1]], y[2]) # Base(P, i)
      <4>1. Base(P, i) \in Nat
        BY <2>4 DEF InFrame
      <4>2. ASSUME NEW y \in Listed(LRU_CACHE), y # <<h, i>>
            PROVE  Base(pcb[y[1]], y[2]) # Base(P, i)
        <5>1. Apart(Base(pcb[y[1]], y[2]), Base(P, i))
          BY <2>2, <2>3, <4>2 DEF FramesOf
        <5>2. QED
          BY <4>1, <5>1 DEF Apart
      <4>3. QED
        BY <4>2
    <3>3. Resident(pcb, <<h, i>>).index[0] = Base(P, i)
      BY DEF Resident, Base
    <3>4. \A m \in DOMAIN LRU_CACHE : LRU_CACHE[m] = <<h, i>> => m = k
      BY <2>7 DEF KernelInv, ListsOK, Distinct
    <3>5. \A m \in DOMAIN LRU_CACHE : LRU_CACHE[m] \in Listed(LRU_CACHE)
      BY DEF Listed
    <3>6. \A m \in DOMAIN LRU_CACHE : m # k =>
             Resident(pcb, LRU_CACHE[m]).index[0] # Resident(pcb, <<h, i>>).index[0]
      BY <3>1, <3>2, <3>3, <3>4, <3>5
    <3>7. QED
      BY <2>7, <3>6 DEF SameFrame
  <2>9. QED
    BY <1>4, <2>6, <2>7, <2>8 DEF i, j
<1>5. CASE ~(Executed(P) < 3 * Ahead(P))
  <2>1. AtFault(P) /\ i = Ahead(P)
    BY <1>1, <1>2, <1>5 DEF AtFault
  <2>2. <<h, i>> \notin Listed(LRU_CACHE)
    <3>1. ASSUME <<h, i>> \in Listed(LRU_CACHE) PROVE i < Ahead(P)
      BY <3>1 DEF KernelInv, FramesOK, FramesOf, InFrame
    <3>2. QED
      BY <2>1, <3>1, <1>1
  <2>3. ~P.page_table[i].valid[j]
    BY <2>2, <1>2 DEF KernelInv, ProcsOK, AbsentOf
  <2>4. QED
    BY <1>5, <2>1, <2>3 DEF i, j
<1>6. QED
  BY <1>4, <1>5

\* A process executes a line.
ExecStep(h, okq, next) ==
    /\ Executed(pcb[h]) < 3 * Ahead(pcb[h])
    /\ SameFrames(mem, mem')
    /\ pcb' = [pcb EXCEPT ![h] = Advanced(pcb[h])]
    /\ ran' = [ran EXCEPT ![h] = Append(ran[h], Source(h)[Executed(pcb[h]) + 1])]
    /\ \E k \in DOMAIN LRU_CACHE :
         /\ LRU_CACHE[k] = <<h, CurrentPage(pcb[h])>>
         /\ LRU_CACHE' = <<LRU_CACHE[k]>> \o Without(LRU_CACHE, k)
    /\ QUEUE' = okq /\ at' = next
    /\ curr' = IF next = "second" THEN h ELSE None

\* A process loads a page, after a page was evicted or from a free frame.
FaultStep(h, q) == AtFault(pcb[h]) /\ PageFault(mem, pcb, h, Ahead(pcb[h]), q) /\ ran' = ran

\* A call of run_proc is one or the other: no command makes it fault, and
\* every executed page is found in the LRU list.
LEMMA RunProc ==
    ASSUME Counted, KernelInv, NEW h \in Admitted, Alive(pcb[h]),
           NEW q, NEW okq, NEW next, run_proc(h, q, okq, next)
    PROVE  /\ ExecStep(h, okq, next) \/ FaultStep(h, q)
           /\ UNCHANGED <<ALL_PCB, PID_counter, todo>>
<1> DEFINE P     == pcb[h]
           i     == CurrentPage(P)
           j     == P.program_counter[i]
           valid == P.page_table[i].valid[j]
           found == IF valid THEN mem[P.page_table[i].index[j]].value ELSE None
           c     == IF found = None THEN [op |-> "none"] ELSE found
           fault == ~valid \/ Returns1(c)
           m     == IF valid THEN interpreter(mem, c) ELSE mem
           Ps    == IF valid THEN [pcb EXCEPT ![h] = Advanced(P)] ELSE pcb
<1>1. /\ ran' = IF valid THEN [ran EXCEPT ![h] = Append(@, found)] ELSE ran
      /\ \/ fault /\ PageFault(m, Ps, h, i, q)
         \/ /\ ~fault
            /\ mem' = m
            /\ pcb' = Ps
            /\ Touch(<<h, i>>)
            /\ at' = IF SameFrame(<<h, i>>) = {} THEN "exit" ELSE next
            /\ QUEUE' = okq
            /\ curr' = IF next = "second" THEN h ELSE None
      /\ UNCHANGED <<ALL_PCB, PID_counter, todo>>
  BY DEF run_proc
<1>2. CASE Executed(P) < 3 * Ahead(P)
  <2>1. PICK k \in DOMAIN LRU_CACHE :
            /\ valid
            /\ found = Source(h)[Executed(P) + 1]
            /\ LRU_CACHE[k] = <<h, i>> /\ SameFrame(<<h, i>>) = {k}
    BY <1>2, NextLine
  <2>2. ~fault
    <3>0. WellFormed(P)
      BY DEF KernelInv, ProcsOK
    <3>1. Executed(P) + 1 \in 1 .. Total(P) /\ P.source_file \in Scripts
      <4>1. P.source_file \in Scripts
        BY <3>0 DEF WellFormed
      <4>2. QED
        BY <3>0, <4>1, Numbers DEF Alive
    <3>2. ~Returns1(Source(h)[Executed(P) + 1])
      BY <3>1 DEF Counted, Source, Total
    <3>3. ~Returns1([op |-> "none"])
      BY DEF Returns1
    <3> HIDE DEF found, valid, P
    <3>4. QED
      BY <2>1, <3>2, <3>3
  <2>3. FirstOf({k}) = k
    BY DEF FirstOf
  <2>4. LRU_CACHE' = <<LRU_CACHE[k]>> \o Without(LRU_CACHE, k)
    BY <1>1, <2>1, <2>2, <2>3 DEF Touch
  <2>5. SameFrames(mem, mem')
    <3>1. mem' = interpreter(mem, c)
      BY <1>1, <2>1, <2>2
    <3>2. mem = [l \in Mem |-> mem[l]]
      BY DEF KernelInv, ListsOK
    <3> HIDE DEF c
    <3>3. SameFrames(mem, interpreter(mem, c))
      BY <3>2, InterpreterFrames
    <3>4. QED
      BY <3>1, <3>3
  <2>6. /\ ran' = [ran EXCEPT ![h] = Append(ran[h], Source(h)[Executed(P) + 1])]
        /\ pcb' = [pcb EXCEPT ![h] = Advanced(P)]
        /\ at' = next /\ QUEUE' = okq
        /\ curr' = IF next = "second" THEN h ELSE None
    <3> HIDE DEF found, c
    <3>1. QED
      BY <1>1, <2>1, <2>2
  <2>7. QED
    BY <1>1, <1>2, <2>1, <2>4, <2>5, <2>6 DEF ExecStep
<1>3. CASE ~(Executed(P) < 3 * Ahead(P))
  <2>1. AtFault(P) /\ i = Ahead(P) /\ ~valid
    BY <1>3, NextLine
  <2>2. PageFault(mem, pcb, h, Ahead(P), q) /\ ran' = ran
    BY <1>1, <2>1
  <2>3. QED
    BY <1>1, <2>1, <2>2 DEF FaultStep
<1>4. QED
  BY <1>2, <1>3

\* A page that has an unread line stays loaded as long as it has one.
UnreadKept(P, Q) ==
    \A i \in Pages(P), j \in 0 .. 2 :
        P.page_table[i].valid[j] /\ j >= Q.program_counter[i] => Q.page_table[i].valid[j]

\* What a call of run_proc for process h does, wherever the call is.
RunEffects(h) ==
    /\ mem' = [l \in Mem |-> mem'[l]]
    /\ pcb' = [p \in Pids |-> pcb'[p]] /\ ran' = [p \in Pids |-> ran'[p]]
    /\ LRU_CACHE' \in Seq(Admitted \X Nat) /\ Distinct(LRU_CACHE') /\ LRU_CACHE' # <<>>
    /\ \A p \in Admitted :
         /\ WellFormed(pcb'[p]) /\ UnreadKept(pcb[p], pcb'[p])
         /\ ran'[p] = [k \in 1 .. Executed(pcb'[p]) |-> pcb'[p].source_file.line[k]]
         /\ p # h => SameTurn(pcb[p], pcb'[p])
    /\ \A p \in Pids : p \notin Admitted => ran'[p] = ran[p]
    /\ NeededOf(Admitted, pcb', LRU_CACHE') /\ AbsentOf(Admitted, pcb', LRU_CACHE')
    /\ FramesOf(mem', pcb', LRU_CACHE')
    /\ RecencyOf(Admitted, pcb', LRU_CACHE')

\* The others compare with h as at the beginning of its turn, when it had
\* executed e lines.
Turn(h, e) ==
    /\ e \in {Executed(pcb[h]) - 1, Executed(pcb[h])}
    /\ \A r \in Admitted : r # h /\ Alive(pcb[r]) => InStep(h, e, Ahead(pcb[h]), r, pcb[r])
    /\ Ahead(pcb[h]) = 2 /\ Executed(pcb[h]) = 3 =>
         e = 2 /\ LRU_CACHE # <<>> /\ LRU_CACHE[1] = <<h, 0>>

\* The first page of the LRU list was used after every other.
LEMMA AheadOfFirst ==
    ASSUME NEW S, NEW L \in Seq(S), Distinct(L), L # <<>>, NEW a \in Listed(L), a # L[1]
    PROVE  Older(L, a, L[1])
<1>1. PICK k \in DOMAIN L : L[k] = a
  BY DEF Listed
<1>2. 1 \in DOMAIN L /\ 1 < k
  BY <1>1
<1>3. QED
  BY <1>1, <1>2 DEF Older

\* What is true after process h executed a line in its turn.
LEMMA ExecEffects ==
    ASSUME KernelInv, NEW h \in Admitted, Alive(pcb[h]), NEW e, Turn(h, e),
           NEW okq, NEW next, ExecStep(h, okq, next)
    PROVE  /\ RunEffects(h)
           /\ Executed(pcb'[h]) = Executed(pcb[h]) + 1 /\ Ahead(pcb'[h]) = Ahead(pcb[h])
           /\ pcb'[h].size = pcb[h].size - 1
           /\ LRU_CACHE'[1] = <<h, CurrentPage(pcb[h])>>
<1> DEFINE P == pcb[h]
           Q == Advanced(P)
           x == <<h, CurrentPage(P)>>
<1>0. \A p \in Admitted : WellFormed(pcb[p])
  BY DEF KernelInv, ProcsOK
<1>1. /\ WellFormed(Q)
      /\ Executed(Q) = Executed(P) + 1 /\ Ahead(Q) = Ahead(P) /\ Q.size = P.size - 1
      /\ Q.page_table = P.page_table /\ Q.source_file = P.source_file
      /\ \A k \in Pages(P) : P.program_counter[k] <= Q.program_counter[k]
  BY <1>0, AdvancedProc DEF ExecStep
<1>2. Admitted \subseteq Pids /\ Admitted \subseteq Nat /\ h \in Pids
  BY AdmittedPids DEF KernelInv
<1> HIDE DEF Q
<1>3. /\ pcb' = [p \in Pids |-> pcb'[p]]
      /\ pcb'[h] = Q /\ \A p \in Admitted : p # h => pcb'[p] = pcb[p]
  <2>1. pcb' = [pcb EXCEPT ![h] = Q] /\ pcb = [p \in Pids |-> pcb[p]]
    BY DEF ExecStep, Q, KernelInv, ListsOK
  <2>2. QED
    BY <2>1, <1>2
<1>4. Pages(Q) = Pages(P) /\ Total(Q) = Total(P)
  BY <1>1 DEF Pages, Total
<1>5. PICK w \in DOMAIN LRU_CACHE :
         LRU_CACHE[w] = x /\ LRU_CACHE' = <<LRU_CACHE[w]>> \o Without(LRU_CACHE, w)
  BY DEF ExecStep
<1>6. LRU_CACHE \in Seq(Admitted \X Nat) /\ Distinct(LRU_CACHE)
  BY DEF KernelInv, ListsOK
<1>7. /\ LRU_CACHE' \in Seq(Admitted \X Nat) /\ Distinct(LRU_CACHE')
      /\ Listed(LRU_CACHE') = Listed(LRU_CACHE)
      /\ LRU_CACHE' # <<>> /\ LRU_CACHE'[1] = x
      /\ \A a, b : a # x /\ Older(LRU_CACHE, a, b) => Older(LRU_CACHE', a, b)
      /\ \A a \in Listed(LRU_CACHE) : a # x => Older(LRU_CACHE', a, x)
  BY <1>5, <1>6, MoveToFront
<1>8. NeededOf(Admitted, pcb', LRU_CACHE')
  <2>1. NeededOf(Admitted, pcb, LRU_CACHE)
    BY DEF KernelInv, ProcsOK
  <2>2. \A i : Needed(Q, i) => Needed(P, i)
    <3>1. Alive(P)
      OBVIOUS
    <3>2. QED
      BY <3>1, <1>1, <1>4 DEF Needed
  <2>3. QED
    BY <1>3, <1>4, <1>7, <2>1, <2>2 DEF NeededOf
<1>9. AbsentOf(Admitted, pcb', LRU_CACHE')
  <2>1. AbsentOf(Admitted, pcb, LRU_CACHE)
    BY DEF KernelInv, ProcsOK
  <2>2. QED
    BY <1>1, <1>3, <1>4, <1>7, <2>1 DEF AbsentOf
<1>10. FramesOf(mem', pcb', LRU_CACHE') /\ mem' = [l \in Mem |-> mem'[l]]
  <2>1. FramesOf(mem, pcb, LRU_CACHE)
    BY DEF KernelInv, FramesOK
  <2>2. ASSUME NEW y \in Listed(LRU_CACHE)
        PROVE  Stays(pcb[y[1]], pcb'[y[1]], y[2])
    <3>1. y[1] \in Admitted
      BY AdmittedPids DEF KernelInv
    <3>2. y[2] \in Pages(pcb[y[1]]) /\ y[2] < Ahead(pcb[y[1]])
      BY <2>1 DEF FramesOf, InFrame
    <3>3. CASE y[1] = h
      BY <3>2, <3>3, <1>1, <1>3, <1>4 DEF Stays
    <3>4. CASE y[1] # h
      BY <3>1, <3>2, <3>4, <1>3 DEF Stays
    <3>5. QED
      BY <3>3, <3>4
  <2>3. SameFrames(mem, mem')
    BY DEF ExecStep
  <2>4. FramesOf(mem', pcb', LRU_CACHE')
    BY <1>7, <2>1, <2>2, <2>3, FramesKept
  <2>5. QED
    BY <2>3, <2>4 DEF SameFrames
<1>11. RecencyOf(Admitted, pcb', LRU_CACHE')
  <2>1. NeededOf(Admitted, pcb, LRU_CACHE) /\ RecencyOf(Admitted, pcb, LRU_CACHE)
    BY DEF KernelInv, ProcsOK, Recency
  <2>2. Executed(P) < 3 * Ahead(P)
    BY DEF ExecStep
  <2>3. e \in {Executed(P) - 1, Executed(P)}
        /\ \A r \in Admitted : r # h /\ Alive(pcb[r]) => InStep(h, e, Ahead(P), r, pcb[r])
    BY DEF Turn
  <2>4. Ahead(P) = 2 /\ Executed(P) = 3 =>
             e = 2 /\ \A a \in Listed(LRU_CACHE) : a # <<h, 0>> => Older(LRU_CACHE, a, <<h, 0>>)
    BY <1>6, AheadOfFirst DEF Turn
  <2> HIDE DEF P, x
  <2>5. /\ Executed(pcb'[h]) = Executed(pcb[h]) + 1 /\ Ahead(pcb'[h]) = Ahead(pcb[h])
        /\ pcb'[h].size = pcb[h].size - 1
        /\ x = <<h, CurrentPage(pcb[h])>>
    BY <1>1, <1>3 DEF P, x
  <2>6. QED
    BY <1>0, <1>2, <1>3, <1>7, <2>1, <2>2, <2>3, <2>4, <2>5, RecencyExec DEF P
<1>12. /\ ran' = [p \in Pids |-> ran'[p]]
       /\ ran'[h] = Append(ran[h], Source(h)[Executed(P) + 1])
       /\ \A p \in Pids : p # h => ran'[p] = ran[p]
  <2>1. /\ ran' = [ran EXCEPT ![h] = Append(ran[h], Source(h)[Executed(P) + 1])]
        /\ ran = [p \in Pids |-> ran[p]]
    BY DEF ExecStep, KernelInv, ListsOK
  <2>2. QED
    BY <2>1, <1>2
<1>13. \A p \in Admitted :
          ran'[p] = [k \in 1 .. Executed(pcb'[p]) |-> pcb'[p].source_file.line[k]]
  <2>1. \A p \in Admitted :
           ran[p] = [k \in 1 .. Executed(pcb[p]) |-> pcb[p].source_file.line[k]]
    BY DEF KernelInv, ProcsOK, Source
  <2>2. ran'[h] = [k \in 1 .. Executed(Q) |-> Q.source_file.line[k]]
    <3> DEFINE n == Executed(P)
               s == P.source_file.line
    <3>1. n \in Nat
      BY <1>0, Numbers
    <3>2. ran'[h] = Append([k \in 1 .. n |-> s[k]], s[n + 1])
      BY <1>12, <2>1 DEF Source
    <3> HIDE DEF n, s
    <3>3. Append([k \in 1 .. n |-> s[k]], s[n + 1]) = [k \in 1 .. n + 1 |-> s[k]]
      BY <3>1
    <3>4. QED
      BY <3>2, <3>3, <1>1 DEF n, s
  <2>3. ASSUME NEW p \in Admitted, p # h
        PROVE  ran'[p] = [k \in 1 .. Executed(pcb'[p]) |-> pcb'[p].source_file.line[k]]
    <3>1. ran'[p] = ran[p] /\ pcb'[p] = pcb[p]
      BY <1>2, <1>3, <1>12, <2>3
    <3>2. QED
      BY <2>1, <3>1
  <2>4. pcb'[h] = Q
    BY <1>3
  <2>5. ran'[h] = [k \in 1 .. Executed(pcb'[h]) |-> pcb'[h].source_file.line[k]]
    BY <2>2, <2>4
  <2>6. QED
    BY <2>3, <2>5
<1>14. ASSUME NEW p \in Admitted
       PROVE  /\ WellFormed(pcb'[p]) /\ UnreadKept(pcb[p], pcb'[p])
              /\ p # h => SameTurn(pcb[p], pcb'[p])
  BY <1>0, <1>1, <1>3 DEF UnreadKept, SameTurn
<1>15. RunEffects(h)
  BY <1>2, <1>3, <1>7, <1>8, <1>9, <1>10, <1>11, <1>12, <1>13, <1>14 DEF RunEffects
<1>16. QED
  BY <1>1, <1>3, <1>7, <1>15

\* Memory m, processes Ps and list L are what they were except that page v, if
\* it was listed, has left its frame.
Cleared(m, Ps, L, v) ==
    /\ m = [l \in Mem |-> m[l]] /\ Ps = [p \in Pids |-> Ps[p]]
    /\ L \in Seq(Admitted \X Nat) /\ Distinct(L)
    /\ Listed(L) = Listed(LRU_CACHE) \ {v}
    /\ \A a, b : a # v /\ b # v /\ Older(LRU_CACHE, a, b) => Older(L, a, b)
    /\ \A a, b : Older(LRU_CACHE, a, b) => b # v
    /\ FramesOf(m, Ps, L) /\ AbsentOf(Admitted, Ps, L)
    /\ \A p \in Admitted :
         /\ WellFormed(Ps[p]) /\ SameTurn(pcb[p], Ps[p]) /\ Pages(Ps[p]) = Pages(pcb[p])
         /\ Ps[p].source_file = pcb[p].source_file
         /\ Ps[p].program_counter = pcb[p].program_counter
         /\ \A i \in Pages(pcb[p]) :
              <<p, i>> # v => Ps[p].page_table[i] = pcb[p].page_table[i]

\* Nothing is evicted while there is a free frame.
LEMMA ClearedFree ==
    ASSUME KernelInv, NEW v, v \notin Listed(LRU_CACHE)
    PROVE  Cleared(mem, pcb, LRU_CACHE, v)
<1>1. /\ mem = [l \in Mem |-> mem[l]] /\ pcb = [p \in Pids |-> pcb[p]]
      /\ LRU_CACHE \in Seq(Admitted \X Nat) /\ Distinct(LRU_CACHE)
      /\ FramesOf(mem, pcb, LRU_CACHE) /\ AbsentOf(Admitted, pcb, LRU_CACHE)
  BY DEF KernelInv, ListsOK, FramesOK, ProcsOK
<1>2. \A p \in Admitted : WellFormed(pcb[p]) /\ SameTurn(pcb[p], pcb[p])
  BY DEF KernelInv, ProcsOK, SameTurn
<1>3. \A a, b : Older(LRU_CACHE, a, b) => b # v
  BY DEF Older, Listed
<1>4. QED
  BY <1>1, <1>2, <1>3 DEF Cleared

\* The last page of the LRU list is evicted, which makes place for another.
LEMMA ClearedEvict ==
    ASSUME KernelInv, LRU_CACHE # <<>>
    PROVE  LET k == Len(LRU_CACHE)
               v == LRU_CACHE[k]
               m == EvictedMem(mem, pcb[v[1]], v[2])
               Ps == [pcb EXCEPT ![v[1]] = EvictedPCB(pcb[v[1]], v[2])]
           IN  Cleared(m, Ps, Without(LRU_CACHE, k), v) /\ frame_alloc(m) # {}
<1> DEFINE k == Len(LRU_CACHE)
           v == LRU_CACHE[k]
           q == v[1]
           m == EvictedMem(mem, pcb[v[1]], v[2])
           R == EvictedPCB(pcb[v[1]], v[2])
           Ps == [pcb EXCEPT ![v[1]] = R]
           L == Without(LRU_CACHE, k)
<1>1. /\ mem = [l \in Mem |-> mem[l]] /\ pcb = [p \in Pids |-> pcb[p]]
      /\ LRU_CACHE \in Seq(Admitted \X Nat) /\ Distinct(LRU_CACHE)
      /\ FramesOf(mem, pcb, LRU_CACHE) /\ AbsentOf(Admitted, pcb, LRU_CACHE)
  BY DEF KernelInv, ListsOK, FramesOK, ProcsOK
<1>2. k \in DOMAIN LRU_CACHE /\ v \in Listed(LRU_CACHE)
  BY <1>1 DEF Listed
<1>3. q \in Admitted /\ q \in Pids /\ v = <<q, v[2]>>
  BY <1>2, AdmittedPids DEF KernelInv
<1>4. /\ L \in Seq(Admitted \X Nat) /\ Distinct(L) /\ Listed(L) = Listed(LRU_CACHE) \ {v}
      /\ \A a, b : a # v /\ b # v /\ Older(LRU_CACHE, a, b) => Older(L, a, b)
  BY <1>1, <1>2, Take
<1>5. \A a, b : Older(LRU_CACHE, a, b) => b # v
  BY <1>1, LastIsOldest
<1>6. \A p \in Admitted : WellFormed(pcb[p])
  BY DEF KernelInv, ProcsOK
<1>7. v[2] \in Pages(pcb[q]) /\ 0 \in Frame
  <2>1. InFrame(mem, q, pcb[q], v[2])
    BY <1>1, <1>2 DEF FramesOf
  <2>2. 0 \in Frame
    BY <2>1, FrameLines
  <2>3. QED
    BY <2>1, <2>2 DEF InFrame
<1>8. /\ WellFormed(R)
      /\ Executed(R) = Executed(pcb[q]) /\ Ahead(R) = Ahead(pcb[q]) /\ R.size = pcb[q].size
      /\ R.source_file = pcb[q].source_file /\ R.program_counter = pcb[q].program_counter
      /\ R.page_table = [pcb[q].page_table EXCEPT ![v[2]] = NoPage]
  BY <1>3, <1>6, <1>7, EvictedProc
<1> HIDE DEF R, v
<1>9. Ps = [p \in Pids |-> Ps[p]] /\ Ps[q] = R /\ \A p \in Pids : p # q => Ps[p] = pcb[p]
  BY <1>1, <1>3
<1> HIDE DEF Ps, L, k
<1>10. /\ Pages(R) = Pages(pcb[q])
       /\ \A i \in Pages(pcb[q]) : i # v[2] => R.page_table[i] = pcb[q].page_table[i]
       /\ R.page_table[v[2]] = NoPage
  BY <1>7, <1>8 DEF Pages
<1>11. ASSUME NEW p \in Admitted
       PROVE  /\ WellFormed(Ps[p]) /\ SameTurn(pcb[p], Ps[p]) /\ Pages(Ps[p]) = Pages(pcb[p])
              /\ Ps[p].source_file = pcb[p].source_file
              /\ Ps[p].program_counter = pcb[p].program_counter
              /\ \A i \in Pages(pcb[p]) :
                    <<p, i>> # v => Ps[p].page_table[i] = pcb[p].page_table[i]
  <2>1. CASE p = q
    <3>1. \A i : <<p, i>> # v => i # v[2]
      BY <2>1, <1>3
    <3>2. QED
      BY <2>1, <3>1, <1>8, <1>9, <1>10 DEF SameTurn
  <2>2. CASE p # q
    <3>1. Ps[p] = pcb[p]
      BY <2>2, <1>9, AdmittedPids DEF KernelInv
    <3>2. QED
      BY <3>1, <1>6 DEF SameTurn
  <2>3. QED
    BY <2>1, <2>2
<1>12. AbsentOf(Admitted, Ps, L)
  <2> SUFFICES ASSUME NEW p \in Admitted, NEW i \in Pages(Ps[p]), <<p, i>> \notin Listed(L),
                      NEW j \in 0 .. 2
               PROVE  ~Ps[p].page_table[i].valid[j]
    BY DEF AbsentOf
  <2>1. CASE <<p, i>> = v
    <3>1. p = q /\ i = v[2]
      BY <2>1, <1>3
    <3>2. Ps[p].page_table[i] = NoPage
      BY <3>1, <1>9, <1>10
    <3>3. QED
      BY <3>2 DEF NoPage
  <2>2. CASE <<p, i>> # v
    <3>1. i \in Pages(pcb[p]) /\ Ps[p].page_table[i] = pcb[p].page_table[i]
      BY <2>2, <1>11
    <3>2. <<p, i>> \notin Listed(LRU_CACHE)
      BY <2>2, <1>4
    <3>3. QED
      BY <3>1, <3>2, <1>1 DEF AbsentOf
  <2>3. QED
    BY <2>1, <2>2
<1>13. ASSUME NEW y \in Listed(L)
       PROVE  Stays(pcb[y[1]], Ps[y[1]], y[2])
  <2>1. y \in Listed(LRU_CACHE) /\ y # v
    BY <1>4
  <2>2. y[1] \in Admitted /\ y = <<y[1], y[2]>>
    BY <2>1, AdmittedPids DEF KernelInv
  <2>3. y[2] \in Pages(pcb[y[1]]) /\ y[2] < Ahead(pcb[y[1]])
    BY <2>1, <1>1 DEF FramesOf, InFrame
  <2>4. QED
    BY <2>1, <2>2, <2>3, <1>11 DEF SameTurn, Stays
<1>14. FramesOf(m, Ps, L) /\ m = [l \in Mem |-> m[l]] /\ frame_alloc(m) # {}
  <2>1. IsMemory(mem) /\ FramesOf(mem, pcb, LRU_CACHE) /\ Listed(L) = Listed(LRU_CACHE) \ {v}
    BY <1>1, <1>4 DEF IsMemory
  <2>2. FramesOf(m, Ps, L) /\ IsMemory(m) /\ frame_alloc(m) # {}
    BY <2>1, <1>2, <1>13, FramesEvict
  <2> HIDE DEF m
  <2>3. QED
    BY <2>2 DEF IsMemory
<1>15. Cleared(m, Ps, L, v) /\ frame_alloc(m) # {}
  <2> HIDE DEF m
  <2>1. QED
    BY <1>4, <1>5, <1>9, <1>11, <1>12, <1>14 DEF Cleared
<1>16. QED
  BY <1>15 DEF v, R, Ps, L, k

\* A page that is evicted when h faults has no unread line.
LEMMA VictimRead ==
    ASSUME NEW P, WellFormed(P), NEW i \in Pages(P), i < Ahead(P),
           ~Needed(P, i) \/ (AtFault(P) /\ i = Ahead(P) - 2), NEW j \in 0 .. 2, 3 * i + j < Total(P)
    PROVE  j < P.program_counter[i]
<1>1. /\ Ahead(P) \in Nat /\ Ahead(P) >= 2 /\ Executed(P) \in Nat /\ i \in Nat
      /\ Total(P) \in Nat /\ P.size \in Nat /\ P.size = Total(P) - Executed(P)
  BY Numbers
<1>2. P.program_counter[i] = Behind(Executed(P) - 3 * i)
  BY DEF WellFormed
<1>3. j < Executed(P) - 3 * i
  <2>1. CASE AtFault(P) /\ i = Ahead(P) - 2
    BY <2>1, <1>1 DEF AtFault
  <2>2. CASE ~Alive(P)
    BY <2>2, <1>1 DEF Alive
  <2>3. CASE Alive(P) /\ ~Needed(P, i)
    <3>1. i < Ahead(P) - 2
      BY <2>3, <1>1 DEF Needed
    <3>2. Executed(P) >= 3 * (Ahead(P) - 1)
      BY <2>3, <3>1, <1>1 DEF WellFormed
    <3>3. QED
      BY <3>1, <3>2, <1>1
  <2>4. QED
    BY <2>1, <2>2, <2>3
<1>4. QED
  BY <1>1, <1>2, <1>3 DEF Behind

\* h loads the page it faulted on at frame f.
Load(h, m, Ps, L, f) ==
    /\ mem' = LoadedMem(m, h, Ps[h], f)
    /\ pcb' = [Ps EXCEPT ![h] = LoadedPCB(Ps[h], Ahead(pcb[h]), f)]
    /\ LRU_CACHE' = <<<<h, Ahead(pcb[h])>>>> \o L
    /\ ran' = ran

\* What is true after process h loaded a page.
LEMMA LoadEffects ==
    ASSUME KernelInv, NEW h \in Admitted, Alive(pcb[h]), AtFault(pcb[h]), NEW e, Turn(h, e),
           NEW m, NEW Ps, NEW L, NEW v, Cleared(m, Ps, L, v),
           v = <<h, Ahead(pcb[h])>> \/ v \in Listed(LRU_CACHE),
           NEW f \in frame_alloc(m), Load(h, m, Ps, L, f)
    PROVE  /\ RunEffects(h)
           /\ Executed(pcb'[h]) = Executed(pcb[h]) /\ Ahead(pcb'[h]) = Ahead(pcb[h]) + 1
           /\ pcb'[h].size = pcb[h].size
<1> DEFINE P == Ps[h]
           c == Ahead(pcb[h])
           Q == LoadedPCB(P, c, f)
           x == <<h, c>>
<1>0. /\ \A p \in Admitted : WellFormed(pcb[p])
      /\ FramesOf(mem, pcb, LRU_CACHE) /\ AbsentOf(Admitted, pcb, LRU_CACHE)
      /\ NeededOf(Admitted, pcb, LRU_CACHE) /\ RecencyOf(Admitted, pcb, LRU_CACHE)
  BY DEF KernelInv, ProcsOK, FramesOK, Recency
<1>1. /\ m = [l \in Mem |-> m[l]] /\ Ps = [p \in Pids |-> Ps[p]]
      /\ L \in Seq(Admitted \X Nat) /\ Distinct(L)
      /\ Listed(L) = Listed(LRU_CACHE) \ {v}
      /\ \A a, b : a # v /\ b # v /\ Older(LRU_CACHE, a, b) => Older(L, a, b)
      /\ \A a, b : Older(LRU_CACHE, a, b) => b # v
      /\ FramesOf(m, Ps, L) /\ AbsentOf(Admitted, Ps, L)
  BY DEF Cleared
<1>2. \A p \in Admitted :
         /\ WellFormed(Ps[p]) /\ SameTurn(pcb[p], Ps[p]) /\ Pages(Ps[p]) = Pages(pcb[p])
         /\ Ps[p].source_file = pcb[p].source_file
         /\ Ps[p].program_counter = pcb[p].program_counter
         /\ \A i \in Pages(pcb[p]) :
              <<p, i>> # v => Ps[p].page_table[i] = pcb[p].page_table[i]
  BY DEF Cleared
<1>3. /\ f \in Nat /\ f + 2 \in Frame
  BY AllocPlace
<1>4. /\ WellFormed(P) /\ Alive(P) /\ AtFault(P) /\ Ahead(P) = c
      /\ Executed(P) = Executed(pcb[h]) /\ P.size = pcb[h].size /\ Pages(P) = Pages(pcb[h])
  BY <1>2 DEF SameTurn, Alive, AtFault
<1>5. c \in Nat /\ c >= 2 /\ Executed(pcb[h]) = 3 * c
  BY <1>0, Numbers DEF AtFault
<1>6. /\ WellFormed(Q) /\ c \in Pages(P)
      /\ Executed(Q) = Executed(P) /\ Ahead(Q) = c + 1
      /\ Q.size = P.size /\ Q.source_file = P.source_file
      /\ Q.program_counter = P.program_counter
      /\ Q.page_table = [P.page_table EXCEPT ![c] = LoadedPage(P, c, f)]
      /\ \A j \in 0 .. 2 : Fetched(P, j) => P.pos + j + 1 = 3 * c + j + 1
      /\ \A j \in 0 .. 2 : Fetched(P, j) <=> 3 * c + j < Total(P)
  BY <1>3, <1>4, LoadedProc
<1>7. Admitted \subseteq Pids /\ Admitted \subseteq Nat /\ h \in Pids
  BY AdmittedPids DEF KernelInv
<1> HIDE DEF Q, P, c
<1>8. /\ pcb' = [p \in Pids |-> pcb'[p]]
      /\ pcb'[h] = Q /\ \A p \in Admitted : p # h => pcb'[p] = Ps[p]
  <2>1. pcb' = [Ps EXCEPT ![h] = Q]
    BY DEF P, Q, c, Load
  <2>2. QED
    BY <2>1, <1>1, <1>7
<1>9. /\ Pages(Q) = Pages(P) /\ Total(Q) = Total(P)
      /\ Q.page_table[c] = LoadedPage(P, c, f)
      /\ \A i \in Pages(P) : i # c => Q.page_table[i] = P.page_table[i]
  BY <1>6 DEF Pages, Total
<1>10. x \notin Listed(LRU_CACHE)
  <2>1. ASSUME x \in Listed(LRU_CACHE) PROVE c < Ahead(pcb[h])
    BY <2>1, <1>0 DEF FramesOf, InFrame
  <2>2. QED
    BY <2>1, <1>5 DEF c
<1>11. /\ LRU_CACHE' \in Seq(Admitted \X Nat) /\ Distinct(LRU_CACHE')
       /\ Listed(LRU_CACHE') = Listed(L) \cup {x}
       /\ \A a, b : Older(L, a, b) => Older(LRU_CACHE', a, b)
       /\ \A a \in Listed(L) : Older(LRU_CACHE', a, x)
  <2>1. LRU_CACHE' = <<x>> \o L
    BY DEF c, Load
  <2>2. x \in Admitted \X Nat /\ x \notin Listed(L)
    BY <1>1, <1>5, <1>10
  <2> HIDE DEF x
  <2> DEFINE M == <<x>> \o L
  <2>3. /\ M \in Seq(Admitted \X Nat) /\ Distinct(M) /\ Listed(M) = Listed(L) \cup {x}
        /\ \A a, b : Older(L, a, b) => Older(M, a, b)
        /\ \A a \in Listed(L) : Older(M, a, x)
    BY <1>1, <2>2, Push
  <2> HIDE DEF M
  <2>4. QED
    BY <2>1, <2>3 DEF M
<1>12. LRU_CACHE' # <<>>
  BY <1>11 DEF Listed
<1>13. ASSUME NEW p \in Admitted, NEW i, Needed(pcb[p], i), <<p, i>> # <<h, c - 2>>
       PROVE  <<p, i>> # v
  <2>1. Older(LRU_CACHE, <<h, c - 2>>, <<p, i>>)
    BY <1>0, <1>7, <1>13, Spared DEF Turn, c
  <2>2. QED
    BY <2>1, <1>1
<1>14. NeededOf(Admitted, pcb', LRU_CACHE')
  <2> SUFFICES ASSUME NEW p \in Admitted, NEW i \in Pages(pcb'[p]), Needed(pcb'[p], i)
               PROVE  <<p, i>> \in Listed(LRU_CACHE')
    BY DEF NeededOf
  <2>1. CASE p = h
    <3>1. i \in Pages(P) /\ (i = c \/ i = c - 1)
      BY <2>1, <1>5, <1>6, <1>8, <1>9 DEF Needed
    <3>2. CASE i = c
      BY <2>1, <3>2, <1>11
    <3>3. CASE i = c - 1
      <4>1. Needed(pcb[h], i) /\ i \in Pages(pcb[h])
        BY <3>1, <3>3, <1>4, <1>5 DEF Needed, c
      <4>2. <<h, i>> # v
        BY <4>1, <3>3, <1>5, <1>13
      <4>3. <<h, i>> \in Listed(LRU_CACHE)
        BY <4>1, <1>0 DEF NeededOf
      <4>4. QED
        BY <2>1, <4>2, <4>3, <1>1, <1>11
    <3>4. QED
      BY <3>1, <3>2, <3>3
  <2>2. CASE p # h
    <3>1. Needed(pcb[p], i) /\ i \in Pages(pcb[p])
      BY <2>2, <1>2, <1>8 DEF Needed, SameTurn, Alive
    <3>2. <<p, i>> # v
      BY <2>2, <3>1, <1>13
    <3>3. QED
      BY <3>1, <3>2, <1>0, <1>1, <1>11 DEF NeededOf
  <2>3. QED
    BY <2>1, <2>2
<1>15. AbsentOf(Admitted, pcb', LRU_CACHE')
  <2> SUFFICES ASSUME NEW p \in Admitted, NEW i \in Pages(pcb'[p]),
                      <<p, i>> \notin Listed(LRU_CACHE'), NEW j \in 0 .. 2
               PROVE  ~pcb'[p].page_table[i].valid[j]
    BY DEF AbsentOf
  <2>1. <<p, i>> \notin Listed(L) /\ <<p, i>> # x
    BY <1>11
  <2>2. CASE p = h
    <3>1. i # c /\ i \in Pages(P)
      BY <2>1, <2>2, <1>8, <1>9
    <3>2. ~P.page_table[i].valid[j]
      BY <2>1, <2>2, <3>1, <1>1 DEF AbsentOf, P
    <3>3. QED
      BY <2>2, <3>1, <3>2, <1>8, <1>9
  <2>3. CASE p # h
    BY <2>1, <2>3, <1>1, <1>8 DEF AbsentOf
  <2>4. QED
    BY <2>2, <2>3
<1>16. /\ mem' = [l \in Mem |-> mem'[l]]
       /\ \A l \in Mem : l \notin f .. f + 2 => mem'[l] = m[l]
       /\ \A j \in 0 .. 2 :
            /\ mem'[f + j].var = h
            /\ Fetched(P, j) => mem'[f + j].value = P.source_file.line[P.pos + j + 1]
  <2>1. mem' = LoadedMem(m, h, P, f)
    BY DEF P, Load
  <2> DEFINE n == LoadedMem(m, h, P, f)
  <2>2. m = [l \in Mem |-> m[l]]
    BY <1>1
  <2>3. /\ n = [l \in Mem |-> n[l]]
        /\ \A l \in Mem : l \notin f .. f + 2 => n[l] = m[l]
        /\ \A j \in 0 .. 2 :
             /\ n[f + j].var = h
             /\ Fetched(P, j) => n[f + j].value = P.source_file.line[P.pos + j + 1]
    BY <2>2, <1>3, LoadedLines
  <2> HIDE DEF n
  <2>4. QED
    BY <2>1, <2>3 DEF n
<1>17. InFrame(mem', h, Q, c) /\ Base(Q, c) = f
  <2>1. Q.page_table[c] = [index |-> [j \in 0 .. 2 |-> f + j],
                           valid |-> [j \in 0 .. 2 |-> 3 * c + j < Total(Q)]]
    BY <1>9 DEF LoadedPage
  <2>2. Base(Q, c) = f
    BY <2>1, <1>3 DEF Base
  <2>3. \A j \in 0 .. 2 : 3 * c + j < Total(Q) =>
             mem'[f + j].value = Q.source_file.line[3 * c + j + 1]
    BY <1>6, <1>9, <1>16
  <2>4. c \in Pages(Q) /\ c < Ahead(Q)
    BY <1>5, <1>6, <1>9
  <2>5. QED
    BY <2>1, <2>2, <2>3, <2>4, <1>3, <1>16 DEF InFrame
<1>18. FramesOf(mem', pcb', LRU_CACHE')
  <2>1. ASSUME NEW y \in Listed(L)
        PROVE  y[1] \in Nat /\ Stays(Ps[y[1]], pcb'[y[1]], y[2])
    <3>1. y[1] \in Admitted /\ y[1] \in Nat
      BY <1>1, <1>7, AdmittedPids DEF KernelInv
    <3>2. y[2] \in Pages(Ps[y[1]]) /\ y[2] < Ahead(Ps[y[1]])
      BY <1>1 DEF FramesOf, InFrame
    <3>3. CASE y[1] = h
      <4>1. y[2] \in Pages(P) /\ y[2] < c /\ y[2] \in Nat
        BY <3>2, <3>3, <1>4, Numbers DEF P
      <4>2. y[2] # c /\ y[2] < Ahead(Q)
        BY <4>1, <1>5, <1>6
      <4>3. Stays(P, Q, y[2])
        BY <4>1, <4>2, <1>6, <1>9 DEF Stays
      <4>4. Ps[y[1]] = P /\ pcb'[y[1]] = Q
        BY <3>3, <1>8 DEF P
      <4>5. QED
        BY <3>1, <4>3, <4>4
    <3>4. CASE y[1] # h
      BY <3>1, <3>2, <3>4, <1>8 DEF Stays
    <3>5. QED
      BY <3>3, <3>4
  <2>2. \A l \in Frame : l \notin f .. f + 2 => mem'[l] = m[l]
    BY <1>16, StoreAssumption DEF Frame, Mem
  <2>3. Listed(LRU_CACHE') = Listed(L) \cup {<<h, c>>} /\ InFrame(mem', h, pcb'[h], c)
        /\ Base(pcb'[h], c) = f
    BY <1>8, <1>11, <1>17
  <2>4. QED
    BY <1>1, <2>1, <2>2, <2>3, FramesPut
<1>19. \A p \in Admitted : p # h => SameTurn(pcb[p], pcb'[p])
  BY <1>2, <1>8
<1>20. /\ Executed(pcb'[h]) = Executed(pcb[h]) /\ Ahead(pcb'[h]) = Ahead(pcb[h]) + 1
       /\ pcb'[h].size = pcb[h].size
  BY <1>4, <1>6, <1>8 DEF c
<1>21. RecencyOf(Admitted, pcb', LRU_CACHE')
  <2>1. Replaced(LRU_CACHE, LRU_CACHE', v, <<h, Ahead(pcb[h])>>)
    BY <1>1, <1>11 DEF c, Replaced
  <2>2. /\ e \in {Executed(pcb[h]) - 1, Executed(pcb[h])}
        /\ \A r \in Admitted : r # h /\ Alive(pcb[r]) => InStep(h, e, Ahead(pcb[h]), r, pcb[r])
    BY DEF Turn
  <2> DEFINE A  == Admitted
             Rs == pcb
             Qs == pcb'
             K  == LRU_CACHE
             M  == LRU_CACHE'
  <2>3. /\ A \subseteq Nat /\ \A p \in A : WellFormed(Rs[p])
        /\ RecencyOf(A, Rs, K) /\ h \in A /\ Alive(Rs[h]) /\ AtFault(Rs[h])
        /\ e \in {Executed(Rs[h]) - 1, Executed(Rs[h])}
        /\ \A r \in A : r # h /\ Alive(Rs[r]) => InStep(h, e, Ahead(Rs[h]), r, Rs[r])
        /\ \A p \in A : p # h => SameTurn(Rs[p], Qs[p])
        /\ Executed(Qs[h]) = Executed(Rs[h]) /\ Ahead(Qs[h]) = Ahead(Rs[h]) + 1
        /\ Qs[h].size = Rs[h].size
        /\ Replaced(K, M, v, <<h, Ahead(Rs[h])>>)
    BY <1>0, <1>1, <1>7, <1>19, <1>20, <2>1, <2>2
  <2> HIDE DEF A, Rs, Qs, K, M
  <2>4. RecencyOf(A, Qs, M)
    BY <2>3, RecencyFault
  <2>5. QED
    BY <2>4 DEF A, Qs, M
<1>22. ASSUME NEW p \in Admitted PROVE UnreadKept(pcb[p], pcb'[p])
  <2> SUFFICES ASSUME NEW i \in Pages(pcb[p]), NEW j \in 0 .. 2,
                      pcb[p].page_table[i].valid[j], j >= pcb'[p].program_counter[i]
               PROVE  pcb'[p].page_table[i].valid[j]
    BY DEF UnreadKept
  <2>1. pcb'[p].program_counter = pcb[p].program_counter
    BY <1>2, <1>6, <1>8 DEF P
  <2>2. <<p, i>> \in Listed(LRU_CACHE)
    BY <1>0 DEF AbsentOf
  <2>3. <<p, i>> # x
    BY <2>2, <1>10
  <2>4. <<p, i>> # v
    <3> SUFFICES ASSUME <<p, i>> = v PROVE FALSE
      OBVIOUS
    <3>1. i < Ahead(pcb[p]) /\ 3 * i + j < Total(pcb[p])
      <4>1. InFrame(mem, p, pcb[p], i)
        BY <2>2, <1>0 DEF FramesOf
      <4>2. i < Ahead(pcb[p])
        BY <4>1 DEF InFrame
      <4>3. pcb[p].page_table[i].valid[j] => 3 * i + j < Total(pcb[p])
        BY <4>1, InFrameValid
      <4>4. QED
        BY <4>2, <4>3
    <3>2. ~Needed(pcb[p], i) \/ (p = h /\ i = c - 2)
      BY <1>13
    <3>3. ~Needed(pcb[p], i) \/ (AtFault(pcb[p]) /\ i = Ahead(pcb[p]) - 2)
      BY <3>2 DEF c
    <3>4. j < pcb[p].program_counter[i]
      BY <1>0, <3>1, <3>3, VictimRead
    <3>5. pcb[p].program_counter[i] \in Int
      <4>1. WellFormed(pcb[p]) /\ Executed(pcb[p]) \in Nat /\ i \in Nat
        BY <1>0, Numbers
      <4>2. Behind(Executed(pcb[p]) - 3 * i) \in Int
        BY <4>1 DEF Behind
      <4>3. QED
        BY <4>1, <4>2 DEF WellFormed
    <3>6. QED
      BY <2>1, <3>4, <3>5
  <2>5. Ps[p].page_table[i] = pcb[p].page_table[i]
    BY <2>4, <1>2
  <2>6. CASE p = h
    BY <2>3, <2>5, <2>6, <1>4, <1>8, <1>9 DEF P
  <2>7. CASE p # h
    BY <2>5, <2>7, <1>8
  <2>8. QED
    BY <2>6, <2>7
<1>23. ASSUME NEW p \in Admitted
       PROVE  ran'[p] = [k \in 1 .. Executed(pcb'[p]) |-> pcb'[p].source_file.line[k]]
  <2>1. ran[p] = [k \in 1 .. Executed(pcb[p]) |-> pcb[p].source_file.line[k]]
    BY DEF KernelInv, ProcsOK, Source
  <2>2. Executed(pcb'[p]) = Executed(pcb[p]) /\ pcb'[p].source_file = pcb[p].source_file
    <3>1. CASE p = h
      BY <3>1, <1>2, <1>6, <1>8, <1>20 DEF P
    <3>2. CASE p # h
      BY <3>2, <1>2, <1>8, <1>19 DEF SameTurn
    <3>3. QED
      BY <3>1, <3>2
  <2>3. ran' = ran
    BY DEF Load
  <2>4. QED
    BY <2>1, <2>2, <2>3
<1>24. ran' = [p \in Pids |-> ran'[p]] /\ \A p \in Pids : p \notin Admitted => ran'[p] = ran[p]
  BY DEF KernelInv, ListsOK, Load
<1>25. \A p \in Admitted : WellFormed(pcb'[p])
  BY <1>2, <1>6, <1>8
<1>26. RunEffects(h)
  BY <1>8, <1>11, <1>12, <1>14, <1>15, <1>16, <1>18, <1>19, <1>21, <1>22, <1>23, <1>24, <1>25
  DEF RunEffects
<1>27. QED
  BY <1>20, <1>26

\* What is true after a fault of process h, with or without an eviction.
LEMMA FaultEffects ==
    ASSUME KernelInv, NEW h \in Admitted, Alive(pcb[h]), NEW e, Turn(h, e),
           NEW q, FaultStep(h, q)
    PROVE  /\ RunEffects(h)
           /\ Executed(pcb'[h]) = Executed(pcb[h]) /\ Ahead(pcb'[h]) = Ahead(pcb[h]) + 1
           /\ pcb'[h].size = pcb[h].size
           /\ QUEUE' = Append(q, h) /\ at' = "sched" /\ curr' = None
<1> DEFINE c == Ahead(pcb[h])
<1>1. AtFault(pcb[h]) /\ PageFault(mem, pcb, h, c, q) /\ ran' = ran
  BY DEF FaultStep
<1>2. QUEUE' = Append(q, h) /\ at' = "sched" /\ curr' = None
  BY <1>1 DEF PageFault
<1>3. CASE frame_alloc(mem) # {}
  <2>1. load_PAGE(mem, pcb, h, c) /\ LRU_CACHE' = <<<<h, c>>>> \o LRU_CACHE
    BY <1>1, <1>3 DEF PageFault
  <2>2. PICK f \in frame_alloc(mem) : Load(h, mem, pcb, LRU_CACHE, f)
    BY <1>1, <1>3, <2>1 DEF load_PAGE, Load
  <2>3. <<h, c>> \notin Listed(LRU_CACHE)
    <3>1. ASSUME <<h, c>> \in Listed(LRU_CACHE) PROVE c < c
      BY <3>1 DEF KernelInv, FramesOK, FramesOf, InFrame
    <3>2. c \in Nat
      BY Numbers DEF KernelInv, ProcsOK
    <3>3. QED
      BY <3>1, <3>2
  <2>4. Cleared(mem, pcb, LRU_CACHE, <<h, c>>)
    BY <2>3, ClearedFree
  <2>5. QED
    BY <1>1, <1>2, <2>2, <2>4, LoadEffects
<1>4. CASE frame_alloc(mem) = {}
  <2> DEFINE k == Len(LRU_CACHE)
             v == LRU_CACHE[k]
             m == EvictedMem(mem, pcb[v[1]], v[2])
             Ps == [pcb EXCEPT ![v[1]] = EvictedPCB(pcb[v[1]], v[2])]
             L == Without(LRU_CACHE, k)
  <2>1. /\ LRU_CACHE # <<>>
        /\ load_PAGE(m, Ps, h, c)
        /\ LRU_CACHE' = <<<<h, c>>>> \o L
    BY <1>1, <1>4 DEF PageFault, VictimAt
  <2>2. Cleared(m, Ps, L, v) /\ frame_alloc(m) # {}
    BY <2>1, ClearedEvict
  <2>3. v \in Listed(LRU_CACHE)
    BY <2>1 DEF KernelInv, ListsOK, Listed
  <2> HIDE DEF m, Ps, L, v, k
  <2>4. PICK f \in frame_alloc(m) : Load(h, m, Ps, L, f)
    BY <1>1, <2>1, <2>2 DEF load_PAGE, Load
  <2>5. QED
    BY <1>1, <1>2, <2>2, <2>3, <2>4, LoadEffects
<1>5. QED
  BY <1>3, <1>4

----------------------------------------------------------------------------
(* The ready queue.                                                        *)

\* The queue without its head, and how the head compares with the others.
LEMMA QueueTail ==
    ASSUME NEW S, NEW q \in Seq(S), Distinct(q), q # <<>>, NEW Ps, Ordered(q, Ps)
    PROVE  /\ Head(q) \in S /\ Head(q) \in Listed(q)
           /\ Tail(q) \in Seq(S) /\ Distinct(Tail(q)) /\ Ordered(Tail(q), Ps)
           /\ Listed(Tail(q)) = Listed(q) \ {Head(q)}
           /\ \A r \in Listed(Tail(q)) : Alive(Ps[Head(q)]) /\ Alive(Ps[r]) =>
                InStep(Head(q), Executed(Ps[Head(q)]), Ahead(Ps[Head(q)]), r, Ps[r])
<1> DEFINE T == Tail(q)
           h == Head(q)
<1>1. /\ T \in Seq(S) /\ h \in S /\ h = q[1] /\ Len(q) \in Nat \ {0}
      /\ DOMAIN q = 1 .. Len(q) /\ DOMAIN T = 1 .. Len(q) - 1
      /\ \A k \in 1 .. Len(q) - 1 : T[k] = q[k + 1]
  OBVIOUS
<1> HIDE DEF T, h
<1>2. 1 \in DOMAIN q /\ \A k \in DOMAIN T : k + 1 \in DOMAIN q /\ k + 1 > 1 /\ T[k] = q[k + 1]
  BY <1>1
<1>3. \A k \in DOMAIN q : k # 1 => k - 1 \in DOMAIN T /\ T[k - 1] = q[k]
  <2> SUFFICES ASSUME NEW k \in DOMAIN q, k # 1
               PROVE  k - 1 \in DOMAIN T /\ T[k - 1] = q[k]
    OBVIOUS
  <2>1. k - 1 \in 1 .. Len(q) - 1 /\ (k - 1) + 1 = k
    BY <1>1
  <2>2. QED
    BY <2>1, <1>1
<1>4. Distinct(T)
  BY <1>1, <1>2 DEF Distinct
<1>5. Listed(T) = Listed(q) \ {h}
  <2>1. ASSUME NEW k \in DOMAIN T PROVE T[k] \in Listed(q) /\ T[k] # h
    <3>1. k + 1 \in DOMAIN q /\ k + 1 # 1 /\ 1 \in DOMAIN q /\ T[k] = q[k + 1]
      BY <1>1, <1>2
    <3>2. QED
      BY <3>1, <1>1 DEF Listed, Distinct
  <2>2. ASSUME NEW k \in DOMAIN q, q[k] # h PROVE q[k] \in Listed(T)
    <3>1. k - 1 \in DOMAIN T /\ T[k - 1] = q[k]
      BY <2>2, <1>1, <1>3
    <3>2. QED
      BY <3>1 DEF Listed
  <2>3. QED
    BY <2>1, <2>2 DEF Listed
<1>6. Ordered(T, Ps)
  <2> SUFFICES ASSUME NEW k1 \in DOMAIN T, NEW k2 \in DOMAIN T, k1 < k2,
                      Alive(Ps[T[k1]]), Alive(Ps[T[k2]])
               PROVE  InStep(T[k1], Executed(Ps[T[k1]]), Ahead(Ps[T[k1]]), T[k2], Ps[T[k2]])
    BY DEF Ordered
  <2>1. /\ k1 + 1 \in DOMAIN q /\ k2 + 1 \in DOMAIN q /\ k1 + 1 < k2 + 1
        /\ T[k1] = q[k1 + 1] /\ T[k2] = q[k2 + 1]
    BY <1>1, <1>2
  <2>2. QED
    BY <2>1 DEF Ordered
<1>7. ASSUME NEW r \in Listed(T), Alive(Ps[h]), Alive(Ps[r])
      PROVE  InStep(h, Executed(Ps[h]), Ahead(Ps[h]), r, Ps[r])
  <2>1. PICK k \in DOMAIN T : T[k] = r
    BY DEF Listed
  <2>2. 1 \in DOMAIN q /\ k + 1 \in DOMAIN q /\ 1 < k + 1 /\ q[k + 1] = r /\ q[1] = h
    BY <2>1, <1>1, <1>2
  <2>3. QED
    BY <2>2, <1>7 DEF Ordered
<1>8. h \in Listed(q)
  BY <1>1, <1>2 DEF Listed
<1>9. QED
  BY <1>1, <1>4, <1>5, <1>6, <1>7, <1>8 DEF T, h

\* The queue with a process behind the others.
LEMMA QueueAppend ==
    ASSUME NEW S, NEW q \in Seq(S), Distinct(q), NEW Ps, Ordered(q, Ps),
           NEW h \in S, h \notin Listed(q),
           \A r \in Listed(q) : Alive(Ps[h]) /\ Alive(Ps[r]) =>
               InStep(r, Executed(Ps[r]), Ahead(Ps[r]), h, Ps[h])
    PROVE  /\ Append(q, h) \in Seq(S) /\ Distinct(Append(q, h))
           /\ Listed(Append(q, h)) = Listed(q) \cup {h}
           /\ Ordered(Append(q, h), Ps)
<1> DEFINE A == Append(q, h)
           n == Len(q)
<1>1. /\ A \in Seq(S) /\ n \in Nat /\ DOMAIN q = 1 .. n /\ DOMAIN A = 1 .. n + 1
      /\ A[n + 1] = h /\ \A k \in 1 .. n : A[k] = q[k]
  OBVIOUS
<1> HIDE DEF A, n
<1>2. n + 1 \in DOMAIN A /\ \A k \in DOMAIN A : k = n + 1 \/ (k \in DOMAIN q /\ k < n + 1)
  BY <1>1
<1>3. \A k \in DOMAIN q : k \in DOMAIN A /\ A[k] = q[k] /\ q[k] \in Listed(q)
  BY <1>1 DEF Listed
<1>4. Distinct(A)
  BY <1>1, <1>2, <1>3 DEF Distinct
<1>5. Listed(A) = Listed(q) \cup {h}
  BY <1>1, <1>2, <1>3 DEF Listed
<1>6. Ordered(A, Ps)
  <2> SUFFICES ASSUME NEW k1 \in DOMAIN A, NEW k2 \in DOMAIN A, k1 < k2,
                      Alive(Ps[A[k1]]), Alive(Ps[A[k2]])
               PROVE  InStep(A[k1], Executed(Ps[A[k1]]), Ahead(Ps[A[k1]]), A[k2], Ps[A[k2]])
    BY DEF Ordered
  <2>1. k1 \in DOMAIN q
    BY <1>1
  <2>2. CASE k2 \in DOMAIN q
    BY <2>1, <2>2, <1>3 DEF Ordered
  <2>3. CASE k2 = n + 1
    BY <2>1, <2>3, <1>1, <1>3
  <2>4. QED
    BY <2>2, <2>3, <1>2
<1>7. QED
  BY <1>1, <1>4, <1>5, <1>6 DEF A

\* Processes that do not get further keep their order.
LEMMA OrderedSame ==
    ASSUME NEW q, NEW Ps, NEW Qs, Ordered(q, Ps), \A p \in Listed(q) : SameTurn(Ps[p], Qs[p])
    PROVE  Ordered(q, Qs)
<1>1. \A k \in DOMAIN q : /\ Alive(Qs[q[k]]) = Alive(Ps[q[k]])
                          /\ Executed(Qs[q[k]]) = Executed(Ps[q[k]])
                          /\ Ahead(Qs[q[k]]) = Ahead(Ps[q[k]])
  BY DEF SameTurn, Alive, Listed
<1>2. QED
  BY <1>1 DEF Ordered, InStep, TurnOn

\* A process that ends its turn compares with the others as its successor.
LEMMA TurnEnds ==
    ASSUME NEW h \in Nat, NEW r \in Nat, h # r, NEW e, NEW c, NEW Q, TurnOn(Q, e, c),
           NEW R, InStep(h, e, c, r, R)
    PROVE  InStep(r, Executed(R), Ahead(R), h, Q)
<1>1. CASE h < r
  BY <1>1 DEF InStep
<1>2. CASE r < h
  BY <1>2 DEF InStep, TurnOn
<1>3. QED
  BY <1>1, <1>2

----------------------------------------------------------------------------
(* A turn preserves the invariant.                                         *)

\* The head of the queue at the beginning of its turn.
LEMMA HeadTurn ==
    ASSUME KernelInv, at = "sched", QUEUE # <<>>
    PROVE  LET h == Head(QUEUE)
               T == Tail(QUEUE)
           IN  /\ h \in Admitted /\ h \notin Listed(T)
               /\ T \in Seq(Admitted) /\ Distinct(T) /\ Ordered(T, pcb)
               /\ Listed(T) = Waiting \ {h}
               /\ Alive(pcb[h]) => Turn(h, Executed(pcb[h]))
<1> DEFINE h == Head(QUEUE)
           T == Tail(QUEUE)
<1>1. QUEUE \in Seq(Admitted) /\ Distinct(QUEUE) /\ Ordered(QUEUE, pcb)
  BY DEF KernelInv, ListsOK, Lockstep
<1>2. /\ h \in Admitted /\ T \in Seq(Admitted) /\ Distinct(T) /\ Ordered(T, pcb)
      /\ Listed(T) = Listed(QUEUE) \ {h}
      /\ \A r \in Listed(T) : Alive(pcb[h]) /\ Alive(pcb[r]) =>
           InStep(h, Executed(pcb[h]), Ahead(pcb[h]), r, pcb[r])
  BY <1>1, QueueTail
<1>3. Listed(QUEUE) = Waiting
  BY DEF Listed, Waiting
<1>4. ASSUME Alive(pcb[h]) PROVE Turn(h, Executed(pcb[h]))
  <2>1. \A r \in Admitted : Alive(pcb[r]) => r \in Waiting
    BY DEF KernelInv, Lockstep
  <2>2. \A r \in Admitted : r # h /\ Alive(pcb[r]) =>
           InStep(h, Executed(pcb[h]), Ahead(pcb[h]), r, pcb[r])
    BY <1>2, <1>3, <1>4, <2>1
  <2>3. Ahead(pcb[h]) = 2 => Executed(pcb[h]) \in {0, 2, 4, 6}
    BY <1>2, <1>4 DEF KernelInv, Lockstep
  <2>4. QED
    BY <2>2, <2>3 DEF Turn
<1>5. QED
  BY <1>2, <1>3, <1>4

\* The process in the middle of its turn.
LEMMA SecondTurn ==
    ASSUME KernelInv, at = "second"
    PROVE  /\ curr \in Admitted /\ curr \notin Waiting /\ Alive(pcb[curr])
           /\ QUEUE \in Seq(Admitted) /\ Distinct(QUEUE) /\ Ordered(QUEUE, pcb)
           /\ Listed(QUEUE) = Waiting
           /\ Executed(pcb[curr]) - 1 \in Nat
           /\ Turn(curr, Executed(pcb[curr]) - 1)
<1>1. /\ curr \in Admitted /\ curr \notin Waiting /\ Alive(pcb[curr])
      /\ Executed(pcb[curr]) > 0
      /\ \A r \in Waiting : Alive(pcb[r]) =>
           InStep(curr, Executed(pcb[curr]) - 1, Ahead(pcb[curr]), r, pcb[r])
      /\ LRU_CACHE # <<>>
      /\ Executed(pcb[curr]) = 3 => LRU_CACHE[1] = <<curr, 0>>
      /\ \A p \in Admitted : Alive(pcb[p]) => p \in Waiting \/ p = curr
  BY DEF KernelInv, Lockstep
<1>2. QUEUE \in Seq(Admitted) /\ Distinct(QUEUE) /\ Ordered(QUEUE, pcb)
  BY DEF KernelInv, ListsOK, Lockstep
<1>3. Executed(pcb[curr]) - 1 \in Nat
  <2>1. WellFormed(pcb[curr])
    BY <1>1 DEF KernelInv, ProcsOK
  <2>2. Executed(pcb[curr]) \in Nat
    BY <2>1, Numbers
  <2>3. QED
    BY <2>2, <1>1
<1>4. Turn(curr, Executed(pcb[curr]) - 1)
  BY <1>1 DEF Turn
<1>5. QED
  BY <1>1, <1>2, <1>3, <1>4 DEF Listed, Waiting

\* All but Lockstep, after a call of run_proc.
LEMMA RunRest ==
    ASSUME KernelInv, NEW h, RunEffects(h), UNCHANGED <<ALL_PCB, PID_counter, todo>>,
           at' \in {"sched", "second"}, QUEUE' \in Seq(Admitted), Distinct(QUEUE')
    PROVE  ListsOK' /\ Idle' /\ ProcsOK' /\ FramesOK' /\ Recency' /\ Admitted' = Admitted
<1>1. Admitted' = Admitted
  BY DEF Admitted
<1>2. ListsOK'
  BY <1>1 DEF KernelInv, ListsOK, RunEffects
<1>3. Idle'
  BY <1>1 DEF KernelInv, Idle, RunEffects
<1>4. ProcsOK'
  BY <1>1 DEF ProcsOK, RunEffects, Source
<1>5. FramesOK' /\ Recency'
  BY <1>1 DEF FramesOK, Recency, RunEffects
<1>6. QED
  BY <1>1, <1>2, <1>3, <1>4, <1>5

\* The turn of process h ends: it goes to the end of queue q.
LEMMA EndOfTurn ==
    ASSUME KernelInv, at \in {"sched", "second"},
           NEW h \in Admitted, NEW q \in Seq(Admitted), Distinct(q), Ordered(q, pcb),
           h \notin Listed(q), Waiting \cup {h} = Listed(q) \cup {h},
           NEW e, Turn(h, e), at = "second" => h = curr, Alive(pcb[h]),
           RunEffects(h), UNCHANGED <<ALL_PCB, PID_counter, todo>>,
           QUEUE' = Append(q, h), at' = "sched",
           Alive(pcb'[h]) => TurnOn(pcb'[h], e, Ahead(pcb[h])),
           Alive(pcb'[h]) /\ Ahead(pcb'[h]) = 2 => Executed(pcb'[h]) \in {0, 2, 4, 6}
    PROVE  KernelInv'
<1>1. \A p \in Admitted : p # h => SameTurn(pcb[p], pcb'[p])
  BY DEF RunEffects
<1>2. Listed(q) \subseteq Admitted
  BY DEF Listed
<1>3. Ordered(q, pcb')
  BY <1>1, <1>2, OrderedSame
<1>4. ASSUME NEW r \in Listed(q), Alive(pcb'[h]), Alive(pcb'[r])
      PROVE  InStep(r, Executed(pcb'[r]), Ahead(pcb'[r]), h, pcb'[h])
  <2>1. r \in Admitted /\ r # h /\ SameTurn(pcb[r], pcb'[r])
    BY <1>1, <1>2
  <2>2. Alive(pcb[r]) /\ Executed(pcb'[r]) = Executed(pcb[r]) /\ Ahead(pcb'[r]) = Ahead(pcb[r])
    BY <1>4, <2>1 DEF SameTurn, Alive
  <2>3. InStep(h, e, Ahead(pcb[h]), r, pcb[r])
    BY <2>1, <2>2 DEF Turn
  <2>4. h \in Nat /\ r \in Nat
    BY <2>1, AdmittedPids DEF KernelInv
  <2>5. InStep(r, Executed(pcb[r]), Ahead(pcb[r]), h, pcb'[h])
    BY <1>4, <2>1, <2>3, <2>4, TurnEnds
  <2>6. QED
    BY <2>2, <2>5
<1>5. /\ QUEUE' \in Seq(Admitted) /\ Distinct(QUEUE')
      /\ Listed(QUEUE') = Listed(q) \cup {h} /\ Ordered(QUEUE', pcb')
  BY <1>3, <1>4, QueueAppend
<1>6. ListsOK' /\ Idle' /\ ProcsOK' /\ FramesOK' /\ Recency' /\ Admitted' = Admitted
  BY <1>5, RunRest
<1>7. Waiting' = Waiting \cup {h}
  BY <1>5 DEF Waiting, Listed
<1>8. ASSUME NEW p \in Admitted, Alive(pcb'[p]) PROVE p \in Waiting'
  <2>1. CASE p = h
    BY <2>1, <1>7
  <2>2. CASE p # h
    <3>1. Alive(pcb[p])
      BY <1>1, <1>8, <2>2 DEF SameTurn, Alive
    <3>2. QED
      BY <3>1, <2>2, <1>7 DEF KernelInv, Lockstep
  <2>3. QED
    BY <2>1, <2>2
<1>9. ASSUME NEW p \in Admitted, Alive(pcb'[p]), Ahead(pcb'[p]) = 2
      PROVE  Executed(pcb'[p]) \in {0, 2, 4, 6}
  <2>1. CASE p = h
    BY <2>1, <1>9
  <2>2. CASE p # h
    <3>1. /\ Alive(pcb[p]) /\ Ahead(pcb[p]) = 2 /\ Executed(pcb'[p]) = Executed(pcb[p])
          /\ ~ (at = "second" /\ p = curr)
      BY <1>1, <1>9, <2>2 DEF SameTurn, Alive
    <3>2. QED
      BY <3>1 DEF KernelInv, Lockstep
  <2>3. QED
    BY <2>1, <2>2
<1>10. Lockstep'
  BY <1>5, <1>6, <1>8, <1>9 DEF Lockstep
<1>11. QED
  BY <1>6, <1>10 DEF KernelInv

\* Process h, the head of the queue, executes the first line of its turn.
LEMMA MidTurn ==
    ASSUME KernelInv, at = "sched", QUEUE # <<>>,
           NEW h, h = Head(QUEUE), Alive(pcb[h]), pcb[h].size > 1,
           ExecStep(h, Tail(QUEUE), "second"), UNCHANGED <<ALL_PCB, PID_counter, todo>>
    PROVE  KernelInv'
<1> DEFINE T == Tail(QUEUE)
           E == Executed(pcb[h])
<1>1. /\ h \in Admitted /\ h \notin Listed(T)
      /\ T \in Seq(Admitted) /\ Distinct(T) /\ Ordered(T, pcb)
      /\ Listed(T) = Waiting \ {h} /\ Turn(h, E)
  BY HeadTurn
<1>2. /\ RunEffects(h)
      /\ Executed(pcb'[h]) = E + 1 /\ Ahead(pcb'[h]) = Ahead(pcb[h])
      /\ pcb'[h].size = pcb[h].size - 1
      /\ LRU_CACHE'[1] = <<h, CurrentPage(pcb[h])>>
  BY <1>1, ExecEffects
<1>3. QUEUE' = T /\ at' = "second" /\ curr' = h /\ E < 3 * Ahead(pcb[h])
  BY DEF ExecStep
<1>4. ListsOK' /\ Idle' /\ ProcsOK' /\ FramesOK' /\ Recency' /\ Admitted' = Admitted
  BY <1>1, <1>2, <1>3, RunRest
<1>5. \A p \in Admitted : p # h => SameTurn(pcb[p], pcb'[p])
  BY <1>2 DEF RunEffects
<1>6. Waiting' = Waiting \ {h} /\ Listed(T) = Waiting'
  BY <1>1, <1>3 DEF Waiting, Listed
<1>7. Ordered(QUEUE', pcb')
  <2>1. \A p \in Listed(T) : SameTurn(pcb[p], pcb'[p])
    BY <1>1, <1>5, <1>6, AdmittedPids DEF KernelInv
  <2>2. QED
    BY <1>1, <1>3, <2>1, OrderedSame
<1>8. WellFormed(pcb[h]) /\ E \in Nat /\ pcb[h].size \in Nat
  <2>1. WellFormed(pcb[h])
    BY <1>1 DEF KernelInv, ProcsOK
  <2>2. Executed(pcb[h]) \in Nat
    BY <2>1, Numbers
  <2>3. pcb[h].size \in Nat
    BY <2>1, Numbers
  <2>4. QED
    BY <2>1, <2>2, <2>3
<1>9. Alive(pcb'[h]) /\ Executed(pcb'[h]) > 0
  BY <1>2, <1>8 DEF Alive
<1>10. ASSUME NEW r \in Waiting', Alive(pcb'[r])
       PROVE  InStep(h, Executed(pcb'[h]) - 1, Ahead(pcb'[h]), r, pcb'[r])
  <2>1. r \in Admitted /\ r # h /\ SameTurn(pcb[r], pcb'[r])
    BY <1>5, <1>6, AdmittedPids DEF KernelInv
  <2>2. Alive(pcb[r])
    BY <1>10, <2>1 DEF SameTurn, Alive
  <2>3. InStep(h, E, Ahead(pcb[h]), r, pcb[r])
    BY <1>1, <2>1, <2>2 DEF Turn
  <2>4. Executed(pcb'[h]) - 1 = E
    BY <1>2, <1>8
  <2>5. QED
    BY <1>2, <2>1, <2>3, <2>4 DEF SameTurn, InStep, TurnOn
<1>11. LRU_CACHE' # <<>> /\ (Executed(pcb'[h]) = 3 => LRU_CACHE'[1] = <<h, 0>>)
  <2>1. CurrentPage(pcb[h]) \in Nat /\ pcb[h].program_counter[CurrentPage(pcb[h])] \in 0 .. 2
        /\ E = 3 * CurrentPage(pcb[h]) + pcb[h].program_counter[CurrentPage(pcb[h])]
    <3>1. /\ CurrentPage(pcb[h]) \in Pages(pcb[h])
          /\ pcb[h].program_counter[CurrentPage(pcb[h])] \in 0 .. 2
          /\ E = 3 * CurrentPage(pcb[h]) + pcb[h].program_counter[CurrentPage(pcb[h])]
      BY <1>8, Current
    <3>2. CurrentPage(pcb[h]) \in Nat
      BY <3>1, <1>8, Numbers
    <3>3. QED
      BY <3>1, <3>2
  <2>2. E = 2 => CurrentPage(pcb[h]) = 0
    <3> DEFINE i == CurrentPage(pcb[h])
               j == pcb[h].program_counter[CurrentPage(pcb[h])]
    <3>1. i \in Nat /\ j \in 0 .. 2 /\ E = 3 * i + j
      BY <2>1
    <3> HIDE DEF i, j, E
    <3>2. E = 2 => i = 0
      BY <3>1
    <3>3. QED
      BY <3>2 DEF i
  <2>3. Executed(pcb'[h]) = 3 => E = 2
    BY <1>2, <1>8
  <2>4. LRU_CACHE' # <<>>
    BY <1>2 DEF RunEffects
  <2>5. QED
    BY <1>2, <2>2, <2>3, <2>4
<1>12. ASSUME NEW p \in Admitted, Alive(pcb'[p]) PROVE p \in Waiting' \/ p = h
  <2>1. CASE p # h
    <3>1. Alive(pcb[p])
      BY <1>5, <1>12, <2>1 DEF SameTurn, Alive
    <3>2. QED
      BY <3>1, <2>1, <1>6 DEF KernelInv, Lockstep
  <2>2. QED
    BY <2>1
<1>13. ASSUME NEW p \in Admitted, Alive(pcb'[p]), Ahead(pcb'[p]) = 2
       PROVE  Executed(pcb'[p]) \in IF p = h THEN {1, 3, 5} ELSE {0, 2, 4, 6}
  <2>1. CASE p = h
    <3>1. E \in {0, 2, 4, 6} /\ E < 6
      BY <2>1, <1>1, <1>2, <1>3, <1>13 DEF KernelInv, Lockstep
    <3>2. QED
      BY <2>1, <3>1, <1>2
  <2>2. CASE p # h
    <3>1. /\ Alive(pcb[p]) /\ Ahead(pcb[p]) = 2 /\ Executed(pcb'[p]) = Executed(pcb[p])
      BY <1>5, <1>13, <2>2 DEF SameTurn, Alive
    <3>2. QED
      BY <3>1, <2>2 DEF KernelInv, Lockstep
  <2>3. QED
    BY <2>1, <2>2
<1>14. curr' \in Admitted' /\ curr' \notin Waiting'
  BY <1>1, <1>3, <1>4, <1>6
<1>15. Lockstep'
  BY <1>3, <1>4, <1>7, <1>9, <1>10, <1>11, <1>12, <1>13, <1>14 DEF Lockstep
<1>16. QED
  BY <1>4, <1>15 DEF KernelInv

\* A turn that ends with its second line.
LEMMA EndExec ==
    ASSUME NEW P, NEW Q, WellFormed(P), Executed(P) - 1 \in Nat, Executed(P) < 3 * Ahead(P),
           Executed(Q) = Executed(P) + 1, Ahead(Q) = Ahead(P)
    PROVE  TurnOn(Q, Executed(P) - 1, Ahead(P))
<1>1. Executed(P) \in Nat /\ Ahead(P) \in Nat
  BY Numbers
<1>2. QED
  BY <1>1 DEF TurnOn

\* A turn that ends with a fault.
LEMMA EndFault ==
    ASSUME NEW P, NEW Q, WellFormed(P), AtFault(P), NEW e \in {Executed(P) - 1, Executed(P)},
           Executed(Q) = Executed(P), Ahead(Q) = Ahead(P) + 1
    PROVE  TurnOn(Q, e, Ahead(P)) /\ Ahead(Q) # 2
<1>1. Executed(P) \in Nat /\ Ahead(P) \in Nat /\ Ahead(P) >= 2
  BY Numbers
<1>2. QED
  BY <1>1 DEF TurnOn, AtFault

\* A turn that begins with a line or with a fault.
LEMMA HeadRuns ==
    ASSUME Counted, KernelInv, at = "sched", QUEUE # <<>>, pcb[Head(QUEUE)].size > 0,
           NEW next, run_proc(Head(QUEUE), Tail(QUEUE), Tail(QUEUE), next)
    PROVE  /\ ExecStep(Head(QUEUE), Tail(QUEUE), next) \/ KernelInv'
           /\ Alive(pcb[Head(QUEUE)]) /\ WellFormed(pcb[Head(QUEUE)])
           /\ UNCHANGED <<ALL_PCB, PID_counter, todo>>
<1> DEFINE h == Head(QUEUE)
           T == Tail(QUEUE)
           e == Executed(pcb[h])
<1>1. Alive(pcb[h])
  BY DEF Alive
<1>2. /\ h \in Admitted /\ h \notin Listed(T)
      /\ T \in Seq(Admitted) /\ Distinct(T) /\ Ordered(T, pcb)
      /\ Listed(T) = Waiting \ {h} /\ Turn(h, e)
  BY <1>1, HeadTurn
<1>3. WellFormed(pcb[h])
  BY <1>2 DEF KernelInv, ProcsOK
<1>4. /\ ExecStep(h, T, next) \/ FaultStep(h, T)
      /\ UNCHANGED <<ALL_PCB, PID_counter, todo>>
  BY <1>1, <1>2, RunProc
<1>5. CASE FaultStep(h, T)
  <2>1. /\ RunEffects(h)
        /\ Executed(pcb'[h]) = e /\ Ahead(pcb'[h]) = Ahead(pcb[h]) + 1
        /\ QUEUE' = Append(T, h) /\ at' = "sched"
    BY <1>1, <1>2, <1>5, FaultEffects
  <2>2. TurnOn(pcb'[h], e, Ahead(pcb[h])) /\ Ahead(pcb'[h]) # 2
    BY <1>3, <1>5, <2>1, EndFault DEF FaultStep
  <2>3. Waiting \cup {h} = Listed(T) \cup {h}
    BY <1>2
  <2>4. /\ at \in {"sched", "second"} /\ (at = "second" => h = curr)
        /\ (Alive(pcb'[h]) => TurnOn(pcb'[h], e, Ahead(pcb[h])))
        /\ (Alive(pcb'[h]) /\ Ahead(pcb'[h]) = 2 => Executed(pcb'[h]) \in {0, 2, 4, 6})
    BY <2>2
  <2> HIDE DEF h, T, e
  <2>5. KernelInv'
    BY <1>1, <1>2, <1>4, <2>1, <2>3, <2>4, EndOfTurn
  <2>6. QED
    BY <2>5, <1>1, <1>3, <1>4 DEF h
<1>6. QED
  BY <1>1, <1>3, <1>4, <1>5

\* A turn of a process with two lines or more begins.
LEMMA RunFirstInv == Counted /\ KernelInv /\ RunFirst => KernelInv'
<1> SUFFICES ASSUME Counted, KernelInv, RunFirst PROVE KernelInv'
  OBVIOUS
<1> DEFINE h == Head(QUEUE)
<1>1. /\ at = "sched" /\ QUEUE # <<>> /\ pcb[h].size > 1
      /\ run_proc(h, Tail(QUEUE), Tail(QUEUE), "second")
  BY DEF RunFirst, queue_done
<1>2. pcb[h].size > 0
  <2>1. h \in Admitted
    BY <1>1, HeadTurn
  <2>2. WellFormed(pcb[h])
    BY <2>1 DEF KernelInv, ProcsOK
  <2>3. pcb[h].size \in Nat
    BY <2>2, Numbers
  <2>4. QED
    BY <2>3, <1>1
<1>3. /\ ExecStep(h, Tail(QUEUE), "second") \/ KernelInv'
      /\ Alive(pcb[h]) /\ UNCHANGED <<ALL_PCB, PID_counter, todo>>
  BY <1>1, <1>2, HeadRuns
<1>4. QED
  BY <1>1, <1>3, MidTurn

\* The process leaves the queue at the end of its script.
LEMMA Leaves ==
    ASSUME KernelInv, at = "sched", NEW h \in Admitted, NEW T \in Seq(Admitted),
           Distinct(T), Ordered(T, pcb), h \notin Listed(T), Listed(T) = Waiting \ {h},
           RunEffects(h), ~Alive(pcb'[h]), UNCHANGED <<ALL_PCB, PID_counter, todo>>,
           QUEUE' = T, at' = "sched"
    PROVE  KernelInv'
<1>1. \A p \in Admitted : p # h => SameTurn(pcb[p], pcb'[p])
  BY DEF RunEffects
<1>2. Listed(T) \subseteq Admitted
  BY DEF Listed
<1>3. Ordered(QUEUE', pcb')
  <2>1. \A p \in Listed(T) : SameTurn(pcb[p], pcb'[p])
    BY <1>1, <1>2
  <2>2. QED
    BY <2>1, OrderedSame
<1>4. ListsOK' /\ Idle' /\ ProcsOK' /\ FramesOK' /\ Recency' /\ Admitted' = Admitted
  BY RunRest
<1>5. Waiting' = Waiting \ {h}
  BY DEF Waiting, Listed
<1>6. ASSUME NEW p \in Admitted, Alive(pcb'[p])
      PROVE  /\ p \in Waiting'
             /\ Ahead(pcb'[p]) = 2 => Executed(pcb'[p]) \in {0, 2, 4, 6}
  <2>1. p # h
    BY <1>6
  <2>2. SameTurn(pcb[p], pcb'[p])
    BY <1>1, <2>1
  <2>3. /\ Alive(pcb[p]) /\ Ahead(pcb'[p]) = Ahead(pcb[p])
        /\ Executed(pcb'[p]) = Executed(pcb[p])
    BY <1>6, <2>2 DEF SameTurn, Alive
  <2>4. QED
    BY <1>5, <2>1, <2>3 DEF KernelInv, Lockstep
<1>7. Lockstep'
  BY <1>3, <1>4, <1>6 DEF Lockstep
<1>8. QED
  BY <1>4, <1>7 DEF KernelInv

\* The turn of a process with one line left.
LEMMA RunLastInv == Counted /\ KernelInv /\ RunLast => KernelInv'
<1> SUFFICES ASSUME Counted, KernelInv, RunLast PROVE KernelInv'
  OBVIOUS
<1> DEFINE h == Head(QUEUE)
           T == Tail(QUEUE)
           e == Executed(pcb[h])
<1>1. /\ at = "sched" /\ QUEUE # <<>> /\ pcb[h].size = 1
      /\ run_proc(h, T, T, "sched")
  BY DEF RunLast, queue_done
<1>2. /\ ExecStep(h, T, "sched") \/ KernelInv'
      /\ Alive(pcb[h]) /\ UNCHANGED <<ALL_PCB, PID_counter, todo>>
  BY <1>1, HeadRuns
<1>3. CASE ExecStep(h, T, "sched")
  <2>1. /\ h \in Admitted /\ h \notin Listed(T)
        /\ T \in Seq(Admitted) /\ Distinct(T) /\ Ordered(T, pcb)
        /\ Listed(T) = Waiting \ {h} /\ Turn(h, e)
    BY <1>1, <1>2, HeadTurn
  <2>2. RunEffects(h) /\ pcb'[h].size = pcb[h].size - 1
    BY <1>2, <1>3, <2>1, ExecEffects
  <2>3. ~Alive(pcb'[h])
    BY <1>1, <2>2 DEF Alive
  <2>4. QUEUE' = T /\ at' = "sched"
    BY <1>3 DEF ExecStep
  <2>5. KernelInv'
    <3> HIDE DEF h, T
    <3>1. QED
      BY <1>1, <1>2, <2>1, <2>2, <2>3, <2>4, Leaves
  <2>6. QED
    BY <2>5
<1>4. QED
  BY <1>2, <1>3

\* The second line of a turn.
LEMMA RunSecondInv == Counted /\ KernelInv /\ RunSecond => KernelInv'
<1> SUFFICES ASSUME Counted, KernelInv, RunSecond PROVE KernelInv'
  OBVIOUS
<1> DEFINE h == curr
           q == Append(QUEUE, h)
           e == Executed(pcb[h]) - 1
<1>1. at = "second" /\ run_proc(h, QUEUE, q, "sched")
  BY DEF RunSecond
<1>2. /\ h \in Admitted /\ h \notin Waiting /\ Alive(pcb[h])
      /\ QUEUE \in Seq(Admitted) /\ Distinct(QUEUE) /\ Ordered(QUEUE, pcb)
      /\ Listed(QUEUE) = Waiting /\ e \in Nat /\ Turn(h, e)
  BY <1>1, SecondTurn
<1>3. WellFormed(pcb[h]) /\ Executed(pcb[h]) \in Nat
  <2>1. WellFormed(pcb[h])
    BY <1>2 DEF KernelInv, ProcsOK
  <2>2. Executed(pcb[h]) \in Nat
    BY <2>1, Numbers
  <2>3. QED
    BY <2>1, <2>2
<1>4. /\ ExecStep(h, q, "sched") \/ FaultStep(h, QUEUE)
      /\ UNCHANGED <<ALL_PCB, PID_counter, todo>>
  BY <1>1, <1>2, RunProc
<1>5. /\ RunEffects(h) /\ QUEUE' = q /\ at' = "sched"
      /\ TurnOn(pcb'[h], e, Ahead(pcb[h]))
      /\ Alive(pcb'[h]) /\ Ahead(pcb'[h]) = 2 => Executed(pcb'[h]) \in {0, 2, 4, 6}
  <2>1. CASE ExecStep(h, q, "sched")
    <3>1. /\ RunEffects(h)
          /\ Executed(pcb'[h]) = Executed(pcb[h]) + 1 /\ Ahead(pcb'[h]) = Ahead(pcb[h])
      BY <1>2, <2>1, ExecEffects
    <3>2. Executed(pcb[h]) < 3 * Ahead(pcb[h]) /\ QUEUE' = q /\ at' = "sched"
      BY <2>1 DEF ExecStep
    <3>3. TurnOn(pcb'[h], e, Ahead(pcb[h]))
      BY <1>2, <1>3, <3>1, <3>2, EndExec
    <3>4. Ahead(pcb[h]) = 2 => Executed(pcb[h]) \in {1, 3, 5}
      BY <1>1, <1>2 DEF KernelInv, Lockstep
    <3>5. Ahead(pcb'[h]) = 2 => Executed(pcb'[h]) \in {0, 2, 4, 6}
      BY <3>1, <3>4
    <3>6. QED
      BY <3>1, <3>2, <3>3, <3>5
  <2>2. CASE FaultStep(h, QUEUE)
    <3>1. /\ RunEffects(h)
          /\ Executed(pcb'[h]) = Executed(pcb[h]) /\ Ahead(pcb'[h]) = Ahead(pcb[h]) + 1
          /\ QUEUE' = q /\ at' = "sched"
      BY <1>2, <2>2, FaultEffects
    <3>2. AtFault(pcb[h])
      BY <2>2 DEF FaultStep
    <3>3. TurnOn(pcb'[h], e, Ahead(pcb[h])) /\ Ahead(pcb'[h]) # 2
      BY <1>3, <3>1, <3>2, EndFault
    <3>4. QED
      BY <3>1, <3>3
  <2>3. QED
    BY <1>4, <2>1, <2>2
<1>6. /\ h \notin Listed(QUEUE) /\ Waiting \cup {h} = Listed(QUEUE) \cup {h}
      /\ at \in {"sched", "second"} /\ (at = "second" => h = curr)
  BY <1>1, <1>2
<1> HIDE DEF h, e
<1>7. QED
  BY <1>2, <1>4, <1>5, <1>6, EndOfTurn

----------------------------------------------------------------------------
(* The other actions of the kernel.                                        *)

\* The head of the queue leaves it without a line to run.
LEMMA DropInv == KernelInv /\ Drop => KernelInv'
<1> SUFFICES ASSUME KernelInv, Drop PROVE KernelInv'
  OBVIOUS
<1> DEFINE h == Head(QUEUE)
           T == Tail(QUEUE)
<1>1. /\ at = "sched" /\ QUEUE # <<>> /\ pcb[h].size = 0 /\ QUEUE' = T
      /\ UNCHANGED <<mem, pcb, LRU_CACHE, ALL_PCB, PID_counter, at, todo, curr, ran>>
  BY DEF Drop, queue_done
<1>2. /\ T \in Seq(Admitted) /\ Distinct(T) /\ Ordered(T, pcb)
      /\ Listed(T) = Waiting \ {h}
  BY <1>1, HeadTurn
<1>3. ~Alive(pcb[h])
  BY <1>1 DEF Alive
<1> HIDE DEF h, T
<1>4. Admitted' = Admitted /\ Waiting' = Waiting \ {h}
  BY <1>1, <1>2 DEF Admitted, Waiting, Listed
<1>5. ListsOK'
  BY <1>1, <1>2, <1>4 DEF KernelInv, ListsOK
<1>6. Idle' /\ ProcsOK' /\ FramesOK' /\ Recency'
  BY <1>1, <1>4 DEF KernelInv, Idle, ProcsOK, FramesOK, Recency, Source
<1>7. Lockstep'
  BY <1>1, <1>2, <1>3, <1>4 DEF KernelInv, Lockstep
<1>8. QED
  BY <1>5, <1>6, <1>7 DEF KernelInv

\* Nothing is admitted and no frame is in use.
NoProcess ==
    /\ mem = [l \in Mem |-> mem[l]] /\ \A l \in Frame : mem[l].var = None
    /\ pcb = [p \in Pids |-> pcb[p]] /\ ran = [p \in Pids |-> <<>>]
    /\ QUEUE = <<>> /\ LRU_CACHE = <<>> /\ ALL_PCB = <<>>
    /\ PID_counter \in 1 .. MaxPid + 1
    /\ at \in {"shell", "admit", "exit"}
    /\ at = "admit" => /\ todo \in Seq(Scripts) \ {<<>>}
                       /\ PID_counter + Len(todo) - 1 <= MaxPid

\* Such states satisfy the invariant.
LEMMA NoProcessInv == NoProcess => KernelInv
<1> SUFFICES ASSUME NoProcess PROVE KernelInv
  OBVIOUS
<1>1. Admitted = {} /\ Waiting = {} /\ Listed(LRU_CACHE) = {}
  BY DEF NoProcess, Admitted, Waiting, Listed
<1>2. ListsOK
  <2>1. /\ ALL_PCB \in Seq(1 .. PID_counter - 1) /\ QUEUE \in Seq(Admitted)
        /\ LRU_CACHE \in Seq(Admitted \X Nat)
    BY DEF NoProcess
  <2>2. /\ \A k1, k2 \in DOMAIN ALL_PCB : k1 < k2 => ALL_PCB[k1] < ALL_PCB[k2]
        /\ Distinct(QUEUE) /\ Distinct(LRU_CACHE)
    BY DEF NoProcess, Distinct
  <2>3. ran = [p \in Pids |-> ran[p]]
    BY DEF NoProcess
  <2>4. QED
    BY <2>1, <2>2, <2>3 DEF NoProcess, ListsOK
<1>3. Idle
  BY DEF NoProcess, Idle
<1>4. ProcsOK
  BY <1>1 DEF ProcsOK, NeededOf, AbsentOf
<1>5. FramesOK
  BY <1>1 DEF NoProcess, FramesOK, FramesOf
<1>6. Lockstep
  <2>1. Ordered(QUEUE, pcb)
    BY DEF NoProcess, Ordered
  <2>2. at # "second"
    BY DEF NoProcess
  <2>3. QED
    BY <1>1, <2>1, <2>2 DEF Lockstep
<1>7. Recency
  BY <1>1 DEF Recency, RecencyOf
<1>8. QED
  BY <1>2, <1>3, <1>4, <1>5, <1>6, <1>7 DEF KernelInv

\* Also after a step.
LEMMA NoProcessNext == NoProcess' => KernelInv'
  BY NoProcessInv, PTL

\* The prompt only sees such states.
LEMMA PromptInv == KernelInv /\ at = "shell" => NoProcess
<1> SUFFICES ASSUME KernelInv, at = "shell" PROVE NoProcess
  OBVIOUS
<1>1. ALL_PCB = <<>>
  BY DEF KernelInv, ListsOK
<1>2. Admitted = {}
  BY <1>1 DEF Admitted
<1>3. QUEUE = <<>>
  <2>1. QUEUE \in Seq({})
    BY <1>2 DEF KernelInv, ListsOK
  <2>2. QED
    BY <2>1
<1>4. LRU_CACHE = <<>> /\ Listed(LRU_CACHE) = {}
  <2>1. LRU_CACHE \in Seq({} \X Nat)
    BY <1>2 DEF KernelInv, ListsOK
  <2>2. \A k \in DOMAIN LRU_CACHE : LRU_CACHE[k] \in {} \X Nat
    BY <2>1
  <2>3. \A k \in DOMAIN LRU_CACHE : FALSE
    BY <2>2
  <2>4. Listed(LRU_CACHE) = {}
    BY <2>3 DEF Listed
  <2>5. QED
    BY <2>1, <2>3, <2>4
<1>5. \A l \in Frame : mem[l].var = None
  BY <1>4 DEF KernelInv, FramesOK, FramesOf
<1>6. ran = [p \in Pids |-> <<>>]
  <2>1. \A p \in Pids : ran[p] = <<>>
    BY <1>2 DEF KernelInv, Idle
  <2>2. ran = [p \in Pids |-> ran[p]]
    BY DEF KernelInv, ListsOK
  <2>3. QED
    BY <2>1, <2>2
<1>7. QED
  BY <1>1, <1>3, <1>4, <1>5, <1>6 DEF KernelInv, ListsOK, NoProcess

\* The shell begins without processes.
LEMMA InitInv == Init => KernelInv
<1> SUFFICES ASSUME Init PROVE NoProcess
  BY NoProcessInv
<1>1. /\ mem = [l \in Mem |-> FreeLine] /\ pcb = [p \in Pids |-> None]
      /\ \A l \in Frame : l \in Mem
  BY StoreAssumption DEF Init, Frame, Mem
<1>2. /\ mem = [l \in Mem |-> mem[l]] /\ pcb = [p \in Pids |-> pcb[p]]
      /\ \A l \in Frame : mem[l].var = None
  BY <1>1 DEF FreeLine
<1>3. PID_counter \in 1 .. MaxPid + 1
  BY PidAssumption DEF Init
<1>4. QED
  BY <1>2, <1>3 DEF Init, NoProcess

\* So does the next one.
LEMMA RestartInv == Restart => KernelInv'
<1> SUFFICES ASSUME Restart PROVE NoProcess'
  BY NoProcessNext
<1>1. /\ mem' = [l \in Mem |-> FreeLine] /\ pcb' = [p \in Pids |-> None]
      /\ \A l \in Frame : l \in Mem
  BY StoreAssumption DEF Restart, Frame, Mem
<1>2. /\ mem' = [l \in Mem |-> mem'[l]] /\ pcb' = [p \in Pids |-> pcb'[p]]
      /\ \A l \in Frame : mem'[l].var = None
  BY <1>1 DEF FreeLine
<1>3. PID_counter' \in 1 .. MaxPid + 1
  BY PidAssumption DEF Restart
<1>4. QED
  BY <1>2, <1>3 DEF Restart, NoProcess

\* exec, a command at the prompt, and quit.
LEMMA PromptStep ==
    ASSUME KernelInv,
           \/ \E n \in 1 .. MaxScripts : \E scripts \in [1 .. n -> Scripts] : exec(scripts)
           \/ \E c \in Typed : Type(c)
           \/ quit
    PROVE  KernelInv'
<1>1. at = "shell"
  BY DEF exec, Type, quit
<1>2. NoProcess
  BY <1>1, PromptInv
<1>3. ASSUME NEW n \in 1 .. MaxScripts, NEW scripts \in [1 .. n -> Scripts], exec(scripts)
      PROVE  NoProcess'
  <2>1. scripts \in Seq(Scripts) /\ scripts # <<>>
    <3>1. n \in Nat /\ n >= 1
      BY PidAssumption
    <3>2. scripts \in Seq(Scripts) /\ Len(scripts) = n
      BY <3>1
    <3>3. QED
      BY <3>1, <3>2
  <2>2. QED
    BY <1>2, <1>3, <2>1 DEF exec, NoProcess, lists
<1>4. ASSUME NEW c, Type(c) PROVE NoProcess'
  <2>1. SameFrames(mem, interpreter(mem, c)) /\ mem' = interpreter(mem, c)
    BY <1>2, <1>4, InterpreterFrames DEF NoProcess, Type
  <2>2. mem' = [l \in Mem |-> mem'[l]] /\ \A l \in Frame : mem'[l].var = None
    BY <1>2, <2>1 DEF SameFrames, NoProcess
  <2>3. QED
    BY <1>2, <1>4, <2>2 DEF Type, NoProcess, lists
<1>5. ASSUME quit PROVE NoProcess'
  BY <1>2, <1>5 DEF quit, NoProcess, lists
<1>6. QED
  BY <1>3, <1>4, <1>5, NoProcessNext

\* The pages that are in use are the listed ones: freeing the PCBs frees all.
LEMMA FinishInv == KernelInv /\ Finish => KernelInv'
<1> SUFFICES ASSUME KernelInv, Finish PROVE NoProcess'
  BY NoProcessNext
<1> DEFINE freed == UNION {free_PCB(pcb[ALL_PCB[k]]) : k \in DOMAIN ALL_PCB}
<1>1. mem' = [l \in Mem |-> IF l \in freed THEN FreeLine ELSE mem[l]]
  BY DEF Finish, mem_free_at
<1>2. ASSUME NEW l \in Frame, mem[l].var # None PROVE l \in freed
  <2>1. PICK x \in Listed(LRU_CACHE) : l \in Base(pcb[x[1]], x[2]) .. Base(pcb[x[1]], x[2]) + 2
    BY <1>2 DEF KernelInv, FramesOK, FramesOf
  <2>2. x[1] \in Admitted
    BY AdmittedPids DEF KernelInv
  <2>3. PICK k \in DOMAIN ALL_PCB : ALL_PCB[k] = x[1]
    BY <2>2 DEF Admitted
  <2>4. x[2] \in Pages(pcb[x[1]])
    BY DEF KernelInv, FramesOK, FramesOf, InFrame
  <2>5. l \in free_PCB(pcb[x[1]])
    <3> DEFINE P == pcb[x[1]]
               part(i, j) == P.page_table[i].index[j] .. P.page_table[i].index[j] + 2
    <3>1. free_PCB(P) = UNION {part(i, j) : i \in Pages(P), j \in 0 .. 2}
      BY DEF free_PCB
    <3>2. l \in part(x[2], 0)
      BY <2>1 DEF Base
    <3>3. part(x[2], 0) \in {part(i, j) : i \in Pages(P), j \in 0 .. 2}
      BY <2>4
    <3> HIDE DEF part
    <3>4. QED
      BY <3>1, <3>2, <3>3
  <2>6. QED
    BY <2>3, <2>5
<1> HIDE DEF freed
<1>3. /\ mem' = [l \in Mem |-> mem'[l]] /\ \A l \in Frame : mem'[l].var = None
  <2>1. \A l \in Frame : l \in Mem
    BY StoreAssumption DEF Frame, Mem
  <2>2. QED
    BY <1>1, <1>2, <2>1 DEF FreeLine
<1>4. pcb' = [p \in Pids |-> pcb'[p]]
  BY DEF Finish
<1>5. PID_counter' \in 1 .. MaxPid + 1
  BY DEF Finish, KernelInv, ListsOK
<1>6. QED
  BY <1>3, <1>4, <1>5 DEF Finish, NoProcess

----------------------------------------------------------------------------
(* new_proc.                                                               *)

\* Page i of process p is loaded where frame_alloc found place.
LEMMA PutPage ==
    ASSUME NEW m, IsMemory(m), NEW Ps, NEW Qs, NEW L, NEW M, FramesOf(m, Ps, L),
           NEW p, NEW P, NEW i, NEW f \in frame_alloc(m),
           \A x \in Listed(L) : x[1] \in Nat /\ Stays(Ps[x[1]], Qs[x[1]], x[2]),
           Listed(M) = Listed(L) \cup {<<p, i>>},
           i \in Pages(Qs[p]), i < Ahead(Qs[p]),
           Qs[p].page_table[i] = LoadedPage(Qs[p], i, f),
           P.source_file = Qs[p].source_file, P.pos = 3 * i,
           \A j \in 0 .. 2 : Fetched(P, j) <=> 3 * i + j < Total(Qs[p])
    PROVE  LET n == LoadedMem(m, p, P, f)
           IN  IsMemory(n) /\ FramesOf(n, Qs, M)
<1> DEFINE n == LoadedMem(m, p, P, f)
           R == Qs[p]
<1>1. f \in Nat /\ f + 2 \in Frame
  BY AllocPlace
<1>2. /\ n = [l \in Mem |-> n[l]]
      /\ \A l \in Mem : l \notin f .. f + 2 => n[l] = m[l]
      /\ \A j \in 0 .. 2 :
           /\ n[f + j].var = p
           /\ Fetched(P, j) => n[f + j].value = P.source_file.line[P.pos + j + 1]
  <2>1. m = [l \in Mem |-> m[l]]
    BY DEF IsMemory
  <2>2. QED
    BY <2>1, <1>1, LoadedLines
<1> HIDE DEF n, R
<1>3. R.page_table[i] = [index |-> [j \in 0 .. 2 |-> f + j],
                         valid |-> [j \in 0 .. 2 |-> 3 * i + j < Total(R)]]
  BY DEF LoadedPage, R
<1>4. Base(R, i) = f
  BY <1>1, <1>3 DEF Base
<1>5. \A j \in 0 .. 2 : 3 * i + j < Total(R) =>
          n[f + j].value = R.source_file.line[3 * i + j + 1]
  BY <1>2 DEF R
<1>6. InFrame(n, p, R, i)
  BY <1>1, <1>2, <1>3, <1>4, <1>5 DEF InFrame, R
<1>7. \A l \in Frame : l \notin f .. f + 2 => n[l] = m[l]
  BY <1>2, StoreAssumption DEF Frame, Mem
<1>8. FramesOf(n, Qs, M)
  BY <1>4, <1>6, <1>7, FramesPut DEF R
<1>9. IsMemory(n)
  BY <1>2 DEF IsMemory
<1>10. QED
  BY <1>8, <1>9 DEF n

\* A new process pid that is R, with the pages I in memory n and in list M.
Born(pid, R, I, n, M) ==
    /\ WellFormed(R) /\ Alive(R) /\ Executed(R) = 0 /\ Ahead(R) = 2
    /\ Pages(R) \cap {0, 1} \subseteq I
    /\ \A i \in Pages(R) : i \notin I => R.page_table[i] = PAGE_init
    /\ IsMemory(n) /\ FramesOf(n, [pcb EXCEPT ![pid] = R], M)
    /\ M \in Seq((Admitted \cup {pid}) \X Nat) /\ Distinct(M)
    /\ Listed(M) = Listed(LRU_CACHE) \cup {<<pid, i>> : i \in I}

\* What is known of the pid that is given next.
LEMMA NextPid ==
    ASSUME KernelInv, at = "admit"
    PROVE  /\ PID_counter \in Pids /\ PID_counter \in Nat /\ PID_counter \notin Admitted
           /\ \A p \in Admitted : p < PID_counter
           /\ todo \in Seq(Scripts) /\ todo # <<>>
           /\ PID_counter + Len(todo) - 1 <= MaxPid
<1>1. /\ PID_counter \in 1 .. MaxPid + 1
      /\ todo \in Seq(Scripts) /\ todo # <<>> /\ PID_counter + Len(todo) - 1 <= MaxPid
  BY DEF KernelInv, ListsOK
<1>2. Len(todo) \in Nat /\ Len(todo) >= 1
  BY <1>1
<1>3. PID_counter \in Pids /\ PID_counter \in Nat
  BY <1>1, <1>2, PidAssumption DEF Pids
<1>4. Admitted \subseteq Nat /\ \A p \in Admitted : p < PID_counter
  BY AdmittedPids DEF KernelInv
<1>5. PID_counter \notin Admitted
  BY <1>3, <1>4
<1>6. QED
  BY <1>1, <1>3, <1>4, <1>5

\* The process that new_proc admits goes to the end of the queue.
LEMMA BornInv ==
    ASSUME KernelInv, at = "admit", NEW pid, pid = PID_counter, NEW R, NEW I, NEW n, NEW M,
           Born(pid, R, I, n, M),
           mem' = n, pcb' = [pcb EXCEPT ![pid] = R], LRU_CACHE' = M,
           ALL_PCB' = Append(ALL_PCB, pid), QUEUE' = Append(QUEUE, pid),
           todo' = Tail(todo), at' = IF Len(todo) = 1 THEN "sched" ELSE "admit",
           PID_counter' = PID_counter + 1, UNCHANGED <<curr, ran>>
    PROVE  KernelInv'
<1>1. /\ pid \in Pids /\ pid \in Nat /\ pid \notin Admitted
      /\ \A p \in Admitted : p < pid
      /\ todo \in Seq(Scripts) /\ todo # <<>> /\ pid + Len(todo) - 1 <= MaxPid
  BY NextPid
<1>2. /\ Admitted \subseteq Nat /\ Admitted \subseteq Pids /\ Waiting \subseteq Admitted
      /\ \A x \in Listed(LRU_CACHE) : x[1] \in Admitted /\ x = <<x[1], x[2]>>
  BY AdmittedPids DEF KernelInv
<1>3. /\ pcb' = [p \in Pids |-> pcb'[p]] /\ pcb'[pid] = R
      /\ \A p \in Admitted : pcb'[p] = pcb[p]
  <2>1. pcb = [p \in Pids |-> pcb[p]]
    BY DEF KernelInv, ListsOK
  <2>2. QED
    BY <2>1, <1>1, <1>2
<1>4. /\ ALL_PCB \in Seq(1 .. pid - 1)
      /\ \A k1, k2 \in DOMAIN ALL_PCB : k1 < k2 => ALL_PCB[k1] < ALL_PCB[k2]
  BY DEF KernelInv, ListsOK
<1>5. /\ ALL_PCB' \in Seq(1 .. PID_counter' - 1)
      /\ \A k1, k2 \in DOMAIN ALL_PCB' : k1 < k2 => ALL_PCB'[k1] < ALL_PCB'[k2]
      /\ Admitted' = Admitted \cup {pid}
  <2> DEFINE A == Append(ALL_PCB, pid)
             z == Len(ALL_PCB)
  <2>1. ALL_PCB \in Seq(1 .. pid)
    BY <1>1, <1>4
  <2>2. /\ A \in Seq(1 .. pid) /\ z \in Nat /\ DOMAIN ALL_PCB = 1 .. z
        /\ DOMAIN A = 1 .. z + 1 /\ A[z + 1] = pid /\ \A k \in 1 .. z : A[k] = ALL_PCB[k]
    <3>1. pid \in 1 .. pid
      BY <1>1, PidAssumption DEF Pids
    <3> DEFINE T == 1 .. pid
    <3> HIDE DEF T
    <3>2. ALL_PCB \in Seq(T) /\ pid \in T
      BY <2>1, <3>1 DEF T
    <3>3. /\ A \in Seq(T) /\ z \in Nat /\ DOMAIN ALL_PCB = 1 .. z
          /\ DOMAIN A = 1 .. z + 1 /\ A[z + 1] = pid /\ \A k \in 1 .. z : A[k] = ALL_PCB[k]
      BY <3>2
    <3>4. QED
      BY <3>3 DEF T
  <2>3. \A k \in 1 .. z : ALL_PCB[k] \in 1 .. pid - 1
    BY <1>4, <2>2
  <2> HIDE DEF A, z
  <2>4. \A k1, k2 \in DOMAIN A : k1 < k2 => A[k1] < A[k2]
    <3> SUFFICES ASSUME NEW k1 \in DOMAIN A, NEW k2 \in DOMAIN A, k1 < k2
                 PROVE  A[k1] < A[k2]
      OBVIOUS
    <3>1. k1 \in 1 .. z /\ A[k1] = ALL_PCB[k1]
      BY <2>2
    <3>2. CASE k2 = z + 1
      BY <3>1, <3>2, <2>2, <2>3, <1>1
    <3>3. CASE k2 \in 1 .. z
      BY <3>1, <3>3, <2>2, <1>4
    <3>4. QED
      BY <3>2, <3>3, <2>2
  <2>5. {A[k] : k \in DOMAIN A} = {ALL_PCB[k] : k \in DOMAIN ALL_PCB} \cup {pid}
    <3>1. \A k \in DOMAIN A : k = z + 1 \/ k \in DOMAIN ALL_PCB
      BY <2>2
    <3>2. z + 1 \in DOMAIN A /\ \A k \in DOMAIN ALL_PCB : k \in DOMAIN A
      BY <2>2
    <3>3. QED
      BY <3>1, <3>2, <2>2
  <2>6. PID_counter' - 1 = pid
    BY <1>1
  <2>7. QED
    BY <2>2, <2>4, <2>5, <2>6 DEF A, Admitted
<1>6. /\ WellFormed(R) /\ Alive(R) /\ Executed(R) = 0 /\ Ahead(R) = 2
      /\ Pages(R) \cap {0, 1} \subseteq I
      /\ \A i \in Pages(R) : i \notin I => R.page_table[i] = PAGE_init
      /\ IsMemory(n) /\ FramesOf(n, pcb', M)
      /\ M \in Seq(Admitted' \X Nat) /\ Distinct(M)
      /\ Listed(M) = Listed(LRU_CACHE) \cup {<<pid, i>> : i \in I}
  BY <1>5 DEF Born
<1>7. \A p \in Admitted : Executed(pcb[p]) = 0 /\ Ahead(pcb[p]) = 2
  BY DEF KernelInv, Lockstep
<1>8. \A p \in Admitted' : Executed(pcb'[p]) = 0 /\ Ahead(pcb'[p]) = 2
  BY <1>3, <1>5, <1>6, <1>7
<1>9. /\ QUEUE' \in Seq(Admitted') /\ Distinct(QUEUE') /\ Ordered(QUEUE', pcb')
      /\ Waiting' = Waiting \cup {pid}
  <2> DEFINE S == Admitted \cup {pid}
             Qs == pcb'
  <2>1. QUEUE \in Seq(Admitted) /\ Distinct(QUEUE) /\ Ordered(QUEUE, pcb)
    BY DEF KernelInv, ListsOK, Lockstep
  <2>2. QUEUE \in Seq(S) /\ pid \in S /\ Listed(QUEUE) \subseteq Admitted
    BY <2>1 DEF Listed
  <2>3. Ordered(QUEUE, Qs)
    <3>1. \A p \in Listed(QUEUE) : SameTurn(pcb[p], Qs[p])
      BY <2>2, <1>3 DEF SameTurn
    <3>2. QED
      BY <2>1, <3>1, OrderedSame
  <2>4. \A r \in Listed(QUEUE) : Alive(Qs[pid]) /\ Alive(Qs[r]) =>
            InStep(r, Executed(Qs[r]), Ahead(Qs[r]), pid, Qs[pid])
    <3>1. \A r \in Listed(QUEUE) :
             /\ r \in Nat /\ r < pid /\ Executed(Qs[r]) = Executed(Qs[pid])
             /\ Ahead(Qs[r]) = Ahead(Qs[pid])
      BY <2>2, <1>1, <1>2, <1>3, <1>6, <1>7
    <3> HIDE DEF Qs
    <3>2. QED
      BY <3>1, <1>1 DEF InStep
  <2>5. pid \notin Listed(QUEUE)
    BY <2>2, <1>1
  <2> HIDE DEF S, Qs
  <2> DEFINE B == Append(QUEUE, pid)
  <2>6. /\ B \in Seq(S) /\ Distinct(B) /\ Listed(B) = Listed(QUEUE) \cup {pid}
        /\ Ordered(B, Qs)
    BY <2>1, <2>2, <2>3, <2>4, <2>5, QueueAppend
  <2> HIDE DEF B
  <2>7. QUEUE' = B /\ Admitted' = S
    BY <1>5 DEF B, S
  <2>8. QED
    BY <2>6, <2>7 DEF Qs, Waiting, Listed
<1>10. ListsOK'
  <2>1. /\ at' \in {"sched", "admit"} /\ PID_counter' \in 1 .. MaxPid + 1
        /\ (at' = "admit" => /\ todo' \in Seq(Scripts) \ {<<>>}
                             /\ PID_counter' + Len(todo') - 1 <= MaxPid)
    <3>1. Len(todo) \in Nat /\ Len(todo) >= 1 /\ Len(Tail(todo)) = Len(todo) - 1
          /\ Tail(todo) \in Seq(Scripts)
      BY <1>1
    <3>2. MaxPid \in Nat
      BY PidAssumption
    <3>3. Len(todo) # 1 => Tail(todo) # <<>>
      <4>1. Len(todo) # 1 => Len(Tail(todo)) # 0
        BY <3>1
      <4>2. Len(<<>>) = 0
        OBVIOUS
      <4>3. QED
        BY <4>1, <4>2
    <3>4. PID_counter' \in 1 .. MaxPid + 1 /\ PID_counter' + Len(Tail(todo)) - 1 <= MaxPid
      BY <1>1, <3>1, <3>2
    <3>5. QED
      BY <3>1, <3>3, <3>4
  <2>2. mem' = [l \in Mem |-> mem'[l]]
    BY <1>6 DEF IsMemory
  <2>3. ran' = [p \in Pids |-> ran'[p]]
    BY DEF KernelInv, ListsOK
  <2>4. at' # "shell"
    BY <2>1
  <2>5. QED
    BY <2>1, <2>2, <2>3, <2>4, <1>3, <1>5, <1>6, <1>9 DEF ListsOK
<1>11. Idle'
  BY <1>5 DEF KernelInv, Idle
<1>12. ProcsOK'
  <2>1. \A p \in Admitted :
           WellFormed(pcb[p]) /\ ran[p] = [k \in 1 .. Executed(pcb[p]) |-> Source(p)[k]]
    BY DEF KernelInv, ProcsOK
  <2>2. ASSUME NEW p \in Admitted'
        PROVE  /\ WellFormed(pcb'[p])
               /\ ran'[p] = [k \in 1 .. Executed(pcb'[p]) |-> pcb'[p].source_file.line[k]]
    <3>1. CASE p = pid
      <4>1. ran'[p] = <<>>
        BY <3>1, <1>1 DEF KernelInv, Idle
      <4>2. [k \in 1 .. 0 |-> pcb'[p].source_file.line[k]] = <<>>
        OBVIOUS
      <4>3. QED
        BY <3>1, <4>1, <4>2, <1>3, <1>6
    <3>2. CASE p # pid
      BY <3>2, <2>1, <1>3, <1>5 DEF Source
    <3>3. QED
      BY <3>1, <3>2
  <2>3. NeededOf(Admitted', pcb', LRU_CACHE')
    <3> SUFFICES ASSUME NEW p \in Admitted', NEW i \in Pages(pcb'[p]), Needed(pcb'[p], i)
                 PROVE  <<p, i>> \in Listed(M)
      BY DEF NeededOf
    <3>1. CASE p = pid
      <4>1. i \in {0, 1} /\ i \in Pages(R)
        BY <3>1, <1>3, <1>6 DEF Needed
      <4>2. QED
        BY <3>1, <4>1, <1>6
    <3>2. CASE p # pid
      <4>1. NeededOf(Admitted, pcb, LRU_CACHE)
        BY DEF KernelInv, ProcsOK
      <4>2. QED
        BY <3>2, <4>1, <1>3, <1>5, <1>6 DEF NeededOf
    <3>3. QED
      BY <3>1, <3>2
  <2>4. AbsentOf(Admitted', pcb', LRU_CACHE')
    <3> SUFFICES ASSUME NEW p \in Admitted', NEW i \in Pages(pcb'[p]),
                        <<p, i>> \notin Listed(M), NEW j \in 0 .. 2
                 PROVE  ~pcb'[p].page_table[i].valid[j]
      BY DEF AbsentOf
    <3>1. CASE p = pid
      <4>1. R.page_table[i] = PAGE_init
        BY <3>1, <1>3, <1>6
      <4>2. QED
        BY <3>1, <4>1, <1>3 DEF PAGE_init
    <3>2. CASE p # pid
      <4>1. AbsentOf(Admitted, pcb, LRU_CACHE)
        BY DEF KernelInv, ProcsOK
      <4>2. p \in Admitted /\ <<p, i>> \notin Listed(LRU_CACHE) /\ i \in Pages(pcb[p])
        BY <3>2, <1>3, <1>5, <1>6
      <4>3. QED
        BY <4>1, <4>2, <1>3 DEF AbsentOf
    <3>3. QED
      BY <3>1, <3>2
  <2>5. QED
    BY <2>2, <2>3, <2>4 DEF ProcsOK, Source
<1>13. FramesOK'
  BY <1>6 DEF FramesOK
<1>14. Lockstep'
  <2>1. at' # "second"
    OBVIOUS
  <2>2. ASSUME NEW p \in Admitted', Alive(pcb'[p]) PROVE p \in Waiting'
    <3>1. CASE p = pid
      BY <3>1, <1>9
    <3>2. CASE p # pid
      BY <3>2, <2>2, <1>3, <1>5, <1>9 DEF KernelInv, Lockstep
    <3>3. QED
      BY <3>1, <3>2
  <2>3. QED
    BY <2>1, <2>2, <1>8, <1>9 DEF Lockstep
<1>15. Recency'
  BY <1>8 DEF Recency, RecencyOf, Going
<1>16. QED
  BY <1>10, <1>11, <1>12, <1>13, <1>14, <1>15 DEF KernelInv

\* A memory and an LRU list that hold the pages of process pid, which is R, too.
Holds(pid, R, n, M, I) ==
    /\ IsMemory(n) /\ FramesOf(n, [pcb EXCEPT ![pid] = R], M)
    /\ M \in Seq((Admitted \cup {pid}) \X Nat) /\ Distinct(M)
    /\ Listed(M) = Listed(LRU_CACHE) \cup {<<pid, i>> : i \in I}

\* The first page of a new process is loaded.
LEMMA FirstPage ==
    ASSUME KernelInv, at = "admit", NEW pid, pid = PID_counter, NEW f \in frame_alloc(mem),
           NEW P0, NEW R, P0.source_file = R.source_file, P0.pos = 0,
           \A j \in 0 .. 2 : Fetched(P0, j) <=> j < Total(R),
           0 \in Pages(R), Ahead(R) = 2, R.page_table[0] = LoadedPage(R, 0, f)
    PROVE  Holds(pid, R, LoadedMem(mem, pid, P0, f), <<<<pid, 0>>>> \o LRU_CACHE, {0})
<1> DEFINE Qs == [pcb EXCEPT ![pid] = R]
           n == LoadedMem(mem, pid, P0, f)
           S == (Admitted \cup {pid}) \X Nat
           x == <<pid, 0>>
           M == <<x>> \o LRU_CACHE
<1>1. pid \in Pids /\ pid \in Nat /\ pid \notin Admitted
  BY NextPid
<1>2. /\ Admitted \subseteq Nat
      /\ \A y \in Listed(LRU_CACHE) : y[1] \in Admitted /\ y = <<y[1], y[2]>>
  BY AdmittedPids DEF KernelInv
<1>3. Qs[pid] = R /\ \A p \in Admitted : Qs[p] = pcb[p]
  <2>1. pcb = [p \in Pids |-> pcb[p]]
    BY DEF KernelInv, ListsOK
  <2>2. Admitted \subseteq Pids
    BY AdmittedPids DEF KernelInv
  <2>3. QED
    BY <2>1, <2>2, <1>1
<1>4. LRU_CACHE \in Seq(S) /\ Distinct(LRU_CACHE) /\ x \in S /\ x \notin Listed(LRU_CACHE)
  <2>1. LRU_CACHE \in Seq(Admitted \X Nat) /\ Distinct(LRU_CACHE)
    BY DEF KernelInv, ListsOK
  <2>2. QED
    BY <2>1, <1>1, <1>2
<1> HIDE DEF S, x
<1>5. M \in Seq(S) /\ Distinct(M) /\ Listed(M) = Listed(LRU_CACHE) \cup {x}
  BY <1>4, Push
<1> HIDE DEF M
<1>6. FramesOf(mem, pcb, LRU_CACHE) /\ IsMemory(mem)
  BY DEF KernelInv, FramesOK, ListsOK, IsMemory
<1>7. \A y \in Listed(LRU_CACHE) : y[1] \in Nat /\ Stays(pcb[y[1]], Qs[y[1]], y[2])
  <2> SUFFICES ASSUME NEW y \in Listed(LRU_CACHE)
               PROVE  y[1] \in Nat /\ Stays(pcb[y[1]], Qs[y[1]], y[2])
    OBVIOUS
  <2>1. y[1] \in Admitted /\ Qs[y[1]] = pcb[y[1]]
    BY <1>2, <1>3
  <2>2. y[2] \in Pages(pcb[y[1]]) /\ y[2] < Ahead(pcb[y[1]])
    BY <1>6 DEF FramesOf, InFrame
  <2>3. QED
    BY <2>1, <2>2, <1>2 DEF Stays
<1> HIDE DEF Qs
<1>8. IsMemory(n) /\ FramesOf(n, Qs, M)
  <2>1. /\ 0 \in Pages(Qs[pid]) /\ 0 < Ahead(Qs[pid])
        /\ Qs[pid].page_table[0] = LoadedPage(Qs[pid], 0, f)
        /\ P0.source_file = Qs[pid].source_file /\ P0.pos = 3 * 0
        /\ \A j \in 0 .. 2 : Fetched(P0, j) <=> 3 * 0 + j < Total(Qs[pid])
    BY <1>3
  <2>2. Listed(M) = Listed(LRU_CACHE) \cup {<<pid, 0>>}
    BY <1>5 DEF x
  <2>3. QED
    BY <2>1, <2>2, <1>6, <1>7, PutPage
<1>9. QED
  BY <1>5, <1>8 DEF Holds, Qs, S, x, M

\* Then the second.
LEMMA SecondPage ==
    ASSUME KernelInv, at = "admit", NEW pid, pid = PID_counter,
           NEW R, NEW m, NEW L, Holds(pid, R, m, L, {0}), NEW g \in frame_alloc(m),
           NEW P, P.source_file = R.source_file, P.pos = 3,
           \A j \in 0 .. 2 : Fetched(P, j) <=> 3 + j < Total(R),
           1 \in Pages(R), Ahead(R) = 2, R.page_table[1] = LoadedPage(R, 1, g)
    PROVE  Holds(pid, R, LoadedMem(m, pid, P, g), <<<<pid, 1>>>> \o L, {0, 1})
<1> DEFINE Qs == [pcb EXCEPT ![pid] = R]
           n == LoadedMem(m, pid, P, g)
           S == (Admitted \cup {pid}) \X Nat
           x == <<pid, 1>>
           M == <<x>> \o L
<1>1. pid \in Pids /\ pid \in Nat /\ pid \notin Admitted
  BY NextPid
<1>2. /\ Admitted \subseteq Nat
      /\ \A y \in Listed(LRU_CACHE) : y[1] \in Admitted /\ y = <<y[1], y[2]>>
  BY AdmittedPids DEF KernelInv
<1>3. Qs[pid] = R
  <2>1. pcb = [p \in Pids |-> pcb[p]]
    BY DEF KernelInv, ListsOK
  <2>2. QED
    BY <2>1, <1>1
<1>4. /\ IsMemory(m) /\ FramesOf(m, Qs, L)
      /\ L \in Seq(S) /\ Distinct(L) /\ Listed(L) = Listed(LRU_CACHE) \cup {<<pid, 0>>}
  BY DEF Holds
<1>5. x \in S /\ x \notin Listed(L) /\ \A y \in Listed(L) : y[1] \in Nat
  BY <1>1, <1>2, <1>4
<1> HIDE DEF S, x
<1>6. M \in Seq(S) /\ Distinct(M) /\ Listed(M) = Listed(L) \cup {x}
  BY <1>4, <1>5, Push
<1> HIDE DEF M, Qs
<1>7. \A y \in Listed(L) : y[1] \in Nat /\ Stays(Qs[y[1]], Qs[y[1]], y[2])
  <2> SUFFICES ASSUME NEW y \in Listed(L)
               PROVE  Stays(Qs[y[1]], Qs[y[1]], y[2])
    BY <1>5
  <2>1. y[2] \in Pages(Qs[y[1]]) /\ y[2] < Ahead(Qs[y[1]])
    BY <1>4 DEF FramesOf, InFrame
  <2>2. QED
    BY <2>1 DEF Stays
<1>8. IsMemory(n) /\ FramesOf(n, Qs, M)
  <2>1. /\ 1 \in Pages(Qs[pid]) /\ 1 < Ahead(Qs[pid])
        /\ Qs[pid].page_table[1] = LoadedPage(Qs[pid], 1, g)
        /\ P.source_file = Qs[pid].source_file /\ P.pos = 3 * 1
        /\ \A j \in 0 .. 2 : Fetched(P, j) <=> 3 * 1 + j < Total(Qs[pid])
    BY <1>3
  <2>2. Listed(M) = Listed(L) \cup {<<pid, 1>>}
    BY <1>6 DEF x
  <2>3. QED
    BY <2>1, <2>2, <1>4, <1>7, PutPage
<1>9. Listed(M) = Listed(LRU_CACHE) \cup {<<pid, i>> : i \in {0, 1}}
  BY <1>4, <1>6 DEF x
<1>10. QED
  BY <1>6, <1>8, <1>9 DEF Holds, Qs, S, x, M

\* The shell exits when there is no frame; what was loaded is not kept.
LEMMA NoFrame ==
    ASSUME KernelInv, at = "admit", FrameAllocFailed, PID_counter' = PID_counter + 1,
           UNCHANGED <<curr, ran>>
    PROVE  KernelInv'
<1>1. /\ at' = "exit"
      /\ UNCHANGED <<mem, pcb, QUEUE, LRU_CACHE, ALL_PCB, todo, curr, ran>>
  BY DEF FrameAllocFailed, lists
<1>2. Admitted' = Admitted /\ Waiting' = Waiting
  BY <1>1 DEF Admitted, Waiting
<1>3. PID_counter' \in 1 .. MaxPid + 1 /\ ALL_PCB \in Seq(1 .. PID_counter' - 1)
  <2>1. PID_counter \in Pids /\ PID_counter \in Nat /\ MaxPid \in Nat
    BY NextPid, PidAssumption
  <2>2. ALL_PCB \in Seq(1 .. PID_counter - 1)
    BY DEF KernelInv, ListsOK
  <2>3. 1 .. PID_counter - 1 \subseteq 1 .. PID_counter' - 1
    BY <2>1
  <2>4. ALL_PCB \in Seq(1 .. PID_counter' - 1)
    <3> DEFINE S == 1 .. PID_counter - 1
               T == 1 .. PID_counter' - 1
    <3> HIDE DEF S, T
    <3>1. ALL_PCB \in Seq(S) /\ S \subseteq T
      BY <2>2, <2>3 DEF S, T
    <3>2. ALL_PCB \in Seq(T)
      BY <3>1
    <3>3. QED
      BY <3>2 DEF T
  <2>5. PID_counter' \in 1 .. MaxPid + 1
    BY <2>1 DEF Pids
  <2>6. QED
    BY <2>4, <2>5
<1>4. ListsOK'
  BY <1>1, <1>2, <1>3 DEF KernelInv, ListsOK
<1>5. Idle' /\ ProcsOK' /\ FramesOK' /\ Recency'
  BY <1>1, <1>2 DEF KernelInv, Idle, ProcsOK, FramesOK, Recency, Source
<1>6. Lockstep'
  BY <1>1, <1>2 DEF KernelInv, Lockstep
<1>7. QED
  BY <1>4, <1>5, <1>6 DEF KernelInv

\* The new page entries, the last page first.
LEMMA NewEntries ==
    ASSUME NEW S, NEW L \in Seq(S), NEW p, <<p, 0>> \in S, <<p, 1>> \in S
    PROVE  /\ [k \in 1 .. 1 |-> <<p, 1 - k>>] \o L = <<<<p, 0>>>> \o L
           /\ [k \in 1 .. 2 |-> <<p, 2 - k>>] \o L = <<<<p, 1>>>> \o (<<<<p, 0>>>> \o L)
<1>1. [k \in 1 .. 1 |-> <<p, 1 - k>>] = <<<<p, 0>>>>
  OBVIOUS
<1> DEFINE a == <<p, 0>>
           b == <<p, 1>>
<1>2. [k \in 1 .. 2 |-> <<p, 2 - k>>] = <<b, a>>
  OBVIOUS
<1> HIDE DEF a, b
<1>3. <<b, a>> \o L = <<b>> \o (<<a>> \o L)
  OBVIOUS
<1>4. QED
  BY <1>1, <1>2, <1>3 DEF a, b

\* new_proc, with one page, with two, or without a frame for one of them.
LEMMA NewProcInv == Counted /\ KernelInv /\ new_proc => KernelInv'
<1> SUFFICES ASSUME Counted, KernelInv, new_proc PROVE KernelInv'
  OBVIOUS
<1> DEFINE pid == PID_counter
           s == Head(todo)
           P0 == NewPCB(s)
<1>1. /\ at = "admit" /\ PID_counter' = PID_counter + 1 /\ UNCHANGED <<curr, ran>>
      /\ \/ frame_alloc(mem) = {} /\ FrameAllocFailed
         \/ \E f \in frame_alloc(mem) :
              LET m == LoadedMem(mem, pid, P0, f)
                  P == LoadedPCB(P0, 0, f)
              IN  \/ Pages(P) = {0} /\ Admit(m, pid, P, 1)
                  \/ Pages(P) # {0} /\ LoadSecond(m, pid, P)
  BY DEF new_proc
<1>2. s \in Scripts
  <2>1. todo \in Seq(Scripts) /\ todo # <<>>
    BY <1>1, NextPid
  <2>2. QED
    BY <2>1
<1>3. LRU_CACHE \in Seq(Admitted \X Nat)
  BY DEF KernelInv, ListsOK
<1>4. CASE FrameAllocFailed
  BY <1>1, <1>4, NoFrame
<1>5. ASSUME NEW f \in frame_alloc(mem),
             LET m == LoadedMem(mem, pid, P0, f)
                 P == LoadedPCB(P0, 0, f)
             IN  \/ Pages(P) = {0} /\ Admit(m, pid, P, 1)
                 \/ Pages(P) # {0} /\ LoadSecond(m, pid, P)
      PROVE  KernelInv'
  <2> DEFINE m == LoadedMem(mem, pid, P0, f)
             P == LoadedPCB(P0, 0, f)
             L == <<<<pid, 0>>>> \o LRU_CACHE
             S == (Admitted \cup {pid}) \X Nat
  <2>1. f \in Nat /\ f + 2 \in Frame
    BY <1>5, AllocPlace
  <2>2. LRU_CACHE \in Seq(S) /\ <<pid, 0>> \in S /\ <<pid, 1>> \in S
    BY <1>3
  <2> HIDE DEF S
  <2>3. CASE Pages(P) = {0} /\ Admit(m, pid, P, 1)
    <3>1. /\ WellFormed(P) /\ Alive(P) /\ Executed(P) = 0 /\ Ahead(P) = 2
          /\ P.source_file = s /\ P0.source_file = s
          /\ 0 \in Pages(P) /\ P.page_table[0] = LoadedPage(P, 0, f)
          /\ P0.pos = 0 /\ \A j \in 0 .. 2 : Fetched(P0, j) <=> j < Len(s.line)
      BY <1>2, <2>1, <2>3, NewProc
    <3> HIDE DEF P, P0, s
    <3>2. Holds(pid, P, m, L, {0})
      <4>1. Total(P) = Len(s.line) /\ P0.source_file = P.source_file
        BY <3>1 DEF Total
      <4>2. QED
        BY <1>1, <1>5, <3>1, <4>1, FirstPage
    <3> HIDE DEF m, L, pid
    <3>3. Born(pid, P, {0}, m, L)
      <4>1. Pages(P) \cap {0, 1} \subseteq {0} /\ \A i \in Pages(P) : i \in {0}
        BY <2>3
      <4>2. QED
        BY <3>1, <3>2, <4>1 DEF Born, Holds
    <3>4. LRU_CACHE' = L
      BY <2>2, <2>3, NewEntries DEF Admit, L
    <3>5. QED
      BY <1>1, <2>3, <3>3, <3>4, BornInv DEF Admit, pid
  <2>4. CASE Pages(P) # {0} /\ LoadSecond(m, pid, P)
    <3>1. CASE FrameAllocFailed
      BY <1>4, <3>1
    <3>2. ASSUME NEW g \in frame_alloc(m),
                 Admit(LoadedMem(m, pid, P, g), pid, LoadedPCB(P, 1, g), 2)
          PROVE  KernelInv'
      <4> DEFINE n == LoadedMem(m, pid, P, g)
                 R == LoadedPCB(P, 1, g)
                 M == <<<<pid, 1>>>> \o L
      <4>1. g \in Nat /\ g + 2 \in Frame
        BY <3>2, AllocPlace
      <4>2. /\ WellFormed(R) /\ Alive(R) /\ Executed(R) = 0 /\ Ahead(R) = 2
            /\ R.source_file = s /\ P.source_file = s /\ P0.source_file = s
            /\ 0 \in Pages(R) /\ R.page_table[0] = LoadedPage(R, 0, f)
            /\ 1 \in Pages(R) /\ R.page_table[1] = LoadedPage(R, 1, g)
            /\ \A i \in Pages(R) : i # 0 /\ i # 1 => R.page_table[i] = PAGE_init
            /\ P0.pos = 0 /\ \A j \in 0 .. 2 : Fetched(P0, j) <=> j < Len(s.line)
            /\ P.pos = 3 /\ \A j \in 0 .. 2 : Fetched(P, j) <=> 3 + j < Len(s.line)
        BY <1>2, <2>1, <2>4, <4>1, NewProc
      <4> HIDE DEF R, P, P0, s
      <4>3. Total(R) = Len(s.line)
        BY <4>2 DEF Total
      <4>4. Holds(pid, R, m, L, {0})
        BY <1>1, <1>5, <4>2, <4>3, FirstPage
      <4> HIDE DEF m, L
      <4>5. Holds(pid, R, n, M, {0, 1})
        BY <1>1, <3>2, <4>2, <4>3, <4>4, SecondPage
      <4> HIDE DEF n, M, pid
      <4>6. Born(pid, R, {0, 1}, n, M)
        <5>1. Pages(R) \cap {0, 1} \subseteq {0, 1}
          OBVIOUS
        <5>2. \A i \in Pages(R) : i \notin {0, 1} => R.page_table[i] = PAGE_init
          BY <4>2
        <5>3. QED
          BY <4>2, <4>5, <5>1, <5>2 DEF Born, Holds
      <4>7. Admit(n, pid, R, 2)
        BY <3>2 DEF n, R
      <4>8. LRU_CACHE' = M
        BY <2>2, <4>7, NewEntries DEF Admit, L, M
      <4>9. QED
        BY <1>1, <4>6, <4>7, <4>8, BornInv DEF Admit, pid
    <3>3. QED
      BY <2>4, <3>1, <3>2 DEF LoadSecond
  <2>5. QED
    BY <1>5, <2>3, <2>4
<1>6. QED
  BY <1>1, <1>4, <1>5

----------------------------------------------------------------------------
(* The invariant.                                                          *)

(***************************************************************************)
(* In every reachable state the frames hold the listed pages and nothing   *)
(* else, the processes go on in step, and the needed pages are listed in   *)
(* the order in which they will be given up.                               *)
(***************************************************************************)
THEOREM Invariance == ASSUME Counted PROVE Spec => []KernelInv
<1>1. KernelInv /\ [Next]_vars => KernelInv'
  <2> SUFFICES ASSUME KernelInv, [Next]_vars PROVE KernelInv'
    OBVIOUS
  <2>1. CASE \/ \E n \in 1 .. MaxScripts : \E scripts \in [1 .. n -> Scripts] : exec(scripts)
             \/ \E c \in Typed : Type(c)
             \/ quit
    BY <2>1, PromptStep
  <2>2. CASE Restart
    BY <2>2, RestartInv
  <2>3. CASE new_proc
    BY <2>3, NewProcInv
  <2>4. CASE RunFirst
    BY <2>4, RunFirstInv
  <2>5. CASE RunSecond
    BY <2>5, RunSecondInv
  <2>6. CASE RunLast
    BY <2>6, RunLastInv
  <2>7. CASE Drop
    BY <2>7, DropInv
  <2>8. CASE Finish
    BY <2>8, FinishInv
  <2>9. CASE UNCHANGED vars
    <3>1. UNCHANGED <<mem, pcb, QUEUE, LRU_CACHE, ALL_PCB, PID_counter, at, todo, curr, ran>>
      BY <2>9 DEF vars
    <3>2. Admitted' = Admitted /\ Waiting' = Waiting
      BY <3>1 DEF Admitted, Waiting
    <3>3. ListsOK'
      BY <3>1, <3>2 DEF KernelInv, ListsOK
    <3>4. Idle' /\ ProcsOK'
      BY <3>1, <3>2 DEF KernelInv, Idle, ProcsOK, Source
    <3>5. FramesOK'
      BY <3>1 DEF KernelInv, FramesOK
    <3>6. Recency'
      BY <3>1, <3>2 DEF KernelInv, Recency
    <3>7. Lockstep'
      BY <3>1, <3>2 DEF KernelInv, Lockstep
    <3>8. QED
      BY <3>3, <3>4, <3>5, <3>6, <3>7 DEF KernelInv
  <2>10. QED
    BY <2>1, <2>2, <2>3, <2>4, <2>5, <2>6, <2>7, <2>8, <2>9 DEF Next, Kernel
<1>2. QED
  BY InitInv, <1>1, PTL DEF Spec

----------------------------------------------------------------------------
(* What it says about the kernel.                                          *)

\* The invariant types the state.
LEMMA InvType == Counted /\ KernelInv => TypeOK
<1> SUFFICES ASSUME Counted, KernelInv PROVE TypeOK
  OBVIOUS
<1>1. /\ DOMAIN mem = Mem /\ at \in {"shell", "admit", "sched", "second", "exit"}
      /\ PID_counter \in 1 .. MaxPid + 1 /\ Waiting \subseteq Admitted
  BY AdmittedPids DEF KernelInv, ListsOK
<1>2. ASSUME NEW p \in Admitted
      PROVE  /\ pcb[p].size \in 0 .. count_lines(pcb[p].source_file)
             /\ pcb[p].pos \in 0 .. Len(Source(p))
             /\ pcb[p].program_counter \in [Pages(pcb[p]) -> 0 .. 3]
             /\ \A i \in Pages(pcb[p]) : pcb[p].page_table[i] \in Page
  <2> DEFINE P == pcb[p]
  <2>1. WellFormed(P)
    BY DEF KernelInv, ProcsOK
  <2>2. Total(P) \in Nat /\ Executed(P) \in Nat /\ Pages(P) \subseteq Nat
    BY <2>1, Numbers
  <2>3. P.size \in 0 .. count_lines(P.source_file)
    BY <2>1 DEF WellFormed, Counted, Total
  <2>4. P.pos \in 0 .. Len(Source(p))
    <3>1. P.pos \in Nat /\ P.pos <= Total(P)
      BY <2>1, <2>2 DEF WellFormed
    <3>2. QED
      BY <2>2, <3>1 DEF Source, Total
  <2>5. P.program_counter \in [Pages(P) -> 0 .. 3]
    <3>1. \A i \in Pages(P) : Behind(Executed(P) - 3 * i) \in 0 .. 3
      BY <2>2 DEF Behind
    <3>2. P.program_counter = [i \in Pages(P) |-> Behind(Executed(P) - 3 * i)]
      BY <2>1 DEF WellFormed
    <3>3. QED
      BY <3>1, <3>2
  <2>6. \A i \in Pages(P) : P.page_table[i] \in Page
    BY <2>1 DEF WellFormed, Pages
  <2>7. QED
    BY <2>3, <2>4, <2>5, <2>6
<1>3. ASSUME NEW k \in DOMAIN LRU_CACHE
      PROVE  /\ LRU_CACHE[k][1] \in Admitted
             /\ LRU_CACHE[k][2] \in Pages(pcb[LRU_CACHE[k][1]])
  <2>1. LRU_CACHE[k] \in Listed(LRU_CACHE)
    BY DEF Listed
  <2>2. QED
    BY <2>1, AdmittedPids DEF KernelInv, FramesOK, FramesOf, InFrame
<1>4. QED
  BY <1>1, <1>2, <1>3 DEF TypeOK, Page

\* What a process has run.
LEMMA History ==
    ASSUME KernelInv, NEW p \in Admitted
    PROVE  /\ WellFormed(pcb[p])
           /\ Executed(pcb[p]) \in Nat /\ Executed(pcb[p]) <= Total(pcb[p])
           /\ Len(ran[p]) = Executed(pcb[p])
           /\ \A k \in 1 .. Executed(pcb[p]) : ran[p][k] = Source(p)[k]
           /\ ~Alive(pcb[p]) => ran[p] = Source(p)
<1> DEFINE P == pcb[p]
           e == Executed(P)
<1>1. WellFormed(P) /\ ran[p] = [k \in 1 .. e |-> Source(p)[k]]
  BY DEF KernelInv, ProcsOK
<1>2. e \in Nat /\ e <= Total(P) /\ P.size \in Nat /\ P.size = Total(P) - e /\ Total(P) \in Nat
  <2>1. WellFormed(P)
    BY <1>1
  <2>2. /\ Total(P) \in Nat \ {0} /\ e \in 0 .. Total(P) /\ P.size \in Nat
        /\ P.size = Total(P) - e
    BY <2>1, Numbers
  <2>3. QED
    BY <2>2
<1>3. Source(p) = [k \in 1 .. Total(P) |-> Source(p)[k]]
  BY <1>1, ScriptLines DEF WellFormed, Source, Total
<1>4. ~Alive(P) => e = Total(P)
  BY <1>2 DEF Alive
<1>5. ~Alive(P) => ran[p] = Source(p)
  BY <1>1, <1>3, <1>4
<1> HIDE DEF e
<1>6. Len(ran[p]) = e /\ \A k \in 1 .. e : ran[p][k] = Source(p)[k]
  BY <1>1, <1>2
<1>7. QED
  BY <1>1, <1>2, <1>5, <1>6 DEF e

\* A process has run a prefix of its script.
LEMMA InvInOrder == KernelInv => InOrder
<1> SUFFICES ASSUME KernelInv, NEW p \in Admitted
             PROVE  /\ Len(ran[p]) <= Len(Source(p))
                    /\ \A k \in 1 .. Len(ran[p]) : ran[p][k] = Source(p)[k]
  BY DEF InOrder
<1>1. QED
  BY History DEF Source, Total

\* A process without a further turn is at the end of its script.
LEMMA InvRunsWhole == KernelInv => RunsWhole
<1> SUFFICES ASSUME KernelInv, at \in {"sched", "second"}, NEW p \in Admitted, p # curr,
                    p \notin Waiting \/ PCB_done(pcb[p])
             PROVE  ran[p] = Source(p)
  BY DEF RunsWhole
<1> DEFINE P == pcb[p]
<1>1. WellFormed(P)
  BY History
<1>2. CASE p \notin Waiting
  BY <1>2, History DEF KernelInv, Lockstep
<1>3. CASE PCB_done(P)
  <2> DEFINE n == PAGE_table_size(Total(P))
  <2>1. /\ Total(P) \in Nat \ {0} /\ Executed(P) \in Nat /\ P.size \in Nat
        /\ P.size = Total(P) - Executed(P)
    BY <1>1, Numbers
  <2>2. n \in Nat \ {0} /\ 3 * n >= Total(P)
    BY <2>1, TableSize
  <2>3. Pages(P) = 0 .. n - 1
    BY <1>1 DEF WellFormed, Pages
  <2> HIDE DEF n
  <2>4. n - 1 \in Pages(P)
    BY <2>2, <2>3
  <2>5. Behind(Executed(P) - 3 * (n - 1)) = 3
    BY <1>1, <1>3, <2>4 DEF PCB_done, WellFormed
  <2>6. Executed(P) >= 3 * n
    BY <2>1, <2>2, <2>5 DEF Behind
  <2>7. ~Alive(P)
    BY <2>1, <2>2, <2>6 DEF Alive
  <2>8. QED
    BY <2>7, History
<1>4. QED
  BY <1>2, <1>3

\* The listed pages share out the occupied frames.
LEMMA InvFramesOwned == KernelInv => FramesOwned
<1> SUFFICES ASSUME KernelInv, NEW l \in Frame
             PROVE  LET holders == {k \in DOMAIN LRU_CACHE :
                                      l \in IndexLines(Resident(pcb, LRU_CACHE[k]))}
                    IN  IF mem[l].var = None THEN holders = {}
                        ELSE \E k \in holders : holders = {k} /\ LRU_CACHE[k][1] = mem[l].var
  BY DEF FramesOwned
<1> DEFINE base(x) == Base(pcb[x[1]], x[2])
           holders == {k \in DOMAIN LRU_CACHE : l \in IndexLines(Resident(pcb, LRU_CACHE[k]))}
<1>1. FramesOf(mem, pcb, LRU_CACHE)
  BY DEF KernelInv, FramesOK
<1>2. \A k \in DOMAIN LRU_CACHE : LRU_CACHE[k] \in Listed(LRU_CACHE)
  BY DEF Listed
<1>3. \A x \in Listed(LRU_CACHE) : InFrame(mem, x[1], pcb[x[1]], x[2]) /\ base(x) \in Nat
  BY <1>1 DEF FramesOf, InFrame
<1>4. \A x \in Listed(LRU_CACHE) : IndexLines(Resident(pcb, x)) = base(x) .. base(x) + 2
  BY <1>3, FrameLines DEF Resident
<1>5. holders = {k \in DOMAIN LRU_CACHE : l \in base(LRU_CACHE[k]) .. base(LRU_CACHE[k]) + 2}
  BY <1>2, <1>4
<1>6. l \in Int
  BY StoreAssumption DEF Frame
<1>7. ASSUME NEW k \in holders PROVE mem[l].var = LRU_CACHE[k][1] /\ mem[l].var # None
  <2> DEFINE x == LRU_CACHE[k]
  <2>1. x \in Listed(LRU_CACHE) /\ l \in base(x) .. base(x) + 2
    BY <1>2, <1>5
  <2>2. \A j \in 0 .. 2 : mem[base(x) + j].var = x[1]
    BY <2>1, <1>3 DEF InFrame
  <2>3. l - base(x) \in 0 .. 2 /\ base(x) + (l - base(x)) = l
    BY <2>1, <1>3, <1>6
  <2>4. mem[l].var = x[1]
    BY <2>2, <2>3
  <2>5. x[1] \in Nat
    BY <2>1, AdmittedPids DEF KernelInv
  <2>6. QED
    BY <2>4, <2>5, NoneAssumption
<1>8. ASSUME NEW k1 \in holders, NEW k2 \in holders PROVE k1 = k2
  <2> SUFFICES ASSUME k1 # k2 PROVE FALSE
    OBVIOUS
  <2> DEFINE x == LRU_CACHE[k1]
             y == LRU_CACHE[k2]
  <2>1. /\ x \in Listed(LRU_CACHE) /\ y \in Listed(LRU_CACHE) /\ x # y
        /\ l \in base(x) .. base(x) + 2 /\ l \in base(y) .. base(y) + 2
    BY <1>2, <1>5 DEF KernelInv, ListsOK, Distinct
  <2>2. Apart(base(x), base(y))
    BY <2>1, <1>1 DEF FramesOf
  <2>3. base(x) \in Nat /\ base(y) \in Nat
    BY <2>1, <1>3
  <2> HIDE DEF x, y, base
  <2>4. QED
    BY <2>1, <2>2, <2>3, <1>6 DEF Apart
<1>9. ASSUME mem[l].var # None PROVE \E k \in holders : TRUE
  <2>1. PICK x \in Listed(LRU_CACHE) : l \in base(x) .. base(x) + 2
    BY <1>1, <1>9 DEF FramesOf
  <2>2. PICK k \in DOMAIN LRU_CACHE : LRU_CACHE[k] = x
    BY DEF Listed
  <2>3. k \in holders
    BY <2>1, <2>2, <1>5
  <2>4. QED
    BY <2>3
<1> HIDE DEF holders
<1>10. CASE mem[l].var = None
  BY <1>7, <1>10 DEF holders
<1>11. CASE mem[l].var # None
  <2>1. PICK k \in holders : TRUE
    BY <1>9, <1>11
  <2>2. holders = {k}
    BY <2>1, <1>8
  <2>3. LRU_CACHE[k][1] = mem[l].var
    BY <2>1, <1>7
  <2>4. QED
    BY <1>11, <2>1, <2>2, <2>3 DEF holders
<1>12. QED
  BY <1>10, <1>11

\* The numbers of lines that two processes have run.
LEMMA TurnDistance ==
    ASSUME NEW P, NEW e \in Nat, NEW c, TurnOn(P, e, c)
    PROVE  /\ Executed(P) - e \in 0 .. 2
           /\ e # 3 * c => Executed(P) - e \in 1 .. 2
  BY DEF TurnOn

\* The order of the queue bounds the distance of two processes.
LEMMA InvRoundRobin == KernelInv => RoundRobin
<1> SUFFICES ASSUME KernelInv, NEW k1 \in DOMAIN ALL_PCB, NEW k2 \in DOMAIN ALL_PCB, k1 < k2,
                    pcb[ALL_PCB[k1]].size > 0, pcb[ALL_PCB[k2]].size > 0
             PROVE  Len(ran[ALL_PCB[k1]]) - Len(ran[ALL_PCB[k2]]) \in 0 .. 2
  BY DEF RoundRobin
<1> DEFINE p == ALL_PCB[k1]
           q == ALL_PCB[k2]
           P == pcb[p]
           Q == pcb[q]
<1>1. p < q
  BY DEF KernelInv, ListsOK
<1>2. p \in Admitted /\ q \in Admitted /\ Alive(P) /\ Alive(Q)
  BY DEF Admitted, Alive
<1> HIDE DEF p, q
<1>3. p \in Nat /\ q \in Nat /\ ~(q < p)
  <2>1. p \in Nat /\ q \in Nat
    BY <1>2, AdmittedPids DEF KernelInv
  <2>2. QED
    BY <1>1, <2>1
<1>4. /\ WellFormed(P) /\ WellFormed(Q)
      /\ Executed(P) \in Nat /\ Len(ran[p]) = Executed(P)
      /\ Executed(Q) \in Nat /\ Len(ran[q]) = Executed(Q)
  BY <1>2, History
<1> HIDE DEF P, Q
<1>5. CASE p \in Waiting /\ q \in Waiting
  <2>1. PICK i \in DOMAIN QUEUE : QUEUE[i] = p
    BY <1>5 DEF Waiting
  <2>2. PICK j \in DOMAIN QUEUE : QUEUE[j] = q
    BY <1>5 DEF Waiting
  <2>3. i < j \/ j < i
    <3>1. QUEUE \in Seq(Admitted)
      BY DEF KernelInv, ListsOK
    <3>2. i \in Nat /\ j \in Nat /\ i # j
      BY <1>1, <1>3, <2>1, <2>2, <3>1
    <3>3. QED
      BY <3>2
  <2>4. Ordered(QUEUE, pcb)
    BY DEF KernelInv, Lockstep
  <2>5. CASE i < j
    <3>1. InStep(p, Executed(P), Ahead(P), q, Q)
      BY <1>2, <2>1, <2>2, <2>4, <2>5 DEF Ordered, P, Q
    <3>2. Executed(Q) = Executed(P)
      BY <1>1, <3>1 DEF InStep
    <3>3. QED
      BY <1>4, <3>2 DEF p, q
  <2>6. CASE j < i
    <3>1. InStep(q, Executed(Q), Ahead(Q), p, P)
      BY <1>2, <2>1, <2>2, <2>4, <2>6 DEF Ordered, P, Q
    <3>2. TurnOn(P, Executed(Q), Ahead(Q))
      BY <1>1, <3>1 DEF InStep
    <3>3. Executed(P) - Executed(Q) \in 0 .. 2
      BY <1>4, <3>2, TurnDistance
    <3>4. QED
      BY <1>4, <3>3 DEF p, q
  <2>7. QED
    BY <2>3, <2>5, <2>6
<1>6. CASE ~(p \in Waiting /\ q \in Waiting)
  <2>1. /\ at = "second" /\ (p = curr \/ q = curr)
        /\ (p # curr => p \in Waiting) /\ (q # curr => q \in Waiting)
    BY <1>2, <1>6 DEF KernelInv, Lockstep, P, Q
  <2>2. \A r \in Waiting : Alive(pcb[r]) =>
             InStep(curr, Executed(pcb[curr]) - 1, Ahead(pcb[curr]), r, pcb[r])
    BY <2>1 DEF KernelInv, Lockstep
  <2>3. p # q
    BY <1>1, <1>3
  <2>4. CASE p = curr
    <3>1. InStep(p, Executed(P) - 1, Ahead(P), q, Q)
      BY <1>2, <2>1, <2>2, <2>3, <2>4 DEF P, Q
    <3>2. Executed(Q) = Executed(P) - 1
      BY <1>1, <3>1 DEF InStep
    <3>3. Executed(P) - Executed(Q) \in 0 .. 2
      BY <1>4, <3>2
    <3>4. QED
      BY <1>4, <3>3 DEF p, q
  <2>5. CASE q = curr
    <3>1. InStep(q, Executed(Q) - 1, Ahead(Q), p, P)
      BY <1>2, <2>1, <2>2, <2>3, <2>5 DEF P, Q
    <3>2. TurnOn(P, Executed(Q) - 1, Ahead(Q))
      BY <1>1, <3>1 DEF InStep
    <3>3. Executed(Q) > 0 /\ Executed(Q) <= 3 * Ahead(Q) /\ Ahead(Q) \in Nat
      <4>1. Executed(Q) > 0
        BY <2>1, <2>5 DEF KernelInv, Lockstep, Q
      <4>2. QED
        BY <1>4, <4>1, Numbers
    <3>4. Executed(Q) - 1 \in Nat /\ Executed(Q) - 1 # 3 * Ahead(Q)
      BY <1>4, <3>3
    <3>5. Executed(P) - (Executed(Q) - 1) \in 1 .. 2
      BY <3>2, <3>4, TurnDistance
    <3>6. Executed(P) - Executed(Q) \in 0 .. 2
      BY <1>4, <3>5
    <3>7. QED
      BY <1>4, <3>6 DEF p, q
  <2>6. QED
    BY <2>1, <2>4, <2>5
<1>7. QED
  BY <1>5, <1>6

\* A call of run_proc keeps the pages that are still to be read.
LEMMA RunUnread ==
    ASSUME Counted, KernelInv, NEW h \in Admitted, Alive(pcb[h]), NEW e, Turn(h, e),
           NEW q, NEW okq, NEW next, run_proc(h, q, okq, next), NEW p \in Admitted
    PROVE  UnreadKept(pcb[p], pcb'[p])
<1>1. ExecStep(h, okq, next) \/ FaultStep(h, q)
  BY RunProc
<1>2. CASE ExecStep(h, okq, next)
  <2>1. RunEffects(h)
    BY <1>2, ExecEffects
  <2>2. QED
    BY <2>1 DEF RunEffects
<1>3. CASE FaultStep(h, q)
  <2>1. RunEffects(h)
    BY <1>3, FaultEffects
  <2>2. QED
    BY <2>1 DEF RunEffects
<1>4. QED
  BY <1>1, <1>2, <1>3

\* No step of the kernel takes an unread line from memory.
LEMMA StepKeepsUnread ==
    ASSUME Counted, KernelInv, Next, NEW p \in Admitted, pcb'[p] # None
    PROVE  UnreadKept(pcb[p], pcb'[p])
<1>1. pcb'[p] = pcb[p] => UnreadKept(pcb[p], pcb'[p])
  BY DEF UnreadKept
<1>2. ASSUME at = "sched", QUEUE # <<>>, pcb[Head(QUEUE)].size > 0,
             NEW next, run_proc(Head(QUEUE), Tail(QUEUE), Tail(QUEUE), next)
      PROVE  UnreadKept(pcb[p], pcb'[p])
  <2> DEFINE h == Head(QUEUE)
  <2>1. Alive(pcb[h])
    BY <1>2 DEF Alive
  <2>2. h \in Admitted /\ Turn(h, Executed(pcb[h]))
    BY <1>2, <2>1, HeadTurn
  <2>3. run_proc(h, Tail(QUEUE), Tail(QUEUE), next)
    BY <1>2
  <2> HIDE DEF h
  <2>4. QED
    BY <2>1, <2>2, <2>3, RunUnread
<1>3. CASE RunFirst
  <2>1. /\ at = "sched" /\ QUEUE # <<>> /\ pcb[Head(QUEUE)].size > 1
        /\ run_proc(Head(QUEUE), Tail(QUEUE), Tail(QUEUE), "second")
    BY <1>3 DEF RunFirst, queue_done
  <2>2. pcb[Head(QUEUE)].size \in Nat
    <3>1. Head(QUEUE) \in Admitted
      BY <2>1, HeadTurn
    <3>2. WellFormed(pcb[Head(QUEUE)])
      BY <3>1, History
    <3>3. QED
      BY <3>2, Numbers
  <2>3. pcb[Head(QUEUE)].size > 0
    BY <2>1, <2>2
  <2>4. QED
    BY <1>2, <2>1, <2>3
<1>4. CASE RunLast
  <2>1. /\ at = "sched" /\ QUEUE # <<>> /\ pcb[Head(QUEUE)].size > 0
        /\ run_proc(Head(QUEUE), Tail(QUEUE), Tail(QUEUE), "sched")
    BY <1>4 DEF RunLast, queue_done
  <2>2. QED
    BY <1>2, <2>1
<1>5. CASE RunSecond
  <2>1. at = "second" /\ run_proc(curr, QUEUE, Append(QUEUE, curr), "sched")
    BY <1>5 DEF RunSecond
  <2>2. curr \in Admitted /\ Alive(pcb[curr]) /\ Turn(curr, Executed(pcb[curr]) - 1)
    BY <2>1, SecondTurn
  <2>3. QED
    BY <2>1, <2>2, RunUnread
<1>6. CASE Drop
  BY <1>1, <1>6 DEF Drop
<1>7. CASE Finish \/ Restart
  <2>1. p \in Pids /\ pcb' = [r \in Pids |-> None]
    BY <1>7, AdmittedPids DEF KernelInv, Finish, Restart
  <2>2. QED
    BY <2>1
<1>8. CASE new_proc
  <2>1. at = "admit" /\ p # PID_counter
    BY <1>8, NextPid DEF new_proc
  <2>2. pcb' = pcb \/ \E P : pcb' = [pcb EXCEPT ![PID_counter] = P]
    BY <1>8 DEF new_proc, FrameAllocFailed, Admit, LoadSecond
  <2>3. pcb = [r \in Pids |-> pcb[r]] /\ p \in Pids
    BY AdmittedPids DEF KernelInv, ListsOK
  <2>4. ASSUME NEW P PROVE [pcb EXCEPT ![PID_counter] = P][p] = pcb[p]
    BY <2>1, <2>3
  <2>5. pcb'[p] = pcb[p]
    BY <2>2, <2>4
  <2>6. QED
    BY <1>1, <2>5
<1>9. CASE \/ \E n \in 1 .. MaxScripts : \E scripts \in [1 .. n -> Scripts] : exec(scripts)
           \/ \E c \in Typed : Type(c)
           \/ quit
  BY <1>1, <1>9 DEF exec, Type, quit
<1>10. QED
  BY <1>3, <1>4, <1>5, <1>6, <1>7, <1>8, <1>9 DEF Next, Kernel

----------------------------------------------------------------------------
(* The theorems.                                                           *)

(***************************************************************************)
(* The kernel's state stays well formed: no counter of a page passes it,   *)
(* no size becomes negative, and every listed page is one of an admitted   *)
(* process (PCB and PAGE of pcb.h, the lists of linked_list.c).            *)
(***************************************************************************)
THEOREM TypeCorrect == ASSUME Counted PROVE Spec => []TypeOK
  BY Invariance, InvType, PTL

(***************************************************************************)
(* Every process runs the lines of its script in order, whatever pages it  *)
(* loses in between, although load_PAGE only reads on in the file.         *)
(***************************************************************************)
THEOREM LinesInOrder == ASSUME Counted PROVE Spec => []InOrder
  BY Invariance, InvInOrder, PTL

(***************************************************************************)
(* A process that run_proc_RR gives no further turn has run its whole      *)
(* script.                                                                 *)
(***************************************************************************)
THEOREM WholeScripts == ASSUME Counted PROVE Spec => []RunsWhole
  BY Invariance, InvRunsWhole, PTL

(***************************************************************************)
(* An occupied frame line belongs to one listed page, and to the process   *)
(* that owns that page: frame_alloc, free_PCB and PAGE_evict agree with    *)
(* the LRU list, and no frame is lost.                                     *)
(***************************************************************************)
THEOREM FramesHaveOwners == ASSUME Counted PROVE Spec => []FramesOwned
  BY Invariance, InvFramesOwned, PTL

(***************************************************************************)
(* Of two unfinished processes, the one admitted first is never behind,    *)
(* and at most two lines ahead, page faults included (run_proc_RR).        *)
(***************************************************************************)
THEOREM TurnsAreFair == ASSUME Counted PROVE Spec => []RoundRobin
  BY Invariance, InvRoundRobin, PTL

(***************************************************************************)
(* The page that pop_tail takes has no line that its process has still to  *)
(* run: a loaded line that was not yet run stays loaded.                   *)
(***************************************************************************)
THEOREM UnreadStays == ASSUME Counted PROVE Spec => KeepsUnread
<1>1. KernelInv /\ [Next]_vars =>
        [ \A p \in Admitted : pcb'[p] # None =>
            \A i \in Pages(pcb[p]), j \in 0 .. 2 :
                pcb[p].page_table[i].valid[j] /\ j >= pcb'[p].program_counter[i]
                => pcb'[p].page_table[i].valid[j] ]_vars
  BY StepKeepsUnread DEF UnreadKept
<1>2. QED
  BY Invariance, <1>1, PTL DEF Spec, KeepsUnread

(***************************************************************************)
(* Scripts that count_lines counts right: no blank line and no newline     *)
(* after the last line.  If rm does not occur in them either, they satisfy *)
(* the hypothesis of the theorems.                                         *)
(***************************************************************************)
THEOREM PlainScripts ==
    ASSUME \A s \in Scripts : /\ s.newline = FALSE
                              /\ \A k \in 1 .. Len(s.line) :
                                   s.line[k].op # "blank" /\ s.line[k].op # "rm"
    PROVE  Counted
<1> SUFFICES ASSUME NEW s \in Scripts
             PROVE  /\ count_lines(s) = Len(s.line)
                    /\ \A k \in 1 .. Len(s.line) : ~Returns1(s.line[k])
  BY DEF Counted
<1> DEFINE n == Len(s.line)
<1>1. n \in Nat \ {0}
  BY ScriptLines
<1>2. {i \in 1 .. n : /\ s.line[i].op # "blank"
                      /\ i < n \/ s.newline} = 1 .. n - 1
  BY <1>1
<1>3. Cardinality(1 .. n - 1) = n - 1
  BY <1>1, FS_Interval
<1>4. count_lines(s) = n
  <2>1. count_lines(s) = 1 + Cardinality({i \in 1 .. n :
                                             /\ s.line[i].op # "blank"
                                             /\ i < n \/ s.newline})
    BY DEF count_lines
  <2>2. count_lines(s) = 1 + (n - 1)
    BY <2>1, <1>2, <1>3
  <2>3. QED
    BY <2>2, <1>1
<1>5. \A k \in 1 .. n : ~Returns1(s.line[k])
  BY DEF Returns1
<1>6. QED
  BY <1>4, <1>5
=============================================================================

--------------------------- MODULE A2KernelProofs ---------------------------
(***************************************************************************)
(* Proofs about A2Kernel, for every number of frames and of processes and  *)
(* every script.                                                           *)
(*                                                                         *)
(* The victim of a page fault may be any page, even one that is read next: *)
(* a2 can load any page again.  The invariant says where each process is   *)
(* in its file (Processes), that a frame holds one page (FrameWhole), that *)
(* it is the page its owner believes it is until the first eviction        *)
(* (Resident), and what the ages mean (Ages): every line that was executed *)
(* has an age above all earlier ones; a load has not.                      *)
(***************************************************************************)
EXTENDS A2Kernel, FiniteSetTheorems, WellFoundedInduction, TLAPS

----------------------------------------------------------------------------
(* The inductive invariant.                                                *)

\* A line of a file, or what reading an empty line of the store gives.
Entry == [pid : Nat, no : Nat] \cup {None}

\* The scripts that run or exec has still to admit, the missing ones aside.
Count(names) == Cardinality({k \in DOMAIN names : names[k] # None})

Shape ==
    /\ shellmemory \in [Lines -> Entry] /\ ran \in [Pids -> Seq(Entry)]
    /\ age \in [Frame -> Nat] /\ used \in [Frame -> Nat] /\ read \in [Frame -> Nat]
    /\ currentAge \in Nat /\ uses \in Nat /\ evicted \in BOOLEAN
    /\ pcb = [p \in Pids |-> pcb[p]]
    /\ backing_store = [p \in Pids |-> backing_store[p]]
    /\ pid_counter \in 1 .. MaxPid + 1
    /\ queue \in Seq(Pids)

CommandOK ==
    /\ at \in {"shell", "admit", "second", "schedule", "turn"}
    /\ todo \in Seq(Scripts \cup {None})
    /\ at \in {"admit", "second"} => pid_counter + Count(todo) <= MaxPid + 1
    /\ IF at \in {"second", "turn"} THEN cur \in Pids ELSE cur = None

\* P is a PCB of script s, with a line of it left to execute.
Running(P, s) ==
    /\ s \in Scripts /\ P \in PCB(s)
    /\ P.PC \in Pages(s) /\ P.offset \in 0 .. 2
    /\ P.PC = page_count(s) - 1 => P.offset < offset_end(s)
    /\ \A i \in Pages(s) : P.valid_page[i] => P.page_table[i] \in Frame

Processes ==
    /\ \A p \in 1 .. pid_counter - 1 : backing_store[p] \in Scripts
    /\ \A p \in Pids : pcb[p] # None => p < pid_counter /\ Running(pcb[p], backing_store[p])
    /\ \A p \in Pids : p >= pid_counter => ran[p] = <<>>

\* Frame f of store m holds page n of the file s of process p.
Holds(m, f, p, s, n) ==
    \A o \in 0 .. 2 : m[3 * f + o] = IF 3 * n + o < s.lines
                                     THEN [pid |-> p, no |-> 3 * n + o + 1] ELSE None

\* Frame f of store m is empty.
Empty(m, f) == \A o \in 0 .. 2 : m[3 * f + o] = None

Whole ==
    \A f \in Frame : \/ Empty(shellmemory, f)
                     \/ \E p \in 1 .. pid_counter - 1 : \E n \in Pages(backing_store[p]) :
                           Holds(shellmemory, f, p, backing_store[p], n)

\* The valid pages of process p, which is P, are in store m, unless they have
\* no lines: the frame of such a page stays free.
PagesIn(m, p, P) ==
    \A i \in Pages(P.fp) :
        P.valid_page[i] /\ 3 * i < P.fp.lines => Holds(m, P.page_table[i], p, P.fp, i)

Resident == ~evicted => \A p \in Pids : pcb[p] # None => PagesIn(shellmemory, p, pcb[p])

\* A line makes its frame younger than every frame that was used before it.
Ages ==
    /\ \A f \in Frame : age[f] <= currentAge /\ used[f] <= uses /\ read[f] <= used[f]
    /\ \A f, h \in Frame : used[f] < read[h] => age[f] < age[h]

\* What is known of the processes and the store, and the whole invariant.
StoreInv == Shape /\ Processes /\ Whole /\ Resident /\ Ages /\ RunsAll /\ InOrder

KernelInv == StoreInv /\ CommandOK /\ QueueSound

\* The processes that have been admitted and have not ended.
Alive == {p \in Pids : pcb[p] # None}

----------------------------------------------------------------------------
(* Numbers.                                                                *)

\* A set of numbers that is not empty has a least one.
LEMMA Least ==
    ASSUME NEW T, T \subseteq Nat, T # {}
    PROVE  \E m \in T : \A k \in T : m <= k
<1> DEFINE R == {x \in Nat \X Nat : x[1] < x[2]}
<1>1. R = OpToRel(<, Nat)
  BY DEF OpToRel
<1>2. IsWellFoundedOn(R, Nat)
  BY <1>1, NatLessThanWellFounded
<1>3. PICK m \in T : \A k \in T : ~ (<<k, m>> \in R)
  <2> HIDE DEF R
  <2> QED
    BY <1>2, WFMin
<1>4. ASSUME NEW k \in T PROVE m <= k
  <2>1. ~ (<<k, m>> \in R) /\ <<k, m>> \in Nat \X Nat
    BY <1>3
  <2>2. QED
    BY <2>1
<1>5. QED
  BY <1>4

\* The lines of a frame, by their offset.
LEMMA LineOf ==
    ASSUME NEW f \in Frame, NEW o \in 0 .. 2
    PROVE  3 * f + o \in Lines /\ (3 * f + o) \div 3 = f /\ (3 * f + o) % 3 = o
  BY A2Assumption DEF Frame, Lines

\* Every line is one of a frame.
LEMMA FrameOf ==
    ASSUME NEW l \in Lines
    PROVE  l \div 3 \in Frame /\ l % 3 \in 0 .. 2 /\ l = 3 * (l \div 3) + (l % 3)
  BY A2Assumption DEF Frame, Lines

\* Frame f from its first line to its last.
LEMMA LinesOf ==
    ASSUME NEW f \in Frame, NEW l \in 3 * f .. 3 * f + 2
    PROVE  \E o \in 0 .. 2 : l = 3 * f + o /\ l % 3 = o
<1>1. f \in Nat /\ l - 3 * f \in 0 .. 2 /\ l = 3 * f + (l - 3 * f)
  BY A2Assumption DEF Frame
<1>2. QED
  BY <1>1, LineOf

\* The pages and the last offset of a script.
LEMMA Counts ==
    ASSUME NEW s \in Scripts
    PROVE  /\ s.lines \in Nat \ {0} /\ line_count(s) \in Nat \ {0}
           /\ s.lines <= line_count(s)
           /\ page_count(s) \in Nat \ {0} /\ offset_end(s) \in 1 .. 3
           /\ 3 * (page_count(s) - 1) + offset_end(s) = line_count(s)
           /\ 0 \in Pages(s) /\ Pages(s) \subseteq Nat
<1>1. s.lines \in Nat \ {0} /\ s.newline \in BOOLEAN
  BY ScriptAssumption
<1>2. line_count(s) \in Nat \ {0} /\ s.lines <= line_count(s)
  BY <1>1 DEF line_count
<1>3. /\ page_count(s) \in Nat \ {0} /\ offset_end(s) \in 1 .. 3
      /\ 3 * (page_count(s) - 1) + offset_end(s) = line_count(s)
  <2> DEFINE n == line_count(s)
  <2>1. n \in Nat \ {0}
    BY <1>2
  <2> HIDE DEF n
  <2>2. CASE n % 3 = 0
    BY <2>1, <2>2 DEF page_count, offset_end, n
  <2>3. CASE n % 3 # 0
    BY <2>1, <2>3 DEF page_count, offset_end, n
  <2>4. QED
    BY <2>2, <2>3
<1>4. QED
  BY <1>1, <1>2, <1>3 DEF Pages

----------------------------------------------------------------------------
(* Sequences.                                                              *)

\* A process that is not in the queue is put at its tail.
LEMMA AddToTail ==
    ASSUME NEW q \in Seq(Pids), IsInjective(q), NEW p \in Pids, p \notin ToSet(q)
    PROVE  LET r == Append(q, p)
           IN  r \in Seq(Pids) /\ IsInjective(r) /\ ToSet(r) = ToSet(q) \cup {p}
<1> DEFINE r == Append(q, p)
<1>1. /\ r \in Seq(Pids) /\ DOMAIN q = 1 .. Len(q) /\ DOMAIN r = 1 .. Len(q) + 1
      /\ Len(q) \in Nat /\ r[Len(q) + 1] = p /\ \A k \in 1 .. Len(q) : r[k] = q[k]
  OBVIOUS
<1> HIDE DEF r
<1>2. \A k \in DOMAIN r : k = Len(q) + 1 \/ k \in DOMAIN q
  BY <1>1
<1>3. \A k \in DOMAIN q : k \in DOMAIN r /\ r[k] = q[k] /\ q[k] # p
  BY <1>1 DEF ToSet
<1>4. Len(q) + 1 \in DOMAIN r
  BY <1>1
<1>5. IsInjective(r)
  BY <1>1, <1>2, <1>3 DEF IsInjective
<1>6. ToSet(r) = ToSet(q) \cup {p}
  BY <1>1, <1>2, <1>3, <1>4 DEF ToSet
<1>7. QED
  BY <1>1, <1>5, <1>6 DEF r

\* The process at the head leaves the queue.
LEMMA PopHead ==
    ASSUME NEW q \in Seq(Pids), IsInjective(q), q # <<>>
    PROVE  /\ Head(q) \in Pids /\ Tail(q) \in Seq(Pids) /\ IsInjective(Tail(q))
           /\ Head(q) \notin ToSet(Tail(q)) /\ ToSet(q) = ToSet(Tail(q)) \cup {Head(q)}
<1> DEFINE h == Head(q)
           t == Tail(q)
<1>1. /\ Len(q) \in Nat \ {0} /\ DOMAIN q = 1 .. Len(q)
      /\ t \in Seq(Pids) /\ DOMAIN t = 1 .. Len(q) - 1 /\ h = q[1] /\ h \in Pids
      /\ \A k \in 1 .. Len(q) - 1 : t[k] = q[k + 1]
  OBVIOUS
<1> HIDE DEF h, t
<1>2. \A k \in DOMAIN t : k + 1 \in DOMAIN q /\ t[k] = q[k + 1] /\ k + 1 # 1
  BY <1>1
<1>3. \A k \in DOMAIN q : k = 1 \/ (k - 1 \in DOMAIN t /\ t[k - 1] = q[k])
  BY <1>1
<1>4. 1 \in DOMAIN q
  BY <1>1
<1>5. IsInjective(t)
  <2> SUFFICES ASSUME NEW a \in DOMAIN t, NEW b \in DOMAIN t, t[a] = t[b] PROVE a = b
    BY DEF IsInjective
  <2>1. a + 1 = b + 1
    BY <1>2 DEF IsInjective
  <2>2. QED
    BY <2>1, <1>1
<1>6. h \notin ToSet(t)
  BY <1>1, <1>2, <1>4 DEF ToSet, IsInjective
<1>7. ToSet(q) = ToSet(t) \cup {h}
  BY <1>1, <1>2, <1>3, <1>4 DEF ToSet
<1>8. QED
  BY <1>1, <1>5, <1>6, <1>7 DEF h, t

\* A list of names has a number of scripts in it.
LEMMA CountType ==
    ASSUME NEW S, NEW t \in Seq(S)
    PROVE  Count(t) \in Nat
<1> DEFINE T == {k \in DOMAIN t : t[k] # None}
<1>1. T \in SUBSET (1 .. Len(t)) /\ Len(t) \in Nat
  OBVIOUS
<1>2. IsFiniteSet(T)
  BY <1>1, FS_Interval, FS_Subset
<1>3. QED
  BY <1>2, FS_CardinalityType DEF Count

\* The first script of a list is one of those that are counted.
LEMMA CountTail ==
    ASSUME NEW S, NEW t \in Seq(S), t # <<>>, Head(t) # None
    PROVE  Tail(t) \in Seq(S) /\ Count(Tail(t)) + 1 <= Count(t)
<1> DEFINE T == {k \in DOMAIN t : t[k] # None}
           u == Tail(t)
           U == {k \in DOMAIN u : u[k] # None}
           g == [k \in U |-> k + 1]
<1>1. /\ Len(t) \in Nat \ {0} /\ DOMAIN t = 1 .. Len(t) /\ DOMAIN u = 1 .. Len(t) - 1
      /\ t[1] # None /\ u \in Seq(S) /\ \A k \in 1 .. Len(t) - 1 : u[k] = t[k + 1]
  OBVIOUS
<1> HIDE DEF u
<1>2. IsFiniteSet(T)
  <2>1. T \in SUBSET (1 .. Len(t)) /\ Len(t) \in Int
    BY <1>1
  <2>2. QED
    BY <2>1, FS_Interval, FS_Subset
<1>3. 1 \in T
  BY <1>1
<1>4. IsFiniteSet(T \ {1}) /\ Cardinality(T \ {1}) = Cardinality(T) - 1
  <2> HIDE DEF T
  <2> QED
    BY <1>2, <1>3, FS_RemoveElement
<1>5. g \in Injection(U, T \ {1})
  <2>1. \A k \in U : k \in Nat /\ k + 1 \in T \ {1}
    BY <1>1
  <2>2. g \in [U -> T \ {1}]
    BY <2>1
  <2>3. \A a, b \in U : g[a] = g[b] => a = b
    BY <2>1
  <2>4. QED
    BY <2>2, <2>3 DEF Injection, IsInjective
<1>6. IsFiniteSet(U) /\ Cardinality(U) <= Cardinality(T \ {1})
  <2> HIDE DEF T, U, g
  <2> QED
    BY <1>4, <1>5, FS_Injection
<1>7. Cardinality(T) \in Nat /\ Cardinality(U) \in Nat
  BY <1>2, <1>6, FS_CardinalityType
<1>8. Cardinality(U) + 1 <= Cardinality(T)
  BY <1>4, <1>6, <1>7
<1>9. QED
  BY <1>1, <1>8 DEF Count, u

----------------------------------------------------------------------------
(* Loads.                                                                  *)

\* getOldest is a frame with the lowest age.
LEMMA OldestFrame ==
    ASSUME age \in [Frame -> Nat]
    PROVE  getOldest \in Frame /\ \A h \in Frame : age[getOldest] <= age[h]
<1>1. Frame \subseteq Nat /\ 0 \in Frame
  BY A2Assumption DEF Frame
<1>2. PICK a \in {age[f] : f \in Frame} : \A b \in {age[f] : f \in Frame} : a <= b
  <2> DEFINE A == {age[f] : f \in Frame}
  <2>1. A \subseteq Nat /\ A # {}
    BY <1>1
  <2> HIDE DEF A
  <2>2. \E a \in A : \A b \in A : a <= b
    BY <2>1, Least
  <2>3. QED
    BY <2>2 DEF A
<1> DEFINE T == {f \in Frame : age[f] = a}
<1>3. T \subseteq Nat /\ T # {}
  BY <1>1, <1>2
<1>4. PICK f \in T : \A h \in T : f <= h
  <2> HIDE DEF T
  <2> QED
    BY <1>3, Least
<1>5. \A h \in Frame : age[f] < age[h] \/ (age[f] = age[h] /\ f <= h)
  <2> SUFFICES ASSUME NEW h \in Frame
               PROVE  age[f] < age[h] \/ (age[f] = age[h] /\ f <= h)
    OBVIOUS
  <2>1. age[f] = a /\ a <= age[h] /\ a \in Nat /\ age[h] \in Nat
    BY <1>2, <1>4
  <2>2. CASE age[h] = a
    BY <2>1, <2>2, <1>4
  <2>3. CASE age[h] # a
    BY <2>1, <2>3
  <2>4. QED
    BY <2>2, <2>3
<1>6. \E g \in Frame : \A h \in Frame : age[g] < age[h] \/ (age[g] = age[h] /\ g <= h)
  BY <1>4, <1>5
<1> DEFINE o == getOldest
<1>7. o \in Frame /\ \A h \in Frame : age[o] < age[h] \/ (age[o] = age[h] /\ o <= h)
  BY <1>6 DEF getOldest
<1> HIDE DEF o
<1>8. \A h \in Frame : age[o] <= age[h]
  <2> SUFFICES ASSUME NEW h \in Frame PROVE age[o] <= age[h]
    OBVIOUS
  <2>1. age[o] \in Nat /\ age[h] \in Nat
    BY <1>7
  <2>2. QED
    BY <2>1, <1>7
<1>9. QED
  BY <1>7, <1>8 DEF o

\* A free frame is found if there is one.
LEMMA FreeFrame ==
    ASSUME FreeFrames # {}
    PROVE  Min(FreeFrames) \in Frame /\ shellmemory[3 * Min(FreeFrames)] = None
<1>1. FreeFrames \subseteq Nat
  BY A2Assumption DEF FreeFrames, Frame
<1>2. \E m \in FreeFrames : \A k \in FreeFrames : m <= k
  BY <1>1, Least
<1>3. Min(FreeFrames) \in FreeFrames
  BY <1>2 DEF Min
<1>4. QED
  BY <1>3 DEF FreeFrames

\* A line of the store after page n of script s of process p is in frame f.
LineThen(p, s, n, f, g, o) ==
    IF g # f THEN shellmemory[3 * g + o]
    ELSE IF 3 * n + o < s.lines THEN [pid |-> p, no |-> 3 * n + o + 1] ELSE None

\* Page n is loaded into frame f for process p, which is P.
Load(p, P, n, f) ==
    /\ f \in Frame
    /\ shellmemory' \in [Lines -> Entry]
    /\ \A g \in Frame : \A o \in 0 .. 2 :
          shellmemory'[3 * g + o] = LineThen(p, P.fp, n, f, g, o)
    /\ pcb' = [q \in Pids |-> IF q = p THEN Loaded(P, n, f) ELSE pcb[q]]
    /\ age' = [age EXCEPT ![f] = currentAge]
    /\ uses' = uses + 1 /\ used' = [used EXCEPT ![f] = uses']
    /\ read' = [read EXCEPT ![f] = 0] /\ currentAge' = currentAge
    /\ evicted' \in BOOLEAN
    /\ ~evicted' => ~evicted /\ shellmemory[3 * f] = None

\* What is copied into a frame that was empty or has been freed.
LEMMA CopyToMem ==
    ASSUME Shape, NEW p \in Nat, NEW s \in Scripts, NEW n \in Nat, NEW f \in Frame,
           NEW m \in [Lines -> Entry], Empty(m, f),
           \A g \in Frame : g # f => \A o \in 0 .. 2 : m[3 * g + o] = shellmemory[3 * g + o]
    PROVE  /\ copy_to_mem(m, p, s, n, f) \in [Lines -> Entry]
           /\ \A g \in Frame : \A o \in 0 .. 2 :
                 copy_to_mem(m, p, s, n, f)[3 * g + o] = LineThen(p, s, n, f, g, o)
<1> DEFINE c == copy_to_mem(m, p, s, n, f)
<1>1. c = [l \in Lines |-> IF l \div 3 = f /\ 3 * n + (l % 3) < s.lines
                           THEN [pid |-> p, no |-> 3 * n + (l % 3) + 1] ELSE m[l]]
  BY DEF copy_to_mem
<1> HIDE DEF c
<1>2. c \in [Lines -> Entry]
  <2> SUFFICES ASSUME NEW l \in Lines
               PROVE  /\ [pid |-> p, no |-> 3 * n + (l % 3) + 1] \in Entry
                      /\ m[l] \in Entry
    BY <1>1
  <2>1. 3 * n + (l % 3) + 1 \in Nat
    BY FrameOf
  <2>2. QED
    BY <2>1 DEF Entry
<1>3. ASSUME NEW g \in Frame, NEW o \in 0 .. 2
      PROVE  c[3 * g + o] = LineThen(p, s, n, f, g, o)
  <2>1. 3 * g + o \in Lines /\ (3 * g + o) \div 3 = g /\ (3 * g + o) % 3 = o
    BY LineOf
  <2>2. c[3 * g + o] = IF g = f /\ 3 * n + o < s.lines
                       THEN [pid |-> p, no |-> 3 * n + o + 1] ELSE m[3 * g + o]
    BY <1>1, <2>1
  <2>3. CASE g # f
    BY <2>2, <2>3 DEF LineThen
  <2>4. CASE g = f
    BY <2>2, <2>4 DEF LineThen, Empty
  <2>5. QED
    BY <2>3, <2>4
<1>4. QED
  BY <1>2, <1>3 DEF c

\* A frame whose first line is free is empty.
LEMMA FreeIsEmpty ==
    ASSUME Shape, Processes, Whole, NEW f \in Frame, shellmemory[3 * f] = None
    PROVE  Empty(shellmemory, f)
<1> SUFFICES ASSUME NEW q \in 1 .. pid_counter - 1, NEW i \in Pages(backing_store[q]),
                    Holds(shellmemory, f, q, backing_store[q], i),
                    ~Empty(shellmemory, f)
             PROVE  FALSE
  BY DEF Whole
<1> DEFINE s == backing_store[q]
<1>1. s \in Scripts /\ q \in Nat /\ i \in Nat
  <2>1. s \in Scripts
    BY DEF Processes
  <2>2. q \in Nat
    OBVIOUS
  <2>3. i \in Nat
    BY <2>1, Counts
  <2>4. QED
    BY <2>1, <2>2, <2>3
<1> HIDE DEF s
<1>2. s.lines \in Nat
  BY <1>1, ScriptAssumption
<1>3. PICK o \in 0 .. 2 : shellmemory[3 * f + o] # None
  BY DEF Empty
<1>4. 3 * i + o < s.lines
  BY <1>3 DEF Holds, s
<1>5. 3 * i + 0 < s.lines /\ 3 * i + 0 + 1 \in Nat /\ 0 \in 0 .. 2
  BY <1>1, <1>2, <1>4
<1>6. 3 * f + 0 = 3 * f
  BY A2Assumption DEF Frame
<1>7. shellmemory[3 * f] = [pid |-> q, no |-> 3 * i + 0 + 1]
  BY <1>5, <1>6 DEF Holds, s
<1>8. QED
  BY <1>1, <1>5, <1>7, NoneAssumption

\* replace_page loads the page.  The lines of the victim have been freed when
\* its owner is looked up by the name in them, so that nobody is found.
LEMMA ReplacePage ==
    ASSUME Shape, Processes, Whole, NEW p \in Pids, NEW P, P.fp \in Scripts, NEW n \in Nat,
           replace_page(p, P, n, n)
    PROVE  \E f \in Frame : Load(p, P, n, f)
<1>0. /\ p \in Nat /\ shellmemory \in [Lines -> Entry] /\ age \in [Frame -> Nat]
      /\ evicted \in BOOLEAN
  BY DEF Shape, Pids
<1>1. CASE /\ FreeFrames # {}
           /\ replace_pageIn(p, P, n, n, Min(FreeFrames), FALSE, shellmemory)
  <2> DEFINE f == Min(FreeFrames)
  <2>1. f \in Frame /\ shellmemory[3 * f] = None
    BY <1>1, FreeFrame
  <2>2. replace_pageIn(p, P, n, n, f, FALSE, shellmemory)
    BY <1>1
  <2> HIDE DEF f
  <2>3. Empty(shellmemory, f)
    BY <2>1, FreeIsEmpty
  <2>4. shellmemory' = copy_to_mem(shellmemory, p, P.fp, n, f)
    BY <2>2 DEF replace_pageIn
  <2>5. /\ shellmemory' \in [Lines -> Entry]
        /\ \A g \in Frame : \A o \in 0 .. 2 :
              shellmemory'[3 * g + o] = LineThen(p, P.fp, n, f, g, o)
    BY <1>0, <2>1, <2>3, <2>4, CopyToMem
  <2>6. /\ pcb' = [q \in Pids |-> IF q = p THEN Loaded(P, n, f) ELSE pcb[q]]
        /\ age' = [age EXCEPT ![f] = currentAge]
        /\ uses' = uses + 1 /\ used' = [used EXCEPT ![f] = uses']
        /\ read' = [read EXCEPT ![f] = 0] /\ currentAge' = currentAge
        /\ evicted' = (evicted \/ FALSE)
    BY <2>2 DEF replace_pageIn
  <2>7. evicted' = evicted
    BY <1>0, <2>6
  <2>8. Load(p, P, n, f)
    BY <1>0, <2>1, <2>5, <2>6, <2>7 DEF Load
  <2>9. QED
    BY <2>1, <2>8
<1>2. CASE /\ FreeFrames = {}
           /\ replace_pageIn(p, P, n, n, getOldest, TRUE, mem_free_lines_between(getOldest))
  <2> DEFINE f == getOldest
             m == mem_free_lines_between(f)
  <2>1. f \in Frame
    BY <1>0, OldestFrame
  <2>2. replace_pageIn(p, P, n, n, f, TRUE, m)
    BY <1>2
  <2>3. m = [l \in Lines |-> IF l \div 3 = f THEN None ELSE shellmemory[l]]
    BY DEF mem_free_lines_between
  <2> HIDE DEF f, m
  <2>4. m \in [Lines -> Entry]
    BY <1>0, <2>3 DEF Entry
  <2>5. \A g \in Frame : \A o \in 0 .. 2 :
           m[3 * g + o] = IF g = f THEN None ELSE shellmemory[3 * g + o]
    BY <2>3, LineOf
  <2>6. Empty(m, f) /\ m[3 * f] = None
    <3>1. 0 \in 0 .. 2 /\ 3 * f + 0 = 3 * f
      BY <2>1, A2Assumption DEF Frame
    <3>2. m[3 * f + 0] = None
      BY <2>1, <2>5, <3>1
    <3>3. QED
      BY <2>1, <2>5, <3>1, <3>2 DEF Empty
  <2>7. shellmemory' = copy_to_mem(m, p, P.fp, n, f)
    BY <2>2 DEF replace_pageIn
  <2>8. /\ shellmemory' \in [Lines -> Entry]
        /\ \A g \in Frame : \A o \in 0 .. 2 :
              shellmemory'[3 * g + o] = LineThen(p, P.fp, n, f, g, o)
    <3>1. \A g \in Frame : g # f => \A o \in 0 .. 2 : m[3 * g + o] = shellmemory[3 * g + o]
      BY <2>5
    <3>2. QED
      BY <1>0, <2>1, <2>4, <2>6, <2>7, <3>1, CopyToMem
  <2>9. \A q : find_process(m[3 * f], q) = {}
    BY <2>6 DEF find_process
  <2>10. /\ pcb' = [q \in Pids |-> IF q = p THEN Loaded(P, n, f) ELSE pcb[q]]
         /\ age' = [age EXCEPT ![f] = currentAge]
         /\ uses' = uses + 1 /\ used' = [used EXCEPT ![f] = uses']
         /\ read' = [read EXCEPT ![f] = 0] /\ currentAge' = currentAge
         /\ evicted' = (evicted \/ TRUE)
    BY <2>2, <2>9 DEF replace_pageIn
  <2>11. evicted' = TRUE
    BY <2>10
  <2>12. Load(p, P, n, f)
    BY <1>0, <2>1, <2>8, <2>10, <2>11 DEF Load
  <2>13. QED
    BY <2>1, <2>12
<1>3. QED
  BY <1>1, <1>2 DEF replace_page

----------------------------------------------------------------------------
(* What a load leaves true.                                                *)

\* Script s of process p is in the backing store, with the earlier ones.
Stored(p, s) ==
    /\ pid_counter' \in 1 .. MaxPid + 1
    /\ backing_store' = [q \in Pids |-> backing_store'[q]]
    /\ p \in 1 .. pid_counter' - 1 /\ backing_store'[p] = s /\ s \in Scripts
    /\ \A q \in 1 .. pid_counter - 1 :
          q \in 1 .. pid_counter' - 1 /\ backing_store'[q] = backing_store[q]
    /\ \A q \in 1 .. pid_counter' - 1 : q = p \/ q \in 1 .. pid_counter - 1

\* The page that is loaded is whole, and the others are as they were.
LEMMA LoadFrames ==
    ASSUME NEW p, NEW P, NEW n, NEW f, Load(p, P, n, f)
    PROVE  /\ Holds(shellmemory', f, p, P.fp, n)
           /\ \A g \in Frame : g # f =>
                \A o \in 0 .. 2 : shellmemory'[3 * g + o] = shellmemory[3 * g + o]
  BY DEF Load, LineThen, Holds

\* Frames that agree hold the same.
LEMMA SameHolds ==
    ASSUME NEW m, NEW w, NEW g,
           \A o \in 0 .. 2 : w[3 * g + o] = m[3 * g + o]
    PROVE  /\ Empty(m, g) => Empty(w, g)
           /\ \A q, s, i : Holds(m, g, q, s, i) => Holds(w, g, q, s, i)
  BY DEF Empty, Holds

LEMMA LoadWhole ==
    ASSUME Whole, NEW p, NEW P, NEW n \in Pages(P.fp), NEW f, Load(p, P, n, f),
           Stored(p, P.fp)
    PROVE  Whole'
<1> SUFFICES ASSUME NEW g \in Frame
             PROVE  \/ Empty(shellmemory', g)
                    \/ \E q \in 1 .. pid_counter' - 1 : \E i \in Pages(backing_store'[q]) :
                          Holds(shellmemory', g, q, backing_store'[q], i)
  BY DEF Whole, Empty, Holds
<1>1. CASE g = f
  <2>1. p \in 1 .. pid_counter' - 1 /\ backing_store'[p] = P.fp
    BY DEF Stored
  <2>2. Holds(shellmemory', g, p, backing_store'[p], n) /\ n \in Pages(backing_store'[p])
    BY <1>1, <2>1, LoadFrames
  <2>3. QED
    BY <2>1, <2>2
<1>2. CASE g # f
  <2>1. \A o \in 0 .. 2 : shellmemory'[3 * g + o] = shellmemory[3 * g + o]
    BY <1>2, LoadFrames
  <2>2. CASE Empty(shellmemory, g)
    BY <2>1, <2>2, SameHolds
  <2>3. ASSUME NEW q \in 1 .. pid_counter - 1, NEW i \in Pages(backing_store[q]),
               Holds(shellmemory, g, q, backing_store[q], i)
        PROVE  \E r \in 1 .. pid_counter' - 1 : \E j \in Pages(backing_store'[r]) :
                  Holds(shellmemory', g, r, backing_store'[r], j)
    <3>1. q \in 1 .. pid_counter' - 1 /\ backing_store'[q] = backing_store[q]
      BY DEF Stored
    <3>2. Holds(shellmemory', g, q, backing_store'[q], i) /\ i \in Pages(backing_store'[q])
      BY <2>1, <2>3, <3>1, SameHolds
    <3>3. QED
      BY <3>1, <3>2
  <2>4. QED
    BY <2>2, <2>3 DEF Whole
<1>3. QED
  BY <1>1, <1>2

\* Q is P, of script s, with page n in frame f.
WithPage(Q, P, s, n, f) ==
    /\ Running(Q, s) /\ Q.PC = P.PC /\ Q.offset = P.offset /\ Q.fp = s
    /\ Q.page_table = [P.page_table EXCEPT ![n] = f]
    /\ Q.valid_page = [P.valid_page EXCEPT ![n] = TRUE]

\* The PCB after the load.
LEMMA LoadedPCB ==
    ASSUME NEW P, NEW s, Running(P, s), NEW n \in Pages(s), NEW f \in Frame
    PROVE  WithPage(Loaded(P, n, f), P, s, n, f)
<1> DEFINE Q == Loaded(P, n, f)
<1>1. /\ P \in PCB(s) /\ s \in Scripts /\ P.PC \in Pages(s) /\ P.offset \in 0 .. 2
      /\ P.PC = page_count(s) - 1 => P.offset < offset_end(s)
      /\ \A i \in Pages(s) : P.valid_page[i] => P.page_table[i] \in Frame
  BY DEF Running
<1>2. /\ P.page_table \in [Pages(s) -> Frame \cup {None}]
      /\ P.valid_page \in [Pages(s) -> BOOLEAN] /\ P.fp = s
      /\ P.PC \in Nat /\ P.offset \in Nat
      /\ P = [fp |-> P.fp, PC |-> P.PC, offset |-> P.offset,
              page_table |-> P.page_table, valid_page |-> P.valid_page]
  BY <1>1 DEF PCB
<1>3. Q = [fp |-> P.fp, PC |-> P.PC, offset |-> P.offset,
           page_table |-> [P.page_table EXCEPT ![n] = f],
           valid_page |-> [P.valid_page EXCEPT ![n] = TRUE]]
  <2> DEFINE t == [P.page_table EXCEPT ![n] = f]
             v == [P.valid_page EXCEPT ![n] = TRUE]
             R == [P EXCEPT !.page_table = t]
  <2>1. Q = [R EXCEPT !.valid_page = v]
    BY <1>2 DEF Loaded
  <2> HIDE DEF t, v
  <2>2. R = [fp |-> P.fp, PC |-> P.PC, offset |-> P.offset,
             page_table |-> t, valid_page |-> P.valid_page]
    BY <1>2
  <2> HIDE DEF R
  <2>3. Q = [fp |-> P.fp, PC |-> P.PC, offset |-> P.offset,
             page_table |-> t, valid_page |-> v]
    BY <2>1, <2>2
  <2>4. QED
    BY <2>3 DEF t, v
<1> HIDE DEF Q
<1>4. /\ Q.fp = s /\ Q.PC = P.PC /\ Q.offset = P.offset
      /\ Q.page_table = [P.page_table EXCEPT ![n] = f]
      /\ Q.valid_page = [P.valid_page EXCEPT ![n] = TRUE]
  BY <1>2, <1>3
<1>5. /\ Q.page_table \in [Pages(s) -> Frame \cup {None}]
      /\ Q.valid_page \in [Pages(s) -> BOOLEAN]
  BY <1>2, <1>4
<1>6. Q \in PCB(s)
  BY <1>2, <1>3, <1>4, <1>5 DEF PCB
<1>7. \A i \in Pages(s) : Q.valid_page[i] => Q.page_table[i] \in Frame
  BY <1>1, <1>2, <1>4
<1>8. Running(Q, s)
  BY <1>1, <1>4, <1>6, <1>7 DEF Running
<1>9. QED
  BY <1>4, <1>8 DEF Q, WithPage

LEMMA LoadResident ==
    ASSUME Shape, Processes, Whole, Resident,
           NEW p \in Pids, NEW P, NEW s, Running(P, s), ~evicted => PagesIn(shellmemory, p, P),
           NEW n \in Pages(s), NEW f, Load(p, P, n, f)
    PROVE  Resident'
<1> SUFFICES ASSUME ~evicted', NEW q \in Pids, pcb'[q] # None
             PROVE  PagesIn(shellmemory', q, pcb'[q])
  BY DEF Resident, PagesIn, Holds
<1>1. ~evicted /\ shellmemory[3 * f] = None /\ f \in Frame
  BY DEF Load
<1>2. Empty(shellmemory, f)
  BY <1>1, FreeIsEmpty
\* A page with lines is not in the frame that was free.
<1>3. ASSUME NEW r \in Nat, NEW R, NEW t, Running(R, t), PagesIn(shellmemory, r, R),
             NEW i \in Pages(t), R.valid_page[i], 3 * i < t.lines
      PROVE  R.page_table[i] # f /\ Holds(shellmemory', R.page_table[i], r, t, i)
  <2>1. R.fp = t /\ t \in Scripts /\ R.page_table[i] \in Frame
    BY <1>3 DEF Running, PCB
  <2>2. Holds(shellmemory, R.page_table[i], r, t, i)
    BY <1>3, <2>1 DEF PagesIn
  <2>3. i \in Nat /\ 3 * i + 0 < t.lines /\ 3 * i + 0 + 1 \in Nat /\ 0 \in 0 .. 2
    BY <1>3, <2>1, Counts
  <2>4. shellmemory[3 * R.page_table[i] + 0] = [pid |-> r, no |-> 3 * i + 0 + 1]
    BY <2>2, <2>3 DEF Holds
  <2>5. shellmemory[3 * R.page_table[i] + 0] # None
    BY <2>3, <2>4, NoneAssumption
  <2>6. R.page_table[i] # f
    BY <1>2, <2>3, <2>5 DEF Empty
  <2>7. \A o \in 0 .. 2 : shellmemory'[3 * R.page_table[i] + o]
                           = shellmemory[3 * R.page_table[i] + o]
    BY <2>1, <2>6, LoadFrames
  <2>8. QED
    BY <2>2, <2>6, <2>7, SameHolds
<1>4. pcb' = [r \in Pids |-> IF r = p THEN Loaded(P, n, f) ELSE pcb[r]]
  BY DEF Load
<1>5. CASE q = p
  <2> DEFINE Q == Loaded(P, n, f)
  <2>1. /\ Q.fp = s /\ pcb'[q] = Q
        /\ Q.page_table = [P.page_table EXCEPT ![n] = f]
        /\ Q.valid_page = [P.valid_page EXCEPT ![n] = TRUE]
    BY <1>1, <1>4, <1>5, LoadedPCB DEF WithPage
  <2> HIDE DEF Q
  <2>2. /\ P.fp = s /\ DOMAIN P.page_table = Pages(s) /\ DOMAIN P.valid_page = Pages(s)
    BY DEF Running, PCB
  <2>3. PagesIn(shellmemory, p, P) /\ p \in Nat
    BY <1>1 DEF Pids
  <2>4. ASSUME NEW i \in Pages(s), Q.valid_page[i], 3 * i < s.lines
        PROVE  Holds(shellmemory', Q.page_table[i], p, s, i)
    <3>1. CASE i = n
      <4>1. Q.page_table[i] = f
        BY <2>1, <2>2, <3>1
      <4>2. Holds(shellmemory', f, p, s, n)
        BY <2>2, LoadFrames
      <4>3. QED
        BY <3>1, <4>1, <4>2
    <3>2. CASE i # n
      <4>1. Q.page_table[i] = P.page_table[i] /\ P.valid_page[i]
        BY <2>1, <2>2, <2>4, <3>2
      <4>2. Holds(shellmemory', P.page_table[i], p, s, i)
        BY <1>3, <2>3, <2>4, <4>1
      <4>3. QED
        BY <4>1, <4>2
    <3>3. QED
      BY <3>1, <3>2
  <2>5. QED
    BY <1>5, <2>1, <2>4 DEF PagesIn
<1>6. CASE q # p
  <2>1. pcb'[q] = pcb[q] /\ pcb[q] # None
    BY <1>4, <1>6
  <2>2. PagesIn(shellmemory, q, pcb[q]) /\ q \in Nat
    BY <1>1, <2>1 DEF Resident, Pids
  <2>3. Running(pcb[q], backing_store[q])
    BY <2>1 DEF Processes
  <2>4. pcb[q].fp = backing_store[q]
    BY <2>3 DEF Running, PCB
  <2>5. \A i \in Pages(backing_store[q]) :
           pcb[q].valid_page[i] /\ 3 * i < backing_store[q].lines =>
             Holds(shellmemory', pcb[q].page_table[i], q, backing_store[q], i)
    BY <1>3, <2>2, <2>3
  <2>6. QED
    BY <2>1, <2>4, <2>5 DEF PagesIn
<1>7. QED
  BY <1>5, <1>6

LEMMA LoadAges ==
    ASSUME Shape, Ages, NEW p, NEW P, NEW n, NEW f, Load(p, P, n, f)
    PROVE  /\ Ages' /\ age' \in [Frame -> Nat] /\ used' \in [Frame -> Nat]
           /\ read' \in [Frame -> Nat] /\ uses' \in Nat
<1>1. /\ f \in Frame /\ age \in [Frame -> Nat] /\ used \in [Frame -> Nat]
      /\ read \in [Frame -> Nat] /\ currentAge \in Nat /\ uses \in Nat
      /\ age' = [age EXCEPT ![f] = currentAge]
      /\ uses' = uses + 1 /\ used' = [used EXCEPT ![f] = uses + 1]
      /\ read' = [read EXCEPT ![f] = 0] /\ currentAge' = currentAge
  BY DEF Shape, Load
<1>2. /\ age' \in [Frame -> Nat] /\ used' \in [Frame -> Nat]
      /\ read' \in [Frame -> Nat] /\ uses' \in Nat
  BY <1>1
<1>3. /\ age'[f] = currentAge /\ used'[f] = uses + 1 /\ read'[f] = 0
      /\ \A g \in Frame : g # f => age'[g] = age[g] /\ used'[g] = used[g] /\ read'[g] = read[g]
  BY <1>1
<1>4. ASSUME NEW g \in Frame
      PROVE  age'[g] <= currentAge' /\ used'[g] <= uses' /\ read'[g] <= used'[g]
  <2>1. age[g] <= currentAge /\ used[g] <= uses /\ read[g] <= used[g]
    BY DEF Ages
  <2>2. age[g] \in Nat /\ used[g] \in Nat /\ read[g] \in Nat
    BY <1>1
  <2>3. QED
    BY <1>1, <1>3, <2>1, <2>2
<1>5. ASSUME NEW g \in Frame, NEW h \in Frame, used'[g] < read'[h]
      PROVE  age'[g] < age'[h]
  <2>1. read'[h] \in Nat /\ used'[g] \in Nat /\ read[h] \in Nat /\ used[h] \in Nat
    BY <1>1, <1>2
  <2>2. h # f
    BY <1>3, <1>5, <2>1
  <2>3. read[h] <= used[h] /\ used[h] <= uses
    BY DEF Ages
  <2>4. g # f
    BY <1>1, <1>3, <1>5, <2>1, <2>2, <2>3
  <2>5. used[g] < read[h]
    BY <1>3, <1>5, <2>2, <2>4
  <2>6. age[g] < age[h]
    BY <2>5 DEF Ages
  <2>7. QED
    BY <1>3, <2>2, <2>4, <2>6
<1>6. QED
  BY <1>2, <1>4, <1>5 DEF Ages

\* A running process has a PCB.
LEMMA RunningIsSome ==
    ASSUME NEW P, NEW s, Running(P, s)
    PROVE  P # None
  BY NoneAssumption DEF Running

\* The load of a page of a process that runs, or starts to.
LEMMA LoadStep ==
    ASSUME StoreInv, NEW p \in Pids, NEW P, NEW s, Running(P, s),
           ~evicted => PagesIn(shellmemory, p, P),
           NEW n \in Pages(s), NEW f, Load(p, P, n, f), Stored(p, s),
           Len(ran[p]) = 3 * P.PC + P.offset,
           ran' = ran, queue' \in Seq(Pids)
    PROVE  StoreInv' /\ Alive' = Alive \cup {p}
<1>0. Shape /\ Processes /\ Whole /\ Resident /\ Ages /\ RunsAll /\ InOrder
  BY DEF StoreInv
<1> DEFINE Q == Loaded(P, n, f)
<1>1. f \in Frame /\ pcb' = [q \in Pids |-> IF q = p THEN Q ELSE pcb[q]]
  BY DEF Load
<1>2. Running(Q, s) /\ Q.PC = P.PC /\ Q.offset = P.offset /\ Q # None
  <2>0. f \in Frame
    BY <1>1
  <2>1. WithPage(Q, P, s, n, f)
    BY <2>0, LoadedPCB
  <2> HIDE DEF Q
  <2>2. Running(Q, s) /\ Q.PC = P.PC /\ Q.offset = P.offset
    BY <2>1 DEF WithPage
  <2>3. QED
    BY <2>2, RunningIsSome
<1> HIDE DEF Q
<1>3. /\ pid_counter' \in 1 .. MaxPid + 1 /\ pid_counter \in 1 .. MaxPid + 1
      /\ backing_store' = [q \in Pids |-> backing_store'[q]]
      /\ p \in 1 .. pid_counter' - 1 /\ backing_store'[p] = s /\ s \in Scripts
      /\ \A q \in 1 .. pid_counter - 1 :
            q \in 1 .. pid_counter' - 1 /\ backing_store'[q] = backing_store[q]
      /\ \A q \in 1 .. pid_counter' - 1 : q = p \/ q \in 1 .. pid_counter - 1
      /\ MaxPid \in Nat
  BY <1>0, A2Assumption DEF Stored, Shape
<1>4. P.fp = s
  BY DEF Running, PCB
<1>5. Whole'
  BY <1>0, <1>4, LoadWhole
<1>6. Resident'
  BY <1>0, LoadResident
<1>7. /\ Ages' /\ age' \in [Frame -> Nat] /\ used' \in [Frame -> Nat]
      /\ read' \in [Frame -> Nat] /\ uses' \in Nat
  BY <1>0, LoadAges
<1>8. Shape'
  <2>1. /\ shellmemory' \in [Lines -> Entry] /\ currentAge' = currentAge
        /\ evicted' \in BOOLEAN
    BY DEF Load
  <2>2. ran' \in [Pids -> Seq(Entry)] /\ currentAge' \in Nat
    BY <1>0, <2>1 DEF Shape
  <2>3. pcb' = [q \in Pids |-> pcb'[q]]
    BY <1>1
  <2>4. QED
    BY <1>3, <1>7, <2>1, <2>2, <2>3 DEF Shape
<1>9. \A q \in Pids : q # p => pcb'[q] = pcb[q]
  BY <1>1
<1>10. pcb'[p] = Q
  BY <1>1
<1>11. Pids = 1 .. MaxPid
  BY DEF Pids
<1>12. Processes'
  <2>1. \A q \in 1 .. pid_counter' - 1 : backing_store'[q] \in Scripts
    BY <1>0, <1>3 DEF Processes
  <2>2. ASSUME NEW q \in Pids, pcb'[q] # None
        PROVE  q < pid_counter' /\ Running(pcb'[q], backing_store'[q])
    <3>1. CASE q = p
      BY <1>2, <1>3, <1>10, <3>1
    <3>2. CASE q # p
      <4>1. pcb[q] # None /\ pcb'[q] = pcb[q]
        BY <1>9, <2>2, <3>2
      <4>2. q < pid_counter /\ Running(pcb[q], backing_store[q])
        BY <1>0, <4>1 DEF Processes
      <4>3. q \in 1 .. pid_counter - 1
        BY <1>3, <1>11, <4>2
      <4>4. QED
        BY <1>3, <4>1, <4>2, <4>3
    <3>3. QED
      BY <3>1, <3>2
  <2>3. ASSUME NEW q \in Pids, q >= pid_counter' PROVE ran'[q] = <<>>
    <3>1. q >= pid_counter
      BY <1>3, <1>11, <2>3
    <3>2. QED
      BY <1>0, <3>1 DEF Processes
  <2>4. QED
    BY <2>1, <2>2, <2>3 DEF Processes, Running
<1>13. RunsAll'
  <2> SUFFICES ASSUME NEW q \in 1 .. pid_counter' - 1
               PROVE  IF pcb'[q] = None
                      THEN Len(ran'[q]) = line_count(backing_store'[q])
                      ELSE Len(ran'[q]) = 3 * pcb'[q].PC + pcb'[q].offset
    BY DEF RunsAll
  <2>1. CASE q = p
    BY <1>2, <1>10, <2>1
  <2>2. CASE q # p
    <3>1. q \in 1 .. pid_counter - 1 /\ q \in Pids
      BY <1>3, <1>11, <2>2
    <3>2. pcb'[q] = pcb[q] /\ backing_store'[q] = backing_store[q]
      BY <1>3, <1>9, <2>2, <3>1
    <3>3. QED
      BY <1>0, <3>1, <3>2 DEF RunsAll
  <2>3. QED
    BY <2>1, <2>2
<1>14. InOrder'
  <2> SUFFICES ASSUME ~evicted', NEW q \in 1 .. pid_counter' - 1, NEW k \in DOMAIN ran[q],
                      k <= backing_store'[q].lines
               PROVE  ran[q][k] = [pid |-> q, no |-> k]
    BY DEF InOrder
  <2>1. ~evicted
    BY DEF Load
  <2>2. CASE q \in 1 .. pid_counter - 1
    BY <1>0, <1>3, <2>1, <2>2 DEF InOrder
  <2>3. CASE q \notin 1 .. pid_counter - 1
    <3>1. q \in Pids /\ q >= pid_counter
      BY <1>3, <1>11, <2>3
    <3>2. ran[q] = <<>>
      BY <1>0, <3>1 DEF Processes
    <3>3. QED
      BY <3>2
  <2>4. QED
    BY <2>2, <2>3
<1>15. Alive' = Alive \cup {p}
  BY <1>2, <1>9, <1>10 DEF Alive
<1>16. QED
  BY <1>5, <1>6, <1>7, <1>8, <1>12, <1>13, <1>14, <1>15 DEF StoreInv

\* A step of the shell or of the queue.
LEMMA QueueStep ==
    ASSUME StoreInv, UNCHANGED <<memory, pcb, files, ran>>, queue' \in Seq(Pids)
    PROVE  StoreInv' /\ Alive' = Alive
<1>0. Shape /\ Processes /\ Whole /\ Resident /\ Ages /\ RunsAll /\ InOrder
  BY DEF StoreInv
<1>1. /\ shellmemory' = shellmemory /\ age' = age /\ currentAge' = currentAge
      /\ uses' = uses /\ used' = used /\ read' = read /\ evicted' = evicted
      /\ pcb' = pcb /\ backing_store' = backing_store /\ pid_counter' = pid_counter
      /\ ran' = ran
  BY DEF memory, files
<1>2. Shape'
  BY <1>0, <1>1 DEF Shape
<1>3. Processes'
  BY <1>0, <1>1 DEF Processes, Running
<1>4. Whole'
  BY <1>0, <1>1 DEF Whole, Empty, Holds
<1>5. Resident'
  BY <1>0, <1>1 DEF Resident, PagesIn, Holds
<1>6. Ages'
  BY <1>0, <1>1 DEF Ages
<1>7. RunsAll'
  BY <1>0, <1>1 DEF RunsAll
<1>8. InOrder'
  BY <1>0, <1>1 DEF InOrder
<1>9. QED
  BY <1>1, <1>2, <1>3, <1>4, <1>5, <1>6, <1>7, <1>8 DEF StoreInv, Alive

----------------------------------------------------------------------------
(* Execution of a line.                                                    *)

\* The next line of process P, if this one is not the last.
LEMMA AdvancedPCB ==
    ASSUME NEW P, NEW s, Running(P, s), ~AtEnd(P)
    PROVE  LET Q == Advanced(P)
           IN  /\ Running(Q, s) /\ Q.fp = s
               /\ 3 * Q.PC + Q.offset = 3 * P.PC + P.offset + 1
               /\ Q.page_table = P.page_table /\ Q.valid_page = P.valid_page
<1> DEFINE Q == Advanced(P)
<1>1. /\ P \in PCB(s) /\ s \in Scripts /\ P.PC \in Pages(s) /\ P.offset \in 0 .. 2
      /\ P.PC = page_count(s) - 1 => P.offset < offset_end(s)
      /\ \A i \in Pages(s) : P.valid_page[i] => P.page_table[i] \in Frame
  BY DEF Running
<1>2. /\ P.page_table \in [Pages(s) -> Frame \cup {None}]
      /\ P.valid_page \in [Pages(s) -> BOOLEAN] /\ P.fp = s
      /\ P.PC \in Nat /\ P.offset \in Nat
      /\ P = [fp |-> P.fp, PC |-> P.PC, offset |-> P.offset,
              page_table |-> P.page_table, valid_page |-> P.valid_page]
  BY <1>1 DEF PCB
<1>3. /\ page_count(s) \in Nat \ {0} /\ offset_end(s) \in 1 .. 3
      /\ Pages(s) = 0 .. page_count(s) - 1
  BY <1>1, Counts DEF Pages
<1>4. ~(P.PC = page_count(s) - 1 /\ P.offset + 1 = offset_end(s))
  BY <1>2 DEF AtEnd
<1>5. \E c \in Pages(s), o \in 0 .. 2 :
         /\ Q = [fp |-> P.fp, PC |-> c, offset |-> o,
                 page_table |-> P.page_table, valid_page |-> P.valid_page]
         /\ 3 * c + o = 3 * P.PC + P.offset + 1
         /\ c = page_count(s) - 1 => o < offset_end(s)
  <2>1. CASE P.offset + 1 = 3
    <3> DEFINE R == [P EXCEPT !.offset = 0]
    <3>1. Q = [R EXCEPT !.PC = P.PC + 1]
      BY <1>2, <2>1 DEF Advanced
    <3>2. R = [fp |-> P.fp, PC |-> P.PC, offset |-> 0,
               page_table |-> P.page_table, valid_page |-> P.valid_page]
      BY <1>2
    <3> HIDE DEF R
    <3>3. Q = [fp |-> P.fp, PC |-> P.PC + 1, offset |-> 0,
               page_table |-> P.page_table, valid_page |-> P.valid_page]
      BY <3>1, <3>2
    <3>4. P.PC + 1 \in Pages(s) /\ 0 < offset_end(s) /\ 0 \in 0 .. 2
      BY <1>1, <1>2, <1>3, <1>4, <2>1
    <3>5. 3 * (P.PC + 1) + 0 = 3 * P.PC + P.offset + 1
      BY <1>2, <2>1
    <3>6. QED
      BY <3>3, <3>4, <3>5
  <2>2. CASE P.offset + 1 # 3
    <3>1. Q = [P EXCEPT !.offset = P.offset + 1]
      BY <2>2 DEF Advanced
    <3>2. Q = [fp |-> P.fp, PC |-> P.PC, offset |-> P.offset + 1,
               page_table |-> P.page_table, valid_page |-> P.valid_page]
      BY <1>2, <3>1
    <3>3. /\ P.offset + 1 \in 0 .. 2
          /\ P.PC = page_count(s) - 1 => P.offset + 1 < offset_end(s)
      BY <1>1, <1>2, <1>3, <1>4, <2>2
    <3>4. 3 * P.PC + (P.offset + 1) = 3 * P.PC + P.offset + 1
      BY <1>2
    <3>5. QED
      BY <1>1, <3>2, <3>3, <3>4
  <2>3. QED
    BY <2>1, <2>2
<1> HIDE DEF Q
<1>6. PICK c \in Pages(s), o \in 0 .. 2 :
         /\ Q = [fp |-> P.fp, PC |-> c, offset |-> o,
                 page_table |-> P.page_table, valid_page |-> P.valid_page]
         /\ 3 * c + o = 3 * P.PC + P.offset + 1
         /\ c = page_count(s) - 1 => o < offset_end(s)
  BY <1>5
<1>7. /\ Q.fp = s /\ Q.PC = c /\ Q.offset = o
      /\ Q.page_table = P.page_table /\ Q.valid_page = P.valid_page
  BY <1>2, <1>6
<1>8. c \in Nat /\ o \in Nat
  BY <1>3
<1>9. Q \in PCB(s)
  BY <1>2, <1>6, <1>8 DEF PCB
<1>10. Running(Q, s)
  BY <1>1, <1>6, <1>7, <1>9 DEF Running
<1>11. QED
  BY <1>6, <1>7, <1>10 DEF Q

\* The process in its turn, which is P, executes a line of file s in frame f,
\* and is R after it.
LineStep(P, s, f, R) ==
    /\ cur \in Pids /\ pcb[cur] = P /\ Running(P, s) /\ backing_store[cur] = s
    /\ cur < pid_counter
    /\ f = P.page_table[P.PC] /\ f \in Frame /\ P.valid_page[P.PC]
    /\ \/ AtEnd(P) /\ R = None
       \/ ~AtEnd(P) /\ R = Advanced(P)
    /\ pcb' = [pcb EXCEPT ![cur] = R]
    /\ age' = [age EXCEPT ![f] = currentAge + 1]
    /\ currentAge' = currentAge + 3 /\ uses' = uses + 1
    /\ used' = [used EXCEPT ![f] = uses'] /\ read' = [read EXCEPT ![f] = uses']
    /\ ran' = [ran EXCEPT ![cur] = Append(@, shellmemory[3 * f + P.offset])]
    /\ shellmemory' = shellmemory /\ evicted' = evicted
    /\ backing_store' = backing_store /\ pid_counter' = pid_counter
    /\ queue' \in Seq(Pids)

LEMMA LineAges ==
    ASSUME Shape, Ages, NEW P, NEW s, NEW f, NEW R, LineStep(P, s, f, R)
    PROVE  /\ Ages' /\ age' \in [Frame -> Nat] /\ used' \in [Frame -> Nat]
           /\ read' \in [Frame -> Nat] /\ currentAge' \in Nat /\ uses' \in Nat
<1>1. /\ f \in Frame /\ age \in [Frame -> Nat] /\ used \in [Frame -> Nat]
      /\ read \in [Frame -> Nat] /\ currentAge \in Nat /\ uses \in Nat
      /\ age' = [age EXCEPT ![f] = currentAge + 1]
      /\ used' = [used EXCEPT ![f] = uses + 1] /\ read' = [read EXCEPT ![f] = uses + 1]
      /\ currentAge' = currentAge + 3 /\ uses' = uses + 1
  BY DEF Shape, LineStep
<1>2. /\ age' \in [Frame -> Nat] /\ used' \in [Frame -> Nat]
      /\ read' \in [Frame -> Nat] /\ currentAge' \in Nat /\ uses' \in Nat
  BY <1>1
<1>3. /\ age'[f] = currentAge + 1 /\ used'[f] = uses + 1 /\ read'[f] = uses + 1
      /\ \A g \in Frame : g # f => age'[g] = age[g] /\ used'[g] = used[g] /\ read'[g] = read[g]
  BY <1>1
<1>4. ASSUME NEW g \in Frame
      PROVE  age'[g] <= currentAge' /\ used'[g] <= uses' /\ read'[g] <= used'[g]
  <2>1. age[g] <= currentAge /\ used[g] <= uses /\ read[g] <= used[g]
    BY DEF Ages
  <2>2. age[g] \in Nat /\ used[g] \in Nat /\ read[g] \in Nat
    BY <1>1
  <2>3. QED
    BY <1>1, <1>3, <2>1, <2>2
<1>5. ASSUME NEW g \in Frame, NEW h \in Frame, used'[g] < read'[h]
      PROVE  age'[g] < age'[h]
  <2>1. /\ read[h] \in Nat /\ used[h] \in Nat /\ age[g] \in Nat
        /\ read[h] <= used[h] /\ used[h] <= uses /\ age[g] <= currentAge
    BY <1>1 DEF Ages
  <2>2. g # f
    <3>1. CASE h = f
      BY <1>1, <1>3, <1>5, <3>1
    <3>2. CASE h # f
      BY <1>1, <1>3, <1>5, <2>1, <3>2
    <3>3. QED
      BY <3>1, <3>2
  <2>3. CASE h = f
    BY <1>1, <1>3, <2>1, <2>2, <2>3
  <2>4. CASE h # f
    <3>1. used[g] < read[h]
      BY <1>3, <1>5, <2>2, <2>4
    <3>2. age[g] < age[h]
      BY <3>1 DEF Ages
    <3>3. QED
      BY <1>3, <2>2, <2>4, <3>2
  <2>5. QED
    BY <2>3, <2>4
<1>6. QED
  BY <1>2, <1>4, <1>5 DEF Ages

LEMMA LineStore ==
    ASSUME StoreInv, NEW P, NEW s, NEW f, NEW R, LineStep(P, s, f, R)
    PROVE  StoreInv' /\ (R = None => Alive' = Alive \ {cur}) /\ (R # None => Alive' = Alive)
<1>0. Shape /\ Processes /\ Whole /\ Resident /\ Ages /\ RunsAll /\ InOrder
  BY DEF StoreInv
<1>1. /\ cur \in Pids /\ pcb[cur] = P /\ Running(P, s) /\ backing_store[cur] = s
      /\ cur < pid_counter /\ f = P.page_table[P.PC] /\ f \in Frame /\ P.valid_page[P.PC]
      /\ pcb' = [pcb EXCEPT ![cur] = R]
      /\ ran' = [ran EXCEPT ![cur] = Append(@, shellmemory[3 * f + P.offset])]
  BY DEF LineStep
<1>2. /\ shellmemory' = shellmemory /\ evicted' = evicted
      /\ backing_store' = backing_store /\ pid_counter' = pid_counter
      /\ queue' \in Seq(Pids)
  BY DEF LineStep
<1>3. (AtEnd(P) /\ R = None) \/ (~AtEnd(P) /\ R = Advanced(P))
  BY DEF LineStep
<1>4. /\ Ages' /\ age' \in [Frame -> Nat] /\ used' \in [Frame -> Nat]
      /\ read' \in [Frame -> Nat] /\ currentAge' \in Nat /\ uses' \in Nat
  BY <1>0, LineAges
<1>5. /\ pcb = [p \in Pids |-> pcb[p]] /\ ran \in [Pids -> Seq(Entry)]
      /\ shellmemory \in [Lines -> Entry] /\ pid_counter \in 1 .. MaxPid + 1
      /\ MaxPid \in Nat /\ Pids = 1 .. MaxPid
  BY <1>0, A2Assumption DEF Shape, Pids
<1>6. /\ pcb'[cur] = R /\ \A p \in Pids : p # cur => pcb'[p] = pcb[p]
      /\ pcb' = [p \in Pids |-> pcb'[p]]
  BY <1>1, <1>5
<1>7. P # None
  BY <1>1, RunningIsSome
<1>8. R # None => /\ ~AtEnd(P) /\ Running(R, s) /\ R.fp = s
                  /\ 3 * R.PC + R.offset = 3 * P.PC + P.offset + 1
                  /\ R.page_table = P.page_table /\ R.valid_page = P.valid_page
  BY <1>1, <1>3, AdvancedPCB
<1>9. /\ P.fp = s /\ s \in Scripts /\ P.PC \in Pages(s) /\ P.offset \in 0 .. 2
      /\ P.PC \in Nat /\ P.offset \in Nat
  BY <1>1 DEF Running, PCB
<1> DEFINE e == shellmemory[3 * f + P.offset]
<1>10. e \in Entry
  BY <1>1, <1>5, <1>9, LineOf
<1>11. /\ ran' \in [Pids -> Seq(Entry)] /\ ran'[cur] = Append(ran[cur], e)
       /\ \A p \in Pids : p # cur => ran'[p] = ran[p]
  <2> HIDE DEF e
  <2>1. ran' = [ran EXCEPT ![cur] = Append(ran[cur], e)]
    BY <1>1 DEF e
  <2>2. Append(ran[cur], e) \in Seq(Entry)
    BY <1>1, <1>5, <1>10
  <2>3. QED
    BY <1>1, <1>5, <2>1, <2>2
<1>12. Shape'
  BY <1>0, <1>2, <1>4, <1>5, <1>6, <1>11 DEF Shape
<1>13. Processes'
  <2>1. \A p \in 1 .. pid_counter' - 1 : backing_store'[p] \in Scripts
    BY <1>0, <1>2 DEF Processes
  <2>2. \A p \in Pids : pcb'[p] # None =>
           p < pid_counter' /\ Running(pcb'[p], backing_store'[p])
    <3> SUFFICES ASSUME NEW p \in Pids, pcb'[p] # None
                 PROVE  p < pid_counter' /\ Running(pcb'[p], backing_store'[p])
      OBVIOUS
    <3>1. CASE p = cur
      BY <1>1, <1>2, <1>6, <1>8, <3>1
    <3>2. CASE p # cur
      BY <1>0, <1>2, <1>6, <3>2 DEF Processes
    <3>3. QED
      BY <3>1, <3>2
  <2>3. ASSUME NEW p \in Pids, p >= pid_counter' PROVE ran'[p] = <<>>
    <3>1. p # cur /\ p >= pid_counter
      BY <1>1, <1>2, <1>5, <2>3
    <3>2. QED
      BY <1>0, <1>11, <3>1 DEF Processes
  <2>4. QED
    BY <2>1, <2>2, <2>3 DEF Processes, Running
<1>14. Whole'
  BY <1>0, <1>2 DEF Whole, Empty, Holds
<1>15. Resident'
  <2> SUFFICES ASSUME ~evicted, NEW p \in Pids, pcb'[p] # None
               PROVE  PagesIn(shellmemory, p, pcb'[p])
    BY <1>2 DEF Resident, PagesIn, Holds
  <2>1. CASE p = cur
    <3>1. PagesIn(shellmemory, p, P)
      BY <1>0, <1>1, <1>7, <2>1 DEF Resident
    <3>2. pcb'[p] = R /\ R # None
      BY <1>6, <2>1
    <3>3. QED
      BY <1>8, <1>9, <3>1, <3>2 DEF PagesIn
  <2>2. CASE p # cur
    BY <1>0, <1>6, <2>2 DEF Resident
  <2>3. QED
    BY <2>1, <2>2
<1>16. cur \in 1 .. pid_counter - 1
  BY <1>1, <1>5
<1>17. Len(ran[cur]) = 3 * P.PC + P.offset
  BY <1>0, <1>1, <1>7, <1>16 DEF RunsAll
<1>18. /\ Len(ran'[cur]) = Len(ran[cur]) + 1 /\ ran'[cur][Len(ran[cur]) + 1] = e
       /\ DOMAIN ran'[cur] = 1 .. Len(ran[cur]) + 1 /\ DOMAIN ran[cur] = 1 .. Len(ran[cur])
       /\ \A k \in 1 .. Len(ran[cur]) : ran'[cur][k] = ran[cur][k]
  <2> DEFINE r == ran[cur]
  <2>1. r \in Seq(Entry)
    BY <1>1, <1>5
  <2> HIDE DEF r, e
  <2>2. /\ Len(Append(r, e)) = Len(r) + 1 /\ Append(r, e)[Len(r) + 1] = e
        /\ DOMAIN Append(r, e) = 1 .. Len(r) + 1 /\ DOMAIN r = 1 .. Len(r)
        /\ \A k \in 1 .. Len(r) : Append(r, e)[k] = r[k]
    BY <2>1, <1>10
  <2>3. QED
    BY <1>11, <2>2 DEF r
<1>19. RunsAll'
  <2> SUFFICES ASSUME NEW p \in 1 .. pid_counter - 1
               PROVE  IF pcb'[p] = None
                      THEN Len(ran'[p]) = line_count(backing_store[p])
                      ELSE Len(ran'[p]) = 3 * pcb'[p].PC + pcb'[p].offset
    BY <1>2 DEF RunsAll
  <2>1. CASE p # cur
    <3>1. p \in Pids
      BY <1>5
    <3>2. QED
      BY <1>0, <1>6, <1>11, <2>1, <3>1 DEF RunsAll
  <2>2. CASE p = cur /\ R # None
    BY <1>6, <1>8, <1>17, <1>18, <2>2
  <2>3. CASE p = cur /\ R = None
    <3>1. AtEnd(P) \/ Advanced(P) = None
      BY <1>3, <2>3
    <3>2. AtEnd(P)
      <4>1. ~AtEnd(P) => Running(Advanced(P), s)
        BY <1>1, AdvancedPCB
      <4>2. QED
        BY <3>1, <4>1, RunningIsSome
    <3>3. P.PC = page_count(s) - 1 /\ P.offset + 1 = offset_end(s)
      BY <1>9, <3>2 DEF AtEnd
    <3>4. 3 * (page_count(s) - 1) + offset_end(s) = line_count(s)
      BY <1>9, Counts
    <3>5. Len(ran'[cur]) = line_count(s)
      BY <1>9, <1>17, <1>18, <3>3, <3>4
    <3>6. QED
      BY <1>1, <1>6, <2>3, <3>5
  <2>4. QED
    BY <2>1, <2>2, <2>3
<1>20. InOrder'
  <2> SUFFICES ASSUME ~evicted, NEW p \in 1 .. pid_counter - 1, NEW k \in DOMAIN ran'[p],
                      k <= backing_store[p].lines
               PROVE  ran'[p][k] = [pid |-> p, no |-> k]
    BY <1>2 DEF InOrder
  <2>1. CASE p # cur
    <3>1. p \in Pids
      BY <1>5
    <3>2. QED
      BY <1>0, <1>11, <2>1, <3>1 DEF InOrder
  <2>2. CASE p = cur /\ k \in 1 .. Len(ran[cur])
    BY <1>0, <1>18, <2>2 DEF InOrder
  <2>3. CASE p = cur /\ k = Len(ran[cur]) + 1
    <3>1. k = 3 * P.PC + P.offset + 1 /\ k <= s.lines
      BY <1>1, <1>17, <2>3
    <3>2. s.lines \in Nat
      BY <1>9, ScriptAssumption
    <3>3. 3 * P.PC + P.offset < s.lines /\ 3 * P.PC < s.lines
      BY <1>9, <3>1, <3>2
    <3>4. PagesIn(shellmemory, cur, P)
      BY <1>0, <1>1, <1>7 DEF Resident
    <3>5. Holds(shellmemory, f, cur, s, P.PC)
      BY <1>1, <1>9, <3>3, <3>4 DEF PagesIn
    <3>6. e = [pid |-> cur, no |-> 3 * P.PC + P.offset + 1]
      BY <1>9, <3>3, <3>5 DEF Holds
    <3>7. QED
      BY <1>18, <2>3, <3>1, <3>6
  <2>4. k \in 1 .. Len(ran[cur]) + 1 \/ p # cur
    BY <1>18
  <2>5. Len(ran[cur]) \in Nat
    BY <1>9, <1>17
  <2>6. QED
    BY <2>1, <2>2, <2>3, <2>4, <2>5
<1>21. (R = None => Alive' = Alive \ {cur}) /\ (R # None => Alive' = Alive)
  BY <1>1, <1>6, <1>7 DEF Alive
<1>22. QED
  BY <1>4, <1>12, <1>13, <1>14, <1>15, <1>19, <1>20, <1>21 DEF StoreInv

----------------------------------------------------------------------------
(* The actions.                                                            *)

\* What the queue has to do with the command.
QueueOK(q, c, A) ==
    /\ IsInjective(q) /\ c \notin ToSet(q)
    /\ ToSet(q) \cup ({c} \ {None}) = A

LEMMA InvParts ==
    ASSUME KernelInv
    PROVE  /\ StoreInv /\ Shape /\ Processes /\ Whole /\ Resident /\ RunsAll /\ CommandOK
           /\ QueueOK(queue, cur, Alive)
           /\ queue \in Seq(Pids) /\ ToSet(queue) \subseteq Pids /\ None \notin Pids
           /\ pid_counter \in 1 .. MaxPid + 1 /\ MaxPid \in Nat
<1>1. /\ StoreInv /\ Shape /\ Processes /\ Whole /\ Resident /\ RunsAll /\ CommandOK
      /\ QueueSound /\ queue \in Seq(Pids)
      /\ pid_counter \in 1 .. MaxPid + 1 /\ MaxPid \in Nat
  BY A2Assumption DEF KernelInv, StoreInv, Shape
<1>2. QueueOK(queue, cur, Alive)
  BY <1>1 DEF QueueSound, QueueOK, Alive
<1>3. ToSet(queue) \subseteq Pids
  BY <1>1 DEF ToSet
<1>4. None \notin Pids
  BY NoneAssumption DEF Pids
<1>5. QED
  BY <1>1, <1>2, <1>3, <1>4

LEMMA InvNext ==
    ASSUME StoreInv', CommandOK', QueueOK(queue', cur', Alive')
    PROVE  KernelInv'
  BY DEF KernelInv, QueueOK, QueueSound, Alive

\* A process in its turn, or being admitted, goes to the tail of the queue.
LEMMA TailStep ==
    ASSUME KernelInv, cur \in Pids, queue' = Append(queue, cur), cur' = None
    PROVE  /\ queue' \in Seq(Pids) /\ cur \in Alive
           /\ QueueOK(queue', cur', Alive)
<1>1. /\ QueueOK(queue, cur, Alive) /\ queue \in Seq(Pids) /\ ToSet(queue) \subseteq Pids
      /\ None \notin Pids
  BY InvParts
<1>2. /\ IsInjective(queue) /\ cur \notin ToSet(queue)
      /\ ToSet(queue) \cup {cur} = Alive
  BY <1>1 DEF QueueOK
<1>3. /\ queue' \in Seq(Pids) /\ IsInjective(queue')
      /\ ToSet(queue') = ToSet(queue) \cup {cur}
  BY <1>1, <1>2, AddToTail
<1>4. None \notin ToSet(queue')
  BY <1>1, <1>3
<1>5. QED
  BY <1>2, <1>3, <1>4 DEF QueueOK

LEMMA InitInv ==
    ASSUME Init
    PROVE  KernelInv
<1>1. /\ shellmemory = [l \in Lines |-> None] /\ age = [f \in Frame |-> 0] /\ currentAge = 0
      /\ pcb = [p \in Pids |-> None] /\ backing_store = [p \in Pids |-> None]
      /\ queue = <<>> /\ pid_counter = 1 /\ at = "shell" /\ todo = <<>> /\ cur = None
      /\ ran = [p \in Pids |-> <<>>]
      /\ uses = 0 /\ used = [f \in Frame |-> 0] /\ read = [f \in Frame |-> 0]
      /\ evicted = FALSE
  BY DEF Init
<1>2. None \notin Pids /\ Pids = 1 .. MaxPid /\ MaxPid \in Nat
  BY A2Assumption, NoneAssumption DEF Pids
<1>3. Shape
  <2>1. \A S : <<>> \in Seq(S)
    OBVIOUS
  <2>2. shellmemory \in [Lines -> Entry]
    BY <1>1 DEF Entry
  <2>3. ran \in [Pids -> Seq(Entry)]
    BY <1>1, <2>1
  <2>4. age \in [Frame -> Nat] /\ used \in [Frame -> Nat] /\ read \in [Frame -> Nat]
    BY <1>1
  <2>5. queue \in Seq(Pids)
    BY <1>1, <2>1
  <2>6. pid_counter \in 1 .. MaxPid + 1
    BY <1>1, <1>2
  <2>7. pcb = [p \in Pids |-> pcb[p]] /\ backing_store = [p \in Pids |-> backing_store[p]]
    BY <1>1
  <2>8. currentAge \in Nat /\ uses \in Nat /\ evicted \in BOOLEAN
    BY <1>1
  <2>9. QED
    BY <2>2, <2>3, <2>4, <2>5, <2>6, <2>7, <2>8 DEF Shape
<1>4. 1 .. pid_counter - 1 = {}
  BY <1>1
<1>5. Processes
  BY <1>1, <1>4 DEF Processes
<1>6. Whole
  <2>1. \A f \in Frame : Empty(shellmemory, f)
    BY <1>1, LineOf DEF Empty
  <2>2. QED
    BY <2>1 DEF Whole
<1>7. Resident
  BY <1>1 DEF Resident
<1>8. Ages
  BY <1>1 DEF Ages
<1>9. RunsAll /\ InOrder
  BY <1>4 DEF RunsAll, InOrder
<1>10. CommandOK
  BY <1>1 DEF CommandOK
<1>11. QueueSound
  <2>1. DOMAIN queue = {}
    BY <1>1
  <2>2. IsInjective(queue) /\ ToSet(queue) = {}
    BY <2>1 DEF IsInjective, ToSet
  <2>3. {p \in Pids : pcb[p] # None} = {}
    BY <1>1
  <2>4. QED
    BY <1>1, <2>2, <2>3 DEF QueueSound
<1>12. QED
  BY <1>3, <1>5, <1>6, <1>7, <1>8, <1>9, <1>10, <1>11 DEF KernelInv, StoreInv

\* exec and run.
LEMMA CommandInv ==
    ASSUME KernelInv, exec \/ run
    PROVE  KernelInv'
<1>1. PICK names \in Seq(Scripts \cup {None}), pol \in {"RR", "FCFS"} : Command(names, pol)
  <2>1. ASSUME NEW n \in SeqOf(Scripts \cup {None}, MaxScripts)
        PROVE  n \in Seq(Scripts \cup {None})
    <3>1. PICK m \in 0 .. MaxScripts : n \in [1 .. m -> Scripts \cup {None}]
      BY DEF SeqOf
    <3>2. m \in Nat
      BY <3>1
    <3>3. QED
      BY <3>1, <3>2
  <2>2. \A s \in Scripts \cup {None} : <<s>> \in Seq(Scripts \cup {None})
    OBVIOUS
  <2>3. QED
    BY <2>1, <2>2 DEF exec, run
<1>2. /\ at = "shell" /\ pid_counter + Count(names) <= MaxPid + 1
      /\ at' = "admit" /\ todo' = names
      /\ UNCHANGED <<memory, pcb, files, queue, turn, ran>>
  BY <1>1 DEF Command, Count
<1>3. cur' = cur /\ queue' = queue /\ pid_counter' = pid_counter
  BY <1>2 DEF turn, files
<1>4. /\ StoreInv /\ CommandOK /\ QueueOK(queue, cur, Alive) /\ queue \in Seq(Pids)
  BY InvParts
<1>5. StoreInv' /\ Alive' = Alive
  <2>1. UNCHANGED <<memory, pcb, files, ran>>
    BY <1>2
  <2>2. QED
    BY <1>3, <1>4, <2>1, QueueStep
<1>6. CommandOK'
  BY <1>1, <1>2, <1>3, <1>4 DEF CommandOK, Count
<1>7. QED
  BY <1>3, <1>4, <1>5, <1>6, InvNext

\* The steps between the shell, the admission and the scheduler.
LEMMA ShellInv ==
    ASSUME KernelInv, Missing \/ schedule_by_policy \/ Return
    PROVE  KernelInv'
<1>1. /\ UNCHANGED <<memory, pcb, files, queue, turn, ran>>
      /\ at \in {"admit", "schedule"} /\ at' \in {"shell", "schedule"}
      /\ todo' \in {todo, <<>>}
  BY DEF Missing, schedule_by_policy, Return
<1>2. cur' = cur /\ queue' = queue
  BY <1>1 DEF turn
<1>3. /\ StoreInv /\ CommandOK /\ QueueOK(queue, cur, Alive) /\ queue \in Seq(Pids)
  BY InvParts
<1>4. StoreInv' /\ Alive' = Alive
  <2>1. UNCHANGED <<memory, pcb, files, ran>>
    BY <1>1
  <2>2. QED
    BY <1>2, <1>3, <2>1, QueueStep
<1>5. CommandOK'
  <2>1. <<>> \in Seq(Scripts \cup {None})
    OBVIOUS
  <2>2. QED
    BY <1>1, <1>2, <1>3, <2>1 DEF CommandOK
<1>6. QED
  BY <1>2, <1>3, <1>4, <1>5, InvNext

LEMMA DispatchInv ==
    ASSUME KernelInv, Dispatch
    PROVE  KernelInv'
<1>1. /\ at = "schedule" /\ queue # <<>> /\ cur' = Head(queue) /\ queue' = Tail(queue)
      /\ at' = "turn" /\ todo' = todo
      /\ UNCHANGED <<memory, pcb, files, ran>>
  BY DEF Dispatch, ready_queue_pop_head
<1>2. /\ StoreInv /\ CommandOK /\ QueueOK(queue, cur, Alive) /\ queue \in Seq(Pids)
      /\ None \notin Pids
  BY InvParts
<1>3. cur = None
  BY <1>1, <1>2 DEF CommandOK
<1>4. IsInjective(queue) /\ ToSet(queue) = Alive
  BY <1>2, <1>3 DEF QueueOK
<1>5. /\ cur' \in Pids /\ queue' \in Seq(Pids) /\ IsInjective(queue')
      /\ cur' \notin ToSet(queue') /\ ToSet(queue) = ToSet(queue') \cup {cur'}
  BY <1>1, <1>2, <1>4, PopHead
<1>6. StoreInv' /\ Alive' = Alive
  BY <1>1, <1>2, <1>5, QueueStep
<1>7. CommandOK'
  BY <1>1, <1>2, <1>5 DEF CommandOK
<1>8. QueueOK(queue', cur', Alive')
  BY <1>2, <1>4, <1>5, <1>6 DEF QueueOK
<1>9. QED
  BY <1>6, <1>7, <1>8, InvNext

LEMMA QuantumInv ==
    ASSUME KernelInv, Quantum
    PROVE  KernelInv'
<1>1. /\ at = "turn" /\ queue' = Append(queue, cur) /\ cur' = None
      /\ at' = "schedule" /\ todo' = todo
      /\ UNCHANGED <<memory, pcb, files, ran>>
  BY DEF Quantum, ready_queue_add_to_tail, TurnEnds
<1>2. StoreInv /\ CommandOK
  BY InvParts
<1>3. cur \in Pids
  BY <1>1, <1>2 DEF CommandOK
<1>4. queue' \in Seq(Pids) /\ QueueOK(queue', cur', Alive)
  BY <1>1, <1>3, TailStep
<1>5. StoreInv' /\ Alive' = Alive
  BY <1>1, <1>2, <1>4, QueueStep
<1>6. CommandOK'
  BY <1>1, <1>2 DEF CommandOK
<1>7. QED
  BY <1>4, <1>5, <1>6, InvNext

\* resetmem with an empty queue: no process has a page.
LEMMA ResetInv ==
    ASSUME KernelInv, resetmem
    PROVE  KernelInv'
<1>1. /\ at = "shell" /\ queue = <<>>
      /\ shellmemory' = [l \in Lines |-> None]
      /\ age' = [f \in Frame |-> 0]
      /\ used' = [f \in Frame |-> 0] /\ read' = [f \in Frame |-> 0]
      /\ UNCHANGED <<currentAge, uses, evicted, pcb, files, queue, shell, ran>>
  BY DEF resetmem
<1>2. /\ currentAge' = currentAge /\ uses' = uses /\ evicted' = evicted
      /\ pcb' = pcb /\ backing_store' = backing_store /\ pid_counter' = pid_counter
      /\ queue' = queue /\ cur' = cur /\ at' = at /\ todo' = todo /\ ran' = ran
  BY <1>1 DEF files, shell, turn
<1>3. /\ StoreInv /\ CommandOK /\ QueueOK(queue, cur, Alive)
      /\ Shape /\ Processes /\ Ages /\ RunsAll /\ InOrder
  BY InvParts DEF StoreInv
<1>4. Alive = {}
  <2>1. cur = None
    BY <1>1, <1>3 DEF CommandOK
  <2>2. DOMAIN queue = {}
    BY <1>1
  <2>3. ToSet(queue) = {}
    BY <2>2 DEF ToSet
  <2>4. QED
    BY <1>3, <2>1, <2>3 DEF QueueOK
<1>5. Shape'
  <2>1. shellmemory' \in [Lines -> Entry]
    BY <1>1 DEF Entry
  <2>2. age' \in [Frame -> Nat] /\ used' \in [Frame -> Nat] /\ read' \in [Frame -> Nat]
    BY <1>1
  <2>3. QED
    BY <1>2, <1>3, <2>1, <2>2 DEF Shape
<1>6. Processes'
  BY <1>2, <1>3 DEF Processes, Running
<1>7. Whole'
  <2>1. \A f \in Frame : Empty(shellmemory', f)
    BY <1>1, LineOf DEF Empty
  <2>2. QED
    BY <2>1 DEF Whole, Empty
<1>8. Resident'
  BY <1>2, <1>4 DEF Resident, Alive
<1>9. Ages'
  <2>1. currentAge \in Nat /\ uses \in Nat
    BY <1>3 DEF Shape
  <2>2. QED
    BY <1>1, <1>2, <2>1 DEF Ages
<1>10. RunsAll' /\ InOrder'
  BY <1>2, <1>3 DEF RunsAll, InOrder
<1>11. StoreInv'
  BY <1>5, <1>6, <1>7, <1>8, <1>9, <1>10 DEF StoreInv
<1>12. CommandOK' /\ Alive' = Alive
  BY <1>2, <1>3 DEF CommandOK, Alive
<1>13. QED
  BY <1>2, <1>3, <1>11, <1>12, InvNext

\* A process starts with no page valid.
LEMMA NewPCB ==
    ASSUME NEW s \in Scripts
    PROVE  /\ Running(makePCB(s), s) /\ makePCB(s).PC = 0 /\ makePCB(s).offset = 0
           /\ makePCB(s).fp = s
           /\ \A m, p : PagesIn(m, p, makePCB(s))
<1> DEFINE P == makePCB(s)
<1>1. P = [fp |-> s, PC |-> 0, offset |-> 0,
           page_table |-> [i \in Pages(s) |-> None],
           valid_page |-> [i \in Pages(s) |-> FALSE]]
  BY DEF makePCB
<1> HIDE DEF P
<1>2. /\ P.fp = s /\ P.PC = 0 /\ P.offset = 0
      /\ P.valid_page = [i \in Pages(s) |-> FALSE]
  BY <1>1
<1>3. /\ [i \in Pages(s) |-> None] \in [Pages(s) -> Frame \cup {None}]
      /\ [i \in Pages(s) |-> FALSE] \in [Pages(s) -> BOOLEAN]
  OBVIOUS
<1>4. P \in PCB(s)
  BY <1>1, <1>3 DEF PCB
<1>5. 0 \in Pages(s) /\ 0 < offset_end(s)
  BY Counts
<1>6. Running(P, s)
  BY <1>2, <1>4, <1>5 DEF Running
<1>7. \A m, p : PagesIn(m, p, P)
  BY <1>2 DEF PagesIn
<1>8. QED
  BY <1>2, <1>6, <1>7 DEF P

LEMMA InitializeInv ==
    ASSUME KernelInv, process_initialize
    PROVE  KernelInv'
<1> DEFINE s == Head(todo)
           p == pid_counter
           P == makePCB(s)
<1>1. /\ at = "admit" /\ todo # <<>> /\ s # None
      /\ backing_store' = [backing_store EXCEPT ![p] = s] /\ pid_counter' = p + 1
      /\ replace_page(p, P, 0, 0) /\ cur' = p
      /\ todo' = Tail(todo) /\ at' = "second" /\ queue' = queue /\ ran' = ran
  BY DEF process_initialize
<1>2. /\ StoreInv /\ Shape /\ Processes /\ Whole /\ Resident /\ RunsAll /\ CommandOK
      /\ QueueOK(queue, cur, Alive)
      /\ queue \in Seq(Pids) /\ ToSet(queue) \subseteq Pids /\ None \notin Pids
      /\ pid_counter \in 1 .. MaxPid + 1 /\ MaxPid \in Nat
  BY InvParts
<1>3. /\ todo \in Seq(Scripts \cup {None}) /\ pid_counter + Count(todo) <= MaxPid + 1
      /\ cur = None
  BY <1>1, <1>2 DEF CommandOK
<1>4. s \in Scripts
  <2>1. s \in Scripts \cup {None}
    BY <1>1, <1>3
  <2>2. QED
    BY <1>1, <2>1
<1>5. Tail(todo) \in Seq(Scripts \cup {None}) /\ Count(Tail(todo)) + 1 <= Count(todo)
  BY <1>1, <1>3, CountTail
<1>6. Count(todo) \in Nat /\ Count(Tail(todo)) \in Nat
  BY <1>3, <1>5, CountType
<1>7. p \in Pids /\ p \in Nat /\ p + 1 \in 1 .. MaxPid + 1
  BY <1>2, <1>3, <1>5, <1>6 DEF Pids
<1>8. /\ Running(P, s) /\ P.PC = 0 /\ P.offset = 0 /\ P.fp = s
      /\ \A m, q : PagesIn(m, q, P)
  BY <1>4, NewPCB
<1>9. 0 \in Pages(s)
  BY <1>4, Counts
<1> HIDE DEF s, p, P
<1>10. PICK f \in Frame : Load(p, P, 0, f)
  BY <1>1, <1>2, <1>4, <1>7, <1>8, ReplacePage
<1>11. Stored(p, s)
  <2>1. backing_store = [q \in Pids |-> backing_store[q]]
    BY <1>2 DEF Shape
  <2>2. /\ backing_store' = [q \in Pids |-> backing_store'[q]]
        /\ backing_store'[p] = s
        /\ \A q \in Pids : q # p => backing_store'[q] = backing_store[q]
    BY <1>1, <1>7, <2>1
  <2>0. pid_counter' = p + 1 /\ p \in 1 .. MaxPid /\ MaxPid \in Nat
    BY <1>1, <1>2, <1>7 DEF Pids
  <2>3. \A q \in 1 .. p - 1 : q \in Pids /\ q # p /\ q \in 1 .. pid_counter' - 1
    BY <2>0 DEF Pids
  <2>4. \A q \in 1 .. pid_counter' - 1 : q = p \/ q \in 1 .. p - 1
    BY <1>1, <1>7
  <2>5. p \in 1 .. pid_counter' - 1 /\ pid_counter' \in 1 .. MaxPid + 1
    BY <1>1, <1>7 DEF Pids
  <2>6. QED
    BY <1>4, <2>2, <2>3, <2>4, <2>5 DEF Stored, p
<1>12. ran[p] = <<>>
  BY <1>2, <1>7 DEF Processes, p
<1>13. Len(ran[p]) = 3 * P.PC + P.offset
  BY <1>8, <1>12
<1>14. queue' \in Seq(Pids)
  BY <1>1, <1>2
<1>15. StoreInv' /\ Alive' = Alive \cup {p}
  BY <1>1, <1>2, <1>7, <1>8, <1>9, <1>10, <1>11, <1>13, <1>14, LoadStep
<1>16. CommandOK'
  <2>1. pid_counter' + Count(Tail(todo)) <= MaxPid + 1
    BY <1>1, <1>2, <1>3, <1>5, <1>6 DEF p
  <2>2. QED
    BY <1>1, <1>5, <1>7, <2>1 DEF CommandOK, Count
<1>17. p \notin Alive
  BY <1>2, <1>7 DEF Alive, Processes, p
<1>18. QueueOK(queue', cur', Alive')
  <2>1. IsInjective(queue) /\ ToSet(queue) = Alive
    BY <1>2, <1>3 DEF QueueOK
  <2>2. p # None
    BY <1>2, <1>7
  <2>3. QED
    BY <1>1, <1>15, <1>17, <2>1, <2>2 DEF QueueOK
<1>19. QED
  BY <1>15, <1>16, <1>18, InvNext

\* What holds of the process that is being admitted or has its turn.
LEMMA Current ==
    ASSUME KernelInv, at \in {"second", "turn"}
    PROVE  LET P == pcb[cur]
               s == backing_store[cur]
           IN  /\ cur \in Pids /\ cur \in Alive /\ Running(P, s) /\ P.fp = s /\ s \in Scripts
               /\ UNCHANGED files => Stored(cur, s)
               /\ Len(ran[cur]) = 3 * P.PC + P.offset
               /\ ~evicted => PagesIn(shellmemory, cur, P)
               /\ cur < pid_counter
<1>1. /\ Shape /\ Processes /\ Resident /\ RunsAll /\ CommandOK
      /\ QueueOK(queue, cur, Alive) /\ None \notin Pids
      /\ pid_counter \in 1 .. MaxPid + 1 /\ MaxPid \in Nat
  BY InvParts
<1>2. cur \in Pids
  BY <1>1 DEF CommandOK
<1>3. cur \in Alive
  BY <1>1, <1>2 DEF QueueOK
<1>4. pcb[cur] # None
  BY <1>3 DEF Alive
<1>5. cur < pid_counter /\ Running(pcb[cur], backing_store[cur])
  BY <1>1, <1>2, <1>4 DEF Processes
<1>6. pcb[cur].fp = backing_store[cur] /\ backing_store[cur] \in Scripts
  BY <1>5 DEF Running, PCB
<1>7. cur \in 1 .. pid_counter - 1
  BY <1>1, <1>2, <1>5 DEF Pids
<1>8. Len(ran[cur]) = 3 * pcb[cur].PC + pcb[cur].offset
  BY <1>1, <1>4, <1>7 DEF RunsAll
<1>9. ~evicted => PagesIn(shellmemory, cur, pcb[cur])
  BY <1>1, <1>2, <1>4 DEF Resident
<1>10. UNCHANGED files => Stored(cur, backing_store[cur])
  BY <1>1, <1>6, <1>7 DEF Stored, files, Shape
<1>11. QED
  BY <1>2, <1>3, <1>5, <1>6, <1>8, <1>9, <1>10

\* A load of a page of the current process, after which it is in the queue.
LEMMA CurrentLoads ==
    ASSUME KernelInv, at \in {"second", "turn"}, NEW n \in Pages(backing_store[cur]),
           replace_page(cur, pcb[cur], n, n), queue' = Append(queue, cur), cur' = None,
           UNCHANGED files, ran' = ran
    PROVE  StoreInv' /\ QueueOK(queue', cur', Alive')
<1> DEFINE P == pcb[cur]
           s == backing_store[cur]
<1>1. /\ StoreInv /\ Shape /\ Processes /\ Whole
  BY InvParts
<1>2. /\ cur \in Pids /\ cur \in Alive /\ Running(P, s) /\ P.fp = s /\ s \in Scripts
      /\ Stored(cur, s) /\ Len(ran[cur]) = 3 * P.PC + P.offset
      /\ ~evicted => PagesIn(shellmemory, cur, P)
  BY Current
<1>3. n \in Nat
  BY <1>2, Counts
<1> HIDE DEF P, s
<1>4. replace_page(cur, P, n, n)
  BY DEF P
<1>5. PICK f \in Frame : Load(cur, P, n, f)
  BY <1>1, <1>2, <1>3, <1>4, ReplacePage
<1>6. n \in Pages(s)
  BY DEF s
<1>7. queue' \in Seq(Pids) /\ QueueOK(queue', cur', Alive)
  BY <1>2, TailStep
<1>8. StoreInv' /\ Alive' = Alive \cup {cur}
  BY <1>1, <1>2, <1>5, <1>6, <1>7, LoadStep
<1>9. Alive' = Alive
  BY <1>2, <1>8
<1>10. QED
  BY <1>7, <1>8, <1>9

LEMMA AdmittedInv ==
    ASSUME KernelInv, Admitted
    PROVE  KernelInv'
<1>1. /\ at = "second" /\ queue' = Append(queue, cur) /\ at' = "admit" /\ cur' = None
      /\ UNCHANGED files /\ ran' = ran /\ todo' = todo
      /\ IF page_count(pcb[cur].fp) > 1 THEN load_file(cur) ELSE UNCHANGED <<memory, pcb>>
  BY DEF Admitted, ready_queue_add_to_tail
<1>2. StoreInv /\ CommandOK
  BY InvParts
<1>3. /\ cur \in Pids /\ pcb[cur].fp = backing_store[cur] /\ backing_store[cur] \in Scripts
  BY <1>1, Current
<1>4. StoreInv' /\ QueueOK(queue', cur', Alive')
  <2>1. CASE page_count(pcb[cur].fp) > 1
    <3>1. replace_page(cur, pcb[cur], 1, 1)
      BY <1>1, <2>1 DEF load_file
    <3>2. 1 \in Pages(backing_store[cur])
      <4>1. page_count(backing_store[cur]) \in Nat /\ page_count(backing_store[cur]) > 1
        BY <1>3, <2>1, Counts
      <4>2. QED
        BY <4>1 DEF Pages
    <3>3. QED
      BY <1>1, <3>1, <3>2, CurrentLoads
  <2>2. CASE ~(page_count(pcb[cur].fp) > 1)
    <3>1. UNCHANGED <<memory, pcb, files, ran>>
      BY <1>1, <2>2
    <3>2. queue' \in Seq(Pids) /\ QueueOK(queue', cur', Alive)
      BY <1>1, <1>3, TailStep
    <3>3. StoreInv' /\ Alive' = Alive
      BY <1>2, <3>1, <3>2, QueueStep
    <3>4. QED
      BY <3>2, <3>3
  <2>3. QED
    BY <2>1, <2>2
<1>5. pid_counter' = pid_counter
  BY <1>1 DEF files
<1>6. CommandOK'
  BY <1>1, <1>2, <1>5 DEF CommandOK, Count
<1>7. QED
  BY <1>4, <1>6, InvNext

LEMMA FaultInv ==
    ASSUME KernelInv, PageFault
    PROVE  KernelInv'
<1>1. /\ at = "turn" /\ replace_page(cur, pcb[cur], pcb[cur].PC, pcb[cur].PC)
      /\ queue' = Append(queue, cur) /\ at' = "schedule" /\ cur' = None
      /\ UNCHANGED files /\ ran' = ran /\ todo' = todo
  BY DEF PageFault, ready_queue_add_to_tail, TurnEnds
<1>2. CommandOK
  BY InvParts
<1>3. Running(pcb[cur], backing_store[cur])
  BY <1>1, Current
<1>4. pcb[cur].PC \in Pages(backing_store[cur])
  BY <1>3 DEF Running
<1>5. StoreInv' /\ QueueOK(queue', cur', Alive')
  <2> DEFINE n == pcb[cur].PC
  <2>1. n \in Pages(backing_store[cur]) /\ replace_page(cur, pcb[cur], n, n)
    BY <1>1, <1>4
  <2> HIDE DEF n
  <2>2. QED
    BY <1>1, <2>1, CurrentLoads
<1>6. CommandOK'
  BY <1>1, <1>2 DEF CommandOK
<1>7. QED
  BY <1>5, <1>6, InvNext

\* The line that the process in its turn executes.
LEMMA ReadsLine ==
    ASSUME KernelInv, ReadLine, NEW R,
           (AtEnd(pcb[cur]) /\ R = None) \/ (~AtEnd(pcb[cur]) /\ R = Advanced(pcb[cur])),
           pcb' = [pcb EXCEPT ![cur] = R], UNCHANGED files, queue' \in Seq(Pids)
    PROVE  \E f \in Frame : LineStep(pcb[cur], backing_store[cur], f, R)
<1> DEFINE P == pcb[cur]
           s == backing_store[cur]
           f == P.page_table[P.PC]
           l == 3 * f + P.offset
<1>1. at = "turn" /\ P.valid_page[P.PC] /\ mem_get_value_at_line(l)
  BY DEF ReadLine
<1>2. /\ cur \in Pids /\ Running(P, s) /\ cur < pid_counter
  BY <1>1, Current
<1>3. f \in Frame /\ P.offset \in 0 .. 2
  BY <1>1, <1>2 DEF Running
<1>4. l \div 3 = f
  <2> HIDE DEF f, P
  <2> QED
    BY <1>3, LineOf
<1>5. /\ age' = [age EXCEPT ![f] = currentAge + 1]
      /\ currentAge' = currentAge + 3 /\ uses' = uses + 1
      /\ used' = [used EXCEPT ![f] = uses'] /\ read' = [read EXCEPT ![f] = uses']
      /\ ran' = [ran EXCEPT ![cur] = Append(@, shellmemory[l])]
      /\ shellmemory' = shellmemory /\ evicted' = evicted
  <2> HIDE DEF l, f
  <2>1. /\ age' = [age EXCEPT ![l \div 3] = currentAge + 1]
        /\ currentAge' = currentAge + 3 /\ uses' = uses + 1
        /\ used' = [used EXCEPT ![l \div 3] = uses']
        /\ read' = [read EXCEPT ![l \div 3] = uses']
        /\ ran' = [ran EXCEPT ![cur] = Append(@, shellmemory[l])]
        /\ shellmemory' = shellmemory /\ evicted' = evicted
    BY <1>1 DEF mem_get_value_at_line
  <2>2. QED
    BY <1>4, <2>1
<1>6. backing_store' = backing_store /\ pid_counter' = pid_counter
  BY DEF files
<1>7. LineStep(P, s, f, R)
  BY <1>1, <1>2, <1>3, <1>5, <1>6 DEF LineStep
<1>8. QED
  BY <1>3, <1>7

LEMMA ExecuteInv ==
    ASSUME KernelInv, ExecuteLine
    PROVE  KernelInv'
<1>1. /\ ReadLine /\ ~AtEnd(pcb[cur]) /\ pcb' = [pcb EXCEPT ![cur] = Advanced(pcb[cur])]
      /\ UNCHANGED <<files, queue, at, todo, policy, cur>>
  BY DEF ExecuteLine
<1>2. /\ StoreInv /\ CommandOK /\ QueueOK(queue, cur, Alive) /\ queue \in Seq(Pids)
  BY InvParts
<1>3. at = "turn"
  BY <1>1 DEF ReadLine
<1> DEFINE R == Advanced(pcb[cur])
<1>4. R # None
  <2>1. Running(R, backing_store[cur])
    BY <1>1, <1>3, Current, AdvancedPCB
  <2> HIDE DEF R
  <2>2. QED
    BY <2>1, RunningIsSome
<1>5. \E f \in Frame : LineStep(pcb[cur], backing_store[cur], f, R)
  <2>1. UNCHANGED files /\ queue' \in Seq(Pids)
    BY <1>1, <1>2
  <2>2. QED
    BY <1>1, <2>1, ReadsLine
<1>6. StoreInv' /\ Alive' = Alive
  <2> HIDE DEF R
  <2> QED
    BY <1>2, <1>4, <1>5, LineStore
<1>7. CommandOK'
  BY <1>1, <1>2, <1>3 DEF CommandOK
<1>8. QED
  BY <1>1, <1>2, <1>6, <1>7, InvNext

LEMMA TerminateInv ==
    ASSUME KernelInv, terminate_process
    PROVE  KernelInv'
<1>1. /\ ReadLine /\ AtEnd(pcb[cur]) /\ pcb' = [pcb EXCEPT ![cur] = None]
      /\ at' = "schedule" /\ cur' = None
      /\ UNCHANGED <<files, queue, todo, policy>>
  BY DEF terminate_process, TurnEnds
<1>2. /\ StoreInv /\ CommandOK /\ QueueOK(queue, cur, Alive) /\ queue \in Seq(Pids)
      /\ None \notin Pids /\ ToSet(queue) \subseteq Pids
  BY InvParts
<1>3. at = "turn" /\ cur \in Pids
  BY <1>1, <1>2 DEF ReadLine, CommandOK
<1>4. \E f \in Frame : LineStep(pcb[cur], backing_store[cur], f, None)
  <2>1. UNCHANGED files /\ queue' \in Seq(Pids)
    BY <1>1, <1>2
  <2>2. QED
    BY <1>1, <2>1, ReadsLine
<1>5. StoreInv' /\ Alive' = Alive \ {cur}
  BY <1>2, <1>4, LineStore
<1>6. CommandOK'
  BY <1>1, <1>2 DEF CommandOK
<1>7. QueueOK(queue', cur', Alive')
  BY <1>1, <1>2, <1>3, <1>5 DEF QueueOK
<1>8. QED
  BY <1>5, <1>6, <1>7, InvNext

\* A step that changes nothing.
LEMMA StutterInv ==
    ASSUME KernelInv, UNCHANGED vars
    PROVE  KernelInv'
<1>1. /\ UNCHANGED <<memory, pcb, files, ran>> /\ queue' = queue /\ cur' = cur
      /\ at' = at /\ todo' = todo /\ pid_counter' = pid_counter
  BY DEF vars, shell, turn, files
<1>2. /\ StoreInv /\ CommandOK /\ QueueOK(queue, cur, Alive) /\ queue \in Seq(Pids)
  BY InvParts
<1>3. StoreInv' /\ Alive' = Alive
  BY <1>1, <1>2, QueueStep
<1>4. CommandOK'
  BY <1>1, <1>2 DEF CommandOK
<1>5. QED
  BY <1>1, <1>2, <1>3, <1>4, InvNext

----------------------------------------------------------------------------
(* The theorems.                                                           *)

\* Whatever scripts are run, together or one after the other, in however
\* small a frame store, the kernel is in a state of KernelInv.
THEOREM Invariance == Spec => []KernelInv
<1>1. Init => KernelInv
  BY InitInv
<1>2. KernelInv /\ [Next]_vars => KernelInv'
  <2> SUFFICES ASSUME KernelInv, [Next]_vars PROVE KernelInv'
    OBVIOUS
  <2>1. CASE exec \/ run
    BY <2>1, CommandInv
  <2>2. CASE resetmem
    BY <2>2, ResetInv
  <2>3. CASE Missing \/ schedule_by_policy \/ Return
    BY <2>3, ShellInv
  <2>4. CASE process_initialize
    BY <2>4, InitializeInv
  <2>5. CASE Admitted
    BY <2>5, AdmittedInv
  <2>6. CASE Dispatch
    BY <2>6, DispatchInv
  <2>7. CASE PageFault
    BY <2>7, FaultInv
  <2>8. CASE ExecuteLine
    BY <2>8, ExecuteInv
  <2>9. CASE terminate_process
    BY <2>9, TerminateInv
  <2>10. CASE Quantum
    BY <2>10, QuantumInv
  <2>11. CASE UNCHANGED vars
    BY <2>11, StutterInv
  <2>12. QED
    BY <2>1, <2>2, <2>3, <2>4, <2>5, <2>6, <2>7, <2>8, <2>9, <2>10, <2>11 DEF Next, Kernel
<1>3. QED
  BY <1>1, <1>2, PTL DEF Spec

\* A frame holds lines of one page of one file, also after short pages and
\* evictions (copy_to_mem and mem_free_lines_between of shellmemory.c).
THEOREM FramesAreWhole == Spec => []FrameWhole
<1>1. KernelInv => FrameWhole
  <2> SUFFICES ASSUME KernelInv, NEW f \in Frame
               PROVE  \/ \A l \in 3 * f .. 3 * f + 2 : shellmemory[l] = None
                      \/ \E p \in 1 .. pid_counter - 1 : \E n \in Pages(backing_store[p]) :
                            \A l \in 3 * f .. 3 * f + 2 : \E no \in {3 * n + (l % 3) + 1} :
                              shellmemory[l] = IF no <= backing_store[p].lines
                                               THEN [pid |-> p, no |-> no] ELSE None
    BY DEF FrameWhole
  <2>1. Processes /\ Whole
    BY InvParts
  <2>2. CASE Empty(shellmemory, f)
    <3>1. \A l \in 3 * f .. 3 * f + 2 : shellmemory[l] = None
      BY <2>2, LinesOf DEF Empty
    <3>2. QED
      BY <3>1
  <2>3. ASSUME NEW p \in 1 .. pid_counter - 1, NEW n \in Pages(backing_store[p]),
               Holds(shellmemory, f, p, backing_store[p], n)
        PROVE  \A l \in 3 * f .. 3 * f + 2 : \E no \in {3 * n + (l % 3) + 1} :
                  shellmemory[l] = IF no <= backing_store[p].lines
                                   THEN [pid |-> p, no |-> no] ELSE None
    <3> SUFFICES ASSUME NEW l \in 3 * f .. 3 * f + 2
                 PROVE  shellmemory[l] = IF 3 * n + (l % 3) + 1 <= backing_store[p].lines
                                         THEN [pid |-> p, no |-> 3 * n + (l % 3) + 1] ELSE None
      OBVIOUS
    <3>1. PICK o \in 0 .. 2 : l = 3 * f + o /\ l % 3 = o
      BY LinesOf
    <3>2. backing_store[p] \in Scripts
      BY <2>1 DEF Processes
    <3>3. n \in Nat /\ backing_store[p].lines \in Nat
      BY <3>2, Counts
    <3>4. 3 * n + o < backing_store[p].lines <=> 3 * n + o + 1 <= backing_store[p].lines
      BY <3>3
    <3>5. QED
      BY <2>3, <3>1, <3>4 DEF Holds
  <2>4. QED
    BY <2>1, <2>2, <2>3 DEF Whole
<1>2. QED
  BY <1>1, Invariance, PTL

\* PC and offset are a line of the file, a valid page has a frame, and the
\* PCBs, the store and the process that has its turn are what the code
\* takes them for.
THEOREM TypeCorrect == Spec => []TypeOK
<1>1. KernelInv => TypeOK
  <2> SUFFICES ASSUME KernelInv PROVE TypeOK
    OBVIOUS
  <2>1. /\ Shape /\ Processes /\ Whole /\ Ages /\ CommandOK
        /\ None \notin Pids /\ pid_counter \in 1 .. MaxPid + 1 /\ MaxPid \in Nat
    BY InvParts DEF StoreInv
  <2>2. ASSUME NEW l \in Lines, shellmemory[l] # None
        PROVE  shellmemory[l].pid \in 1 .. pid_counter - 1 /\ shellmemory[l].no \in Nat \ {0}
    <3>1. l \div 3 \in Frame /\ l % 3 \in 0 .. 2 /\ l = 3 * (l \div 3) + (l % 3)
      BY FrameOf
    <3>2. ~Empty(shellmemory, l \div 3)
      BY <2>2, <3>1 DEF Empty
    <3>3. PICK p \in 1 .. pid_counter - 1 : \E n \in Pages(backing_store[p]) :
             Holds(shellmemory, l \div 3, p, backing_store[p], n)
      BY <2>1, <3>1, <3>2 DEF Whole
    <3>4. PICK n \in Pages(backing_store[p]) :
             Holds(shellmemory, l \div 3, p, backing_store[p], n)
      BY <3>3
    <3>5. shellmemory[l] = [pid |-> p, no |-> 3 * n + (l % 3) + 1]
      BY <2>2, <3>1, <3>4 DEF Holds
    <3>6. n \in Nat
      BY <2>1, Counts DEF Processes
    <3>7. 3 * n + (l % 3) + 1 \in Nat \ {0}
      BY <3>1, <3>6
    <3>8. QED
      BY <3>5, <3>7
  <2>3. age \in [Frame -> 0 .. currentAge]
    <3>1. age \in [Frame -> Nat] /\ currentAge \in Nat
      BY <2>1 DEF Shape
    <3>2. \A f \in Frame : age[f] <= currentAge
      BY <2>1 DEF Ages
    <3>3. QED
      BY <3>1, <3>2
  <2>4. ASSUME NEW p \in Pids, pcb[p] # None
        PROVE  /\ p < pid_counter /\ pcb[p].fp = backing_store[p]
               /\ pcb[p].PC \in Pages(pcb[p].fp) /\ pcb[p].offset \in 0 .. 2
               /\ \A i \in Pages(pcb[p].fp) :
                     pcb[p].valid_page[i] => pcb[p].page_table[i] \in Frame
    <3>1. p < pid_counter /\ Running(pcb[p], backing_store[p])
      BY <2>1, <2>4 DEF Processes
    <3>2. pcb[p].fp = backing_store[p]
      BY <3>1 DEF Running, PCB
    <3>3. QED
      BY <3>1, <3>2 DEF Running
  <2>5. /\ at \in {"shell", "admit", "second", "schedule", "turn"}
        /\ (cur \in Pids) <=> (at \in {"second", "turn"})
    BY <2>1 DEF CommandOK
  <2>6. QED
    BY <2>1, <2>2, <2>3, <2>4, <2>5 DEF TypeOK
<1>2. QED
  BY <1>1, Invariance, PTL

\* As long as no page was evicted, each process executes the lines of its
\* own file in their order.
THEOREM LinesInOrder == Spec => []InOrder
<1>1. KernelInv => InOrder
  BY DEF KernelInv, StoreInv
<1>2. QED
  BY <1>1, Invariance, PTL

\* A process ends when it has executed as many lines as line_count says.
THEOREM WholeScripts == Spec => []RunsAll
<1>1. KernelInv => RunsAll
  BY DEF KernelInv, StoreInv
<1>2. QED
  BY <1>1, Invariance, PTL

\* No process is lost from the ready queue, or in it twice.
THEOREM QueueIsSound == Spec => []QueueSound
<1>1. KernelInv => QueueSound
  BY DEF KernelInv
<1>2. QED
  BY <1>1, Invariance, PTL

\* Executing a line protects its page, for any frames and scripts: when no
\* frame is free, getOldest never names a frame whose last use was a line
\* that was executed after the last use of another frame.
THEOREM ReadPagesKept == Spec => []ReadPagesStay
<1>1. KernelInv => ReadPagesStay
  <2> SUFFICES ASSUME KernelInv, FreeFrames = {}, NEW f \in Frame
               PROVE  read[getOldest] <= used[f]
    BY DEF ReadPagesStay
  <2>1. Shape /\ Ages
    BY DEF KernelInv, StoreInv
  <2>2. age \in [Frame -> Nat] /\ used \in [Frame -> Nat] /\ read \in [Frame -> Nat]
    BY <2>1 DEF Shape
  <2> DEFINE g == getOldest
  <2>3. g \in Frame /\ age[g] <= age[f]
    BY <2>2, OldestFrame
  <2> HIDE DEF g
  <2>4. used[f] < read[g] => age[f] < age[g]
    BY <2>1, <2>3 DEF Ages
  <2>5. age[f] \in Nat /\ age[g] \in Nat /\ used[f] \in Nat /\ read[g] \in Nat
    BY <2>2, <2>3
  <2>6. read[g] <= used[f]
    BY <2>3, <2>4, <2>5
  <2>7. QED
    BY <2>6 DEF g
<1>2. QED
  BY <1>1, Invariance, PTL

=============================================================================

------------------------------ MODULE A2Kernel ------------------------------
(***************************************************************************)
(* The paging kernel of a2: kernel.c, pcb.c, the ready queue and the frame *)
(* store of shellmemory.c.  Unlike a3 it finds the victim of a page fault  *)
(* by ages, seeks in the backing store to the page it loads, and leaves    *)
(* pages in memory when their process ends.  Each page load and each       *)
(* executed line is one action.  The lines themselves are commands that    *)
(* leave the kernel alone: a line that runs run, exec or resetmem is not   *)
(* modelled.                                                               *)
(***************************************************************************)
EXTENDS Integers, SequencesExt, Functions

CONSTANTS Frames,       \* frames of three lines: FRAME_SIZE / 3
          Scripts,      \* the script files, see ScriptAssumption
          MaxScripts,   \* scripts per exec: 3 in interpreter.c
          MaxPid,       \* bound on pid_counter, which is unbounded
          None          \* the string "none"; NULL; the name of no file

\* A script has so many lines, and may end with a newline.
ASSUME ScriptAssumption ==
    \A s \in Scripts : s.lines \in Nat \ {0} /\ s.newline \in BOOLEAN

ASSUME A2Assumption == Frames \in Nat \ {0} /\ MaxScripts \in Nat /\ MaxPid \in Nat

Pids  == 1 .. MaxPid
Frame == 0 .. Frames - 1
Lines == 0 .. 3 * Frames - 1

VARIABLES shellmemory,  \* the frame store: a line of a process's file, or None
          age,          \* age of the first line of each frame
          currentAge,
          pcb,          \* PCBs by pid; None before and after the process
          backing_store,\* the copied script of each process, kept until quit
          queue,        \* ready queue, pids from head to tail
          pid_counter,
          at,           \* where the shell is, and its local variables:
          todo,         \*   scripts run or exec has still to admit
          policy,       \*   "FCFS" or "RR"
          cur,          \*   the process being admitted, or in its turn
          left,         \*   lines left of the turn
          ran,          \* history: what each process has executed
          uses,         \* history: page loads and executed lines so far
          used,         \* history: the last of them in each frame
          read,         \* history: the same, if it was a line
          evicted       \* history: a page was evicted

memory == <<shellmemory, age, currentAge, uses, used, read, evicted>>
files  == <<backing_store, pid_counter>>
turn   == <<cur, left>>
shell  == <<at, todo, policy, turn>>
vars   == <<memory, pcb, files, queue, shell, ran>>

\* mem_init
Init == /\ shellmemory = [l \in Lines |-> None]
        /\ age = [f \in Frame |-> 0] /\ currentAge = 0
        /\ pcb = [p \in Pids |-> None] /\ backing_store = [p \in Pids |-> None]
        /\ queue = <<>> /\ pid_counter = 1
        /\ at = "shell" /\ todo = <<>> /\ policy = "RR"
        /\ cur = None /\ left = 0
        /\ ran = [p \in Pids |-> <<>>]
        /\ uses = 0 /\ used = [f \in Frame |-> 0] /\ read = [f \in Frame |-> 0]
        /\ evicted = FALSE

----------------------------------------------------------------------------
(* process_initialize and makePCB.                                         *)

\* The newlines plus one, also when a newline ends the last line.
line_count(s) == IF s.newline THEN s.lines + 1 ELSE s.lines

page_count(s) == (line_count(s) + 2) \div 3
offset_end(s) == IF line_count(s) % 3 = 0 THEN 3 ELSE line_count(s) % 3

Pages(s) == 0 .. page_count(s) - 1

\* The PCBs that a process of script s may have.
PCB(s) == [fp : {s}, PC : Nat, offset : Nat,
           page_table : [Pages(s) -> Frame \cup {None}],
           valid_page : [Pages(s) -> BOOLEAN]]

\* None is no script, no number, no line of a file and no PCB.
ASSUME NoneAssumption ==
    /\ None \notin Scripts /\ None \notin Nat /\ None \notin [pid : Nat, no : Nat]
    /\ \A s \in Scripts : None \notin PCB(s)

makePCB(s) == [fp |-> s, PC |-> 0, offset |-> 0,
               page_table |-> [i \in Pages(s) |-> None],
               valid_page |-> [i \in Pages(s) |-> FALSE]]

----------------------------------------------------------------------------
(* ready_queue.c                                                           *)

ready_queue_add_to_tail(p) == queue' = Append(queue, p)
ready_queue_pop_head       == cur' = Head(queue) /\ queue' = Tail(queue)

----------------------------------------------------------------------------
(* shellmemory.c                                                           *)

FreeFrames == {f \in Frame : shellmemory[3 * f] = None}

\* The first frame with the lowest age.
getOldest == CHOOSE f \in Frame :
    \A h \in Frame : age[f] < age[h] \/ (age[f] = age[h] /\ f <= h)

\* A bug: the last line of the victim is kept.
mem_free_lines_between_short(f) ==
    [l \in Lines |-> IF l \div 3 = f /\ l % 3 < 2 THEN None ELSE shellmemory[l]]

\* The lines of frame f are set to "none".  (replace_page stops at the last
\* line that is not, which comes to the same.)
mem_free_lines_between(f) ==
    [l \in Lines |-> IF l \div 3 = f THEN None ELSE shellmemory[l]]

\* Page n of the file of process p goes to frame f of the store m.  A line
\* the file does not have leaves its place as it is.
copy_to_mem(m, p, file, n, f) ==
    [l \in Lines |-> IF l \div 3 = f /\ 3 * n + (l % 3) < file.lines
                     THEN [pid |-> p, no |-> 3 * n + (l % 3) + 1] ELSE m[l]]

\* find_process, and process p itself: who has the line, by its file name.
find_process(line, p) ==
    {q \in ToSet(queue) \cup {p} : line # None /\ line.pid = q}

\* The first page of P that is in frame f is not valid any more.
Invalidated(P, f) == [P EXCEPT !.valid_page =
    [i \in DOMAIN @ |-> @[i] /\ ~(P.page_table[i] = f
                                  /\ \A j \in 0 .. i - 1 : P.page_table[j] # f)]]

Loaded(P, n, f) == [P EXCEPT !.page_table[n] = f, !.valid_page[n] = TRUE]

(***************************************************************************)
(* replace_page for page n of process p, with PCB P.  The page read from   *)
(* the file is the PC of the process, which load_file sets for the call.   *)
(* The victim's lines are freed before its owner is looked up by the name  *)
(* that was in them.                                                       *)
(***************************************************************************)
replace_pageIn(p, P, n, PC, f, full, freed) ==
    /\ shellmemory' = copy_to_mem(freed, p, P.fp, PC, f)
    /\ age' = [age EXCEPT ![f] = currentAge]
    /\ pcb' = [q \in Pids |->
         IF q = p
         THEN Loaded(IF full /\ p \in find_process(freed[3 * f], p)
                     THEN Invalidated(P, f) ELSE P, n, f)
         ELSE IF full /\ q \in find_process(freed[3 * f], p)
              THEN Invalidated(pcb[q], f) ELSE pcb[q]]
    /\ uses' = uses + 1
    /\ used' = [used EXCEPT ![f] = uses'] /\ read' = [read EXCEPT ![f] = 0]
    /\ evicted' = (evicted \/ full)
    /\ UNCHANGED currentAge

replace_page(p, P, n, PC) ==
    \/ /\ FreeFrames # {}
       /\ replace_pageIn(p, P, n, PC, Min(FreeFrames), FALSE, shellmemory)
    \/ /\ FreeFrames = {}
       /\ replace_pageIn(p, P, n, PC, getOldest, TRUE, mem_free_lines_between(getOldest))

\* A bug: reading a line does not make its frame younger.
mem_get_value_at_line_stale(l) ==
    /\ currentAge' = currentAge + 3
    /\ uses' = uses + 1
    /\ used' = [used EXCEPT ![l \div 3] = uses'] /\ read' = [read EXCEPT ![l \div 3] = uses']
    /\ ran' = [ran EXCEPT ![cur] = Append(@, shellmemory[l])]
    /\ UNCHANGED <<shellmemory, evicted, age>>

\* The age of a line that is read, and what is in it.
mem_get_value_at_line(l) ==
    /\ age' = [age EXCEPT ![l \div 3] = currentAge + 1]
    /\ currentAge' = currentAge + 3
    /\ uses' = uses + 1
    /\ used' = [used EXCEPT ![l \div 3] = uses'] /\ read' = [read EXCEPT ![l \div 3] = uses']
    /\ ran' = [ran EXCEPT ![cur] = Append(@, shellmemory[l])]
    /\ UNCHANGED <<shellmemory, evicted>>

----------------------------------------------------------------------------
(* interpreter.c: the commands.                                            *)

Command(names, p) ==
    /\ at = "shell"
    /\ pid_counter + Cardinality({k \in DOMAIN names : names[k] # None}) <= MaxPid + 1
    /\ at' = "admit" /\ todo' = names /\ policy' = p
    /\ UNCHANGED <<memory, pcb, files, queue, turn, ran>>

\* exec and run with the names they are given; None is a missing file.
exec == \E names \in SeqOf(Scripts \cup {None}, MaxScripts) :
            names # <<>> /\ Command(names, "RR")

run == \E s \in Scripts \cup {None} : Command(<<s>>, "FCFS")

\* resetmem, with nobody in the ready queue: currentAge is kept.
resetmem ==
    /\ at = "shell" /\ queue = <<>>
    /\ shellmemory' = [l \in Lines |-> None]
    /\ age' = [f \in Frame |-> 0]
    /\ used' = [f \in Frame |-> 0] /\ read' = [f \in Frame |-> 0]
    /\ UNCHANGED <<currentAge, uses, evicted, pcb, files, queue, shell, ran>>

\* process_initialize fails: exec returns with the earlier scripts still in
\* the queue; run tests for another code, so it goes on to schedule them.
Missing ==
    /\ at = "admit" /\ todo # <<>> /\ Head(todo) = None
    /\ todo' = <<>>
    /\ at' = IF policy = "RR" THEN "shell" ELSE "schedule"
    /\ UNCHANGED <<memory, pcb, files, queue, policy, turn, ran>>

\* process_initialize up to the load of page 0.
process_initialize ==
    /\ at = "admit" /\ todo # <<>> /\ Head(todo) # None
    /\ \E s \in {Head(todo)} : \E p \in {pid_counter} :
          /\ backing_store' = [backing_store EXCEPT ![p] = s]
          /\ pid_counter' = p + 1
          /\ replace_page(p, makePCB(s), 0, 0)
          /\ cur' = p
    /\ todo' = Tail(todo) /\ at' = "second"
    /\ UNCHANGED <<queue, policy, left, ran>>

\* A bug: load_file leaves PC at 0 for the second page.
load_file_PC0(p) == replace_page(p, pcb[p], 1, 0)

\* load_file, page 1, with PC = 1 for the time of the call.
load_file(p) == replace_page(p, pcb[p], 1, 1)

\* The rest of process_initialize: page 1 if there is one, and the queue.
Admitted ==
    /\ at = "second"
    /\ IF page_count(pcb[cur].fp) > 1
       THEN load_file(cur)
       ELSE UNCHANGED <<memory, pcb>>
    /\ ready_queue_add_to_tail(cur)
    /\ at' = "admit" /\ cur' = None
    /\ UNCHANGED <<files, todo, policy, left, ran>>

\* schedule_by_policy, when the last script is in.
schedule_by_policy ==
    /\ at = "admit" /\ todo = <<>>
    /\ at' = "schedule"
    /\ UNCHANGED <<memory, pcb, files, queue, todo, policy, turn, ran>>

----------------------------------------------------------------------------
(* kernel.c: scheduler_RR and scheduler_FCFS, and execute_process.         *)

MAX_INT == 2147483646

\* The head of the queue gets its turn: of two lines, or to the end.
Dispatch ==
    /\ at = "schedule" /\ queue # <<>>
    /\ ready_queue_pop_head
    /\ left' = IF policy = "RR" THEN 2 ELSE MAX_INT
    /\ at' = "turn"
    /\ UNCHANGED <<memory, pcb, files, todo, policy, ran>>

\* The queue is empty: the scheduler returns, and the command.
Return ==
    /\ at = "schedule" /\ queue = <<>>
    /\ at' = "shell"
    /\ UNCHANGED <<memory, pcb, files, queue, todo, policy, turn, ran>>

TurnEnds == at' = "schedule" /\ cur' = None /\ left' = 0

\* A bug: RR adds the process again after a page fault.
PageFault_twice ==
    /\ at = "turn" /\ left > 0
    /\ ~pcb[cur].valid_page[pcb[cur].PC]
    /\ replace_page(cur, pcb[cur], pcb[cur].PC, pcb[cur].PC)
    /\ queue' = queue \o <<cur, cur>>
    /\ TurnEnds
    /\ UNCHANGED <<files, todo, policy, ran>>

\* A bug: the process is put back and its page is not loaded.
PageFault_unloaded ==
    /\ at = "turn" /\ left > 0
    /\ ~pcb[cur].valid_page[pcb[cur].PC]
    /\ ready_queue_add_to_tail(cur)
    /\ TurnEnds
    /\ UNCHANGED <<memory, pcb, files, todo, policy, ran>>

\* execute_process on a page that is not valid.
PageFault ==
    /\ at = "turn" /\ left > 0
    /\ ~pcb[cur].valid_page[pcb[cur].PC]
    /\ replace_page(cur, pcb[cur], pcb[cur].PC, pcb[cur].PC)
    /\ ready_queue_add_to_tail(cur)
    /\ TurnEnds
    /\ UNCHANGED <<files, todo, policy, ran>>

\* A bug: the end is looked for on every page.
AtEnd_anyPage(P) == P.offset + 1 = offset_end(P.fp)

\* This line is the last one of the last page.
AtEnd(P) == P.PC = page_count(P.fp) - 1 /\ P.offset + 1 = offset_end(P.fp)

\* A bug: the offset is not reset on the next page.
Advanced_noReset(P) ==
    IF P.offset + 1 = 3 THEN [P EXCEPT !.offset = 3, !.PC = @ + 1]
                        ELSE [P EXCEPT !.offset = @ + 1]

Advanced(P) == IF P.offset + 1 = 3 THEN [P EXCEPT !.offset = 0, !.PC = @ + 1]
                                   ELSE [P EXCEPT !.offset = @ + 1]

ReadLine ==
    /\ at = "turn" /\ left > 0
    /\ pcb[cur].valid_page[pcb[cur].PC]
    /\ mem_get_value_at_line(3 * pcb[cur].page_table[pcb[cur].PC] + pcb[cur].offset)

\* execute_process on a line that is not the last.
ExecuteLine ==
    /\ ReadLine /\ ~AtEnd(pcb[cur])
    /\ pcb' = [pcb EXCEPT ![cur] = Advanced(@)]
    /\ left' = left - 1
    /\ UNCHANGED <<files, queue, at, todo, policy, cur>>

\* ... and on the last line, with terminate_process: the frames stay.
terminate_process ==
    /\ ReadLine /\ AtEnd(pcb[cur])
    /\ pcb' = [pcb EXCEPT ![cur] = None]
    /\ TurnEnds
    /\ UNCHANGED <<files, queue, todo, policy>>

\* The quantum is over, which happens under RR only: MAX_INT lines are more
\* than a script has.
Quantum ==
    /\ at = "turn" /\ left = 0
    /\ ready_queue_add_to_tail(cur)
    /\ TurnEnds
    /\ UNCHANGED <<memory, pcb, files, todo, policy, ran>>

----------------------------------------------------------------------------
Kernel == \/ Missing \/ process_initialize \/ Admitted \/ schedule_by_policy
          \/ Dispatch \/ PageFault \/ ExecuteLine \/ terminate_process
          \/ Quantum \/ Return

Next == exec \/ run \/ resetmem \/ Kernel

\* The shell is one thread that runs its command to the end; it is not
\* obliged to get another one.
Spec == Init /\ [][Next]_vars /\ WF_vars(Kernel)

----------------------------------------------------------------------------
(* Properties.                                                             *)

\* A process has a page of its own to execute: PC is one of its pages, and
\* offset a line of a page, also right after a page ends.
TypeOK ==
    /\ \A l \in Lines : shellmemory[l] # None =>
          shellmemory[l].pid \in 1 .. pid_counter - 1 /\ shellmemory[l].no \in Nat \ {0}
    /\ age \in [Frame -> 0 .. currentAge]
    /\ \A p \in Pids : pcb[p] # None =>
          /\ p < pid_counter /\ pcb[p].fp = backing_store[p]
          /\ pcb[p].PC \in Pages(pcb[p].fp) /\ pcb[p].offset \in 0 .. 2
          /\ \A i \in Pages(pcb[p].fp) :
                pcb[p].valid_page[i] => pcb[p].page_table[i] \in Frame
    /\ pid_counter \in 1 .. MaxPid + 1
    /\ at \in {"shell", "admit", "second", "schedule", "turn"}
    /\ (cur \in Pids) <=> (at \in {"second", "turn"})

\* As long as no page was evicted, each process executes the lines of its
\* own file, in their order, each once: pages loaded for it at admission and
\* at its faults are the right ones, at the right time (kernel.c:84-119,
\* shellmemory.c:204-269).
InOrder ==
    ~evicted => \A p \in 1 .. pid_counter - 1 :
        \A k \in DOMAIN ran[p] : k <= backing_store[p].lines =>
            ran[p][k] = [pid |-> p, no |-> k]

\* A process ends when it has executed as many lines as were counted at its
\* admission, whatever was in the frames (kernel.c:98).
RunsAll ==
    \A p \in 1 .. pid_counter - 1 :
        IF pcb[p] = None THEN Len(ran[p]) = line_count(backing_store[p])
                         ELSE Len(ran[p]) = 3 * pcb[p].PC + pcb[p].offset

\* A frame holds one page of one file and no line of another, whatever was
\* in it before and however short the page is (shellmemory.c:174-187, 288).
FrameWhole ==
    \A f \in Frame :
        \/ \A l \in 3 * f .. 3 * f + 2 : shellmemory[l] = None
        \/ \E p \in 1 .. pid_counter - 1 : \E n \in Pages(backing_store[p]) :
              \A l \in 3 * f .. 3 * f + 2 : \E no \in {3 * n + (l % 3) + 1} :
                shellmemory[l] = IF no <= backing_store[p].lines
                                 THEN [pid |-> p, no |-> no] ELSE None

\* A process that has been admitted and has not ended is in the ready queue
\* once or in its turn, and nothing else is: a page fault and the end of a
\* quantum both put it back, and only one of them does (kernel.c:89-93,
\* 196-198).
QueueSound ==
    /\ IsInjective(queue) /\ cur \notin ToSet(queue)
    /\ ToSet(queue) \cup ({cur} \ {None}) = {p \in Pids : pcb[p] # None}

\* Executing a line of a page protects it: if the frame that has to go was
\* last used by a line, every other frame was used since (mem_get_value_at_line
\* and getOldest, shellmemory.c:42-52, 271-285).  It says nothing of a victim
\* that was loaded and not executed from, see EvictsLeastRecent.
ReadPagesStay ==
    FreeFrames = {} => \A f \in Frame : read[getOldest] <= used[f]

\* "Each time a page is created or accessed it gets younger" and "the least
\* recently used page is kicked out" (shellmemory.c:15, 196): when a page is
\* loaded into a full store, no other frame was used before the one it takes.
Evicts(f) == FreeFrames = {} /\ uses' # uses /\ used'[f] = uses' /\ read'[f] = 0

EvictsLeastRecent ==
    [][\A f, h \in Frame : Evicts(f) => used[f] <= used[h]]_vars

\* Every command returns to the shell: no page fault repeats for ever.
ExecReturns == (at # "shell") ~> (at = "shell")

\* "Find the corresponding PCB and change its valid bit to false": a page
\* that is valid is in its frame.
ValidPages ==
    \A p \in Pids : pcb[p] # None => \A i \in Pages(pcb[p].fp) :
        pcb[p].valid_page[i] =>
            shellmemory[3 * pcb[p].page_table[i]] = [pid |-> p, no |-> 3 * i + 1]

=============================================================================

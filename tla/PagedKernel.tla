---------------------------- MODULE PagedKernel ----------------------------
(***************************************************************************)
(* The demand-paging kernel of a3: kernel.c, pcb.c, cpu.c, the frame and   *)
(* variable stores of shellmemory.c and the lists of linked_list.c.  A     *)
(* script is a process of three-line pages; at most two pages are loaded   *)
(* when it is admitted, the others on a page fault, into the frame of the  *)
(* least recently used page when no frame is free.  Each call of new_proc  *)
(* and run_proc is one action, so that the properties hold between any two *)
(* lines of any two scripts.                                               *)
(***************************************************************************)
EXTENDS Naturals, Sequences, FiniteSets

CONSTANTS FRAME_STORE_SIZE,     \* lines of memory reserved for frames
          VAR_STORE_SIZE,       \* lines of memory reserved for variables
          Scripts,              \* the script files: see Script
          Typed,                \* commands given at the prompt
          MaxScripts,           \* scripts per exec: 3 in interpreter.c
          MaxPid,               \* bound on PID_counter, which is unbounded
          None                  \* the string "none": a free line

ASSUME StoreAssumption == FRAME_STORE_SIZE \in Nat /\ VAR_STORE_SIZE \in Nat
ASSUME PidAssumption == MaxPid \in Nat \ {0} /\ MaxScripts \in Nat \ {0}

\* The owner of a line that is in use is a pid or a name other than "none".
ASSUME NoneAssumption == None \notin Nat

(***************************************************************************)
(* A script file has the lines fgets delivers, and may or may not end with *)
(* a newline.  A line is a command, abstracted to what it does to the      *)
(* kernel: "set" and "resetmem" change variables, "rm" and others make the *)
(* interpreter return 1, "blank" is an empty line, "echo" stands for the   *)
(* rest.  Commands that run scripts themselves are not used in scripts.    *)
(***************************************************************************)
ASSUME ScriptAssumption ==
    \A s \in Scripts : /\ DOMAIN s = {"line", "newline"}
                       /\ s.line \in Seq({s.line[k] : k \in DOMAIN s.line}) \ {<<>>}

Pids  == 1 .. MaxPid
Mem   == 0 .. FRAME_STORE_SIZE + VAR_STORE_SIZE - 1
Frame == 0 .. FRAME_STORE_SIZE - 1      \* below FRAME_VAR_BORDER
VarZone == Mem \ Frame
Never == 1000                           \* the index PAGE_init gives

VARIABLES mem,          \* shellmemory: [var, value] per line
          pcb,          \* the PCBs, by pid; None when not allocated
          QUEUE,        \* ready queue, pids from head to tail
          LRU_CACHE,    \* pages <<pid, page_index>>, most recent first
          ALL_PCB,      \* every admitted pid
          PID_counter,
          at,           \* where the shell is, and its local variables:
          todo,         \*   scripts exec has still to admit
          curr,         \*   process in the middle of its turn
          ran           \* history: the lines each process has executed

lists == <<QUEUE, LRU_CACHE, ALL_PCB>>
vars == <<mem, pcb, QUEUE, LRU_CACHE, ALL_PCB, PID_counter, at, todo, curr, ran>>

FreeLine == [var |-> None, value |-> None]

\* mem_init and kernel_setup
Init == /\ mem = [l \in Mem |-> FreeLine]
        /\ pcb = [p \in Pids |-> None]
        /\ QUEUE = <<>> /\ LRU_CACHE = <<>> /\ ALL_PCB = <<>>
        /\ PID_counter = 1
        /\ at = "shell" /\ todo = <<>> /\ curr = None
        /\ ran = [p \in Pids |-> <<>>]

----------------------------------------------------------------------------
(* shellmemory.c, as functions of the memory m.                            *)

\* mem_free_at for every line of a set
mem_free_at(m, lines) == [l \in Mem |-> IF l \in lines THEN FreeLine ELSE m[l]]

FirstOf(S) == CHOOSE i \in S : \A j \in S : i <= j

\* frame_alloc takes the first place with three free lines: the set of that
\* place, empty when it fails.
FreePlaces(m) == {i \in Frame : \A l \in i .. i + 2 : l \in Frame /\ m[l].var = None}

frame_alloc(m) == {i \in FreePlaces(m) : \A j \in FreePlaces(m) : i <= j}

\* mem_set_value: an existing variable, else the first free line, else nothing.
mem_set_value(m, x, v) ==
    LET known == {l \in VarZone : m[l].var = x}
        free  == {l \in VarZone : m[l].var = None}
    IN  CASE known # {} -> [m EXCEPT ![FirstOf(known)].value = v]
          [] known = {} /\ free # {} ->
                [m EXCEPT ![FirstOf(free)] = [var |-> x, value |-> v]]
          [] OTHER -> m

\* What the interpreter does to the memory for a command.
interpreter(m, c) ==
    CASE c.op = "set"      -> mem_set_value(m, c.var, c.val)
      [] c.op = "resetmem" -> mem_free_at(m, VarZone)
      [] OTHER             -> m

\* Commands for which parseInput returns 1: a successful rm, a full read.
Returns1(c) == c.op = "rm"

----------------------------------------------------------------------------
(* pcb.c                                                                   *)

\* Newlines that follow something else than a newline, plus one.
count_lines(s) ==
    1 + Cardinality({i \in 1 .. Len(s.line) : /\ s.line[i].op # "blank"
                                              /\ i < Len(s.line) \/ s.newline})

PAGE_table_size(lines) == IF lines % 3 = 0 THEN lines \div 3 ELSE lines \div 3 + 1

PAGE_init == [index |-> [j \in 0 .. 2 |-> Never], valid |-> [j \in 0 .. 2 |-> FALSE]]

NewPCB(s) ==
    LET n == PAGE_table_size(count_lines(s))
    IN  [size |-> count_lines(s),
         program_counter |-> [i \in 0 .. n - 1 |-> 0],
         page_table |-> [i \in 0 .. n - 1 |-> PAGE_init],
         source_file |-> s,
         pos |-> 0]                     \* lines read from source_file

Pages(P) == DOMAIN P.page_table

\* Lines that a page's three fgets calls deliver: fewer at the end of file.
Fetched(P, j) == P.pos + j < Len(P.source_file.line)

(***************************************************************************)
(* load_PAGE, also the body of PCB_init's loop: page i of P gets the frame *)
(* at f and the next lines of the file, whatever page they belong to.      *)
(***************************************************************************)
LoadedLine(m, pid, P, f, j) ==
    [var |-> pid, value |-> IF Fetched(P, j) THEN P.source_file.line[P.pos + j + 1]
                            ELSE m[f + j].value]

LoadedMem(m, pid, P, f) ==
    [m EXCEPT ![f]     = LoadedLine(m, pid, P, f, 0),
              ![f + 1] = LoadedLine(m, pid, P, f, 1),
              ![f + 2] = LoadedLine(m, pid, P, f, 2)]

\* A bug: the file position is not kept between pages.
LoadedPCB_rewind(P, i, f) ==
    [P EXCEPT !.page_table[i] = [index |-> [j \in 0 .. 2 |-> f + j],
                                 valid |-> [j \in 0 .. 2 |-> Fetched(P, j)]]]

LoadedPCB(P, i, f) ==
    [P EXCEPT !.page_table[i] = [index |-> [j \in 0 .. 2 |-> f + j],
                                 valid |-> [j \in 0 .. 2 |-> Fetched(P, j)]],
              !.pos = IF Fetched(P, 2) THEN @ + 3 ELSE Len(P.source_file.line)]

\* The lines a page's index array names, as far as they are in memory.
IndexLines(pg) == {pg.index[j] : j \in 0 .. 2} \cap Mem

\* PAGE_evict
EvictedPCB(P, i) ==
    [P EXCEPT !.page_table[i] = [index |-> [j \in 0 .. 2 |-> 0],
                                 valid |-> [j \in 0 .. 2 |-> FALSE]]]

EvictedMem(m, P, i) == mem_free_at(m, IndexLines(P.page_table[i]))

\* A bug: one line of each page is cleared.
free_PCB_short(P) == {P.page_table[i].index[0] : i \in Pages(P)}

\* free_PCB: clear_frame, which clears three lines, for each index of a page.
free_PCB(P) ==
    UNION {P.page_table[i].index[j] .. P.page_table[i].index[j] + 2 :
             i \in Pages(P), j \in 0 .. 2}

PCB_done(P) == \A i \in Pages(P) : P.program_counter[i] = 3

----------------------------------------------------------------------------
(* kernel.c                                                                *)

\* The page RR runs: the first whose three lines are not behind it.
CurrentPage(P) == FirstOf({i \in Pages(P) : P.program_counter[i] # 3})

Resident(Ps, pg) == Ps[pg[1]].page_table[pg[2]]

\* PAGE_equal: the pages of the LRU list in the same frame as page pg.
SameFrame(pg) == {k \in DOMAIN LRU_CACHE :
                    Resident(pcb, LRU_CACHE[k]).index[0] = Resident(pcb, pg).index[0]}

Without(s, k) == SubSeq(s, 1, k - 1) \o SubSeq(s, k + 1, Len(s))

\* A bug: the size is decremented twice.
Advanced_twice(P) == [P EXCEPT !.program_counter[CurrentPage(P)] = @ + 1, !.size = @ - 2]

\* The process after cpu_run executed the line at the program counter.
Advanced(P) == [P EXCEPT !.program_counter[CurrentPage(P)] = @ + 1, !.size = @ - 1]

\* load_PAGE for page i of pid, from memory m and processes Ps.
load_PAGE(m, Ps, pid, i) ==
    IF frame_alloc(m) = {}
    THEN mem' = m /\ pcb' = Ps
    ELSE \E f \in frame_alloc(m) :
           /\ mem' = LoadedMem(m, pid, Ps[pid], f)
           /\ pcb' = [Ps EXCEPT ![pid] = LoadedPCB(@, i, f)]

\* A bug: the page that was used last is evicted.
VictimAt_newest == 1

\* The place of pop_tail in the LRU list.
VictimAt == Len(LRU_CACHE)

\* A bug: the faulting process is not queued again.
PageFault_dropped(m, Ps, pid, i, q) ==
    /\ frame_alloc(m) # {}
    /\ load_PAGE(m, Ps, pid, i)
    /\ LRU_CACHE' = <<<<pid, i>>>> \o LRU_CACHE
    /\ QUEUE' = q
    /\ at' = "sched"
    /\ curr' = None

(***************************************************************************)
(* The page-fault half of run_proc, with the queue q it appends to.  The   *)
(* LRU list is never empty here: pop_tail would exit.                      *)
(***************************************************************************)
PageFault(m, Ps, pid, i, q) ==
    /\ \/ /\ frame_alloc(m) # {}
          /\ load_PAGE(m, Ps, pid, i)
          /\ LRU_CACHE' = <<<<pid, i>>>> \o LRU_CACHE
       \/ /\ frame_alloc(m) = {}
          /\ LRU_CACHE # <<>>
          /\ LET victim == LRU_CACHE[VictimAt]
             IN  /\ load_PAGE(EvictedMem(m, Ps[victim[1]], victim[2]),
                              [Ps EXCEPT ![victim[1]] = EvictedPCB(@, victim[2])],
                              pid, i)
                 /\ LRU_CACHE' = <<<<pid, i>>>> \o Without(LRU_CACHE, VictimAt)
    /\ QUEUE' = Append(q, pid)
    /\ at' = "sched"
    /\ curr' = None

\* The other half: remove_elem finds the page by its frame, add_head puts what
\* it found in front.  A page that is not listed makes it follow a wild pointer.
Touch(pg) ==
    IF SameFrame(pg) = {} THEN LRU_CACHE' = LRU_CACHE
    ELSE LET k == FirstOf(SameFrame(pg))
         IN  LRU_CACHE' = <<LRU_CACHE[k]>> \o Without(LRU_CACHE, k)

(***************************************************************************)
(* run_proc of pid, not in queue q.  cpu_run executes a valid line; it     *)
(* faults when the line is not valid, and also when the executed command   *)
(* returns 1.  Otherwise the caller goes on at next with queue okq.        *)
(***************************************************************************)
run_proc(pid, q, okq, next) ==
    LET P     == pcb[pid]
        i     == CurrentPage(P)
        j     == P.program_counter[i]
        valid == P.page_table[i].valid[j]
        found == IF valid THEN mem[P.page_table[i].index[j]].value ELSE None
        c     == IF found = None THEN [op |-> "none"] ELSE found
        fault == ~valid \/ Returns1(c)
        m     == IF valid THEN interpreter(mem, c) ELSE mem
        Ps    == IF valid THEN [pcb EXCEPT ![pid] = Advanced(P)] ELSE pcb
    IN  /\ ran' = IF valid THEN [ran EXCEPT ![pid] = Append(@, found)] ELSE ran
        /\ \/ fault /\ PageFault(m, Ps, pid, i, q)
           \/ /\ ~fault
              /\ mem' = m
              /\ pcb' = Ps
              /\ Touch(<<pid, i>>)
              /\ at' = IF SameFrame(<<pid, i>>) = {} THEN "exit" ELSE next
              /\ QUEUE' = okq
              /\ curr' = IF next = "second" THEN pid ELSE None
        /\ UNCHANGED <<ALL_PCB, PID_counter, todo>>

queue_done == \A k \in DOMAIN QUEUE : PCB_done(pcb[QUEUE[k]])

\* The three ways a turn of run_proc_RR begins, and the second line of a turn.
RunFirst == /\ at = "sched" /\ ~queue_done /\ pcb[Head(QUEUE)].size > 1
            /\ run_proc(Head(QUEUE), Tail(QUEUE), Tail(QUEUE), "second")

\* A bug: the process keeps the head of the queue after its turn.
RunSecond_head == /\ at = "second"
                  /\ run_proc(curr, QUEUE, <<curr>> \o QUEUE, "sched")

RunSecond == /\ at = "second"
             /\ run_proc(curr, QUEUE, Append(QUEUE, curr), "sched")

RunLast == /\ at = "sched" /\ ~queue_done /\ pcb[Head(QUEUE)].size = 1
           /\ run_proc(Head(QUEUE), Tail(QUEUE), Tail(QUEUE), "sched")

\* A bug: a process without lines goes back to the queue.
Drop_requeue == /\ at = "sched" /\ ~queue_done /\ pcb[Head(QUEUE)].size = 0
                /\ QUEUE' = Append(Tail(QUEUE), Head(QUEUE))
                /\ UNCHANGED <<mem, pcb, LRU_CACHE, ALL_PCB, PID_counter, at, todo, curr, ran>>

Drop == /\ at = "sched" /\ ~queue_done /\ pcb[Head(QUEUE)].size = 0
        /\ QUEUE' = Tail(QUEUE)
        /\ UNCHANGED <<mem, pcb, LRU_CACHE, ALL_PCB, PID_counter, at, todo, curr, ran>>

\* The end of run_proc_RR: every PCB is freed, the lists are cleared.
Finish ==
    /\ at = "sched" /\ queue_done
    /\ mem' = mem_free_at(mem, UNION {free_PCB(pcb[ALL_PCB[k]]) : k \in DOMAIN ALL_PCB})
    /\ pcb' = [p \in Pids |-> None]
    /\ QUEUE' = <<>> /\ LRU_CACHE' = <<>> /\ ALL_PCB' = <<>>
    /\ ran' = [p \in Pids |-> <<>>]
    /\ at' = "shell"
    /\ UNCHANGED <<PID_counter, todo, curr>>

(***************************************************************************)
(* new_proc and PCB_init: at most two pages are loaded, and the shell      *)
(* exits when there is no frame for one of them.                           *)
(***************************************************************************)
Admit(m, pid, P, pages) ==
    /\ mem' = m
    /\ pcb' = [pcb EXCEPT ![pid] = P]
    /\ ALL_PCB' = Append(ALL_PCB, pid)
    /\ QUEUE' = Append(QUEUE, pid)
    /\ LRU_CACHE' = [k \in 1 .. pages |-> <<pid, pages - k>>] \o LRU_CACHE
    /\ todo' = Tail(todo)
    /\ at' = IF Len(todo) = 1 THEN "sched" ELSE "admit"

FrameAllocFailed == /\ at' = "exit"
                    /\ UNCHANGED <<mem, pcb, lists, todo>>

\* The second page, after the first was loaded: P and m are as it left them.
LoadSecond(m, pid, P) ==
    \/ frame_alloc(m) = {} /\ FrameAllocFailed
    \/ \E f \in frame_alloc(m) :
          Admit(LoadedMem(m, pid, P, f), pid, LoadedPCB(P, 1, f), 2)

\* The bound m and P are the values after the first page (\E over one value
\* makes TLC compute them once).
new_proc ==
    LET pid == PID_counter
    IN  /\ at = "admit"
        /\ PID_counter' = PID_counter + 1
        /\ \/ frame_alloc(mem) = {} /\ FrameAllocFailed
           \/ \E P0 \in {NewPCB(Head(todo))}, f \in frame_alloc(mem) :
              \E m \in {LoadedMem(mem, pid, P0, f)}, P \in {LoadedPCB(P0, 0, f)} :
                 \/ Pages(P) = {0} /\ Admit(m, pid, P, 1)
                 \/ Pages(P) # {0} /\ LoadSecond(m, pid, P)
        /\ UNCHANGED <<curr, ran>>

----------------------------------------------------------------------------
(* The prompt: interpreter.c and shell.c as far as they use the kernel.    *)

\* run is exec of one script.
exec(scripts) ==
    /\ at = "shell"
    /\ PID_counter + Len(scripts) - 1 <= MaxPid
    /\ todo' = scripts
    /\ at' = "admit"
    /\ UNCHANGED <<mem, pcb, lists, PID_counter, curr, ran>>

Type(c) == /\ at = "shell"
           /\ mem' = interpreter(mem, c)
           /\ UNCHANGED <<pcb, lists, PID_counter, at, todo, curr, ran>>

quit == /\ at = "shell"
        /\ at' = "exit"
        /\ UNCHANGED <<mem, pcb, lists, PID_counter, todo, curr, ran>>

\* The shell is started again after it ended: static storage is new.
Restart == /\ at = "exit"
           /\ mem' = [l \in Mem |-> FreeLine]
           /\ pcb' = [p \in Pids |-> None]
           /\ QUEUE' = <<>> /\ LRU_CACHE' = <<>> /\ ALL_PCB' = <<>>
           /\ PID_counter' = 1
           /\ at' = "shell" /\ todo' = <<>> /\ curr' = None
           /\ ran' = [p \in Pids |-> <<>>]

Kernel == new_proc \/ RunFirst \/ RunSecond \/ RunLast \/ Drop \/ Finish

Next == \/ \E n \in 1 .. MaxScripts : \E scripts \in [1 .. n -> Scripts] : exec(scripts)
        \/ \E c \in Typed : Type(c)
        \/ quit
        \/ Restart
        \/ Kernel

(***************************************************************************)
(* exec runs in the shell's only thread: once it began, its loop goes on.  *)
(***************************************************************************)
Spec == Init /\ [][Next]_vars /\ WF_vars(Kernel)

----------------------------------------------------------------------------
Admitted == {ALL_PCB[k] : k \in DOMAIN ALL_PCB}
Waiting  == {QUEUE[k] : k \in DOMAIN QUEUE}
Source(p) == pcb[p].source_file.line

(***************************************************************************)
(* The kernel's state is well formed: no program counter passes its page,  *)
(* no size becomes negative, every index is a frame line or unset, and     *)
(* every listed page belongs to an allocated PCB.                          *)
(***************************************************************************)
TypeOK ==
    /\ DOMAIN mem = Mem
    /\ at \in {"shell", "admit", "sched", "second", "exit"}
    /\ PID_counter \in 1 .. MaxPid + 1
    /\ \A p \in Admitted :
         /\ pcb[p].size \in 0 .. count_lines(pcb[p].source_file)
         /\ pcb[p].pos \in 0 .. Len(Source(p))
         /\ pcb[p].program_counter \in [Pages(pcb[p]) -> 0 .. 3]
         /\ \A i \in Pages(pcb[p]) :
              pcb[p].page_table[i] \in [index : [0 .. 2 -> Frame \cup {Never}],
                                        valid : [0 .. 2 -> BOOLEAN]]
    /\ Waiting \subseteq Admitted
    /\ \A k \in DOMAIN LRU_CACHE : /\ LRU_CACHE[k][1] \in Admitted
                                   /\ LRU_CACHE[k][2] \in Pages(pcb[LRU_CACHE[k][1]])

(***************************************************************************)
(* A process runs the lines of its script in order, none twice and none    *)
(* skipped, whatever was evicted and reloaded in between (load_PAGE reads  *)
(* on in the file, it never seeks).                                        *)
(***************************************************************************)
InOrder == \A p \in Admitted :
    /\ Len(ran[p]) <= Len(Source(p))
    /\ \A k \in 1 .. Len(ran[p]) : ran[p][k] = Source(p)[k]

(***************************************************************************)
(* A process that gets no further turn in run_proc_RR (it left the ready   *)
(* queue, or queue_done counts it as done) has run its whole script.       *)
(***************************************************************************)
RunsWhole == at \in {"sched", "second"} =>
    \A p \in Admitted :
        p # curr /\ (p \notin Waiting \/ PCB_done(pcb[p])) => ran[p] = Source(p)

(***************************************************************************)
(* Frames and the LRU list agree: an occupied frame line belongs to exactly*)
(* one listed page, of the process that frame_alloc wrote there.  So no    *)
(* two pages share a line, every frame can be evicted, and none is left    *)
(* occupied when exec has returned and the lists are empty.                *)
(***************************************************************************)
FramesOwned == at # "exit" =>
    \A l \in Frame :
        LET holders == {k \in DOMAIN LRU_CACHE :
                          l \in IndexLines(Resident(pcb, LRU_CACHE[k]))}
        IN  IF mem[l].var = None THEN holders = {}
            ELSE \E k \in holders : holders = {k} /\ LRU_CACHE[k][1] = mem[l].var

(***************************************************************************)
(* Eviction takes only pages that are behind their program counter: a line *)
(* that is loaded and not yet run stays loaded.  load_PAGE could not bring *)
(* it back.                                                                *)
(***************************************************************************)
KeepsUnread == [][
    \A p \in Admitted : pcb'[p] # None =>
        \A i \in Pages(pcb[p]), j \in 0 .. 2 :
            pcb[p].page_table[i].valid[j] /\ j >= pcb'[p].program_counter[i]
            => pcb'[p].page_table[i].valid[j] ]_vars

(***************************************************************************)
(* Round robin: of two unfinished processes the one admitted first is      *)
(* never behind and never more than one turn (two lines) ahead, page       *)
(* faults included.                                                        *)
(***************************************************************************)
RoundRobin ==
    \A k1, k2 \in DOMAIN ALL_PCB :
        LET p == ALL_PCB[k1]
            q == ALL_PCB[k2]
        IN  k1 < k2 /\ pcb[p].size > 0 /\ pcb[q].size > 0
            => Len(ran[p]) - Len(ran[q]) \in 0 .. 2

(***************************************************************************)
(* Every run and exec comes back to the prompt, unless the shell exits     *)
(* because frame_alloc found no frame for a new process.                   *)
(***************************************************************************)
ExecReturns == at = "admit" ~> at \in {"shell", "exit"}

(***************************************************************************)
(* Ending an exec clears frames only: the lines above FRAME_VAR_BORDER are *)
(* "reserved for variables" (shellmemory.c:13).                            *)
(***************************************************************************)
VarsUntouched == [][Finish => \A l \in VarZone : mem'[l] = mem[l]]_vars
=============================================================================

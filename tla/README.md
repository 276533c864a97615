# A verification project for the COMP 310 shell

The repository holds three stages of one program, a small operating system in a
shell: `a1` (a command loop with variables), `a2` (scripts as processes, first
with schedulers and then with paging) and `a3` (demand paging and a file system
on a disk image). `a3` is the last and largest stage and most of this project;
of `a2` the paging kernel is modelled as well, which works differently, and the
command lines of all three are compared in one module. All of it runs in one
thread: the hard behaviours come from interleaved scripts, from scripts inside
lines and lines inside scripts, from full stores, from long sequences of legal
commands and from state that is kept twice, in memory and on the device.

## 1. Inventory

| Component | State | Operations | What makes it correct |
|---|---|---|---|
| a3 buffer cache (`fs/cache.c`) | 64 slots, clock hand | read, write, close | one copy of a sector; nothing is dropped unwritten; callers see an array of sectors |
| a3 paging kernel (`kernel.c`, `pcb.c`, `cpu.c`, `linked_list.c`) | PCBs with page tables, ready queue, LRU list | admit a script, run a turn, page fault, free everything at the end | every script runs whole, in order, in fair turns, and `exec` returns |
| a3 shell memory (`shellmemory.c`) | frame lines and variable lines in one array | allocate, free, set | a frame line has one owner; freeing it touches no other line |
| a3 shell and interpreter (`shell.c`, `interpreter.c`) | the line being parsed, behind one cursor for all lines | parse a line, interpret its commands, run scripts | commands run in order, `quit` is the last, return values are understood by the callers |
| a3 free map (`fs/free-map.c`, `fs/bitmap.c`) | one bit per sector, and a file that holds them | allocate one, release, count | a marked sector has exactly one use, in memory and on the device |
| a3 inodes (`fs/inode.c`) | list of open inodes, index blocks on the device | create, open, close, remove, read, write | a file's bytes are its own, also when the device fills up |
| a3 lists of the file system (`fs/list.c`) | links of the elements | insert, remove, traverse | the links agree in both directions, also when an element is removed twice |
| a3 directories, files, calls (`fs/directory.c`, `fs/file.c`, `fs/filesys.c`, `fs/fsutil.c`) | root directory entries and handle, file table | create, rm, cat, read, write, seek, size, ls | a command changes, closes and frees the file it names only |
| a3 import, defragmentation, recovery (`fs/fsutil2.c`) | none of its own | copy_in, copy_out, find_file, fragmentation_degree, defragment, recover | contents survive; copies fit; recovered files stay recovered |
| a3 block devices, support (`block.c`, `ide.c`, `partition.c`, `debug.c`) | the host file | read and write a sector | left out: I/O, diagnostics |
| a2 shell, kernel, ready queue (`a2/kernel.c`, `pcb.c`, `ready_queue.c`, `shellmemory.c`, `interpreter.c`) | PCBs with page tables, frames with ages, ready queue | admit up to three scripts, run turns under FCFS or RR, replace the oldest page | as for a3; a page table entry that is valid is true; a page in use is not replaced |
| a1 shell (`a1/shell.c`, `interpreter.c`, `shellmemory.c`) | 1000 variables, the calls of `run` that are open | set, print, echo, run, host commands | the variables are a map with room for 1000 names; every line comes back |

How they interact: the shell calls the kernel for `run` and `exec` and the file
system for file commands; scripts run shell commands, so a file command inside
a script hands its return value to the scheduler (which is where one of the
findings comes from). The file system reaches the device only through the
buffer cache. `quit` writes the file system back (`filesys_done`); the exits
with status 99 do not.

`PROJECT.json` lists the hazards at their lines, with the property that covers
each.

## 2. Modules

| Module | Models | Abstract counterpart |
|---|---|---|
| `SectorStore` | what the buffer cache promises: sectors with delayed write-back | |
| `BufferCache` | `cache.c` | implements `SectorStore` |
| `BufferCacheProofs` | invariant, theorems and refinement of `BufferCache` | |
| `PagedKernel` | `kernel.c`, `pcb.c`, `cpu.c`, `linked_list.c`, `shellmemory.c`, `run`/`exec`/`quit` | |
| `PagedKernelProofs` | inductive invariant and theorems of `PagedKernel` | |
| `FileStore` | what the file commands promise: named byte strings, each changed by commands on its own name | |
| `FileSystem` | free map, inodes, directory, file table, commands | implements `FileStore` |
| `FileSystemProofs` | the arithmetic of `copyable_size_of_file`, and the ownership of sectors in `FileSystem` | |
| `A2Kernel` | the kernel of `a2`: admission, page replacement by age, FCFS and RR | |
| `A2KernelProofs` | inductive invariant and theorems of `A2Kernel` | |
| `Lists`, `ListProofs` | `fs/list.c`, and the theorems about it | |
| `Bitmap`, `BitmapProofs` | `fs/bitmap.c`, and the theorems about it | |
| `OpenFiles` | open inodes, file table, directory handle and free map, under every way to write a name; uses `Bitmap` and two instances of `Lists` | |
| `OpenFilesProofs` | two inductive invariants and the theorems of `OpenFiles` | |
| `VariableMap` | what a shell's variables promise: a map with a capacity | |
| `ShellVariables` | the array of `shellmemory.c` | implements `VariableMap` |
| `Shells` | parsers, interpreters and scripts of `a1`, `a2` and `a3`; extends `ShellVariables` | implements `VariableMap` |
| `ShellsProofs` | inductive invariants and theorems of `ShellVariables` and `Shells`, and the refinement | |
| `MCBufferCache`, `MCPagedKernel`, `MCFileSystem`, `MCA2Kernel`, `MCOpenFiles`, `MCShells` | constants of the runs | |

### BufferCache

`cache` is the array of `buffer_cache_entry_t`, `clock` the static hand of
`buffer_cache_evict`, `disk` the device, `last` the result handed to the
caller. `buffer_cache_read` and `buffer_cache_write` are each a hit or a miss;
a miss moves the hand `k` slots, clearing access bits, flushes the victim and
fills the slot (also before a whole-sector write, as the code does). `Restart`
may come at any time: a process that ends without `buffer_cache_close` loses
its slots and keeps `disk`.

### PagedKernel

One action per admitted script (`new_proc`) and per line (`RunFirst`,
`RunSecond`, the two halves of a turn of `run_proc_RR`, and `RunLast`, its
branch for a single remaining line), so a property that holds in every state
holds between any two lines of any two scripts. `Drop` takes a process without
lines from the queue, `Finish` frees all PCBs and empties the lists.
`PageFault` is the tail of `run_proc` that a return value of 1 leads to: the
LRU victim's page is evicted if no frame is free, `load_PAGE` reads the next
three lines of the file (wherever the page was expected to start) and the
process is queued. `ran` is a history variable: the lines each process has
executed. A line of a script is a record that says what it does to the
kernel; text is not modelled.

### FileSystem

One record `fs` of the free map, the sectors, the root directory's slots, the
open inodes and the file table. As a file command is one C function called
from a single thread, it is one action, `fs' = command(fs)`, and every C
function on the way is an operator of the same name from state to state;
operations that can fail half way return the state they leave behind. A sector
holds bytes, an inode or an index block; read as anything else it has no magic
number and no pointers. `failed` counts failed creates and growths, `recovered`
the commands from the first `recover 0` on; both are history, used in bounds
and properties. `panic` is a failed assertion or an access outside of the
device, after which nothing follows. The device below is an array of sectors:
that the buffer cache makes this true is what `BufferCache` shows.

`FileStore` has no sectors at all. Its steps say that a command changes the
bytes of one file, the one named, to what the command may make of them: zeros,
text laid over the old bytes, a host file's bytes, or nothing. Everything that
moves or reuses sectors without changing a file (seek, a failed create,
defragment, a restart) must be a stutter. `FileStoreSpec` is that refinement.

### A2Kernel

Each page load and each line is an action. `process_initialize` admits a script
and loads page 0, `Admitted` loads page 1 (`load_file`, which sets `PC` to 1 for
the call, as `PC` and not the page argument selects the lines read) and queues
it. `Dispatch`, `ExecuteLine`, `terminate_process`, `Quantum` and `PageFault`
are a scheduler's turn. `age` and `currentAge` are the code's; of the three ages
of a frame the model keeps the first, the only one `getOldest` reads.
`find_process` is given the line *after* it has been freed, as in the code, so
it never finds anybody: `Invalidated` is modelled and never applies. `Missing`
is the failed `fopen`: `exec` returns to the prompt with the scripts before it
queued, `run` compares with 11 where the code for a missing file is 1, and goes
on to schedule what is queued. The rest is history: `ran`, the lines executed,
`evicted`, and the order of the uses of frames. `uses` counts loads and lines read;
`used[f]` is the count at the last use of frame `f`, and `read[f]` the one at the
last line read from the page in it, 0 if none was. The code has no such clock:
reading a line raises `currentAge` by three, and a load only assigns it
(`copy_to_mem`, `shellmemory.c:176`), so pages loaded with no line between them
have one age. `EvictsLeastRecent` is what the comments say (`shellmemory.c:15`, `:20`
and `:196`), and the run `a2_ages` shows it violated: `exec` of three scripts of two
pages fills three frames, loads the second script's page 1 into frame 0, and the
third script's page 0 over it, while the frames 1 and 2 are older. `ReadPagesStay` is
what is left of it: executing a line of a page does protect it.

### OpenFiles

`FileSystem` looks at the bytes and blocks of files with plain names;
`OpenFiles` looks at who holds what when names are not plain. A path is a prefix
and a last component: `f`, `/f`, `/`, `g/f`, `./g`. `filesys_create` and
`filesys_open` ignore the prefix and the file table compares whole paths, so
`f` and `/f` are two entries for one inode, and `filesys_remove` walks the
prefix, through a file as if it were a directory. `inode_reopen` returns the
inode without counting (`inode.c:161`), so the first close of an inode that is
open twice frees it. `Free` then turns every pointer to it into `Freed`, and a
use of one sets `stopped`: nothing follows, as anything may. The state keeps
the lists as links (`Lists`), the free map as its elements (`Bitmap`), and the
file of the free map beside it. `aliased` is history: a file was used under a
second name while open under a first. The properties divide there: without
aliasing every open is closed exactly once, no handle outlives its file and
nothing stops (`CountsExact`, `HandlesListed`); with or without it the lists are
whole, the free map is the listed files, and a command takes away nobody
else's handle (`ListsWhole`, `MapAgrees`, `OthersStayOpen`).

### Shells and ShellVariables

One state machine for the three programs; `program` says which one runs. A line
is a sequence of words, spaces, semicolons and a newline, and the three
`parseInput` are three functions from lines to sections of words, as they differ:
in `a1` a semicolon is a space, and two separators have an empty word between
them; in `a2` a section must end right in front of its semicolon, else the parser
stays where it is (`Hang`, `Loop`); in `a3` `strtok` splits the line first.
`sections` is what is left of the line. `frames` are the open calls of `run` and
`exec`. In
`a1` and `a2` a call keeps the caller's sections and `EndScript` goes on with
them; in `a3` they are `strtok`'s cursor, which the script's lines have moved, so
`EndScript` leaves the cursor as it is and the outer line goes on with whatever
the last inner line left: usually nothing. `RunQueued` and `exec` are the two of
`a2`, on a typed line and on a script's: the scripts in front of a missing one
(`admitted`) are put in the ready queue. `exec` returns at a missing one, `run` does
not; else a scheduler is started, unless the line is a script's line but its last
(`in_background`), which leaves the scripts to the scheduler that is running. `queue`
has the lines left of each process that waits. `NextScript` gives the next of them
its turn, under RR of two lines (`left`), after which `Quantum` puts it back at the
tail. `ret` of a call is what it returns at its end: 1 for a `run` of a missing file.
A `resetmem` clears the frames too, so one that finds processes running or waiting
ends the behaviour (`phase` is `"reset"`). `Leave` is the end of the program: a
`quit`, a script of `a3` that is missing, or, in `a1`, a `my_touch` that can not create its
file and closes a null pointer. `own` and `stranded` are history: the commands of
the line itself, and what typed lines of `exec` with a missing file have left in the
queue since a scheduler was last started. `VocabularyAssumption` says what the lines and scripts of an
instance may be: what `set` and `print` name is in `Names`, what `set` joins is in
`Values`, and no script of `a3` contains a `run` (section 5).

`ShellVariables` is the array of names and values with its linear search. A name
is new, known, or finds no room; `"none"` is at once the mark of a free place and
a name that the user may set. `VariableMap` is a map with a capacity in which that
one name is not specified; `MapSpec` is the refinement.

## 3. Runs

| Run | Expected | Shows |
|---|---|---|
| `cache` | pass | `BufferCache` has one copy per sector, drops clean slots only, implements `SectorStore` |
| `kernel` | pass | scripts run whole, in order and in turn; frames and LRU list agree; unread lines stay loaded; `exec` returns |
| `fs` | pass | sectors have one owner and are given back; the commands implement `FileStore`; copies fit exactly; defragment leaves no gap; a removed file is found by `recover 0` |
| `a2` | pass | processes execute their own lines until a page is evicted, and as many lines as they have in any case; frames hold whole pages, the queue has each process once, a page that was just executed from is the last to go, commands return |
| `open_files` | pass | lists are whole, opens and closes match for files with one name, the free map is the listed files in memory and on the device, no command takes another file's handle |
| `shell` | pass | in all three shells the commands of a line run in order, `quit` is last, no call is left open and no script waits at the prompt but those in front of a missing one in an `exec`, variables are a bounded map, tidy lines come back |
| `newline` | violation | a script with a final newline, of 2, 5, 8, ... lines or a multiple of three, never ends |
| `rm_line` | violation | a line that returns 1 is taken for a page fault: lines are skipped |
| `spill` | violation | freeing the last frame clears variables |
| `free_map_kept` | violation | an index block on a full device overwrites the free map's inode |
| `a2_victim` | violation | an evicted page stays valid: its owner executes lines of the page in its place |
| `a2_ages` | violation | a page that is loaded is not made younger: the one just loaded is evicted before older ones |

Each violation run checks one sentence of the repository's own comments,
assertions or definitions; the findings in `PROJECT.json` quote them.

Bounds, and why they are enough:

- `cache`: two slots, four sectors, two contents. Evictions with every
  combination of access and dirty bits occur; the proofs cover every size.
- `kernel`: four frames (12 lines) and up to three scripts of 1 to 10 lines:
  every remainder modulo the page size, one to four pages. Two pages of a script are
  loaded when it is admitted, and the shell exits if there is no frame for one, as
  with three scripts of two pages. Scripts with more than four pages together that
  get past that, such as those of 4 and 7 lines or of 1, 1 and 7, fault later and
  evict.
  `MaxPid` (3) bounds the number of admissions of a session, so one `exec` of three
  scripts or three `run`s. Scripts in the passing run have no final newline and
  no command that returns 1: the violation runs show what happens otherwise.
- `fs`: two names, fourteen sectors of two bytes, one direct pointer and two pointers
  in an index block, so a file of seven bytes or more uses a direct, two indirect
  and a doubly indirect block. `create` of three and of eight bytes, a `write` of
  seven, also over a file of three or at its second byte, and `copy_in` of nine take
  two, four and five blocks, from nothing and on from fewer. Four sectors belong to
  the free map and the root directory, the last one has no bit
  (`bitmap_create(block_size - 1)`), nine are left, which the longest file takes
  alone: two files do not fit with all their blocks, so creates and writes fail, also
  where the doubly indirect blocks begin, and copies are cut short. `MaxFailures`
  is 1 as sectors leaked by a failure never come back and a second one only repeats
  the first. `MinPos` is 0: a file whose position has become negative is not written
  again. `MaxRecovered` is 1, so a `recover 0` is the last command: the sectors of a
  recovered file stay free (below), and once they are shared the model would follow
  arbitrary bytes read as pointers, which shows nothing. The directory has six slots,
  enough for two files and all that a `recover 0` finds, so it never overflows; the
  real one grows.
- `a2`: three frames, three admissions in a session, scripts of 2, 4, 7 and 3
  lines, the last with a final newline: one page, two and three, a short last
  page, and a page that is counted and has no lines. Up to six pages are loaded
  at admission and a third page by a fault, so frames are taken from running,
  queued and ended processes, also twice. `a2_victim` needs two scripts of two
  pages and two frames, `a2_ages` three scripts of two pages.
- `open_files`: two files, each with its plain name, one also as `/f`, the root
  as `/`, and removals through `g/f` and `./g`, on six sectors, of which the free
  map has five bits in elements of two, so the last element is not full. Files
  have no blocks here, so three sectors are free and a create never finds the
  device full; `fs` covers that. The state space is finite without any bound.
- `shell`: two places for three variables and `none`, so the store fills up;
  `MaxTyped` is 3: one line to fill the store, one to overflow it or to run a
  script, one to see what is left. The lines are tidy and not (spaces outside,
  doubled spaces, a last semicolon, an empty line), with up to three commands;
  scripts run scripts in `a1` and `a2`, in the middle and at the end, and in `a3`
  quit in the middle of a line. In `a2` an `exec` names one, two or three files, a
  missing one among them, on typed lines and in scripts; a script of three lines
  needs two turns under RR, and one script resets the memory. The scripts of `a2`
  have no page fault: they are at most two pages long, which are loaded at their
  admission, and the frame store is taken to have room for all of them (its size
  is the Makefile's `framesize`); faults and evictions are `A2Kernel`'s.

`CHECK_DEADLOCK FALSE` where the program really stops: after a failed assertion
(`fs`, `open_files`), and after `quit` or in a parser that hangs
(`shell`).

Disagreements and oddities that the models follow and that have no run of
their own:

- `run_proc` of `a3` appends a faulting process to the tail of the ready queue
  (`kernel.c:61`), where its comment (`kernel.c:31`) says head.
- `file_write` adds `bytes_written - 2` to the position also when nothing was
  written (`file.c:136`), so a position may become negative, which `file_seek`
  asserts it is not. `MinPos` bounds it in `fs`.
- `recover 0` lists a file again without marking its sectors, so the next create
  overwrites it (`fsutil2.c:295`).
- Two names of one file open at once end in a use of freed memory
  (`inode.c:161`): `CountsExact` needs its condition.
- `a2/shell.c:68` stays for ever at a section that is empty or followed by a
  space; `Returns` is about tidy lines, and `Loop` is the hang.
- In `a3` a `run` drops the commands behind it on its line, and goes on with an
  inner line that a `quit` has cut short (`shell.c:135`): the second and third
  lines of `SectionsInOrder`.
- `exec` of `a2` has no return at its end (`a2/interpreter.c:267-271`). The value is
  undefined; as the Makefile builds it, without optimisation, it is the 0 that
  `schedule_by_policy` has left, and the model has that.
- In `a1` a `my_touch` of a file that can not be created passes a null pointer to
  `fclose` (`a1/interpreter.c:216`): `Leave`.
- In `a3` a `quit` in a script closes the file system and ends neither the script
  nor the shell, since `run_proc_RR` returns what it returns.

Names are symmetric in `fs` (`SYMMETRY`): no command orders them, and the
refinement is a safety property.

Fairness: `PagedKernel` and `A2Kernel` state weak fairness of `Kernel`, the
actions of one running command, and `Shells` of `Step`, everything but `Type`.
They are the body of C loops without a blocking call, so the program takes the
next one as long as there is one; what the host does for `my_ls` is taken to come
back. Nothing is assumed of the user, who may stop typing.

## 4. Proofs

`BufferCacheProofs` proves, for every number of slots, set of sectors and set
of contents:

- `Invariance`: `Spec => []Inv`. `Inv` is `TypeOK`, `OneCopy` and
  `CleanIsOnDisk` together. None of the last two is preserved alone: a miss
  keeps copies unique because it happens only when no slot holds the sector,
  and fills the slot from a device that is up to date only if the victim, and
  no second copy of it, was the one flushed.
- `TypeCorrect`, `CopiesUnique`, `CleanSlotsSafe`: the parts.
- `Refinement`: `Spec => StoreSpec`. A read or write is the abstract one, where
  an eviction may change `disk` on the way (`WriteBack`); the lemmas `MissView`
  and `HitView` say that neither changes what a caller can read.

One lemma per operation shows that it preserves `Inv` (`HitInv`, `MissInv`,
`CloseInv`, `RestartInv`) and one that it refines (`ReadRefines`,
`WriteRefines`, `CloseRefines`, `RestartRefines`). The assumption is the one
`BufferCache` makes of its constants: a positive number of slots.

`ShellsProofs` begins with `ShellVariables` and proves of it, for every store size,
set of names and set of values:

- `VarInvariance`: `VarSpec => []VarInv`, `MemOK` and `OnePlace` together: a name
  gets a new place only if no place has it. `PlacesUnique` is the part.
- `Refinement`: `VarSpec => MapSpec`. A name that is new is stored in a free place
  exactly when the map has fewer names than the store has places, by a
  cardinality argument over `OnePlace` (with all names in different places, a
  store without a free place has as many names as places).

`ListProofs` proves of `Lists`, for every set of elements:

- `InsertLinked`, `RemoveLinked` and `ListLoops`: the links agree in both directions
  before and after, and the elements are the ones expected. `RemoveTwice`: removing
  an element again, by the links it kept, changes nothing (for an element that is
  not linked to itself, as none in a list is). That is what `free_file_table` does
  (`file.c:20` and `:25`).
- Links that agree do not exclude a circle beside the list. `IsList` does: its
  elements are those of a path without repetitions from the head to the tail.
  `LoopVisits`, that a loop from `list_begin` to `list_end` meets exactly these
  elements, needs it, and `EmptyIsList`, `InsertIsList`, `RemoveIsList` and
  `ResetIsList` keep it by constructing the path after the operation.

`BitmapProofs` proves of `Bitmap`, for every number of bits and every size of an
element: `CreatedClear`; `SetOne`, a bit that is set or cleared changes no other,
in the same element or in another (two bits of one place are the same bit, by
division); `AllocatesLowest`, a scan for one sector marks the lowest free one and
no other, and fails only when none is free (the least element by the
well-foundedness of `<`); `ReleasesOne`; and `ReadsBack`, that the mask of the
last element, which `bitmap_read` applies, loses no bit that was written. They
are about requests of one sector, the only ones `free_map_allocate` is called
with.

`PagedKernelProofs` proves of the kernel of `a3`, for every number of frames, of
processes and of lines:

- `Invariance`: `Spec => []KernelInv`, which is the conjunction of `ListsOK`
  (queue, LRU list and PCB list have no duplicates, and what they list exists),
  `Idle` (a process that is not admitted has run nothing), `ProcsOK` (what size, program
  counters, page table and file position of a PCB have to do with each other),
  `FramesOK` (a valid page is in its frame and listed, two listed pages are
  apart, an occupied frame line belongs to a listed page), `Lockstep` and
  `Recency`. The last two are the heart of it. `load_PAGE` reads on from where
  the file is, so a page that was evicted before its last line has run could not
  be brought back; and nothing in `run_proc` or `pop_tail` looks at whether the
  victim is still needed. It never is because round robin takes all processes
  through their scripts in step, at most two lines apart (`Lockstep`), so that
  in the LRU list the pages that are needed are in front of those that are used
  up (`Recency`): at a fault the faulting process has itself a page that is
  older than every needed one.
- `LinesInOrder`, `WholeScripts`, `FramesHaveOwners`, `TurnsAreFair` and
  `TypeCorrect` are the properties of the run `kernel` as consequences of it, and
  `UnreadStays` its action property `KeepsUnread`.
- All of them assume `Counted`: `count_lines` counts a script's lines and no line
  returns 1. The runs `newline` and `rm_line` show what the code does otherwise. `PlainScripts` shows which scripts satisfy it: those
  without blank lines, a final newline or `rm`.

`A2KernelProofs` proves of the kernel of `a2`, for every number of frames, of
admissions and every script, and under no other hypothesis:

- `Invariance`: `Spec => []KernelInv`: `StoreInv` with `CommandOK` and
  `QueueSound`. In `StoreInv`, `Processes` says where a process is in its file,
  `Whole` that a frame holds one page of one process or nothing, `Resident` that
  until the first eviction a valid page that has lines is in its frame (a page
  that is counted and has no lines leaves its frame free, for the next one),
  and `Ages` what the numbers in `age` have to do with the order of uses: none is
  above `currentAge`, no use is later than `uses`, and a frame that was last used
  before a line was read in another frame has the lower age. Reading a line gives an
  age above all earlier ones, a load does not, so nothing more holds. `ReadPagesKept`
  (`ReadPagesStay`) follows: the frame with the lowest age, `getOldest`, has not been
  read from since any other frame was used. It is not inductive without `Ages`: it
  compares a number the code keeps with a history it does not have.
- `LinesInOrder` is about the time before the first eviction, as the run
  `a2_victim` shows it must be; `WholeScripts`, `FramesAreWhole`, `QueueIsSound`
  and `TypeCorrect` are unconditional. In `QueueSound` the line that is looked up
  after it was freed matters: `find_process` finds nobody, so no PCB changes at an
  eviction.

`OpenFilesProofs` proves of the open files, for every set of names, every set of
paths that has each name in its plain form, and every size of the device and of a bitmap's
element:

- `CoreInvariance`: `Spec => []CoreInv`. `Core` is that no name and no sector is in
  two slots (`DirOK`); the bits are those of the listed files, in memory and in
  the file, and none is set behind the last one (`MapOK`); an open inode
  is open once and not removed (`InodesOK`); what an entry points to is freed or is
  the open inode of the file listed under its name, the root directory for `/`
  (`HandlesOK`, `CwdOK`); and both lists are lists of just these inodes and entries
  (`ListsOK`). No part is preserved alone: a create finds a sector that no
  inode is open for because the map marks every listed file and only those have
  inodes; `free_file_table` stays inside its list because it takes each entry off
  twice. A command is a sequence of operations, of which any may run
  into freed memory. So one lemma per operation says what it makes of a state with
  `Core` (`Outcome`): a halt, or a state with `Core` in which all handles are kept
  but those of the names in the path (`Kept`). `TypeCorrect`, `BothListsWhole`,
  `MapAlwaysAgrees` and `OtherFilesStayOpen` (the action property) are its
  consequences, whatever names are mixed.
- `TidyInvariance`: `Spec => []TidyInv`: as long as no file was used under two names,
  nothing stops, no entry is freed and each name has one (`TableTidy`), every open
  inode but the free map's is held by an entry (`AllHeld`), and the root directory
  is closed (`Rooted(f, 0)`). The last is why the invariant has parameters: inside
  a command the directory is open once or twice more than it is closed, and one inode
  may be open that no entry holds yet. `EveryOpenIsClosed` (`CountsExact`) and
  `HandlesAreListed` (`HandlesListed`) follow.

The loops over the directory's slots, over the table and over the open inodes
are recursive functions of the index in `OpenFiles`, and the lemmas about them
go by the least index at which they would fail.

`ShellsProofs` proves of the three shells, for every set of lines and of scripts:

- `ShellInvariance`: `Spec => []ShellInv`: `ParserOK`, `CallsOK` (the prompt waits
  for all calls; while there is one nothing is stranded, and when there is none
  everything in the queue is), `OneCall` (in `a3` no call
  inside another, and no `run` in what is left of a script's line) and `QuitOK`
  (a `quit` is the last command of its line, and -1 is on its way to `main`).
  `QuitEndsLine`, `OnlyFailedExecsLeave` and `ShellTypes` are its consequences. All
  commands have one of five outcomes for the parser (`Outcomes`): they return, the
  program ends, the memory is reset under processes, scripts are called, or scripts
  are put off. An `exec` with a missing file is the only one that puts scripts off
  with no scheduler running, and so the only one that leaves any at the prompt.
- `OrderInvariance`: with `ShellInv`, what was interpreted of a line (`own`) and
  what the outermost open call comes back to make the line together
  (`KeepsOrder`). In `a3`, where nothing comes back, the line is cut at a `run`
  unless a script has left the end of its own last line behind a `quit`
  (`LosesOrder`, `AtScript`): the only way for `strtok`'s cursor to be elsewhere
  than at its end. `LinesInOrder` is `SectionsInOrder`, given `ReadsTidy`: that the
  parser makes of a tidy line what its words mean, a fact about functions on
  sequences that the provers can not reach and that TLC finds true of all lines
  of the instance.
- `UsesStore`: `Spec => VarSpec`. The shells implement the array of variables,
  so what is proved of it holds of them: `ShellPlaces`
  (`OnePlace`) and `ShellMap` (`MapSpec`).

The inductive invariants of the two kernels and of the shells were checked by TLC on the bounds of the
runs `kernel`, `a2` and `shell` before they were proved.

`FileSystemProofs` proves of `copyable_size_of_file` (`fsutil2.c:360`), for every size
of sectors, inodes and index blocks and every free map, that its four cases
count the sectors of a file exactly. `SectorsFor(n)` is the inode, `n` blocks and
their index blocks.

- `CopyableFits`: what `copy_in` writes, with the zero behind it, takes no more
  than the free sectors and no more blocks than an inode has. In the case of a
  doubly indirect block, of `x` sectors behind the first `D + M + 3` one in
  `M + 1` is an index block (`SomeIndexBlocks`); that the zero always has room is
  why `copy_in` asks for a byte more when a file ends with a sector (`RoomForZero`).
- `CopyableGreatest`: when less than the whole file is copied, one more block would
  not fit.

That `inode_reserve` takes `SectorsFor(n)` sectors, neither more nor fewer, is part of
`CopyFits`, which TLC checks in the run `fs`: that would be to count a
set that grows with `n`, by induction.

It also proves of the file system, for the same sizes, every device, every number of
names and of directory slots, and whatever creates, growths and copies fail on the
way:

- `FileSystemInductive`: `Spec => []FileSystemInv`. Until `recover 0` is used, some owner
  map `up` satisfies `GoodBy(up, fs)`; the invariant says nothing of the states
  behind a `recover 0`, which lists files without marking
  their sectors.
- `FilesOwnTheirSectors` (`Owned`), `NoSectorLost` (`NoLeak`) and `FileSystemTypes`
  (`TypeOK`, until `recover 0` is used) are its consequences; TLC checks `TypeOK` in
  the state behind a `recover 0`, too.

`Owned` is not inductive: after a growth that failed half way the inode in
memory points to sectors that the one on the device does not, and an index block
may hold pointers behind the end of the file, which a later growth uses. So the
invariant does not speak of files but of pointers. `up[t] = <<h, j>>` says
that sector `t` may only be pointed to by pointer `j` of the inode or index
block in sector `h`, and that `t` is a root, the inode of a file, if `j` is
`RootSlot`. Its parts:

- `Heap`: the free map has the bits of the meta sectors and none behind the
  device; every sector is what its reader expects or reads as empty; every pointer
  of an index block that is marked is 0 or goes to a marked sector whose owner is
  this pointer (`Forest`). Pointers have one owner, so what two inodes reach is disjoint
  (`PathToOne`, `DataOrIndex`); nothing else keeps files apart.
- `InodesOK`: the inode on the device and the one in memory of each listed file,
  which differ after a failed growth, are both `Sound`: a root, with pointers it
  owns, and with all the blocks its length asks for (`Whole`). The last is what
  makes `inode_deallocate` free no sector 0 and `inode_write_at` hit no block of
  another.
- `DirOK`, `TableOK`, `OpenOK`: names and sectors are in one slot, entries of the
  file table are of listed files, and an open inode is in the table. Without the last a
  create might find an old inode open for its new sector.
- `Tight`: as long as nothing has failed, every marked sector is one of a listed file and the
  two inodes of a file agree. `NoLeak` needs the second: removal frees what the
  inode in memory says.

An allocation is followed through the levels of `inode_reserve`: `Reserves` rests on
`ReservesLevel2`, `ReservesLevel1` and `ReservesBlock`, and each says how the owner map grows
(`Extends`), that all old pointers stay (`Grows`, `Kept`), and, if it
succeeds, that every block is there and every sector taken is used
(`BlocksDone`, `AllUsed`). The case of a full device in which an index block is not allocated and
sector 0 is written in its place (the run `free_map_kept`) is in it: sector 0 never becomes an
index block that anybody owns. Above are one lemma per change of the state
(`FileChanged`, `Removal`, `CreateAdds`), one per command, and `Steady`, that no command
but `recover 0` changes `recovered`. The loops over pointers, over directory slots and over sectors are
recursive functions of the index, and `BlockTurns`, `IndexTurns`, `LoopTurns` and
`RecoverTurns` go by the least index at which they would fail.

The owner map is the reason why TLC does not check `FileSystemInv`: `\E up` ranges over all
functions on the sectors. TLC checks what follows from it.

The assumptions are those the modules state of their constants: a positive
store size and a free name and value among the others; headers that differ from
each other and from the elements; null and freed pointers that are neither
sectors nor paths, finitely many names and paths, and more than three sectors; a positive number of bits in an element, and
an error value that is no index; sectors of two bytes or more (an inode and a pointer have more), inodes and index
blocks of at least one pointer, a device with room behind its own sectors, finitely many
names, not more than the directory has slots (`dir_add` would grow the
directory's file, which the model takes to have its slots from the start), sizes and
lengths that are no negative numbers, and a NULL that is no directory entry and no inode; scripts with at least one line and a null value
that is no line, process or frame; lines and scripts that are sequences, with the
vocabulary above. TLC evaluates each on the runs of its module.

Only model-checked:

- the liveness properties `ExecReturns` and `Returns`, which need fairness;
- `ReadsTidy`, and in general the values of functions on sequences (lines into words),
  which need induction over data;
- of `FileSystem`, `EndsWithZero`, `Defragmented`, `CopyFits`, `FileStoreSpec` and `RecoverFinds`,
  which speak of the bytes in the blocks (what `Stored` lays over the old
  bytes is what `Contents` reads back), of how many sectors a growth takes, or of the order
  in which they are taken: values of recursive functions and of sequences built
  block by block, which need induction over data.
  Of `TypeOK`, `Owned` and `NoLeak` nothing is claimed of the states behind a `recover 0`.

## 5. What is not modelled

- A crash between two sectors of one file command: `BufferCache` says what the
  device can hold then, `FileSystem` restarts between commands only.
- Subdirectories: no command makes one.
- Text written to the path `/`, over the entries of the root directory. A `create` with
  a negative size, which fails an assertion.
- `recover 1` (writes host files only). `recover 2` opens every file, as
  `find_file` does: the action `Search`. Host files written by `copy_out`; when the
  host file can not be opened, `copy_out` returns without putting the position back
  (`fsutil2.c:93-95`), which the action `Size` leaves where it was.
- In `a3`, a `run` or `exec` inside a script: `run_proc_RR` frees all PCBs, the
  running one included. What the file commands do after a `quit` in a script.
- An `echo` without a word in `a2` and `a3`, which reads what an earlier section
  left in `words[1]`, and messages in general.
- The first-come scheduler of `a3`, which nothing calls. In `PagedKernel`, a script
  that is missing (`pcb.c:35-38`, the program exits; `Shells` has that) and an `exec`
  with more names than it takes, which only returns an error.
- In `a2`: the SJF and AGING schedulers, which no command selects. What becomes of
  the processes that are running or waiting when a `resetmem` clears their frames
  (`ready_queue_destory` leaves `head` dangling): `Shells` ends there, in
  `"reset"`, and `A2Kernel` has `resetmem` with an empty queue only. A2Kernel's
  scripts start no others; those of `Shells` do, without page faults.
  `process_initialize` names the
  copy of a script in the backing store; the names are taken to differ.
- The commands of the host system: only what they return.
- Sorting, splicing and the other operations of `list.c` and `bitmap.c` that
  nothing calls.

## 6. Plan

1. `SectorStore`, `BufferCache`, proofs. Done.
2. `PagedKernel`, `FileStore`, `FileSystem`, `A2Kernel` and their runs. Done.
3. `Lists`, `Bitmap`, `OpenFiles`, `ShellVariables`, `Shells`, and the proofs of
   lists, bitmaps and variables. Done.
4. `PagedKernelProofs`, `A2KernelProofs`, `ShellsProofs`: all the safety properties
   of the two kernels and the shells. Done.
5. `OpenFilesProofs`: all the safety properties of the open files. Done.
6. `FileSystemProofs`: the arithmetic of `copyable_size_of_file` and the ownership of
   sectors. Done.
7. A crash model of one file command over `SectorStore`.

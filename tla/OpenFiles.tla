------------------------------ MODULE OpenFiles ------------------------------
(***************************************************************************)
(* Who holds what in the file system of a3: the list of open inodes and    *)
(* their open counts, the file table, the handle cwd of the root directory *)
(* and the free map, under every way to write a file's name.  A file is    *)
(* its inode: FileSystem models blocks and bytes, where names are plain.   *)
(*                                                                         *)
(* inode_reopen counts nothing, so an inode that is opened twice is freed  *)
(* by the first close.  Whoever still points to it then has Freed.         *)
(***************************************************************************)
EXTENDS Bitmap

CONSTANTS Names,       \* file names
          Paths,       \* paths the user types: [prefix |-> , name |-> ]
          RmPaths,     \* paths the user types for rm only
          block_size,  \* sectors of the device
          None,        \* NULL
          Freed,       \* a pointer to an inode that was freed
          Cwd,         \* the directory handle that cwd points to
          head, tail   \* the headers of a list

(***************************************************************************)
(* split_path_filename: a path is what is in front of the last component   *)
(* ("" for nothing, "/", or one component) and the last component, which   *)
(* is "" in the path "/".                                                  *)
(***************************************************************************)
NoName == ""
Plain(n) == [prefix |-> "", name |-> n]

FREE_MAP_SECTOR == 0
ROOT_DIR_SECTOR == 1
Sectors == 0 .. block_size - 1

ASSUME PathsAssumption ==
    /\ Paths \cup RmPaths \subseteq [prefix : {"", "/", "."} \cup Names, name : Names \cup {NoName}]
    /\ \A n \in Names : n \notin {"", "/", "."} /\ Plain(n) \in Paths
    /\ IsFiniteSet(Names) /\ IsFiniteSet(Paths)
    /\ block_size \in Nat /\ block_size > 3

ASSUME PointersAssumption ==
    /\ head # tail
    /\ {head, tail, None} \cap Paths = {} /\ {head, tail, None} \cap Sectors = {}
    /\ {Freed, Cwd} \cap Sectors = {} /\ Freed # Cwd /\ None \notin {Freed, Cwd}
    /\ None \notin [name : Names, inode_sector : Sectors]
    /\ None \notin [open_cnt : Nat, removed : BOOLEAN]
    /\ None \notin [inode : Sectors \cup {Freed}, open_cnt : Nat, pos : Nat]

Slots == 1 .. Cardinality(Names)                \* of the root directory

\* The two lists: of inodes, one for a sector, and of table entries, one for a
\* name (add_to_file_table is called for a name that has none).
Inodes == INSTANCE Lists WITH Elems <- Sectors
Files  == INSTANCE Lists WITH Elems <- Paths

(***************************************************************************)
(* o is the state of the program and the device:                           *)
(*   dir        the slots of the root directory                            *)
(*   free_map   the bitmap in memory, and free_map_file the one on disk    *)
(*   inode      the open inode of each sector, linked by open_inodes       *)
(*   entry      what the file of an entry of the table points to, if there *)
(*              is one for the name; the entries are linked by file_table *)
(*   cwd        the directory handle, NULL when nobody has the root open   *)
(*   stopped    the program used freed memory or failed an assertion       *)
(*   aliased    history: a file was used under a second name while open    *)
(***************************************************************************)
VARIABLE o

FreshMap == bitmap_mark(bitmap_mark(bitmap_create(block_size - 1), FREE_MAP_SECTOR),
                        ROOT_DIR_SECTOR)

\* A process that starts on the device, up to free_map_open.
Started(dir, file) ==
    [dir |-> dir, free_map |-> bitmap_read(FreshMap, file), free_map_file |-> file,
     inode |-> [s \in Sectors |-> IF s = FREE_MAP_SECTOR
                                  THEN [open_cnt |-> 1, removed |-> FALSE] ELSE None],
     open_inodes |-> Inodes!list_push_front(Inodes!llist_init, FREE_MAP_SECTOR),
     entry |-> [p \in Paths |-> None], file_table |-> Files!llist_init,
     cwd |-> None, stopped |-> FALSE, aliased |-> FALSE]

Init == o = Started([k \in Slots |-> None], bitmap_write(FreshMap))

Stop(f) == [f EXCEPT !.stopped = TRUE]

----------------------------------------------------------------------------
(* free-map.c                                                              *)

\* The state after free_map_allocate(1, _), which sets bitmap_scan's result.
free_map_allocate(f) ==
    LET map == bitmap_scan_and_flip(f.free_map, 0, 1, FALSE)
    IN  [f EXCEPT !.free_map = map,
                  !.free_map_file = IF map = f.free_map THEN @ ELSE bitmap_write(map)]

free_map_release(f, s) ==
    LET map == bitmap_set_multiple(f.free_map, s, 1, FALSE)
    IN  IF ~bitmap_all(f.free_map, s, 1) THEN Stop(f)
        ELSE [f EXCEPT !.free_map = map, !.free_map_file = bitmap_write(map)]

\* What freespace reports.
num_free_sectors(f) == bitmap_count(f.free_map, 0, f.free_map.bit_cnt, FALSE)

----------------------------------------------------------------------------
(* inode.c                                                                 *)

\* An access to the inode behind pointer s.
Access(f, s) == IF s = Freed \/ f.inode[s] = None THEN Stop(f) ELSE f

\* An open inode is returned as it is (inode_reopen).
inode_open(f, s) ==
    IF s \in Inodes!Elements(f.open_inodes) THEN f
    ELSE [f EXCEPT !.inode[s] = [open_cnt |-> 1, removed |-> FALSE],
                   !.open_inodes = Inodes!list_push_front(@, s)]

\* free(inode): nobody's pointer is valid any more.
Free(f, s) ==
    [f EXCEPT !.inode[s] = None,
              !.open_inodes = [Inodes!list_remove(@, s) EXCEPT ![s] = Inodes!llist_init[s]],
              !.entry = [p \in Paths |-> IF @[p] = s THEN Freed ELSE @[p]],
              !.cwd = IF @ # None /\ @.inode = s THEN [@ EXCEPT !.inode = Freed] ELSE @]

inode_close(f, s) ==
    CASE s = Freed -> Stop(f)
      [] s # Freed /\ f.inode[s] = None -> Stop(f)
      [] OTHER ->
           IF f.inode[s].open_cnt > 1 THEN [f EXCEPT !.inode[s].open_cnt = @ - 1]
           ELSE IF f.inode[s].removed THEN free_map_release(Free(f, s), s)
           ELSE Free(f, s)

inode_remove(f, s) == [f EXCEPT !.inode[s].removed = TRUE]

----------------------------------------------------------------------------
(* directory.c: a handle is cwd itself or a directory of its own, which is *)
(* the inode it was opened for.                                            *)

InodeOf(f, d) == IF d = Cwd THEN f.cwd.inode ELSE d

dir_open_root(f) ==
    IF f.cwd = None
    THEN [inode_open(f, ROOT_DIR_SECTOR) EXCEPT
            !.cwd = [inode |-> ROOT_DIR_SECTOR, open_cnt |-> 1, pos |-> 0]]
    ELSE [f EXCEPT !.cwd.open_cnt = @ + 1]

\* A bug: the handle stays when its last user closes it.
dir_close_kept(f, d) ==
    IF d = Cwd THEN [f EXCEPT !.cwd.open_cnt = @ - 1] ELSE inode_close(f, d)

dir_close(f, d) ==
    IF d = Cwd /\ f.cwd.open_cnt > 1 THEN [f EXCEPT !.cwd.open_cnt = @ - 1]
    ELSE [inode_close(f, InodeOf(f, d)) EXCEPT !.cwd = None]

\* The slots of the directory in which the name is found.  Only the root has
\* any: no file's bytes look like a directory entry.
lookup(f, d, name) ==
    {k \in Slots : InodeOf(f, d) = ROOT_DIR_SECTOR /\ f.dir[k] # None /\ f.dir[k].name = name}

SectorOf(f, name) == f.dir[CHOOSE k \in lookup(f, ROOT_DIR_SECTOR, name) : TRUE].inode_sector

\* dir_lookup: the state and the inode.
dir_lookup(f, d, name) ==
    LET g == Access(f, InodeOf(f, d))
    IN  CASE name = "." -> [f |-> f, inode |-> InodeOf(f, d)]
          [] name # "." /\ lookup(f, d, name) = {} -> [f |-> g, inode |-> None]
          [] OTHER -> [f |-> inode_open(g, SectorOf(f, name)), inode |-> SectorOf(f, name)]

\* The rest of dir_open_path when all components are found: a removed
\* directory is not opened.
NotRemoved(f, d) ==
    CASE Access(f, InodeOf(f, d)).stopped -> [f |-> Stop(f), dir |-> None]
      [] ~Access(f, InodeOf(f, d)).stopped ->
           IF f.inode[InodeOf(f, d)].removed THEN [f |-> dir_close(f, d), dir |-> None]
           ELSE [f |-> f, dir |-> d]

\* One component m of the path, looked up in d, which is closed.
Component(f, d, m) ==
    LET r == dir_lookup(f, d, m)
    IN  IF r.inode = None THEN [f |-> dir_close(r.f, d), dir |-> None]
        ELSE NotRemoved(dir_close(r.f, d), r.inode)

dir_open_path(f, prefix) ==
    LET own == prefix # "/" /\ f.cwd # None
        g == IF own THEN f ELSE dir_open_root(f)
        d == IF own THEN f.cwd.inode ELSE Cwd
    IN  IF prefix \in {"", "/"} THEN NotRemoved(g, d) ELSE Component(g, d, prefix)

dir_add(f, name, s) ==
    [f EXCEPT !.dir[CHOOSE k \in Slots : f.dir[k] = None] = [name |-> name, inode_sector |-> s]]

\* A bug: the inode is not closed.
dir_remove_open(f, d, name) ==
    LET g == Access(f, InodeOf(f, d))
        s == SectorOf(f, name)
        erased == [g EXCEPT !.dir = [k \in Slots |-> IF k \in lookup(f, d, name) THEN None
                                                     ELSE @[k]]]
    IN  IF lookup(f, d, name) = {} THEN g ELSE inode_remove(inode_open(erased, s), s)

dir_remove(f, d, name) ==
    LET g == Access(f, InodeOf(f, d))
        s == SectorOf(f, name)
        erased == [g EXCEPT !.dir = [k \in Slots |-> IF k \in lookup(f, d, name) THEN None
                                                     ELSE @[k]]]
    IN  IF lookup(f, d, name) = {} THEN g
        ELSE inode_close(inode_remove(inode_open(erased, s), s), s)

\* What dir_readdir still delivers of cwd: names, by their slots.
Listing(f) == [k \in {i \in Slots : i > f.cwd.pos /\ f.dir[i] # None} |-> f.dir[k].name]

Listed(f) == [Access(f, f.cwd.inode) EXCEPT !.cwd.pos = Cardinality(Slots)]

----------------------------------------------------------------------------
(* filesys.c                                                               *)

\* A bug: the sector is not given back when the name is taken.
Created_leak(f, g, s, name) ==
    IF g.free_map = f.free_map THEN g
    ELSE IF name = NoName \/ lookup(g, Cwd, name) # {} THEN g
    ELSE dir_add(g, name, s)

\* The middle of filesys_create, f before and g after the allocation of s.
Created(f, g, s, name) ==
    IF g.free_map = f.free_map THEN g
    ELSE IF name = NoName \/ lookup(g, Cwd, name) # {} THEN free_map_release(g, s)
    ELSE dir_add(g, name, s)

\* Any directory in front of the name is ignored.
filesys_create(f, p) ==
    LET g == Access(dir_open_root(f), dir_open_root(f).cwd.inode)
    IN  IF g.stopped THEN g
        ELSE dir_close(Created(g, free_map_allocate(g), bitmap_scan(g.free_map, 0, 1, FALSE),
                               p.name), Cwd)

\* filesys_open: the state and the inode of the file.  The path "/" is the
\* root directory itself, whose handle stays open.
filesys_open(f, p) ==
    LET g == dir_open_root(f)
        r == dir_lookup(g, Cwd, p.name)
        opened == IF p.name = NoName THEN [f |-> g, inode |-> g.cwd.inode]
                  ELSE [f |-> dir_close(r.f, Cwd), inode |-> r.inode]
    IN  IF opened.inode = None THEN opened
        ELSE [opened EXCEPT !.f = Access(@, opened.inode)]

filesys_remove(f, p) ==
    LET r == dir_open_path(f, p.prefix)
    IN  IF r.dir = None THEN r.f
        ELSE dir_close(dir_remove(r.f, r.dir, p.name), r.dir)

----------------------------------------------------------------------------
(* file.c and fsutil.c                                                     *)

Table(f) == Files!Elements(f.file_table)

IsOpen(f, p) == p \in Table(f)

\* The entry of p goes: its links in L are nobody's any more.
Unlinked(f, p, L) == [f EXCEPT !.entry[p] = None,
                               !.file_table = [L EXCEPT ![p] = Files!llist_init[p]]]

\* A bug: the first entry is taken for the one of the name.
remove_from_file_table_first(f, p) ==
    LET e == Files!list_begin(f.file_table)
    IN  IF ~IsOpen(f, p) THEN f
        ELSE Unlinked(inode_close(f, f.entry[e]), e, Files!list_remove(f.file_table, e))

remove_from_file_table(f, p) ==
    IF ~IsOpen(f, p) THEN f
    ELSE Unlinked(inode_close(f, f.entry[p]), p, Files!list_remove(f.file_table, p))

add_to_file_table(f, p, s) ==
    [f EXCEPT !.entry[p] = s, !.file_table = Files!list_push_back(@, p)]

\* What get_file_by_fname did not find, with what filesys_open returned.
Added(r, p) == IF r.inode = None \/ r.f.stopped THEN r.f ELSE add_to_file_table(r.f, p, r.inode)

OpenFile(f, p) == IF IsOpen(f, p) THEN f ELSE Added(filesys_open(f, p), p)

\* A use of the open file's inode, when there is one.
Touched(f, p) == IF IsOpen(f, p) THEN Access(f, f.entry[p]) ELSE f

\* fsutil_write, fsutil_read, fsutil_size and copy_out.  Nobody writes text to
\* the path "/", over the entries of the directory.
Used(f, p) == Touched(OpenFile(f, p), p)

\* fsutil_seek moves the position and does not look at the inode.
fsutil_seek(f, p) == OpenFile(f, p)

fsutil_create(f, p) == filesys_create(f, p)

\* A file that cat opened is closed again.
fsutil_cat(f, p) == IF IsOpen(f, p) THEN Used(f, p) ELSE remove_from_file_table(Used(f, p), p)

\* A bug: the file is not closed.
fsutil_rm_open(f, p) == filesys_remove(f, p)

fsutil_rm(f, p) == filesys_remove(remove_from_file_table(f, p), p)

fsutil_ls(f) == dir_close(Listed(dir_open_root(f)), Cwd)

----------------------------------------------------------------------------
(* fsutil2.c and filesys_done                                              *)

\* The file must be there after the create, which may fail, and the write.
Copied(f, p) == IF IsOpen(f, p) THEN f ELSE Stop(f)

\* A copy needs a sector for the inode and one for the contents.
copy_in(f, p) == IF num_free_sectors(f) < 2 THEN f
                 ELSE Copied(Used(fsutil_create(f, p), p), p)

\* The file is made anew, written and rewound.
Rewritten(f, n) == fsutil_seek(Used(fsutil_create(f, Plain(n)), Plain(n)), Plain(n))

\* The bodies of the loops over names: fsutil_size of the file (and a search or
\* a copy of its contents), its removal, and its creation.
Body(loop, f, n) == CASE loop = "size" -> Used(f, Plain(n))
                      [] loop = "rm" -> fsutil_rm(f, Plain(n))
                      [] loop = "create" -> Rewritten(f, n)

\* What a loop does for slot k, whose name is listed or is not.
Turn(loop, f, names, k) == IF k \in DOMAIN names THEN Body(loop, f, names[k]) ELSE f

ForEach(loop, f, names) ==
    LET N == Cardinality(Names)
        after[k \in 0 .. N] == IF k = 0 THEN f ELSE Turn(loop, after[k - 1], names, k)
    IN  after[N]

\* fsutil_size of every file that is listed, with the root directory open.
SizeEach(f) == dir_close(ForEach("size", Listed(f), Listing(f)), Cwd)

\* find_file, fragmentation_degree and recover 2.
OpenAll(f) == SizeEach(dir_open_root(f))

defragment(f) ==
    LET names == Listing(dir_open_root(f))
    IN  ForEach("create", ForEach("rm", OpenAll(f), names), names)

(***************************************************************************)
(* free_file_table: list_pop_front takes the entry off and list_remove     *)
(* does so again, by the links it kept.                                    *)
(***************************************************************************)
Popped(f) ==
    LET p == Files!list_begin(f.file_table)
    IN  Unlinked(inode_close(f, f.entry[p]), p,
                 Files!list_remove(Files!list_pop_front(f.file_table), p))

free_file_table(f) ==
    LET N == Cardinality(Table(f))
        after[i \in 0 .. N] == IF i = 0 THEN f ELSE Popped(after[i - 1])
    IN  after[N]

\* free_map_close first: the inode of the free map's file is closed.
filesys_done(f) == free_file_table(inode_close(f, FREE_MAP_SECTOR))

----------------------------------------------------------------------------
(* The shell's commands.                                                   *)

\* The names by which the file of path p is open.
Holders(f, p) == {q \in Table(f) : q.name = p.name}

(***************************************************************************)
(* Path p is a name in the root directory, and its file is not open under  *)
(* another one.                                                            *)
(***************************************************************************)
Single(f, p) == /\ p.prefix \in {"", "/"} /\ p.name # NoName
                /\ Holders(f, p) \subseteq {p}

\* A program that used freed memory or failed an assertion is not followed.
Do(f, single) == /\ ~o.stopped
                 /\ o' = [(IF f.stopped THEN Stop(o) ELSE f) EXCEPT
                            !.aliased = o.aliased \/ ~single]

Create(p) == Do(fsutil_create(o, p), Single(o, p))
CopyIn(p) == p.name # NoName /\ Do(copy_in(o, p), Single(o, p))   \* a host file
Use(p)    == Do(Used(o, p), Single(o, p))
Seek(p)   == Do(fsutil_seek(o, p), Single(o, p))
Cat(p)    == Do(fsutil_cat(o, p), Single(o, p))
Rm(p)     == Do(fsutil_rm(o, p), Single(o, p))
Ls        == Do(fsutil_ls(o), TRUE)

AllSingle == \A n \in Names : Single(o, Plain(n))
Search     == Do(OpenAll(o), AllSingle)
Defragment == Do(defragment(o), AllSingle)

\* quit, and the next start on the device.
Quit == /\ ~o.stopped
        /\ o' = IF filesys_done(o).stopped THEN Stop(o)
                ELSE Started(filesys_done(o).dir, filesys_done(o).free_map_file)

Next == \/ \E p \in Paths : Create(p) \/ CopyIn(p) \/ Use(p) \/ Seek(p) \/ Cat(p)
        \/ \E p \in Paths \cup RmPaths : Rm(p)
        \/ Ls \/ Search \/ Defragment \/ Quit

Spec == Init /\ [][Next]_o

----------------------------------------------------------------------------
Live(s) == s # Freed /\ o.inode[s] # None

\* The table's pointers to the inode of sector s.
Pointers(s) == {p \in Paths : o.entry[p] = s}

(***************************************************************************)
(* Both lists are whole: read in either direction they have the same       *)
(* elements, which are exactly the open inodes and the allocated entries,  *)
(* also after an element was taken off twice (free_file_table).            *)
(***************************************************************************)
ListsWhole == ~o.stopped =>
    /\ Inodes!Linked(o.open_inodes, {s \in Sectors : o.inode[s] # None})
    /\ Files!Linked(o.file_table, {p \in Paths : o.entry[p] # None})
    /\ Inodes!Elements(o.open_inodes) = {s \in Sectors : o.inode[s] # None}
    /\ Table(o) = {p \in Paths : o.entry[p] # None}

TypeOK ==
    /\ o.dir \in [Slots -> {None} \cup [name : Names, inode_sector : Sectors]]
    /\ o.free_map.bit_cnt = block_size - 1
    /\ o.free_map.bits \in [0 .. elem_cnt(block_size - 1) - 1 -> SUBSET (0 .. ELEM_BITS - 1)]
    /\ o.inode \in [Sectors -> {None} \cup [open_cnt : {1}, removed : {FALSE}]]
    /\ o.entry \in [Paths -> {None, Freed} \cup Sectors]
    /\ o.cwd = None \/ o.cwd.pos \in {0, Cardinality(Slots)}

(***************************************************************************)
(* As long as no file is used under a second name while it is open, every  *)
(* open is closed exactly once: the program never uses a freed inode, each *)
(* table entry has an inode of its own, no other inode but the free map's  *)
(* stays open, and nobody keeps the root directory open.                   *)
(***************************************************************************)
CountsExact == ~o.aliased =>
    /\ ~o.stopped /\ o.cwd = None
    /\ \A p \in Paths : o.entry[p] # None => Live(o.entry[p])
    /\ \A s \in Sectors \ {FREE_MAP_SECTOR} :
         Cardinality(Pointers(s)) = IF Live(s) THEN o.inode[s].open_cnt ELSE 0

(***************************************************************************)
(* Under the same condition an open file is still listed, under its name   *)
(* and in its sector: no handle outlives the file, to write to another one *)
(* that got the sector.                                                    *)
(***************************************************************************)
HandlesListed == ~o.aliased => \A p \in Paths : o.entry[p] # None =>
    \E k \in Slots : o.dir[k] = [name |-> p.name, inode_sector |-> o.entry[p]]

(***************************************************************************)
(* The free map, in memory and on the device, marks the sectors of the     *)
(* listed files and the two fixed ones, whatever names were used; freespace*)
(* counts the others, and no two files have one sector.                    *)
(***************************************************************************)
Used_slots == {k \in Slots : o.dir[k] # None}

MapAgrees == ~o.stopped =>
    /\ Marked(o.free_map) = {o.dir[k].inode_sector : k \in Used_slots}
                             \cup {FREE_MAP_SECTOR, ROOT_DIR_SECTOR}
    /\ o.free_map_file = bitmap_write(o.free_map)
    /\ num_free_sectors(o) = o.free_map.bit_cnt - 2 - Cardinality(Used_slots)
    /\ \A j, k \in Used_slots : j # k =>
         o.dir[j].name # o.dir[k].name /\ o.dir[j].inode_sector # o.dir[k].inode_sector

(***************************************************************************)
(* A command on path p closes or frees only what is open under p's own     *)
(* name or, when p goes through another file as if it were a directory,    *)
(* under that one's: all other open files stay open, also when names were  *)
(* mixed before.                                                           *)
(***************************************************************************)
Command(p) == \/ Rm(p)
              \/ p \in Paths /\ (Create(p) \/ CopyIn(p) \/ Use(p) \/ Seek(p) \/ Cat(p))

OthersStayOpen ==
    [][\A p \in Paths \cup RmPaths : Command(p) =>
         o'.stopped \/ \A q \in Paths :
            o.entry[q] # None /\ q.name \notin {p.name, p.prefix, NoName} =>
               o'.entry[q] = o.entry[q]]_o
=============================================================================

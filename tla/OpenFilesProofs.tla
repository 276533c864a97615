--------------------------- MODULE OpenFilesProofs ---------------------------
(***************************************************************************)
(* The open inodes, the file table, the directory and the free map agree   *)
(* after every command, for every set of names, every device and every way *)
(* to write a path; and as long as no file is used under two names,        *)
(* everything that is opened is closed once.                               *)
(***************************************************************************)
EXTENDS OpenFiles, BitmapProofs, FiniteSetTheorems

IL == INSTANCE ListProofs WITH Elems <- Sectors
FL == INSTANCE ListProofs WITH Elems <- Paths

----------------------------------------------------------------------------
(* The parts of the inductive invariant, of a state f between two          *)
(* operations of a command.                                                *)

Fields == {"dir", "free_map", "free_map_file", "inode", "open_inodes", "entry", "file_table",
           "cwd", "stopped", "aliased"}

Rec(f) == DOMAIN f = Fields

\* A state that is not followed any more: it stays one, whatever it holds.
Halted(f) == Rec(f) /\ f.stopped = TRUE

Bits == block_size - 1

Listing1 == [name : Names, inode_sector : 2 .. block_size - 2]
Held == [open_cnt : {1}, removed : {FALSE}]
Handle == [inode : {ROOT_DIR_SECTOR, Freed}, open_cnt : Nat \ {0}, pos : {0, Cardinality(Slots)}]

HasFile(f, n, s) == \E k \in Slots : f.dir[k] = [name |-> n, inode_sector |-> s]

Taken(f, s) == \E k \in Slots : f.dir[k] # None /\ f.dir[k].inode_sector = s

LiveInodes(f) == {s \in Sectors : f.inode[s] # None}

OpenEntries(f) == {p \in Paths : f.entry[p] # None}

\* No name and no sector is in two slots.
DirOK(f) ==
    /\ f.dir \in [Slots -> {None} \cup Listing1]
    /\ \A j, k \in Slots : f.dir[j] # None /\ f.dir[k] # None /\ j # k =>
         f.dir[j].name # f.dir[k].name /\ f.dir[j].inode_sector # f.dir[k].inode_sector

\* The bits of the last element behind the last bit are 0.
Fits(b) == \A k \in 0 .. elem_cnt(Bits) - 1 : \A x \in b.bits[k] : (k * ELEM_BITS) + x < Bits

MapOK(f) ==
    /\ IsBitmap(f.free_map, Bits) /\ Fits(f.free_map)
    /\ f.free_map_file = f.free_map.bits
    /\ \A s \in 0 .. Bits - 1 : bitmap_test(f.free_map, s) <=> s \in {0, 1} \/ Taken(f, s)

InodesOK(f) == f.inode \in [Sectors -> {None} \cup Held]

\* What the entry of a path may point to: the root directory for "/", and else
\* the open inode of the file that is listed under the name.
PointsTo(f, p, s) ==
    /\ s \in Sectors /\ f.inode[s] # None
    /\ p.name = NoName => s = ROOT_DIR_SECTOR
    /\ p.name # NoName => HasFile(f, p.name, s)

HandlesOK(f) ==
    /\ f.entry = [p \in Paths |-> f.entry[p]]
    /\ \A p \in Paths : f.entry[p] \in {None, Freed} \/ PointsTo(f, p, f.entry[p])

CwdOK(f) ==
    /\ f.cwd \in {None} \cup Handle
    /\ f.cwd # None /\ f.cwd.inode = ROOT_DIR_SECTOR => f.inode[ROOT_DIR_SECTOR] # None

ListsOK(f) ==
    /\ IL!IsList(f.open_inodes, LiveInodes(f))
    /\ FL!IsList(f.file_table, OpenEntries(f))

Core(f) == Rec(f) /\ DirOK(f) /\ MapOK(f) /\ InodesOK(f) /\ HandlesOK(f) /\ CwdOK(f) /\ ListsOK(f)

Good(f) == Core(f) /\ f.stopped = FALSE

\* The open entries of other names than those of N are the same, and none but
\* those of the paths in P were opened.
Kept(f, g, N, P) ==
    /\ \A q \in Paths : f.entry[q] # None /\ q.name \notin N => g.entry[q] = f.entry[q]
    /\ \A q \in Paths : f.entry[q] = None /\ q \notin P => g.entry[q] = None

\* What an operation that starts in a good state f ends in.
Outcome(f, g, N, P) == Halted(g) \/ (Good(g) /\ Kept(f, g, N, P))

----------------------------------------------------------------------------
(* What the assumptions say of the pointers.                               *)
LEMMA Constants ==
    /\ Bits \in Nat /\ Bits > 2 /\ Sectors = 0 .. Bits /\ 0 .. Bits - 1 \subseteq Sectors
    /\ {0, 1} \subseteq 0 .. Bits - 1
    /\ FREE_MAP_SECTOR = 0 /\ ROOT_DIR_SECTOR = 1 /\ 0 \in Sectors /\ 1 \in Sectors
    /\ Cardinality(Names) \in Nat /\ Cardinality(Slots) = Cardinality(Names)
    /\ IsFiniteSet(Slots) /\ IsFiniteSet(Sectors)
    /\ None \notin Sectors /\ None \notin Paths /\ Freed \notin Sectors /\ Cwd \notin Sectors
    /\ None # Freed /\ None # Cwd /\ Freed # Cwd
    /\ None \notin Listing1 /\ None \notin Held /\ None \notin Handle
<1>1. Cardinality(Names) \in Nat
  BY PathsAssumption, FS_CardinalityType
<1>2. IsFiniteSet(Slots) /\ Cardinality(Slots) = Cardinality(Names)
  BY <1>1, FS_Interval DEF Slots
<1>3. block_size \in Nat /\ block_size > 3
  BY PathsAssumption
<1>4. IsFiniteSet(Sectors)
  <2>1. 0 \in Int /\ block_size - 1 \in Int
    BY <1>3
  <2>2. QED
    BY <2>1, FS_Interval DEF Sectors
<1>5. /\ None \notin Sectors /\ None \notin Paths /\ Freed \notin Sectors /\ Cwd \notin Sectors
      /\ None # Freed /\ None # Cwd /\ Freed # Cwd
  BY PointersAssumption
<1>6. /\ Bits \in Nat /\ Bits > 2 /\ Sectors = 0 .. Bits /\ 0 .. Bits - 1 \subseteq Sectors
      /\ {0, 1} \subseteq 0 .. Bits - 1
      /\ FREE_MAP_SECTOR = 0 /\ ROOT_DIR_SECTOR = 1 /\ 0 \in Sectors /\ 1 \in Sectors
  BY <1>3 DEF Bits, Sectors, FREE_MAP_SECTOR, ROOT_DIR_SECTOR
<1>7. None \notin Listing1
  <2>1. Listing1 \subseteq [name : Names, inode_sector : Sectors]
    BY <1>3 DEF Listing1, Sectors
  <2>2. QED
    BY <2>1, PointersAssumption
<1>8. None \notin Held
  <2>1. {FALSE} \subseteq BOOLEAN /\ {1} \subseteq Nat
    OBVIOUS
  <2>2. Held \subseteq [open_cnt : Nat, removed : BOOLEAN]
    BY <2>1, Zenon DEF Held
  <2>3. QED
    BY <2>2, PointersAssumption
<1>9. None \notin Handle
  <2>1. Handle \subseteq [inode : Sectors \cup {Freed}, open_cnt : Nat, pos : Nat]
    BY <1>1, <1>2, <1>6 DEF Handle
  <2>2. QED
    BY <2>1, PointersAssumption
<1>10. QED
  BY <1>1, <1>2, <1>4, <1>5, <1>6, <1>7, <1>8, <1>9

LEMMA ListHeaders == IL!Headers /\ FL!Headers
<1>1. IL!Headers
  BY PointersAssumption DEF IL!Headers
<1>2. FL!Headers
  BY PointersAssumption DEF FL!Headers
<1>3. QED
  BY <1>1, <1>2

\* A path of the table is a record.
LEMMA PathName ==
    ASSUME NEW p \in Paths \cup RmPaths
    PROVE  /\ p.name \in Names \cup {NoName} /\ p.name # "." /\ p.name # "/"
           /\ p = [prefix |-> p.prefix, name |-> p.name]
           /\ p.prefix \in {"", "/", "."} \cup Names
  BY PathsAssumption DEF NoName

LEMMA SameElements ==
    ASSUME NEW L
    PROVE  Inodes!Elements(L) = IL!Elements(L) /\ Files!Elements(L) = FL!Elements(L)
<1>1. Inodes!Elements(L) = IL!Elements(L)
  BY DEF IL!Cardinality, Inodes!Cardinality, IL!Elements, Inodes!Elements,
         IL!list_begin, Inodes!list_begin, IL!list_next, Inodes!list_next
<1>2. Files!Elements(L) = FL!Elements(L)
  BY DEF FL!Cardinality, Files!Cardinality, FL!Elements, Files!Elements,
         FL!list_begin, Files!list_begin, FL!list_next, Files!list_next
<1>3. QED
  BY <1>1, <1>2

(* The loops over the two lists visit what is open.                        *)
LEMMA Visits ==
    ASSUME NEW f, ListsOK(f)
    PROVE  /\ Inodes!Elements(f.open_inodes) = LiveInodes(f)
           /\ Table(f) = OpenEntries(f)
<1>1. IL!Elements(f.open_inodes) = LiveInodes(f)
  <2>1. IL!IsFiniteSet(Sectors)
    BY Constants DEF IL!IsFiniteSet, IsFiniteSet
  <2>2. QED
    BY <2>1, ListHeaders, Constants, IL!LoopVisits DEF ListsOK
<1>2. FL!Elements(f.file_table) = OpenEntries(f)
  <2>1. FL!IsFiniteSet(Paths)
    BY PathsAssumption DEF FL!IsFiniteSet, IsFiniteSet
  <2>2. QED
    BY <2>1, ListHeaders, Constants, FL!LoopVisits DEF ListsOK
<1>3. QED
  BY <1>1, <1>2, SameElements DEF Table

----------------------------------------------------------------------------
(* A state that is halted stays so.                                        *)
LEMMA InodeHalts ==
    ASSUME NEW f, Halted(f), NEW s
    PROVE  /\ Halted(Stop(f)) /\ Halted(Access(f, s)) /\ Halted(inode_open(f, s))
           /\ Halted(Free(f, s)) /\ Halted(free_map_release(f, s)) /\ Halted(inode_close(f, s))
           /\ Halted(inode_remove(f, s)) /\ Halted(free_map_allocate(f))
<1>1. Halted(Stop(f)) /\ Halted(inode_remove(f, s))
  BY DEF Halted, Rec, Fields, Stop, inode_remove
<1>2. Halted(Access(f, s))
  BY <1>1 DEF Access
<1>3. Halted(inode_open(f, s))
  BY DEF Halted, Rec, Fields, inode_open
<1>4. Halted(Free(f, s))
  BY DEF Halted, Rec, Fields, Free
<1>5. ASSUME NEW g, Halted(g) PROVE Halted(free_map_release(g, s))
  BY <1>5 DEF Halted, Rec, Fields, free_map_release, Stop
<1>6. Halted([f EXCEPT !.inode[s].open_cnt = @ - 1])
  BY DEF Halted, Rec, Fields
<1>7. Halted(inode_close(f, s))
  BY <1>1, <1>4, <1>5, <1>6, Zenon DEF inode_close
<1>8. Halted(free_map_allocate(f))
  BY DEF Halted, Rec, Fields, free_map_allocate
<1>9. QED
  BY <1>1, <1>2, <1>3, <1>4, <1>5, <1>7, <1>8

LEMMA DirectoryHalts ==
    ASSUME NEW f, Halted(f), NEW d, NEW name, NEW s
    PROVE  /\ Halted(dir_open_root(f)) /\ Halted(dir_close(f, d))
           /\ Halted(dir_lookup(f, d, name).f) /\ Halted(dir_add(f, name, s))
           /\ Halted(dir_remove(f, d, name)) /\ Halted(Listed(f))
<1>1. Halted([f EXCEPT !.cwd.open_cnt = @ + 1]) /\ Halted([f EXCEPT !.cwd.open_cnt = @ - 1])
  BY DEF Halted, Rec, Fields
<1>2. ASSUME NEW g, Halted(g), NEW x PROVE Halted([g EXCEPT !.cwd = x])
  BY <1>2 DEF Halted, Rec, Fields
<1>3. Halted(dir_open_root(f))
  BY <1>1, <1>2, InodeHalts, Zenon DEF dir_open_root
<1>4. Halted(dir_close(f, d))
  BY <1>1, <1>2, InodeHalts, Zenon DEF dir_close
<1>5. Halted(dir_lookup(f, d, name).f)
  <2>1. Halted(Access(f, InodeOf(f, d)))
    BY InodeHalts
  <2>2. Halted(inode_open(Access(f, InodeOf(f, d)), SectorOf(f, name)))
    BY <2>1, InodeHalts
  <2>3. CASE name = "."
    BY <2>3 DEF dir_lookup
  <2>4. CASE name # "." /\ lookup(f, d, name) = {}
    BY <2>1, <2>4 DEF dir_lookup
  <2>5. CASE name # "." /\ lookup(f, d, name) # {}
    <3> HIDE DEF Halted
    <3> QED
      BY <2>2, <2>5 DEF dir_lookup
  <2>6. QED
    BY <2>3, <2>4, <2>5
<1>6. Halted(dir_add(f, name, s))
  BY DEF Halted, Rec, Fields, dir_add
<1>7. Halted(dir_remove(f, d, name))
  <2>1. Halted(Access(f, InodeOf(f, d)))
    BY InodeHalts
  <2>2. ASSUME NEW g, Halted(g)
        PROVE  Halted([g EXCEPT !.dir = [k \in Slots |-> IF k \in lookup(f, d, name) THEN None
                                                         ELSE @[k]]])
    BY <2>2 DEF Halted, Rec, Fields
  <2>3. QED
    BY <2>1, <2>2, InodeHalts, Zenon DEF dir_remove
<1>8. Halted(Listed(f))
  <2>1. ASSUME NEW g, Halted(g), NEW x PROVE Halted([g EXCEPT !.cwd.pos = x])
    BY <2>1 DEF Halted, Rec, Fields
  <2>2. Halted(Access(f, f.cwd.inode))
    BY InodeHalts
  <2>3. QED
    BY <2>1, <2>2, Zenon DEF Listed
<1>9. QED
  BY <1>3, <1>4, <1>5, <1>6, <1>7, <1>8

LEMMA PathHalts ==
    ASSUME NEW f, Halted(f), NEW d, NEW m, NEW prefix
    PROVE  /\ Halted(NotRemoved(f, d).f) /\ Halted(Component(f, d, m).f)
           /\ Halted(dir_open_path(f, prefix).f)
<1>1. ASSUME NEW g, Halted(g), NEW e PROVE Halted(NotRemoved(g, e).f)
  <2>1. Access(g, InodeOf(g, e)).stopped = TRUE
    BY <1>1, InodeHalts DEF Halted
  <2>2. Halted(Stop(g))
    BY <1>1, InodeHalts
  <2>3. QED
    BY <2>1, <2>2 DEF NotRemoved
<1>2. ASSUME NEW g, Halted(g), NEW e, NEW c PROVE Halted(Component(g, e, c).f)
  <2> DEFINE r == dir_lookup(g, e, c)
  <2>1. Halted(dir_close(r.f, e))
    BY <1>2, DirectoryHalts
  <2>2. Halted(NotRemoved(dir_close(r.f, e), r.inode).f)
    BY <1>1, <2>1
  <2> HIDE DEF r
  <2>3. QED
    BY <2>1, <2>2 DEF Component, r
<1>3. Halted(dir_open_path(f, prefix).f)
  <2>1. Halted(dir_open_root(f))
    BY DirectoryHalts
  <2>2. ASSUME NEW g, NEW e, g = f \/ g = dir_open_root(f)
        PROVE  Halted(NotRemoved(g, e).f) /\ Halted(Component(g, e, prefix).f)
    <3>1. Halted(g)
      BY <2>1, <2>2
    <3>2. Halted(NotRemoved(g, e).f)
      BY <1>1, <3>1
    <3>3. Halted(Component(g, e, prefix).f)
      BY <1>2, <3>1
    <3>4. QED
      BY <3>2, <3>3
  <2> HIDE DEF Halted
  <2>3. QED
    BY <2>2, Zenon DEF dir_open_path
<1>4. QED
  BY <1>1, <1>2, <1>3

LEMMA FilesysHalts ==
    ASSUME NEW f, Halted(f), NEW p, NEW g, Halted(g), NEW s, NEW name
    PROVE  /\ Halted(Created(f, g, s, name)) /\ Halted(filesys_create(f, p))
           /\ Halted(filesys_open(f, p).f) /\ Halted(filesys_remove(f, p))
<1>1. Halted(Created(f, g, s, name))
  BY InodeHalts, DirectoryHalts, Zenon DEF Created
<1>2. Halted(filesys_create(f, p))
  <2>1. Halted(Access(dir_open_root(f), dir_open_root(f).cwd.inode))
    BY InodeHalts, DirectoryHalts
  <2>2. QED
    BY <2>1 DEF filesys_create, Halted
<1>3. Halted(filesys_open(f, p).f)
  <2> DEFINE h == dir_open_root(f)
             r == dir_lookup(h, Cwd, p.name)
             opened == IF p.name = NoName THEN [f |-> h, inode |-> h.cwd.inode]
                       ELSE [f |-> dir_close(r.f, Cwd), inode |-> r.inode]
  <2>1. Halted(h)
    BY DirectoryHalts
  <2>2. Halted(dir_close(r.f, Cwd))
    BY <2>1, DirectoryHalts
  <2>3. Halted(opened.f) /\ opened = [f |-> opened.f, inode |-> opened.inode]
    <3> HIDE DEF h, r
    <3> QED
      BY <2>1, <2>2
  <2>4. filesys_open(f, p) = IF opened.inode = None THEN opened
                             ELSE [opened EXCEPT !.f = Access(@, opened.inode)]
    BY Zenon DEF filesys_open
  <2> HIDE DEF opened
  <2>5. Halted(Access(opened.f, opened.inode))
    BY <2>3, InodeHalts
  <2>6. filesys_open(f, p).f \in {opened.f, Access(opened.f, opened.inode)}
    BY <2>3, <2>4
  <2>7. QED
    BY <2>3, <2>5, <2>6
<1>4. Halted(filesys_remove(f, p))
  <2>1. Halted(dir_open_path(f, p.prefix).f)
    BY PathHalts
  <2>2. QED
    BY <2>1, DirectoryHalts, Zenon DEF filesys_remove
<1>5. QED
  BY <1>1, <1>2, <1>3, <1>4

LEMMA FileHalts ==
    ASSUME NEW f, Halted(f), NEW p
    PROVE  /\ Halted(remove_from_file_table(f, p)) /\ Halted(OpenFile(f, p))
           /\ Halted(Used(f, p)) /\ Halted(fsutil_seek(f, p)) /\ Halted(fsutil_create(f, p))
           /\ Halted(fsutil_cat(f, p)) /\ Halted(fsutil_rm(f, p)) /\ Halted(copy_in(f, p))
<1>1. ASSUME NEW g, Halted(g) PROVE Halted(remove_from_file_table(g, p))
  <2>1. ASSUME NEW h, Halted(h), NEW L PROVE Halted(Unlinked(h, p, L))
    BY <2>1 DEF Halted, Rec, Fields, Unlinked
  <2>2. QED
    BY <1>1, <2>1, InodeHalts DEF remove_from_file_table
<1>2. ASSUME NEW g, Halted(g) PROVE Halted(OpenFile(g, p))
  <2>1. Halted(filesys_open(g, p).f)
    BY <1>2, FilesysHalts
  <2>2. QED
    BY <1>2, <2>1 DEF OpenFile, Added, Halted
<1>3. ASSUME NEW g, Halted(g) PROVE Halted(Used(g, p))
  <2>1. Halted(OpenFile(g, p))
    BY <1>2, <1>3
  <2>2. QED
    BY <2>1, InodeHalts DEF Used, Touched
<1>4. ASSUME NEW g, Halted(g) PROVE Halted(fsutil_create(g, p))
  BY <1>4, FilesysHalts DEF fsutil_create
<1>5. Halted(fsutil_seek(f, p)) /\ Halted(fsutil_cat(f, p))
  BY <1>1, <1>2, <1>3 DEF fsutil_seek, fsutil_cat
<1>6. Halted(fsutil_rm(f, p))
  BY <1>1, FilesysHalts DEF fsutil_rm
<1>7. Halted(copy_in(f, p))
  <2>1. Halted(Used(fsutil_create(f, p), p))
    BY <1>3, <1>4
  <2>2. QED
    BY <2>1, InodeHalts DEF copy_in, Copied
<1>8. QED
  BY <1>1, <1>2, <1>3, <1>4, <1>5, <1>6, <1>7

LEMMA BodyHalts ==
    ASSUME NEW f, Halted(f), NEW loop \in {"size", "rm", "create"}, NEW n
    PROVE  Halted(Body(loop, f, n))
<1>1. Halted(Rewritten(f, n))
  <2>1. Halted(fsutil_create(f, Plain(n)))
    BY FileHalts
  <2>2. Halted(Used(fsutil_create(f, Plain(n)), Plain(n)))
    BY <2>1, FileHalts
  <2>3. QED
    BY <2>2, FileHalts DEF Rewritten
<1>2. Halted(Used(f, Plain(n))) /\ Halted(fsutil_rm(f, Plain(n)))
  BY FileHalts
<1>3. QED
  BY <1>1, <1>2 DEF Body

----------------------------------------------------------------------------
(* The loops: what holds before and is kept in each turn holds after.      *)
LEMMA UpTo ==
    ASSUME NEW N \in Nat, NEW S, 0 \in S, \A k \in 1 .. N : k - 1 \in S => k \in S
    PROVE  0 .. N \subseteq S
<1> DEFINE T == {k \in 0 .. N : k \notin S}
<1>1. SUFFICES ASSUME T # {} PROVE FALSE
  OBVIOUS
<1>2. T \subseteq Nat
  OBVIOUS
<1>3. PICK m \in T : \A k \in T : m <= k
  <2> HIDE DEF T
  <2> QED
    BY <1>1, <1>2, Least
<1>4. m # 0 /\ m \in 1 .. N /\ m - 1 \in 0 .. N /\ m - 1 < m
  OBVIOUS
<1>5. m - 1 \in S
  BY <1>3, <1>4
<1>6. QED
  BY <1>4, <1>5

LEMMA ForEachTurns ==
    ASSUME NEW loop, NEW f, NEW names
    PROVE  LET N == Cardinality(Names)
           IN  \E a : /\ a[0] = f /\ \A k \in 1 .. N : a[k] = Turn(loop, a[k - 1], names, k)
                      /\ ForEach(loop, f, names) = a[N]
<1> DEFINE N == Cardinality(Names)
           Rest(a) == [k \in 0 .. N |-> IF k = 0 THEN f ELSE Turn(loop, a[k - 1], names, k)]
           after == CHOOSE a : a = Rest(a)
           S == {n \in 0 .. N : \E a : /\ DOMAIN a = 0 .. n /\ a[0] = f
                                       /\ \A k \in 1 .. n : a[k] = Turn(loop, a[k - 1], names, k)}
<1>1. N \in Nat
  BY Constants
<1> HIDE DEF N
<1>2. 0 \in S
  <2> DEFINE a == [k \in 0 .. 0 |-> f]
  <2>1. DOMAIN a = 0 .. 0 /\ a[0] = f /\ \A k \in 1 .. 0 : FALSE
    OBVIOUS
  <2> HIDE DEF a
  <2>2. QED
    BY <1>1, <2>1
<1>3. ASSUME NEW n \in 1 .. N, n - 1 \in S PROVE n \in S
  <2>1. PICK a : /\ DOMAIN a = 0 .. n - 1 /\ a[0] = f
                 /\ \A k \in 1 .. n - 1 : a[k] = Turn(loop, a[k - 1], names, k)
    BY <1>3
  <2> DEFINE b == [k \in 0 .. n |-> IF k = n THEN Turn(loop, a[n - 1], names, n) ELSE a[k]]
  <2>2. DOMAIN b = 0 .. n /\ b[0] = f
    BY <2>1
  <2>3. ASSUME NEW k \in 1 .. n PROVE b[k] = Turn(loop, b[k - 1], names, k)
    <3>1. k - 1 \in 0 .. n /\ k - 1 # n /\ k \in 0 .. n
      OBVIOUS
    <3>2. b[k - 1] = a[k - 1]
      BY <3>1
    <3>3. CASE k = n
      BY <3>1, <3>2, <3>3
    <3>4. CASE k # n
      <4>1. k \in 1 .. n - 1 /\ b[k] = a[k]
        BY <3>1, <3>4
      <4>2. QED
        BY <4>1, <3>2, <2>1
    <3>5. QED
      BY <3>3, <3>4
  <2> HIDE DEF b
  <2>4. n \in 0 .. N
    OBVIOUS
  <2>5. QED
    BY <2>2, <2>3, <2>4
<1>4. N \in S
  <2> HIDE DEF S
  <2>1. 0 .. N \subseteq S
    BY <1>1, <1>2, <1>3, UpTo
  <2>2. QED
    BY <1>1, <2>1
<1>5. PICK a : /\ DOMAIN a = 0 .. N /\ a[0] = f
               /\ \A k \in 1 .. N : a[k] = Turn(loop, a[k - 1], names, k)
  BY <1>4
<1>6. \E b : b = Rest(b)
  <2> DEFINE b == [k \in 0 .. N |-> a[k]]
  <2>1. \A k \in 0 .. N : k # 0 => k \in 1 .. N /\ k - 1 \in 0 .. N
    BY <1>1
  <2>2. b = Rest(b)
    BY <1>5, <2>1
  <2> HIDE DEF b
  <2>3. QED
    BY <2>2
<1>7. after = Rest(after)
  BY <1>6
<1> HIDE DEF after
<1>8. after[0] = f /\ \A k \in 1 .. N : after[k] = Turn(loop, after[k - 1], names, k)
  BY <1>1, <1>7
<1>9. ForEach(loop, f, names) = after[N]
  BY DEF ForEach, after, N
<1>10. QED
  BY <1>8, <1>9 DEF N

LEMMA PoppedTurns ==
    ASSUME NEW f, NEW N \in Nat, N = Cardinality(Table(f))
    PROVE  \E a : /\ a[0] = f /\ \A k \in 1 .. N : a[k] = Popped(a[k - 1])
                  /\ free_file_table(f) = a[N]
<1> DEFINE Rest(a) == [k \in 0 .. N |-> IF k = 0 THEN f ELSE Popped(a[k - 1])]
           after == CHOOSE a : a = Rest(a)
           S == {n \in 0 .. N : \E a : /\ DOMAIN a = 0 .. n /\ a[0] = f
                                       /\ \A k \in 1 .. n : a[k] = Popped(a[k - 1])}
<1>2. 0 \in S
  <2> DEFINE a == [k \in 0 .. 0 |-> f]
  <2>1. DOMAIN a = 0 .. 0 /\ a[0] = f /\ \A k \in 1 .. 0 : FALSE
    OBVIOUS
  <2> HIDE DEF a
  <2>2. QED
    BY <2>1
<1>3. ASSUME NEW n \in 1 .. N, n - 1 \in S PROVE n \in S
  <2>1. PICK a : /\ DOMAIN a = 0 .. n - 1 /\ a[0] = f
                 /\ \A k \in 1 .. n - 1 : a[k] = Popped(a[k - 1])
    BY <1>3
  <2> DEFINE b == [k \in 0 .. n |-> IF k = n THEN Popped(a[n - 1]) ELSE a[k]]
  <2>2. DOMAIN b = 0 .. n /\ b[0] = f
    BY <2>1
  <2>3. ASSUME NEW k \in 1 .. n PROVE b[k] = Popped(b[k - 1])
    <3>1. k - 1 \in 0 .. n /\ k - 1 # n /\ k \in 0 .. n
      OBVIOUS
    <3>2. b[k - 1] = a[k - 1]
      BY <3>1
    <3>3. CASE k = n
      BY <3>1, <3>2, <3>3
    <3>4. CASE k # n
      <4>1. k \in 1 .. n - 1 /\ b[k] = a[k]
        BY <3>1, <3>4
      <4>2. QED
        BY <4>1, <3>2, <2>1
    <3>5. QED
      BY <3>3, <3>4
  <2> HIDE DEF b
  <2>4. n \in 0 .. N
    OBVIOUS
  <2>5. QED
    BY <2>2, <2>3, <2>4
<1>4. N \in S
  <2> HIDE DEF S
  <2>1. 0 .. N \subseteq S
    BY <1>2, <1>3, UpTo
  <2>2. QED
    BY <2>1
<1>5. PICK a : /\ DOMAIN a = 0 .. N /\ a[0] = f
               /\ \A k \in 1 .. N : a[k] = Popped(a[k - 1])
  BY <1>4
<1>6. \E b : b = Rest(b)
  <2> DEFINE b == [k \in 0 .. N |-> a[k]]
  <2>1. \A k \in 0 .. N : k # 0 => k \in 1 .. N /\ k - 1 \in 0 .. N
    OBVIOUS
  <2>2. b = Rest(b)
    BY <1>5, <2>1
  <2> HIDE DEF b
  <2>3. QED
    BY <2>2
<1>7. after = Rest(after)
  BY <1>6
<1> HIDE DEF after
<1>8. after[0] = f /\ \A k \in 1 .. N : after[k] = Popped(after[k - 1])
  BY <1>7
<1>9. free_file_table(f) = after[N]
  BY DEF free_file_table, after
<1>10. QED
  BY <1>8, <1>9

----------------------------------------------------------------------------
(* The list of open inodes (inode_open, inode_close).                      *)
LEMMA Opens ==
    ASSUME NEW f, Rec(f), InodesOK(f), ListsOK(f), NEW s \in Sectors
    PROVE  LET g == inode_open(f, s)
           IN  /\ Rec(g) /\ InodesOK(g) /\ ListsOK(g)
               /\ g.dir = f.dir /\ g.free_map = f.free_map /\ g.free_map_file = f.free_map_file
               /\ g.entry = f.entry /\ g.cwd = f.cwd /\ g.stopped = f.stopped
               /\ g.inode[s] = [open_cnt |-> 1, removed |-> FALSE] /\ g.inode[s] # None
               /\ \A t \in Sectors : t # s => g.inode[t] = f.inode[t]
<1> DEFINE g == inode_open(f, s)
           new == [open_cnt |-> 1, removed |-> FALSE]
<1>1. new \in Held /\ new # None /\ None \notin Held
  <2>1. new \in Held
    BY DEF Held
  <2> HIDE DEF new
  <2>2. QED
    BY <2>1, Constants
<1>2. s \in Inodes!Elements(f.open_inodes) <=> f.inode[s] # None
  BY Visits DEF LiveInodes
<1>3. CASE f.inode[s] # None
  <2>1. g = f
    BY <1>2, <1>3 DEF inode_open
  <2>2. f.inode[s] = new
    BY <1>3 DEF InodesOK, Held
  <2>3. QED
    BY <2>1, <2>2, <1>1
<1>4. CASE f.inode[s] = None
  <2>1. g = [f EXCEPT !.inode[s] = new, !.open_inodes = Inodes!list_push_front(@, s)]
    BY <1>2, <1>4 DEF inode_open
  <2> HIDE DEF g, new
  <2>2. /\ Rec(g) /\ g.dir = f.dir /\ g.free_map = f.free_map /\ g.free_map_file = f.free_map_file
        /\ g.entry = f.entry /\ g.cwd = f.cwd /\ g.stopped = f.stopped
        /\ g.inode = [f.inode EXCEPT ![s] = new] /\ g.file_table = f.file_table
        /\ g.open_inodes = Inodes!list_push_front(f.open_inodes, s)
    BY <2>1 DEF Rec, Fields
  <2>3. /\ InodesOK(g) /\ g.inode[s] = new
        /\ \A t \in Sectors : t # s => g.inode[t] = f.inode[t]
    BY <1>1, <2>2 DEF InodesOK
  <2>4. LiveInodes(g) = LiveInodes(f) \cup {s} /\ s \in Sectors \ LiveInodes(f)
    BY <1>1, <1>4, <2>3 DEF LiveInodes
  <2>5. OpenEntries(g) = OpenEntries(f)
    BY <2>2 DEF OpenEntries
  <2>6. g.open_inodes = IL!list_insert(f.open_inodes, IL!list_begin(f.open_inodes), s)
    BY <2>2 DEF Inodes!list_push_front, Inodes!list_insert, Inodes!list_begin,
                IL!list_insert, IL!list_begin
  <2>7. IL!IsList(g.open_inodes, LiveInodes(g))
    <3>1. IL!IsList(f.open_inodes, LiveInodes(f))
      BY DEF ListsOK
    <3>2. IL!list_begin(f.open_inodes) \in LiveInodes(f) \cup {tail}
      BY <3>1, ListHeaders, IL!BeginsList
    <3>3. QED
      BY <2>4, <2>6, <3>1, <3>2, ListHeaders, IL!InsertIsList
  <2>8. QED
    BY <1>1, <2>2, <2>3, <2>5, <2>7 DEF ListsOK, new, g
<1>5. QED
  BY <1>3, <1>4

LEMMA Frees ==
    ASSUME NEW f, Rec(f), ListsOK(f), DOMAIN f.inode = Sectors, DOMAIN f.entry = Paths,
           NEW s \in Sectors, f.inode[s] # None
    PROVE  LET g == Free(f, s)
           IN  /\ Rec(g) /\ ListsOK(g)
               /\ g.dir = f.dir /\ g.free_map = f.free_map /\ g.free_map_file = f.free_map_file
               /\ g.stopped = f.stopped
               /\ DOMAIN g.inode = Sectors /\ g.inode[s] = None
               /\ \A t \in Sectors : t # s => g.inode[t] = f.inode[t]
               /\ g.entry = [p \in Paths |-> g.entry[p]]
               /\ \A p \in Paths : g.entry[p] = IF f.entry[p] = s THEN Freed ELSE f.entry[p]
               /\ g.cwd = IF f.cwd # None /\ f.cwd.inode = s THEN [f.cwd EXCEPT !.inode = Freed]
                          ELSE f.cwd
<1> DEFINE g == Free(f, s)
           L == f.open_inodes
<1>1. /\ Rec(g) /\ g.dir = f.dir /\ g.free_map = f.free_map /\ g.free_map_file = f.free_map_file
      /\ g.stopped = f.stopped /\ g.file_table = f.file_table
      /\ g.inode = [f.inode EXCEPT ![s] = None]
      /\ g.entry = [p \in Paths |-> IF f.entry[p] = s THEN Freed ELSE f.entry[p]]
      /\ g.cwd = IF f.cwd # None /\ f.cwd.inode = s THEN [f.cwd EXCEPT !.inode = Freed]
                 ELSE f.cwd
      /\ g.open_inodes = [Inodes!list_remove(L, s) EXCEPT ![s] = Inodes!llist_init[s]]
  BY DEF Free, Rec, Fields
<1> HIDE DEF g
<1>2. /\ DOMAIN g.inode = Sectors /\ g.inode[s] = None
      /\ \A t \in Sectors : t # s => g.inode[t] = f.inode[t]
  BY <1>1
<1>3. LiveInodes(g) = LiveInodes(f) \ {s} /\ s \in LiveInodes(f) /\ s \in Sectors \ LiveInodes(g)
  BY <1>2 DEF LiveInodes
<1>4. OpenEntries(g) = OpenEntries(f)
  BY <1>1, Constants DEF OpenEntries
<1>5. g.open_inodes = [IL!list_remove(L, s) EXCEPT ![s] = IL!llist_init[s]]
  <2>1. Inodes!list_remove(L, s) = IL!list_remove(L, s)
    BY DEF Inodes!list_remove, IL!list_remove
  <2>2. Inodes!llist_init = IL!llist_init
    BY DEF Inodes!llist_init, IL!llist_init, Inodes!Nodes, IL!Nodes
  <2>3. QED
    BY <1>1, <2>1, <2>2
<1>6. IL!IsList(L, LiveInodes(f))
  BY DEF ListsOK
<1>7. IL!IsList(IL!list_remove(L, s), LiveInodes(g))
  BY <1>3, <1>6, ListHeaders, IL!RemoveIsList
<1>8. IL!IsList(g.open_inodes, LiveInodes(g))
  BY <1>3, <1>5, <1>7, ListHeaders, IL!ResetIsList
<1>9. FL!IsList(g.file_table, OpenEntries(g))
  BY <1>1, <1>4 DEF ListsOK
<1>10. QED
  BY <1>1, <1>2, <1>8, <1>9 DEF ListsOK, g

----------------------------------------------------------------------------
(* The operations on inodes and directory handles keep what is good, and   *)
(* leave the directory as it is.                                           *)
Stays(f, g, N, P) == Halted(g) \/ (Good(g) /\ Kept(f, g, N, P) /\ g.dir = f.dir)

LEMMA StaysTwice ==
    ASSUME NEW f, NEW g, NEW h, NEW N, NEW P,
           Stays(f, g, N, P), Halted(g) => Halted(h), Good(g) => Stays(g, h, N, P)
    PROVE  Stays(f, h, N, P)
<1>1. CASE Halted(g)
  BY <1>1 DEF Stays
<1>2. CASE Good(g) /\ Kept(f, g, N, P) /\ g.dir = f.dir
  <2>1. CASE Halted(h)
    BY <2>1 DEF Stays
  <2>2. CASE Good(h) /\ Kept(g, h, N, P) /\ h.dir = g.dir
    <3>1. Kept(f, h, N, P)
      BY <1>2, <2>2 DEF Kept
    <3>2. QED
      BY <1>2, <2>2, <3>1 DEF Stays
  <2>3. QED
    BY <1>2, <2>1, <2>2 DEF Stays
<1>3. QED
  BY <1>1, <1>2 DEF Stays

LEMMA OutcomeTwice ==
    ASSUME NEW f, NEW g, NEW h, NEW N, NEW P,
           Outcome(f, g, N, P), Halted(g) => Halted(h), Good(g) => Outcome(g, h, N, P)
    PROVE  Outcome(f, h, N, P)
<1>1. CASE Halted(g)
  BY <1>1 DEF Outcome
<1>2. CASE Good(g) /\ Kept(f, g, N, P)
  <2>1. CASE Halted(h)
    BY <2>1 DEF Outcome
  <2>2. CASE Good(h) /\ Kept(g, h, N, P)
    <3>1. Kept(f, h, N, P)
      BY <1>2, <2>2 DEF Kept
    <3>2. QED
      BY <2>2, <3>1 DEF Outcome
  <2>3. QED
    BY <1>2, <2>1, <2>2 DEF Outcome
<1>3. QED
  BY <1>1, <1>2 DEF Outcome

LEMMA StaysOutcome ==
    ASSUME NEW f, NEW g, NEW N, NEW P, Stays(f, g, N, P)
    PROVE  Outcome(f, g, N, P)
  BY DEF Stays, Outcome

(* A name is listed with one sector, which is in the data area, and a      *)
(* sector under one name.                                                  *)
LEMMA ListedOnce ==
    ASSUME NEW f, DirOK(f), NEW n \in Names, NEW s \in Sectors, HasFile(f, n, s)
    PROVE  /\ s \in 2 .. Bits - 1 /\ s # ROOT_DIR_SECTOR /\ Taken(f, s)
           /\ \A t \in Sectors : HasFile(f, n, t) => t = s
           /\ \A m \in Names : HasFile(f, m, s) => m = n
<1>1. ASSUME NEW m \in Names, NEW t \in Sectors
      PROVE  [name |-> m, inode_sector |-> t] # None
  BY PointersAssumption
<1>2. PICK k \in Slots : f.dir[k] = [name |-> n, inode_sector |-> s]
  BY DEF HasFile
<1>3. f.dir[k] # None /\ f.dir[k] \in Listing1
  BY <1>1, <1>2 DEF DirOK
<1>4. s \in 2 .. Bits - 1
  <2>1. s \in 2 .. block_size - 2
    BY <1>2, <1>3 DEF Listing1
  <2>2. block_size \in Nat
    BY PathsAssumption
  <2>3. QED
    BY <2>1, <2>2 DEF Bits
<1>5. s # ROOT_DIR_SECTOR
  BY <1>4 DEF ROOT_DIR_SECTOR
<1>6. Taken(f, s)
  BY <1>2, <1>3 DEF Taken
<1>7. ASSUME NEW t \in Sectors, HasFile(f, n, t) PROVE t = s
  <2>1. PICK j \in Slots : f.dir[j] = [name |-> n, inode_sector |-> t]
    BY <1>7 DEF HasFile
  <2>2. f.dir[j] # None
    BY <1>1, <2>1
  <2>3. j = k
    BY <1>2, <1>3, <2>1, <2>2 DEF DirOK
  <2>4. QED
    BY <1>2, <2>1, <2>3
<1>8. ASSUME NEW m \in Names, HasFile(f, m, s) PROVE m = n
  <2>1. PICK j \in Slots : f.dir[j] = [name |-> m, inode_sector |-> s]
    BY <1>8 DEF HasFile
  <2>2. f.dir[j] # None
    BY <1>1, <2>1
  <2>3. j = k
    BY <1>2, <1>3, <2>1, <2>2 DEF DirOK
  <2>4. QED
    BY <1>2, <2>1, <2>3
<1>9. QED
  BY <1>4, <1>5, <1>6, <1>7, <1>8

(* A pointer to the inode of a file is held under the file's name.         *)
LEMMA NameOf ==
    ASSUME NEW f, Good(f), NEW q \in Paths, NEW s \in Sectors, f.entry[q] = s
    PROVE  /\ f.inode[s] # None
           /\ s = ROOT_DIR_SECTOR => q.name = NoName
           /\ q.name = NoName => s = ROOT_DIR_SECTOR
           /\ q.name # NoName => q.name \in Names /\ HasFile(f, q.name, s)
           /\ \A n \in Names : HasFile(f, n, s) => q.name = n
<1>1. PointsTo(f, q, s)
  BY Constants DEF Good, Core, HandlesOK
<1>2. q.name \in Names \cup {NoName} /\ DirOK(f)
  BY PathName DEF Good, Core
<1>3. ASSUME NEW n \in Names, HasFile(f, n, s) PROVE s # ROOT_DIR_SECTOR /\ q.name = n
  <2>1. s # ROOT_DIR_SECTOR
    BY <1>2, <1>3, ListedOnce
  <2>2. q.name # NoName /\ q.name \in Names /\ HasFile(f, q.name, s)
    BY <1>1, <1>2, <2>1 DEF PointsTo
  <2>3. QED
    BY <1>2, <1>3, <2>1, <2>2, ListedOnce
<1>4. QED
  BY <1>1, <1>2, <1>3 DEF PointsTo

LEMMA GoodOpens ==
    ASSUME NEW f, Good(f), NEW s \in Sectors
    PROVE  LET g == inode_open(f, s)
           IN  /\ Good(g) /\ g.dir = f.dir /\ g.entry = f.entry /\ g.cwd = f.cwd
               /\ g.free_map = f.free_map /\ g.inode[s] # None
               /\ \A t \in Sectors : t # s => g.inode[t] = f.inode[t]
<1> DEFINE g == inode_open(f, s)
<1>1. /\ Rec(g) /\ InodesOK(g) /\ ListsOK(g)
      /\ g.dir = f.dir /\ g.free_map = f.free_map /\ g.free_map_file = f.free_map_file
      /\ g.entry = f.entry /\ g.cwd = f.cwd /\ g.stopped = f.stopped
      /\ g.inode[s] # None
      /\ \A t \in Sectors : t # s => g.inode[t] = f.inode[t]
  BY Opens DEF Good, Core
<1> HIDE DEF g
<1>2. \A t \in Sectors : f.inode[t] # None => g.inode[t] # None
  BY <1>1
<1>3. DirOK(g) /\ MapOK(g)
  BY <1>1 DEF Good, Core, DirOK, MapOK, Taken
<1>4. HandlesOK(g)
  <2>1. \A p : HasFile(f, p.name, f.entry[p]) => HasFile(g, p.name, f.entry[p])
    BY <1>1 DEF HasFile
  <2>2. QED
    BY <1>1, <1>2, <2>1 DEF Good, Core, HandlesOK, PointsTo
<1>5. CwdOK(g)
  BY <1>1, <1>2, Constants DEF Good, Core, CwdOK
<1>6. QED
  BY <1>1, <1>3, <1>4, <1>5 DEF Good, Core, g

LEMMA GoodFrees ==
    ASSUME NEW f, Good(f), NEW s \in Sectors, f.inode[s] # None, NEW N,
           \A q \in Paths : f.entry[q] = s => q.name \in N
    PROVE  LET g == Free(f, s)
           IN  /\ Good(g) /\ Kept(f, g, N, {}) /\ g.dir = f.dir /\ g.inode[s] = None
               /\ \A t \in Sectors : t # s => g.inode[t] = f.inode[t]
               /\ \A p \in Paths : g.entry[p] = IF f.entry[p] = s THEN Freed ELSE f.entry[p]
               /\ s # ROOT_DIR_SECTOR => g.cwd = f.cwd
               /\ g.cwd = None <=> f.cwd = None
               /\ g.free_map = f.free_map
<1> DEFINE g == Free(f, s)
<1>1. /\ Rec(g) /\ ListsOK(g)
      /\ g.dir = f.dir /\ g.free_map = f.free_map /\ g.free_map_file = f.free_map_file
      /\ g.stopped = f.stopped
      /\ DOMAIN g.inode = Sectors /\ g.inode[s] = None
      /\ \A t \in Sectors : t # s => g.inode[t] = f.inode[t]
      /\ g.entry = [p \in Paths |-> g.entry[p]]
      /\ \A p \in Paths : g.entry[p] = IF f.entry[p] = s THEN Freed ELSE f.entry[p]
      /\ g.cwd = IF f.cwd # None /\ f.cwd.inode = s THEN [f.cwd EXCEPT !.inode = Freed]
                 ELSE f.cwd
  <2>1. DOMAIN f.inode = Sectors /\ DOMAIN f.entry = Paths /\ Rec(f) /\ ListsOK(f)
    BY DEF Good, Core, InodesOK, HandlesOK
  <2>2. QED
    BY <2>1, Frees
<1>2. g.inode = [f.inode EXCEPT ![s] = None]
  BY DEF Free, Good, Core, Rec, Fields
<1> HIDE DEF g
<1>3. DirOK(g) /\ MapOK(g)
  BY <1>1 DEF Good, Core, DirOK, MapOK, Taken
<1>4. InodesOK(g)
  BY <1>2 DEF Good, Core, InodesOK
<1>5. HandlesOK(g)
  <2>1. \A n, t : HasFile(f, n, t) => HasFile(g, n, t)
    BY <1>1 DEF HasFile
  <2>2. ASSUME NEW p \in Paths, g.entry[p] \notin {None, Freed} PROVE PointsTo(g, p, g.entry[p])
    <3>1. f.entry[p] # s /\ g.entry[p] = f.entry[p]
      BY <1>1, <2>2
    <3>2. PointsTo(f, p, f.entry[p])
      BY <2>2, <3>1 DEF Good, Core, HandlesOK
    <3>3. QED
      BY <1>1, <2>1, <3>1, <3>2 DEF PointsTo
  <2>3. QED
    BY <1>1, <2>2 DEF HandlesOK
<1>6. CwdOK(g) /\ (g.cwd = None <=> f.cwd = None) /\ (s # ROOT_DIR_SECTOR => g.cwd = f.cwd)
  <2>1. CASE f.cwd # None /\ f.cwd.inode = s
    <3>1. f.cwd \in Handle /\ s = ROOT_DIR_SECTOR
      BY <2>1, Constants DEF Good, Core, CwdOK, Handle
    <3>2. g.cwd = [f.cwd EXCEPT !.inode = Freed]
      BY <1>1, <2>1
    <3>3. g.cwd \in Handle /\ g.cwd.inode = Freed
      BY <3>1, <3>2 DEF Handle
    <3>4. g.cwd # None /\ Freed # ROOT_DIR_SECTOR
      BY <3>3, Constants
    <3>5. QED
      BY <2>1, <3>1, <3>3, <3>4 DEF CwdOK
  <2>2. CASE ~(f.cwd # None /\ f.cwd.inode = s)
    <3>1. g.cwd = f.cwd
      BY <1>1, <2>2
    <3>2. QED
      BY <1>1, <2>2, <3>1, Constants DEF Good, Core, CwdOK
  <2>3. QED
    BY <2>1, <2>2
<1>7. Kept(f, g, N, {})
  BY <1>1, Constants DEF Kept
<1>8. QED
  BY <1>1, <1>3, <1>4, <1>5, <1>6, <1>7 DEF Good, Core, g

\* Whoever pointed to the inode of sector s has a pointer to freed memory.
EntriesFreed(f, g, s) ==
    \A p \in Paths : g.entry[p] = IF f.entry[p] = s THEN Freed ELSE f.entry[p]

LEMMA FreesOne ==
    ASSUME NEW f, Good(f), NEW s \in Sectors, f.inode[s] # None
    PROVE  LET g == Free(f, s)
           IN  /\ Good(g) /\ EntriesFreed(f, g, s) /\ g.dir = f.dir /\ g.inode[s] = None
               /\ \A t \in Sectors : t # s => g.inode[t] = f.inode[t]
               /\ s # ROOT_DIR_SECTOR => g.cwd = f.cwd
               /\ g.cwd = None <=> f.cwd = None
               /\ g.free_map = f.free_map
<1> DEFINE N == {q.name : q \in Paths}
<1>1. \A q \in Paths : f.entry[q] = s => q.name \in N
  OBVIOUS
<1> HIDE DEF N
<1>2. QED
  BY <1>1, GoodFrees DEF EntriesFreed

LEMMA GoodAccess ==
    ASSUME NEW f, Good(f), NEW s \in Sectors \cup {Freed}
    PROVE  \/ Halted(Access(f, s)) /\ (s = Freed \/ f.inode[s] = None)
           \/ Access(f, s) = f /\ s \in Sectors /\ f.inode[s] # None
<1>1. Halted(Stop(f))
  BY DEF Good, Core, Halted, Rec, Fields, Stop
<1>2. QED
  BY <1>1 DEF Access

LEMMA GoodCloses ==
    ASSUME NEW f, Good(f), NEW s \in Sectors \cup {Freed}
    PROVE  \/ Halted(inode_close(f, s)) /\ (s = Freed \/ f.inode[s] = None)
           \/ inode_close(f, s) = Free(f, s) /\ s \in Sectors /\ f.inode[s] # None
<1>1. Halted(Stop(f))
  BY DEF Good, Core, Halted, Rec, Fields, Stop
<1>2. CASE s = Freed
  BY <1>1, <1>2 DEF inode_close
<1>3. CASE s # Freed /\ f.inode[s] = None
  BY <1>1, <1>3 DEF inode_close
<1>4. CASE s # Freed /\ f.inode[s] # None
  <2>1. f.inode[s].open_cnt = 1 /\ f.inode[s].removed = FALSE
    BY <1>4 DEF Good, Core, InodesOK, Held
  <2>2. inode_close(f, s) = Free(f, s)
    BY <1>4, <2>1 DEF inode_close
  <2>3. QED
    BY <1>4, <2>2
<1>5. QED
  BY <1>2, <1>3, <1>4

----------------------------------------------------------------------------
(* The handle of the root directory and the look up of a name.             *)
LEMMA GoodOpensRoot ==
    ASSUME NEW f, Good(f)
    PROVE  LET g == dir_open_root(f)
           IN  /\ Good(g) /\ g.dir = f.dir /\ g.entry = f.entry /\ g.free_map = f.free_map
               /\ g.cwd \in Handle /\ g.cwd # None
               /\ \A t \in Sectors : t # ROOT_DIR_SECTOR => g.inode[t] = f.inode[t]
               /\ f.cwd = None =>
                    /\ g.cwd = [inode |-> ROOT_DIR_SECTOR, open_cnt |-> 1, pos |-> 0]
                    /\ g.inode[ROOT_DIR_SECTOR] # None
               /\ f.cwd # None => /\ g.cwd = [f.cwd EXCEPT !.open_cnt = @ + 1]
                                  /\ g.inode = f.inode
<1> DEFINE g == dir_open_root(f)
<1>1. CASE f.cwd = None
  <2> DEFINE h == inode_open(f, ROOT_DIR_SECTOR)
             new == [inode |-> ROOT_DIR_SECTOR, open_cnt |-> 1, pos |-> 0]
  <2>1. ROOT_DIR_SECTOR \in Sectors
    BY Constants
  <2>2. /\ Rec(h) /\ h.dir = f.dir /\ h.entry = f.entry /\ h.free_map = f.free_map
        /\ h.inode[ROOT_DIR_SECTOR] # None /\ Good(h)
        /\ \A t \in Sectors : t # ROOT_DIR_SECTOR => h.inode[t] = f.inode[t]
    <3> HIDE DEF h
    <3>1. Good(h) /\ h.inode[ROOT_DIR_SECTOR] # None
          /\ h.dir = f.dir /\ h.entry = f.entry /\ h.free_map = f.free_map
          /\ \A t \in Sectors : t # ROOT_DIR_SECTOR => h.inode[t] = f.inode[t]
      BY <2>1, GoodOpens DEF h
    <3>2. QED
      BY <3>1 DEF Good, Core
  <2>3. g = [h EXCEPT !.cwd = new]
    BY <1>1 DEF dir_open_root
  <2>4. new \in Handle
    BY Constants DEF Handle
  <2> HIDE DEF h, new, g
  <2>5. /\ Rec(g) /\ g.dir = h.dir /\ g.entry = h.entry /\ g.free_map = h.free_map
        /\ g.free_map_file = h.free_map_file /\ g.inode = h.inode /\ g.stopped = h.stopped
        /\ g.open_inodes = h.open_inodes /\ g.file_table = h.file_table /\ g.cwd = new
    BY <2>2, <2>3 DEF Rec, Fields
  <2>6. DirOK(g) /\ MapOK(g) /\ InodesOK(g)
    BY <2>2, <2>5 DEF Good, Core, DirOK, MapOK, InodesOK, Taken
  <2>7. HandlesOK(g)
    BY <2>2, <2>5 DEF Good, Core, HandlesOK, PointsTo, HasFile
  <2>8. CwdOK(g)
    BY <2>2, <2>4, <2>5 DEF CwdOK
  <2>9. ListsOK(g)
    BY <2>2, <2>5 DEF Good, Core, ListsOK, LiveInodes, OpenEntries
  <2>10. g.cwd # None
    BY <2>4, <2>5, Constants
  <2>11. Good(g)
    BY <2>2, <2>5, <2>6, <2>7, <2>8, <2>9 DEF Good, Core
  <2>12. QED
    BY <1>1, <2>2, <2>4, <2>5, <2>10, <2>11 DEF g, new
<1>2. CASE f.cwd # None
  <2> DEFINE new == [f.cwd EXCEPT !.open_cnt = @ + 1]
  <2>1. g = [f EXCEPT !.cwd = new]
    BY <1>2 DEF dir_open_root
  <2>2. f.cwd \in Handle
    BY <1>2 DEF Good, Core, CwdOK
  <2>3. new \in Handle /\ new.inode = f.cwd.inode
    BY <2>2 DEF Handle
  <2> HIDE DEF new, g
  <2>4. /\ Rec(g) /\ g.dir = f.dir /\ g.entry = f.entry /\ g.free_map = f.free_map
        /\ g.free_map_file = f.free_map_file /\ g.inode = f.inode /\ g.stopped = f.stopped
        /\ g.open_inodes = f.open_inodes /\ g.file_table = f.file_table /\ g.cwd = new
    BY <2>1 DEF Rec, Fields, Good, Core
  <2>5. DirOK(g) /\ MapOK(g) /\ InodesOK(g)
    BY <2>4 DEF Good, Core, DirOK, MapOK, InodesOK, Taken
  <2>6. HandlesOK(g)
    BY <2>4 DEF Good, Core, HandlesOK, PointsTo, HasFile
  <2>7. CwdOK(g)
    BY <1>2, <2>3, <2>4 DEF Good, Core, CwdOK
  <2>8. ListsOK(g)
    BY <2>4 DEF Good, Core, ListsOK, LiveInodes, OpenEntries
  <2>9. g.cwd # None
    BY <2>3, <2>4, Constants
  <2>10. Good(g)
    BY <2>4, <2>5, <2>6, <2>7, <2>8 DEF Good, Core
  <2>11. QED
    BY <1>2, <2>3, <2>4, <2>9, <2>10 DEF g, new
<1>3. QED
  BY <1>1, <1>2

LEMMA SetCwd ==
    ASSUME NEW f, Good(f), NEW c, c = None \/ (c \in Handle /\ f.cwd # None /\ c.inode = f.cwd.inode)
    PROVE  LET g == [f EXCEPT !.cwd = c]
           IN  /\ Good(g) /\ g.dir = f.dir /\ g.entry = f.entry /\ g.free_map = f.free_map
               /\ g.inode = f.inode /\ g.cwd = c
<1> DEFINE g == [f EXCEPT !.cwd = c]
<1>1. /\ Rec(g) /\ g.dir = f.dir /\ g.entry = f.entry /\ g.free_map = f.free_map
      /\ g.free_map_file = f.free_map_file /\ g.inode = f.inode /\ g.stopped = f.stopped
      /\ g.open_inodes = f.open_inodes /\ g.file_table = f.file_table /\ g.cwd = c
  BY DEF Rec, Fields, Good, Core
<1> HIDE DEF g
<1>2. DirOK(g) /\ MapOK(g) /\ InodesOK(g)
  BY <1>1 DEF Good, Core, DirOK, MapOK, InodesOK, Taken
<1>3. HandlesOK(g)
  BY <1>1 DEF Good, Core, HandlesOK, PointsTo, HasFile
<1>4. CwdOK(g)
  BY <1>1 DEF Good, Core, CwdOK
<1>5. ListsOK(g)
  BY <1>1 DEF Good, Core, ListsOK, LiveInodes, OpenEntries
<1>6. QED
  BY <1>1, <1>2, <1>3, <1>4, <1>5 DEF Good, Core, g

LEMMA HandleOf ==
    ASSUME NEW f, Good(f), f.cwd # None
    PROVE  f.cwd \in Handle /\ f.cwd.inode \in {ROOT_DIR_SECTOR, Freed} /\ InodeOf(f, Cwd) = f.cwd.inode
           /\ f.cwd.inode \in Sectors \cup {Freed}
  BY Constants DEF Good, Core, CwdOK, Handle, InodeOf

LEMMA GoodDirCloses ==
    ASSUME NEW f, Good(f), NEW d \in Sectors \cup {Freed, Cwd}, d = Cwd => f.cwd # None, NEW N,
           \A q \in Paths : f.entry[q] \in Sectors /\ f.entry[q] = InodeOf(f, d) => q.name \in N
    PROVE  Stays(f, dir_close(f, d), N, {})
<1> DEFINE s == InodeOf(f, d)
<1>1. s \in Sectors \cup {Freed}
  BY HandleOf, Constants DEF InodeOf
<1>2. CASE d = Cwd /\ f.cwd.open_cnt > 1
  <2> DEFINE c == [f.cwd EXCEPT !.open_cnt = @ - 1]
  <2>1. dir_close(f, d) = [f EXCEPT !.cwd = c]
    BY <1>2 DEF dir_close
  <2>2. f.cwd \in Handle
    BY <1>2, HandleOf
  <2>3. c \in Handle /\ c.inode = f.cwd.inode
    BY <1>2, <2>2 DEF Handle
  <2> HIDE DEF c
  <2>4. QED
    BY <1>2, <2>1, <2>3, SetCwd DEF Stays, Kept
<1>3. CASE ~(d = Cwd /\ f.cwd.open_cnt > 1)
  <2>1. dir_close(f, d) = [inode_close(f, s) EXCEPT !.cwd = None]
    BY <1>3 DEF dir_close
  <2> HIDE DEF s
  <2>2. CASE Halted(inode_close(f, s))
    <3>1. Halted([inode_close(f, s) EXCEPT !.cwd = None])
      BY <2>2 DEF Halted, Rec, Fields
    <3>2. QED
      BY <2>1, <3>1 DEF Stays
  <2>3. CASE inode_close(f, s) = Free(f, s) /\ s \in Sectors /\ f.inode[s] # None
    <3> DEFINE g == Free(f, s)
    <3>1. Good(g) /\ Kept(f, g, N, {}) /\ g.dir = f.dir
      BY <2>3, GoodFrees DEF s
    <3> HIDE DEF g
    <3>2. Good([g EXCEPT !.cwd = None]) /\ [g EXCEPT !.cwd = None].dir = g.dir
          /\ [g EXCEPT !.cwd = None].entry = g.entry
      BY <3>1, SetCwd
    <3>3. QED
      BY <2>1, <2>3, <3>1, <3>2 DEF Stays, Kept, g
  <2>4. QED
    BY <1>1, <2>2, <2>3, GoodCloses
<1>4. QED
  BY <1>2, <1>3

\* What the look up of a name finds.
LEMMA Finds ==
    ASSUME NEW f, DirOK(f), NEW d, NEW name, lookup(f, d, name) # {}
    PROVE  SectorOf(f, name) \in Sectors /\ HasFile(f, name, SectorOf(f, name)) /\ name \in Names
           /\ InodeOf(f, d) = ROOT_DIR_SECTOR
<1>1. InodeOf(f, ROOT_DIR_SECTOR) = ROOT_DIR_SECTOR
  BY Constants DEF InodeOf
<1>2. InodeOf(f, d) = ROOT_DIR_SECTOR /\ lookup(f, ROOT_DIR_SECTOR, name) # {}
  BY <1>1 DEF lookup
<1>3. PICK k \in lookup(f, ROOT_DIR_SECTOR, name) : SectorOf(f, name) = f.dir[k].inode_sector
  BY <1>2 DEF SectorOf
<1>4. k \in Slots /\ f.dir[k] \in Listing1 /\ f.dir[k].name = name
  BY <1>3 DEF lookup, DirOK
<1>5. f.dir[k].inode_sector \in Sectors /\ name \in Names
  <2>1. block_size \in Nat
    BY PathsAssumption
  <2>2. QED
    BY <1>4, <2>1 DEF Listing1, Sectors
<1>6. f.dir[k] = [name |-> name, inode_sector |-> SectorOf(f, name)]
  BY <1>3, <1>4 DEF Listing1
<1>7. QED
  BY <1>2, <1>3, <1>4, <1>5, <1>6 DEF HasFile

LEMMA FindsNot ==
    ASSUME NEW f, DirOK(f), NEW d, NEW name \in Names, lookup(f, d, name) = {},
           InodeOf(f, d) = ROOT_DIR_SECTOR, NEW s \in Sectors
    PROVE  ~HasFile(f, name, s)
<1>1. SUFFICES ASSUME NEW k \in Slots, f.dir[k] = [name |-> name, inode_sector |-> s] PROVE FALSE
  BY DEF HasFile
<1>2. [name |-> name, inode_sector |-> s] # None
  BY PointersAssumption
<1>3. k \in lookup(f, d, name)
  BY <1>1, <1>2 DEF lookup
<1>4. QED
  BY <1>3

LEMMA GoodLooksUp ==
    ASSUME NEW f, Good(f), NEW d, InodeOf(f, d) \in Sectors \cup {Freed}, NEW name \in Names
    PROVE  LET r == dir_lookup(f, d, name)
           IN  \/ Halted(r.f) /\ (InodeOf(f, d) = Freed \/ f.inode[InodeOf(f, d)] = None)
               \/ r.inode = None /\ r.f = f /\ lookup(f, d, name) = {}
               \/ /\ r.inode \in Sectors /\ HasFile(f, name, r.inode) /\ lookup(f, d, name) # {}
                  /\ r.f = inode_open(f, r.inode) /\ r.inode # ROOT_DIR_SECTOR
<1> DEFINE r == dir_lookup(f, d, name)
           g == Access(f, InodeOf(f, d))
<1>1. name # "." /\ DirOK(f)
  BY PathsAssumption DEF Good, Core
<1>2. CASE lookup(f, d, name) = {}
  <2>1. r = [f |-> g, inode |-> None]
    BY <1>1, <1>2 DEF dir_lookup
  <2>2. r.f = g /\ r.inode = None
    BY <2>1
  <2>3. QED
    BY <1>2, <2>2, GoodAccess
<1>3. CASE lookup(f, d, name) # {}
  <2> DEFINE s == SectorOf(f, name)
  <2>1. r = [f |-> inode_open(g, s), inode |-> s]
    BY <1>1, <1>3 DEF dir_lookup
  <2>2. s \in Sectors /\ HasFile(f, name, s)
    BY <1>1, <1>3, Finds
  <2>3. s # ROOT_DIR_SECTOR
    BY <1>1, <2>2, ListedOnce
  <2> HIDE DEF s
  <2>4. r.f = inode_open(g, s) /\ r.inode = s
    BY <2>1
  <2> HIDE DEF g, r
  <2>5. CASE Halted(g) /\ (InodeOf(f, d) = Freed \/ f.inode[InodeOf(f, d)] = None)
    BY <2>4, <2>5, InodeHalts DEF r
  <2>6. CASE g = f
    BY <1>3, <2>2, <2>3, <2>4, <2>6 DEF r
  <2>7. QED
    BY <2>5, <2>6, GoodAccess DEF g
<1>4. QED
  BY <1>2, <1>3

(***************************************************************************)
(* What filesys_open returns is the inode of the file that is listed under *)
(* the name, or of the root directory for the path "/", and it is open.    *)
(***************************************************************************)
LEMMA GoodOpensFile ==
    ASSUME NEW f, Good(f), NEW p \in Paths
    PROVE  LET r == filesys_open(f, p)
           IN  \/ Halted(r.f)
               \/ /\ Stays(f, r.f, {NoName}, {})
                  /\ r.inode = None \/ PointsTo(r.f, p, r.inode)
<1> DEFINE g == dir_open_root(f)
           r == filesys_open(f, p)
<1>1. Good(g) /\ g.dir = f.dir /\ g.entry = f.entry /\ g.cwd # None
  BY GoodOpensRoot
<1>2. /\ p.name \in Names \cup {NoName} /\ NoName \notin Names
  BY PathName, PathsAssumption DEF NoName
<1>3. g.cwd \in Handle /\ InodeOf(g, Cwd) = g.cwd.inode /\ g.cwd.inode \in Sectors \cup {Freed}
      /\ g.cwd.inode \in {ROOT_DIR_SECTOR, Freed} /\ g.cwd.inode # None
  BY <1>1, HandleOf, Constants
<1>4. CASE p.name = NoName
  <2>1. r = [f |-> Access(g, g.cwd.inode), inode |-> g.cwd.inode]
    <3> DEFINE opened == [f |-> g, inode |-> g.cwd.inode]
    <3>1. r = [opened EXCEPT !.f = Access(@, opened.inode)]
      BY <1>3, <1>4 DEF filesys_open
    <3>2. QED
      BY <3>1
  <2>2. r.f = Access(g, g.cwd.inode) /\ r.inode = g.cwd.inode
    BY <2>1
  <2> HIDE DEF r, g
  <2>3. CASE Access(g, g.cwd.inode) = g /\ g.cwd.inode \in Sectors /\ g.inode[g.cwd.inode] # None
    <3>1. g.cwd.inode = ROOT_DIR_SECTOR
      BY <1>3, <2>3, Constants
    <3>2. PointsTo(g, p, ROOT_DIR_SECTOR)
      BY <1>4, <2>3, <3>1 DEF PointsTo
    <3>3. QED
      BY <1>1, <2>2, <2>3, <3>1, <3>2 DEF Stays, Kept, r
  <2>4. QED
    BY <1>1, <1>3, <2>2, <2>3, GoodAccess DEF r
<1>5. CASE p.name # NoName
  <2> DEFINE l == dir_lookup(g, Cwd, p.name)
             h == dir_close(l.f, Cwd)
  <2>1. r = IF l.inode = None THEN [f |-> h, inode |-> None]
            ELSE [f |-> Access(h, l.inode), inode |-> l.inode]
    <3> DEFINE opened == [f |-> h, inode |-> l.inode]
    <3> HIDE DEF h, l, g
    <3>1. r = IF opened.inode = None THEN opened
              ELSE [opened EXCEPT !.f = Access(@, opened.inode)]
      BY <1>5, Zenon DEF filesys_open, g, h, l
    <3>2. QED
      BY <3>1
  <2>2. \/ Halted(l.f)
        \/ l.inode = None /\ l.f = g
        \/ l.inode \in Sectors /\ HasFile(g, p.name, l.inode) /\ l.f = inode_open(g, l.inode)
           /\ l.inode # ROOT_DIR_SECTOR
    BY <1>1, <1>2, <1>3, <1>5, GoodLooksUp
  <2> HIDE DEF g, r, l
  <2>3. Halted(l.f) \/ (Good(l.f) /\ l.f.dir = f.dir /\ l.f.entry = f.entry /\ l.f.cwd # None)
    <3>1. CASE l.inode \in Sectors /\ l.f = inode_open(g, l.inode)
      BY <1>1, <3>1, GoodOpens
    <3>2. QED
      BY <1>1, <2>2, <3>1
  <2>4. Halted(h) \/ Stays(l.f, h, {NoName}, {})
    <3>1. CASE Halted(l.f)
      BY <3>1, DirectoryHalts
    <3>2. CASE Good(l.f) /\ l.f.cwd # None
      <4>1. l.f.cwd.inode = InodeOf(l.f, Cwd) /\ l.f.cwd.inode \in {ROOT_DIR_SECTOR, Freed}
        BY <3>2, HandleOf
      <4>2. \A q \in Paths : l.f.entry[q] \in Sectors /\ l.f.entry[q] = InodeOf(l.f, Cwd)
              => q.name \in {NoName}
        BY <3>2, <4>1, NameOf, Constants
      <4>3. QED
        BY <3>2, <4>2, GoodDirCloses, Constants
    <3>3. QED
      BY <2>3, <3>1, <3>2
  <2> HIDE DEF h
  <2>5. Halted(h) \/ (Good(h) /\ h.dir = f.dir /\ Kept(f, h, {NoName}, {}))
    <3>1. CASE Halted(l.f)
      BY <3>1, DirectoryHalts DEF h
    <3>2. CASE Good(l.f) /\ l.f.dir = f.dir /\ l.f.entry = f.entry
      BY <2>4, <3>2 DEF Stays, Kept
    <3>3. QED
      BY <2>3, <3>1, <3>2
  <2>6. CASE Halted(h)
    <3>1. r.f \in {h, Access(h, l.inode)}
      BY <2>1
    <3>2. QED
      BY <2>6, <3>1, InodeHalts DEF r
  <2>7. CASE Good(h) /\ h.dir = f.dir /\ Kept(f, h, {NoName}, {}) /\ l.inode = None
    <3>1. r.f = h /\ r.inode = None
      BY <2>1, <2>7
    <3>2. QED
      BY <2>7, <3>1 DEF Stays, r
  <2>8. CASE Good(h) /\ h.dir = f.dir /\ Kept(f, h, {NoName}, {}) /\ l.inode # None
    <3>1. r.f = Access(h, l.inode) /\ r.inode = l.inode
      BY <2>1, <2>8
    <3>2. Halted(l.f) \/ (l.inode \in Sectors /\ HasFile(g, p.name, l.inode))
      BY <2>2, <2>8
    <3>3. CASE Halted(l.f)
      <4>1. Halted(h)
        BY <3>3, DirectoryHalts DEF h
      <4>2. QED
        BY <2>6, <4>1
    <3>4. CASE l.inode \in Sectors /\ HasFile(g, p.name, l.inode)
      <4>1. HasFile(h, p.name, l.inode)
        BY <1>1, <2>8, <3>4 DEF HasFile
      <4>2. CASE Halted(Access(h, l.inode))
        BY <3>1, <4>2 DEF r
      <4>3. CASE Access(h, l.inode) = h /\ h.inode[l.inode] # None
        <5>1. PointsTo(h, p, l.inode)
          BY <1>5, <3>4, <4>1, <4>3 DEF PointsTo
        <5>2. QED
          BY <2>8, <3>1, <4>3, <5>1 DEF Stays, r
      <4>4. QED
        BY <2>8, <3>4, <4>2, <4>3, GoodAccess
    <3>5. QED
      BY <3>2, <3>3, <3>4
  <2>9. QED
    BY <2>5, <2>6, <2>7, <2>8
<1>6. QED
  BY <1>4, <1>5

----------------------------------------------------------------------------
(* The file table.                                                         *)
LEMMA EntryOf ==
    ASSUME NEW f, Good(f), NEW p
    PROVE  /\ Table(f) = OpenEntries(f)
           /\ IsOpen(f, p) <=> p \in Paths /\ f.entry[p] # None
           /\ p \in Paths => f.entry[p] \in {None, Freed} \cup Sectors
<1>1. Table(f) = OpenEntries(f)
  BY Visits DEF Good, Core
<1>2. QED
  BY <1>1 DEF IsOpen, OpenEntries, Good, Core, HandlesOK, PointsTo

LEMMA Unlinks ==
    ASSUME NEW f, Good(f), NEW p \in Paths, f.entry[p] # None
    PROVE  LET g == Unlinked(f, p, Files!list_remove(f.file_table, p))
           IN  /\ Good(g) /\ g.dir = f.dir /\ g.inode = f.inode /\ g.cwd = f.cwd
               /\ g.free_map = f.free_map /\ g.entry[p] = None
               /\ \A q \in Paths : q # p => g.entry[q] = f.entry[q]
<1> DEFINE L == f.file_table
           R == Files!list_remove(L, p)
           g == Unlinked(f, p, R)
<1>1. /\ Rec(g) /\ g.dir = f.dir /\ g.inode = f.inode /\ g.cwd = f.cwd /\ g.stopped = f.stopped
      /\ g.free_map = f.free_map /\ g.free_map_file = f.free_map_file
      /\ g.open_inodes = f.open_inodes
      /\ g.entry = [f.entry EXCEPT ![p] = None]
      /\ g.file_table = [R EXCEPT ![p] = Files!llist_init[p]]
  BY DEF Unlinked, Rec, Fields, Good, Core
<1> HIDE DEF g
<1>2. /\ DOMAIN g.entry = Paths /\ g.entry[p] = None
      /\ \A q \in Paths : q # p => g.entry[q] = f.entry[q]
  BY <1>1 DEF Good, Core, HandlesOK
<1>3. DirOK(g) /\ MapOK(g) /\ InodesOK(g) /\ CwdOK(g)
  BY <1>1 DEF Good, Core, DirOK, MapOK, InodesOK, CwdOK, Taken
<1>4. HandlesOK(g)
  <2>1. \A n, t : HasFile(f, n, t) => HasFile(g, n, t)
    BY <1>1 DEF HasFile
  <2>2. QED
    BY <1>1, <1>2, <2>1 DEF Good, Core, HandlesOK, PointsTo
<1>5. LiveInodes(g) = LiveInodes(f) /\ OpenEntries(g) = OpenEntries(f) \ {p} /\ p \in OpenEntries(f)
      /\ p \in Paths \ OpenEntries(g)
  BY <1>1, <1>2 DEF LiveInodes, OpenEntries
<1>6. FL!IsList(L, OpenEntries(f)) /\ IL!IsList(f.open_inodes, LiveInodes(f))
  BY DEF Good, Core, ListsOK
<1>7. g.file_table = [FL!list_remove(L, p) EXCEPT ![p] = FL!llist_init[p]]
  <2>1. R = FL!list_remove(L, p)
    BY DEF Files!list_remove, FL!list_remove
  <2>2. Files!llist_init = FL!llist_init
    BY DEF Files!llist_init, FL!llist_init, Files!Nodes, FL!Nodes
  <2>3. QED
    BY <1>1, <2>1, <2>2
<1>8. FL!IsList(FL!list_remove(L, p), OpenEntries(g))
  BY <1>5, <1>6, ListHeaders, FL!RemoveIsList
<1>9. FL!IsList(g.file_table, OpenEntries(g))
  BY <1>5, <1>7, <1>8, ListHeaders, FL!ResetIsList
<1>10. ListsOK(g)
  BY <1>1, <1>5, <1>6, <1>9 DEF ListsOK
<1>11. QED
  BY <1>1, <1>2, <1>3, <1>4, <1>10 DEF Good, Core, g

LEMMA Adds ==
    ASSUME NEW f, Good(f), NEW p \in Paths, f.entry[p] = None, NEW s, PointsTo(f, p, s)
    PROVE  LET g == add_to_file_table(f, p, s)
           IN  /\ Good(g) /\ g.dir = f.dir /\ g.inode = f.inode /\ g.cwd = f.cwd
               /\ g.free_map = f.free_map /\ g.entry[p] = s
               /\ \A q \in Paths : q # p => g.entry[q] = f.entry[q]
<1> DEFINE L == f.file_table
           g == add_to_file_table(f, p, s)
<1>1. /\ Rec(g) /\ g.dir = f.dir /\ g.inode = f.inode /\ g.cwd = f.cwd /\ g.stopped = f.stopped
      /\ g.free_map = f.free_map /\ g.free_map_file = f.free_map_file
      /\ g.open_inodes = f.open_inodes
      /\ g.entry = [f.entry EXCEPT ![p] = s]
      /\ g.file_table = Files!list_push_back(L, p)
  BY DEF add_to_file_table, Rec, Fields, Good, Core
<1> HIDE DEF g
<1>2. /\ g.entry = [q \in Paths |-> g.entry[q]] /\ g.entry[p] = s
      /\ \A q \in Paths : q # p => g.entry[q] = f.entry[q]
  BY <1>1 DEF Good, Core, HandlesOK
<1>3. DirOK(g) /\ MapOK(g) /\ InodesOK(g) /\ CwdOK(g)
  BY <1>1 DEF Good, Core, DirOK, MapOK, InodesOK, CwdOK, Taken
<1>4. HandlesOK(g)
  <2>1. \A n, t : HasFile(f, n, t) => HasFile(g, n, t)
    BY <1>1 DEF HasFile
  <2>2. PointsTo(g, p, s)
    BY <1>1, <2>1 DEF PointsTo
  <2>3. \A q \in Paths : q # p => g.entry[q] \in {None, Freed} \/ PointsTo(g, q, g.entry[q])
    BY <1>1, <1>2, <2>1 DEF Good, Core, HandlesOK, PointsTo
  <2>4. QED
    BY <1>2, <2>2, <2>3 DEF HandlesOK
<1>5. LiveInodes(g) = LiveInodes(f) /\ OpenEntries(g) = OpenEntries(f) \cup {p}
      /\ p \in Paths \ OpenEntries(f)
  <2>1. s # None
    BY Constants DEF PointsTo
  <2>2. QED
    BY <1>1, <1>2, <2>1 DEF LiveInodes, OpenEntries
<1>6. FL!IsList(L, OpenEntries(f)) /\ IL!IsList(f.open_inodes, LiveInodes(f))
  BY DEF Good, Core, ListsOK
<1>7. g.file_table = FL!list_insert(L, tail, p)
  BY <1>1 DEF Files!list_push_back, Files!list_insert, FL!list_insert
<1>8. FL!IsList(g.file_table, OpenEntries(g))
  BY <1>5, <1>6, <1>7, ListHeaders, FL!InsertIsList
<1>9. ListsOK(g)
  BY <1>1, <1>5, <1>6, <1>8 DEF ListsOK
<1>10. QED
  BY <1>1, <1>2, <1>3, <1>4, <1>9 DEF Good, Core, g

(* An entry that goes takes its inode with it: other pointers to that one  *)
(* are pointers to freed memory, and all else is as it was.                *)
RemovedEntry(f, g, p) ==
    LET s == f.entry[p]
    IN  /\ Good(g) /\ g.dir = f.dir /\ g.free_map = f.free_map
        /\ s \in Sectors /\ f.inode[s] # None /\ g.inode[s] = None
        /\ \A t \in Sectors : t # s => g.inode[t] = f.inode[t]
        /\ s # ROOT_DIR_SECTOR => g.cwd = f.cwd
        /\ g.entry[p] = None
        /\ \A q \in Paths : q # p => g.entry[q] = IF f.entry[q] = s THEN Freed ELSE f.entry[q]

LEMMA RemovesOne ==
    ASSUME NEW f, Good(f), NEW p \in Paths, f.entry[p] # None
    PROVE  LET g == remove_from_file_table(f, p)
           IN  \/ Halted(g) /\ (f.entry[p] = Freed \/ f.inode[f.entry[p]] = None)
               \/ RemovedEntry(f, g, p)
<1> DEFINE s == f.entry[p]
           g == inode_close(f, s)
           L == Files!list_remove(f.file_table, p)
           h == remove_from_file_table(f, p)
<1>1. IsOpen(f, p) /\ s \in Sectors \cup {Freed}
  BY EntryOf
<1>2. h = Unlinked(g, p, L)
  BY <1>1 DEF remove_from_file_table
<1>3. CASE Halted(g) /\ (s = Freed \/ f.inode[s] = None)
  <2> HIDE DEF g, L, s
  <2>1. Halted(Unlinked(g, p, L))
    BY <1>3 DEF Halted, Rec, Fields, Unlinked
  <2>2. QED
    BY <1>2, <1>3, <2>1 DEF s
<1>4. CASE g = Free(f, s) /\ s \in Sectors /\ f.inode[s] # None
  <2>1. /\ Good(g) /\ g.dir = f.dir /\ g.free_map = f.free_map /\ g.inode[s] = None
        /\ \A t \in Sectors : t # s => g.inode[t] = f.inode[t]
        /\ s # ROOT_DIR_SECTOR => g.cwd = f.cwd
    BY <1>4, FreesOne
  <2>2. EntriesFreed(f, g, s)
    BY <1>4, FreesOne
  <2>3. L = Files!list_remove(g.file_table, p)
    BY <1>4 DEF Free, Good, Core, Rec, Fields
  <2> HIDE DEF g, L
  <2>4. g.entry[p] # None
    BY <2>2, Constants DEF EntriesFreed
  <2> HIDE DEF s, h
  <2>5. /\ Good(h) /\ h.dir = g.dir /\ h.inode = g.inode /\ h.cwd = g.cwd
        /\ h.free_map = g.free_map /\ h.entry[p] = None
        /\ \A q \in Paths : q # p => h.entry[q] = g.entry[q]
    BY <1>2, <2>1, <2>3, <2>4, Unlinks
  <2>6. RemovedEntry(f, h, p)
    BY <1>4, <2>1, <2>2, <2>5 DEF RemovedEntry, EntriesFreed, s
  <2>7. QED
    BY <2>6 DEF h
<1>5. QED
  BY <1>1, <1>3, <1>4, GoodCloses

LEMMA GoodRemoves ==
    ASSUME NEW f, Good(f), NEW p \in Paths \cup RmPaths
    PROVE  Stays(f, remove_from_file_table(f, p), {p.name}, {})
<1> DEFINE g == remove_from_file_table(f, p)
<1>1. CASE ~IsOpen(f, p)
  BY <1>1 DEF remove_from_file_table, Stays, Kept
<1>2. CASE IsOpen(f, p)
  <2>1. p \in Paths /\ f.entry[p] # None
    BY <1>2, EntryOf
  <2>2. Halted(g) \/ RemovedEntry(f, g, p)
    BY <2>1, RemovesOne
  <2> HIDE DEF g
  <2>3. CASE RemovedEntry(f, g, p)
    <3>1. ASSUME NEW q \in Paths, f.entry[q] = f.entry[p] PROVE q.name = p.name
      <4>1. f.entry[p] \in Sectors
        BY <2>3 DEF RemovedEntry
      <4>2. CASE p.name = NoName
        BY <2>1, <3>1, <4>1, <4>2, NameOf
      <4>3. CASE p.name # NoName
        BY <2>1, <3>1, <4>1, <4>3, NameOf
      <4>4. QED
        BY <4>2, <4>3
    <3>2. \A q \in Paths : f.entry[q] # None /\ q.name # p.name => g.entry[q] = f.entry[q]
      BY <2>3, <3>1 DEF RemovedEntry
    <3>3. f.entry[p] # None /\ f.entry[p] \in Sectors
      BY <2>1, <2>3 DEF RemovedEntry
    <3>4. \A q \in Paths : f.entry[q] = None => g.entry[q] = None
      BY <2>3, <3>3, Constants DEF RemovedEntry
    <3>5. QED
      BY <2>3, <3>2, <3>4 DEF RemovedEntry, Stays, Kept, g
  <2>4. QED
    BY <2>2, <2>3 DEF Stays, g
<1>3. QED
  BY <1>1, <1>2

LEMMA GoodOpenFile ==
    ASSUME NEW f, Good(f), NEW p \in Paths
    PROVE  Stays(f, OpenFile(f, p), {NoName}, {p})
<1> DEFINE r == filesys_open(f, p)
<1>1. CASE IsOpen(f, p)
  BY <1>1 DEF OpenFile, Stays, Kept
<1>2. CASE ~IsOpen(f, p)
  <2>1. OpenFile(f, p) = Added(r, p)
    BY <1>2 DEF OpenFile
  <2>2. \/ Halted(r.f)
        \/ /\ Stays(f, r.f, {NoName}, {})
           /\ r.inode = None \/ PointsTo(r.f, p, r.inode)
    BY GoodOpensFile
  <2> HIDE DEF r
  <2>3. CASE Halted(r.f)
    BY <2>1, <2>3 DEF Added, Halted, Stays
  <2>4. CASE Good(r.f) /\ Kept(f, r.f, {NoName}, {}) /\ r.f.dir = f.dir /\ r.inode = None
    BY <2>1, <2>4 DEF Added, Stays, Kept
  <2>5. CASE Good(r.f) /\ Kept(f, r.f, {NoName}, {}) /\ r.f.dir = f.dir /\ r.inode # None
    <3>1. PointsTo(r.f, p, r.inode)
      BY <2>2, <2>5 DEF Halted, Good
    <3>2. OpenFile(f, p) = add_to_file_table(r.f, p, r.inode)
      BY <2>1, <2>5 DEF Added, Good
    <3>3. f.entry[p] = None
      BY <1>2, EntryOf
    <3>4. r.f.entry[p] = None
      BY <2>5, <3>3 DEF Kept
    <3>5. QED
      <4>1. LET h == add_to_file_table(r.f, p, r.inode)
            IN  /\ Good(h) /\ h.dir = r.f.dir /\ \A q \in Paths : q # p => h.entry[q] = r.f.entry[q]
        BY <2>5, <3>1, <3>4, Adds
      <4>2. QED
        BY <2>5, <3>2, <3>3, <4>1 DEF Stays, Kept
  <2>6. QED
    BY <2>2, <2>3, <2>4, <2>5 DEF Stays
<1>3. QED
  BY <1>1, <1>2

LEMMA GoodTouches ==
    ASSUME NEW f, Good(f), NEW p \in Paths
    PROVE  Touched(f, p) = f \/ Halted(Touched(f, p))
<1>1. CASE IsOpen(f, p)
  <2>1. f.entry[p] \in Sectors \cup {Freed}
    BY <1>1, EntryOf
  <2>2. QED
    BY <1>1, <2>1, GoodAccess DEF Touched
<1>2. CASE ~IsOpen(f, p)
  BY <1>2 DEF Touched
<1>3. QED
  BY <1>1, <1>2

LEMMA GoodUses ==
    ASSUME NEW f, Good(f), NEW p \in Paths
    PROVE  Stays(f, Used(f, p), {NoName}, {p})
<1> DEFINE g == OpenFile(f, p)
<1>1. Stays(f, g, {NoName}, {p})
  BY GoodOpenFile
<1> HIDE DEF g
<1>2. Halted(g) => Halted(Touched(g, p))
  BY InodeHalts DEF Touched
<1>3. Good(g) => Stays(g, Touched(g, p), {NoName}, {p})
  BY GoodTouches DEF Stays, Kept
<1>4. QED
  BY <1>1, <1>2, <1>3, StaysTwice DEF Used, g

LEMMA GoodCats ==
    ASSUME NEW f, Good(f), NEW p \in Paths
    PROVE  Stays(f, fsutil_cat(f, p), {NoName, p.name}, {p})
<1> DEFINE g == Used(f, p)
           N == {NoName, p.name}
<1>1. Stays(f, g, N, {p})
  BY GoodUses DEF Stays, Kept
<1>2. CASE IsOpen(f, p)
  BY <1>1, <1>2 DEF fsutil_cat
<1>3. CASE ~IsOpen(f, p)
  <2>1. Halted(g) => Halted(remove_from_file_table(g, p))
    BY FileHalts
  <2>2. ASSUME Good(g) PROVE Stays(g, remove_from_file_table(g, p), N, {p})
    <3>1. Stays(g, remove_from_file_table(g, p), {p.name}, {})
      BY <2>2, GoodRemoves
    <3>2. QED
      BY <3>1 DEF Stays, Kept
  <2> HIDE DEF g, N
  <2>3. QED
    BY <1>1, <1>3, <2>1, <2>2, StaysTwice DEF fsutil_cat, g, N
<1>4. QED
  BY <1>2, <1>3

----------------------------------------------------------------------------
(* The free map: its bits that stand for no sector stay 0, so what is read *)
(* back is what was written.                                               *)
LEMMA SetFits ==
    ASSUME NEW b, IsBitmap(b, Bits), Fits(b), NEW i \in 0 .. Bits - 1, NEW value \in BOOLEAN
    PROVE  Fits(bitmap_set(b, i, value))
<1> DEFINE e == elem_idx(i)
           c == bitmap_set(b, i, value)
<1>1. Bits \in Nat /\ i \in Nat
  BY Constants
<1>2. e \in 0 .. elem_cnt(Bits) - 1
  BY <1>1, InElements
<1>3. (e * ELEM_BITS) + (i % ELEM_BITS) < Bits
  BY <1>1, Position
<1>4. bit_mask(i) = {i % ELEM_BITS}
  BY DEF bit_mask
<1>5. \/ c = [b EXCEPT !.bits[e] = @ \cup bit_mask(i)]
      \/ c = [b EXCEPT !.bits[e] = @ \ bit_mask(i)]
  BY DEF bitmap_set, bitmap_mark, bitmap_reset
<1> HIDE DEF c, e
<1>6. b = [bit_cnt |-> Bits, bits |-> b.bits] /\ DOMAIN b.bits = 0 .. elem_cnt(Bits) - 1
  BY DEF IsBitmap, Elements
<1>7. ASSUME NEW k \in 0 .. elem_cnt(Bits) - 1, NEW x \in c.bits[k]
      PROVE  x \in b.bits[k] \/ (k = e /\ x = i % ELEM_BITS)
  <2>1. \/ c.bits = [b.bits EXCEPT ![e] = @ \cup bit_mask(i)]
        \/ c.bits = [b.bits EXCEPT ![e] = @ \ bit_mask(i)]
    BY <1>5, <1>6
  <2>2. ASSUME NEW y \in bit_mask(i) PROVE y = i % ELEM_BITS
    BY <1>4, <2>2, Zenon
  <2>3. CASE k = e
    <3>1. x \in b.bits[k] \/ x \in bit_mask(i)
      BY <1>2, <1>6, <1>7, <2>1, <2>3
    <3>2. QED
      BY <2>2, <2>3, <3>1, Zenon
  <2>4. CASE k # e
    <3>1. c.bits[k] = b.bits[k]
      BY <1>6, <2>1, <2>4
    <3>2. QED
      BY <1>7, <3>1
  <2>5. QED
    BY <2>3, <2>4
<1>8. ASSUME NEW k \in 0 .. elem_cnt(Bits) - 1, NEW x \in c.bits[k]
      PROVE  (k * ELEM_BITS) + x < Bits
  <2>1. CASE x \in b.bits[k]
    BY <2>1 DEF Fits
  <2>2. CASE k = e /\ x = i % ELEM_BITS
    BY <2>2, <1>3
  <2>3. QED
    BY <1>7, <1>8, <2>1, <2>2
<1>9. QED
  BY <1>8 DEF Fits, c

LEMMA AllocatesFitting ==
    ASSUME NEW b, IsBitmap(b, Bits), Fits(b)
    PROVE  Fits(bitmap_scan_and_flip(b, 0, 1, FALSE))
<1> DEFINE s == bitmap_scan(b, 0, 1, FALSE)
<1>1. Bits \in Nat
  BY Constants
<1>2. s = BITMAP_ERROR \/ s \in 0 .. Bits - 1
  BY <1>1, AllocatesLowest
<1> HIDE DEF s
<1>3. CASE s = BITMAP_ERROR
  BY <1>3 DEF bitmap_scan_and_flip, s
<1>4. CASE s \in 0 .. Bits - 1
  <2>1. s # BITMAP_ERROR /\ s \in Nat
    BY <1>1, <1>4, ElemAssumption
  <2>2. bitmap_set_multiple(b, s, 1, TRUE) = bitmap_set(b, s, TRUE)
    BY <2>1, SetSingle
  <2>3. bitmap_scan_and_flip(b, 0, 1, FALSE) = bitmap_set(b, s, TRUE)
    BY <2>1, <2>2 DEF bitmap_scan_and_flip, s
  <2>4. QED
    BY <1>4, <2>3, SetFits
<1>5. QED
  BY <1>2, <1>3, <1>4

LEMMA ReleasesFitting ==
    ASSUME NEW b, IsBitmap(b, Bits), Fits(b), NEW s \in 0 .. Bits - 1
    PROVE  Fits(bitmap_set_multiple(b, s, 1, FALSE))
<1>1. s \in Nat
  BY Constants
<1>2. bitmap_set_multiple(b, s, 1, FALSE) = bitmap_set(b, s, FALSE)
  BY <1>1, SetSingle
<1>3. QED
  BY <1>2, SetFits

LEMMA Releases ==
    ASSUME NEW b, IsBitmap(b, Bits), Fits(b), NEW s \in 0 .. Bits - 1
    PROVE  LET c == bitmap_set_multiple(b, s, 1, FALSE)
           IN  /\ IsBitmap(c, Bits) /\ Fits(c)
               /\ \A i \in 0 .. Bits - 1 : bitmap_test(c, i) <=> bitmap_test(b, i) /\ i # s
<1> DEFINE n == Bits
           c == bitmap_set_multiple(b, s, 1, FALSE)
<1>1. n \in Nat /\ IsBitmap(b, n) /\ s \in 0 .. n - 1
  BY Constants
<1>2. Fits(c)
  BY ReleasesFitting
<1> HIDE DEF n
<1>3. /\ IsBitmap(c, n)
      /\ \A i \in 0 .. n - 1 : bitmap_test(c, i) <=> bitmap_test(b, i) /\ i # s
  BY <1>1, ReleasesOne
<1>4. QED
  BY <1>2, <1>3 DEF n

LEMMA AllOfOne ==
    ASSUME NEW b, NEW s \in Nat
    PROVE  bitmap_all(b, s, 1) <=> bitmap_test(b, s)
<1>1. s .. (s + 1 - 1) = {s}
  OBVIOUS
<1>2. bitmap_contains(b, s, 1, FALSE) <=> bitmap_test(b, s) = FALSE
  BY <1>1 DEF bitmap_contains
<1>3. bitmap_test(b, s) \in BOOLEAN
  BY DEF bitmap_test
<1>4. QED
  BY <1>2, <1>3 DEF bitmap_all

LEMMA ReadsSame ==
    ASSUME NEW b, IsBitmap(b, Bits), Fits(b), NEW c, IsBitmap(c, Bits)
    PROVE  bitmap_read(c, b.bits) = b
<1> DEFINE l == elem_cnt(Bits) - 1
           file == b.bits
<1>1. Bits \in Nat /\ Bits > 2 /\ ELEM_BITS \in Nat /\ ELEM_BITS > 0
  BY Constants, ElemAssumption
<1>2. file \in [0 .. l -> SUBSET (0 .. ELEM_BITS - 1)] /\ b = [bit_cnt |-> Bits, bits |-> file]
      /\ c = [bit_cnt |-> Bits, bits |-> c.bits]
  BY DEF IsBitmap, Elements
<1>3. l \in Nat
  <2>1. elem_idx(0) \in 0 .. elem_cnt(Bits) - 1 /\ elem_idx(0) \in Nat
    BY <1>1, InElements, Position
  <2>2. elem_cnt(Bits) \in Int
    BY <1>1 DEF elem_cnt
  <2>3. QED
    BY <2>1, <2>2
<1>4. file[l] \subseteq last_mask(c)
  <2>1. SUFFICES ASSUME NEW x \in file[l] PROVE x \in last_mask(c)
    OBVIOUS
  <2>2. x \in 0 .. ELEM_BITS - 1 /\ (l * ELEM_BITS) + x < Bits
    BY <1>2, <1>3 DEF Fits
  <2>3. c.bit_cnt = Bits
    BY <1>2
  <2> DEFINE q == Bits \div ELEM_BITS
             m == Bits % ELEM_BITS
  <2>4. Bits = (q * ELEM_BITS) + m /\ m \in 0 .. ELEM_BITS - 1 /\ q \in Nat
    BY <1>1
  <2>5. CASE m = 0
    BY <2>2, <2>3, <2>5 DEF last_mask
  <2>6. CASE m # 0
    <3>1. l = q
      <4>1. (Bits + ELEM_BITS - 1) \div ELEM_BITS = q + 1
        BY <1>1, <2>4, <2>6, SMTT(30)
      <4> HIDE DEF q
      <4>2. QED
        BY <4>1, <2>4 DEF elem_cnt
    <3> HIDE DEF q, l
    <3>2. x < m
      BY <2>2, <2>4, <3>1, <1>1
    <3>3. x \in 0 .. m - 1
      BY <2>2, <2>4, <3>2
    <3>4. QED
      BY <2>3, <2>6, <3>3 DEF last_mask
  <2>7. QED
    BY <2>5, <2>6
<1>5. [file EXCEPT ![elem_cnt(c.bit_cnt) - 1] = @ \cap last_mask(c)] = file
  <2>1. elem_cnt(c.bit_cnt) - 1 = l
    BY <1>2
  <2>2. file[l] \cap last_mask(c) = file[l]
    BY <1>4
  <2> HIDE DEF l
  <2>3. QED
    BY <1>2, <2>1, <2>2
<1>6. QED
  BY <1>2, <1>5 DEF bitmap_read

----------------------------------------------------------------------------
(* The creation of a file: a sector is allocated, and given back or listed.*)

\* As long as a name is not listed, the directory has a free slot: there are
\* as many slots as names.
LEMMA FreeSlot ==
    ASSUME NEW f, DirOK(f), NEW name \in Names,
           \A k \in Slots : f.dir[k] # None => f.dir[k].name # name
    PROVE  \E k \in Slots : f.dir[k] = None
<1>1. SUFFICES ASSUME \A k \in Slots : f.dir[k] # None PROVE FALSE
  OBVIOUS
<1> DEFINE m == [k \in Slots |-> f.dir[k].name]
<1>2. \A k \in Slots : f.dir[k] \in Listing1
  BY <1>1 DEF DirOK
<1>3. \A k \in Slots : f.dir[k].name \in Names \ {name}
  BY <1>1, <1>2 DEF Listing1
<1>4. m \in Injection(Slots, Names \ {name})
  BY <1>1, <1>3 DEF DirOK, Injection, IsInjective
<1>5. IsFiniteSet(Names) /\ IsFiniteSet(Names \ {name})
      /\ Cardinality(Names \ {name}) = Cardinality(Names) - 1
  BY PathsAssumption, FS_RemoveElement
<1> HIDE DEF m
<1>6. Cardinality(Slots) <= Cardinality(Names \ {name})
  BY <1>4, <1>5, FS_Injection
<1>7. QED
  BY <1>5, <1>6, Constants

LEMMA DirAdds ==
    ASSUME NEW f, DirOK(f), NEW name \in Names, NEW s \in 2 .. Bits - 1, ~Taken(f, s),
           \A k \in Slots : f.dir[k] # None => f.dir[k].name # name, NEW g,
           g.dir = [f.dir EXCEPT ![CHOOSE k \in Slots : f.dir[k] = None]
                                   = [name |-> name, inode_sector |-> s]]
    PROVE  /\ DirOK(g) /\ HasFile(g, name, s)
           /\ \A n \in Names, t \in Sectors : HasFile(f, n, t) => HasFile(g, n, t)
           /\ \A t : Taken(g, t) <=> Taken(f, t) \/ t = s
<1> DEFINE k0 == CHOOSE k \in Slots : f.dir[k] = None
           new == [name |-> name, inode_sector |-> s]
<1>1. k0 \in Slots /\ f.dir[k0] = None
  BY FreeSlot
<1> HIDE DEF k0
<1>2. block_size \in Nat /\ s \in Sectors /\ s \in 2 .. block_size - 2
  <2>1. block_size \in Nat
    BY PathsAssumption
  <2>2. QED
    BY <2>1 DEF Bits, Sectors
<1>3. new \in Listing1 /\ new.name = name /\ new.inode_sector = s
  BY <1>2 DEF Listing1
<1> HIDE DEF new
<1>4. new # None
  BY <1>3, Constants
<1>5. g.dir = [f.dir EXCEPT ![k0] = new]
  BY DEF k0, new
<1>6. g.dir \in [Slots -> {None} \cup Listing1]
  BY <1>3, <1>5 DEF DirOK
<1>7. g.dir[k0] = new /\ \A k \in Slots : k # k0 => g.dir[k] = f.dir[k]
  BY <1>1, <1>5 DEF DirOK
<1>8. ASSUME NEW j \in Slots, NEW k \in Slots, g.dir[j] # None, g.dir[k] # None, j # k
      PROVE  g.dir[j].name # g.dir[k].name /\ g.dir[j].inode_sector # g.dir[k].inode_sector
  <2>1. CASE j # k0 /\ k # k0
    BY <1>7, <1>8, <2>1 DEF DirOK
  <2>2. ASSUME NEW i \in Slots, i # k0, g.dir[i] # None
        PROVE  g.dir[i].name # name /\ g.dir[i].inode_sector # s
    BY <1>7, <2>2 DEF Taken
  <2>3. QED
    BY <1>3, <1>7, <1>8, <2>1, <2>2
<1>9. DirOK(g)
  BY <1>6, <1>8 DEF DirOK
<1>10. HasFile(g, name, s)
  BY <1>1, <1>7 DEF HasFile, new
<1>11. ASSUME NEW n \in Names, NEW t \in Sectors, HasFile(f, n, t) PROVE HasFile(g, n, t)
  <2>1. PICK k \in Slots : f.dir[k] = [name |-> n, inode_sector |-> t]
    BY <1>11 DEF HasFile
  <2>2. [name |-> n, inode_sector |-> t] # None
    BY PointersAssumption
  <2>3. k # k0
    BY <1>1, <2>1, <2>2
  <2>4. QED
    BY <1>7, <2>1, <2>3 DEF HasFile
<1>12. ASSUME NEW t PROVE Taken(g, t) <=> Taken(f, t) \/ t = s
  BY <1>1, <1>3, <1>4, <1>7 DEF Taken
<1>13. QED
  BY <1>9, <1>10, <1>11, <1>12

(***************************************************************************)
(* After the middle of filesys_create a name of a file that fits is listed,*)
(* and every sector is marked that is listed and no other one.             *)
(***************************************************************************)
LEMMA GoodCreates ==
    ASSUME NEW f, Good(f), f.cwd # None, f.cwd.inode = ROOT_DIR_SECTOR,
           NEW name \in Names \cup {NoName}
    PROVE  LET h == Created(f, free_map_allocate(f), bitmap_scan(f.free_map, 0, 1, FALSE), name)
           IN  /\ Good(h) /\ h.entry = f.entry /\ h.inode = f.inode /\ h.cwd = f.cwd
               /\ \A n \in Names, t \in Sectors : HasFile(f, n, t) => HasFile(h, n, t)
               /\ name \in Names /\ (\E i \in 0 .. Bits - 1 : ~bitmap_test(f.free_map, i))
                    => \E t \in Sectors : HasFile(h, name, t)
<1> DEFINE b == f.free_map
           c == bitmap_scan_and_flip(b, 0, 1, FALSE)
           s == bitmap_scan(b, 0, 1, FALSE)
           g == free_map_allocate(f)
           h == Created(f, g, s, name)
<1>0. Rec(f) /\ DirOK(f)
  BY DEF Good, Core
<1>1. Bits \in Nat /\ IsBitmap(b, Bits) /\ Fits(b)
      /\ \A i \in 0 .. Bits - 1 : bitmap_test(b, i) <=> i \in {0, 1} \/ Taken(f, i)
  BY Constants DEF Good, Core, MapOK
<1>2. \/ s = BITMAP_ERROR /\ c = b /\ \A i \in 0 .. Bits - 1 : bitmap_test(b, i)
      \/ /\ s \in 0 .. Bits - 1 /\ ~bitmap_test(b, s)
         /\ IsBitmap(c, Bits)
         /\ \A i \in 0 .. Bits - 1 : bitmap_test(c, i) = (bitmap_test(b, i) \/ i = s)
  BY <1>1, AllocatesLowest
<1>3. Fits(c)
  BY <1>1, AllocatesFitting
<1>4. /\ Rec(g) /\ g.dir = f.dir /\ g.inode = f.inode /\ g.entry = f.entry /\ g.cwd = f.cwd
      /\ g.open_inodes = f.open_inodes /\ g.file_table = f.file_table /\ g.stopped = f.stopped
      /\ g.free_map = c /\ g.free_map_file = IF c = b THEN f.free_map_file ELSE c.bits
  BY <1>0 DEF free_map_allocate, bitmap_write, Rec, Fields
<1> HIDE DEF b, c, s, g
<1>5. ASSUME NEW x, Rec(x), x.inode = f.inode, x.entry = f.entry, x.cwd = f.cwd,
             x.open_inodes = f.open_inodes, x.file_table = f.file_table, x.stopped = f.stopped,
             \A n \in Names, t \in Sectors : HasFile(f, n, t) => HasFile(x, n, t),
             DirOK(x), MapOK(x)
      PROVE  Good(x)
  <2>1. InodesOK(x) /\ CwdOK(x) /\ ListsOK(x)
    BY <1>5 DEF Good, Core, InodesOK, CwdOK, ListsOK, LiveInodes, OpenEntries
  <2>2. HandlesOK(x)
    BY <1>5, PathName DEF Good, Core, HandlesOK, PointsTo
  <2>3. QED
    BY <1>5, <2>1, <2>2 DEF Good, Core
<1>6. CASE s = BITMAP_ERROR /\ c = b /\ \A i \in 0 .. Bits - 1 : bitmap_test(b, i)
  <2>1. h = g
    BY <1>4, <1>6 DEF Created, b
  <2>2. \A n, t : HasFile(f, n, t) => HasFile(g, n, t)
    BY <1>4 DEF HasFile
  <2>3. DirOK(g) /\ MapOK(g)
    BY <1>4, <1>6 DEF Good, Core, DirOK, MapOK, Taken, b
  <2>4. Good(g)
    BY <1>4, <1>5, <2>2, <2>3
  <2>5. QED
    BY <1>4, <1>6, <2>1, <2>2, <2>4 DEF h, g, s, b
<1>7. CASE /\ s \in 0 .. Bits - 1 /\ ~bitmap_test(b, s)
           /\ IsBitmap(c, Bits)
           /\ \A i \in 0 .. Bits - 1 : bitmap_test(c, i) = (bitmap_test(b, i) \/ i = s)
  <2>1. c # b /\ g.free_map # f.free_map /\ bitmap_test(c, s)
    BY <1>4, <1>7 DEF b
  <2>2. s \in Nat /\ s \notin {0, 1} /\ s \in 2 .. Bits - 1 /\ ~Taken(f, s) /\ s \in Sectors
    <3>1. s \in 0 .. Bits - 1 /\ s \notin {0, 1} /\ ~Taken(f, s)
      BY <1>1, <1>7
    <3>2. QED
      BY <1>1, <3>1, Constants
  <2>3. InodeOf(g, Cwd) = ROOT_DIR_SECTOR
    BY <1>4 DEF InodeOf
  <2>4. CASE name = NoName \/ lookup(g, Cwd, name) # {}
    <3> DEFINE d == bitmap_set_multiple(c, s, 1, FALSE)
    <3>1. h = free_map_release(g, s)
      BY <2>1, <2>4 DEF Created
    <3>2. bitmap_all(c, s, 1)
      BY <2>1, <2>2, AllOfOne
    <3>3. IsBitmap(d, Bits) /\ Fits(d)
          /\ \A i \in 0 .. Bits - 1 : bitmap_test(d, i) <=> bitmap_test(c, i) /\ i # s
      <4>1. Bits \in Nat /\ s \in 0 .. Bits - 1 /\ IsBitmap(c, Bits)
        BY <1>1, <1>7
      <4>2. QED
        BY <1>3, <4>1, Releases
    <3> HIDE DEF d, h
    <3>4. h = [g EXCEPT !.free_map = d, !.free_map_file = d.bits]
      BY <1>4, <3>1, <3>2 DEF free_map_release, bitmap_write, d
    <3>5. /\ Rec(h) /\ h.dir = f.dir /\ h.inode = f.inode /\ h.entry = f.entry /\ h.cwd = f.cwd
          /\ h.open_inodes = f.open_inodes /\ h.file_table = f.file_table
          /\ h.stopped = f.stopped /\ h.free_map = d /\ h.free_map_file = d.bits
      BY <1>4, <3>4 DEF Rec, Fields
    <3>6. \A n, t : HasFile(f, n, t) => HasFile(h, n, t)
      BY <3>5 DEF HasFile
    <3>7. DirOK(h)
      BY <1>0, <3>5 DEF DirOK
    <3>8. MapOK(h)
      <4>1. \A i \in 0 .. Bits - 1 : bitmap_test(d, i) <=> bitmap_test(b, i)
        BY <1>7, <3>3
      <4>2. \A i : Taken(h, i) <=> Taken(f, i)
        BY <3>5 DEF Taken
      <4>3. \A i \in 0 .. Bits - 1 : bitmap_test(h.free_map, i) <=> i \in {0, 1} \/ Taken(h, i)
        BY <1>1, <3>5, <4>1, <4>2
      <4>4. QED
        BY <3>3, <3>5, <4>3 DEF MapOK
    <3>9. Good(h)
      BY <1>5, <3>5, <3>6, <3>7, <3>8
    <3>10. ASSUME name \in Names PROVE \E t \in Sectors : HasFile(h, name, t)
      <4>1. lookup(g, Cwd, name) # {} /\ DirOK(g)
        BY <2>4, <3>10, <1>0, <1>4, PathsAssumption DEF NoName, DirOK
      <4>2. \E t \in Sectors : HasFile(g, name, t)
        BY <4>1, Finds
      <4>3. QED
        BY <1>4, <3>5, <4>2 DEF HasFile
    <3>11. QED
      BY <3>5, <3>6, <3>9, <3>10 DEF h, g, s, b
  <2>5. CASE name # NoName /\ lookup(g, Cwd, name) = {}
    <3>1. h = dir_add(g, name, s) /\ name \in Names
      BY <2>1, <2>5 DEF Created
    <3>2. \A k \in Slots : f.dir[k] # None => f.dir[k].name # name
      BY <1>4, <2>3, <2>5 DEF lookup
    <3> HIDE DEF h
    <3>3. /\ Rec(h) /\ h.inode = f.inode /\ h.entry = f.entry /\ h.cwd = f.cwd
          /\ h.open_inodes = f.open_inodes /\ h.file_table = f.file_table
          /\ h.stopped = f.stopped /\ h.free_map = c /\ h.free_map_file = c.bits
          /\ h.dir = [f.dir EXCEPT ![CHOOSE k \in Slots : f.dir[k] = None]
                                     = [name |-> name, inode_sector |-> s]]
      BY <1>4, <2>1, <3>1 DEF dir_add, Rec, Fields
    <3>4. /\ DirOK(h) /\ HasFile(h, name, s)
          /\ \A n \in Names, t \in Sectors : HasFile(f, n, t) => HasFile(h, n, t)
          /\ \A t : Taken(h, t) <=> Taken(f, t) \/ t = s
      BY <1>0, <2>2, <3>1, <3>2, <3>3, DirAdds
    <3>5. MapOK(h)
      <4>1. \A i \in 0 .. Bits - 1 : bitmap_test(c, i) <=> bitmap_test(b, i) \/ i = s
        BY <1>7
      <4>2. \A i \in 0 .. Bits - 1 : bitmap_test(h.free_map, i) <=> i \in {0, 1} \/ Taken(h, i)
        BY <1>1, <3>3, <3>4, <4>1
      <4>3. IsBitmap(h.free_map, Bits) /\ Fits(h.free_map) /\ h.free_map_file = h.free_map.bits
        BY <1>3, <1>7, <3>3
      <4>4. QED
        BY <4>2, <4>3 DEF MapOK
    <3>6. Good(h)
      BY <1>5, <3>3, <3>4, <3>5
    <3>7. QED
      BY <2>2, <3>3, <3>4, <3>6 DEF h, g, s, b
  <2>6. QED
    BY <2>4, <2>5
<1>8. QED
  BY <1>2, <1>6, <1>7

\* inode_remove sets one field of the open inode.
LEMMA MarksRemoved ==
    ASSUME NEW x, NEW y, NEW z, NEW r, r = [open_cnt |-> x, removed |-> y]
    PROVE  [r EXCEPT !.removed = z] = [open_cnt |-> x, removed |-> z]
  OBVIOUS

\* Of all inodes only the one of sector s is freed.
InodeGone(f, g, s) ==
    g.inode[s] = None /\ \A t \in Sectors : t # s => g.inode[t] = f.inode[t]

(***************************************************************************)
(* The removal of a file: its slot, its inode and its sector go together,  *)
(* and whoever points to the inode, under whichever path, points to        *)
(* nothing that is used again.                                             *)
(***************************************************************************)
LEMMA GoodErases ==
    ASSUME NEW f, Good(f), NEW d, NEW name, lookup(f, d, name) # {},
           Access(f, InodeOf(f, d)) = f
    PROVE  LET g == dir_remove(f, d, name)
               s == SectorOf(f, name)
           IN  /\ Good(g) /\ Kept(f, g, {name}, {}) /\ s \in Sectors /\ HasFile(f, name, s)
               /\ InodeGone(f, g, s) /\ EntriesFreed(f, g, s) /\ g.cwd = f.cwd
<1> DEFINE s == SectorOf(f, name)
           e == [f EXCEPT !.dir = [k \in Slots |-> IF k \in lookup(f, d, name) THEN None ELSE @[k]]]
           r == inode_open(e, s)
           u == inode_remove(r, s)
           x == Free(u, s)
           b == bitmap_set_multiple(f.free_map, s, 1, FALSE)
           g == dir_remove(f, d, name)
<1>1. Rec(f) /\ DirOK(f) /\ MapOK(f) /\ InodesOK(f) /\ HandlesOK(f) /\ CwdOK(f) /\ ListsOK(f)
      /\ f.stopped = FALSE
  BY DEF Good, Core
<1>2. s \in Sectors /\ HasFile(f, name, s) /\ name \in Names /\ InodeOf(f, d) = ROOT_DIR_SECTOR
  BY <1>1, Finds
<1>3. s \in 2 .. Bits - 1 /\ s # ROOT_DIR_SECTOR /\ Taken(f, s)
      /\ \A t \in Sectors : HasFile(f, name, t) => t = s
  BY <1>1, <1>2, ListedOnce
<1>4. g = inode_close(u, s)
  BY DEF dir_remove
<1> HIDE DEF s
<1>5. /\ Rec(e) /\ e.inode = f.inode /\ e.entry = f.entry /\ e.cwd = f.cwd
      /\ e.stopped = f.stopped /\ e.free_map = f.free_map /\ e.free_map_file = f.free_map_file
      /\ e.open_inodes = f.open_inodes /\ e.file_table = f.file_table
      /\ e.dir = [k \in Slots |-> IF k \in lookup(f, d, name) THEN None ELSE f.dir[k]]
  BY <1>1 DEF Rec, Fields
<1> HIDE DEF e, g
<1>6. InodesOK(e) /\ ListsOK(e)
  BY <1>1, <1>5 DEF InodesOK, ListsOK, LiveInodes, OpenEntries
<1>7. /\ Rec(r) /\ InodesOK(r) /\ ListsOK(r)
      /\ r.dir = e.dir /\ r.free_map = f.free_map /\ r.free_map_file = f.free_map_file
      /\ r.entry = f.entry /\ r.cwd = f.cwd /\ r.stopped = f.stopped
      /\ r.inode[s] = [open_cnt |-> 1, removed |-> FALSE]
      /\ \A t \in Sectors : t # s => r.inode[t] = f.inode[t]
  BY <1>2, <1>5, <1>6, Opens
<1> HIDE DEF r
<1>8. /\ Rec(u) /\ u.dir = e.dir /\ u.free_map = f.free_map /\ u.free_map_file = f.free_map_file
      /\ u.entry = f.entry /\ u.cwd = f.cwd /\ u.stopped = f.stopped
      /\ u.open_inodes = r.open_inodes /\ u.file_table = r.file_table
      /\ u.inode = [r.inode EXCEPT ![s].removed = TRUE]
  BY <1>7 DEF inode_remove, Rec, Fields
<1> HIDE DEF u
<1>9. /\ DOMAIN u.inode = Sectors /\ u.inode[s] = [open_cnt |-> 1, removed |-> TRUE]
      /\ \A t \in Sectors : t # s => u.inode[t] = f.inode[t]
  <2>1. DOMAIN r.inode = Sectors
    BY <1>7 DEF InodesOK
  <2>2. [r.inode[s] EXCEPT !.removed = TRUE] = [open_cnt |-> 1, removed |-> TRUE]
    <3> DEFINE y == FALSE
               z == TRUE
    <3>1. r.inode[s] = [open_cnt |-> 1, removed |-> y]
      BY <1>7
    <3> HIDE DEF y, z
    <3>2. [r.inode[s] EXCEPT !.removed = z] = [open_cnt |-> 1, removed |-> z]
      BY <3>1, MarksRemoved
    <3>3. QED
      BY <3>2, Zenon DEF z
  <2>3. u.inode = [r.inode EXCEPT ![s] = [r.inode[s] EXCEPT !.removed = TRUE]]
    BY <1>8
  <2>4. QED
    BY <1>2, <1>7, <2>1, <2>2, <2>3
<1>10. u.inode[s] # None /\ u.inode[s].open_cnt = 1 /\ u.inode[s].removed = TRUE /\ r.inode[s] # None
  <2> DEFINE v == [open_cnt |-> 1, removed |-> TRUE]
  <2>1. v \in [open_cnt : Nat, removed : BOOLEAN] /\ v.open_cnt = 1 /\ v.removed = TRUE
    OBVIOUS
  <2>2. [open_cnt |-> 1, removed |-> FALSE] \in Held
    BY DEF Held
  <2> HIDE DEF v
  <2>3. v # None
    BY <2>1, PointersAssumption
  <2>4. QED
    BY <1>7, <1>9, <2>1, <2>2, <2>3, Constants DEF v
<1>11. ListsOK(u)
  <2>1. LiveInodes(u) = LiveInodes(r)
    BY <1>7, <1>9, <1>10 DEF LiveInodes
  <2>2. OpenEntries(u) = OpenEntries(r)
    BY <1>7, <1>8 DEF OpenEntries
  <2>3. QED
    BY <1>7, <1>8, <2>1, <2>2 DEF ListsOK
<1>12. DOMAIN u.entry = Paths
  BY <1>1, <1>8 DEF HandlesOK
<1>13. /\ Rec(x) /\ ListsOK(x)
       /\ x.dir = e.dir /\ x.free_map = f.free_map /\ x.free_map_file = f.free_map_file
       /\ x.stopped = FALSE
       /\ DOMAIN x.inode = Sectors /\ x.inode[s] = None
       /\ \A t \in Sectors : t # s => x.inode[t] = f.inode[t]
       /\ x.entry = [p \in Paths |-> x.entry[p]]
       /\ \A p \in Paths : x.entry[p] = IF f.entry[p] = s THEN Freed ELSE f.entry[p]
       /\ x.cwd = f.cwd
  <2>1. u.cwd = None \/ u.cwd.inode # s
    BY <1>1, <1>2, <1>3, <1>8, Constants DEF CwdOK, Handle
  <2>2. /\ Rec(x) /\ ListsOK(x)
        /\ x.dir = u.dir /\ x.free_map = u.free_map /\ x.free_map_file = u.free_map_file
        /\ x.stopped = u.stopped
        /\ DOMAIN x.inode = Sectors /\ x.inode[s] = None
        /\ \A t \in Sectors : t # s => x.inode[t] = u.inode[t]
        /\ x.entry = [p \in Paths |-> x.entry[p]]
        /\ \A p \in Paths : x.entry[p] = IF u.entry[p] = s THEN Freed ELSE u.entry[p]
        /\ x.cwd = IF u.cwd # None /\ u.cwd.inode = s THEN [u.cwd EXCEPT !.inode = Freed]
                   ELSE u.cwd
    BY <1>2, <1>8, <1>9, <1>10, <1>11, <1>12, Frees
  <2> HIDE DEF x
  <2>3. x.cwd = f.cwd
    BY <1>8, <2>1, <2>2
  <2>4. QED
    BY <1>1, <1>8, <1>9, <2>2, <2>3
<1>14. g = free_map_release(x, s)
  <2>1. s # Freed
    BY <1>2, Constants
  <2>2. QED
    BY <1>4, <1>10, <2>1 DEF inode_close
<1> HIDE DEF x
<1>15. s \in Nat /\ s \in 0 .. Bits - 1 /\ bitmap_test(f.free_map, s)
  BY <1>1, <1>3, Constants DEF MapOK
<1>16. bitmap_all(x.free_map, s, 1)
  BY <1>13, <1>15, AllOfOne
<1>17. IsBitmap(b, Bits) /\ Fits(b)
       /\ \A i \in 0 .. Bits - 1 : bitmap_test(b, i) <=> bitmap_test(f.free_map, i) /\ i # s
  BY <1>1, <1>15, Releases DEF MapOK
<1>18. g = [x EXCEPT !.free_map = b, !.free_map_file = b.bits]
  BY <1>13, <1>14, <1>16 DEF free_map_release, bitmap_write
<1> HIDE DEF b
<1>19. /\ Rec(g) /\ g.dir = e.dir /\ g.free_map = b /\ g.free_map_file = b.bits
       /\ g.stopped = FALSE /\ g.inode = x.inode /\ g.entry = x.entry /\ g.cwd = f.cwd
       /\ g.open_inodes = x.open_inodes /\ g.file_table = x.file_table
  BY <1>13, <1>18 DEF Rec, Fields
<1>20. DirOK(g)
  BY <1>1, <1>5, <1>19 DEF DirOK
<1>21. \A t : Taken(g, t) <=> Taken(f, t) /\ t # s
  <2>1. \A k \in Slots : f.dir[k] # None /\ f.dir[k].inode_sector = s
          => k \in lookup(f, d, name)
    <3>1. PICK j \in Slots : f.dir[j] = [name |-> name, inode_sector |-> s]
      BY <1>2 DEF HasFile
    <3>2. f.dir[j] # None
      BY <1>2, <3>1, PointersAssumption
    <3>3. ASSUME NEW k \in Slots, f.dir[k] # None, f.dir[k].inode_sector = s PROVE k = j
      BY <1>1, <3>1, <3>2, <3>3 DEF DirOK
    <3>4. j \in lookup(f, d, name)
      BY <1>2, <3>1, <3>2 DEF lookup
    <3>5. QED
      BY <3>3, <3>4
  <2>2. \A k \in lookup(f, d, name) : k \in Slots /\ f.dir[k] # None /\ f.dir[k].inode_sector = s
    <3>1. SUFFICES ASSUME NEW k \in lookup(f, d, name)
                   PROVE  k \in Slots /\ f.dir[k] # None /\ f.dir[k].inode_sector = s
      OBVIOUS
    <3>2. k \in Slots /\ f.dir[k] # None /\ f.dir[k].name = name /\ f.dir[k] \in Listing1
      BY <1>1 DEF lookup, DirOK
    <3>3. f.dir[k] = [name |-> name, inode_sector |-> f.dir[k].inode_sector]
          /\ f.dir[k].inode_sector \in Sectors
      <4>1. block_size \in Nat
        BY PathsAssumption
      <4>2. QED
        BY <3>2, <4>1 DEF Listing1, Sectors
    <3>4. QED
      BY <1>3, <3>2, <3>3 DEF HasFile
  <2>3. \A k \in Slots : g.dir[k] = IF k \in lookup(f, d, name) THEN None ELSE f.dir[k]
    BY <1>5, <1>19
  <2>4. QED
    BY <2>1, <2>2, <2>3 DEF Taken
<1>22. MapOK(g)
  <2>1. \A i \in 0 .. Bits - 1 : bitmap_test(b, i) <=> i \in {0, 1} \/ Taken(g, i)
    BY <1>1, <1>3, <1>17, <1>21, Constants DEF MapOK
  <2>2. QED
    BY <1>17, <1>19, <2>1 DEF MapOK
<1>23. InodesOK(g)
  <2>1. g.inode = [t \in Sectors |-> g.inode[t]] \/ g.inode \in [Sectors -> {None} \cup Held]
    <3>1. x.inode = [u.inode EXCEPT ![s] = None]
      BY <1>8 DEF x, Free, Rec, Fields
    <3>2. u.inode = [r.inode EXCEPT ![s].removed = TRUE]
      BY <1>8
    <3>3. r.inode \in [Sectors -> {None} \cup Held]
      BY <1>7 DEF InodesOK
    <3>4. x.inode = [r.inode EXCEPT ![s] = None]
      BY <3>1, <3>2, <3>3
    <3>5. QED
      BY <1>19, <3>3, <3>4
  <2>2. \A t \in Sectors : g.inode[t] \in {None} \cup Held
    BY <1>1, <1>13, <1>19 DEF InodesOK
  <2>3. QED
    BY <2>1, <2>2 DEF InodesOK
<1>24. HandlesOK(g)
  <2>1. SUFFICES ASSUME NEW p \in Paths, g.entry[p] \notin {None, Freed}
                 PROVE  PointsTo(g, p, g.entry[p])
    BY <1>13, <1>19 DEF HandlesOK
  <2>2. f.entry[p] # s /\ g.entry[p] = f.entry[p]
    BY <1>13, <1>19, <2>1
  <2>3. PointsTo(f, p, f.entry[p])
    BY <1>1, <2>1, <2>2 DEF HandlesOK
  <2>4. g.inode[f.entry[p]] # None
    BY <1>13, <1>19, <2>2, <2>3 DEF PointsTo
  <2>5. ASSUME p.name # NoName PROVE HasFile(g, p.name, f.entry[p])
    <3>1. PICK k \in Slots : f.dir[k] = [name |-> p.name, inode_sector |-> f.entry[p]]
      BY <2>3, <2>5 DEF PointsTo, HasFile
    <3>2. p.name # name
      BY <1>3, <2>2, <2>3, <2>5 DEF PointsTo
    <3>3. k \notin lookup(f, d, name)
      BY <3>1, <3>2 DEF lookup
    <3>4. g.dir[k] = f.dir[k]
      BY <1>5, <1>19, <3>3
    <3>5. QED
      BY <3>1, <3>4 DEF HasFile
  <2>6. QED
    BY <2>2, <2>3, <2>4, <2>5 DEF PointsTo
<1>25. CwdOK(g)
  BY <1>1, <1>3, <1>13, <1>19, Constants DEF CwdOK
<1>26. ListsOK(g)
  BY <1>13, <1>19 DEF ListsOK, LiveInodes, OpenEntries
<1>27. Kept(f, g, {name}, {})
  <2>1. ASSUME NEW q \in Paths, f.entry[q] = s PROVE q.name = name
    BY <1>2, <2>1, NameOf
  <2>2. QED
    BY <1>2, <1>13, <1>19, <2>1, Constants DEF Kept
<1>28. EntriesFreed(f, g, s)
  BY <1>13, <1>19 DEF EntriesFreed
<1>29. InodeGone(f, g, s)
  BY <1>13, <1>19 DEF InodeGone
<1>30. QED
  BY <1>2, <1>13, <1>19, <1>20, <1>22, <1>23, <1>24, <1>25, <1>26, <1>27, <1>28, <1>29
     DEF Good, Core, s, g

LEMMA GoodDirRemoves ==
    ASSUME NEW f, Good(f), NEW d, InodeOf(f, d) \in Sectors \cup {Freed}, NEW name
    PROVE  LET g == dir_remove(f, d, name)
           IN  \/ Halted(g)
               \/ /\ Good(g) /\ Kept(f, g, {name}, {}) /\ g.cwd = f.cwd
                  /\ \A q \in Paths : g.entry[q] \in {Freed, f.entry[q]}
<1> DEFINE g == Access(f, InodeOf(f, d))
           s == SectorOf(f, name)
           e == [g EXCEPT !.dir = [k \in Slots |-> IF k \in lookup(f, d, name) THEN None
                                                   ELSE @[k]]]
<1>1. Halted(g) \/ g = f
  BY GoodAccess
<1>2. CASE Halted(g)
  <2>1. Halted(e)
    BY <1>2 DEF Halted, Rec, Fields
  <2>2. dir_remove(f, d, name) = IF lookup(f, d, name) = {} THEN g
                                 ELSE inode_close(inode_remove(inode_open(e, s), s), s)
    BY Zenon DEF dir_remove
  <2> HIDE DEF e, g, s
  <2>3. Halted(inode_close(inode_remove(inode_open(e, s), s), s))
    BY <2>1, InodeHalts
  <2>4. QED
    BY <1>2, <2>2, <2>3
<1>3. CASE g = f
  <2>1. CASE lookup(f, d, name) = {}
    BY <1>3, <2>1 DEF dir_remove, Kept
  <2>2. CASE lookup(f, d, name) # {}
    <3> DEFINE x == dir_remove(f, d, name)
    <3>1. Access(f, InodeOf(f, d)) = f
      BY <1>3
    <3> HIDE DEF g, e
    <3>2. EntriesFreed(f, x, s)
      BY <2>2, <3>1, GoodErases
    <3>3. Good(x) /\ Kept(f, x, {name}, {}) /\ x.cwd = f.cwd
      BY <2>2, <3>1, GoodErases
    <3> HIDE DEF x
    <3>4. \A q \in Paths : x.entry[q] \in {Freed, f.entry[q]}
      BY <3>2 DEF EntriesFreed
    <3>5. QED
      BY <3>3, <3>4 DEF x
  <2>3. QED
    BY <2>1, <2>2
<1>4. QED
  BY <1>1, <1>2, <1>3

----------------------------------------------------------------------------
(* The calls of the file system, on any path.                              *)
LEMMA OutcomeWider ==
    ASSUME NEW f, NEW g, NEW N, NEW P, Outcome(f, g, N, P),
           NEW M, NEW Q, N \subseteq M, P \subseteq Q
    PROVE  Outcome(f, g, M, Q)
  BY DEF Outcome, Kept

LEMMA GoodFilesysCreates ==
    ASSUME NEW f, Good(f), NEW p \in Paths \cup RmPaths
    PROVE  Outcome(f, filesys_create(f, p), {NoName}, {})
<1> DEFINE r == dir_open_root(f)
           g == Access(r, r.cwd.inode)
           h == Created(g, free_map_allocate(g), bitmap_scan(g.free_map, 0, 1, FALSE), p.name)
<1>1. filesys_create(f, p) = IF g.stopped THEN g ELSE dir_close(h, Cwd)
  BY DEF filesys_create
<1>2. Good(r) /\ r.dir = f.dir /\ r.entry = f.entry /\ r.cwd # None
  BY GoodOpensRoot
<1>3. p.name \in Names \cup {NoName}
  BY PathName
<1> HIDE DEF r, h
<1>4. r.cwd.inode \in {ROOT_DIR_SECTOR, Freed} /\ r.cwd.inode \in Sectors \cup {Freed}
  BY <1>2, HandleOf
<1>5. Halted(g) \/ (g = r /\ r.cwd.inode # Freed)
  BY <1>2, <1>4, GoodAccess, Constants
<1>6. CASE Halted(g)
  BY <1>1, <1>6 DEF Halted, Outcome
<1>7. CASE g = r /\ r.cwd.inode # Freed
  <2>1. Good(g) /\ g.entry = f.entry /\ g.cwd # None /\ g.cwd.inode = ROOT_DIR_SECTOR
    BY <1>2, <1>4, <1>7
  <2> HIDE DEF g
  <2>2. Good(h) /\ h.entry = g.entry /\ h.cwd = g.cwd
    BY <1>3, <2>1, GoodCreates DEF h
  <2>3. InodeOf(h, Cwd) = ROOT_DIR_SECTOR
    BY <2>1, <2>2 DEF InodeOf
  <2>4. \A q \in Paths : h.entry[q] \in Sectors /\ h.entry[q] = InodeOf(h, Cwd) => q.name \in {NoName}
    BY <2>2, <2>3, NameOf
  <2>5. Stays(h, dir_close(h, Cwd), {NoName}, {})
    BY <2>1, <2>2, <2>4, GoodDirCloses
  <2>6. filesys_create(f, p) = dir_close(h, Cwd)
    BY <1>1, <2>1 DEF Good
  <2>7. QED
    BY <2>1, <2>2, <2>5, <2>6 DEF Stays, Outcome, Kept
<1>8. QED
  BY <1>5, <1>6, <1>7

\* What is opened for the directory part of a path, and by whose names its
\* inode may also be open.
IsDir(f, d, N) ==
    /\ d \in Sectors \cup {Freed, Cwd}
    /\ d = Cwd => f.cwd # None
    /\ \A q \in Paths : f.entry[q] \in Sectors /\ f.entry[q] = InodeOf(f, d) => q.name \in N

LEMMA DirInode ==
    ASSUME NEW f, Good(f), NEW d, NEW N, IsDir(f, d, N)
    PROVE  InodeOf(f, d) \in Sectors \cup {Freed} /\ Stays(f, dir_close(f, d), N, {})
<1>1. InodeOf(f, d) \in Sectors \cup {Freed}
  BY HandleOf DEF IsDir, InodeOf
<1>2. Stays(f, dir_close(f, d), N, {})
  BY GoodDirCloses DEF IsDir
<1>3. QED
  BY <1>1, <1>2

\* A directory that is open is not removed.
LEMMA OpenDirStays ==
    ASSUME NEW f, Good(f), NEW d, NEW N, IsDir(f, d, N)
    PROVE  NotRemoved(f, d) = [f |-> f, dir |-> d] \/ Halted(NotRemoved(f, d).f)
<1> DEFINE i == InodeOf(f, d)
<1>1. i \in Sectors \cup {Freed}
  BY DirInode
<1>2. CASE Halted(Access(f, i))
  <2>1. NotRemoved(f, d) = [f |-> Stop(f), dir |-> None]
    BY <1>2 DEF NotRemoved, Halted
  <2>2. Halted(Stop(f))
    BY DEF Good, Core, Halted, Rec, Fields, Stop
  <2>3. QED
    BY <2>1, <2>2
<1>3. CASE Access(f, i) = f /\ i \in Sectors /\ f.inode[i] # None
  <2>1. f.inode[i].removed = FALSE /\ f.stopped = FALSE
    BY <1>3 DEF Good, Core, InodesOK, Held
  <2>2. QED
    BY <1>3, <2>1 DEF NotRemoved
<1>4. QED
  BY <1>1, <1>2, <1>3, GoodAccess

LEMMA RootIsDir ==
    ASSUME NEW f, Good(f), NEW d \in Sectors \cup {Freed, Cwd}, d = Cwd => f.cwd # None,
           InodeOf(f, d) \in {ROOT_DIR_SECTOR, Freed}, NEW N, NoName \in N
    PROVE  IsDir(f, d, N)
<1>1. \A q \in Paths : f.entry[q] \in Sectors /\ f.entry[q] = InodeOf(f, d) => q.name = NoName
  BY Constants, NameOf
<1>2. QED
  BY <1>1 DEF IsDir

(* The inode of the component is open under its own name, or the root is.  *)
LEMMA GoodComponent ==
    ASSUME NEW f, Good(f), NEW d, NEW N, IsDir(f, d, N), InodeOf(f, d) \in {ROOT_DIR_SECTOR, Freed},
           NoName \in N, NEW m \in {"."} \cup Names, m \in N
    PROVE  LET r == Component(f, d, m)
           IN  \/ Halted(r.f)
               \/ Stays(f, r.f, N, {}) /\ (r.dir = None \/ IsDir(r.f, r.dir, N))
<1> DEFINE l == dir_lookup(f, d, m)
           c == dir_close(l.f, d)
           r == Component(f, d, m)
<1> SUFFICES \/ Halted(r.f)
             \/ Stays(f, r.f, N, {}) /\ (r.dir = None \/ IsDir(r.f, r.dir, N))
  OBVIOUS
<1>1. r = IF l.inode = None THEN [f |-> c, dir |-> None] ELSE NotRemoved(c, l.inode)
  BY DEF Component
<1>2. ASSUME Halted(l.f) PROVE Halted(r.f)
  <2>1. Halted(c)
    BY <1>2, DirectoryHalts
  <2> HIDE DEF c
  <2>2. QED
    BY <1>1, <2>1, PathHalts
<1>3. ASSUME Stays(f, c, N, {}), Good(c) => IsDir(c, l.inode, N), l.inode # None
      PROVE  Halted(r.f) \/ (Stays(f, r.f, N, {}) /\ IsDir(r.f, r.dir, N))
  <2> HIDE DEF c, l, r
  <2>1. CASE Halted(c)
    BY <1>1, <1>3, <2>1, PathHalts
  <2>2. CASE Good(c)
    BY <1>1, <1>3, <2>2, OpenDirStays
  <2>3. QED
    BY <1>3, <2>1, <2>2 DEF Stays
<1>4. CASE m = "."
  <2>1. l.f = f /\ l.inode = InodeOf(f, d)
    BY <1>4 DEF dir_lookup
  <2> HIDE DEF l, r
  <2>2. Stays(f, c, N, {})
    BY <2>1, DirInode
  <2>3. l.inode # None /\ l.inode \in {ROOT_DIR_SECTOR, Freed} /\ l.inode \in Sectors \cup {Freed}
    BY <2>1, Constants
  <2>4. InodeOf(c, l.inode) = l.inode
    BY <2>3, Constants DEF InodeOf
  <2>5. Good(c) => IsDir(c, l.inode, N)
    BY <2>3, <2>4, RootIsDir, Constants
  <2>6. QED
    BY <1>3, <2>2, <2>3, <2>5
<1>5. CASE m \in Names
  <2>1. CASE Halted(l.f)
    BY <1>2, <2>1
  <2>2. CASE l.inode = None /\ l.f = f
    <3>1. Stays(f, c, N, {})
      BY <2>2, DirInode
    <3> HIDE DEF c, l, r
    <3>2. QED
      BY <1>1, <2>2, <3>1
  <2>3. CASE /\ l.inode \in Sectors /\ HasFile(f, m, l.inode)
             /\ l.f = inode_open(f, l.inode)
    <3> HIDE DEF l, r
    <3>1. Good(l.f) /\ l.f.dir = f.dir /\ l.f.entry = f.entry /\ l.f.cwd = f.cwd
      BY <2>3, GoodOpens
    <3>2. IsDir(l.f, d, N)
      BY <3>1 DEF IsDir, InodeOf
    <3>3. Stays(l.f, c, N, {})
      BY <3>1, <3>2, DirInode
    <3> HIDE DEF c
    <3>4. Stays(f, c, N, {})
      BY <3>1, <3>3 DEF Stays, Kept
    <3>5. l.inode # None /\ InodeOf(c, l.inode) = l.inode
      BY <2>3, Constants DEF InodeOf
    <3>6. ASSUME Good(c) PROVE IsDir(c, l.inode, N)
      <4>1. c.dir = f.dir
        BY <3>4, <3>6 DEF Stays, Good, Halted
      <4>2. HasFile(c, m, l.inode)
        BY <2>3, <4>1 DEF HasFile
      <4>3. \A q \in Paths : c.entry[q] = l.inode => q.name = m
        BY <1>5, <2>3, <3>6, <4>2, NameOf
      <4>4. QED
        BY <2>3, <3>5, <4>3, Constants DEF IsDir
    <3>7. QED
      BY <1>3, <3>4, <3>5, <3>6
  <2>4. QED
    BY <1>5, <2>1, <2>2, <2>3, GoodLooksUp, Constants
<1>6. QED
  BY <1>4, <1>5

LEMMA GoodOpensPath ==
    ASSUME NEW f, Good(f), NEW prefix \in {"", "/", "."} \cup Names, NEW N, {prefix, NoName} \subseteq N
    PROVE  LET r == dir_open_path(f, prefix)
           IN  \/ Halted(r.f)
               \/ Stays(f, r.f, N, {}) /\ (r.dir = None \/ IsDir(r.f, r.dir, N))
<1> DEFINE own == prefix # "/" /\ f.cwd # None
           g == IF own THEN f ELSE dir_open_root(f)
           d == IF own THEN f.cwd.inode ELSE Cwd
           r == dir_open_path(f, prefix)
<1> SUFFICES \/ Halted(r.f)
             \/ Stays(f, r.f, N, {}) /\ (r.dir = None \/ IsDir(r.f, r.dir, N))
  OBVIOUS
<1>1. r = IF prefix \in {"", "/"} THEN NotRemoved(g, d) ELSE Component(g, d, prefix)
  BY DEF dir_open_path
<1>2. /\ Good(g) /\ g.dir = f.dir /\ g.entry = f.entry
      /\ d \in Sectors \cup {Freed, Cwd} /\ (d = Cwd => g.cwd # None)
      /\ InodeOf(g, d) \in {ROOT_DIR_SECTOR, Freed}
  <2>1. CASE own
    BY <2>1, HandleOf, Constants DEF InodeOf
  <2>2. CASE ~own
    <3>1. Good(g) /\ g.dir = f.dir /\ g.entry = f.entry /\ g.cwd # None /\ d = Cwd
      BY <2>2, GoodOpensRoot
    <3> HIDE DEF g
    <3>2. QED
      BY <3>1, HandleOf
  <2>3. QED
    BY <2>1, <2>2
<1> HIDE DEF own, g, d, r
<1>3. IsDir(g, d, N) /\ NoName \in N
  BY <1>2, RootIsDir
<1>4. Stays(f, g, N, {})
  BY <1>2 DEF Stays, Kept
<1>5. CASE prefix \in {"", "/"}
  <2>1. CASE r = [f |-> g, dir |-> d]
    BY <1>3, <1>4, <2>1
  <2>2. QED
    BY <1>1, <1>2, <1>3, <1>5, <2>1, OpenDirStays
<1>6. CASE prefix \notin {"", "/"}
  <2>1. prefix \in {"."} \cup Names /\ prefix \in N
    BY <1>6
  <2>2. \/ Halted(r.f)
        \/ Stays(g, r.f, N, {}) /\ (r.dir = None \/ IsDir(r.f, r.dir, N))
    BY <1>1, <1>2, <1>3, <1>6, <2>1, GoodComponent
  <2>3. QED
    BY <1>2, <2>2 DEF Stays, Kept
<1>7. QED
  BY <1>5, <1>6

\* The names whose open files a command on path p may close.
NamesOf(p) == {p.name, p.prefix, NoName}

LEMMA GoodFilesysRemoves ==
    ASSUME NEW f, Good(f), NEW p \in Paths \cup RmPaths
    PROVE  Outcome(f, filesys_remove(f, p), NamesOf(p), {})
<1> DEFINE N == NamesOf(p)
           r == dir_open_path(f, p.prefix)
           g == dir_remove(r.f, r.dir, p.name)
<1>1. filesys_remove(f, p) = IF r.dir = None THEN r.f ELSE dir_close(g, r.dir)
  BY DEF filesys_remove
<1>2. \/ Halted(r.f)
      \/ Stays(f, r.f, N, {}) /\ (r.dir = None \/ IsDir(r.f, r.dir, N))
  BY PathName, GoodOpensPath DEF NamesOf
<1> HIDE DEF r, N
<1>3. CASE Halted(r.f)
  <2>1. Halted(dir_close(g, r.dir))
    BY <1>3, DirectoryHalts
  <2>2. QED
    BY <1>1, <1>3, <2>1 DEF Outcome
<1>4. CASE Stays(f, r.f, N, {}) /\ Good(r.f) /\ r.dir = None
  BY <1>1, <1>4, StaysOutcome DEF N
<1>5. CASE Stays(f, r.f, N, {}) /\ Good(r.f) /\ r.dir # None /\ IsDir(r.f, r.dir, N)
  <2>1. InodeOf(r.f, r.dir) \in Sectors \cup {Freed}
    BY <1>5, DirInode
  <2>2. \/ Halted(g)
        \/ /\ Good(g) /\ Kept(r.f, g, {p.name}, {}) /\ g.cwd = r.f.cwd
           /\ \A q \in Paths : g.entry[q] \in {Freed, r.f.entry[q]}
    BY <1>5, <2>1, GoodDirRemoves
  <2> HIDE DEF g
  <2>3. CASE Halted(g)
    BY <1>1, <1>5, <2>3, DirectoryHalts DEF Outcome
  <2>4. CASE /\ Good(g) /\ Kept(r.f, g, {p.name}, {}) /\ g.cwd = r.f.cwd
             /\ \A q \in Paths : g.entry[q] \in {Freed, r.f.entry[q]}
    <3>1. IsDir(g, r.dir, N)
      BY <1>5, <2>4, Constants DEF IsDir, InodeOf
    <3>2. Stays(g, dir_close(g, r.dir), N, {})
      BY <2>4, <3>1, DirInode
    <3>3. Outcome(r.f, g, N, {})
      BY <2>4 DEF Outcome, Kept, N, NamesOf
    <3>4. Outcome(f, g, N, {})
      BY <1>5, <3>3, StaysOutcome, OutcomeTwice DEF Outcome, Good, Halted
    <3>5. Outcome(f, dir_close(g, r.dir), N, {})
      BY <3>2, <3>4, StaysOutcome, OutcomeTwice, DirectoryHalts
    <3>6. QED
      BY <1>1, <1>5, <3>5 DEF N
  <2>5. QED
    BY <2>2, <2>3, <2>4
<1>6. QED
  BY <1>2, <1>3, <1>4, <1>5 DEF Stays

----------------------------------------------------------------------------
(* The commands on a path.                                                 *)
LEMMA GoodCommands ==
    ASSUME NEW f, Good(f), NEW p \in Paths
    PROVE  /\ Outcome(f, fsutil_create(f, p), NamesOf(p), {p})
           /\ Outcome(f, Used(f, p), NamesOf(p), {p})
           /\ Outcome(f, fsutil_seek(f, p), NamesOf(p), {p})
           /\ Outcome(f, fsutil_cat(f, p), NamesOf(p), {p})
<1>1. {NoName} \subseteq NamesOf(p) /\ {NoName, p.name} \subseteq NamesOf(p)
      /\ {} \subseteq {p} /\ {p} \subseteq {p}
  BY DEF NamesOf
<1>2. Outcome(f, fsutil_create(f, p), NamesOf(p), {p})
  BY <1>1, GoodFilesysCreates, OutcomeWider DEF fsutil_create
<1>3. Outcome(f, Used(f, p), NamesOf(p), {p})
  BY <1>1, GoodUses, StaysOutcome, OutcomeWider
<1>4. Outcome(f, fsutil_seek(f, p), NamesOf(p), {p})
  BY <1>1, GoodOpenFile, StaysOutcome, OutcomeWider DEF fsutil_seek
<1>5. Outcome(f, fsutil_cat(f, p), NamesOf(p), {p})
  BY <1>1, GoodCats, StaysOutcome, OutcomeWider
<1>6. QED
  BY <1>2, <1>3, <1>4, <1>5

LEMMA GoodRms ==
    ASSUME NEW f, Good(f), NEW p \in Paths \cup RmPaths
    PROVE  Outcome(f, fsutil_rm(f, p), NamesOf(p), {p})
<1> DEFINE g == remove_from_file_table(f, p)
<1>1. {p.name} \subseteq NamesOf(p) /\ NamesOf(p) \subseteq NamesOf(p) /\ {} \subseteq {p}
  BY DEF NamesOf
<1>2. Outcome(f, g, NamesOf(p), {p})
  <2>1. Stays(f, g, {p.name}, {})
    BY GoodRemoves
  <2> HIDE DEF g
  <2>2. QED
    BY <1>1, <2>1, StaysOutcome, OutcomeWider
<1> HIDE DEF g
<1>3. ASSUME Good(g) PROVE Outcome(g, filesys_remove(g, p), NamesOf(p), {p})
  BY <1>1, <1>3, GoodFilesysRemoves, OutcomeWider
<1>4. Halted(g) => Halted(filesys_remove(g, p))
  BY FilesysHalts
<1>5. Outcome(f, filesys_remove(g, p), NamesOf(p), {p})
  BY <1>2, <1>3, <1>4, OutcomeTwice
<1>6. QED
  BY <1>5 DEF fsutil_rm, g

LEMMA GoodCopiesIn ==
    ASSUME NEW f, Good(f), NEW p \in Paths
    PROVE  Outcome(f, copy_in(f, p), NamesOf(p), {p})
<1> DEFINE g == fsutil_create(f, p)
           h == Used(g, p)
<1>1. CASE num_free_sectors(f) < 2
  BY <1>1 DEF copy_in, Outcome, Kept
<1>2. CASE ~(num_free_sectors(f) < 2)
  <2>1. copy_in(f, p) = Copied(h, p)
    BY <1>2 DEF copy_in
  <2>2. Outcome(f, g, NamesOf(p), {p})
    BY GoodCommands
  <2> HIDE DEF g
  <2>3. Good(g) => Outcome(g, h, NamesOf(p), {p})
    BY GoodCommands
  <2>4. Halted(g) => Halted(h)
    BY FileHalts
  <2>5. Outcome(f, h, NamesOf(p), {p})
    BY <2>2, <2>3, <2>4, OutcomeTwice
  <2> HIDE DEF h
  <2>6. Copied(h, p) = h \/ Copied(h, p) = Stop(h)
    BY DEF Copied
  <2>7. Halted(Stop(h))
    BY <2>5 DEF Outcome, Good, Core, Halted, Rec, Fields, Stop
  <2>8. QED
    BY <2>1, <2>5, <2>6, <2>7 DEF Outcome
<1>3. QED
  BY <1>1, <1>2

----------------------------------------------------------------------------
(* The commands that go over the listed names.                             *)
Safe(f) == Halted(f) \/ Good(f)

LEMMA OutcomeSafe ==
    ASSUME NEW f, NEW g, NEW N, NEW P, Outcome(f, g, N, P)
    PROVE  Safe(g)
  BY DEF Outcome, Safe

\* Only names of files are listed.
LEMMA ListsNames ==
    ASSUME NEW f, Good(f)
    PROVE  DOMAIN Listing(f) \subseteq Slots /\ \A k \in DOMAIN Listing(f) : Listing(f)[k] \in Names
  BY DEF Listing, Good, Core, DirOK, Listing1

LEMMA SafeBody ==
    ASSUME NEW f, Safe(f), NEW loop \in {"size", "rm", "create"}, NEW n \in Names
    PROVE  Safe(Body(loop, f, n))
<1> DEFINE p == Plain(n)
<1>1. p \in Paths /\ p \in Paths \cup RmPaths
  BY PathsAssumption
<1> HIDE DEF p
<1>2. CASE Halted(f)
  BY <1>2, BodyHalts DEF Safe
<1>3. CASE Good(f)
  <2>1. CASE loop = "size"
    <3>1. Body(loop, f, n) = Used(f, p)
      BY <2>1 DEF Body, p
    <3>2. QED
      BY <1>1, <1>3, <3>1, GoodCommands, OutcomeSafe
  <2>2. CASE loop = "rm"
    <3>1. Body(loop, f, n) = fsutil_rm(f, p)
      BY <2>2 DEF Body, p
    <3>2. QED
      BY <1>1, <1>3, <3>1, GoodRms, OutcomeSafe
  <2>3. CASE loop = "create"
    <3> DEFINE c == fsutil_create(f, p)
               u == Used(c, p)
               w == fsutil_seek(u, p)
    <3>1. Body(loop, f, n) = w
      BY <2>3 DEF Body, Rewritten, p
    <3>2. Safe(c)
      BY <1>1, <1>3, GoodCommands, OutcomeSafe
    <3> HIDE DEF c
    <3>3. Safe(u)
      BY <1>1, <3>2, GoodCommands, OutcomeSafe, FileHalts DEF Safe
    <3> HIDE DEF u
    <3>4. Safe(w)
      BY <1>1, <3>3, GoodCommands, OutcomeSafe, FileHalts DEF Safe
    <3>5. QED
      BY <3>1, <3>4
  <2>4. QED
    BY <2>1, <2>2, <2>3
<1>4. QED
  BY <1>2, <1>3 DEF Safe

LEMMA SafeLoop ==
    ASSUME NEW f, Safe(f), NEW loop \in {"size", "rm", "create"}, NEW names,
           \A k \in DOMAIN names : names[k] \in Names
    PROVE  Safe(ForEach(loop, f, names))
<1> DEFINE N == Cardinality(Names)
<1>1. PICK a : /\ a[0] = f /\ \A k \in 1 .. N : a[k] = Turn(loop, a[k - 1], names, k)
               /\ ForEach(loop, f, names) = a[N]
  BY ForEachTurns
<1>2. N \in Nat
  BY Constants
<1> HIDE DEF N
<1> DEFINE S == {k \in 0 .. N : Safe(a[k])}
<1>3. 0 \in S
  BY <1>1, <1>2
<1>4. ASSUME NEW k \in 1 .. N, k - 1 \in S PROVE k \in S
  <2>1. Safe(a[k - 1])
    BY <1>4
  <2>2. Safe(Turn(loop, a[k - 1], names, k))
    BY <2>1, SafeBody DEF Turn
  <2>3. k \in 0 .. N /\ a[k] = Turn(loop, a[k - 1], names, k)
    BY <1>1, <1>2
  <2>4. QED
    BY <2>2, <2>3
<1> HIDE DEF S
<1>5. 0 .. N \subseteq S
  BY <1>2, <1>3, <1>4, UpTo
<1>6. N \in S
  BY <1>2, <1>5
<1>7. QED
  BY <1>1, <1>6 DEF S

LEMMA SafeRoot ==
    ASSUME NEW f, Safe(f)
    PROVE  Safe(dir_open_root(f)) /\ (Good(dir_open_root(f)) => dir_open_root(f).cwd # None)
  BY GoodOpensRoot, DirectoryHalts DEF Safe, Good, Halted

(* The root directory stays open for who opened it before.                 *)
LEMMA RootStaysOpen ==
    ASSUME NEW f, Good(f), f.cwd # None, NEW n \in Names
    PROVE  Halted(Used(f, Plain(n))) \/ (Good(Used(f, Plain(n))) /\ Used(f, Plain(n)).cwd # None)
<1> DEFINE p == Plain(n)
           g == dir_open_root(f)
           l == dir_lookup(g, Cwd, n)
           h == dir_close(l.f, Cwd)
           r == filesys_open(f, p)
<1>1. p \in Paths /\ p.name = n /\ n # NoName
  BY PathsAssumption DEF Plain, NoName
<1> HIDE DEF p
<1>2. Halted(Used(f, p)) \/ Good(Used(f, p))
  BY <1>1, GoodUses DEF Stays
<1>3. Good(g) /\ g.cwd # None /\ g.cwd = [f.cwd EXCEPT !.open_cnt = @ + 1] /\ g.cwd \in Handle
      /\ f.cwd \in Handle
  BY GoodOpensRoot, HandleOf
<1> HIDE DEF g
<1>4. g.cwd.open_cnt > 1
  BY <1>3 DEF Handle
<1>5. Halted(l.f) \/ l.f.cwd = g.cwd
  <2>1. InodeOf(g, Cwd) \in Sectors \cup {Freed}
    BY <1>3, HandleOf
  <2>2. \/ Halted(l.f)
        \/ l.f = g
        \/ l.inode \in Sectors /\ l.f = inode_open(g, l.inode)
    BY <1>3, <2>1, GoodLooksUp
  <2> HIDE DEF l
  <2>3. QED
    BY <1>3, <2>2, GoodOpens
<1> HIDE DEF l
<1>6. Halted(h) \/ h.cwd # None
  <2>1. CASE Halted(l.f)
    BY <2>1, DirectoryHalts
  <2>2. CASE l.f.cwd = g.cwd /\ ~Halted(l.f)
    <3> DEFINE c == [l.f.cwd EXCEPT !.open_cnt = @ - 1]
    <3>1. h = [l.f EXCEPT !.cwd = c]
      BY <1>4, <2>2 DEF dir_close
    <3>2. c \in Handle
      <4>1. l.f.cwd \in Handle /\ l.f.cwd.open_cnt > 1
        BY <1>3, <1>4, <2>2
      <4>2. QED
        BY <4>1 DEF Handle
    <3>3. Good(l.f)
      <4>1. InodeOf(g, Cwd) \in Sectors \cup {Freed}
        BY <1>3, HandleOf
      <4>2. l.f = g \/ (l.inode \in Sectors /\ l.f = inode_open(g, l.inode))
        BY <1>3, <2>2, <4>1, GoodLooksUp DEF l
      <4>3. QED
        BY <1>3, <4>2, GoodOpens
    <3>4. DOMAIN l.f = Fields
      BY <3>3 DEF Good, Core, Rec
    <3> HIDE DEF c
    <3>5. h.cwd = c
      BY <3>1, <3>4 DEF Fields
    <3>6. QED
      BY <3>2, <3>5, Constants
  <2>3. QED
    BY <1>5, <2>1, <2>2
<1> HIDE DEF h
<1>7. Halted(r.f) \/ r.f.cwd # None
  <2>1. r = IF l.inode = None THEN [f |-> h, inode |-> None]
            ELSE [f |-> Access(h, l.inode), inode |-> l.inode]
    <3> DEFINE opened == [f |-> h, inode |-> l.inode]
    <3>1. r = IF opened.inode = None THEN opened
              ELSE [opened EXCEPT !.f = Access(@, opened.inode)]
      BY <1>1, Zenon DEF filesys_open, g, h, l
    <3>2. QED
      BY <3>1
  <2> HIDE DEF r
  <2>2. r.f \in {h, Access(h, l.inode)}
    BY <2>1
  <2>3. CASE Halted(h)
    BY <2>2, <2>3, InodeHalts
  <2>4. CASE h.cwd # None /\ r.f # h
    <3>1. r.f = Stop(h)
      BY <2>2, <2>4 DEF Access
    <3>2. Halted(r.f) \/ Good(r.f)
      BY <1>1, GoodOpensFile DEF Stays, r
    <3>3. CASE Good(r.f)
      <4>1. DOMAIN Stop(h) = DOMAIN h
        BY DEF Stop
      <4>2. DOMAIN h = Fields
        BY <3>1, <3>3, <4>1 DEF Good, Core, Rec
      <4>3. Stop(h).cwd = h.cwd
        BY <4>2 DEF Stop, Fields
      <4>4. QED
        BY <2>4, <3>1, <4>3
    <3>4. QED
      BY <3>2, <3>3
  <2>5. QED
    BY <1>6, <2>3, <2>4
<1>8. CASE IsOpen(f, p)
  <2>1. Used(f, p) = Touched(f, p)
    BY <1>8 DEF Used, OpenFile
  <2>2. QED
    BY <1>1, <1>2, <2>1, GoodTouches DEF p
<1>9. CASE ~IsOpen(f, p)
  <2> DEFINE a == Added(r, p)
  <2>1. Used(f, p) = Touched(a, p)
    BY <1>9 DEF Used, OpenFile
  <2>2. Halted(r.f) \/ Good(r.f)
    BY <1>1, GoodOpensFile DEF Stays
  <2> HIDE DEF r
  <2>3. Halted(a) \/ (a.cwd = r.f.cwd /\ Good(r.f))
    <3>1. CASE Halted(r.f)
      BY <3>1 DEF Added, Halted
    <3>2. CASE Good(r.f)
      BY <3>2 DEF Added, add_to_file_table, Good, Core, Rec, Fields
    <3>3. QED
      BY <2>2, <3>1, <3>2
  <2>4. Halted(a) \/ Good(a)
    <3>1. a = OpenFile(f, p)
      BY <1>9 DEF OpenFile, r
    <3>2. QED
      BY <1>1, <3>1, GoodOpenFile DEF Stays
  <2> HIDE DEF a
  <2>5. CASE Halted(a)
    <3>1. Halted(Touched(a, p))
      BY <2>5, InodeHalts DEF Touched
    <3>2. QED
      BY <2>1, <3>1 DEF p
  <2>6. CASE Good(a) /\ ~Halted(a)
    <3>1. Touched(a, p) = a \/ Halted(Touched(a, p))
      BY <1>1, <2>6, GoodTouches
    <3>2. a.cwd # None
      BY <1>7, <2>3, <2>6 DEF Good, Halted
    <3>3. QED
      BY <2>1, <2>6, <3>1, <3>2 DEF p
  <2>7. QED
    BY <2>4, <2>5, <2>6
<1>10. QED
  BY <1>8, <1>9

\* A state whose root directory is open, or that is halted.
SafeOpen(f) == Halted(f) \/ (Good(f) /\ f.cwd # None)

LEMMA SafeSizes ==
    ASSUME NEW f, SafeOpen(f), NEW names, \A k \in DOMAIN names : names[k] \in Names
    PROVE  SafeOpen(ForEach("size", f, names))
<1> DEFINE N == Cardinality(Names)
<1>1. PICK a : /\ a[0] = f /\ \A k \in 1 .. N : a[k] = Turn("size", a[k - 1], names, k)
               /\ ForEach("size", f, names) = a[N]
  BY ForEachTurns
<1>2. N \in Nat
  BY Constants
<1> HIDE DEF N
<1> DEFINE S == {k \in 0 .. N : SafeOpen(a[k])}
<1>3. 0 \in S
  BY <1>1, <1>2
<1>4. ASSUME NEW k \in 1 .. N, k - 1 \in S PROVE k \in S
  <2>1. SafeOpen(a[k - 1])
    BY <1>4
  <2>2. ASSUME NEW n \in Names PROVE SafeOpen(Body("size", a[k - 1], n))
    <3>1. Body("size", a[k - 1], n) = Used(a[k - 1], Plain(n))
      BY DEF Body
    <3>2. QED
      BY <2>1, <3>1, RootStaysOpen, FileHalts DEF SafeOpen
  <2>3. SafeOpen(Turn("size", a[k - 1], names, k))
    BY <2>1, <2>2 DEF Turn
  <2>4. k \in 0 .. N /\ a[k] = Turn("size", a[k - 1], names, k)
    BY <1>1, <1>2
  <2>5. QED
    BY <2>3, <2>4
<1> HIDE DEF S
<1>5. 0 .. N \subseteq S
  BY <1>2, <1>3, <1>4, UpTo
<1>6. N \in S
  BY <1>2, <1>5
<1>7. QED
  BY <1>1, <1>6 DEF S

LEMMA SafeListed ==
    ASSUME NEW f, SafeOpen(f)
    PROVE  SafeOpen(Listed(f))
<1>1. CASE Halted(f)
  BY <1>1, DirectoryHalts DEF SafeOpen
<1>2. CASE Good(f) /\ f.cwd # None
  <2> DEFINE c == [f.cwd EXCEPT !.pos = Cardinality(Slots)]
  <2>1. f.cwd \in Handle /\ f.cwd.inode \in Sectors \cup {Freed}
    BY <1>2, HandleOf
  <2>2. CASE Access(f, f.cwd.inode) = f
    <3>1. Listed(f) = [f EXCEPT !.cwd = c]
      BY <2>2 DEF Listed
    <3>2. c \in Handle /\ c.inode = f.cwd.inode
      BY <2>1 DEF Handle
    <3> HIDE DEF c
    <3>3. QED
      BY <1>2, <3>1, <3>2, SetCwd, Constants DEF SafeOpen
  <2>3. CASE Halted(Access(f, f.cwd.inode))
    BY <2>3 DEF Listed, Halted, SafeOpen, Rec, Fields
  <2>4. QED
    BY <1>2, <2>1, <2>2, <2>3, GoodAccess
<1>3. QED
  BY <1>1, <1>2 DEF SafeOpen

LEMMA SafeCloses ==
    ASSUME NEW f, SafeOpen(f)
    PROVE  Safe(dir_close(f, Cwd))
<1>1. CASE Halted(f)
  BY <1>1, DirectoryHalts DEF Safe
<1>2. CASE Good(f) /\ f.cwd # None
  <2>1. IsDir(f, Cwd, {NoName})
    BY <1>2, HandleOf, RootIsDir
  <2>2. QED
    BY <1>2, <2>1, DirInode DEF Stays, Safe
<1>3. QED
  BY <1>1, <1>2 DEF SafeOpen

LEMMA SafeLs ==
    ASSUME NEW f, Safe(f)
    PROVE  Safe(fsutil_ls(f))
<1> DEFINE g == dir_open_root(f)
<1>1. SafeOpen(g)
  BY SafeRoot DEF Safe, SafeOpen
<1> HIDE DEF g
<1>2. QED
  BY <1>1, SafeListed, SafeCloses DEF fsutil_ls, g

LEMMA SafeOpenAll ==
    ASSUME NEW f, Good(f)
    PROVE  Safe(OpenAll(f))
<1> DEFINE g == dir_open_root(f)
           h == ForEach("size", Listed(g), Listing(g))
<1>1. Good(g) /\ SafeOpen(g)
  BY GoodOpensRoot DEF SafeOpen
<1> HIDE DEF g
<1>2. SafeOpen(h)
  BY <1>1, SafeListed, ListsNames, SafeSizes
<1> HIDE DEF h
<1>3. QED
  BY <1>2, SafeCloses DEF OpenAll, SizeEach, g, h

LEMMA SafeDefragment ==
    ASSUME NEW f, Good(f)
    PROVE  Safe(defragment(f))
<1> DEFINE names == Listing(dir_open_root(f))
           g == OpenAll(f)
           h == ForEach("rm", g, names)
<1>1. \A k \in DOMAIN names : names[k] \in Names
  BY GoodOpensRoot, ListsNames
<1>2. Safe(g)
  BY SafeOpenAll
<1> HIDE DEF names, g
<1>3. Safe(h)
  BY <1>1, <1>2, SafeLoop
<1> HIDE DEF h
<1>4. Safe(ForEach("create", h, names))
  BY <1>1, <1>3, SafeLoop
<1>5. QED
  BY <1>4 DEF defragment, names, g, h

----------------------------------------------------------------------------
(* The end of a process and the start of the next one.                     *)

\* list_remove of an element that list_pop_front took off changes nothing.
LEMMA PoppedRemoves ==
    ASSUME NEW f, Good(f), OpenEntries(f) # {}
    PROVE  LET p == Files!list_begin(f.file_table)
           IN  p \in OpenEntries(f) /\ Popped(f) = remove_from_file_table(f, p)
<1> DEFINE L == f.file_table
           p == Files!list_begin(L)
<1>1. FL!IsList(L, OpenEntries(f))
  BY DEF Good, Core, ListsOK
<1>2. p = FL!list_begin(L)
  BY DEF Files!list_begin, FL!list_begin
<1>3. p \in OpenEntries(f)
  BY <1>1, <1>2, ListHeaders, FL!BeginsList
<1> HIDE DEF p
<1>4. FL!ListOf(L, OpenEntries(f)) /\ L[p].next # p
  BY <1>1, <1>3, ListHeaders, FL!IsListLinked, FL!RemoveIsList
<1>5. FL!list_remove(FL!list_remove(L, p), p) = FL!list_remove(L, p)
  BY <1>3, <1>4, ListHeaders, FL!RemoveTwice
<1>6. Files!list_remove(Files!list_pop_front(L), p) = Files!list_remove(L, p)
  BY <1>5 DEF Files!list_remove, FL!list_remove, Files!list_pop_front, p
<1>7. IsOpen(f, p)
  BY <1>3, EntryOf DEF OpenEntries
<1>8. Popped(f) = Unlinked(inode_close(f, f.entry[p]), p, Files!list_remove(L, p))
  BY <1>6 DEF Popped, p
<1>9. QED
  BY <1>3, <1>7, <1>8 DEF remove_from_file_table, p

LEMMA PoppedHalts ==
    ASSUME NEW f, Halted(f)
    PROVE  Halted(Popped(f))
<1> DEFINE p == Files!list_begin(f.file_table)
           g == inode_close(f, f.entry[p])
           L == Files!list_remove(Files!list_pop_front(f.file_table), p)
<1>1. Halted(g)
  BY InodeHalts
<1> HIDE DEF g, L, p
<1>2. Halted(Unlinked(g, p, L))
  BY <1>1 DEF Halted, Rec, Fields, Unlinked
<1>3. QED
  BY <1>2 DEF Popped, g, L, p

\* A turn of free_file_table closes one entry.
LEMMA PoppedOne ==
    ASSUME NEW f, Good(f), OpenEntries(f) # {}
    PROVE  LET g == Popped(f)
           IN  \/ Halted(g)
               \/ /\ Good(g) /\ g.dir = f.dir
                  /\ \E p \in OpenEntries(f) : OpenEntries(g) = OpenEntries(f) \ {p}
<1> DEFINE p == Files!list_begin(f.file_table)
           g == Popped(f)
<1>1. p \in OpenEntries(f) /\ g = remove_from_file_table(f, p)
  BY PoppedRemoves
<1> HIDE DEF p, g
<1>2. p \in Paths /\ f.entry[p] # None
  BY <1>1 DEF OpenEntries
<1>3. Halted(g) \/ RemovedEntry(f, g, p)
  BY <1>1, <1>2, RemovesOne
<1>4. CASE RemovedEntry(f, g, p)
  <2>1. \A q \in Paths : g.entry[q] # None <=> f.entry[q] # None /\ q # p
    BY <1>2, <1>4, Constants DEF RemovedEntry
  <2>2. OpenEntries(g) = OpenEntries(f) \ {p}
    BY <2>1 DEF OpenEntries
  <2>3. QED
    BY <1>1, <1>4, <2>2 DEF RemovedEntry, g
<1>5. QED
  BY <1>3, <1>4 DEF g

LEMMA EntriesFinite ==
    ASSUME NEW f
    PROVE  /\ IsFiniteSet(OpenEntries(f)) /\ Cardinality(OpenEntries(f)) \in Nat
           /\ IsFiniteSet(Table(f)) /\ Cardinality(Table(f)) \in Nat
<1>1. OpenEntries(f) \in SUBSET Paths /\ Table(f) \in SUBSET Paths
  BY DEF OpenEntries, Table, Files!Elements
<1>2. IsFiniteSet(OpenEntries(f)) /\ IsFiniteSet(Table(f))
  BY <1>1, PathsAssumption, FS_Subset
<1>3. QED
  BY <1>2, FS_CardinalityType

\* What holds of a good state after each turn holds after free_file_table.
LEMMA SafeFreesTable ==
    ASSUME NEW f, Safe(f)
    PROVE  LET g == free_file_table(f)
           IN  Halted(g) \/ (Good(f) /\ Good(g) /\ g.dir = f.dir)
<1> DEFINE N == Cardinality(Table(f))
           g == free_file_table(f)
<1>1. N \in Nat
  BY EntriesFinite
<1>2. PICK a : /\ a[0] = f /\ \A k \in 1 .. N : a[k] = Popped(a[k - 1])
               /\ g = a[N]
  BY <1>1, PoppedTurns
<1>3. Good(f) => N = Cardinality(OpenEntries(f))
  BY EntryOf
<1> HIDE DEF N, g
<1> DEFINE S == {k \in 0 .. N :
                   \/ Halted(a[k])
                   \/ /\ Good(f) /\ Good(a[k]) /\ a[k].dir = f.dir
                      /\ Cardinality(OpenEntries(a[k])) = N - k}
<1>4. 0 \in S
  BY <1>1, <1>2, <1>3 DEF Safe
<1>5. ASSUME NEW k \in 1 .. N, k - 1 \in S PROVE k \in S
  <2> DEFINE b == a[k - 1]
  <2>1. a[k] = Popped(b) /\ k \in 0 .. N
    BY <1>1, <1>2
  <2>2. CASE Halted(b)
    BY <2>1, <2>2, PoppedHalts
  <2>3. CASE /\ Good(f) /\ Good(b) /\ b.dir = f.dir
             /\ Cardinality(OpenEntries(b)) = N - (k - 1)
    <3>1. IsFiniteSet(OpenEntries(b)) /\ OpenEntries(b) # {}
      BY <1>1, <2>3, EntriesFinite, FS_EmptySet
    <3> HIDE DEF b
    <3>2. CASE Halted(a[k])
      BY <2>1, <3>2
    <3>3. CASE /\ Good(a[k]) /\ a[k].dir = b.dir
               /\ \E p \in OpenEntries(b) : OpenEntries(a[k]) = OpenEntries(b) \ {p}
      <4>1. PICK p \in OpenEntries(b) : OpenEntries(a[k]) = OpenEntries(b) \ {p}
        BY <3>3
      <4>2. Cardinality(OpenEntries(a[k])) = Cardinality(OpenEntries(b)) - 1
        BY <3>1, <4>1, FS_RemoveElement
      <4>3. Cardinality(OpenEntries(a[k])) = N - k
        BY <1>1, <2>3, <4>2
      <4>4. QED
        BY <2>1, <2>3, <3>3, <4>3
    <3>4. QED
      BY <2>1, <2>3, <3>1, <3>2, <3>3, PoppedOne
  <2>4. QED
    BY <1>5, <2>2, <2>3
<1> HIDE DEF S
<1>6. 0 .. N \subseteq S
  BY <1>1, <1>4, <1>5, UpTo
<1>7. N \in S
  BY <1>1, <1>6
<1>8. QED
  BY <1>2, <1>7 DEF S, g

\* Every file and the free map are closed.
LEMMA SafeDone ==
    ASSUME NEW f, Good(f)
    PROVE  LET g == filesys_done(f)
           IN  Halted(g) \/ (Good(g) /\ g.dir = f.dir)
<1> DEFINE c == inode_close(f, FREE_MAP_SECTOR)
<1>1. Halted(c) \/ (Good(c) /\ c.dir = f.dir)
  <2>1. Halted(c) \/ (c = Free(f, FREE_MAP_SECTOR) /\ f.inode[FREE_MAP_SECTOR] # None)
    BY Constants, GoodCloses
  <2>2. CASE c = Free(f, FREE_MAP_SECTOR) /\ f.inode[FREE_MAP_SECTOR] # None
    BY <2>2, FreesOne, Constants
  <2>3. QED
    BY <2>1, <2>2
<1> HIDE DEF c
<1>2. Halted(free_file_table(c)) \/ (Good(c) /\ Good(free_file_table(c)) /\ free_file_table(c).dir = c.dir)
  BY <1>1, SafeFreesTable DEF Safe
<1>3. Good(c) => c.dir = f.dir
  BY <1>1 DEF Good, Halted
<1>4. QED
  BY <1>2, <1>3 DEF filesys_done, c

\* The two fixed sectors are marked in the map of an empty device.
LEMMA FreshMapMarks ==
    /\ IsBitmap(FreshMap, Bits) /\ Fits(FreshMap)
    /\ \A s \in 0 .. Bits - 1 : bitmap_test(FreshMap, s) <=> s \in {0, 1}
<1> DEFINE b == bitmap_create(Bits)
           one == TRUE
           c == bitmap_set(b, 0, one)
           d == bitmap_set(c, 1, one)
<1>1. Bits \in Nat /\ {0, 1} \subseteq 0 .. Bits - 1
  BY Constants
<1>2. IsBitmap(b, Bits) /\ \A s \in 0 .. Bits - 1 : ~bitmap_test(b, s)
  BY <1>1, CreatedClear
<1>3. Fits(b)
  BY DEF Fits, bitmap_create
<1>4. FreshMap = d
  BY DEF FreshMap, bitmap_set, Bits, FREE_MAP_SECTOR, ROOT_DIR_SECTOR
<1> HIDE DEF b
<1>10. one \in BOOLEAN
  OBVIOUS
<1> HIDE DEF one
<1>5. /\ IsBitmap(c, Bits) /\ Fits(c) /\ bitmap_test(c, 0) = one
      /\ \A s \in 0 .. Bits - 1 : s # 0 => bitmap_test(c, s) = bitmap_test(b, s)
  BY <1>1, <1>2, <1>3, <1>10, SetOne, SetFits
<1> HIDE DEF c
<1>6. /\ IsBitmap(d, Bits) /\ Fits(d) /\ bitmap_test(d, 1) = one
      /\ \A s \in 0 .. Bits - 1 : s # 1 => bitmap_test(d, s) = bitmap_test(c, s)
  BY <1>1, <1>5, <1>10, SetOne, SetFits
<1> HIDE DEF d
<1>7. \A s \in 0 .. Bits - 1 : bitmap_test(d, s) <=> s \in {0, 1}
  BY <1>1, <1>2, <1>5, <1>6 DEF one
<1>8. QED
  BY <1>4, <1>6, <1>7

(* A process that starts on the device finds the map that was written.     *)
LEMMA GoodStart ==
    ASSUME NEW f, DirOK(f), MapOK(f)
    PROVE  LET g == Started(f.dir, f.free_map_file)
           IN  /\ Good(g) /\ g.aliased = FALSE /\ g.cwd = None /\ g.dir = f.dir
               /\ \A p \in Paths : g.entry[p] = None
               /\ \A s \in Sectors : s # FREE_MAP_SECTOR => g.inode[s] = None
               /\ g.inode[FREE_MAP_SECTOR] # None
<1> DEFINE g == Started(f.dir, f.free_map_file)
           first == [open_cnt |-> 1, removed |-> FALSE]
<1>1. bitmap_read(FreshMap, f.free_map_file) = f.free_map
  BY FreshMapMarks, ReadsSame DEF MapOK
<1>2. /\ Rec(g) /\ g.dir = f.dir /\ g.free_map = f.free_map /\ g.free_map_file = f.free_map_file
      /\ g.inode = [s \in Sectors |-> IF s = FREE_MAP_SECTOR THEN first ELSE None]
      /\ g.open_inodes = Inodes!list_push_front(Inodes!llist_init, FREE_MAP_SECTOR)
      /\ g.entry = [p \in Paths |-> None] /\ g.file_table = Files!llist_init
      /\ g.cwd = None /\ g.stopped = FALSE /\ g.aliased = FALSE
  BY <1>1 DEF Started, Rec, Fields
<1>3. first \in Held /\ first # None
  <2>1. first \in Held
    BY DEF Held
  <2> HIDE DEF first
  <2>2. QED
    BY <2>1, Constants
<1> HIDE DEF g, first
<1>4. DirOK(g) /\ MapOK(g)
  BY <1>2 DEF DirOK, MapOK, Taken
<1>5. InodesOK(g)
  BY <1>2, <1>3 DEF InodesOK
<1>6. HandlesOK(g) /\ CwdOK(g)
  BY <1>2 DEF HandlesOK, CwdOK
<1>7. LiveInodes(g) = {FREE_MAP_SECTOR}
  BY <1>2, <1>3, Constants DEF LiveInodes
<1>8. OpenEntries(g) = {}
  BY <1>2 DEF OpenEntries
<1>9. IL!IsList(g.open_inodes, LiveInodes(g))
  <2>1. g.open_inodes = IL!list_insert(IL!llist_init, IL!list_begin(IL!llist_init), FREE_MAP_SECTOR)
    BY <1>2 DEF Inodes!list_push_front, Inodes!list_insert, Inodes!list_begin,
                IL!list_insert, IL!list_begin, Inodes!llist_init, IL!llist_init,
                Inodes!Nodes, IL!Nodes
  <2>2. IL!IsList(IL!llist_init, {})
    BY ListHeaders, IL!EmptyIsList
  <2>3. IL!list_begin(IL!llist_init) \in {} \cup {tail}
    BY <2>2, ListHeaders, IL!BeginsList
  <2>4. FREE_MAP_SECTOR \in Sectors \ {}
    BY Constants
  <2>5. IL!IsList(g.open_inodes, {} \cup {FREE_MAP_SECTOR})
    BY <2>1, <2>2, <2>3, <2>4, ListHeaders, IL!InsertIsList
  <2>6. {} \cup {FREE_MAP_SECTOR} = LiveInodes(g)
    BY <1>7
  <2>7. QED
    BY <2>5, <2>6
<1>10. FL!IsList(g.file_table, OpenEntries(g))
  <2>1. g.file_table = FL!llist_init
    BY <1>2 DEF Files!llist_init, FL!llist_init, Files!Nodes, FL!Nodes
  <2>2. QED
    BY <1>8, <2>1, ListHeaders, FL!EmptyIsList
<1>11. Good(g)
  BY <1>2, <1>4, <1>5, <1>6, <1>9, <1>10 DEF Good, Core, ListsOK
<1>12. /\ \A p \in Paths : g.entry[p] = None
       /\ \A s \in Sectors : s # FREE_MAP_SECTOR => g.inode[s] = None
       /\ g.inode[FREE_MAP_SECTOR] # None
  BY <1>2, <1>3, Constants
<1>13. QED
  BY <1>2, <1>11, <1>12 DEF g

LEMMA GoodInit ==
    ASSUME NEW f, f = Started([k \in Slots |-> None], bitmap_write(FreshMap))
    PROVE  /\ Good(f) /\ f.aliased = FALSE /\ f.cwd = None
           /\ \A p \in Paths : f.entry[p] = None
           /\ \A s \in Sectors : s # FREE_MAP_SECTOR => f.inode[s] = None
           /\ f.inode[FREE_MAP_SECTOR] # None
<1> DEFINE d == [dir |-> [k \in Slots |-> None], free_map |-> FreshMap, free_map_file |-> FreshMap.bits]
<1>1. d.dir = [k \in Slots |-> None] /\ d.free_map = FreshMap /\ d.free_map_file = FreshMap.bits
  OBVIOUS
<1> HIDE DEF d
<1>2. DirOK(d) /\ ~ \E s : Taken(d, s)
  BY <1>1 DEF DirOK, Taken
<1>3. MapOK(d)
  BY <1>1, <1>2, FreshMapMarks DEF MapOK
<1>4. f = Started(d.dir, d.free_map_file)
  BY <1>1 DEF bitmap_write
<1>5. QED
  BY <1>2, <1>3, <1>4, GoodStart

----------------------------------------------------------------------------
(* The first invariant: whatever names are used, the parts of the state    *)
(* agree until the program stops.                                          *)
CoreInv == Core(o) /\ o.stopped \in BOOLEAN

\* History and the end of a run are in none of the parts.
LEMMA SameCore ==
    ASSUME NEW f, Core(f), NEW x
    PROVE  /\ Core([f EXCEPT !.aliased = x]) /\ Core(Stop(f)) /\ Stop(f).stopped = TRUE
           /\ [f EXCEPT !.aliased = x].stopped = f.stopped
           /\ [f EXCEPT !.aliased = x].aliased = x
           /\ [f EXCEPT !.aliased = x].entry = f.entry /\ [f EXCEPT !.aliased = x].cwd = f.cwd
           /\ [f EXCEPT !.aliased = x].inode = f.inode /\ [f EXCEPT !.aliased = x].dir = f.dir
<1>1. ASSUME NEW g, Rec(g), g.dir = f.dir, g.free_map = f.free_map,
             g.free_map_file = f.free_map_file, g.inode = f.inode, g.entry = f.entry,
             g.cwd = f.cwd, g.open_inodes = f.open_inodes, g.file_table = f.file_table
      PROVE  Core(g)
  BY <1>1 DEF Core, DirOK, MapOK, InodesOK, HandlesOK, CwdOK, ListsOK, Taken, PointsTo, HasFile,
              LiveInodes, OpenEntries
<1> DEFINE g == [f EXCEPT !.aliased = x]
           h == Stop(f)
<1>2. /\ Rec(g) /\ g.dir = f.dir /\ g.free_map = f.free_map /\ g.free_map_file = f.free_map_file
      /\ g.inode = f.inode /\ g.entry = f.entry /\ g.cwd = f.cwd
      /\ g.open_inodes = f.open_inodes /\ g.file_table = f.file_table
      /\ g.stopped = f.stopped /\ g.aliased = x
  BY DEF Core, Rec, Fields
<1>3. /\ Rec(h) /\ h.dir = f.dir /\ h.free_map = f.free_map /\ h.free_map_file = f.free_map_file
      /\ h.inode = f.inode /\ h.entry = f.entry /\ h.cwd = f.cwd
      /\ h.open_inodes = f.open_inodes /\ h.file_table = f.file_table /\ h.stopped = TRUE
  BY DEF Core, Rec, Fields, Stop
<1> HIDE DEF g, h
<1>4. Core(g) /\ Core(h)
  BY <1>1, <1>2, <1>3
<1>5. QED
  BY <1>2, <1>3, <1>4 DEF g, h

LEMMA SameCoreAs ==
    ASSUME NEW f, Core(f), NEW x, NEW g, g = [f EXCEPT !.aliased = x]
    PROVE  Core(g) /\ g.stopped = f.stopped /\ g.entry = f.entry
<1> DEFINE h == [f EXCEPT !.aliased = x]
<1>1. Core(h) /\ h.stopped = f.stopped /\ h.entry = f.entry
  BY SameCore
<1> HIDE DEF h
<1>2. g = h
  BY DEF h
<1>3. QED
  BY <1>1, <1>2

LEMMA DoKeeps ==
    ASSUME CoreInv, NEW f, Safe(f), NEW single, Do(f, single)
    PROVE  CoreInv' /\ Good(o) /\ (o'.stopped \/ (Good(f) /\ o'.entry = f.entry))
<1> DEFINE x == o.aliased \/ ~single
<1>1. Good(o)
  BY DEF CoreInv, Do, Good
<1>2. o' = [(IF f.stopped THEN Stop(o) ELSE f) EXCEPT !.aliased = x]
  BY DEF Do
<1> HIDE DEF x
<1>3. CASE Halted(f)
  <2>1. o' = [Stop(o) EXCEPT !.aliased = x]
    BY <1>2, <1>3 DEF Halted
  <2>2. Core(Stop(o)) /\ Stop(o).stopped = TRUE
    BY <1>1, SameCore DEF Good
  <2>3. Core(o') /\ o'.stopped = TRUE
    BY <2>1, <2>2, SameCore
  <2>4. QED
    BY <1>1, <2>3 DEF CoreInv
<1>4. CASE Good(f)
  <2>1. o' = [f EXCEPT !.aliased = x]
    BY <1>2, <1>4 DEF Good
  <2>2. Core(o') /\ o'.stopped = FALSE /\ o'.entry = f.entry
    <3>1. Core(f) /\ f.stopped = FALSE
      BY <1>4 DEF Good
    <3>2. Core(o') /\ o'.stopped = f.stopped /\ o'.entry = f.entry
      BY <2>1, <3>1, SameCoreAs
    <3>3. QED
      BY <3>1, <3>2
  <2>3. QED
    BY <1>1, <1>4, <2>2 DEF CoreInv
<1>5. QED
  BY <1>3, <1>4 DEF Safe

\* What a command on a path ends in.
LEMMA CommandOutcome ==
    ASSUME CoreInv, NEW p \in Paths \cup RmPaths, Command(p)
    PROVE  \E f, single : Outcome(o, f, NamesOf(p), {p}) /\ Do(f, single)
<1>1. ~o.stopped
  BY DEF Command, Create, CopyIn, Use, Seek, Cat, Rm, Do
<1>2. Good(o)
  BY <1>1 DEF CoreInv, Good
<1>3. CASE Rm(p)
  BY <1>2, <1>3, GoodRms DEF Rm
<1>4. CASE p \in Paths /\ Create(p)
  BY <1>2, <1>4, GoodCommands DEF Create
<1>5. CASE p \in Paths /\ CopyIn(p)
  BY <1>2, <1>5, GoodCopiesIn DEF CopyIn
<1>6. CASE p \in Paths /\ Use(p)
  BY <1>2, <1>6, GoodCommands DEF Use
<1>7. CASE p \in Paths /\ Seek(p)
  BY <1>2, <1>7, GoodCommands DEF Seek
<1>8. CASE p \in Paths /\ Cat(p)
  BY <1>2, <1>8, GoodCommands DEF Cat
<1>9. QED
  BY <1>3, <1>4, <1>5, <1>6, <1>7, <1>8 DEF Command

(* A process that starts after quit, on the device that quit left.         *)
LEMMA QuitKeeps ==
    ASSUME CoreInv, Quit
    PROVE  CoreInv'
<1>1. Good(o)
  BY DEF CoreInv, Quit, Good
<1> DEFINE g == filesys_done(o)
<1>2. o' = IF g.stopped THEN Stop(o) ELSE Started(g.dir, g.free_map_file)
  BY DEF Quit
<1>3. Halted(g) \/ Good(g)
  BY <1>1, SafeDone
<1> HIDE DEF g
<1>4. CASE Halted(g)
  BY <1>1, <1>2, <1>4, SameCore DEF Halted, Good, CoreInv
<1>5. CASE Good(g)
  BY <1>2, <1>5, GoodStart DEF Good, Core, CoreInv
<1>6. QED
  BY <1>3, <1>4, <1>5

LEMMA CoreStep ==
    ASSUME CoreInv, [Next]_o
    PROVE  CoreInv'
<1>1. CASE UNCHANGED o
  BY <1>1 DEF CoreInv
<1>2. ASSUME NEW p \in Paths \cup RmPaths, Command(p) PROVE CoreInv'
  BY <1>2, CommandOutcome, OutcomeSafe, DoKeeps
<1>3. CASE \E p \in Paths : Create(p) \/ CopyIn(p) \/ Use(p) \/ Seek(p) \/ Cat(p)
  BY <1>2, <1>3 DEF Command
<1>4. CASE \E p \in Paths \cup RmPaths : Rm(p)
  BY <1>2, <1>4 DEF Command
<1>5. ASSUME ~o.stopped PROVE Good(o) /\ Safe(o)
  BY <1>5 DEF CoreInv, Good, Safe
<1>6. CASE Ls
  <2>1. ~o.stopped /\ Do(fsutil_ls(o), TRUE)
    BY <1>6 DEF Ls, Do
  <2>2. QED
    BY <1>5, <2>1, SafeLs, DoKeeps
<1>7. CASE Search
  <2>1. ~o.stopped /\ Do(OpenAll(o), AllSingle)
    BY <1>7 DEF Search, Do
  <2>2. QED
    BY <1>5, <2>1, SafeOpenAll, DoKeeps
<1>8. CASE Defragment
  <2>1. ~o.stopped /\ Do(defragment(o), AllSingle)
    BY <1>8 DEF Defragment, Do
  <2>2. QED
    BY <1>5, <2>1, SafeDefragment, DoKeeps
<1>9. CASE Quit
  BY <1>9, QuitKeeps
<1>10. QED
  BY <1>1, <1>3, <1>4, <1>6, <1>7, <1>8, <1>9 DEF Next

(* The parts of the file system's state agree after every command, under   *)
(* every way to write a path, until the program stops.                     *)
THEOREM CoreInvariance == Spec => []CoreInv
<1>1. Init => CoreInv
  BY GoodInit DEF Init, CoreInv, Good
<1>2. CoreInv /\ [Next]_o => CoreInv'
  BY CoreStep
<1>3. QED
  BY <1>1, <1>2, PTL DEF Spec

----------------------------------------------------------------------------
(* What the runs check of it.                                              *)

(* The state has its types: an open inode has one open and is not removed. *)
THEOREM TypeCorrect == Spec => []TypeOK
<1>1. CoreInv => TypeOK
  <2> SUFFICES ASSUME CoreInv PROVE TypeOK
    OBVIOUS
  <2>1. /\ DirOK(o) /\ MapOK(o) /\ InodesOK(o) /\ HandlesOK(o) /\ CwdOK(o)
    BY DEF CoreInv, Core
  <2>2. o.dir \in [Slots -> {None} \cup [name : Names, inode_sector : Sectors]]
    <3>1. block_size \in Nat
      BY PathsAssumption
    <3>2. 2 .. block_size - 2 \subseteq Sectors
      BY <3>1 DEF Sectors
    <3>3. Listing1 \subseteq [name : Names, inode_sector : Sectors]
      BY <3>2 DEF Listing1
    <3>4. QED
      BY <2>1, <3>3 DEF DirOK
  <2>3. /\ o.free_map.bit_cnt = block_size - 1
        /\ o.free_map.bits \in [0 .. elem_cnt(block_size - 1) - 1 -> SUBSET (0 .. ELEM_BITS - 1)]
    BY <2>1 DEF MapOK, IsBitmap, Elements, Bits
  <2>4. o.inode \in [Sectors -> {None} \cup [open_cnt : {1}, removed : {FALSE}]]
    BY <2>1 DEF InodesOK, Held
  <2>5. o.entry \in [Paths -> {None, Freed} \cup Sectors]
    BY <2>1 DEF HandlesOK, PointsTo
  <2>6. o.cwd = None \/ o.cwd.pos \in {0, Cardinality(Slots)}
    BY <2>1 DEF CwdOK, Handle
  <2>7. QED
    BY <2>2, <2>3, <2>4, <2>5, <2>6 DEF TypeOK
<1>2. QED
  BY <1>1, CoreInvariance, PTL

(* open_inodes and file_table are doubly linked lists of exactly the open  *)
(* inodes and the entries, also after an entry was taken off twice.        *)
THEOREM BothListsWhole == Spec => []ListsWhole
<1>1. CoreInv => ListsWhole
  <2> SUFFICES ASSUME CoreInv PROVE ListsWhole
    OBVIOUS
  <2>1. ListsOK(o)
    BY DEF CoreInv, Core
  <2>2. Inodes!Elements(o.open_inodes) = LiveInodes(o) /\ Table(o) = OpenEntries(o)
    BY <2>1, Visits
  <2>3. IL!ListOf(o.open_inodes, LiveInodes(o)) /\ FL!ListOf(o.file_table, OpenEntries(o))
    BY <2>1, ListHeaders, IL!IsListLinked, FL!IsListLinked DEF ListsOK
  <2>4. Inodes!Linked(o.open_inodes, LiveInodes(o))
    BY <2>3 DEF IL!ListOf, IL!Linked, Inodes!Linked
  <2>5. Files!Linked(o.file_table, OpenEntries(o))
    BY <2>3 DEF FL!ListOf, FL!Linked, Files!Linked
  <2>6. QED
    BY <2>2, <2>4, <2>5 DEF ListsWhole, LiveInodes, OpenEntries
<1>2. QED
  BY <1>1, CoreInvariance, PTL

(* The sectors that freespace counts are those no slot has, but the two    *)
(* fixed ones.                                                             *)
LEMMA CountsFree ==
    ASSUME NEW f, DirOK(f), MapOK(f)
    PROVE  LET U == {k \in Slots : f.dir[k] # None}
               T == {f.dir[k].inode_sector : k \in U}
           IN  /\ Marked(f.free_map) = T \cup {0, 1}
               /\ num_free_sectors(f) = Bits - 2 - Cardinality(U)
               /\ Cardinality(U) \in Nat
<1> DEFINE U == {k \in Slots : f.dir[k] # None}
           T == {f.dir[k].inode_sector : k \in U}
           M == Marked(f.free_map)
           F == {i \in 0 .. Bits - 1 : bitmap_test(f.free_map, i) = FALSE}
<1>1. Bits \in Nat /\ {0, 1} \subseteq 0 .. Bits - 1 /\ f.free_map.bit_cnt = Bits
  BY Constants DEF MapOK, IsBitmap
<1>2. \A k \in U : f.dir[k].inode_sector \in 2 .. Bits - 1
  <2>1. block_size \in Nat
    BY PathsAssumption
  <2>2. \A k \in U : f.dir[k] \in Listing1
    BY DEF DirOK
  <2>3. QED
    BY <2>1, <2>2 DEF Listing1, Bits
<1>3. \A s : Taken(f, s) <=> s \in T
  BY DEF Taken
<1>4. M = {s \in 0 .. Bits - 1 : bitmap_test(f.free_map, s)}
  BY <1>1 DEF Marked
<1>5. M = T \cup {0, 1}
  BY <1>1, <1>2, <1>3, <1>4 DEF MapOK
<1>6. IsFiniteSet(U) /\ Cardinality(U) \in Nat
  BY Constants, FS_Subset, FS_CardinalityType
<1> DEFINE m == [k \in U |-> f.dir[k].inode_sector]
<1>7. m \in Bijection(U, T)
  BY DEF DirOK, Bijection, Injection, Surjection, IsInjective
<1>8. IsFiniteSet(T) /\ Cardinality(T) = Cardinality(U)
  <2>1. ExistsBijection(U, T)
    BY <1>7 DEF ExistsBijection
  <2> HIDE DEF U, T
  <2>2. QED
    BY <1>6, <2>1, FS_Bijection
<1>9. 0 \notin T /\ 1 \notin T
  BY <1>2
<1>10. F = (0 .. Bits - 1) \ M
  <2>1. \A i : bitmap_test(f.free_map, i) \in BOOLEAN
    BY DEF bitmap_test
  <2>2. QED
    BY <1>4, <2>1
<1>11. num_free_sectors(f) = Cardinality(F)
  <2>1. 0 .. 0 + Bits - 1 = 0 .. Bits - 1
    BY <1>1
  <2>2. QED
    BY <1>1, <2>1 DEF num_free_sectors, bitmap_count
<1> HIDE DEF U, T, M, F, m
<1>12. IsFiniteSet(M) /\ Cardinality(M) = Cardinality(U) + 2
  <2>1. IsFiniteSet(T \cup {0}) /\ Cardinality(T \cup {0}) = Cardinality(U) + 1
    BY <1>8, <1>9, FS_AddElement
  <2>2. 1 \notin T \cup {0}
    BY <1>9
  <2>3. IsFiniteSet((T \cup {0}) \cup {1})
        /\ Cardinality((T \cup {0}) \cup {1}) = (Cardinality(U) + 1) + 1
    BY <2>1, <2>2, FS_AddElement
  <2>4. (T \cup {0}) \cup {1} = M
    BY <1>5
  <2>5. IsFiniteSet(M) /\ Cardinality(M) = (Cardinality(U) + 1) + 1
    BY <2>3, <2>4, Zenon
  <2>6. QED
    BY <1>6, <2>5
<1>13. IsFiniteSet(0 .. Bits - 1) /\ Cardinality(0 .. Bits - 1) = Bits
  <2>1. 0 \in Int /\ Bits - 1 \in Int /\ ~(0 > Bits - 1)
    BY <1>1
  <2>2. QED
    BY <1>1, <2>1, FS_Interval
<1>14. Cardinality(F) = Bits - Cardinality((0 .. Bits - 1) \cap M)
  BY <1>10, <1>13, FS_Difference
<1>15. (0 .. Bits - 1) \cap M = M
  BY <1>4
<1>16. num_free_sectors(f) = Bits - 2 - Cardinality(U)
  BY <1>1, <1>6, <1>11, <1>12, <1>14, <1>15
<1>17. QED
  BY <1>5, <1>6, <1>16 DEF U, T, M

(* The free map marks the listed files' sectors and the two fixed ones, in *)
(* memory and on the device, and freespace counts all others.              *)
THEOREM MapAlwaysAgrees == Spec => []MapAgrees
<1>1. CoreInv => MapAgrees
  <2> SUFFICES ASSUME CoreInv PROVE MapAgrees
    OBVIOUS
  <2>1. DirOK(o) /\ MapOK(o)
    BY DEF CoreInv, Core
  <2>2. /\ Marked(o.free_map) = {o.dir[k].inode_sector : k \in Used_slots} \cup {0, 1}
        /\ num_free_sectors(o) = Bits - 2 - Cardinality(Used_slots)
    BY <2>1, CountsFree DEF Used_slots
  <2>3. o.free_map_file = bitmap_write(o.free_map) /\ o.free_map.bit_cnt = Bits
    BY <2>1 DEF MapOK, bitmap_write, IsBitmap
  <2>4. \A j, k \in Used_slots : j # k =>
          o.dir[j].name # o.dir[k].name /\ o.dir[j].inode_sector # o.dir[k].inode_sector
    BY <2>1 DEF DirOK, Used_slots
  <2>5. QED
    BY <2>2, <2>3, <2>4 DEF MapAgrees, FREE_MAP_SECTOR, ROOT_DIR_SECTOR
<1>2. QED
  BY <1>1, CoreInvariance, PTL

(* A command closes or frees only what is open under the names it is given.*)
THEOREM OtherFilesStayOpen == Spec => OthersStayOpen
<1> DEFINE Kept1(p) == o'.stopped \/ \A q \in Paths :
                          o.entry[q] # None /\ q.name \notin {p.name, p.prefix, NoName} =>
                             o'.entry[q] = o.entry[q]
           Action == \A p \in Paths \cup RmPaths : Command(p) => Kept1(p)
<1>1. CoreInv /\ [Next]_o => [Action]_o
  <2> SUFFICES ASSUME CoreInv, NEW p \in Paths \cup RmPaths, Command(p) PROVE Kept1(p)
    OBVIOUS
  <2>1. PICK f, single : Outcome(o, f, NamesOf(p), {p}) /\ Do(f, single)
    BY CommandOutcome
  <2>2. o'.stopped \/ (Good(f) /\ o'.entry = f.entry)
    BY <2>1, OutcomeSafe, DoKeeps
  <2>3. CASE Good(f) /\ o'.entry = f.entry
    BY <2>1, <2>3 DEF Outcome, Halted, Good, Kept, NamesOf
  <2>4. QED
    BY <2>2, <2>3
<1>2. Spec => [][Action]_o
  BY <1>1, CoreInvariance, PTL DEF Spec
<1>3. QED
  BY <1>2 DEF OthersStayOpen

----------------------------------------------------------------------------
(* As long as no file is used under two names, everything that is opened   *)
(* is closed once.  Between two operations of a command:                   *)

\* No entry is for the path "/" or points to freed memory, and a name has one.
TableTidy(f) ==
    /\ \A p \in OpenEntries(f) : p.name # NoName /\ f.entry[p] # Freed
    /\ \A p, q \in OpenEntries(f) : p.name = q.name => p = q

\* The root directory was opened c times more than it was closed.
Rooted(f, c) == IF c = 0 THEN f.cwd = None /\ f.inode[ROOT_DIR_SECTOR] = None
                ELSE f.cwd # None /\ f.cwd.inode = ROOT_DIR_SECTOR /\ f.cwd.open_cnt = c

\* Every other inode but the one of sector x is open for an entry.
AllHeld(f, x) ==
    /\ f.inode[FREE_MAP_SECTOR] # None
    /\ \A s \in Sectors : f.inode[s] # None =>
         s \in {FREE_MAP_SECTOR, ROOT_DIR_SECTOR, x} \/ \E p \in Paths : f.entry[p] = s

Neat(f, c, x) == Good(f) /\ TableTidy(f) /\ Rooted(f, c) /\ AllHeld(f, x)

\* An open entry is the only one that points to the inode of its file.
LEMMA NeatEntry ==
    ASSUME NEW f, Good(f), TableTidy(f), NEW p \in Paths, f.entry[p] # None
    PROVE  /\ p.name \in Names /\ f.entry[p] \in Sectors /\ f.inode[f.entry[p]] # None
           /\ HasFile(f, p.name, f.entry[p])
           /\ f.entry[p] # FREE_MAP_SECTOR /\ f.entry[p] # ROOT_DIR_SECTOR
           /\ \A q \in Paths : f.entry[q] = f.entry[p] => q = p
<1> DEFINE s == f.entry[p]
<1>1. p.name # NoName /\ s # Freed
  BY DEF TableTidy, OpenEntries
<1>2. s \in Sectors
  BY <1>1, EntryOf
<1>3. p.name \in Names /\ HasFile(f, p.name, s) /\ f.inode[s] # None /\ s # ROOT_DIR_SECTOR
  BY <1>1, <1>2, NameOf
<1>4. s # FREE_MAP_SECTOR
  <2>1. s \in 2 .. Bits - 1
    BY <1>2, <1>3, ListedOnce DEF Good, Core
  <2>2. QED
    BY <2>1 DEF FREE_MAP_SECTOR
<1>5. ASSUME NEW q \in Paths, f.entry[q] = s PROVE q = p
  <2>1. q.name = p.name
    BY <1>2, <1>3, <1>5, NameOf
  <2>2. QED
    BY <1>5, <2>1 DEF TableTidy, OpenEntries
<1>6. QED
  BY <1>2, <1>3, <1>4, <1>5

\* What neither the root directory nor the slots are part of.
LEMMA NeatSame ==
    ASSUME NEW f, NEW c, NEW x, Neat(f, c, x), NEW g, Good(g), g.entry = f.entry,
           \A t \in Sectors : t # ROOT_DIR_SECTOR => g.inode[t] = f.inode[t],
           NEW d, Rooted(g, d)
    PROVE  Neat(g, d, x)
<1>1. TableTidy(g)
  BY DEF Neat, TableTidy, OpenEntries
<1>2. AllHeld(g, x)
  BY Constants DEF Neat, AllHeld
<1>3. QED
  BY <1>1, <1>2 DEF Neat

LEMMA NeatOpensRoot ==
    ASSUME NEW f, NEW c \in Nat, NEW x, Neat(f, c, x)
    PROVE  LET g == dir_open_root(f)
           IN  Neat(g, c + 1, x) /\ g.dir = f.dir /\ g.entry = f.entry /\ g.free_map = f.free_map
<1> DEFINE g == dir_open_root(f)
<1>1. /\ Good(g) /\ g.dir = f.dir /\ g.entry = f.entry /\ g.free_map = f.free_map
      /\ g.cwd # None
      /\ \A t \in Sectors : t # ROOT_DIR_SECTOR => g.inode[t] = f.inode[t]
      /\ f.cwd = None => g.cwd = [inode |-> ROOT_DIR_SECTOR, open_cnt |-> 1, pos |-> 0]
      /\ f.cwd # None => g.cwd = [f.cwd EXCEPT !.open_cnt = @ + 1]
  BY GoodOpensRoot DEF Neat
<1> HIDE DEF g
<1>2. c + 1 # 0
  OBVIOUS
<1>3. g.cwd.inode = ROOT_DIR_SECTOR /\ g.cwd.open_cnt = c + 1
  <2>1. CASE c = 0
    BY <1>1, <2>1 DEF Neat, Rooted
  <2>2. CASE c # 0
    <3>1. f.cwd # None /\ f.cwd.inode = ROOT_DIR_SECTOR /\ f.cwd.open_cnt = c
      BY <2>2 DEF Neat, Rooted
    <3>2. f.cwd \in Handle
      BY <3>1, HandleOf DEF Neat
    <3>3. QED
      BY <1>1, <3>1, <3>2 DEF Handle
  <2>3. QED
    BY <2>1, <2>2
<1>4. Rooted(g, c + 1)
  BY <1>1, <1>2, <1>3 DEF Rooted
<1>5. Neat(g, c + 1, x)
  BY <1>1, <1>4, NeatSame
<1>6. QED
  BY <1>1, <1>5 DEF g

\* The root directory is there as long as somebody has it open.
LEMMA RootIsLive ==
    ASSUME NEW f, NEW c \in Nat, NEW x, Neat(f, c + 1, x)
    PROVE  /\ f.cwd # None /\ f.cwd.inode = ROOT_DIR_SECTOR /\ f.cwd.open_cnt = c + 1
           /\ f.cwd \in Handle /\ InodeOf(f, Cwd) = ROOT_DIR_SECTOR
           /\ f.inode[ROOT_DIR_SECTOR] # None /\ Access(f, ROOT_DIR_SECTOR) = f
           /\ Good(f)
<1>1. c + 1 # 0
  OBVIOUS
<1>2. f.cwd # None /\ f.cwd.inode = ROOT_DIR_SECTOR /\ f.cwd.open_cnt = c + 1 /\ Good(f)
  BY <1>1 DEF Neat, Rooted
<1>3. f.inode[ROOT_DIR_SECTOR] # None
  BY <1>2 DEF Good, Core, CwdOK
<1>4. f.cwd \in Handle /\ InodeOf(f, Cwd) = ROOT_DIR_SECTOR
  BY <1>2, HandleOf
<1>5. Access(f, ROOT_DIR_SECTOR) = f
  BY <1>3, Constants DEF Access
<1>6. QED
  BY <1>2, <1>3, <1>4, <1>5

LEMMA NeatClosesRoot ==
    ASSUME NEW f, NEW c \in Nat, NEW x, Neat(f, c + 1, x)
    PROVE  LET g == dir_close(f, Cwd)
           IN  /\ Neat(g, c, x) /\ g.dir = f.dir /\ g.entry = f.entry /\ g.free_map = f.free_map
               /\ \A t \in Sectors : t # ROOT_DIR_SECTOR => g.inode[t] = f.inode[t]
<1> DEFINE g == dir_close(f, Cwd)
<1>1. /\ f.cwd # None /\ f.cwd.inode = ROOT_DIR_SECTOR /\ f.cwd.open_cnt = c + 1
      /\ f.cwd \in Handle /\ InodeOf(f, Cwd) = ROOT_DIR_SECTOR
      /\ f.inode[ROOT_DIR_SECTOR] # None /\ Good(f)
  BY RootIsLive
<1>2. CASE c # 0
  <2> DEFINE w == [f.cwd EXCEPT !.open_cnt = @ - 1]
  <2>1. g = [f EXCEPT !.cwd = w]
    BY <1>1, <1>2 DEF dir_close
  <2>2. w \in Handle /\ w.inode = ROOT_DIR_SECTOR /\ w.open_cnt = c
    BY <1>1, <1>2 DEF Handle
  <2> HIDE DEF w, g
  <2>3. /\ Good(g) /\ g.dir = f.dir /\ g.entry = f.entry /\ g.free_map = f.free_map
        /\ g.inode = f.inode /\ g.cwd = w
    BY <1>1, <2>1, <2>2, SetCwd
  <2>4. Rooted(g, c)
    BY <1>2, <2>2, <2>3, Constants DEF Rooted
  <2>5. Neat(g, c, x)
    BY <2>3, <2>4, NeatSame
  <2>6. QED
    BY <2>3, <2>5 DEF g
<1>3. CASE c = 0
  <2> DEFINE h == Free(f, ROOT_DIR_SECTOR)
  <2>1. g = [inode_close(f, ROOT_DIR_SECTOR) EXCEPT !.cwd = None]
    <3>1. ~(f.cwd.open_cnt > 1)
      BY <1>1, <1>3
    <3>2. QED
      BY <1>1, <3>1 DEF dir_close
  <2>2. inode_close(f, ROOT_DIR_SECTOR) = h
    BY <1>1, GoodCloses, Constants
  <2>3. /\ Good(h) /\ EntriesFreed(f, h, ROOT_DIR_SECTOR) /\ h.dir = f.dir
        /\ h.inode[ROOT_DIR_SECTOR] = None /\ h.free_map = f.free_map
        /\ \A t \in Sectors : t # ROOT_DIR_SECTOR => h.inode[t] = f.inode[t]
    BY <1>1, FreesOne, Constants
  <2> HIDE DEF h, g
  <2>4. \A p \in Paths : f.entry[p] # ROOT_DIR_SECTOR
    BY <1>1, NeatEntry, Constants DEF Neat
  <2>5. h.entry = f.entry
    <3>1. \A p \in Paths : h.entry[p] = f.entry[p]
      BY <2>3, <2>4 DEF EntriesFreed
    <3>2. h.entry = [p \in Paths |-> h.entry[p]] /\ f.entry = [p \in Paths |-> f.entry[p]]
      BY <1>1, <2>3 DEF Good, Core, HandlesOK
    <3>3. QED
      BY <3>1, <3>2
  <2>6. g = [h EXCEPT !.cwd = None]
    BY <2>1, <2>2
  <2>7. /\ Good(g) /\ g.dir = h.dir /\ g.entry = h.entry /\ g.free_map = h.free_map
        /\ g.inode = h.inode /\ g.cwd = None
    BY <2>3, <2>6, SetCwd
  <2>8. Rooted(g, c)
    BY <1>3, <2>3, <2>7 DEF Rooted
  <2>9. Neat(g, c, x)
    BY <2>3, <2>5, <2>7, <2>8, NeatSame
  <2>10. QED
    BY <2>3, <2>5, <2>7, <2>9 DEF g
<1>4. QED
  BY <1>2, <1>3

\* Opening the inode of a file leaves one that no entry holds yet.
LEMMA NeatOpens ==
    ASSUME NEW f, NEW c, Neat(f, c, None), NEW s \in Sectors, s # ROOT_DIR_SECTOR
    PROVE  Neat(inode_open(f, s), c, s)
<1> DEFINE g == inode_open(f, s)
<1>1. /\ Good(g) /\ g.entry = f.entry /\ g.cwd = f.cwd /\ g.inode[s] # None
      /\ \A t \in Sectors : t # s => g.inode[t] = f.inode[t]
  BY GoodOpens DEF Neat
<1> HIDE DEF g
<1>2. TableTidy(g)
  BY <1>1 DEF Neat, TableTidy, OpenEntries
<1>3. Rooted(g, c)
  BY <1>1, Constants DEF Neat, Rooted
<1>4. AllHeld(g, s)
  <2>1. g.inode[FREE_MAP_SECTOR] # None
    BY <1>1, Constants DEF Neat, AllHeld
  <2>2. QED
    BY <1>1, <2>1, Constants DEF Neat, AllHeld
<1>5. QED
  BY <1>1, <1>2, <1>3, <1>4 DEF Neat, g

(* The file that is listed under the name is opened, and the root is       *)
(* closed as often as it was opened.                                       *)
LEMMA NeatOpensFile ==
    ASSUME NEW f, NEW c \in Nat, Neat(f, c, None), NEW p \in Paths, p.name \in Names
    PROVE  LET r == filesys_open(f, p)
           IN  /\ r.f.dir = f.dir /\ r.f.entry = f.entry
               /\ \/ /\ r.inode = None /\ Neat(r.f, c, None)
                     /\ \A t \in Sectors : ~HasFile(f, p.name, t)
                  \/ r.inode \in Sectors /\ PointsTo(r.f, p, r.inode) /\ Neat(r.f, c, r.inode)
<1> DEFINE g == dir_open_root(f)
           l == dir_lookup(g, Cwd, p.name)
           h == dir_close(l.f, Cwd)
           r == filesys_open(f, p)
<1>1. p.name # NoName
  BY PathsAssumption DEF NoName
<1>2. r = IF l.inode = None THEN [f |-> h, inode |-> None]
          ELSE [f |-> Access(h, l.inode), inode |-> l.inode]
  <2> DEFINE opened == [f |-> h, inode |-> l.inode]
  <2> HIDE DEF h, l, g
  <2>1. r = IF opened.inode = None THEN opened
            ELSE [opened EXCEPT !.f = Access(@, opened.inode)]
    BY <1>1, Zenon DEF filesys_open, g, h, l
  <2>2. QED
    BY <2>1
<1>3. Neat(g, c + 1, None) /\ g.dir = f.dir /\ g.entry = f.entry
  BY NeatOpensRoot
<1> HIDE DEF g, r
<1>4. /\ Good(g) /\ InodeOf(g, Cwd) = ROOT_DIR_SECTOR /\ g.inode[ROOT_DIR_SECTOR] # None
  BY <1>3, RootIsLive
<1>5. \/ l.inode = None /\ l.f = g /\ lookup(g, Cwd, p.name) = {}
      \/ /\ l.inode \in Sectors /\ HasFile(g, p.name, l.inode)
         /\ l.f = inode_open(g, l.inode) /\ l.inode # ROOT_DIR_SECTOR
  <2>1. InodeOf(g, Cwd) \in Sectors \cup {Freed}
    BY <1>4, Constants
  <2>2. ~(InodeOf(g, Cwd) = Freed \/ g.inode[InodeOf(g, Cwd)] = None)
    BY <1>4, Constants
  <2>3. QED
    BY <1>4, <2>1, <2>2, GoodLooksUp
<1> HIDE DEF l
<1>6. CASE l.inode = None /\ l.f = g /\ lookup(g, Cwd, p.name) = {}
  <2>1. Neat(h, c, None) /\ h.dir = g.dir /\ h.entry = g.entry
    BY <1>3, <1>6, NeatClosesRoot
  <2>2. ASSUME NEW t \in Sectors PROVE ~HasFile(f, p.name, t)
    <3>1. ~HasFile(g, p.name, t)
      BY <1>4, <1>6, FindsNot DEF Good, Core
    <3>2. QED
      BY <1>3, <3>1 DEF HasFile
  <2> HIDE DEF h
  <2>3. r.f = h /\ r.inode = None
    BY <1>2, <1>6
  <2>4. QED
    BY <1>3, <2>1, <2>2, <2>3 DEF r
<1>7. CASE /\ l.inode \in Sectors /\ HasFile(g, p.name, l.inode)
           /\ l.f = inode_open(g, l.inode) /\ l.inode # ROOT_DIR_SECTOR
  <2> DEFINE s == l.inode
  <2>1. l.f.dir = f.dir /\ l.f.entry = f.entry /\ l.f.inode[s] # None
    BY <1>3, <1>4, <1>7, GoodOpens
  <2>2. Neat(l.f, c + 1, s)
    BY <1>3, <1>7, NeatOpens
  <2>3. /\ Neat(h, c, s) /\ h.dir = f.dir /\ h.entry = f.entry
        /\ \A t \in Sectors : t # ROOT_DIR_SECTOR => h.inode[t] = l.f.inode[t]
    BY <2>1, <2>2, NeatClosesRoot
  <2> HIDE DEF h
  <2>4. h.inode[s] # None /\ s # Freed /\ s # None
    BY <1>7, <2>1, <2>3, Constants
  <2>5. r.f = h /\ r.inode = s
    BY <1>2, <2>4 DEF Access
  <2>6. PointsTo(h, p, s)
    BY <1>1, <1>3, <1>7, <2>3, <2>4 DEF PointsTo, HasFile
  <2>7. QED
    BY <1>7, <2>3, <2>5, <2>6 DEF r
<1>8. QED
  BY <1>5, <1>6, <1>7

\* What a command with path p changes in the table.
OnlyEntry(f, g, p) == \A q \in Paths : q # p => g.entry[q] = f.entry[q]

(* A file is opened under one name, and used while it is open.             *)
LEMMA NeatOpenFile ==
    ASSUME NEW f, NEW c \in Nat, Neat(f, c, None), NEW p \in Paths, p.name \in Names,
           Holders(f, p) \subseteq {p}
    PROVE  LET g == OpenFile(f, p)
           IN  /\ Neat(g, c, None) /\ g.dir = f.dir /\ OnlyEntry(f, g, p)
               /\ f.entry[p] # None => g.entry[p] # None
               /\ (\E t \in Sectors : HasFile(f, p.name, t)) => g.entry[p] # None
<1> DEFINE r == filesys_open(f, p)
           g == OpenFile(f, p)
<1>1. Good(f)
  BY DEF Neat
<1>2. CASE IsOpen(f, p)
  <2>1. g = f /\ f.entry[p] # None
    BY <1>1, <1>2, EntryOf DEF OpenFile
  <2>2. QED
    BY <2>1 DEF OnlyEntry
<1>3. CASE ~IsOpen(f, p)
  <2>1. g = Added(r, p) /\ f.entry[p] = None
    BY <1>1, <1>3, EntryOf DEF OpenFile
  <2>2. /\ r.f.dir = f.dir /\ r.f.entry = f.entry
        /\ \/ /\ r.inode = None /\ Neat(r.f, c, None)
              /\ \A t \in Sectors : ~HasFile(f, p.name, t)
           \/ r.inode \in Sectors /\ PointsTo(r.f, p, r.inode) /\ Neat(r.f, c, r.inode)
    BY NeatOpensFile
  <2> HIDE DEF r, g
  <2>3. CASE /\ r.inode = None /\ Neat(r.f, c, None)
             /\ \A t \in Sectors : ~HasFile(f, p.name, t)
    <3>1. g = r.f
      BY <2>1, <2>3 DEF Added
    <3>2. QED
      BY <2>1, <2>2, <2>3, <3>1 DEF OnlyEntry, g
  <2>4. CASE r.inode \in Sectors /\ PointsTo(r.f, p, r.inode) /\ Neat(r.f, c, r.inode)
    <3> DEFINE s == r.inode
    <3>1. r.inode # None /\ Good(r.f) /\ r.f.stopped = FALSE /\ r.f.entry[p] = None
      BY <2>1, <2>2, <2>4, Constants DEF Neat, Good
    <3>2. g = add_to_file_table(r.f, p, s)
      BY <2>1, <3>1 DEF Added
    <3>3. /\ Good(g) /\ g.dir = f.dir /\ g.inode = r.f.inode /\ g.cwd = r.f.cwd
          /\ g.entry[p] = s /\ \A q \in Paths : q # p => g.entry[q] = f.entry[q]
      BY <2>2, <2>4, <3>1, <3>2, Adds
    <3> HIDE DEF s
    <3>4. TableTidy(g)
      <4>1. p.name # NoName /\ s # Freed
        BY <2>4, PathsAssumption, Constants DEF NoName, s
      <4>2. TableTidy(f)
        BY DEF Neat
      <4>3. \A q \in Paths : q # p /\ f.entry[q] # None => q.name # p.name
        <5>1. \A q \in Paths : f.entry[q] # None => q \in Table(f)
          BY <1>1, EntryOf DEF OpenEntries
        <5>2. QED
          BY <5>1 DEF Holders
      <4>4. \A q \in OpenEntries(g) : q = p \/ (q \in OpenEntries(f) /\ q # p)
        BY <3>3 DEF OpenEntries
      <4>5. \A q \in OpenEntries(g) : q.name # NoName /\ g.entry[q] # Freed
        BY <3>3, <4>1, <4>2, <4>4 DEF TableTidy, OpenEntries
      <4>6. \A q, w \in OpenEntries(g) : q.name = w.name => q = w
        BY <4>2, <4>3, <4>4 DEF TableTidy, OpenEntries
      <4>7. QED
        BY <4>5, <4>6 DEF TableTidy
    <3>5. Rooted(g, c)
      BY <2>4, <3>3 DEF Neat, Rooted
    <3>6. AllHeld(g, None)
      <4>1. AllHeld(r.f, s)
        BY <2>4 DEF Neat, s
      <4>2. \A t \in Sectors : (\E q \in Paths : f.entry[q] = t) => \E q \in Paths : g.entry[q] = t
        BY <2>1, <3>3, Constants
      <4>3. QED
        BY <2>2, <3>3, <4>1, <4>2 DEF AllHeld
    <3>7. g.entry[p] # None
      BY <3>1, <3>3 DEF s
    <3>8. QED
      BY <3>3, <3>4, <3>5, <3>6, <3>7 DEF Neat, OnlyEntry, g
  <2>5. QED
    BY <2>2, <2>3, <2>4
<1>4. QED
  BY <1>2, <1>3

LEMMA NeatUses ==
    ASSUME NEW f, NEW c \in Nat, Neat(f, c, None), NEW p \in Paths, p.name \in Names,
           Holders(f, p) \subseteq {p}
    PROVE  Used(f, p) = OpenFile(f, p)
<1> DEFINE g == OpenFile(f, p)
<1>1. Good(g) /\ TableTidy(g)
  BY NeatOpenFile DEF Neat
<1> HIDE DEF g
<1>2. CASE IsOpen(g, p)
  <2>1. g.entry[p] # None
    BY <1>1, <1>2, EntryOf
  <2>2. g.entry[p] \in Sectors /\ g.inode[g.entry[p]] # None
    BY <1>1, <2>1, NeatEntry
  <2>3. Touched(g, p) = g
    BY <1>2, <2>2, Constants DEF Touched, Access
  <2>4. QED
    BY <2>3 DEF Used, g
<1>3. CASE ~IsOpen(g, p)
  BY <1>3 DEF Used, Touched, g
<1>4. QED
  BY <1>2, <1>3

(* An entry that is removed closes the inode that it alone holds.          *)
LEMMA NeatRemoves ==
    ASSUME NEW f, NEW c, Neat(f, c, None), NEW p
    PROVE  LET g == remove_from_file_table(f, p)
           IN  /\ Neat(g, c, None) /\ g.dir = f.dir
               /\ \A q \in Paths : g.entry[q] = IF q = p THEN None ELSE f.entry[q]
<1> DEFINE g == remove_from_file_table(f, p)
           s == f.entry[p]
<1>1. Good(f) /\ TableTidy(f) /\ Rooted(f, c) /\ AllHeld(f, None)
  BY DEF Neat
<1>2. CASE ~IsOpen(f, p)
  <2>1. g = f
    BY <1>2 DEF remove_from_file_table
  <2>2. \A q \in Paths : q = p => f.entry[q] = None
    BY <1>1, <1>2, EntryOf
  <2> HIDE DEF g
  <2>3. QED
    BY <2>1, <2>2 DEF g
<1>3. CASE IsOpen(f, p)
  <2>1. p \in Paths /\ s # None
    BY <1>1, <1>3, EntryOf
  <2>2. /\ s \in Sectors /\ f.inode[s] # None /\ s # FREE_MAP_SECTOR /\ s # ROOT_DIR_SECTOR
        /\ \A q \in Paths : f.entry[q] = s => q = p
    BY <1>1, <2>1, NeatEntry
  <2>3. RemovedEntry(f, g, p)
    BY <1>1, <2>1, <2>2, RemovesOne, Constants
  <2> HIDE DEF g
  <2>4. /\ Good(g) /\ g.dir = f.dir /\ g.inode[s] = None /\ g.cwd = f.cwd
        /\ \A t \in Sectors : t # s => g.inode[t] = f.inode[t]
        /\ g.entry[p] = None
        /\ \A q \in Paths : q # p => g.entry[q] = IF f.entry[q] = s THEN Freed ELSE f.entry[q]
    BY <2>2, <2>3 DEF RemovedEntry
  <2>5. \A q \in Paths : q # p => g.entry[q] = f.entry[q]
    BY <2>2, <2>4
  <2>6. TableTidy(g)
    <3>1. \A q \in OpenEntries(g) : q \in OpenEntries(f) /\ g.entry[q] = f.entry[q]
      BY <2>4, <2>5 DEF OpenEntries
    <3>2. QED
      BY <1>1, <3>1 DEF TableTidy
  <2>7. Rooted(g, c)
    BY <1>1, <2>2, <2>4, Constants DEF Rooted
  <2>8. AllHeld(g, None)
    <3>1. g.inode[FREE_MAP_SECTOR] # None
      BY <1>1, <2>2, <2>4, Constants DEF AllHeld
    <3>2. ASSUME NEW t \in Sectors, g.inode[t] # None,
                 t \notin {FREE_MAP_SECTOR, ROOT_DIR_SECTOR, None}
          PROVE  \E q \in Paths : g.entry[q] = t
      <4>1. t # s /\ f.inode[t] # None
        BY <2>4, <3>2
      <4>2. PICK q \in Paths : f.entry[q] = t
        BY <1>1, <3>2, <4>1 DEF AllHeld
      <4>3. q # p
        BY <4>1, <4>2
      <4>4. QED
        BY <2>5, <4>2, <4>3
    <3>3. QED
      BY <3>1, <3>2 DEF AllHeld
  <2>9. QED
    BY <2>4, <2>5, <2>6, <2>7, <2>8 DEF Neat, g
<1>4. QED
  BY <1>2, <1>3

\* The commands on a path that is the only name of its file.
LEMMA NeatCreates ==
    ASSUME NEW f, NEW c \in Nat, Neat(f, c, None), NEW p, p.name \in Names
    PROVE  LET g == filesys_create(f, p)
           IN  /\ Neat(g, c, None) /\ g.entry = f.entry
               /\ (\E i \in 0 .. Bits - 1 : ~bitmap_test(f.free_map, i))
                    => \E t \in Sectors : HasFile(g, p.name, t)
<1> DEFINE r == dir_open_root(f)
           h == Created(r, free_map_allocate(r), bitmap_scan(r.free_map, 0, 1, FALSE), p.name)
           g == filesys_create(f, p)
<1>1. Neat(r, c + 1, None) /\ r.entry = f.entry /\ r.free_map = f.free_map
  BY NeatOpensRoot
<1>2. g = LET a == Access(r, r.cwd.inode)
          IN  IF a.stopped THEN a
              ELSE dir_close(Created(a, free_map_allocate(a), bitmap_scan(a.free_map, 0, 1, FALSE),
                                     p.name), Cwd)
  BY DEF filesys_create
<1> HIDE DEF r, g
<1>3. /\ Good(r) /\ r.stopped = FALSE /\ r.cwd # None /\ r.cwd.inode = ROOT_DIR_SECTOR
      /\ Access(r, r.cwd.inode) = r
  BY <1>1, RootIsLive DEF Good
<1>4. g = dir_close(h, Cwd)
  BY <1>2, <1>3
<1>5. /\ Good(h) /\ h.entry = r.entry /\ h.inode = r.inode /\ h.cwd = r.cwd
      /\ (\E i \in 0 .. Bits - 1 : ~bitmap_test(r.free_map, i))
           => \E t \in Sectors : HasFile(h, p.name, t)
  BY <1>3, GoodCreates
<1> HIDE DEF h
<1>6. Rooted(h, c + 1)
  BY <1>1, <1>5 DEF Neat, Rooted
<1>7. Neat(h, c + 1, None)
  BY <1>1, <1>5, <1>6, NeatSame
<1>8. Neat(g, c, None) /\ g.dir = h.dir /\ g.entry = h.entry
  BY <1>4, <1>7, NeatClosesRoot
<1>9. \A t \in Sectors : HasFile(h, p.name, t) => HasFile(g, p.name, t)
  BY <1>8 DEF HasFile
<1>10. QED
  BY <1>1, <1>5, <1>8, <1>9 DEF g

\* Nothing is in front of the name but the root directory.
AtRoot(p) == p.prefix \in {"", "/"}

(* A file that nobody has open is removed, with its inode.                 *)
LEMMA NeatFilesysRemoves ==
    ASSUME NEW f, Neat(f, 0, None), NEW p, AtRoot(p),
           \A q \in OpenEntries(f) : q.name # p.name
    PROVE  Neat(filesys_remove(f, p), 0, None) /\ filesys_remove(f, p).entry = f.entry
<1> DEFINE r == dir_open_root(f)
           e == dir_remove(r, Cwd, p.name)
<1>1. Neat(r, 0 + 1, None) /\ r.entry = f.entry /\ r.dir = f.dir
  BY NeatOpensRoot, 0 \in Nat
<1>2. dir_open_path(f, p.prefix) = NotRemoved(r, Cwd)
  BY DEF dir_open_path, Neat, Rooted, AtRoot
<1> HIDE DEF r
<1>3. /\ Good(r) /\ r.stopped = FALSE /\ InodeOf(r, Cwd) = ROOT_DIR_SECTOR
      /\ r.inode[ROOT_DIR_SECTOR] # None /\ Access(r, ROOT_DIR_SECTOR) = r
  BY <1>1, RootIsLive, 0 \in Nat DEF Good
<1>4. r.inode[ROOT_DIR_SECTOR].removed = FALSE
  BY <1>3, Constants DEF Good, Core, InodesOK, Held
<1>5. NotRemoved(r, Cwd) = [f |-> r, dir |-> Cwd]
  BY <1>3, <1>4 DEF NotRemoved
<1>6. filesys_remove(f, p) = dir_close(e, Cwd)
  <2>1. dir_open_path(f, p.prefix) = [f |-> r, dir |-> Cwd]
    BY <1>2, <1>5, Zenon
  <2>2. dir_open_path(f, p.prefix).f = r /\ dir_open_path(f, p.prefix).dir = Cwd
    BY <2>1
  <2> HIDE DEF e
  <2>3. QED
    BY <2>2, Constants DEF filesys_remove, e
<1>7. Neat(e, 0 + 1, None) /\ e.entry = r.entry
  <2>1. CASE lookup(r, Cwd, p.name) = {}
    <3>1. e = r
      BY <1>3, <2>1 DEF dir_remove
    <3>2. QED
      BY <1>1, <3>1
  <2>2. CASE lookup(r, Cwd, p.name) # {}
    <3> DEFINE s == SectorOf(r, p.name)
    <3>1. Access(r, InodeOf(r, Cwd)) = r
      BY <1>3
    <3>2. /\ Good(e) /\ EntriesFreed(r, e, s) /\ e.cwd = r.cwd /\ e.inode[s] = None
          /\ \A t \in Sectors : t # s => e.inode[t] = r.inode[t]
          /\ s \in Sectors /\ HasFile(r, p.name, s)
      <4>1. EntriesFreed(r, e, s)
        BY <1>3, <2>2, <3>1, GoodErases
      <4>2. Good(e) /\ InodeGone(r, e, s) /\ e.cwd = r.cwd
        BY <1>3, <2>2, <3>1, GoodErases
      <4>3. s \in Sectors /\ HasFile(r, p.name, s)
        BY <1>3, <2>2, <3>1, GoodErases
      <4> HIDE DEF e, s
      <4>4. QED
        BY <4>1, <4>2, <4>3 DEF InodeGone
    <3>3. p.name \in Names
      BY <1>3, <2>2, Finds DEF Good, Core
    <3> HIDE DEF s, e
    <3>4. s # ROOT_DIR_SECTOR /\ s # FREE_MAP_SECTOR
      <4>1. s \in 2 .. Bits - 1 /\ s # ROOT_DIR_SECTOR
        BY <1>3, <3>2, <3>3, ListedOnce DEF Good, Core
      <4>2. QED
        BY <4>1 DEF FREE_MAP_SECTOR
    <3>5. \A q \in Paths : r.entry[q] # s
      <4>1. SUFFICES ASSUME NEW q \in Paths, r.entry[q] = s PROVE FALSE
        OBVIOUS
      <4>2. q.name = p.name
        BY <1>3, <3>2, <3>3, <4>1, NameOf
      <4>3. q \in OpenEntries(f)
        BY <1>1, <3>2, <4>1, Constants DEF OpenEntries
      <4>4. QED
        BY <4>2, <4>3
    <3>6. e.entry = r.entry
      <4>1. \A q \in Paths : e.entry[q] = r.entry[q]
        BY <3>2, <3>5 DEF EntriesFreed
      <4>2. e.entry = [q \in Paths |-> e.entry[q]] /\ r.entry = [q \in Paths |-> r.entry[q]]
        BY <1>3, <3>2 DEF Good, Core, HandlesOK
      <4>3. QED
        BY <4>1, <4>2
    <3>7. TableTidy(e)
      BY <1>1, <3>6 DEF Neat, TableTidy, OpenEntries
    <3>8. Rooted(e, 0 + 1)
      <4>1. r.cwd # None /\ r.cwd.inode = ROOT_DIR_SECTOR /\ r.cwd.open_cnt = 0 + 1
        BY <1>1, RootIsLive, 0 \in Nat
      <4>2. 0 + 1 # 0
        OBVIOUS
      <4>3. QED
        BY <3>2, <4>1, <4>2 DEF Rooted
    <3>9. AllHeld(e, None)
      <4>1. e.inode[FREE_MAP_SECTOR] # None
        BY <1>1, <3>2, <3>4, Constants DEF Neat, AllHeld
      <4>2. \A t \in Sectors : e.inode[t] # None => r.inode[t] # None
        BY <3>2
      <4>3. QED
        BY <1>1, <3>6, <4>1, <4>2 DEF Neat, AllHeld
    <3>10. QED
      BY <3>2, <3>6, <3>7, <3>8, <3>9 DEF Neat
  <2>3. QED
    BY <2>1, <2>2
<1> HIDE DEF e
<1>8. Neat(dir_close(e, Cwd), 0, None) /\ dir_close(e, Cwd).entry = e.entry
  BY <1>7, NeatClosesRoot, 0 \in Nat
<1>9. QED
  BY <1>1, <1>6, <1>7, <1>8

LEMMA NeatRms ==
    ASSUME NEW f, Neat(f, 0, None), NEW p, AtRoot(p), Holders(f, p) \subseteq {p}
    PROVE  Neat(fsutil_rm(f, p), 0, None) /\ OnlyEntry(f, fsutil_rm(f, p), p)
<1> DEFINE g == remove_from_file_table(f, p)
<1>1. /\ Neat(g, 0, None)
      /\ \A q \in Paths : g.entry[q] = IF q = p THEN None ELSE f.entry[q]
  <2> DEFINE c == 0
  <2>1. Neat(f, c, None)
    OBVIOUS
  <2> HIDE DEF c
  <2>2. Neat(g, c, None)
    BY <2>1, NeatRemoves
  <2>3. \A q \in Paths : g.entry[q] = IF q = p THEN None ELSE f.entry[q]
    BY <2>1, NeatRemoves
  <2> HIDE DEF g
  <2>4. QED
    BY <2>2, <2>3 DEF c
<1> HIDE DEF g
<1>2. \A q \in OpenEntries(g) : q.name # p.name
  <2>1. Table(f) = OpenEntries(f)
    BY EntryOf DEF Neat
  <2>2. \A q \in OpenEntries(g) : q # p /\ q \in OpenEntries(f)
    BY <1>1 DEF OpenEntries
  <2>3. QED
    BY <2>1, <2>2 DEF Holders
<1>3. Neat(filesys_remove(g, p), 0, None) /\ filesys_remove(g, p).entry = g.entry
  BY <1>1, <1>2, NeatFilesysRemoves
<1>4. QED
  BY <1>1, <1>3 DEF fsutil_rm, OnlyEntry, g

LEMMA NeatCats ==
    ASSUME NEW f, NEW c \in Nat, Neat(f, c, None), NEW p \in Paths, p.name \in Names,
           Holders(f, p) \subseteq {p}
    PROVE  Neat(fsutil_cat(f, p), c, None) /\ OnlyEntry(f, fsutil_cat(f, p), p)
<1> DEFINE g == Used(f, p)
<1>1. Neat(g, c, None) /\ OnlyEntry(f, g, p)
  BY NeatUses, NeatOpenFile
<1> HIDE DEF g
<1>2. CASE IsOpen(f, p)
  BY <1>1, <1>2 DEF fsutil_cat, g
<1>3. CASE ~IsOpen(f, p)
  <2>1. fsutil_cat(f, p) = remove_from_file_table(g, p)
    BY <1>3 DEF fsutil_cat, g
  <2>2. QED
    BY <1>1, <2>1, NeatRemoves DEF OnlyEntry
<1>4. QED
  BY <1>2, <1>3

\* A copy finds the file it created: there was a sector for its inode.
LEMMA NeatCopiesIn ==
    ASSUME NEW f, NEW c \in Nat, Neat(f, c, None), NEW p \in Paths, p.name \in Names,
           Holders(f, p) \subseteq {p}
    PROVE  Neat(copy_in(f, p), c, None) /\ OnlyEntry(f, copy_in(f, p), p)
<1> DEFINE g == fsutil_create(f, p)
           h == Used(g, p)
<1>1. CASE num_free_sectors(f) < 2
  BY <1>1 DEF copy_in, OnlyEntry
<1>2. CASE ~(num_free_sectors(f) < 2)
  <2>1. copy_in(f, p) = Copied(h, p)
    BY <1>2 DEF copy_in
  <2>2. \E i \in 0 .. Bits - 1 : ~bitmap_test(f.free_map, i)
    <3>1. SUFFICES ASSUME \A i \in 0 .. Bits - 1 : bitmap_test(f.free_map, i) PROVE FALSE
      OBVIOUS
    <3> DEFINE F == {i \in 0 .. 0 + Bits - 1 : bitmap_test(f.free_map, i) = FALSE}
    <3>2. f.free_map.bit_cnt = Bits /\ Bits \in Nat
      BY Constants DEF Neat, Good, Core, MapOK, IsBitmap
    <3>3. num_free_sectors(f) = Cardinality(F)
      BY <3>2 DEF num_free_sectors, bitmap_count
    <3>4. F = {}
      BY <3>1, <3>2
    <3> HIDE DEF F
    <3>5. Cardinality(F) = 0
      BY <3>4, FS_EmptySet
    <3>6. QED
      BY <1>2, <3>3, <3>5
  <2>3. /\ Neat(g, c, None) /\ g.entry = f.entry
        /\ \E t \in Sectors : HasFile(g, p.name, t)
    BY <2>2, NeatCreates DEF fsutil_create
  <2> HIDE DEF g
  <2>4. Holders(g, p) \subseteq {p}
    <3>1. Table(g) = OpenEntries(g) /\ Table(f) = OpenEntries(f)
      BY <2>3, EntryOf DEF Neat
    <3>2. QED
      BY <2>3, <3>1 DEF Holders, OpenEntries
  <2>5. Neat(h, c, None) /\ OnlyEntry(g, h, p) /\ h.entry[p] # None
    BY <2>3, <2>4, NeatUses, NeatOpenFile
  <2> HIDE DEF h
  <2>6. IsOpen(h, p)
    BY <2>5, EntryOf DEF Neat
  <2>7. copy_in(f, p) = h
    BY <2>1, <2>6 DEF Copied
  <2>8. QED
    BY <2>3, <2>5, <2>7 DEF OnlyEntry
<1>3. QED
  BY <1>1, <1>2

LEMMA NeatListed ==
    ASSUME NEW f, NEW c \in Nat, Neat(f, c + 1, None)
    PROVE  Neat(Listed(f), c + 1, None) /\ Listed(f).entry = f.entry
<1> DEFINE w == [f.cwd EXCEPT !.pos = Cardinality(Slots)]
           g == Listed(f)
<1>1. /\ f.cwd # None /\ f.cwd.inode = ROOT_DIR_SECTOR /\ f.cwd.open_cnt = c + 1
      /\ f.cwd \in Handle /\ Access(f, f.cwd.inode) = f /\ Good(f)
  BY RootIsLive
<1>2. g = [f EXCEPT !.cwd = w]
  BY <1>1 DEF Listed
<1>3. w \in Handle /\ w.inode = ROOT_DIR_SECTOR /\ w.open_cnt = c + 1
  BY <1>1 DEF Handle
<1> HIDE DEF w, g
<1>4. Good(g) /\ g.entry = f.entry /\ g.inode = f.inode /\ g.cwd = w
  BY <1>1, <1>2, <1>3, SetCwd
<1>5. Rooted(g, c + 1)
  BY <1>3, <1>4, Constants DEF Rooted
<1>6. QED
  BY <1>4, <1>5, NeatSame DEF g

LEMMA NeatLs ==
    ASSUME NEW f, Neat(f, 0, None)
    PROVE  Neat(fsutil_ls(f), 0, None)
<1>1. Neat(dir_open_root(f), 0 + 1, None)
  BY NeatOpensRoot, 0 \in Nat
<1>2. Neat(Listed(dir_open_root(f)), 0 + 1, None)
  BY <1>1, NeatListed, 0 \in Nat
<1>3. QED
  BY <1>2, NeatClosesRoot, 0 \in Nat DEF fsutil_ls

----------------------------------------------------------------------------
(* The loops over names, when every file is used under its plain name.     *)
AllPlain(f) == \A q \in OpenEntries(f) : q = Plain(q.name)

TidyPlain(f, c) == Neat(f, c, None) /\ AllPlain(f)

LEMMA PlainHolder ==
    ASSUME NEW f, NEW c, TidyPlain(f, c), NEW n \in Names
    PROVE  /\ Plain(n) \in Paths /\ Plain(n).name = n /\ AtRoot(Plain(n))
           /\ Holders(f, Plain(n)) \subseteq {Plain(n)}
<1>1. Plain(n) \in Paths /\ Plain(n).name = n
  BY PathsAssumption DEF Plain
<1>2. AtRoot(Plain(n))
  BY DEF Plain, AtRoot
<1>3. Table(f) = OpenEntries(f)
  BY EntryOf DEF TidyPlain, Neat
<1>4. Holders(f, Plain(n)) \subseteq {Plain(n)}
  BY <1>1, <1>3 DEF Holders, TidyPlain, AllPlain
<1>5. QED
  BY <1>1, <1>2, <1>4

LEMMA PlainStays ==
    ASSUME NEW f, AllPlain(f), NEW n \in Names, NEW g, OnlyEntry(f, g, Plain(n))
    PROVE  AllPlain(g)
<1>1. SUFFICES ASSUME NEW q \in OpenEntries(g) PROVE q = Plain(q.name)
  BY DEF AllPlain
<1>2. CASE q = Plain(n)
  <2>1. Plain(n).name = n
    BY DEF Plain
  <2>2. QED
    BY <1>2, <2>1
<1>3. CASE q # Plain(n)
  <2>1. q \in OpenEntries(f)
    BY <1>3 DEF OpenEntries, OnlyEntry
  <2>2. QED
    BY <2>1 DEF AllPlain
<1>4. QED
  BY <1>2, <1>3

LEMMA PlainSame ==
    ASSUME NEW f, AllPlain(f), NEW g, g.entry = f.entry
    PROVE  AllPlain(g)
  BY DEF AllPlain, OpenEntries

LEMMA PlainUses ==
    ASSUME NEW f, NEW c \in Nat, TidyPlain(f, c), NEW n \in Names
    PROVE  TidyPlain(Used(f, Plain(n)), c) /\ TidyPlain(OpenFile(f, Plain(n)), c)
<1> DEFINE p == Plain(n)
<1>1. /\ p \in Paths /\ p.name \in Names /\ Holders(f, p) \subseteq {p}
  BY PlainHolder
<1>2. Neat(f, c, None) /\ AllPlain(f)
  BY DEF TidyPlain
<1>3. Used(f, p) = OpenFile(f, p) /\ Neat(OpenFile(f, p), c, None) /\ OnlyEntry(f, OpenFile(f, p), p)
  <2> HIDE DEF p
  <2>1. QED
    BY <1>1, <1>2, NeatUses, NeatOpenFile
<1>4. AllPlain(OpenFile(f, p))
  BY <1>2, <1>3, PlainStays
<1>5. QED
  BY <1>3, <1>4 DEF TidyPlain

LEMMA PlainBody ==
    ASSUME NEW f, NEW c \in Nat, TidyPlain(f, c), NEW n \in Names,
           NEW loop \in {"size", "rm", "create"}, loop = "rm" => c = 0
    PROVE  TidyPlain(Body(loop, f, n), c)
<1> DEFINE p == Plain(n)
<1>1. /\ p \in Paths /\ p.name \in Names /\ AtRoot(p) /\ Holders(f, p) \subseteq {p}
  BY PlainHolder
<1>2. Neat(f, c, None) /\ AllPlain(f)
  BY DEF TidyPlain
<1>3. CASE loop = "size"
  BY <1>3, PlainUses DEF Body
<1>4. CASE loop = "rm"
  <2> DEFINE g == fsutil_rm(f, p)
  <2>1. Body(loop, f, n) = g
    BY <1>4 DEF Body
  <2>2. Neat(f, 0, None) /\ c = 0
    BY <1>2, <1>4
  <2>3. Neat(g, 0, None) /\ OnlyEntry(f, g, p)
    <3> HIDE DEF p
    <3>1. QED
      BY <1>1, <2>2, NeatRms
  <2> HIDE DEF g
  <2>4. AllPlain(g)
    BY <1>2, <2>3, PlainStays
  <2>5. QED
    BY <2>1, <2>2, <2>3, <2>4 DEF TidyPlain
<1>5. CASE loop = "create"
  <2> DEFINE g == fsutil_create(f, p)
             h == Used(g, p)
  <2>1. Body(loop, f, n) = OpenFile(h, p)
    BY <1>5 DEF Body, Rewritten, fsutil_seek
  <2>2. Neat(g, c, None) /\ g.entry = f.entry
    <3> HIDE DEF p
    <3>1. QED
      BY <1>1, <1>2, NeatCreates DEF fsutil_create
  <2> HIDE DEF g
  <2>3. TidyPlain(g, c)
    BY <1>2, <2>2, PlainSame DEF TidyPlain
  <2>4. TidyPlain(h, c)
    BY <2>3, PlainUses
  <2> HIDE DEF h
  <2>5. QED
    BY <2>1, <2>4, PlainUses
<1>6. QED
  BY <1>3, <1>4, <1>5

LEMMA PlainLoop ==
    ASSUME NEW f, NEW c \in Nat, TidyPlain(f, c), NEW loop \in {"size", "rm", "create"},
           loop = "rm" => c = 0, NEW names, \A k \in DOMAIN names : names[k] \in Names
    PROVE  TidyPlain(ForEach(loop, f, names), c)
<1> DEFINE N == Cardinality(Names)
<1>1. PICK a : /\ a[0] = f /\ \A k \in 1 .. N : a[k] = Turn(loop, a[k - 1], names, k)
               /\ ForEach(loop, f, names) = a[N]
  BY ForEachTurns
<1>2. N \in Nat
  BY Constants
<1> HIDE DEF N
<1> DEFINE S == {k \in 0 .. N : TidyPlain(a[k], c)}
<1>3. 0 \in S
  BY <1>1, <1>2
<1>4. ASSUME NEW k \in 1 .. N, k - 1 \in S PROVE k \in S
  <2>1. TidyPlain(a[k - 1], c)
    BY <1>4
  <2>2. TidyPlain(Turn(loop, a[k - 1], names, k), c)
    BY <2>1, PlainBody DEF Turn
  <2>3. k \in 0 .. N /\ a[k] = Turn(loop, a[k - 1], names, k)
    BY <1>1, <1>2
  <2>4. QED
    BY <2>2, <2>3
<1> HIDE DEF S
<1>5. 0 .. N \subseteq S
  BY <1>2, <1>3, <1>4, UpTo
<1>6. N \in S
  BY <1>2, <1>5
<1>7. QED
  BY <1>1, <1>6 DEF S

LEMMA PlainOpenAll ==
    ASSUME NEW f, TidyPlain(f, 0)
    PROVE  TidyPlain(OpenAll(f), 0)
<1> DEFINE g == dir_open_root(f)
           l == Listed(g)
           names == Listing(g)
           h == ForEach("size", l, names)
           d == 0
           c == d + 1
<1>1. Neat(g, c, None) /\ g.entry = f.entry /\ AllPlain(f)
  BY NeatOpensRoot, 0 \in Nat DEF TidyPlain
<1>2. d \in Nat /\ c \in Nat
  OBVIOUS
<1>3. \A k \in DOMAIN names : names[k] \in Names
  <2> HIDE DEF g
  <2>1. QED
    BY <1>1, ListsNames DEF Neat
<1> HIDE DEF d, g
<1>4. Neat(l, c, None) /\ l.entry = g.entry
  BY <1>1, <1>2, NeatListed
<1> HIDE DEF names, l
<1>5. TidyPlain(l, c)
  BY <1>1, <1>4, PlainSame DEF TidyPlain
<1> HIDE DEF c
<1>6. TidyPlain(h, c)
  BY <1>2, <1>3, <1>5, PlainLoop
<1> HIDE DEF h
<1>7. Neat(h, d + 1, None) /\ AllPlain(h)
  BY <1>6 DEF TidyPlain, c
<1>8. Neat(dir_close(h, Cwd), d, None) /\ dir_close(h, Cwd).entry = h.entry
  BY <1>2, <1>7, NeatClosesRoot
<1>9. TidyPlain(dir_close(h, Cwd), d)
  BY <1>7, <1>8, PlainSame DEF TidyPlain
<1>10. OpenAll(f) = dir_close(h, Cwd)
  BY DEF OpenAll, SizeEach, h, l, names, g
<1>11. QED
  BY <1>9, <1>10 DEF d

LEMMA PlainDefragment ==
    ASSUME NEW f, TidyPlain(f, 0)
    PROVE  TidyPlain(defragment(f), 0)
<1> DEFINE names == Listing(dir_open_root(f))
           g == OpenAll(f)
           h == ForEach("rm", g, names)
<1>1. \A k \in DOMAIN names : names[k] \in Names
  BY GoodOpensRoot, ListsNames DEF TidyPlain, Neat
<1>2. TidyPlain(g, 0)
  BY PlainOpenAll
<1> HIDE DEF names, g
<1>3. TidyPlain(h, 0)
  BY <1>1, <1>2, PlainLoop, 0 \in Nat
<1> HIDE DEF h
<1>4. TidyPlain(ForEach("create", h, names), 0)
  BY <1>1, <1>3, PlainLoop, 0 \in Nat
<1>5. QED
  BY <1>4 DEF defragment, names, g, h

\* Closing one entry after the other, with the free map already closed: each
\* entry still has its inode.
Closing(f) == Good(f) /\ TableTidy(f)

LEMMA ClosingPops ==
    ASSUME NEW f, Closing(f), OpenEntries(f) # {}
    PROVE  LET g == Popped(f)
           IN  /\ Closing(g) /\ \E p \in OpenEntries(f) : OpenEntries(g) = OpenEntries(f) \ {p}
<1> DEFINE p == Files!list_begin(f.file_table)
           g == Popped(f)
           s == f.entry[p]
<1>1. Good(f) /\ TableTidy(f)
  BY DEF Closing
<1>2. p \in OpenEntries(f) /\ g = remove_from_file_table(f, p)
  BY <1>1, PoppedRemoves
<1> HIDE DEF p, g
<1>3. p \in Paths /\ f.entry[p] # None
  BY <1>2 DEF OpenEntries
<1>4. /\ s \in Sectors /\ f.inode[s] # None /\ s # FREE_MAP_SECTOR /\ s # ROOT_DIR_SECTOR
      /\ \A q \in Paths : f.entry[q] = s => q = p
  BY <1>1, <1>3, NeatEntry
<1>5. RemovedEntry(f, g, p)
  BY <1>1, <1>2, <1>3, <1>4, RemovesOne, Constants
<1>6. /\ Good(g) /\ g.entry[p] = None
      /\ \A q \in Paths : q # p => g.entry[q] = IF f.entry[q] = s THEN Freed ELSE f.entry[q]
  BY <1>4, <1>5 DEF RemovedEntry
<1>7. \A q \in Paths : q # p => g.entry[q] = f.entry[q]
  BY <1>4, <1>6
<1>8. OpenEntries(g) = OpenEntries(f) \ {p}
  BY <1>6, <1>7 DEF OpenEntries
<1>9. TableTidy(g)
  <2>1. \A q \in OpenEntries(g) : q \in OpenEntries(f) /\ g.entry[q] = f.entry[q]
    BY <1>6, <1>7 DEF OpenEntries
  <2>2. QED
    BY <1>1, <2>1 DEF TableTidy
<1>10. QED
  BY <1>2, <1>6, <1>8, <1>9 DEF Closing, g

LEMMA ClosesTable ==
    ASSUME NEW f, Closing(f)
    PROVE  Good(free_file_table(f))
<1> DEFINE N == Cardinality(Table(f))
           g == free_file_table(f)
<1>1. N \in Nat
  BY EntriesFinite
<1>2. PICK a : /\ a[0] = f /\ \A k \in 1 .. N : a[k] = Popped(a[k - 1])
               /\ g = a[N]
  BY <1>1, PoppedTurns
<1>3. N = Cardinality(OpenEntries(f))
  BY EntryOf DEF Closing
<1> HIDE DEF N, g
<1> DEFINE S == {k \in 0 .. N : Closing(a[k]) /\ Cardinality(OpenEntries(a[k])) = N - k}
<1>4. 0 \in S
  BY <1>1, <1>2, <1>3
<1>5. ASSUME NEW k \in 1 .. N, k - 1 \in S PROVE k \in S
  <2> DEFINE b == a[k - 1]
  <2>1. a[k] = Popped(b) /\ k \in 0 .. N
    BY <1>1, <1>2
  <2>2. Closing(b) /\ Cardinality(OpenEntries(b)) = N - (k - 1)
    BY <1>5
  <2>3. IsFiniteSet(OpenEntries(b)) /\ OpenEntries(b) # {}
    BY <1>1, <2>2, EntriesFinite, FS_EmptySet
  <2> HIDE DEF b
  <2>4. Closing(a[k]) /\ \E p \in OpenEntries(b) : OpenEntries(a[k]) = OpenEntries(b) \ {p}
    BY <2>1, <2>2, <2>3, ClosingPops
  <2>5. PICK p \in OpenEntries(b) : OpenEntries(a[k]) = OpenEntries(b) \ {p}
    BY <2>4
  <2>6. Cardinality(OpenEntries(a[k])) = Cardinality(OpenEntries(b)) - 1
    BY <2>3, <2>5, FS_RemoveElement
  <2>7. Cardinality(OpenEntries(a[k])) = N - k
    BY <1>1, <2>2, <2>6
  <2>8. QED
    BY <2>1, <2>4, <2>7
<1> HIDE DEF S
<1>6. 0 .. N \subseteq S
  BY <1>1, <1>4, <1>5, UpTo
<1>7. N \in S
  BY <1>1, <1>6
<1>8. QED
  BY <1>2, <1>7 DEF S, g, Closing

\* A tidy state is closed without an error.
LEMMA NeatDone ==
    ASSUME NEW f, Neat(f, 0, None)
    PROVE  Good(filesys_done(f)) /\ filesys_done(f).dir = f.dir
<1> DEFINE s == FREE_MAP_SECTOR
           c == inode_close(f, s)
<1>1. Good(f) /\ TableTidy(f) /\ s \in Sectors /\ f.inode[s] # None
  BY Constants DEF Neat, AllHeld
<1>2. c = Free(f, s)
  BY <1>1, GoodCloses, Constants
<1>3. Good(c) /\ EntriesFreed(f, c, s)
  BY <1>1, <1>2, FreesOne
<1> HIDE DEF c
<1>4. \A p \in Paths : f.entry[p] # s
  BY <1>1, NeatEntry, Constants
<1>5. \A p \in Paths : c.entry[p] = f.entry[p]
  BY <1>3, <1>4 DEF EntriesFreed
<1>6. TableTidy(c)
  BY <1>1, <1>5 DEF TableTidy, OpenEntries
<1>7. Good(free_file_table(c))
  BY <1>3, <1>6, ClosesTable DEF Closing
<1>8. filesys_done(f) = free_file_table(c)
  BY DEF filesys_done, c
<1>9. Halted(filesys_done(f)) \/ (Good(filesys_done(f)) /\ filesys_done(f).dir = f.dir)
  BY <1>1, SafeDone
<1>10. QED
  BY <1>7, <1>8, <1>9 DEF Good, Halted

----------------------------------------------------------------------------
(* The second invariant: as long as no file is used under two names.       *)
TidyInv == CoreInv /\ (~o.aliased => ~o.stopped /\ Neat(o, 0, None))

\* A command that is not the second use of a file leaves a tidy state.
LEMMA DoTidy ==
    ASSUME TidyInv, NEW f, Safe(f), NEW single, Do(f, single),
           ~o.aliased /\ single => Neat(f, 0, None)
    PROVE  TidyInv'
<1>1. CoreInv'
  BY DoKeeps DEF TidyInv
<1>2. SUFFICES ASSUME ~o'.aliased PROVE ~o'.stopped /\ Neat(o', 0, None)
  BY <1>1 DEF TidyInv
<1> DEFINE x == o.aliased \/ ~single
           h == IF f.stopped THEN Stop(o) ELSE f
           g == [h EXCEPT !.aliased = x]
<1>3. o' = g
  BY DEF Do
<1>4. Core(h)
  <2>1. Core(o)
    BY DEF TidyInv, CoreInv
  <2>2. Core(Stop(o))
    BY <2>1, SameCore
  <2>3. QED
    BY <2>2 DEF Safe, Halted, Good
<1> HIDE DEF x, h
<1>5. g.aliased = x /\ Core(g) /\ g.stopped = h.stopped
  BY <1>4, SameCore
<1>6. g.entry = h.entry /\ g.cwd = h.cwd /\ g.inode = h.inode /\ g.dir = h.dir
  BY <1>4, SameCore
<1> HIDE DEF g
<1>7. ~x
  BY <1>2, <1>3, <1>5
<1>8. Neat(f, 0, None)
  BY <1>7 DEF x
<1>9. f.stopped = FALSE /\ h = f
  BY <1>8 DEF Neat, Good, h
<1>10. Good(g) /\ Rooted(g, 0)
  BY <1>5, <1>6, <1>8, <1>9 DEF Good, Neat, Rooted
<1>11. Neat(g, 0, None)
  <2> DEFINE c == 0
  <2>1. Neat(f, c, None) /\ Rooted(g, c)
    BY <1>8, <1>10
  <2> HIDE DEF c
  <2>2. Neat(g, c, None)
    BY <1>6, <1>9, <1>10, <2>1, NeatSame
  <2>3. QED
    BY <2>2 DEF c
<1>12. QED
  BY <1>3, <1>10, <1>11 DEF Good

\* A path that is used alone is a name in the root directory.
LEMMA SinglePath ==
    ASSUME NEW f, NEW p \in Paths \cup RmPaths, Single(f, p)
    PROVE  AtRoot(p) /\ p.name \in Names /\ Holders(f, p) \subseteq {p}
<1>1. p.name \in Names \cup {NoName} /\ p.name # NoName
  BY PathName, Zenon DEF Single
<1>2. AtRoot(p) /\ Holders(f, p) \subseteq {p}
  BY Zenon DEF Single, AtRoot
<1>3. QED
  BY <1>1, <1>2

LEMMA SinglePlain ==
    ASSUME NEW f, Neat(f, 0, None), \A n \in Names : Single(f, Plain(n))
    PROVE  TidyPlain(f, 0)
<1>1. SUFFICES ASSUME NEW q \in OpenEntries(f) PROVE q = Plain(q.name)
  BY DEF TidyPlain, AllPlain
<1>2. q \in Paths /\ f.entry[q] # None /\ Good(f) /\ TableTidy(f)
  BY DEF OpenEntries, Neat
<1> DEFINE n == q.name
<1>3. n \in Names
  BY <1>2, NeatEntry
<1>4. Holders(f, Plain(n)) \subseteq {Plain(n)}
  BY <1>3, Zenon DEF Single
<1>5. Plain(n).name = n
  BY DEF Plain
<1>6. q \in Holders(f, Plain(n))
  BY <1>2, <1>5, EntryOf DEF Holders, OpenEntries
<1>7. QED
  BY <1>4, <1>6

\* The commands on a path.
LEMMA TidyCommand ==
    ASSUME TidyInv, NEW p \in Paths \cup RmPaths, Command(p)
    PROVE  TidyInv'
<1>1. ~o.stopped /\ Good(o)
  BY DEF Command, Create, CopyIn, Use, Seek, Cat, Rm, Do, TidyInv, CoreInv, Good
<1>2. ASSUME ~o.aliased, Single(o, p)
      PROVE  /\ Neat(o, 0, None) /\ AtRoot(p) /\ p.name \in Names /\ Holders(o, p) \subseteq {p}
  BY <1>2, SinglePath DEF TidyInv
<1>3. ASSUME NEW f, Outcome(o, f, NamesOf(p), {p}), Do(f, Single(o, p)),
             ~o.aliased /\ Single(o, p) => Neat(f, 0, None)
      PROVE  TidyInv'
  BY <1>3, OutcomeSafe, DoTidy
<1>4. CASE Rm(p)
  <2>1. Outcome(o, fsutil_rm(o, p), NamesOf(p), {p}) /\ Do(fsutil_rm(o, p), Single(o, p))
    BY <1>1, <1>4, GoodRms DEF Rm
  <2>2. ~o.aliased /\ Single(o, p) => Neat(fsutil_rm(o, p), 0, None)
    BY <1>2, NeatRms
  <2>3. QED
    BY <1>3, <2>1, <2>2
<1>5. CASE p \in Paths /\ Create(p)
  <2>1. Outcome(o, fsutil_create(o, p), NamesOf(p), {p}) /\ Do(fsutil_create(o, p), Single(o, p))
    BY <1>1, <1>5, GoodCommands DEF Create
  <2>2. ~o.aliased /\ Single(o, p) => Neat(fsutil_create(o, p), 0, None)
    BY <1>2, NeatCreates, 0 \in Nat DEF fsutil_create
  <2>3. QED
    BY <1>3, <2>1, <2>2
<1>6. CASE p \in Paths /\ CopyIn(p)
  <2>1. Outcome(o, copy_in(o, p), NamesOf(p), {p}) /\ Do(copy_in(o, p), Single(o, p))
    BY <1>1, <1>6, GoodCopiesIn DEF CopyIn
  <2>2. ~o.aliased /\ Single(o, p) => Neat(copy_in(o, p), 0, None)
    BY <1>2, <1>6, NeatCopiesIn, 0 \in Nat
  <2>3. QED
    BY <1>3, <2>1, <2>2
<1>7. CASE p \in Paths /\ Use(p)
  <2>1. Outcome(o, Used(o, p), NamesOf(p), {p}) /\ Do(Used(o, p), Single(o, p))
    BY <1>1, <1>7, GoodCommands DEF Use
  <2>2. ~o.aliased /\ Single(o, p) => Neat(Used(o, p), 0, None)
    BY <1>2, <1>7, NeatUses, NeatOpenFile, 0 \in Nat
  <2>3. QED
    BY <1>3, <2>1, <2>2
<1>8. CASE p \in Paths /\ Seek(p)
  <2>1. Outcome(o, fsutil_seek(o, p), NamesOf(p), {p}) /\ Do(fsutil_seek(o, p), Single(o, p))
    BY <1>1, <1>8, GoodCommands DEF Seek
  <2>2. ~o.aliased /\ Single(o, p) => Neat(fsutil_seek(o, p), 0, None)
    BY <1>2, <1>8, NeatOpenFile, 0 \in Nat DEF fsutil_seek
  <2>3. QED
    BY <1>3, <2>1, <2>2
<1>9. CASE p \in Paths /\ Cat(p)
  <2>1. Outcome(o, fsutil_cat(o, p), NamesOf(p), {p}) /\ Do(fsutil_cat(o, p), Single(o, p))
    BY <1>1, <1>9, GoodCommands DEF Cat
  <2>2. ~o.aliased /\ Single(o, p) => Neat(fsutil_cat(o, p), 0, None)
    BY <1>2, <1>9, NeatCats, 0 \in Nat
  <2>3. QED
    BY <1>3, <2>1, <2>2
<1>10. QED
  BY <1>4, <1>5, <1>6, <1>7, <1>8, <1>9 DEF Command

\* A process that starts has nothing open but the free map.
LEMMA NeatStart ==
    ASSUME NEW g, Good(g), g.cwd = None, \A p \in Paths : g.entry[p] = None,
           \A s \in Sectors : s # FREE_MAP_SECTOR => g.inode[s] = None,
           g.inode[FREE_MAP_SECTOR] # None
    PROVE  Neat(g, 0, None)
  BY Constants DEF Neat, TableTidy, OpenEntries, Rooted, AllHeld

LEMMA QuitTidy ==
    ASSUME TidyInv, Quit
    PROVE  TidyInv'
<1>1. CoreInv'
  BY QuitKeeps DEF TidyInv
<1>2. Good(o) /\ Core(o)
  BY DEF TidyInv, CoreInv, Quit, Good
<1> DEFINE g == filesys_done(o)
<1>3. o' = IF g.stopped THEN Stop(o) ELSE Started(g.dir, g.free_map_file)
  BY DEF Quit
<1>4. ~o.aliased => Good(g)
  BY NeatDone DEF TidyInv
<1>5. Halted(g) \/ Good(g)
  BY <1>2, SafeDone
<1> HIDE DEF g
<1>6. CASE Halted(g)
  <2>1. o' = Stop(o) /\ o.aliased
    BY <1>3, <1>4, <1>6 DEF Halted, Good
  <2>2. Stop(o).aliased = o.aliased
    BY <1>2 DEF Stop, Core, Rec, Fields
  <2>3. QED
    BY <1>1, <2>1, <2>2 DEF TidyInv
<1>7. CASE Good(g)
  <2> DEFINE r == Started(g.dir, g.free_map_file)
  <2>1. o' = r
    BY <1>3, <1>7 DEF Good
  <2>2. /\ Good(r) /\ r.cwd = None /\ \A p \in Paths : r.entry[p] = None
        /\ \A s \in Sectors : s # FREE_MAP_SECTOR => r.inode[s] = None
        /\ r.inode[FREE_MAP_SECTOR] # None
    BY <1>7, GoodStart DEF Good, Core
  <2> HIDE DEF r
  <2>3. Neat(r, 0, None) /\ r.stopped = FALSE
    BY <2>2, NeatStart DEF Good
  <2>4. QED
    BY <1>1, <2>1, <2>3 DEF TidyInv
<1>8. QED
  BY <1>5, <1>6, <1>7

LEMMA TidyStep ==
    ASSUME TidyInv, [Next]_o
    PROVE  TidyInv'
<1>1. CASE UNCHANGED o
  BY <1>1 DEF TidyInv, CoreInv
<1>2. ASSUME NEW p \in Paths \cup RmPaths, Command(p) PROVE TidyInv'
  BY <1>2, TidyCommand
<1>3. CASE \E p \in Paths : Create(p) \/ CopyIn(p) \/ Use(p) \/ Seek(p) \/ Cat(p)
  BY <1>2, <1>3 DEF Command
<1>4. CASE \E p \in Paths \cup RmPaths : Rm(p)
  BY <1>2, <1>4 DEF Command
<1>5. ASSUME ~o.stopped PROVE Good(o) /\ Safe(o)
  BY <1>5 DEF TidyInv, CoreInv, Good, Safe
<1>6. ~o.aliased => Neat(o, 0, None)
  BY DEF TidyInv
<1>7. ~o.aliased /\ AllSingle => TidyPlain(o, 0)
  BY <1>6, SinglePlain DEF AllSingle
<1>8. CASE Ls
  <2>1. ~o.stopped /\ Do(fsutil_ls(o), TRUE)
    BY <1>8 DEF Ls, Do
  <2>2. ~o.aliased => Neat(fsutil_ls(o), 0, None)
    BY <1>6, NeatLs
  <2>3. QED
    BY <1>5, <2>1, <2>2, SafeLs, DoTidy
<1>9. CASE Search
  <2>1. ~o.stopped /\ Do(OpenAll(o), AllSingle)
    BY <1>9 DEF Search, Do
  <2>2. ~o.aliased /\ AllSingle => Neat(OpenAll(o), 0, None)
    BY <1>7, PlainOpenAll DEF TidyPlain
  <2>3. QED
    BY <1>5, <2>1, <2>2, SafeOpenAll, DoTidy
<1>10. CASE Defragment
  <2>1. ~o.stopped /\ Do(defragment(o), AllSingle)
    BY <1>10 DEF Defragment, Do
  <2>2. ~o.aliased /\ AllSingle => Neat(defragment(o), 0, None)
    BY <1>7, PlainDefragment DEF TidyPlain
  <2>3. QED
    BY <1>5, <2>1, <2>2, SafeDefragment, DoTidy
<1>11. CASE Quit
  BY <1>11, QuitTidy
<1>12. QED
  BY <1>1, <1>3, <1>4, <1>8, <1>9, <1>10, <1>11 DEF Next

(* Tidiness is kept by every command that does not mix names.              *)
THEOREM TidyInvariance == Spec => []TidyInv
<1>1. Init => TidyInv
  <2> SUFFICES ASSUME Init PROVE TidyInv
    OBVIOUS
  <2>1. /\ Good(o) /\ o.cwd = None /\ \A p \in Paths : o.entry[p] = None
        /\ \A s \in Sectors : s # FREE_MAP_SECTOR => o.inode[s] = None
        /\ o.inode[FREE_MAP_SECTOR] # None
    BY GoodInit DEF Init
  <2>2. Neat(o, 0, None)
    BY <2>1, NeatStart
  <2>3. QED
    BY <2>1, <2>2 DEF TidyInv, CoreInv, Good
<1>2. TidyInv /\ [Next]_o => TidyInv'
  BY TidyStep
<1>3. QED
  BY <1>1, <1>2, PTL DEF Spec

----------------------------------------------------------------------------
(* As long as no file is used under two names, every open is closed exactly*)
(* once: no freed inode is used, each entry of the table has an inode of   *)
(* its own, and nothing else but the free map stays open.                  *)
THEOREM EveryOpenIsClosed == Spec => []CountsExact
<1>1. TidyInv => CountsExact
  <2> SUFFICES ASSUME TidyInv, ~o.aliased PROVE
          /\ ~o.stopped /\ o.cwd = None
          /\ \A p \in Paths : o.entry[p] # None => Live(o.entry[p])
          /\ \A s \in Sectors \ {FREE_MAP_SECTOR} :
               Cardinality(Pointers(s)) = IF Live(s) THEN o.inode[s].open_cnt ELSE 0
    BY DEF CountsExact
  <2>1. ~o.stopped /\ Good(o) /\ TableTidy(o) /\ Rooted(o, 0) /\ AllHeld(o, None)
    BY DEF TidyInv, Neat
  <2>2. o.cwd = None /\ o.inode[ROOT_DIR_SECTOR] = None
    BY <2>1 DEF Rooted
  <2>3. ASSUME NEW p \in Paths, o.entry[p] # None PROVE Live(o.entry[p])
    BY <2>1, <2>3, NeatEntry, Constants DEF Live
  <2>4. ASSUME NEW s \in Sectors \ {FREE_MAP_SECTOR}
        PROVE  Cardinality(Pointers(s)) = IF Live(s) THEN o.inode[s].open_cnt ELSE 0
    <3>1. s \in Sectors /\ s # None /\ s # Freed /\ s # FREE_MAP_SECTOR
      BY Constants
    <3>2. CASE o.inode[s] # None
      <4>1. s # ROOT_DIR_SECTOR
        BY <2>2, <3>2
      <4>2. PICK p \in Paths : o.entry[p] = s
        BY <2>1, <3>1, <3>2, <4>1 DEF AllHeld
      <4>3. Pointers(s) = {p}
        BY <2>1, <3>1, <4>2, NeatEntry DEF Pointers
      <4>4. Cardinality(Pointers(s)) = 1
        BY <4>3, FS_Singleton
      <4>5. o.inode[s] \in Held
        BY <2>1, <3>1, <3>2 DEF Good, Core, InodesOK
      <4>6. o.inode[s].open_cnt = 1
        BY <4>5 DEF Held
      <4>7. QED
        BY <3>1, <3>2, <4>4, <4>6 DEF Live
    <3>3. CASE o.inode[s] = None
      <4>1. Pointers(s) = {}
        BY <2>1, <3>1, <3>3, NeatEntry DEF Pointers
      <4>2. Cardinality(Pointers(s)) = 0
        BY <4>1, FS_EmptySet
      <4>3. QED
        BY <3>3, <4>2 DEF Live
    <3>4. QED
      BY <3>2, <3>3
  <2>5. QED
    BY <2>1, <2>2, <2>3, <2>4
<1>2. QED
  BY <1>1, TidyInvariance, PTL

(* Under the same condition an open file is still the one that is listed   *)
(* under its name, in its sector.                                          *)
THEOREM HandlesAreListed == Spec => []HandlesListed
<1>1. TidyInv => HandlesListed
  <2> SUFFICES ASSUME TidyInv, ~o.aliased, NEW p \in Paths, o.entry[p] # None
               PROVE  HasFile(o, p.name, o.entry[p])
    BY DEF HandlesListed, HasFile
  <2>1. Good(o) /\ TableTidy(o)
    BY DEF TidyInv, Neat
  <2>2. QED
    BY <2>1, NeatEntry
<1>2. QED
  BY <1>1, TidyInvariance, PTL
=============================================================================

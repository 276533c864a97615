----------------------------- MODULE FileSystem -----------------------------
(***************************************************************************)
(* The file system of a3: free-map.c, inode.c, directory.c, file.c,        *)
(* filesys.c, fsutil.c and the import, defragmentation and recovery of     *)
(* fsutil2.c, above the device that SectorStore describes.  The shell has  *)
(* one thread, so a file command is one action.  A C function is an        *)
(* operator of the same name from one file system state to the next.       *)
(***************************************************************************)
EXTENDS Integers, SequencesExt

CONSTANTS BLOCK_SECTOR_SIZE,            \* bytes of a sector
          DIRECT_BLOCKS_COUNT,          \* block pointers of an inode
          INDIRECT_BLOCKS_PER_SECTOR,   \* block pointers of an index block
          block_size,                   \* sectors of the device
          MetaSectors,  \* sectors that the free map and the root directory take
          Entries,      \* slots of the root directory
          Names,        \* file names
          Nul,          \* the byte 0
          None,         \* NULL
          Sizes,        \* sizes given to create
          Texts,        \* lengths of the text given to write
          Positions,    \* positions given to seek
          HostSizes,    \* sizes of the host files given to copy_in
          MaxLength,    \* bound on the length of a file
          MinPos,       \* bound on how far a position sinks below zero
          MaxFailures,  \* bound on the creates and growths that fail
          MaxRecovered  \* bound on the commands from the first recover 0 on

\* Data blocks an inode can have, and those before the doubly indirect ones.
SinglyLimit == DIRECT_BLOCKS_COUNT + INDIRECT_BLOCKS_PER_SECTOR
BlockLimit  == SinglyLimit + INDIRECT_BLOCKS_PER_SECTOR * INDIRECT_BLOCKS_PER_SECTOR

ASSUME SizesAssumption ==
    /\ BLOCK_SECTOR_SIZE \in Nat \ {0, 1} /\ DIRECT_BLOCKS_COUNT \in Nat \ {0}
    /\ INDIRECT_BLOCKS_PER_SECTOR \in Nat \ {0}
    /\ MetaSectors \in Nat /\ block_size \in Nat
    /\ 2 <= MetaSectors /\ MetaSectors < block_size

Sectors == 0 .. block_size - 1

ASSUME BoundsAssumption ==
    /\ IsFiniteSet(Names) /\ Entries \in Nat /\ Cardinality(Names) <= Entries
    /\ Sizes \subseteq Nat /\ HostSizes \subseteq Nat /\ Texts \subseteq Nat /\ Positions \subseteq Int

\* struct inode_disk: pointers to blocks, 0 for none, and the length in bytes.
DiskInode == [direct : [0 .. DIRECT_BLOCKS_COUNT - 1 -> Sectors],
              indirect : Sectors, doubly : Sectors,
              length : 0 .. BlockLimit * BLOCK_SECTOR_SIZE]

ASSUME NoneAssumption ==
    /\ None \notin [name : Names, inode_sector : Sectors]
    /\ None \notin [open_cnt : {1}, removed : BOOLEAN, data : DiskInode]

\* bitmap_create(block_size - 1): the last sector has no bit.
Bits == 0 .. block_size - 2

(***************************************************************************)
(* The file system state: the free map (in memory, and in its file after   *)
(* every change), the sectors, the root directory's slots, the open        *)
(* inodes, the file table.  failed and recovered are history: how many     *)
(* creates and growths failed, and how many commands there were from the   *)
(* first recover 0 on.                                                     *)
(***************************************************************************)
VARIABLE fs

(***************************************************************************)
(* A sector holds bytes, an inode or an index block.  One that holds       *)
(* something else than its reader expects has no file in it: no magic, no  *)
(* pointers.                                                               *)
(***************************************************************************)
Bytes(b) == [kind |-> "bytes", v |-> b]
Inode(d) == [kind |-> "inode", v |-> d]
Index(b) == [kind |-> "index", v |-> b]

Zeros == Bytes([k \in 0 .. BLOCK_SECTOR_SIZE - 1 |-> Nul])

inode_disk(length) == [direct |-> [i \in 0 .. DIRECT_BLOCKS_COUNT - 1 |-> 0],
                       indirect |-> 0, doubly |-> 0, length |-> length]

AsInode(c) == IF c.kind = "inode" THEN c.v ELSE inode_disk(0)
AsBytes(c) == IF c.kind = "bytes" THEN c.v ELSE Zeros.v
AsIndex(c) == IF c.kind = "index" THEN c.v
              ELSE [j \in 0 .. INDIRECT_BLOCKS_PER_SECTOR - 1 |-> 0]

\* Sector 0 holds the inode of the free map, of one or more bytes.
Formatted ==
    [map |-> 0 .. MetaSectors - 1,
     store |-> [s \in Sectors |-> IF s = 0 THEN Inode(inode_disk(1)) ELSE Zeros],
     dir |-> [k \in 1 .. Entries |-> None],
     open |-> [s \in Sectors |-> None],
     table |-> <<>>,
     panic |-> FALSE, failed |-> 0, recovered |-> 0]

Init == fs = Formatted

----------------------------------------------------------------------------
(* free-map.c and inode.c: block allocation.  An allocation works on a     *)
(* record a: map and store, the pointer it set, the block pointers at work *)
(* and ok.                                                                 *)

bytes_to_sectors(size) == (size + BLOCK_SECTOR_SIZE - 1) \div BLOCK_SECTOR_SIZE

Lesser(i, j) == IF i < j THEN i ELSE j

\* Bugs: the last sector is used, the bit is not set, the scan runs backwards.
free_map_allocate_past(a) ==
    IF Sectors \subseteq a.map THEN [a EXCEPT !.ok = FALSE]
    ELSE [a EXCEPT !.map = @ \cup {Min(Sectors \ a.map)}, !.ptr = Min(Sectors \ a.map)]

free_map_allocate_unmarked(a) ==
    IF Bits \subseteq a.map THEN [a EXCEPT !.ok = FALSE]
    ELSE [a EXCEPT !.ptr = Min(Bits \ a.map)]

free_map_allocate_high(a) ==
    IF Bits \subseteq a.map THEN [a EXCEPT !.ok = FALSE]
    ELSE [a EXCEPT !.map = @ \cup {Max(Bits \ a.map)}, !.ptr = Max(Bits \ a.map)]

free_map_allocate(a) ==
    IF Bits \subseteq a.map THEN [a EXCEPT !.ok = FALSE]
    ELSE LET s == Min(Bits \ a.map)
         IN  [a EXCEPT !.map = @ \cup {s}, !.ptr = s]

WriteZeros(a) == [a EXCEPT !.store[a.ptr] = Zeros]
Zeroed(a) == IF a.ok THEN WriteZeros(a) ELSE a

\* A bug: the new block keeps what it held before.
reserve_block_stale(a, p) ==
    IF p # 0 THEN [a EXCEPT !.ptr = p] ELSE free_map_allocate([a EXCEPT !.ptr = 0])

\* A data block for pointer p, unless it has one.
reserve_block(a, p) ==
    IF p # 0 THEN [a EXCEPT !.ptr = p] ELSE Zeroed(free_map_allocate([a EXCEPT !.ptr = 0]))

\* An index block for pointer p.  A failure of free_map_allocate is not
\* noticed: the zeros go to the sector the pointer names, which is 0.
reserve_index(a, p) ==
    IF p # 0 THEN [a EXCEPT !.ptr = p]
    ELSE [WriteZeros(free_map_allocate([a EXCEPT !.ptr = 0])) EXCEPT !.ok = TRUE]

\* Pointer i - 1 of the pointers at work is reserved, after those in front of it.
Placed(a, i, c) == [c EXCEPT !.blocks = [a.blocks EXCEPT ![i - 1] = c.ptr]]

ReserveBlock(a, i) == IF a.ok THEN Placed(a, i, reserve_block(a, a.blocks[i - 1])) ELSE a

\* The first l of the given pointers.
ReserveBlocks(a, pointers, l) ==
    LET after[i \in 0 .. l] == IF i = 0 THEN [a EXCEPT !.blocks = pointers]
                               ELSE ReserveBlock(after[i - 1], i)
    IN  after[l]

\* inode_reserve_indirect writes the index block p back only when all of its
\* pointers were reserved.
WrittenBack(p, c) ==
    [c EXCEPT !.ptr = p, !.store = IF c.ok THEN [@ EXCEPT ![p] = Index(c.blocks)] ELSE @]

\* inode_reserve_indirect for n data blocks: of level 1 in index block a.ptr, ...
FillBlocks(a, n) == WrittenBack(a.ptr, ReserveBlocks(a, AsIndex(a.store[a.ptr]), n))

Level1(a, p, n) == FillBlocks(reserve_index(a, p), n)

\* ... and of level 2.
ReserveIndex(a, i, n) ==
    LET M == INDIRECT_BLOCKS_PER_SECTOR
    IN  IF a.ok THEN Placed(a, i, Level1(a, a.blocks[i - 1], Lesser(n - (i - 1) * M, M))) ELSE a

ReserveIndexes(a, pointers, n) ==
    LET M == INDIRECT_BLOCKS_PER_SECTOR
        after[i \in 0 .. (n + M - 1) \div M] ==
            IF i = 0 THEN [a EXCEPT !.blocks = pointers] ELSE ReserveIndex(after[i - 1], i, n)
    IN  after[(n + M - 1) \div M]

FillIndexes(a, n) == WrittenBack(a.ptr, ReserveIndexes(a, AsIndex(a.store[a.ptr]), n))

Level2(a, p, n) == FillIndexes(reserve_index(a, p), n)

\* The three parts of inode_reserve for n blocks; a.d is the inode.
ReserveDirect(a, n) ==
    LET done(x) == [x EXCEPT !.d.direct = x.blocks]
    IN  IF a.ok THEN done(ReserveBlocks(a, a.d.direct, Lesser(n, DIRECT_BLOCKS_COUNT))) ELSE a

ReserveSingly(a, n) ==
    LET done(y) == [y EXCEPT !.d.indirect = y.ptr]
        rest == n - DIRECT_BLOCKS_COUNT
    IN  IF a.ok /\ rest > 0
        THEN done(Level1(a, a.d.indirect, Lesser(rest, INDIRECT_BLOCKS_PER_SECTOR)))
        ELSE a

ReserveDoubly(a, n) ==
    LET done(z) == [z EXCEPT !.d.doubly = z.ptr]
        rest == Lesser(n, BlockLimit) - SinglyLimit
    IN  IF a.ok /\ rest > 0 THEN done(Level2(a, a.d.doubly, rest)) ELSE a

(***************************************************************************)
(* inode_reserve: map, store and the inode d with blocks for length bytes. *)
(* When it fails, ok is FALSE and what was allocated before stays marked.  *)
(***************************************************************************)
inode_reserve(map, store, d, length) ==
    LET n == bytes_to_sectors(length)
        a == [map |-> map, store |-> store, d |-> d, ptr |-> 0, blocks |-> <<>>,
              ok |-> length >= 0]
    IN  ReserveDoubly(ReserveSingly(ReserveDirect(a, n), n), n)

\* The ASSERT at its end fails: more blocks than an inode has.
TooLong(length) == bytes_to_sectors(length) > BlockLimit

----------------------------------------------------------------------------
(* inode.c: the blocks and bytes of an inode d on a store.                 *)

index_to_sector(store, d, i) ==
    LET M == INDIRECT_BLOCKS_PER_SECTOR
        j == i - SinglyLimit
    IN  CASE i < DIRECT_BLOCKS_COUNT -> d.direct[i]
          [] i >= DIRECT_BLOCKS_COUNT /\ i < SinglyLimit ->
               AsIndex(store[d.indirect])[i - DIRECT_BLOCKS_COUNT]
          [] OTHER -> AsIndex(store[AsIndex(store[d.doubly])[j \div M]])[j % M]

get_inode_data_sectors(store, d) ==
    [i \in 1 .. bytes_to_sectors(d.length) |-> index_to_sector(store, d, i - 1)]

\* The index blocks for the inode's length.
IndexSectors(store, d) ==
    LET n == bytes_to_sectors(d.length)
        l == n - SinglyLimit
    IN  (IF n > DIRECT_BLOCKS_COUNT THEN {d.indirect} ELSE {})
        \cup (IF l > 0 THEN {d.doubly} \cup {AsIndex(store[d.doubly])[i] :
                               i \in 0 .. (l - 1) \div INDIRECT_BLOCKS_PER_SECTOR}
              ELSE {})

\* A bug: the index blocks are forgotten.
inode_deallocate_data(store, d) == Range(get_inode_data_sectors(store, d))

\* What inode_deallocate releases: the blocks for the inode's length.
inode_deallocate(store, d) ==
    Range(get_inode_data_sectors(store, d)) \cup IndexSectors(store, d)

\* inode_read_at of the whole inode.
Contents(store, d) ==
    [k \in 1 .. d.length |->
       AsBytes(store[index_to_sector(store, d, (k - 1) \div BLOCK_SECTOR_SIZE)])
         [(k - 1) % BLOCK_SECTOR_SIZE]]

\* The copying loop of inode_write_at: buf at offset ofs, which has blocks.
Stored(store, d, buf, ofs) ==
    LET touched == (ofs \div BLOCK_SECTOR_SIZE) .. ((ofs + Len(buf) - 1) \div BLOCK_SECTOR_SIZE)
        block(s) == {i \in touched : index_to_sector(store, d, i) = s}
        byte(s, k) == (CHOOSE i \in block(s) : TRUE) * BLOCK_SECTOR_SIZE + k - ofs + 1
    IN  [s \in Sectors |->
           IF block(s) = {} THEN store[s]
           ELSE Bytes([k \in 0 .. BLOCK_SECTOR_SIZE - 1 |->
                         IF byte(s, k) \in DOMAIN buf THEN buf[byte(s, k)]
                         ELSE AsBytes(store[s])[k]])]

inode_open(f, s) ==
    IF f.open[s] # None THEN f
    ELSE [f EXCEPT !.open[s] = [open_cnt |-> 1, removed |-> FALSE,
                                data |-> AsInode(f.store[s])]]

inode_remove(f, s) == [f EXCEPT !.open[s].removed = TRUE]

\* The ASSERT of free_map_release.
free_map_release(f, sectors) ==
    IF sectors \subseteq f.map THEN [f EXCEPT !.map = @ \ sectors]
    ELSE [f EXCEPT !.panic = TRUE]

inode_close(f, s) ==
    LET e == f.open[s]
        g == [f EXCEPT !.open[s] = None]
    IN  CASE e = None -> [f EXCEPT !.panic = TRUE]
          [] e # None /\ e.open_cnt > 1 -> [f EXCEPT !.open[s].open_cnt = @ - 1]
          [] e # None /\ e.open_cnt = 1 /\ ~e.removed -> g
          [] OTHER -> free_map_release(g, {s} \cup inode_deallocate(f.store, e.data))

\* inode_write_at behind the end, with what inode_reserve made of it.
Extended(f, s, buf, ofs, a) ==
    LET grown == [a.d EXCEPT !.length = ofs + Len(buf)]
    IN  CASE ~a.ok -> [n |-> 0, f |-> [f EXCEPT !.map = a.map, !.store = a.store,
                                                !.open[s].data = a.d, !.failed = @ + 1]]
          [] a.ok /\ (ofs < 0 \/ TooLong(ofs + Len(buf))) -> [n |-> 0, f |-> [f EXCEPT !.panic = TRUE]]
          [] OTHER -> [n |-> Len(buf),
                       f |-> [f EXCEPT !.map = a.map, !.open[s].data = grown,
                                !.store = Stored([a.store EXCEPT ![s] = Inode(grown)],
                                                 grown, buf, ofs)]]

(***************************************************************************)
(* inode_write_at of a buffer that is not empty: the new state and the     *)
(* bytes written.  An offset below zero that has to be copied to reads a   *)
(* sector past the device.                                                 *)
(***************************************************************************)
inode_write_at(f, s, buf, ofs) ==
    LET d   == f.open[s].data
        end == ofs + Len(buf)
    IN  CASE end - 1 \notin 0 .. d.length - 1 ->
               Extended(f, s, buf, ofs, inode_reserve(f.map, f.store, d, end))
          [] end - 1 \in 0 .. d.length - 1 /\ ofs < 0 ->
               [n |-> 0, f |-> [f EXCEPT !.panic = TRUE]]
          [] OTHER -> [n |-> Len(buf), f |-> [f EXCEPT !.store = Stored(@, d, buf, ofs)]]

----------------------------------------------------------------------------
(* directory.c: the root directory, whose handle cwd no command keeps.     *)

lookup(f, name) == {k \in 1 .. Entries : f.dir[k] # None /\ f.dir[k].name = name}

SectorOf(f, name) == f.dir[Min(lookup(f, name))].inode_sector

dir_add(f, name, s) ==
    LET k == Min({j \in 1 .. Entries : f.dir[j] = None})
    IN  IF lookup(f, name) # {} THEN f
        ELSE [f EXCEPT !.dir[k] = [name |-> name, inode_sector |-> s]]

dir_remove(f, name) ==
    LET s == SectorOf(f, name)
        g == [inode_open(f, s) EXCEPT !.dir[Min(lookup(f, name))] = None]
    IN  IF lookup(f, name) = {} THEN f ELSE inode_close(inode_remove(g, s), s)

----------------------------------------------------------------------------
(* filesys.c and file.c                                                    *)

\* A file in sector s, for which inode_reserve gave a, gets its name.
Named(f, name, s, a) ==
    LET store == IF a.ok THEN [a.store EXCEPT ![s] = Inode(a.d)] ELSE a.store
    IN  CASE a.ok /\ TooLong(a.d.length) -> [f EXCEPT !.panic = TRUE]
          [] ~a.ok \/ (lookup(f, name) # {} /\ ~TooLong(a.d.length)) ->
               [f EXCEPT !.map = a.map \ {s}, !.store = store, !.failed = @ + 1]
          [] OTHER -> dir_add([f EXCEPT !.map = a.map, !.store = store], name, s)

(***************************************************************************)
(* filesys_create: the inode's sector is allocated first, the blocks next, *)
(* and the name is checked last.  A failure gives back the inode's sector  *)
(* only.                                                                   *)
(***************************************************************************)
filesys_create(f, name, size) ==
    LET s == Min(Bits \ f.map)
    IN  IF Bits \subseteq f.map THEN [f EXCEPT !.failed = @ + 1]
        ELSE Named(f, name, s,
                   inode_reserve(f.map \cup {s}, f.store, inode_disk(size), size))

Handle(f, name) == {k \in DOMAIN f.table : f.table[k].fname = name}
IsOpen(f, name) == Handle(f, name) # {}
File(f, name)   == f.table[Min(Handle(f, name))]

\* get_file_by_fname, or filesys_open and add_to_file_table.
OpenFile(f, name) ==
    IF IsOpen(f, name) \/ lookup(f, name) = {} THEN f
    ELSE [inode_open(f, SectorOf(f, name)) EXCEPT
            !.table = Append(@, [fname |-> name, inode |-> SectorOf(f, name), pos |-> 0])]

\* file_seek to position p, with its ASSERT.
file_seek(f, name, p) ==
    IF p < 0 THEN [f EXCEPT !.panic = TRUE]
    ELSE [f EXCEPT !.table[Min(Handle(f, name))].pos = p]

remove_from_file_table(f, name) ==
    IF ~IsOpen(f, name) THEN f
    ELSE [inode_close(f, File(f, name).inode) EXCEPT
            !.table = RemoveAt(@, Min(Handle(f, name)))]

\* A write leaves the position two bytes before the end of what was written.
Moved(w, name) == [w.f EXCEPT !.table[Min(Handle(w.f, name))].pos = @ + w.n - 2]

\* A bug: the buffer is written as it is.
file_write_raw(f, name, buf) ==
    Moved(inode_write_at(f, File(f, name).inode, Front(buf) \o <<name>>,
                         File(f, name).pos), name)

\* The last byte of the buffer becomes 0.
file_write(f, name, buf) ==
    Moved(inode_write_at(f, File(f, name).inode, [buf EXCEPT ![Len(buf)] = Nul],
                         File(f, name).pos), name)

\* inode_read_at of size bytes at pos reads a sector past the device when pos
\* is negative.
file_read(f, name, size) ==
    LET e == File(f, name)
        left == f.open[e.inode].data.length - e.pos
    IN  IF e.pos < 0 /\ size > 0 THEN [f EXCEPT !.panic = TRUE]
        ELSE [f EXCEPT !.table[Min(Handle(f, name))].pos =
                @ + IF left > 0 THEN Lesser(size, left) ELSE 0]

----------------------------------------------------------------------------
(* fsutil.c                                                                *)

fsutil_create(f, name, size) == filesys_create(f, name, size)

fsutil_rm(f, name) == dir_remove(remove_from_file_table(f, name), name)

fsutil_write(f, name, buf) ==
    IF lookup(f, name) = {} /\ ~IsOpen(f, name) THEN f
    ELSE file_write(OpenFile(f, name), name, buf)

fsutil_read(f, name, size) ==
    IF lookup(f, name) = {} /\ ~IsOpen(f, name) THEN f
    ELSE file_read(OpenFile(f, name), name, size)

fsutil_seek(f, name, p) ==
    IF lookup(f, name) = {} /\ ~IsOpen(f, name) THEN f
    ELSE file_seek(OpenFile(f, name), name, p)

\* The position is put back where it was: an ASSERT, if it was negative.
fsutil_size(f, name) ==
    LET g == OpenFile(f, name)
    IN  IF ~IsOpen(g, name) THEN f ELSE file_seek(g, name, File(g, name).pos)

\* A file that cat opened is closed again.
fsutil_cat(f, name) ==
    IF IsOpen(f, name) THEN fsutil_size(f, name)
    ELSE remove_from_file_table(OpenFile(f, name), name)

----------------------------------------------------------------------------
(* fsutil2.c                                                               *)

num_free_sectors(f) == Cardinality(Bits \ f.map)

\* A bug: the inode's own sector is the only one that is not for data.
copyable_size_of_file_data(f, size) ==
    IF bytes_to_sectors(size) <= num_free_sectors(f) - 1 THEN size
    ELSE BLOCK_SECTOR_SIZE * (num_free_sectors(f) - 1) - 1

copyable_size_of_file(f, size) ==
    LET D == DIRECT_BLOCKS_COUNT
        M == INDIRECT_BLOCKS_PER_SECTOR
        needed == bytes_to_sectors(size)
        free == num_free_sectors(f)
        total_indirect == D + M + 2
        total_double_indirect == total_indirect + 1 + M + M * M
        metadata == 3 + (free - (total_indirect + 1) + M) \div (M + 1)
        capacity == CASE free <= D + 1 -> free - 1
                      [] D + 1 < free /\ free <= total_indirect -> free - 2
                      [] free >= total_double_indirect -> total_double_indirect - (M + 3)
                      [] OTHER -> free - metadata
    IN  IF needed <= capacity THEN size ELSE BLOCK_SECTOR_SIZE * capacity - 1

Text(name, k) == [i \in 1 .. k |-> name]
Padding(k) == [i \in 1 .. k |-> Nul]

\* The part of copy_in after copyable_size_of_file: a create, which may fail,
\* then a write at the position of a file that was open before.
Copied(f, name, size, copy) ==
    LET read == Lesser(copy, size)
        rewound(g) == IF IsOpen(g, name) THEN file_seek(g, name, 0)
                      ELSE [g EXCEPT !.panic = TRUE]
    IN  IF copy <= 0 THEN f
        ELSE rewound(fsutil_write(fsutil_create(f, name, copy), name,
                                  Text(name, read) \o Padding(copy + 1 - read)))

\* copy_in of a host file of size bytes.
copy_in(f, name, size) ==
    Copied(f, name, size,
           copyable_size_of_file(f, IF size % BLOCK_SECTOR_SIZE = 0 THEN size + 1 ELSE size))

\* A file of contents c, written anew.
Rewritten(f, name, c) ==
    LET filled(h) == IF c = <<>> THEN h ELSE fsutil_write(h, name, c)
    IN  fsutil_seek(filled(fsutil_create(f, name, Len(c))), name, 0)

\* What defragment and others do in state g for the file of slot k, if there is
\* one, when they began in state f.
Body(loop, g, f, e) ==
    CASE loop = "size" -> fsutil_size(g, e.name)
      [] loop = "rm" -> fsutil_rm(g, e.name)
      [] loop = "create" -> Rewritten(g, e.name, Contents(f.store, f.open[e.inode_sector].data))

Turn(loop, g, f, k) == IF f.dir[k] = None THEN g ELSE Body(loop, g, f, f.dir[k])

\* A loop over the names that dir_readdir delivers of f, from state h.
ForEach(loop, h, f) ==
    LET after[k \in 0 .. Entries] == IF k = 0 THEN h ELSE Turn(loop, after[k - 1], f, k)
    IN  after[Entries]

\* fsutil_size of every file, by find_file, fragmentation_degree and recover 2.
OpenAll(f) == ForEach("size", f, f)

\* The removal and creation of all files, which are open.
Rebuilt(f) == ForEach("create", ForEach("rm", f, f), f)

\* defragment reads every file, removes all of them, and writes them again.
defragment(f) ==
    LET rebuilt(g) == IF g.panic THEN g ELSE Rebuilt(g)
    IN  rebuilt(OpenAll(f))

Recovered(s) == <<"recovered0", s>>

\* A bug: the bit is read the wrong way round.
recover_sector_marked(g, s) ==
    LET h == inode_open(g, s)
    IN  IF s \notin g.map THEN g
        ELSE IF h.open[s].data.length = 0 \/ s < MetaSectors THEN h
        ELSE dir_add(h, Recovered(s), s)

\* recover 0 opens the inode of every free sector, closes none, and lists those
\* that have a length.
recover_sector(g, s) ==
    LET h == inode_open(g, s)
    IN  IF s \in g.map THEN g
        ELSE IF h.open[s].data.length = 0 THEN h
        ELSE dir_add(h, Recovered(s), s)

recover0(f) ==
    LET after[i \in 0 .. block_size - 1] ==
            IF i = 0 THEN [f EXCEPT !.recovered = 1] ELSE recover_sector(after[i - 1], i - 1)
    IN  after[block_size - 1]

\* quit and the next start on the same device: filesys_done, filesys_init.
Remount(f) == [f EXCEPT !.open = [s \in Sectors |-> None], !.table = <<>>,
                        !.panic = AsInode(f.store[0]).length = 0]

----------------------------------------------------------------------------
(* The shell's commands.                                                   *)

AnyName == Names \cup {Recovered(s) : s \in IF MaxRecovered > 0 THEN Sectors ELSE {}}

\* The names worth typing: no file has a recovered name before a recover 0.
Typed == IF fs.recovered = 0 THEN Names ELSE AnyName

\* A program that holds a freed inode is not followed further.
Do(f) == /\ ~fs.panic
         /\ \A k \in DOMAIN fs.table : fs.open[fs.table[k].inode] # None
         /\ fs.recovered = 0 \/ fs.recovered < MaxRecovered
         /\ f.failed <= MaxFailures
         /\ fs' = [f EXCEPT !.recovered = IF fs.recovered = 0 THEN @ ELSE fs.recovered + 1]

Create(n, size) == Do(fsutil_create(fs, n, size))

\* A text of k characters is followed by two zero bytes.
Write(n, k) == /\ IsOpen(fs, n) => /\ File(fs, n).pos + k + 2 <= MaxLength
                                   /\ File(fs, n).pos >= MinPos
               /\ Do(fsutil_write(fs, n, Text(n, k) \o Padding(2)))

Read(n, k) == Do(fsutil_read(fs, n, k))
Seek(n, p) == Do(fsutil_seek(fs, n, p))
Rm(n)      == Do(fsutil_rm(fs, n))
Cat(n)     == Do(fsutil_cat(fs, n))

\* size and copy_out
Size(n) == Do(fsutil_size(fs, n))

CopyIn(n, size) == Do(copy_in(fs, n, size))
Search     == Do(OpenAll(fs))
Defragment == Do(defragment(fs))
Recover0   == MaxRecovered > 0 /\ Do(recover0(fs))
Restart    == Do(Remount(fs))

Next == \/ \E n \in Names : \/ \E k \in Sizes : Create(n, k)
                            \/ \E k \in HostSizes : CopyIn(n, k)
        \/ \E n \in Typed : \/ \E k \in Texts : Write(n, k) \/ Read(n, k)
                            \/ \E p \in Positions : Seek(n, p)
                            \/ Rm(n) \/ Cat(n) \/ Size(n)
        \/ Search \/ Defragment \/ Recover0 \/ Restart

Spec == Init /\ [][Next]_fs

----------------------------------------------------------------------------
Meta == 0 .. MetaSectors - 1

Listed == {fs.dir[k].name : k \in {j \in 1 .. Entries : fs.dir[j] # None}}

\* The inode of a listed file as the commands see it.
CurrentInode(f, s) == IF f.open[s] # None THEN f.open[s].data ELSE AsInode(f.store[s])
InodeOf(n) == CurrentInode(fs, SectorOf(fs, n))

\* The sectors of a listed file.
Used(n) == {SectorOf(fs, n)} \cup inode_deallocate(fs.store, InodeOf(n))

(***************************************************************************)
(* The file system state is well formed: marked sectors have a bit, listed *)
(* inodes and those of open files lie on the device, outside of the free   *)
(* map's and the root directory's sectors.                                 *)
(***************************************************************************)
TypeOK == /\ fs.map \subseteq Bits
          /\ \A n \in Listed : /\ n \in AnyName
                              /\ SectorOf(fs, n) \in Bits \ Meta
                              /\ InodeOf(n).length \in 0 .. BlockLimit * BLOCK_SECTOR_SIZE
          /\ \A k \in DOMAIN fs.table : fs.table[k].inode \in Bits \ Meta

\* The program runs and recover 0 was not used: it lists files without marking
\* their sectors.
Ordinary == ~fs.panic /\ fs.recovered = 0

(***************************************************************************)
(* Every sector of a listed file, inode, data and index blocks, is marked  *)
(* in the free map, belongs to that file only, and is none of the free     *)
(* map's or the root directory's.                                          *)
(***************************************************************************)
Owned == Ordinary =>
    /\ \A n \in Listed : Used(n) \subseteq fs.map \ Meta
    /\ \A n, o \in Listed : n # o => Used(n) \cap Used(o) = {}

(***************************************************************************)
(* As long as no create and no growth has failed, every marked sector is   *)
(* used: removals and defragmentation give back exactly what was taken.    *)
(***************************************************************************)
NoLeak == Ordinary /\ fs.failed = 0 => fs.map = Meta \cup UNION {Used(n) : n \in Listed}

(***************************************************************************)
(* A file that is not empty ends with a zero byte.  defragment relies on   *)
(* it: file_write clears the last byte of what it writes back.  A file     *)
(* that recover 0 lists again may have lost its sectors to others.         *)
(***************************************************************************)
EndsWithZero == fs.recovered = 0 => \A n \in Listed :
    LET c == Contents(fs.store, InodeOf(n)) IN c # <<>> => Last(c) = Nul

(***************************************************************************)
(* The commands implement FileStore: whatever blocks they allocate, share  *)
(* or move, they change the bytes of the file they name and of no other,   *)
(* and a restart loses nothing.                                            *)
(***************************************************************************)
Files == [n \in Names |-> IF n \in Listed THEN Contents(fs.store, InodeOf(n)) ELSE None]

Store == INSTANCE FileStore WITH files <- Files, Absent <- None

FileStoreSpec == Store!Spec

(***************************************************************************)
(* A defragment would leave no file fragmented (fragmentation_degree: a    *)
(* step of more than 3 sectors), if no earlier failure left sectors marked.*)
(***************************************************************************)
Fragmented(f, n) ==
    LET b == get_inode_data_sectors(f.store, CurrentInode(f, SectorOf(f, n)))
    IN  \E i \in 2 .. Len(b) : b[i] - b[i - 1] \notin 0 .. 3

Defragmented == Ordinary /\ fs.failed = 0 =>
    \E f \in {defragment(fs)} : ~f.panic /\ \A n \in Listed : ~Fragmented(f, n)

\* x in portions of b, the last of which may be smaller.
Ceiling(x, b) == (x + b - 1) \div b

\* The sectors of a file with n blocks: inode, blocks, and index blocks.
SectorsFor(n) ==
    1 + n + (IF n > DIRECT_BLOCKS_COUNT THEN 1 ELSE 0)
    + (IF n > SinglyLimit THEN 1 + Ceiling(n - SinglyLimit, INDIRECT_BLOCKS_PER_SECTOR)
       ELSE 0)

(***************************************************************************)
(* copyable_size_of_file leaves room for the inode, the index blocks and   *)
(* the final zero: copying in a new file never runs out of sectors, and    *)
(* takes as many as its blocks call for.                                   *)
(***************************************************************************)
CopyFits == Ordinary => \A n \in Names \ Listed, k \in HostSizes :
    \E f \in {copy_in(fs, n, k)} :
       /\ ~f.panic /\ f.failed = fs.failed
       /\ f # fs => Cardinality(f.map \ fs.map) =
                    SectorsFor(bytes_to_sectors(CurrentInode(f, SectorOf(f, n)).length))

(***************************************************************************)
(* recover 0 right after a removal lists the removed file, with the        *)
(* contents it had.                                                        *)
(***************************************************************************)
RecoverFinds == [][\A n \in Names \cap Listed :
    LET s == SectorOf(fs, n)
    IN  Ordinary /\ InodeOf(n).length > 0 /\ Rm(n) =>
          \E r \in {recover0(fs')} :
             /\ lookup(r, Recovered(s)) # {}
             /\ Contents(r.store, CurrentInode(r, s)) = Contents(fs.store, InodeOf(n))]_fs

(***************************************************************************)
(* Sector 0 keeps the inode of the free map (filesys.h:8), also when an    *)
(* allocation fails: without it the next start ends in "can't read free    *)
(* map" (free-map.c:56).                                                   *)
(***************************************************************************)
FreeMapKept == AsInode(fs.store[0]).length > 0
=============================================================================

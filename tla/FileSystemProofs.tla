-------------------------- MODULE FileSystemProofs --------------------------
(***************************************************************************)
(* Proofs about FileSystem, for every size of sectors, inodes and index    *)
(* blocks.  First the arithmetic of copyable_size_of_file against the      *)
(* sectors that inode_reserve takes; then the ownership of sectors: owner  *)
(* maps, allocation level by level, the sectors of an inode, the state     *)
(* and each C function that changes it, the commands, the invariant.       *)
(***************************************************************************)
EXTENDS FileSystem, FiniteSetTheorems, SequenceTheorems, WellFoundedInduction, NaturalsInduction, TLAPS

----------------------------------------------------------------------------
(* Division.                                                               *)

LEMMA Quotient ==
    ASSUME NEW x \in Int, NEW b \in Nat \ {0}
    PROVE  /\ x \div b \in Int /\ x % b \in 0 .. b - 1
           /\ x = b * (x \div b) + (x % b)
  OBVIOUS

LEMMA QuotientIs ==
    ASSUME NEW x \in Int, NEW b \in Nat \ {0}, NEW q \in Int, b * q <= x, x < b * q + b
    PROVE  x \div b = q
<1> DEFINE p == x \div b
           r == x % b
<1>1. p \in Int /\ r \in 0 .. b - 1 /\ x = b * p + r
  BY Quotient
<1> HIDE DEF p, r
<1>2. CASE p <= q - 1
  <2>1. b * p <= b * (q - 1)
    BY <1>1, <1>2
  <2>2. QED
    BY <1>1, <2>1
<1>3. CASE p >= q + 1
  <2>1. b * p >= b * (q + 1)
    BY <1>1, <1>3
  <2>2. QED
    BY <1>1, <2>1
<1>4. p = q
  BY <1>1, <1>2, <1>3
<1>5. QED
  BY <1>4 DEF p

(* The last portion ends at x or behind it, and no portion is empty.       *)
LEMMA CeilingBounds ==
    ASSUME NEW x \in Int, NEW b \in Nat \ {0}
    PROVE  /\ Ceiling(x, b) \in Int
           /\ x <= b * Ceiling(x, b) /\ b * Ceiling(x, b) <= x + b - 1
<1> DEFINE y == x + b - 1
<1>1. y \in Int
  OBVIOUS
<1>2. y \div b \in Int /\ y % b \in 0 .. b - 1 /\ y = b * (y \div b) + (y % b)
  BY <1>1, Quotient
<1>3. QED
  BY <1>2 DEF Ceiling

LEMMA CeilingIs ==
    ASSUME NEW x \in Int, NEW b \in Nat \ {0}, NEW q \in Int, x <= b * q, b * q <= x + b - 1
    PROVE  Ceiling(x, b) = q
<1>1. x + b - 1 \in Int /\ b * q \in Int
  OBVIOUS
<1>2. b * q <= x + b - 1 /\ x + b - 1 < b * q + b
  BY <1>1
<1>3. QED
  BY <1>1, <1>2, QuotientIs DEF Ceiling

LEMMA CeilingAtMost ==
    ASSUME NEW x \in Int, NEW b \in Nat \ {0}, NEW q \in Int, x <= b * q
    PROVE  Ceiling(x, b) <= q
<1> DEFINE c == Ceiling(x, b)
<1>1. c \in Int /\ b * c <= x + b - 1
  BY CeilingBounds
<1> HIDE DEF c
<1>2. CASE c >= q + 1
  <2>1. b * c >= b * (q + 1)
    BY <1>1, <1>2
  <2>2. QED
    BY <1>1, <2>1
<1>3. QED
  BY <1>1, <1>2 DEF c

----------------------------------------------------------------------------
LEMMA Capacities ==
    /\ BLOCK_SECTOR_SIZE \in Nat \ {0, 1} /\ DIRECT_BLOCKS_COUNT \in Nat \ {0}
    /\ INDIRECT_BLOCKS_PER_SECTOR \in Nat \ {0}
    /\ SinglyLimit = DIRECT_BLOCKS_COUNT + INDIRECT_BLOCKS_PER_SECTOR
    /\ BlockLimit = SinglyLimit + INDIRECT_BLOCKS_PER_SECTOR * INDIRECT_BLOCKS_PER_SECTOR
    /\ INDIRECT_BLOCKS_PER_SECTOR * INDIRECT_BLOCKS_PER_SECTOR \in Nat
    /\ SinglyLimit \in Nat /\ BlockLimit \in Nat
<1>1. /\ BLOCK_SECTOR_SIZE \in Nat \ {0, 1} /\ DIRECT_BLOCKS_COUNT \in Nat \ {0}
      /\ INDIRECT_BLOCKS_PER_SECTOR \in Nat \ {0}
  BY SizesAssumption
<1>2. INDIRECT_BLOCKS_PER_SECTOR * INDIRECT_BLOCKS_PER_SECTOR \in Nat
  BY <1>1
<1>3. QED
  BY <1>1, <1>2 DEF SinglyLimit, BlockLimit

(***************************************************************************)
(* The four cases of copyable_size_of_file, for n blocks and free sectors. *)
(***************************************************************************)
Fits(n, free) == SectorsFor(n) <= free /\ n <= BlockLimit

LEMMA OnlyDirect ==
    ASSUME NEW free \in Nat, free <= DIRECT_BLOCKS_COUNT + 1, NEW n \in Nat, n <= free - 1
    PROVE  Fits(n, free)
<1>1. n <= DIRECT_BLOCKS_COUNT /\ n <= SinglyLimit /\ n <= BlockLimit
  BY Capacities
<1>2. SectorsFor(n) = 1 + n
  BY <1>1, Capacities DEF SectorsFor
<1>3. QED
  BY <1>1, <1>2 DEF Fits

LEMMA SinglyIndirect ==
    ASSUME NEW free \in Nat, free <= SinglyLimit + 2, NEW n \in Nat, n <= free - 2
    PROVE  Fits(n, free)
<1>1. n <= SinglyLimit /\ n <= BlockLimit
  BY Capacities
<1>2. SectorsFor(n) <= 2 + n
  BY <1>1, Capacities DEF SectorsFor
<1>3. SectorsFor(n) \in Int
  BY <1>1, Capacities DEF SectorsFor
<1>4. QED
  BY <1>1, <1>2, <1>3 DEF Fits

(* A file of n blocks whose doubly indirect blocks are in at most c index  *)
(* blocks.                                                                 *)
LEMMA DoublyIndirect ==
    ASSUME NEW n \in Nat, NEW c \in Nat, n - SinglyLimit <= INDIRECT_BLOCKS_PER_SECTOR * c
    PROVE  SectorsFor(n) \in Int /\ (n > SinglyLimit => SectorsFor(n) <= 3 + n + c)
<1> DEFINE k == Ceiling(n - SinglyLimit, INDIRECT_BLOCKS_PER_SECTOR)
<1>1. n - SinglyLimit \in Int /\ INDIRECT_BLOCKS_PER_SECTOR \in Nat \ {0}
  BY Capacities
<1>2. k \in Int /\ k <= c
  BY <1>1, CeilingBounds, CeilingAtMost
<1> HIDE DEF k
<1>3. SectorsFor(n) = 1 + n + (IF n > DIRECT_BLOCKS_COUNT THEN 1 ELSE 0)
                      + (IF n > SinglyLimit THEN 1 + k ELSE 0)
  BY DEF SectorsFor, k
<1>4. QED
  BY <1>2, <1>3, Capacities

LEMMA AllBlocks ==
    ASSUME NEW free \in Nat,
           free >= BlockLimit + INDIRECT_BLOCKS_PER_SECTOR + 3,
           NEW n \in Nat, n <= BlockLimit
    PROVE  Fits(n, free)
<1>1. n - SinglyLimit <= INDIRECT_BLOCKS_PER_SECTOR * INDIRECT_BLOCKS_PER_SECTOR
  BY Capacities
<1>2. /\ SectorsFor(n) \in Int
      /\ n > SinglyLimit => SectorsFor(n) <= 3 + n + INDIRECT_BLOCKS_PER_SECTOR
  BY <1>1, DoublyIndirect, Capacities
<1>3. n <= SinglyLimit => SectorsFor(n) <= 2 + n
  BY Capacities DEF SectorsFor
<1>4. QED
  BY <1>2, <1>3, Capacities DEF Fits

(* x sectors are left behind three index blocks and the singly indirect    *)
(* blocks: each index block takes one for itself and M for its blocks.     *)
LEMMA SomeIndexBlocks ==
    ASSUME NEW x \in Nat,
           x < INDIRECT_BLOCKS_PER_SECTOR * INDIRECT_BLOCKS_PER_SECTOR
               + INDIRECT_BLOCKS_PER_SECTOR,
           NEW n \in Nat,
           n <= SinglyLimit + x - Ceiling(x, INDIRECT_BLOCKS_PER_SECTOR + 1)
    PROVE  Fits(n, SinglyLimit + x + 3)
<1> DEFINE M == INDIRECT_BLOCKS_PER_SECTOR
           c == Ceiling(x, M + 1)
<1>1. M \in Nat \ {0} /\ M + 1 \in Nat \ {0} /\ M * M \in Nat /\ x \in Int
  BY Capacities
<1>2. c \in Int /\ x <= (M + 1) * c /\ (M + 1) * c <= x + M
  BY <1>1, CeilingBounds
<1>3. c <= M
  <2>1. x <= (M + 1) * M
    BY <1>1
  <2>2. QED
    BY <1>1, <2>1, CeilingAtMost
<1>4. n <= SinglyLimit + x - c
  OBVIOUS
<1>5. M = INDIRECT_BLOCKS_PER_SECTOR
  OBVIOUS
<1> HIDE DEF c, M
<1>6. c >= 0
  <2>1. ASSUME c <= -1 PROVE FALSE
    <3>1. (M + 1) * c <= -(M + 1)
      BY <1>1, <1>2, <2>1
    <3>2. QED
      BY <1>1, <1>2, <3>1
  <2>2. QED
    BY <1>2, <2>1
<1>7. (M + 1) * c = M * c + c /\ M * c \in Nat
  BY <1>1, <1>2, <1>6
<1>8. M * c <= M * M
  BY <1>1, <1>2, <1>3, <1>6
<1>9. n - SinglyLimit <= M * c
  BY <1>1, <1>2, <1>4, <1>7, Capacities
<1>10. SectorsFor(n) \in Int /\ (n > SinglyLimit => SectorsFor(n) <= 3 + n + c)
  BY <1>2, <1>5, <1>6, <1>9, DoublyIndirect
<1>11. n <= SinglyLimit => SectorsFor(n) <= 2 + n
  BY Capacities DEF SectorsFor
<1>12. SectorsFor(n) <= SinglyLimit + x + 3
  BY <1>2, <1>4, <1>10, <1>11, Capacities
<1>13. n <= BlockLimit
  BY <1>1, <1>5, <1>7, <1>8, <1>9, Capacities
<1>14. QED
  BY <1>12, <1>13 DEF Fits

(***************************************************************************)
(* No block could be added: with one more, the file would not fit.         *)
(***************************************************************************)
LEMMA DirectFull ==
    ASSUME NEW free \in Nat, free <= DIRECT_BLOCKS_COUNT + 1
    PROVE  ~Fits(free, free)
<1>1. free <= SinglyLimit
  BY Capacities
<1>2. SectorsFor(free) >= 1 + free
  BY <1>1, Capacities DEF SectorsFor
<1>3. SectorsFor(free) \in Int
  BY <1>1, Capacities DEF SectorsFor
<1>4. QED
  BY <1>2, <1>3 DEF Fits

LEMMA SinglyFull ==
    ASSUME NEW free \in Nat, free > DIRECT_BLOCKS_COUNT + 1, free <= SinglyLimit + 2
    PROVE  ~Fits(free - 1, free)
<1>1. CASE free - 1 <= SinglyLimit
  <2>1. SectorsFor(free - 1) = 1 + free
    BY <1>1, Capacities DEF SectorsFor
  <2>2. QED
    BY <2>1 DEF Fits
<1>2. CASE free - 1 > SinglyLimit
  <2>1. free - 1 = SinglyLimit + 1
    BY <1>2, Capacities
  <2>2. Ceiling(1, INDIRECT_BLOCKS_PER_SECTOR) = 1
    BY Capacities, CeilingIs
  <2>3. (free - 1) - SinglyLimit = 1
    BY <2>1, Capacities
  <2>4. SectorsFor(free - 1) = 3 + free
    BY <1>2, <2>2, <2>3, Capacities DEF SectorsFor
  <2>5. QED
    BY <2>4 DEF Fits
<1>3. QED
  BY <1>1, <1>2, Capacities

LEMMA IndexBlocksFull ==
    ASSUME NEW x \in Nat
    PROVE  ~Fits(SinglyLimit + x - Ceiling(x, INDIRECT_BLOCKS_PER_SECTOR + 1) + 1,
                 SinglyLimit + x + 3)
<1> DEFINE M == INDIRECT_BLOCKS_PER_SECTOR
           c == Ceiling(x, M + 1)
           n == SinglyLimit + x - c + 1
           k == Ceiling(n - SinglyLimit, M)
<1>1. M \in Nat \ {0} /\ M + 1 \in Nat \ {0} /\ x \in Int
  BY Capacities
<1>2. c \in Int /\ x <= (M + 1) * c /\ (M + 1) * c <= x + M
  BY <1>1, CeilingBounds
<1>3. c <= x
  <2>1. x <= (M + 1) * x
    BY <1>1
  <2>2. QED
    BY <1>1, <2>1, CeilingAtMost
<1> HIDE DEF c
<1>4. n \in Int /\ n - SinglyLimit = x - c + 1 /\ n > SinglyLimit
  BY <1>2, <1>3, Capacities
<1>5. n > DIRECT_BLOCKS_COUNT
  BY <1>4, Capacities
<1>6. k \in Int /\ n - SinglyLimit <= M * k
  <2>1. n - SinglyLimit \in Int
    BY <1>2, <1>4
  <2>2. QED
    BY <1>1, <2>1, CeilingBounds
<1>7. SectorsFor(n) = 3 + n + k
  BY <1>4, <1>5, <1>6, Capacities DEF SectorsFor
<1> HIDE DEF k
<1>8. k >= c
  <2>1. ASSUME k <= c - 1 PROVE FALSE
    <3>1. M * k <= M * (c - 1)
      BY <1>1, <1>2, <1>6, <2>1
    <3>2. (M + 1) * c = M * c + c /\ M * (c - 1) = M * c - M /\ M * c \in Int /\ M * k \in Int
      BY <1>1, <1>2, <1>6
    <3>3. QED
      BY <1>1, <1>2, <1>4, <1>6, <3>1, <3>2
  <2>2. QED
    BY <1>2, <1>6, <2>1
<1>9. SectorsFor(n) > SinglyLimit + x + 3
  BY <1>2, <1>4, <1>6, <1>7, <1>8, Capacities
<1>10. SectorsFor(n) \in Int
  BY <1>4, <1>6, <1>7
<1>11. ~Fits(n, SinglyLimit + x + 3)
  BY <1>9, <1>10, Capacities DEF Fits
<1>12. QED
  BY <1>11 DEF c

----------------------------------------------------------------------------
(* copyable_size_of_file                                                   *)

LEMMA FreeSectors ==
    ASSUME NEW f
    PROVE  num_free_sectors(f) \in Nat
<1>1. IsFiniteSet(Bits)
  <2>1. block_size - 2 \in Int
    BY SizesAssumption
  <2>2. QED
    BY <2>1, FS_Interval DEF Bits
<1>2. IsFiniteSet(Bits \ f.map)
  BY <1>1, FS_Subset
<1>3. QED
  BY <1>2, FS_CardinalityType DEF num_free_sectors

\* The data blocks that copyable_size_of_file counts on, of free sectors.
Capacity(free) ==
    CASE free <= DIRECT_BLOCKS_COUNT + 1 -> free - 1
      [] DIRECT_BLOCKS_COUNT + 1 < free /\ free <= SinglyLimit + 2 -> free - 2
      [] free >= BlockLimit + INDIRECT_BLOCKS_PER_SECTOR + 3 -> BlockLimit
      [] OTHER -> free - (3 + Ceiling(free - (SinglyLimit + 3), INDIRECT_BLOCKS_PER_SECTOR + 1))

LEMMA CopyableCapacity ==
    ASSUME NEW f, NEW size \in Nat
    PROVE  copyable_size_of_file(f, size) =
             IF bytes_to_sectors(size) <= Capacity(num_free_sectors(f)) THEN size
             ELSE BLOCK_SECTOR_SIZE * Capacity(num_free_sectors(f)) - 1
<1> DEFINE D == DIRECT_BLOCKS_COUNT
           M == INDIRECT_BLOCKS_PER_SECTOR
           free == num_free_sectors(f)
           total_indirect == D + M + 2
           total_double_indirect == total_indirect + 1 + M + M * M
           metadata == 3 + (free - (total_indirect + 1) + M) \div (M + 1)
           capacity == CASE free <= D + 1 -> free - 1
                         [] D + 1 < free /\ free <= total_indirect -> free - 2
                         [] free >= total_double_indirect -> total_double_indirect - (M + 3)
                         [] OTHER -> free - metadata
<1>1. free \in Nat
  BY FreeSectors
<1>2. /\ total_indirect = SinglyLimit + 2
      /\ total_double_indirect = BlockLimit + M + 3
      /\ total_double_indirect - (M + 3) = BlockLimit
  BY Capacities
<1>3. metadata = 3 + Ceiling(free - (SinglyLimit + 3), M + 1)
  <2>1. free - (total_indirect + 1) + M = free - (SinglyLimit + 3) + (M + 1) - 1
    BY <1>1, Capacities
  <2>2. QED
    BY <2>1 DEF Ceiling
<1>4. copyable_size_of_file(f, size) =
        IF bytes_to_sectors(size) <= capacity THEN size ELSE BLOCK_SECTOR_SIZE * capacity - 1
  BY DEF copyable_size_of_file
<1>5. capacity = Capacity(free)
  BY <1>2, <1>3, Zenon DEF Capacity
<1>6. QED
  BY <1>4, <1>5

LEMMA CapacityFits ==
    ASSUME NEW free \in Nat
    PROVE  /\ Capacity(free) \in Int
           /\ \A n \in Nat : n <= Capacity(free) => Fits(n, free)
           /\ ~Fits(Capacity(free) + 1, free)
<1> DEFINE x == free - (SinglyLimit + 3)
           c == Ceiling(x, INDIRECT_BLOCKS_PER_SECTOR + 1)
<1>1. CASE free <= DIRECT_BLOCKS_COUNT + 1
  <2>1. Capacity(free) = free - 1
    BY <1>1, Capacities DEF Capacity
  <2>2. Capacity(free) + 1 = free
    BY <2>1
  <2>3. QED
    BY <1>1, <2>1, <2>2, OnlyDirect, DirectFull
<1>2. CASE free > DIRECT_BLOCKS_COUNT + 1 /\ free <= SinglyLimit + 2
  <2>1. Capacity(free) = free - 2
    BY <1>2, Capacities DEF Capacity
  <2>2. Capacity(free) + 1 = free - 1
    BY <2>1
  <2>3. QED
    BY <1>2, <2>1, <2>2, SinglyIndirect, SinglyFull
<1>3. CASE free >= BlockLimit + INDIRECT_BLOCKS_PER_SECTOR + 3
  <2>1. free > DIRECT_BLOCKS_COUNT + 1 /\ free > SinglyLimit + 2
    BY <1>3, Capacities
  <2>2. Capacity(free) = BlockLimit
    BY <1>3, <2>1, Capacities DEF Capacity
  <2>3. ~(BlockLimit + 1 <= BlockLimit)
    BY Capacities
  <2>4. QED
    BY <1>3, <2>2, <2>3, AllBlocks, Capacities DEF Fits
<1>4. CASE free > SinglyLimit + 2 /\ free < BlockLimit + INDIRECT_BLOCKS_PER_SECTOR + 3
  <2>1. x \in Nat /\ free = SinglyLimit + x + 3
    BY <1>4, Capacities
  <2>2. x < INDIRECT_BLOCKS_PER_SECTOR * INDIRECT_BLOCKS_PER_SECTOR + INDIRECT_BLOCKS_PER_SECTOR
    BY <1>4, Capacities
  <2>3. c \in Int
    BY <2>1, Capacities, CeilingBounds
  <2>4. free > DIRECT_BLOCKS_COUNT + 1
    BY <1>4, Capacities
  <2>5. Capacity(free) = free - (3 + c)
    BY <1>4, <2>4, Capacities DEF Capacity
  <2> HIDE DEF x, c
  <2>6. Capacity(free) = SinglyLimit + x - c
    BY <2>1, <2>3, <2>5, Capacities
  <2>7. \A n \in Nat : n <= SinglyLimit + x - c => Fits(n, SinglyLimit + x + 3)
    BY <2>1, <2>2, SomeIndexBlocks DEF c
  <2>8. ~Fits(SinglyLimit + x - c + 1, SinglyLimit + x + 3)
    BY <2>1, IndexBlocksFull DEF c
  <2>9. SinglyLimit + x - c \in Int
    BY <2>1, <2>3, Capacities
  <2>10. QED
    BY <2>1, <2>6, <2>7, <2>8, <2>9
<1>5. QED
  BY <1>1, <1>2, <1>3, <1>4, Capacities

(***************************************************************************)
(* A file of size bytes with the final zero that copy_in writes behind it  *)
(* has the blocks of the size asked for, because copy_in asks for one byte *)
(* more when the file ends with a sector.                                  *)
(***************************************************************************)
LEMMA RoomForZero ==
    ASSUME NEW asked \in Nat, asked % BLOCK_SECTOR_SIZE # 0
    PROVE  bytes_to_sectors(asked + 1) = bytes_to_sectors(asked)
<1> DEFINE B == BLOCK_SECTOR_SIZE
           q == asked \div B
           r == asked % B
<1>1. B \in Nat \ {0} /\ asked \in Int
  BY Capacities
<1>2. q \in Int /\ r \in 0 .. B - 1 /\ asked = B * q + r /\ r # 0
  BY <1>1, Quotient
<1> HIDE DEF q, r, B
<1>3. B * (q + 1) = B * q + B /\ B * q \in Int /\ q + 1 \in Int
  BY <1>1, <1>2
<1>4. Ceiling(asked, B) = q + 1
  <2>1. asked <= B * (q + 1) /\ B * (q + 1) <= asked + B - 1
    BY <1>1, <1>2, <1>3
  <2>2. QED
    BY <1>1, <1>3, <2>1, CeilingIs
<1>5. Ceiling(asked + 1, B) = q + 1
  <2>1. asked + 1 \in Int /\ asked + 1 <= B * (q + 1) /\ B * (q + 1) <= asked + 1 + B - 1
    BY <1>1, <1>2, <1>3
  <2>2. QED
    BY <1>1, <1>3, <2>1, CeilingIs
<1>6. QED
  BY <1>4, <1>5 DEF Ceiling, bytes_to_sectors, B

LEMMA WholeSectors ==
    ASSUME NEW q \in Int
    PROVE  bytes_to_sectors(BLOCK_SECTOR_SIZE * q - 1 + 1) = q
<1> DEFINE B == BLOCK_SECTOR_SIZE
<1>1. B \in Nat \ {0} /\ B * q \in Int /\ B * q - 1 + 1 = B * q
  BY Capacities
<1>2. Ceiling(B * q, B) = q
  BY <1>1, CeilingIs
<1>3. QED
  BY <1>1, <1>2 DEF Ceiling, bytes_to_sectors

\* The size that copy_in asks copyable_size_of_file for.
Asked(size) == IF size % BLOCK_SECTOR_SIZE = 0 THEN size + 1 ELSE size

LEMMA NotWhole ==
    ASSUME NEW size \in Nat
    PROVE  Asked(size) \in Nat /\ Asked(size) % BLOCK_SECTOR_SIZE # 0
<1> DEFINE B == BLOCK_SECTOR_SIZE
           q == size \div B
           p == (size + 1) \div B
<1>1. B \in Nat /\ B >= 2 /\ B \in Nat \ {0}
  BY Capacities
<1>2. CASE size % B # 0
  BY <1>2 DEF Asked
<1>3. CASE size % B = 0
  <2>1. q \in Int /\ size = B * q
    BY <1>1, <1>3, Quotient
  <2>2. p \in Int /\ (size + 1) % B \in 0 .. B - 1 /\ size + 1 = B * p + ((size + 1) % B)
    BY <1>1, Quotient
  <2>3. p = q
    <3>1. B * q <= size + 1 /\ size + 1 < B * q + B /\ size + 1 \in Int
      BY <1>1, <2>1
    <3>2. QED
      BY <1>1, <2>1, <3>1, QuotientIs
  <2>4. (size + 1) % B = 1
    <3> HIDE DEF p, q
    <3> DEFINE r == (size + 1) % B
               y == B * q
    <3>1. y \in Int /\ size = y /\ size + 1 = y + r /\ r \in Int
      BY <1>1, <2>1, <2>2, <2>3
    <3> HIDE DEF r, y
    <3>2. r = 1
      BY <3>1
    <3>3. QED
      BY <3>2 DEF r
  <2>5. QED
    BY <1>3, <2>4 DEF Asked
<1>4. QED
  BY <1>2, <1>3

(***************************************************************************)
(* copyable_size_of_file, as copy_in calls it: the file that copy_in       *)
(* writes, with its final zero, its inode and its index blocks, fits in    *)
(* the free sectors and in an inode, for every number of free sectors and  *)
(* every size of a sector, an inode and an index block.                    *)
(***************************************************************************)
THEOREM CopyableFits ==
    ASSUME NEW f, NEW size \in Nat,
           copyable_size_of_file(f, Asked(size)) > 0
    PROVE  LET n == bytes_to_sectors(copyable_size_of_file(f, Asked(size)) + 1)
           IN  SectorsFor(n) <= num_free_sectors(f) /\ n <= BlockLimit
<1> DEFINE free == num_free_sectors(f)
           copy == copyable_size_of_file(f, Asked(size))
           n == bytes_to_sectors(copy + 1)
<1>1. free \in Nat
  BY FreeSectors
<1>2. Asked(size) \in Nat /\ bytes_to_sectors(Asked(size) + 1) = bytes_to_sectors(Asked(size))
  BY NotWhole, RoomForZero
<1>3. copy = IF bytes_to_sectors(Asked(size)) <= Capacity(free) THEN Asked(size)
             ELSE BLOCK_SECTOR_SIZE * Capacity(free) - 1
  BY <1>2, CopyableCapacity
<1>4. Capacity(free) \in Int
  BY <1>1, CapacityFits
<1>5. n <= Capacity(free)
  <2>1. CASE bytes_to_sectors(Asked(size)) <= Capacity(free)
    BY <2>1, <1>2, <1>3
  <2>2. CASE ~(bytes_to_sectors(Asked(size)) <= Capacity(free))
    <3>1. n = Capacity(free)
      BY <2>2, <1>3, <1>4, WholeSectors
    <3>2. QED
      BY <3>1, <1>4
  <2>3. QED
    BY <2>1, <2>2
<1>6. n \in Nat
  <2>1. copy \in Int /\ copy > 0
    BY <1>2, <1>3, <1>4, Capacities
  <2> HIDE DEF copy
  <2>2. copy + BLOCK_SECTOR_SIZE \in Int /\ (copy + 1) + BLOCK_SECTOR_SIZE - 1 = copy + BLOCK_SECTOR_SIZE
    BY <2>1, Capacities
  <2>3. n \in Int /\ copy + 1 <= BLOCK_SECTOR_SIZE * n
    BY <2>1, CeilingBounds, Capacities DEF bytes_to_sectors, Ceiling
  <2> HIDE DEF n
  <2>4. ASSUME n <= -1 PROVE FALSE
    <3>1. BLOCK_SECTOR_SIZE * n <= 0
      BY <2>3, <2>4, Capacities
    <3>2. QED
      BY <2>1, <2>3, <3>1, Capacities
  <2>5. QED
    BY <2>3, <2>4
<1>7. Fits(n, free)
  BY <1>1, <1>5, <1>6, CapacityFits
<1>8. QED
  BY <1>7 DEF Fits

(***************************************************************************)
(* When copyable_size_of_file gives less than it was asked for, it gives   *)
(* all there is: a file of one more block would not fit.                   *)
(***************************************************************************)
THEOREM CopyableGreatest ==
    ASSUME NEW f, NEW size \in Nat,
           copyable_size_of_file(f, Asked(size)) # Asked(size)
    PROVE  LET n == bytes_to_sectors(copyable_size_of_file(f, Asked(size)) + 1) + 1
           IN  ~(SectorsFor(n) <= num_free_sectors(f) /\ n <= BlockLimit)
<1> DEFINE free == num_free_sectors(f)
<1>1. free \in Nat /\ Asked(size) \in Nat
  BY FreeSectors, NotWhole
<1>2. Capacity(free) \in Int /\ ~Fits(Capacity(free) + 1, free)
  BY <1>1, CapacityFits
<1>3. copyable_size_of_file(f, Asked(size)) = BLOCK_SECTOR_SIZE * Capacity(free) - 1
  BY <1>1, CopyableCapacity
<1>4. bytes_to_sectors(copyable_size_of_file(f, Asked(size)) + 1) = Capacity(free)
  BY <1>2, <1>3, WholeSectors
<1>5. QED
  BY <1>2, <1>4 DEF Fits

(***************************************************************************)
(* Ownership.  up is an owner map: up[t] = <<h, j>> says that sector t may *)
(* only be pointed to by pointer j of the inode or index block in sector   *)
(* h.  Inodes are the roots.  A map of this kind exists in every state.    *)
(***************************************************************************)
Slots == 0 .. INDIRECT_BLOCKS_PER_SECTOR - 1          \* pointers of an index block
DirectSlots == 0 .. DIRECT_BLOCKS_COUNT - 1           \* and of an inode: the direct ones
IndirectSlot == DIRECT_BLOCKS_COUNT
DoublySlot == DIRECT_BLOCKS_COUNT + 1
RootSlot == -1

Link(up, map, u, h, j) == u = 0 \/ (u \in map \ Meta /\ up[u] = <<h, j>>)

CellOK(c) == /\ c.kind = "index" => c.v \in [Slots -> Sectors]
             /\ c.kind = "inode" => c.v \in DiskInode

StoreOK(store) == /\ store = [s \in Sectors |-> store[s]]
                  /\ \A s \in Sectors : CellOK(store[s])
                  /\ store[0].kind # "index"

MapOK(map) == Meta \subseteq map /\ map \subseteq Bits

\* The pointers of every marked sector but an inode's.
Forest(up, map, store) ==
    \A t \in map : up[t][2] # RootSlot =>
        \A j \in Slots : Link(up, map, AsIndex(store[t])[j], t, j)

Owners == [Sectors -> Sectors \X Int]

Heap(up, map, store) == up \in Owners /\ MapOK(map) /\ StoreOK(store) /\ Forest(up, map, store)

\* map2 and up2 extend map and up.
Extends(up, map, up2, map2) == map \subseteq map2 /\ \A t \in map : up2[t] = up[t]

AllocOK(a) == DOMAIN a = {"map", "store", "d", "ptr", "blocks", "ok"} /\ a.ok \in BOOLEAN

----------------------------------------------------------------------------
LEMMA Geometry ==
    /\ INDIRECT_BLOCKS_PER_SECTOR \in Nat \ {0} /\ DIRECT_BLOCKS_COUNT \in Nat \ {0}
    /\ BLOCK_SECTOR_SIZE \in Nat \ {0} /\ block_size \in Nat /\ block_size > 2
    /\ MetaSectors \in Nat /\ 2 <= MetaSectors /\ MetaSectors < block_size
    /\ Meta \subseteq Bits /\ Bits \subseteq Sectors /\ Bits \subseteq Nat /\ Sectors \subseteq Nat
    /\ 0 \in Meta /\ 0 \in Bits /\ 0 \in Sectors
    /\ Sectors = 0 .. block_size - 1
<1>1. /\ INDIRECT_BLOCKS_PER_SECTOR \in Nat \ {0} /\ DIRECT_BLOCKS_COUNT \in Nat \ {0}
      /\ BLOCK_SECTOR_SIZE \in Nat \ {0} /\ block_size \in Nat
      /\ MetaSectors \in Nat /\ 2 <= MetaSectors /\ MetaSectors < block_size
  BY SizesAssumption
<1>2. QED
  BY <1>1 DEF Meta, Bits, Sectors

LEMMA LeastOf ==
    ASSUME NEW T, T \subseteq Nat, T # {}
    PROVE  \E m \in T : \A k \in T : m <= k
<1> DEFINE R == {x \in Nat \X Nat : x[1] < x[2]}
<1>1. R = OpToRel(<, Nat)
  BY DEF OpToRel
<1>2. IsWellFoundedOn(R, Nat)
  BY <1>1, NatLessThanWellFounded
<1>3. PICK m \in T : \A k \in T : ~ (<<k, m>> \in R)
  <2> HIDE DEF R
  <2> QED
    BY <1>2, WFMin
<1>4. ASSUME NEW k \in T PROVE m <= k
  <2>1. ~ (<<k, m>> \in R) /\ <<k, m>> \in Nat \X Nat
    BY <1>3
  <2>2. ~ (k < m)
    BY <2>1
  <2>3. QED
    BY <2>2
<1>5. QED
  BY <1>4

\* Induction up to N, over the least element that is missing.
LEMMA UpToN ==
    ASSUME NEW N \in Nat, NEW S, 0 \in S, \A n \in 1 .. N : n - 1 \in S => n \in S
    PROVE  0 .. N \subseteq S
<1> DEFINE T == (0 .. N) \ S
<1>1. SUFFICES ASSUME T # {} PROVE FALSE
  OBVIOUS
<1>2. T \subseteq Nat
  OBVIOUS
<1>3. PICK m \in T : \A k \in T : m <= k
  <2> HIDE DEF T
  <2> QED
    BY <1>1, <1>2, LeastOf
<1>4. m # 0 /\ m \in 1 .. N /\ m - 1 \in 0 .. N /\ m - 1 < m
  OBVIOUS
<1>5. m - 1 \in S
  BY <1>3, <1>4
<1>6. QED
  BY <1>4, <1>5

LEMMA LeastIn ==
    ASSUME NEW T, T \subseteq Nat, T # {}
    PROVE  Min(T) \in T /\ \A k \in T : Min(T) <= k
  BY LeastOf DEF Min

LEMMA IndexOfZeros == \A j \in Slots : AsIndex(Zeros)[j] = 0
  BY DEF AsIndex, Zeros, Bytes, Slots

LEMMA ZerosOK == CellOK(Zeros) /\ Zeros.kind # "index"
  BY DEF CellOK, Zeros, Bytes

LEMMA IndexPointers ==
    ASSUME NEW c, CellOK(c)
    PROVE  AsIndex(c) \in [Slots -> Sectors]
  BY Geometry DEF CellOK, AsIndex, Slots

\* A sector that was free becomes a block of zeros.
LEMMA NewBlock ==
    ASSUME NEW up, NEW map, NEW store, Heap(up, map, store), NEW s \in Bits \ map,
           NEW h \in Sectors, NEW j \in Int
    PROVE  LET up2 == [up EXCEPT ![s] = <<h, j>>]
           IN  /\ Heap(up2, map \cup {s}, [store EXCEPT ![s] = Zeros])
               /\ Extends(up, map, up2, map \cup {s})
               /\ Link(up2, map \cup {s}, s, h, j) /\ s # 0 /\ s \in Sectors
<1> DEFINE up2 == [up EXCEPT ![s] = <<h, j>>]
           store2 == [store EXCEPT ![s] = Zeros]
           map2 == map \cup {s}
<1>1. s \in Sectors /\ s # 0 /\ s \notin Meta /\ s \in Bits
  BY Geometry DEF Heap, MapOK
<1>2. up2 \in Owners /\ up2[s] = <<h, j>> /\ \A t \in map : up2[t] = up[t]
  BY <1>1, Geometry DEF Heap, Owners, MapOK
<1>3. MapOK(map2)
  BY <1>1 DEF Heap, MapOK
<1>4. /\ store2 = [t \in Sectors |-> store2[t]] /\ store2[s] = Zeros
      /\ \A t \in Sectors : t # s => store2[t] = store[t]
  BY <1>1 DEF Heap, StoreOK
<1>5. StoreOK(store2)
  BY <1>1, <1>4, ZerosOK, Geometry DEF Heap, StoreOK
<1>6. ASSUME NEW t \in map2, up2[t][2] # RootSlot, NEW i \in Slots
      PROVE  Link(up2, map2, AsIndex(store2[t])[i], t, i)
  <2>1. CASE t = s
    BY <2>1, <1>4, IndexOfZeros DEF Link
  <2>2. CASE t # s
    <3>1. t \in map /\ t \in Sectors /\ store2[t] = store[t]
      BY <2>2, <1>4, Geometry DEF Heap, MapOK
    <3>2. Link(up, map, AsIndex(store[t])[i], t, i)
      BY <3>1, <1>2, <1>6 DEF Heap, Forest
    <3>3. QED
      BY <3>1, <3>2, <1>2 DEF Link
  <2>3. QED
    BY <2>1, <2>2
<1>7. QED
  BY <1>1, <1>2, <1>3, <1>5, <1>6 DEF Heap, Forest, Extends, Link

----------------------------------------------------------------------------
(* One block (free_map_allocate, inode_reserve_indirect at level 0).       *)
LEMMA Allocates ==
    ASSUME NEW a, AllocOK(a), MapOK(a.map), a.ok = TRUE
    PROVE  LET c == free_map_allocate(a)
           IN  /\ AllocOK(c) /\ c.store = a.store /\ c.d = a.d /\ c.blocks = a.blocks
               /\ \/ Bits \subseteq a.map /\ c.ok = FALSE /\ c.map = a.map /\ c.ptr = a.ptr
                  \/ \E s \in Bits \ a.map : c.ok = TRUE /\ c.map = a.map \cup {s} /\ c.ptr = s
<1>1. CASE Bits \subseteq a.map
  BY <1>1 DEF free_map_allocate, AllocOK
<1>2. CASE ~(Bits \subseteq a.map)
  <2> DEFINE T == Bits \ a.map
             s == Min(T)
  <2>1. T # {} /\ T \subseteq Nat
    BY <1>2, Geometry
  <2>2. s \in T
    <3> HIDE DEF T
    <3> QED
      BY <2>1, LeastIn
  <2>3. free_map_allocate(a) = [a EXCEPT !.map = @ \cup {s}, !.ptr = s]
    BY <1>2 DEF free_map_allocate
  <2> HIDE DEF s
  <2>4. QED
    BY <2>2, <2>3 DEF AllocOK
<1>3. QED
  BY <1>1, <1>2

\* What reserve_block, and one step of a loop with it, may do.
LEMMA ReservesBlock ==
    ASSUME NEW a, AllocOK(a), MapOK(a.map), a.ok = TRUE, NEW p,
           a.store = [s \in Sectors |-> a.store[s]]
    PROVE  LET c == reserve_block(a, p)
           IN  /\ AllocOK(c) /\ c.d = a.d /\ c.blocks = a.blocks
               /\ \/ p # 0 /\ c.ptr = p /\ c.map = a.map /\ c.store = a.store /\ c.ok = TRUE
                  \/ /\ p = 0 /\ c.ptr = 0 /\ c.map = a.map /\ c.store = a.store /\ c.ok = FALSE
                     /\ Bits \subseteq a.map
                  \/ /\ p = 0 /\ c.ok = TRUE
                     /\ \E s \in Bits \ a.map :
                          /\ c.ptr = s /\ c.map = a.map \cup {s}
                          /\ c.store = [a.store EXCEPT ![s] = Zeros]
<1> DEFINE b == [a EXCEPT !.ptr = 0]
           e == free_map_allocate(b)
<1>1. CASE p # 0
  BY <1>1 DEF reserve_block, AllocOK
<1>2. CASE p = 0
  <2>1. /\ AllocOK(b) /\ b.map = a.map /\ b.store = a.store /\ b.d = a.d /\ b.blocks = a.blocks
        /\ b.ok = TRUE /\ b.ptr = 0
    BY DEF AllocOK
  <2> HIDE DEF b
  <2>2. /\ AllocOK(e) /\ e.store = b.store /\ e.d = b.d /\ e.blocks = b.blocks
        /\ \/ Bits \subseteq b.map /\ e.ok = FALSE /\ e.map = b.map /\ e.ptr = b.ptr
           \/ \E s \in Bits \ b.map : e.ok = TRUE /\ e.map = b.map \cup {s} /\ e.ptr = s
    BY <2>1, Allocates
  <2>3. reserve_block(a, p) = Zeroed(e)
    BY <1>2 DEF reserve_block, b
  <2> HIDE DEF e
  <2>4. CASE e.ok = FALSE
    <3>1. reserve_block(a, p) = e
      BY <2>3, <2>4 DEF Zeroed
    <3>2. QED
      BY <3>1, <2>1, <2>2, <2>4, <1>2
  <2>5. CASE e.ok = TRUE
    <3>1. PICK s \in Bits \ b.map : e.map = b.map \cup {s} /\ e.ptr = s
      BY <2>2, <2>5
    <3>2. reserve_block(a, p) = [e EXCEPT !.store[s] = Zeros]
      BY <2>3, <2>5, <3>1 DEF Zeroed, WriteZeros
    <3>3. [e EXCEPT !.store[s] = Zeros].store = [e.store EXCEPT ![s] = Zeros]
      BY <2>2 DEF AllocOK
    <3>4. /\ AllocOK([e EXCEPT !.store[s] = Zeros])
          /\ [e EXCEPT !.store[s] = Zeros].d = e.d
          /\ [e EXCEPT !.store[s] = Zeros].blocks = e.blocks
          /\ [e EXCEPT !.store[s] = Zeros].ok = e.ok
          /\ [e EXCEPT !.store[s] = Zeros].map = e.map
          /\ [e EXCEPT !.store[s] = Zeros].ptr = e.ptr
      BY <2>2 DEF AllocOK
    <3> DEFINE c == [e EXCEPT !.store[s] = Zeros]
    <3>5. /\ AllocOK(c) /\ c.d = a.d /\ c.blocks = a.blocks /\ c.ok = TRUE
          /\ c.ptr = s /\ c.map = a.map \cup {s} /\ c.store = [a.store EXCEPT ![s] = Zeros]
      BY <3>1, <3>3, <3>4, <2>1, <2>2, <2>5
    <3>6. s \in Bits \ a.map /\ reserve_block(a, p) = c
      BY <3>2, <2>1
    <3> HIDE DEF c
    <3>7. QED
      BY <3>5, <3>6, <1>2
  <2>6. QED
    BY <2>2, <2>4, <2>5
<1>3. QED
  BY <1>1, <1>2

----------------------------------------------------------------------------
(* The loop over the pointers at work, K, of the inode or index block in   *)
(* sector h, after i steps that made b from a.                             *)

\* The pointers that were there are kept, and those that are set are new.
PointersKept(K, old, a, b) ==
    \A j \in K : b.blocks[j] = old[j] \/ (old[j] = 0 /\ b.blocks[j] \in b.map \ a.map)

Linked(up, K, b, h) == \A j \in K : Link(up, b.map, b.blocks[j], h, j)

BlocksDone(b, i) == b.ok => \A j \in 0 .. i - 1 : b.blocks[j] # 0

\* Every sector that was taken is pointed to.
AllUsed(a, b, i) == b.ok => \A t \in b.map \ a.map : \E j \in 0 .. i - 1 : b.blocks[j] = t

\* What was marked before is as it was, and the new blocks are zeros.
OnlyNew(a, b) == /\ \A t \in a.map : b.store[t] = a.store[t]
                 /\ \A t \in b.map \ a.map : b.store[t] = Zeros

Filled(up, a, old, h, K, i, up2, b) ==
    /\ AllocOK(b) /\ b.d = a.d
    /\ Heap(up2, b.map, b.store) /\ Extends(up, a.map, up2, b.map)
    /\ b.blocks \in [K -> Sectors]
    /\ PointersKept(K, old, a, b) /\ Linked(up2, K, b, h)
    /\ BlocksDone(b, i) /\ AllUsed(a, b, i) /\ OnlyNew(a, b)

LEMMA FilledStep ==
    ASSUME NEW up, NEW a, NEW old, NEW h \in Sectors, NEW K, K \subseteq Int,
           NEW i \in Nat \ {0}, i - 1 \in K,
           NEW up1, NEW b, Filled(up, a, old, h, K, i - 1, up1, b)
    PROVE  \E up2 : Filled(up, a, old, h, K, i, up2, ReserveBlock(b, i))
<1> DEFINE r == reserve_block(b, b.blocks[i - 1])
           c == ReserveBlock(b, i)
           p == b.blocks[i - 1]
<1>1. /\ AllocOK(b) /\ b.d = a.d
      /\ Heap(up1, b.map, b.store) /\ Extends(up, a.map, up1, b.map)
      /\ b.blocks \in [K -> Sectors]
      /\ PointersKept(K, old, a, b) /\ Linked(up1, K, b, h)
      /\ BlocksDone(b, i - 1) /\ AllUsed(a, b, i - 1) /\ OnlyNew(a, b)
  BY DEF Filled
<1>2. CASE b.ok = FALSE
  <2>1. c = b
    BY <1>2 DEF ReserveBlock
  <2>2. BlocksDone(b, i) /\ AllUsed(a, b, i)
    BY <1>2 DEF BlocksDone, AllUsed
  <2>3. QED
    BY <1>1, <2>1, <2>2 DEF Filled
<1>3. CASE b.ok = TRUE
  <2>1. /\ AllocOK(r) /\ r.d = b.d /\ r.blocks = b.blocks
        /\ \/ p # 0 /\ r.ptr = p /\ r.map = b.map /\ r.store = b.store /\ r.ok = TRUE
           \/ /\ p = 0 /\ r.ptr = 0 /\ r.map = b.map /\ r.store = b.store /\ r.ok = FALSE
              /\ Bits \subseteq b.map
           \/ /\ p = 0 /\ r.ok = TRUE
              /\ \E s \in Bits \ b.map :
                   /\ r.ptr = s /\ r.map = b.map \cup {s}
                   /\ r.store = [b.store EXCEPT ![s] = Zeros]
    <3>1. MapOK(b.map) /\ b.store = [s \in Sectors |-> b.store[s]]
      BY <1>1 DEF Heap, StoreOK
    <3>2. QED
      BY <1>1, <1>3, <3>1, ReservesBlock
  <2>2. c = [r EXCEPT !.blocks = [b.blocks EXCEPT ![i - 1] = r.ptr]]
    BY <1>3 DEF ReserveBlock, Placed
  <2> HIDE DEF r
  <2>3. /\ AllocOK(c) /\ c.d = r.d /\ c.map = r.map /\ c.store = r.store /\ c.ok = r.ok
        /\ c.blocks = [b.blocks EXCEPT ![i - 1] = r.ptr]
    BY <2>1, <2>2 DEF AllocOK
  <2> HIDE DEF c
  <2>4. ASSUME r.ptr = p, r.map = b.map, r.store = b.store, p # 0 \/ r.ok = FALSE
        PROVE  Filled(up, a, old, h, K, i, up1, c)
    <3>1. c.blocks = b.blocks /\ c.map = b.map /\ c.store = b.store /\ c.d = a.d
      BY <1>1, <2>1, <2>3, <2>4
    <3>2. PointersKept(K, old, a, c) /\ Linked(up1, K, c, h) /\ OnlyNew(a, c)
      BY <1>1, <3>1 DEF PointersKept, Linked, OnlyNew
    <3>3. BlocksDone(c, i)
      BY <1>1, <1>3, <2>3, <2>4, <3>1 DEF BlocksDone
    <3>4. AllUsed(a, c, i)
      BY <1>1, <1>3, <2>3, <2>4, <3>1 DEF AllUsed
    <3>5. QED
      BY <1>1, <2>3, <3>1, <3>2, <3>3, <3>4 DEF Filled
  <2>5. ASSUME p = 0, r.ok = TRUE, NEW s \in Bits \ b.map, r.ptr = s,
               r.map = b.map \cup {s}, r.store = [b.store EXCEPT ![s] = Zeros]
        PROVE  \E up2 : Filled(up, a, old, h, K, i, up2, c)
    <3> DEFINE up2 == [up1 EXCEPT ![s] = <<h, i - 1>>]
    <3>1. /\ Heap(up2, c.map, c.store) /\ Extends(up1, b.map, up2, c.map)
          /\ Link(up2, c.map, s, h, i - 1) /\ s # 0 /\ s \in Sectors
      BY <1>1, <2>3, <2>5, NewBlock
    <3> HIDE DEF up2
    <3>2. Extends(up, a.map, up2, c.map) /\ a.map \subseteq b.map /\ s \notin a.map
      BY <1>1, <3>1, <2>5 DEF Extends
    <3>3. /\ c.blocks \in [K -> Sectors] /\ c.blocks[i - 1] = s
          /\ \A j \in K : j # i - 1 => c.blocks[j] = b.blocks[j]
      BY <1>1, <2>3, <2>5, <3>1
    <3>4. PointersKept(K, old, a, c)
      <4>1. ASSUME NEW j \in K
            PROVE  c.blocks[j] = old[j] \/ (old[j] = 0 /\ c.blocks[j] \in c.map \ a.map)
        <5>1. CASE j = i - 1
          <6>1. b.blocks[j] = old[j] \/ (old[j] = 0 /\ b.blocks[j] \in b.map \ a.map)
            BY <1>1 DEF PointersKept
          <6>2. 0 \in a.map \/ 0 \notin b.map \/ old[j] = 0
            BY <1>1, <5>1, <6>1, <2>5
          <6>3. b.blocks[j] = 0 /\ old[j] = 0
            BY <5>1, <6>1, <2>5
          <6>4. QED
            BY <5>1, <6>3, <3>2, <3>3, <2>3, <2>5
        <5>2. CASE j # i - 1
          BY <5>2, <1>1, <3>3, <2>3, <2>5 DEF PointersKept
        <5>3. QED
          BY <5>1, <5>2
      <4>2. QED
        BY <4>1 DEF PointersKept
    <3>5. Linked(up2, K, c, h)
      <4>1. ASSUME NEW j \in K PROVE Link(up2, c.map, c.blocks[j], h, j)
        <5>1. CASE j = i - 1
          BY <5>1, <3>1, <3>3
        <5>2. CASE j # i - 1
          <6>1. Link(up1, b.map, b.blocks[j], h, j)
            BY <1>1 DEF Linked
          <6>2. QED
            BY <5>2, <6>1, <3>1, <3>3 DEF Link, Extends
        <5>3. QED
          BY <5>1, <5>2
      <4>2. QED
        BY <4>1 DEF Linked
    <3>6. BlocksDone(c, i)
      <4>1. \A j \in 0 .. i - 2 : b.blocks[j] # 0
        BY <1>1, <1>3 DEF BlocksDone
      <4>2. ASSUME NEW j \in 0 .. i - 1 PROVE c.blocks[j] # 0
        <5>1. CASE j = i - 1
          BY <5>1, <3>1, <3>3
        <5>2. CASE j # i - 1
          <6>1. j \in 0 .. i - 2
            BY <5>2
          <6>2. b.blocks[j] # 0 /\ c.blocks[j] = [b.blocks EXCEPT ![i - 1] = r.ptr][j]
            BY <4>1, <6>1, <2>3
          <6>3. CASE j \in K
            BY <6>2, <6>3, <5>2, <3>3
          <6>4. CASE j \notin K
            BY <6>2, <6>4, <5>2, <1>1, <2>3
          <6>5. QED
            BY <6>3, <6>4
        <5>3. QED
          BY <5>1, <5>2
      <4>3. QED
        BY <4>2 DEF BlocksDone
    <3>7. AllUsed(a, c, i)
      <4>1. ASSUME NEW t \in c.map \ a.map PROVE \E j \in 0 .. i - 1 : c.blocks[j] = t
        <5>1. CASE t = s
          <6>1. i - 1 \in 0 .. i - 1
            OBVIOUS
          <6>2. QED
            BY <5>1, <6>1, <3>3
        <5>2. CASE t # s
          <6>1. t \in b.map \ a.map
            BY <5>2, <2>3, <2>5
          <6>2. PICK j \in 0 .. i - 2 : b.blocks[j] = t
            BY <6>1, <1>1, <1>3 DEF AllUsed
          <6>3. j \in 0 .. i - 1 /\ j # i - 1
            OBVIOUS
          <6>4. c.blocks[j] = t
            BY <6>2, <6>3, <3>3, <1>1, <2>3
          <6>5. QED
            BY <6>3, <6>4
        <5>3. QED
          BY <5>1, <5>2
      <4>2. QED
        BY <4>1 DEF AllUsed
    <3>8. OnlyNew(a, c)
      <4>1. c.store[s] = Zeros /\ \A t \in c.map : t # s => c.store[t] = b.store[t]
        BY <1>1, <2>3, <2>5, <3>1, Geometry DEF Heap, StoreOK, MapOK
      <4>2. QED
        BY <4>1, <1>1, <3>2, <2>3, <2>5 DEF OnlyNew
    <3>9. c.d = a.d
      BY <1>1, <2>1, <2>3
    <3>10. QED
      BY <2>3, <3>1, <3>2, <3>3, <3>4, <3>5, <3>6, <3>7, <3>8, <3>9 DEF Filled
  <2>6. CASE p = 0 /\ r.ok = TRUE
    <3>1. PICK s \in Bits \ b.map :
             r.ptr = s /\ r.map = b.map \cup {s} /\ r.store = [b.store EXCEPT ![s] = Zeros]
      BY <2>1, <2>6
    <3>2. QED
      BY <2>5, <2>6, <3>1 DEF c
  <2>7. CASE ~ (p = 0 /\ r.ok = TRUE)
    <3>1. r.ptr = p /\ r.map = b.map /\ r.store = b.store /\ (p # 0 \/ r.ok = FALSE)
      BY <2>1, <2>7
    <3>2. QED
      BY <2>4, <3>1 DEF c
  <2>8. QED
    BY <2>6, <2>7
<1>4. QED
  BY <1>1, <1>2, <1>3 DEF AllocOK

\* The values of the loop in ReserveBlocks.
LEMMA BlockTurns ==
    ASSUME NEW a, NEW old, NEW l \in Nat
    PROVE  \E f : /\ f[0] = [a EXCEPT !.blocks = old]
                  /\ \A i \in 1 .. l : f[i] = ReserveBlock(f[i - 1], i)
                  /\ ReserveBlocks(a, old, l) = f[l]
<1> DEFINE first == [a EXCEPT !.blocks = old]
           Rest(f) == [i \in 0 .. l |-> IF i = 0 THEN first ELSE ReserveBlock(f[i - 1], i)]
           after == CHOOSE f : f = Rest(f)
           S == {n \in 0 .. l : \E f : /\ DOMAIN f = 0 .. n /\ f[0] = first
                                       /\ \A i \in 1 .. n : f[i] = ReserveBlock(f[i - 1], i)}
<1> HIDE DEF first
<1>2. 0 \in S
  <2> DEFINE f == [i \in 0 .. 0 |-> first]
  <2>1. DOMAIN f = 0 .. 0 /\ f[0] = first /\ \A i \in 1 .. 0 : FALSE
    OBVIOUS
  <2> HIDE DEF f
  <2>2. QED
    BY <2>1
<1>3. ASSUME NEW n \in 1 .. l, n - 1 \in S PROVE n \in S
  <2>1. PICK f : /\ DOMAIN f = 0 .. n - 1 /\ f[0] = first
                 /\ \A i \in 1 .. n - 1 : f[i] = ReserveBlock(f[i - 1], i)
    BY <1>3
  <2> DEFINE g == [i \in 0 .. n |-> IF i = n THEN ReserveBlock(f[n - 1], n) ELSE f[i]]
  <2>2. DOMAIN g = 0 .. n /\ g[0] = first
    BY <2>1
  <2>3. ASSUME NEW i \in 1 .. n PROVE g[i] = ReserveBlock(g[i - 1], i)
    <3>1. i - 1 \in 0 .. n /\ i - 1 # n /\ i \in 0 .. n
      OBVIOUS
    <3>2. g[i - 1] = f[i - 1]
      BY <3>1
    <3>3. CASE i = n
      BY <3>1, <3>2, <3>3
    <3>4. CASE i # n
      <4>1. i \in 1 .. n - 1 /\ g[i] = f[i]
        BY <3>1, <3>4
      <4>2. QED
        BY <4>1, <3>2, <2>1
    <3>5. QED
      BY <3>3, <3>4
  <2> HIDE DEF g
  <2>4. n \in 0 .. l
    OBVIOUS
  <2>5. QED
    BY <2>2, <2>3, <2>4
<1>4. l \in S
  <2> HIDE DEF S
  <2>1. 0 .. l \subseteq S
    BY <1>2, <1>3, UpToN
  <2>2. QED
    BY <2>1
<1>5. PICK f : /\ DOMAIN f = 0 .. l /\ f[0] = first
               /\ \A i \in 1 .. l : f[i] = ReserveBlock(f[i - 1], i)
  BY <1>4
<1>6. \E g : g = Rest(g)
  <2> DEFINE g == [i \in 0 .. l |-> f[i]]
  <2>1. \A i \in 0 .. l : i # 0 => i \in 1 .. l /\ i - 1 \in 0 .. l
    OBVIOUS
  <2>2. g = Rest(g)
    BY <1>5, <2>1
  <2> HIDE DEF g
  <2>3. QED
    BY <2>2
<1>7. after = Rest(after)
  BY <1>6
<1> HIDE DEF after
<1>8. after[0] = first /\ \A i \in 1 .. l : after[i] = ReserveBlock(after[i - 1], i)
  BY <1>7
<1>9. ReserveBlocks(a, old, l) = after[l]
  BY DEF ReserveBlocks, after, first
<1>10. QED
  BY <1>8, <1>9 DEF first

LEMMA ReservesBlocks ==
    ASSUME NEW up, NEW a, AllocOK(a), Heap(up, a.map, a.store), NEW h \in Sectors,
           NEW K, K \subseteq Int, NEW l \in Nat, 0 .. l - 1 \subseteq K,
           NEW old \in [K -> Sectors], \A j \in K : Link(up, a.map, old[j], h, j)
    PROVE  \E up2 : Filled(up, a, old, h, K, l, up2, ReserveBlocks(a, old, l))
<1>1. PICK f : /\ f[0] = [a EXCEPT !.blocks = old]
               /\ \A i \in 1 .. l : f[i] = ReserveBlock(f[i - 1], i)
               /\ ReserveBlocks(a, old, l) = f[l]
  BY BlockTurns
<1> DEFINE S == {i \in 0 .. l : \E up2 : Filled(up, a, old, h, K, i, up2, f[i])}
<1>2. 0 \in S
  <2> DEFINE b == [a EXCEPT !.blocks = old]
  <2>1. /\ AllocOK(b) /\ b.map = a.map /\ b.store = a.store /\ b.d = a.d /\ b.blocks = old
    BY DEF AllocOK
  <2> HIDE DEF b
  <2>2. Extends(up, a.map, up, b.map) /\ PointersKept(K, old, a, b) /\ OnlyNew(a, b)
    BY <2>1 DEF Extends, PointersKept, OnlyNew
  <2>3. Linked(up, K, b, h) /\ BlocksDone(b, 0) /\ AllUsed(a, b, 0)
    BY <2>1 DEF Linked, BlocksDone, AllUsed
  <2>4. Filled(up, a, old, h, K, 0, up, b)
    BY <2>1, <2>2, <2>3 DEF Filled
  <2>5. f[0] = b /\ 0 \in 0 .. l
    BY <1>1 DEF b
  <2>6. QED
    BY <2>4, <2>5
<1>3. ASSUME NEW i \in 1 .. l, i - 1 \in S PROVE i \in S
  <2>1. PICK up1 : Filled(up, a, old, h, K, i - 1, up1, f[i - 1])
    BY <1>3
  <2>2. i \in Nat \ {0} /\ i - 1 \in K /\ i \in 0 .. l
    <3>1. i - 1 \in 0 .. l - 1
      OBVIOUS
    <3>2. QED
      BY <3>1
  <2>3. \E up2 : Filled(up, a, old, h, K, i, up2, ReserveBlock(f[i - 1], i))
    BY <2>1, <2>2, FilledStep
  <2>4. QED
    BY <2>2, <2>3, <1>1
<1>4. l \in S
  <2> HIDE DEF S
  <2>1. 0 .. l \subseteq S
    BY <1>2, <1>3, UpToN
  <2>2. QED
    BY <2>1
<1>5. QED
  BY <1>1, <1>4

----------------------------------------------------------------------------
(* An index block (inode_reserve_indirect).                                *)
LEMMA ReservesIndex ==
    ASSUME NEW a, AllocOK(a), MapOK(a.map), a.ok = TRUE, NEW p,
           a.store = [s \in Sectors |-> a.store[s]]
    PROVE  LET c == reserve_index(a, p)
           IN  /\ AllocOK(c) /\ c.d = a.d /\ c.ok = TRUE
               /\ \/ p # 0 /\ c.ptr = p /\ c.map = a.map /\ c.store = a.store
                  \/ /\ p = 0 /\ c.ptr = 0 /\ c.map = a.map /\ Bits \subseteq a.map
                     /\ c.store = [a.store EXCEPT ![0] = Zeros]
                  \/ /\ p = 0
                     /\ \E s \in Bits \ a.map :
                          /\ c.ptr = s /\ c.map = a.map \cup {s}
                          /\ c.store = [a.store EXCEPT ![s] = Zeros]
<1> DEFINE b == [a EXCEPT !.ptr = 0]
           e == free_map_allocate(b)
<1>1. CASE p # 0
  BY <1>1 DEF reserve_index, AllocOK
<1>2. CASE p = 0
  <2>1. /\ AllocOK(b) /\ b.map = a.map /\ b.store = a.store /\ b.d = a.d
        /\ b.ok = TRUE /\ b.ptr = 0
    BY DEF AllocOK
  <2> HIDE DEF b
  <2>2. /\ AllocOK(e) /\ e.store = b.store /\ e.d = b.d
        /\ \/ Bits \subseteq b.map /\ e.ok = FALSE /\ e.map = b.map /\ e.ptr = b.ptr
           \/ \E s \in Bits \ b.map : e.ok = TRUE /\ e.map = b.map \cup {s} /\ e.ptr = s
    BY <2>1, Allocates
  <2>3. reserve_index(a, p) = [WriteZeros(e) EXCEPT !.ok = TRUE]
    BY <1>2 DEF reserve_index, b
  <2> HIDE DEF e
  <2> DEFINE c == [WriteZeros(e) EXCEPT !.ok = TRUE]
  <2>4. /\ AllocOK(c) /\ c.d = e.d /\ c.ok = TRUE /\ c.map = e.map /\ c.ptr = e.ptr
        /\ c.store = [e.store EXCEPT ![e.ptr] = Zeros]
    BY <2>2 DEF AllocOK, WriteZeros
  <2> HIDE DEF c
  <2>5. reserve_index(a, p) = c
    BY <2>3 DEF c
  <2>6. CASE Bits \subseteq b.map /\ e.map = b.map /\ e.ptr = b.ptr
    <3>1. c.ptr = 0 /\ c.map = a.map /\ c.store = [a.store EXCEPT ![0] = Zeros] /\ Bits \subseteq a.map
      BY <2>1, <2>2, <2>4, <2>6
    <3>2. QED
      BY <3>1, <2>1, <2>2, <2>4, <2>5, <1>2
  <2>7. CASE \E s \in Bits \ b.map : e.map = b.map \cup {s} /\ e.ptr = s
    <3>1. PICK s \in Bits \ a.map : e.map = a.map \cup {s} /\ e.ptr = s
      BY <2>1, <2>7
    <3>2. c.ptr = s /\ c.map = a.map \cup {s} /\ c.store = [a.store EXCEPT ![s] = Zeros]
      BY <3>1, <2>1, <2>2, <2>4
    <3>3. QED
      BY <3>2, <2>1, <2>2, <2>4, <2>5, <1>2
  <2>8. QED
    BY <2>2, <2>6, <2>7
<1>3. QED
  BY <1>1, <1>2

\* The zeros of a failed allocation go to sector 0.
LEMMA ZeroedZero ==
    ASSUME NEW up, NEW map, NEW store, Heap(up, map, store)
    PROVE  Heap(up, map, [store EXCEPT ![0] = Zeros])
<1> DEFINE store2 == [store EXCEPT ![0] = Zeros]
<1>1. /\ store2 = [t \in Sectors |-> store2[t]] /\ store2[0] = Zeros
      /\ \A t \in Sectors : t # 0 => store2[t] = store[t]
  BY Geometry DEF Heap, StoreOK
<1>2. StoreOK(store2)
  BY <1>1, ZerosOK DEF Heap, StoreOK
<1>3. ASSUME NEW t \in map, up[t][2] # RootSlot, NEW i \in Slots
      PROVE  Link(up, map, AsIndex(store2[t])[i], t, i)
  <2>1. CASE t = 0
    BY <2>1, <1>1, IndexOfZeros DEF Link
  <2>2. CASE t # 0
    BY <2>2, <1>1, <1>3, Geometry DEF Heap, Forest, MapOK
  <2>3. QED
    BY <2>1, <2>2
<1>4. QED
  BY <1>2, <1>3 DEF Heap, Forest

\* An index block is written with pointers that are its own.
LEMMA IndexWritten ==
    ASSUME NEW up, NEW map, NEW store, Heap(up, map, store), NEW q \in map, q # 0,
           NEW blocks \in [Slots -> Sectors], \A j \in Slots : Link(up, map, blocks[j], q, j)
    PROVE  Heap(up, map, [store EXCEPT ![q] = Index(blocks)])
<1> DEFINE store2 == [store EXCEPT ![q] = Index(blocks)]
<1>1. q \in Sectors
  BY Geometry DEF Heap, MapOK
<1>2. /\ store2 = [t \in Sectors |-> store2[t]] /\ store2[q] = Index(blocks)
      /\ \A t \in Sectors : t # q => store2[t] = store[t]
  BY <1>1 DEF Heap, StoreOK
<1>3. CellOK(Index(blocks)) /\ AsIndex(Index(blocks)) = blocks
  BY DEF CellOK, Index, AsIndex
<1>4. StoreOK(store2)
  BY <1>2, <1>3, Geometry DEF Heap, StoreOK
<1>5. ASSUME NEW t \in map, up[t][2] # RootSlot, NEW i \in Slots
      PROVE  Link(up, map, AsIndex(store2[t])[i], t, i)
  <2>1. CASE t = q
    BY <2>1, <1>2, <1>3
  <2>2. CASE t # q
    BY <2>2, <1>2, <1>5, Geometry DEF Heap, Forest, MapOK
  <2>3. QED
    BY <2>1, <2>2
<1>6. QED
  BY <1>4, <1>5 DEF Heap, Forest

\* Pointers that were set in an index block are kept.
Grows(c1, c2) == \A j \in Slots : AsIndex(c1)[j] # 0 => AsIndex(c2)[j] = AsIndex(c1)[j]

\* What a reservation of n blocks by the index block of pointer p makes of a,
\* where the pointer is number k of sector h.
IndexPtr(up, a, p, h, k, c) ==
    Link(up, c.map, c.ptr, h, k) /\ (c.ptr = p \/ (p = 0 /\ c.ptr \in c.map \ a.map))

OneIndex(a, p, c) == /\ \A t \in a.map \ {0, p} : c.store[t] = a.store[t]
                     /\ p # 0 => Grows(a.store[p], c.store[p])
                     /\ \A t \in c.map \ a.map : t = c.ptr \/ c.store[t] = Zeros

IndexDone(a, c, n) == c.ok =>
    /\ c.ptr # 0 /\ \A j \in 0 .. n - 1 : AsIndex(c.store[c.ptr])[j] # 0
    /\ \A t \in c.map \ a.map : t = c.ptr \/ \E j \in 0 .. n - 1 : AsIndex(c.store[c.ptr])[j] = t

Indexed(up, a, p, h, k, n, up2, c) ==
    /\ AllocOK(c) /\ c.d = a.d
    /\ Heap(up2, c.map, c.store) /\ Extends(up, a.map, up2, c.map)
    /\ IndexPtr(up2, a, p, h, k, c) /\ OneIndex(a, p, c) /\ IndexDone(a, c, n)

\* The index block itself: what is known before its pointers are reserved.
Opened(up, a, p, h, k, up1, b) ==
    /\ AllocOK(b) /\ b.d = a.d /\ b.ok = TRUE /\ b.ptr \in Sectors
    /\ Heap(up1, b.map, b.store) /\ Extends(up, a.map, up1, b.map)
    /\ IndexPtr(up1, a, p, h, k, b)
    /\ \A t \in a.map \ {0} : b.store[t] = a.store[t]
    /\ b.map = a.map \cup ({b.ptr} \ {0})
    /\ \A t \in b.map \ a.map : b.store[t] = Zeros
    /\ AsIndex(b.store[b.ptr]) \in [Slots -> Sectors]
    /\ \A j \in Slots : Link(up1, b.map, AsIndex(b.store[b.ptr])[j], b.ptr, j)
    /\ b.ptr = 0 => Bits \subseteq b.map /\ \A j \in Slots : AsIndex(b.store[b.ptr])[j] = 0

LEMMA OpensIndex ==
    ASSUME NEW up, NEW a, AllocOK(a), Heap(up, a.map, a.store), a.ok = TRUE,
           NEW h \in Sectors, NEW k \in Nat, NEW p, Link(up, a.map, p, h, k)
    PROVE  \E up1 : Opened(up, a, p, h, k, up1, reserve_index(a, p))
<1> DEFINE b == reserve_index(a, p)
<1>1. /\ AllocOK(b) /\ b.d = a.d /\ b.ok = TRUE
      /\ \/ p # 0 /\ b.ptr = p /\ b.map = a.map /\ b.store = a.store
         \/ /\ p = 0 /\ b.ptr = 0 /\ b.map = a.map /\ Bits \subseteq a.map
            /\ b.store = [a.store EXCEPT ![0] = Zeros]
         \/ /\ p = 0
            /\ \E s \in Bits \ a.map :
                 /\ b.ptr = s /\ b.map = a.map \cup {s}
                 /\ b.store = [a.store EXCEPT ![s] = Zeros]
  <2>1. MapOK(a.map) /\ a.store = [s \in Sectors |-> a.store[s]]
    BY DEF Heap, StoreOK
  <2>2. QED
    BY <2>1, ReservesIndex
<1> HIDE DEF b
<1>2. a.map \subseteq Sectors /\ 0 \in a.map /\ 0 \notin a.map \ Meta
  BY Geometry DEF Heap, MapOK
<1>3. CASE p # 0 /\ b.ptr = p /\ b.map = a.map /\ b.store = a.store
  <2>1. p \in a.map /\ p \in Sectors /\ up[p][2] # RootSlot
    BY <1>2, <1>3 DEF Link, RootSlot
  <2>2. CellOK(b.store[p])
    BY <2>1, <1>3 DEF Heap, StoreOK
  <2>3. /\ AsIndex(b.store[b.ptr]) \in [Slots -> Sectors]
        /\ \A j \in Slots : Link(up, b.map, AsIndex(b.store[b.ptr])[j], b.ptr, j)
    BY <2>1, <2>2, <1>3, IndexPointers DEF Heap, Forest
  <2>4. Extends(up, a.map, up, b.map) /\ IndexPtr(up, a, p, h, k, b)
    BY <1>3 DEF Extends, IndexPtr
  <2>5. b.map = a.map \cup ({b.ptr} \ {0})
    BY <1>3, <2>1
  <2>6. Opened(up, a, p, h, k, up, b)
    BY <1>1, <1>3, <2>1, <2>3, <2>4, <2>5 DEF Opened
  <2>7. QED
    BY <2>6 DEF b
<1>4. CASE /\ p = 0 /\ b.ptr = 0 /\ b.map = a.map /\ Bits \subseteq a.map
           /\ b.store = [a.store EXCEPT ![0] = Zeros]
  <2>1. Heap(up, b.map, b.store)
    BY <1>4, ZeroedZero
  <2>2. b.store[0] = Zeros /\ \A t \in a.map \ {0} : b.store[t] = a.store[t]
    BY <1>2, <1>4, Geometry DEF Heap, StoreOK
  <2>3. \A j \in Slots : AsIndex(b.store[b.ptr])[j] = 0
    BY <2>2, <1>4, IndexOfZeros
  <2>4. AsIndex(b.store[b.ptr]) \in [Slots -> Sectors]
    BY <2>2, <1>4, ZerosOK, IndexPointers
  <2>5. \A j \in Slots : Link(up, b.map, AsIndex(b.store[b.ptr])[j], b.ptr, j)
    BY <2>3 DEF Link
  <2>6. Extends(up, a.map, up, b.map) /\ IndexPtr(up, a, p, h, k, b)
    BY <1>4 DEF Extends, IndexPtr, Link
  <2>7. Opened(up, a, p, h, k, up, b)
    BY <1>1, <1>4, <2>1, <2>2, <2>3, <2>4, <2>5, <2>6, Geometry DEF Opened
  <2>8. QED
    BY <2>7 DEF b
<1>5. ASSUME p = 0, NEW s \in Bits \ a.map, b.ptr = s, b.map = a.map \cup {s},
             b.store = [a.store EXCEPT ![s] = Zeros]
      PROVE  \E up1 : Opened(up, a, p, h, k, up1, reserve_index(a, p))
  <2> DEFINE up2 == [up EXCEPT ![s] = <<h, k>>]
  <2>0. k \in Int
    OBVIOUS
  <2>1. /\ Heap(up2, b.map, b.store) /\ Extends(up, a.map, up2, b.map)
        /\ Link(up2, b.map, s, h, k) /\ s # 0 /\ s \in Sectors
    <3>1. /\ Heap(up2, a.map \cup {s}, [a.store EXCEPT ![s] = Zeros])
          /\ Extends(up, a.map, up2, a.map \cup {s})
          /\ Link(up2, a.map \cup {s}, s, h, k) /\ s # 0 /\ s \in Sectors
      BY <1>5, <2>0, NewBlock
    <3> HIDE DEF up2
    <3>2. QED
      BY <1>5, <3>1
  <2> HIDE DEF up2
  <2>2. b.store[s] = Zeros /\ \A t \in a.map \ {0} : b.store[t] = a.store[t]
    BY <1>2, <1>5, <2>1 DEF Heap, StoreOK
  <2>3. \A j \in Slots : AsIndex(b.store[b.ptr])[j] = 0
    BY <2>2, <1>5, IndexOfZeros
  <2>4. AsIndex(b.store[b.ptr]) \in [Slots -> Sectors]
    BY <2>2, <1>5, ZerosOK, IndexPointers
  <2>5. \A j \in Slots : Link(up2, b.map, AsIndex(b.store[b.ptr])[j], b.ptr, j)
    BY <2>3 DEF Link
  <2>6. IndexPtr(up2, a, p, h, k, b)
    BY <1>5, <2>1 DEF IndexPtr
  <2>7. b.map = a.map \cup ({b.ptr} \ {0}) /\ \A t \in b.map \ a.map : b.store[t] = Zeros
    BY <1>5, <2>1, <2>2
  <2>8. Opened(up, a, p, h, k, up2, b)
    BY <1>1, <1>5, <2>1, <2>2, <2>3, <2>4, <2>5, <2>6, <2>7 DEF Opened
  <2>9. QED
    BY <2>8 DEF b
<1>6. QED
  BY <1>1, <1>3, <1>4, <1>5

\* WrittenBack of what a loop made of the pointers of index block q.
LEMMA WritesBack ==
    ASSUME NEW up, NEW e, AllocOK(e), Heap(up, e.map, e.store),
           NEW q \in Sectors, q # 0 => q \in e.map, e.ok => q # 0,
           e.blocks \in [Slots -> Sectors], Linked(up, Slots, e, q)
    PROVE  LET c == WrittenBack(q, e)
           IN  /\ AllocOK(c) /\ c.d = e.d /\ c.map = e.map /\ c.ptr = q /\ c.ok = e.ok
               /\ Heap(up, c.map, c.store)
               /\ \A t \in Sectors : t # q => c.store[t] = e.store[t]
               /\ IF e.ok THEN AsIndex(c.store[q]) = e.blocks ELSE c.store = e.store
<1> DEFINE c == WrittenBack(q, e)
<1>1. /\ AllocOK(c) /\ c.d = e.d /\ c.map = e.map /\ c.ptr = q /\ c.ok = e.ok
      /\ c.store = IF e.ok THEN [e.store EXCEPT ![q] = Index(e.blocks)] ELSE e.store
  BY DEF WrittenBack, AllocOK
<1> HIDE DEF c
<1>2. CASE e.ok
  <2>1. \A j \in Slots : Link(up, e.map, e.blocks[j], q, j)
    BY DEF Linked
  <2>2. Heap(up, e.map, [e.store EXCEPT ![q] = Index(e.blocks)])
    BY <1>2, <2>1, IndexWritten
  <2>3. c.store[q] = Index(e.blocks) /\ \A t \in Sectors : t # q => c.store[t] = e.store[t]
    BY <1>1, <1>2 DEF Heap, StoreOK
  <2>4. AsIndex(c.store[q]) = e.blocks
    BY <2>3 DEF Index, AsIndex
  <2>5. QED
    BY <1>1, <1>2, <2>2, <2>3, <2>4 DEF c
<1>3. CASE ~e.ok
  BY <1>1, <1>3 DEF c
<1>4. QED
  BY <1>2, <1>3

LEMMA ReservesLevel1 ==
    ASSUME NEW up, NEW a, AllocOK(a), Heap(up, a.map, a.store), a.ok = TRUE,
           NEW h \in Sectors, NEW k \in Nat, NEW p, Link(up, a.map, p, h, k),
           NEW n \in 1 .. INDIRECT_BLOCKS_PER_SECTOR
    PROVE  \E up2 : Indexed(up, a, p, h, k, n, up2, Level1(a, p, n))
<1> DEFINE b == reserve_index(a, p)
<1>1. PICK up1 : Opened(up, a, p, h, k, up1, b)
  BY OpensIndex
<1> HIDE DEF b
<1> DEFINE q == b.ptr
           old == AsIndex(b.store[q])
           e == ReserveBlocks(b, old, n)
           c == WrittenBack(q, e)
<1>2. /\ AllocOK(b) /\ b.d = a.d /\ b.ok = TRUE /\ q \in Sectors
      /\ Heap(up1, b.map, b.store) /\ Extends(up, a.map, up1, b.map)
      /\ IndexPtr(up1, a, p, h, k, b)
      /\ \A t \in a.map \ {0} : b.store[t] = a.store[t]
      /\ b.map = a.map \cup ({q} \ {0})
      /\ \A t \in b.map \ a.map : b.store[t] = Zeros
      /\ old \in [Slots -> Sectors] /\ \A j \in Slots : Link(up1, b.map, old[j], q, j)
      /\ q = 0 => Bits \subseteq b.map /\ \A j \in Slots : old[j] = 0
  BY <1>1 DEF Opened
<1> HIDE DEF q, old
<1>3. PICK up2 : Filled(up1, b, old, q, Slots, n, up2, e)
  <2>1. Slots \subseteq Int /\ n \in Nat /\ 0 .. n - 1 \subseteq Slots
    BY Geometry DEF Slots
  <2>2. QED
    BY <1>2, <2>1, ReservesBlocks
<1> HIDE DEF e
<1>4. /\ AllocOK(e) /\ e.d = b.d
      /\ Heap(up2, e.map, e.store) /\ Extends(up1, b.map, up2, e.map)
      /\ e.blocks \in [Slots -> Sectors]
      /\ PointersKept(Slots, old, b, e) /\ Linked(up2, Slots, e, q)
      /\ BlocksDone(e, n) /\ AllUsed(b, e, n) /\ OnlyNew(b, e)
  BY <1>3 DEF Filled
<1>5. 0 \in Slots /\ 0 \in 0 .. n - 1 /\ 0 .. n - 1 \subseteq Slots
  BY Geometry DEF Slots
<1>6. e.ok => q # 0
  <2>1. SUFFICES ASSUME e.ok, q = 0 PROVE FALSE
    OBVIOUS
  <2>2. e.blocks[0] # 0 /\ old[0] = 0
    BY <1>2, <1>4, <1>5, <2>1 DEF BlocksDone
  <2>3. e.blocks[0] \in e.map \ b.map
    BY <2>2, <1>4, <1>5 DEF PointersKept
  <2>4. e.map \subseteq Bits
    BY <1>4 DEF Heap, MapOK
  <2>5. QED
    BY <2>1, <2>3, <2>4, <1>2
<1>7. /\ AllocOK(c) /\ c.d = e.d /\ c.map = e.map /\ c.ptr = q /\ c.ok = e.ok
      /\ Heap(up2, c.map, c.store)
      /\ \A t \in Sectors : t # q => c.store[t] = e.store[t]
      /\ IF e.ok THEN AsIndex(c.store[q]) = e.blocks ELSE c.store = e.store
  <2>1. q # 0 => q \in e.map
    BY <1>2, <1>4 DEF Extends
  <2>2. /\ AllocOK(e) /\ Heap(up2, e.map, e.store) /\ q \in Sectors /\ (e.ok => q # 0)
        /\ e.blocks \in [Slots -> Sectors] /\ Linked(up2, Slots, e, q)
    BY <1>2, <1>4, <1>6
  <2>3. QED
    BY <2>1, <2>2, WritesBack
<1>8. Level1(a, p, n) = c
  BY DEF Level1, FillBlocks, b, q, old, e, c
<1> HIDE DEF c
<1>9. a.map \subseteq b.map /\ b.map \subseteq e.map /\ e.map \subseteq Sectors /\ 0 \in a.map
  BY <1>2, <1>4, Geometry DEF Extends, Heap, MapOK
<1>10. Extends(up, a.map, up2, c.map)
  BY <1>2, <1>4, <1>7, <1>9 DEF Extends
<1>11. IndexPtr(up2, a, p, h, k, c)
  <2>1. Link(up1, b.map, q, h, k) /\ (q = p \/ (p = 0 /\ q \in b.map \ a.map))
    BY <1>2 DEF IndexPtr, q
  <2>2. Link(up2, c.map, q, h, k)
    BY <2>1, <1>4, <1>7, <1>9 DEF Link, Extends
  <2>3. QED
    BY <2>1, <2>2, <1>7, <1>9 DEF IndexPtr
<1>12. OneIndex(a, p, c)
  <2>0. q = p \/ (p = 0 /\ q \in b.map \ a.map)
    BY <1>2 DEF IndexPtr, q
  <2>1. ASSUME NEW t \in a.map \ {0, p} PROVE c.store[t] = a.store[t]
    <3>1. t # q /\ t \in Sectors /\ t \in b.map
      BY <2>0, <2>1, <1>9
    <3>2. QED
      BY <3>1, <2>1, <1>2, <1>4, <1>7 DEF OnlyNew
  <2>2. ASSUME p # 0 PROVE Grows(a.store[p], c.store[p])
    <3>1. q = p
      BY <2>0, <2>2
    <3>2. p \in a.map \ {0} /\ p \in b.map
      BY <2>2, <3>1, <1>2, <1>9, <1>11, <2>0 DEF IndexPtr, Link
    <3>3. old = AsIndex(a.store[p]) /\ e.store[p] = b.store[p]
      BY <3>1, <3>2, <1>2, <1>4 DEF old, OnlyNew
    <3>4. CASE e.ok
      <4>1. AsIndex(c.store[p]) = e.blocks
        BY <3>1, <3>4, <1>7
      <4>2. QED
        BY <4>1, <3>3, <1>4 DEF Grows, PointersKept
    <3>5. CASE ~e.ok
      BY <3>5, <3>3, <3>2, <1>2, <1>7 DEF Grows
    <3>6. QED
      BY <3>4, <3>5
  <2>3. ASSUME NEW t \in c.map \ a.map, t # c.ptr PROVE c.store[t] = Zeros
    <3>1. t # q /\ t \in Sectors /\ c.store[t] = e.store[t]
      BY <2>3, <1>7, <1>9
    <3>2. CASE t \in b.map
      BY <3>1, <3>2, <2>3, <1>2
    <3>3. CASE t \notin b.map
      BY <3>1, <3>3, <2>3, <1>4, <1>7 DEF OnlyNew
    <3>4. QED
      BY <3>2, <3>3
  <2>4. QED
    BY <2>1, <2>2, <2>3 DEF OneIndex
<1>13. IndexDone(a, c, n)
  <2>1. SUFFICES ASSUME c.ok
                 PROVE  /\ c.ptr # 0 /\ \A j \in 0 .. n - 1 : AsIndex(c.store[c.ptr])[j] # 0
                        /\ \A t \in c.map \ a.map :
                             t = c.ptr \/ \E j \in 0 .. n - 1 : AsIndex(c.store[c.ptr])[j] = t
    BY DEF IndexDone
  <2>2. c.ptr = q /\ q # 0 /\ AsIndex(c.store[q]) = e.blocks /\ e.ok
    BY <2>1, <1>6, <1>7
  <2>3. \A j \in 0 .. n - 1 : AsIndex(c.store[c.ptr])[j] # 0
    BY <2>2, <1>4 DEF BlocksDone
  <2>4. ASSUME NEW t \in c.map \ a.map, t # q
        PROVE  \E j \in 0 .. n - 1 : AsIndex(c.store[c.ptr])[j] = t
    <3>1. t \in e.map \ b.map
      BY <2>4, <1>2, <1>7
    <3>2. QED
      BY <3>1, <2>2, <1>4 DEF AllUsed
  <2>5. QED
    BY <2>2, <2>3, <2>4
<1>14. Indexed(up, a, p, h, k, n, up2, c)
  BY <1>2, <1>4, <1>7, <1>10, <1>11, <1>12, <1>13 DEF Indexed
<1>15. QED
  BY <1>8, <1>14

\* The values of the loop in ReserveIndexes.
LEMMA IndexTurns ==
    ASSUME NEW a, NEW old, NEW n, NEW l \in Nat,
           l = (n + INDIRECT_BLOCKS_PER_SECTOR - 1) \div INDIRECT_BLOCKS_PER_SECTOR
    PROVE  \E f : /\ f[0] = [a EXCEPT !.blocks = old]
                  /\ \A i \in 1 .. l : f[i] = ReserveIndex(f[i - 1], i, n)
                  /\ ReserveIndexes(a, old, n) = f[l]
<1> DEFINE first == [a EXCEPT !.blocks = old]
           Rest(f) == [i \in 0 .. l |-> IF i = 0 THEN first ELSE ReserveIndex(f[i - 1], i, n)]
           after == CHOOSE f : f = Rest(f)
           S == {m \in 0 .. l : \E f : /\ DOMAIN f = 0 .. m /\ f[0] = first
                                       /\ \A i \in 1 .. m : f[i] = ReserveIndex(f[i - 1], i, n)}
<1> HIDE DEF first
<1>2. 0 \in S
  <2> DEFINE f == [i \in 0 .. 0 |-> first]
  <2>1. DOMAIN f = 0 .. 0 /\ f[0] = first /\ \A i \in 1 .. 0 : FALSE
    OBVIOUS
  <2> HIDE DEF f
  <2>2. QED
    BY <2>1
<1>3. ASSUME NEW m \in 1 .. l, m - 1 \in S PROVE m \in S
  <2>1. PICK f : /\ DOMAIN f = 0 .. m - 1 /\ f[0] = first
                 /\ \A i \in 1 .. m - 1 : f[i] = ReserveIndex(f[i - 1], i, n)
    BY <1>3
  <2> DEFINE g == [i \in 0 .. m |-> IF i = m THEN ReserveIndex(f[m - 1], m, n) ELSE f[i]]
  <2>2. DOMAIN g = 0 .. m /\ g[0] = first
    BY <2>1
  <2>3. ASSUME NEW i \in 1 .. m PROVE g[i] = ReserveIndex(g[i - 1], i, n)
    <3>1. i - 1 \in 0 .. m /\ i - 1 # m /\ i \in 0 .. m
      OBVIOUS
    <3>2. g[i - 1] = f[i - 1]
      BY <3>1
    <3>3. CASE i = m
      BY <3>1, <3>2, <3>3
    <3>4. CASE i # m
      <4>1. i \in 1 .. m - 1 /\ g[i] = f[i]
        BY <3>1, <3>4
      <4>2. QED
        BY <4>1, <3>2, <2>1
    <3>5. QED
      BY <3>3, <3>4
  <2> HIDE DEF g
  <2>4. m \in 0 .. l
    OBVIOUS
  <2>5. QED
    BY <2>2, <2>3, <2>4
<1>4. l \in S
  <2> HIDE DEF S
  <2>1. 0 .. l \subseteq S
    BY <1>2, <1>3, UpToN
  <2>2. QED
    BY <2>1
<1>5. PICK f : /\ DOMAIN f = 0 .. l /\ f[0] = first
               /\ \A i \in 1 .. l : f[i] = ReserveIndex(f[i - 1], i, n)
  BY <1>4
<1>6. \E g : g = Rest(g)
  <2> DEFINE g == [i \in 0 .. l |-> f[i]]
  <2>1. \A i \in 0 .. l : i # 0 => i \in 1 .. l /\ i - 1 \in 0 .. l
    OBVIOUS
  <2>2. g = Rest(g)
    BY <1>5, <2>1
  <2> HIDE DEF g
  <2>3. QED
    BY <2>2
<1>7. after = Rest(after)
  BY <1>6
<1> HIDE DEF after
<1>8. after[0] = first /\ \A i \in 1 .. l : after[i] = ReserveIndex(after[i - 1], i, n)
  BY <1>7
<1>9. ReserveIndexes(a, old, n) = after[l]
  BY DEF ReserveIndexes, after, first
<1>10. QED
  BY <1>8, <1>9 DEF first

----------------------------------------------------------------------------
(* The loop over the index blocks below a doubly indirect one, in sector q.*)

\* The blocks of n that index block i has room for.
Inner(n, i) == Lesser(n - i * INDIRECT_BLOCKS_PER_SECTOR, INDIRECT_BLOCKS_PER_SECTOR)

InnerDone(b, i, n) == b.ok => \A l \in 0 .. i - 1 :
    \A j \in 0 .. Inner(n, l) - 1 : AsIndex(b.store[b.blocks[l]])[j] # 0

InnerUsed(a, b, i, n) == b.ok => \A t \in b.map \ a.map : \E l \in 0 .. i - 1 :
    b.blocks[l] = t \/ \E j \in 0 .. Inner(n, l) - 1 : AsIndex(b.store[b.blocks[l]])[j] = t

\* Only the index blocks grow, and new blocks are zeros.
OnlyIndexes(a, old, b) == \A t \in a.map \ {0} :
    b.store[t] = a.store[t] \/ ((\E j \in Slots : old[j] = t) /\ Grows(a.store[t], b.store[t]))

NewIndexes(up2, a, q, b) == \A t \in b.map \ a.map :
    b.store[t] = Zeros \/ \E j \in Slots : up2[t] = <<q, j>>

IndexesFilled(up, a, old, q, n, i, up2, b) ==
    /\ AllocOK(b) /\ b.d = a.d
    /\ Heap(up2, b.map, b.store) /\ Extends(up, a.map, up2, b.map)
    /\ b.blocks \in [Slots -> Sectors]
    /\ PointersKept(Slots, old, a, b) /\ Linked(up2, Slots, b, q)
    /\ BlocksDone(b, i) /\ InnerDone(b, i, n) /\ InnerUsed(a, b, i, n)
    /\ OnlyIndexes(a, old, b) /\ NewIndexes(up2, a, q, b)

LEMMA GrowsOn ==
    ASSUME NEW c1, NEW c2, NEW c3, Grows(c1, c2), Grows(c2, c3) PROVE Grows(c1, c3)
  BY DEF Grows

LEMMA IndexesStep ==
    ASSUME NEW up, NEW a, MapOK(a.map), NEW old, NEW q \in Sectors,
           NEW n \in Nat, NEW i \in Nat \ {0}, i - 1 \in Slots,
           Inner(n, i - 1) \in 1 .. INDIRECT_BLOCKS_PER_SECTOR,
           NEW up1, NEW b, IndexesFilled(up, a, old, q, n, i - 1, up1, b)
    PROVE  \E up2 : IndexesFilled(up, a, old, q, n, i, up2, ReserveIndex(b, i, n))
<1> DEFINE m == Inner(n, i - 1)
           p == b.blocks[i - 1]
           r == Level1(b, p, m)
           c == ReserveIndex(b, i, n)
<1>1. /\ AllocOK(b) /\ b.d = a.d
      /\ Heap(up1, b.map, b.store) /\ Extends(up, a.map, up1, b.map)
      /\ b.blocks \in [Slots -> Sectors]
      /\ PointersKept(Slots, old, a, b) /\ Linked(up1, Slots, b, q)
      /\ BlocksDone(b, i - 1) /\ InnerDone(b, i - 1, n) /\ InnerUsed(a, b, i - 1, n)
      /\ OnlyIndexes(a, old, b) /\ NewIndexes(up1, a, q, b)
  BY DEF IndexesFilled
<1>2. CASE b.ok = FALSE
  <2>1. c = b
    BY <1>2 DEF ReserveIndex
  <2>2. BlocksDone(b, i) /\ InnerDone(b, i, n) /\ InnerUsed(a, b, i, n)
    BY <1>2 DEF BlocksDone, InnerDone, InnerUsed
  <2>3. QED
    BY <1>1, <2>1, <2>2 DEF IndexesFilled
<1>3. CASE b.ok = TRUE
  <2>1. PICK up2 : Indexed(up1, b, p, q, i - 1, m, up2, r)
    <3>1. Link(up1, b.map, p, q, i - 1) /\ i - 1 \in Nat
      BY <1>1 DEF Linked
    <3> HIDE DEF m, p
    <3>2. QED
      BY <1>1, <1>3, <3>1, ReservesLevel1 DEF m
  <2>2. c = [r EXCEPT !.blocks = [b.blocks EXCEPT ![i - 1] = r.ptr]]
    BY <1>3 DEF ReserveIndex, Placed, Inner
  <2> HIDE DEF r, m
  <2>3. /\ AllocOK(r) /\ r.d = b.d
        /\ Heap(up2, r.map, r.store) /\ Extends(up1, b.map, up2, r.map)
        /\ IndexPtr(up2, b, p, q, i - 1, r) /\ OneIndex(b, p, r) /\ IndexDone(b, r, m)
    BY <2>1 DEF Indexed
  <2>4. /\ AllocOK(c) /\ c.d = r.d /\ c.map = r.map /\ c.store = r.store /\ c.ok = r.ok
        /\ c.blocks = [b.blocks EXCEPT ![i - 1] = r.ptr]
    BY <2>2, <2>3 DEF AllocOK
  <2> HIDE DEF c
  <2>5. /\ a.map \subseteq b.map /\ b.map \subseteq c.map /\ c.map \subseteq Sectors
        /\ Extends(up, a.map, up2, c.map) /\ 0 \in b.map
    BY <1>1, <2>3, <2>4, Geometry DEF Extends, Heap, MapOK
  <2>6. r.ptr \in Sectors
    BY <2>3, <2>4, <2>5, Geometry DEF IndexPtr, Link
  <2>7. /\ c.blocks \in [Slots -> Sectors] /\ c.blocks[i - 1] = r.ptr
        /\ \A j \in Slots : j # i - 1 => c.blocks[j] = b.blocks[j]
    BY <1>1, <2>4, <2>6
  <2>8. Link(up2, c.map, r.ptr, q, i - 1) /\ (r.ptr = p \/ (p = 0 /\ r.ptr \in c.map \ b.map))
    BY <2>3, <2>4 DEF IndexPtr
  <2>9. \A j \in Slots : Link(up1, b.map, b.blocks[j], q, j)
    BY <1>1 DEF Linked
  \* The other index blocks are not that of p.
  <2>10. ASSUME NEW j \in Slots, j # i - 1, b.blocks[j] # 0
         PROVE  /\ b.blocks[j] \in b.map \ {0, p} /\ b.blocks[j] # r.ptr
                /\ c.store[b.blocks[j]] = b.store[b.blocks[j]]
    <3>1. b.blocks[j] \in b.map /\ up1[b.blocks[j]] = <<q, j>>
      BY <2>9, <2>10 DEF Link
    <3>2. p # 0 => up1[p] = <<q, i - 1>>
      BY <2>9 DEF Link
    <3>3. b.blocks[j] # p
      BY <3>1, <3>2, <2>10
    <3>4. QED
      BY <3>1, <3>3, <2>3, <2>4, <2>8, <2>10 DEF OneIndex
  <2>11. PointersKept(Slots, old, a, c)
    <3>1. ASSUME NEW j \in Slots
          PROVE  c.blocks[j] = old[j] \/ (old[j] = 0 /\ c.blocks[j] \in c.map \ a.map)
      <4>0. b.blocks[j] = old[j] \/ (old[j] = 0 /\ b.blocks[j] \in b.map \ a.map)
        BY <1>1 DEF PointersKept
      <4>1. CASE j = i - 1
        <5>1. CASE r.ptr = p
          BY <5>1, <4>0, <4>1, <2>5, <2>7
        <5>2. CASE p = 0 /\ r.ptr \in c.map \ b.map
          <6>2. b.blocks[j] = 0 /\ old[j] = 0 /\ c.blocks[j] = r.ptr
            <7>1. MapOK(b.map) /\ 0 \notin b.map \ Meta
              BY <1>1, Geometry DEF Heap
            <7>2. b.blocks[j] = 0
              BY <5>2, <4>1
            <7>3. c.blocks[j] = r.ptr
              BY <4>1, <2>7
            <7>4. old[j] = 0
              BY <4>0, <7>2
            <7>5. QED
              BY <7>2, <7>3, <7>4
          <6>3. QED
            BY <6>2, <5>2, <2>5
        <5>3. QED
          BY <5>1, <5>2, <2>8
      <4>2. CASE j # i - 1
        BY <4>0, <4>2, <2>5, <2>7
      <4>3. QED
        BY <4>1, <4>2
    <3>2. QED
      BY <3>1 DEF PointersKept
  <2>12. Linked(up2, Slots, c, q)
    <3>1. ASSUME NEW j \in Slots PROVE Link(up2, c.map, c.blocks[j], q, j)
      <4>1. CASE j = i - 1
        BY <4>1, <2>7, <2>8
      <4>2. CASE j # i - 1
        BY <4>2, <2>3, <2>4, <2>5, <2>7, <2>9 DEF Link, Extends
      <4>3. QED
        BY <4>1, <4>2
    <3>2. QED
      BY <3>1 DEF Linked
  <2>13. 0 .. i - 1 \subseteq Slots /\ 0 .. i - 2 \subseteq Slots
    BY Geometry DEF Slots
  <2>14. BlocksDone(c, i)
    <3>1. SUFFICES ASSUME c.ok, NEW j \in 0 .. i - 1 PROVE c.blocks[j] # 0
      BY DEF BlocksDone
    <3>2. CASE j = i - 1
      BY <3>1, <3>2, <2>3, <2>4, <2>7 DEF IndexDone
    <3>3. CASE j # i - 1
      <4>1. j \in 0 .. i - 2 /\ j \in Slots
        BY <3>3, <2>13
      <4>2. QED
        BY <4>1, <3>3, <2>7, <1>1, <1>3 DEF BlocksDone
    <3>4. QED
      BY <3>2, <3>3
  <2>15. ASSUME NEW l \in 0 .. i - 2
         PROVE  l \in Slots /\ c.blocks[l] = b.blocks[l] /\ c.store[c.blocks[l]] = b.store[b.blocks[l]]
    <3>1. l \in 0 .. (i - 1) - 1 /\ l # i - 1 /\ l \in Slots
      BY <2>13
    <3>2. b.blocks[l] # 0
      BY <3>1, <1>1, <1>3 DEF BlocksDone
    <3>3. QED
      BY <3>1, <3>2, <2>7, <2>10
  <2>16. InnerDone(c, i, n)
    <3>1. SUFFICES ASSUME c.ok, NEW l \in 0 .. i - 1, NEW j \in 0 .. Inner(n, l) - 1
                   PROVE  AsIndex(c.store[c.blocks[l]])[j] # 0
      BY DEF InnerDone
    <3>2. CASE l = i - 1
      BY <3>1, <3>2, <2>3, <2>4, <2>7 DEF IndexDone, m
    <3>3. CASE l # i - 1
      <4>1. l \in 0 .. i - 2 /\ l \in 0 .. (i - 1) - 1
        BY <3>3
      <4>2. QED
        BY <4>1, <2>15, <1>1, <1>3 DEF InnerDone
    <3>4. QED
      BY <3>2, <3>3
  <2>17. InnerUsed(a, c, i, n)
    <3>1. SUFFICES ASSUME c.ok, NEW t \in c.map \ a.map
                   PROVE  \E l \in 0 .. i - 1 :
                             c.blocks[l] = t \/ \E j \in 0 .. Inner(n, l) - 1 :
                                                   AsIndex(c.store[c.blocks[l]])[j] = t
      BY DEF InnerUsed
    <3>2. CASE t \in b.map
      <4>1. PICK l \in 0 .. (i - 1) - 1 :
                b.blocks[l] = t \/ \E j \in 0 .. Inner(n, l) - 1 : AsIndex(b.store[b.blocks[l]])[j] = t
        BY <3>1, <3>2, <1>1, <1>3 DEF InnerUsed
      <4>2. l \in 0 .. i - 2 /\ l \in 0 .. i - 1
        OBVIOUS
      <4>3. QED
        BY <4>1, <4>2, <2>15
    <3>3. CASE t \notin b.map
      <4>1. i - 1 \in 0 .. i - 1
        OBVIOUS
      <4>2. t = r.ptr \/ \E j \in 0 .. m - 1 : AsIndex(r.store[r.ptr])[j] = t
        BY <3>1, <3>3, <2>3, <2>4 DEF IndexDone
      <4>3. QED
        BY <4>1, <4>2, <2>4, <2>7 DEF m
    <3>4. QED
      BY <3>2, <3>3
  <2>18. OnlyIndexes(a, old, c)
    <3>1. SUFFICES ASSUME NEW t \in a.map \ {0}
                   PROVE  c.store[t] = a.store[t]
                          \/ ((\E j \in Slots : old[j] = t) /\ Grows(a.store[t], c.store[t]))
      BY DEF OnlyIndexes
    <3>2. b.store[t] = a.store[t]
          \/ ((\E j \in Slots : old[j] = t) /\ Grows(a.store[t], b.store[t]))
      BY <3>1, <1>1 DEF OnlyIndexes
    <3>3. t \in b.map
      BY <3>1, <2>5
    <3>4. CASE t # p
      <4>1. c.store[t] = b.store[t]
        BY <3>1, <3>3, <3>4, <2>3, <2>4 DEF OneIndex
      <4>2. QED
        BY <4>1, <3>2
    <3>5. CASE t = p
      <4>1. Grows(b.store[t], c.store[t])
        BY <3>1, <3>5, <2>3, <2>4 DEF OneIndex
      <4>2. old[i - 1] = t
        BY <3>1, <3>5, <1>1 DEF PointersKept
      <4>3. Grows(a.store[t], b.store[t])
        BY <3>2 DEF Grows
      <4>4. QED
        BY <4>1, <4>2, <4>3, GrowsOn
    <3>6. QED
      BY <3>4, <3>5
  <2>19. NewIndexes(up2, a, q, c)
    <3>1. SUFFICES ASSUME NEW t \in c.map \ a.map
                   PROVE  c.store[t] = Zeros \/ \E j \in Slots : up2[t] = <<q, j>>
      BY DEF NewIndexes
    <3>2. CASE t \notin b.map
      <4>1. t = r.ptr \/ c.store[t] = Zeros
        BY <3>1, <3>2, <2>3, <2>4 DEF OneIndex
      <4>2. t = r.ptr => up2[t] = <<q, i - 1>>
        BY <3>1, <3>2, <2>5, <2>8 DEF Link
      <4>3. QED
        BY <4>1, <4>2
    <3>3. CASE t \in b.map
      <4>1. b.store[t] = Zeros \/ \E j \in Slots : up1[t] = <<q, j>>
        BY <3>1, <3>3, <1>1 DEF NewIndexes
      <4>2. up2[t] = up1[t] /\ t # 0
        <5>1. 0 \in a.map
          BY Geometry DEF MapOK
        <5>2. QED
          BY <3>1, <3>3, <5>1, <2>3 DEF Extends
      <4>3. CASE t = p
        BY <4>2, <4>3, <2>9 DEF Link
      <4>4. CASE t # p
        <5>1. c.store[t] = b.store[t]
          BY <3>3, <4>2, <4>4, <2>3, <2>4 DEF OneIndex
        <5>2. QED
          BY <5>1, <4>1, <4>2
      <4>5. QED
        BY <4>3, <4>4
    <3>4. QED
      BY <3>2, <3>3
  <2>20. c.d = a.d /\ Heap(up2, c.map, c.store)
    BY <1>1, <2>3, <2>4
  <2>21. IndexesFilled(up, a, old, q, n, i, up2, c)
    BY <2>4, <2>5, <2>7, <2>11, <2>12, <2>14, <2>16, <2>17, <2>18, <2>19, <2>20 DEF IndexesFilled
  <2>22. QED
    BY <2>21 DEF c
<1>4. QED
  BY <1>1, <1>2, <1>3 DEF AllocOK

\* There are as many index blocks as n blocks call for, and none is empty.
LEMMA IndexCount ==
    ASSUME NEW n \in 1 .. INDIRECT_BLOCKS_PER_SECTOR * INDIRECT_BLOCKS_PER_SECTOR
    PROVE  /\ Ceiling(n, INDIRECT_BLOCKS_PER_SECTOR) \in 1 .. INDIRECT_BLOCKS_PER_SECTOR
           /\ \A i \in 0 .. Ceiling(n, INDIRECT_BLOCKS_PER_SECTOR) - 1 :
                 i \in Slots /\ Inner(n, i) \in 1 .. INDIRECT_BLOCKS_PER_SECTOR
<1> DEFINE M == INDIRECT_BLOCKS_PER_SECTOR
           l == Ceiling(n, M)
<1>1. M \in Nat \ {0} /\ M * M \in Nat
  BY Capacities
<1>2. l \in Int /\ n <= M * l /\ M * l <= n + M - 1 /\ l <= M
  BY <1>1, CeilingBounds, CeilingAtMost
<1> HIDE DEF l
<1>3. l >= 1
  <2>1. CASE l <= 0
    <3>1. M * l <= 0
      BY <1>1, <1>2, <2>1
    <3>2. QED
      BY <1>1, <1>2, <3>1
  <2>2. QED
    BY <1>2, <2>1
<1>4. ASSUME NEW i \in 0 .. l - 1 PROVE i \in Slots /\ Inner(n, i) \in 1 .. M
  <2>1. i * M <= (l - 1) * M /\ (l - 1) * M = M * l - M /\ i * M \in Nat
    BY <1>1, <1>2, <1>3
  <2>2. n - i * M >= 1 /\ n - i * M \in Int
    BY <1>1, <1>2, <2>1
  <2>3. QED
    BY <1>1, <1>2, <2>2 DEF Slots, Inner, Lesser
<1>5. QED
  BY <1>1, <1>2, <1>3, <1>4 DEF l

LEMMA ReservesIndexes ==
    ASSUME NEW up, NEW a, AllocOK(a), Heap(up, a.map, a.store), NEW q \in Sectors,
           NEW n \in 1 .. INDIRECT_BLOCKS_PER_SECTOR * INDIRECT_BLOCKS_PER_SECTOR,
           NEW old \in [Slots -> Sectors], \A j \in Slots : Link(up, a.map, old[j], q, j)
    PROVE  \E up2 : IndexesFilled(up, a, old, q, n, Ceiling(n, INDIRECT_BLOCKS_PER_SECTOR),
                                  up2, ReserveIndexes(a, old, n))
<1> DEFINE l == Ceiling(n, INDIRECT_BLOCKS_PER_SECTOR)
<1>0. /\ l \in Nat
      /\ l = (n + INDIRECT_BLOCKS_PER_SECTOR - 1) \div INDIRECT_BLOCKS_PER_SECTOR
      /\ \A i \in 0 .. l - 1 : i \in Slots /\ Inner(n, i) \in 1 .. INDIRECT_BLOCKS_PER_SECTOR
  BY IndexCount DEF Ceiling
<1> HIDE DEF l
<1>1. PICK f : /\ f[0] = [a EXCEPT !.blocks = old]
               /\ \A i \in 1 .. l : f[i] = ReserveIndex(f[i - 1], i, n)
               /\ ReserveIndexes(a, old, n) = f[l]
  BY <1>0, IndexTurns
<1> DEFINE S == {i \in 0 .. l : \E up2 : IndexesFilled(up, a, old, q, n, i, up2, f[i])}
<1>2. 0 \in S
  <2> DEFINE b == [a EXCEPT !.blocks = old]
  <2>1. /\ AllocOK(b) /\ b.map = a.map /\ b.store = a.store /\ b.d = a.d /\ b.blocks = old
    BY DEF AllocOK
  <2> HIDE DEF b
  <2>2. Extends(up, a.map, up, b.map) /\ PointersKept(Slots, old, a, b)
    BY <2>1 DEF Extends, PointersKept
  <2>3. /\ Linked(up, Slots, b, q) /\ BlocksDone(b, 0)
        /\ InnerDone(b, 0, n) /\ InnerUsed(a, b, 0, n)
    BY <2>1 DEF Linked, BlocksDone, InnerDone, InnerUsed
  <2>4. OnlyIndexes(a, old, b) /\ NewIndexes(up, a, q, b)
    BY <2>1 DEF OnlyIndexes, NewIndexes
  <2>5. IndexesFilled(up, a, old, q, n, 0, up, b)
    BY <2>1, <2>2, <2>3, <2>4 DEF IndexesFilled
  <2>6. f[0] = b /\ 0 \in 0 .. l
    BY <1>0, <1>1 DEF b
  <2>7. QED
    BY <2>5, <2>6
<1>3. ASSUME NEW i \in 1 .. l, i - 1 \in S PROVE i \in S
  <2>1. PICK up1 : IndexesFilled(up, a, old, q, n, i - 1, up1, f[i - 1])
    BY <1>3
  <2>2. i \in Nat \ {0} /\ i \in 0 .. l /\ i - 1 \in 0 .. l - 1 /\ n \in Nat
    BY Capacities, <1>0
  <2>3. i - 1 \in Slots /\ Inner(n, i - 1) \in 1 .. INDIRECT_BLOCKS_PER_SECTOR
    BY <1>0, <2>2
  <2>4. MapOK(a.map)
    BY DEF Heap
  <2>5. \E up2 : IndexesFilled(up, a, old, q, n, i, up2, ReserveIndex(f[i - 1], i, n))
    BY <2>1, <2>2, <2>3, <2>4, IndexesStep
  <2>6. QED
    BY <2>2, <2>5, <1>1
<1>4. l \in S
  <2> HIDE DEF S
  <2>1. 0 .. l \subseteq S
    BY <1>0, <1>2, <1>3, UpToN
  <2>2. QED
    BY <1>0, <2>1
<1>5. QED
  BY <1>1, <1>4 DEF l

----------------------------------------------------------------------------
\* What a store keeps: index blocks may get further pointers, sector 0 may be lost.
Kept(up, map, store, store2) == \A t \in map \ {0} :
    store2[t] = store[t] \/ (up[t][2] # RootSlot /\ Grows(store[t], store2[t]))

DoublyDone(c, n) == c.ok => c.ptr # 0 /\
    \A l \in 0 .. Ceiling(n, INDIRECT_BLOCKS_PER_SECTOR) - 1 :
        /\ AsIndex(c.store[c.ptr])[l] # 0
        /\ \A j \in 0 .. Inner(n, l) - 1 : AsIndex(c.store[AsIndex(c.store[c.ptr])[l]])[j] # 0

DoublyUsed(a, c, n) == c.ok => \A t \in c.map \ a.map : t = c.ptr \/
    \E l \in 0 .. Ceiling(n, INDIRECT_BLOCKS_PER_SECTOR) - 1 :
        \/ AsIndex(c.store[c.ptr])[l] = t
        \/ \E j \in 0 .. Inner(n, l) - 1 : AsIndex(c.store[AsIndex(c.store[c.ptr])[l]])[j] = t

DoublyIndexed(up, a, p, h, k, n, up2, c) ==
    /\ AllocOK(c) /\ c.d = a.d
    /\ Heap(up2, c.map, c.store) /\ Extends(up, a.map, up2, c.map)
    /\ IndexPtr(up2, a, p, h, k, c) /\ Kept(up, a.map, a.store, c.store)
    /\ DoublyDone(c, n) /\ DoublyUsed(a, c, n)

LEMMA ReservesLevel2 ==
    ASSUME NEW up, NEW a, AllocOK(a), Heap(up, a.map, a.store), a.ok = TRUE,
           NEW h \in Sectors, h \in a.map, up[h] = <<h, RootSlot>>, NEW k \in Nat,
           NEW p, Link(up, a.map, p, h, k),
           NEW n \in 1 .. INDIRECT_BLOCKS_PER_SECTOR * INDIRECT_BLOCKS_PER_SECTOR
    PROVE  \E up2 : DoublyIndexed(up, a, p, h, k, n, up2, Level2(a, p, n))
<1> DEFINE b == reserve_index(a, p)
<1>1. PICK up1 : Opened(up, a, p, h, k, up1, b)
  BY OpensIndex
<1> HIDE DEF b
<1> DEFINE q == b.ptr
           old == AsIndex(b.store[q])
           L == Ceiling(n, INDIRECT_BLOCKS_PER_SECTOR)
           e == ReserveIndexes(b, old, n)
           c == WrittenBack(q, e)
<1>2. /\ AllocOK(b) /\ b.d = a.d /\ b.ok = TRUE /\ q \in Sectors
      /\ Heap(up1, b.map, b.store) /\ Extends(up, a.map, up1, b.map)
      /\ IndexPtr(up1, a, p, h, k, b)
      /\ \A t \in a.map \ {0} : b.store[t] = a.store[t]
      /\ b.map = a.map \cup ({q} \ {0})
      /\ old \in [Slots -> Sectors] /\ \A j \in Slots : Link(up1, b.map, old[j], q, j)
      /\ q = 0 => Bits \subseteq b.map /\ \A j \in Slots : old[j] = 0
  BY <1>1 DEF Opened
<1> HIDE DEF q, old
<1>3. PICK up2 : IndexesFilled(up1, b, old, q, n, L, up2, e)
  BY <1>2, ReservesIndexes
<1> HIDE DEF e
<1>4. /\ AllocOK(e) /\ e.d = b.d
      /\ Heap(up2, e.map, e.store) /\ Extends(up1, b.map, up2, e.map)
      /\ e.blocks \in [Slots -> Sectors]
      /\ PointersKept(Slots, old, b, e) /\ Linked(up2, Slots, e, q)
      /\ BlocksDone(e, L) /\ InnerDone(e, L, n) /\ InnerUsed(b, e, L, n)
      /\ OnlyIndexes(b, old, e)
  BY <1>3 DEF IndexesFilled
<1>5. /\ L \in 1 .. INDIRECT_BLOCKS_PER_SECTOR
      /\ \A i \in 0 .. L - 1 : i \in Slots /\ Inner(n, i) \in 1 .. INDIRECT_BLOCKS_PER_SECTOR
  BY IndexCount
<1> HIDE DEF L
<1>6. 0 \in Slots /\ 0 \in 0 .. L - 1 /\ Slots \subseteq Nat
  BY <1>5, Geometry DEF Slots
<1>7. e.ok => q # 0
  <2>1. SUFFICES ASSUME e.ok, q = 0 PROVE FALSE
    OBVIOUS
  <2>2. e.blocks[0] # 0 /\ old[0] = 0
    BY <1>2, <1>4, <1>6, <2>1 DEF BlocksDone
  <2>3. e.blocks[0] \in e.map \ b.map
    BY <2>2, <1>4, <1>6 DEF PointersKept
  <2>4. e.map \subseteq Bits
    BY <1>4 DEF Heap, MapOK
  <2>5. QED
    BY <2>1, <2>3, <2>4, <1>2
<1>8. /\ AllocOK(c) /\ c.d = e.d /\ c.map = e.map /\ c.ptr = q /\ c.ok = e.ok
      /\ Heap(up2, c.map, c.store)
      /\ \A t \in Sectors : t # q => c.store[t] = e.store[t]
      /\ IF e.ok THEN AsIndex(c.store[q]) = e.blocks ELSE c.store = e.store
  <2>1. q # 0 => q \in e.map
    BY <1>2, <1>4 DEF Extends
  <2>2. /\ AllocOK(e) /\ Heap(up2, e.map, e.store) /\ q \in Sectors /\ (e.ok => q # 0)
        /\ e.blocks \in [Slots -> Sectors] /\ Linked(up2, Slots, e, q)
    BY <1>2, <1>4, <1>7
  <2>3. QED
    BY <2>1, <2>2, WritesBack
<1>9. Level2(a, p, n) = c
  BY DEF Level2, FillIndexes, b, q, old, e, c
<1> HIDE DEF c
<1>10. a.map \subseteq b.map /\ b.map \subseteq e.map /\ e.map \subseteq Sectors /\ 0 \in a.map
  BY <1>2, <1>4, Geometry DEF Extends, Heap, MapOK
<1>11. Extends(up, a.map, up2, c.map)
  BY <1>2, <1>4, <1>8, <1>10 DEF Extends
<1>12. q = p \/ (p = 0 /\ q \in b.map \ a.map)
  BY <1>2 DEF IndexPtr, q
<1>13. Link(up2, c.map, q, h, k)
  <2>1. Link(up1, b.map, q, h, k)
    BY <1>2 DEF IndexPtr, q
  <2>2. QED
    BY <2>1, <1>4, <1>8, <1>10 DEF Link, Extends
<1>14. IndexPtr(up2, a, p, h, k, c)
  BY <1>8, <1>10, <1>12, <1>13 DEF IndexPtr
<1>15. Kept(up, a.map, a.store, c.store)
  <2>1. SUFFICES ASSUME NEW t \in a.map \ {0}
                 PROVE  c.store[t] = a.store[t]
                        \/ (up[t][2] # RootSlot /\ Grows(a.store[t], c.store[t]))
    BY DEF Kept
  <2>2. t \in b.map \ {0} /\ t \in Sectors /\ b.store[t] = a.store[t] /\ up1[t] = up[t]
    BY <2>1, <1>2, <1>10 DEF Extends
  <2>3. e.store[t] = a.store[t] \/ (up[t][2] # RootSlot /\ Grows(a.store[t], e.store[t]))
    <3>1. ASSUME NEW j \in Slots, old[j] = t PROVE up[t][2] # RootSlot
      <4>1. up[t] = <<q, j>>
        BY <2>1, <2>2, <3>1, <1>2 DEF Link
      <4>2. QED
        BY <4>1, <1>6 DEF RootSlot
    <3>2. QED
      BY <2>2, <3>1, <1>4 DEF OnlyIndexes
  <2>4. CASE t = q
    <3>1. t = p /\ up[t] = <<h, k>>
      BY <2>1, <2>4, <1>12 DEF Link
    <3>2. up[t][2] # RootSlot
      BY <3>1 DEF RootSlot
    <3>3. CASE e.ok
      <4>1. AsIndex(c.store[t]) = e.blocks /\ AsIndex(a.store[t]) = old
        BY <2>2, <2>4, <3>3, <1>8 DEF old
      <4>2. QED
        BY <4>1, <3>2, <1>4 DEF Grows, PointersKept
    <3>4. CASE ~e.ok
      BY <3>4, <2>3, <1>8
    <3>5. QED
      BY <3>3, <3>4
  <2>5. CASE t # q
    BY <2>2, <2>3, <2>5, <1>8
  <2>6. QED
    BY <2>4, <2>5
\* The doubly indirect block is none of those it points to.
<1>16. ASSUME NEW l \in 0 .. L - 1, e.ok
       PROVE  /\ e.blocks[l] # 0 /\ AsIndex(c.store[q])[l] = e.blocks[l]
              /\ c.store[e.blocks[l]] = e.store[e.blocks[l]]
  <2>1. l \in Slots /\ e.blocks[l] # 0 /\ e.blocks[l] \in Sectors
    BY <1>4, <1>5, <1>16 DEF BlocksDone
  <2>2. up2[e.blocks[l]] = <<q, l>>
    BY <2>1, <1>4 DEF Linked, Link
  <2>3. q # 0 /\ up2[q] = <<h, k>>
    BY <1>7, <1>13, <1>16 DEF Link
  <2>4. up2[h] = <<h, RootSlot>>
    BY <1>11 DEF Extends
  <2>5. e.blocks[l] # q
    BY <2>2, <2>3, <2>4 DEF RootSlot
  <2>6. QED
    BY <2>1, <2>5, <1>8, <1>16
<1>17. DoublyDone(c, n)
  <2>1. SUFFICES ASSUME c.ok
                 PROVE  c.ptr # 0 /\
                   \A l \in 0 .. L - 1 :
                     /\ AsIndex(c.store[c.ptr])[l] # 0
                     /\ \A j \in 0 .. Inner(n, l) - 1 :
                          AsIndex(c.store[AsIndex(c.store[c.ptr])[l]])[j] # 0
    BY DEF DoublyDone, L
  <2>2. e.ok /\ c.ptr = q /\ q # 0
    BY <2>1, <1>7, <1>8
  <2>3. QED
    BY <2>2, <1>4, <1>16 DEF InnerDone
<1>18. DoublyUsed(a, c, n)
  <2>1. SUFFICES ASSUME c.ok, NEW t \in c.map \ a.map, t # q
                 PROVE  \E l \in 0 .. L - 1 :
                          \/ AsIndex(c.store[q])[l] = t
                          \/ \E j \in 0 .. Inner(n, l) - 1 :
                               AsIndex(c.store[AsIndex(c.store[q])[l]])[j] = t
    BY <1>8 DEF DoublyUsed, L
  <2>2. e.ok /\ t \in e.map \ b.map
    BY <2>1, <1>2, <1>8
  <2>3. PICK l \in 0 .. L - 1 :
          e.blocks[l] = t \/ \E j \in 0 .. Inner(n, l) - 1 : AsIndex(e.store[e.blocks[l]])[j] = t
    BY <2>2, <1>4 DEF InnerUsed
  <2>4. QED
    BY <2>2, <2>3, <1>16
<1>19. DoublyIndexed(up, a, p, h, k, n, up2, c)
  BY <1>2, <1>4, <1>8, <1>11, <1>14, <1>15, <1>17, <1>18 DEF DoublyIndexed
<1>20. QED
  BY <1>9, <1>19

----------------------------------------------------------------------------
(* The inode d of sector s.                                                *)
InodeFields == {"direct", "indirect", "doubly", "length"}

IsInode(d) == DOMAIN d = InodeFields /\ d = [x \in InodeFields |-> d[x]]

InodeLinks(up, map, d, s) ==
    /\ IsInode(d)
    /\ d.direct \in [DirectSlots -> Sectors] /\ d.indirect \in Sectors /\ d.doubly \in Sectors
    /\ \A i \in DirectSlots : Link(up, map, d.direct[i], s, i)
    /\ Link(up, map, d.indirect, s, IndirectSlot) /\ Link(up, map, d.doubly, s, DoublySlot)

Root(up, map, s) == s \in map \ Meta /\ up[s] = <<s, RootSlot>>

\* The pointers of d that were set are kept in d2.
InodeKept(d, d2) ==
    /\ d2.length = d.length
    /\ \A i \in DirectSlots : d.direct[i] # 0 => d2.direct[i] = d.direct[i]
    /\ d.indirect # 0 => d2.indirect = d.indirect
    /\ d.doubly # 0 => d2.doubly = d.doubly

\* An inode has all the blocks that n data blocks call for ...
WholeDirect(d, n) == \A i \in 0 .. Lesser(n, DIRECT_BLOCKS_COUNT) - 1 : d.direct[i] # 0

SinglyBlocks(n) == Lesser(n - DIRECT_BLOCKS_COUNT, INDIRECT_BLOCKS_PER_SECTOR)
DoublyBlocks(n) == Lesser(n, BlockLimit) - SinglyLimit
DoublyIndexes(n) == Ceiling(DoublyBlocks(n), INDIRECT_BLOCKS_PER_SECTOR)

WholeSingly(store, d, n) == n > DIRECT_BLOCKS_COUNT =>
    d.indirect # 0 /\ \A j \in 0 .. SinglyBlocks(n) - 1 : AsIndex(store[d.indirect])[j] # 0

WholeDoubly(store, d, n) == n > SinglyLimit => d.doubly # 0 /\
    \A l \in 0 .. DoublyIndexes(n) - 1 :
        /\ AsIndex(store[d.doubly])[l] # 0
        /\ \A j \in 0 .. Inner(DoublyBlocks(n), l) - 1 :
              AsIndex(store[AsIndex(store[d.doubly])[l]])[j] # 0

Whole(store, d, n) == WholeDirect(d, n) /\ WholeSingly(store, d, n) /\ WholeDoubly(store, d, n)

\* ... and t is one of them.
HasDirect(d, n, t) == \E i \in 0 .. Lesser(n, DIRECT_BLOCKS_COUNT) - 1 : d.direct[i] = t

HasSingly(store, d, n, t) == n > DIRECT_BLOCKS_COUNT /\
    \/ d.indirect = t
    \/ \E j \in 0 .. SinglyBlocks(n) - 1 : AsIndex(store[d.indirect])[j] = t

HasDoubly(store, d, n, t) == n > SinglyLimit /\
    \/ d.doubly = t
    \/ \E l \in 0 .. DoublyIndexes(n) - 1 :
         \/ AsIndex(store[d.doubly])[l] = t
         \/ \E j \in 0 .. Inner(DoublyBlocks(n), l) - 1 :
              AsIndex(store[AsIndex(store[d.doubly])[l]])[j] = t

Has(store, d, n, t) == HasDirect(d, n, t) \/ HasSingly(store, d, n, t) \/ HasDoubly(store, d, n, t)

LEMMA FieldSet ==
    ASSUME NEW d, IsInode(d), NEW v
    PROVE  /\ IsInode([d EXCEPT !.direct = v]) /\ IsInode([d EXCEPT !.indirect = v])
           /\ IsInode([d EXCEPT !.doubly = v]) /\ IsInode([d EXCEPT !.length = v])
  BY DEF IsInode

LEMMA LinkKept ==
    ASSUME NEW up, NEW map, NEW up2, NEW map2, Extends(up, map, up2, map2),
           NEW u, NEW h, NEW j, Link(up, map, u, h, j)
    PROVE  Link(up2, map2, u, h, j)
  BY DEF Link, Extends

----------------------------------------------------------------------------
(* One part of inode_reserve for the inode of sector s: what it makes of a.*)
Part(up, a, s, up2, c) ==
    /\ AllocOK(c) /\ Heap(up2, c.map, c.store) /\ Extends(up, a.map, up2, c.map)
    /\ Kept(up, a.map, a.store, c.store)
    /\ InodeLinks(up2, c.map, c.d, s) /\ InodeKept(a.d, c.d) /\ (c.ok => a.ok)

LEMMA NoPart ==
    ASSUME NEW up, NEW a, AllocOK(a), Heap(up, a.map, a.store), NEW s, InodeLinks(up, a.map, a.d, s)
    PROVE  Part(up, a, s, up, a)
  BY DEF Part, Extends, Kept, InodeKept

LEMMA DirectPart ==
    ASSUME NEW up, NEW a, AllocOK(a), Heap(up, a.map, a.store),
           NEW s \in Sectors, InodeLinks(up, a.map, a.d, s), NEW n, a.ok => n \in Nat
    PROVE  LET c == ReserveDirect(a, n)
           IN  \E up2 : /\ Part(up, a, s, up2, c)
                        /\ c.ok => WholeDirect(c.d, n) /\ \A t \in c.map \ a.map : HasDirect(c.d, n, t)
<1> DEFINE l == Lesser(n, DIRECT_BLOCKS_COUNT)
           e == ReserveBlocks(a, a.d.direct, l)
           c == ReserveDirect(a, n)
<1>1. CASE ~a.ok
  <2>1. c = a
    BY <1>1 DEF ReserveDirect
  <2>2. QED
    BY <1>1, <2>1, NoPart
<1>2. CASE a.ok
  <2>1. l \in Nat /\ 0 .. l - 1 \subseteq DirectSlots /\ DirectSlots \subseteq Int
    BY <1>2, Geometry DEF Lesser, DirectSlots
  <2>2. /\ a.d.direct \in [DirectSlots -> Sectors]
        /\ \A j \in DirectSlots : Link(up, a.map, a.d.direct[j], s, j)
    BY DEF InodeLinks
  <2>3. PICK up2 : Filled(up, a, a.d.direct, s, DirectSlots, l, up2, e)
    <3> HIDE DEF l
    <3>1. QED
      BY <2>1, <2>2, ReservesBlocks
  <2>4. c = [e EXCEPT !.d.direct = e.blocks]
    BY <1>2 DEF ReserveDirect
  <2> HIDE DEF e, l
  <2>5. /\ AllocOK(e) /\ e.d = a.d
        /\ Heap(up2, e.map, e.store) /\ Extends(up, a.map, up2, e.map)
        /\ e.blocks \in [DirectSlots -> Sectors]
        /\ PointersKept(DirectSlots, a.d.direct, a, e) /\ Linked(up2, DirectSlots, e, s)
        /\ BlocksDone(e, l) /\ AllUsed(a, e, l) /\ OnlyNew(a, e)
    BY <2>3 DEF Filled
  <2>6. /\ AllocOK(c) /\ c.map = e.map /\ c.store = e.store /\ c.ok = e.ok
        /\ c.d = [a.d EXCEPT !.direct = e.blocks]
    BY <2>4, <2>5 DEF AllocOK
  <2> HIDE DEF c
  <2>7. /\ IsInode(c.d) /\ c.d.direct = e.blocks /\ c.d.indirect = a.d.indirect
        /\ c.d.doubly = a.d.doubly /\ c.d.length = a.d.length
    BY <2>6, FieldSet DEF InodeLinks, IsInode, InodeFields
  <2>8. InodeLinks(up2, c.map, c.d, s)
    <3>1. \A i \in DirectSlots : Link(up2, c.map, c.d.direct[i], s, i)
      BY <2>5, <2>6, <2>7 DEF Linked
    <3>2. Link(up2, c.map, c.d.indirect, s, IndirectSlot) /\ Link(up2, c.map, c.d.doubly, s, DoublySlot)
      BY <2>5, <2>6, <2>7 DEF InodeLinks, Link, Extends
    <3>3. QED
      BY <3>1, <3>2, <2>5, <2>7 DEF InodeLinks
  <2>9. InodeKept(a.d, c.d)
    BY <2>5, <2>7 DEF InodeKept, PointersKept
  <2>10. Kept(up, a.map, a.store, c.store)
    BY <2>5, <2>6 DEF Kept, OnlyNew
  <2>11. c.ok => WholeDirect(c.d, n) /\ \A t \in c.map \ a.map : HasDirect(c.d, n, t)
    BY <2>5, <2>6, <2>7 DEF WholeDirect, HasDirect, BlocksDone, AllUsed, l
  <2>12. Part(up, a, s, up2, c)
    BY <1>2, <2>5, <2>6, <2>8, <2>9, <2>10 DEF Part
  <2>13. QED
    BY <2>11, <2>12 DEF c
<1>3. QED
  BY <1>1, <1>2

LEMMA SinglyPart ==
    ASSUME NEW up, NEW a, AllocOK(a), Heap(up, a.map, a.store),
           NEW s \in Sectors, InodeLinks(up, a.map, a.d, s), NEW n, a.ok => n \in Nat
    PROVE  LET c == ReserveSingly(a, n)
           IN  \E up2 : /\ Part(up, a, s, up2, c) /\ c.d.direct = a.d.direct
                        /\ c.ok => WholeSingly(c.store, c.d, n)
                                   /\ \A t \in c.map \ a.map : HasSingly(c.store, c.d, n, t)
<1> DEFINE m == SinglyBlocks(n)
           p == a.d.indirect
           e == Level1(a, p, m)
           c == ReserveSingly(a, n)
<1>1. CASE ~(a.ok /\ n - DIRECT_BLOCKS_COUNT > 0)
  <2>1. c = a
    BY <1>1 DEF ReserveSingly
  <2>2. a.ok => ~(n > DIRECT_BLOCKS_COUNT)
    BY <1>1, Geometry
  <2>3. QED
    BY <2>1, <2>2, NoPart DEF WholeSingly
<1>2. CASE a.ok /\ n - DIRECT_BLOCKS_COUNT > 0
  <2>1. m \in 1 .. INDIRECT_BLOCKS_PER_SECTOR /\ IndirectSlot \in Nat /\ a.ok = TRUE
        /\ n > DIRECT_BLOCKS_COUNT
    BY <1>2, Geometry DEF SinglyBlocks, Lesser, IndirectSlot, AllocOK
  <2>2. Link(up, a.map, p, s, IndirectSlot)
    BY DEF InodeLinks
  <2>3. PICK up2 : Indexed(up, a, p, s, IndirectSlot, m, up2, e)
    <3> HIDE DEF m, p
    <3>1. QED
      BY <2>1, <2>2, ReservesLevel1
  <2>4. c = [e EXCEPT !.d.indirect = e.ptr]
    BY <1>2 DEF ReserveSingly, SinglyBlocks
  <2> HIDE DEF e, m
  <2>5. /\ AllocOK(e) /\ e.d = a.d
        /\ Heap(up2, e.map, e.store) /\ Extends(up, a.map, up2, e.map)
        /\ IndexPtr(up2, a, p, s, IndirectSlot, e) /\ OneIndex(a, p, e) /\ IndexDone(a, e, m)
    BY <2>3 DEF Indexed
  <2>6. /\ AllocOK(c) /\ c.map = e.map /\ c.store = e.store /\ c.ok = e.ok
        /\ c.d = [a.d EXCEPT !.indirect = e.ptr]
    BY <2>4, <2>5 DEF AllocOK
  <2> HIDE DEF c
  <2>7. /\ IsInode(c.d) /\ c.d.direct = a.d.direct /\ c.d.indirect = e.ptr
        /\ c.d.doubly = a.d.doubly /\ c.d.length = a.d.length
    BY <2>6, FieldSet DEF InodeLinks, IsInode, InodeFields
  <2>8. Link(up2, e.map, e.ptr, s, IndirectSlot) /\ (e.ptr = p \/ p = 0)
    BY <2>5 DEF IndexPtr
  <2>9. InodeLinks(up2, c.map, c.d, s)
    <3>1. e.ptr \in Sectors
      BY <2>5, <2>8, Geometry DEF Link, Heap, MapOK
    <3>2. ASSUME NEW i \in DirectSlots PROVE Link(up2, c.map, c.d.direct[i], s, i)
      <4>1. Link(up, a.map, a.d.direct[i], s, i)
        BY DEF InodeLinks
      <4>2. QED
        BY <4>1, <2>5, <2>6, <2>7, LinkKept
    <3>3. Link(up2, c.map, c.d.doubly, s, DoublySlot)
      BY <2>5, <2>6, <2>7 DEF InodeLinks, Link, Extends
    <3>4. QED
      BY <3>1, <3>2, <3>3, <2>6, <2>7, <2>8 DEF InodeLinks
  <2>10. InodeKept(a.d, c.d)
    BY <2>7, <2>8 DEF InodeKept
  <2>11. Kept(up, a.map, a.store, c.store)
    <3>1. SUFFICES ASSUME NEW t \in a.map \ {0}
                   PROVE  c.store[t] = a.store[t]
                          \/ (up[t][2] # RootSlot /\ Grows(a.store[t], c.store[t]))
      BY DEF Kept
    <3>2. CASE t = p
      <4>1. up[t] = <<s, IndirectSlot>>
        BY <2>2, <3>1, <3>2 DEF Link
      <4>2. up[t][2] # RootSlot
        BY <4>1, <2>1 DEF RootSlot
      <4>3. QED
        BY <3>1, <3>2, <4>2, <2>5, <2>6 DEF OneIndex
    <3>3. CASE t # p
      BY <3>1, <3>3, <2>5, <2>6 DEF OneIndex
    <3>4. QED
      BY <3>2, <3>3
  <2>12. c.ok => WholeSingly(c.store, c.d, n) /\ \A t \in c.map \ a.map : HasSingly(c.store, c.d, n, t)
    BY <2>1, <2>5, <2>6, <2>7 DEF WholeSingly, HasSingly, IndexDone, m
  <2>13. Part(up, a, s, up2, c)
    BY <1>2, <2>5, <2>6, <2>9, <2>10, <2>11 DEF Part
  <2>14. QED
    BY <2>7, <2>12, <2>13 DEF c
<1>3. QED
  BY <1>1, <1>2

LEMMA DoublyPart ==
    ASSUME NEW up, NEW a, AllocOK(a), Heap(up, a.map, a.store),
           NEW s \in Sectors, InodeLinks(up, a.map, a.d, s), Root(up, a.map, s),
           NEW n, a.ok => n \in Nat
    PROVE  LET c == ReserveDoubly(a, n)
           IN  \E up2 : /\ Part(up, a, s, up2, c)
                        /\ c.d.direct = a.d.direct /\ c.d.indirect = a.d.indirect
                        /\ c.ok => WholeDoubly(c.store, c.d, n)
                                   /\ \A t \in c.map \ a.map : HasDoubly(c.store, c.d, n, t)
<1> DEFINE m == DoublyBlocks(n)
           p == a.d.doubly
           e == Level2(a, p, m)
           c == ReserveDoubly(a, n)
<1>0. a.ok => (m > 0 <=> n > SinglyLimit)
  BY Capacities DEF DoublyBlocks, Lesser
<1>1. CASE ~(a.ok /\ m > 0)
  <2>1. c = a
    BY <1>1 DEF ReserveDoubly, DoublyBlocks
  <2>2. a.ok => ~(n > SinglyLimit)
    BY <1>0, <1>1
  <2>3. QED
    BY <2>1, <2>2, NoPart DEF WholeDoubly
<1>2. CASE a.ok /\ m > 0
  <2>1. /\ m \in 1 .. INDIRECT_BLOCKS_PER_SECTOR * INDIRECT_BLOCKS_PER_SECTOR
        /\ DoublySlot \in Nat /\ a.ok = TRUE /\ n > SinglyLimit
    BY <1>0, <1>2, Capacities DEF DoublyBlocks, Lesser, DoublySlot, AllocOK
  <2>2. Link(up, a.map, p, s, DoublySlot) /\ s \in a.map /\ up[s] = <<s, RootSlot>>
    BY DEF InodeLinks, Root
  <2>3. PICK up2 : DoublyIndexed(up, a, p, s, DoublySlot, m, up2, e)
    <3> HIDE DEF m, p
    <3>1. QED
      BY <2>1, <2>2, ReservesLevel2
  <2>4. c = [e EXCEPT !.d.doubly = e.ptr]
    BY <1>2 DEF ReserveDoubly, DoublyBlocks
  <2> HIDE DEF e, m
  <2>5. /\ AllocOK(e) /\ e.d = a.d
        /\ Heap(up2, e.map, e.store) /\ Extends(up, a.map, up2, e.map)
        /\ IndexPtr(up2, a, p, s, DoublySlot, e) /\ Kept(up, a.map, a.store, e.store)
        /\ DoublyDone(e, m) /\ DoublyUsed(a, e, m)
    BY <2>3 DEF DoublyIndexed
  <2>6. /\ AllocOK(c) /\ c.map = e.map /\ c.store = e.store /\ c.ok = e.ok
        /\ c.d = [a.d EXCEPT !.doubly = e.ptr]
    BY <2>4, <2>5 DEF AllocOK
  <2> HIDE DEF c
  <2>7. /\ IsInode(c.d) /\ c.d.direct = a.d.direct /\ c.d.doubly = e.ptr
        /\ c.d.indirect = a.d.indirect /\ c.d.length = a.d.length
    BY <2>6, FieldSet DEF InodeLinks, IsInode, InodeFields
  <2>8. Link(up2, e.map, e.ptr, s, DoublySlot) /\ (e.ptr = p \/ p = 0)
    BY <2>5 DEF IndexPtr
  <2>9. InodeLinks(up2, c.map, c.d, s)
    <3>1. e.ptr \in Sectors
      BY <2>5, <2>8, Geometry DEF Link, Heap, MapOK
    <3>2. ASSUME NEW i \in DirectSlots PROVE Link(up2, c.map, c.d.direct[i], s, i)
      <4>1. Link(up, a.map, a.d.direct[i], s, i)
        BY DEF InodeLinks
      <4>2. QED
        BY <4>1, <2>5, <2>6, <2>7, LinkKept
    <3>3. Link(up2, c.map, c.d.indirect, s, IndirectSlot)
      BY <2>5, <2>6, <2>7 DEF InodeLinks, Link, Extends
    <3>4. QED
      BY <3>1, <3>2, <3>3, <2>6, <2>7, <2>8 DEF InodeLinks
  <2>10. InodeKept(a.d, c.d)
    BY <2>7, <2>8 DEF InodeKept
  <2>11. c.ok => WholeDoubly(c.store, c.d, n) /\ \A t \in c.map \ a.map : HasDoubly(c.store, c.d, n, t)
    <3>1. ASSUME c.ok PROVE WholeDoubly(c.store, c.d, n)
      BY <2>1, <2>5, <2>6, <2>7, <3>1 DEF WholeDoubly, DoublyDone, DoublyIndexes, m
    <3>2. ASSUME c.ok, NEW t \in c.map \ a.map PROVE HasDoubly(c.store, c.d, n, t)
      BY <2>1, <2>5, <2>6, <2>7, <3>2 DEF HasDoubly, DoublyUsed, DoublyIndexes, m
    <3>3. QED
      BY <3>1, <3>2
  <2>12. Part(up, a, s, up2, c)
    BY <1>2, <2>5, <2>6, <2>9, <2>10 DEF Part
  <2>13. QED
    BY <2>7, <2>11, <2>12 DEF c
<1>3. QED
  BY <1>1, <1>2

LEMMA BlocksOf ==
    ASSUME NEW length \in Int
    PROVE  bytes_to_sectors(length) \in Int /\ (length >= 0 => bytes_to_sectors(length) \in Nat)
<1> DEFINE n == Ceiling(length, BLOCK_SECTOR_SIZE)
<1>1. BLOCK_SECTOR_SIZE \in Nat \ {0} /\ n \in Int /\ length <= BLOCK_SECTOR_SIZE * n
  BY Capacities, CeilingBounds
<1>2. n = bytes_to_sectors(length)
  BY DEF Ceiling, bytes_to_sectors
<1> HIDE DEF n
<1>3. ASSUME length >= 0, n <= -1 PROVE FALSE
  <2>1. BLOCK_SECTOR_SIZE * n <= -BLOCK_SECTOR_SIZE
    BY <1>1, <1>3
  <2>2. QED
    BY <1>1, <1>3, <2>1
<1>4. QED
  BY <1>1, <1>2, <1>3

LEMMA BlockRanges ==
    ASSUME NEW n \in Nat
    PROVE  /\ 0 .. Lesser(n, DIRECT_BLOCKS_COUNT) - 1 \subseteq DirectSlots
           /\ n > DIRECT_BLOCKS_COUNT => 0 .. SinglyBlocks(n) - 1 \subseteq Slots
           /\ n > SinglyLimit => \A l \in 0 .. DoublyIndexes(n) - 1 :
                l \in Slots /\ 0 .. Inner(DoublyBlocks(n), l) - 1 \subseteq Slots
<1>1. 0 .. Lesser(n, DIRECT_BLOCKS_COUNT) - 1 \subseteq DirectSlots
  BY Geometry DEF Lesser, DirectSlots
<1>2. n > DIRECT_BLOCKS_COUNT => 0 .. SinglyBlocks(n) - 1 \subseteq Slots
  BY Geometry DEF Lesser, SinglyBlocks, Slots
<1>3. ASSUME n > SinglyLimit, NEW l \in 0 .. DoublyIndexes(n) - 1
      PROVE  l \in Slots /\ 0 .. Inner(DoublyBlocks(n), l) - 1 \subseteq Slots
  <2>1. DoublyBlocks(n) \in 1 .. INDIRECT_BLOCKS_PER_SECTOR * INDIRECT_BLOCKS_PER_SECTOR
    BY <1>3, Capacities DEF DoublyBlocks, Lesser
  <2>2. l \in Slots /\ Inner(DoublyBlocks(n), l) \in 1 .. INDIRECT_BLOCKS_PER_SECTOR
    BY <1>3, <2>1, IndexCount DEF DoublyIndexes
  <2>3. QED
    BY <2>2, Geometry DEF Slots
<1>4. QED
  BY <1>1, <1>2, <1>3

LEMMA PointerKept ==
    ASSUME NEW up, NEW map, NEW store, NEW store2, Kept(up, map, store, store2),
           NEW t \in map \ {0}, NEW j \in Slots, AsIndex(store[t])[j] # 0
    PROVE  AsIndex(store2[t])[j] = AsIndex(store[t])[j]
  BY DEF Kept, Grows

\* What an inode has stays, when pointers are kept.
LEMMA SinglyKept ==
    ASSUME NEW up, NEW map, NEW store, Heap(up, map, store), NEW d, NEW s, InodeLinks(up, map, d, s),
           NEW store2, Kept(up, map, store, store2), NEW d2, InodeKept(d, d2),
           NEW n \in Nat, WholeSingly(store, d, n)
    PROVE  /\ WholeSingly(store2, d2, n)
           /\ \A t : HasSingly(store, d, n, t) => HasSingly(store2, d2, n, t)
<1>1. CASE n > DIRECT_BLOCKS_COUNT
  <2> DEFINE q == d.indirect
  <2>1. q # 0 /\ q \in map \ {0} /\ d2.indirect = q
    BY <1>1 DEF WholeSingly, InodeKept, InodeLinks, Link
  <2>2. ASSUME NEW j \in 0 .. SinglyBlocks(n) - 1
        PROVE  /\ AsIndex(store[q])[j] # 0
               /\ AsIndex(store2[d2.indirect])[j] = AsIndex(store[q])[j]
    <3>1. j \in Slots /\ AsIndex(store[q])[j] # 0
      BY <1>1, BlockRanges DEF WholeSingly
    <3>2. QED
      BY <3>1, <2>1, PointerKept
  <2>3. QED
    BY <1>1, <2>1, <2>2 DEF WholeSingly, HasSingly
<1>2. CASE ~(n > DIRECT_BLOCKS_COUNT)
  BY <1>2 DEF WholeSingly, HasSingly
<1>3. QED
  BY <1>1, <1>2

LEMMA DoublyKept ==
    ASSUME NEW up, NEW map, NEW store, Heap(up, map, store), NEW d, NEW s, InodeLinks(up, map, d, s),
           NEW store2, Kept(up, map, store, store2), NEW d2, InodeKept(d, d2),
           NEW n \in Nat, WholeDoubly(store, d, n)
    PROVE  /\ WholeDoubly(store2, d2, n)
           /\ \A t : HasDoubly(store, d, n, t) => HasDoubly(store2, d2, n, t)
<1>1. CASE n > SinglyLimit
  <2> DEFINE q == d.doubly
             r(l) == AsIndex(store[q])[l]
  <2>1. q # 0 /\ q \in map \ {0} /\ d2.doubly = q /\ up[q][2] # RootSlot
    <3>1. up[q] = <<s, DoublySlot>> /\ q # 0 /\ q \in map \ {0} /\ d2.doubly = q
      BY <1>1 DEF WholeDoubly, InodeKept, InodeLinks, Link
    <3>2. QED
      BY <3>1, Geometry DEF DoublySlot, RootSlot
  <2>2. ASSUME NEW l \in 0 .. DoublyIndexes(n) - 1
        PROVE  /\ AsIndex(store2[d2.doubly])[l] = r(l) /\ r(l) # 0
               /\ \A j \in 0 .. Inner(DoublyBlocks(n), l) - 1 :
                     AsIndex(store[r(l)])[j] # 0 /\ AsIndex(store2[r(l)])[j] = AsIndex(store[r(l)])[j]
    <3>1. l \in Slots /\ r(l) # 0
      BY <1>1, BlockRanges DEF WholeDoubly
    <3>2. AsIndex(store2[d2.doubly])[l] = r(l)
      BY <3>1, <2>1, PointerKept
    <3>3. r(l) \in map \ {0}
      BY <2>1, <3>1 DEF Heap, Forest, Link
    <3>4. ASSUME NEW j \in 0 .. Inner(DoublyBlocks(n), l) - 1
          PROVE  AsIndex(store[r(l)])[j] # 0 /\ AsIndex(store2[r(l)])[j] = AsIndex(store[r(l)])[j]
      <4>1. j \in Slots /\ AsIndex(store[r(l)])[j] # 0
        BY <1>1, BlockRanges DEF WholeDoubly
      <4> HIDE DEF r
      <4>2. QED
        BY <4>1, <3>3, PointerKept
    <3>5. QED
      BY <3>1, <3>2, <3>4
  <2>3. WholeDoubly(store2, d2, n)
    BY <1>1, <2>1, <2>2 DEF WholeDoubly
  <2>4. ASSUME NEW t, HasDoubly(store, d, n, t) PROVE HasDoubly(store2, d2, n, t)
    <3>1. CASE d.doubly = t
      BY <1>1, <2>1, <3>1 DEF HasDoubly
    <3>2. CASE \E l \in 0 .. DoublyIndexes(n) - 1 : r(l) = t
      BY <1>1, <2>2, <3>2 DEF HasDoubly
    <3>3. ASSUME NEW l \in 0 .. DoublyIndexes(n) - 1,
                 NEW j \in 0 .. Inner(DoublyBlocks(n), l) - 1, AsIndex(store[r(l)])[j] = t
          PROVE  HasDoubly(store2, d2, n, t)
      BY <1>1, <2>2, <3>3 DEF HasDoubly
    <3>4. QED
      BY <2>4, <3>1, <3>2, <3>3 DEF HasDoubly
  <2>5. QED
    BY <2>3, <2>4
<1>2. CASE ~(n > SinglyLimit)
  BY <1>2 DEF WholeDoubly, HasDoubly
<1>3. QED
  BY <1>1, <1>2

LEMMA DirectKept ==
    ASSUME NEW d, NEW d2, InodeKept(d, d2), NEW n \in Nat, WholeDirect(d, n)
    PROVE  WholeDirect(d2, n) /\ \A t : HasDirect(d, n, t) => HasDirect(d2, n, t)
<1>1. \A i \in 0 .. Lesser(n, DIRECT_BLOCKS_COUNT) - 1 : d2.direct[i] = d.direct[i]
  BY BlockRanges DEF WholeDirect, InodeKept
<1>2. QED
  BY <1>1 DEF WholeDirect, HasDirect

LEMMA WholeKept ==
    ASSUME NEW up, NEW map, NEW store, Heap(up, map, store), NEW d, NEW s, InodeLinks(up, map, d, s),
           NEW store2, Kept(up, map, store, store2), NEW d2, InodeKept(d, d2),
           NEW n \in Nat, Whole(store, d, n)
    PROVE  Whole(store2, d2, n) /\ \A t : Has(store, d, n, t) => Has(store2, d2, n, t)
<1>1. WholeDirect(d2, n) /\ \A t : HasDirect(d, n, t) => HasDirect(d2, n, t)
  BY DirectKept DEF Whole
<1>2. /\ WholeSingly(store2, d2, n)
      /\ \A t : HasSingly(store, d, n, t) => HasSingly(store2, d2, n, t)
  BY SinglyKept DEF Whole
<1>3. /\ WholeDoubly(store2, d2, n)
      /\ \A t : HasDoubly(store, d, n, t) => HasDoubly(store2, d2, n, t)
  BY DoublyKept DEF Whole
<1>4. QED
  BY <1>1, <1>2, <1>3 DEF Whole, Has

LEMMA ExtendsOn ==
    ASSUME NEW up, NEW map, NEW up1, NEW map1, Extends(up, map, up1, map1),
           NEW up2, NEW map2, Extends(up1, map1, up2, map2)
    PROVE  Extends(up, map, up2, map2)
  BY DEF Extends

LEMMA KeptOn ==
    ASSUME NEW up, NEW map, NEW store, NEW up1, NEW map1, Extends(up, map, up1, map1),
           NEW store1, Kept(up, map, store, store1), NEW store2, Kept(up1, map1, store1, store2)
    PROVE  Kept(up, map, store, store2)
<1>1. SUFFICES ASSUME NEW t \in map \ {0}
               PROVE  store2[t] = store[t] \/ (up[t][2] # RootSlot /\ Grows(store[t], store2[t]))
  BY DEF Kept
<1>2. t \in map1 \ {0} /\ up1[t] = up[t]
  BY DEF Extends
<1>3. store1[t] = store[t] \/ (up[t][2] # RootSlot /\ Grows(store[t], store1[t]))
  BY DEF Kept
<1>4. store2[t] = store1[t] \/ (up[t][2] # RootSlot /\ Grows(store1[t], store2[t]))
  BY <1>2 DEF Kept
<1>5. CASE store2[t] = store1[t]
  BY <1>3, <1>5
<1>6. CASE up[t][2] # RootSlot /\ Grows(store1[t], store2[t])
  <2>1. Grows(store[t], store1[t])
    BY <1>3 DEF Grows
  <2>2. QED
    BY <1>6, <2>1, GrowsOn
<1>7. QED
  BY <1>4, <1>5, <1>6

LEMMA InodeKeptOn ==
    ASSUME NEW d, NEW d1, InodeKept(d, d1), NEW d2, InodeKept(d1, d2) PROVE InodeKept(d, d2)
  BY DEF InodeKept

----------------------------------------------------------------------------
(* inode_reserve                                                           *)
Reserved(up, map, store, d, s, n, up2, a) ==
    /\ AllocOK(a) /\ Heap(up2, a.map, a.store) /\ Extends(up, map, up2, a.map)
    /\ Kept(up, map, store, a.store)
    /\ InodeLinks(up2, a.map, a.d, s) /\ InodeKept(d, a.d)
    /\ a.ok => n \in Nat /\ Whole(a.store, a.d, n) /\ \A t \in a.map \ map : Has(a.store, a.d, n, t)

LEMMA Reserves ==
    ASSUME NEW up, NEW map, NEW store, Heap(up, map, store), NEW s \in Sectors, Root(up, map, s),
           NEW d, InodeLinks(up, map, d, s), NEW length \in Int
    PROVE  \E up2 : Reserved(up, map, store, d, s, bytes_to_sectors(length), up2,
                             inode_reserve(map, store, d, length))
<1> DEFINE n == bytes_to_sectors(length)
           a == [map |-> map, store |-> store, d |-> d, ptr |-> 0, blocks |-> <<>>,
                 ok |-> length >= 0]
           x == ReserveDirect(a, n)
           y == ReserveSingly(x, n)
           z == ReserveDoubly(y, n)
<1>1. AllocOK(a) /\ a.map = map /\ a.store = store /\ a.d = d /\ (a.ok => n \in Nat)
  <2>1. /\ DOMAIN a = {"map", "store", "d", "ptr", "blocks", "ok"} /\ a.ok = (length >= 0)
        /\ a.map = map /\ a.store = store /\ a.d = d
    BY Zenon
  <2>2. (length >= 0) \in BOOLEAN /\ (length >= 0 => n \in Nat)
    BY BlocksOf
  <2> HIDE DEF a, n
  <2>3. QED
    BY <2>1, <2>2 DEF AllocOK
<1>2. inode_reserve(map, store, d, length) = z
  BY DEF inode_reserve
<1> HIDE DEF a, n
<1>3. PICK up1 : /\ Part(up, a, s, up1, x)
                 /\ x.ok => WholeDirect(x.d, n) /\ \A t \in x.map \ a.map : HasDirect(x.d, n, t)
  BY <1>1, DirectPart
<1> HIDE DEF x
<1>4. /\ AllocOK(x) /\ Heap(up1, x.map, x.store) /\ Extends(up, map, up1, x.map)
      /\ Kept(up, map, store, x.store)
      /\ InodeLinks(up1, x.map, x.d, s) /\ InodeKept(d, x.d) /\ (x.ok => n \in Nat)
  BY <1>1, <1>3 DEF Part
<1>5. PICK up2 : /\ Part(up1, x, s, up2, y) /\ y.d.direct = x.d.direct
                 /\ y.ok => WholeSingly(y.store, y.d, n)
                            /\ \A t \in y.map \ x.map : HasSingly(y.store, y.d, n, t)
  BY <1>4, SinglyPart
<1> HIDE DEF y
<1>6. /\ AllocOK(y) /\ Heap(up2, y.map, y.store) /\ Extends(up1, x.map, up2, y.map)
      /\ Kept(up1, x.map, x.store, y.store)
      /\ InodeLinks(up2, y.map, y.d, s) /\ InodeKept(x.d, y.d) /\ (y.ok => x.ok /\ n \in Nat)
  BY <1>4, <1>5 DEF Part
<1>7. Extends(up, map, up2, y.map) /\ Kept(up, map, store, y.store) /\ InodeKept(d, y.d)
  BY <1>4, <1>6, ExtendsOn, KeptOn, InodeKeptOn
<1>8. Root(up2, y.map, s)
  BY <1>7 DEF Root, Extends
<1>9. PICK up3 : /\ Part(up2, y, s, up3, z)
                 /\ z.d.direct = y.d.direct /\ z.d.indirect = y.d.indirect
                 /\ z.ok => WholeDoubly(z.store, z.d, n)
                            /\ \A t \in z.map \ y.map : HasDoubly(z.store, z.d, n, t)
  BY <1>6, <1>8, DoublyPart
<1> HIDE DEF z
<1>10. /\ AllocOK(z) /\ Heap(up3, z.map, z.store) /\ Extends(up2, y.map, up3, z.map)
       /\ Kept(up2, y.map, y.store, z.store)
       /\ InodeLinks(up3, z.map, z.d, s) /\ InodeKept(y.d, z.d)
       /\ (z.ok => x.ok /\ y.ok /\ n \in Nat)
  BY <1>6, <1>9 DEF Part
<1>11. Extends(up, map, up3, z.map) /\ Kept(up, map, store, z.store) /\ InodeKept(d, z.d)
  BY <1>7, <1>10, ExtendsOn, KeptOn, InodeKeptOn
<1>12. ASSUME z.ok
       PROVE  /\ n \in Nat /\ Whole(z.store, z.d, n)
              /\ \A t \in z.map \ map : Has(z.store, z.d, n, t)
  <2>1. x.ok /\ y.ok /\ n \in Nat
    BY <1>10, <1>12
  <2>2. WholeDirect(z.d, n) /\ \A t \in x.map \ map : HasDirect(z.d, n, t)
    BY <2>1, <1>1, <1>3, <1>5, <1>9 DEF WholeDirect, HasDirect
  <2>3. /\ WholeSingly(z.store, z.d, n)
        /\ \A t : HasSingly(y.store, y.d, n, t) => HasSingly(z.store, z.d, n, t)
    BY <2>1, <1>5, <1>6, <1>10, SinglyKept
  <2>4. WholeDoubly(z.store, z.d, n) /\ \A t \in z.map \ y.map : HasDoubly(z.store, z.d, n, t)
    BY <1>9, <1>12
  <2>5. \A t \in y.map \ x.map : HasSingly(z.store, z.d, n, t)
    BY <2>1, <2>3, <1>5
  <2>6. QED
    BY <2>1, <2>2, <2>3, <2>4, <2>5 DEF Whole, Has
<1>13. Reserved(up, map, store, d, s, n, up3, z)
  BY <1>10, <1>11, <1>12 DEF Reserved
<1>14. QED
  BY <1>2, <1>13 DEF n

----------------------------------------------------------------------------
(* The sectors of an inode with n blocks: index_to_sector, inode_deallocate. *)

\* The index blocks for n data blocks.
IndexesFor(store, d, n) ==
    (IF n > DIRECT_BLOCKS_COUNT THEN {d.indirect} ELSE {})
    \cup (IF n - SinglyLimit > 0
          THEN {d.doubly} \cup {AsIndex(store[d.doubly])[i] :
                                  i \in 0 .. (n - SinglyLimit - 1) \div INDIRECT_BLOCKS_PER_SECTOR}
          ELSE {})

SectorsOf(store, d, n) == {index_to_sector(store, d, i) : i \in 0 .. n - 1} \cup IndexesFor(store, d, n)

\* The pointers that lead from inode s to its data blocks and index blocks.
DataPath(up, s, t) ==
    \/ up[t][1] = s /\ up[t][2] \in DirectSlots
    \/ up[t][2] \in Slots /\ up[up[t][1]] = <<s, IndirectSlot>>
    \/ up[t][2] \in Slots /\ up[up[t][1]][2] \in Slots /\ up[up[up[t][1]][1]] = <<s, DoublySlot>>

IndexPath(up, s, t) ==
    \/ up[t] = <<s, IndirectSlot>>
    \/ up[t] = <<s, DoublySlot>>
    \/ up[t][2] \in Slots /\ up[up[t][1]] = <<s, DoublySlot>>

\* A path ends at one inode, and leads to data or to an index block.
LEMMA SlotNumbers ==
    /\ RootSlot \notin Slots /\ RootSlot \notin DirectSlots /\ RootSlot # IndirectSlot
    /\ RootSlot # DoublySlot /\ IndirectSlot # DoublySlot
    /\ IndirectSlot \notin DirectSlots /\ DoublySlot \notin DirectSlots
    /\ IndirectSlot \in Nat /\ DoublySlot \in Nat /\ Slots \subseteq Nat /\ DirectSlots \subseteq Nat
    /\ 0 \in Slots
  BY Geometry DEF RootSlot, Slots, DirectSlots, IndirectSlot, DoublySlot

LEMMA PathToOne ==
    ASSUME NEW up, NEW s, up[s] = <<s, RootSlot>>, NEW r, up[r] = <<r, RootSlot>>, s # r,
           NEW t, DataPath(up, s, t) \/ IndexPath(up, s, t)
    PROVE  /\ ~DataPath(up, r, t) /\ ~IndexPath(up, r, t) /\ up[t][2] # RootSlot
<1> DEFINE Origin(x) == up[up[up[x][1]][1]][1]
<1>1. ASSUME NEW x, up[x] = <<x, RootSlot>>, DataPath(up, x, t) \/ IndexPath(up, x, t)
      PROVE  Origin(t) = x /\ up[t][2] # RootSlot
  <2>1. CASE DataPath(up, x, t)
    <3>1. CASE up[t][1] = x /\ up[t][2] \in DirectSlots
      BY <1>1, <3>1, SlotNumbers
    <3>2. CASE up[t][2] \in Slots /\ up[up[t][1]] = <<x, IndirectSlot>>
      BY <1>1, <3>2, SlotNumbers
    <3>3. CASE up[t][2] \in Slots /\ up[up[up[t][1]][1]] = <<x, DoublySlot>>
      BY <1>1, <3>3, SlotNumbers
    <3> HIDE DEF Origin
    <3>4. QED
      BY <2>1, <3>1, <3>2, <3>3 DEF DataPath
  <2>2. CASE IndexPath(up, x, t)
    BY <1>1, <2>2, SlotNumbers DEF IndexPath
  <2>3. QED
    BY <1>1, <2>1, <2>2
<1>2. QED
  BY <1>1

LEMMA DataOrIndex ==
    ASSUME NEW up, NEW s, up[s] = <<s, RootSlot>>, NEW r, up[r] = <<r, RootSlot>>,
           NEW t, DataPath(up, s, t)
    PROVE  ~IndexPath(up, r, t)
<1>1. CASE up[t][1] = s /\ up[t][2] \in DirectSlots
  BY <1>1, SlotNumbers DEF IndexPath
<1>2. CASE up[t][2] \in Slots /\ up[up[t][1]] = <<s, IndirectSlot>>
  BY <1>2, SlotNumbers DEF IndexPath
<1>3. CASE /\ up[t][2] \in Slots /\ up[up[t][1]][2] \in Slots
           /\ up[up[up[t][1]][1]] = <<s, DoublySlot>>
  <2>1. up[t] # <<r, IndirectSlot>> /\ up[t] # <<r, DoublySlot>>
    BY <1>3, SlotNumbers
  <2>2. up[up[t][1]] # <<r, DoublySlot>>
    BY <1>3, SlotNumbers
  <2>3. QED
    BY <2>1, <2>2 DEF IndexPath
<1>4. QED
  BY <1>1, <1>2, <1>3 DEF DataPath

LEMMA Nested ==
    ASSUME NEW l \in 1 .. INDIRECT_BLOCKS_PER_SECTOR * INDIRECT_BLOCKS_PER_SECTOR
    PROVE  /\ (l - 1) \div INDIRECT_BLOCKS_PER_SECTOR = Ceiling(l, INDIRECT_BLOCKS_PER_SECTOR) - 1
           /\ \A j \in 0 .. l - 1 :
                /\ j \div INDIRECT_BLOCKS_PER_SECTOR \in 0 .. Ceiling(l, INDIRECT_BLOCKS_PER_SECTOR) - 1
                /\ j % INDIRECT_BLOCKS_PER_SECTOR
                     \in 0 .. Inner(l, j \div INDIRECT_BLOCKS_PER_SECTOR) - 1
<1> DEFINE M == INDIRECT_BLOCKS_PER_SECTOR
           c == Ceiling(l, M)
<1>1. M \in Nat \ {0} /\ M * M \in Nat /\ l \in Int
  BY Capacities
<1>2. c \in Int /\ l <= M * c /\ M * c <= l + M - 1
  BY <1>1, CeilingBounds
<1> HIDE DEF c
<1>3. (l - 1) \div M = c - 1
  <2>1. M * (c - 1) = M * c - M /\ M * c \in Int
    BY <1>1, <1>2
  <2>2. l - 1 \in Int /\ c - 1 \in Int /\ M * (c - 1) <= l - 1 /\ l - 1 < M * (c - 1) + M
    BY <1>1, <1>2, <2>1
  <2>3. QED
    BY <1>1, <2>2, QuotientIs
<1>4. ASSUME NEW j \in 0 .. l - 1
      PROVE  j \div M \in 0 .. c - 1 /\ j % M \in 0 .. Inner(l, j \div M) - 1
  <2> DEFINE q == j \div M
             r == j % M
  <2>1. q \in Int /\ r \in 0 .. M - 1 /\ j = M * q + r /\ j \in Int
    BY <1>1, Quotient
  <2> HIDE DEF q, r
  <2>2. q >= 0
    <3>1. CASE q <= -1
      <4>1. M * q <= -M
        BY <1>1, <2>1, <3>1
      <4>2. QED
        BY <1>1, <2>1, <4>1
    <3>2. QED
      BY <2>1, <3>1
  <2>3. q <= c - 1
    <3>1. CASE q >= c
      <4>1. M * q >= M * c
        BY <1>1, <1>2, <2>1, <3>1
      <4>2. QED
        BY <1>1, <1>2, <2>1, <4>1
    <3>2. QED
      BY <1>2, <2>1, <3>1
  <2>4. r \in 0 .. Inner(l, q) - 1
    <3>1. q * M = M * q /\ M * q \in Int
      BY <1>1, <2>1
    <3>2. r <= l - q * M - 1
      BY <1>1, <2>1, <3>1
    <3>3. QED
      BY <1>1, <2>1, <3>1, <3>2 DEF Inner, Lesser
  <2>5. QED
    BY <1>2, <2>1, <2>2, <2>3, <2>4 DEF q, r
<1>5. QED
  BY <1>3, <1>4 DEF c

\* An inode that has all of its n blocks.
Sound(up, map, store, d, s, n) ==
    /\ Heap(up, map, store) /\ Root(up, map, s) /\ InodeLinks(up, map, d, s)
    /\ n \in Nat /\ n <= BlockLimit /\ Whole(store, d, n)

LEMMA SinglySectors ==
    ASSUME NEW up, NEW map, NEW store, NEW d, NEW s, NEW n, Sound(up, map, store, d, s, n),
           n > DIRECT_BLOCKS_COUNT
    PROVE  /\ d.indirect \in map \ Meta /\ up[d.indirect] = <<s, IndirectSlot>>
           /\ \A j \in 0 .. SinglyBlocks(n) - 1 :
                LET t == AsIndex(store[d.indirect])[j]
                IN  j \in Slots /\ t \in map \ Meta /\ up[t] = <<d.indirect, j>>
<1>1. d.indirect \in map \ Meta /\ up[d.indirect] = <<s, IndirectSlot>>
  BY DEF Sound, Whole, WholeSingly, InodeLinks, Link
<1>2. up[d.indirect][2] # RootSlot
  BY <1>1, SlotNumbers
<1>3. ASSUME NEW j \in 0 .. SinglyBlocks(n) - 1
      PROVE  LET t == AsIndex(store[d.indirect])[j]
             IN  j \in Slots /\ t \in map \ Meta /\ up[t] = <<d.indirect, j>>
  <2>1. j \in Slots
    BY BlockRanges DEF Sound
  <2>2. AsIndex(store[d.indirect])[j] # 0
    BY DEF Sound, Whole, WholeSingly
  <2>3. Link(up, map, AsIndex(store[d.indirect])[j], d.indirect, j)
    BY <1>1, <1>2, <2>1 DEF Sound, Heap, Forest
  <2>4. QED
    BY <2>1, <2>2, <2>3 DEF Link
<1>4. QED
  BY <1>1, <1>3

LEMMA DoublyRoot ==
    ASSUME NEW up, NEW map, NEW store, NEW d, NEW s, NEW n, Sound(up, map, store, d, s, n),
           n > SinglyLimit
    PROVE  d.doubly \in map \ Meta /\ up[d.doubly] = <<s, DoublySlot>>
  BY DEF Sound, Whole, WholeDoubly, InodeLinks, Link

\* An index sector under it, and a sector of data under that.
LEMMA DoublyIndex ==
    ASSUME NEW up, NEW map, NEW store, NEW d, NEW s, NEW n, Sound(up, map, store, d, s, n),
           n > SinglyLimit, NEW l \in 0 .. DoublyIndexes(n) - 1,
           NEW r, r = AsIndex(store[d.doubly])[l]
    PROVE  l \in Slots /\ r \in map \ Meta /\ up[r] = <<d.doubly, l>>
<1>1. d.doubly \in map \ Meta /\ up[d.doubly] = <<s, DoublySlot>>
  BY DoublyRoot
<1>2. up[d.doubly][2] # RootSlot
  BY <1>1, SlotNumbers
<1>3. l \in Slots
  BY BlockRanges DEF Sound
<1>4. r # 0
  BY DEF Sound, Whole, WholeDoubly
<1>5. Link(up, map, r, d.doubly, l)
  BY <1>1, <1>2, <1>3 DEF Sound, Heap, Forest
<1>6. QED
  BY <1>3, <1>4, <1>5 DEF Link

LEMMA DoublySector ==
    ASSUME NEW up, NEW map, NEW store, NEW d, NEW s, NEW n, Sound(up, map, store, d, s, n),
           n > SinglyLimit, NEW l \in 0 .. DoublyIndexes(n) - 1,
           NEW r, r = AsIndex(store[d.doubly])[l],
           NEW j \in 0 .. Inner(DoublyBlocks(n), l) - 1, NEW t, t = AsIndex(store[r])[j]
    PROVE  j \in Slots /\ t \in map \ Meta /\ up[t] = <<r, j>>
<1>1. l \in Slots /\ r \in map \ Meta /\ up[r] = <<d.doubly, l>>
  BY DoublyIndex
<1>2. up[r][2] # RootSlot
  BY <1>1, SlotNumbers
<1>3. j \in Slots
  BY BlockRanges DEF Sound
<1>4. t # 0
  BY DEF Sound, Whole, WholeDoubly
<1>5. Link(up, map, t, r, j)
  BY <1>1, <1>2, <1>3 DEF Sound, Heap, Forest
<1>6. QED
  BY <1>3, <1>4, <1>5 DEF Link

LEMMA DoublyCount ==
    ASSUME NEW n \in Nat, n <= BlockLimit, n > SinglyLimit
    PROVE  /\ DoublyBlocks(n) = n - SinglyLimit
           /\ DoublyBlocks(n) \in 1 .. INDIRECT_BLOCKS_PER_SECTOR * INDIRECT_BLOCKS_PER_SECTOR
           /\ (n - SinglyLimit - 1) \div INDIRECT_BLOCKS_PER_SECTOR = DoublyIndexes(n) - 1
           /\ n > DIRECT_BLOCKS_COUNT
<1>1. /\ DoublyBlocks(n) = n - SinglyLimit
      /\ DoublyBlocks(n) \in 1 .. INDIRECT_BLOCKS_PER_SECTOR * INDIRECT_BLOCKS_PER_SECTOR
      /\ n > DIRECT_BLOCKS_COUNT
  BY Capacities DEF DoublyBlocks, Lesser
<1>2. (DoublyBlocks(n) - 1) \div INDIRECT_BLOCKS_PER_SECTOR = DoublyIndexes(n) - 1
  BY <1>1, Nested DEF DoublyIndexes
<1>3. QED
  BY <1>1, <1>2

\* What is known of a sector of the inode in sector s.
Belongs(up, map, store, d, s, n, t) ==
    t \in map \ Meta /\ up[t][1] \in {s} \cup IndexesFor(store, d, n)

LEMMA BlockSector ==
    ASSUME NEW up, NEW map, NEW store, NEW d, NEW s, NEW n, Sound(up, map, store, d, s, n),
           NEW i \in 0 .. n - 1
    PROVE  LET t == index_to_sector(store, d, i)
           IN  DataPath(up, s, t) /\ Belongs(up, map, store, d, s, n, t)
<1> DEFINE M == INDIRECT_BLOCKS_PER_SECTOR
           t == index_to_sector(store, d, i)
<1>0. n \in Nat /\ n <= BlockLimit /\ up[s] = <<s, RootSlot>>
  BY DEF Sound, Root
<1>1. CASE i < DIRECT_BLOCKS_COUNT
  <2>1. t = d.direct[i]
    <3>1. ~(i >= DIRECT_BLOCKS_COUNT)
      BY <1>0, <1>1, Geometry
    <3>2. QED
      BY <1>1, <3>1 DEF index_to_sector
  <2>2. i \in 0 .. Lesser(n, DIRECT_BLOCKS_COUNT) - 1 /\ i \in DirectSlots
    BY <1>0, <1>1, Geometry DEF Lesser, DirectSlots
  <2>3. t # 0 /\ Link(up, map, t, s, i)
    BY <2>1, <2>2 DEF Sound, Whole, WholeDirect, InodeLinks
  <2>4. QED
    BY <2>2, <2>3 DEF Link, DataPath, Belongs
<1>2. CASE i >= DIRECT_BLOCKS_COUNT /\ i < SinglyLimit
  <2>1. t = AsIndex(store[d.indirect])[i - DIRECT_BLOCKS_COUNT]
    BY <1>2, Capacities DEF index_to_sector
  <2>2. i - DIRECT_BLOCKS_COUNT \in 0 .. SinglyBlocks(n) - 1 /\ n > DIRECT_BLOCKS_COUNT
    BY <1>0, <1>2, Capacities DEF Lesser, SinglyBlocks
  <2> DEFINE j == i - DIRECT_BLOCKS_COUNT
  <2> HIDE DEF j
  <2>3. /\ j \in Slots /\ t \in map \ Meta /\ up[t] = <<d.indirect, j>>
        /\ up[d.indirect] = <<s, IndirectSlot>>
    BY <2>1, <2>2, SinglySectors DEF j
  <2> HIDE DEF t
  <2>4. d.indirect \in IndexesFor(store, d, n)
    BY <2>2 DEF IndexesFor
  <2>5. QED
    BY <2>3, <2>4 DEF DataPath, Belongs, t
<1>3. CASE i >= SinglyLimit
  <2> DEFINE j == i - SinglyLimit
             l == j \div M
             k == j % M
             r == AsIndex(store[d.doubly])[l]
  <2>1. n > SinglyLimit /\ j \in 0 .. (n - SinglyLimit) - 1 /\ i >= DIRECT_BLOCKS_COUNT
    BY <1>0, <1>3, Capacities
  <2>2. t = AsIndex(store[r])[k]
    BY <1>3, <2>1, Capacities DEF index_to_sector
  <2>3. /\ DoublyBlocks(n) = n - SinglyLimit /\ DoublyBlocks(n) \in 1 .. M * M
        /\ (n - SinglyLimit - 1) \div M = DoublyIndexes(n) - 1
    BY <1>0, <2>1, DoublyCount
  <2>4. j \in 0 .. DoublyBlocks(n) - 1
    BY <2>1, <2>3
  <2> HIDE DEF j, M
  <2>5. l \in 0 .. DoublyIndexes(n) - 1 /\ k \in 0 .. Inner(DoublyBlocks(n), l) - 1
    BY <2>3, <2>4, Nested DEF DoublyIndexes, M
  <2> HIDE DEF l, k, t
  <2>6. /\ up[d.doubly] = <<s, DoublySlot>>
        /\ l \in Slots /\ up[r] = <<d.doubly, l>>
        /\ k \in Slots /\ t \in map \ Meta /\ up[t] = <<r, k>>
    <3>1. Sound(up, map, store, d, s, n) /\ n > SinglyLimit
      BY <2>1
    <3>2. r = AsIndex(store[d.doubly])[l] /\ t = AsIndex(store[r])[k]
      BY <2>2
    <3> HIDE DEF r
    <3>3. up[d.doubly] = <<s, DoublySlot>>
      BY <3>1, DoublyRoot
    <3>4. l \in Slots /\ up[r] = <<d.doubly, l>>
      BY <3>1, <3>2, <2>5, DoublyIndex
    <3>5. k \in Slots /\ t \in map \ Meta /\ up[t] = <<r, k>>
      BY <3>1, <3>2, <2>5, DoublySector
    <3>6. QED
      BY <3>3, <3>4, <3>5
  <2>7. r \in IndexesFor(store, d, n)
    <3>1. n - SinglyLimit > 0
      BY <1>0, <2>1, Capacities
    <3>2. l \in 0 .. (n - SinglyLimit - 1) \div M
      BY <2>3, <2>5
    <3>3. QED
      BY <3>1, <3>2 DEF IndexesFor, M
  <2> HIDE DEF r
  <2>8. QED
    BY <2>6, <2>7 DEF DataPath, Belongs, t
<1>4. QED
  BY <1>0, <1>1, <1>2, <1>3, Capacities

LEMMA IndexSector ==
    ASSUME NEW up, NEW map, NEW store, NEW d, NEW s, NEW n, Sound(up, map, store, d, s, n),
           NEW t \in IndexesFor(store, d, n)
    PROVE  IndexPath(up, s, t) /\ Belongs(up, map, store, d, s, n, t)
<1> DEFINE M == INDIRECT_BLOCKS_PER_SECTOR
<1>0. n \in Nat /\ n <= BlockLimit /\ up[s] = <<s, RootSlot>>
  BY DEF Sound, Root
<1>1. CASE n > DIRECT_BLOCKS_COUNT /\ t = d.indirect
  BY <1>1, SinglySectors DEF IndexPath, Belongs
<1>2. CASE n > SinglyLimit /\ t = d.doubly
  BY <1>2, DoublyRoot DEF IndexPath, Belongs
<1>3. ASSUME n > SinglyLimit, NEW l \in 0 .. (n - SinglyLimit - 1) \div M,
             t = AsIndex(store[d.doubly])[l]
      PROVE  IndexPath(up, s, t) /\ Belongs(up, map, store, d, s, n, t)
  <2>1. l \in 0 .. DoublyIndexes(n) - 1
    BY <1>0, <1>3, DoublyCount
  <2>2. /\ up[d.doubly] = <<s, DoublySlot>>
        /\ l \in Slots /\ t \in map \ Meta /\ up[t] = <<d.doubly, l>>
    <3>1. up[d.doubly] = <<s, DoublySlot>>
      BY <1>3, DoublyRoot
    <3>2. l \in Slots /\ t \in map \ Meta /\ up[t] = <<d.doubly, l>>
      BY <1>3, <2>1, DoublyIndex
    <3>3. QED
      BY <3>1, <3>2
  <2>3. d.doubly \in IndexesFor(store, d, n)
    BY <1>0, <1>3, Capacities DEF IndexesFor
  <2>4. QED
    BY <2>2, <2>3 DEF IndexPath, Belongs
<1>4. n - SinglyLimit > 0 <=> n > SinglyLimit
  BY <1>0, Capacities
<1>5. \/ n > DIRECT_BLOCKS_COUNT /\ t = d.indirect
      \/ n > SinglyLimit /\ t = d.doubly
      \/ n > SinglyLimit /\ \E l \in 0 .. (n - SinglyLimit - 1) \div M : t = AsIndex(store[d.doubly])[l]
  BY <1>4 DEF IndexesFor
<1>6. CASE n > SinglyLimit /\ \E l \in 0 .. (n - SinglyLimit - 1) \div M : t = AsIndex(store[d.doubly])[l]
  <2>1. PICK l \in 0 .. (n - SinglyLimit - 1) \div M : t = AsIndex(store[d.doubly])[l]
    BY <1>6
  <2>2. QED
    BY <1>3, <1>6, <2>1
<1>7. QED
  BY <1>1, <1>2, <1>5, <1>6

LEMMA SectorOwned ==
    ASSUME NEW up, NEW map, NEW store, NEW d, NEW s, NEW n, Sound(up, map, store, d, s, n),
           NEW t \in SectorsOf(store, d, n)
    PROVE  /\ t \in map \ Meta /\ (DataPath(up, s, t) \/ IndexPath(up, s, t))
           /\ up[t][1] \in {s} \cup SectorsOf(store, d, n)
<1>1. CASE t \in IndexesFor(store, d, n)
  BY <1>1, IndexSector DEF Belongs, SectorsOf
<1>2. ASSUME NEW i \in 0 .. n - 1, t = index_to_sector(store, d, i)
      PROVE  /\ t \in map \ Meta /\ DataPath(up, s, t)
             /\ up[t][1] \in {s} \cup SectorsOf(store, d, n)
  BY <1>2, BlockSector DEF Belongs, SectorsOf
<1>3. QED
  BY <1>1, <1>2 DEF SectorsOf

\* What an inode has for n blocks is among its sectors.
LEMMA HasSector ==
    ASSUME NEW store, NEW d, NEW n \in Nat, n <= BlockLimit, NEW t, Has(store, d, n, t)
    PROVE  t \in SectorsOf(store, d, n)
<1> DEFINE M == INDIRECT_BLOCKS_PER_SECTOR
<1>1. ASSUME HasDirect(d, n, t) PROVE t \in SectorsOf(store, d, n)
  <2>1. PICK i \in 0 .. Lesser(n, DIRECT_BLOCKS_COUNT) - 1 : d.direct[i] = t
    BY <1>1 DEF HasDirect
  <2>2. i \in 0 .. n - 1 /\ i < DIRECT_BLOCKS_COUNT
    BY Geometry DEF Lesser
  <2>3. index_to_sector(store, d, i) = t
    <3>1. ~(i >= DIRECT_BLOCKS_COUNT)
      BY <2>2, Geometry
    <3>2. QED
      BY <2>1, <2>2, <3>1 DEF index_to_sector
  <2>4. QED
    BY <2>2, <2>3 DEF SectorsOf
<1>2. ASSUME HasSingly(store, d, n, t) PROVE t \in SectorsOf(store, d, n)
  <2>1. n > DIRECT_BLOCKS_COUNT
    BY <1>2 DEF HasSingly
  <2>2. CASE t = d.indirect
    BY <2>1, <2>2 DEF SectorsOf, IndexesFor
  <2>3. ASSUME NEW j \in 0 .. SinglyBlocks(n) - 1, AsIndex(store[d.indirect])[j] = t
        PROVE  t \in SectorsOf(store, d, n)
    <3> DEFINE i == DIRECT_BLOCKS_COUNT + j
    <3>1. /\ i \in 0 .. n - 1 /\ i >= DIRECT_BLOCKS_COUNT /\ i < SinglyLimit
          /\ i - DIRECT_BLOCKS_COUNT = j
      BY <2>1, Capacities DEF SinglyBlocks, Lesser
    <3> HIDE DEF i
    <3>2. ~(i < DIRECT_BLOCKS_COUNT)
      BY <3>1, Capacities
    <3>3. index_to_sector(store, d, i) = t
      BY <2>3, <3>1, <3>2 DEF index_to_sector
    <3>4. QED
      BY <3>1, <3>3 DEF SectorsOf
  <2>4. QED
    BY <1>2, <2>2, <2>3 DEF HasSingly
<1>3. ASSUME HasDoubly(store, d, n, t) PROVE t \in SectorsOf(store, d, n)
  <2>1. n > SinglyLimit
    BY <1>3 DEF HasDoubly
  <2>2. /\ DoublyBlocks(n) = n - SinglyLimit /\ DoublyBlocks(n) \in 1 .. M * M
        /\ (n - SinglyLimit - 1) \div M = DoublyIndexes(n) - 1
        /\ n - SinglyLimit > 0
    BY <2>1, DoublyCount, Capacities
  <2>3. CASE t = d.doubly
    BY <2>2, <2>3 DEF SectorsOf, IndexesFor
  <2>4. ASSUME NEW l \in 0 .. DoublyIndexes(n) - 1, AsIndex(store[d.doubly])[l] = t
        PROVE  t \in SectorsOf(store, d, n)
    <3>1. l \in 0 .. (n - SinglyLimit - 1) \div M
      BY <2>2
    <3>2. QED
      BY <2>2, <2>4, <3>1 DEF SectorsOf, IndexesFor
  <2>5. ASSUME NEW l \in 0 .. DoublyIndexes(n) - 1, NEW j \in 0 .. Inner(DoublyBlocks(n), l) - 1,
               AsIndex(store[AsIndex(store[d.doubly])[l]])[j] = t
        PROVE  t \in SectorsOf(store, d, n)
    <3> DEFINE x == l * M + j
               i == SinglyLimit + x
               m == DoublyBlocks(n)
    <3>1. M \in Nat \ {0} /\ l \in Nat /\ j \in Nat /\ l * M \in Nat /\ l * M = M * l
      BY Capacities
    <3>2. j < M /\ x < m /\ x \in Int
      BY <2>2, <3>1 DEF Inner, Lesser
    <3>3. x \div M = l
      BY <3>1, <3>2, QuotientIs
    <3>4. x % M = j
      <4>1. x = M * (x \div M) + (x % M) /\ x % M \in Int
        BY <3>1, <3>2, Quotient
      <4> DEFINE r == x % M
                 z == M * l
      <4>2. x = z + r /\ r \in Int /\ z \in Int /\ x = z + j
        BY <4>1, <3>1, <3>3
      <4> HIDE DEF r, z, x
      <4>3. r = j
        BY <4>2, <3>1
      <4>4. QED
        BY <4>3 DEF r
    <3>5. /\ i \in 0 .. n - 1 /\ i - SinglyLimit = x
          /\ ~(i < DIRECT_BLOCKS_COUNT) /\ ~(i >= DIRECT_BLOCKS_COUNT /\ i < SinglyLimit)
      <4> HIDE DEF x
      <4>1. x >= 0
        BY <3>1 DEF x
      <4>2. QED
        BY <2>2, <3>2, <4>1, Capacities
    <3> HIDE DEF i, x
    <3>6. index_to_sector(store, d, i) =
            AsIndex(store[AsIndex(store[d.doubly])[(i - SinglyLimit) \div M]])[(i - SinglyLimit) % M]
      BY <3>5 DEF index_to_sector
    <3>7. index_to_sector(store, d, i) = t
      BY <2>5, <3>3, <3>4, <3>5, <3>6
    <3>8. QED
      BY <3>5, <3>7 DEF SectorsOf
  <2>6. QED
    BY <1>3, <2>3, <2>4, <2>5 DEF HasDoubly
<1>4. QED
  BY <1>1, <1>2, <1>3 DEF Has

\* And what is among the sectors, the inode has.
LEMMA SectorHas ==
    ASSUME NEW store, NEW d, NEW n \in Nat, n <= BlockLimit, NEW t \in SectorsOf(store, d, n)
    PROVE  Has(store, d, n, t)
<1> DEFINE M == INDIRECT_BLOCKS_PER_SECTOR
<1>1. ASSUME NEW i \in 0 .. n - 1, t = index_to_sector(store, d, i) PROVE Has(store, d, n, t)
  <2>1. CASE i < DIRECT_BLOCKS_COUNT
    <3>1. t = d.direct[i] /\ i \in 0 .. Lesser(n, DIRECT_BLOCKS_COUNT) - 1
      BY <1>1, <2>1, Geometry DEF index_to_sector, Lesser
    <3>2. QED
      BY <3>1 DEF Has, HasDirect
  <2>2. CASE i >= DIRECT_BLOCKS_COUNT /\ i < SinglyLimit
    <3>1. t = AsIndex(store[d.indirect])[i - DIRECT_BLOCKS_COUNT]
      BY <1>1, <2>2, Capacities DEF index_to_sector
    <3>2. i - DIRECT_BLOCKS_COUNT \in 0 .. SinglyBlocks(n) - 1 /\ n > DIRECT_BLOCKS_COUNT
      BY <2>2, Capacities DEF Lesser, SinglyBlocks
    <3>3. QED
      BY <3>1, <3>2 DEF Has, HasSingly
  <2>3. CASE i >= SinglyLimit
    <3> DEFINE j == i - SinglyLimit
    <3>1. n > SinglyLimit /\ j \in 0 .. (n - SinglyLimit) - 1 /\ i >= DIRECT_BLOCKS_COUNT
      BY <2>3, Capacities
    <3>2. t = AsIndex(store[AsIndex(store[d.doubly])[j \div M]])[j % M]
      BY <1>1, <2>3, <3>1, Capacities DEF index_to_sector
    <3>3. DoublyBlocks(n) = n - SinglyLimit /\ DoublyBlocks(n) \in 1 .. M * M
      BY <3>1, DoublyCount
    <3>4. j \in 0 .. DoublyBlocks(n) - 1
      BY <3>1, <3>3
    <3> HIDE DEF j, M
    <3>5. j \div M \in 0 .. DoublyIndexes(n) - 1 /\ j % M \in 0 .. Inner(DoublyBlocks(n), j \div M) - 1
      BY <3>3, <3>4, Nested DEF DoublyIndexes, M
    <3>6. QED
      BY <3>1, <3>2, <3>5 DEF Has, HasDoubly
  <2>4. QED
    BY <2>1, <2>2, <2>3, Capacities
<1>2. ASSUME t \in IndexesFor(store, d, n) PROVE Has(store, d, n, t)
  <2>1. n - SinglyLimit > 0 <=> n > SinglyLimit
    BY Capacities
  <2>2. ASSUME n > SinglyLimit, NEW l \in 0 .. (n - SinglyLimit - 1) \div M,
               t = AsIndex(store[d.doubly])[l]
        PROVE  Has(store, d, n, t)
    <3>1. l \in 0 .. DoublyIndexes(n) - 1
      BY <2>2, DoublyCount
    <3>2. QED
      BY <2>2, <3>1 DEF Has, HasDoubly
  <2>3. CASE t = d.indirect /\ n > DIRECT_BLOCKS_COUNT
    BY <2>3 DEF Has, HasSingly
  <2>4. CASE t = d.doubly /\ n > SinglyLimit
    BY <2>4 DEF Has, HasDoubly
  <2>5. QED
    BY <1>2, <2>1, <2>2, <2>3, <2>4 DEF IndexesFor
<1>3. QED
  BY <1>1, <1>2 DEF SectorsOf

\* More blocks, more sectors.
LEMMA HasMore ==
    ASSUME NEW store, NEW d, NEW n \in Nat, NEW m \in Nat, n <= m, m <= BlockLimit,
           NEW t \in SectorsOf(store, d, n)
    PROVE  t \in SectorsOf(store, d, m)
<1>0. n <= BlockLimit
  BY Capacities
<1>1. CASE \E i \in 0 .. n - 1 : t = index_to_sector(store, d, i)
  <2>1. \A i \in 0 .. n - 1 : i \in 0 .. m - 1
    OBVIOUS
  <2>2. QED
    BY <1>1, <2>1 DEF SectorsOf
<1>2. CASE t \in IndexesFor(store, d, n)
  <2>1. n > DIRECT_BLOCKS_COUNT => m > DIRECT_BLOCKS_COUNT
    BY Capacities
  <2>2. n - SinglyLimit > 0 => m - SinglyLimit > 0
    BY Capacities
  <2>3. ASSUME n - SinglyLimit > 0, NEW l \in 0 .. (n - SinglyLimit - 1) \div INDIRECT_BLOCKS_PER_SECTOR
        PROVE  l \in 0 .. (m - SinglyLimit - 1) \div INDIRECT_BLOCKS_PER_SECTOR
    <3> DEFINE M == INDIRECT_BLOCKS_PER_SECTOR
               x == n - SinglyLimit - 1
               y == m - SinglyLimit - 1
    <3>1. M \in Nat \ {0} /\ x \in Int /\ y \in Int /\ x <= y
      BY Capacities
    <3> HIDE DEF x, y, M
    <3>2. /\ x \div M \in Int /\ y \div M \in Int /\ x % M \in 0 .. M - 1 /\ y % M \in 0 .. M - 1
          /\ x = M * (x \div M) + (x % M) /\ y = M * (y \div M) + (y % M)
      BY <3>1, Quotient
    <3> DEFINE p == x \div M
               q == y \div M
               a == x % M
               b == y % M
    <3>3. p \in Int /\ q \in Int /\ a \in 0 .. M - 1 /\ b \in 0 .. M - 1 /\ x = M * p + a /\ y = M * q + b
      BY <3>2
    <3> HIDE DEF p, q, a, b
    <3>4. ASSUME q <= p - 1 PROVE FALSE
      <4>1. M * q <= M * (p - 1) /\ M * (p - 1) = M * p - M
        BY <3>1, <3>3, <3>4
      <4>2. QED
        BY <3>1, <3>3, <4>1
    <3>5. p <= q
      BY <3>3, <3>4
    <3>6. l \in 0 .. p
      BY DEF p, x, M
    <3>7. l \in 0 .. q
      BY <3>3, <3>5, <3>6
    <3>8. QED
      BY <3>7 DEF q, y, M
  <2>4. QED
    BY <1>2, <2>1, <2>2, <2>3 DEF SectorsOf, IndexesFor
<1>3. QED
  BY <1>1, <1>2 DEF SectorsOf

LEMMA QuotientUp ==
    ASSUME NEW b \in Nat \ {0}, NEW x \in Int, NEW y \in Int, x <= y
    PROVE  x \div b <= y \div b
<1>1. /\ x \div b \in Int /\ y \div b \in Int /\ x % b \in 0 .. b - 1 /\ y % b \in 0 .. b - 1
      /\ x = b * (x \div b) + (x % b) /\ y = b * (y \div b) + (y % b)
  BY Quotient
<1> DEFINE p == x \div b
           q == y \div b
           r == x % b
           t == y % b
<1>2. p \in Int /\ q \in Int /\ r \in 0 .. b - 1 /\ t \in 0 .. b - 1 /\ x = b * p + r /\ y = b * q + t
  BY <1>1
<1> HIDE DEF p, q, r, t
<1>3. ASSUME q <= p - 1 PROVE FALSE
  <2>1. b * q <= b * (p - 1) /\ b * (p - 1) = b * p - b
    BY <1>2, <1>3
  <2>2. QED
    BY <1>2, <2>1
<1>4. p <= q
  BY <1>2, <1>3
<1>5. QED
  BY <1>4 DEF p, q

\* The blocks that a write within length bytes touches.
LEMMA Touched ==
    ASSUME NEW length \in Int, NEW ofs \in Nat, NEW k \in Nat \ {0}, ofs + k <= length,
           NEW i \in (ofs \div BLOCK_SECTOR_SIZE) .. ((ofs + k - 1) \div BLOCK_SECTOR_SIZE)
    PROVE  i \in 0 .. bytes_to_sectors(length) - 1
<1> DEFINE B == BLOCK_SECTOR_SIZE
           n == Ceiling(length, B)
<1>1. B \in Nat \ {0} /\ n \in Int /\ length <= B * n /\ B * n <= length + B - 1
  BY Capacities, CeilingBounds
<1>2. n = bytes_to_sectors(length)
  BY DEF Ceiling, bytes_to_sectors
<1> HIDE DEF n, B
<1>3. (length - 1) \div B = n - 1
  <2>1. B * (n - 1) = B * n - B /\ B * n \in Int
    BY <1>1
  <2>2. length - 1 \in Int /\ n - 1 \in Int /\ B * (n - 1) <= length - 1 /\ length - 1 < B * (n - 1) + B
    BY <1>1, <2>1
  <2>3. QED
    BY <1>1, <2>2, QuotientIs
<1>4. (ofs + k - 1) \div B <= n - 1
  BY <1>1, <1>3, QuotientUp
<1>5. 0 \div B = 0 /\ 0 \div B <= ofs \div B
  <2>1. 0 \div B = 0
    BY <1>1, QuotientIs
  <2>2. QED
    BY <1>1, <2>1, QuotientUp
<1>6. ofs \div B \in Int /\ (ofs + k - 1) \div B \in Int
  BY <1>1, Quotient
<1>7. i \in Int /\ ofs \div B <= i /\ i <= (ofs + k - 1) \div B
  BY <1>6 DEF B
<1>8. QED
  BY <1>1, <1>2, <1>4, <1>5, <1>6, <1>7

----------------------------------------------------------------------------
(* The changes of the heap besides the allocation of a block.              *)

\* A set of sectors is released, with what they point to.
LEMMA Released ==
    ASSUME NEW up, NEW map, NEW store, Heap(up, map, store),
           NEW R, R \cap Meta = {}, \A u \in R : up[u][1] \in R
    PROVE  /\ Heap(up, map \ R, store)
           /\ \A u, h, j : h \notin R /\ Link(up, map, u, h, j) => Link(up, map \ R, u, h, j)
<1>1. \A u, h, j : h \notin R /\ Link(up, map, u, h, j) => Link(up, map \ R, u, h, j)
  BY DEF Link
<1>2. MapOK(map \ R)
  BY DEF Heap, MapOK
<1>3. Forest(up, map \ R, store)
  BY <1>1 DEF Heap, Forest
<1>4. QED
  BY <1>1, <1>2, <1>3 DEF Heap

\* The sector of a new inode, whatever it holds.
LEMMA NewRoot ==
    ASSUME NEW up, NEW map, NEW store, Heap(up, map, store), NEW s \in Bits \ map
    PROVE  \E up2 : /\ Heap(up2, map \cup {s}, store) /\ Extends(up, map, up2, map \cup {s})
                    /\ Root(up2, map \cup {s}, s)
<1> DEFINE up2 == [up EXCEPT ![s] = <<s, RootSlot>>]
           map2 == map \cup {s}
<1>1. s \in Sectors /\ s # 0 /\ s \notin Meta /\ s \in Bits
  BY Geometry DEF Heap, MapOK
<1>2. up2 \in Owners /\ up2[s] = <<s, RootSlot>> /\ \A t \in map : up2[t] = up[t]
  <2>1. RootSlot \in Int /\ map \subseteq Sectors
    BY Geometry DEF RootSlot, Heap, MapOK
  <2>2. up \in [Sectors -> Sectors \X Int] /\ <<s, RootSlot>> \in Sectors \X Int
    BY <1>1, <2>1 DEF Heap, Owners
  <2>3. QED
    BY <1>1, <2>1, <2>2 DEF Owners
<1> HIDE DEF up2
<1>3. MapOK(map2)
  BY <1>1 DEF Heap, MapOK
<1>4. Extends(up, map, up2, map2)
  BY <1>2 DEF Extends
<1>5. ASSUME NEW t \in map2, up2[t][2] # RootSlot, NEW i \in Slots
      PROVE  Link(up2, map2, AsIndex(store[t])[i], t, i)
  <2>1. t \in map /\ up[t][2] # RootSlot
    BY <1>2, <1>5
  <2>2. Link(up, map, AsIndex(store[t])[i], t, i)
    BY <2>1 DEF Heap, Forest
  <2>3. QED
    BY <2>2, <1>4, LinkKept
<1>6. QED
  BY <1>1, <1>2, <1>3, <1>4, <1>5 DEF Heap, Forest, Root

LEMMA InodeStored ==
    ASSUME NEW up, NEW map, NEW store, Heap(up, map, store), NEW s, Root(up, map, s),
           NEW d \in DiskInode
    PROVE  /\ Heap(up, map, [store EXCEPT ![s] = Inode(d)])
           /\ AsInode([store EXCEPT ![s] = Inode(d)][s]) = d
           /\ \A t \in Sectors : t # s => [store EXCEPT ![s] = Inode(d)][t] = store[t]
<1> DEFINE store2 == [store EXCEPT ![s] = Inode(d)]
<1>1. s \in Sectors /\ s # 0
  BY Geometry DEF Heap, MapOK, Root
<1>2. /\ store2 = [t \in Sectors |-> store2[t]] /\ store2[s] = Inode(d)
      /\ \A t \in Sectors : t # s => store2[t] = store[t]
  BY <1>1 DEF Heap, StoreOK
<1>3. CellOK(Inode(d)) /\ AsInode(Inode(d)) = d
  BY DEF CellOK, Inode, AsInode
<1>4. StoreOK(store2)
  BY <1>1, <1>2, <1>3, Geometry DEF Heap, StoreOK
<1>5. ASSUME NEW t \in map, up[t][2] # RootSlot, NEW i \in Slots
      PROVE  Link(up, map, AsIndex(store2[t])[i], t, i)
  <2>1. t # s /\ t \in Sectors
    BY <1>5, Geometry DEF Root, Heap, MapOK
  <2>2. QED
    BY <2>1, <1>2, <1>5 DEF Heap, Forest
<1>6. QED
  BY <1>2, <1>3, <1>4, <1>5 DEF Heap, Forest

\* The data blocks of inode d are written.
LEMMA BytesStored ==
    ASSUME NEW up, NEW map, NEW store, NEW d, NEW s, NEW length \in Int,
           Sound(up, map, store, d, s, bytes_to_sectors(length)),
           NEW buf, Len(buf) \in Nat \ {0}, NEW ofs \in Nat, ofs + Len(buf) <= length
    PROVE  /\ Heap(up, map, Stored(store, d, buf, ofs))
           /\ \A t \in Sectors : Stored(store, d, buf, ofs)[t] = store[t]
                                 \/ (t \in map \ Meta /\ DataPath(up, s, t))
<1> DEFINE n == bytes_to_sectors(length)
           store2 == Stored(store, d, buf, ofs)
           touched == (ofs \div BLOCK_SECTOR_SIZE) .. ((ofs + Len(buf) - 1) \div BLOCK_SECTOR_SIZE)
           block(t) == {i \in touched : index_to_sector(store, d, i) = t}
<1>0. Heap(up, map, store) /\ map \subseteq Sectors /\ 0 \in Meta
  BY Geometry DEF Sound, Heap, MapOK
<1>1. /\ store2 = [t \in Sectors |-> store2[t]]
      /\ \A t \in Sectors : block(t) = {} => store2[t] = store[t]
      /\ \A t \in Sectors : block(t) # {} => \E b : store2[t] = Bytes(b)
  BY DEF Stored
<1> HIDE DEF store2
<1>2. ASSUME NEW t \in Sectors, block(t) # {}
      PROVE  t \in map \ Meta /\ DataPath(up, s, t)
  <2>1. PICK i \in touched : index_to_sector(store, d, i) = t
    BY <1>2
  <2>2. i \in 0 .. n - 1
    BY <2>1, Touched
  <2>3. QED
    BY <2>1, <2>2, BlockSector DEF Belongs
<1> HIDE DEF block, touched
<1>3. \A b : CellOK(Bytes(b)) /\ Bytes(b).kind # "index" /\ \A j \in Slots : AsIndex(Bytes(b))[j] = 0
  BY DEF CellOK, Bytes, AsIndex, Slots
<1>4. StoreOK(store2)
  <2>1. block(0) = {} /\ 0 \in Sectors
    BY <1>0, <1>2, Geometry
  <2>2. store2[0].kind # "index"
    BY <1>0, <1>1, <2>1 DEF Heap, StoreOK
  <2>3. ASSUME NEW t \in Sectors PROVE CellOK(store2[t])
    <3>1. CellOK(store[t])
      BY <1>0 DEF Heap, StoreOK
    <3>2. CASE block(t) = {}
      BY <3>1, <3>2, <1>1
    <3>3. CASE block(t) # {}
      BY <3>3, <1>1, <1>3
    <3>4. QED
      BY <3>2, <3>3
  <2>4. QED
    BY <1>1, <2>2, <2>3 DEF StoreOK
<1>5. ASSUME NEW t \in map, up[t][2] # RootSlot, NEW i \in Slots
      PROVE  Link(up, map, AsIndex(store2[t])[i], t, i)
  <2>1. CASE block(t) = {}
    BY <2>1, <1>0, <1>1, <1>5 DEF Heap, Forest
  <2>2. CASE block(t) # {}
    <3>1. AsIndex(store2[t])[i] = 0
      BY <2>2, <1>0, <1>1, <1>3
    <3>2. QED
      BY <3>1 DEF Link
  <2>3. QED
    BY <2>1, <2>2
<1>6. Heap(up, map, store2)
  BY <1>0, <1>4, <1>5 DEF Heap, Forest
<1>7. QED
  BY <1>1, <1>2, <1>6 DEF store2

\* An inode whose index blocks stay as they are.
LEMMA WholeSame ==
    ASSUME NEW store, NEW store2, NEW d, NEW n \in Nat, n <= BlockLimit, Whole(store, d, n),
           \A t \in IndexesFor(store, d, n) : store2[t] = store[t]
    PROVE  Whole(store2, d, n) /\ \A t : Has(store, d, n, t) => Has(store2, d, n, t)
<1>1. n > DIRECT_BLOCKS_COUNT => store2[d.indirect] = store[d.indirect]
  BY DEF IndexesFor
<1>2. n > SinglyLimit =>
        /\ store2[d.doubly] = store[d.doubly]
        /\ \A l \in 0 .. DoublyIndexes(n) - 1 :
              store2[AsIndex(store[d.doubly])[l]] = store[AsIndex(store[d.doubly])[l]]
  <2>1. SUFFICES ASSUME n > SinglyLimit
                 PROVE  /\ store2[d.doubly] = store[d.doubly]
                        /\ \A l \in 0 .. DoublyIndexes(n) - 1 :
                             store2[AsIndex(store[d.doubly])[l]] = store[AsIndex(store[d.doubly])[l]]
    OBVIOUS
  <2>2. /\ n - SinglyLimit > 0
        /\ (n - SinglyLimit - 1) \div INDIRECT_BLOCKS_PER_SECTOR = DoublyIndexes(n) - 1
    BY <2>1, DoublyCount, Capacities
  <2>3. QED
    BY <2>2 DEF IndexesFor
<1>3. WholeDirect(d, n) /\ WholeSingly(store2, d, n) /\ WholeDoubly(store2, d, n)
  BY <1>1, <1>2 DEF Whole, WholeSingly, WholeDoubly
<1>4. ASSUME NEW t, Has(store, d, n, t) PROVE Has(store2, d, n, t)
  <2>1. HasSingly(store, d, n, t) => HasSingly(store2, d, n, t)
    BY <1>1 DEF HasSingly
  <2>2. HasDoubly(store, d, n, t) => HasDoubly(store2, d, n, t)
    BY <1>2 DEF HasDoubly
  <2>3. QED
    BY <1>4, <2>1, <2>2 DEF Has
<1>5. QED
  BY <1>3, <1>4 DEF Whole

----------------------------------------------------------------------------
(* A sound inode stays sound when ...                                      *)

\* ... blocks are allocated,
LEMMA SoundKept ==
    ASSUME NEW up, NEW map, NEW store, NEW d, NEW s, NEW n, Sound(up, map, store, d, s, n),
           NEW up2, NEW map2, NEW store2, Heap(up2, map2, store2),
           Extends(up, map, up2, map2), Kept(up, map, store, store2)
    PROVE  /\ Sound(up2, map2, store2, d, s, n)
           /\ SectorsOf(store, d, n) \subseteq SectorsOf(store2, d, n)
<1>1. /\ Heap(up, map, store) /\ Root(up, map, s) /\ InodeLinks(up, map, d, s)
      /\ n \in Nat /\ n <= BlockLimit /\ Whole(store, d, n)
  BY DEF Sound
<1>2. InodeKept(d, d)
  BY DEF InodeKept
<1>3. Whole(store2, d, n) /\ \A t : Has(store, d, n, t) => Has(store2, d, n, t)
  BY <1>1, <1>2, WholeKept
<1>4. Root(up2, map2, s)
  BY <1>1 DEF Root, Extends
<1>5. InodeLinks(up2, map2, d, s)
  <2>1. ASSUME NEW i \in DirectSlots PROVE Link(up2, map2, d.direct[i], s, i)
    <3>1. Link(up, map, d.direct[i], s, i)
      BY <1>1 DEF InodeLinks
    <3>2. QED
      BY <3>1, LinkKept
  <2>2. Link(up2, map2, d.indirect, s, IndirectSlot) /\ Link(up2, map2, d.doubly, s, DoublySlot)
    <3>1. Link(up, map, d.indirect, s, IndirectSlot) /\ Link(up, map, d.doubly, s, DoublySlot)
      BY <1>1 DEF InodeLinks
    <3>2. QED
      BY <3>1, LinkKept
  <2>3. QED
    BY <1>1, <2>1, <2>2 DEF InodeLinks
<1>6. SectorsOf(store, d, n) \subseteq SectorsOf(store2, d, n)
  BY <1>1, <1>3, HasSector, SectorHas
<1>7. QED
  BY <1>1, <1>3, <1>4, <1>5, <1>6 DEF Sound

\* ... its index blocks stay as they are,
LEMMA SoundSame ==
    ASSUME NEW up, NEW map, NEW store, NEW d, NEW s, NEW n, Sound(up, map, store, d, s, n),
           NEW store2, Heap(up, map, store2),
           \A t \in IndexesFor(store, d, n) : store2[t] = store[t]
    PROVE  /\ Sound(up, map, store2, d, s, n)
           /\ SectorsOf(store, d, n) \subseteq SectorsOf(store2, d, n)
<1>1. /\ Root(up, map, s) /\ InodeLinks(up, map, d, s)
      /\ n \in Nat /\ n <= BlockLimit /\ Whole(store, d, n)
  BY DEF Sound
<1>2. Whole(store2, d, n) /\ \A t : Has(store, d, n, t) => Has(store2, d, n, t)
  BY <1>1, WholeSame
<1>3. QED
  BY <1>1, <1>2, HasSector, SectorHas DEF Sound

\* ... and other sectors are released.
LEMMA SoundReleased ==
    ASSUME NEW up, NEW map, NEW store, NEW d, NEW s, NEW n, Sound(up, map, store, d, s, n),
           NEW R, R \cap Meta = {}, \A u \in R : up[u][1] \in R, s \notin R
    PROVE  Sound(up, map \ R, store, d, s, n)
<1>1. /\ Heap(up, map, store) /\ Root(up, map, s) /\ InodeLinks(up, map, d, s)
      /\ n \in Nat /\ n <= BlockLimit /\ Whole(store, d, n)
  BY DEF Sound
<1>2. /\ Heap(up, map \ R, store)
      /\ \A u, h, j : h \notin R /\ Link(up, map, u, h, j) => Link(up, map \ R, u, h, j)
  BY <1>1, Released
<1>3. InodeLinks(up, map \ R, d, s)
  BY <1>1, <1>2 DEF InodeLinks
<1>4. Root(up, map \ R, s)
  BY <1>1 DEF Root
<1>5. QED
  BY <1>1, <1>2, <1>3, <1>4 DEF Sound

\* The sectors of a sound inode are its own.
LEMMA OwnSectors ==
    ASSUME NEW up, NEW map, NEW store, NEW d, NEW s, NEW n, Sound(up, map, store, d, s, n),
           NEW d2, NEW r, NEW m, Sound(up, map, store, d2, r, m), s # r
    PROVE  ({s} \cup SectorsOf(store, d, n)) \cap ({r} \cup SectorsOf(store, d2, m)) = {}
<1>1. up[s] = <<s, RootSlot>> /\ up[r] = <<r, RootSlot>>
  BY DEF Sound, Root
<1>2. ASSUME NEW t \in SectorsOf(store, d, n)
      PROVE  /\ DataPath(up, s, t) \/ IndexPath(up, s, t)
             /\ up[t][2] # RootSlot /\ ~DataPath(up, r, t) /\ ~IndexPath(up, r, t)
  BY <1>1, SectorOwned, PathToOne
<1>3. ASSUME NEW t \in SectorsOf(store, d2, m)
      PROVE  (DataPath(up, r, t) \/ IndexPath(up, r, t)) /\ up[t][2] # RootSlot
  BY <1>1, SectorOwned, PathToOne
<1>4. QED
  BY <1>1, <1>2, <1>3

\* No index block of an inode is an inode or a data block.
LEMMA NotAnIndex ==
    ASSUME NEW up, NEW map, NEW store, NEW d, NEW s, NEW n, Sound(up, map, store, d, s, n),
           NEW r, up[r] = <<r, RootSlot>>
    PROVE  \A t \in IndexesFor(store, d, n) : t # r /\ ~DataPath(up, r, t)
<1>1. ASSUME NEW t \in IndexesFor(store, d, n) PROVE t # r /\ ~DataPath(up, r, t)
  <2>1. up[s] = <<s, RootSlot>> /\ IndexPath(up, s, t)
    BY IndexSector DEF Sound, Root
  <2>2. ~DataPath(up, r, t)
    BY <2>1, DataOrIndex
  <2>3. up[t][2] # RootSlot
    BY <2>1, SlotNumbers DEF IndexPath
  <2>4. QED
    BY <2>2, <2>3
<1>2. QED
  BY <1>1

----------------------------------------------------------------------------
(* The invariant of the file system.                                       *)
Fields == {"map", "store", "dir", "open", "table", "panic", "failed", "recovered"}

Blocks(d) == bytes_to_sectors(d.length)

SlotEntry == [name : Names, inode_sector : Sectors]
OpenInode == [open_cnt : {1}, removed : {FALSE}, data : DiskInode]
FileEntry == [fname : Names, inode : Sectors, pos : Int]

\* Slot k of the root directory lists a file.
Lists(f, k) == k \in 1 .. Entries /\ f.dir[k] # None

\* No two slots have the same name or inode.
DirOK(f) == /\ f.dir \in [1 .. Entries -> {None} \cup SlotEntry]
            /\ \A k, l : Lists(f, k) /\ Lists(f, l)
                         /\ (f.dir[k].name = f.dir[l].name
                             \/ f.dir[k].inode_sector = f.dir[l].inode_sector) => k = l

\* The open inodes are those in the file table, whose files are listed.
TableOK(f) == /\ f.table \in Seq(FileEntry)
              /\ \A i, j \in DOMAIN f.table : f.table[i].fname = f.table[j].fname => i = j
              /\ \A i \in DOMAIN f.table :
                    /\ f.open[f.table[i].inode] # None
                    /\ \E k : /\ Lists(f, k) /\ f.dir[k].name = f.table[i].fname
                              /\ f.dir[k].inode_sector = f.table[i].inode

OpenOK(f) == /\ f.open \in [Sectors -> {None} \cup OpenInode]
             /\ \A s \in Sectors : f.open[s] # None => \E i \in DOMAIN f.table : f.table[i].inode = s

SoundInode(up, f, d, s) == d \in DiskInode /\ Sound(up, f.map, f.store, d, s, Blocks(d))

\* The inode of every file is sound, on the disk and in memory.
InodesOK(up, f) == \A k : Lists(f, k) =>
    LET s == f.dir[k].inode_sector
    IN  SoundInode(up, f, AsInode(f.store[s]), s) /\ (f.open[s] # None => SoundInode(up, f, f.open[s].data, s))

\* Before the first failure no sector is lost, and an open inode is that on the disk.
Tight(f) == f.failed = 0 =>
    /\ \A t \in f.map \ Meta : \E k :
          Lists(f, k) /\ LET s == f.dir[k].inode_sector
                             d == AsInode(f.store[s])
                         IN  t \in {s} \cup SectorsOf(f.store, d, Blocks(d))
    /\ \A s \in Sectors : f.open[s] # None => f.open[s].data = AsInode(f.store[s])

GoodBy(up, f) == /\ DOMAIN f = Fields /\ f.failed \in Nat
                 /\ Heap(up, f.map, f.store)
                 /\ DirOK(f) /\ TableOK(f) /\ OpenOK(f) /\ InodesOK(up, f) /\ Tight(f)

Good(f) == \E up : GoodBy(up, f)

LEMMA GoodInit == GoodBy([t \in Sectors |-> <<0, 0>>], Formatted)
<1> DEFINE f == Formatted
           up == [t \in Sectors |-> <<0, 0>>]
<1>1. /\ DOMAIN f = Fields /\ f.failed = 0 /\ f.map = Meta /\ f.table = <<>>
      /\ f.store = [s \in Sectors |-> IF s = 0 THEN Inode(inode_disk(1)) ELSE Zeros]
      /\ f.dir = [k \in 1 .. Entries |-> None] /\ f.open = [s \in Sectors |-> None]
  BY DEF Formatted, Fields, Meta
<1> HIDE DEF f
<1>2. up \in Owners
  BY Geometry DEF Owners
<1>3. MapOK(f.map)
  BY <1>1, Geometry DEF MapOK
<1>4. inode_disk(1) \in DiskInode
  <2>1. BlockLimit >= 1 /\ BLOCK_SECTOR_SIZE >= 1 /\ BlockLimit \in Nat /\ BLOCK_SECTOR_SIZE \in Nat
    BY Capacities
  <2>2. BlockLimit * BLOCK_SECTOR_SIZE >= 1 /\ BlockLimit * BLOCK_SECTOR_SIZE \in Nat
    BY <2>1
  <2>3. QED
    BY <2>2, Geometry DEF inode_disk, DiskInode
<1>5. CellOK(Inode(inode_disk(1))) /\ Inode(inode_disk(1)).kind = "inode"
  BY <1>4 DEF CellOK, Inode
<1>6. \A s \in Sectors : CellOK(f.store[s]) /\ f.store[s].kind # "index"
  BY <1>1, <1>5, ZerosOK
<1>7. StoreOK(f.store)
  <2>1. f.store = [s \in Sectors |-> f.store[s]]
    BY <1>1
  <2>2. QED
    BY <2>1, <1>6, Geometry DEF StoreOK
<1>8. Forest(up, f.map, f.store)
  <2>1. ASSUME NEW t \in f.map, NEW j \in Slots PROVE AsIndex(f.store[t])[j] = 0
    <3>1. t \in Sectors
      BY <1>3, Geometry DEF MapOK
    <3>2. QED
      BY <3>1, <1>6 DEF AsIndex, Slots
  <2>2. QED
    BY <2>1 DEF Forest, Link
<1>9. Heap(up, f.map, f.store)
  BY <1>2, <1>3, <1>7, <1>8 DEF Heap
<1>10. \A k : ~Lists(f, k)
  BY <1>1 DEF Lists
<1>11. DirOK(f) /\ TableOK(f) /\ OpenOK(f) /\ InodesOK(up, f)
  BY <1>1, <1>10 DEF DirOK, TableOK, OpenOK, InodesOK
<1>12. Tight(f)
  BY <1>1 DEF Tight
<1>13. QED
  BY <1>1, <1>9, <1>11, <1>12 DEF GoodBy, f

----------------------------------------------------------------------------
\* A file that is looked up is in one slot.
LEMMA LookedUp ==
    ASSUME NEW f, DirOK(f), NEW name
    PROVE  /\ lookup(f, name) # {} =>
                /\ name \in Names /\ Lists(f, Min(lookup(f, name)))
                /\ f.dir[Min(lookup(f, name))].name = name
                /\ SectorOf(f, name) = f.dir[Min(lookup(f, name))].inode_sector
           /\ \A k : Lists(f, k) /\ f.dir[k].name = name =>
                k \in lookup(f, name) /\ k = Min(lookup(f, name))
<1> DEFINE T == lookup(f, name)
<1>1. T \subseteq Nat /\ \A k : k \in T <=> Lists(f, k) /\ f.dir[k].name = name
  BY DEF lookup, Lists
<1>2. T # {} => Min(T) \in T
  <2> HIDE DEF T
  <2>1. QED
    BY <1>1, LeastIn
<1>3. T # {} => Lists(f, Min(T)) /\ f.dir[Min(T)].name = name
  BY <1>1, <1>2
<1>4. T # {} => name \in Names
  BY <1>3 DEF DirOK, Lists, SlotEntry
<1>5. ASSUME NEW k, Lists(f, k), f.dir[k].name = name PROVE k \in T /\ k = Min(T)
  <2>1. k \in T
    BY <1>1, <1>5
  <2>2. Lists(f, Min(T)) /\ f.dir[Min(T)].name = name
    BY <2>1, <1>3
  <2> HIDE DEF T
  <2>3. QED
    BY <2>1, <2>2, <1>5 DEF DirOK
<1>6. QED
  BY <1>3, <1>4, <1>5 DEF SectorOf

\* A file that is open has one handle.
LEMMA Handled ==
    ASSUME NEW f, TableOK(f), NEW name, IsOpen(f, name)
    PROVE  /\ Min(Handle(f, name)) \in DOMAIN f.table
           /\ f.table[Min(Handle(f, name))].fname = name
           /\ File(f, name) = f.table[Min(Handle(f, name))]
           /\ \A i \in DOMAIN f.table : f.table[i].fname = name => i = Min(Handle(f, name))
<1> DEFINE T == Handle(f, name)
<1>1. T \subseteq Nat /\ T # {} /\ \A i : i \in T <=> i \in DOMAIN f.table /\ f.table[i].fname = name
  BY DEF TableOK, Handle, IsOpen
<1>2. Min(T) \in T
  <2> HIDE DEF T
  <2>1. QED
    BY <1>1, LeastIn
<1>3. Min(T) \in DOMAIN f.table /\ f.table[Min(T)].fname = name
  BY <1>1, <1>2
<1> HIDE DEF T
<1>4. \A i \in DOMAIN f.table : f.table[i].fname = name => i = Min(T)
  BY <1>3 DEF TableOK
<1>5. QED
  BY <1>3, <1>4 DEF T, File

\* The handle of a listed file leads to its inode.
LEMMA HandleOf ==
    ASSUME NEW f, DirOK(f), TableOK(f), NEW name, IsOpen(f, name)
    PROVE  /\ name \in Names /\ lookup(f, name) # {} /\ File(f, name).inode = SectorOf(f, name)
           /\ File(f, name) \in FileEntry /\ f.open[SectorOf(f, name)] # None
<1> DEFINE i == Min(Handle(f, name))
<1>1. i \in DOMAIN f.table /\ f.table[i].fname = name /\ File(f, name) = f.table[i]
  BY Handled
<1> HIDE DEF i
<1>2. f.table[i] \in FileEntry
  BY <1>1 DEF TableOK
<1>3. PICK k : Lists(f, k) /\ f.dir[k].name = name /\ f.dir[k].inode_sector = f.table[i].inode
  BY <1>1 DEF TableOK
<1>4. k \in lookup(f, name) /\ k = Min(lookup(f, name))
  BY <1>3, LookedUp
<1>5. name \in Names /\ SectorOf(f, name) = f.dir[k].inode_sector
  BY <1>4, LookedUp
<1>6. QED
  BY <1>1, <1>2, <1>3, <1>4, <1>5 DEF TableOK

\* What a change of the file table and of the open inodes must respect.
LEMMA SameFiles ==
    ASSUME NEW up, NEW f, GoodBy(up, f), NEW g, DOMAIN g = Fields,
           g.map = f.map, g.store = f.store, g.dir = f.dir, g.failed = f.failed,
           TableOK(g), OpenOK(g),
           \A s \in Sectors : g.open[s] # None =>
              (f.open[s] # None /\ g.open[s].data = f.open[s].data) \/ g.open[s].data = AsInode(f.store[s])
    PROVE  GoodBy(up, g)
<1>1. \A k : Lists(g, k) <=> Lists(f, k)
  BY DEF Lists
<1>2. DirOK(g)
  BY <1>1 DEF GoodBy, DirOK
<1>3. \A d, s : SoundInode(up, g, d, s) <=> SoundInode(up, f, d, s)
  BY DEF SoundInode
<1>4. InodesOK(up, g)
  <2>1. ASSUME NEW k, Lists(g, k)
        PROVE  LET s == g.dir[k].inode_sector
               IN  /\ SoundInode(up, g, AsInode(g.store[s]), s)
                   /\ g.open[s] # None => SoundInode(up, g, g.open[s].data, s)
    <3> DEFINE s == f.dir[k].inode_sector
    <3>1. Lists(f, k) /\ s \in Sectors
      BY <1>1, <2>1 DEF GoodBy, DirOK, Lists, SlotEntry
    <3>2. /\ SoundInode(up, f, AsInode(f.store[s]), s)
          /\ f.open[s] # None => SoundInode(up, f, f.open[s].data, s)
      BY <3>1 DEF GoodBy, InodesOK
    <3> HIDE DEF s
    <3>3. g.open[s] # None => SoundInode(up, f, g.open[s].data, s)
      BY <3>1, <3>2
    <3>4. QED
      BY <3>2, <3>3, <1>3 DEF s
  <2>2. QED
    BY <2>1 DEF InodesOK
<1>5. Tight(g)
  <2>1. SUFFICES ASSUME f.failed = 0 PROVE Tight(g)
    BY DEF Tight
  <2>2. \A s \in Sectors : f.open[s] # None => f.open[s].data = AsInode(f.store[s])
    BY <2>1 DEF GoodBy, Tight
  <2>3. \A s \in Sectors : g.open[s] # None => g.open[s].data = AsInode(g.store[s])
    BY <2>2
  <2>4. \A t \in g.map \ Meta : \E k :
          Lists(g, k) /\ LET s == g.dir[k].inode_sector
                             d == AsInode(g.store[s])
                         IN  t \in {s} \cup SectorsOf(g.store, d, Blocks(d))
    BY <1>1, <2>1 DEF GoodBy, Tight
  <2>5. QED
    BY <2>3, <2>4 DEF Tight
<1>6. QED
  BY <1>2, <1>4, <1>5 DEF GoodBy

LEMMA OnlyPanic ==
    ASSUME NEW up, NEW f, GoodBy(up, f), NEW b, NEW g, g = [f EXCEPT !.panic = b]
    PROVE  GoodBy(up, g)
<1>1. /\ DOMAIN g = Fields /\ g.map = f.map /\ g.store = f.store /\ g.dir = f.dir
      /\ g.failed = f.failed /\ g.table = f.table /\ g.open = f.open
  BY DEF GoodBy, Fields
<1>2. TableOK(g) /\ OpenOK(g)
  BY <1>1 DEF GoodBy, TableOK, OpenOK, Lists
<1>3. QED
  BY <1>1, <1>2, SameFiles

\* The position of a handle.
LEMMA OnlyPosition ==
    ASSUME NEW up, NEW f, GoodBy(up, f), NEW i \in DOMAIN f.table, NEW v \in Int
    PROVE  LET g == [f EXCEPT !.table[i].pos = v]
           IN  /\ GoodBy(up, g) /\ g.dir = f.dir /\ g.open = f.open /\ DOMAIN g.table = DOMAIN f.table
               /\ \A j \in DOMAIN f.table : g.table[j].fname = f.table[j].fname
<1> DEFINE g == [f EXCEPT !.table[i].pos = v]
<1>1. /\ DOMAIN g = Fields /\ g.map = f.map /\ g.store = f.store /\ g.dir = f.dir
      /\ g.failed = f.failed /\ g.open = f.open
      /\ g.table = [f.table EXCEPT ![i] = [f.table[i] EXCEPT !.pos = v]]
  BY DEF GoodBy, Fields
<1> HIDE DEF g
<1>2. f.table \in Seq(FileEntry) /\ f.table[i] \in FileEntry
  BY DEF GoodBy, TableOK
<1>3. [f.table[i] EXCEPT !.pos = v] \in FileEntry
  BY <1>2 DEF FileEntry
<1>4. /\ g.table \in Seq(FileEntry) /\ DOMAIN g.table = DOMAIN f.table
      /\ \A j \in DOMAIN f.table : j # i => g.table[j] = f.table[j]
      /\ g.table[i] = [f.table[i] EXCEPT !.pos = v]
  BY <1>1, <1>2, <1>3
<1>5. \A j \in DOMAIN f.table : g.table[j].fname = f.table[j].fname /\ g.table[j].inode = f.table[j].inode
  <2>1. [f.table[i] EXCEPT !.pos = v].fname = f.table[i].fname
        /\ [f.table[i] EXCEPT !.pos = v].inode = f.table[i].inode
    BY <1>2 DEF FileEntry
  <2>2. QED
    BY <2>1, <1>4
<1>6. \A k : Lists(g, k) <=> Lists(f, k)
  BY <1>1 DEF Lists
<1>7. TableOK(g) /\ OpenOK(g)
  BY <1>1, <1>4, <1>5, <1>6 DEF GoodBy, TableOK, OpenOK
<1>8. GoodBy(up, g)
  BY <1>1, <1>7, SameFiles
<1>9. QED
  BY <1>1, <1>4, <1>5, <1>8 DEF g

\* g is f with some more files open.
OpensMore(f, g) ==
    /\ g.map = f.map /\ g.store = f.store /\ g.dir = f.dir /\ g.failed = f.failed
    /\ g.recovered = f.recovered
    /\ \A s \in Sectors : f.open[s] # None => g.open[s] = f.open[s]
    /\ \A n : IsOpen(f, n) => IsOpen(g, n)

LEMMA Opens ==
    ASSUME NEW up, NEW f, GoodBy(up, f), NEW name
    PROVE  LET g == OpenFile(f, name)
           IN  /\ GoodBy(up, g) /\ OpensMore(f, g)
               /\ lookup(f, name) # {} => IsOpen(g, name)
<1> DEFINE g == OpenFile(f, name)
<1>1. CASE IsOpen(f, name) \/ lookup(f, name) = {}
  <2>1. g = f
    BY <1>1 DEF OpenFile
  <2>2. QED
    BY <1>1, <2>1 DEF OpensMore
<1>2. CASE ~IsOpen(f, name) /\ lookup(f, name) # {}
  <2> DEFINE s == SectorOf(f, name)
             k == Min(lookup(f, name))
             o == [open_cnt |-> 1, removed |-> FALSE, data |-> AsInode(f.store[s])]
             e == [fname |-> name, inode |-> s, pos |-> 0]
  <2>1. DirOK(f) /\ TableOK(f) /\ OpenOK(f) /\ InodesOK(up, f) /\ DOMAIN f = Fields
    BY DEF GoodBy
  <2>2. name \in Names /\ Lists(f, k) /\ f.dir[k].name = name /\ s = f.dir[k].inode_sector
    BY <1>2, <2>1, LookedUp
  <2> HIDE DEF s, k
  <2>3. s \in Sectors
    BY <2>1, <2>2 DEF DirOK, Lists, SlotEntry
  <2>4. AsInode(f.store[s]) \in DiskInode
    BY <2>1, <2>2 DEF InodesOK, SoundInode
  \* The file's inode is not open.
  <2>5. f.open[s] = None
    <3>1. SUFFICES ASSUME f.open[s] # None PROVE FALSE
      OBVIOUS
    <3>2. PICK i \in DOMAIN f.table : f.table[i].inode = s
      BY <2>1, <2>3, <3>1 DEF OpenOK
    <3>3. PICK l : /\ Lists(f, l) /\ f.dir[l].name = f.table[i].fname
                   /\ f.dir[l].inode_sector = f.table[i].inode
      BY <2>1 DEF TableOK
    <3>4. l = k
      BY <2>1, <2>2, <3>2, <3>3 DEF DirOK
    <3>5. i \in Handle(f, name)
      BY <2>2, <3>3, <3>4 DEF Handle
    <3>6. QED
      BY <3>5, <1>2 DEF IsOpen
  <2>6. g = [f EXCEPT !.open[s] = o, !.table = Append(f.table, e)]
    <3>1. inode_open(f, s) = [f EXCEPT !.open[s] = o]
      BY <2>5 DEF inode_open
    <3>2. g = [inode_open(f, s) EXCEPT !.table = Append(@, e)]
      BY <1>2 DEF OpenFile, s
    <3>3. QED
      BY <3>1, <3>2, <2>1 DEF Fields
  <2>7. /\ DOMAIN g = Fields /\ g.map = f.map /\ g.store = f.store /\ g.dir = f.dir
        /\ g.failed = f.failed /\ g.recovered = f.recovered
        /\ g.open = [f.open EXCEPT ![s] = o] /\ g.table = Append(f.table, e)
    BY <2>1, <2>6 DEF Fields
  <2> HIDE DEF g
  <2>8. f.open \in [Sectors -> {None} \cup OpenInode] /\ f.table \in Seq(FileEntry)
    BY <2>1 DEF OpenOK, TableOK
  <2>9. o \in OpenInode /\ o # None /\ o.data = AsInode(f.store[s])
    <3> DEFINE d == AsInode(f.store[s])
    <3>1. d \in DiskInode
      BY <2>4
    <3> HIDE DEF d
    <3>2. [open_cnt |-> 1, removed |-> FALSE, data |-> d] \in OpenInode
          /\ [open_cnt |-> 1, removed |-> FALSE, data |-> d].data = d
      BY <3>1 DEF OpenInode
    <3>3. o = [open_cnt |-> 1, removed |-> FALSE, data |-> d]
      BY DEF d
    <3> HIDE DEF o
    <3>4. o \in OpenInode /\ o.data = d
      BY <3>2, <3>3
    <3>5. None \notin OpenInode
      BY NoneAssumption DEF OpenInode
    <3>6. QED
      BY <3>4, <3>5 DEF d
  <2>10. e \in FileEntry /\ e.fname = name /\ e.inode = s
    BY <2>2, <2>3 DEF FileEntry
  <2> HIDE DEF o, e
  <2>11. /\ g.open \in [Sectors -> {None} \cup OpenInode] /\ g.open[s] = o
         /\ \A t \in Sectors : t # s => g.open[t] = f.open[t]
    BY <2>3, <2>7, <2>8, <2>9
  <2>12. /\ g.table \in Seq(FileEntry) /\ Len(f.table) \in Nat
         /\ DOMAIN f.table = 1 .. Len(f.table) /\ DOMAIN g.table = 1 .. Len(f.table) + 1
         /\ \A i \in DOMAIN f.table : g.table[i] = f.table[i]
         /\ g.table[Len(f.table) + 1] = e
    BY <2>7, <2>8, <2>10
  <2>13. \A j : Lists(g, j) <=> Lists(f, j)
    BY <2>7 DEF Lists
  <2>14. TableOK(g)
    <3>1. ASSUME NEW i \in DOMAIN g.table, NEW j \in DOMAIN g.table, g.table[i].fname = g.table[j].fname
          PROVE  i = j
      <4>1. ASSUME NEW m \in DOMAIN f.table PROVE f.table[m].fname # name
        BY <1>2 DEF IsOpen, Handle
      <4>2. CASE i \in DOMAIN f.table /\ j \in DOMAIN f.table
        BY <4>2, <3>1, <2>1, <2>12 DEF TableOK
      <4>3. QED
        BY <3>1, <4>1, <4>2, <2>10, <2>12
    <3>2. ASSUME NEW i \in DOMAIN g.table
          PROVE  /\ g.open[g.table[i].inode] # None
                 /\ \E j : /\ Lists(g, j) /\ g.dir[j].name = g.table[i].fname
                           /\ g.dir[j].inode_sector = g.table[i].inode
      <4>1. CASE i \in DOMAIN f.table
        <5>0. f.table[i] \in FileEntry
          BY <4>1, <2>8
        <5>1. f.table[i].inode \in Sectors
          BY <5>0 DEF FileEntry
        <5>2. f.open[f.table[i].inode] # None /\ \E j : /\ Lists(f, j) /\ f.dir[j].name = f.table[i].fname
                                                       /\ f.dir[j].inode_sector = f.table[i].inode
          BY <4>1, <2>1 DEF TableOK
        <5>3. QED
          BY <4>1, <5>1, <5>2, <2>5, <2>7, <2>11, <2>12, <2>13
      <4>2. CASE i \notin DOMAIN f.table
        <5>1. g.table[i] = e
          BY <4>2, <3>2, <2>12
        <5>2. QED
          BY <5>1, <2>2, <2>7, <2>9, <2>10, <2>11, <2>13
      <4>3. QED
        BY <4>1, <4>2
    <3>3. QED
      BY <3>1, <3>2, <2>12 DEF TableOK
  <2>15. OpenOK(g)
    <3>1. ASSUME NEW t \in Sectors, g.open[t] # None
          PROVE  \E i \in DOMAIN g.table : g.table[i].inode = t
      <4>1. CASE t = s
        <5>1. Len(f.table) + 1 \in DOMAIN g.table
          BY <2>12
        <5>2. QED
          BY <4>1, <5>1, <2>10, <2>12
      <4>2. CASE t # s
        <5>1. PICK i \in DOMAIN f.table : f.table[i].inode = t
          BY <4>2, <3>1, <2>1, <2>11 DEF OpenOK
        <5>2. i \in DOMAIN g.table
          BY <2>12
        <5>3. QED
          BY <5>1, <5>2, <2>12
      <4>3. QED
        BY <4>1, <4>2
    <3>2. QED
      BY <3>1, <2>11 DEF OpenOK
  <2>16. GoodBy(up, g)
    <3>1. \A t \in Sectors : g.open[t] # None =>
             \/ f.open[t] # None /\ g.open[t].data = f.open[t].data
             \/ g.open[t].data = AsInode(f.store[t])
      BY <2>9, <2>11
    <3>2. QED
      BY <3>1, <2>7, <2>14, <2>15, SameFiles
  <2>17. OpensMore(f, g) /\ IsOpen(g, name)
    <3>1. ASSUME NEW n, IsOpen(f, n) PROVE IsOpen(g, n)
      <4>1. PICK i \in DOMAIN f.table : f.table[i].fname = n
        BY <3>1 DEF IsOpen, Handle
      <4>2. i \in DOMAIN g.table /\ g.table[i].fname = n
        BY <4>1, <2>12
      <4>3. QED
        BY <4>2 DEF IsOpen, Handle
    <3>2. \A t \in Sectors : f.open[t] # None => g.open[t] = f.open[t]
      BY <2>5, <2>11
    <3>3. IsOpen(g, name)
      <4>1. Len(f.table) + 1 \in DOMAIN g.table
        BY <2>12
      <4>2. QED
        BY <4>1, <2>10, <2>12 DEF IsOpen, Handle
    <3>4. QED
      BY <3>1, <3>2, <3>3, <2>7 DEF OpensMore
  <2>18. QED
    BY <2>16, <2>17 DEF g
<1>3. QED
  BY <1>1, <1>2

----------------------------------------------------------------------------
LEMMA Join ==
    ASSUME NEW S, NEW a \in Seq(S), NEW b \in Seq(S)
    PROVE  /\ a \o b \in Seq(S) /\ Len(a \o b) = Len(a) + Len(b)
           /\ \A j \in 1 .. Len(a) + Len(b) : (a \o b)[j] = IF j <= Len(a) THEN a[j] ELSE b[j - Len(a)]
  OBVIOUS

LEMMA Removal ==
    ASSUME NEW S, NEW q \in Seq(S), NEW i \in DOMAIN q
    PROVE  LET r == RemoveAt(q, i)
           IN  /\ r \in Seq(S) /\ Len(q) \in Nat /\ DOMAIN q = 1 .. Len(q)
               /\ DOMAIN r = 1 .. Len(q) - 1
               /\ \A j \in 1 .. Len(q) - 1 : r[j] = IF j < i THEN q[j] ELSE q[j + 1]
<1> DEFINE a == SubSeq(q, 1, i - 1)
           b == SubSeq(q, i + 1, Len(q))
<1>1. Len(q) \in Nat /\ DOMAIN q = 1 .. Len(q) /\ i \in 1 .. Len(q)
  OBVIOUS
<1>2. a \in Seq(S) /\ Len(a) = i - 1 /\ \A j \in 1 .. i - 1 : a[j] = q[j]
  BY <1>1
<1>3. b \in Seq(S) /\ Len(b) = Len(q) - i /\ \A j \in 1 .. Len(q) - i : b[j] = q[i + j]
  BY <1>1
<1>4. RemoveAt(q, i) = a \o b
  BY DEF RemoveAt
<1> HIDE DEF a, b
<1>5. /\ a \o b \in Seq(S) /\ Len(a \o b) = Len(q) - 1
      /\ \A j \in 1 .. Len(q) - 1 : (a \o b)[j] = IF j <= i - 1 THEN a[j] ELSE b[j - (i - 1)]
  <2>1. Len(a) \in Nat /\ Len(b) \in Nat /\ Len(a) + Len(b) = Len(q) - 1
    BY <1>1, <1>2, <1>3
  <2>2. /\ a \o b \in Seq(S) /\ Len(a \o b) = Len(a) + Len(b)
        /\ \A j \in 1 .. Len(a) + Len(b) : (a \o b)[j] = IF j <= Len(a) THEN a[j] ELSE b[j - Len(a)]
    BY <1>2, <1>3, Join
  <2>3. QED
    BY <1>2, <2>1, <2>2
<1>6. ASSUME NEW j \in 1 .. Len(q) - 1 PROVE (a \o b)[j] = IF j < i THEN q[j] ELSE q[j + 1]
  <2>1. CASE j < i
    BY <2>1, <1>1, <1>2, <1>5
  <2>2. CASE ~(j < i)
    <3>1. j - (i - 1) \in 1 .. Len(q) - i /\ i + (j - (i - 1)) = j + 1 /\ ~(j <= i - 1)
      BY <2>2, <1>1
    <3>2. QED
      BY <3>1, <2>2, <1>3, <1>5
  <2>3. QED
    BY <2>1, <2>2
<1> DEFINE r == a \o b
<1>7. DOMAIN (a \o b) = 1 .. Len(q) - 1
  <2>1. r \in Seq(S) /\ Len(r) = Len(q) - 1
    BY <1>5
  <2> HIDE DEF r
  <2>2. DOMAIN r = 1 .. Len(r)
    BY <2>1
  <2>3. QED
    BY <2>1, <2>2 DEF r
<1>8. QED
  BY <1>1, <1>4, <1>5, <1>6, <1>7

\* A file is closed.
LEMMA Closes ==
    ASSUME NEW up, NEW f, GoodBy(up, f), NEW name
    PROVE  LET g == remove_from_file_table(f, name)
           IN  /\ GoodBy(up, g) /\ ~IsOpen(g, name) /\ g.dir = f.dir /\ g.recovered = f.recovered
               /\ g.store = f.store /\ g.map = f.map /\ g.failed = f.failed
               /\ \A s \in Sectors : g.open[s] = f.open[s] \/ g.open[s] = None
<1> DEFINE g == remove_from_file_table(f, name)
<1>1. CASE ~IsOpen(f, name)
  BY <1>1 DEF remove_from_file_table
<1>2. CASE IsOpen(f, name)
  <2> DEFINE i == Min(Handle(f, name))
             s == f.table[i].inode
  <2>1. DirOK(f) /\ TableOK(f) /\ OpenOK(f) /\ DOMAIN f = Fields
    BY DEF GoodBy
  <2>2. /\ i \in DOMAIN f.table /\ f.table[i].fname = name /\ File(f, name) = f.table[i]
        /\ \A j \in DOMAIN f.table : f.table[j].fname = name => j = i
    BY <1>2, <2>1, Handled
  <2>3. g = [inode_close(f, s) EXCEPT !.table = RemoveAt(@, i)]
    BY <1>2, <2>2 DEF remove_from_file_table
  <2> HIDE DEF i
  <2>4. f.table \in Seq(FileEntry) /\ f.table[i] \in FileEntry /\ f.open[s] # None
    BY <2>1, <2>2 DEF TableOK
  <2>5. s \in Sectors
    BY <2>4 DEF FileEntry
  <2>6. f.open[s] \in OpenInode
    BY <2>1, <2>4, <2>5 DEF OpenOK
  <2>7. f.open[s].open_cnt = 1 /\ f.open[s].removed = FALSE
    BY <2>6 DEF OpenInode
  <2>8. inode_close(f, s) = [f EXCEPT !.open[s] = None]
    BY <2>4, <2>7 DEF inode_close
  <2>9. /\ DOMAIN g = Fields /\ g.map = f.map /\ g.store = f.store /\ g.dir = f.dir
        /\ g.failed = f.failed /\ g.recovered = f.recovered
        /\ g.open = [f.open EXCEPT ![s] = None] /\ g.table = RemoveAt(f.table, i)
    BY <2>1, <2>3, <2>8 DEF Fields
  <2> HIDE DEF g, s
  <2>10. /\ g.table \in Seq(FileEntry) /\ Len(f.table) \in Nat /\ DOMAIN f.table = 1 .. Len(f.table)
         /\ DOMAIN g.table = 1 .. Len(f.table) - 1
         /\ \A j \in 1 .. Len(f.table) - 1 : g.table[j] = IF j < i THEN f.table[j] ELSE f.table[j + 1]
    BY <2>2, <2>4, <2>9, Removal
  <2>11. /\ g.open \in [Sectors -> {None} \cup OpenInode] /\ g.open[s] = None
         /\ \A t \in Sectors : t # s => g.open[t] = f.open[t]
    BY <2>1, <2>5, <2>9 DEF OpenOK
  \* The other handles are kept.
  <2>12. \A j \in DOMAIN g.table : \E m \in DOMAIN f.table : m # i /\ g.table[j] = f.table[m]
    <3>1. ASSUME NEW j \in DOMAIN g.table PROVE \E m \in DOMAIN f.table : m # i /\ g.table[j] = f.table[m]
      <4>1. CASE j < i
        BY <4>1, <2>2, <2>10
      <4>2. CASE ~(j < i)
        <5>1. j + 1 \in DOMAIN f.table /\ j + 1 # i /\ g.table[j] = f.table[j + 1]
          BY <4>2, <3>1, <2>2, <2>10
        <5>2. QED
          BY <5>1
      <4>3. QED
        BY <4>1, <4>2
    <3>2. QED
      BY <3>1
  <2>13. \A m \in DOMAIN f.table : m # i => \E j \in DOMAIN g.table : g.table[j] = f.table[m]
    <3>1. ASSUME NEW m \in DOMAIN f.table, m # i PROVE \E j \in DOMAIN g.table : g.table[j] = f.table[m]
      <4>1. CASE m < i
        <5>1. m \in DOMAIN g.table /\ g.table[m] = f.table[m]
          BY <4>1, <3>1, <2>2, <2>10
        <5>2. QED
          BY <5>1
      <4>2. CASE ~(m < i)
        <5>1. m - 1 \in DOMAIN g.table /\ ~(m - 1 < i) /\ (m - 1) + 1 = m
          BY <4>2, <3>1, <2>2, <2>10
        <5>2. g.table[m - 1] = f.table[m]
          BY <5>1, <2>10
        <5>3. QED
          BY <5>1, <5>2
      <4>3. QED
        BY <4>1, <4>2
    <3>2. QED
      BY <3>1
  \* Another file has another inode.
  <2>14. ASSUME NEW m \in DOMAIN f.table, m # i PROVE f.table[m].inode # s /\ f.table[m].inode \in Sectors
    <3>1. PICK k : /\ Lists(f, k) /\ f.dir[k].name = f.table[i].fname
                   /\ f.dir[k].inode_sector = f.table[i].inode
      BY <2>1, <2>2 DEF TableOK
    <3>2. PICK l : /\ Lists(f, l) /\ f.dir[l].name = f.table[m].fname
                   /\ f.dir[l].inode_sector = f.table[m].inode
      BY <2>1, <2>14 DEF TableOK
    <3>3. f.table[m].fname # f.table[i].fname
      BY <2>2, <2>14
    <3>4. k # l
      BY <3>1, <3>2, <3>3
    <3>5. f.table[m].inode # f.table[i].inode
      BY <3>1, <3>2, <3>4, <2>1 DEF DirOK
    <3>6. f.table[m] \in FileEntry
      BY <2>4
    <3>7. QED
      BY <3>5, <3>6 DEF s, FileEntry
  <2>15. \A k : Lists(g, k) <=> Lists(f, k)
    BY <2>9 DEF Lists
  <2>16. TableOK(g)
    <3>1. ASSUME NEW x \in DOMAIN g.table, NEW y \in DOMAIN g.table, g.table[x].fname = g.table[y].fname
          PROVE  x = y
      <4> DEFINE px == IF x < i THEN x ELSE x + 1
                 py == IF y < i THEN y ELSE y + 1
      <4>1. /\ px \in DOMAIN f.table /\ py \in DOMAIN f.table
            /\ g.table[x] = f.table[px] /\ g.table[y] = f.table[py]
        <5>1. \A j \in DOMAIN g.table :
                 LET p == IF j < i THEN j ELSE j + 1
                 IN  p \in DOMAIN f.table /\ g.table[j] = f.table[p]
          <6>1. ASSUME NEW j \in DOMAIN g.table
                PROVE  LET p == IF j < i THEN j ELSE j + 1
                       IN  p \in DOMAIN f.table /\ g.table[j] = f.table[p]
            <7>1. CASE j < i
              BY <6>1, <7>1, <2>2, <2>10
            <7>2. CASE ~(j < i)
              BY <6>1, <7>2, <2>2, <2>10
            <7>3. QED
              BY <7>1, <7>2
          <6>2. QED
            BY <6>1
        <5>2. QED
          BY <5>1
      <4>2. px = py
        <5> HIDE DEF px, py
        <5>1. QED
          BY <3>1, <4>1, <2>1 DEF TableOK
      <4>3. QED
        BY <4>2, <2>2, <2>10
    <3>2. ASSUME NEW j \in DOMAIN g.table
          PROVE  /\ g.open[g.table[j].inode] # None
                 /\ \E k : /\ Lists(g, k) /\ g.dir[k].name = g.table[j].fname
                           /\ g.dir[k].inode_sector = g.table[j].inode
      <4>1. PICK m \in DOMAIN f.table : m # i /\ g.table[j] = f.table[m]
        BY <2>12
      <4>2. /\ f.open[f.table[m].inode] # None
            /\ \E k : /\ Lists(f, k) /\ f.dir[k].name = f.table[m].fname
                      /\ f.dir[k].inode_sector = f.table[m].inode
        BY <2>1 DEF TableOK
      <4>3. QED
        BY <4>1, <4>2, <2>9, <2>11, <2>14, <2>15
    <3>3. QED
      BY <3>1, <3>2, <2>10 DEF TableOK
  <2>17. OpenOK(g)
    <3>1. ASSUME NEW t \in Sectors, g.open[t] # None
          PROVE  \E j \in DOMAIN g.table : g.table[j].inode = t
      <4>1. t # s /\ f.open[t] # None
        BY <3>1, <2>11
      <4>2. PICK m \in DOMAIN f.table : f.table[m].inode = t
        BY <4>1, <2>1 DEF OpenOK
      <4>3. m # i
        BY <4>1, <4>2 DEF s
      <4>4. QED
        BY <4>2, <4>3, <2>13
    <3>2. QED
      BY <3>1, <2>11 DEF OpenOK
  <2>18. GoodBy(up, g)
    <3>1. \A t \in Sectors : g.open[t] # None =>
             \/ f.open[t] # None /\ g.open[t].data = f.open[t].data
             \/ g.open[t].data = AsInode(f.store[t])
      BY <2>11
    <3>2. QED
      BY <3>1, <2>9, <2>16, <2>17, SameFiles
  <2>19. ~IsOpen(g, name)
    <3>1. ASSUME NEW j \in DOMAIN g.table PROVE g.table[j].fname # name
      BY <2>2, <2>12
    <3>2. QED
      BY <3>1 DEF IsOpen, Handle
  <2>20. QED
    BY <2>9, <2>11, <2>18, <2>19 DEF g
<1>3. QED
  BY <1>1, <1>2

\* quit and the next start.
LEMMA Remounts ==
    ASSUME NEW up, NEW f, GoodBy(up, f)
    PROVE  GoodBy(up, Remount(f))
<1> DEFINE g == Remount(f)
<1>1. /\ DOMAIN g = Fields /\ g.map = f.map /\ g.store = f.store /\ g.dir = f.dir
      /\ g.failed = f.failed /\ g.table = <<>> /\ g.open = [s \in Sectors |-> None]
  BY DEF GoodBy, Fields, Remount
<1> HIDE DEF g
<1>2. g.table \in Seq(FileEntry) /\ DOMAIN g.table = {}
  BY <1>1
<1>3. TableOK(g) /\ OpenOK(g)
  BY <1>1, <1>2 DEF TableOK, OpenOK
<1>4. \A s \in Sectors : g.open[s] = None
  BY <1>1
<1>5. GoodBy(up, g)
  BY <1>1, <1>3, <1>4, SameFiles
<1>6. QED
  BY <1>5 DEF g

----------------------------------------------------------------------------
\* Sound inodes stay sound and inodes on the disk, but that of s, as they are.
Keeps(up, map, store, up2, map2, store2, s) ==
    /\ Heap(up2, map2, store2)
    /\ \A d, r, n : Sound(up, map, store, d, r, n) =>
          Sound(up2, map2, store2, d, r, n) /\ SectorsOf(store, d, n) \subseteq SectorsOf(store2, d, n)
    /\ \A r : Root(up, map, r) => Root(up2, map2, r) /\ (r # s => store2[r] = store[r])

LEMMA KeepsOn ==
    ASSUME NEW up, NEW map, NEW store, NEW up1, NEW map1, NEW store1, NEW s,
           Keeps(up, map, store, up1, map1, store1, s),
           NEW up2, NEW map2, NEW store2, Keeps(up1, map1, store1, up2, map2, store2, s)
    PROVE  Keeps(up, map, store, up2, map2, store2, s)
<1>1. ASSUME NEW d, NEW r, NEW n, Sound(up, map, store, d, r, n)
      PROVE  Sound(up2, map2, store2, d, r, n) /\ SectorsOf(store, d, n) \subseteq SectorsOf(store2, d, n)
  <2>1. Sound(up1, map1, store1, d, r, n) /\ SectorsOf(store, d, n) \subseteq SectorsOf(store1, d, n)
    BY <1>1 DEF Keeps
  <2>2. Sound(up2, map2, store2, d, r, n) /\ SectorsOf(store1, d, n) \subseteq SectorsOf(store2, d, n)
    BY <2>1 DEF Keeps
  <2>3. QED
    BY <2>1, <2>2
<1>2. \A r : Root(up, map, r) => Root(up2, map2, r) /\ (r # s => store2[r] = store[r])
  BY DEF Keeps
<1>3. QED
  BY <1>1, <1>2 DEF Keeps

LEMMA KeepsAllocated ==
    ASSUME NEW up, NEW map, NEW store, Heap(up, map, store),
           NEW up2, NEW map2, NEW store2, Heap(up2, map2, store2),
           Extends(up, map, up2, map2), Kept(up, map, store, store2), NEW s
    PROVE  Keeps(up, map, store, up2, map2, store2, s)
<1>1. \A d, r, n : Sound(up, map, store, d, r, n) =>
          Sound(up2, map2, store2, d, r, n) /\ SectorsOf(store, d, n) \subseteq SectorsOf(store2, d, n)
  BY SoundKept
<1>2. ASSUME NEW r, Root(up, map, r) PROVE Root(up2, map2, r) /\ store2[r] = store[r]
  <2>1. r \in map \ {0} /\ up[r][2] = RootSlot /\ up2[r] = up[r] /\ r \in map2 \ Meta
    BY <1>2, Geometry DEF Root, Extends
  <2>2. QED
    BY <2>1, <1>2 DEF Root, Kept
<1>3. QED
  BY <1>1, <1>2 DEF Keeps

LEMMA KeepsInode ==
    ASSUME NEW up, NEW map, NEW store, Heap(up, map, store), NEW s, Root(up, map, s),
           NEW d \in DiskInode
    PROVE  Keeps(up, map, store, up, map, [store EXCEPT ![s] = Inode(d)], s)
<1> DEFINE store2 == [store EXCEPT ![s] = Inode(d)]
<1>1. Heap(up, map, store2) /\ \A t \in Sectors : t # s => store2[t] = store[t]
  BY InodeStored
<1> HIDE DEF store2
<1>2. map \subseteq Sectors /\ up[s] = <<s, RootSlot>>
  BY Geometry DEF Heap, MapOK, Root
<1>3. ASSUME NEW e, NEW r, NEW n, Sound(up, map, store, e, r, n)
      PROVE  Sound(up, map, store2, e, r, n) /\ SectorsOf(store, e, n) \subseteq SectorsOf(store2, e, n)
  <2>1. ASSUME NEW t \in IndexesFor(store, e, n) PROVE store2[t] = store[t]
    <3>1. t # s
      BY <1>2, <1>3, NotAnIndex
    <3>2. t \in Sectors
      BY <1>2, <1>3, IndexSector DEF Belongs
    <3>3. QED
      BY <3>1, <3>2, <1>1
  <2>2. QED
    BY <1>1, <1>3, <2>1, SoundSame
<1>4. \A r : Root(up, map, r) => Root(up, map, r) /\ (r # s => store2[r] = store[r])
  BY <1>1, <1>2 DEF Root
<1>5. Keeps(up, map, store, up, map, store2, s)
  BY <1>1, <1>3, <1>4 DEF Keeps
<1>6. QED
  BY <1>5 DEF store2

LEMMA KeepsBytes ==
    ASSUME NEW up, NEW map, NEW store, NEW d, NEW s, NEW length \in Int,
           Sound(up, map, store, d, s, bytes_to_sectors(length)),
           NEW buf, Len(buf) \in Nat \ {0}, NEW ofs \in Nat, ofs + Len(buf) <= length
    PROVE  /\ Keeps(up, map, store, up, map, Stored(store, d, buf, ofs), s)
           /\ Stored(store, d, buf, ofs)[s] = store[s]
<1> DEFINE store2 == Stored(store, d, buf, ofs)
<1>1. /\ Heap(up, map, store2)
      /\ \A t \in Sectors : store2[t] = store[t] \/ (t \in map \ Meta /\ DataPath(up, s, t))
  BY BytesStored
<1> HIDE DEF store2
<1>2. map \subseteq Sectors /\ up[s] = <<s, RootSlot>> /\ Root(up, map, s)
  BY Geometry DEF Heap, MapOK, Root, Sound
<1>3. ASSUME NEW e, NEW r, NEW n, Sound(up, map, store, e, r, n)
      PROVE  Sound(up, map, store2, e, r, n) /\ SectorsOf(store, e, n) \subseteq SectorsOf(store2, e, n)
  <2>1. ASSUME NEW t \in IndexesFor(store, e, n) PROVE store2[t] = store[t]
    <3>1. ~DataPath(up, s, t)
      BY <1>2, <1>3, NotAnIndex
    <3>2. t \in Sectors
      BY <1>2, <1>3, IndexSector DEF Belongs
    <3>3. QED
      BY <3>1, <3>2, <1>1
  <2>2. QED
    BY <1>1, <1>3, <2>1, SoundSame
<1>4. ASSUME NEW r, Root(up, map, r) PROVE store2[r] = store[r]
  <2>1. r \in Sectors /\ up[r][2] = RootSlot
    BY <1>2, <1>4 DEF Root
  <2>2. ~DataPath(up, s, r)
    BY <2>1, SlotNumbers DEF DataPath
  <2>3. QED
    BY <1>1, <2>1, <2>2
<1>5. Keeps(up, map, store, up, map, store2, s)
  BY <1>1, <1>3, <1>4 DEF Keeps
<1>6. QED
  BY <1>2, <1>4, <1>5 DEF store2

\* The sector s that the step took is given back.
LEMMA KeepsWithout ==
    ASSUME NEW up, NEW map, NEW store, NEW up2, NEW map2, NEW store2, NEW s,
           Keeps(up, map, store, up2, map2, store2, s), s \notin map, s \notin Meta, up2[s][1] = s
    PROVE  Keeps(up, map, store, up2, map2 \ {s}, store2, s)
<1>1. Heap(up2, map2 \ {s}, store2)
  BY Released DEF Keeps
<1>2. ASSUME NEW d, NEW r, NEW n, Sound(up, map, store, d, r, n)
      PROVE  Sound(up2, map2 \ {s}, store2, d, r, n) /\ SectorsOf(store, d, n) \subseteq SectorsOf(store2, d, n)
  <2>1. Sound(up2, map2, store2, d, r, n) /\ SectorsOf(store, d, n) \subseteq SectorsOf(store2, d, n)
    BY <1>2 DEF Keeps
  <2>2. r # s
    BY <1>2 DEF Sound, Root
  <2>3. QED
    BY <2>1, <2>2, SoundReleased
<1>3. \A r : Root(up, map, r) => Root(up2, map2 \ {s}, r) /\ (r # s => store2[r] = store[r])
  BY DEF Keeps, Root
<1>4. QED
  BY <1>1, <1>2, <1>3 DEF Keeps

\* The other files under such a step.
OtherKept(up2, f, g, r) ==
    /\ r \in Sectors /\ g.store[r] = f.store[r]
    /\ SoundInode(up2, g, AsInode(g.store[r]), r)
    /\ f.open[r] # None => SoundInode(up2, g, f.open[r].data, r)
    /\ LET d == AsInode(f.store[r])
       IN  SectorsOf(f.store, d, Blocks(d)) \subseteq SectorsOf(g.store, d, Blocks(d))

LEMMA OtherFile ==
    ASSUME NEW up, NEW f, GoodBy(up, f), NEW up2, NEW g, NEW s,
           Keeps(up, f.map, f.store, up2, g.map, g.store, s),
           NEW k, Lists(f, k), NEW r, r = f.dir[k].inode_sector, r # s
    PROVE  OtherKept(up2, f, g, r)
<1>1. /\ SoundInode(up, f, AsInode(f.store[r]), r)
      /\ f.open[r] # None => SoundInode(up, f, f.open[r].data, r)
  BY DEF GoodBy, InodesOK
<1>2. \A d : SoundInode(up, f, d, r) =>
        /\ SoundInode(up2, g, d, r)
        /\ SectorsOf(f.store, d, Blocks(d)) \subseteq SectorsOf(g.store, d, Blocks(d))
  BY DEF SoundInode, Keeps
<1>3. Root(up, f.map, r)
  BY <1>1 DEF SoundInode, Sound
<1>4. g.store[r] = f.store[r]
  BY <1>3 DEF Keeps
<1>5. r \in Sectors
  BY DEF GoodBy, DirOK, Lists, SlotEntry
<1>6. QED
  BY <1>1, <1>2, <1>4, <1>5 DEF OtherKept

LEMMA SameTable ==
    ASSUME NEW f, NEW g, TableOK(f), OpenOK(f), g.dir = f.dir, g.table = f.table,
           g.open \in [Sectors -> {None} \cup OpenInode],
           \A t \in Sectors : g.open[t] # None <=> f.open[t] # None
    PROVE  TableOK(g) /\ OpenOK(g)
<1>1. \A j : Lists(g, j) <=> Lists(f, j)
  BY DEF Lists
<1>2. ASSUME NEW i \in DOMAIN f.table PROVE g.open[f.table[i].inode] # None
  <2>1. f.open[f.table[i].inode] # None /\ f.table[i] \in FileEntry
    BY DEF TableOK
  <2>2. f.table[i].inode \in Sectors
    BY <2>1 DEF FileEntry
  <2>3. QED
    BY <2>1, <2>2
<1>3. TableOK(g)
  BY <1>1, <1>2 DEF TableOK
<1>4. OpenOK(g)
  BY DEF OpenOK
<1>5. QED
  BY <1>3, <1>4

\* What the file had and what was taken is the file's.
NoneLost(f, g, s, e) ==
    /\ e = AsInode(g.store[s])
    /\ LET d == AsInode(f.store[s])
       IN  SectorsOf(f.store, d, Blocks(d)) \subseteq SectorsOf(g.store, e, Blocks(e))
    /\ g.map \ f.map \subseteq SectorsOf(g.store, e, Blocks(e))

\* In memory the inode of s is e, and the others are as they were.
OpenSame(f, g, s, e) ==
    /\ g.open \in [Sectors -> {None} \cup OpenInode]
    /\ g.open[s] # None /\ g.open[s].data = e /\ \A t \in Sectors : t # s => g.open[t] = f.open[t]

LEMMA OpenChanged ==
    ASSUME NEW f, OpenOK(f), NEW s \in Sectors, f.open[s] # None, NEW e \in DiskInode,
           NEW g, g.open = [f.open EXCEPT ![s].data = e]
    PROVE  OpenSame(f, g, s, e)
<1> DEFINE o == [f.open[s] EXCEPT !.data = e]
<1>1. f.open \in [Sectors -> {None} \cup OpenInode] /\ f.open[s] \in OpenInode
  BY DEF OpenOK
<1>2. o \in OpenInode /\ o.data = e
  BY <1>1 DEF OpenInode
<1>3. None \notin OpenInode
  BY NoneAssumption DEF OpenInode
<1>4. g.open = [f.open EXCEPT ![s] = o]
  OBVIOUS
<1> HIDE DEF o
<1>5. QED
  BY <1>1, <1>2, <1>3, <1>4 DEF OpenSame

\* The inode of an open file, and what is its own on the disk, change.
LEMMA FileChanged ==
    ASSUME NEW up, NEW f, GoodBy(up, f), NEW k, Lists(f, k), NEW s, s = f.dir[k].inode_sector,
           f.open[s] # None,
           NEW up2, NEW g, DOMAIN g = Fields, g.dir = f.dir, g.table = f.table, g.failed \in Nat,
           Keeps(up, f.map, f.store, up2, g.map, g.store, s),
           NEW e, OpenSame(f, g, s, e),
           SoundInode(up2, g, e, s), SoundInode(up2, g, AsInode(g.store[s]), s),
           g.failed = 0 => f.failed = 0 /\ NoneLost(f, g, s, e)
    PROVE  GoodBy(up2, g)
<1>1. DirOK(f) /\ TableOK(f) /\ OpenOK(f) /\ InodesOK(up, f) /\ Tight(f) /\ s \in Sectors
  BY DEF GoodBy, DirOK, Lists, SlotEntry
<1>2. \A j : Lists(g, j) <=> Lists(f, j)
  BY DEF Lists
<1>5. /\ g.open \in [Sectors -> {None} \cup OpenInode]
      /\ g.open[s] # None /\ g.open[s].data = e /\ \A t \in Sectors : t # s => g.open[t] = f.open[t]
  BY DEF OpenSame
<1>6. DirOK(g)
  BY <1>1, <1>2 DEF DirOK
<1>7. TableOK(g) /\ OpenOK(g)
  <2>1. \A t \in Sectors : g.open[t] # None <=> f.open[t] # None
    BY <1>5
  <2>2. QED
    BY <1>1, <1>5, <2>1, SameTable
<1>9. ASSUME NEW j, Lists(f, j), NEW r, r = f.dir[j].inode_sector, r # s
      PROVE  /\ r \in Sectors /\ g.store[r] = f.store[r]
             /\ SoundInode(up2, g, AsInode(g.store[r]), r)
             /\ f.open[r] # None => SoundInode(up2, g, f.open[r].data, r)
             /\ LET d == AsInode(f.store[r])
                IN  SectorsOf(f.store, d, Blocks(d)) \subseteq SectorsOf(g.store, d, Blocks(d))
  <2>1. OtherKept(up2, f, g, r)
    BY <1>9, OtherFile
  <2>2. QED
    BY <2>1 DEF OtherKept
<1>10. InodesOK(up2, g)
  <2>1. ASSUME NEW j, Lists(g, j), NEW r, r = g.dir[j].inode_sector
        PROVE  /\ SoundInode(up2, g, AsInode(g.store[r]), r)
               /\ g.open[r] # None => SoundInode(up2, g, g.open[r].data, r)
    <3>1. CASE r = s
      BY <3>1, <1>5
    <3>2. CASE r # s
      <4>1. /\ r \in Sectors /\ SoundInode(up2, g, AsInode(g.store[r]), r)
            /\ f.open[r] # None => SoundInode(up2, g, f.open[r].data, r)
        BY <3>2, <1>2, <1>9, <2>1
      <4>2. QED
        BY <4>1, <3>2, <1>5
    <3>3. QED
      BY <3>1, <3>2
  <2>2. QED
    BY <2>1 DEF InodesOK
<1>11. Tight(g)
  <2>1. SUFFICES ASSUME g.failed = 0 PROVE Tight(g)
    BY DEF Tight
  <2>2. /\ f.failed = 0 /\ e = AsInode(g.store[s])
        /\ LET d == AsInode(f.store[s])
           IN  SectorsOf(f.store, d, Blocks(d)) \subseteq SectorsOf(g.store, e, Blocks(e))
        /\ g.map \ f.map \subseteq SectorsOf(g.store, e, Blocks(e))
    BY <2>1 DEF NoneLost
  <2>3. ASSUME NEW t \in g.map \ Meta
        PROVE  \E j : Lists(g, j) /\ LET r == g.dir[j].inode_sector
                                         d == AsInode(g.store[r])
                                     IN  t \in {r} \cup SectorsOf(g.store, d, Blocks(d))
    <3>1. CASE t \in {s} \cup SectorsOf(g.store, e, Blocks(e))
      BY <3>1, <1>2, <2>2
    <3>2. CASE t \notin {s} \cup SectorsOf(g.store, e, Blocks(e))
      <4>1. t \in f.map \ Meta
        BY <3>2, <2>2, <2>3
      <4>2. PICK j : Lists(f, j) /\ LET r == f.dir[j].inode_sector
                                        d == AsInode(f.store[r])
                                    IN  t \in {r} \cup SectorsOf(f.store, d, Blocks(d))
        BY <1>1, <2>2, <4>1 DEF Tight
      <4> DEFINE r == f.dir[j].inode_sector
      <4>3. r # s
        BY <3>2, <2>2, <4>2
      <4>4. /\ g.store[r] = f.store[r]
            /\ LET d == AsInode(f.store[r])
               IN  SectorsOf(f.store, d, Blocks(d)) \subseteq SectorsOf(g.store, d, Blocks(d))
        BY <1>9, <4>2, <4>3
      <4>5. QED
        BY <1>2, <4>2, <4>4
    <3>3. QED
      BY <3>1, <3>2
  <2>4. ASSUME NEW t \in Sectors, g.open[t] # None PROVE g.open[t].data = AsInode(g.store[t])
    <3>1. CASE t = s
      BY <3>1, <1>5, <2>2
    <3>2. CASE t # s
      <4>1. g.open[t] = f.open[t] /\ f.open[t].data = AsInode(f.store[t])
        BY <3>2, <1>1, <1>5, <2>2, <2>4 DEF Tight
      <4>2. PICK i \in DOMAIN f.table : f.table[i].inode = t
        BY <1>1, <2>4, <4>1 DEF OpenOK
      <4>3. PICK j : Lists(f, j) /\ f.dir[j].inode_sector = t
        BY <1>1, <4>2 DEF TableOK
      <4>4. g.store[t] = f.store[t]
        BY <1>9, <3>2, <4>3
      <4>5. QED
        BY <4>1, <4>4
    <3>3. QED
      BY <3>1, <3>2
  <2>5. QED
    BY <2>3, <2>4 DEF Tight
<1>12. QED
  BY <1>6, <1>7, <1>10, <1>11 DEF GoodBy, Keeps

----------------------------------------------------------------------------
(* inode_write_at                                                          *)
LEMMA AnInode ==
    ASSUME NEW up, NEW map, NEW d, NEW s, InodeLinks(up, map, d, s),
           d.length \in 0 .. BlockLimit * BLOCK_SECTOR_SIZE
    PROVE  d \in DiskInode
<1>1. /\ d = [x \in InodeFields |-> d[x]]
      /\ d.direct \in [0 .. DIRECT_BLOCKS_COUNT - 1 -> Sectors] /\ d.indirect \in Sectors
      /\ d.doubly \in Sectors
  BY DEF InodeLinks, IsInode, DirectSlots
<1>2. QED
  BY <1>1 DEF InodeFields, DiskInode

LEMMA LengthInBlocks ==
    ASSUME NEW length \in Nat, ~TooLong(length)
    PROVE  /\ bytes_to_sectors(length) \in Nat /\ bytes_to_sectors(length) <= BlockLimit
           /\ length \in 0 .. BlockLimit * BLOCK_SECTOR_SIZE
<1> DEFINE n == Ceiling(length, BLOCK_SECTOR_SIZE)
<1>1. BLOCK_SECTOR_SIZE \in Nat \ {0} /\ n \in Int /\ length <= BLOCK_SECTOR_SIZE * n
      /\ BlockLimit \in Nat
  BY Capacities, CeilingBounds
<1>2. n = bytes_to_sectors(length) /\ n \in Nat
  BY BlocksOf DEF Ceiling, bytes_to_sectors
<1>3. n <= BlockLimit
  BY <1>1, <1>2 DEF TooLong
<1> HIDE DEF n
<1>4. BLOCK_SECTOR_SIZE * n <= BlockLimit * BLOCK_SECTOR_SIZE
  BY <1>1, <1>2, <1>3
<1>5. BLOCK_SECTOR_SIZE * n \in Nat /\ BlockLimit * BLOCK_SECTOR_SIZE \in Nat
  BY <1>1, <1>2
<1>6. QED
  BY <1>1, <1>2, <1>3, <1>4, <1>5

LEMMA BlocksUp ==
    ASSUME NEW x \in Int, NEW y \in Int, x <= y
    PROVE  bytes_to_sectors(x) <= bytes_to_sectors(y)
<1>1. BLOCK_SECTOR_SIZE \in Nat \ {0}
  BY Geometry
<1>2. /\ x + BLOCK_SECTOR_SIZE - 1 \in Int /\ y + BLOCK_SECTOR_SIZE - 1 \in Int
      /\ x + BLOCK_SECTOR_SIZE - 1 <= y + BLOCK_SECTOR_SIZE - 1
  BY <1>1
<1>3. QED
  BY <1>1, <1>2, QuotientUp DEF bytes_to_sectors

LEMMA SameFields ==
    ASSUME NEW d, NEW e, e.direct = d.direct, e.indirect = d.indirect, e.doubly = d.doubly,
           NEW store, NEW n
    PROVE  /\ Whole(store, e, n) <=> Whole(store, d, n)
           /\ SectorsOf(store, e, n) = SectorsOf(store, d, n)
<1>1. Whole(store, e, n) <=> Whole(store, d, n)
  BY DEF Whole, WholeDirect, WholeSingly, WholeDoubly
<1>2. \A i : index_to_sector(store, e, i) = index_to_sector(store, d, i)
  BY DEF index_to_sector
<1>3. IndexesFor(store, e, n) = IndexesFor(store, d, n)
  BY DEF IndexesFor
<1>4. QED
  BY <1>1, <1>2, <1>3 DEF SectorsOf

\* inode_reserve for the inode of a file that is open.
Growing(up, f, s, n, up2, a) ==
    /\ AllocOK(a) /\ Heap(up2, a.map, a.store) /\ Keeps(up, f.map, f.store, up2, a.map, a.store, s)
    /\ Root(up2, a.map, s) /\ a.store[s] = f.store[s]
    /\ LET d == f.open[s].data
           m == Blocks(d)
       IN  /\ Sound(up2, a.map, a.store, a.d, s, m) /\ a.d.length = d.length
           /\ SectorsOf(f.store, d, m) \subseteq SectorsOf(a.store, a.d, m)
    /\ a.ok => n \in Nat /\ Whole(a.store, a.d, n)
               /\ \A t \in a.map \ f.map : Has(a.store, a.d, n, t)

LEMMA Grown ==
    ASSUME NEW up, NEW f, GoodBy(up, f), NEW s, NEW d, d = f.open[s].data, SoundInode(up, f, d, s),
           NEW length \in Int, NEW a, a = inode_reserve(f.map, f.store, d, length)
    PROVE  \E up2 : Growing(up, f, s, bytes_to_sectors(length), up2, a)
<1> DEFINE n == bytes_to_sectors(length)
           m == Blocks(d)
<1>1. /\ Heap(up, f.map, f.store) /\ Root(up, f.map, s) /\ InodeLinks(up, f.map, d, s)
      /\ m \in Nat /\ m <= BlockLimit /\ Whole(f.store, d, m) /\ s \in Sectors
      /\ s \in f.map \ {0} /\ up[s][2] = RootSlot
  <2>1. Sound(up, f.map, f.store, d, s, m)
    BY DEF SoundInode
  <2>2. /\ Heap(up, f.map, f.store) /\ Root(up, f.map, s) /\ InodeLinks(up, f.map, d, s)
        /\ m \in Nat /\ m <= BlockLimit /\ Whole(f.store, d, m)
    BY <2>1 DEF Sound
  <2>3. s \in f.map \ Meta /\ up[s][2] = RootSlot
    BY <2>2 DEF Root
  <2>4. f.map \subseteq Sectors /\ 0 \in Meta
    BY <2>2, Geometry DEF Heap, MapOK
  <2>5. QED
    BY <2>2, <2>3, <2>4
<1>2. PICK up2 : Reserved(up, f.map, f.store, d, s, n, up2, a)
  BY <1>1, Reserves
<1> HIDE DEF n, m
<1>3. /\ AllocOK(a) /\ Heap(up2, a.map, a.store) /\ Extends(up, f.map, up2, a.map)
      /\ Kept(up, f.map, f.store, a.store) /\ InodeLinks(up2, a.map, a.d, s) /\ InodeKept(d, a.d)
      /\ a.ok => n \in Nat /\ Whole(a.store, a.d, n) /\ \A t \in a.map \ f.map : Has(a.store, a.d, n, t)
  BY <1>2 DEF Reserved
<1>4. Keeps(up, f.map, f.store, up2, a.map, a.store, s)
  BY <1>1, <1>3, KeepsAllocated
<1>5. Root(up2, a.map, s) /\ a.store[s] = f.store[s]
  BY <1>1, <1>3, <1>4 DEF Keeps, Kept
<1>6. Whole(a.store, a.d, m) /\ \A t : Has(f.store, d, m, t) => Has(a.store, a.d, m, t)
  <2> DEFINE map == f.map
             store == f.store
             store2 == a.store
             e == a.d
  <2>1. Heap(up, map, store) /\ InodeLinks(up, map, d, s) /\ m \in Nat /\ Whole(store, d, m)
    BY <1>1
  <2>2. Kept(up, map, store, store2) /\ InodeKept(d, e)
    BY <1>3
  <2> HIDE DEF map, store, store2, e
  <2>3. Whole(store2, e, m) /\ \A t : Has(store, d, m, t) => Has(store2, e, m, t)
    BY <2>1, <2>2, WholeKept
  <2>4. QED
    BY <2>3 DEF store, store2, e
<1>7. Sound(up2, a.map, a.store, a.d, s, m) /\ a.d.length = d.length
  BY <1>1, <1>3, <1>5, <1>6 DEF Sound, InodeKept
<1>8. SectorsOf(f.store, d, m) \subseteq SectorsOf(a.store, a.d, m)
  BY <1>1, <1>6, HasSector, SectorHas
<1>9. QED
  BY <1>3, <1>4, <1>5, <1>7, <1>8 DEF Growing, n, m

\* The inode on the disk, when a step keeps it.
LEMMA OnDisk ==
    ASSUME NEW up, NEW f, GoodBy(up, f), NEW k, Lists(f, k), NEW s, s = f.dir[k].inode_sector,
           NEW up2, NEW g, Keeps(up, f.map, f.store, up2, g.map, g.store, s), g.store[s] = f.store[s]
    PROVE  SoundInode(up2, g, AsInode(g.store[s]), s)
<1>1. SoundInode(up, f, AsInode(f.store[s]), s)
  BY DEF GoodBy, InodesOK
<1>2. QED
  BY <1>1 DEF SoundInode, Keeps

LEMMA OpenFileInode ==
    ASSUME NEW up, NEW f, GoodBy(up, f), NEW k, Lists(f, k), NEW s, s = f.dir[k].inode_sector,
           f.open[s] # None
    PROVE  SoundInode(up, f, f.open[s].data, s) /\ f.open[s].data \in DiskInode /\ s \in Sectors
           /\ f.open \in [Sectors -> {None} \cup OpenInode] /\ f.open[s] \in OpenInode
<1>1. SoundInode(up, f, f.open[s].data, s)
  BY DEF GoodBy, InodesOK
<1>2. s \in Sectors
  BY DEF GoodBy, DirOK, Lists, SlotEntry
<1>3. QED
  BY <1>1, <1>2 DEF SoundInode, GoodBy, OpenOK

LEMMA SameLength ==
    ASSUME NEW up, NEW map, NEW store, NEW e, NEW s, NEW n, Sound(up, map, store, e, s, n),
           NEW d \in DiskInode, e.length = d.length
    PROVE  e \in DiskInode
<1>1. d.length \in 0 .. BlockLimit * BLOCK_SECTOR_SIZE
  BY DEF DiskInode
<1>2. QED
  BY <1>1, AnInode DEF Sound

\* The file does not get all the blocks.
LEMMA WriteFails ==
    ASSUME NEW up, NEW f, GoodBy(up, f), NEW k, Lists(f, k), NEW s, s = f.dir[k].inode_sector,
           f.open[s] # None, NEW n, NEW up2, NEW a, Growing(up, f, s, n, up2, a),
           NEW g, DOMAIN g = Fields, g.dir = f.dir, g.table = f.table, g.failed = f.failed + 1,
           g.map = a.map, g.store = a.store, OpenSame(f, g, s, a.d)
    PROVE  Good(g)
<1> DEFINE d == f.open[s].data
<1>1. SoundInode(up, f, d, s) /\ d \in DiskInode /\ s \in Sectors
  BY OpenFileInode
<1>3. /\ Keeps(up, f.map, f.store, up2, a.map, a.store, s) /\ a.store[s] = f.store[s]
      /\ Sound(up2, a.map, a.store, a.d, s, Blocks(d)) /\ a.d.length = d.length
  BY DEF Growing
<1>5. a.d \in DiskInode
  BY <1>1, <1>3, SameLength
<1>6. SoundInode(up2, g, a.d, s)
  BY <1>3, <1>5 DEF SoundInode, Blocks
<1>7. SoundInode(up2, g, AsInode(g.store[s]), s)
  <2>1. Keeps(up, f.map, f.store, up2, g.map, g.store, s) /\ g.store[s] = f.store[s]
    BY <1>3
  <2>2. QED
    BY <2>1, OnDisk
<1>8. g.failed \in Nat /\ g.failed # 0
  BY DEF GoodBy
<1>9. GoodBy(up2, g)
  <2>1. Keeps(up, f.map, f.store, up2, g.map, g.store, s)
    BY <1>3
  <2>2. g.failed = 0 => f.failed = 0 /\ NoneLost(f, g, s, a.d)
    BY <1>8
  <2>3. QED
    BY <2>1, <2>2, <1>6, <1>7, <1>8, FileChanged
<1>10. QED
  BY <1>9 DEF Good

\* The inode with its new length.
LEMMA GrownInode ==
    ASSUME NEW up, NEW map, NEW store, NEW d, NEW s, NEW m, Sound(up, map, store, d, s, m),
           NEW length \in Nat, ~TooLong(length), Whole(store, d, bytes_to_sectors(length))
    PROVE  LET e == [d EXCEPT !.length = length]
               n == bytes_to_sectors(length)
           IN  /\ e \in DiskInode /\ e.length = length
               /\ Sound(up, map, store, e, s, n) /\ SectorsOf(store, e, n) = SectorsOf(store, d, n)
<1> DEFINE e == [d EXCEPT !.length = length]
           n == bytes_to_sectors(length)
<1>1. n \in Nat /\ n <= BlockLimit /\ length \in 0 .. BlockLimit * BLOCK_SECTOR_SIZE
  BY LengthInBlocks
<1>2. InodeLinks(up, map, d, s) /\ Heap(up, map, store) /\ Root(up, map, s)
  BY DEF Sound
<1>3. DOMAIN d = InodeFields /\ IsInode(e)
  BY <1>2, FieldSet DEF InodeLinks, IsInode
<1>4. /\ e.direct = d.direct /\ e.indirect = d.indirect /\ e.doubly = d.doubly
      /\ e.length = length
  BY <1>3 DEF InodeFields
<1> HIDE DEF e, n
<1>5. InodeLinks(up, map, e, s)
  BY <1>2, <1>3, <1>4 DEF InodeLinks
<1>6. e \in DiskInode
  BY <1>1, <1>4, <1>5, AnInode
<1>7. SectorsOf(store, e, n) = SectorsOf(store, d, n) /\ Whole(store, e, n)
  BY <1>4, SameFields DEF n
<1>8. Sound(up, map, store, e, s, n)
  BY <1>1, <1>2, <1>5, <1>7 DEF Sound
<1>9. QED
  BY <1>4, <1>6, <1>7, <1>8 DEF e, n

\* The inode and the bytes are written.
InodeAndBytes(up, map, store, e, s, n, store2) ==
    /\ Keeps(up, map, store, up, map, store2, s) /\ AsInode(store2[s]) = e
    /\ Sound(up, map, store2, e, s, n)
    /\ SectorsOf(store, e, n) \subseteq SectorsOf(store2, e, n)

LEMMA GrownStored ==
    ASSUME NEW up, NEW map, NEW store, NEW e \in DiskInode, NEW s, NEW length \in Int,
           Sound(up, map, store, e, s, bytes_to_sectors(length)),
           NEW buf, Len(buf) \in Nat \ {0}, NEW ofs \in Nat, ofs + Len(buf) <= length
    PROVE  InodeAndBytes(up, map, store, e, s, bytes_to_sectors(length),
                         Stored([store EXCEPT ![s] = Inode(e)], e, buf, ofs))
<1> DEFINE n == bytes_to_sectors(length)
           store1 == [store EXCEPT ![s] = Inode(e)]
           store2 == Stored(store1, e, buf, ofs)
<1>1. Heap(up, map, store) /\ Root(up, map, s)
  BY DEF Sound
<1>2. Keeps(up, map, store, up, map, store1, s) /\ AsInode(store1[s]) = e
  <2>1. Keeps(up, map, store, up, map, [store EXCEPT ![s] = Inode(e)], s)
    BY <1>1, KeepsInode
  <2>2. AsInode([store EXCEPT ![s] = Inode(e)][s]) = e
    <3>1. s \in Sectors /\ store = [t \in Sectors |-> store[t]]
      BY <1>1, Geometry DEF Heap, MapOK, StoreOK, Root
    <3>2. [store EXCEPT ![s] = Inode(e)][s] = Inode(e)
      BY <3>1
    <3>3. QED
      BY <3>2 DEF AsInode, Inode
  <2>3. QED
    BY <2>1, <2>2
<1> HIDE DEF store1
<1>3. Sound(up, map, store1, e, s, n) /\ SectorsOf(store, e, n) \subseteq SectorsOf(store1, e, n)
  BY <1>2 DEF Keeps
<1>4. Keeps(up, map, store1, up, map, store2, s) /\ store2[s] = store1[s]
  BY <1>3, KeepsBytes
<1> HIDE DEF store2, n
<1>5. Sound(up, map, store2, e, s, n) /\ SectorsOf(store1, e, n) \subseteq SectorsOf(store2, e, n)
  BY <1>3, <1>4 DEF Keeps
<1>6. Keeps(up, map, store, up, map, store2, s)
  BY <1>2, <1>4, KeepsOn
<1>7. QED
  BY <1>2, <1>3, <1>4, <1>5, <1>6 DEF store1, store2, n, InodeAndBytes

\* The new inode e of s with n blocks, of which m were there before, in g.
Regrown(up2, a, g, s, e, n) ==
    /\ e \in DiskInode /\ Blocks(e) = n
    /\ Keeps(up2, a.map, a.store, up2, g.map, g.store, s) /\ AsInode(g.store[s]) = e
    /\ Sound(up2, g.map, g.store, e, s, n)
    /\ SectorsOf(a.store, a.d, n) \subseteq SectorsOf(g.store, e, n)

\* The file grows: its new inode is written, and the bytes.
LEMMA WriteGrows ==
    ASSUME NEW up, NEW f, GoodBy(up, f), NEW k, Lists(f, k), NEW s, s = f.dir[k].inode_sector,
           f.open[s] # None, NEW n \in Nat, n <= BlockLimit, Blocks(f.open[s].data) <= n,
           NEW up2, NEW a, Growing(up, f, s, n, up2, a), a.ok,
           NEW g, DOMAIN g = Fields, g.dir = f.dir, g.table = f.table, g.failed = f.failed,
           NEW e, Regrown(up2, a, g, s, e, n), OpenSame(f, g, s, e), g.map = a.map
    PROVE  Good(g)
<1> DEFINE d == f.open[s].data
           m == Blocks(d)
<1>1. d \in DiskInode /\ s \in Sectors
  BY OpenFileInode
<1>2. /\ Keeps(up, f.map, f.store, up2, a.map, a.store, s)
      /\ Sound(up2, a.map, a.store, a.d, s, m)
      /\ SectorsOf(f.store, d, m) \subseteq SectorsOf(a.store, a.d, m)
      /\ \A t \in a.map \ f.map : Has(a.store, a.d, n, t)
  BY DEF Growing
<1> HIDE DEF d, m
<1>3. /\ e \in DiskInode /\ Blocks(e) = n
      /\ Keeps(up2, a.map, a.store, up2, g.map, g.store, s) /\ AsInode(g.store[s]) = e
      /\ Sound(up2, g.map, g.store, e, s, n)
      /\ SectorsOf(a.store, a.d, n) \subseteq SectorsOf(g.store, e, n)
  BY DEF Regrown
<1>4. Keeps(up, f.map, f.store, up2, g.map, g.store, s)
  BY <1>2, <1>3, KeepsOn
<1>5. SoundInode(up2, g, e, s)
  BY <1>3 DEF SoundInode
<1>6. g.failed = 0 => f.failed = 0 /\ NoneLost(f, g, s, e)
  <2>1. SUFFICES ASSUME f.failed = 0 PROVE NoneLost(f, g, s, e)
    OBVIOUS
  <2>2. AsInode(f.store[s]) = d
    BY <1>1, <2>1 DEF GoodBy, Tight, d
  <2>3. m \in Nat /\ m <= n
    BY <1>2 DEF Sound, m, d
  <2>4. SectorsOf(a.store, a.d, m) \subseteq SectorsOf(a.store, a.d, n)
    BY <2>3, HasMore
  <2>5. a.map \ f.map \subseteq SectorsOf(a.store, a.d, n)
    BY <1>2, HasSector
  <2>6. /\ SectorsOf(f.store, d, m) \subseteq SectorsOf(g.store, e, n)
        /\ g.map \ f.map \subseteq SectorsOf(g.store, e, n)
    BY <1>2, <1>3, <2>4, <2>5
  <2>7. QED
    BY <1>3, <2>2, <2>6 DEF NoneLost, m
<1>7. GoodBy(up2, g)
  <2>1. g.failed \in Nat
    BY DEF GoodBy
  <2>2. SoundInode(up2, g, AsInode(g.store[s]), s)
    BY <1>3, <1>5
  <2>3. QED
    BY <2>1, <2>2, <1>4, <1>5, <1>6, FileChanged
<1>8. QED
  BY <1>7 DEF Good

\* A write of bytes that the file has.
LEMMA WriteInPlace ==
    ASSUME NEW up, NEW f, GoodBy(up, f), NEW k, Lists(f, k), NEW s, s = f.dir[k].inode_sector,
           f.open[s] # None,
           NEW g, DOMAIN g = Fields, g.dir = f.dir, g.table = f.table, g.failed = f.failed,
           g.map = f.map, g.open = f.open,
           Keeps(up, f.map, f.store, up, g.map, g.store, s), g.store[s] = f.store[s]
    PROVE  Good(g)
<1> DEFINE d == f.open[s].data
<1>1. SoundInode(up, f, d, s) /\ d \in DiskInode /\ s \in Sectors /\ Sound(up, f.map, f.store, d, s, Blocks(d))
      /\ f.open \in [Sectors -> {None} \cup OpenInode]
  BY OpenFileInode DEF SoundInode
<1>2. OpenSame(f, g, s, d)
  BY <1>1 DEF OpenSame
<1>3. f.failed = 0 => d = AsInode(f.store[s])
  BY <1>1 DEF GoodBy, Tight
<1> HIDE DEF d
<1>4. /\ SoundInode(up, g, d, s)
      /\ SectorsOf(f.store, d, Blocks(d)) \subseteq SectorsOf(g.store, d, Blocks(d))
  BY <1>1 DEF SoundInode, Keeps
<1>5. SoundInode(up, g, AsInode(g.store[s]), s)
  BY OnDisk
<1>6. g.failed = 0 => f.failed = 0 /\ NoneLost(f, g, s, d)
  BY <1>3, <1>4 DEF NoneLost
<1>7. GoodBy(up, g)
  <2>1. g.failed \in Nat
    BY DEF GoodBy
  <2>2. QED
    BY <2>1, <1>2, <1>4, <1>5, <1>6, FileChanged
<1>8. QED
  BY <1>7 DEF Good

----------------------------------------------------------------------------
\* What a write leaves alone.
Written(f, w) == /\ Good(w.f) /\ w.n \in Int /\ w.f.dir = f.dir /\ w.f.table = f.table

LEMMA WrittenIn ==
    ASSUME NEW f, NEW g, Good(g), g.dir = f.dir, g.table = f.table, NEW i \in Int
    PROVE  Written(f, [n |-> i, f |-> g])
<1> DEFINE v == [n |-> i, f |-> g]
<1>1. v.f = g /\ v.n = i
  OBVIOUS
<1> HIDE DEF v
<1>2. Written(f, v)
  BY <1>1 DEF Written
<1>3. QED
  BY <1>2 DEF v

LEMMA WritePanics ==
    ASSUME NEW up, NEW f, GoodBy(up, f)
    PROVE  Written(f, [n |-> 0, f |-> [f EXCEPT !.panic = TRUE]])
<1> DEFINE g == [f EXCEPT !.panic = TRUE]
<1>1. g.dir = f.dir /\ g.table = f.table
  BY DEF GoodBy, Fields
<1>2. Good(g)
  BY OnlyPanic DEF Good
<1> HIDE DEF g
<1>3. Written(f, [n |-> 0, f |-> g])
  BY <1>1, <1>2, WrittenIn
<1>4. QED
  BY <1>3 DEF g

LEMMA WriteExtends ==
    ASSUME NEW up, NEW f, GoodBy(up, f), NEW k, Lists(f, k), NEW s, s = f.dir[k].inode_sector,
           f.open[s] # None, NEW buf, Len(buf) \in Nat \ {0}, NEW ofs \in Int,
           ofs + Len(buf) - 1 \notin 0 .. f.open[s].data.length - 1,
           NEW a, a = inode_reserve(f.map, f.store, f.open[s].data, ofs + Len(buf))
    PROVE  Written(f, Extended(f, s, buf, ofs, a))
<1> DEFINE length == ofs + Len(buf)
           e == [a.d EXCEPT !.length = length]
           w == Extended(f, s, buf, ofs, a)
           n == bytes_to_sectors(length)
<1>1. DOMAIN f = Fields /\ length \in Int
  BY DEF GoodBy
<1>2. /\ s \in Sectors /\ SoundInode(up, f, f.open[s].data, s) /\ f.open[s].data \in DiskInode
      /\ OpenOK(f)
  BY OpenFileInode DEF GoodBy
<1>3. CASE ~a.ok
  <2> DEFINE g == [f EXCEPT !.map = a.map, !.store = a.store, !.open[s].data = a.d, !.failed = @ + 1]
             v == [n |-> 0, f |-> g]
  <2>1. w = v
    BY <1>3 DEF Extended
  <2>2. /\ DOMAIN g = Fields /\ g.dir = f.dir /\ g.table = f.table /\ g.failed = f.failed + 1
        /\ g.map = a.map /\ g.store = a.store /\ g.open = [f.open EXCEPT ![s].data = a.d]
    BY <1>1 DEF Fields
  <2> HIDE DEF g
  <2>3. Good(g)
    <3>1. PICK up2 : Growing(up, f, s, n, up2, a)
      BY <1>1, <1>2, Grown
    <3>2. a.d \in DiskInode
      BY <1>2, <3>1, SameLength DEF Growing
    <3>3. OpenSame(f, g, s, a.d)
      <4> DEFINE e2 == a.d
      <4>1. e2 \in DiskInode /\ g.open = [f.open EXCEPT ![s].data = e2]
        BY <2>2, <3>2
      <4> HIDE DEF e2
      <4>2. OpenSame(f, g, s, e2)
        BY <1>2, <4>1, OpenChanged
      <4>3. QED
        BY <4>2 DEF e2
    <3>4. /\ DOMAIN g = Fields /\ g.dir = f.dir /\ g.table = f.table /\ g.failed = f.failed + 1
          /\ g.map = a.map /\ g.store = a.store
      BY <2>2
    <3> HIDE DEF n, length, e, w, v
    <3>5. QED
      BY <3>1, <3>3, <3>4, WriteFails
  <2>4. Written(f, v)
    <3> HIDE DEF n, length, e, w
    <3>1. g.dir = f.dir /\ g.table = f.table
      BY <2>2
    <3>2. \A i \in Int : Written(f, [n |-> i, f |-> g])
      BY <2>3, <3>1, WrittenIn
    <3>3. QED
      BY <3>2
  <2>5. QED
    BY <2>1, <2>4
<1>4. CASE a.ok /\ (ofs < 0 \/ TooLong(length))
  <2> DEFINE v == [n |-> 0, f |-> [f EXCEPT !.panic = TRUE]]
  <2>1. w = v
    BY <1>4 DEF Extended
  <2>2. Written(f, v)
    BY WritePanics
  <2>3. QED
    BY <2>1, <2>2
<1>5. CASE a.ok /\ ~(ofs < 0) /\ ~TooLong(length)
  <2> DEFINE store2 == Stored([a.store EXCEPT ![s] = Inode(e)], e, buf, ofs)
             g == [f EXCEPT !.map = a.map, !.open[s].data = e, !.store = store2]
             v == [n |-> Len(buf), f |-> g]
  <2>1. w = v
    BY <1>5 DEF Extended
  <2>2. length \in Nat /\ ofs \in Nat /\ ofs + Len(buf) <= length
        /\ n \in Nat /\ n <= BlockLimit /\ ~TooLong(length)
    BY <1>5, LengthInBlocks
  <2>3. Blocks(f.open[s].data) <= n
    <3>1. f.open[s].data.length \in Int
      <4> DEFINE d == f.open[s].data
      <4>1. d \in DiskInode
        BY <1>2
      <4> HIDE DEF d
      <4>2. d.length \in Int
        BY <4>1 DEF DiskInode
      <4>3. QED
        BY <4>2 DEF d
    <3>2. f.open[s].data.length <= length
      BY <2>2, <3>1
    <3>3. QED
      BY <1>1, <3>1, <3>2, BlocksUp DEF Blocks
  <2>4. PICK up2 : Growing(up, f, s, n, up2, a)
    BY <1>1, <1>2, Grown
  <2>5. /\ Sound(up2, a.map, a.store, a.d, s, Blocks(f.open[s].data))
        /\ Whole(a.store, a.d, n)
    BY <1>5, <2>4 DEF Growing
  <2>6. /\ e \in DiskInode /\ e.length = length
        /\ Sound(up2, a.map, a.store, e, s, n) /\ SectorsOf(a.store, e, n) = SectorsOf(a.store, a.d, n)
    <3> DEFINE d == a.d
               m == Blocks(f.open[s].data)
    <3>1. Sound(up2, a.map, a.store, d, s, m) /\ Whole(a.store, d, n)
      BY <2>5
    <3> HIDE DEF d, m
    <3> DEFINE e2 == [d EXCEPT !.length = length]
               mp == a.map
               st == a.store
    <3>2. Sound(up2, mp, st, d, s, m) /\ Whole(st, d, bytes_to_sectors(length)) /\ length \in Nat
      BY <2>2, <3>1
    <3> HIDE DEF length, mp, st
    <3>3. LET e3 == [d EXCEPT !.length = length]
              i == bytes_to_sectors(length)
          IN  /\ e3 \in DiskInode /\ e3.length = length
              /\ Sound(up2, mp, st, e3, s, i) /\ SectorsOf(st, e3, i) = SectorsOf(st, d, i)
      BY <2>2, <3>2, GrownInode
    <3>4. QED
      BY <3>3 DEF d, mp, st
  <2>7. /\ DOMAIN g = Fields /\ g.dir = f.dir /\ g.table = f.table /\ g.failed = f.failed
        /\ g.map = a.map /\ g.open = [f.open EXCEPT ![s].data = e] /\ g.store = store2
    BY <1>1 DEF Fields
  <2> HIDE DEF g, e
  <2>9. /\ Keeps(up2, a.map, a.store, up2, a.map, store2, s) /\ AsInode(store2[s]) = e
        /\ Sound(up2, a.map, store2, e, s, n)
        /\ SectorsOf(a.store, e, n) \subseteq SectorsOf(store2, e, n)
    <3> DEFINE mp == a.map
               st == a.store
    <3>1. e \in DiskInode /\ Sound(up2, mp, st, e, s, bytes_to_sectors(length))
      BY <2>6
    <3> HIDE DEF mp, st, length
    <3>2. length \in Int /\ ofs \in Nat /\ ofs + Len(buf) <= length
      BY <2>2
    <3>3. InodeAndBytes(up2, mp, st, e, s, bytes_to_sectors(length),
                        Stored([st EXCEPT ![s] = Inode(e)], e, buf, ofs))
      BY <3>1, <3>2, GrownStored
    <3>4. QED
      BY <3>3 DEF mp, st, InodeAndBytes
  <2> HIDE DEF store2
  <2>10. Regrown(up2, a, g, s, e, n)
    BY <2>6, <2>7, <2>9 DEF Regrown, Blocks
  <2>11. OpenSame(f, g, s, e)
    BY <1>2, <2>6, <2>7, OpenChanged
  <2> HIDE DEF n, length
  <2>12. Good(g)
    BY <1>5, <2>2, <2>3, <2>4, <2>7, <2>10, <2>11, WriteGrows
  <2>13. Written(f, v)
    <3> HIDE DEF e, w, g
    <3>1. g.dir = f.dir /\ g.table = f.table
      BY <2>7
    <3>2. Len(buf) \in Int
      OBVIOUS
    <3>3. \A i \in Int : Written(f, [n |-> i, f |-> g])
      BY <2>12, <3>1, WrittenIn
    <3>4. QED
      BY <3>2, <3>3
  <2>14. QED
    BY <2>1, <2>13
<1>6. QED
  BY <1>3, <1>4, <1>5

LEMMA Writes ==
    ASSUME NEW up, NEW f, GoodBy(up, f), NEW k, Lists(f, k), NEW s, s = f.dir[k].inode_sector,
           f.open[s] # None, NEW buf, Len(buf) \in Nat \ {0}, NEW ofs \in Int
    PROVE  Written(f, inode_write_at(f, s, buf, ofs))
<1> DEFINE d == f.open[s].data
           end == ofs + Len(buf)
           w == inode_write_at(f, s, buf, ofs)
<1>1. DOMAIN f = Fields
  BY DEF GoodBy
<1>2. CASE end - 1 \notin 0 .. d.length - 1
  <2> DEFINE a == inode_reserve(f.map, f.store, d, end)
             x == Extended(f, s, buf, ofs, a)
  <2>1. w = x
    BY <1>2 DEF inode_write_at
  <2>2. a = inode_reserve(f.map, f.store, f.open[s].data, ofs + Len(buf))
    OBVIOUS
  <2>3. ofs + Len(buf) - 1 \notin 0 .. f.open[s].data.length - 1
    BY <1>2
  <2> HIDE DEF a
  <2>4. Written(f, x)
    BY <2>2, <2>3, WriteExtends
  <2>5. QED
    BY <2>1, <2>4
<1>3. CASE end - 1 \in 0 .. d.length - 1 /\ ofs < 0
  <2> DEFINE v == [n |-> 0, f |-> [f EXCEPT !.panic = TRUE]]
  <2>1. w = v
    BY <1>3 DEF inode_write_at
  <2>2. Written(f, v)
    BY WritePanics
  <2>3. QED
    BY <2>1, <2>2
<1>4. CASE end - 1 \in 0 .. d.length - 1 /\ ~(ofs < 0)
  <2> DEFINE g == [f EXCEPT !.store = Stored(f.store, d, buf, ofs)]
             v == [n |-> Len(buf), f |-> g]
  <2>1. w = v
    BY <1>4 DEF inode_write_at
  <2>2. /\ DOMAIN g = Fields /\ g.dir = f.dir /\ g.table = f.table /\ g.failed = f.failed
        /\ g.map = f.map /\ g.open = f.open /\ g.store = Stored(f.store, d, buf, ofs)
    BY <1>1 DEF Fields
  <2> HIDE DEF g
  <2>3. d \in DiskInode /\ Sound(up, f.map, f.store, d, s, Blocks(d))
    BY OpenFileInode DEF SoundInode
  <2>4. end - 1 \in 0 .. d.length - 1 /\ ofs \in Nat
    BY <1>4
  <2> DEFINE length == d.length
  <2> HIDE DEF d
  <2>5. length \in Int /\ Sound(up, f.map, f.store, d, s, bytes_to_sectors(length))
    <3>1. length \in Int
      BY <2>3 DEF DiskInode
    <3>2. QED
      BY <2>3, <3>1 DEF Blocks
  <2>6. end - 1 \in 0 .. length - 1
    BY <2>4
  <2> HIDE DEF length
  <2>7. ofs \in Nat /\ ofs + Len(buf) <= length
    BY <2>4, <2>6, <2>5
  <2>8. /\ Keeps(up, f.map, f.store, up, f.map, Stored(f.store, d, buf, ofs), s)
        /\ Stored(f.store, d, buf, ofs)[s] = f.store[s]
    BY <2>5, <2>7, KeepsBytes
  <2>9. Keeps(up, f.map, f.store, up, g.map, g.store, s) /\ g.store[s] = f.store[s]
    BY <2>2, <2>8
  <2>10. Good(g)
    BY <2>2, <2>9, WriteInPlace
  <2>11. Written(f, v)
    BY <2>2, <2>10, WrittenIn
  <2>12. QED
    BY <2>1, <2>11
<1>5. QED
  BY <1>2, <1>3, <1>4

----------------------------------------------------------------------------
(* file.c and fsutil.c                                                     *)
LEMMA OpenListed ==
    ASSUME NEW f, DirOK(f), TableOK(f), NEW name, IsOpen(f, name)
    PROVE  \E k : /\ Lists(f, k) /\ f.dir[k].inode_sector = File(f, name).inode
                  /\ f.open[File(f, name).inode] # None
                  /\ File(f, name).pos \in Int
<1>1. /\ lookup(f, name) # {} /\ File(f, name).inode = SectorOf(f, name)
      /\ File(f, name) \in FileEntry /\ f.open[SectorOf(f, name)] # None
  BY HandleOf
<1>2. File(f, name).pos \in Int
  BY <1>1 DEF FileEntry
<1>3. Lists(f, Min(lookup(f, name))) /\ SectorOf(f, name) = f.dir[Min(lookup(f, name))].inode_sector
  BY <1>1, LookedUp
<1>4. QED
  BY <1>1, <1>2, <1>3

\* g is good and differs from f in positions, bytes and sectors only.
SameDir(f, g) == Good(g) /\ g.dir = f.dir /\ \A n : IsOpen(f, n) => IsOpen(g, n)

LEMMA SameDirOn ==
    ASSUME NEW f, NEW g, NEW h, SameDir(f, g), SameDir(g, h) PROVE SameDir(f, h)
  BY DEF SameDir

LEMMA PanicSame == ASSUME NEW f, Good(f), NEW b PROVE SameDir(f, [f EXCEPT !.panic = b])
<1> DEFINE g == [f EXCEPT !.panic = b]
<1>1. PICK up : GoodBy(up, f)
  BY DEF Good
<1>2. g.dir = f.dir /\ g.table = f.table
  BY <1>1 DEF GoodBy, Fields
<1>3. Good(g)
  BY <1>1, OnlyPanic DEF Good
<1> HIDE DEF g
<1>4. SameDir(f, g)
  BY <1>2, <1>3 DEF SameDir, IsOpen, Handle
<1>5. QED
  BY <1>4 DEF g

\* The position of a handle is set.
LEMMA MovesPosition ==
    ASSUME NEW f, Good(f), NEW i \in DOMAIN f.table, NEW v \in Int
    PROVE  SameDir(f, [f EXCEPT !.table[i].pos = v])
<1> DEFINE g == [f EXCEPT !.table[i].pos = v]
<1>1. PICK up : GoodBy(up, f)
  BY DEF Good
<1>2. /\ GoodBy(up, g) /\ g.dir = f.dir /\ g.open = f.open /\ DOMAIN g.table = DOMAIN f.table
      /\ \A j \in DOMAIN f.table : g.table[j].fname = f.table[j].fname
  BY <1>1, OnlyPosition
<1> HIDE DEF g
<1>3. \A n : IsOpen(f, n) => IsOpen(g, n)
  BY <1>2 DEF IsOpen, Handle
<1>4. SameDir(f, g)
  BY <1>2, <1>3 DEF SameDir, Good
<1>5. QED
  BY <1>4 DEF g

LEMMA Seeks ==
    ASSUME NEW f, Good(f), NEW name, IsOpen(f, name), NEW p \in Int
    PROVE  SameDir(f, file_seek(f, name, p))
<1>1. PICK up : GoodBy(up, f)
  BY DEF Good
<1>2. Min(Handle(f, name)) \in DOMAIN f.table
  BY <1>1, Handled DEF GoodBy
<1>3. CASE p < 0
  BY <1>3, PanicSame DEF file_seek
<1>4. CASE ~(p < 0)
  BY <1>2, <1>4, MovesPosition DEF file_seek
<1>5. QED
  BY <1>3, <1>4

LEMMA Moves ==
    ASSUME NEW f, Good(f), NEW name, IsOpen(f, name), NEW w, Written(f, w)
    PROVE  SameDir(f, Moved(w, name))
<1> DEFINE h == w.f
           i == Min(Handle(h, name))
           v == h.table[i].pos + w.n - 2
<1>1. Good(h) /\ w.n \in Int /\ h.dir = f.dir /\ h.table = f.table
  BY DEF Written
<1>2. SameDir(f, h) /\ IsOpen(h, name)
  BY <1>1 DEF SameDir, IsOpen, Handle
<1>3. PICK up : GoodBy(up, h)
  BY <1>1 DEF Good
<1>4. i \in DOMAIN h.table /\ h.table \in Seq(FileEntry)
  BY <1>2, <1>3, Handled DEF GoodBy, TableOK
<1>5. h.table[i].pos \in Int
  <2>1. h.table[i] \in FileEntry
    BY <1>4
  <2>2. QED
    BY <2>1 DEF FileEntry
<1>6. v \in Int
  BY <1>1, <1>5
<1>7. Moved(w, name) = [h EXCEPT !.table[i].pos = v]
  BY DEF Moved
<1> HIDE DEF h, i, v
<1>8. SameDir(h, [h EXCEPT !.table[i].pos = v])
  BY <1>1, <1>4, <1>6, MovesPosition
<1>9. QED
  BY <1>2, <1>7, <1>8, SameDirOn

LEMMA FileWrites ==
    ASSUME NEW f, Good(f), NEW name, IsOpen(f, name), NEW S, NEW buf \in Seq(S), buf # <<>>
    PROVE  SameDir(f, file_write(f, name, buf))
<1> DEFINE b == [buf EXCEPT ![Len(buf)] = Nul]
           s == File(f, name).inode
           p == File(f, name).pos
           w == inode_write_at(f, s, b, p)
<1>1. PICK up : GoodBy(up, f)
  BY DEF Good
<1>2. Len(b) \in Nat \ {0}
  <2>1. Len(buf) \in Nat \ {0} /\ DOMAIN buf = 1 .. Len(buf)
    BY EmptySeq
  <2>2. b \in Seq(S \cup {Nul}) /\ DOMAIN b = 1 .. Len(buf)
    BY <2>1
  <2>3. QED
    BY <2>1, <2>2
<1>3. PICK k : Lists(f, k) /\ f.dir[k].inode_sector = s /\ f.open[s] # None /\ p \in Int
  BY <1>1, OpenListed DEF GoodBy
<1> HIDE DEF b, s, p
<1>4. Written(f, w)
  BY <1>1, <1>2, <1>3, Writes
<1> HIDE DEF w
<1>5. SameDir(f, Moved(w, name))
  BY <1>4, Moves
<1>6. QED
  BY <1>5 DEF file_write, w, b, s, p

LEMMA FileReads ==
    ASSUME NEW f, Good(f), NEW name, IsOpen(f, name), NEW size \in Int
    PROVE  SameDir(f, file_read(f, name, size))
<1> DEFINE e == File(f, name)
           left == f.open[e.inode].data.length - e.pos
           i == Min(Handle(f, name))
           v == e.pos + IF left > 0 THEN Lesser(size, left) ELSE 0
<1>1. PICK up : GoodBy(up, f)
  BY DEF Good
<1>2. i \in DOMAIN f.table /\ e = f.table[i]
  BY <1>1, Handled DEF GoodBy
<1>3. PICK k : Lists(f, k) /\ f.dir[k].inode_sector = e.inode /\ f.open[e.inode] # None /\ e.pos \in Int
  BY <1>1, OpenListed DEF GoodBy
<1>4. f.open[e.inode].data.length \in Int
  <2>1. f.open[e.inode].data \in DiskInode
    BY <1>1, <1>3, OpenFileInode
  <2> DEFINE d == f.open[e.inode].data
  <2>2. d \in DiskInode
    BY <2>1
  <2> HIDE DEF d
  <2>3. d.length \in Int
    BY <2>2 DEF DiskInode
  <2>4. QED
    BY <2>3 DEF d
<1>5. v \in Int
  BY <1>3, <1>4 DEF Lesser
<1>6. file_read(f, name, size) = IF e.pos < 0 /\ size > 0 THEN [f EXCEPT !.panic = TRUE]
                                 ELSE [f EXCEPT !.table[i].pos = v]
  BY <1>2 DEF file_read
<1> HIDE DEF v, i, e
<1>7. SameDir(f, [f EXCEPT !.table[i].pos = v])
  BY <1>2, <1>5, MovesPosition
<1>8. QED
  BY <1>6, <1>7, PanicSame

LEMMA OpensSame ==
    ASSUME NEW f, Good(f), NEW name
    PROVE  /\ SameDir(f, OpenFile(f, name))
           /\ lookup(f, name) # {} \/ IsOpen(f, name) <=> IsOpen(OpenFile(f, name), name)
<1> DEFINE g == OpenFile(f, name)
<1>1. PICK up : GoodBy(up, f)
  BY DEF Good
<1>2. GoodBy(up, g) /\ OpensMore(f, g) /\ (lookup(f, name) # {} => IsOpen(g, name))
  BY <1>1, Opens
<1>3. lookup(f, name) = {} /\ ~IsOpen(f, name) => g = f
  BY DEF OpenFile
<1> HIDE DEF g
<1>4. SameDir(f, g)
  BY <1>2 DEF OpensMore, SameDir, Good
<1>5. IsOpen(f, name) => IsOpen(g, name)
  BY <1>4 DEF SameDir
<1>6. QED
  BY <1>2, <1>3, <1>4, <1>5 DEF g

LEMMA UtilWrites ==
    ASSUME NEW f, Good(f), NEW name, NEW S, NEW buf \in Seq(S), buf # <<>>
    PROVE  SameDir(f, fsutil_write(f, name, buf))
<1>1. CASE lookup(f, name) = {} /\ ~IsOpen(f, name)
  BY <1>1 DEF fsutil_write, SameDir
<1>2. CASE ~(lookup(f, name) = {} /\ ~IsOpen(f, name))
  <2> DEFINE g == OpenFile(f, name)
  <2>1. SameDir(f, g) /\ IsOpen(g, name)
    BY <1>2, OpensSame
  <2>2. fsutil_write(f, name, buf) = file_write(g, name, buf)
    BY <1>2 DEF fsutil_write
  <2> HIDE DEF g
  <2>3. SameDir(g, file_write(g, name, buf))
    BY <2>1, FileWrites DEF SameDir
  <2>4. QED
    BY <2>1, <2>2, <2>3, SameDirOn
<1>3. QED
  BY <1>1, <1>2

LEMMA UtilReads ==
    ASSUME NEW f, Good(f), NEW name, NEW size \in Int
    PROVE  SameDir(f, fsutil_read(f, name, size))
<1>1. CASE lookup(f, name) = {} /\ ~IsOpen(f, name)
  BY <1>1 DEF fsutil_read, SameDir
<1>2. CASE ~(lookup(f, name) = {} /\ ~IsOpen(f, name))
  <2> DEFINE g == OpenFile(f, name)
  <2>1. SameDir(f, g) /\ IsOpen(g, name)
    BY <1>2, OpensSame
  <2>2. fsutil_read(f, name, size) = file_read(g, name, size)
    BY <1>2 DEF fsutil_read
  <2> HIDE DEF g
  <2>3. SameDir(g, file_read(g, name, size))
    BY <2>1, FileReads DEF SameDir
  <2>4. QED
    BY <2>1, <2>2, <2>3, SameDirOn
<1>3. QED
  BY <1>1, <1>2

LEMMA UtilSeeks ==
    ASSUME NEW f, Good(f), NEW name, NEW p \in Int
    PROVE  SameDir(f, fsutil_seek(f, name, p))
<1>1. CASE lookup(f, name) = {} /\ ~IsOpen(f, name)
  BY <1>1 DEF fsutil_seek, SameDir
<1>2. CASE ~(lookup(f, name) = {} /\ ~IsOpen(f, name))
  <2> DEFINE g == OpenFile(f, name)
  <2>1. SameDir(f, g) /\ IsOpen(g, name)
    BY <1>2, OpensSame
  <2>2. fsutil_seek(f, name, p) = file_seek(g, name, p)
    BY <1>2 DEF fsutil_seek
  <2> HIDE DEF g
  <2>3. SameDir(g, file_seek(g, name, p))
    BY <2>1, Seeks DEF SameDir
  <2>4. QED
    BY <2>1, <2>2, <2>3, SameDirOn
<1>3. QED
  BY <1>1, <1>2

LEMMA UtilSizes ==
    ASSUME NEW f, Good(f), NEW name
    PROVE  /\ SameDir(f, fsutil_size(f, name))
           /\ lookup(f, name) # {} => IsOpen(fsutil_size(f, name), name)
<1> DEFINE g == OpenFile(f, name)
           h == file_seek(g, name, File(g, name).pos)
<1>1. SameDir(f, g) /\ (lookup(f, name) # {} \/ IsOpen(f, name) <=> IsOpen(g, name))
  BY OpensSame
<1>2. CASE ~IsOpen(g, name)
  <2>1. fsutil_size(f, name) = f
    BY <1>2 DEF fsutil_size
  <2>2. QED
    BY <1>1, <1>2, <2>1 DEF SameDir
<1>3. CASE IsOpen(g, name)
  <2>1. fsutil_size(f, name) = h
    BY <1>3 DEF fsutil_size
  <2> HIDE DEF g
  <2>2. PICK up : GoodBy(up, g)
    BY <1>1 DEF SameDir, Good
  <2>3. File(g, name).pos \in Int
    BY <1>3, <2>2, OpenListed DEF GoodBy
  <2>4. SameDir(g, h)
    BY <1>1, <1>3, <2>3, Seeks DEF SameDir
  <2>5. SameDir(f, h) /\ IsOpen(h, name)
    BY <1>1, <1>3, <2>4, SameDirOn DEF SameDir
  <2>6. QED
    BY <2>1, <2>5
<1>4. QED
  BY <1>2, <1>3

LEMMA UtilCats ==
    ASSUME NEW f, Good(f), NEW name
    PROVE  Good(fsutil_cat(f, name))
<1>1. CASE IsOpen(f, name)
  BY <1>1, UtilSizes DEF fsutil_cat, SameDir
<1>2. CASE ~IsOpen(f, name)
  <2> DEFINE g == OpenFile(f, name)
  <2>1. Good(g)
    BY OpensSame DEF SameDir
  <2>2. fsutil_cat(f, name) = remove_from_file_table(g, name)
    BY <1>2 DEF fsutil_cat
  <2> HIDE DEF g
  <2>3. PICK up : GoodBy(up, g)
    BY <2>1 DEF Good
  <2>4. GoodBy(up, remove_from_file_table(g, name))
    BY <2>3, Closes
  <2>5. QED
    BY <2>2, <2>4 DEF Good
<1>3. QED
  BY <1>1, <1>2

----------------------------------------------------------------------------
(* dir_remove                                                              *)
LEMMA NotOpen ==
    ASSUME NEW f, DirOK(f), TableOK(f), OpenOK(f), NEW name, ~IsOpen(f, name),
           NEW k, Lists(f, k), f.dir[k].name = name
    PROVE  f.open[f.dir[k].inode_sector] = None
<1> DEFINE s == f.dir[k].inode_sector
<1>1. SUFFICES ASSUME f.open[s] # None PROVE FALSE
  OBVIOUS
<1>2. s \in Sectors
  BY DEF DirOK, Lists, SlotEntry
<1>3. PICK i \in DOMAIN f.table : f.table[i].inode = s
  BY <1>1, <1>2 DEF OpenOK
<1>4. PICK l : /\ Lists(f, l) /\ f.dir[l].name = f.table[i].fname
               /\ f.dir[l].inode_sector = f.table[i].inode
  BY DEF TableOK
<1>5. l = k
  BY <1>3, <1>4 DEF DirOK
<1>6. i \in Handle(f, name)
  BY <1>4, <1>5 DEF Handle
<1>7. QED
  BY <1>6 DEF IsOpen

\* What is released are the sectors of the inode.
LEMMA Deallocated ==
    ASSUME NEW store, NEW d, d.length \in Int
    PROVE  inode_deallocate(store, d) = SectorsOf(store, d, Blocks(d))
<1> DEFINE n == bytes_to_sectors(d.length)
           q == get_inode_data_sectors(store, d)
           T == {index_to_sector(store, d, i) : i \in 0 .. n - 1}
<1>1. IndexSectors(store, d) = IndexesFor(store, d, n)
  BY DEF IndexSectors, IndexesFor
<1>2. n \in Int
  BY BlocksOf
<1>3. q = [i \in 1 .. n |-> index_to_sector(store, d, i - 1)]
  BY DEF get_inode_data_sectors
<1> HIDE DEF n, q
<1>4. Range(q) = {q[i] : i \in DOMAIN q}
  BY DEF Range
<1>5. Range(q) = T
  <2>1. ASSUME NEW t \in T PROVE t \in Range(q)
    <3>1. PICK i \in 0 .. n - 1 : t = index_to_sector(store, d, i)
      BY <2>1
    <3>2. i + 1 \in 1 .. n /\ (i + 1) - 1 = i
      BY <1>2, <3>1
    <3>3. i + 1 \in DOMAIN q /\ q[i + 1] = t
      BY <1>3, <3>1, <3>2
    <3>4. QED
      BY <1>4, <3>3
  <2>2. ASSUME NEW t \in Range(q) PROVE t \in T
    <3>1. PICK i \in 1 .. n : t = index_to_sector(store, d, i - 1)
      BY <1>3, <1>4, <2>2
    <3>2. i - 1 \in 0 .. n - 1
      BY <1>2, <3>1
    <3>3. QED
      BY <3>1, <3>2
  <2>3. QED
    BY <2>1, <2>2
<1>6. inode_deallocate(store, d) = Range(q) \cup IndexSectors(store, d)
  BY DEF inode_deallocate, q
<1> HIDE DEF T
<1>7. inode_deallocate(store, d) = T \cup IndexesFor(store, d, n)
  BY <1>1, <1>5, <1>6
<1>8. QED
  BY <1>7 DEF SectorsOf, Blocks, T, n

LEMMA RemovedField ==
    ASSUME NEW x, NEW b, NEW c
    PROVE  [[open_cnt |-> 1, removed |-> b, data |-> x] EXCEPT !.removed = c]
           = [open_cnt |-> 1, removed |-> c, data |-> x]
  OBVIOUS

\* All sectors of the file with inode d in sector s.  They are closed under the
\* owner map.
FileSectors(store, d, s) == {s} \cup SectorsOf(store, d, Blocks(d))

ClosedIn(up, map, R) == R \subseteq map \ Meta /\ R \cap Meta = {} /\ \A u \in R : up[u][1] \in R

LEMMA ClosedInFile ==
    ASSUME NEW up, NEW f, NEW d, NEW s, SoundInode(up, f, d, s)
    PROVE  ClosedIn(up, f.map, FileSectors(f.store, d, s))
<1> DEFINE map == f.map
           store == f.store
           n == Blocks(d)
           R == FileSectors(store, d, s)
<1>1. Sound(up, map, store, d, s, n) /\ R = {s} \cup SectorsOf(store, d, n)
  BY DEF SoundInode, FileSectors
<1> HIDE DEF map, store, n, R
<1>2. s \in map \ Meta /\ up[s][1] = s
  BY <1>1 DEF Sound, Root
<1>3. ASSUME NEW t \in SectorsOf(store, d, n) PROVE t \in map \ Meta /\ up[t][1] \in R
  BY <1>1, SectorOwned
<1>4. ASSUME NEW t \in R PROVE t \in map \ Meta /\ up[t][1] \in R
  <2>1. CASE t = s
    BY <1>1, <1>2, <2>1
  <2>2. CASE t \in SectorsOf(store, d, n)
    BY <1>3, <2>2
  <2>3. QED
    BY <1>1, <2>1, <2>2
<1>5. ClosedIn(up, map, R)
  BY <1>4 DEF ClosedIn
<1>6. QED
  BY <1>5 DEF map, store, R

\* The directory of g without slot k, and its free map without R.
Without(f, g, k, R) ==
    /\ DOMAIN g = Fields /\ g.map = f.map \ R /\ g.store = f.store /\ g.open = f.open
    /\ g.table = f.table /\ g.failed = f.failed /\ g.dir = [f.dir EXCEPT ![k] = None]

\* The file in slot k, which is not open, is gone from g with its sectors.
LEMMA Removed ==
    ASSUME NEW up, NEW f, GoodBy(up, f), NEW k, Lists(f, k),
           NEW s, s = f.dir[k].inode_sector, f.open[s] = None,
           NEW d, d = AsInode(f.store[s]), NEW R, R = {s} \cup SectorsOf(f.store, d, Blocks(d)),
           NEW g, Without(f, g, k, R)
    PROVE  GoodBy(up, g)
<1>0. /\ DOMAIN g = Fields /\ g.map = f.map \ R /\ g.store = f.store /\ g.open = f.open
      /\ g.table = f.table /\ g.failed = f.failed /\ g.dir = [f.dir EXCEPT ![k] = None]
  BY DEF Without
<1>1. DirOK(f) /\ TableOK(f) /\ OpenOK(f) /\ InodesOK(up, f) /\ Tight(f) /\ Heap(up, f.map, f.store)
  BY DEF GoodBy
<1>2. SoundInode(up, f, d, s) /\ Sound(up, f.map, f.store, d, s, Blocks(d))
  BY <1>0, <1>1 DEF InodesOK, SoundInode
<1>3. R \subseteq f.map \ Meta /\ R \cap Meta = {} /\ \A u \in R : up[u][1] \in R
  <2> DEFINE Q == FileSectors(f.store, d, s)
  <2>1. R = Q
    BY DEF FileSectors
  <2> HIDE DEF Q
  <2>2. ClosedIn(up, f.map, Q)
    BY <1>2, ClosedInFile DEF Q
  <2>3. QED
    BY <2>1, <2>2 DEF ClosedIn
<1>4. Heap(up, g.map, g.store)
  <2> DEFINE map == f.map
             store == f.store
  <2>1. Heap(up, map, store) /\ R \cap Meta = {} /\ \A u \in R : up[u][1] \in R
    BY <1>0, <1>1, <1>3
  <2> HIDE DEF map, store
  <2>2. Heap(up, map \ R, store)
    BY <2>1, Released
  <2>3. QED
    BY <1>0, <2>2 DEF map, store
<1>5. /\ \A j : Lists(g, j) <=> Lists(f, j) /\ j # k
      /\ \A j : Lists(g, j) => g.dir[j] = f.dir[j]
      /\ g.dir \in [1 .. Entries -> {None} \cup SlotEntry]
  <2> DEFINE dir == f.dir
  <2>1. dir \in [1 .. Entries -> {None} \cup SlotEntry] /\ g.dir = [dir EXCEPT ![k] = None]
    BY <1>0, <1>1 DEF DirOK
  <2> HIDE DEF dir
  <2>2. /\ \A j \in 1 .. Entries : j # k => g.dir[j] = dir[j]
        /\ g.dir \in [1 .. Entries -> {None} \cup SlotEntry]
    BY <2>1
  <2>3. k \in 1 .. Entries => g.dir[k] = None
    BY <2>1
  <2> USE DEF dir
  <2>4. QED
    BY <2>2, <2>3 DEF Lists
<1>6. DirOK(g)
  BY <1>0, <1>1, <1>5 DEF DirOK
<1>7. ASSUME NEW j, Lists(g, j), NEW r, r = g.dir[j].inode_sector
      PROVE  /\ r # s /\ r \in Sectors
             /\ \A e : SoundInode(up, f, e, r) => SoundInode(up, g, e, r)
  <2>1. Lists(f, j) /\ j # k /\ r = f.dir[j].inode_sector
    BY <1>0, <1>5, <1>7
  <2>2. r # s
    BY <2>1, <1>1 DEF DirOK
  <2>3. r \in Sectors
    BY <2>1, <1>1 DEF DirOK, Lists, SlotEntry
  <2>4. ASSUME NEW e, SoundInode(up, f, e, r) PROVE SoundInode(up, g, e, r)
    <3>1. e \in DiskInode /\ Sound(up, f.map, f.store, e, r, Blocks(e))
      BY <2>4 DEF SoundInode
    <3>2. ({s} \cup SectorsOf(f.store, d, Blocks(d)))
          \cap ({r} \cup SectorsOf(f.store, e, Blocks(e))) = {}
      <4> DEFINE map == f.map
                 store == f.store
                 n == Blocks(d)
                 m == Blocks(e)
      <4>1. Sound(up, map, store, d, s, n) /\ Sound(up, map, store, e, r, m)
        BY <1>2, <3>1
      <4> HIDE DEF map, store, n, m
      <4>2. ({s} \cup SectorsOf(store, d, n)) \cap ({r} \cup SectorsOf(store, e, m)) = {}
        BY <2>2, <4>1, OwnSectors
      <4>3. QED
        BY <4>2 DEF store, n, m
    <3>3. r \notin R
      BY <3>2
    <3>4. Sound(up, f.map \ R, f.store, e, r, Blocks(e))
      BY <1>0, <1>3, <3>1, <3>3, SoundReleased
    <3>5. QED
      BY <1>0, <3>1, <3>4 DEF SoundInode
  <2>5. QED
    BY <2>2, <2>3, <2>4
<1>8. InodesOK(up, g)
  <2>1. ASSUME NEW j, Lists(g, j), NEW r, r = g.dir[j].inode_sector
        PROVE  /\ SoundInode(up, g, AsInode(g.store[r]), r)
               /\ g.open[r] # None => SoundInode(up, g, g.open[r].data, r)
    <3>1. Lists(f, j) /\ r = f.dir[j].inode_sector
      BY <1>0, <1>5, <2>1
    <3>2. /\ SoundInode(up, f, AsInode(f.store[r]), r)
          /\ f.open[r] # None => SoundInode(up, f, f.open[r].data, r)
      BY <1>0, <1>1, <3>1 DEF InodesOK
    <3>3. QED
      BY <1>0, <1>7, <2>1, <3>2
  <2>2. QED
    BY <2>1 DEF InodesOK
<1>9. TableOK(g)
  <2>1. ASSUME NEW i \in DOMAIN f.table
        PROVE  \E j : /\ Lists(g, j) /\ g.dir[j].name = f.table[i].fname
                      /\ g.dir[j].inode_sector = f.table[i].inode
    <3>1. PICK j : /\ Lists(f, j) /\ f.dir[j].name = f.table[i].fname
                   /\ f.dir[j].inode_sector = f.table[i].inode
      BY <1>0, <1>1 DEF TableOK
    <3>2. f.open[f.table[i].inode] # None
      BY <1>0, <1>1 DEF TableOK
    <3>3. j # k
      BY <3>1, <3>2
    <3>4. QED
      BY <1>0, <1>5, <3>1, <3>3
  <2>2. TableOK(f) /\ g.table = f.table /\ g.open = f.open
    BY <1>0, <1>1
  <2> DEFINE table == f.table
             open == f.open
  <2>3. /\ table \in Seq(FileEntry)
        /\ \A i, j \in DOMAIN table : table[i].fname = table[j].fname => i = j
        /\ \A i \in DOMAIN table : open[table[i].inode] # None
    BY <2>2 DEF TableOK
  <2>4. g.table = table /\ g.open = open
    BY <2>2
  <2>5. \A i \in DOMAIN table : \E j : /\ Lists(g, j) /\ g.dir[j].name = table[i].fname
                                       /\ g.dir[j].inode_sector = table[i].inode
    BY <2>1
  <2> HIDE DEF table, open
  <2>6. /\ g.table \in Seq(FileEntry)
        /\ \A i, j \in DOMAIN g.table : g.table[i].fname = g.table[j].fname => i = j
    BY <2>3, <2>4
  <2>7. ASSUME NEW i \in DOMAIN g.table
        PROVE  /\ g.open[g.table[i].inode] # None
               /\ \E j : /\ Lists(g, j) /\ g.dir[j].name = g.table[i].fname
                         /\ g.dir[j].inode_sector = g.table[i].inode
    <3>1. g.open[g.table[i].inode] # None
      BY <2>3, <2>4
    <3>2. \E j : /\ Lists(g, j) /\ g.dir[j].name = g.table[i].fname
                 /\ g.dir[j].inode_sector = g.table[i].inode
      BY <2>4, <2>5
    <3>3. QED
      BY <3>1, <3>2
  <2>8. QED
    BY <2>6, <2>7 DEF TableOK
<1>10. OpenOK(g)
  BY <1>0, <1>1 DEF OpenOK
<1>11. Tight(g)
  <2>1. SUFFICES ASSUME f.failed = 0 PROVE Tight(g)
    BY <1>0 DEF Tight
  <2>2. ASSUME NEW t \in g.map \ Meta
        PROVE  \E j : Lists(g, j) /\ LET r == g.dir[j].inode_sector
                                         e == AsInode(g.store[r])
                                     IN  t \in {r} \cup SectorsOf(g.store, e, Blocks(e))
    <3>1. t \in f.map \ Meta /\ t \notin R
      BY <1>0, <2>2
    <3>2. PICK j : Lists(f, j) /\ LET r == f.dir[j].inode_sector
                                      e == AsInode(f.store[r])
                                  IN  t \in {r} \cup SectorsOf(f.store, e, Blocks(e))
      BY <1>0, <1>1, <2>1, <3>1 DEF Tight
    <3>3. j # k
      BY <3>1, <3>2
    <3>4. QED
      BY <1>0, <1>5, <3>2, <3>3
  <2>3. \A t \in Sectors : g.open[t] # None => g.open[t].data = AsInode(g.store[t])
    BY <1>0, <1>1, <2>1 DEF Tight
  <2>4. QED
    BY <1>0, <2>2, <2>3 DEF Tight
<1>12. QED
  BY <1>0, <1>4, <1>6, <1>8, <1>9, <1>10, <1>11 DEF GoodBy

LEMMA Removes ==
    ASSUME NEW f, Good(f), NEW name, ~IsOpen(f, name)
    PROVE  Good(dir_remove(f, name))
<1>1. PICK up : GoodBy(up, f)
  BY DEF Good
<1>2. CASE lookup(f, name) = {}
  BY <1>2 DEF dir_remove
<1>3. CASE lookup(f, name) # {}
  <2> DEFINE k == Min(lookup(f, name))
             s == SectorOf(f, name)
             d == AsInode(f.store[s])
             o == [open_cnt |-> 1, removed |-> FALSE, data |-> d]
             o2 == [open_cnt |-> 1, removed |-> TRUE, data |-> d]
             R == {s} \cup SectorsOf(f.store, d, Blocks(d))
             dir2 == [f.dir EXCEPT ![k] = None]
             g == [inode_open(f, s) EXCEPT !.dir[k] = None]
             h == inode_remove(g, s)
             r == dir_remove(f, name)
  <2>1. DirOK(f) /\ TableOK(f) /\ OpenOK(f) /\ InodesOK(up, f) /\ DOMAIN f = Fields
    BY <1>1 DEF GoodBy
  <2>2. Lists(f, k) /\ f.dir[k].name = name /\ s = f.dir[k].inode_sector
    BY <1>3, <2>1, LookedUp
  <2>3. r = inode_close(h, s)
    BY <1>3 DEF dir_remove
  <2> HIDE DEF k, s, r
  <2>4. s \in Sectors /\ f.open[s] = None
    BY <2>1, <2>2, NotOpen DEF DirOK, Lists, SlotEntry
  <2>5. SoundInode(up, f, d, s) /\ d \in DiskInode /\ Sound(up, f.map, f.store, d, s, Blocks(d))
    BY <2>1, <2>2 DEF InodesOK, SoundInode
  <2>6. d.length \in Int
    <3> HIDE DEF d
    <3>1. QED
      BY <2>5 DEF DiskInode
  <2>7. R \subseteq f.map /\ inode_deallocate(f.store, d) = SectorsOf(f.store, d, Blocks(d))
    <3> HIDE DEF d
    <3>1. inode_deallocate(f.store, d) = SectorsOf(f.store, d, Blocks(d))
      BY <2>5, <2>6, Deallocated
    <3> DEFINE Q == FileSectors(f.store, d, s)
    <3>2. R = Q
      BY DEF FileSectors
    <3> HIDE DEF Q, R
    <3>3. ClosedIn(up, f.map, Q)
      BY <2>5, ClosedInFile DEF Q
    <3>4. R \subseteq f.map
      BY <3>2, <3>3 DEF ClosedIn
    <3>5. QED
      BY <3>1, <3>4 DEF R
  <2>8. o2 # None
    <3>1. d \in DiskInode
      BY <2>5
    <3> HIDE DEF d
    <3>2. o2 \in [open_cnt : {1}, removed : BOOLEAN, data : DiskInode]
      BY <3>1
    <3> HIDE DEF o2
    <3>3. QED
      BY <3>2, NoneAssumption
  <2>9. g = [f EXCEPT !.open[s] = o, !.dir[k] = None]
    <3>1. inode_open(f, s) = [f EXCEPT !.open[s] = o]
      BY <2>4 DEF inode_open
    <3>2. QED
      BY <3>1, <2>1 DEF Fields
  <2>10. /\ DOMAIN g = Fields /\ g.map = f.map /\ g.store = f.store /\ g.dir = dir2
         /\ g.failed = f.failed /\ g.table = f.table
         /\ g.open = [f.open EXCEPT ![s] = o]
    BY <2>1, <2>9 DEF Fields
  <2> HIDE DEF g, d, dir2
  <2>11. f.open = [t \in Sectors |-> f.open[t]]
    BY <2>1 DEF OpenOK
  <2>12. /\ g.open = [t \in Sectors |-> IF t = s THEN o ELSE f.open[t]]
    BY <2>4, <2>10, <2>11
  <2>13. [o EXCEPT !.removed = TRUE] = o2
    <3> HIDE DEF d
    <3>1. [o EXCEPT !.removed = TRUE] = [open_cnt |-> 1, removed |-> TRUE, data |-> d]
      BY RemovedField DEF o
    <3>2. QED
      BY <3>1 DEF o2
  <2>14. h = [g EXCEPT !.open = [t \in Sectors |-> IF t = s THEN o2 ELSE f.open[t]]]
    <3>1. g.open[s] = o
      BY <2>4, <2>12
    <3>2. h = [g EXCEPT !.open = [g.open EXCEPT ![s] = [g.open[s] EXCEPT !.removed = TRUE]]]
      BY DEF inode_remove
    <3>3. h = [g EXCEPT !.open = [g.open EXCEPT ![s] = o2]]
      BY <2>13, <3>1, <3>2
    <3> HIDE DEF o, o2
    <3>4. [g.open EXCEPT ![s] = o2] = [t \in Sectors |-> IF t = s THEN o2 ELSE f.open[t]]
      BY <2>12
    <3>5. QED
      BY <3>3, <3>4
  <2>15. /\ DOMAIN h = Fields /\ h.map = f.map /\ h.store = f.store /\ h.dir = dir2
         /\ h.failed = f.failed /\ h.table = f.table
         /\ h.open = [t \in Sectors |-> IF t = s THEN o2 ELSE f.open[t]]
    BY <2>10, <2>14 DEF Fields
  <2>16. h.open[s] = o2 /\ o2.open_cnt = 1 /\ o2.removed = TRUE /\ o2.data = d
    BY <2>4, <2>15
  <2> HIDE DEF h, o, o2
  <2>17. r = free_map_release([h EXCEPT !.open[s] = None], {s} \cup inode_deallocate(h.store, d))
    BY <2>3, <2>8, <2>16 DEF inode_close
  <2> DEFINE i == [h EXCEPT !.open[s] = None]
  <2>18. /\ DOMAIN i = Fields /\ i.map = f.map /\ i.store = f.store /\ i.dir = dir2
         /\ i.failed = f.failed /\ i.table = f.table
         /\ i.open = [h.open EXCEPT ![s] = None]
    BY <2>15 DEF Fields
  <2>19. i.open = f.open
    <3>1. [h.open EXCEPT ![s] = None] = [t \in Sectors |-> f.open[t]]
      BY <2>4, <2>15
    <3>2. QED
      BY <3>1, <2>11, <2>18
  <2> HIDE DEF i, R
  <2>20. r = [i EXCEPT !.map = f.map \ R]
    <3>1. r = free_map_release(i, R)
      BY <2>7, <2>15, <2>17 DEF i, R
    <3>2. QED
      BY <2>7, <2>18, <3>1 DEF free_map_release
  <2>21. /\ DOMAIN r = Fields /\ r.map = f.map \ R /\ r.store = f.store /\ r.dir = dir2
         /\ r.failed = f.failed /\ r.table = f.table /\ r.open = f.open
    BY <2>18, <2>19, <2>20 DEF Fields
  <2>22. GoodBy(up, r)
    <3>1. d = AsInode(f.store[s]) /\ R = {s} \cup SectorsOf(f.store, d, Blocks(d))
          /\ r.dir = [f.dir EXCEPT ![k] = None]
      BY <2>21 DEF d, R, dir2
    <3> HIDE DEF d, R, dir2, r
    <3> DEFINE r2 == r
    <3>2. Without(f, r2, k, R)
      BY <2>21, <3>1 DEF Without
    <3> HIDE DEF r2
    <3>3. GoodBy(up, r2)
      BY <1>1, <2>2, <2>4, <3>1, <3>2, Removed
    <3>4. QED
      BY <3>3 DEF r2
  <2>23. QED
    BY <2>22 DEF Good, r
<1>4. QED
  BY <1>2, <1>3

LEMMA UtilRemoves ==
    ASSUME NEW f, Good(f), NEW name
    PROVE  Good(fsutil_rm(f, name))
<1> DEFINE g == remove_from_file_table(f, name)
<1>1. Good(g) /\ ~IsOpen(g, name)
  BY Closes DEF Good
<1> HIDE DEF g
<1>2. Good(dir_remove(g, name))
  BY <1>1, Removes
<1>3. QED
  BY <1>2 DEF fsutil_rm, g

----------------------------------------------------------------------------
(* filesys_create                                                          *)

\* The directory has a slot for every name.
LEMMA FreeSlot ==
    ASSUME NEW f, DirOK(f), NEW name \in Names, \A k : Lists(f, k) => f.dir[k].name # name
    PROVE  LET k == Min({j \in 1 .. Entries : f.dir[j] = None})
           IN  k \in 1 .. Entries /\ f.dir[k] = None
<1> DEFINE T == {j \in 1 .. Entries : f.dir[j] = None}
<1>1. T # {}
  <2>1. SUFFICES ASSUME T = {} PROVE FALSE
    OBVIOUS
  <2> DEFINE others == Names \ {name}
             g == [k \in 1 .. Entries |-> f.dir[k].name]
  <2>2. \A k \in 1 .. Entries : Lists(f, k)
    BY <2>1 DEF Lists
  <2>3. g \in [1 .. Entries -> others]
    <3>1. \A k \in 1 .. Entries : f.dir[k] \in SlotEntry
      BY <2>2 DEF DirOK, Lists
    <3>2. \A k \in 1 .. Entries : f.dir[k].name \in others
      BY <3>1, <2>2 DEF SlotEntry
    <3>3. QED
      BY <3>2
  <2>4. IsFiniteSet(Names) /\ Entries \in Nat /\ Cardinality(Names) <= Entries
    BY BoundsAssumption
  <2>5. IsFiniteSet(others) /\ Cardinality(others) = Cardinality(Names) - 1
    BY <2>4, FS_RemoveElement
  <2>6. IsFiniteSet(1 .. Entries) /\ Cardinality(1 .. Entries) = Entries
    <3>1. IsFiniteSet(1 .. Entries) /\ Cardinality(1 .. Entries) = IF 1 > Entries THEN 0 ELSE Entries - 1 + 1
      BY <2>4, FS_Interval
    <3>2. QED
      BY <3>1, <2>4
  <2>7. Cardinality(Names) \in Nat
    BY <2>4, FS_CardinalityType
  <2>8. Cardinality(others) < Cardinality(1 .. Entries)
    BY <2>4, <2>5, <2>6, <2>7
  <2> HIDE DEF others, g
  <2>9. PICK k \in 1 .. Entries, l \in 1 .. Entries : k # l /\ g[k] = g[l]
    BY <2>3, <2>5, <2>6, <2>8, FS_PigeonHole
  <2>10. f.dir[k].name = f.dir[l].name
    BY <2>9 DEF g
  <2>11. QED
    BY <2>2, <2>9, <2>10 DEF DirOK
<1>2. T \subseteq Nat /\ \A k : k \in T <=> k \in 1 .. Entries /\ f.dir[k] = None
  BY BoundsAssumption
<1> HIDE DEF T
<1>3. Min(T) \in T
  BY <1>1, <1>2, LeastIn
<1>4. Min(T) \in 1 .. Entries /\ f.dir[Min(T)] = None
  BY <1>2, <1>3
<1>5. QED
  BY <1>4 DEF T

\* The files that are there, when the step took sector s.
LEMMA OldFiles ==
    ASSUME NEW up, NEW f, GoodBy(up, f), NEW s, s \notin f.map, NEW up2, NEW g,
           Keeps(up, f.map, f.store, up2, g.map, g.store, s),
           NEW k, Lists(f, k), NEW r, r = f.dir[k].inode_sector
    PROVE  r # s /\ r \in Sectors /\ OtherKept(up2, f, g, r)
<1>1. SoundInode(up, f, AsInode(f.store[r]), r)
  BY DEF GoodBy, InodesOK
<1>2. r # s
  BY <1>1 DEF SoundInode, Sound, Root
<1>3. f.open[s] = None \/ f.open[s] # None
  OBVIOUS
<1>4. OtherKept(up2, f, g, r)
  BY <1>2, <1>3, OtherFile
<1>5. QED
  BY <1>2, <1>4 DEF OtherKept

\* A create that fails.
LEMMA CreateFails ==
    ASSUME NEW up, NEW f, GoodBy(up, f), NEW s, s \notin f.map, NEW up2, NEW g,
           Keeps(up, f.map, f.store, up2, g.map, g.store, s),
           DOMAIN g = Fields, g.dir = f.dir, g.open = f.open, g.table = f.table,
           g.failed = f.failed + 1
    PROVE  Good(g)
<1>1. DirOK(f) /\ TableOK(f) /\ OpenOK(f) /\ f.failed \in Nat
  BY DEF GoodBy
<1>2. \A k : Lists(g, k) <=> Lists(f, k)
  BY DEF Lists
<1>3. DirOK(g)
  BY <1>1, <1>2 DEF DirOK
<1>4. TableOK(g)
  BY <1>1, <1>2 DEF TableOK
<1>5. OpenOK(g)
  BY <1>1 DEF OpenOK
<1>6. InodesOK(up2, g)
  <2>1. ASSUME NEW k, Lists(g, k), NEW r, r = g.dir[k].inode_sector
        PROVE  /\ SoundInode(up2, g, AsInode(g.store[r]), r)
               /\ g.open[r] # None => SoundInode(up2, g, g.open[r].data, r)
    <3>1. OtherKept(up2, f, g, r)
      BY <1>2, <2>1, OldFiles
    <3>2. QED
      BY <3>1 DEF OtherKept
  <2>2. QED
    BY <2>1 DEF InodesOK
<1>7. g.failed \in Nat /\ g.failed # 0
  BY <1>1
<1>8. Tight(g)
  BY <1>7 DEF Tight
<1>9. GoodBy(up2, g)
  BY <1>3, <1>4, <1>5, <1>6, <1>7, <1>8 DEF GoodBy, Keeps
<1>10. QED
  BY <1>9 DEF Good

\* In g slot k lists the new file in sector s.
Added(f, g, k, name, s) ==
    /\ DOMAIN g = Fields /\ g.open = f.open /\ g.table = f.table /\ g.failed = f.failed
    /\ g.dir = [f.dir EXCEPT ![k] = [name |-> name, inode_sector |-> s]]

LEMMA CreateAdds ==
    ASSUME NEW up, NEW f, GoodBy(up, f), NEW s \in Sectors, s \notin f.map, NEW up2, NEW g,
           Keeps(up, f.map, f.store, up2, g.map, g.store, s),
           NEW k \in 1 .. Entries, f.dir[k] = None,
           NEW name \in Names, \A j : Lists(f, j) => f.dir[j].name # name,
           Added(f, g, k, name, s),
           NEW d, d = AsInode(g.store[s]), SoundInode(up2, g, d, s),
           g.map \ f.map \subseteq {s} \cup SectorsOf(g.store, d, Blocks(d))
    PROVE  Good(g)
<1>1. DirOK(f) /\ TableOK(f) /\ OpenOK(f) /\ Tight(f) /\ f.failed \in Nat
  BY DEF GoodBy
<1> DEFINE e == [name |-> name, inode_sector |-> s]
<1>2. e \in SlotEntry /\ e.name = name /\ e.inode_sector = s
  BY DEF SlotEntry
<1>3. e # None
  BY <1>2, NoneAssumption DEF SlotEntry
<1>4. /\ DOMAIN g = Fields /\ g.open = f.open /\ g.table = f.table /\ g.failed = f.failed
      /\ g.dir = [f.dir EXCEPT ![k] = e]
  BY DEF Added
<1> HIDE DEF e
<1>5. /\ g.dir \in [1 .. Entries -> {None} \cup SlotEntry] /\ g.dir[k] = e
      /\ \A j : j # k => (Lists(g, j) <=> Lists(f, j))
      /\ Lists(g, k) /\ ~Lists(f, k)
      /\ \A j : j # k /\ Lists(f, j) => g.dir[j] = f.dir[j]
  BY <1>1, <1>2, <1>3, <1>4 DEF DirOK, Lists
<1>6. ASSUME NEW j, Lists(f, j), NEW r, r = f.dir[j].inode_sector
      PROVE  r # s /\ r \in Sectors /\ OtherKept(up2, f, g, r)
  BY <1>6, OldFiles
<1>7. f.open[s] = None
  <2>1. SUFFICES ASSUME f.open[s] # None PROVE FALSE
    OBVIOUS
  <2>2. PICK i \in DOMAIN f.table : f.table[i].inode = s
    BY <1>1, <2>1 DEF OpenOK
  <2>3. PICK j : Lists(f, j) /\ f.dir[j].inode_sector = s
    BY <1>1, <2>2 DEF TableOK
  <2>4. QED
    BY <1>6, <2>3
<1>8. DirOK(g)
  <2>1. ASSUME NEW j, Lists(g, j), j # k
        PROVE  g.dir[j].name # name /\ g.dir[j].inode_sector # s
    BY <1>5, <1>6, <2>1
  <2>2. g.dir[k].name = name /\ g.dir[k].inode_sector = s
    BY <1>2, <1>5
  <2>3. ASSUME NEW j, NEW l, Lists(g, j), Lists(g, l),
               g.dir[j].name = g.dir[l].name \/ g.dir[j].inode_sector = g.dir[l].inode_sector
        PROVE  j = l
    <3>1. CASE j = k \/ l = k
      BY <3>1, <2>1, <2>2, <2>3
    <3>2. CASE j # k /\ l # k
      <4>1. Lists(f, j) /\ Lists(f, l) /\ g.dir[j] = f.dir[j] /\ g.dir[l] = f.dir[l]
        BY <3>2, <1>5, <2>3
      <4>2. QED
        BY <4>1, <2>3, <1>1 DEF DirOK
    <3>3. QED
      BY <3>1, <3>2
  <2>4. QED
    BY <1>5, <2>3 DEF DirOK
<1>9. TableOK(g)
  BY <1>1, <1>4, <1>5 DEF TableOK
<1>10. OpenOK(g)
  BY <1>1, <1>4 DEF OpenOK
<1>11. InodesOK(up2, g)
  <2>1. ASSUME NEW j, Lists(g, j), NEW r, r = g.dir[j].inode_sector
        PROVE  /\ SoundInode(up2, g, AsInode(g.store[r]), r)
               /\ g.open[r] # None => SoundInode(up2, g, g.open[r].data, r)
    <3>1. CASE j = k
      <4>1. r = s
        BY <3>1, <2>1, <1>2, <1>5
      <4>2. QED
        BY <4>1, <1>4, <1>7
    <3>2. CASE j # k
      <4>1. OtherKept(up2, f, g, r)
        BY <3>2, <1>5, <1>6, <2>1
      <4>2. QED
        BY <4>1, <1>4 DEF OtherKept
    <3>3. QED
      BY <3>1, <3>2
  <2>2. QED
    BY <2>1 DEF InodesOK
<1>12. Tight(g)
  <2>1. SUFFICES ASSUME f.failed = 0 PROVE Tight(g)
    BY <1>4 DEF Tight
  <2>2. ASSUME NEW t \in g.map \ Meta
        PROVE  \E j : Lists(g, j) /\ LET r == g.dir[j].inode_sector
                                         c == AsInode(g.store[r])
                                     IN  t \in {r} \cup SectorsOf(g.store, c, Blocks(c))
    <3>1. CASE t \in f.map
      <4>1. PICK j : Lists(f, j) /\ LET r == f.dir[j].inode_sector
                                        c == AsInode(f.store[r])
                                    IN  t \in {r} \cup SectorsOf(f.store, c, Blocks(c))
        BY <3>1, <1>1, <2>1, <2>2 DEF Tight
      <4> DEFINE r == f.dir[j].inode_sector
      <4>2. /\ g.store[r] = f.store[r]
            /\ LET c == AsInode(f.store[r])
               IN  SectorsOf(f.store, c, Blocks(c)) \subseteq SectorsOf(g.store, c, Blocks(c))
        BY <1>6, <4>1 DEF OtherKept
      <4>3. Lists(g, j) /\ g.dir[j] = f.dir[j]
        BY <1>5, <4>1
      <4>4. QED
        BY <4>1, <4>2, <4>3
    <3>2. CASE t \notin f.map
      <4>1. t \in {s} \cup SectorsOf(g.store, d, Blocks(d)) /\ g.dir[k].inode_sector = s
        BY <3>2, <2>2, <1>2, <1>5
      <4>2. QED
        BY <4>1, <1>5
    <3>3. QED
      BY <3>1, <3>2
  <2>3. \A t \in Sectors : g.open[t] # None => g.open[t].data = AsInode(g.store[t])
    <3>1. ASSUME NEW t \in Sectors, f.open[t] # None PROVE f.open[t].data = AsInode(g.store[t])
      <4>1. PICK i \in DOMAIN f.table : f.table[i].inode = t
        BY <1>1, <3>1 DEF OpenOK
      <4>2. PICK j : Lists(f, j) /\ f.dir[j].inode_sector = t
        BY <1>1, <4>1 DEF TableOK
      <4>3. g.store[t] = f.store[t]
        BY <1>6, <4>2 DEF OtherKept
      <4>4. QED
        BY <4>3, <3>1, <2>1, <1>1 DEF Tight
    <3>2. QED
      BY <3>1, <1>4
  <2>4. QED
    BY <2>2, <2>3 DEF Tight
<1>13. GoodBy(up2, g)
  BY <1>1, <1>4, <1>8, <1>9, <1>10, <1>11, <1>12 DEF GoodBy, Keeps
<1>14. QED
  BY <1>13 DEF Good

\* What inode_reserve made for a new file in sector s.
Made(up, f, s, size, up2, a) ==
    /\ AllocOK(a) /\ Keeps(up, f.map, f.store, up2, a.map, a.store, s)
    /\ Root(up2, a.map, s) /\ Heap(up2, a.map, a.store) /\ InodeLinks(up2, a.map, a.d, s)
    /\ a.d.length = size
    /\ LET n == bytes_to_sectors(size)
       IN  a.ok => n \in Nat /\ Whole(a.store, a.d, n)
                   /\ \A t \in a.map \ f.map : t = s \/ Has(a.store, a.d, n, t)

LEMMA EmptyInode ==
    ASSUME NEW up, NEW map, NEW s, NEW size
    PROVE  InodeLinks(up, map, inode_disk(size), s) /\ inode_disk(size).length = size
<1> DEFINE d == inode_disk(size)
<1>1. /\ DOMAIN d = InodeFields /\ d = [x \in InodeFields |-> d[x]]
      /\ d.direct = [i \in DirectSlots |-> 0] /\ d.indirect = 0 /\ d.doubly = 0 /\ d.length = size
  BY DEF inode_disk, InodeFields, DirectSlots
<1> HIDE DEF d
<1>2. InodeLinks(up, map, d, s)
  BY <1>1, Geometry DEF InodeLinks, IsInode, Link
<1>3. QED
  BY <1>1, <1>2 DEF d

LEMMA Makes ==
    ASSUME NEW up, NEW f, GoodBy(up, f), NEW s \in Bits \ f.map, NEW size \in Nat
    PROVE  \E up2 : Made(up, f, s, size, up2,
                         inode_reserve(f.map \cup {s}, f.store, inode_disk(size), size))
<1> DEFINE map == f.map
           store == f.store
           map1 == map \cup {s}
           d == inode_disk(size)
           n == bytes_to_sectors(size)
           a == inode_reserve(map1, store, d, size)
<1>1. Heap(up, map, store) /\ s \in Bits \ map /\ s \in Sectors
  BY Geometry DEF GoodBy
<1>2. PICK up1 : Heap(up1, map1, store) /\ Extends(up, map, up1, map1) /\ Root(up1, map1, s)
  <2> HIDE DEF map, store
  <2>1. QED
    BY <1>1, NewRoot
<1>3. InodeLinks(up1, map1, d, s) /\ d.length = size
  BY EmptyInode
<1> HIDE DEF map, map1, store, d
<1>4. Keeps(up, map, store, up1, map1, store, s)
  <2>1. Kept(up, map, store, store)
    BY DEF Kept
  <2>2. QED
    BY <1>1, <1>2, <2>1, KeepsAllocated
<1>5. PICK up2 : Reserved(up1, map1, store, d, s, n, up2, a)
  BY <1>1, <1>2, <1>3, Reserves
<1> HIDE DEF a, n
<1>6. /\ AllocOK(a) /\ Heap(up2, a.map, a.store) /\ Extends(up1, map1, up2, a.map)
      /\ Kept(up1, map1, store, a.store) /\ InodeLinks(up2, a.map, a.d, s) /\ InodeKept(d, a.d)
      /\ a.ok => n \in Nat /\ Whole(a.store, a.d, n) /\ \A t \in a.map \ map1 : Has(a.store, a.d, n, t)
  BY <1>5 DEF Reserved
<1>7. Keeps(up1, map1, store, up2, a.map, a.store, s)
  <2> DEFINE map2 == a.map
             store2 == a.store
  <2>1. Heap(up2, map2, store2) /\ Extends(up1, map1, up2, map2) /\ Kept(up1, map1, store, store2)
    BY <1>6
  <2> HIDE DEF map2, store2
  <2>2. Keeps(up1, map1, store, up2, map2, store2, s)
    BY <1>2, <2>1, KeepsAllocated
  <2>3. QED
    BY <2>2 DEF map2, store2
<1>8. Keeps(up, map, store, up2, a.map, a.store, s)
  BY <1>4, <1>7, KeepsOn
<1>9. Root(up2, a.map, s)
  BY <1>2, <1>7 DEF Keeps
<1>10. a.d.length = size
  BY <1>3, <1>6 DEF InodeKept
<1>11. a.ok => n \in Nat /\ Whole(a.store, a.d, n) /\ \A t \in a.map \ map : t = s \/ Has(a.store, a.d, n, t)
  BY <1>6 DEF map1
<1>12. Made(up, f, s, size, up2, a)
  BY <1>6, <1>8, <1>9, <1>10, <1>11 DEF Made, map, store, n
<1>13. QED
  BY <1>12 DEF a, map1, map, store, d

\* The inode of the new file on the disk.
LEMMA InodeMade ==
    ASSUME NEW up, NEW f, NEW s, NEW size \in Nat, ~TooLong(size), NEW up2, NEW a,
           Made(up, f, s, size, up2, a), a.ok, s \in Sectors
    PROVE  LET d == a.d
               store2 == [a.store EXCEPT ![s] = Inode(d)]
               n == bytes_to_sectors(size)
           IN  /\ Keeps(up, f.map, f.store, up2, a.map, store2, s)
               /\ AsInode(store2[s]) = d /\ d \in DiskInode /\ Blocks(d) = n
               /\ Sound(up2, a.map, store2, d, s, n)
               /\ a.map \ f.map \subseteq {s} \cup SectorsOf(store2, d, n)
<1> DEFINE d == a.d
           map2 == a.map
           store1 == a.store
           n == bytes_to_sectors(size)
           store2 == [store1 EXCEPT ![s] = Inode(d)]
<1>1. /\ Keeps(up, f.map, f.store, up2, map2, store1, s) /\ Root(up2, map2, s)
      /\ Heap(up2, map2, store1) /\ InodeLinks(up2, map2, d, s) /\ d.length = size
      /\ n \in Nat /\ Whole(store1, d, n)
      /\ \A t \in map2 \ f.map : t = s \/ Has(store1, d, n, t)
  BY DEF Made
<1>2. n <= BlockLimit /\ size \in 0 .. BlockLimit * BLOCK_SECTOR_SIZE
  BY LengthInBlocks
<1> HIDE DEF d, map2, store1, n
<1>3. d \in DiskInode
  BY <1>1, <1>2, AnInode
<1>4. Keeps(up2, map2, store1, up2, map2, store2, s)
  BY <1>1, <1>3, KeepsInode
<1>5. AsInode(store2[s]) = d
  <2>1. s \in Sectors /\ store1 = [t \in Sectors |-> store1[t]]
    BY <1>1 DEF Heap, StoreOK
  <2>2. store2[s] = Inode(d)
    BY <2>1
  <2>3. QED
    BY <2>2 DEF AsInode, Inode
<1> HIDE DEF store2
<1>6. Sound(up2, map2, store1, d, s, n)
  BY <1>1, <1>2 DEF Sound
<1>7. Sound(up2, map2, store2, d, s, n) /\ SectorsOf(store1, d, n) \subseteq SectorsOf(store2, d, n)
  BY <1>4, <1>6 DEF Keeps
<1>8. Keeps(up, f.map, f.store, up2, map2, store2, s)
  BY <1>1, <1>4, KeepsOn
<1>9. map2 \ f.map \subseteq {s} \cup SectorsOf(store1, d, n)
  BY <1>1, <1>2, HasSector
<1>10. Blocks(d) = n
  BY <1>1 DEF Blocks, n
<1>11. QED
  BY <1>3, <1>5, <1>7, <1>8, <1>9, <1>10 DEF d, map2, store1, n, store2

\* A failure that is only counted.
LEMMA CountsFailure ==
    ASSUME NEW up, NEW f, GoodBy(up, f), NEW g, DOMAIN g = Fields, g.map = f.map, g.store = f.store,
           g.dir = f.dir, g.open = f.open, g.table = f.table, g.failed = f.failed + 1
    PROVE  Good(g)
<1>1. \A k : Lists(g, k) <=> Lists(f, k)
  BY DEF Lists
<1>2. \A d, s : SoundInode(up, g, d, s) <=> SoundInode(up, f, d, s)
  BY DEF SoundInode
<1>3. DirOK(g)
  BY <1>1 DEF GoodBy, DirOK
<1>4. TableOK(g)
  BY <1>1 DEF GoodBy, TableOK
<1>5. OpenOK(g)
  BY DEF GoodBy, OpenOK
<1>6. InodesOK(up, g)
  BY <1>1, <1>2 DEF GoodBy, InodesOK
<1>7. g.failed \in Nat /\ g.failed # 0
  BY DEF GoodBy
<1>8. Tight(g)
  BY <1>7 DEF Tight
<1>9. Heap(up, g.map, g.store)
  BY DEF GoodBy
<1>10. GoodBy(up, g)
  BY <1>3, <1>4, <1>5, <1>6, <1>7, <1>8, <1>9 DEF GoodBy
<1>11. QED
  BY <1>10 DEF Good

\* The new file gets its name, or it is given up.
LEMMA NamesFile ==
    ASSUME NEW up, NEW f, GoodBy(up, f), NEW s \in Bits \ f.map, NEW size \in Nat,
           NEW name \in Names, NEW up2, NEW a, Made(up, f, s, size, up2, a)
    PROVE  Good(Named(f, name, s, a))
<1> DEFINE r == Named(f, name, s, a)
           store2 == [a.store EXCEPT ![s] = Inode(a.d)]
           d == a.d
           n == bytes_to_sectors(size)
<1>1. DOMAIN f = Fields /\ DirOK(f) /\ s \in Sectors /\ s \notin f.map /\ s \notin Meta
  BY Geometry DEF GoodBy, Heap, MapOK
<1>2. /\ a.d.length = size /\ a.ok \in BOOLEAN /\ up2[s][1] = s
      /\ Keeps(up, f.map, f.store, up2, a.map, a.store, s)
  BY DEF Made, AllocOK, Root
<1>3. CASE a.ok /\ TooLong(size)
  <2>1. r = [f EXCEPT !.panic = TRUE]
    BY <1>2, <1>3 DEF Named
  <2> HIDE DEF r
  <2>2. Good(r)
    BY <2>1, OnlyPanic DEF Good
  <2>3. QED
    BY <2>2 DEF r
<1>4. CASE ~a.ok
  <2>1. r = [f EXCEPT !.map = a.map \ {s}, !.store = a.store, !.failed = @ + 1]
    BY <1>4 DEF Named
  <2>2. /\ DOMAIN r = Fields /\ r.map = a.map \ {s} /\ r.store = a.store /\ r.dir = f.dir
        /\ r.open = f.open /\ r.table = f.table /\ r.failed = f.failed + 1
    BY <1>1, <2>1 DEF Fields
  <2> HIDE DEF r
  <2>3. Keeps(up, f.map, f.store, up2, a.map \ {s}, a.store, s)
    BY <1>1, <1>2, KeepsWithout
  <2>4. Keeps(up, f.map, f.store, up2, r.map, r.store, s)
    BY <2>2, <2>3
  <2>5. Good(r)
    BY <1>1, <2>2, <2>4, CreateFails
  <2>6. QED
    BY <2>5 DEF r
<1>5. CASE a.ok /\ ~TooLong(size)
  <2>1. /\ Keeps(up, f.map, f.store, up2, a.map, store2, s)
        /\ AsInode(store2[s]) = d /\ d \in DiskInode /\ Blocks(d) = n
        /\ Sound(up2, a.map, store2, d, s, n)
        /\ a.map \ f.map \subseteq {s} \cup SectorsOf(store2, d, n)
    BY <1>1, <1>5, InodeMade
  <2>2. CASE lookup(f, name) # {}
    <3>1. r = [f EXCEPT !.map = a.map \ {s}, !.store = store2, !.failed = @ + 1]
      BY <1>2, <1>5, <2>2 DEF Named
    <3>2. /\ DOMAIN r = Fields /\ r.map = a.map \ {s} /\ r.store = store2 /\ r.dir = f.dir
          /\ r.open = f.open /\ r.table = f.table /\ r.failed = f.failed + 1
      BY <1>1, <3>1 DEF Fields
    <3> HIDE DEF r, store2
    <3>3. Keeps(up, f.map, f.store, up2, a.map \ {s}, store2, s)
      BY <1>1, <1>2, <2>1, KeepsWithout
    <3>4. Keeps(up, f.map, f.store, up2, r.map, r.store, s)
      BY <3>2, <3>3
    <3>5. Good(r)
      BY <1>1, <3>2, <3>4, CreateFails
    <3>6. QED
      BY <3>5 DEF r
  <2>3. CASE lookup(f, name) = {}
    <3> DEFINE k == Min({j \in 1 .. Entries : f.dir[j] = None})
               h == [f EXCEPT !.map = a.map, !.store = store2]
    <3>1. r = dir_add(h, name, s)
      BY <1>2, <1>5, <2>3 DEF Named
    <3>2. /\ DOMAIN h = Fields /\ h.map = a.map /\ h.store = store2 /\ h.dir = f.dir
          /\ h.open = f.open /\ h.table = f.table /\ h.failed = f.failed
      BY <1>1 DEF Fields
    <3> HIDE DEF h, r, store2
    <3>3. lookup(h, name) = {} /\ k = Min({j \in 1 .. Entries : h.dir[j] = None})
      BY <2>3, <3>2 DEF lookup
    <3>4. \A j : Lists(f, j) => f.dir[j].name # name
      BY <1>1, <2>3, LookedUp
    <3>5. k \in 1 .. Entries /\ f.dir[k] = None
      BY <1>1, <3>4, FreeSlot
    <3> HIDE DEF k
    <3>6. r = [h EXCEPT !.dir[k] = [name |-> name, inode_sector |-> s]]
      BY <3>1, <3>3 DEF dir_add
    <3>7. Added(f, r, k, name, s) /\ r.map = a.map /\ r.store = store2
      <4>1. /\ DOMAIN r = Fields /\ r.open = f.open /\ r.table = f.table /\ r.failed = f.failed
            /\ r.dir = [f.dir EXCEPT ![k] = [name |-> name, inode_sector |-> s]]
            /\ r.map = a.map /\ r.store = store2
        BY <3>2, <3>6 DEF Fields
      <4>2. QED
        BY <4>1 DEF Added
    <3> HIDE DEF d, n
    <3>8. /\ Keeps(up, f.map, f.store, up2, r.map, r.store, s)
          /\ d = AsInode(r.store[s]) /\ d \in DiskInode
          /\ Sound(up2, r.map, r.store, d, s, Blocks(d))
          /\ r.map \ f.map \subseteq {s} \cup SectorsOf(r.store, d, Blocks(d))
      BY <2>1, <3>7
    <3>9. SoundInode(up2, r, d, s)
      BY <3>8 DEF SoundInode
    <3>10. Good(r)
      BY <1>1, <3>4, <3>5, <3>7, <3>8, <3>9, CreateAdds
    <3>11. QED
      BY <3>10 DEF r
  <2>4. QED
    BY <2>2, <2>3
<1>6. QED
  BY <1>2, <1>3, <1>4, <1>5

LEMMA Creates ==
    ASSUME NEW f, Good(f), NEW name \in Names, NEW size \in Nat
    PROVE  Good(filesys_create(f, name, size))
<1> DEFINE s == Min(Bits \ f.map)
           a == inode_reserve(f.map \cup {s}, f.store, inode_disk(size), size)
           r == filesys_create(f, name, size)
<1>1. PICK up : GoodBy(up, f)
  BY DEF Good
<1>2. DOMAIN f = Fields /\ DirOK(f)
  BY <1>1 DEF GoodBy
<1>3. CASE Bits \subseteq f.map
  <2>1. r = [f EXCEPT !.failed = @ + 1]
    BY <1>3 DEF filesys_create
  <2>2. /\ DOMAIN r = Fields /\ r.map = f.map /\ r.store = f.store /\ r.dir = f.dir /\ r.open = f.open
        /\ r.table = f.table /\ r.failed = f.failed + 1
    BY <1>2, <2>1 DEF Fields
  <2> HIDE DEF r
  <2>3. Good(r)
    BY <1>1, <2>2, CountsFailure
  <2>4. QED
    BY <2>3 DEF r
<1>4. CASE ~(Bits \subseteq f.map)
  <2>1. s \in Bits \ f.map
    <3> DEFINE T == Bits \ f.map
    <3>1. T # {} /\ T \subseteq Nat
      BY <1>4, Geometry
    <3> HIDE DEF T
    <3>2. Min(T) \in T
      BY <3>1, LeastIn
    <3>3. QED
      BY <3>2 DEF T
  <2>2. r = Named(f, name, s, a)
    BY <1>4 DEF filesys_create
  <2> HIDE DEF s, r
  <2>3. PICK up2 : Made(up, f, s, size, up2, a)
    BY <1>1, <2>1, Makes
  <2> HIDE DEF a
  <2>4. Good(Named(f, name, s, a))
    BY <1>1, <2>1, <2>3, NamesFile
  <2>5. QED
    BY <2>2, <2>4 DEF r
<1>5. QED
  BY <1>3, <1>4

----------------------------------------------------------------------------
(* Loops over the files                                                    *)
\* The values of the loop in ForEach.
LEMMA LoopTurns ==
    ASSUME NEW loop, NEW h, NEW f0
    PROVE  \E f : /\ f[0] = h
                  /\ \A i \in 1 .. Entries : f[i] = Turn(loop, f[i - 1], f0, i)
                  /\ ForEach(loop, h, f0) = f[Entries]
<1> DEFINE l == Entries
           Rest(f) == [i \in 0 .. l |-> IF i = 0 THEN h ELSE Turn(loop, f[i - 1], f0, i)]
           after == CHOOSE f : f = Rest(f)
           S == {n \in 0 .. l : \E f : /\ DOMAIN f = 0 .. n /\ f[0] = h
                                       /\ \A i \in 1 .. n : f[i] = Turn(loop, f[i - 1], f0, i)}
<1>1. l \in Nat
  BY BoundsAssumption
<1> HIDE DEF l
<1>2. 0 \in S
  <2> DEFINE f == [i \in 0 .. 0 |-> h]
  <2>1. DOMAIN f = 0 .. 0 /\ f[0] = h /\ \A i \in 1 .. 0 : FALSE
    OBVIOUS
  <2> HIDE DEF f
  <2>2. QED
    BY <1>1, <2>1
<1>3. ASSUME NEW n \in 1 .. l, n - 1 \in S PROVE n \in S
  <2>1. PICK f : /\ DOMAIN f = 0 .. n - 1 /\ f[0] = h
                 /\ \A i \in 1 .. n - 1 : f[i] = Turn(loop, f[i - 1], f0, i)
    BY <1>3
  <2> DEFINE g == [i \in 0 .. n |-> IF i = n THEN Turn(loop, f[n - 1], f0, n) ELSE f[i]]
  <2>2. DOMAIN g = 0 .. n /\ g[0] = h
    BY <2>1
  <2>3. ASSUME NEW i \in 1 .. n PROVE g[i] = Turn(loop, g[i - 1], f0, i)
    <3>1. i - 1 \in 0 .. n /\ i - 1 # n /\ i \in 0 .. n
      OBVIOUS
    <3>2. g[i - 1] = f[i - 1]
      BY <3>1
    <3>3. CASE i = n
      BY <3>1, <3>2, <3>3
    <3>4. CASE i # n
      <4>1. i \in 1 .. n - 1 /\ g[i] = f[i]
        BY <3>1, <3>4
      <4>2. QED
        BY <4>1, <3>2, <2>1
    <3>5. QED
      BY <3>3, <3>4
  <2> HIDE DEF g
  <2>4. n \in 0 .. l
    BY <1>1
  <2>5. QED
    BY <2>2, <2>3, <2>4
<1>4. l \in S
  <2> HIDE DEF S
  <2>1. 0 .. l \subseteq S
    BY <1>1, <1>2, <1>3, UpToN
  <2>2. QED
    BY <1>1, <2>1
<1>5. PICK f : /\ DOMAIN f = 0 .. l /\ f[0] = h
               /\ \A i \in 1 .. l : f[i] = Turn(loop, f[i - 1], f0, i)
  BY <1>4
<1>6. \E g : g = Rest(g)
  <2> DEFINE g == [i \in 0 .. l |-> f[i]]
  <2>1. \A i \in 0 .. l : i # 0 => i \in 1 .. l /\ i - 1 \in 0 .. l
    BY <1>1
  <2>2. g = Rest(g)
    BY <1>5, <2>1
  <2> HIDE DEF g
  <2>3. QED
    BY <2>2
<1>7. after = Rest(after)
  BY <1>6
<1> HIDE DEF after
<1>8. after[0] = h /\ \A i \in 1 .. l : after[i] = Turn(loop, after[i - 1], f0, i)
  BY <1>1, <1>7
<1>9. ForEach(loop, h, f0) = after[l]
  BY DEF ForEach, after, l
<1>10. QED
  BY <1>8, <1>9 DEF l


\* A sequence given by its elements.
LEMMA SequenceOf ==
    ASSUME NEW n \in Nat, NEW c, c = [k \in 1 .. n |-> c[k]]
    PROVE  c \in Seq({c[k] : k \in 1 .. n}) /\ Len(c) = n
<1> DEFINE S == {c[k] : k \in 1 .. n}
<1>1. c \in [1 .. n -> S]
  OBVIOUS
<1> HIDE DEF S
<1>2. c \in Seq(S) /\ Len(c) = n
  BY <1>1
<1>3. QED
  BY <1>2 DEF S

\* fsutil_size opens every file.
LEMMA OpensAll ==
    ASSUME NEW f, Good(f)
    PROVE  SameDir(f, OpenAll(f)) /\ \A k : Lists(f, k) => IsOpen(OpenAll(f), f.dir[k].name)
<1>1. PICK g : /\ g[0] = f
               /\ \A i \in 1 .. Entries : g[i] = Turn("size", g[i - 1], f, i)
               /\ ForEach("size", f, f) = g[Entries]
  BY LoopTurns
<1> DEFINE S == {i \in 0 .. Entries :
                   SameDir(f, g[i]) /\ \A k \in 1 .. i : Lists(f, k) => IsOpen(g[i], f.dir[k].name)}
<1>2. Entries \in Nat
  BY BoundsAssumption
<1>3. 0 \in S
  BY <1>1, <1>2 DEF SameDir
<1>4. ASSUME NEW i \in 1 .. Entries, i - 1 \in S PROVE i \in S
  <2> DEFINE h == g[i - 1]
             e == f.dir[i]
  <2>1. SameDir(f, h) /\ \A k \in 1 .. i - 1 : Lists(f, k) => IsOpen(h, f.dir[k].name)
    BY <1>4
  <2>2. g[i] = Turn("size", h, f, i) /\ i \in 0 .. Entries
    BY <1>1, <1>2
  <2> HIDE DEF h
  <2>3. SameDir(h, g[i]) /\ (Lists(f, i) => IsOpen(g[i], e.name))
    <3>1. CASE e = None
      <4>1. g[i] = h /\ ~Lists(f, i)
        BY <2>2, <3>1 DEF Turn, Lists
      <4>2. QED
        BY <4>1, <2>1 DEF SameDir
    <3>2. CASE e # None
      <4>1. g[i] = fsutil_size(h, e.name)
        BY <2>2, <3>2 DEF Turn, Body
      <4>2. lookup(h, e.name) # {}
        <5>1. i \in lookup(h, e.name)
          BY <2>1, <3>2 DEF lookup, SameDir
        <5>2. QED
          BY <5>1
      <4>3. Good(h)
        BY <2>1 DEF SameDir
      <4> HIDE DEF e
      <4>4. SameDir(h, fsutil_size(h, e.name)) /\ IsOpen(fsutil_size(h, e.name), e.name)
        BY <4>2, <4>3, UtilSizes
      <4>5. QED
        BY <4>1, <4>4
    <3>3. QED
      BY <3>1, <3>2
  <2>4. SameDir(f, g[i])
    BY <2>1, <2>3, SameDirOn
  <2>5. ASSUME NEW k \in 1 .. i, Lists(f, k) PROVE IsOpen(g[i], f.dir[k].name)
    <3>1. CASE k = i
      BY <3>1, <2>3, <2>5
    <3>2. CASE k # i
      <4>1. k \in 1 .. i - 1
        BY <1>2, <3>2
      <4>2. IsOpen(h, f.dir[k].name)
        BY <4>1, <2>1, <2>5
      <4>3. QED
        BY <4>2, <2>3 DEF SameDir
    <3>3. QED
      BY <3>1, <3>2
  <2>6. QED
    BY <2>2, <2>4, <2>5
<1>5. Entries \in S
  <2> HIDE DEF S
  <2>1. 0 .. Entries \subseteq S
    BY <1>2, <1>3, <1>4, UpToN
  <2>2. QED
    BY <1>2, <2>1
<1>6. SameDir(f, g[Entries]) /\ \A k : Lists(f, k) => IsOpen(g[Entries], f.dir[k].name)
  BY <1>5 DEF Lists
<1>7. QED
  BY <1>1, <1>6 DEF OpenAll

\* The contents of an inode are a sequence of bytes.
LEMMA ContentsSequence ==
    ASSUME NEW store, NEW d \in DiskInode
    PROVE  LET c == Contents(store, d) IN c \in Seq({c[k] : k \in 1 .. d.length}) /\ Len(c) = d.length
                                          /\ Len(c) \in Nat
<1> DEFINE c == Contents(store, d)
           n == d.length
<1>1. n \in Nat
  BY Capacities, Geometry DEF DiskInode
<1>2. c = [k \in 1 .. n |-> c[k]]
  BY DEF Contents
<1> HIDE DEF c, n
<1>3. c \in Seq({c[k] : k \in 1 .. n}) /\ Len(c) = n
  BY <1>1, <1>2, SequenceOf
<1>4. QED
  BY <1>1, <1>3 DEF c, n

LEMMA Rewrites ==
    ASSUME NEW f, Good(f), NEW name \in Names, NEW S, NEW c \in Seq(S)
    PROVE  Good(Rewritten(f, name, c))
<1> DEFINE g == fsutil_create(f, name, Len(c))
           h == IF c = <<>> THEN g ELSE fsutil_write(g, name, c)
<1>1. Len(c) \in Nat
  OBVIOUS
<1>2. Good(g)
  BY <1>1, Creates DEF fsutil_create
<1>3. Rewritten(f, name, c) = fsutil_seek(h, name, 0)
  BY DEF Rewritten
<1> HIDE DEF g
<1>4. Good(h)
  <2>1. CASE c = <<>>
    BY <2>1, <1>2
  <2>2. CASE c # <<>>
    <3>1. SameDir(g, fsutil_write(g, name, c))
      BY <2>2, <1>2, UtilWrites
    <3>2. QED
      BY <2>2, <3>1 DEF SameDir
  <2>3. QED
    BY <2>1, <2>2
<1> HIDE DEF h
<1>5. Good(fsutil_seek(h, name, 0))
  BY <1>4, UtilSeeks DEF SameDir
<1>6. QED
  BY <1>3, <1>5

\* The turns of defragment: loop is "rm" or "create".
LEMMA LoopGood ==
    ASSUME NEW loop, NEW h, Good(h), NEW f,
           \A g, k : Good(g) /\ Lists(f, k) => Good(Body(loop, g, f, f.dir[k]))
    PROVE  Good(ForEach(loop, h, f))
<1>1. PICK g : /\ g[0] = h
               /\ \A i \in 1 .. Entries : g[i] = Turn(loop, g[i - 1], f, i)
               /\ ForEach(loop, h, f) = g[Entries]
  BY LoopTurns
<1> DEFINE S == {i \in 0 .. Entries : Good(g[i])}
<1>2. Entries \in Nat
  BY BoundsAssumption
<1>3. 0 \in S
  BY <1>1, <1>2
<1>4. ASSUME NEW i \in 1 .. Entries, i - 1 \in S PROVE i \in S
  <2> DEFINE x == g[i - 1]
  <2>1. Good(x) /\ g[i] = Turn(loop, x, f, i) /\ i \in 0 .. Entries
    BY <1>1, <1>2, <1>4
  <2> HIDE DEF x
  <2>2. CASE f.dir[i] = None
    BY <2>1, <2>2 DEF Turn
  <2>3. CASE f.dir[i] # None
    <3>1. g[i] = Body(loop, x, f, f.dir[i]) /\ Lists(f, i)
      BY <2>1, <2>3 DEF Turn, Lists
    <3>2. Good(Body(loop, x, f, f.dir[i]))
      BY <2>1, <3>1
    <3>3. QED
      BY <2>1, <3>1, <3>2
  <2>4. QED
    BY <2>2, <2>3
<1>5. Entries \in S
  <2> HIDE DEF S
  <2>1. 0 .. Entries \subseteq S
    BY <1>2, <1>3, <1>4, UpToN
  <2>2. QED
    BY <1>2, <2>1
<1>6. QED
  BY <1>1, <1>5

LEMMA Rebuilds ==
    ASSUME NEW f, Good(f), \A k : Lists(f, k) => IsOpen(f, f.dir[k].name)
    PROVE  Good(Rebuilt(f))
<1> DEFINE g == ForEach("rm", f, f)
<1>1. Good(g)
  <2>1. ASSUME NEW h, NEW k, Good(h) PROVE Good(Body("rm", h, f, f.dir[k]))
    <3>1. Body("rm", h, f, f.dir[k]) = fsutil_rm(h, f.dir[k].name)
      BY DEF Body
    <3>2. Good(fsutil_rm(h, f.dir[k].name))
      BY <2>1, UtilRemoves
    <3>3. QED
      BY <3>1, <3>2
  <2>2. QED
    BY <2>1, LoopGood
<1> HIDE DEF g
<1>2. ASSUME NEW h, NEW k, Good(h), Lists(f, k) PROVE Good(Body("create", h, f, f.dir[k]))
  <2> DEFINE e == f.dir[k]
             s == e.inode_sector
             d == f.open[s].data
             c == Contents(f.store, d)
  <2>1. PICK up : GoodBy(up, f)
    BY DEF Good
  <2>2. e.name \in Names
    BY <1>2, <2>1 DEF GoodBy, DirOK, Lists, SlotEntry
  <2>3. f.open[s] # None
    <3>1. k = Min(lookup(f, e.name))
      BY <1>2, <2>1, LookedUp DEF GoodBy
    <3>2. SectorOf(f, e.name) = s
      BY <3>1 DEF SectorOf
    <3>3. IsOpen(f, e.name)
      BY <1>2
    <3>4. f.open[SectorOf(f, e.name)] # None
      BY <2>1, <3>3, HandleOf DEF GoodBy
    <3>5. QED
      BY <3>2, <3>4
  <2>4. d \in DiskInode
    BY <1>2, <2>1, <2>3, OpenFileInode
  <2>5. Body("create", h, f, e) = Rewritten(h, e.name, c)
    BY DEF Body
  <2> HIDE DEF d
  <2>6. c \in Seq({c[i] : i \in 1 .. d.length})
    BY <2>4, ContentsSequence
  <2> HIDE DEF c, e
  <2>7. Good(Rewritten(h, e.name, c))
    BY <1>2, <2>2, <2>6, Rewrites
  <2>8. QED
    BY <2>5, <2>7 DEF e
<1>3. Good(ForEach("create", g, f))
  BY <1>1, <1>2, LoopGood
<1>4. QED
  BY <1>3 DEF Rebuilt, g

LEMMA Defragments ==
    ASSUME NEW f, Good(f) PROVE Good(defragment(f))
<1> DEFINE g == OpenAll(f)
<1>1. Good(g) /\ g.dir = f.dir /\ \A k : Lists(f, k) => IsOpen(g, f.dir[k].name)
  BY OpensAll DEF SameDir
<1> HIDE DEF g
<1>2. \A k : Lists(g, k) => IsOpen(g, g.dir[k].name)
  BY <1>1 DEF Lists
<1>3. Good(Rebuilt(g))
  BY <1>1, <1>2, Rebuilds
<1>4. defragment(f) = IF g.panic THEN g ELSE Rebuilt(g)
  BY DEF defragment, g
<1>5. QED
  BY <1>1, <1>3, <1>4

----------------------------------------------------------------------------
(* copy_in                                                                 *)
LEMMA CopyIsInteger ==
    ASSUME NEW f, NEW size \in Nat
    PROVE  copyable_size_of_file(f, size) \in Int
<1> DEFINE c == Capacity(num_free_sectors(f))
<1>1. c \in Int
  BY FreeSectors, CapacityFits
<1>2. copyable_size_of_file(f, size) = IF bytes_to_sectors(size) <= c THEN size
                                       ELSE BLOCK_SECTOR_SIZE * c - 1
  BY CopyableCapacity
<1> HIDE DEF c
<1>3. BLOCK_SECTOR_SIZE * c - 1 \in Int
  BY <1>1, Geometry
<1>4. QED
  BY <1>2, <1>3

LEMMA TextSequence ==
    ASSUME NEW name, NEW i \in Nat, NEW j \in Nat, i + j > 0
    PROVE  /\ Text(name, i) \o Padding(j) \in Seq({name, Nul}) /\ Text(name, i) \o Padding(j) # <<>>
<1> DEFINE x == Text(name, i)
           y == Padding(j)
<1>1. x \in Seq({name, Nul}) /\ Len(x) = i
  BY DEF Text
<1>2. y \in Seq({name, Nul}) /\ Len(y) = j
  BY DEF Padding
<1> HIDE DEF x, y
<1>3. x \o y \in Seq({name, Nul}) /\ Len(x \o y) > 0
  BY <1>1, <1>2
<1>4. x \o y # <<>>
  BY <1>3
<1>5. QED
  BY <1>3, <1>4 DEF x, y

LEMMA CopiesFile ==
    ASSUME NEW f, Good(f), NEW name \in Names, NEW size \in Nat, NEW copy \in Int
    PROVE  Good(Copied(f, name, size, copy))
<1> DEFINE read == Lesser(copy, size)
           text == Text(name, read) \o Padding(copy + 1 - read)
           g == fsutil_create(f, name, copy)
           h == fsutil_write(g, name, text)
<1>1. CASE copy <= 0
  BY <1>1 DEF Copied
<1>2. CASE ~(copy <= 0)
  <2>1. read \in Nat /\ copy + 1 - read \in Nat /\ read + (copy + 1 - read) > 0 /\ copy \in Nat
    BY <1>2 DEF Lesser
  <2>2. Copied(f, name, size, copy) = IF IsOpen(h, name) THEN file_seek(h, name, 0)
                                      ELSE [h EXCEPT !.panic = TRUE]
    BY <1>2 DEF Copied
  <2>3. Good(g)
    BY <2>1, Creates DEF fsutil_create
  <2> HIDE DEF g, read
  <2>4. text \in Seq({name, Nul}) /\ text # <<>>
    BY <2>1, TextSequence
  <2> HIDE DEF text
  <2>5. Good(h)
    BY <2>3, <2>4, UtilWrites DEF SameDir
  <2> HIDE DEF h
  <2>6. IsOpen(h, name) => Good(file_seek(h, name, 0))
    BY <2>5, Seeks DEF SameDir
  <2>7. Good([h EXCEPT !.panic = TRUE])
    BY <2>5, PanicSame DEF SameDir
  <2>8. QED
    BY <2>2, <2>6, <2>7
<1>3. QED
  BY <1>1, <1>2

LEMMA CopiesHostFile ==
    ASSUME NEW f, Good(f), NEW name \in Names, NEW size \in Nat
    PROVE  Good(copy_in(f, name, size))
<1> DEFINE whole == IF size % BLOCK_SECTOR_SIZE = 0 THEN size + 1 ELSE size
           copy == copyable_size_of_file(f, whole)
<1>1. whole \in Nat
  OBVIOUS
<1> HIDE DEF whole
<1>2. copy \in Int
  BY <1>1, CopyIsInteger
<1>3. copy_in(f, name, size) = Copied(f, name, size, copy)
  BY DEF copy_in, whole
<1> HIDE DEF copy
<1>4. QED
  BY <1>2, <1>3, CopiesFile

----------------------------------------------------------------------------
(* No command but recover 0 changes the history variable of that command,  *)
(* in whatever state: this part of the invariant does not need the rest.   *)
Steady(f, g) == DOMAIN g = DOMAIN f /\ g.recovered = f.recovered

LEMMA SteadyOn ==
    ASSUME NEW f, NEW g, NEW h, Steady(f, g), Steady(g, h) PROVE Steady(f, h)
  BY DEF Steady

LEMMA SteadyInodes ==
    ASSUME NEW f, NEW s
    PROVE  /\ Steady(f, inode_open(f, s)) /\ Steady(f, inode_remove(f, s))
           /\ Steady(f, inode_close(f, s)) /\ \A R : Steady(f, free_map_release(f, R))
<1>1. ASSUME NEW g, NEW R PROVE Steady(g, free_map_release(g, R))
  BY DEF Steady, free_map_release
<1>2. Steady(f, inode_open(f, s)) /\ Steady(f, inode_remove(f, s))
  BY DEF Steady, inode_open, inode_remove
<1>3. Steady(f, inode_close(f, s))
  <2> DEFINE e == f.open[s]
             g == [f EXCEPT !.open[s] = None]
             R == {s} \cup inode_deallocate(f.store, e.data)
  <2>1. Steady(f, g) /\ Steady(f, [f EXCEPT !.panic = TRUE]) /\ Steady(f, [f EXCEPT !.open[s].open_cnt = @ - 1])
    BY DEF Steady
  <2>2. Steady(f, free_map_release(g, R))
    <3> HIDE DEF g, R
    <3>1. Steady(g, free_map_release(g, R))
      BY <1>1
    <3>2. QED
      BY <2>1, <3>1, SteadyOn
  <2>3. \/ inode_close(f, s) = [f EXCEPT !.panic = TRUE]
        \/ inode_close(f, s) = [f EXCEPT !.open[s].open_cnt = @ - 1]
        \/ inode_close(f, s) = g
        \/ inode_close(f, s) = free_map_release(g, R)
    <3> HIDE DEF R
    <3>1. CASE e = None
      BY <3>1 DEF inode_close
    <3>2. CASE e # None /\ e.open_cnt > 1
      BY <3>2 DEF inode_close
    <3>3. CASE e # None /\ ~(e.open_cnt > 1) /\ e.open_cnt = 1 /\ ~e.removed
      BY <3>3 DEF inode_close
    <3>4. CASE e # None /\ ~(e.open_cnt > 1) /\ ~(e.open_cnt = 1 /\ ~e.removed)
      BY <3>4 DEF inode_close, R
    <3>5. QED
      BY <3>1, <3>2, <3>3, <3>4
  <2> HIDE DEF g, R
  <2>4. QED
    BY <2>1, <2>2, <2>3
<1>4. QED
  BY <1>1, <1>2, <1>3

LEMMA SteadyWrite ==
    ASSUME NEW f, NEW s, NEW buf, NEW ofs
    PROVE  Steady(f, inode_write_at(f, s, buf, ofs).f)
<1>1. ASSUME NEW a PROVE Steady(f, Extended(f, s, buf, ofs, a).f)
  <2>1. CASE ~a.ok
    BY <2>1 DEF Steady, Extended
  <2>2. CASE a.ok /\ (ofs < 0 \/ TooLong(ofs + Len(buf)))
    BY <2>2 DEF Steady, Extended
  <2>3. CASE a.ok /\ ~(ofs < 0 \/ TooLong(ofs + Len(buf)))
    <3> DEFINE e == [a.d EXCEPT !.length = ofs + Len(buf)]
               store2 == Stored([a.store EXCEPT ![s] = Inode(e)], e, buf, ofs)
               g == [f EXCEPT !.map = a.map, !.open[s].data = e, !.store = store2]
    <3>1. Extended(f, s, buf, ofs, a) = [n |-> Len(buf), f |-> g]
      BY <2>3 DEF Extended
    <3> HIDE DEF e, store2
    <3>2. Steady(f, g)
      BY DEF Steady
    <3> HIDE DEF g
    <3>3. QED
      BY <3>1, <3>2
  <2>4. QED
    BY <2>1, <2>2, <2>3
<1> DEFINE d == f.open[s].data
           end == ofs + Len(buf)
           a == inode_reserve(f.map, f.store, d, end)
<1>2. CASE end - 1 \notin 0 .. d.length - 1
  <2>1. inode_write_at(f, s, buf, ofs) = Extended(f, s, buf, ofs, a)
    BY <1>2 DEF inode_write_at
  <2> HIDE DEF a
  <2>2. QED
    BY <1>1, <2>1
<1>3. CASE end - 1 \in 0 .. d.length - 1 /\ ofs < 0
  BY <1>3 DEF Steady, inode_write_at
<1>4. CASE end - 1 \in 0 .. d.length - 1 /\ ~(ofs < 0)
  BY <1>4 DEF Steady, inode_write_at
<1>5. QED
  BY <1>2, <1>3, <1>4

LEMMA SteadyDir ==
    ASSUME NEW f, NEW name, NEW s
    PROVE  Steady(f, dir_add(f, name, s)) /\ Steady(f, dir_remove(f, name))
<1>1. Steady(f, dir_add(f, name, s))
  BY DEF Steady, dir_add
<1>2. Steady(f, dir_remove(f, name))
  <2> DEFINE r == SectorOf(f, name)
             k == Min(lookup(f, name))
             g == inode_open(f, r)
             h == [g EXCEPT !.dir[k] = None]
             i == inode_remove(h, r)
  <2>1. Steady(f, g)
    BY SteadyInodes
  <2> HIDE DEF g, k, r
  <2>2. Steady(g, h)
    BY DEF Steady
  <2> HIDE DEF h
  <2>3. Steady(h, i) /\ Steady(i, inode_close(i, r))
    BY SteadyInodes
  <2>4. dir_remove(f, name) = IF lookup(f, name) = {} THEN f ELSE inode_close(i, r)
    BY DEF dir_remove, g, h, k, r
  <2> HIDE DEF i
  <2>5. Steady(f, inode_close(i, r)) /\ Steady(f, f)
    BY <2>1, <2>2, <2>3, SteadyOn DEF Steady
  <2>6. QED
    BY <2>4, <2>5
<1>3. QED
  BY <1>1, <1>2

LEMMA SteadyCreate ==
    ASSUME NEW f, NEW name, NEW size
    PROVE  Steady(f, filesys_create(f, name, size))
<1>1. ASSUME NEW s, NEW a PROVE Steady(f, Named(f, name, s, a))
  <2> DEFINE store2 == IF a.ok THEN [a.store EXCEPT ![s] = Inode(a.d)] ELSE a.store
             g == [f EXCEPT !.map = a.map, !.store = store2]
             h == [f EXCEPT !.map = a.map \ {s}, !.store = store2, !.failed = @ + 1]
  <2>1. \/ Named(f, name, s, a) = [f EXCEPT !.panic = TRUE]
        \/ Named(f, name, s, a) = h
        \/ Named(f, name, s, a) = dir_add(g, name, s)
    BY Zenon DEF Named
  <2> HIDE DEF store2
  <2>2. Steady(f, g) /\ Steady(f, h) /\ Steady(f, [f EXCEPT !.panic = TRUE])
    BY DEF Steady
  <2> HIDE DEF g, h
  <2>3. Steady(f, dir_add(g, name, s))
    BY <2>2, SteadyDir, SteadyOn
  <2>4. QED
    BY <2>1, <2>2, <2>3
<1>2. Steady(f, [f EXCEPT !.failed = @ + 1])
  BY DEF Steady
<1> DEFINE s == Min(Bits \ f.map)
           a == inode_reserve(f.map \cup {s}, f.store, inode_disk(size), size)
<1>3. filesys_create(f, name, size) = IF Bits \subseteq f.map THEN [f EXCEPT !.failed = @ + 1]
                                      ELSE Named(f, name, s, a)
  BY DEF filesys_create
<1> HIDE DEF s, a
<1>4. QED
  BY <1>1, <1>2, <1>3

LEMMA SteadyFiles ==
    ASSUME NEW f, NEW name
    PROVE  /\ Steady(f, OpenFile(f, name)) /\ Steady(f, remove_from_file_table(f, name))
           /\ \A p : Steady(f, file_seek(f, name, p))
           /\ \A size : Steady(f, file_read(f, name, size))
           /\ \A buf : Steady(f, file_write(f, name, buf))
<1>1. Steady(f, OpenFile(f, name))
  <2> DEFINE s == SectorOf(f, name)
             g == inode_open(f, s)
             h == [g EXCEPT !.table = Append(@, [fname |-> name, inode |-> s, pos |-> 0])]
  <2>1. Steady(f, g)
    BY SteadyInodes
  <2>2. OpenFile(f, name) = f \/ OpenFile(f, name) = h
    BY DEF OpenFile
  <2> HIDE DEF g, s
  <2>3. Steady(g, h) /\ Steady(f, f)
    BY DEF Steady
  <2> HIDE DEF h
  <2>4. QED
    BY <2>1, <2>2, <2>3, SteadyOn
<1>2. Steady(f, remove_from_file_table(f, name))
  <2> DEFINE s == File(f, name).inode
             g == inode_close(f, s)
             h == [g EXCEPT !.table = RemoveAt(@, Min(Handle(f, name)))]
  <2>1. Steady(f, g)
    BY SteadyInodes
  <2>2. remove_from_file_table(f, name) = f \/ remove_from_file_table(f, name) = h
    BY DEF remove_from_file_table
  <2> HIDE DEF g, s
  <2>3. Steady(g, h) /\ Steady(f, f)
    BY DEF Steady
  <2> HIDE DEF h
  <2>4. QED
    BY <2>1, <2>2, <2>3, SteadyOn
<1>3. \A p : Steady(f, file_seek(f, name, p))
  BY DEF Steady, file_seek
<1>4. \A size : Steady(f, file_read(f, name, size))
  BY DEF Steady, file_read
<1>5. ASSUME NEW buf PROVE Steady(f, file_write(f, name, buf))
  <2> DEFINE s == File(f, name).inode
             w == inode_write_at(f, s, [buf EXCEPT ![Len(buf)] = Nul], File(f, name).pos)
  <2>1. Steady(f, w.f)
    BY SteadyWrite
  <2>2. file_write(f, name, buf) = Moved(w, name)
    BY DEF file_write
  <2> HIDE DEF w
  <2>3. Steady(w.f, Moved(w, name))
    BY DEF Steady, Moved
  <2>4. QED
    BY <2>1, <2>2, <2>3, SteadyOn
<1>6. QED
  BY <1>1, <1>2, <1>3, <1>4, <1>5

LEMMA SteadyUtil ==
    ASSUME NEW f, NEW name
    PROVE  /\ \A buf : Steady(f, fsutil_write(f, name, buf))
           /\ \A size : Steady(f, fsutil_read(f, name, size)) /\ Steady(f, fsutil_create(f, name, size))
           /\ \A p : Steady(f, fsutil_seek(f, name, p))
           /\ Steady(f, fsutil_size(f, name)) /\ Steady(f, fsutil_rm(f, name))
           /\ Steady(f, fsutil_cat(f, name))
<1> DEFINE g == OpenFile(f, name)
<1>1. Steady(f, g) /\ Steady(f, f)
  BY SteadyFiles DEF Steady
<1>2. ASSUME NEW buf PROVE Steady(f, fsutil_write(f, name, buf))
  <2>1. fsutil_write(f, name, buf) = f \/ fsutil_write(f, name, buf) = file_write(g, name, buf)
    BY DEF fsutil_write
  <2> HIDE DEF g
  <2>2. QED
    BY <1>1, <2>1, SteadyFiles, SteadyOn
<1>3. ASSUME NEW size PROVE Steady(f, fsutil_read(f, name, size))
  <2>1. fsutil_read(f, name, size) = f \/ fsutil_read(f, name, size) = file_read(g, name, size)
    BY DEF fsutil_read
  <2> HIDE DEF g
  <2>2. QED
    BY <1>1, <2>1, SteadyFiles, SteadyOn
<1>4. ASSUME NEW p PROVE Steady(f, fsutil_seek(f, name, p))
  <2>1. fsutil_seek(f, name, p) = f \/ fsutil_seek(f, name, p) = file_seek(g, name, p)
    BY DEF fsutil_seek
  <2> HIDE DEF g
  <2>2. QED
    BY <1>1, <2>1, SteadyFiles, SteadyOn
<1>5. Steady(f, fsutil_size(f, name))
  <2>1. fsutil_size(f, name) = f \/ fsutil_size(f, name) = file_seek(g, name, File(g, name).pos)
    BY DEF fsutil_size
  <2> HIDE DEF g
  <2>2. Steady(g, file_seek(g, name, File(g, name).pos))
    BY SteadyFiles
  <2>3. QED
    BY <1>1, <2>1, <2>2, SteadyOn
<1>6. Steady(f, fsutil_rm(f, name))
  <2> DEFINE h == remove_from_file_table(f, name)
  <2>1. Steady(f, h)
    BY SteadyFiles
  <2>2. fsutil_rm(f, name) = dir_remove(h, name)
    BY DEF fsutil_rm
  <2> HIDE DEF h
  <2>3. QED
    BY <2>1, <2>2, SteadyDir, SteadyOn
<1>7. Steady(f, fsutil_cat(f, name))
  <2>1. fsutil_cat(f, name) = fsutil_size(f, name) \/ fsutil_cat(f, name) = remove_from_file_table(g, name)
    BY DEF fsutil_cat
  <2> HIDE DEF g
  <2>2. Steady(g, remove_from_file_table(g, name))
    BY SteadyFiles
  <2>3. QED
    BY <1>1, <1>5, <2>1, <2>2, SteadyOn
<1>8. \A size : Steady(f, fsutil_create(f, name, size))
  BY SteadyCreate DEF fsutil_create
<1> HIDE DEF g
<1>9. QED
  BY <1>2, <1>3, <1>4, <1>5, <1>6, <1>7, <1>8

\* The values of the loop in recover0.
LEMMA RecoverTurns ==
    ASSUME NEW f0
    PROVE  \E f : /\ f[0] = [f0 EXCEPT !.recovered = 1]
                  /\ \A i \in 1 .. block_size - 1 : f[i] = recover_sector(f[i - 1], i - 1)
                  /\ recover0(f0) = f[block_size - 1]
<1> DEFINE l == block_size - 1
           h == [f0 EXCEPT !.recovered = 1]
           Rest(f) == [i \in 0 .. l |-> IF i = 0 THEN h ELSE recover_sector(f[i - 1], i - 1)]
           after == CHOOSE f : f = Rest(f)
           S == {n \in 0 .. l : \E f : /\ DOMAIN f = 0 .. n /\ f[0] = h
                                       /\ \A i \in 1 .. n : f[i] = recover_sector(f[i - 1], i - 1)}
<1>1. l \in Nat
  BY Geometry
<1> HIDE DEF l, h
<1>2. 0 \in S
  <2> DEFINE f == [i \in 0 .. 0 |-> h]
  <2>1. DOMAIN f = 0 .. 0 /\ f[0] = h /\ \A i \in 1 .. 0 : FALSE
    OBVIOUS
  <2> HIDE DEF f
  <2>2. QED
    BY <1>1, <2>1
<1>3. ASSUME NEW n \in 1 .. l, n - 1 \in S PROVE n \in S
  <2>1. PICK f : /\ DOMAIN f = 0 .. n - 1 /\ f[0] = h
                 /\ \A i \in 1 .. n - 1 : f[i] = recover_sector(f[i - 1], i - 1)
    BY <1>3
  <2> DEFINE g == [i \in 0 .. n |-> IF i = n THEN recover_sector(f[n - 1], n - 1) ELSE f[i]]
  <2>2. DOMAIN g = 0 .. n /\ g[0] = h
    BY <2>1
  <2>3. ASSUME NEW i \in 1 .. n PROVE g[i] = recover_sector(g[i - 1], i - 1)
    <3>1. i - 1 \in 0 .. n /\ i - 1 # n /\ i \in 0 .. n
      OBVIOUS
    <3>2. g[i - 1] = f[i - 1]
      BY <3>1
    <3>3. CASE i = n
      BY <3>1, <3>2, <3>3
    <3>4. CASE i # n
      <4>1. i \in 1 .. n - 1 /\ g[i] = f[i]
        BY <3>1, <3>4
      <4>2. QED
        BY <4>1, <3>2, <2>1
    <3>5. QED
      BY <3>3, <3>4
  <2> HIDE DEF g
  <2>4. n \in 0 .. l
    BY <1>1
  <2>5. QED
    BY <2>2, <2>3, <2>4
<1>4. l \in S
  <2> HIDE DEF S
  <2>1. 0 .. l \subseteq S
    BY <1>1, <1>2, <1>3, UpToN
  <2>2. QED
    BY <1>1, <2>1
<1>5. PICK f : /\ DOMAIN f = 0 .. l /\ f[0] = h
               /\ \A i \in 1 .. l : f[i] = recover_sector(f[i - 1], i - 1)
  BY <1>4
<1>6. \E g : g = Rest(g)
  <2> DEFINE g == [i \in 0 .. l |-> f[i]]
  <2>1. \A i \in 0 .. l : i # 0 => i \in 1 .. l /\ i - 1 \in 0 .. l
    BY <1>1
  <2>2. g = Rest(g)
    BY <1>5, <2>1
  <2> HIDE DEF g
  <2>3. QED
    BY <2>2
<1>7. after = Rest(after)
  BY <1>6
<1> HIDE DEF after
<1>8. after[0] = h /\ \A i \in 1 .. l : after[i] = recover_sector(after[i - 1], i - 1)
  BY <1>1, <1>7
<1>9. recover0(f0) = after[l]
  BY DEF recover0, after, l, h
<1>10. QED
  BY <1>8, <1>9 DEF l, h



LEMMA SteadyCopies ==
    ASSUME NEW f, NEW name, NEW size
    PROVE  /\ \A copy : Steady(f, Copied(f, name, size, copy)) /\ Steady(f, copy_in(f, name, size))
           /\ \A c : Steady(f, Rewritten(f, name, c))
<1>1. ASSUME NEW copy PROVE Steady(f, Copied(f, name, size, copy))
  <2> DEFINE read == Lesser(copy, size)
             g == fsutil_create(f, name, copy)
             h == fsutil_write(g, name, Text(name, read) \o Padding(copy + 1 - read))
  <2>1. \/ Copied(f, name, size, copy) = f
        \/ Copied(f, name, size, copy) = file_seek(h, name, 0)
        \/ Copied(f, name, size, copy) = [h EXCEPT !.panic = TRUE]
    BY DEF Copied
  <2>2. Steady(f, g)
    BY SteadyUtil
  <2> HIDE DEF g
  <2>3. Steady(g, h)
    BY SteadyUtil
  <2> HIDE DEF h
  <2>4. Steady(h, file_seek(h, name, 0)) /\ Steady(h, [h EXCEPT !.panic = TRUE]) /\ Steady(f, f)
    <3>1. Steady(h, [h EXCEPT !.panic = TRUE]) /\ Steady(f, f)
      BY DEF Steady
    <3>2. Steady(h, file_seek(h, name, 0))
      BY SteadyFiles
    <3>3. QED
      BY <3>1, <3>2
  <2>5. Steady(f, h)
    BY <2>2, <2>3, SteadyOn
  <2>6. Steady(f, file_seek(h, name, 0)) /\ Steady(f, [h EXCEPT !.panic = TRUE])
    BY <2>4, <2>5, SteadyOn
  <2>7. QED
    BY <2>1, <2>4, <2>6
<1>2. Steady(f, copy_in(f, name, size))
  BY <1>1 DEF copy_in
<1>3. ASSUME NEW c PROVE Steady(f, Rewritten(f, name, c))
  <2> DEFINE g == fsutil_create(f, name, Len(c))
             h == IF c = <<>> THEN g ELSE fsutil_write(g, name, c)
  <2>1. Rewritten(f, name, c) = fsutil_seek(h, name, 0)
    BY DEF Rewritten
  <2>2. Steady(f, g)
    BY SteadyUtil
  <2> HIDE DEF g
  <2>3. Steady(g, h)
    <3>1. Steady(g, g)
      BY DEF Steady
    <3>2. Steady(g, fsutil_write(g, name, c))
      BY SteadyUtil
    <3>3. QED
      BY <3>1, <3>2
  <2> HIDE DEF h
  <2>4. Steady(h, fsutil_seek(h, name, 0))
    BY SteadyUtil
  <2>5. QED
    BY <2>1, <2>2, <2>3, <2>4, SteadyOn
<1>4. QED
  BY <1>1, <1>2, <1>3

LEMMA SteadyLoop ==
    ASSUME NEW loop \in {"size", "rm", "create"}, NEW h, NEW f
    PROVE  Steady(h, ForEach(loop, h, f))
<1>1. PICK g : /\ g[0] = h
               /\ \A i \in 1 .. Entries : g[i] = Turn(loop, g[i - 1], f, i)
               /\ ForEach(loop, h, f) = g[Entries]
  BY LoopTurns
<1> DEFINE S == {i \in 0 .. Entries : Steady(h, g[i])}
<1>2. Entries \in Nat
  BY BoundsAssumption
<1>3. 0 \in S
  BY <1>1, <1>2 DEF Steady
<1>4. ASSUME NEW x, NEW i PROVE Steady(x, Turn(loop, x, f, i))
  <2> DEFINE e == f.dir[i]
             c == Contents(f.store, f.open[e.inode_sector].data)
  <2>1. \/ Turn(loop, x, f, i) = x
        \/ Turn(loop, x, f, i) = fsutil_size(x, e.name)
        \/ Turn(loop, x, f, i) = fsutil_rm(x, e.name)
        \/ Turn(loop, x, f, i) = Rewritten(x, e.name, c)
    BY DEF Turn, Body
  <2> HIDE DEF e, c
  <2>2. Steady(x, x)
    BY DEF Steady
  <2>3. QED
    BY <2>1, <2>2, SteadyUtil, SteadyCopies
<1>5. ASSUME NEW i \in 1 .. Entries, i - 1 \in S PROVE i \in S
  <2>1. Steady(h, g[i - 1]) /\ g[i] = Turn(loop, g[i - 1], f, i) /\ i \in 0 .. Entries
    BY <1>1, <1>2, <1>5
  <2>2. Steady(g[i - 1], Turn(loop, g[i - 1], f, i))
    BY <1>4
  <2>3. QED
    BY <2>1, <2>2, SteadyOn
<1>6. Entries \in S
  <2> HIDE DEF S
  <2>1. 0 .. Entries \subseteq S
    BY <1>2, <1>3, <1>5, UpToN
  <2>2. QED
    BY <1>2, <2>1
<1>7. QED
  BY <1>1, <1>6

LEMMA SteadyAll ==
    ASSUME NEW f
    PROVE  Steady(f, OpenAll(f)) /\ Steady(f, defragment(f)) /\ Steady(f, Remount(f))
<1>1. Steady(f, OpenAll(f))
  BY SteadyLoop DEF OpenAll
<1>2. ASSUME NEW g PROVE Steady(g, Rebuilt(g))
  <2> DEFINE h == ForEach("rm", g, g)
  <2>1. Steady(g, h)
    BY SteadyLoop
  <2> HIDE DEF h
  <2>2. Steady(h, ForEach("create", h, g))
    BY SteadyLoop
  <2>3. Rebuilt(g) = ForEach("create", h, g)
    BY DEF Rebuilt, h
  <2>4. QED
    BY <2>1, <2>2, <2>3, SteadyOn
<1>3. Steady(f, defragment(f))
  <2> DEFINE g == OpenAll(f)
  <2>1. defragment(f) = g \/ defragment(f) = Rebuilt(g)
    BY DEF defragment
  <2> HIDE DEF g
  <2>2. Steady(f, g)
    BY <1>1 DEF g
  <2>3. QED
    BY <1>2, <2>1, <2>2, SteadyOn
<1>4. Steady(f, Remount(f))
  BY DEF Steady, Remount
<1>5. QED
  BY <1>1, <1>3, <1>4

LEMMA Recovers ==
    ASSUME NEW f, DOMAIN f = Fields
    PROVE  DOMAIN recover0(f) = Fields /\ recover0(f).recovered = 1
<1> DEFINE h == [f EXCEPT !.recovered = 1]
           N == block_size - 1
<1>1. PICK g : /\ g[0] = h
               /\ \A i \in 1 .. N : g[i] = recover_sector(g[i - 1], i - 1)
               /\ recover0(f) = g[N]
  BY RecoverTurns
<1>2. DOMAIN h = Fields /\ h.recovered = 1
  BY DEF Fields
<1>3. N \in Nat
  BY Geometry
<1> HIDE DEF h, N
<1> DEFINE S == {i \in 0 .. N : Steady(h, g[i])}
<1>4. 0 \in S
  BY <1>1, <1>3 DEF Steady
<1>5. ASSUME NEW x, NEW s PROVE Steady(x, recover_sector(x, s))
  <2> DEFINE y == inode_open(x, s)
  <2>1. \/ recover_sector(x, s) = x
        \/ recover_sector(x, s) = y
        \/ recover_sector(x, s) = dir_add(y, Recovered(s), s)
    BY DEF recover_sector
  <2>2. Steady(x, y) /\ Steady(x, x)
    BY SteadyInodes DEF Steady
  <2> HIDE DEF y
  <2>3. Steady(y, dir_add(y, Recovered(s), s))
    BY SteadyDir
  <2>4. QED
    BY <2>1, <2>2, <2>3, SteadyOn
<1>6. ASSUME NEW i \in 1 .. N, i - 1 \in S PROVE i \in S
  <2>1. Steady(h, g[i - 1]) /\ g[i] = recover_sector(g[i - 1], i - 1) /\ i \in 0 .. N
    BY <1>1, <1>3, <1>6
  <2>2. Steady(g[i - 1], recover_sector(g[i - 1], i - 1))
    BY <1>5
  <2>3. QED
    BY <2>1, <2>2, SteadyOn
<1>7. N \in S
  <2> HIDE DEF S
  <2>1. 0 .. N \subseteq S
    BY <1>3, <1>4, <1>6, UpToN
  <2>2. QED
    BY <1>3, <2>1
<1>8. QED
  BY <1>1, <1>2, <1>7 DEF Steady

----------------------------------------------------------------------------
(* The commands.                                                           *)

(***************************************************************************)
(* The inductive invariant of FileSystem: the file system state is good as *)
(* long as recover 0 was not used.                                         *)
(***************************************************************************)
FileSystemInv == /\ DOMAIN fs = Fields /\ fs.recovered \in Nat
                 /\ fs.recovered = 0 => Good(fs)

LEMMA OnlyHistory ==
    ASSUME NEW f, Good(f), NEW g, NEW v, g = [f EXCEPT !.recovered = v]
    PROVE  Good(g)
<1>1. PICK up : GoodBy(up, f)
  BY DEF Good
<1>2. /\ DOMAIN g = Fields /\ g.map = f.map /\ g.store = f.store /\ g.dir = f.dir
      /\ g.failed = f.failed /\ g.table = f.table /\ g.open = f.open
  BY <1>1 DEF GoodBy, Fields
<1>3. TableOK(g) /\ OpenOK(g)
  BY <1>1, <1>2 DEF GoodBy, TableOK, OpenOK, Lists
<1>4. GoodBy(up, g)
  BY <1>1, <1>2, <1>3, SameFiles
<1>5. QED
  BY <1>4 DEF Good

\* A command that keeps the state good, and the history as it is.
LEMMA OneCommand ==
    ASSUME FileSystemInv, NEW f, Do(f), Steady(fs, f), Good(fs) => Good(f)
    PROVE  FileSystemInv'
<1>1. DOMAIN fs = Fields /\ fs.recovered \in Nat /\ (fs.recovered = 0 => Good(fs))
  BY DEF FileSystemInv
<1>2. DOMAIN f = Fields /\ f.recovered = fs.recovered
  BY <1>1 DEF Steady
<1> DEFINE v == IF fs.recovered = 0 THEN f.recovered ELSE fs.recovered + 1
<1>3. fs' = [f EXCEPT !.recovered = v]
  BY DEF Do
<1>4. v \in Nat /\ (v = 0 => fs.recovered = 0)
  BY <1>1, <1>2
<1> HIDE DEF v
<1>5. DOMAIN fs' = Fields /\ fs'.recovered = v
  BY <1>2, <1>3 DEF Fields
<1>6. ASSUME fs'.recovered = 0 PROVE Good(fs')
  <2>1. Good(f)
    BY <1>1, <1>4, <1>5, <1>6
  <2> DEFINE g == fs'
  <2>2. g = [f EXCEPT !.recovered = v]
    BY <1>3
  <2> HIDE DEF g
  <2>3. Good(g)
    BY <2>1, <2>2, OnlyHistory
  <2>4. QED
    BY <2>3 DEF g
<1>7. DOMAIN fs' = Fields /\ fs'.recovered \in Nat /\ (fs'.recovered = 0 => Good(fs'))
  BY <1>4, <1>5, <1>6
<1>8. FileSystemInv' <=> (DOMAIN fs' = Fields /\ fs'.recovered \in Nat /\ (fs'.recovered = 0 => Good(fs')))
  BY DEF FileSystemInv, Good, GoodBy
<1>9. QED
  BY <1>7, <1>8

LEMMA OneRecovery ==
    ASSUME FileSystemInv, Recover0
    PROVE  FileSystemInv'
<1> DEFINE f == recover0(fs)
           v == IF fs.recovered = 0 THEN f.recovered ELSE fs.recovered + 1
<1>1. DOMAIN fs = Fields /\ fs.recovered \in Nat
  BY DEF FileSystemInv
<1>2. DOMAIN f = Fields /\ f.recovered = 1
  BY <1>1, Recovers
<1>3. fs' = [f EXCEPT !.recovered = v]
  BY DEF Recover0, Do
<1>4. v \in Nat /\ v # 0
  BY <1>1, <1>2
<1> HIDE DEF v, f
<1>5. DOMAIN fs' = Fields /\ fs'.recovered = v
  BY <1>2, <1>3 DEF Fields
<1>6. QED
  BY <1>4, <1>5 DEF FileSystemInv

LEMMA FileSystemInitInv == Init => FileSystemInv
<1>1. SUFFICES ASSUME Init PROVE FileSystemInv
  OBVIOUS
<1>2. fs = Formatted
  BY <1>1 DEF Init
<1>3. DOMAIN Formatted = Fields /\ Formatted.recovered = 0
  BY DEF Formatted, Fields
<1>4. Good(Formatted)
  BY GoodInit DEF Good
<1>5. QED
  BY <1>2, <1>3, <1>4 DEF FileSystemInv

\* A command keeps the invariant when its operator is steady and keeps the state good.
LEMMA FileSystemNextInv == FileSystemInv /\ [Next]_fs => FileSystemInv'
<1> SUFFICES ASSUME FileSystemInv, [Next]_fs PROVE FileSystemInv'
  OBVIOUS
<1>2. ASSUME NEW n \in Names, NEW k \in Sizes, Create(n, k) PROVE FileSystemInv'
  <2>1. k \in Nat
    BY BoundsAssumption
  <2>2. Good(fs) => Good(fsutil_create(fs, n, k))
    BY <2>1, Creates DEF fsutil_create
  <2>3. Steady(fs, fsutil_create(fs, n, k))
    BY SteadyUtil
  <2>4. Do(fsutil_create(fs, n, k))
    BY <1>2 DEF Create
  <2>5. QED
    BY <2>2, <2>3, <2>4, OneCommand
<1>3. ASSUME NEW n \in Names, NEW k \in HostSizes, CopyIn(n, k) PROVE FileSystemInv'
  <2>1. k \in Nat
    BY BoundsAssumption
  <2>2. Good(fs) => Good(copy_in(fs, n, k))
    BY <2>1, CopiesHostFile
  <2>3. Steady(fs, copy_in(fs, n, k))
    BY SteadyCopies
  <2>4. Do(copy_in(fs, n, k))
    BY <1>3 DEF CopyIn
  <2>5. QED
    BY <2>2, <2>3, <2>4, OneCommand
<1>4. ASSUME NEW n, NEW k \in Texts, Write(n, k) PROVE FileSystemInv'
  <2> DEFINE text == Text(n, k) \o Padding(2)
  <2>1. Do(fsutil_write(fs, n, text))
    BY <1>4 DEF Write
  <2>2. text \in Seq({n, Nul}) /\ text # <<>>
    <3>1. k \in Nat /\ 2 \in Nat /\ k + 2 > 0
      BY BoundsAssumption
    <3>2. QED
      BY <3>1, TextSequence
  <2> HIDE DEF text
  <2>3. Good(fs) => Good(fsutil_write(fs, n, text))
    BY <2>2, UtilWrites DEF SameDir
  <2>4. Steady(fs, fsutil_write(fs, n, text))
    BY SteadyUtil
  <2>5. QED
    BY <2>1, <2>3, <2>4, OneCommand
<1>5. ASSUME NEW n, NEW k \in Texts, Read(n, k) PROVE FileSystemInv'
  <2>1. k \in Int
    BY BoundsAssumption
  <2>2. Good(fs) => Good(fsutil_read(fs, n, k))
    BY <2>1, UtilReads DEF SameDir
  <2>3. Steady(fs, fsutil_read(fs, n, k))
    BY SteadyUtil
  <2>4. Do(fsutil_read(fs, n, k))
    BY <1>5 DEF Read
  <2>5. QED
    BY <2>2, <2>3, <2>4, OneCommand
<1>6. ASSUME NEW n, NEW p \in Positions, Seek(n, p) PROVE FileSystemInv'
  <2>1. p \in Int
    BY BoundsAssumption
  <2>2. Good(fs) => Good(fsutil_seek(fs, n, p))
    BY <2>1, UtilSeeks DEF SameDir
  <2>3. Steady(fs, fsutil_seek(fs, n, p))
    BY SteadyUtil
  <2>4. Do(fsutil_seek(fs, n, p))
    BY <1>6 DEF Seek
  <2>5. QED
    BY <2>2, <2>3, <2>4, OneCommand
<1>7. ASSUME NEW n, Rm(n) PROVE FileSystemInv'
  <2>1. Good(fs) => Good(fsutil_rm(fs, n))
    BY UtilRemoves
  <2>2. Steady(fs, fsutil_rm(fs, n))
    BY SteadyUtil
  <2>3. Do(fsutil_rm(fs, n))
    BY <1>7 DEF Rm
  <2>4. QED
    BY <2>1, <2>2, <2>3, OneCommand
<1>8. ASSUME NEW n, Cat(n) PROVE FileSystemInv'
  <2>1. Good(fs) => Good(fsutil_cat(fs, n))
    BY UtilCats
  <2>2. Steady(fs, fsutil_cat(fs, n))
    BY SteadyUtil
  <2>3. Do(fsutil_cat(fs, n))
    BY <1>8 DEF Cat
  <2>4. QED
    BY <2>1, <2>2, <2>3, OneCommand
<1>9. ASSUME NEW n, Size(n) PROVE FileSystemInv'
  <2>1. Good(fs) => Good(fsutil_size(fs, n))
    BY UtilSizes DEF SameDir
  <2>2. Steady(fs, fsutil_size(fs, n))
    BY SteadyUtil
  <2>3. Do(fsutil_size(fs, n))
    BY <1>9 DEF Size
  <2>4. QED
    BY <2>1, <2>2, <2>3, OneCommand
<1>10. ASSUME Search PROVE FileSystemInv'
  <2>1. Good(fs) => Good(OpenAll(fs))
    BY OpensAll DEF SameDir
  <2>2. Steady(fs, OpenAll(fs))
    BY SteadyAll
  <2>3. Do(OpenAll(fs))
    BY <1>10 DEF Search
  <2>4. QED
    BY <2>1, <2>2, <2>3, OneCommand
<1>11. ASSUME Defragment PROVE FileSystemInv'
  <2>1. Good(fs) => Good(defragment(fs))
    BY Defragments
  <2>2. Steady(fs, defragment(fs))
    BY SteadyAll
  <2>3. Do(defragment(fs))
    BY <1>11 DEF Defragment
  <2>4. QED
    BY <2>1, <2>2, <2>3, OneCommand
<1>12. ASSUME Restart PROVE FileSystemInv'
  <2>1. Good(fs) => Good(Remount(fs))
    BY Remounts DEF Good
  <2>2. Steady(fs, Remount(fs))
    BY SteadyAll
  <2>3. Do(Remount(fs))
    BY <1>12 DEF Restart
  <2>4. QED
    BY <2>1, <2>2, <2>3, OneCommand
<1>13. CASE UNCHANGED fs
  BY <1>13 DEF FileSystemInv
<1>14. CASE Next
  BY <1>14, <1>2, <1>3, <1>4, <1>5, <1>6, <1>7, <1>8, <1>9, <1>10, <1>11, <1>12, OneRecovery DEF Next
<1>15. QED
  BY <1>13, <1>14

\* The inductive invariant holds in every state.
THEOREM FileSystemInductive == Spec => []FileSystemInv
<1>1. QED
  BY FileSystemInitInv, FileSystemNextInv, PTL DEF Spec

----------------------------------------------------------------------------
(* What the invariant says about the sectors of the listed files.          *)
LEMMA UsedSectors ==
    ASSUME NEW up, GoodBy(up, fs), NEW n \in Listed
    PROVE  \E k : /\ Lists(fs, k) /\ fs.dir[k].name = n /\ SectorOf(fs, n) = fs.dir[k].inode_sector
                  /\ SoundInode(up, fs, InodeOf(n), SectorOf(fs, n))
                  /\ Used(n) = {SectorOf(fs, n)} \cup SectorsOf(fs.store, InodeOf(n), Blocks(InodeOf(n)))
<1> DEFINE s == SectorOf(fs, n)
           d == InodeOf(n)
<1>1. PICK k : Lists(fs, k) /\ fs.dir[k].name = n
  BY DEF Listed, Lists
<1>2. k = Min(lookup(fs, n))
  BY <1>1, LookedUp DEF GoodBy
<1>3. s = fs.dir[k].inode_sector
  BY <1>2 DEF SectorOf
<1>4. /\ SoundInode(up, fs, AsInode(fs.store[s]), s)
      /\ fs.open[s] # None => SoundInode(up, fs, fs.open[s].data, s)
  BY <1>1, <1>3 DEF GoodBy, InodesOK
<1>5. d = IF fs.open[s] # None THEN fs.open[s].data ELSE AsInode(fs.store[s])
  BY DEF InodeOf, CurrentInode
<1>6. Used(n) = {s} \cup inode_deallocate(fs.store, d)
  BY DEF Used
<1> HIDE DEF s, d
<1>7. SoundInode(up, fs, d, s)
  BY <1>4, <1>5
<1>8. d.length \in Int
  BY <1>7 DEF SoundInode, DiskInode
<1>9. Used(n) = {s} \cup SectorsOf(fs.store, d, Blocks(d))
  BY <1>6, <1>8, Deallocated
<1>10. QED
  BY <1>1, <1>3, <1>7, <1>9 DEF s, d

LEMMA FilesOwn ==
    ASSUME NEW up, GoodBy(up, fs)
    PROVE  /\ \A n \in Listed : Used(n) \subseteq fs.map \ Meta
           /\ \A n, o \in Listed : n # o => Used(n) \cap Used(o) = {}
<1>1. ASSUME NEW n \in Listed PROVE Used(n) \subseteq fs.map \ Meta
  <2> DEFINE s == SectorOf(fs, n)
             d == InodeOf(n)
  <2>1. SoundInode(up, fs, d, s) /\ Used(n) = {s} \cup SectorsOf(fs.store, d, Blocks(d))
    BY UsedSectors
  <2> HIDE DEF s, d
  <2>2. ClosedIn(up, fs.map, FileSectors(fs.store, d, s))
    BY <2>1, ClosedInFile
  <2>3. QED
    BY <2>1, <2>2 DEF ClosedIn, FileSectors
<1>2. ASSUME NEW n \in Listed, NEW o \in Listed, n # o PROVE Used(n) \cap Used(o) = {}
  <2> DEFINE s == SectorOf(fs, n)
             d == InodeOf(n)
             r == SectorOf(fs, o)
             e == InodeOf(o)
  <2>1. PICK k : /\ Lists(fs, k) /\ fs.dir[k].name = n /\ s = fs.dir[k].inode_sector
                 /\ SoundInode(up, fs, d, s) /\ Used(n) = {s} \cup SectorsOf(fs.store, d, Blocks(d))
    BY UsedSectors
  <2>2. PICK l : /\ Lists(fs, l) /\ fs.dir[l].name = o /\ r = fs.dir[l].inode_sector
                 /\ SoundInode(up, fs, e, r) /\ Used(o) = {r} \cup SectorsOf(fs.store, e, Blocks(e))
    BY UsedSectors
  <2> HIDE DEF s, d, r, e
  <2>3. s # r
    BY <1>2, <2>1, <2>2 DEF GoodBy, DirOK
  <2>4. Sound(up, fs.map, fs.store, d, s, Blocks(d)) /\ Sound(up, fs.map, fs.store, e, r, Blocks(e))
    BY <2>1, <2>2 DEF SoundInode
  <2>5. ({s} \cup SectorsOf(fs.store, d, Blocks(d))) \cap ({r} \cup SectorsOf(fs.store, e, Blocks(e))) = {}
    BY <2>3, <2>4, OwnSectors
  <2>6. QED
    BY <2>1, <2>2, <2>5
<1>3. QED
  BY <1>1, <1>2

LEMMA NothingLost ==
    ASSUME NEW up, GoodBy(up, fs), fs.failed = 0
    PROVE  fs.map = Meta \cup UNION {Used(n) : n \in Listed}
<1>1. Meta \subseteq fs.map
  BY DEF GoodBy, Heap, MapOK
<1>2. \A n \in Listed : Used(n) \subseteq fs.map
  BY FilesOwn
<1>3. ASSUME NEW t \in fs.map \ Meta PROVE \E n \in Listed : t \in Used(n)
  <2>1. PICK k : Lists(fs, k) /\ LET s == fs.dir[k].inode_sector
                                     d == AsInode(fs.store[s])
                                 IN  t \in {s} \cup SectorsOf(fs.store, d, Blocks(d))
    BY <1>3 DEF GoodBy, Tight
  <2> DEFINE n == fs.dir[k].name
             s == SectorOf(fs, n)
  <2>2. n \in Listed
    BY <2>1 DEF Listed, Lists
  <2>3. k = Min(lookup(fs, n))
    BY <2>1, LookedUp DEF GoodBy
  <2>4. s = fs.dir[k].inode_sector
    BY <2>3 DEF SectorOf
  <2>5. s \in Sectors
    BY <2>1, <2>4 DEF GoodBy, DirOK, Lists, SlotEntry
  <2>6. InodeOf(n) = AsInode(fs.store[s])
    BY <2>5 DEF InodeOf, CurrentInode, GoodBy, Tight
  <2>7. Used(n) = {s} \cup SectorsOf(fs.store, InodeOf(n), Blocks(InodeOf(n)))
    BY <2>2, UsedSectors
  <2> HIDE DEF n, s
  <2>8. t \in Used(n)
    BY <2>1, <2>4, <2>6, <2>7
  <2>9. QED
    BY <2>2, <2>8
<1>4. QED
  BY <1>1, <1>2, <1>3

(***************************************************************************)
(* As long as the program runs and recover 0 was not used, every sector of *)
(* a listed file (inode.c:inode_deallocate) is marked in the free map and  *)
(* no other file's, whatever creates, writes, removals, imports and        *)
(* defragmentations there were and whichever of them failed.               *)
(***************************************************************************)
THEOREM FilesOwnTheirSectors == Spec => []Owned
<1>1. FileSystemInv => Owned
  BY FilesOwn DEF FileSystemInv, Owned, Ordinary, Good
<1>2. QED
  BY <1>1, FileSystemInductive, PTL

(***************************************************************************)
(* As long as no create and no growth has failed, no sector is lost: the   *)
(* free map has exactly the sectors of the listed files marked, and those  *)
(* of the free map and of the root directory.                              *)
(***************************************************************************)
THEOREM NoSectorLost == Spec => []NoLeak
<1>1. FileSystemInv => NoLeak
  BY NothingLost DEF FileSystemInv, NoLeak, Ordinary, Good
<1>2. QED
  BY <1>1, FileSystemInductive, PTL

(***************************************************************************)
(* The file system state is well formed until recover 0 is used.           *)
(***************************************************************************)
THEOREM FileSystemTypes == Spec => [](fs.recovered = 0 => TypeOK)
<1>1. ASSUME NEW up, GoodBy(up, fs) PROVE TypeOK
  <2>1. fs.map \subseteq Bits
    BY <1>1 DEF GoodBy, Heap, MapOK
  <2>2. ASSUME NEW n \in Listed
        PROVE  /\ n \in AnyName /\ SectorOf(fs, n) \in Bits \ Meta
               /\ InodeOf(n).length \in 0 .. BlockLimit * BLOCK_SECTOR_SIZE
    <3> DEFINE s == SectorOf(fs, n)
               d == InodeOf(n)
    <3>1. PICK k : Lists(fs, k) /\ fs.dir[k].name = n /\ SoundInode(up, fs, d, s)
      BY <1>1, UsedSectors
    <3>2. n \in AnyName
      BY <1>1, <3>1 DEF GoodBy, DirOK, Lists, SlotEntry, AnyName
    <3> HIDE DEF s, d
    <3>3. s \in Bits \ Meta /\ d \in DiskInode
      BY <2>1, <3>1 DEF SoundInode, Sound, Root
    <3>4. d.length \in 0 .. BlockLimit * BLOCK_SECTOR_SIZE
      BY <3>3 DEF DiskInode
    <3>5. QED
      BY <3>2, <3>3, <3>4 DEF s, d
  <2>3. ASSUME NEW i \in DOMAIN fs.table PROVE fs.table[i].inode \in Bits \ Meta
    <3>1. PICK k : Lists(fs, k) /\ fs.dir[k].inode_sector = fs.table[i].inode
      BY <1>1 DEF GoodBy, TableOK
    <3> DEFINE s == fs.dir[k].inode_sector
    <3>2. SoundInode(up, fs, AsInode(fs.store[s]), s)
      BY <1>1, <3>1 DEF GoodBy, InodesOK
    <3>3. s \in Bits \ Meta
      BY <2>1, <3>2 DEF SoundInode, Sound, Root
    <3>4. QED
      BY <3>1, <3>3
  <2>4. QED
    BY <2>1, <2>2, <2>3 DEF TypeOK
<1>2. FileSystemInv => (fs.recovered = 0 => TypeOK)
  BY <1>1 DEF FileSystemInv, Good
<1>3. QED
  BY <1>2, FileSystemInductive, PTL
=============================================================================

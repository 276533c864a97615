---------------------------- MODULE BitmapProofs ----------------------------
(***************************************************************************)
(* The bits of a bitmap are independent of each other, in whichever        *)
(* elements they are: what an operation does to one it does to no other.   *)
(***************************************************************************)
EXTENDS Bitmap, WellFoundedInduction, TLAPS

(***************************************************************************)
(* A bitmap of n bits, in as many elements as bitmap_create allocates.     *)
(***************************************************************************)
Elements(n) == [0 .. elem_cnt(n) - 1 -> SUBSET (0 .. ELEM_BITS - 1)]

IsBitmap(b, n) == b = [bit_cnt |-> n, bits |-> b.bits] /\ b.bits \in Elements(n)

----------------------------------------------------------------------------
(* Every bit is in an element of the array, and no two have one place.     *)
LEMMA Position ==
    ASSUME NEW i \in Nat
    PROVE  /\ elem_idx(i) \in Nat
           /\ i = (elem_idx(i) * ELEM_BITS) + (i % ELEM_BITS)
           /\ i % ELEM_BITS \in 0 .. ELEM_BITS - 1
  BY ElemAssumption DEF elem_idx

LEMMA InElements ==
    ASSUME NEW n \in Nat, NEW i \in 0 .. n - 1
    PROVE  elem_idx(i) \in 0 .. elem_cnt(n) - 1
  BY ElemAssumption, SMTT(30) DEF elem_idx, elem_cnt

LEMMA PlacesDiffer ==
    ASSUME NEW i \in Nat, NEW j \in Nat, elem_idx(i) = elem_idx(j), bit_mask(i) = bit_mask(j)
    PROVE  i = j
<1>1. i % ELEM_BITS = j % ELEM_BITS
  BY Zenon DEF bit_mask
<1>2. QED
  BY <1>1, Position

(***************************************************************************)
(* bitmap_create makes a bitmap without marks.                             *)
(***************************************************************************)
THEOREM CreatedClear ==
    ASSUME NEW n \in Nat
    PROVE  /\ IsBitmap(bitmap_create(n), n)
           /\ \A i \in 0 .. n - 1 : ~bitmap_test(bitmap_create(n), i)
<1>1. IsBitmap(bitmap_create(n), n)
  BY DEF bitmap_create, IsBitmap, Elements
<1>2. ASSUME NEW i \in 0 .. n - 1 PROVE ~bitmap_test(bitmap_create(n), i)
  BY InElements DEF bitmap_create, bitmap_test
<1>3. QED
  BY <1>1, <1>2

(***************************************************************************)
(* bitmap_set gives one bit its value and no other bit another one, also   *)
(* when they share an element.                                             *)
(***************************************************************************)
THEOREM SetOne ==
    ASSUME NEW n \in Nat, NEW b, IsBitmap(b, n), NEW i \in 0 .. n - 1, NEW value \in BOOLEAN
    PROVE  /\ IsBitmap(bitmap_set(b, i, value), n)
           /\ bitmap_test(bitmap_set(b, i, value), i) = value
           /\ \A j \in 0 .. n - 1 : j # i =>
                bitmap_test(bitmap_set(b, i, value), j) = bitmap_test(b, j)
<1> DEFINE c == bitmap_set(b, i, value)
           e == elem_idx(i)
<1>1. e \in 0 .. elem_cnt(n) - 1
  BY InElements
<1>2. bit_mask(i) \subseteq 0 .. ELEM_BITS - 1
  BY Position DEF bit_mask
<1>3. c = [b EXCEPT !.bits[e] = IF value THEN @ \cup bit_mask(i) ELSE @ \ bit_mask(i)]
  BY DEF bitmap_set, bitmap_mark, bitmap_reset
<1>4. c.bits = [b.bits EXCEPT ![e] = IF value THEN @ \cup bit_mask(i) ELSE @ \ bit_mask(i)]
  BY <1>3 DEF IsBitmap
<1>5. IsBitmap(c, n)
  <2>1. c.bits \in Elements(n)
    BY <1>1, <1>2, <1>4 DEF IsBitmap, Elements
  <2>2. c = [bit_cnt |-> n, bits |-> c.bits]
    <3>1. b = [bit_cnt |-> n, bits |-> b.bits]
      BY DEF IsBitmap
    <3> DEFINE h == [b.bits EXCEPT ![e] = IF value THEN @ \cup bit_mask(i) ELSE @ \ bit_mask(i)]
    <3>2. c = [b EXCEPT !.bits = h] /\ c.bits = h
      BY <1>3, <1>4, <3>1
    <3> HIDE DEF h, c
    <3>3. QED
      BY <3>1, <3>2
  <2>3. QED
    BY <2>1, <2>2 DEF IsBitmap
<1>6. bitmap_test(c, i) = value
  BY <1>1, <1>4 DEF bitmap_test, bit_mask, IsBitmap, Elements
<1>7. ASSUME NEW j \in 0 .. n - 1, j # i
      PROVE  bitmap_test(c, j) = bitmap_test(b, j)
  <2>1. CASE elem_idx(j) # e
    BY <2>1, <1>1, <1>4, InElements DEF bitmap_test, IsBitmap, Elements
  <2>2. CASE elem_idx(j) = e
    <3>1. j % ELEM_BITS # i % ELEM_BITS
      BY <2>2, <1>7, PlacesDiffer DEF bit_mask
    <3>2. QED
      BY <2>2, <3>1, <1>1, <1>4 DEF bitmap_test, bit_mask, IsBitmap, Elements
  <2>3. QED
    BY <2>1, <2>2
<1>8. QED
  BY <1>5, <1>6, <1>7

\* c is b with bit i set to the value.
SetsOnly(b, c, n, i, value) ==
    /\ IsBitmap(c, n) /\ bitmap_test(c, i) = value
    /\ \A j \in 0 .. n - 1 : j # i => bitmap_test(c, j) = bitmap_test(b, j)

LEMMA SetsOnlyOne ==
    ASSUME NEW n \in Nat, NEW b, IsBitmap(b, n), NEW i \in 0 .. n - 1
    PROVE  \A value \in BOOLEAN : SetsOnly(b, bitmap_set(b, i, value), n, i, value)
  BY SetOne DEF SetsOnly

----------------------------------------------------------------------------
(* Allocation, which is of one sector at a time: free_map_allocate(1, _).  *)

LEMMA SetSingle ==
    ASSUME NEW b, NEW s \in Nat, NEW value \in BOOLEAN
    PROVE  bitmap_set_multiple(b, s, 1, value) = bitmap_set(b, s, value)
<1> DEFINE Loop(f) == [i \in 0 .. 1 |-> IF i = 0 THEN b ELSE bitmap_set(f[i - 1], s + i - 1, value)]
           g == [i \in 0 .. 1 |-> IF i = 0 THEN b ELSE bitmap_set(b, s, value)]
           after == CHOOSE f : f = Loop(f)
<1>1. g = Loop(g)
  <2>1. ASSUME NEW i \in 0 .. 1 PROVE g[i] = Loop(g)[i]
    <3>1. CASE i = 0
      BY <3>1
    <3>2. CASE i = 1
      <4>1. g[1 - 1] = b /\ s + 1 - 1 = s
        OBVIOUS
      <4>2. QED
        BY <3>2, <4>1
    <3>3. QED
      BY <3>1, <3>2
  <2>2. QED
    BY <2>1
<1>2. after = Loop(after)
  BY <1>1
<1> HIDE DEF after
<1>3. after[0] = b
  BY <1>2
<1>4. after[1] = bitmap_set(after[1 - 1], s + 1 - 1, value)
  BY <1>2
<1>5. after[1] = bitmap_set(b, s, value)
  BY <1>3, <1>4, s + 1 - 1 = s, 1 - 1 = 0
<1>6. QED
  BY <1>5 DEF bitmap_set_multiple, after

LEMMA Least ==
    ASSUME NEW T, T \subseteq Nat, T # {}
    PROVE  \E m \in T : \A k \in T : m <= k
<1> DEFINE R == {x \in Nat \X Nat : x[1] < x[2]}
<1>1. R = OpToRel(<, Nat)
  BY DEF OpToRel
<1>2. IsWellFoundedOn(R, Nat)
  BY <1>1, NatLessThanWellFounded
<1>3. PICK m \in T : \A k \in T : ~ (<<k, m>> \in R)
  <2> HIDE DEF R
  <2> QED
    BY <1>2, WFMin
<1>4. ASSUME NEW k \in T PROVE m <= k
  <2>1. ~ (<<k, m>> \in R) /\ <<k, m>> \in Nat \X Nat
    BY <1>3
  <2>2. ~ (k < m)
    BY <2>1
  <2>3. QED
    BY <2>2
<1>5. QED
  BY <1>4

LEMMA GroupsOfOne ==
    ASSUME NEW n \in Nat, NEW b, IsBitmap(b, n)
    PROVE  Groups(b, 0, 1, FALSE) = {i \in 0 .. n - 1 : ~bitmap_test(b, i)}
<1>1. \A i \in 0 .. n - 1 : bitmap_contains(b, i, 1, ~FALSE) <=> bitmap_test(b, i)
  <2>1. \A i \in 0 .. n - 1 : i .. i + 1 - 1 = {i}
    OBVIOUS
  <2>2. \A i : bitmap_test(b, i) \in BOOLEAN
    BY DEF bitmap_test
  <2>3. QED
    BY <2>1, <2>2 DEF bitmap_contains
<1>2. QED
  BY <1>1 DEF Groups, IsBitmap

(***************************************************************************)
(* A scan that fails has found every sector in use, and nothing is marked; *)
(* any other marks the lowest sector that was free, and only that one.     *)
(***************************************************************************)
THEOREM AllocatesLowest ==
    ASSUME NEW n \in Nat, NEW b, IsBitmap(b, n)
    PROVE  LET s == bitmap_scan(b, 0, 1, FALSE)
               c == bitmap_scan_and_flip(b, 0, 1, FALSE)
           IN  \/ s = BITMAP_ERROR /\ c = b /\ \A i \in 0 .. n - 1 : bitmap_test(b, i)
               \/ /\ s \in 0 .. n - 1 /\ ~bitmap_test(b, s)
                  /\ \A i \in 0 .. s - 1 : bitmap_test(b, i)
                  /\ IsBitmap(c, n)
                  /\ \A i \in 0 .. n - 1 : bitmap_test(c, i) = (bitmap_test(b, i) \/ i = s)
<1> DEFINE G == {i \in 0 .. n - 1 : ~bitmap_test(b, i)}
           s == bitmap_scan(b, 0, 1, FALSE)
           c == bitmap_scan_and_flip(b, 0, 1, FALSE)
<1>1. CASE G = {}
  BY <1>1, GroupsOfOne DEF bitmap_scan, bitmap_scan_and_flip
<1>2. CASE G # {}
  <2>1. s = Min(G)
    BY <1>2, GroupsOfOne DEF bitmap_scan
  <2>2. \E m \in G : \A k \in G : m <= k
    <3>1. G \subseteq Nat
      OBVIOUS
    <3> HIDE DEF G
    <3>2. QED
      BY <1>2, <3>1, Least
  <2>3. s \in G /\ \A k \in G : s <= k
    BY <2>1, <2>2 DEF Min
  <2> HIDE DEF s
  <2>4. s # BITMAP_ERROR /\ s \in Nat
    BY <2>3, ElemAssumption
  <2>5. c = bitmap_set(b, s, TRUE)
    <3>1. c = bitmap_set_multiple(b, s, 1, ~FALSE)
      BY <2>4, Zenon DEF bitmap_scan_and_flip, s
    <3>2. (~FALSE) = TRUE
      OBVIOUS
    <3>3. QED
      BY <2>4, <3>1, <3>2, SetSingle, Zenon
  <2>6. \A i \in 0 .. s - 1 : bitmap_test(b, i)
    BY <2>3
  <2>7. IsBitmap(c, n) /\ \A i \in 0 .. n - 1 : bitmap_test(c, i) = (bitmap_test(b, i) \/ i = s)
    <3>1. \A i : bitmap_test(b, i) \in BOOLEAN /\ bitmap_test(c, i) \in BOOLEAN
      BY DEF bitmap_test
    <3>2. /\ IsBitmap(c, n) /\ bitmap_test(c, s) = TRUE
          /\ \A j \in 0 .. n - 1 : j # s => bitmap_test(c, j) = bitmap_test(b, j)
      <4>1. s \in 0 .. n - 1
        BY <2>3
      <4>2. /\ IsBitmap(bitmap_set(b, s, TRUE), n) /\ bitmap_test(bitmap_set(b, s, TRUE), s) = TRUE
            /\ \A j \in 0 .. n - 1 : j # s =>
                 bitmap_test(bitmap_set(b, s, TRUE), j) = bitmap_test(b, j)
        <5>1. SetsOnly(b, bitmap_set(b, s, TRUE), n, s, TRUE)
          <6>1. \A value \in BOOLEAN : SetsOnly(b, bitmap_set(b, s, value), n, s, value)
            BY <4>1, SetsOnlyOne
          <6>2. TRUE \in BOOLEAN
            OBVIOUS
          <6>3. QED
            BY <6>1, <6>2, Zenon
        <5>2. QED
          BY <5>1, Zenon DEF SetsOnly
      <4> HIDE DEF c
      <4>3. QED
        BY <2>5, <4>2
    <3>3. QED
      BY <3>1, <3>2
  <2>8. QED
    BY <2>3, <2>6, <2>7 DEF s
<1>3. QED
  BY <1>1, <1>2

(***************************************************************************)
(* free_map_release of a sector clears its bit and no other.               *)
(***************************************************************************)
THEOREM ReleasesOne ==
    ASSUME NEW n \in Nat, NEW b, IsBitmap(b, n), NEW s \in 0 .. n - 1
    PROVE  LET c == bitmap_set_multiple(b, s, 1, FALSE)
           IN  /\ IsBitmap(c, n)
               /\ \A i \in 0 .. n - 1 : bitmap_test(c, i) <=> bitmap_test(b, i) /\ i # s
<1> DEFINE c == bitmap_set_multiple(b, s, 1, FALSE)
<1>1. c = bitmap_set(b, s, FALSE)
  BY SetSingle, s \in Nat, Zenon
<1>2. \A i : bitmap_test(b, i) \in BOOLEAN /\ bitmap_test(c, i) \in BOOLEAN
  BY DEF bitmap_test
<1>3. /\ IsBitmap(c, n) /\ bitmap_test(c, s) = FALSE
      /\ \A j \in 0 .. n - 1 : j # s => bitmap_test(c, j) = bitmap_test(b, j)
  <2>1. /\ IsBitmap(bitmap_set(b, s, FALSE), n) /\ bitmap_test(bitmap_set(b, s, FALSE), s) = FALSE
        /\ \A j \in 0 .. n - 1 : j # s =>
             bitmap_test(bitmap_set(b, s, FALSE), j) = bitmap_test(b, j)
    <3>1. SetsOnly(b, bitmap_set(b, s, FALSE), n, s, FALSE)
      <4>1. \A value \in BOOLEAN : SetsOnly(b, bitmap_set(b, s, value), n, s, value)
        BY SetsOnlyOne
      <4>2. FALSE \in BOOLEAN
        OBVIOUS
      <4>3. QED
        BY <4>1, <4>2, Zenon
    <3>2. QED
      BY <3>1, Zenon DEF SetsOnly
  <2> HIDE DEF c
  <2>2. QED
    BY <1>1, <2>1
<1>4. QED
  BY <1>2, <1>3

----------------------------------------------------------------------------
(***************************************************************************)
(* A process that reads the free map that another one wrote has its bits,  *)
(* whatever it had marked itself: the mask of the last element cuts none   *)
(* of them.                                                                *)
(***************************************************************************)
THEOREM ReadsBack ==
    ASSUME NEW n \in Nat \ {0}, NEW b, IsBitmap(b, n), NEW c, IsBitmap(c, n)
    PROVE  LET r == bitmap_read(c, bitmap_write(b))
           IN  /\ IsBitmap(r, n)
               /\ \A i \in 0 .. n - 1 : bitmap_test(r, i) = bitmap_test(b, i)
<1> DEFINE r == bitmap_read(c, bitmap_write(b))
           l == elem_cnt(n) - 1
<1>1. r.bits = [b.bits EXCEPT ![l] = @ \cap last_mask(c)] /\ r = [bit_cnt |-> n, bits |-> r.bits]
  <2> DEFINE F == [b.bits EXCEPT ![l] = @ \cap last_mask(c)]
  <2>1. c = [bit_cnt |-> n, bits |-> c.bits] /\ c.bit_cnt = n
    BY DEF IsBitmap
  <2>2. r = [c EXCEPT !.bits = F]
    BY <2>1, Zenon DEF bitmap_read, bitmap_write
  <2> HIDE DEF F
  <2>3. r = [bit_cnt |-> n, bits |-> F]
    BY <2>1, <2>2
  <2>4. r.bits = F
    BY <2>3
  <2>5. QED
    BY <2>3, <2>4 DEF F
<1>2. IsBitmap(r, n)
  BY <1>1 DEF IsBitmap, Elements
<1>3. ASSUME NEW i \in 0 .. n - 1 PROVE bitmap_test(r, i) = bitmap_test(b, i)
  <2>1. elem_idx(i) \in 0 .. l
    BY InElements
  <2>2. elem_idx(i) = l => i % ELEM_BITS \in last_mask(c)
    <3>1. last_mask(c) = IF n % ELEM_BITS # 0 THEN 0 .. (n % ELEM_BITS) - 1 ELSE 0 .. ELEM_BITS - 1
      BY DEF last_mask, IsBitmap
    <3>2. CASE n % ELEM_BITS = 0
      <4>1. last_mask(c) = 0 .. ELEM_BITS - 1
        BY <3>1, <3>2
      <4>2. i \in Nat
        OBVIOUS
      <4>3. QED
        BY <4>1, <4>2, Position
    <3>3. CASE n % ELEM_BITS # 0 /\ elem_idx(i) = l
      <4>1. l = elem_idx(n)
        BY <3>3, ElemAssumption, SMTT(30) DEF elem_cnt, elem_idx
      <4>2. i % ELEM_BITS < n % ELEM_BITS
        <5> DEFINE k == elem_idx(n) * ELEM_BITS
        <5>1. i = k + (i % ELEM_BITS) /\ n = k + (n % ELEM_BITS)
          BY <3>3, <4>1, Position
        <5>2. k \in Nat /\ i % ELEM_BITS \in Nat /\ n % ELEM_BITS \in Nat
          <6>1. i \in Nat /\ n \in Nat
            OBVIOUS
          <6>2. elem_idx(n) \in Nat /\ i % ELEM_BITS \in Nat /\ n % ELEM_BITS \in Nat
            BY <6>1, Position, ElemAssumption
          <6>3. k \in Nat
            BY <6>2, ElemAssumption
          <6>4. QED
            BY <6>2, <6>3
        <5> HIDE DEF k
        <5>3. QED
          BY <5>1, <5>2
      <4>3. QED
        BY <3>1, <3>3, <4>2, Position
    <3>4. QED
      BY <3>2, <3>3
  <2>3. QED
    BY <1>1, <2>1, <2>2 DEF bitmap_test, bit_mask, IsBitmap, Elements
<1>4. QED
  BY <1>2, <1>3
=============================================================================

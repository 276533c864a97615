------------------------------- MODULE Bitmap -------------------------------
(***************************************************************************)
(* fs/bitmap.c: an array of bits in elements of ELEM_BITS bits.  An        *)
(* element is the set of its positions that are 1.                         *)
(***************************************************************************)
EXTENDS Integers, FiniteSetsExt

CONSTANTS ELEM_BITS,     \* bits of an elem_type
          BITMAP_ERROR   \* what a scan that finds nothing returns

ASSUME ElemAssumption == ELEM_BITS \in Nat \ {0} /\ BITMAP_ERROR \notin Nat

elem_idx(bit_idx) == bit_idx \div ELEM_BITS

bit_mask(bit_idx) == {bit_idx % ELEM_BITS}

elem_cnt(bit_cnt) == (bit_cnt + ELEM_BITS - 1) \div ELEM_BITS

\* The bits of the last element that are used.
last_mask(b) ==
    LET last_bits == b.bit_cnt % ELEM_BITS
    IN  IF last_bits # 0 THEN 0 .. last_bits - 1 ELSE 0 .. ELEM_BITS - 1

bitmap_create(bit_cnt) ==
    [bit_cnt |-> bit_cnt, bits |-> [k \in 0 .. elem_cnt(bit_cnt) - 1 |-> {}]]

bitmap_mark(b, bit_idx) == [b EXCEPT !.bits[elem_idx(bit_idx)] = @ \cup bit_mask(bit_idx)]

bitmap_reset(b, bit_idx) == [b EXCEPT !.bits[elem_idx(bit_idx)] = @ \ bit_mask(bit_idx)]

bitmap_set(b, idx, value) == IF value THEN bitmap_mark(b, idx) ELSE bitmap_reset(b, idx)

bitmap_test(b, idx) == b.bits[elem_idx(idx)] \cap bit_mask(idx) # {}

bitmap_set_multiple(b, start, cnt, value) ==
    LET after[i \in 0 .. cnt] ==
          IF i = 0 THEN b ELSE bitmap_set(after[i - 1], start + i - 1, value)
    IN  after[cnt]

bitmap_count(b, start, cnt, value) ==
    Cardinality({i \in start .. start + cnt - 1 : bitmap_test(b, i) = value})

bitmap_contains(b, start, cnt, value) ==
    \E i \in start .. start + cnt - 1 : bitmap_test(b, i) = value

bitmap_all(b, start, cnt) == ~bitmap_contains(b, start, cnt, FALSE)

\* Where cnt bits from start on have the value.
Groups(b, start, cnt, value) ==
    {i \in start .. b.bit_cnt - cnt : ~bitmap_contains(b, i, cnt, ~value)}

bitmap_scan(b, start, cnt, value) ==
    IF Groups(b, start, cnt, value) = {} THEN BITMAP_ERROR
    ELSE Min(Groups(b, start, cnt, value))

\* The bitmap after bitmap_scan_and_flip, which returns bitmap_scan.
bitmap_scan_and_flip(b, start, cnt, value) ==
    LET idx == bitmap_scan(b, start, cnt, value)
    IN  IF idx = BITMAP_ERROR THEN b ELSE bitmap_set_multiple(b, idx, cnt, ~value)

\* bitmap_read of the elements that bitmap_write left in a file.
bitmap_read(b, file) ==
    [b EXCEPT !.bits = [file EXCEPT ![elem_cnt(b.bit_cnt) - 1] = @ \cap last_mask(b)]]

bitmap_write(b) == b.bits

\* The bits that are 1: what the bitmap stands for.
Marked(b) == {i \in 0 .. b.bit_cnt - 1 : bitmap_test(b, i)}
=============================================================================

----------------------------- MODULE ListProofs -----------------------------
(***************************************************************************)
(* What the operations of fs/list.c do to a doubly linked list, for every  *)
(* set of elements and every list.                                         *)
(***************************************************************************)
EXTENDS Lists, FiniteSetTheorems, TLAPS

\* What the functions of list.c may be called with.
Headers == head # tail /\ {head, tail} \cap Elems = {}

Links == [Nodes -> [prev : Nodes \cup {None}, next : Nodes \cup {None}]]

ListOf(L, M) == L \in Links /\ M \subseteq Elems /\ Linked(L, M)

(* A list that was initialised is empty (llist_init).                      *)
THEOREM EmptyLinked ==
    ASSUME Headers
    PROVE  ListOf(llist_init, {})
  BY DEF Headers, ListOf, Links, llist_init, Linked, Nodes

----------------------------------------------------------------------------
LEMMA InsertLinks ==
    ASSUME Headers, NEW L, NEW M, ListOf(L, M),
           NEW before \in M \cup {tail}, NEW e \in Elems \ M
    PROVE  LET p == L[before].prev
               R == list_insert(L, before, e)
           IN  /\ p \in M \cup {head} /\ L[p].next = before
               /\ p \in Nodes /\ before \in Nodes /\ e \in Nodes
               /\ e # p /\ e # before /\ e # head /\ e # tail
               /\ R \in Links
               /\ R[e].prev = p /\ R[e].next = before /\ R[before].prev = e /\ R[p].next = e
               /\ \A n \in Nodes \ {e, p} : R[n].next = L[n].next
               /\ \A n \in Nodes \ {e, before} : R[n].prev = L[n].prev
<1> DEFINE p == L[before].prev
           R == list_insert(L, before, e)
<1>1. /\ p \in M \cup {head} /\ L[p].next = before
      /\ p \in Nodes /\ before \in Nodes /\ e \in Nodes
      /\ e # p /\ e # before /\ e # head /\ e # tail
  BY DEF Headers, ListOf, Linked, Nodes
<1>2. R \in Links
  BY <1>1 DEF list_insert, Links, ListOf
<1>3. /\ R[e].prev = p /\ R[e].next = before /\ R[before].prev = e /\ R[p].next = e
      /\ \A n \in Nodes \ {e, p} : R[n].next = L[n].next
      /\ \A n \in Nodes \ {e, before} : R[n].prev = L[n].prev
  <2>1. CASE p = before
    BY <1>1, <2>1 DEF list_insert, Links, ListOf
  <2>2. CASE p # before
    BY <1>1, <2>2 DEF list_insert, Links, ListOf
  <2>3. QED
    BY <2>1, <2>2
<1>4. QED
  BY <1>1, <1>2, <1>3

(* An element that is not in the list is put in front of one that is, or   *)
(* of the tail: then it is in the list too.                                *)
THEOREM InsertLinked ==
    ASSUME Headers, NEW L, NEW M, ListOf(L, M),
           NEW before \in M \cup {tail}, NEW e \in Elems \ M
    PROVE  ListOf(list_insert(L, before, e), M \cup {e})
<1> DEFINE p == L[before].prev
           R == list_insert(L, before, e)
<1>1. /\ p \in M \cup {head} /\ L[p].next = before
      /\ p \in Nodes /\ before \in Nodes /\ e \in Nodes
      /\ e # p /\ e # before /\ e # head /\ e # tail
  BY InsertLinks
<1>2. R \in Links
  BY InsertLinks
<1>3. /\ R[e].prev = p /\ R[e].next = before /\ R[before].prev = e /\ R[p].next = e
      /\ \A n \in Nodes \ {e, p} : R[n].next = L[n].next
      /\ \A n \in Nodes \ {e, before} : R[n].prev = L[n].prev
  BY InsertLinks
<1>4. ASSUME NEW n \in M \cup {e, head}
      PROVE  R[n].next \in M \cup {e, tail} /\ R[R[n].next].prev = n
  <2>1. CASE n = e
    BY <1>3, <2>1
  <2>2. CASE n = p
    BY <1>3, <2>2
  <2>3. CASE n # e /\ n # p
    <3>1. /\ n \in M \cup {head} /\ n \in Nodes
          /\ L[n].next \in M \cup {tail} /\ L[L[n].next].prev = n
      BY <2>3 DEF ListOf, Linked, Nodes
    <3>2. L[n].next \in Nodes \ {e, before}
      BY <1>1, <2>3, <3>1 DEF ListOf, Nodes
    <3>3. QED
      BY <1>3, <2>3, <3>1, <3>2
  <2>4. QED
    BY <2>1, <2>2, <2>3
<1>5. ASSUME NEW n \in M \cup {e, tail}
      PROVE  R[n].prev \in M \cup {e, head} /\ R[R[n].prev].next = n
  <2>1. CASE n = e
    BY <1>1, <1>3, <2>1
  <2>2. CASE n = before
    BY <1>3, <2>2
  <2>3. CASE n # e /\ n # before
    <3>1. /\ n \in M \cup {tail} /\ n \in Nodes
          /\ L[n].prev \in M \cup {head} /\ L[L[n].prev].next = n
      BY <2>3 DEF ListOf, Linked, Nodes
    <3>2. L[n].prev \in Nodes \ {e, p}
      BY <1>1, <2>3, <3>1 DEF ListOf, Nodes
    <3>3. QED
      BY <1>3, <2>3, <3>1, <3>2
  <2>4. QED
    BY <2>1, <2>2, <2>3
<1>6. M \cup {e} \subseteq Elems
  BY DEF ListOf
<1>7. QED
  BY <1>2, <1>4, <1>5, <1>6 DEF ListOf, Linked

----------------------------------------------------------------------------
(* What list_remove leaves: the neighbours have each other, and the element*)
(* keeps its links.                                                        *)
LEMMA RemoveLinks ==
    ASSUME Headers, NEW L, NEW M, ListOf(L, M), NEW e \in M
    PROVE  LET R == list_remove(L, e)
               p == L[e].prev
               q == L[e].next
           IN  /\ p \in (M \ {e}) \cup {head} \/ p = e
               /\ q \in (M \ {e}) \cup {tail} \/ q = e
               /\ R \in Links /\ p \in Nodes /\ q \in Nodes
               /\ p # e <=> q # e
               /\ R[p].next = q /\ R[q].prev = p
               /\ \A n \in Nodes \ {p} : R[n].next = L[n].next
               /\ \A n \in Nodes \ {q} : R[n].prev = L[n].prev
<1> DEFINE R == list_remove(L, e)
           p == L[e].prev
           q == L[e].next
<1>1. /\ p \in M \cup {head} /\ q \in M \cup {tail} /\ L[p].next = e /\ L[q].prev = e
      /\ p \in Nodes /\ q \in Nodes /\ e \in Nodes
  BY DEF Headers, ListOf, Linked, Nodes
<1>2. p # e <=> q # e
  BY <1>1
<1>3. R \in Links
  BY <1>1 DEF list_remove, Links, ListOf
<1>4. /\ R[p].next = q
      /\ \A n \in Nodes \ {p} : R[n].next = L[n].next
  BY <1>1 DEF list_remove, Links, ListOf
<1>5. /\ R[q].prev = p
      /\ \A n \in Nodes \ {q} : R[n].prev = L[n].prev
  BY <1>1 DEF list_remove, Links, ListOf
<1>6. QED
  BY <1>1, <1>2, <1>3, <1>4, <1>5

(* An element that is taken off is not in the list, and all others are     *)
(* still (list_remove).                                                    *)
THEOREM RemoveLinked ==
    ASSUME Headers, NEW L, NEW M, ListOf(L, M), NEW e \in M
    PROVE  ListOf(list_remove(L, e), M \ {e})
<1> DEFINE R == list_remove(L, e)
           p == L[e].prev
           q == L[e].next
<1>1. /\ p \in (M \ {e}) \cup {head} \/ p = e
      /\ q \in (M \ {e}) \cup {tail} \/ q = e
      /\ R \in Links /\ p \in Nodes /\ q \in Nodes /\ (p # e <=> q # e)
      /\ R[p].next = q /\ R[q].prev = p
      /\ \A n \in Nodes \ {p} : R[n].next = L[n].next
      /\ \A n \in Nodes \ {q} : R[n].prev = L[n].prev
  BY RemoveLinks
<1>2. ASSUME NEW n \in (M \ {e}) \cup {head}
      PROVE  R[n].next \in (M \ {e}) \cup {tail} /\ R[R[n].next].prev = n
  <2>1. n \in Nodes /\ n # e /\ L[n].next \in M \cup {tail} /\ L[L[n].next].prev = n
        /\ L[n].next \in Nodes
    BY DEF Headers, ListOf, Linked, Nodes
  <2>2. CASE n = p
    BY <1>1, <2>1, <2>2
  <2>3. CASE n # p
    BY <1>1, <2>1, <2>3 DEF ListOf, Linked
  <2>4. QED
    BY <2>2, <2>3
<1>3. ASSUME NEW n \in (M \ {e}) \cup {tail}
      PROVE  R[n].prev \in (M \ {e}) \cup {head} /\ R[R[n].prev].next = n
  <2>1. n \in Nodes /\ n # e /\ L[n].prev \in M \cup {head} /\ L[L[n].prev].next = n
        /\ L[n].prev \in Nodes
    BY DEF Headers, ListOf, Linked, Nodes
  <2>2. CASE n = q
    BY <1>1, <2>1, <2>2
  <2>3. CASE n # q
    BY <1>1, <2>1, <2>3 DEF ListOf, Linked
  <2>4. QED
    BY <2>2, <2>3
<1>4. M \ {e} \subseteq Elems
  BY DEF ListOf
<1>5. QED
  BY <1>1, <1>2, <1>3, <1>4 DEF ListOf, Linked

(* Taking an element off once more does nothing, as long as its neighbours *)
(* are the same: free_file_table does so after list_pop_front.             *)
THEOREM RemoveTwice ==
    ASSUME Headers, NEW L, NEW M, ListOf(L, M), NEW e \in M, L[e].next # e
    PROVE  list_remove(list_remove(L, e), e) = list_remove(L, e)
<1> DEFINE R == list_remove(L, e)
           p == L[e].prev
           q == L[e].next
           S == list_remove(R, e)
<1>1. /\ R \in Links /\ p \in Nodes /\ q \in Nodes /\ p # e /\ q # e /\ e \in Nodes
      /\ R[p].next = q /\ R[q].prev = p
      /\ \A n \in Nodes \ {p} : R[n].next = L[n].next
      /\ \A n \in Nodes \ {q} : R[n].prev = L[n].prev
  BY RemoveLinks DEF ListOf, Nodes
<1>2. R[e].prev = p /\ R[e].next = q
  BY <1>1
<1>3. S = [R EXCEPT ![p].next = q, ![q].prev = p]
  BY <1>2 DEF list_remove
<1>4. [R EXCEPT ![p].next = q] = R
  BY <1>1 DEF Links
<1>5. [R EXCEPT ![q].prev = p] = R
  BY <1>1 DEF Links
<1>6. QED
  BY <1>3, <1>4, <1>5

----------------------------------------------------------------------------
(* The order of a list, and what a loop over it visits.                    *)

(***************************************************************************)
(* r is the way through L: the head, n different elements, the tail.       *)
(***************************************************************************)
Path(L, r, n) ==
    /\ r \in [0 .. n + 1 -> Nodes] /\ r[0] = head /\ r[n + 1] = tail
    /\ \A i \in 1 .. n : r[i] \in Elems
    /\ \A i, j \in 1 .. n : r[i] = r[j] => i = j
    /\ \A i \in 0 .. n : L[r[i]].next = r[i + 1] /\ L[r[i + 1]].prev = r[i]

Along(r, n) == {r[i] : i \in 1 .. n}

\* L lists the elements M, in some order, and has no other cycle.
IsList(L, M) == L \in Links /\ \E n \in Nat : \E r : Path(L, r, n) /\ M = Along(r, n)

LEMMA PathApart ==
    ASSUME Headers, NEW L, NEW n \in Nat, NEW r, Path(L, r, n),
           NEW i \in 0 .. n + 1, NEW j \in 0 .. n + 1, r[i] = r[j]
    PROVE  i = j
<1>1. \A k \in 1 .. n : r[k] # head /\ r[k] # tail
  BY DEF Path, Headers
<1> DEFINE ends == {k \in 0 .. n + 1 : k \notin 1 .. n}
<1>6. \A k \in ends : k \in {0, n + 1} /\ r[k] \in {head, tail}
  <2>1. ends = {0, n + 1}
    OBVIOUS
  <2>2. QED
    BY <2>1 DEF Path
<1> HIDE DEF ends
<1>2. CASE i \in 1 .. n /\ j \in 1 .. n
  BY <1>2 DEF Path
<1>3. CASE i \in 1 .. n /\ j \in ends
  BY <1>1, <1>3, <1>6
<1>4. CASE i \in ends /\ j \in 1 .. n
  BY <1>1, <1>4, <1>6
<1>5. CASE i \in ends /\ j \in ends
  <2>1. i \in {0, n + 1} /\ j \in {0, n + 1}
    BY <1>5, <1>6
  <2>2. r[0] # r[n + 1]
    BY DEF Path, Headers
  <2>3. QED
    BY <2>1, <2>2
<1>7. QED
  BY <1>2, <1>3, <1>4, <1>5 DEF ends

(* Both directions agree, and the elements are the ones on the way.        *)
THEOREM IsListLinked ==
    ASSUME Headers, NEW L, NEW M, IsList(L, M)
    PROVE  ListOf(L, M)
<1>0. PICK n \in Nat : \E r : Path(L, r, n) /\ M = Along(r, n)
  BY DEF IsList
<1>1. PICK r : Path(L, r, n) /\ M = Along(r, n)
  BY <1>0
<1>2. M \subseteq Elems /\ L \in Links
  BY <1>1 DEF Path, Along, IsList
<1>3. ASSUME NEW m \in M \cup {head}
      PROVE  L[m].next \in M \cup {tail} /\ L[L[m].next].prev = m
  <2>1. PICK i \in 0 .. n : m = r[i]
    BY <1>1, <1>3 DEF Path, Along
  <2>2. r[i + 1] \in M \cup {tail}
    <3>1. CASE i = n
      BY <3>1, <1>1 DEF Path
    <3>2. CASE i # n
      <4>1. i + 1 \in 1 .. n
        BY <3>2
      <4>2. QED
        BY <4>1, <1>1 DEF Along
    <3>3. QED
      BY <3>1, <3>2
  <2>3. QED
    BY <2>1, <2>2, <1>1 DEF Path
<1>4. ASSUME NEW m \in M \cup {tail}
      PROVE  L[m].prev \in M \cup {head} /\ L[L[m].prev].next = m
  <2>1. PICK k \in 1 .. n + 1 : m = r[k]
    <3>1. CASE m = tail
      BY <3>1, <1>1 DEF Path
    <3>2. CASE m \in M
      BY <3>2, <1>1 DEF Along
    <3>3. QED
      BY <3>1, <3>2
  <2>2. k - 1 \in 0 .. n /\ (k - 1) + 1 = k
    OBVIOUS
  <2>3. r[k - 1] \in M \cup {head}
    <3>1. CASE k = 1
      BY <3>1, <1>1 DEF Path
    <3>2. CASE k # 1
      <4>1. k - 1 \in 1 .. n
        BY <3>2
      <4>2. QED
        BY <4>1, <1>1 DEF Along
    <3>3. QED
      BY <3>1, <3>2
  <2>4. L[r[k - 1]].next = r[k] /\ L[r[k]].prev = r[k - 1]
    BY <2>2, <1>1 DEF Path
  <2>5. QED
    BY <2>1, <2>3, <2>4
<1>5. QED
  BY <1>2, <1>3, <1>4 DEF ListOf, Linked

LEMMA Smallest ==
    ASSUME NEW T, T \subseteq Nat, T # {}
    PROVE  \E m \in T : \A k \in T : m <= k
<1> DEFINE R == {x \in Nat \X Nat : x[1] < x[2]}
<1>1. R = OpToRel(<, Nat)
  BY DEF OpToRel
<1>2. IsWellFoundedOn(R, Nat)
  BY <1>1, NatLessThanWellFounded
<1>3. PICK m \in T : \A k \in T : ~ (<<k, m>> \in R)
  <2> HIDE DEF R
  <2> QED
    BY <1>2, WFMin
<1>4. ASSUME NEW k \in T PROVE m <= k
  <2>1. ~ (<<k, m>> \in R) /\ <<k, m>> \in Nat \X Nat
    BY <1>3
  <2>2. ~ (k < m)
    BY <2>1
  <2>3. QED
    BY <2>2
<1>5. QED
  BY <1>4

(***************************************************************************)
(* A loop from list_begin to list_end visits every element of the list and *)
(* nothing else.  By the place in the list, up to the least one at which   *)
(* the loop would be elsewhere; there are no more places than elements.    *)
(***************************************************************************)
THEOREM LoopVisits ==
    ASSUME Headers, None \notin Elems, IsFiniteSet(Elems), NEW L, NEW M, IsList(L, M)
    PROVE  Elements(L) = M
<1> DEFINE N == Cardinality(Elems)
           Loop(f) == [k \in 1 .. N |-> IF k = 1 THEN list_begin(L) ELSE list_next(L, f[k - 1])]
           at == CHOOSE f : f = Loop(f)
<1>0. PICK n \in Nat : \E r : Path(L, r, n) /\ M = Along(r, n)
  BY DEF IsList
<1>1. PICK r : Path(L, r, n) /\ M = Along(r, n)
  BY <1>0
<1>2. N \in Nat /\ n <= N
  <2>1. N \in Nat
    BY FS_CardinalityType
  <2>2. [i \in 1 .. n |-> r[i]] \in Injection(1 .. n, Elems)
    BY <1>1 DEF Path, Injection, IsInjective
  <2>3. Cardinality(1 .. n) <= N
    BY <2>2, FS_Injection
  <2>4. Cardinality(1 .. n) = n
    BY FS_Interval
  <2>5. QED
    BY <2>1, <2>3, <2>4
<1> HIDE DEF N
<1> DEFINE g == [k \in 1 .. N |-> IF k <= n THEN r[k] ELSE tail]
<1>3. g = Loop(g)
  <2>1. ASSUME NEW k \in 1 .. N PROVE g[k] = Loop(g)[k]
    <3>1. CASE k = 1
      <4>1. list_begin(L) = r[1]
        BY <1>1, 0 \in 0 .. n, 0 + 1 = 1 DEF Path, list_begin
      <4>2. CASE n = 0
        BY <3>1, <4>1, <4>2, <1>1 DEF Path
      <4>3. CASE n # 0
        BY <3>1, <4>1, <4>3
      <4>4. QED
        BY <4>2, <4>3
    <3>2. CASE k # 1 /\ k <= n + 1
      <4>1. k - 1 \in 1 .. n /\ k - 1 \in 1 .. N /\ k - 1 \in 0 .. n /\ (k - 1) + 1 = k
        BY <3>2, <1>2
      <4>2. g[k - 1] = r[k - 1] /\ r[k - 1] \in Elems
        BY <4>1, <1>1 DEF Path
      <4>3. list_next(L, g[k - 1]) = L[r[k - 1]].next
        BY <4>2 DEF list_next, Headers
      <4>4. L[r[k - 1]].next = r[k]
        BY <4>1, <1>1 DEF Path
      <4>5. g[k] = r[k]
        <5>1. CASE k = n + 1
          BY <5>1, <1>1, <1>2 DEF Path
        <5>2. CASE k <= n
          BY <5>2
        <5>3. QED
          BY <3>2, <5>1, <5>2
      <4>6. QED
        BY <3>2, <4>3, <4>4, <4>5
    <3>3. CASE k > n + 1
      <4>1. k - 1 \in 1 .. N /\ k - 1 > n /\ k # 1
        BY <3>3, <1>2
      <4>2. g[k - 1] = tail /\ g[k] = tail
        BY <3>3, <4>1, <1>2
      <4>3. QED
        BY <4>1, <4>2 DEF list_next
    <3>4. QED
      BY <3>1, <3>2, <3>3
  <2>2. QED
    BY <2>1
<1>4. at = Loop(at)
  BY <1>3
<1> HIDE DEF at
<1>5. \A k \in 1 .. N : at[k] = IF k = 1 THEN list_begin(L) ELSE list_next(L, at[k - 1])
  BY <1>4
<1>6. \A k \in 1 .. N : g[k] = IF k = 1 THEN list_begin(L) ELSE list_next(L, g[k - 1])
  BY <1>3
<1> DEFINE T == {k \in 1 .. N : at[k] # g[k]}
<1>7. T = {}
  <2>1. SUFFICES ASSUME T # {} PROVE FALSE
    OBVIOUS
  <2>2. T \subseteq Nat
    OBVIOUS
  <2> HIDE DEF g
  <2>3. PICK m \in T : \A k \in T : m <= k
    <3> HIDE DEF T
    <3> QED
      BY <2>1, <2>2, Smallest
  <2>4. CASE m = 1
    BY <2>4, <1>5, <1>6, <2>3
  <2>5. CASE m # 1
    <3>1. m \in 1 .. N /\ m - 1 \in 1 .. N
      BY <2>3, <2>5, <1>2
    <3>2. at[m - 1] = g[m - 1]
      <4>1. m - 1 \in T => m <= m - 1
        BY <2>3
      <4>2. QED
        BY <3>1, <4>1
    <3>3. at[m] = g[m]
      BY <2>5, <3>1, <3>2, <1>5, <1>6
    <3>4. QED
      BY <2>3, <3>3
  <2>6. QED
    BY <2>4, <2>5
<1>8. {at[k] : k \in 1 .. N} \cap Elems = M
  <2>1. \A k \in 1 .. N : at[k] = IF k <= n THEN r[k] ELSE tail
    BY <1>7
  <2>2. \A k \in 1 .. n : k \in 1 .. N /\ r[k] \in Elems
    BY <1>1, <1>2 DEF Path
  <2>3. tail \notin Elems
    BY DEF Headers
  <2>4. QED
    BY <1>1, <2>1, <2>2, <2>3 DEF Along
<1>9. Elements(L) = {at[k] : k \in 1 .. N} \cap Elems
  BY DEF Elements, at, N
<1>10. QED
  BY <1>8, <1>9

----------------------------------------------------------------------------
(* The operations, on the way through a list.                              *)

THEOREM EmptyIsList ==
    ASSUME Headers
    PROVE  IsList(llist_init, {})
<1> DEFINE r == [i \in 0 .. 1 |-> IF i = 0 THEN head ELSE tail]
<1>1. llist_init \in Links
  BY EmptyLinked DEF ListOf
<1>2. llist_init[head].next = tail /\ llist_init[tail].prev = head
  BY DEF llist_init, Nodes
<1>3. r \in [0 .. 0 + 1 -> Nodes] /\ r[0] = head /\ r[0 + 1] = tail
  BY DEF Nodes
<1>4. \A i \in 0 .. 0 : i = 0
  OBVIOUS
<1>5. Path(llist_init, r, 0)
  BY <1>2, <1>3, <1>4 DEF Path
<1>6. Along(r, 0) = {}
  BY DEF Along
<1>7. QED
  BY <1>1, <1>5, <1>6, 0 \in Nat DEF IsList

THEOREM InsertIsList ==
    ASSUME Headers, NEW L, NEW M, IsList(L, M),
           NEW before \in M \cup {tail}, NEW e \in Elems \ M
    PROVE  IsList(list_insert(L, before, e), M \cup {e})
<1> DEFINE p == L[before].prev
           R == list_insert(L, before, e)
<1>1. ListOf(L, M)
  BY IsListLinked
<1>0. PICK n \in Nat : \E r : Path(L, r, n) /\ M = Along(r, n)
  BY DEF IsList
<1>2. PICK r : Path(L, r, n) /\ M = Along(r, n)
  BY <1>0
<1>3. PICK k \in 1 .. n + 1 : before = r[k]
  <2>1. CASE before = tail
    BY <2>1, <1>2 DEF Path
  <2>2. CASE before \in M
    BY <2>2, <1>2 DEF Along
  <2>3. QED
    BY <2>1, <2>2
<1>4. /\ p \in Nodes /\ before \in Nodes /\ e \in Nodes /\ R \in Links
      /\ R[e].prev = p /\ R[e].next = before /\ R[before].prev = e /\ R[p].next = e
      /\ \A m \in Nodes \ {e, p} : R[m].next = L[m].next
      /\ \A m \in Nodes \ {e, before} : R[m].prev = L[m].prev
  BY <1>1, InsertLinks
<1>5. p = r[k - 1] /\ k - 1 \in 0 .. n
  <2>1. k - 1 \in 0 .. n /\ (k - 1) + 1 = k
    OBVIOUS
  <2>2. QED
    BY <2>1, <1>2, <1>3 DEF Path
<1>6. \A i \in 0 .. n + 1 : r[i] # e /\ r[i] \in Nodes
  <2>1. \A i \in 1 .. n : r[i] # e
    BY <1>2 DEF Along
  <2>2. r[0] # e /\ r[n + 1] # e
    BY <1>2 DEF Path, Headers
  <2>3. \A i \in 0 .. n + 1 : i \in 1 .. n \/ i = 0 \/ i = n + 1
    OBVIOUS
  <2>4. \A i \in 0 .. n + 1 : r[i] # e
    BY <2>1, <2>2, <2>3
  <2>5. \A i \in 0 .. n + 1 : r[i] \in Nodes
    BY <1>2 DEF Path
  <2>6. QED
    BY <2>4, <2>5
<1> HIDE DEF p, R
<1> DEFINE t == [i \in 0 .. (n + 1) + 1 |-> IF i < k THEN r[i] ELSE IF i = k THEN e ELSE r[i - 1]]
<1>7. \A i \in 0 .. n + 1 : R[t[i]].next = t[i + 1] /\ R[t[i + 1]].prev = t[i]
  <2>1. SUFFICES ASSUME NEW i \in 0 .. n + 1
                 PROVE  R[t[i]].next = t[i + 1] /\ R[t[i + 1]].prev = t[i]
    OBVIOUS
  <2>2. CASE i < k - 1
    <3>1. t[i] = r[i] /\ t[i + 1] = r[i + 1] /\ i \in 0 .. n /\ i + 1 \in 0 .. n + 1
      BY <2>2
    <3>2. L[r[i]].next = r[i + 1] /\ L[r[i + 1]].prev = r[i]
      BY <3>1, <1>2 DEF Path
    <3>3. r[i] # p /\ r[i + 1] # before
      <4>1. i # k - 1 /\ i + 1 # k /\ i \in 0 .. n + 1
        BY <2>2
      <4>2. QED
        BY <4>1, <3>1, <1>2, <1>3, <1>5, PathApart
    <3>4. QED
      BY <3>1, <3>2, <3>3, <1>4, <1>6
  <2>3. CASE i = k - 1
    <3>1. t[i] = p /\ t[i + 1] = e
      BY <2>3, <1>5
    <3>2. QED
      BY <3>1, <1>4
  <2>4. CASE i = k
    <3>1. t[i] = e /\ t[i + 1] = before
      BY <2>4, <1>3
    <3>2. QED
      BY <3>1, <1>4
  <2>5. CASE i > k
    <3>1. t[i] = r[i - 1] /\ t[i + 1] = r[i] /\ i - 1 \in 0 .. n /\ (i - 1) + 1 = i /\ i - 1 \in 0 .. n + 1
      BY <2>5
    <3>2. L[r[i - 1]].next = r[i] /\ L[r[i]].prev = r[i - 1]
      BY <3>1, <1>2 DEF Path
    <3>3. r[i - 1] # p /\ r[i] # before
      <4>1. i - 1 # k - 1 /\ i # k
        BY <2>5
      <4>2. QED
        BY <4>1, <3>1, <1>2, <1>3, <1>5, PathApart
    <3>4. QED
      BY <3>1, <3>2, <3>3, <1>4, <1>6
  <2>6. QED
    BY <2>2, <2>3, <2>4, <2>5
<1>8. t \in [0 .. (n + 1) + 1 -> Nodes] /\ t[0] = head /\ t[(n + 1) + 1] = tail
  <2>1. ASSUME NEW i \in 0 .. (n + 1) + 1 PROVE t[i] \in Nodes
    <3>1. CASE i < k
      BY <3>1, <1>6
    <3>2. CASE i = k
      BY <3>2, <1>4
    <3>3. CASE i > k
      <4>1. i - 1 \in 0 .. n + 1
        BY <3>3
      <4>2. QED
        BY <4>1, <3>3, <1>6
    <3>4. QED
      BY <3>1, <3>2, <3>3
  <2>2. QED
    BY <2>1, <1>2 DEF Path
<1>9. \A i \in 1 .. n + 1 : t[i] \in Elems
  <2>1. ASSUME NEW i \in 1 .. n + 1 PROVE t[i] \in Elems
    <3>1. CASE i < k
      BY <3>1, <1>2 DEF Path
    <3>2. CASE i = k
      BY <3>2
    <3>3. CASE i > k
      <4>1. i - 1 \in 1 .. n
        BY <3>3
      <4>2. QED
        BY <4>1, <3>3, <1>2 DEF Path
    <3>4. QED
      BY <3>1, <3>2, <3>3
  <2>2. QED
    BY <2>1
<1>10. \A i, j \in 1 .. n + 1 : t[i] = t[j] => i = j
  <2> DEFINE at(i) == IF i < k THEN i ELSE i - 1
  <2>1. \A i \in 1 .. n + 1 : i # k => at(i) \in 0 .. n + 1 /\ t[i] = r[at(i)] /\ t[i] # e
    BY <1>6
  <2>2. t[k] = e
    OBVIOUS
  <2>3. ASSUME NEW i \in 1 .. n + 1, NEW j \in 1 .. n + 1, t[i] = t[j] PROVE i = j
    <3>1. CASE i = k \/ j = k
      BY <3>1, <2>1, <2>2, <2>3
    <3>2. CASE i # k /\ j # k
      <4> DEFINE a == at(i)
                 b == at(j)
      <4>1. a \in 0 .. n + 1 /\ b \in 0 .. n + 1 /\ r[a] = t[i] /\ r[b] = t[j]
        BY <3>2, <2>1
      <4>2. a = b
        <5> HIDE DEF t, a, b
        <5> QED
          BY <4>1, <2>3, <1>2, PathApart
      <4>3. QED
        BY <4>2, <3>2
    <3>3. QED
      BY <3>1, <3>2
  <2>4. QED
    BY <2>3
<1>11. Along(t, n + 1) = M \cup {e}
  <2>1. ASSUME NEW i \in 1 .. n PROVE \E j \in 1 .. n + 1 : t[j] = r[i]
    <3>1. CASE i < k
      BY <3>1
    <3>2. CASE i >= k
      <4>1. i + 1 \in 1 .. n + 1 /\ t[i + 1] = r[i]
        BY <3>2
      <4> HIDE DEF t
      <4>2. QED
        BY <4>1
    <3> HIDE DEF t
    <3>3. QED
      BY <3>1, <3>2
  <2>2. t[k] = e
    OBVIOUS
  <2>3. ASSUME NEW j \in 1 .. n + 1 PROVE t[j] = e \/ \E i \in 1 .. n : t[j] = r[i]
    <3>1. CASE j < k
      <4>1. j \in 1 .. n /\ t[j] = r[j]
        BY <3>1
      <4>2. QED
        BY <4>1
    <3>2. CASE j = k
      BY <3>2
    <3>3. CASE j > k
      <4>1. j - 1 \in 1 .. n /\ t[j] = r[j - 1]
        BY <3>3
      <4>2. QED
        BY <4>1
    <3>4. QED
      BY <3>1, <3>2, <3>3
  <2> HIDE DEF t
  <2>4. QED
    BY <2>1, <2>2, <2>3, <1>2 DEF Along
<1>12. Path(R, t, n + 1)
  <2> HIDE DEF t
  <2> QED
    BY <1>7, <1>8, <1>9, <1>10 DEF Path
<1>13. QED
  <2> HIDE DEF t
  <2> n + 1 \in Nat
    OBVIOUS
  <2> QED
    BY <1>4, <1>11, <1>12 DEF IsList, R

THEOREM RemoveIsList ==
    ASSUME Headers, NEW L, NEW M, IsList(L, M), NEW e \in M
    PROVE  IsList(list_remove(L, e), M \ {e}) /\ L[e].next # e
<1> DEFINE p == L[e].prev
           q == L[e].next
           R == list_remove(L, e)
<1>1. ListOf(L, M)
  BY IsListLinked
<1>0. PICK n \in Nat : \E r : Path(L, r, n) /\ M = Along(r, n)
  BY DEF IsList
<1>2. PICK r : Path(L, r, n) /\ M = Along(r, n)
  BY <1>0
<1>3. PICK k \in 1 .. n : e = r[k]
  BY <1>2 DEF Along
<1>4. /\ R \in Links /\ p \in Nodes /\ q \in Nodes
      /\ R[p].next = q /\ R[q].prev = p
      /\ \A m \in Nodes \ {p} : R[m].next = L[m].next
      /\ \A m \in Nodes \ {q} : R[m].prev = L[m].prev
  BY <1>1, RemoveLinks
<1>5. /\ k - 1 \in 0 .. n /\ k \in 0 .. n /\ k + 1 \in 0 .. n + 1 /\ (k - 1) + 1 = k
      /\ p = r[k - 1] /\ q = r[k + 1]
  <2>1. k - 1 \in 0 .. n /\ k \in 0 .. n /\ k + 1 \in 0 .. n + 1 /\ (k - 1) + 1 = k
    OBVIOUS
  <2>2. QED
    BY <2>1, <1>2, <1>3 DEF Path
<1>6. q # e
  <2>1. k + 1 # k /\ k \in 0 .. n + 1
    OBVIOUS
  <2>2. QED
    BY <2>1, <1>2, <1>3, <1>5, PathApart
<1> HIDE DEF p, q, R
<1>7. \A i \in 0 .. n + 1 : r[i] \in Nodes
  BY <1>2 DEF Path
<1> DEFINE t == [i \in 0 .. (n - 1) + 1 |-> IF i < k THEN r[i] ELSE r[i + 1]]
<1>8. n - 1 \in Nat /\ (n - 1) + 1 = n
  OBVIOUS
<1>9. \A i \in 0 .. n - 1 : R[t[i]].next = t[i + 1] /\ R[t[i + 1]].prev = t[i]
  <2>1. SUFFICES ASSUME NEW i \in 0 .. n - 1
                 PROVE  R[t[i]].next = t[i + 1] /\ R[t[i + 1]].prev = t[i]
    OBVIOUS
  <2>2. CASE i < k - 1
    <3>1. t[i] = r[i] /\ t[i + 1] = r[i + 1] /\ i \in 0 .. n /\ i + 1 \in 0 .. n + 1 /\ i \in 0 .. n + 1
      BY <2>2
    <3>2. L[r[i]].next = r[i + 1] /\ L[r[i + 1]].prev = r[i]
      BY <3>1, <1>2 DEF Path
    <3>3. r[i] # p /\ r[i + 1] # q
      <4>1. i # k - 1 /\ i + 1 # k + 1 /\ k - 1 \in 0 .. n + 1
        BY <2>2
      <4>2. QED
        BY <4>1, <3>1, <1>2, <1>5, PathApart
    <3>4. QED
      BY <3>1, <3>2, <3>3, <1>4, <1>7
  <2>3. CASE i = k - 1
    <3>1. t[i] = p /\ t[i + 1] = q
      BY <2>3, <1>5
    <3>2. QED
      BY <3>1, <1>4
  <2>4. CASE i >= k
    <3>1. /\ t[i] = r[i + 1] /\ t[i + 1] = r[(i + 1) + 1] /\ i + 1 \in 0 .. n
          /\ i + 1 \in 0 .. n + 1 /\ (i + 1) + 1 \in 0 .. n + 1
      BY <2>4
    <3>2. L[r[i + 1]].next = r[(i + 1) + 1] /\ L[r[(i + 1) + 1]].prev = r[i + 1]
      BY <3>1, <1>2 DEF Path
    <3>3. r[i + 1] # p /\ r[(i + 1) + 1] # q
      <4> DEFINE a == i + 1
                 b == (i + 1) + 1
      <4>1. a # k - 1 /\ b # k + 1 /\ k - 1 \in 0 .. n + 1 /\ a \in 0 .. n + 1 /\ b \in 0 .. n + 1
        BY <2>4
      <4> HIDE DEF a, b
      <4>2. r[a] # r[k - 1] /\ r[b] # r[k + 1]
        BY <4>1, <1>2, <1>5, PathApart
      <4>3. QED
        BY <4>2, <1>5 DEF a, b
    <3>4. QED
      BY <3>1, <3>2, <3>3, <1>4, <1>7
  <2>5. QED
    BY <2>2, <2>3, <2>4
<1>10. t \in [0 .. (n - 1) + 1 -> Nodes] /\ t[0] = head /\ t[(n - 1) + 1] = tail
  <2>1. ASSUME NEW i \in 0 .. (n - 1) + 1 PROVE t[i] \in Nodes
    <3>1. CASE i < k
      BY <3>1, <1>7
    <3>2. CASE i >= k
      <4>1. i + 1 \in 0 .. n + 1 /\ t[i] = r[i + 1]
        BY <3>2
      <4>2. QED
        BY <4>1, <1>7
    <3>3. QED
      BY <3>1, <3>2
  <2>2. QED
    BY <2>1, <1>2 DEF Path
<1> DEFINE at(i) == IF i < k THEN i ELSE i + 1
<1>11. \A i \in 1 .. n - 1 : at(i) \in 1 .. n /\ at(i) \in 0 .. n + 1 /\ t[i] = r[at(i)] /\ at(i) # k
  OBVIOUS
<1>12. \A i \in 1 .. n - 1 : t[i] \in Elems
  <2>1. \A j \in 1 .. n : r[j] \in Elems
    BY <1>2 DEF Path
  <2> HIDE DEF t, at
  <2>2. QED
    BY <1>11, <2>1
<1>13. \A i, j \in 1 .. n - 1 : t[i] = t[j] => i = j
  <2>1. ASSUME NEW i \in 1 .. n - 1, NEW j \in 1 .. n - 1, t[i] = t[j] PROVE i = j
    <3> DEFINE a == at(i)
               b == at(j)
    <3>1. a \in 0 .. n + 1 /\ b \in 0 .. n + 1 /\ r[a] = t[i] /\ r[b] = t[j]
      BY <1>11
    <3>2. a = b
      <4> HIDE DEF t, a, b
      <4> QED
        BY <3>1, <2>1, <1>2, PathApart
    <3>3. QED
      BY <3>2
  <2>2. QED
    BY <2>1
<1>14. Along(t, n - 1) = M \ {e}
  <2>1. ASSUME NEW j \in 1 .. n, j # k PROVE \E i \in 1 .. n - 1 : t[i] = r[j]
    <3>1. CASE j < k
      BY <3>1
    <3>2. CASE j > k
      <4>1. j - 1 \in 1 .. n - 1 /\ t[j - 1] = r[j]
        BY <3>2
      <4> HIDE DEF t
      <4>2. QED
        BY <4>1
    <3> HIDE DEF t
    <3>3. QED
      BY <2>1, <3>1, <3>2
  <2>2. \A j \in 1 .. n : r[j] = e => j = k
    BY <1>2, <1>3 DEF Path
  <2>3. \A i \in 1 .. n - 1 : t[i] # e /\ t[i] \in M
    <3> HIDE DEF t, at
    <3> QED
      BY <1>11, <2>2, <1>2 DEF Along
  <2> HIDE DEF t
  <2>4. \A x \in M \ {e} : x \in Along(t, n - 1)
    <3>1. SUFFICES ASSUME NEW x \in M \ {e} PROVE x \in Along(t, n - 1)
      OBVIOUS
    <3>2. PICK j \in 1 .. n : x = r[j]
      BY <1>2 DEF Along
    <3>3. QED
      BY <3>2, <2>1, <1>3 DEF Along
  <2>5. \A x \in Along(t, n - 1) : x \in M \ {e}
    BY <2>3 DEF Along
  <2>6. QED
    BY <2>4, <2>5
<1>15. QED
  <2> HIDE DEF t
  <2>1. Path(R, t, n - 1)
    BY <1>8, <1>9, <1>10, <1>12, <1>13 DEF Path
  <2>2. IsList(R, M \ {e})
    BY <1>4, <1>8, <1>14, <2>1 DEF IsList
  <2>3. QED
    BY <2>2, <1>6 DEF R, q

(* An element that is not in the list may be given any links, as a new one *)
(* has.                                                                    *)
THEOREM ResetIsList ==
    ASSUME Headers, NEW L, NEW M, IsList(L, M), NEW e \in Elems \ M
    PROVE  IsList([L EXCEPT ![e] = llist_init[e]], M)
<1> DEFINE R == [L EXCEPT ![e] = llist_init[e]]
<1>0. PICK n \in Nat : \E r : Path(L, r, n) /\ M = Along(r, n)
  BY DEF IsList
<1>1. PICK r : Path(L, r, n) /\ M = Along(r, n)
  BY <1>0
<1>2. \A i \in 0 .. n + 1 : r[i] # e /\ r[i] \in Nodes
  <2>1. \A i \in 1 .. n : r[i] # e
    BY <1>1 DEF Along
  <2>2. r[0] # e /\ r[n + 1] # e
    BY <1>1 DEF Path, Headers
  <2>3. \A i \in 0 .. n + 1 : i \in 1 .. n \/ i = 0 \/ i = n + 1
    OBVIOUS
  <2>4. \A i \in 0 .. n + 1 : r[i] # e
    BY <2>1, <2>2, <2>3
  <2>5. \A i \in 0 .. n + 1 : r[i] \in Nodes
    BY <1>1 DEF Path
  <2>6. QED
    BY <2>4, <2>5
<1>3. llist_init \in Links /\ L \in Links /\ e \in Nodes
  BY EmptyLinked DEF ListOf, IsList, Nodes
<1>4. R \in Links /\ \A m \in Nodes : m # e => R[m] = L[m]
  BY <1>3 DEF Links
<1> HIDE DEF R
<1>5. Path(R, r, n)
  <2>1. \A i \in 0 .. n : R[r[i]] = L[r[i]] /\ R[r[i + 1]] = L[r[i + 1]]
    BY <1>2, <1>4
  <2>2. QED
    BY <1>1, <2>1 DEF Path
<1>6. QED
  BY <1>1, <1>4, <1>5 DEF IsList, R

(* What list_begin returns.                                                *)
THEOREM BeginsList ==
    ASSUME Headers, NEW L, NEW M, IsList(L, M)
    PROVE  list_begin(L) \in M \cup {tail} /\ (M # {} => list_begin(L) \in M)
<1>0. PICK n \in Nat : \E r : Path(L, r, n) /\ M = Along(r, n)
  BY DEF IsList
<1>1. PICK r : Path(L, r, n) /\ M = Along(r, n)
  BY <1>0
<1>2. list_begin(L) = r[1]
  BY <1>1, 0 \in 0 .. n, 0 + 1 = 1 DEF Path, list_begin
<1>3. CASE n = 0
  <2>1. M = {} /\ r[1] = tail
    BY <1>1, <1>3 DEF Path, Along
  <2>2. QED
    BY <1>2, <2>1
<1>4. CASE n # 0
  BY <1>1, <1>2, <1>4 DEF Along
<1>5. QED
  BY <1>3, <1>4
=============================================================================

-------------------------------- MODULE Lists --------------------------------
(***************************************************************************)
(* The doubly linked lists of fs/list.c.  A list is its links: a function  *)
(* from elements, and the two headers, to their prev and next.  An element *)
(* that is taken off keeps its links, as it does in the code.              *)
(***************************************************************************)
EXTENDS Integers, FiniteSets

CONSTANTS Elems,     \* what can be in a list
          head,      \* &list->head
          tail,      \* &list->tail
          None       \* NULL

Nodes == Elems \cup {head, tail}

llist_init == [n \in Nodes |-> [prev |-> IF n = tail THEN head ELSE None,
                                next |-> IF n = head THEN tail ELSE None]]

list_begin(L) == L[head].next

list_insert(L, before, e) ==
    [L EXCEPT ![e] = [prev |-> L[before].prev, next |-> before],
              ![L[before].prev].next = e,
              ![before].prev = e]

list_push_front(L, e) == list_insert(L, list_begin(L), e)

list_push_back(L, e) == list_insert(L, tail, e)

\* A bug: the element behind keeps its link to the one taken off.
list_remove_oneway(L, e) == [L EXCEPT ![L[e].prev].next = L[e].next]

list_remove(L, e) ==
    [L EXCEPT ![L[e].prev].next = L[e].next,
              ![L[e].next].prev = L[e].prev]

\* The list without its front element, which is list_begin(L).
list_pop_front(L) == list_remove(L, list_begin(L))

(***************************************************************************)
(* The elements a loop from list_begin to list_end visits.  A loop over    *)
(* broken links would not end: it is cut after as many steps as there are  *)
(* elements.                                                               *)
(***************************************************************************)
list_next(L, n) == IF n \in {tail, None} THEN n ELSE L[n].next

Elements(L) ==
    LET N == Cardinality(Elems)
        at[k \in 1 .. N] == IF k = 1 THEN list_begin(L) ELSE list_next(L, at[k - 1])
    IN  {at[k] : k \in 1 .. N} \cap Elems

(***************************************************************************)
(* L is a doubly linked list of the elements M: following next from the    *)
(* head, or prev from the tail, stays in M, and the two links agree.       *)
(***************************************************************************)
Linked(L, M) ==
    /\ \A n \in M \cup {head} : L[n].next \in M \cup {tail} /\ L[L[n].next].prev = n
    /\ \A n \in M \cup {tail} : L[n].prev \in M \cup {head} /\ L[L[n].prev].next = n
=============================================================================

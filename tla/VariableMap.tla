----------------------------- MODULE VariableMap -----------------------------
(***************************************************************************)
(* What the variables of a shell promise: a map from names to values with  *)
(* room for Capacity names.  A name that is new is ignored when there is   *)
(* no room, and only then.                                                 *)
(***************************************************************************)
EXTENDS Integers, FiniteSets

CONSTANTS Names,     \* names of variables
          Values,
          Capacity,
          FreeName,  \* the name that marks a free place: no variable has it
          None       \* what is shown for a name that has no value

VARIABLES map,       \* the values of the names that have one
          last       \* the last name that was set or shown, and its value

Request(op, v, x) == last' = [op |-> op, var |-> v, value |-> x]

Init == map = [n \in {} |-> None] /\ last = None

HasRoom(v) == v \in DOMAIN map \/ Cardinality(DOMAIN map) < Capacity

Set(v, x) ==
    /\ Request("set", v, x)
    /\ map' = IF HasRoom(v) THEN [n \in DOMAIN map \cup {v} |-> IF n = v THEN x ELSE map[n]]
              ELSE map

Show(v) == /\ Request("show", v, IF v \in DOMAIN map THEN map[v] ELSE None)
           /\ UNCHANGED map

\* What is shown for the free name is not specified.
UseFree == /\ \E op \in {"set", "show"}, x \in Values \cup {None} : Request(op, FreeName, x)
           /\ UNCHANGED map

Clear == map' = [n \in {} |-> None] /\ last' = None

Next == \/ \E v \in Names \ {FreeName} : Show(v) \/ \E x \in Values : Set(v, x)
        \/ UseFree \/ Clear

Spec == Init /\ [][Next]_<<map, last>>
=============================================================================

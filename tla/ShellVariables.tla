--------------------------- MODULE ShellVariables ---------------------------
(***************************************************************************)
(* The variables of the shells: the array of shellmemory.c (in a2 and a3   *)
(* the part of it that is not the frame store), searched from its start.   *)
(* A place whose name is FreeName is free.                                 *)
(***************************************************************************)
EXTENDS Integers, FiniteSets

CONSTANTS VAR_STORE_SIZE,  \* 1000 in a1, set by make in a2 and a3
          Names,           \* names of variables, FreeName among them
          Values,          \* what set joins from its words
          FreeName,        \* the name "none"
          FreeValue,       \* the value "none"
          None             \* no value: a message or an empty line

ASSUME StoreAssumption == VAR_STORE_SIZE \in Nat \ {0}
ASSUME NamesAssumption == FreeName \in Names /\ FreeValue \in Values

VARIABLES mem,    \* the array: a name and a value in each place
          last    \* the last variable that was set or displayed, with its value

memory == <<mem, last>>

Places == 1 .. VAR_STORE_SIZE

mem_init == [i \in Places |-> [var |-> FreeName, value |-> FreeValue]]

VarInit == mem = mem_init /\ last = None

Named(v) == {i \in Places : mem[i].var = v}

\* The place at which a search for name v ends.
First(i, v) == i \in Named(v) /\ \A j \in Named(v) : i <= j

Request(op, v, x) == last' = [op |-> op, var |-> v, value |-> x]

\* A bug: the place that the name already has is not looked for.
mem_set_value_twice(var_in, value_in) ==
    /\ \/ \E i \in Places : /\ First(i, FreeName)
                            /\ mem' = [mem EXCEPT ![i] = [var |-> var_in, value |-> value_in]]
       \/ Named(FreeName) = {} /\ mem' = mem
    /\ Request("set", var_in, value_in)

\* A bug: a name that finds no room takes the first place.
mem_set_value_steal(var_in, value_in) ==
    /\ \/ \E i \in Places : First(i, var_in) /\ mem' = [mem EXCEPT ![i].value = value_in]
       \/ \E i \in Places : /\ Named(var_in) = {}
                            /\ First(i, FreeName) \/ (Named(FreeName) = {} /\ i = 1)
                            /\ mem' = [mem EXCEPT ![i] = [var |-> var_in, value |-> value_in]]
    /\ Request("set", var_in, value_in)

\* A name that has no place gets the first free one, or is ignored.
mem_set_value(var_in, value_in) ==
    /\ \/ \E i \in Places : First(i, var_in) /\ mem' = [mem EXCEPT ![i].value = value_in]
       \/ \E i \in Places : /\ Named(var_in) = {} /\ First(i, FreeName)
                            /\ mem' = [mem EXCEPT ![i] = [var |-> var_in, value |-> value_in]]
       \/ Named(var_in) = {} /\ Named(FreeName) = {} /\ mem' = mem
    /\ Request("set", var_in, value_in)

mem_get_value(var_in) ==
    /\ \/ \E i \in Places : First(i, var_in) /\ Request("show", var_in, mem[i].value)
       \/ Named(var_in) = {} /\ Request("show", var_in, None)
    /\ UNCHANGED mem

mem_reset == mem' = mem_init /\ last' = None

VarNext == \/ \E v \in Names : mem_get_value(v) \/ \E x \in Values : mem_set_value(v, x)
           \/ mem_reset

VarSpec == VarInit /\ [][VarNext]_memory

----------------------------------------------------------------------------
MemOK == /\ mem \in [Places -> [var : Names, value : Values]]
         /\ last = None
            \/ last \in [op : {"set", "show"}, var : Names, value : Values \cup {None}]

\* No variable has two places.
OnePlace == \A i, j \in Places :
    mem[i].var = mem[j].var /\ mem[i].var # FreeName => i = j

VarInv == MemOK /\ OnePlace

(***************************************************************************)
(* The array is a map with VAR_STORE_SIZE entries.  What is set under the  *)
(* name of the free places is lost or comes back, but never disturbs a     *)
(* variable.                                                               *)
(***************************************************************************)
Stored == {mem[i].var : i \in Places} \ {FreeName}

Map == [v \in Stored |-> mem[CHOOSE i \in Named(v) : TRUE].value]

Variables == INSTANCE VariableMap WITH map <- Map, Capacity <- VAR_STORE_SIZE

MapSpec == Variables!Spec
=============================================================================

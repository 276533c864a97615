---------------------------- MODULE ShellsProofs ----------------------------
(***************************************************************************)
(* Proofs about Shells, for all three programs, every line that is typed   *)
(* and every script.                                                       *)
(*                                                                         *)
(* What a line means to the parsers stays open: the proofs are about what  *)
(* the shell does with the sections it gets, which commands it interprets  *)
(* and which calls and queued scripts it still has to come back from.      *)
(***************************************************************************)
EXTENDS Shells, SequenceTheorems, FiniteSetTheorems, TLAPS

----------------------------------------------------------------------------
(* The array of variables implements a map with VAR_STORE_SIZE entries,    *)
(* for every size, every set of names and every set of values.             *)
LEMMA FreshInv == mem = mem_init /\ last = None => VarInv
  BY NamesAssumption DEF VarInv, MemOK, OnePlace, mem_init, Places

LEMMA SetInv ==
    ASSUME VarInv, NEW v \in Names, NEW x \in Values, mem_set_value(v, x)
    PROVE  VarInv'
<1>1. last' \in [op : {"set", "show"}, var : Names, value : Values \cup {None}]
  BY DEF mem_set_value, Request
<1>2. CASE \E i \in Places : First(i, v) /\ mem' = [mem EXCEPT ![i].value = x]
  BY <1>1, <1>2 DEF VarInv, MemOK, OnePlace
<1>3. CASE \E i \in Places : /\ Named(v) = {} /\ First(i, FreeName)
                             /\ mem' = [mem EXCEPT ![i] = [var |-> v, value |-> x]]
  BY <1>1, <1>3 DEF VarInv, MemOK, OnePlace, Named
<1>4. CASE mem' = mem
  BY <1>1, <1>4 DEF VarInv, MemOK, OnePlace
<1>5. QED
  BY <1>2, <1>3, <1>4 DEF mem_set_value

LEMMA GetInv ==
    ASSUME VarInv, NEW v \in Names, mem_get_value(v)
    PROVE  VarInv'
  BY DEF VarInv, MemOK, OnePlace, mem_get_value, Request, First, Named

LEMMA VarNextInv ==
    ASSUME VarInv, [VarNext]_memory
    PROVE  VarInv'
<1>1. CASE UNCHANGED memory
  BY <1>1 DEF VarInv, MemOK, OnePlace, memory
<1>2. ASSUME mem_reset PROVE VarInv'
  BY <1>2, NamesAssumption DEF VarInv, MemOK, OnePlace, mem_reset, mem_init, Places
<1>3. QED
  BY <1>1, <1>2, SetInv, GetInv DEF VarNext

(* In every place there is a name and a value, and no variable has two     *)
(* places, however names are set, shown and reset.                         *)
THEOREM VarInvariance == VarSpec => []VarInv
<1>1. VarInit => VarInv
  BY FreshInv DEF VarInit
<1>2. QED
  BY <1>1, VarNextInv, PTL DEF VarSpec

(* No variable has two places, so a value that was overwritten can not     *)
(* come back (mem_set_value looks for the name before it takes a place).   *)
THEOREM PlacesUnique == VarSpec => []OnePlace
<1>1. VarInv => OnePlace
  BY DEF VarInv
<1>2. QED
  BY <1>1, VarInvariance, PTL

----------------------------------------------------------------------------
(* What the map holds, given by the places.                                *)

LEMMA MapAt ==
    ASSUME VarInv, NEW i \in Places, mem[i].var # FreeName
    PROVE  mem[i].var \in DOMAIN Map /\ Map[mem[i].var] = mem[i].value
<1>1. \A j \in Named(mem[i].var) : j = i
  BY DEF VarInv, OnePlace, Named
<1>2. i \in Named(mem[i].var)
  BY DEF Named
<1>3. (CHOOSE j \in Named(mem[i].var) : TRUE) = i
  BY <1>1, <1>2
<1>4. QED
  BY <1>3 DEF Map, Stored

LEMMA MapDomain ==
    ASSUME NEW v
    PROVE  v \in DOMAIN Map <=> v # FreeName /\ Named(v) # {}
  BY DEF Map, Stored, Named

(* A free place leaves room in the map, and only a free place does.        *)
LEMMA Room ==
    ASSUME VarInv
    PROVE  Named(FreeName) # {} <=> Cardinality(DOMAIN Map) < VAR_STORE_SIZE
<1> DEFINE U == Places \ Named(FreeName)
           f == [i \in U |-> mem[i].var]
<1>1. IsFiniteSet(Places) /\ Cardinality(Places) = VAR_STORE_SIZE
  BY StoreAssumption, FS_Interval DEF Places
<1>2. f \in Bijection(U, DOMAIN Map)
  <2>1. f \in [U -> DOMAIN Map]
    BY MapDomain DEF Named
  <2>2. \A i, j \in U : f[i] = f[j] => i = j
    BY DEF VarInv, OnePlace, Named
  <2>3. \A v \in DOMAIN Map : \E i \in U : f[i] = v
    BY MapDomain DEF Named
  <2>4. QED
    BY <2>1, <2>2, <2>3 DEF Bijection, Injection, Surjection, IsInjective
<1>3. U \in SUBSET Places
  OBVIOUS
<1>4. IsFiniteSet(U) /\ Cardinality(U) <= VAR_STORE_SIZE
      /\ (Cardinality(U) = VAR_STORE_SIZE => U = Places)
  BY <1>1, <1>3, FS_Subset
<1>5. Cardinality(DOMAIN Map) = Cardinality(U)
  BY <1>2, <1>4, FS_Bijection DEF ExistsBijection
<1>6. Cardinality(U) \in Nat
  BY <1>4, FS_CardinalityType
<1>7. U = Places <=> Named(FreeName) = {}
  BY DEF Named
<1>8. QED
  BY <1>1, <1>4, <1>5, <1>6, <1>7, StoreAssumption

----------------------------------------------------------------------------
(* Every step of the array is a step of the map.                           *)

(* VariableMap has the operators of FiniteSets by names of its own.        *)
LEMMA SameCardinality == \A S : Variables!Cardinality(S) = Cardinality(S)
  BY DEF Variables!Cardinality, Variables!IsFiniteSet, Cardinality, IsFiniteSet

LEMMA ShowStep ==
    ASSUME VarInv, NEW v \in Names, mem_get_value(v)
    PROVE  Variables!Next
<1>1. Map' = Map
  BY DEF mem_get_value, Map, Stored, Named
<1>2. CASE v = FreeName
  <2>1. \E x \in Values \cup {None} : Request("show", FreeName, x)
    BY <1>2 DEF mem_get_value, First, Named, VarInv, MemOK
  <2>2. QED
    BY <1>1, <2>1 DEF Variables!Next, Variables!UseFree, Variables!Request, Request
<1>3. CASE v # FreeName
  <2>1. Request("show", v, IF v \in DOMAIN Map THEN Map[v] ELSE None)
    <3>1. ASSUME NEW i \in Places, First(i, v), Request("show", v, mem[i].value)
          PROVE  Request("show", v, IF v \in DOMAIN Map THEN Map[v] ELSE None)
      BY <1>3, <3>1, MapAt DEF First, Named
    <3>2. ASSUME Named(v) = {}, Request("show", v, None)
          PROVE  Request("show", v, IF v \in DOMAIN Map THEN Map[v] ELSE None)
      BY <3>2, MapDomain
    <3>3. QED
      BY <3>1, <3>2 DEF mem_get_value
  <2>2. Variables!Show(v)
    BY <1>1, <2>1 DEF Variables!Show, Variables!Request, Request
  <2>3. QED
    BY <1>3, <2>2 DEF Variables!Next
<1>4. QED
  BY <1>2, <1>3

(* A value that is set in a place with a name of its own, old or new.      *)
LEMMA Placed ==
    ASSUME VarInv, VarInv', NEW v \in Names, NEW x \in Values, v # FreeName, NEW i \in Places,
           mem' = [mem EXCEPT ![i] = [var |-> v, value |-> x]],
           mem[i].var \in {v, FreeName}
    PROVE  Map' = [n \in DOMAIN Map \cup {v} |-> IF n = v THEN x ELSE Map[n]]
<1>1. \A j \in Places : mem'[j] = IF j = i THEN [var |-> v, value |-> x] ELSE mem[j]
  BY DEF VarInv, MemOK
<1>2. Stored' = Stored \cup {v}
  BY <1>1 DEF Stored
<1>3. DOMAIN Map = Stored /\ DOMAIN Map' = Stored \cup {v}
  BY <1>2 DEF Map
<1>4. Map'[v] = x
  <2>1. mem'[i].var = v /\ mem'[i].value = x
    BY <1>1
  <2>2. \A j \in Named(v)' : j = i
    BY <2>1 DEF VarInv, OnePlace, Named
  <2>3. (CHOOSE j \in Named(v)' : TRUE) = i
    BY <2>1, <2>2 DEF Named
  <2>4. QED
    BY <2>1, <2>3, <1>2 DEF Map
<1>5. ASSUME NEW n \in Stored, n # v
      PROVE  Map'[n] = Map[n]
  <2>1. PICK j \in Places : mem[j].var = n
    BY <1>5 DEF Stored
  <2>2. n # FreeName
    BY <1>5 DEF Stored
  <2>3. j # i /\ mem'[j] = mem[j]
    BY <1>1, <1>5, <2>1, <2>2
  <2>4. Named(n)' = Named(n)
    BY <1>1, <1>5, <2>2 DEF Named
  <2>5. Map[n] = mem[j].value
    BY <2>1, <2>2, MapAt
  <2>6. (CHOOSE k \in Named(n) : TRUE) = j
    BY <2>1, <2>2 DEF Named, VarInv, OnePlace
  <2>7. Map'[n] = mem'[j].value
    BY <1>2, <1>5, <2>4, <2>6 DEF Map
  <2>8. QED
    BY <2>3, <2>5, <2>7
<1>6. QED
  BY <1>2, <1>3, <1>4, <1>5 DEF Map

LEMMA SetStep ==
    ASSUME VarInv, VarInv', NEW v \in Names, NEW x \in Values, mem_set_value(v, x)
    PROVE  Variables!Next
<1>1. Request("set", v, x)
  BY DEF mem_set_value
<1>2. CASE v = FreeName
  <2>1. Map' = Map
    <3>1. CASE mem' = mem
      BY <3>1 DEF Map, Stored, Named
    <3>2. CASE \E i \in Places : First(i, v) /\ mem' = [mem EXCEPT ![i].value = x]
      <4>1. PICK i \in Places : mem[i].var = FreeName /\ mem' = [mem EXCEPT ![i].value = x]
        BY <1>2, <3>2 DEF First, Named
      <4>2. \A j \in Places : mem'[j].var = mem[j].var
                              /\ (j # i => mem'[j].value = mem[j].value)
        BY <4>1 DEF VarInv, MemOK
      <4>3. Stored' = Stored /\ \A n : Named(n)' = Named(n)
        BY <4>2 DEF Stored, Named
      <4>4. ASSUME NEW n \in Stored
            PROVE  mem'[CHOOSE j \in Named(n) : TRUE].value = mem[CHOOSE j \in Named(n) : TRUE].value
        <5>1. Named(n) # {} /\ n # FreeName
          BY DEF Stored, Named
        <5>2. PICK j \in Named(n) : j = CHOOSE k \in Named(n) : TRUE
          BY <5>1
        <5>3. j \in Places /\ j # i
          BY <4>1, <5>1 DEF Named
        <5>4. QED
          BY <4>2, <5>2, <5>3
      <4>5. QED
        BY <4>3, <4>4 DEF Map
    <3>3. QED
      BY <1>2, <3>1, <3>2 DEF mem_set_value, First
  <2>2. QED
    BY <1>1, <1>2, <2>1 DEF Variables!Next, Variables!UseFree, Variables!Request, Request
<1>3. CASE v # FreeName
  <2>1. Map' = IF Variables!HasRoom(v)
               THEN [n \in DOMAIN Map \cup {v} |-> IF n = v THEN x ELSE Map[n]] ELSE Map
    <3>1. CASE \E i \in Places : First(i, v) /\ mem' = [mem EXCEPT ![i].value = x]
      <4>1. PICK i \in Places : mem[i].var = v /\ mem' = [mem EXCEPT ![i].value = x]
        BY <3>1 DEF First, Named
      <4>2. mem' = [mem EXCEPT ![i] = [var |-> v, value |-> x]]
        <5>1. mem[i] \in [var : Names, value : Values]
          BY DEF VarInv, MemOK
        <5>2. [mem[i] EXCEPT !.value = x] = [var |-> v, value |-> x]
          BY <4>1, <5>1
        <5>3. QED
          BY <4>1, <5>2
      <4>3. v \in DOMAIN Map
        BY <1>3, <4>1, MapDomain DEF Named
      <4>4. QED
        BY <1>3, <4>1, <4>2, <4>3, Placed DEF Variables!HasRoom
    <3>2. CASE \E i \in Places : /\ Named(v) = {} /\ First(i, FreeName)
                                 /\ mem' = [mem EXCEPT ![i] = [var |-> v, value |-> x]]
      <4>1. PICK i \in Places : mem[i].var = FreeName
                                /\ mem' = [mem EXCEPT ![i] = [var |-> v, value |-> x]]
        BY <3>2 DEF First, Named
      <4>2. Variables!HasRoom(v)
        BY <4>1, Room, SameCardinality DEF Variables!HasRoom, Named
      <4>3. QED
        BY <1>3, <4>1, <4>2, Placed
    <3>3. CASE Named(v) = {} /\ Named(FreeName) = {} /\ mem' = mem
      <4>1. Map' = Map
        BY <3>3 DEF Map, Stored, Named
      <4>2. ~Variables!HasRoom(v)
        BY <3>3, Room, MapDomain, SameCardinality DEF Variables!HasRoom
      <4>3. QED
        BY <4>1, <4>2
    <3>4. QED
      BY <3>1, <3>2, <3>3 DEF mem_set_value
  <2>2. Variables!Set(v, x)
    BY <1>1, <2>1 DEF Variables!Set, Variables!Request, Request
  <2>3. QED
    BY <1>3, <2>2 DEF Variables!Next
<1>4. QED
  BY <1>2, <1>3

LEMMA FreshMap == mem = mem_init => Map = [n \in {} |-> None]
<1> SUFFICES ASSUME mem = mem_init
             PROVE  Map = [n \in {} |-> None]
  OBVIOUS
<1>1. Stored = {}
  BY DEF mem_init, Stored
<1>2. QED
  BY <1>1 DEF Map

LEMMA MapStep ==
    ASSUME VarInv, VarInv', [VarNext]_memory
    PROVE  [Variables!Next]_<<Map, last>>
<1>1. CASE UNCHANGED memory
  BY <1>1 DEF memory, Map, Stored, Named
<1>2. ASSUME mem_reset PROVE Variables!Next
  <2>1. Map' = [n \in {} |-> None] /\ last' = None
    <3>1. Stored' = {}
      BY <1>2 DEF mem_reset, mem_init, Stored
    <3>2. QED
      BY <1>2, <3>1 DEF Map, mem_reset
  <2>2. QED
    BY <2>1 DEF Variables!Next, Variables!Clear
<1>3. QED
  BY <1>1, <1>2, ShowStep, SetStep DEF VarNext

(* The array implements the map of VariableMap: what is shown is what was  *)
(* set last, and a variable is refused exactly when no place is left.      *)
THEOREM Refinement == VarSpec => MapSpec
<1>1. VarInit => Variables!Init
  BY FreshMap DEF VarInit, Variables!Init
<1>2. QED
  BY <1>1, MapStep, VarInvariance, PTL DEF VarSpec, MapSpec, Variables!Spec

----------------------------------------------------------------------------
(* The inductive invariant of the shells.                                  *)

\* A call of run or exec: what is left of a script and of the line that
\* called, and how the scripts take turns.
Call(p) == [lines : Seq(LinesOf(p)), after : Seq(SectionsOf(p)),
            policy : IF p = "a2" THEN {"FCFS", "RR"} ELSE {"FCFS"},
            left : Nat, ret : {0, Failed}]

\* The lines of processes that wait.
Processes == Seq(LinesOf("a2"))

ParserOK ==
    /\ program \in Programs /\ ret \in {-1, 0, Failed}
    /\ phase \in {"prompt", "line", "ended", "script", "hung", "reset", "gone"}
    /\ sections \in Seq(SectionsOf(program))
    /\ frames \in Seq(Call(program))
    /\ queue \in Seq(Processes) /\ (program # "a2" => queue = <<>>)
    /\ own \in Seq(SectionsOf(program))

\* The prompt waits for all calls.  When there is one it empties the queue,
\* and nothing is stranded that it would leave.
CallsOK ==
    /\ phase = "script" => frames # <<>>
    /\ phase = "prompt" => frames = <<>>
    /\ IF frames = <<>> THEN queue = stranded ELSE stranded = <<>>

\* A script of a3 is in the innermost call, and has no run.
OneCall ==
    program = "a3" =>
      /\ Len(frames) <= 1
      /\ \A i \in DOMAIN frames : \A k \in DOMAIN frames[i].lines :
           \E f \in DOMAIN Files["a3"] : frames[i].lines[k] \in ToSet(Files["a3"][f])
      /\ phase = "line" /\ frames # <<>> =>
           \A i \in DOMAIN sections : interpreter("a3", sections[i]) # "run"

\* The line has come to its quit.
Quits == \E i \in DOMAIN own : interpreter(program, own[i]) \in {"quit", "exit"}

QuitOK ==
    /\ \A i \in DOMAIN own : interpreter(program, own[i]) \in {"quit", "exit"} => i = Len(own)
    /\ Quits => phase = "gone" \/ (phase = "ended" /\ frames = <<>> /\ ret = -1)

ShellInv == ParserOK /\ CallsOK /\ OneCall /\ QuitOK

----------------------------------------------------------------------------
(* Sequences, and the sections and scripts the assumptions speak of.       *)

LEMMA WiderSeq ==
    ASSUME NEW S, NEW T, S \subseteq T, NEW s \in Seq(S)
    PROVE  s \in Seq(T)
<1>1. Len(s) \in Nat /\ s \in [1 .. Len(s) -> S]
  OBVIOUS
<1>2. s \in [1 .. Len(s) -> T]
  BY <1>1
<1>3. QED
  BY <1>1, <1>2

LEMMA TailOf ==
    ASSUME NEW S, NEW s \in Seq(S), s # <<>>
    PROVE  /\ Head(s) \in S /\ Head(s) = s[1] /\ 1 \in DOMAIN s
           /\ Tail(s) \in Seq(S)
           /\ \A i \in DOMAIN Tail(s) : i + 1 \in DOMAIN s /\ Tail(s)[i] = s[i + 1]
<1>1. Len(s) \in Nat /\ Len(s) # 0
  OBVIOUS
<1>2. Len(Tail(s)) = Len(s) - 1
  BY <1>1
<1>3. QED
  BY <1>1, <1>2

LEMMA AppendOf ==
    ASSUME NEW S, NEW s \in Seq(S), NEW e \in S
    PROVE  /\ Append(s, e) \in Seq(S) /\ Len(Append(s, e)) = Len(s) + 1
           /\ Append(s, e)[Len(s) + 1] = e
           /\ \A i \in DOMAIN s : Append(s, e)[i] = s[i]
           /\ \A i \in DOMAIN Append(s, e) : i \in DOMAIN s \/ i = Len(s) + 1
  OBVIOUS

LEMMA PushOf ==
    ASSUME NEW S, NEW s \in Seq(S), NEW e \in S
    PROVE  /\ <<e>> \o s \in Seq(S) /\ <<e>> \o s # <<>> /\ Len(<<e>> \o s) = Len(s) + 1
           /\ (<<e>> \o s)[1] = e
<1>1. <<e>> \in Seq(S) /\ Len(<<e>>) = 1
  OBVIOUS
<1>2. Len(<<e>> \o s) = Len(s) + 1 /\ (<<e>> \o s)[1] = e
  BY <1>1
<1>3. QED
  BY <1>1, <1>2

(* Whatever a command returns, what is left of the line was in the line.   *)
LEMMA RestOf ==
    ASSUME NEW S, sections \in Seq(S), sections # <<>>, NEW r
    PROVE  /\ Rest(r) \in Seq(S)
           /\ \A i \in DOMAIN Rest(r) : \E k \in DOMAIN sections : Rest(r)[i] = sections[k]
<1>1. CASE r = -1 /\ Len(sections) > 1
  <2>1. Rest(r) = SubSeq(sections, 3, Len(sections))
    BY <1>1 DEF Rest
  <2>2. Len(sections) \in Nat /\ Len(sections) > 1
    BY <1>1
  <2>3. 3 \in Int /\ Len(sections) \in Int /\ \A i \in 3 .. Len(sections) : sections[i] \in S
    BY <2>2
  <2>4. /\ Rest(r) \in Seq(S)
        /\ Len(Rest(r)) = IF 3 <= Len(sections) THEN Len(sections) - 3 + 1 ELSE 0
        /\ \A i \in 1 .. Len(sections) - 3 + 1 : Rest(r)[i] = sections[3 + i - 1]
    BY <2>1, <2>3, SubSeqProperties
  <2>5. QED
    BY <2>2, <2>4
<1>2. CASE ~(r = -1 /\ Len(sections) > 1)
  <2>1. Rest(r) = Tail(sections)
    BY <1>2 DEF Rest
  <2>2. QED
    BY <2>1, TailOf
<1>3. QED
  BY <1>1, <1>2

LEMMA SectionsType ==
    ASSUME NEW p \in Programs, NEW l \in LinesOf(p)
    PROVE  parseInput(p, l) \in Seq(SectionsOf(p))
<1>1. parseInput(p, l) \in Seq(ToSet(parseInput(p, l)))
  BY VocabularyAssumption
<1>2. ToSet(parseInput(p, l)) \subseteq SectionsOf(p)
  BY DEF SectionsOf
<1>3. QED
  BY <1>1, <1>2, WiderSeq

LEMMA TypedLines == \A p \in Programs : Typed[p] \subseteq LinesOf(p) /\ <<>> \in LinesOf(p)
  BY DEF LinesOf

(* What a script gives to parseInput.                                      *)
LEMMA ScriptType ==
    ASSUME program \in Programs, NEW f \in DOMAIN Files[program]
    PROVE  /\ ScriptLines(f) \in Seq(LinesOf(program))
           /\ program = "a3" => \A k \in DOMAIN ScriptLines(f) :
                                  ScriptLines(f)[k] \in ToSet(Files["a3"][f])
<1>1. Files[program][f] \in Seq(ToSet(Files[program][f]))
  BY VocabularyAssumption
<1>2. ToSet(Files[program][f]) \subseteq LinesOf(program)
  BY DEF LinesOf
<1>3. Files[program][f] \in Seq(LinesOf(program))
  BY <1>1, <1>2, WiderSeq
<1>4. CASE program = "a1"
  <2>1. ScriptLines(f) = a1_run(Files["a1"][f])
    BY <1>4 DEF ScriptLines
  <2>2. Append(Files["a1"][f], <<>>) \in Seq(LinesOf(program))
    BY <1>3, <1>4, TypedLines, AppendOf
  <2>3. QED
    BY <1>3, <1>4, <2>1, <2>2 DEF a1_run
<1>5. CASE program # "a1"
  <2>1. ScriptLines(f) = Files[program][f]
    BY <1>5 DEF ScriptLines
  <2>2. QED
    BY <1>3, <2>1 DEF ToSet
<1>6. QED
  BY <1>4, <1>5

(* What a2 puts into the queue are whole scripts that are there.           *)
LEMMA AdmittedType ==
    ASSUME program = "a2", interpreter(program, words) \in {"run", "exec"}
    PROVE  admitted(words) \in Seq(Processes)
<1> DEFINE c == interpreter(program, words)
<1>1. Len(words) \in 2 .. 4
  <2>1. c \in DOMAIN a2_commands /\ c = words[1]
    BY DEF interpreter, Commands, a2_commands
  <2>2. Len(words) \in a2_commands[words[1]]
    BY <2>1 DEF interpreter, Commands
  <2>3. a2_commands["run"] = {2} /\ a2_commands["exec"] = 2 .. 4
    BY DEF a2_commands
  <2>4. CASE c = "run"
    <3>1. Len(words) \in {2}
      BY <2>1, <2>2, <2>3, <2>4
    <3>2. QED
      BY <3>1
  <2>5. CASE c = "exec"
    BY <2>1, <2>2, <2>3, <2>5
  <2>6. QED
    BY <2>4, <2>5
<1> DEFINE n == Len(words)
           missing == {k \in 2 .. n : words[k] \notin DOMAIN Files["a2"]}
           S == missing \cup {n + 1}
           m == Min(S)
<1>2. n \in 2 .. 4 /\ S \subseteq 2 .. 5 /\ n + 1 \in S
  <2>1. n \in 2 .. 4
    BY <1>1
  <2> HIDE DEF n
  <2>2. \A k \in 2 .. n : k \in 2 .. 5
    BY <2>1
  <2>3. n + 1 \in 2 .. 5
    BY <2>1
  <2>4. QED
    BY <2>1, <2>2, <2>3
<1>3. m \in S /\ \A k \in S : m <= k
  <2> HIDE DEF S, n
  <2>1. \E x \in S : \A y \in S : x <= y
    <3>1. CASE 2 \in S
      BY <1>2, <3>1
    <3>2. CASE 2 \notin S /\ 3 \in S
      BY <1>2, <3>2
    <3>3. CASE 2 \notin S /\ 3 \notin S /\ 4 \in S
      BY <1>2, <3>3
    <3>4. CASE 2 \notin S /\ 3 \notin S /\ 4 \notin S
      <4>1. \A x \in S : x = 5
        <5>1. \A x \in S : x \in 2 .. 5 /\ x # 2 /\ x # 3 /\ x # 4
          BY <1>2, <3>4
        <5>2. QED
          BY <5>1
      <4>2. n + 1 \in S /\ n + 1 = 5
        BY <1>2, <4>1
      <4>3. QED
        BY <4>1, <4>2
    <3>5. QED
      BY <3>1, <3>2, <3>3, <3>4
  <2>2. QED
    BY <2>1 DEF Min
<1>4. m \in 2 .. 5 /\ m <= n + 1
  BY <1>2, <1>3
<1> HIDE DEF m
<1>5. ASSUME NEW k \in 1 .. m - 2
      PROVE  Files["a2"][words[k + 1]] \in Processes
  <2>1. k + 1 \in 2 .. n /\ k + 1 \notin S
    BY <1>2, <1>3, <1>4
  <2>2. words[k + 1] \in DOMAIN Files["a2"]
    BY <2>1
  <2>3. ScriptLines(words[k + 1]) = Files["a2"][words[k + 1]]
    BY DEF ScriptLines
  <2>4. QED
    BY <2>2, <2>3, ScriptType DEF Processes, Programs
<1>6. admitted(words) = [k \in 1 .. m - 2 |-> Files["a2"][words[k + 1]]]
  BY DEF admitted, m
<1>7. m - 2 \in Nat
  BY <1>4
<1>8. QED
  BY <1>5, <1>6, <1>7
----------------------------------------------------------------------------
(* What one command does to the calls, the queue and the line.             *)

Returned == \E r \in {-1, 0, Failed} : Return(r)

Resets == phase' = "reset" /\ UNCHANGED <<sections, frames, queue, ret>>

Queues == queue' \in Seq(Processes) /\ (program # "a2" => queue' = <<>>)

Called ==
    /\ Queues /\ (program = "a2" \/ interpreter(program, words) = "run")
    /\ \E lines \in Seq(LinesOf(program)), r \in {0, Failed},
          policy \in IF program = "a2" THEN {"FCFS", "RR"} ELSE {"FCFS"} :
         /\ CallScript(lines, policy, r)
         /\ program = "a3" => \A k \in DOMAIN lines :
              \E f \in DOMAIN Files["a3"] : lines[k] \in ToSet(Files["a3"][f])

\* At the prompt only an exec returns without having started a scheduler.
Postponed ==
    /\ Queues /\ program = "a2" /\ ret' \in {0, Failed}
    /\ sections' = Tail(sections) /\ UNCHANGED <<frames, phase>>
    /\ frames = <<>> => /\ interpreter(program, words) = "exec"
                        /\ queue' = queue \o admitted(words)

LEMMA ReturnCode == errCode \in {0, Failed}
  BY DEF errCode

(* In a2 run and exec put their scripts into the queue.                    *)
LEMMA Queued ==
    ASSUME ParserOK, program = "a2", interpreter(program, words) \in {"run", "exec"},
           queue' = queue \o admitted(words)
    PROVE  Queues
<1>1. queue \in Seq(Processes) /\ admitted(words) \in Seq(Processes)
  BY AdmittedType DEF ParserOK
<1>2. queue \o admitted(words) \in Seq(Processes)
  BY <1>1, ConcatProperties
<1>3. QED
  BY <1>2 DEF Queues

LEMMA ScheduleOutcome ==
    ASSUME ParserOK, Queues, program = "a2", NEW policy \in {"FCFS", "RR"},
           schedule_by_policy(policy)
    PROVE  Called \/ Postponed
<1>1. CASE in_background
  BY <1>1, ReturnCode DEF schedule_by_policy, Postpone, Postponed, in_background
<1>2. CASE ~in_background
  <2>1. CallScript(<<>>, policy, errCode)
    BY <1>2 DEF schedule_by_policy
  <2>2. <<>> \in Seq(LinesOf(program)) /\ program # "a3"
    OBVIOUS
  <2>3. QED
    BY <2>1, <2>2, ReturnCode DEF Called
<1>3. QED
  BY <1>1, <1>2

LEMMA ExecOutcome ==
    ASSUME ParserOK, interpreter(program, words) = "exec", exec
    PROVE  Called \/ Postponed
<1>1. program = "a2"
  BY DEF ParserOK, Programs, interpreter, Commands, a1_commands, a3_commands
<1>2. queue' = queue \o admitted(words) /\ Queues
  BY <1>1, Queued DEF exec
<1>3. CASE errCode = Failed
  BY <1>1, <1>2, <1>3 DEF exec, Postpone, Postponed
<1>4. CASE errCode # Failed
  BY <1>1, <1>2, <1>4, ScheduleOutcome DEF exec
<1>5. QED
  BY <1>3, <1>4

LEMMA RunOutcome ==
    ASSUME ParserOK, sections # <<>>, interpreter(program, words) = "run", run
    PROVE  Returned \/ Leave \/ Called \/ Postponed
<1>1. CASE program = "a2"
  <2>1. queue' = queue \o admitted(words) /\ schedule_by_policy("FCFS")
    BY <1>1 DEF run, RunQueued
  <2>2. QED
    BY <1>1, <2>1, Queued, ScheduleOutcome
<1>2. CASE program # "a2"
  <2>1. RunNow(words[2])
    BY <1>2 DEF run
  <2>2. CASE words[2] \in DOMAIN Files[program]
    <3>1. CallScript(ScriptLines(words[2]), "FCFS", 0) /\ UNCHANGED queue
      BY <2>1, <2>2 DEF RunNow
    <3>2. /\ ScriptLines(words[2]) \in Seq(LinesOf(program))
          /\ program = "a3" => \A k \in DOMAIN ScriptLines(words[2]) :
               ScriptLines(words[2])[k] \in ToSet(Files["a3"][words[2]])
      BY <2>2, ScriptType DEF ParserOK
    <3>3. program = "a3" => \A k \in DOMAIN ScriptLines(words[2]) :
            \E f \in DOMAIN Files["a3"] : ScriptLines(words[2])[k] \in ToSet(Files["a3"][f])
      BY <2>2, <3>2
    <3>4. Queues
      BY <3>1 DEF Queues, ParserOK
    <3>5. QED
      BY <1>2, <3>1, <3>2, <3>3, <3>4 DEF Called
  <2>3. CASE words[2] \notin DOMAIN Files[program]
    <3>1. Return(Failed) \/ Leave
      BY <2>1, <2>3 DEF RunNow
    <3>2. QED
      BY <3>1 DEF Returned
  <2>4. QED
    BY <2>2, <2>3
<1>3. QED
  BY <1>1, <1>2

(* A quit leaves the program, or returns -1 in a3.                         *)
LEMMA QuitOutcome ==
    ASSUME quit
    PROVE  Leave \/ (program = "a3" /\ Return(-1))
  BY DEF quit

LEMMA HostOutcome ==
    ASSUME program \in Programs, interpreter(program, words) \in DOMAIN Host, host
    PROVE  Returned \/ Leave
<1> SUFFICES ASSUME ~Leave
             PROVE  Returned
  OBVIOUS
<1>1. PICK r \in Host[words[1]] : Return(r)
  BY DEF host
<1>2. interpreter(program, words) # "bad"
  BY DEF Host, a1_host, a2_host, Programs
<1>3. interpreter(program, words) = words[1]
  BY <1>2 DEF interpreter
<1>4. words[1] \in DOMAIN Host
  BY <1>3
<1>5. Host[words[1]] \subseteq {-1, 0, Failed}
  BY <1>4 DEF Host, a1_host, a2_host, Programs, Failed
<1>6. QED
  BY <1>1, <1>5 DEF Returned

(* The outcomes of a command, and that a quit and an exec have no other    *)
(* than their own.                                                         *)
LEMMA Outcomes ==
    ASSUME ParserOK, Interpret
    PROVE  /\ sections # <<>> /\ phase = "line" /\ UNCHANGED program
           /\ own' = IF frames = <<>> THEN Append(own, words) ELSE own
           /\ Returned \/ Leave \/ Resets \/ Called \/ Postponed
           /\ interpreter(program, words) = "exec" => Called \/ Postponed
           /\ interpreter(program, words) \in {"quit", "exit"} =>
                Leave \/ (program = "a3" /\ Return(-1))
<1> DEFINE c == interpreter(program, words)
<1>1. /\ sections # <<>> /\ phase = "line" /\ UNCHANGED program
      /\ own' = IF frames = <<>> THEN Append(own, words) ELSE own
  BY DEF Interpret
<1>2. \/ c = "set" /\ set
      \/ c = "print" /\ print
      \/ c = "echo" /\ echo
      \/ c = "run" /\ run
      \/ c = "exec" /\ exec
      \/ c \in {"quit", "exit"} /\ quit
      \/ c = "resetmem" /\ resetmem
      \/ c \in DOMAIN Host /\ host
      \/ c = "help" /\ help
      \/ c = "bad" /\ bad
  BY DEF Interpret
<1>3. program \in Programs
  BY DEF ParserOK
<1>4. c \in DOMAIN Host => c \notin {"quit", "exit", "run", "exec"}
  BY <1>3 DEF Host, a1_host, a2_host, Programs
<1>5. Failed \in {-1, 0, Failed} /\ 0 \in {-1, 0, Failed} /\ -1 \in {-1, 0, Failed}
  OBVIOUS
<1>6. ASSUME c \in {"quit", "exit"}
      PROVE  Leave \/ (program = "a3" /\ Return(-1))
  BY <1>2, <1>4, <1>6, QuitOutcome
<1>7. Returned \/ Leave \/ Resets \/ Called \/ Postponed
  <2>1. ASSUME set \/ print \/ echo \/ help \/ bad
        PROVE  Returned
    <3>1. Return(0) \/ Return(Failed)
      BY <2>1 DEF set, print, echo, help, bad
    <3>2. QED
      BY <1>5, <3>1 DEF Returned
  <2>2. ASSUME c \in {"quit", "exit"}
        PROVE  Returned \/ Leave
    BY <1>5, <1>6, <2>2 DEF Returned
  <2>3. ASSUME resetmem
        PROVE  Returned \/ Resets
    BY <1>5, <2>3 DEF resetmem, Returned, Resets
  <2>4. QED
    BY <1>1, <1>2, <1>3, <2>1, <2>2, <2>3, RunOutcome, ExecOutcome, HostOutcome
<1>8. ASSUME c = "exec"
      PROVE  Called \/ Postponed
  BY <1>2, <1>4, <1>8, ExecOutcome
<1>9. QED
  BY <1>1, <1>6, <1>7, <1>8
----------------------------------------------------------------------------
(* Every step keeps the invariant.                                         *)

LEMMA ShellFresh == Init => ShellInv
<1> SUFFICES ASSUME Init
             PROVE  ShellInv
  OBVIOUS
<1>1. ParserOK
  BY DEF Init, ParserOK
<1>2. CallsOK /\ OneCall
  BY DEF Init, CallsOK, OneCall
<1>3. DOMAIN own = {}
  BY DEF Init
<1>4. QuitOK
  BY <1>3 DEF QuitOK, Quits
<1>5. QED
  BY <1>1, <1>2, <1>4 DEF ShellInv

(* The history of the line behind a command.                               *)
LEMMA OwnStep ==
    ASSUME ParserOK, QuitOK, Interpret
    PROVE  /\ own' \in Seq(SectionsOf(program))
           /\ \A i \in DOMAIN own' :
                interpreter(program, own'[i]) \in {"quit", "exit"} => i = Len(own')
           /\ Quits' => frames = <<>> /\ interpreter(program, words) \in {"quit", "exit"}
<1>1. /\ sections # <<>> /\ phase = "line" /\ program' = program
      /\ own' = IF frames = <<>> THEN Append(own, words) ELSE own
  BY Outcomes
<1>2. \A i \in DOMAIN own : interpreter(program, own[i]) \notin {"quit", "exit"}
  BY <1>1 DEF QuitOK, Quits
<1>3. words \in SectionsOf(program)
  BY <1>1, TailOf DEF words, ParserOK
<1>4. own \in Seq(SectionsOf(program))
  BY DEF ParserOK
<1>5. CASE frames # <<>>
  BY <1>1, <1>2, <1>4, <1>5 DEF Quits
<1>6. CASE frames = <<>>
  <2>1. own' = Append(own, words)
    BY <1>1, <1>6
  <2>2. /\ own' \in Seq(SectionsOf(program)) /\ Len(own') = Len(own) + 1
        /\ own'[Len(own) + 1] = words
        /\ \A i \in DOMAIN own : own'[i] = own[i]
        /\ \A i \in DOMAIN own' : i \in DOMAIN own \/ i = Len(own) + 1
    BY <2>1, <1>3, <1>4, AppendOf
  <2>3. ASSUME NEW i \in DOMAIN own', interpreter(program, own'[i]) \in {"quit", "exit"}
        PROVE  i = Len(own') /\ interpreter(program, words) \in {"quit", "exit"}
    BY <1>2, <2>2, <2>3
  <2>4. Quits' => interpreter(program, words) \in {"quit", "exit"}
    BY <1>1, <2>3 DEF Quits
  <2>5. QED
    BY <1>6, <2>2, <2>3, <2>4
<1>7. QED
  BY <1>5, <1>6

LEMMA InterpretParser ==
    ASSUME ShellInv, Interpret
    PROVE  ParserOK'
<1>1. /\ sections # <<>> /\ phase = "line" /\ program' = program
      /\ Returned \/ Leave \/ Resets \/ Called \/ Postponed
  BY Outcomes DEF ShellInv
<1>2. own' \in Seq(SectionsOf(program)) /\ ParserOK
  BY OwnStep DEF ShellInv
<1>3. Tail(sections) \in Seq(SectionsOf(program))
  BY <1>1, <1>2, TailOf DEF ParserOK
<1>4. CASE Returned
  <2>1. PICK r \in {-1, 0, Failed} : Return(r)
    BY <1>4 DEF Returned
  <2>2. Rest(r) \in Seq(SectionsOf(program))
    BY <1>1, <1>2, RestOf DEF ParserOK
  <2>3. /\ ret' = r /\ sections' = Rest(r) /\ phase' \in {"ended", "line"}
        /\ frames' = frames /\ queue' = queue
    BY <2>1 DEF Return
  <2>4. QED
    BY <1>1, <1>2, <2>2, <2>3 DEF ParserOK
<1>5. CASE Leave \/ Resets
  BY <1>1, <1>2, <1>5 DEF Leave, Resets, ParserOK
<1>6. CASE Called
  <2>1. PICK lines \in Seq(LinesOf(program)), r \in {0, Failed},
             policy \in IF program = "a2" THEN {"FCFS", "RR"} ELSE {"FCFS"} :
          CallScript(lines, policy, r)
    BY <1>6 DEF Called
  <2>2. [lines |-> lines, after |-> Tail(sections), policy |-> policy, left |-> 0, ret |-> r]
          \in Call(program)
    BY <1>3 DEF Call
  <2>3. frames' \in Seq(Call(program))
    BY <1>2, <2>1, <2>2, PushOf DEF CallScript, ParserOK
  <2>4. phase' = "script" /\ sections' = sections /\ ret' = ret
    BY <2>1 DEF CallScript
  <2>5. queue' \in Seq(Processes) /\ (program # "a2" => queue' = <<>>)
    BY <1>6 DEF Called, Queues
  <2>6. QED
    BY <1>1, <1>2, <2>3, <2>4, <2>5 DEF ParserOK
<1>7. CASE Postponed
  BY <1>1, <1>2, <1>3, <1>7 DEF Postponed, Queues, ParserOK
<1>8. QED
  BY <1>1, <1>4, <1>5, <1>6, <1>7

LEMMA CallPushed ==
    ASSUME ParserOK, NEW lines, NEW policy, NEW r, CallScript(lines, policy, r)
    PROVE  frames' # <<>> /\ phase' = "script"
<1> DEFINE e == [lines |-> lines, after |-> Tail(sections),
                 policy |-> policy, left |-> 0, ret |-> r]
<1>1. e \in {e} \cup Call(program)
  OBVIOUS
<1>2. frames \in Seq({e} \cup Call(program))
  <2>1. frames \in Seq(Call(program))
    BY DEF ParserOK
  <2>2. QED
    BY <2>1, WiderSeq
<1>3. frames' = <<e>> \o frames /\ phase' = "script"
  BY DEF CallScript
<1> HIDE DEF e
<1>4. QED
  BY <1>1, <1>2, <1>3, PushOf

(* What a failed exec leaves in the queue is stranded, until a command     *)
(* starts a scheduler.                                                     *)
LEMMA InterpretCalls ==
    ASSUME ShellInv, Interpret
    PROVE  CallsOK'
<1> DEFINE c == interpreter(program, words)
<1>1. /\ phase = "line" /\ CallsOK /\ ParserOK
      /\ Returned \/ Leave \/ Resets \/ Called \/ Postponed
      /\ c = "exec" => Called \/ Postponed
  BY Outcomes DEF ShellInv
<1>2. stranded' = IF frames = <<>> /\ phase' = "script" THEN <<>>
                  ELSE IF frames = <<>> /\ c = "exec"
                  THEN stranded \o admitted(words) ELSE stranded
  BY DEF Interpret
<1> HIDE DEF c
<1>3. CASE Called
  <2>1. PICK lines \in Seq(LinesOf(program)), r \in {0, Failed},
             policy \in IF program = "a2" THEN {"FCFS", "RR"} ELSE {"FCFS"} :
          CallScript(lines, policy, r)
    BY <1>3 DEF Called
  <2>2. frames' # <<>> /\ phase' = "script"
    BY <1>1, <2>1, CallPushed
  <2>3. QED
    BY <1>1, <1>2, <2>2 DEF CallsOK
<1>4. CASE Postponed
  <2>1. /\ frames' = frames /\ phase' = "line"
        /\ frames = <<>> => c = "exec" /\ queue' = queue \o admitted(words)
    BY <1>1, <1>4 DEF Postponed, c
  <2>2. frames = <<>> => stranded' = queue'
    BY <1>1, <1>2, <2>1 DEF CallsOK
  <2>3. QED
    BY <1>1, <1>2, <2>1, <2>2 DEF CallsOK
<1>5. CASE (Returned \/ Leave \/ Resets) /\ c # "exec"
  <2>1. /\ frames' = frames /\ queue' = queue
        /\ phase' \in {"ended", "line", "gone", "reset"}
    BY <1>5 DEF Returned, Return, Leave, Resets
  <2>2. stranded' = stranded
    BY <1>2, <1>5, <2>1
  <2>3. QED
    BY <1>1, <2>1, <2>2 DEF CallsOK
<1>6. QED
  BY <1>1, <1>3, <1>4, <1>5

LEMMA InterpretQuit ==
    ASSUME ShellInv, Interpret
    PROVE  QuitOK'
<1>1. /\ program' = program
      /\ interpreter(program, words) \in {"quit", "exit"} =>
           Leave \/ (program = "a3" /\ Return(-1))
  BY Outcomes DEF ShellInv
<1>2. /\ \A i \in DOMAIN own' :
           interpreter(program, own'[i]) \in {"quit", "exit"} => i = Len(own')
      /\ Quits' => frames = <<>> /\ interpreter(program, words) \in {"quit", "exit"}
  BY OwnStep DEF ShellInv
<1>3. ASSUME Quits'
      PROVE  phase' = "gone" \/ (phase' = "ended" /\ frames' = <<>> /\ ret' = -1)
  BY <1>1, <1>2, <1>3 DEF Leave, Return
<1>4. QED
  BY <1>1, <1>2, <1>3 DEF QuitOK

(* A script of a3 has no run, so no call of run is inside another.         *)
LEMMA InterpretOneCall ==
    ASSUME ShellInv, Interpret
    PROVE  OneCall'
<1> SUFFICES ASSUME program = "a3", program' = program
             PROVE  OneCall'
  BY Outcomes DEF ShellInv, OneCall
<1>1. /\ phase = "line" /\ sections # <<>> /\ OneCall /\ ParserOK
      /\ Returned \/ Leave \/ Resets \/ Called
  BY Outcomes DEF ShellInv, Postponed
<1>2. CASE Returned
  <2>1. PICK r \in {-1, 0, Failed} : Return(r)
    BY <1>2 DEF Returned
  <2>2. sections' = Rest(r) /\ frames' = frames
    BY <2>1 DEF Return
  <2>3. \A i \in DOMAIN sections' : \E k \in DOMAIN sections : sections'[i] = sections[k]
    BY <1>1, <2>2, RestOf DEF ParserOK
  <2>4. QED
    BY <1>1, <2>2, <2>3 DEF OneCall
<1>3. CASE Leave \/ Resets
  BY <1>1, <1>3 DEF Leave, Resets, OneCall
<1>4. CASE Called
  <2>1. PICK lines \in Seq(LinesOf(program)), r \in {0, Failed}, policy \in {"FCFS"} :
          /\ CallScript(lines, policy, r)
          /\ \A k \in DOMAIN lines :
               \E f \in DOMAIN Files["a3"] : lines[k] \in ToSet(Files["a3"][f])
    BY <1>4 DEF Called
  <2>2. interpreter("a3", words) = "run"
    BY <1>4 DEF Called
  <2>3. words = sections[1] /\ 1 \in DOMAIN sections
    BY <1>1, TailOf DEF words, ParserOK
  <2>4. frames = <<>>
    BY <1>1, <2>2, <2>3 DEF OneCall
  <2>5. frames' = << [lines |-> lines, after |-> Tail(sections),
                      policy |-> policy, left |-> 0, ret |-> r] >> /\ phase' = "script"
    BY <2>1, <2>4 DEF CallScript
  <2>6. Len(frames') = 1 /\ \A i \in DOMAIN frames' : frames'[i].lines = lines
    BY <2>5
  <2>7. QED
    BY <2>1, <2>5, <2>6 DEF OneCall
<1>5. QED
  BY <1>1, <1>2, <1>3, <1>4

LEMMA InterpretInv == ShellInv /\ Interpret => ShellInv'
  BY InterpretParser, InterpretCalls, InterpretOneCall, InterpretQuit DEF ShellInv

(* The innermost call goes on with other lines, or another turn.           *)
LEMMA TopOf ==
    ASSUME NEW p, frames \in Seq(Call(p)), frames # <<>>,
           NEW lines \in Seq(LinesOf(p)), NEW left \in Nat,
           \/ frames' = [frames EXCEPT ![1].lines = lines]
           \/ frames' = [frames EXCEPT ![1].lines = lines, ![1].left = left]
    PROVE  /\ frames' \in Seq(Call(p)) /\ Len(frames') = Len(frames) /\ frames' # <<>>
           /\ frames'[1].lines = lines
           /\ \A i \in DOMAIN frames' : i # 1 => frames'[i] = frames[i]
           /\ frames'[Len(frames)].after = frames[Len(frames)].after
<1>1. Len(frames) \in Nat /\ Len(frames) # 0 /\ frames \in [1 .. Len(frames) -> Call(p)]
  OBVIOUS
<1>2. 1 \in 1 .. Len(frames) /\ frames[1] \in Call(p)
  BY <1>1
<1>3. PICK top : /\ top \in Call(p) /\ top.lines = lines /\ top.after = frames[1].after
                 /\ frames' = [frames EXCEPT ![1] = top]
  <2>1. CASE frames' = [frames EXCEPT ![1].lines = lines]
    <3>1. PICK top : top = [frames[1] EXCEPT !.lines = lines]
      OBVIOUS
    <3>2. top \in Call(p) /\ top.lines = lines /\ top.after = frames[1].after
      BY <1>2, <3>1 DEF Call
    <3>3. frames' = [frames EXCEPT ![1] = top]
      BY <2>1, <3>1
    <3>4. QED
      BY <3>2, <3>3
  <2>2. CASE frames' = [frames EXCEPT ![1].lines = lines, ![1].left = left]
    <3>1. PICK top : top = [frames[1] EXCEPT !.lines = lines, !.left = left]
      OBVIOUS
    <3>2. top \in Call(p) /\ top.lines = lines /\ top.after = frames[1].after
      BY <1>2, <3>1 DEF Call
    <3>3. frames' = [frames EXCEPT ![1] = top]
      BY <1>1, <1>2, <2>2, <3>1
    <3>4. QED
      BY <3>2, <3>3
  <2>3. QED
    BY <2>1, <2>2
<1>4. /\ frames' \in [1 .. Len(frames) -> Call(p)] /\ frames'[1] = top
      /\ \A i \in 1 .. Len(frames) : i # 1 => frames'[i] = frames[i]
  BY <1>1, <1>2, <1>3
<1>5. frames' \in Seq(Call(p)) /\ Len(frames') = Len(frames)
  BY <1>1, <1>4
<1>6. QED
  BY <1>1, <1>3, <1>4, <1>5

LEMMA HeadCall ==
    ASSUME ParserOK, frames # <<>>
    PROVE  /\ Head(frames) = frames[1] /\ 1 \in DOMAIN frames
           /\ Head(frames).lines \in Seq(LinesOf(program))
           /\ Head(frames).after \in Seq(SectionsOf(program))
           /\ Head(frames).left \in Nat /\ Head(frames).ret \in {0, Failed}
           /\ Head(frames).policy = "RR" => program = "a2"
           /\ Tail(frames) \in Seq(Call(program)) /\ Len(Tail(frames)) = Len(frames) - 1
<1>1. frames \in Seq(Call(program))
  BY DEF ParserOK
<1>2. /\ Head(frames) \in Call(program) /\ Head(frames) = frames[1] /\ 1 \in DOMAIN frames
      /\ Tail(frames) \in Seq(Call(program))
  BY <1>1, TailOf
<1>3. Len(Tail(frames)) = Len(frames) - 1
  BY <1>1
<1>4. QED
  BY <1>2, <1>3 DEF Call

LEMMA InnermostOnly ==
    ASSUME ParserOK, OneCall, program = "a3", frames # <<>>
    PROVE  Len(frames) = 1 /\ 1 \in DOMAIN frames
<1>1. frames \in Seq(Call(program))
  BY DEF ParserOK
<1>2. Len(frames) <= 1
  BY DEF OneCall
<1>3. 1 \in DOMAIN frames
  BY HeadCall
<1>4. Len(frames) \in Nat /\ DOMAIN frames = 1 .. Len(frames)
  BY <1>1
<1>5. QED
  BY <1>2, <1>3, <1>4

LEMMA TypeInv ==
    ASSUME ShellInv, NEW line \in Typed[program], Type(line)
    PROVE  ShellInv'
<1>1. /\ phase = "prompt" /\ phase' = "line" /\ sections' = Sections(line) /\ own' = <<>>
      /\ program' = program /\ frames' = frames /\ queue' = queue /\ ret' = ret
      /\ stranded' = stranded
  BY DEF Type
<1>2. ParserOK /\ CallsOK /\ program \in Programs
  BY DEF ShellInv, ParserOK
<1>3. sections' \in Seq(SectionsOf(program))
  BY <1>1, <1>2, SectionsType, TypedLines DEF Sections
<1>4. ParserOK'
  BY <1>1, <1>2, <1>3 DEF ParserOK
<1>5. CallsOK'
  BY <1>1, <1>2 DEF CallsOK
<1>6. OneCall'
  <2>1. frames' = <<>> /\ DOMAIN frames' = {} /\ Len(frames') = 0
    BY <1>1, <1>2 DEF CallsOK
  <2>2. QED
    BY <2>1 DEF OneCall
<1>7. QuitOK'
  <2>1. DOMAIN own' = {}
    BY <1>1
  <2>2. QED
    BY <2>1 DEF QuitOK, Quits
<1>8. QED
  BY <1>4, <1>5, <1>6, <1>7 DEF ShellInv

LEMMA LoopInv == ShellInv /\ Loop => ShellInv'
<1> SUFFICES ASSUME ShellInv, Loop
             PROVE  ShellInv'
  OBVIOUS
<1>1. ParserOK'
  BY DEF Loop, ShellInv, ParserOK
<1>2. CallsOK' /\ OneCall'
  BY DEF Loop, ShellInv, CallsOK, OneCall
<1>3. QuitOK'
  BY DEF Loop, ShellInv, QuitOK, Quits
<1>4. QED
  BY <1>1, <1>2, <1>3 DEF ShellInv

LEMMA EndLineInv == ShellInv /\ EndLine => ShellInv'
<1> SUFFICES ASSUME ShellInv, EndLine
             PROVE  ShellInv'
  OBVIOUS
<1>1. ParserOK'
  BY DEF EndLine, ShellInv, ParserOK
<1>2. CallsOK' /\ OneCall'
  BY DEF EndLine, ShellInv, CallsOK, OneCall
<1>3. QuitOK'
  BY DEF EndLine, ShellInv, QuitOK, Quits
<1>4. QED
  BY <1>1, <1>2, <1>3 DEF ShellInv

(* A line is taken, under RR from the turn too.                            *)
LEMMA LeftOf ==
    ASSUME ParserOK, frames # <<>>, NextLine
    PROVE  \E left \in Nat : frames' = [frames EXCEPT ![1].lines = Tail(frames[1].lines),
                                                      ![1].left = left]
<1>1. Head(frames) = frames[1] /\ Head(frames).left \in Nat
  BY HeadCall
<1>2. PICK left : left = IF Head(frames).policy = "RR" THEN frames[1].left - 1
                         ELSE frames[1].left
  OBVIOUS
<1>3. left \in Nat
  BY <1>1, <1>2 DEF NextLine
<1>4. frames' = [frames EXCEPT ![1].lines = Tail(frames[1].lines), ![1].left = left]
  BY <1>2 DEF NextLine
<1>5. QED
  BY <1>3, <1>4

LEMMA NextLineInv == ShellInv /\ NextLine => ShellInv'
<1> SUFFICES ASSUME ShellInv, NextLine
             PROVE  ShellInv'
  OBVIOUS
<1>1. /\ phase = "script" /\ frames # <<>> /\ Head(frames).lines # <<>>
      /\ ParserOK /\ program \in Programs
  BY DEF NextLine, ShellInv, CallsOK, ParserOK
<1>2. /\ phase' = "line" /\ sections' = Sections(Head(Head(frames).lines))
      /\ program' = program /\ queue' = queue /\ ret' = ret /\ own' = own
      /\ stranded' = stranded
  BY DEF NextLine
<1> DEFINE lines == frames[1].lines
<1>3. lines \in Seq(LinesOf(program)) /\ Head(frames) = frames[1] /\ lines # <<>>
  BY <1>1, HeadCall
<1>4. /\ Head(lines) \in LinesOf(program) /\ Head(lines) = lines[1] /\ 1 \in DOMAIN lines
      /\ Tail(lines) \in Seq(LinesOf(program))
      /\ \A i \in DOMAIN Tail(lines) : i + 1 \in DOMAIN lines /\ Tail(lines)[i] = lines[i + 1]
  BY <1>3, TailOf
<1>5. \E left \in Nat : frames' = [frames EXCEPT ![1].lines = Tail(lines), ![1].left = left]
  BY <1>1, LeftOf
<1>6. /\ frames' \in Seq(Call(program)) /\ Len(frames') = Len(frames) /\ frames' # <<>>
      /\ frames'[1].lines = Tail(lines)
      /\ \A i \in DOMAIN frames' : i # 1 => frames'[i] = frames[i]
  <2> HIDE DEF lines
  <2>1. frames \in Seq(Call(program))
    BY <1>1 DEF ParserOK
  <2>2. PICK left \in Nat : frames' = [frames EXCEPT ![1].lines = Tail(lines), ![1].left = left]
    BY <1>5
  <2>3. Tail(lines) \in Seq(LinesOf(program))
    BY <1>4
  <2>4. QED
    BY <1>1, <2>1, <2>2, <2>3, TopOf
<1>7. sections' = parseInput(program, lines[1])
  BY <1>2, <1>3, <1>4 DEF Sections
<1>8. ParserOK'
  <2>1. sections' \in Seq(SectionsOf(program))
    BY <1>1, <1>4, <1>7, SectionsType
  <2>2. QED
    BY <1>1, <1>2, <1>6, <2>1 DEF ParserOK
<1>9. CallsOK'
  BY <1>1, <1>2, <1>6 DEF ShellInv, CallsOK
<1>10. OneCall'
  <2> SUFFICES ASSUME program = "a3"
               PROVE  OneCall'
    BY <1>2 DEF OneCall
  <2>1. OneCall /\ Len(frames) = 1 /\ DOMAIN frames' = {1} /\ 1 \in DOMAIN frames
    <3>1. OneCall
      BY DEF ShellInv
    <3>2. Len(frames) = 1 /\ 1 \in DOMAIN frames
      BY <1>1, <3>1, InnermostOnly
    <3>3. QED
      BY <1>6, <3>1, <3>2
  <2>2. \A k \in DOMAIN lines : \E f \in DOMAIN Files["a3"] : lines[k] \in ToSet(Files["a3"][f])
    BY <2>1 DEF OneCall
  <2>3. \A k \in DOMAIN Tail(lines) :
          \E f \in DOMAIN Files["a3"] : Tail(lines)[k] \in ToSet(Files["a3"][f])
    BY <1>4, <2>2
  <2>4. \A w \in ToSet(parseInput("a3", lines[1])) : interpreter("a3", w) # "run"
    BY <1>4, <2>2, VocabularyAssumption
  <2>5. \A i \in DOMAIN sections' : interpreter("a3", sections'[i]) # "run"
    <3>1. \A i \in DOMAIN sections' : sections'[i] \in ToSet(parseInput("a3", lines[1]))
      BY <1>7 DEF ToSet
    <3>2. QED
      BY <2>4, <3>1
  <2>6. QED
    BY <1>6, <2>1, <2>3, <2>5 DEF OneCall
<1>11. QuitOK'
  BY <1>1, <1>2 DEF ShellInv, QuitOK, Quits
<1>12. QED
  BY <1>8, <1>9, <1>10, <1>11 DEF ShellInv

LEMMA NextScriptInv == ShellInv /\ NextScript => ShellInv'
<1> SUFFICES ASSUME ShellInv, NextScript
             PROVE  ShellInv'
  OBVIOUS
<1>1. phase = "script" /\ frames # <<>> /\ queue # <<>> /\ ParserOK /\ stranded = <<>>
  BY DEF NextScript, Waiting, ShellInv, CallsOK
<1>2. /\ frames' = [frames EXCEPT ![1].lines = Head(queue), ![1].left = 2] /\ queue' = Tail(queue)
      /\ phase' = phase /\ sections' = sections /\ program' = program /\ ret' = ret /\ own' = own
      /\ stranded' = stranded
  BY DEF NextScript
<1>3. program = "a2" /\ queue \in Seq(Processes)
  BY <1>1 DEF ParserOK
<1>4. Head(queue) \in Seq(LinesOf(program)) /\ Tail(queue) \in Seq(Processes)
  BY <1>1, <1>3, TailOf DEF Processes
<1>5. frames' \in Seq(Call(program)) /\ frames' # <<>>
  <2>1. frames \in Seq(Call(program))
    BY <1>1 DEF ParserOK
  <2>2. QED
    BY <1>1, <1>2, <1>4, <2>1, TopOf
<1>6. ParserOK'
  BY <1>1, <1>2, <1>3, <1>4, <1>5 DEF ParserOK
<1>7. CallsOK' /\ OneCall'
  BY <1>1, <1>2, <1>3, <1>5 DEF CallsOK, OneCall
<1>8. QuitOK'
  BY <1>1, <1>2 DEF ShellInv, QuitOK, Quits
<1>9. QED
  BY <1>6, <1>7, <1>8 DEF ShellInv

(* The process goes to the tail of the queue with what is left of it.      *)
LEMMA QuantumFrames ==
    ASSUME ShellInv, Quantum
    PROVE  /\ program = "a2" /\ phase = "script" /\ frames # <<>> /\ stranded = <<>>
           /\ queue' \in Seq(Processes)
           /\ frames' = [frames EXCEPT ![1].lines = <<>>]
           /\ frames' \in Seq(Call(program)) /\ frames' # <<>>
<1>1. phase = "script" /\ frames # <<>> /\ ParserOK /\ stranded = <<>>
  BY DEF Quantum, ShellInv, CallsOK
<1>2. program = "a2" /\ Head(frames).lines \in Seq(LinesOf(program))
  BY <1>1, HeadCall DEF Quantum
<1>3. queue' \in Seq(Processes)
  BY <1>1, <1>2, AppendOf DEF Quantum, ParserOK, Processes
<1>4. frames' = [frames EXCEPT ![1].lines = <<>>]
  BY DEF Quantum
<1>5. frames' \in Seq(Call(program)) /\ frames' # <<>>
  <2>1. frames \in Seq(Call(program)) /\ <<>> \in Seq(LinesOf(program)) /\ 0 \in Nat
    BY <1>1 DEF ParserOK
  <2>2. QED
    BY <1>1, <1>4, <2>1, TopOf
<1>6. QED
  BY <1>1, <1>2, <1>3, <1>4, <1>5

LEMMA QuantumInv == ShellInv /\ Quantum => ShellInv'
<1> SUFFICES ASSUME ShellInv, Quantum
             PROVE  ShellInv'
  OBVIOUS
<1>1. /\ program = "a2" /\ phase = "script" /\ frames # <<>> /\ stranded = <<>>
      /\ queue' \in Seq(Processes) /\ frames' \in Seq(Call(program)) /\ frames' # <<>>
      /\ ParserOK
  BY QuantumFrames DEF ShellInv
<1>2. /\ phase' = phase /\ sections' = sections /\ program' = program /\ ret' = ret
      /\ own' = own /\ stranded' = stranded
  BY DEF Quantum
<1>3. ParserOK'
  BY <1>1, <1>2 DEF ParserOK
<1>4. CallsOK' /\ OneCall'
  BY <1>1, <1>2 DEF CallsOK, OneCall
<1>5. QuitOK'
  BY <1>1, <1>2 DEF ShellInv, QuitOK, Quits
<1>6. QED
  BY <1>3, <1>4, <1>5 DEF ShellInv

LEMMA EndScriptInv == ShellInv /\ EndScript => ShellInv'
<1> SUFFICES ASSUME ShellInv, EndScript
             PROVE  ShellInv'
  OBVIOUS
<1>1. phase = "script" /\ frames # <<>> /\ queue = <<>> /\ ParserOK /\ stranded = <<>>
  BY DEF EndScript, Waiting, ShellInv, CallsOK
<1>2. /\ ret' \in {ret, Head(frames).ret} /\ frames' = Tail(frames)
      /\ phase' \in {"ended", "line"} /\ sections' \in {sections, Head(frames).after}
      /\ queue' = queue /\ program' = program /\ own' = own /\ stranded' = stranded
  BY DEF EndScript
<1>3. /\ Head(frames).after \in Seq(SectionsOf(program)) /\ Head(frames).ret \in {0, Failed}
      /\ Tail(frames) \in Seq(Call(program)) /\ Len(Tail(frames)) = Len(frames) - 1
  BY <1>1, HeadCall
<1>4. ParserOK'
  BY <1>1, <1>2, <1>3 DEF ParserOK
<1>5. CallsOK'
  BY <1>1, <1>2 DEF CallsOK
<1>6. OneCall'
  <2> SUFFICES ASSUME program = "a3"
               PROVE  OneCall'
    BY <1>2 DEF OneCall
  <2>1. Len(frames) = 1
    BY <1>1, InnermostOnly DEF ShellInv
  <2>2. frames' = <<>> /\ Len(frames') = 0 /\ DOMAIN frames' = {}
    BY <1>2, <1>3, <2>1
  <2>3. QED
    BY <2>2 DEF OneCall
<1>7. QuitOK'
  BY <1>1, <1>2 DEF ShellInv, QuitOK, Quits
<1>8. QED
  BY <1>4, <1>5, <1>6, <1>7 DEF ShellInv

LEMMA ShellStep ==
    ASSUME ShellInv, [Next]_vars
    PROVE  ShellInv'
<1>1. ASSUME UNCHANGED vars
      PROVE  ShellInv'
  <2>1. ParserOK'
    BY <1>1 DEF vars, parser, ShellInv, ParserOK
  <2>2. CallsOK' /\ OneCall'
    BY <1>1 DEF vars, parser, ShellInv, CallsOK, OneCall
  <2>3. QuitOK'
    BY <1>1 DEF vars, parser, ShellInv, QuitOK, Quits
  <2>4. QED
    BY <2>1, <2>2, <2>3 DEF ShellInv
<1>2. QED
  BY <1>1, TypeInv, InterpretInv, LoopInv, EndLineInv, NextLineInv, QuantumInv, NextScriptInv,
     EndScriptInv DEF Next, Step

(* What the shell has still to come back from is whole, on every line, in  *)
(* every script and for all that the host's commands return.               *)
THEOREM ShellInvariance == Spec => []ShellInv
  BY ShellFresh, ShellStep, PTL DEF Spec

(* Nothing of a line is interpreted after its quit, in the line itself or  *)
(* in a script, and the prompt does not come back: -1 ends the loop of     *)
(* parseInput in a3 before the next section, and exit leaves a1 and a2.    *)
THEOREM QuitEndsLine == Spec => []QuitIsLast
<1>1. ShellInv => QuitIsLast
  BY DEF ShellInv, QuitOK, Quits, QuitIsLast
<1>2. QED
  BY <1>1, ShellInvariance, PTL

(* At the prompt no call of run or exec is open, and what waits in the     *)
(* ready queue of a2 is what lines of exec that failed have left there     *)
(* since a scheduler was last started: the outermost scheduler returns     *)
(* only when the queue is empty of what it found there, of what scripts    *)
(* have added in the background, and of what nested schedulers put back.   *)
THEOREM OnlyFailedExecsLeave == Spec => []OnlyStrandedWait
<1>1. ShellInv => OnlyStrandedWait
  BY DEF ShellInv, CallsOK, OnlyStrandedWait
<1>2. QED
  BY <1>1, ShellInvariance, PTL

----------------------------------------------------------------------------
(* The commands use the variables only as ShellVariables says.             *)

LEMMA InterpretMemory ==
    ASSUME ShellInv, Interpret
    PROVE  [VarNext]_memory
<1> DEFINE c == interpreter(program, words)
<1>1. /\ sections # <<>> /\ ParserOK /\ program \in Programs /\ words # Hang
  BY DEF Interpret, ShellInv, ParserOK
<1>2. words \in SectionsOf(program) \ {Hang}
  BY <1>1, TailOf DEF words, ParserOK
<1>3. /\ c = "set" => words[2] \in Names /\ SubSeq(words, 3, Len(words)) \in Values
      /\ c = "print" => words[2] \in Names
  BY <1>1, <1>2, VocabularyAssumption
<1>4. CASE c = "set" /\ set
  BY <1>3, <1>4 DEF set, VarNext
<1>5. CASE c = "print" /\ print
  BY <1>3, <1>5 DEF print, VarNext
<1>6. CASE c = "echo" /\ echo
  <2>1. CASE words[2] \in DOMAIN Dollar
    <3>1. Dollar[words[2]] \in Names
      BY <2>1, VocabularyAssumption
    <3>2. QED
      BY <1>6, <2>1, <3>1 DEF echo, VarNext
  <2>2. CASE words[2] \notin DOMAIN Dollar
    BY <1>6, <2>2 DEF echo
  <2>3. QED
    BY <2>1, <2>2
<1>7. CASE c = "resetmem" /\ resetmem
  BY <1>7 DEF resetmem, VarNext
<1>8. CASE (c = "run" /\ run) \/ (c = "exec" /\ exec) \/ (c \in {"quit", "exit"} /\ quit)
           \/ (c \in DOMAIN Host /\ host) \/ (c = "help" /\ help) \/ (c = "bad" /\ bad)
  BY <1>8 DEF run, exec, quit, host, help, bad
<1>9. QED
  BY <1>4, <1>5, <1>6, <1>7, <1>8 DEF Interpret

LEMMA MemoryStep ==
    ASSUME ShellInv, [Next]_vars
    PROVE  [VarNext]_memory
<1>1. CASE UNCHANGED vars
  BY <1>1 DEF vars
<1>2. CASE \E line \in Typed[program] : Type(line)
  BY <1>2 DEF Type
<1>3. CASE Loop \/ EndLine \/ NextLine \/ Quantum \/ NextScript \/ EndScript
  BY <1>3 DEF Loop, EndLine, NextLine, Quantum, NextScript, EndScript
<1>4. QED
  BY <1>1, <1>2, <1>3, InterpretMemory DEF Next, Step

(* Whatever lines and scripts a shell is given, its variables are used     *)
(* through mem_set_value, mem_get_value and mem_reset alone, and with      *)
(* names and values that are some.                                         *)
THEOREM UsesStore == Spec => VarSpec
<1>1. Init => VarInit
  BY DEF Init
<1>2. QED
  BY <1>1, MemoryStep, ShellInvariance, PTL DEF Spec, VarSpec

(* No variable of a shell ever has two places.                             *)
THEOREM ShellPlaces == Spec => []OnePlace
  BY UsesStore, PlacesUnique, PTL

(* The variables of a shell are a map with VAR_STORE_SIZE entries: what a  *)
(* line or a script shows is what was set last, by whichever of them.      *)
THEOREM ShellMap == Spec => MapSpec
  BY UsesStore, Refinement, PTL

(* The shell's phase, its calls and its queue fit the program that runs:   *)
(* only a2 queues scripts, and no script of a3 runs in another.            *)
THEOREM ShellTypes == Spec => []TypeOK
<1>1. ASSUME ShellInv, VarInv
      PROVE  TypeOK
  <2>1. \A i \in DOMAIN frames : frames[i].policy = "RR" => program = "a2"
    <3>1. \A i \in DOMAIN frames : frames[i] \in Call(program)
      BY <1>1 DEF ShellInv, ParserOK
    <3>2. QED
      BY <3>1 DEF Call
  <2>2. QED
    BY <1>1, <2>1 DEF ShellInv, ParserOK, CallsOK, OneCall, VarInv, TypeOK
<1>2. QED
  BY <1>1, ShellInvariance, UsesStore, VarInvariance, PTL

----------------------------------------------------------------------------
(* The order of a line's commands.  A line is what its parser makes of it; *)
(* the calls of run and exec come back to what was left of it.                      *)

\* u is s with t behind it.
Joined(s, t, u) ==
    /\ Len(u) = Len(s) + Len(t)
    /\ \A i \in DOMAIN s : u[i] = s[i]
    /\ \A i \in DOMAIN t : u[Len(s) + i] = t[i]

Line == Sections(typed)

Outermost == frames[Len(frames)].after

TypedOK == /\ typed \in LinesOf(program)
           /\ count > 0 => typed \in Typed[program]

\* In a1 and a2 run returns to the line that called it.
KeepsOrder ==
    program # "a3" =>
      /\ phase = "line" /\ frames = <<>> => Joined(own, sections, Line)
      /\ frames # <<>> => Joined(own, Outermost, Line)
      /\ phase = "ended" /\ frames = <<>> => ret = -1
      /\ phase = "prompt" /\ count > 0 => own = Line

IsRun(k) == interpreter(program, own[k]) = "run"

\* A script of the line has left its own last line behind a quit.
Strayed == \E k \in DOMAIN own :
    IsRun(k) /\ own[k][2] \in DOMAIN Files["a3"] /\ KeepsCursor(own[k][2])

\* The line was cut at a run.
Cut == /\ own # <<>> /\ IsRun(Len(own))
       /\ Len(own) <= Len(Line) /\ \A i \in DOMAIN own : own[i] = Line[i]

\* In a3 the script that the line has called is at its end when strtok is.
AtScript(f) ==
    /\ f \in DOMAIN Files["a3"] /\ ~KeepsCursor(f)
    /\ LET lines == frames[1].lines
           s     == a3_parseInput(Last(Files["a3"][f]))
       IN  /\ lines # <<>> => lines[Len(lines)] = Last(Files["a3"][f])
           /\ lines = <<>> /\ phase = "line" =>
                /\ Len(sections) <= Len(s)
                /\ \A i \in DOMAIN sections : sections[i] = s[Len(s) - Len(sections) + i]
           /\ lines = <<>> /\ phase \in {"script", "ended"} => sections = <<>>

LosesOrder ==
    program = "a3" /\ ~Strayed =>
      /\ phase = "line" /\ frames = <<>> => Joined(own, sections, Line) \/ (Cut /\ sections = <<>>)
      /\ frames # <<>> => Cut /\ AtScript(own[Len(own)][2])
      /\ phase = "ended" /\ frames = <<>> => ret = -1
      /\ phase = "prompt" /\ count > 0 => own = Line \/ Cut

OrderInv == ShellInv /\ TypedOK /\ KeepsOrder /\ LosesOrder

LEMMA JoinedEnd ==
    ASSUME NEW S, NEW s \in Seq(S), NEW u \in Seq(S), Joined(s, <<>>, u)
    PROVE  s = u
<1>1. Len(<<>>) = 0 /\ Len(s) \in Nat /\ Len(u) \in Nat
  OBVIOUS
<1>2. Len(u) = Len(s) /\ \A i \in 1 .. Len(s) : u[i] = s[i]
  BY <1>1 DEF Joined
<1>3. QED
  BY <1>1, <1>2

(* One command of the line is interpreted, the rest of it is left.         *)
LEMMA JoinedStep ==
    ASSUME NEW S, NEW s \in Seq(S), NEW t \in Seq(S), NEW u \in Seq(S), t # <<>>, Joined(s, t, u)
    PROVE  Joined(Append(s, Head(t)), Tail(t), u)
<1> DEFINE a == Append(s, Head(t))
<1>1. /\ Head(t) \in S /\ Head(t) = t[1] /\ 1 \in DOMAIN t /\ Tail(t) \in Seq(S)
      /\ \A i \in DOMAIN Tail(t) : i + 1 \in DOMAIN t /\ Tail(t)[i] = t[i + 1]
  BY TailOf
<1>2. /\ Len(a) = Len(s) + 1 /\ a[Len(s) + 1] = Head(t)
      /\ \A i \in DOMAIN s : a[i] = s[i]
      /\ \A i \in DOMAIN a : i \in DOMAIN s \/ i = Len(s) + 1
  BY <1>1, AppendOf
<1>3. Len(s) \in Nat /\ Len(t) \in Nat /\ Len(t) # 0 /\ Len(Tail(t)) = Len(t) - 1
  OBVIOUS
<1>4. /\ Len(u) = Len(s) + Len(t) /\ \A i \in DOMAIN s : u[i] = s[i]
      /\ \A i \in DOMAIN t : u[Len(s) + i] = t[i]
  BY DEF Joined
<1> HIDE DEF a
<1>5. Len(u) = Len(a) + Len(Tail(t))
  BY <1>2, <1>3, <1>4
<1>6. \A i \in DOMAIN a : u[i] = a[i]
  BY <1>1, <1>2, <1>4
<1>7. \A i \in DOMAIN Tail(t) : u[Len(a) + i] = Tail(t)[i]
  <2> SUFFICES ASSUME NEW i \in DOMAIN Tail(t)
               PROVE  u[Len(a) + i] = Tail(t)[i]
    OBVIOUS
  <2>1. i \in Nat /\ i + 1 \in DOMAIN t /\ Tail(t)[i] = t[i + 1]
    BY <1>1, <1>3
  <2>2. Len(a) + i = Len(s) + (i + 1)
    BY <1>2, <1>3, <2>1
  <2>3. QED
    BY <1>4, <2>1, <2>2
<1>8. QED
  BY <1>5, <1>6, <1>7 DEF Joined, a

LEMMA JoinedStart ==
    ASSUME NEW S, NEW u \in Seq(S)
    PROVE  Joined(<<>>, u, u)
<1>1. Len(<<>>) = 0 /\ Len(u) \in Nat /\ DOMAIN <<>> = {} /\ DOMAIN u = 1 .. Len(u)
  OBVIOUS
<1>2. \A i \in DOMAIN u : u[0 + i] = u[i]
  BY <1>1
<1>3. QED
  BY <1>1, <1>2 DEF Joined

LEMMA LineType ==
    ASSUME ParserOK, TypedOK
    PROVE  Line \in Seq(SectionsOf(program))
  BY SectionsType DEF ParserOK, TypedOK, Line, Sections

(* Behind a call of run, the line and the rest it comes back to.           *)
LEMMA CalledFrame ==
    ASSUME ShellInv, sections # <<>>, NEW lines \in Seq(LinesOf(program)), NEW r \in {0, Failed},
           NEW policy \in IF program = "a2" THEN {"FCFS", "RR"} ELSE {"FCFS"},
           CallScript(lines, policy, r)
    PROVE  /\ frames' # <<>> /\ Len(frames') = Len(frames) + 1 /\ frames'[1].lines = lines
           /\ frames = <<>> => frames'[Len(frames')].after = Tail(sections)
           /\ frames # <<>> => frames'[Len(frames')] = frames[Len(frames)]
<1> DEFINE e == [lines |-> lines, after |-> Tail(sections),
                 policy |-> policy, left |-> 0, ret |-> r]
<1>1. frames \in Seq(Call(program)) /\ sections \in Seq(SectionsOf(program))
  BY DEF ShellInv, ParserOK
<1>2. Tail(sections) \in Seq(SectionsOf(program))
  BY <1>1, TailOf
<1>3. e \in Call(program) /\ e.lines = lines /\ e.after = Tail(sections)
  BY <1>2 DEF Call
<1>4. frames' = <<e>> \o frames
  BY DEF CallScript
<1> HIDE DEF e
<1>5. frames' # <<>> /\ Len(frames') = Len(frames) + 1 /\ frames'[1] = e
  BY <1>1, <1>3, <1>4, PushOf
<1>6. ASSUME frames # <<>>
      PROVE  frames'[Len(frames')] = frames[Len(frames)]
  <2>1. Len(frames) \in Nat /\ Len(frames) # 0
    BY <1>1, <1>6
  <2>2. <<e>> \in Seq(Call(program)) /\ Len(<<e>>) = 1
    BY <1>3
  <2>3. (<<e>> \o frames)[Len(frames) + 1] = frames[Len(frames)]
    BY <1>1, <2>1, <2>2
  <2>4. QED
    BY <1>4, <1>5, <2>3
<1>7. ASSUME frames = <<>>
      PROVE  frames'[Len(frames')].after = Tail(sections)
  <2>1. Len(frames') = 1
    BY <1>5, <1>7
  <2>2. QED
    BY <1>3, <1>5, <2>1
<1>8. QED
  BY <1>3, <1>5, <1>6, <1>7

LEMMA LineKept == program' = program /\ typed' = typed => Line' = Line
  BY DEF Line, Sections

LEMMA InterpretKeeps ==
    ASSUME OrderInv, Interpret
    PROVE  KeepsOrder'
<1> SUFFICES ASSUME program # "a3"
             PROVE  KeepsOrder'
  BY Outcomes DEF OrderInv, ShellInv, KeepsOrder
<1>1. /\ sections # <<>> /\ phase = "line" /\ program' = program
      /\ own' = IF frames = <<>> THEN Append(own, words) ELSE own
      /\ Returned \/ Leave \/ Resets \/ Called \/ Postponed
  BY Outcomes DEF OrderInv, ShellInv
<1>2. Line' = Line
  BY <1>1, LineKept DEF Interpret
<1>3. ShellInv /\ ParserOK /\ TypedOK /\ KeepsOrder
  BY DEF OrderInv, ShellInv
<1>4. CASE frames = <<>>
  <2>1. Joined(own', Tail(sections), Line)
    <3>1. Joined(own, sections, Line)
      BY <1>1, <1>3, <1>4 DEF KeepsOrder
    <3>2. /\ own \in Seq(SectionsOf(program)) /\ sections \in Seq(SectionsOf(program))
          /\ Line \in Seq(SectionsOf(program))
      BY <1>3, LineType DEF ParserOK
    <3>3. own' = Append(own, Head(sections))
      BY <1>1, <1>4 DEF words
    <3>4. QED
      BY <1>1, <3>1, <3>2, <3>3, JoinedStep
  <2>2. CASE Returned
    <3>1. PICK r \in {-1, 0, Failed} : Return(r)
      BY <2>2 DEF Returned
    <3>2. CASE r = -1
      <4>1. phase' = "ended" /\ frames' = <<>> /\ ret' = -1
        BY <1>4, <3>1, <3>2 DEF Return
      <4>2. QED
        BY <4>1 DEF KeepsOrder
    <3>3. CASE r # -1
      <4>1. phase' = "line" /\ frames' = <<>> /\ sections' = Tail(sections)
        BY <1>4, <3>1, <3>3 DEF Return, Rest
      <4>2. QED
        BY <1>2, <2>1, <4>1 DEF KeepsOrder
    <3>4. QED
      BY <3>2, <3>3
  <2>3. CASE Leave \/ Resets
    BY <1>4, <2>3 DEF Leave, Resets, KeepsOrder
  <2>4. CASE Called
    <3>1. PICK lines \in Seq(LinesOf(program)), r \in {0, Failed},
               policy \in IF program = "a2" THEN {"FCFS", "RR"} ELSE {"FCFS"} :
            CallScript(lines, policy, r)
      BY <2>4 DEF Called
    <3>2. frames' # <<>> /\ Outermost' = Tail(sections)
      BY <1>1, <1>3, <1>4, <3>1, CalledFrame DEF Outermost
    <3>3. phase' = "script"
      BY <3>1 DEF CallScript
    <3>4. QED
      BY <1>2, <2>1, <3>2, <3>3 DEF KeepsOrder
  <2>5. CASE Postponed
    <3>1. phase' = "line" /\ frames' = <<>> /\ sections' = Tail(sections)
      BY <1>1, <1>4, <2>5 DEF Postponed
    <3>2. QED
      BY <1>2, <2>1, <3>1 DEF KeepsOrder
  <2>6. QED
    BY <1>1, <2>2, <2>3, <2>4, <2>5
<1>5. CASE frames # <<>>
  <2>1. Joined(own', Outermost, Line')
    BY <1>1, <1>2, <1>3, <1>5 DEF KeepsOrder
  <2>2. frames' # <<>> /\ Outermost' = Outermost /\ phase' # "prompt"
    <3>1. CASE Called
      <4>1. PICK lines \in Seq(LinesOf(program)), r \in {0, Failed},
                 policy \in IF program = "a2" THEN {"FCFS", "RR"} ELSE {"FCFS"} :
              CallScript(lines, policy, r)
        BY <3>1 DEF Called
      <4>2. frames' # <<>> /\ frames'[Len(frames')] = frames[Len(frames)]
        BY <1>1, <1>3, <1>5, <4>1, CalledFrame
      <4>3. phase' = "script"
        BY <4>1 DEF CallScript
      <4>4. QED
        BY <4>2, <4>3 DEF Outermost
    <3>2. CASE Returned \/ Leave \/ Resets \/ Postponed
      BY <1>1, <1>5, <3>2 DEF Returned, Return, Leave, Resets, Postponed, Outermost
    <3>3. QED
      BY <1>1, <3>1, <3>2
  <2>3. QED
    BY <2>1, <2>2 DEF KeepsOrder
<1>6. QED
  BY <1>4, <1>5

LEMMA EndLineKeeps ==
    ASSUME OrderInv, EndLine
    PROVE  KeepsOrder'
<1> SUFFICES ASSUME program # "a3"
             PROVE  KeepsOrder'
  BY DEF EndLine, KeepsOrder
<1>1. /\ program' = program /\ typed' = typed /\ own' = own /\ frames' = frames /\ ret' = ret
      /\ phase = "ended" \/ (phase = "line" /\ sections = <<>>)
      /\ phase' = IF frames # <<>> THEN "script" ELSE IF ret = -1 THEN "gone" ELSE "prompt"
  BY DEF EndLine
<1>2. Line' = Line /\ ParserOK /\ TypedOK /\ KeepsOrder
  BY <1>1, LineKept DEF OrderInv, ShellInv
<1>3. CASE frames # <<>>
  BY <1>1, <1>2, <1>3 DEF KeepsOrder, Outermost
<1>4. CASE frames = <<>> /\ ret = -1
  BY <1>1, <1>4 DEF KeepsOrder
<1>5. CASE frames = <<>> /\ ret # -1
  <2>1. phase = "line" /\ sections = <<>>
    BY <1>1, <1>2, <1>5 DEF KeepsOrder
  <2>2. Joined(own, <<>>, Line)
    BY <1>2, <1>5, <2>1 DEF KeepsOrder
  <2>3. own = Line
    <3>1. own \in Seq(SectionsOf(program)) /\ Line \in Seq(SectionsOf(program))
      BY <1>2, LineType DEF ParserOK
    <3>2. QED
      BY <2>2, <3>1, JoinedEnd
  <2>4. QED
    BY <1>1, <1>2, <1>5, <2>3 DEF KeepsOrder
<1>6. QED
  BY <1>3, <1>4, <1>5

LEMMA ScriptGoesOn ==
    ASSUME ShellInv, NextLine \/ Quantum \/ NextScript
    PROVE  /\ frames # <<>> /\ frames' # <<>> /\ Outermost' = Outermost
           /\ phase' # "prompt" /\ own' = own /\ program' = program /\ typed' = typed
<1>1. /\ phase = "script" /\ frames # <<>> /\ ParserOK /\ frames \in Seq(Call(program))
  BY DEF NextLine, Quantum, NextScript, ShellInv, CallsOK, ParserOK
<1>2. \E lines \in Seq(LinesOf(program)), left \in Nat :
        \/ frames' = [frames EXCEPT ![1].lines = lines]
        \/ frames' = [frames EXCEPT ![1].lines = lines, ![1].left = left]
  <2>1. CASE NextLine
    <3>1. Tail(frames[1].lines) \in Seq(LinesOf(program))
      BY <1>1, <2>1, HeadCall, TailOf DEF NextLine
    <3>2. QED
      BY <1>1, <2>1, <3>1, LeftOf
  <2>2. CASE NextScript
    <3>1. program = "a2" /\ queue \in Seq(Processes) /\ queue # <<>>
      BY <1>1, <2>2 DEF NextScript, Waiting, ParserOK
    <3>2. Head(queue) \in Seq(LinesOf(program))
      BY <3>1, TailOf DEF Processes
    <3>3. frames' = [frames EXCEPT ![1].lines = Head(queue), ![1].left = 2]
      BY <2>2 DEF NextScript
    <3>4. QED
      BY <3>2, <3>3
  <2>3. CASE Quantum
    <3>1. <<>> \in Seq(LinesOf(program)) /\ 0 \in Nat
      OBVIOUS
    <3>2. QED
      BY <2>3, <3>1, QuantumFrames
  <2>4. QED
    BY <2>1, <2>2, <2>3
<1>3. PICK lines \in Seq(LinesOf(program)), left \in Nat :
        \/ frames' = [frames EXCEPT ![1].lines = lines]
        \/ frames' = [frames EXCEPT ![1].lines = lines, ![1].left = left]
  BY <1>2
<1>4. /\ frames' # <<>> /\ Len(frames') = Len(frames)
      /\ frames'[Len(frames)].after = frames[Len(frames)].after
  BY <1>1, <1>3, TopOf
<1>5. phase' # "prompt" /\ own' = own /\ program' = program /\ typed' = typed
  BY <1>1 DEF NextLine, Quantum, NextScript
<1>6. QED
  BY <1>1, <1>4, <1>5 DEF Outermost

LEMMA EndScriptKeeps ==
    ASSUME OrderInv, EndScript
    PROVE  KeepsOrder'
<1> SUFFICES ASSUME program # "a3"
             PROVE  KeepsOrder'
  BY DEF EndScript, KeepsOrder
<1>1. /\ program' = program /\ typed' = typed /\ own' = own /\ frames' = Tail(frames)
      /\ sections' = Head(frames).after /\ phase' = IF ret' = -1 THEN "ended" ELSE "line"
  BY DEF EndScript
<1>2. /\ Line' = Line /\ ParserOK /\ KeepsOrder /\ frames # <<>>
      /\ frames \in Seq(Call(program)) /\ Joined(own, Outermost, Line)
  BY <1>1, LineKept DEF OrderInv, ShellInv, EndScript, CallsOK, KeepsOrder, ParserOK
<1>3. Len(frames) \in Nat /\ Len(frames) # 0 /\ Len(Tail(frames)) = Len(frames) - 1
      /\ Head(frames) = frames[1]
  BY <1>2
<1>4. CASE Len(frames) = 1
  <2>1. frames' = <<>> /\ sections' = Outermost
    <3>1. Len(frames') = 0 /\ frames' \in Seq(Call(program))
      BY <1>1, <1>2, <1>3, <1>4, HeadCall
    <3>2. frames' = <<>>
      BY <3>1
    <3>3. QED
      BY <1>1, <1>3, <1>4, <3>2 DEF Outermost
  <2>2. QED
    BY <1>1, <1>2, <2>1 DEF KeepsOrder
<1>5. CASE Len(frames) # 1
  <2>1. frames' # <<>> /\ Outermost' = Outermost
    <3>1. Len(frames') = Len(frames) - 1 /\ Len(frames) - 1 \in DOMAIN Tail(frames)
      BY <1>1, <1>2, <1>3, <1>5
    <3>2. frames'[Len(frames')] = frames[Len(frames)]
      <4>1. Tail(frames)[Len(frames) - 1] = frames[(Len(frames) - 1) + 1]
        BY <1>2, <3>1, TailOf
      <4>2. (Len(frames) - 1) + 1 = Len(frames)
        BY <1>3
      <4>3. QED
        BY <1>1, <3>1, <4>1, <4>2
    <3>3. Len(frames') # 0
      BY <1>3, <1>5, <3>1
    <3>4. Len(<<>>) = 0
      OBVIOUS
    <3>5. QED
      BY <3>2, <3>3, <3>4 DEF Outermost
  <2>2. QED
    BY <1>1, <1>2, <2>1 DEF KeepsOrder
<1>6. QED
  BY <1>4, <1>5

LEMMA KeepsOrderStep ==
    ASSUME OrderInv, [Next]_vars
    PROVE  KeepsOrder'
<1>1. ASSUME NEW line \in Typed[program], Type(line)
      PROVE  KeepsOrder'
  <2>1. /\ program' = program /\ typed' = line /\ own' = <<>> /\ frames' = <<>>
        /\ phase' = "line" /\ sections' = Line'
    BY <1>1 DEF Type, Line, Sections, OrderInv, ShellInv, CallsOK
  <2>2. sections' \in Seq(SectionsOf(program))
    <3>1. program \in Programs /\ line \in LinesOf(program)
      BY TypedLines DEF OrderInv, ShellInv, ParserOK
    <3>2. QED
      BY <1>1, <3>1, SectionsType DEF Type, Sections
  <2>3. Joined(own', sections', Line')
    BY <2>1, <2>2, JoinedStart
  <2>4. QED
    BY <2>1, <2>3 DEF KeepsOrder
<1>2. ASSUME Loop PROVE KeepsOrder'
  <2>1. Line' = Line
    BY <1>2, LineKept DEF Loop
  <2>2. QED
    BY <1>2, <2>1 DEF Loop, OrderInv, KeepsOrder, Outermost
<1>3. ASSUME NextLine \/ Quantum \/ NextScript PROVE KeepsOrder'
  BY <1>3, ScriptGoesOn, LineKept DEF OrderInv, KeepsOrder
<1>4. ASSUME UNCHANGED vars PROVE KeepsOrder'
  <2>1. Line' = Line
    BY <1>4, LineKept DEF vars
  <2>2. QED
    BY <1>4, <2>1 DEF vars, parser, OrderInv, KeepsOrder, Outermost
<1>5. QED
  BY <1>1, <1>2, <1>3, <1>4, InterpretKeeps, EndLineKeeps, EndScriptKeeps DEF Next, Step

(* The commands of a3, as the line of the prompt and its script see them.  *)
LEMMA A3Outcomes ==
    ASSUME ShellInv, Interpret, program = "a3"
    PROVE  \/ \E r \in {0, Failed} : Return(r)
           \/ interpreter(program, words) \in {"quit", "exit"} /\ Return(-1)
           \/ Leave
           \/ /\ interpreter(program, words) = "run" /\ words[2] \in DOMAIN Files["a3"]
              /\ CallScript(Files["a3"][words[2]], "FCFS", 0)
<1> DEFINE c == interpreter(program, words)
<1>1. \/ c = "set" /\ set
      \/ c = "print" /\ print
      \/ c = "echo" /\ echo
      \/ c = "run" /\ run
      \/ c = "exec" /\ exec
      \/ c \in {"quit", "exit"} /\ quit
      \/ c = "resetmem" /\ resetmem
      \/ c \in DOMAIN Host /\ host
      \/ c = "help" /\ help
      \/ c = "bad" /\ bad
  BY DEF Interpret
<1>2. DOMAIN Host = {} /\ c # "exec"
  BY DEF Host, interpreter, Commands, a3_commands
<1>3. ASSUME set \/ print \/ echo \/ resetmem \/ help \/ bad
      PROVE  \E r \in {0, Failed} : Return(r)
  <2>1. Return(0) \/ Return(Failed)
    BY <1>3 DEF set, print, echo, resetmem, help, bad
  <2>2. QED
    BY <2>1
<1>4. ASSUME c = "run", run
      PROVE  \/ Leave
             \/ /\ words[2] \in DOMAIN Files["a3"]
                /\ CallScript(Files["a3"][words[2]], "FCFS", 0)
  <2>1. RunNow(words[2])
    BY <1>4 DEF run
  <2>2. QED
    BY <2>1 DEF RunNow, ScriptLines, Leave
<1>5. ASSUME c \in {"quit", "exit"}, quit
      PROVE  Return(-1)
  BY <1>5 DEF quit
<1>6. QED
  BY <1>1, <1>2, <1>3, <1>4, <1>5

LEMMA LastOf == \A s : Last(s) = s[Len(s)]
  BY DEF Last

(* A quit that leaves a section of the script's last line behind for the   *)
(* line of the prompt is what KeepsCursor describes.                       *)
LEMMA QuitOrStray ==
    ASSUME ShellInv, sections # <<>>, NEW s, Len(s) \in Nat, DOMAIN s = 1 .. Len(s),
           Len(sections) <= Len(s),
           \A i \in DOMAIN sections : sections[i] = s[Len(s) - Len(sections) + i],
           interpreter("a3", words) \in {"quit", "exit"},
           Rest(-1) # <<>>
    PROVE  \E i \in 1 .. Len(s) - 2 : s[i][1] \in {"quit", "exit"}
<1>1. sections \in Seq(SectionsOf(program)) /\ Len(sections) \in Nat /\ Len(sections) # 0
  BY DEF ShellInv, ParserOK
<1>2. words = sections[1] /\ 1 \in DOMAIN sections
  BY <1>1, TailOf DEF words
<1>3. words[1] \in {"quit", "exit"}
  BY DEF interpreter
<1>4. Len(sections) >= 3
  <2>1. CASE Len(sections) = 1
    <3>1. Rest(-1) = Tail(sections) /\ Len(Tail(sections)) = 0
      BY <1>1, <2>1 DEF Rest
    <3>2. Tail(sections) \in Seq(SectionsOf(program))
      BY <1>1, TailOf
    <3>3. QED
      BY <3>1, <3>2
  <2>2. CASE Len(sections) = 2
    <3>1. Rest(-1) = SubSeq(sections, 3, 2)
      BY <2>2 DEF Rest
    <3>2. QED
      BY <3>1, SubSeqEmpty
  <2>3. Len(sections) = 1 \/ Len(sections) = 2 \/ Len(sections) >= 3
    <3> DEFINE n == Len(sections)
    <3>1. n \in Nat /\ n # 0
      BY <1>1
    <3> HIDE DEF n
    <3>2. n = 1 \/ n = 2 \/ n >= 3
      BY <3>1
    <3>3. QED
      BY <3>2 DEF n
  <2>4. QED
    BY <2>1, <2>2, <2>3
<1>5. Len(s) - Len(sections) + 1 \in 1 .. Len(s) - 2
  BY <1>1, <1>4
<1>6. s[Len(s) - Len(sections) + 1] = words
  BY <1>2
<1>7. QED
  BY <1>3, <1>5, <1>6

(* While the script runs, what is left of its last line is an end of it.   *)
LEMMA InterpretAtScript ==
    ASSUME ShellInv, Interpret, program = "a3", frames # <<>>, NEW f, AtScript(f)
    PROVE  AtScript(f)' /\ frames' = frames
<1> DEFINE s == a3_parseInput(Last(Files["a3"][f]))
<1>1. /\ sections # <<>> /\ phase = "line" /\ ParserOK /\ OneCall
      /\ 1 \in DOMAIN frames /\ sections \in Seq(SectionsOf(program))
      /\ f \in DOMAIN Files["a3"] /\ ~KeepsCursor(f)
  BY Outcomes, HeadCall DEF ShellInv, AtScript, ParserOK
<1>2. interpreter(program, words) # "run"
  <2>1. words = sections[1] /\ 1 \in DOMAIN sections
    BY <1>1, TailOf DEF words
  <2>2. QED
    BY <1>1, <2>1 DEF OneCall
<1>3. \/ \E r \in {0, Failed} : Return(r)
      \/ interpreter(program, words) \in {"quit", "exit"} /\ Return(-1)
      \/ Leave
  BY <1>2, A3Outcomes
<1>4. CASE Leave
  BY <1>1, <1>4 DEF Leave, AtScript
<1>5. CASE frames[1].lines # <<>> /\ ~Leave
  BY <1>3, <1>5 DEF Return, AtScript
<1>6. CASE frames[1].lines = <<>> /\ ~Leave
  <2>1. /\ Len(sections) <= Len(s)
        /\ \A i \in DOMAIN sections : sections[i] = s[Len(s) - Len(sections) + i]
    BY <1>1, <1>6 DEF AtScript
  <2>2. Len(s) \in Nat /\ DOMAIN s = 1 .. Len(s)
    <3>1. Files["a3"][f] # <<>> /\ Files["a3"][f] \in Seq(ToSet(Files["a3"][f]))
      BY <1>1, ShellAssumption, VocabularyAssumption DEF Programs
    <3>2. Last(Files["a3"][f]) \in ToSet(Files["a3"][f])
      <4>1. Len(Files["a3"][f]) \in DOMAIN Files["a3"][f]
        BY <3>1
      <4>2. QED
        BY <4>1, LastOf DEF ToSet
    <3>3. Last(Files["a3"][f]) \in LinesOf("a3")
      BY <1>1, <3>2 DEF LinesOf
    <3>4. parseInput("a3", Last(Files["a3"][f])) = s
      BY DEF parseInput
    <3>5. s \in Seq(SectionsOf("a3"))
      BY <3>3, <3>4, SectionsType DEF Programs
    <3>6. QED
      BY <3>5
  <2> HIDE DEF s
  <2>3. CASE interpreter(program, words) \in {"quit", "exit"} /\ Return(-1)
    <3>1. ~\E i \in 1 .. Len(s) - 2 : s[i][1] \in {"quit", "exit"}
      BY <1>1 DEF KeepsCursor, s
    <3>2. Rest(-1) = <<>>
      BY <1>1, <2>1, <2>2, <2>3, <3>1, QuitOrStray
    <3>3. sections' = <<>> /\ phase' = "ended" /\ frames' = frames
      BY <2>3, <3>2 DEF Return
    <3>4. QED
      BY <1>1, <1>6, <3>3 DEF AtScript
  <2>4. CASE \E r \in {0, Failed} : Return(r)
    <3>1. sections' = Tail(sections) /\ phase' = "line" /\ frames' = frames
      BY <2>4 DEF Return, Rest, Failed
    <3>2. /\ Tail(sections) \in Seq(SectionsOf(program)) /\ Len(Tail(sections)) = Len(sections) - 1
          /\ Len(sections) \in Nat
          /\ \A i \in DOMAIN Tail(sections) :
               i + 1 \in DOMAIN sections /\ Tail(sections)[i] = sections[i + 1]
      BY <1>1, TailOf
    <3>3. \A i \in DOMAIN Tail(sections) :
            Tail(sections)[i] = s[Len(s) - Len(Tail(sections)) + i]
      <4> SUFFICES ASSUME NEW i \in DOMAIN Tail(sections)
                   PROVE  Tail(sections)[i] = s[Len(s) - Len(Tail(sections)) + i]
        OBVIOUS
      <4>1. i \in Nat /\ Tail(sections)[i] = s[Len(s) - Len(sections) + (i + 1)]
        BY <2>1, <3>2
      <4>2. Len(s) - Len(sections) + (i + 1) = Len(s) - Len(Tail(sections)) + i
        BY <2>2, <3>2, <4>1
      <4>3. QED
        BY <4>1, <4>2
    <3>4. Len(Tail(sections)) <= Len(s)
      BY <2>1, <2>2, <3>2
    <3>5. QED
      BY <1>1, <1>6, <3>1, <3>3, <3>4 DEF AtScript, s
  <2>5. QED
    BY <1>3, <1>6, <2>3, <2>4
<1>7. QED
  BY <1>4, <1>5, <1>6

LEMMA CutKept ==
    ASSUME program' = program, typed' = typed, own' = own
    PROVE  Line' = Line /\ Cut' = Cut /\ Strayed' = Strayed
  BY LineKept DEF Cut, Strayed, IsRun

(* The line has come to a run: the script starts at its first line.        *)
LEMMA StartsScript ==
    ASSUME OrderInv, Interpret, program = "a3", frames = <<>>, ~Strayed',
           Joined(own', Tail(sections), Line'), own' # <<>>, own' \in Seq(SectionsOf(program)),
           own'[Len(own')] = words,
           interpreter(program, words) = "run", words[2] \in DOMAIN Files["a3"],
           CallScript(Files["a3"][words[2]], "FCFS", 0)
    PROVE  LosesOrder'
<1> DEFINE lines == Files["a3"][words[2]]
<1>1. /\ sections # <<>> /\ program' = program /\ ShellInv /\ program \in Programs
  BY Outcomes DEF OrderInv, ShellInv, ParserOK
<1>2. lines \in Seq(LinesOf(program)) /\ lines # <<>>
  <2>1. ScriptLines(words[2]) = lines
    BY DEF ScriptLines
  <2>2. lines # <<>>
    BY ShellAssumption DEF Programs
  <2>3. QED
    BY <1>1, <2>1, <2>2, ScriptType
<1>3. CallScript(lines, "FCFS", 0)
  OBVIOUS
<1>4. frames' # <<>> /\ frames'[1].lines = lines
  <2> HIDE DEF lines
  <2>1. QED
    BY <1>1, <1>2, <1>3, CalledFrame
<1>5. phase' = "script"
  BY DEF CallScript
<1>6. Len(own') \in DOMAIN own' /\ Len(own') <= Len(Line')
  <2>1. Len(own') \in Nat /\ Len(own') # 0 /\ DOMAIN own' = 1 .. Len(own')
    OBVIOUS
  <2>2. Len(Tail(sections)) \in Nat
    BY <1>1, TailOf DEF ShellInv, ParserOK
  <2>3. QED
    BY <2>1, <2>2 DEF Joined
<1>7. interpreter(program', own'[Len(own')]) = "run" /\ own'[Len(own')][2] = words[2]
  BY <1>1
<1>8. Cut'
  BY <1>6, <1>7 DEF Cut, IsRun, Joined
<1>9. ~KeepsCursor(words[2])
  BY <1>6, <1>7 DEF Strayed, IsRun
<1>10. ASSUME NEW f, f = words[2]
       PROVE  AtScript(f)'
  <2>1. lines = Files["a3"][f] /\ f \in DOMAIN Files["a3"] /\ ~KeepsCursor(f)
    BY <1>9, <1>10
  <2> HIDE DEF lines
  <2>2. lines[Len(lines)] = Last(Files["a3"][f])
    BY <2>1, LastOf
  <2>3. QED
    BY <1>2, <1>4, <1>5, <2>1, <2>2 DEF AtScript
<1>11. PICK f : f = words[2]
  OBVIOUS
<1>12. AtScript(f)' /\ f = own'[Len(own')][2]
  BY <1>7, <1>10, <1>11
<1>13. AtScript(own[Len(own)][2])'
  BY <1>12
<1>14. QED
  BY <1>4, <1>5, <1>8, <1>13 DEF LosesOrder

LEMMA InterpretLoses ==
    ASSUME OrderInv, Interpret
    PROVE  LosesOrder'
<1> SUFFICES ASSUME program = "a3", ~Strayed'
             PROVE  LosesOrder'
  BY Outcomes DEF OrderInv, ShellInv, LosesOrder
<1>1. /\ sections # <<>> /\ phase = "line" /\ program' = program
      /\ own' = IF frames = <<>> THEN Append(own, words) ELSE own
  BY Outcomes DEF OrderInv, ShellInv
<1>2. Line' = Line
  BY <1>1, LineKept DEF Interpret
<1>3. /\ ShellInv /\ ParserOK /\ TypedOK /\ LosesOrder
      /\ own \in Seq(SectionsOf(program)) /\ sections \in Seq(SectionsOf(program))
      /\ Line \in Seq(SectionsOf(program))
  BY LineType DEF OrderInv, ShellInv, ParserOK
<1>4. \/ \E r \in {0, Failed} : Return(r)
      \/ interpreter(program, words) \in {"quit", "exit"} /\ Return(-1)
      \/ Leave
      \/ /\ interpreter(program, words) = "run" /\ words[2] \in DOMAIN Files["a3"]
         /\ CallScript(Files["a3"][words[2]], "FCFS", 0)
  BY <1>3, A3Outcomes
<1>5. words \in SectionsOf(program) /\ words = Head(sections)
  BY <1>1, <1>3, TailOf DEF words
<1>6. CASE frames = <<>>
  <2>1. own' = Append(own, words)
    BY <1>1, <1>6
  <2>2. /\ own' \in Seq(SectionsOf(program)) /\ Len(own') = Len(own) + 1
        /\ own'[Len(own')] = words
        /\ \A i \in DOMAIN own : own'[i] = own[i] /\ i \in DOMAIN own'
    <3>1. /\ Append(own, words) \in Seq(SectionsOf(program))
          /\ Len(Append(own, words)) = Len(own) + 1
          /\ Append(own, words)[Len(own) + 1] = words
          /\ \A i \in DOMAIN own : Append(own, words)[i] = own[i]
      BY <1>3, <1>5, AppendOf
    <3>2. \A i \in DOMAIN own : i \in DOMAIN own'
      BY <1>3, <2>1, <3>1
    <3>3. QED
      BY <2>1, <3>1, <3>2
  <2>3. ~Strayed
    BY <1>1, <2>2 DEF Strayed, IsRun
  <2>4. Joined(own, sections, Line)
    BY <1>1, <1>3, <1>6, <2>3 DEF LosesOrder
  <2>5. Joined(own', Tail(sections), Line')
    BY <1>1, <1>2, <1>3, <1>5, <2>1, <2>4, JoinedStep
  <2>6. own' # <<>>
    <3>1. Len(own') # Len(<<>>)
      BY <1>3, <2>2
    <3>2. QED
      BY <3>1
  <2>7. CASE Leave
    BY <1>6, <2>7 DEF Leave, LosesOrder
  <2>8. CASE Return(-1)
    <3>1. phase' = "ended" /\ frames' = <<>> /\ ret' = -1
      BY <1>6, <2>8 DEF Return
    <3>2. QED
      BY <3>1 DEF LosesOrder
  <2>9. CASE \E r \in {0, Failed} : Return(r)
    <3>1. phase' = "line" /\ frames' = <<>> /\ sections' = Tail(sections)
      BY <1>6, <2>9 DEF Return, Rest, Failed
    <3>2. QED
      BY <2>5, <3>1 DEF LosesOrder
  <2>10. QED
    BY <1>4, <1>6, <2>2, <2>5, <2>6, <2>7, <2>8, <2>9, StartsScript
<1>7. CASE frames # <<>>
  <2>1. own' = own /\ typed' = typed
    BY <1>1, <1>7 DEF Interpret
  <2>2. Cut' = Cut /\ ~Strayed
    BY <1>1, <2>1, CutKept
  <2>3. Cut /\ AtScript(own[Len(own)][2])
    BY <1>3, <1>7, <2>2 DEF LosesOrder
  <2>4. AtScript(own[Len(own)][2])' /\ frames' = frames
    <3> DEFINE f == own[Len(own)][2]
    <3>1. AtScript(f)
      BY <2>3
    <3> HIDE DEF f
    <3>2. AtScript(f)' /\ f' = f /\ frames' = frames
      <4>1. f' = f
        BY <2>1 DEF f
      <4>2. \A g : AtScript(g) => frames' = frames
        BY <1>3, <1>7, InterpretAtScript
      <4>3. QED
        BY <1>3, <1>7, <3>1, <4>1, <4>2, InterpretAtScript
    <3>3. QED
      BY <3>2 DEF f
  <2>5. phase' # "prompt"
    BY <1>4 DEF Return, Leave, CallScript
  <2>6. QED
    BY <1>7, <2>1, <2>2, <2>3, <2>4, <2>5 DEF LosesOrder
<1>8. QED
  BY <1>6, <1>7

LEMMA EndLineLoses ==
    ASSUME OrderInv, EndLine
    PROVE  LosesOrder'
<1> SUFFICES ASSUME program = "a3", ~Strayed'
             PROVE  LosesOrder'
  BY DEF EndLine, LosesOrder
<1>1. /\ program' = program /\ typed' = typed /\ own' = own /\ frames' = frames /\ ret' = ret
      /\ sections' = sections
      /\ phase = "ended" \/ (phase = "line" /\ sections = <<>>)
      /\ phase' = IF frames # <<>> THEN "script" ELSE IF ret = -1 THEN "gone" ELSE "prompt"
  BY DEF EndLine
<1>2. Line' = Line /\ Cut' = Cut /\ ~Strayed
  BY <1>1, CutKept
<1>3. ParserOK /\ TypedOK /\ LosesOrder
  BY DEF OrderInv, ShellInv
<1>4. CASE frames # <<>>
  <2>1. PICK f : f = own[Len(own)][2]
    OBVIOUS
  <2>2. Cut /\ AtScript(f)
    BY <1>2, <1>3, <1>4, <2>1 DEF LosesOrder
  <2>3. AtScript(f)' /\ f = own'[Len(own')][2]
    BY <1>1, <1>4, <2>1, <2>2 DEF AtScript
  <2>4. AtScript(own[Len(own)][2])'
    BY <2>3
  <2>5. QED
    BY <1>1, <1>2, <1>4, <2>2, <2>4 DEF LosesOrder
<1>5. CASE frames = <<>> /\ ret = -1
  BY <1>1, <1>5 DEF LosesOrder
<1>6. CASE frames = <<>> /\ ret # -1
  <2>1. phase = "line" /\ sections = <<>>
    BY <1>1, <1>2, <1>3, <1>6 DEF LosesOrder
  <2>2. Joined(own, <<>>, Line) \/ Cut
    BY <1>2, <1>3, <1>6, <2>1 DEF LosesOrder
  <2>3. own = Line \/ Cut
    <3>1. own \in Seq(SectionsOf(program)) /\ Line \in Seq(SectionsOf(program))
      BY <1>3, LineType DEF ParserOK
    <3>2. QED
      BY <2>2, <3>1, JoinedEnd
  <2>4. QED
    BY <1>1, <1>2, <1>6, <2>3 DEF LosesOrder
<1>7. QED
  BY <1>4, <1>5, <1>6

LEMMA NextLineLoses ==
    ASSUME OrderInv, NextLine
    PROVE  LosesOrder'
<1> SUFFICES ASSUME program = "a3", ~Strayed'
             PROVE  LosesOrder'
  BY DEF NextLine, LosesOrder
<1>1. /\ phase = "script" /\ phase' = "line" /\ Head(frames).lines # <<>>
      /\ sections' = Sections(Head(Head(frames).lines))
      /\ program' = program /\ typed' = typed /\ own' = own
  BY DEF NextLine
<1>2. Line' = Line /\ Cut' = Cut /\ ~Strayed
  BY <1>1, CutKept
<1>3. /\ ShellInv /\ ParserOK /\ LosesOrder /\ frames # <<>> /\ program \in Programs
      /\ frames \in Seq(Call(program))
  BY <1>1 DEF OrderInv, ShellInv, CallsOK, ParserOK
<1>4. PICK f : f = own[Len(own)][2]
  OBVIOUS
<1>5. Cut /\ AtScript(f)
  BY <1>2, <1>3, <1>4 DEF LosesOrder
<1>6. PICK lines : lines = frames[1].lines
  OBVIOUS
<1>7. lines \in Seq(LinesOf(program)) /\ lines # <<>> /\ Head(frames).lines = lines
  BY <1>1, <1>3, <1>6, HeadCall
<1>8. /\ Head(lines) = lines[1] /\ Tail(lines) \in Seq(LinesOf(program))
      /\ lines[1] \in LinesOf(program)
      /\ Len(lines) \in Nat /\ Len(lines) # 0 /\ Len(Tail(lines)) = Len(lines) - 1
      /\ \A i \in DOMAIN Tail(lines) : Tail(lines)[i] = lines[i + 1]
  BY <1>7, TailOf
<1>9. frames' # <<>> /\ frames'[1].lines = Tail(lines)
  <2>1. \E left \in Nat : frames' = [frames EXCEPT ![1].lines = Tail(lines), ![1].left = left]
    BY <1>3, <1>6, LeftOf
  <2>2. QED
    BY <1>3, <1>8, <2>1, TopOf
<1>10. lines[Len(lines)] = Last(Files["a3"][f]) /\ f \in DOMAIN Files["a3"] /\ ~KeepsCursor(f)
  BY <1>5, <1>6, <1>7 DEF AtScript
<1>11. ASSUME Tail(lines) # <<>>
       PROVE  Tail(lines)[Len(Tail(lines))] = Last(Files["a3"][f])
  <2>1. Len(Tail(lines)) \in DOMAIN Tail(lines)
    BY <1>8, <1>11
  <2>2. Tail(lines)[Len(lines) - 1] = lines[(Len(lines) - 1) + 1]
    BY <1>8, <2>1
  <2>3. (Len(lines) - 1) + 1 = Len(lines)
    BY <1>8
  <2>4. QED
    BY <1>8, <1>10, <2>2, <2>3
<1>12. ASSUME Tail(lines) = <<>>
       PROVE  sections' = a3_parseInput(Last(Files["a3"][f]))
  <2>1. PICK t : t = Tail(lines)
    OBVIOUS
  <2>2. Len(lines) = 1
    <3>1. Len(t) = Len(lines) - 1 /\ t = <<>>
      BY <1>8, <1>12, <2>1
    <3>2. Len(t) = 0
      BY <3>1
    <3>3. Len(lines) \in Nat
      BY <1>8
    <3>4. QED
      BY <3>1, <3>2, <3>3
  <2>3. sections' = parseInput(program, lines[1])
    BY <1>1, <1>7, <1>8 DEF Sections
  <2>4. sections' = parseInput("a3", Last(Files["a3"][f]))
    BY <1>10, <2>2, <2>3
  <2>5. QED
    BY <2>4 DEF parseInput
<1>13. sections' \in Seq(SectionsOf(program))
  BY <1>1, <1>3, <1>7, <1>8, SectionsType DEF Sections
<1>14. AtScript(f)'
  <2>1. ASSUME Tail(lines) = <<>>
        PROVE  /\ Len(sections') <= Len(a3_parseInput(Last(Files["a3"][f])))
               /\ \A i \in DOMAIN sections' :
                    sections'[i] = a3_parseInput(Last(Files["a3"][f]))
                                     [Len(a3_parseInput(Last(Files["a3"][f]))) - Len(sections') + i]
    <3>1. PICK s : s = sections'
      OBVIOUS
    <3>2. s \in Seq(SectionsOf(program))
      BY <1>13, <3>1
    <3>3. Len(s) <= Len(s) /\ \A i \in DOMAIN s : s[i] = s[Len(s) - Len(s) + i]
      BY <3>2
    <3>4. QED
      BY <1>12, <2>1, <3>1, <3>3
  <2>2. QED
    BY <1>1, <1>9, <1>10, <1>11, <2>1 DEF AtScript
<1>15. AtScript(own[Len(own)][2])'
  BY <1>1, <1>4, <1>14
<1>16. QED
  BY <1>1, <1>2, <1>5, <1>9, <1>15 DEF LosesOrder

LEMMA EndScriptLoses ==
    ASSUME OrderInv, EndScript
    PROVE  LosesOrder'
<1> SUFFICES ASSUME program = "a3", ~Strayed'
             PROVE  LosesOrder'
  BY DEF EndScript, LosesOrder
<1>1. /\ phase = "script" /\ Head(frames).lines = <<>>
      /\ program' = program /\ typed' = typed /\ own' = own /\ frames' = Tail(frames)
      /\ sections' = sections /\ phase' = "line"
  <2>1. Head(frames).ret \in {0, Failed}
    BY HeadCall DEF EndScript, OrderInv, ShellInv, CallsOK
  <2>2. QED
    BY <2>1 DEF EndScript, Failed
<1>2. Line' = Line /\ Cut' = Cut /\ ~Strayed
  BY <1>1, CutKept
<1>3. ParserOK /\ OneCall /\ LosesOrder /\ frames # <<>>
  BY <1>1 DEF OrderInv, ShellInv, CallsOK
<1>4. Cut /\ AtScript(own[Len(own)][2])
  BY <1>2, <1>3 DEF LosesOrder
<1>5. Head(frames) = frames[1] /\ Tail(frames) \in Seq(Call(program))
      /\ Len(Tail(frames)) = Len(frames) - 1 /\ Len(frames) = 1
  BY <1>3, HeadCall, InnermostOnly
<1>6. sections = <<>>
  BY <1>1, <1>4, <1>5 DEF AtScript
<1>7. frames' = <<>>
  BY <1>1, <1>5
<1>8. QED
  BY <1>1, <1>2, <1>4, <1>6, <1>7 DEF LosesOrder

LEMMA LosesOrderStep ==
    ASSUME OrderInv, [Next]_vars
    PROVE  LosesOrder'
<1>1. ASSUME NEW line \in Typed[program], Type(line)
      PROVE  LosesOrder'
  <2>1. /\ program' = program /\ typed' = line /\ own' = <<>> /\ frames' = <<>>
        /\ phase' = "line" /\ sections' = Line'
    BY <1>1 DEF Type, Line, Sections, OrderInv, ShellInv, CallsOK
  <2>2. sections' \in Seq(SectionsOf(program))
    <3>1. program \in Programs /\ line \in LinesOf(program)
      BY TypedLines DEF OrderInv, ShellInv, ParserOK
    <3>2. QED
      BY <1>1, <3>1, SectionsType DEF Type, Sections
  <2>3. Joined(own', sections', Line')
    BY <2>1, <2>2, JoinedStart
  <2>4. QED
    BY <2>1, <2>3 DEF LosesOrder
<1>2. ASSUME Loop \/ UNCHANGED vars
      PROVE  LosesOrder'
  <2>1. /\ program' = program /\ typed' = typed /\ own' = own /\ frames' = frames /\ ret' = ret
        /\ sections' = sections /\ count' = count /\ phase' \in {phase, "hung"}
    BY <1>2 DEF Loop, vars, parser
  <2>2. Line' = Line /\ Cut' = Cut /\ Strayed' = Strayed
    BY <2>1, CutKept
  <2>3. AtScript(own[Len(own)][2]) => AtScript(own[Len(own)][2])'
    <3>1. PICK f : f = own[Len(own)][2]
      OBVIOUS
    <3>2. AtScript(f) => AtScript(f)'
      BY <2>1 DEF AtScript
    <3>3. f = own'[Len(own')][2]
      BY <2>1, <3>1
    <3>4. QED
      BY <3>1, <3>2, <3>3
  <2>4. QED
    BY <2>1, <2>2, <2>3 DEF OrderInv, LosesOrder
<1>3. ASSUME Quantum \/ NextScript PROVE LosesOrder'
  <2>1. program = "a2" /\ program' = program
    BY <1>3, QuantumFrames DEF Quantum, NextScript, Waiting, OrderInv, ShellInv, ParserOK
  <2>2. QED
    BY <2>1 DEF LosesOrder
<1>4. QED
  BY <1>1, <1>2, <1>3, InterpretLoses, EndLineLoses, NextLineLoses, EndScriptLoses DEF Next, Step

LEMMA TypedStep ==
    ASSUME OrderInv, [Next]_vars
    PROVE  TypedOK'
<1>1. ASSUME NEW line \in Typed[program], Type(line)
      PROVE  TypedOK'
  <2>1. program' = program /\ typed' = line /\ line \in LinesOf(program)
    BY <1>1, TypedLines DEF Type, OrderInv, ShellInv, ParserOK
  <2>2. QED
    BY <2>1 DEF TypedOK
<1>2. ASSUME Step \/ UNCHANGED vars
      PROVE  TypedOK'
  BY <1>2 DEF Step, Interpret, Loop, EndLine, NextLine, Quantum, NextScript, EndScript, vars,
              OrderInv, TypedOK
<1>3. QED
  BY <1>1, <1>2 DEF Next

LEMMA OrderFresh == Init => OrderInv
<1> SUFFICES ASSUME Init
             PROVE  OrderInv
  OBVIOUS
<1>1. TypedOK
  BY TypedLines DEF Init, TypedOK
<1>2. KeepsOrder /\ LosesOrder
  BY DEF Init, KeepsOrder, LosesOrder
<1>3. QED
  BY <1>1, <1>2, ShellFresh DEF OrderInv

(* What has been interpreted of a line and what its outermost call         *)
(* comes back to make the line together, whatever scripts do in between;   *)
(* only in a3 a run cuts the line off.                                     *)
THEOREM OrderInvariance == Spec => []OrderInv
<1>1. OrderInv /\ [Next]_vars => OrderInv'
  BY ShellStep, TypedStep, KeepsOrderStep, LosesOrderStep DEF OrderInv
<1>2. QED
  BY <1>1, OrderFresh, PTL DEF Spec

\* The parser takes a tidy line for the commands it means.
ReadsTidy == \A line \in Typed[program] : Tidy(line) => Sections(line) = Reference(line)

(* Where the parser reads tidy lines as they are meant, the commands of a  *)
(* line have been interpreted in their order when the prompt is back,      *)
(* whatever scripts they have run; but for a3, where a run cuts the line.  *)
THEOREM LinesInOrder == Spec /\ []ReadsTidy => []SectionsInOrder
<1>1. OrderInv /\ ReadsTidy => SectionsInOrder
  <2> SUFFICES ASSUME OrderInv, ReadsTidy, phase = "prompt", count > 0, Tidy(typed)
               PROVE  \/ own = Reference(typed)
                      \/ /\ program = "a3"
                         /\ \E k \in DOMAIN own :
                              /\ interpreter(program, own[k]) = "run"
                              /\ own = SubSeq(Reference(typed), 1, k) \/ KeepsCursor(own[k][2])
    BY DEF SectionsInOrder
  <2>1. ParserOK /\ TypedOK /\ KeepsOrder /\ LosesOrder
    BY DEF OrderInv, ShellInv
  <2>2. Line = Reference(typed)
    BY <2>1 DEF TypedOK, ReadsTidy, Line
  <2>3. CASE program # "a3"
    BY <2>1, <2>2, <2>3 DEF KeepsOrder
  <2>4. CASE program = "a3" /\ Strayed
    BY <2>4 DEF Strayed, IsRun
  <2>5. CASE program = "a3" /\ ~Strayed
    <3>1. CASE own = Line
      BY <2>2, <3>1
    <3>2. CASE Cut
      <4>1. /\ own \in Seq(SectionsOf(program)) /\ Line \in Seq(SectionsOf(program))
            /\ own # <<>> /\ IsRun(Len(own)) /\ Len(own) <= Len(Line)
            /\ \A i \in DOMAIN own : own[i] = Line[i]
        BY <2>1, <3>2, LineType DEF ParserOK, Cut
      <4>2. Len(own) \in Nat /\ Len(own) # 0 /\ Len(Line) \in Nat
        BY <4>1
      <4>3. SubSeq(Line, 1, Len(own)) = own
        <5>1. 1 \in Int /\ Len(own) \in Int
              /\ \A i \in 1 .. Len(own) : Line[i] \in SectionsOf(program)
          BY <4>1, <4>2
        <5>2. /\ SubSeq(Line, 1, Len(own)) \in Seq(SectionsOf(program))
              /\ Len(SubSeq(Line, 1, Len(own))) = IF 1 <= Len(own) THEN Len(own) - 1 + 1 ELSE 0
              /\ \A i \in 1 .. Len(own) - 1 + 1 : SubSeq(Line, 1, Len(own))[i] = Line[1 + i - 1]
          BY <5>1, SubSeqProperties
        <5>3. PICK t : t = SubSeq(Line, 1, Len(own))
          OBVIOUS
        <5>4. /\ t \in Seq(SectionsOf(program)) /\ Len(t) = Len(own)
              /\ \A i \in 1 .. Len(own) : t[i] = Line[i]
          BY <4>2, <5>2, <5>3
        <5>5. t = own
          BY <4>1, <4>2, <5>4
        <5>6. QED
          BY <5>3, <5>5
      <4>4. Len(own) \in DOMAIN own
        BY <4>1, <4>2
      <4>5. QED
        BY <2>2, <2>5, <4>1, <4>3, <4>4 DEF IsRun
    <3>3. QED
      BY <2>1, <2>5, <3>1, <3>2 DEF LosesOrder
  <2>6. QED
    BY <2>3, <2>4, <2>5
<1>2. QED
  BY <1>1, OrderInvariance, PTL
=============================================================================

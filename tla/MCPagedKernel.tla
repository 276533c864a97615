--------------------------- MODULE MCPagedKernel ---------------------------
(* Instances of PagedKernel.                                               *)
EXTENDS PagedKernel

CONSTANT x              \* a shell variable

Echo(n) == [op |-> "echo", no |-> n]
Set(v)  == [op |-> "set", var |-> x, val |-> v]
Rm      == [op |-> "rm"]

\* A script of n lines that end as the kernel expects: no final newline.
Plain(n) == [line |-> [k \in 1 .. n |-> Echo(k)], newline |-> FALSE]

\* Lengths on both sides of a page, of two pages and of three.
MCPlain == {Plain(n) : n \in {1, 2, 3, 4, 6, 7, 9, 10}}

\* A script that sets a variable in its last line, on its third page.
MCSetter == {[line |-> [k \in 1 .. 7 |-> IF k = 7 THEN Set(1) ELSE Echo(k)],
              newline |-> FALSE]}

MCScripts == MCPlain \cup MCSetter

\* The same scripts saved by an editor that ends the last line.
MCNewline == {[Plain(n) EXCEPT !.newline = TRUE] : n \in {2, 3}}

\* A script that removes a file in its first line.
MCRm == {[line |-> <<Rm>> \o [k \in 1 .. 7 |-> Echo(k + 1)], newline |-> FALSE]}

MCTyped == {Set(2), [op |-> "resetmem"]}
=============================================================================

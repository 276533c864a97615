---------------------------- MODULE MCA2Kernel -----------------------------
(* Scripts for A2Kernel: one page, a page and a line, two pages and a line,*)
(* and a page with a newline at its end, which counts as a second page.    *)
EXTENDS A2Kernel

MCScripts == {[lines |-> 2, newline |-> FALSE], [lines |-> 4, newline |-> FALSE],
              [lines |-> 7, newline |-> FALSE], [lines |-> 3, newline |-> TRUE]}

\* None of them ends with a newline.
MCPlain == {s \in MCScripts : ~s.newline}
=============================================================================

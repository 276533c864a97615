------------------------------ MODULE MCShells ------------------------------
(* An instance of Shells: two places for three variables, lines that are   *)
(* tidy and lines that are not, scripts inside scripts.                    *)
EXTENDS Shells

\* cmd1(a) is a command of two words.
Cmd(c, a) == <<c, " ", a>>
SetVar(v, x) == <<"set", " ", v, " ", x>>
Semi == <<";">>
Gap  == <<";", " ">>
End  == <<NL>>

MCDollar == [d \in {"$x"} |-> "x"]
MCAlphaNum == {"x", "y", "z", "u", "w", "none"}
MCNames == {"x", "y", "z", "none"}
MCFreeValue == <<"none">>
MCValues == {<<"u">>, <<"w">>, <<"none">>, <<"u", "w">>, <<"", "w">>}

AllTyped ==
    {SetVar("x", "u") \o End,
     SetVar("y", "w") \o End,
     SetVar("none", "w") \o Gap \o SetVar("z", "u") \o End,
     SetVar("x", "u") \o <<" ", "w">> \o End,
     Cmd("print", "x") \o Gap \o Cmd("echo", "$x") \o End,
     <<" ">> \o Cmd("print", "z") \o <<" ">> \o End,       \* spaces outside
     <<"set", " ", "x", " ", " ", "w">> \o End,            \* a doubled space
     Cmd("print", "x") \o Semi \o End,                     \* a last semicolon
     Cmd("run", "s") \o Gap \o Cmd("print", "y") \o End,
     Cmd("run", "t") \o End,
     Cmd("run", "missing") \o End,
     <<"quit">> \o End,
     End}

Chained == {SetVar("x", "w") \o Gap \o Cmd("my_cd", "d") \o Gap \o Cmd("print", "x") \o End,
            Cmd("print", "x") \o <<" ">> \o Semi \o Cmd("print", "y") \o End,
            <<"quit">> \o Semi \o Cmd("print", "x") \o End,
            <<"resetmem">> \o Semi \o SetVar("z", "w") \o End}

\* a2: exec, with and without a missing file; r resets the memory.
Exec(names) == <<"exec">> \o FoldLeft(LAMBDA line, f : line \o <<" ", f>>, <<>>, names)

Execs == {Exec(<<"s", "t">>) \o End,
          Exec(<<"t", "missing", "s">>) \o Gap \o Cmd("print", "x") \o End,
          Exec(<<"e">>) \o End,
          Exec(<<"r", "t">>) \o End}

MCTyped ==
    [a1 |-> AllTyped \cup {<<"my_ls">> \o End, Cmd("my_cd", "d") \o Semi \o Cmd("my_touch", "u") \o End,
                           Cmd("my_cd", "d") \o End, Cmd("my_touch", "u") \o End},
     a2 |-> AllTyped \cup Chained \cup Execs,
     a3 |-> AllTyped \cup Chained]

\* s runs t, first in the middle and then at its end, which are different in
\* a2, and e executes it; in a3 t quits in the middle of its last line.
MCFiles ==
    [a1 |-> [s |-> <<Cmd("run", "t") \o End, SetVar("y", "u") \o End, Cmd("run", "t")>>,
             t |-> <<SetVar("x", "w") \o End, <<"my_ls">> \o End>>],
     a2 |-> [s |-> <<Cmd("run", "t") \o End, SetVar("y", "u") \o End, Cmd("run", "t") \o Gap \o Cmd("print", "x")>>,
             t |-> <<SetVar("x", "w") \o Semi \o <<"my_ls">> \o End, Cmd("print", "y")>>,
             e |-> <<Exec(<<"t", "missing">>) \o End, SetVar("y", "w") \o End, Exec(<<"t">>)>>,
             r |-> <<<<"resetmem">>>>],
     a3 |-> [s |-> <<SetVar("y", "u") \o End, <<"quit">> \o End, Cmd("echo", "$x")>>,
             t |-> <<SetVar("x", "w") \o End,
                     <<"quit">> \o Semi \o Cmd("print", "x") \o Semi \o SetVar("z", "w")>>]]
=============================================================================

------------------------------- MODULE Shells -------------------------------
(***************************************************************************)
(* The shells of a1, a2 and a3: how a line becomes words and commands, how *)
(* scripts run inside lines and lines inside scripts, and when the shell   *)
(* comes back to the prompt.  A step is one call of interpreter, one line  *)
(* taken from a script, or one return.                                     *)
(*                                                                         *)
(* A line is a sequence of words, spaces, semicolons and a newline.  The   *)
(* scripts of a2 and a3 are at most two pages long, their last line has no *)
(* newline, and the frame store of a2 has room for the pages of all that   *)
(* are started: then PagedKernel and A2Kernel say that they run whole, in  *)
(* order and without page faults.  Those of a3 contain no run, which would *)
(* free the processes that are running.  No line of a2 or a3 has an echo   *)
(* without a word: it would read what words[1] was left with; the same     *)
(* goes for a2's commands of the host.                                     *)
(***************************************************************************)
EXTENDS ShellVariables, SequencesExt

CONSTANTS Typed,          \* the lines the user may type, for each program
          Files,          \* the lines of each script file, for each program
          MAX_ARGS_SIZE,  \* of a1 and a2
          Dollar,         \* the words $v, and the v of each
          AlphaNum,       \* the words made of letters and digits
          NL,             \* newline
          Hang,           \* a section at which the parser of a2 stays for ever
          MaxTyped        \* bound on the lines typed

Programs == {"a1", "a2", "a3"}

ASSUME ShellAssumption ==
    /\ MAX_ARGS_SIZE \in Nat /\ MaxTyped \in Nat
    /\ DOMAIN Typed = Programs /\ DOMAIN Files = Programs
    /\ \A p \in Programs : \A f \in DOMAIN Files[p] : Files[p][f] # <<>>
    /\ \A p \in Programs : \A l \in Typed[p] : l # <<>> /\ Last(l) = NL

VARIABLES program,   \* which of the three runs
          phase,     \* "prompt", "line", "ended", "script", "hung", "reset"
                     \* or "gone"
          sections,  \* what is left of the line being parsed, see Sections;
                     \* in a3 this is strtok's cursor, which all lines share
          frames,    \* the calls of run and exec that have not returned,
                     \* innermost first:
                     \*   lines:  of the script, not yet interpreted
                     \*   after:  sections of the line that called
                     \*   policy: of the scheduler, "FCFS" or "RR"
                     \*   left:   RR: lines left of the turn
                     \*   ret:    what the call will return, but for a1
          queue,     \* a2: the lines left of each process that waits
          ret,       \* what interpreter or parseInput returned last
          typed,     \* the line typed last
          own,       \* history: the commands of this line, as lists of words
          stranded,  \* history: what typed lines of exec have admitted and
                     \* left in the queue, as they also named a missing file
          count      \* lines typed so far

parser == <<phase, sections, frames, queue, ret>>
vars   == <<program, parser, typed, own, stranded, count, memory>>

Failed == 1    \* stands for every return value but 0 and -1

----------------------------------------------------------------------------
(* Lines, sections and words.                                              *)

Between(s, cuts) == [k \in 1 .. Len(cuts) - 1 |-> SubSeq(s, cuts[k] + 1, cuts[k + 1] - 1)]

\* The pieces of s between separators.
Split(s, separators) ==
    Between(s, <<0>> \o SelectSeq([i \in DOMAIN s |-> i], LAMBDA i : s[i] \in separators)
                    \o <<Len(s) + 1>>)

Stripped(s) == LET i == SelectInSeq(s, LAMBDA c : c # " ")
               IN  IF i = 0 THEN <<>> ELSE SubSeq(s, i, Len(s))

Chomped(s) == SelectSeq(s, LAMBDA c : c # NL)

\* Without the last piece when that is empty.
Closed(pieces) == IF Last(pieces) = <<>> THEN Front(pieces) ELSE pieces

\* A piece is empty, a word, or either with a newline, which is stripped.
WordsOf(pieces) ==
    [i \in DOMAIN pieces |-> IF Chomped(pieces[i]) = <<>> THEN "" ELSE Head(pieces[i])]

\* In a1 a semicolon only separates words, and doubled separators have an
\* empty word between them.
a1_parseInput(line) == <<WordsOf(Closed(Split(Stripped(Chomped(line)), {" ", ";"})))>>

\* In a2 a word must stand right in front of a semicolon: at an empty one
\* the parser does not go on.
a2_parseInput(line) ==
    LET parts == Split(Chomped(line), {";"})
    IN  [i \in DOMAIN parts |->
           IF i < Len(parts) /\ (parts[i] = <<>> \/ Last(parts[i]) = " ") THEN Hang
           ELSE SelectSeq(parts[i], LAMBDA c : c # " ")]

\* A bug: strtok is taken to deliver one section.
a3_parseInput_first(line) ==
    LET parts == SelectSeq(Split(line, {";"}), LAMBDA s : s # <<>>)
    IN  [i \in {1} \cap DOMAIN parts |-> WordsOf(Closed(Split(Stripped(parts[i]), {" "})))]

\* In a3 strtok skips empty sections, and a newline is part of the last word,
\* which is empty when a space stands before it.
a3_parseInput(line) ==
    LET parts == SelectSeq(Split(line, {";"}), LAMBDA s : s # <<>>)
    IN  [i \in DOMAIN parts |-> WordsOf(Closed(Split(Stripped(parts[i]), {" "})))]

parseInput(p, line) == CASE p = "a1" -> a1_parseInput(line)
                         [] p = "a2" -> a2_parseInput(line)
                         [] p = "a3" -> a3_parseInput(line)

Sections(line) == parseInput(program, line)

\* What a script of a1 gives to parseInput: the file's lines, and an empty
\* one when the last of them ends with a newline.
a1_run(file) == IF Last(Last(file)) = NL THEN Append(file, <<>>) ELSE file

ScriptLines(f) == IF program = "a1" THEN a1_run(Files["a1"][f]) ELSE Files[program][f]

----------------------------------------------------------------------------
(* interpreter: the commands, and how many words each may have.            *)

a1_commands == [help |-> {1}, quit |-> {1}, set |-> 3 .. MAX_ARGS_SIZE, print |-> {2},
                run |-> {2}, echo |-> {2}, my_ls |-> {1}, my_touch |-> {2}, my_cd |-> {2},
                my_mkdir |-> {2}, my_cat |-> {2}]

a2_commands == [help |-> {1}, quit |-> {1}, exit |-> {1}, set |-> 3 .. MAX_ARGS_SIZE,
                print |-> {2}, run |-> {2}, echo |-> {2}, my_ls |-> {1}, my_mkdir |-> {2},
                my_touch |-> {2}, my_cd |-> {2}, exec |-> 2 .. 4, resetmem |-> {1}]

\* The commands of the kernel and the file system are in PagedKernel and
\* FileSystem.
a3_commands == [help |-> {1}, quit |-> {1}, exit |-> {1}, set |-> Nat \ 0 .. 2,
                print |-> {2}, run |-> {2}, echo |-> {2}, resetmem |-> Nat \ {0}]

Commands(p) == CASE p = "a1" -> a1_commands
                 [] p = "a2" -> a2_commands
                 [] p = "a3" -> a3_commands

\* a3: isAlphaNumStr of the name and every word of a value, or of what echo
\* is to display.
Alphanumeric(words) ==
    CASE words[1] = "set"  -> \A i \in 2 .. Len(words) : words[i] \in AlphaNum
      [] words[1] = "echo" -> words[2] \in AlphaNum \cup DOMAIN Dollar
      [] OTHER -> TRUE

interpreter(p, words) ==
    IF words = <<>> \/ words[1] \notin DOMAIN Commands(p) THEN "bad"
    ELSE IF Len(words) \notin Commands(p)[words[1]] THEN "bad"
    ELSE IF p = "a3" /\ ~Alphanumeric(words) THEN "bad" ELSE words[1]

\* The sections of the lines that program p may be given.
LinesOf(p) == Typed[p] \cup {<<>>} \cup UNION {ToSet(Files[p][f]) : f \in DOMAIN Files[p]}

SectionsOf(p) == UNION {ToSet(parseInput(p, l)) : l \in LinesOf(p)}

(***************************************************************************)
(* Scripts and parsed lines are sequences; what set and print name is in   *)
(* Names, what set joins in Values; no script of a3 runs another.          *)
(***************************************************************************)
ASSUME VocabularyAssumption ==
    /\ \A p \in Programs :
         /\ \A f \in DOMAIN Files[p] : Files[p][f] \in Seq(ToSet(Files[p][f]))
         /\ \A l \in LinesOf(p) : parseInput(p, l) \in Seq(ToSet(parseInput(p, l)))
         /\ \A w \in SectionsOf(p) \ {Hang} :
              /\ interpreter(p, w) = "set" => w[2] \in Names /\ SubSeq(w, 3, Len(w)) \in Values
              /\ interpreter(p, w) = "print" => w[2] \in Names
    /\ \A d \in DOMAIN Dollar : Dollar[d] \in Names
    /\ \A f \in DOMAIN Files["a3"] : \A l \in ToSet(Files["a3"][f]) :
         \A w \in ToSet(parseInput("a3", l)) : interpreter("a3", w) # "run"

----------------------------------------------------------------------------
Init == /\ program \in Programs /\ phase = "prompt" /\ sections = <<>> /\ frames = <<>>
        /\ queue = <<>> /\ ret = 0 /\ typed = <<>> /\ own = <<>> /\ stranded = <<>>
        /\ count = 0
        /\ VarInit

\* main: a line is read and given to parseInput.
Type(line) ==
    /\ phase = "prompt" /\ count < MaxTyped
    /\ typed' = line /\ own' = <<>> /\ count' = count + 1
    /\ phase' = "line" /\ sections' = Sections(line)
    /\ UNCHANGED <<program, frames, queue, ret, stranded, memory>>

words == Head(sections)

\* What is left of the line after a command that returned r: in a3 strtok has
\* been called once more when -1 ends the loop.
Rest(r) == IF r = -1 /\ Len(sections) > 1 THEN SubSeq(sections, 3, Len(sections))
           ELSE Tail(sections)

\* A bug: -1 does not end the loop.
Return_on(r) == /\ ret' = r /\ sections' = Tail(sections) /\ phase' = "line"
                /\ UNCHANGED <<frames, queue>>

\* interpreter returns r to parseInput.
Return(r) == /\ ret' = r /\ sections' = Rest(r)
             /\ phase' = IF r = -1 THEN "ended" ELSE "line"
             /\ UNCHANGED <<frames, queue>>

set == /\ Return(0)
       /\ mem_set_value(words[2], SubSeq(words, 3, Len(words)))

print == Return(0) /\ mem_get_value(words[2])

echo == /\ Return(0)
        /\ IF words[2] \in DOMAIN Dollar THEN mem_get_value(Dollar[words[2]])
           ELSE UNCHANGED memory

\* A script's line but its last is being interpreted.
in_background == frames # <<>> /\ Head(frames).lines # <<>>

\* In a2 the frames go too, and ready_queue_destory leaves head as it was.
\* What becomes of the processes that were in them is not modelled.
resetmem ==
    /\ IF program = "a2" /\ (in_background \/ queue # <<>>)
       THEN phase' = "reset" /\ UNCHANGED <<sections, frames, queue, ret>>
       ELSE Return(0)
    /\ mem_reset

\* The program ends here.
Leave == phase' = "gone" /\ UNCHANGED <<sections, frames, queue, ret>>

\* What the commands of the host system return: -1 when none can be started
\* (and when chdir fails in a2).
a1_host == [my_ls |-> {0, -1, Failed}, my_touch |-> {0}, my_cd |-> {0, Failed},
            my_mkdir |-> {0, -1, Failed}, my_cat |-> {0, -1, Failed}]

a2_host == [c \in {"my_ls", "my_mkdir", "my_touch", "my_cd"} |-> {0, -1, Failed}]

Host == CASE program = "a1" -> a1_host
          [] program = "a2" -> a2_host
          [] program = "a3" -> [c \in {} |-> {}]

\* touch of a1 closes a file that it could not open.
host == /\ \/ \E r \in Host[words[1]] : Return(r)
           \/ program = "a1" /\ words[1] = "my_touch" /\ Leave
        /\ UNCHANGED memory

bad == Return(Failed) /\ UNCHANGED memory

help == Return(0) /\ UNCHANGED memory

\* In a1 and a2 exit is called here.  In a3 the file system is closed and -1
\* is returned, which exits when it reaches main.
quit == /\ IF program = "a3" THEN Return(-1) ELSE Leave
        /\ UNCHANGED memory

\* run or exec calls parseInput for the lines of scripts, and then returns r.
CallScript(lines, policy, r) ==
    /\ frames' = <<[lines |-> lines, after |-> Tail(sections),
                    policy |-> policy, left |-> 0, ret |-> r]>> \o frames
    /\ phase' = "script" /\ UNCHANGED <<sections, ret>>

\* a2: the scripts of a command, in front of the first that is missing.
admitted(ws) ==
    LET missing == {k \in 2 .. Len(ws) : ws[k] \notin DOMAIN Files["a2"]}
    IN  [k \in 1 .. Min(missing \cup {Len(ws) + 1}) - 2 |-> Files["a2"][ws[k + 1]]]

\* What process_initialize returned last.
errCode == IF Len(admitted(words)) < Len(words) - 1 THEN Failed ELSE 0

\* run or exec returns, what it has queued waits.
Postpone(r) == ret' = r /\ sections' = Tail(sections) /\ UNCHANGED <<frames, phase>>

\* In the background the scheduler that is running has to do.
schedule_by_policy(policy) ==
    IF in_background THEN Postpone(errCode) ELSE CallScript(<<>>, policy, errCode)

\* run goes on when the file is missing: it tests for another code.
RunQueued == queue' = queue \o admitted(words) /\ schedule_by_policy("FCFS")

\* exec returns at a missing file.  Else its end has no return; as it is
\* compiled, without optimisation, the 0 of schedule_by_policy is returned.
exec == /\ queue' = queue \o admitted(words)
        /\ IF errCode = Failed THEN Postpone(Failed) ELSE schedule_by_policy("RR")
        /\ UNCHANGED memory

\* A missing file is an error in a1, and ends the program in a3 (PCB_init).
RunNow(f) ==
    IF f \in DOMAIN Files[program]
    THEN CallScript(ScriptLines(f), "FCFS", 0) /\ UNCHANGED queue
    ELSE IF program = "a1" THEN Return(Failed) ELSE Leave

run == /\ IF program = "a2" THEN RunQueued ELSE RunNow(words[2])
       /\ UNCHANGED memory

\* One command of the line is interpreted.
Interpret ==
    /\ phase = "line" /\ sections # <<>> /\ words # Hang
    /\ LET c == interpreter(program, words)
       IN  \/ c = "set" /\ set
           \/ c = "print" /\ print
           \/ c = "echo" /\ echo
           \/ c = "run" /\ run
           \/ c = "exec" /\ exec
           \/ c \in {"quit", "exit"} /\ quit
           \/ c = "resetmem" /\ resetmem
           \/ c \in DOMAIN Host /\ host
           \/ c = "help" /\ help
           \/ c = "bad" /\ bad
    /\ own' = IF frames = <<>> THEN Append(own, words) ELSE own
    /\ stranded' = IF frames = <<>> /\ phase' = "script" THEN <<>>
                   ELSE IF frames = <<>> /\ interpreter(program, words) = "exec"
                   THEN stranded \o admitted(words) ELSE stranded
    /\ UNCHANGED <<program, typed, count>>

Loop == /\ phase = "line" /\ sections # <<>> /\ words = Hang
        /\ phase' = "hung"
        /\ UNCHANGED <<program, sections, frames, queue, ret, typed, own, stranded, count, memory>>

\* parseInput returns, to main or to the script.
EndLine ==
    /\ phase = "ended" \/ (phase = "line" /\ sections = <<>>)
    /\ phase' = IF frames # <<>> THEN "script" ELSE IF ret = -1 THEN "gone" ELSE "prompt"
    /\ UNCHANGED <<program, sections, frames, queue, ret, typed, own, stranded, count, memory>>

\* The next line, if the turn is not over.
NextLine ==
    /\ phase = "script" /\ Head(frames).lines # <<>>
    /\ Head(frames).policy = "RR" => Head(frames).left > 0
    /\ phase' = "line" /\ sections' = Sections(Head(Head(frames).lines))
    /\ frames' = [frames EXCEPT ![1].lines = Tail(@),
                                ![1].left = IF Head(frames).policy = "RR" THEN @ - 1 ELSE @]
    /\ UNCHANGED <<program, queue, ret, typed, own, stranded, count, memory>>

\* Under RR a process has its turn of two lines and goes to the tail.
Quantum ==
    /\ phase = "script" /\ Head(frames).lines # <<>>
    /\ Head(frames).policy = "RR" /\ Head(frames).left = 0
    /\ queue' = Append(queue, Head(frames).lines)
    /\ frames' = [frames EXCEPT ![1].lines = <<>>]
    /\ UNCHANGED <<program, phase, sections, ret, typed, own, stranded, count, memory>>

\* A bug: the scheduler runs only what it was started for.
Waiting_one == queue # <<>> /\ sections # <<>>

\* The scheduler of a2 runs until the queue is empty.
Waiting == queue # <<>>

\* A bug: the script stays in the queue.
NextScript_kept ==
    /\ phase = "script" /\ Head(frames).lines = <<>> /\ Waiting
    /\ frames' = [frames EXCEPT ![1].lines = Head(queue), ![1].left = 2]
    /\ UNCHANGED <<program, phase, sections, queue, ret, typed, own, stranded, count, memory>>

NextScript ==
    /\ phase = "script" /\ Head(frames).lines = <<>> /\ Waiting
    /\ frames' = [frames EXCEPT ![1].lines = Head(queue), ![1].left = 2]
    /\ queue' = Tail(queue)
    /\ UNCHANGED <<program, phase, sections, ret, typed, own, stranded, count, memory>>

\* A bug: parseInput is not returned to, the rest of its line is dropped.
EndScript_drops ==
    /\ phase = "script" /\ Head(frames).lines = <<>> /\ ~Waiting
    /\ ret' = IF program = "a1" THEN ret ELSE Head(frames).ret
    /\ frames' = Tail(frames)
    /\ UNCHANGED <<program, phase, sections, queue, typed, own, stranded, count, memory>>

\* run or exec returns: in a1 what the last line returned.
EndScript ==
    /\ phase = "script" /\ Head(frames).lines = <<>> /\ ~Waiting
    /\ ret' = IF program = "a1" THEN ret ELSE Head(frames).ret
    /\ sections' = IF program = "a3" THEN sections ELSE Head(frames).after
    /\ frames' = Tail(frames) /\ phase' = IF ret' = -1 THEN "ended" ELSE "line"
    /\ UNCHANGED <<program, queue, typed, own, stranded, count, memory>>

Step == Interpret \/ Loop \/ EndLine \/ NextLine \/ Quantum \/ NextScript \/ EndScript

Next == (\E line \in Typed[program] : Type(line)) \/ Step

\* The shell goes on with the line it has; the user need not type another.
Spec == Init /\ [][Next]_vars /\ WF_vars(Step)

----------------------------------------------------------------------------
TypeOK == /\ MemOK /\ program \in Programs /\ ret \in {-1, 0, Failed}
          /\ phase \in {"prompt", "line", "ended", "script", "hung", "reset", "gone"}
          /\ phase = "script" => frames # <<>>
          /\ \A i \in DOMAIN frames : frames[i].policy = "RR" => program = "a2"
          /\ program = "a3" => Len(frames) <= 1
          /\ program # "a2" => queue = <<>>

Separators == {" ", ";"}

\* The words of a line stand one by one between separators, with one space or
\* none behind a semicolon.
Tidy(line) ==
    LET n == Len(line) - 1
    IN  /\ n > 0 /\ line[1] \notin Separators /\ line[n] \notin Separators
        /\ \A i \in 1 .. n - 1 : line[i] \in Separators /\ line[i + 1] \in Separators =>
             program # "a1" /\ line[i] = ";" /\ line[i + 1] = " "

\* The words behind k - 1 semicolons.
WordsIn(line, k) ==
    LET behind(i) == Cardinality({j \in 1 .. i : line[j] = ";"})
        places == SelectSeq([i \in 1 .. Len(line) |-> i],
                            LAMBDA i : line[i] \notin Separators \cup {NL}
                                       /\ (program = "a1" \/ behind(i) = k - 1))
    IN  [j \in DOMAIN places |-> line[places[j]]]

\* The commands that a tidy line means.
Reference(line) ==
    LET n == IF program = "a1" THEN 1 ELSE 1 + Cardinality({j \in DOMAIN line : line[j] = ";"})
    IN  [k \in 1 .. n |-> WordsIn(line, k)]

\* In a3: a script's last line goes on behind a quit and one more command.
KeepsCursor(f) == LET s == a3_parseInput(Last(Files["a3"][f]))
                  IN  \E i \in 1 .. Len(s) - 2 : s[i][1] \in {"quit", "exit"}

(***************************************************************************)
(* When the prompt is back, the commands of a tidy line have been          *)
(* interpreted in their order, each with its own words.  In a3 a command   *)
(* run drops those behind it, whose place strtok has forgotten; and it     *)
(* must not end in the middle of a script's line, which would be taken for *)
(* the rest of this one.                                                   *)
(***************************************************************************)
SectionsInOrder == phase = "prompt" /\ count > 0 /\ Tidy(typed) =>
    \/ own = Reference(typed)
    \/ /\ program = "a3"
       /\ \E k \in DOMAIN own :
            /\ interpreter(program, own[k]) = "run"
            /\ own = SubSeq(Reference(typed), 1, k) \/ KeepsCursor(own[k][2])

(***************************************************************************)
(* Nothing of a line is interpreted after its quit, and the prompt does    *)
(* not come back: -1 ends the loop of a3 before the next section.          *)
(***************************************************************************)
QuitIsLast == \A i \in DOMAIN own : interpreter(program, own[i]) \in {"quit", "exit"} =>
    i = Len(own) /\ phase \in {"ended", "gone"}

(***************************************************************************)
(* A command that starts a scheduler leaves no call open and no process in *)
(* the ready queue of a2 when the prompt is back, also when scripts have   *)
(* queued others in the background or started schedulers of their own.     *)
(* What is in the queue at the prompt is what failed lines of exec have    *)
(* left there since: the scripts in front of a missing one                 *)
(* (interpreter.c:247-266), which run with the next run or exec.           *)
(***************************************************************************)
OnlyStrandedWait == phase = "prompt" => frames = <<>> /\ queue = stranded

(***************************************************************************)
(* A line that is tidy comes back to the prompt, or ends the program, with *)
(* all scripts that it runs; but for a resetmem of a2 while processes run  *)
(* or wait.                                                                *)
(***************************************************************************)
Returns == (phase = "line" /\ Tidy(typed)) ~> phase \in {"prompt", "gone", "reset"}
=============================================================================

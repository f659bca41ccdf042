-------------------------------- MODULE Shell --------------------------------
(* mysh from line to line: shell_loop and read_command (shell.c), parse_job   *)
(* (parse.c), the built-ins and what execute_job leaves behind (exec.c; how   *)
(* its processes get there is in Pipeline), and stdout's buffer, which fork   *)
(* copies. A line is a sequence of pieces of text, spaces and #.              *)
EXTENDS Integers, Sequences

CONSTANTS Lines,        \* what the script's lines may be
          MaxLines      \* bound: lines read

VARIABLES pc,           \* where shell_loop is
          line,         \* its tokens
          exit_status,  \* 0, or 1 for any failure
          buffered,     \* stdout is no terminal, and no prompt flushes it
          buf,          \* stdout's buffer in the shell
          out,          \* what has reached the shell's standard output: the
                        \* numbers of the lines that printed something
          said,         \* what was printed there, in the order it was
          log           \* what became of every line

Word    == {"prog", "missing", "pwd", "cd", "exit", "die"}
Builtin == {"pwd", "cd", "exit", "die"}     \* which prints like pwd
Redir   == {"<", ">"}
Token   == Word \cup Redir \cup {"|", "and", "or"}

Piece   == Token \cup {" ", "#"}

ASSUME ShellAssumption == Lines \subseteq Seq(Piece) /\ MaxLines \in Nat

output == <<buf, out, said>>
vars   == <<pc, line, exit_status, buffered, output, log>>

------------------------------------------------------------------------------
\* tokenize: what stands before the first #, cut at spaces. Pieces that are not
\* apart are one word, the name of no program, whatever they are.
Solid(l, i) == i \in 1..Len(l) /\ l[i] \notin {" ", "#"}
Tokenize(l) ==
    LET From[i \in Nat] ==
          IF i > Len(l) \/ l[i] = "#" THEN <<>>
          ELSE IF ~Solid(l, i) \/ Solid(l, i - 1) THEN From[i + 1]
          ELSE <<IF Solid(l, i + 1) THEN "missing" ELSE l[i]>> \o From[i + 1]
    IN From[1]

\* Mutant: any token is taken for a file's name.
FilenameAny(ts, i) == i < Len(ts)

\* Whether a file's name follows the < or > at i.
Filename(ts, i) == i < Len(ts) /\ ts[i + 1] \in Word

\* parse_job: the segments of the tokens ts, each its program's name and whether
\* its output is redirected; <<>> for an error. A trailing | is dropped.
Segments(ts) ==
    LET P[at \in Nat \X (Word \cup {""}) \X BOOLEAN] ==
          LET i    == at[1]
              cmd  == at[2]     \* of the segment that i is in, if any yet
              file == at[3]
          IN IF i > Len(ts) \/ ts[i] = "|"
             THEN IF cmd = "" THEN <<>>
                  ELSE IF i >= Len(ts) THEN <<[cmd |-> cmd, file |-> file]>>
                  ELSE IF P[<<i + 1, "", FALSE>>] = <<>> THEN <<>>
                  ELSE <<[cmd |-> cmd, file |-> file]>> \o P[<<i + 1, "", FALSE>>]
             ELSE IF ts[i] \in Redir
             THEN IF Filename(ts, i) THEN P[<<i + 2, cmd, file \/ ts[i] = ">">>] ELSE <<>>
             ELSE IF ts[i] \in Word THEN P[<<i + 1, IF cmd = "" THEN ts[i] ELSE cmd, file>>]
             ELSE <<>>
    IN P[<<1, "", FALSE>>]

Conditional(ts) == IF ts # <<>> /\ ts[1] \in {"and", "or"} THEN ts[1] ELSE "none"
Body(ts)        == IF Conditional(ts) = "none" THEN ts ELSE Tail(ts)

Job   == Segments(Body(line))
First == Job[1].cmd
Final == Job[Len(Job)]

------------------------------------------------------------------------------
Init == /\ pc = "read" /\ line = <<>> /\ exit_status = 0
        /\ buffered \in BOOLEAN
        /\ buf = <<>> /\ out = <<>> /\ said = <<>> /\ log = <<>>

ReadLine(l) == /\ pc = "read" /\ Len(log) < MaxLines
               /\ line' = Tokenize(l) /\ pc' = "line"
               /\ UNCHANGED <<exit_status, buffered, output, log>>

\* End of file, a read error, and a line of 4095 characters or more.
EndOfInput == /\ pc = "read" /\ pc' = "leave"
              /\ UNCHANGED <<line, exit_status, buffered, output, log>>

\* What became of the line: status and next are the loop's.
Ends(did, status, next) ==
    /\ pc = "line" /\ pc' = next
    /\ exit_status' = status
    /\ log' = Append(log, [cond |-> Conditional(line), did |-> did, ok |-> status = 0])
    /\ UNCHANGED <<line, buffered>>

Blank == line = <<>> /\ Ends("blank", exit_status, "read") /\ UNCHANGED output

\* Mutant: an error code of its own.
SyntaxErrorNegative == line # <<>> /\ Job = <<>> /\ Ends("bad", -1, "read") /\ UNCHANGED output

SyntaxError == line # <<>> /\ Job = <<>> /\ Ends("bad", 1, "read") /\ UNCHANGED output

Wanted == \/ Conditional(line) = "none"
          \/ Conditional(line) = "and" /\ exit_status = 0
          \/ Conditional(line) = "or" /\ exit_status # 0

\* Mutant: a skipped line succeeds.
SkipAndSucceed == /\ Job # <<>> /\ ~Wanted
                  /\ Ends("skipped", 0, "read")
                  /\ UNCHANGED output

Skip == /\ Job # <<>> /\ ~Wanted
        /\ Ends("skipped", exit_status, "read")
        /\ UNCHANGED output

\* The number of the line, by which its output is known.
This == Len(log) + 1

\* printf in the shell itself.
Printf == /\ said' = Append(said, This)
          /\ IF buffered THEN buf' = Append(buf, This) /\ UNCHANGED out
             ELSE out' = Append(out, This) /\ UNCHANGED buf

Then(cmd) == IF cmd = "exit" THEN "leave" ELSE "read"

\* A built-in that is the whole job runs in the shell; redirections are not
\* looked at. die ends the shell with what it has to say.
RunBuiltin(status) ==
    /\ Len(Job) = 1 /\ Wanted
    /\ \/ /\ First = "die" /\ status = 1
          /\ Ends("ran", 1, "leave")
          /\ Printf \/ UNCHANGED output
       \/ /\ First = "pwd"
          /\ Ends("ran", status, "read")
          /\ IF status = 0 THEN Printf ELSE UNCHANGED output
       \/ /\ First \in {"cd", "exit"} /\ (First = "exit" => status = 0)
          /\ Ends("ran", status, Then(First))
          /\ UNCHANGED output

\* What the child on the end of the job writes to the shell's standard output:
\* one that is replaced by its program, its own output; one that exits instead,
\* also what fork copied of the shell's buffer, unless it went to a file.
ChildPrints(own, flushes) ==
    /\ out' = out \o (IF flushes THEN buf ELSE <<>>) \o own
    /\ said' = said \o own
    /\ UNCHANGED buf

\* Anything else is forked. The last segment is replaced by a program, or exits:
\* a program not found, a failed redirection, a built-in at the end of a pipe.
\* The status is anything (StatusOfLast in Pipeline).
RunProgram(status) ==
    /\ Job # <<>> /\ (Len(Job) > 1 \/ First \notin Builtin) /\ Wanted
    /\ Ends("ran", status, Then(First))
    /\ \E own \in IF Final.file THEN {<<>>} ELSE {<<>>, <<This>>},
          lost \in IF Final.file THEN BOOLEAN ELSE {FALSE} :
          \/ Final.cmd = "prog" /\ ChildPrints(own, FALSE)
          \/ Final.cmd \in {"pwd", "die"} /\ ChildPrints(own, ~lost)
          \/ ChildPrints(<<>>, ~lost)

\* pipe or fork fails: status 1.
RunFails == /\ Job # <<>> /\ (Len(Job) > 1 \/ First \notin Builtin) /\ Wanted
            /\ Ends("ran", 1, Then(First))
            /\ UNCHANGED output

\* Mutant: the shell ends without flushing.
LeaveAtOnce == /\ pc = "leave" /\ pc' = "done"
               /\ UNCHANGED <<line, exit_status, buffered, output, log>>

\* main returns EXIT_SUCCESS, and stdout is flushed.
Leave == /\ pc = "leave" /\ pc' = "done"
         /\ out' = out \o buf /\ buf' = <<>>
         /\ UNCHANGED <<line, exit_status, buffered, said, log>>

Done == pc = "done" /\ UNCHANGED vars

Next == \/ \E l \in Lines : ReadLine(l)
        \/ EndOfInput \/ Blank \/ SyntaxError \/ Skip
        \/ \E status \in {0, 1} : RunBuiltin(status) \/ RunProgram(status)
        \/ RunFails \/ Leave \/ Done

Spec == Init /\ [][Next]_vars
------------------------------------------------------------------------------
Entry == [cond : {"none", "and", "or"}, did : {"blank", "bad", "skipped", "ran"},
          ok : BOOLEAN]
TypeOK == /\ pc \in {"read", "line", "leave", "done"} /\ line \in Seq(Token)
          /\ exit_status \in {0, 1} /\ buffered \in BOOLEAN
          /\ buf \in Seq(1..MaxLines) /\ out \in Seq(1..MaxLines)
          /\ said \in Seq(1..MaxLines) /\ log \in Seq(Entry)

\* The grammar of a job: one or more commands with | between them (one may
\* trail), each of words and of < and > with a word after it, at least one word
\* of them not a file's name, and no and/or but in front (parse.c 130-209).
Command(ts, i, j) ==
    /\ \A x \in i..j : /\ ts[x] \notin {"and", "or"}
                       /\ ts[x] \in Redir => x < j /\ ts[x + 1] \in Word
    /\ \E x \in i..j : ts[x] \in Word /\ ~(x > i /\ ts[x - 1] \in Redir)
Window(ts) == {w \in (1..Len(ts) + 1) \X (0..Len(ts)) :
                 /\ w[1] <= w[2] + 1
                 /\ w[1] = 1 \/ ts[w[1] - 1] = "|"
                 /\ w[2] = Len(ts) \/ ts[w[2] + 1] = "|"
                 /\ \A x \in w[1]..w[2] : ts[x] # "|"}
IsJob(ts) == /\ ts # <<>> /\ ts[1] # "|"
             /\ \A w \in Window(ts) : w[1] = Len(ts) + 1 \/ Command(ts, w[1], w[2])

\* parse_job accepts the lines of the grammar, and no other.
ParsesGrammar == pc = "line" => (Job # <<>> <=> IsJob(Body(line)))

\* and/or look at the last line that ran or was refused, across any number of
\* skipped and blank ones: a whole chain of lines behaves as the README says of
\* each ("run if previous succeeded", "run if previous failed", "chainable";
\* shell.c 88-100).
Outcome(i) ==
    LET S == {j \in 1..i-1 : log[j].did \in {"ran", "bad"}}
    IN S = {} \/ \E j \in S : (\A x \in S : x <= j) /\ log[j].ok
ChainsHold == \A i \in 1..Len(log) :
    log[i].did \in {"ran", "skipped"} =>
        (log[i].did = "skipped" <=> \/ log[i].cond = "and" /\ ~Outcome(i)
                                    \/ log[i].cond = "or" /\ Outcome(i))

\* Nothing that was printed is lost, however the shell ends (71-77, 107, main.c
\* 41-51).
NothingLost == pc = "done" => \A i \in 1..Len(said) : \E j \in 1..Len(out) : out[j] = said[i]

\* A line that says it prints prints once: "which echo # Should print path"
\* (test_builtins.sh 27). With stdout in a file or a pipe a child that exits
\* without exec prints again what the built-ins before it printed.
PrintsOnce == pc = "done" => Len(out) = Len(said)
=============================================================================

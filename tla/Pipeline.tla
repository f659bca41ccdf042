------------------------------- MODULE Pipeline -------------------------------
(* One job of external segments: execute_job of exec.c (138-315), the        *)
(* children it forks, and what the kernel does with their pipes. With one    *)
(* segment it is the branch without pipes (138-200). Between setting up and  *)
(* ending, a child is a filter that copies what it reads, or one that stops  *)
(* at any moment; what comes of built-ins and programs that are not found is *)
(* that they end. The first segment may have an input file; without one, and *)
(* in batch mode, it must be kept from the shell's own standard input, which *)
(* may be the script.                                                        *)
EXTENDS Integers

CONSTANTS MaxSegs,      \* segments a job may have; 50 fit in the code
          Cap,          \* what a pipe holds before its writers block
          Faults        \* which calls may fail, of {"pipe", "fork"}

ASSUME PipelineAssumption ==
    MaxSegs \in Nat \ {0} /\ Cap \in Nat \ {0} /\ Faults \subseteq {"pipe", "fork"}

VARIABLES n, batch,     \* job->segment_count and !is_interactive, the same
                        \* throughout
          spc, k,       \* where execute_job is, and its loop index
          status,       \* new_exit_status: 0, or 1 for any failure
          ends,         \* the pipe ends a process holds beyond fds 0 and 1
          cpc,          \* where a child is
          in, out,      \* its standard input and output
          code,         \* its exit status
          has,          \* it has read something it has not yet written
          data          \* what a pipe holds

shell == <<spc, k, status>>
child == <<cpc, in, out, code, has>>
vars  == <<n, batch, shell, child, ends, data>>

Seg   == 0..n-1
Shell == MaxSegs
Last  == n - 1
Pipe  == 0..n-2
R(j)  == <<j, "r">>
W(j)  == <<j, "w">>
End   == {R(j) : j \in Pipe} \cup {W(j) : j \in Pipe}
Own   == <<-1, "own">>      \* what is not a pipe: the shell's own stream,
File  == <<-1, "file">>     \* an input file (where output goes is in Shell)
Null  == <<-1, "null">>     \* and /dev/null

Init == /\ n \in 1..MaxSegs /\ batch \in BOOLEAN
        /\ spc = (IF n = 1 THEN "fork" ELSE "pipe") /\ k = 0 /\ status = 0
        /\ ends = [p \in Seg \cup {Shell} |-> {}]
        /\ cpc = [i \in Seg |-> "none"]
        /\ in = [i \in Seg |-> Own] /\ out = [i \in Seg |-> Own]
        /\ code = [i \in Seg |-> 0]
        /\ has = [i \in Seg |-> FALSE]
        /\ data = [j \in Pipe |-> 0]

------------------------------------------------------------------------------
\* A pipe end exists while some process holds it.
Running(i) == cpc[i] \in {"ready", "run"}
Holders(e) == {p \in Seg \cup {Shell} :
                 \/ e \in ends[p]
                 \/ p \in Seg /\ Running(p) /\ (in[p] = e \/ out[p] = e)}
Writers(j) == Holders(W(j))
Readers(j) == Holders(R(j))

\* Mutant: a pipe is made for the last segment too.
MakePipeMore == /\ spc = "pipe"
                /\ ends' = [ends EXCEPT ![Shell] = @ \cup {R(k), W(k)}]
                /\ IF k = n - 1 THEN spc' = "fork" /\ k' = 0 ELSE spc' = spc /\ k' = k + 1
                /\ UNCHANGED <<status, child, data>>

MakePipe == /\ spc = "pipe"
            /\ ends' = [ends EXCEPT ![Shell] = @ \cup {R(k), W(k)}]
            /\ IF k = n - 2 THEN spc' = "fork" /\ k' = 0 ELSE spc' = spc /\ k' = k + 1
            /\ UNCHANGED <<status, child, data>>

\* The job is given up: status 1, and what is open or running stays so.
GiveUp == spc' = "failed" /\ status' = 1 /\ UNCHANGED <<n, batch, k, child, ends, data>>
PipeFails == "pipe" \in Faults /\ spc = "pipe" /\ GiveUp
ForkFails == "fork" \in Faults /\ spc = "fork" /\ GiveUp

\* Mutant: once a segment is forked the shell closes its pipe.
ForkAndClose == /\ spc = "fork"
                /\ cpc' = [cpc EXCEPT ![k] = "forked"]
                /\ ends' = [ends EXCEPT ![k] = ends[Shell],
                                        ![Shell] = @ \ {R(k), W(k)}]
                /\ IF k = Last THEN spc' = "close" /\ k' = 0 ELSE spc' = spc /\ k' = k + 1
                /\ UNCHANGED <<status, in, out, code, has, data>>

\* A child inherits all the ends.
Fork == /\ spc = "fork"
        /\ cpc' = [cpc EXCEPT ![k] = "forked"]
        /\ ends' = [ends EXCEPT ![k] = ends[Shell]]
        /\ IF k = Last THEN spc' = "close" /\ k' = 0 ELSE spc' = spc /\ k' = k + 1
        /\ UNCHANGED <<status, in, out, code, has, data>>

CloseEnds == /\ spc = "close"
             /\ spc' = "wait"
             /\ ends' = [ends EXCEPT ![Shell] = {}]
             /\ UNCHANGED <<k, status, child, data>>

\* Mutant: only the last child is waited for.
WaitLast == /\ spc = "wait" /\ cpc[Last] = "exited"
            /\ spc' = "done" /\ status' \in {0, 1}
            /\ UNCHANGED <<k, child, ends, data>>

\* main ignores SIGCHLD (main.c 35), so the kernel reaps the children itself:
\* waitpid blocks while the child lives and then fails, and `status` is read
\* as it was never written.
Wait == /\ spc = "wait" /\ cpc[k] = "exited"
        /\ IF k = Last THEN spc' = "done" /\ k' = k /\ status' \in {0, 1}
           ELSE k' = k + 1 /\ UNCHANGED <<spc, status>>
        /\ UNCHANGED <<child, ends, data>>

------------------------------------------------------------------------------
\* dup2 leaves the standard stream alone if the end is not open.
Dup(i, e) == IF e \in ends[i] THEN e ELSE Own

\* What a child's standard input may become; only the first one's input file is
\* looked at. Mutant: the first of several segments keeps the shell's input.
InputsShared(i) == IF i > 0 THEN {Dup(i, R(i - 1))}
                   ELSE {File, IF batch /\ n = 1 THEN Null ELSE Own}
Inputs(i) == IF i > 0 THEN {Dup(i, R(i - 1))}
             ELSE {File, IF batch THEN Null ELSE Own}

\* Mutant: a child closes its own two pipes only.
SetupNear(i) == /\ cpc[i] = "forked"
                /\ cpc' = [cpc EXCEPT ![i] = "ready"]
                /\ \E e \in Inputs(i) : in' = [in EXCEPT ![i] = e]
                /\ out' = [out EXCEPT ![i] = Dup(i, W(i))]
                /\ ends' = [ends EXCEPT ![i] = @ \ {R(i - 1), W(i - 1), R(i), W(i)}]
                /\ UNCHANGED <<shell, code, has, data>>

Setup(i) == /\ cpc[i] = "forked"
            /\ cpc' = [cpc EXCEPT ![i] = "ready"]
            /\ \E e \in Inputs(i) : in' = [in EXCEPT ![i] = e]
            /\ out' = [out EXCEPT ![i] = Dup(i, W(i))]
            /\ ends' = [ends EXCEPT ![i] = {}]
            /\ UNCHANGED <<shell, code, has, data>>

Exits(i, c) == cpc' = [cpc EXCEPT ![i] = "exited"] /\ code' = [code EXCEPT ![i] = c]

\* execv takes over, or the child exits itself: a redirection that fails (only
\* of the first segment's input and the last one's output), a built-in, a
\* program that is not found.
Exec(i) == /\ cpc[i] = "ready"
           /\ cpc' = [cpc EXCEPT ![i] = "run"]
           /\ UNCHANGED <<shell, in, out, code, has, ends, data>>
ExitInstead(i, c) == /\ cpc[i] = "ready"
                     /\ Exits(i, c)
                     /\ UNCHANGED <<shell, in, out, has, ends, data>>

\* The program: what it reads it writes before it reads again.
Piped(e) == e[1] >= 0

Produce(i) == /\ cpc[i] = "run" /\ ~has[i] /\ in[i] \in {Own, File}
              /\ has' = [has EXCEPT ![i] = TRUE]
              /\ UNCHANGED <<shell, cpc, in, out, code, ends, data>>

Read(i) == /\ cpc[i] = "run" /\ ~has[i] /\ Piped(in[i]) /\ data[in[i][1]] > 0
           /\ has' = [has EXCEPT ![i] = TRUE]
           /\ data' = [data EXCEPT ![in[i][1]] = @ - 1]
           /\ UNCHANGED <<shell, cpc, in, out, code, ends>>

\* End of file: the pipe is empty and nobody can write to it any more, or it is
\* /dev/null.
AtEnd(e) == e = Null \/ (Piped(e) /\ data[e[1]] = 0 /\ Writers(e[1]) = {})
Eof(i, c) == /\ cpc[i] = "run" /\ ~has[i] /\ AtEnd(in[i])
             /\ Exits(i, c)
             /\ UNCHANGED <<shell, in, out, has, ends, data>>

Write(i) == /\ cpc[i] = "run" /\ has[i]
            /\ has' = [has EXCEPT ![i] = FALSE]
            /\ \/ ~Piped(out[i]) /\ UNCHANGED data
               \/ /\ Piped(out[i])
                  /\ Readers(out[i][1]) # {} /\ data[out[i][1]] < Cap
                  /\ data' = [data EXCEPT ![out[i][1]] = @ + 1]
            /\ UNCHANGED <<shell, cpc, in, out, code, ends>>

\* A write that nobody can read any more kills the program.
Sigpipe(i) == /\ cpc[i] = "run" /\ has[i] /\ Piped(out[i]) /\ Readers(out[i][1]) = {}
              /\ Exits(i, 1)
              /\ UNCHANGED <<shell, in, out, has, ends, data>>

\* It may end without having read all.
Quit(i, c) == /\ cpc[i] = "run" /\ Exits(i, c)
              /\ UNCHANGED <<shell, in, out, has, ends, data>>

ExecuteJob == UNCHANGED <<n, batch>> /\ (MakePipe \/ Fork \/ CloseEnds \/ Wait)

Child(i) == /\ i \in Seg /\ UNCHANGED <<n, batch>>
            /\ \/ Setup(i) \/ Exec(i) \/ Produce(i) \/ Read(i) \/ Write(i) \/ Sigpipe(i)
               \/ \E c \in {0, 1} : ExitInstead(i, c) \/ Eof(i, c)

\* execute_job has returned and its children are gone, or stuck.
Returned == spc \in {"done", "failed"} /\ UNCHANGED vars

QuitEarly == UNCHANGED <<n, batch>> /\ \E i \in Seg, c \in {0, 1} : Quit(i, c)

Next == \/ ExecuteJob \/ PipeFails \/ ForkFails \/ Returned
        \/ \E i \in Seg : Child(i)
        \/ QuitEarly

\* The kernel schedules the shell and every child; no program has to quit.
Spec == /\ Init /\ [][Next]_vars
        /\ WF_vars(ExecuteJob) /\ \A i \in 0..MaxSegs-1 : WF_vars(Child(i))
------------------------------------------------------------------------------
TypeOK == /\ n \in 1..MaxSegs /\ batch \in BOOLEAN
          /\ spc \in {"pipe", "fork", "close", "wait", "done", "failed"}
          /\ k \in Seg /\ status \in {0, 1}
          /\ ends \in [Seg \cup {Shell} -> SUBSET End]
          /\ cpc \in [Seg -> {"none", "forked", "ready", "run", "exited"}]
          /\ in \in [Seg -> End \cup {Own, File, Null}] /\ out \in [Seg -> End \cup {Own}]
          /\ code \in [Seg -> {0, 1}] /\ has \in [Seg -> BOOLEAN]
          /\ data \in [Pipe -> 0..Cap]

\* A job that returns leaves no child behind and no pipe open; one that gave up
\* for a failed pipe or fork may leave both (208-223).
NoneLeftBehind == spc = "done" => /\ \A i \in Seg : cpc[i] = "exited"
                                  /\ \A e \in End : Holders(e) = {}

\* A program is told the truth about its neighbours, however slowly they or the
\* shell get through fork, dup2 and close: its input ends only when the segment
\* before it has, its output breaks only when the segment after it has ended.
NeighboursTrue ==
    [][\A i \in Seg : /\ \A c \in {0, 1} : i > 0 /\ Eof(i, c) => cpc[i - 1] = "exited"
                      /\ Sigpipe(i) => cpc[i + 1] = "exited"]_vars

\* No stray end keeps a pipeline alive: once any segment has ended, end of file
\* runs down the line from it and SIGPIPE up, and the job returns. "yes | head"
\* ends, and so does "true | cat" (234-237, 295-298).
HasEnded(i) == i \in Seg /\ cpc[i] = "exited"
EndsBothWays == \A i \in 0..MaxSegs-1 : HasEnded(i) ~> spc \in {"done", "failed"}

\* In batch mode nothing waits for input that nobody will give, and nothing eats
\* the lines of the script: a job whose first segment has no input file ends by
\* itself ("Should immediately exit and not block", test_exec.sh 21), as one of
\* several segments too (148-156, 239-247).
BatchEnds == batch /\ cpc[0] = "run" /\ in[0] # File ~> spc \in {"done", "failed"}

\* "The whole pipeline FAILS", "The whole pipeline SUCCEEDS"
\* (test_redir_pipe.sh 39-40): the status is that of the last segment. It is
\* whatever was on the stack.
StatusOfLast == spc = "done" => status = code[Last]
=============================================================================

---------------------------- MODULE PipelineProofs ----------------------------
(* Safety of a job, for any number of segments, any capacity of a pipe and   *)
(* failing calls: what is left behind, and what a program is told of its     *)
(* neighbours.                                                               *)
EXTENDS Pipeline, TLAPS

\* What the shell has done, and holds of the pipes, at each of its places. A job
\* that gave up has its pipes open, or no child.
ShellHolds ==
    /\ spc = "pipe" => k \in Pipe /\ \A i \in Seg : cpc[i] = "none"
    /\ spc = "pipe" => ends[Shell] = {R(j) : j \in 0..k-1} \cup {W(j) : j \in 0..k-1}
    /\ spc = "fork" => ends[Shell] = End /\ \A i \in Seg : cpc[i] = "none" <=> i >= k
    /\ spc = "close" => ends[Shell] = End /\ k = 0
    /\ spc \in {"wait", "done"} => ends[Shell] = {}
    /\ spc = "wait" => \A i \in Seg : i < k => cpc[i] = "exited"
    /\ spc = "done" => \A i \in Seg : cpc[i] = "exited"
    /\ spc \in {"close", "wait", "done"} => \A i \in Seg : cpc[i] # "none"
    /\ spc = "failed" => ends[Shell] = End \/ \A i \in Seg : cpc[i] = "none"

\* A child has every end until it is set up, and then its neighbours' alone.
ChildHolds ==
    \A i \in Seg :
        /\ ends[i] = IF cpc[i] = "forked" THEN End ELSE {}
        /\ cpc[i] \in {"ready", "run"} =>
              /\ i > 0 => in[i] = R(i - 1)
              /\ i = 0 => in[i] \in {File, Null, Own}
              /\ out[i] = IF i < Last THEN W(i) ELSE Own

IInv == TypeOK /\ ShellHolds /\ ChildHolds

\* What the proofs need of the constants and of the names of pipe ends.
LEMMA Names ==
    ASSUME n \in 1..MaxSegs
    PROVE  /\ MaxSegs \in Nat /\ Cap \in Nat /\ Cap > 0 /\ n \in Nat /\ n > 0
           /\ Shell \notin Seg
           /\ \A j \in Pipe : j \in Seg /\ j + 1 \in Seg /\ R(j) \in End /\ W(j) \in End
           /\ \A i \in Seg : i > 0 => i - 1 \in Pipe
           /\ \A i \in Seg : i < Last => i \in Pipe
           /\ W(Last) \notin End
           /\ \A i, j \in Int : R(i) # W(j) /\ (R(i) = R(j) => i = j) /\ (W(i) = W(j) => i = j)
           /\ \A j \in Pipe : /\ R(j)[1] = j /\ W(j)[1] = j
                              /\ R(j) \notin {Own, File, Null} /\ W(j) \notin {Own, File, Null}
           /\ ~Piped(Own) /\ ~Piped(File) /\ ~Piped(Null)
  BY PipelineAssumption DEF Shell, Seg, Pipe, End, R, W, Last, Own, File, Null, Piped

\* A job keeps its segments.
LEMMA SameJob ==
    ASSUME n' = n
    PROVE  /\ Seg' = Seg /\ Pipe' = Pipe /\ End' = End /\ Last' = Last
           /\ \A i \in Int : R(i)' = R(i) /\ W(i)' = W(i)
  BY DEF Seg, Pipe, End, Last, R, W

\* What is to be shown of each child after a step.
LEMMA ChildNext ==
    ASSUME n' = n,
           \A i \in Seg :
              /\ ends'[i] = IF cpc'[i] = "forked" THEN End ELSE {}
              /\ cpc'[i] \in {"ready", "run"} =>
                    /\ i > 0 => in'[i] = R(i - 1)
                    /\ i = 0 => in'[i] \in {File, Null, Own}
                    /\ out'[i] = IF i < Last THEN W(i) ELSE Own
    PROVE  ChildHolds'
  BY SameJob DEF ChildHolds, R, W, Own, File, Null

------------------------------------------------------------------------------
\* It all begins with the shell alone and no pipe.
LEMMA InitInv == Init => IInv
<1> SUFFICES ASSUME Init PROVE IInv
  OBVIOUS
<1> USE DEF Init
<1>1. TypeOK
  BY Names DEF TypeOK, Seg
<1>2. ShellHolds
  BY Names DEF ShellHolds, Seg, Pipe, End
<1>3. ChildHolds
  BY Names DEF ChildHolds
<1> QED
  BY <1>1, <1>2, <1>3 DEF IInv

\* The steps of execute_job.
LEMMA PipeStep ==
    ASSUME IInv, UNCHANGED <<n, batch>>, MakePipe PROVE IInv'
<1> USE Names, SameJob DEF IInv, TypeOK, MakePipe, child
<1>1. k \in Pipe /\ k \in Nat /\ \A i \in Seg : cpc[i] = "none"
  BY DEF ShellHolds, Pipe
<1>2. /\ ends'[Shell] = ends[Shell] \cup {R(k), W(k)}
      /\ \A i \in Seg : ends'[i] = ends[i]
      /\ ends' \in [Seg \cup {Shell} -> SUBSET End]
  BY <1>1
<1>3. ends'[Shell] = {R(j) : j \in 0..k} \cup {W(j) : j \in 0..k}
  <2>1. ends[Shell] = {R(j) : j \in 0..k-1} \cup {W(j) : j \in 0..k-1}
    BY DEF ShellHolds
  <2>2. 0..k = (0..k-1) \cup {k}
    BY <1>1
  <2> HIDE Names, SameJob DEF IInv, TypeOK, MakePipe
  <2> QED
    BY <1>2, <2>1, <2>2
<1>4. CASE k = n - 2
  <2>1. spc' = "fork" /\ k' = 0 /\ 0..k = Pipe
    BY <1>1, <1>4 DEF Pipe
  <2>2. ends'[Shell] = End
    BY <1>3, <2>1 DEF End
  <2> QED
    BY <1>1, <1>2, <2>1, <2>2 DEF ShellHolds, ChildHolds, Seg
<1>5. CASE k # n - 2
  <2>1. spc' = "pipe" /\ k' = k + 1 /\ k' \in Pipe /\ k' - 1 = k
    BY <1>1, <1>5 DEF Pipe
  <2>2. ends'[Shell] = {R(j) : j \in 0..k'-1} \cup {W(j) : j \in 0..k'-1}
    BY <1>3, <2>1
  <2>3. ShellHolds'
    BY <1>1, <1>2, <2>1, <2>2 DEF ShellHolds, Pipe, R, W
  <2> QED
    BY <1>1, <1>2, <2>1, <2>3, ChildNext DEF ChildHolds
<1> QED
  BY <1>4, <1>5

\* A child is born with copies of all the shell's descriptors.
LEMMA ForkStep ==
    ASSUME IInv, UNCHANGED <<n, batch>>, Fork PROVE IInv'
<1> USE Names, SameJob DEF IInv, TypeOK
<1>1. /\ k \in Seg /\ k \in Nat /\ spc = "fork"
      /\ ends[Shell] = End /\ \A i \in Seg : cpc[i] = "none" <=> i >= k
  BY DEF ShellHolds, Fork, Seg
<1>2. /\ ends' \in [Seg \cup {Shell} -> SUBSET End]
      /\ cpc' \in [Seg -> {"none", "forked", "ready", "run", "exited"}]
      /\ ends'[Shell] = End /\ ends'[k] = End /\ cpc'[k] = "forked"
      /\ \A i \in Seg \ {k} : ends'[i] = ends[i] /\ cpc'[i] = cpc[i]
      /\ UNCHANGED <<status, in, out, code, has, data>>
  BY <1>1 DEF Fork
<1>3. \/ k = Last /\ spc' = "close" /\ k' = 0
      \/ k # Last /\ spc' = "fork" /\ k' = k + 1
  BY <1>1 DEF Fork
<1>4. k' \in Seg
  BY <1>1, <1>3 DEF Seg, Last
<1>5. TypeOK'
  BY <1>2, <1>3, <1>4
<1>6. ASSUME NEW i \in Seg
      PROVE  /\ k = Last => cpc'[i] # "none"
             /\ k # Last => (cpc'[i] = "none" <=> i >= k + 1)
  <2>1. i \in Nat /\ i <= Last
    BY DEF Seg, Last
  <2>2. cpc'[i] = "none" <=> i # k /\ i >= k
    BY <1>1, <1>2
  <2> QED
    BY <1>1, <2>1, <2>2
<1>7. ShellHolds'
  BY <1>2, <1>3, <1>6 DEF ShellHolds
<1>8. ChildHolds'
  BY <1>2, ChildNext DEF ChildHolds
<1> QED
  BY <1>5, <1>7, <1>8

\* The shell closes all its ends after the last fork.
LEMMA CloseStep ==
    ASSUME IInv, UNCHANGED <<n, batch>>, CloseEnds PROVE IInv'
<1> USE Names, SameJob DEF IInv, TypeOK, CloseEnds, child
<1>1. TypeOK'
  OBVIOUS
<1>2. ends'[Shell] = {} /\ \A i \in Seg : ends'[i] = ends[i]
  OBVIOUS
<1>3. ShellHolds'
  BY <1>2 DEF ShellHolds, Seg
<1>4. ChildHolds'
  BY <1>2, ChildNext DEF ChildHolds
<1> QED
  BY <1>1, <1>3, <1>4

\* waitpid returns, with whatever status.
LEMMA WaitStep ==
    ASSUME IInv, UNCHANGED <<n, batch>>, Wait PROVE IInv'
<1> USE Names, SameJob DEF IInv, TypeOK, Wait, child
<1>1. TypeOK'
  BY DEF Seg, Last
<1>2. ShellHolds'
  BY DEF ShellHolds, Seg, End, Pipe, Last
<1>3. ChildHolds'
  BY ChildNext DEF ChildHolds
<1> QED
  BY <1>1, <1>2, <1>3

\* A failing pipe or fork returns at once, and closes nothing.
LEMMA GiveUpStep ==
    ASSUME IInv, PipeFails \/ ForkFails PROVE IInv'
<1> USE Names, SameJob DEF IInv, TypeOK, PipeFails, ForkFails, GiveUp, child
<1>1. TypeOK'
  OBVIOUS
<1>2. ShellHolds'
  BY DEF ShellHolds
<1>3. ChildHolds'
  BY ChildNext DEF ChildHolds
<1> QED
  BY <1>1, <1>2, <1>3

------------------------------------------------------------------------------
\* A child that goes on, or ends, without touching the ends it holds.
GoesOn(i) ==
    /\ UNCHANGED <<n, batch, shell, in, out, ends>>
    /\ \A j \in Seg \ {i} : cpc'[j] = cpc[j]
    /\ \/ cpc[i] \in {"ready", "run"} /\ cpc'[i] \in {"ready", "run"}
       \/ cpc[i] \in {"ready", "run"} /\ cpc'[i] = "exited"
    /\ cpc' \in [Seg -> {"none", "forked", "ready", "run", "exited"}]
    /\ code' \in [Seg -> {0, 1}] /\ has' \in [Seg -> BOOLEAN]
    /\ data' \in [Pipe -> 0..Cap]

\* A child's dup2s and closes leave it with its standard streams alone.
LEMMA GoesOnKeeps ==
    ASSUME IInv, NEW i \in Seg, GoesOn(i) PROVE IInv'
<1> USE Names, SameJob DEF IInv, TypeOK, GoesOn, shell
<1>1. TypeOK'
  OBVIOUS
<1>2. ShellHolds'
  BY DEF ShellHolds
<1>3. ChildHolds'
  BY ChildNext DEF ChildHolds
<1> QED
  BY <1>1, <1>2, <1>3

\* Every step of a child but its dup2s and closes is one.
LEMMA ProgramSteps ==
    ASSUME IInv, NEW i \in Seg, UNCHANGED <<n, batch>>,
           \/ Exec(i) \/ Produce(i) \/ Read(i) \/ Write(i) \/ Sigpipe(i)
           \/ \E c \in {0, 1} : ExitInstead(i, c) \/ Eof(i, c) \/ Quit(i, c)
    PROVE  GoesOn(i)
<1> USE Names, SameJob DEF IInv, TypeOK, GoesOn, shell
<1>1. CASE Exec(i) \/ Produce(i)
  BY <1>1 DEF Exec, Produce
<1>2. CASE Read(i)
  <2>0. i \in Nat
    BY DEF Seg
  <2>1. cpc[i] = "run" /\ i > 0 /\ in[i] = R(i - 1) /\ i - 1 \in Pipe
    BY <1>2, <2>0 DEF Read, ChildHolds
  <2>2. data' = [data EXCEPT ![i - 1] = @ - 1] /\ data[i - 1] > 0
    BY <1>2, <2>1 DEF Read
  <2>3. data' \in [Pipe -> 0..Cap]
    BY <2>1, <2>2
  <2> QED
    BY <1>2, <2>3 DEF Read
<1>3. CASE Write(i)
  <2>1. cpc[i] = "run"
    BY <1>3 DEF Write
  <2>2. data' \in [Pipe -> 0..Cap]
    <3>1. CASE UNCHANGED data
      BY <3>1
    <3>2. CASE /\ Piped(out[i]) /\ data[out[i][1]] < Cap
               /\ data' = [data EXCEPT ![out[i][1]] = @ + 1]
      <4>1. out[i] = W(i) /\ i \in Pipe
        BY <2>1, <3>2 DEF ChildHolds, Seg
      <4> QED
        BY <3>2, <4>1 DEF Seg
    <3> QED
      BY <1>3, <3>1, <3>2 DEF Write
  <2> QED
    BY <1>3, <2>2 DEF Write
<1>4. CASE Sigpipe(i)
  BY <1>4 DEF Sigpipe, Exits
<1>5. ASSUME NEW c \in {0, 1}, ExitInstead(i, c) \/ Eof(i, c) \/ Quit(i, c)
      PROVE  GoesOn(i)
  <2>1. /\ cpc[i] \in {"ready", "run"} /\ cpc' = [cpc EXCEPT ![i] = "exited"]
        /\ code' = [code EXCEPT ![i] = c]
        /\ UNCHANGED <<spc, k, status, in, out, has, ends, data>>
    BY <1>5 DEF ExitInstead, Eof, Quit, Exits
  <2> QED
    BY <2>1
<1> QED
  BY <1>1, <1>2, <1>3, <1>4, <1>5

\* After its dup2s and closes a child holds its neighbours' ends and no other.
LEMMA SetupStep ==
    ASSUME IInv, NEW i \in Seg, UNCHANGED <<n, batch>>, Setup(i) PROVE IInv'
<1> USE Names, SameJob DEF IInv, TypeOK, Setup, shell
<1>1. /\ cpc[i] = "forked" /\ cpc'[i] = "ready" /\ ends[i] = End /\ ends'[i] = {}
      /\ ends'[Shell] = ends[Shell]
      /\ \A j \in Seg \ {i} : /\ cpc'[j] = cpc[j] /\ ends'[j] = ends[j]
                              /\ in'[j] = in[j] /\ out'[j] = out[j]
  BY DEF ChildHolds
<1>2. /\ i > 0 => in'[i] = R(i - 1)
      /\ i = 0 => in'[i] \in {File, Null, Own}
  BY <1>1 DEF Inputs, Dup, Seg
<1>3. out'[i] = IF i < Last THEN W(i) ELSE Own
  BY <1>1 DEF Dup, Seg, Last
<1>4. TypeOK'
  <2>1. in'[i] \in End \cup {Own, File, Null} /\ out'[i] \in End \cup {Own}
    BY <1>2, <1>3 DEF Seg
  <2> QED
    BY <1>1, <2>1 DEF Seg, End, Pipe
<1>5. ShellHolds'
  BY <1>1 DEF ShellHolds
<1>6. ChildHolds'
  <2> SUFFICES ASSUME NEW j \in Seg
               PROVE  /\ ends'[j] = IF cpc'[j] = "forked" THEN End ELSE {}
                      /\ cpc'[j] \in {"ready", "run"} =>
                            /\ j > 0 => in'[j] = R(j - 1)
                            /\ j = 0 => in'[j] \in {File, Null, Own}
                            /\ out'[j] = IF j < Last THEN W(j) ELSE Own
    BY ChildNext
  <2> HIDE DEF Setup, TypeOK
  <2>1. CASE j = i
    BY <1>1, <1>2, <1>3, <2>1
  <2>2. CASE j # i
    BY <1>1, <2>2 DEF ChildHolds
  <2> QED
    BY <2>1, <2>2
<1> QED
  BY <1>4, <1>5, <1>6

------------------------------------------------------------------------------
\* So every step keeps it.
LEMMA JobStep == IInv /\ [Next]_vars => IInv'
<1> SUFFICES ASSUME IInv, [Next]_vars PROVE IInv'
  OBVIOUS
<1>1. CASE ExecuteJob
  BY <1>1, PipeStep, ForkStep, CloseStep, WaitStep DEF ExecuteJob
<1>2. CASE PipeFails \/ ForkFails
  BY <1>2, GiveUpStep
<1>3. ASSUME NEW i \in Seg, Child(i) PROVE IInv'
  BY <1>3, SetupStep, ProgramSteps, GoesOnKeeps DEF Child
<1>4. CASE QuitEarly
  BY <1>4, ProgramSteps, GoesOnKeeps DEF QuitEarly
<1>5. CASE UNCHANGED vars
  BY <1>5 DEF vars, shell, child, IInv, TypeOK, ShellHolds, ChildHolds, Seg, Shell, Pipe, End,
              Last, R, W, Own, File, Null
<1> QED
  BY <1>1, <1>2, <1>3, <1>4, <1>5 DEF Next, Returned

\* So the invariant holds throughout.
LEMMA JobInvariant == Spec => []IInv
  BY InitInv, JobStep, PTL DEF Spec

\* Every state of a job is well typed, however long the pipeline (exec.c
\* 203-316).
THEOREM TypeCorrect == Spec => []TypeOK
<1>1. IInv => TypeOK
  BY DEF IInv
<1> QED
  BY <1>1, JobInvariant, PTL

\* A job of any length that returns has waited for every child, and no process
\* holds an end of any of its pipes (exec.c 234-237, 295-315).
THEOREM NothingLeftBehind == Spec => []NoneLeftBehind
<1>1. IInv => NoneLeftBehind
  BY Names DEF IInv, TypeOK, ShellHolds, ChildHolds, NoneLeftBehind, Holders, Running
<1> QED
  BY <1>1, JobInvariant, PTL

\* While the segment before i lives, or has yet to be forked, somebody can write
\* to what i reads, and the same of the segment after it.
LEMMA NeighboursHold ==
    ASSUME IInv, NEW i \in Seg, cpc[i] = "run"
    PROVE  /\ i > 0 => /\ in[i] = R(i - 1)
                       /\ cpc[i - 1] # "exited" => Writers(i - 1) # {}
           /\ i < Last => (cpc[i + 1] # "exited" => Readers(i) # {})
           /\ out[i] = IF i < Last THEN W(i) ELSE Own
<1> USE Names DEF IInv, TypeOK
<1>1. ASSUME NEW j \in Seg, cpc[j] = "none" PROVE ends[Shell] = End
  BY <1>1 DEF ShellHolds
<1>2. ASSUME i > 0, cpc[i - 1] # "exited" PROVE Writers(i - 1) # {}
  <2>1. i - 1 \in Seg /\ i - 1 \in Pipe
    BY <1>2
  <2>2. CASE cpc[i - 1] = "none"
    BY <1>1, <2>1, <2>2 DEF Writers, Holders
  <2>3. CASE cpc[i - 1] = "forked"
    BY <2>1, <2>3 DEF Writers, Holders, ChildHolds
  <2>4. CASE cpc[i - 1] \in {"ready", "run"}
    <3>1. out[i - 1] = W(i - 1)
      BY <2>1, <2>4 DEF ChildHolds, Pipe, Last
    <3> QED
      BY <2>1, <2>4, <3>1 DEF Writers, Holders, Running
  <2> QED
    BY <1>2, <2>1, <2>2, <2>3, <2>4
<1>3. ASSUME i < Last, cpc[i + 1] # "exited" PROVE Readers(i) # {}
  <2>1. i + 1 \in Seg /\ i \in Pipe
    BY <1>3
  <2>2. CASE cpc[i + 1] = "none"
    BY <1>1, <2>1, <2>2 DEF Readers, Holders
  <2>3. CASE cpc[i + 1] = "forked"
    BY <2>1, <2>3 DEF Readers, Holders, ChildHolds
  <2>4. CASE cpc[i + 1] \in {"ready", "run"}
    <3>1. in[i + 1] = R(i)
      BY <2>1, <2>4 DEF ChildHolds, Seg
    <3> QED
      BY <2>1, <2>4, <3>1 DEF Readers, Holders, Running
  <2> QED
    BY <1>3, <2>1, <2>2, <2>3, <2>4
<1> QED
  BY <1>2, <1>3 DEF ChildHolds

\* A program's input ends only when the segment before it has, and its output
\* breaks only when the one after it has, in every interleaving of forks,
\* dup2s and closes, also of jobs that are given up (exec.c 215-237, 295-298).
THEOREM ToldTheTruth == Spec => NeighboursTrue
<1> DEFINE Truth == \A i \in Seg :
                       /\ \A c \in {0, 1} : i > 0 /\ Eof(i, c) => cpc[i - 1] = "exited"
                       /\ Sigpipe(i) => cpc[i + 1] = "exited"
<1>1. IInv => Truth
  <2> SUFFICES ASSUME IInv, NEW i \in Seg
               PROVE  /\ \A c \in {0, 1} : i > 0 /\ Eof(i, c) => cpc[i - 1] = "exited"
                      /\ Sigpipe(i) => cpc[i + 1] = "exited"
    OBVIOUS
  <2> USE Names DEF IInv, TypeOK
  <2>1. ASSUME NEW c \in {0, 1}, i > 0, Eof(i, c) PROVE cpc[i - 1] = "exited"
    <3>1. cpc[i] = "run" /\ AtEnd(in[i]) /\ in[i] = R(i - 1)
      BY <2>1, NeighboursHold DEF Eof
    <3>2. Writers(i - 1) = {}
      BY <2>1, <3>1 DEF AtEnd
    <3> QED
      BY <2>1, <3>1, <3>2, NeighboursHold
  <2>2. ASSUME Sigpipe(i) PROVE cpc[i + 1] = "exited"
    <3>1. cpc[i] = "run" /\ Piped(out[i]) /\ Readers(out[i][1]) = {}
      BY <2>2 DEF Sigpipe
    <3>2. i < Last /\ out[i] = W(i)
      BY <3>1, NeighboursHold
    <3>3. Readers(i) = {}
      BY <3>1, <3>2 DEF Seg
    <3> QED
      BY <3>1, <3>2, <3>3, NeighboursHold
  <2> QED
    BY <2>1, <2>2
<1> QED
  BY <1>1, JobInvariant, PTL DEF NeighboursTrue
=============================================================================

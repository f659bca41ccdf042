------------------------------- MODULE Memgrind -------------------------------
(* The clients of mymalloc: memgrind.c, whose main runs five tasks one after *)
(* the other on one heap, memtest.c, and any other program, which may do     *)
(* whatever MyMalloc's client may. The counts of the code are constants. A   *)
(* program that is refused memory leaves with 1, one whose free is refused   *)
(* with 2. The tasks read back what they wrote: links, ints, marks.          *)
EXTENDS MyMalloc, Sequences

CONSTANTS NUM_RUNS,     \* runs of each task (50)
          ALLOC_COUNT,  \* objects of tasks 1 to 3 (120)
          NODES,        \* nodes of task 4 (60)
          MAX_OPS,      \* resizings tried by task 5 (100)
          FIRST, LEAST, MOST, \* its sizes (10, 5 and 80 ints)
          OBJECTS       \* objects of memtest (64)

ASSUME MemgrindAssumption ==
    {NUM_RUNS, ALLOC_COUNT, NODES, MAX_OPS, FIRST, LEAST, MOST, OBJECTS} \subseteq Nat \ {0}

VARIABLES task,         \* what runs: "task1" ... "task5", "memtest", "other", or
                        \* "end", when main returns
          run,          \* which run of it
          pc,           \* where it is
          i,            \* its loop counter: i, total, cnt, op or errors
          ptrs          \* its pointers, NULL is 0: an array of them; the list's
                        \* head, prev and curr; array and new_array

program == <<task, run, pc, i, ptrs>>

Following == [task1 |-> "task2", task2 |-> "task3", task3 |-> "task4",
              task4 |-> "task5", task5 |-> "end", memtest |-> "end"]
Entry(t) == IF t = "task3" THEN "choose" ELSE "malloc"
Pointers(t) == CASE t = "task3" -> [k \in 1..ALLOC_COUNT |-> 0]
                 [] t = "task4" -> <<0>>
                 [] OTHER -> <<>>

ProgramInit == /\ Init
               /\ task \in {"task1", "memtest", "other"}
               /\ run = IF task = "memtest" THEN NUM_RUNS ELSE 1
               /\ pc = Entry(task) /\ i = 0 /\ ptrs = Pointers(task)

Goto(l) == pc' = l /\ UNCHANGED <<task, run>>

\* A task returns to main's loops.
Return == /\ run' = IF run < NUM_RUNS THEN run + 1 ELSE 1
          /\ task' = IF run < NUM_RUNS THEN task ELSE Following[task]
          /\ pc' = Entry(task') /\ i' = 0 /\ ptrs' = Pointers(task')

------------------------------------------------------------------------------
\* memtest's objects fill the heap. Mutant: no room is left for the headers.
OBJSIZEWhole == (8 * Words) \div OBJECTS
OBJSIZE == (8 * Words) \div OBJECTS - 8

\* sizeof(node_t): data, which nobody reads and is left out here, and next.
NODESIZE == 16

\* The ints of the array at p, and the sizes task 5 may give it next.
Ints(p) == live[p] \div 4
Resized(n) == {n \div 2 : k \in {n} \cap (LEAST + 1 .. n)}
              \cup {2 * n : k \in {n} \cap (0 .. MOST - 1)}

\* Among the sizes that may be asked for are those the programs ask for.
ASSUME SizesAssumption ==
    /\ {1, OBJSIZE, NODESIZE, 4 * FIRST} \subseteq Sizes
    /\ \A s \in Sizes : s % 4 = 0 => {4 * n : n \in Resized(s \div 4)} \subseteq Sizes

\* What the program may ask malloc for next, and what it may give to free.
Requests ==
    CASE pc = "malloc" -> {[task1 |-> 1, task2 |-> 1, task4 |-> NODESIZE,
                            task5 |-> 4 * FIRST, memtest |-> OBJSIZE][task]}
      [] pc = "choose" /\ i < ALLOC_COUNT -> {1}
      [] pc = "op" /\ i < MAX_OPS -> {4 * n : n \in Resized(Ints(ptrs[1]))}
      [] OTHER -> {}
Releases ==
    CASE pc = "free" -> {ptrs[1]}
      [] pc = "choose" -> {ptrs[k] : k \in DOMAIN ptrs} \ {0}
      [] pc = "unlinked" -> {ptrs[3]}
      [] pc = "rest" -> {ptrs[1]} \ {0}
      [] OTHER -> {}

\* malloc returns p.
Got(s) == First(find_free(Merged(Aligned(s)), Aligned(s))) + 1
Asks(p) == \E s \in Requests : Malloc(s) /\ p = Got(s)
Gives(p) == p \in Releases /\ Free(p)

\* The program writes f[w] at each word w of f.
Writes(f) == /\ Running
             /\ mem' = [w \in Word |-> IF w \in DOMAIN f THEN f[w] ELSE mem[w]]
             /\ UNCHANGED <<initialized, exited, report, live>>
Computes == Running /\ UNCHANGED vars

------------------------------------------------------------------------------
Task1Malloc == /\ task = "task1" /\ pc = "malloc"
               /\ \E p \in Word : Asks(p) /\ ptrs' = <<p>>
               /\ Goto("free") /\ UNCHANGED i

Task1Free == /\ task = "task1" /\ pc = "free" /\ Gives(ptrs[1])
             /\ IF i + 1 < ALLOC_COUNT
                THEN Goto("malloc") /\ i' = i + 1 /\ ptrs' = <<>>
                ELSE Return

\* Task 2 and memtest allocate all their objects,
AllocateAll ==
    /\ task \in {"task2", "memtest"} /\ pc = "malloc"
    /\ \E p \in Word : Asks(p) /\ ptrs' = Append(ptrs, p)
    /\ Goto(CASE task = "task2" /\ Len(ptrs) + 1 = ALLOC_COUNT -> "free"
              [] task = "memtest" /\ Len(ptrs) + 1 = OBJECTS -> "fill"
              [] OTHER -> "malloc")
    /\ UNCHANGED i

\* and free them all.
FreeAll == /\ task \in {"task2", "memtest"} /\ pc = "free" /\ Gives(ptrs[1])
           /\ IF Len(ptrs) > 1
              THEN Goto("free") /\ ptrs' = Tail(ptrs) /\ UNCHANGED i
              ELSE Return

\* Each object of memtest is filled with its number, byte by byte: as a header,
\* a size beyond the heap, but for 0, and a flag.
Mark(k) == Header(IF k = 0 THEN 0 ELSE Words + k, k % 2 = 1)
Marked(w) == Mark((CHOOSE k \in DOMAIN ptrs : w \in Payload(ptrs[k], OBJSIZE)) - 1)
Objects == UNION {Payload(ptrs[k], OBJSIZE) : k \in DOMAIN ptrs}
Fill == /\ pc = "fill" /\ Writes([w \in Objects |-> Marked(w)])
        /\ Goto("check") /\ UNCHANGED <<i, ptrs>>

Check == /\ pc = "check" /\ Computes
         /\ i' = Cardinality({w \in Objects : mem[w] # Marked(w)})
         /\ Goto("free") /\ UNCHANGED ptrs

\* Task 3 allocates into the first NULL of its array or frees what it finds from
\* a random place on, until it has allocated ALLOC_COUNT times.
Task3Malloc ==
    /\ pc = "choose" /\ i < ALLOC_COUNT
    /\ \E p \in Word :
          /\ Asks(p)
          /\ ptrs' = [ptrs EXCEPT ![First({k \in DOMAIN ptrs : ptrs[k] = 0})] = p]
    /\ i' = i + 1 /\ Goto("choose")

Task3Free ==
    /\ pc = "choose" /\ i < ALLOC_COUNT
    /\ \E k \in DOMAIN ptrs : Gives(ptrs[k]) /\ ptrs' = [ptrs EXCEPT ![k] = 0]
    /\ Goto("choose") /\ UNCHANGED i

\* Then it frees what is left.
Task3Rest ==
    /\ pc = "choose" /\ i = ALLOC_COUNT
    /\ LET left == {k \in DOMAIN ptrs : ptrs[k] # 0}
       IN \/ /\ left # {} /\ Gives(ptrs[First(left)])
             /\ ptrs' = [ptrs EXCEPT ![First(left)] = 0]
             /\ Goto("choose") /\ UNCHANGED i
          \/ left = {} /\ Computes /\ Return

------------------------------------------------------------------------------
\* Task 4's list is in the heap: the second word of a node is its next, an
\* address beyond any size or NULL.
Link(p) == Header(IF p = 0 THEN 0 ELSE Words + p, FALSE)
NextOf(p) == IF mem[p + 1].size = 0 THEN 0 ELSE mem[p + 1].size - Words

Task4Malloc == /\ task = "task4" /\ pc = "malloc"
               /\ \E p \in Word : Asks(p) /\ ptrs' = <<ptrs[1], p>>
               /\ Goto("link") /\ UNCHANGED i

\* Mutant: the list always points at its first node.
LinkToFirst ==
    /\ pc = "link" /\ Writes([w \in {ptrs[2] + 1} |-> Link(ptrs[1])])
    /\ LET head == IF ptrs[1] = 0 THEN ptrs[2] ELSE ptrs[1]
       IN IF i + 1 < NODES
          THEN Goto("malloc") /\ i' = i + 1 /\ ptrs' = <<head>>
          ELSE Goto("walk") /\ i' = 0 /\ ptrs' = <<head, 0, head>>

LinkIn == /\ pc = "link" /\ Writes([w \in {ptrs[2] + 1} |-> Link(ptrs[1])])
          /\ IF i + 1 < NODES
             THEN Goto("malloc") /\ i' = i + 1 /\ ptrs' = <<ptrs[2]>>
             ELSE Goto("walk") /\ i' = 0 /\ ptrs' = <<ptrs[2], 0, ptrs[2]>>

\* Every other node is taken out; prev is never NULL by then.
Keep == /\ pc = "walk" /\ ptrs[3] # 0 /\ i % 2 = 0 /\ Computes
        /\ ptrs' = <<ptrs[1], ptrs[3], NextOf(ptrs[3])>>
        /\ i' = i + 1 /\ Goto("walk")

\* Mutant: prev goes on pointing at the node that is freed.
UnlinkNot == /\ pc = "walk" /\ ptrs[3] # 0 /\ i % 2 = 1 /\ Computes
             /\ Goto("unlinked") /\ UNCHANGED <<i, ptrs>>

Unlink == /\ pc = "walk" /\ ptrs[3] # 0 /\ i % 2 = 1
          /\ Writes([w \in {ptrs[2] + 1} |-> mem[ptrs[3] + 1]])
          /\ Goto("unlinked") /\ UNCHANGED <<i, ptrs>>

FreeNode == /\ pc = "unlinked" /\ Gives(ptrs[3])
            /\ ptrs' = <<ptrs[1], ptrs[2], NextOf(ptrs[3])>>
            /\ i' = i + 1 /\ Goto("walk")

Walked == /\ pc = "walk" /\ ptrs[3] = 0 /\ Computes
          /\ Goto("rest") /\ UNCHANGED <<i, ptrs>>

FreeRest == /\ pc = "rest" /\ Gives(ptrs[1])
            /\ ptrs' = <<NextOf(ptrs[1])>>
            /\ Goto("rest") /\ UNCHANGED i

Task4Done == pc = "rest" /\ ptrs[1] = 0 /\ Computes /\ Return

------------------------------------------------------------------------------
\* Task 5's array holds 0, 1, 2, ...; two ints in a word are a size beyond the
\* heap.
IntWord(k) == Header(Words + k, FALSE)
Array(p) == Payload(p, live[p])

Task5Malloc == /\ task = "task5" /\ pc = "malloc"
               /\ \E p \in Word : Asks(p) /\ ptrs' = <<p>>
               /\ Goto("init") /\ UNCHANGED i

FillArray == /\ pc = "init" /\ Writes([w \in Array(ptrs[1]) |-> IntWord(w - ptrs[1])])
             /\ Goto("op") /\ UNCHANGED <<i, ptrs>>

Resize == /\ pc = "op" /\ i < MAX_OPS
          /\ \E p \in Word : Asks(p) /\ ptrs' = <<ptrs[1], p>>
          /\ Goto("copy") /\ UNCHANGED i

LeaveSize == /\ pc = "op" /\ i < MAX_OPS /\ Computes
             /\ i' = i + 1 /\ Goto("op") /\ UNCHANGED ptrs

\* The ints both arrays have are copied, more are made up. Mutant: the old ones
\* are left out.
CopyNew ==
    /\ pc = "copy"
    /\ Writes([w \in {v \in Array(ptrs[2]) : v - ptrs[2] + ptrs[1] \notin Array(ptrs[1])}
               |-> IntWord(w - ptrs[2])])
    /\ Goto("free") /\ UNCHANGED <<i, ptrs>>

Copy == /\ pc = "copy"
        /\ Writes([w \in Array(ptrs[2]) |->
                     LET old == w - ptrs[2] + ptrs[1]
                     IN IF old \in Array(ptrs[1]) THEN mem[old] ELSE IntWord(w - ptrs[2])])
        /\ Goto("free") /\ UNCHANGED <<i, ptrs>>

Task5Rest == /\ pc = "op" /\ i = MAX_OPS /\ Computes
             /\ Goto("free") /\ UNCHANGED <<i, ptrs>>

Task5Free == /\ task = "task5" /\ pc = "free" /\ Gives(ptrs[1])
             /\ IF Len(ptrs) > 1
                THEN Goto("op") /\ i' = i + 1 /\ ptrs' = Tail(ptrs)
                ELSE Return

------------------------------------------------------------------------------
\* exit(1) when malloc fails, whose merge no longer matters, exit(2) from free,
\* and the return from main.
Refused == (\E s \in Requests : find_free(Merged(Aligned(s)), Aligned(s)) = {})
           \/ (\E p \in Releases : ~Appropriate(p))
Outcome == IF task = "end" THEN "ok" ELSE IF Refused THEN "error" ELSE "no"
Ends == /\ Running /\ task # "other" /\ Outcome # "no"
        /\ Leave(Outcome) /\ UNCHANGED program

Ended == task # "other" /\ ~Running /\ UNCHANGED <<vars, program>>

OtherProgram == task = "other" /\ Next /\ UNCHANGED program

Memtest == AllocateAll \/ Fill \/ Check \/ FreeAll
Task4 == Task4Malloc \/ LinkIn \/ Keep \/ Unlink \/ FreeNode \/ Walked
         \/ FreeRest \/ Task4Done
Task5 == Task5Malloc \/ FillArray \/ Resize \/ LeaveSize \/ Copy \/ Task5Rest
         \/ Task5Free

ProgramNext == \/ Task1Malloc \/ Task1Free \/ Memtest
               \/ Task3Malloc \/ Task3Free \/ Task3Rest
               \/ Task4 \/ Task5
               \/ Ends \/ Ended \/ OtherProgram

ProgramSpec == ProgramInit /\ [][ProgramNext]_<<vars, program>>
------------------------------------------------------------------------------
\* Neither malloc nor free changes a word of an object that stays
\* (mymalloc.c 74, 102).
PayloadKept ==
    [][\/ Write \/ Fill \/ LinkIn \/ Unlink \/ FillArray \/ Copy
       \/ \A p \in DOMAIN live \cap DOMAIN live' :
             \A w \in Payload(p, live[p]) : mem'[w] = mem[w]]_vars

\* "all 5 tasks complete successfully" (README.txt:78), on the heap the tasks
\* before them left: no request fails, no free is refused, though the objects of
\* tasks 2 and 3, of memtest and task 4's nodes fill the heap and task 5 has two
\* arrays in it; and nothing is leaked. That they end is left to rand.
TasksComplete == task # "other" /\ ~Running => exited = "ok" /\ report = <<0, 0>>

\* The programs find in the heap what they put there: memtest its marks ("0
\* incorrect bytes", README.txt:74), task 4 every node it has not freed, from
\* the head on, task 5 its ints, however often the array has moved.
Reached ==
    LET From[p \in Nat] == IF p \in DOMAIN live THEN {p} \cup From[NextOf(p)]
                           ELSE {p} \ {0}
    IN From[ptrs[1]]
DataIntact ==
    /\ task = "memtest" /\ pc = "free" => i = 0
    /\ task = "task4" /\ Running /\ pc \in {"malloc", "rest"} => Reached = DOMAIN live
    /\ task = "task5" /\ Running /\ pc = "op" =>
         \A w \in Array(ptrs[1]) : mem[w] = IntWord(w - ptrs[1])
=============================================================================

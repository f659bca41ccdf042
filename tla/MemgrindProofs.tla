---------------------------- MODULE MemgrindProofs ----------------------------
(* memgrind.c, memtest.c and any other program, on a heap of any size and for *)
(* any counts: what mymalloc promises holds under all of them, and the tasks  *)
(* find in the heap what they put there.                                      *)
EXTENDS Memgrind, MyMallocProofs

------------------------------------------------------------------------------
\* What a step does to the objects. An object's words are no headers.
LEMMA PayloadInside ==
    ASSUME NEW m, NEW l, Holds(m, l), SmallSizes, NEW p \in DOMAIN l
    PROVE  /\ p \in Nat \ {0} /\ p \in Word /\ p \in Payload(p, l[p])
           /\ \A w \in Payload(p, l[p]) : w \in Word /\ w \notin Chunks(m)
<1> USE MyMallocAssumption
<1> DEFINE S == Chunks(m)
<1>1. /\ p - 1 \in S /\ p - 1 \in Word /\ p \in Nat /\ p \in Word /\ Need(l[p]) \in Nat
      /\ Need(l[p]) >= 1 /\ m[p - 1].size \in Nat /\ Need(l[p]) <= m[p - 1].size
      /\ After(m, p - 1) = p + m[p - 1].size /\ After(m, p - 1) <= Words
  BY ObjectChunk
<1>2. m \in Mem /\ Tiles(m, S) /\ S \subseteq Word
  BY DEF Holds, Tiles
<1> HIDE DEF S
<1>3. p \in Payload(p, l[p]) /\ p # 0
  BY <1>1 DEF Payload, Word
<1>4. ASSUME NEW w \in Payload(p, l[p]) PROVE w \in Word /\ w \notin S
  <2>1. w \in Nat /\ p - 1 < w /\ w < p + Need(l[p])
    BY <1>1 DEF Payload
  <2>2. w \in Word
    BY <1>1, <2>1 DEF Word
  <2> QED
    BY <1>1, <1>2, <2>1, <2>2, TilesApart
<1> QED
  BY <1>1, <1>3, <1>4 DEF S

\* malloc adds an object and leaves what the others hold.
LEMMA MallocKeeps ==
    ASSUME HeapInv, SmallSizes, NEW s \in Sizes, Malloc(s)
    PROVE  /\ Got(s) \notin DOMAIN live /\ s # 0 /\ Got(s) \in Nat \ {0}
           /\ live' = [p \in DOMAIN live \cup {Got(s)} |-> IF p = Got(s) THEN s ELSE live[p]]
           /\ \A p \in DOMAIN live : \A w \in Payload(p, live[p]) : mem'[w] = mem[w]
<1> USE MyMallocAssumption
<1> DEFINE n == Aligned(s)
           m == Heap
           S == Chunks(m)
           a == First(find_free(m, n))
           k == Taken(m, a, n)
           T == WithRest(m, S, a, n)
<1>1. Holds(m, live)
  BY HeapHolds
<1>2. n \in Nat /\ n >= 1 /\ s # 0
  BY AlignedNeed DEF Malloc
<1>3. /\ find_free(m, n) # {} /\ mem' = k /\ Got(s) = a + 1
      /\ live' = [p \in DOMAIN live \cup {a + 1} |-> IF p = a + 1 THEN s ELSE live[p]]
  <2>1. Merged(n) = m
    BY MergedIsHeap
  <2>2. /\ find_free(Merged(n), n) # {}
        /\ mem' = Taken(Merged(n), First(find_free(Merged(n), n)), n)
        /\ live' = [p \in DOMAIN live \cup {First(find_free(Merged(n), n)) + 1} |->
                       IF p = First(find_free(Merged(n), n)) + 1 THEN s ELSE live[p]]
        /\ Got(s) = First(find_free(Merged(n), n)) + 1
    BY DEF Malloc, Taken, Got
  <2> QED
    BY <2>1, <2>2
<1>4. a \in find_free(m, n)
  <2>1. find_free(m, n) \in SUBSET Nat
    BY <1>1 DEF find_free, Holds, Tiles, Word
  <2> QED
    BY <1>3, <2>1, LeastElement DEF First
<1> HIDE DEF n, m, a
<1>5. m \in Mem /\ Tiles(m, S) /\ S \subseteq Word
  BY <1>1 DEF Holds, Tiles
<1>6. a \in S /\ a \in Word /\ a \in Nat /\ IsFree(m, a) /\ m[a].size >= n
  <2>1. a \in S /\ ~m[a].used /\ m[a].size >= n
    BY <1>4 DEF find_free
  <2>2. m[a].size > 0
    BY <1>5, <2>1 DEF Tiles
  <2> QED
    BY <1>5, <2>1, <2>2, AfterLater DEF IsFree
<1>7. \A w \in Word : w # a /\ w \notin T \ S => k[w] = m[w]
  BY <1>2, <1>5, <1>6, TakenSteps
<1>8. a + 1 \notin DOMAIN live
  <2> SUFFICES ASSUME a + 1 \in DOMAIN live PROVE FALSE
    OBVIOUS
  <2>1. m[(a + 1) - 1].used /\ (a + 1) - 1 = a
    BY <1>1, <1>6, ObjectChunk
  <2> QED
    BY <1>6, <2>1 DEF IsFree
<1>9. ASSUME NEW p \in DOMAIN live, NEW w \in Payload(p, live[p]) PROVE k[w] = mem[w]
  <2>1. w \in Word /\ w \notin S
    BY <1>1, PayloadInside DEF S
  <2>2. m = mem
    <3>1. initialized
      BY <1>9 DEF HeapInv
    <3> QED
      BY <3>1 DEF m, Heap
  <2>3. /\ p - 1 \in S /\ p \in Nat /\ Need(live[p]) \in Nat /\ m[p - 1].size \in Nat
        /\ After(m, p - 1) = p + m[p - 1].size /\ Need(live[p]) <= m[p - 1].size
        /\ m[p - 1].used /\ p - 1 \in Word
    BY <1>1, ObjectChunk DEF S
  <2>4. w \in Nat /\ p - 1 < w /\ w < After(m, p - 1)
    BY <2>3 DEF Payload
  <2>5. p - 1 # a
    BY <1>6, <2>3 DEF IsFree
  <2>6. w # a + 1 + n \/ m[a].size < n + 2
    <3> SUFFICES ASSUME w = a + 1 + n, m[a].size >= n + 2 PROVE FALSE
      BY <1>2, <1>5, <1>6, AfterLater
    <3>1. a < w /\ w < After(m, a) /\ After(m, a) \in Nat
      BY <1>2, <1>5, <1>6, AfterLater DEF After
    <3>2. a < p - 1 \/ p - 1 < a
      BY <1>6, <2>3, <2>5
    <3>3. a < p - 1 => After(m, a) <= p - 1
      BY <1>5, <1>6, <2>3, TilesApart
    <3>4. p - 1 < a => After(m, p - 1) <= a
      BY <1>5, <1>6, <2>3, TilesApart
    <3> QED
      BY <1>6, <2>3, <2>4, <3>1, <3>2, <3>3, <3>4
  <2>7. w # a
    BY <1>6, <2>1
  <2>8. w \notin T \ S
    BY <1>2, <1>5, <1>6, <2>6, AfterLater DEF WithRest
  <2> QED
    BY <1>7, <2>1, <2>2, <2>7, <2>8
<1> QED
  BY <1>2, <1>3, <1>6, <1>8, <1>9

\* free takes its object away and leaves what the others hold.
LEMMA FreeKeeps ==
    ASSUME HeapInv, SmallSizes, NEW p \in DOMAIN live, Free(p)
    PROVE  /\ live' = [q \in DOMAIN live \ {p} |-> live[q]]
           /\ \A q \in DOMAIN live : \A w \in Payload(q, live[q]) : mem'[w] = mem[w]
<1> DEFINE S == Chunks(mem)
           a == p - 1
           c == [mem EXCEPT ![a].used = FALSE]
<1>1. Holds(mem, live)
  BY DEF HeapInv
<1>2. mem' = coalesce(c) /\ live' = [q \in DOMAIN live \ {p} |-> live[q]]
  BY DEF Free
<1>3. mem \in Mem /\ Tiles(mem, S) /\ S \subseteq Word
  BY <1>1 DEF Holds, Tiles
<1>4. a \in S /\ a \in Word
  BY <1>1, ObjectChunk
<1>5. c \in Mem /\ c[a].size = mem[a].size /\ \A w \in Word : w # a => c[w] = mem[w]
  BY <1>3, <1>4 DEF Mem
<1> HIDE DEF a, c, S
<1>6. Tiles(c, S)
  BY <1>3, <1>4, <1>5, SameHeaders
<1>7. Heads(c) \subseteq S /\ \A w \in Word : w \notin Heads(c) => coalesce(c)[w] = c[w]
  BY <1>5, <1>6, Coalesced
<1>8. ASSUME NEW q \in DOMAIN live, NEW w \in Payload(q, live[q]) PROVE mem'[w] = mem[w]
  <2>1. w \in Word /\ w \notin S
    BY <1>1, PayloadInside DEF S
  <2> QED
    BY <1>2, <1>4, <1>5, <1>7, <2>1
<1> QED
  BY <1>2, <1>8

\* A word that free does not take for a header of the heap's.
Harmless(d) == d \in [size : Nat, used : BOOLEAN] /\ (d.used => d.size = 0 \/ d.size >= Words)

\* Programs write into their objects words that read as headers of no chunk.
Own(f) == \A w \in DOMAIN f : /\ \E p \in DOMAIN live : w \in Payload(p, live[p])
                              /\ Harmless(f[w])

\* So the heap holds the objects after they have been written to.
LEMMA WritesHold ==
    ASSUME HeapInv, SmallSizes, NEW f, Own(f), Writes(f), initialized
    PROVE  /\ HeapInv' /\ live' = live /\ initialized'
           /\ \A w \in Word : mem'[w] = IF w \in DOMAIN f THEN f[w] ELSE mem[w]
<1> USE MyMallocAssumption
<1> DEFINE S == Chunks(mem)
<1>1. Holds(mem, live)
  BY DEF HeapInv
<1>2. initialized' = initialized /\ live' = live
      /\ mem' = [w \in Word |-> IF w \in DOMAIN f THEN f[w] ELSE mem[w]]
  BY DEF Writes
<1>3. mem \in Mem /\ Tiles(mem, S) /\ FreeApart(mem, S) /\ S \subseteq Word
  BY <1>1 DEF Holds, Tiles
<1>4. \A w \in DOMAIN f : w \in Word /\ w \notin S /\ Harmless(f[w])
  BY <1>1, PayloadInside DEF Own
<1>5. mem' \in Mem
  BY <1>2, <1>3, <1>4 DEF Mem, Harmless
<1> HIDE DEF S
<1>6. \A a \in S : mem'[a] = mem[a]
  BY <1>2, <1>3, <1>4
<1>7. Tiles(mem', S) /\ FreeApart(mem', S)
  BY <1>3, <1>5, <1>6, SameHeaders
<1>8. Chunks(mem') = S
  BY <1>5, <1>7, TilesAreChunks
<1>9. Used(mem', S) = Used(mem, S)
  BY <1>6 DEF Used
<1>10. \A q \in DOMAIN live : q - 1 \in S
  BY <1>1, ObjectChunk DEF S
<1>11. ASSUME HarmlessData PROVE Quiet(mem', S)
  <2>1. Quiet(mem, S)
    BY <1>1, <1>11 DEF Holds, S
  <2>2. ASSUME NEW x \in Word \ S, mem'[x].used, mem'[x].size > 0, After(mem', x) <= Words
        PROVE  FALSE
    <3>1. CASE x \in DOMAIN f
      <4>1. mem'[x] = f[x] /\ Harmless(f[x]) /\ x \in Nat
        BY <1>2, <1>4, <3>1 DEF Word
      <4>2. f[x].size \in Nat /\ f[x].size >= Words
        BY <2>2, <4>1 DEF Harmless
      <4> QED
        BY <2>2, <4>1, <4>2 DEF After
    <3>2. CASE x \notin DOMAIN f
      BY <1>2, <2>1, <2>2, <3>2 DEF Quiet, After
    <3> QED
      BY <3>1, <3>2
  <2> QED
    BY <2>2 DEF Quiet
<1>12. Holds(mem', live)
  <2>1. /\ DOMAIN live = {a + 1 : a \in Used(mem, S)}
        /\ live \in [DOMAIN live -> Sizes \ {0}]
        /\ \A q \in DOMAIN live : mem[q - 1].size - Need(live[q]) \in {0, 1}
    BY <1>1 DEF Holds, S
  <2>2. \A q \in DOMAIN live : mem'[q - 1].size - Need(live[q]) \in {0, 1}
    BY <1>6, <1>10, <2>1
  <2> QED
    BY <1>5, <1>7, <1>8, <1>9, <1>11, <2>1, <2>2 DEF Holds
<1> QED
  BY <1>2, <1>12 DEF HeapInv

------------------------------------------------------------------------------
\* What the tasks have in the heap and in their variables. The objects are
\* named once by the array,
Named == /\ ptrs \in Seq(Nat) /\ DOMAIN live = {ptrs[k] : k \in 1..Len(ptrs)}
         /\ \A j, k \in 1..Len(ptrs) : ptrs[j] = ptrs[k] => j = k

\* From h the nodes S, linked by f, are a list that ends with NULL: each node
\* but the first has one before it, none has two, and there are ranks that fall
\* along the links.
Chain(f, S, h) ==
    /\ S \subseteq Nat \ {0} /\ f \in [S -> S \cup {0}]
    /\ IF S = {} THEN h = 0 ELSE h \in S
    /\ \A p \in S : f[p] # h
    /\ \A p, q \in S : f[p] = f[q] /\ f[p] # 0 => p = q
    /\ \A p \in S \ {h} : \E q \in S : f[q] = p
    /\ \E n \in Nat : \E r \in [S -> 0..n] : \A p \in S : f[p] # 0 => r[f[p]] < r[p]

\* The nodes S are such a list in the heap.
List(S, h) == Chain([p \in S |-> NextOf(p)], S, h)

\* The array at p holds its ints.
Counts(p) == /\ live[p] % 4 = 0
             /\ \A w \in Array(p) : mem[w] = IntWord(w - p)

Task1Inv == task = "task1" =>
    \/ pc = "malloc" /\ DOMAIN live = {}
    \/ pc = "free" /\ ptrs = <<ptrs[1]>> /\ DOMAIN live = {ptrs[1]}

ArrayInv == task \in {"task2", "memtest"} =>
    /\ pc \in {"malloc", "free"} \/ (task = "memtest" /\ pc \in {"fill", "check"})
    /\ Named /\ (pc # "malloc" => Len(ptrs) > 0)
    /\ task = "memtest" => \A p \in DOMAIN live : live[p] = OBJSIZE
    /\ pc = "check" => \A w \in Objects : mem[w] = Marked(w)
    /\ task = "memtest" /\ pc = "free" => i = 0

Task3Inv == task = "task3" =>
    /\ pc = "choose" /\ i \in 0..ALLOC_COUNT
    /\ ptrs \in [1..ALLOC_COUNT -> Nat]
    /\ DOMAIN live = {ptrs[k] : k \in 1..ALLOC_COUNT} \ {0}
    /\ \A j, k \in 1..ALLOC_COUNT : ptrs[j] = ptrs[k] /\ ptrs[j] # 0 => j = k
    /\ Cardinality({k \in 1..ALLOC_COUNT : ptrs[k] # 0}) <= i

Task4Inv == task = "task4" =>
    /\ i \in Nat /\ \A p \in DOMAIN live : live[p] = NODESIZE
    /\ \/ /\ pc \in {"malloc", "rest"}
          /\ List(DOMAIN live, ptrs[1])
       \/ /\ pc = "link" /\ ptrs[2] \in DOMAIN live
          /\ List(DOMAIN live \ {ptrs[2]}, ptrs[1])
       \/ /\ pc = "walk"
          /\ List(DOMAIN live, ptrs[1])
          /\ ptrs[3] \in DOMAIN live \cup {0}
          /\ IF i % 2 = 1 THEN ptrs[2] \in DOMAIN live /\ NextOf(ptrs[2]) = ptrs[3]
             ELSE TRUE
       \/ /\ pc = "unlinked" /\ i % 2 = 1
          /\ ptrs[3] \in DOMAIN live
          /\ List(DOMAIN live \ {ptrs[3]}, ptrs[1])
          /\ NextOf(ptrs[3]) \in (DOMAIN live \ {ptrs[3]}) \cup {0}

Task5Inv == task = "task5" =>
    \/ pc = "malloc" /\ DOMAIN live = {}
    \/ pc = "init" /\ ptrs = <<ptrs[1]>> /\ DOMAIN live = {ptrs[1]} /\ live[ptrs[1]] % 4 = 0
    \/ pc \in {"op", "free"} /\ ptrs = <<ptrs[1]>> /\ DOMAIN live = {ptrs[1]} /\ Counts(ptrs[1])
    \/ /\ pc = "copy" /\ ptrs = <<ptrs[1], ptrs[2]>> /\ ptrs[1] # ptrs[2]
       /\ DOMAIN live = {ptrs[1], ptrs[2]}
       /\ Counts(ptrs[1]) /\ live[ptrs[2]] % 4 = 0
    \/ /\ pc = "free" /\ ptrs = <<ptrs[1], ptrs[2]>> /\ ptrs[1] # ptrs[2]
       /\ DOMAIN live = {ptrs[1], ptrs[2]} /\ Counts(ptrs[2])

EndInv == task = "end" => DOMAIN live = {}

Tasks == {"task1", "task2", "task3", "task4", "task5", "memtest"}
RunInv == /\ task \in Tasks \cup {"other", "end"}
          /\ task \in {"other", "end"} => pc = "malloc"
          /\ task \notin {"task1", "memtest", "other"} => initialized
          /\ task \notin {"other", "end"} => exited # "ok"

DataInv == Task1Inv /\ ArrayInv /\ Task3Inv /\ Task4Inv /\ Task5Inv /\ EndInv

------------------------------------------------------------------------------
\* A malloc of a program, of n bytes,
LEMMA AsksGrows ==
    ASSUME HeapInv, SmallSizes, NEW n \in Sizes, NEW p, Asks(p), Requests = {n}
    PROVE  /\ HeapInv' /\ initialized' /\ exited' = exited
           /\ p \notin DOMAIN live /\ p \in Nat \ {0}
           /\ DOMAIN live' = DOMAIN live \cup {p} /\ live'[p] = n
           /\ \A q \in DOMAIN live : live'[q] = live[q]
           /\ \A q \in DOMAIN live : \A w \in Payload(q, live[q]) : mem'[w] = mem[w]
<1>1. Malloc(n) /\ p = Got(n)
  BY DEF Asks
<1>2. HeapInv' /\ initialized' /\ exited' = exited
  BY <1>1, MallocHolds DEF HeapInv, Malloc
<1> QED
  BY <1>1, <1>2, MallocKeeps

\* and a free of what is its own.
LEMMA GivesShrinks ==
    ASSUME HeapInv, Careful, NEW p \in DOMAIN live, Gives(p)
    PROVE  /\ HeapInv' /\ initialized' /\ exited' = exited
           /\ DOMAIN live' = DOMAIN live \ {p}
           /\ \A q \in DOMAIN live' : live'[q] = live[q]
           /\ \A q \in DOMAIN live : \A w \in Payload(q, live[q]) : mem'[w] = mem[w]
<1>1. Free(p) /\ SmallSizes /\ initialized
  BY DEF Gives, Careful, HeapInv
<1>2. p \in -1..Words
  <2>1. p \in Word
    BY <1>1, PayloadInside DEF HeapInv
  <2> QED
    BY <2>1, MyMallocAssumption DEF Word
<1>3. HeapInv' /\ initialized' /\ exited' = exited
  BY <1>1, <1>2, FreeHolds DEF HeapInv, Free
<1> QED
  BY <1>1, <1>3, FreeKeeps

\* Between two tasks the heap is empty.
LEMMA Fresh ==
    ASSUME DOMAIN live' = {}, Return, task \in Tasks
    PROVE  /\ DataInv' /\ task' \in Tasks \cup {"end"}
           /\ task' = "end" => pc' = "malloc"
           /\ task' \in {"task1", "memtest"} => task' = task
<1>1. /\ task' \in Tasks \cup {"end"} /\ pc' = Entry(task') /\ i' = 0 /\ ptrs' = Pointers(task')
      /\ task' \in {"task1", "memtest"} => task' = task
  BY DEF Return, Tasks, Following
<1> DEFINE there == task' = "end" => pc' = "malloc"
<1>0. there
  BY <1>1 DEF Entry
<1>2. Task1Inv' /\ Task5Inv' /\ EndInv'
  BY <1>1 DEF Task1Inv, Task5Inv, EndInv, Entry
<1>3. ArrayInv'
  <2> SUFFICES ASSUME task' \in {"task2", "memtest"} PROVE ArrayInv'
    BY DEF ArrayInv
  <2>1. pc' = "malloc" /\ ptrs' = <<>>
    BY <1>1 DEF Entry, Pointers
  <2>2. <<>> \in Seq(Nat) /\ Len(<<>>) = 0 /\ 1..0 = {}
    OBVIOUS
  <2>3. Named'
    BY <2>1, <2>2 DEF Named
  <2> QED
    BY <2>1, <2>3 DEF ArrayInv
<1>4. Task3Inv'
  <2> SUFFICES ASSUME task' = "task3" PROVE Task3Inv'
    BY DEF Task3Inv
  <2>1. pc' = "choose" /\ ptrs' = [k \in 1..ALLOC_COUNT |-> 0]
    BY <1>1 DEF Entry, Pointers
  <2>2. {k \in 1..ALLOC_COUNT : ptrs'[k] # 0} = {}
    BY <2>1
  <2>3. Cardinality({k \in 1..ALLOC_COUNT : ptrs'[k] # 0}) = 0
    BY <2>2, FS_EmptySet
  <2> QED
    BY <1>1, <2>1, <2>3, MemgrindAssumption DEF Task3Inv
<1>5. Task4Inv'
  <2> SUFFICES ASSUME task' = "task4" PROVE Task4Inv'
    BY DEF Task4Inv
  <2>1. pc' = "malloc" /\ ptrs'[1] = 0
    BY <1>1 DEF Entry, Pointers
  <2>2. List(DOMAIN live, ptrs[1])'
    <3>1. DOMAIN live' = {} /\ 0 \in Nat /\ [p \in {} |-> 0] \in [{} -> 0..0]
      OBVIOUS
    <3>2. Chain([p \in {} |-> NextOf(p)'], {}, 0)
      BY <3>1 DEF Chain
    <3>3. List(DOMAIN live, ptrs[1])' <=> Chain([p \in DOMAIN live' |-> NextOf(p)'], DOMAIN live', ptrs'[1])
      BY DEF List
    <3> QED
      BY <2>1, <3>1, <3>2, <3>3
  <2> QED
    BY <1>1, <2>1, <2>2 DEF Task4Inv
<1> QED
  BY <1>0, <1>1, <1>2, <1>3, <1>4, <1>5 DEF DataInv

\* What is kept by every step of a task.
Goes == /\ HeapInv' /\ DataInv' /\ initialized' /\ exited' = exited
        /\ task' \in Tasks \cup {"end"} /\ (task' = "end" => pc' = "malloc")

\* A step that stays in its task need only look at that one.
LEMMA Stays ==
    ASSUME HeapInv', initialized', exited' = exited, task \in Tasks, task' = task,
           /\ task = "task1" => Task1Inv'
           /\ task \in {"task2", "memtest"} => ArrayInv'
           /\ task = "task3" => Task3Inv'
           /\ task = "task4" => Task4Inv'
           /\ task = "task5" => Task5Inv'
    PROVE  Goes
<1>1. Task1Inv' /\ ArrayInv' /\ Task3Inv'
  BY DEF Task1Inv, ArrayInv, Task3Inv
<1>2. Task4Inv' /\ Task5Inv' /\ EndInv'
  BY DEF Task4Inv, Task5Inv, EndInv, Tasks
<1> QED
  BY <1>1, <1>2 DEF Goes, DataInv, Tasks

\* And one that ends it need only empty the heap.
LEMMA Leaves ==
    ASSUME HeapInv', initialized', exited' = exited, task \in Tasks, DOMAIN live' = {}, Return
    PROVE  Goes
  BY Fresh DEF Goes

\* Task 1 has one object or none.
LEMMA Task1Step ==
    ASSUME HeapInv, Careful, DataInv, Task1Malloc \/ Task1Free
    PROVE  Goes
<1> USE DEF Careful
<1>1. task = "task1" /\ Task1Inv /\ task \in Tasks
  BY DEF Task1Malloc, Task1Free, DataInv, Tasks
<1>2. CASE Task1Malloc
  <2>1. pc = "malloc" /\ pc' = "free" /\ task' = task /\ DOMAIN live = {}
    BY <1>1, <1>2 DEF Task1Malloc, Goto, Task1Inv
  <2>2. PICK p \in Word : Asks(p) /\ ptrs' = <<p>>
    BY <1>2 DEF Task1Malloc
  <2>3. Requests = {1} /\ 1 \in Sizes
    BY <1>1, <2>1, SizesAssumption DEF Requests
  <2>4. /\ HeapInv' /\ initialized' /\ exited' = exited
        /\ DOMAIN live' = DOMAIN live \cup {p}
    BY <2>2, <2>3, AsksGrows
  <2>5. Task1Inv'
    <3>1. DOMAIN live' = {p}
      BY <2>1, <2>4
    <3> QED
      BY <1>1, <2>1, <2>2, <3>1 DEF Task1Inv
  <2> QED
    BY <1>1, <2>1, <2>4, <2>5, Stays
<1>3. CASE Task1Free
  <2>1. pc = "free" /\ Gives(ptrs[1]) /\ DOMAIN live = {ptrs[1]}
    BY <1>1, <1>3 DEF Task1Free, Task1Inv
  <2>2. HeapInv' /\ initialized' /\ exited' = exited /\ DOMAIN live' = {}
    BY <2>1, GivesShrinks
  <2>3. CASE Goto("malloc")
    <3>1. Task1Inv'
      BY <2>2, <2>3 DEF Task1Inv, Goto
    <3> QED
      BY <1>1, <2>2, <2>3, <3>1, Stays DEF Goto
  <2>4. CASE Return
    BY <1>1, <2>2, <2>4, Leaves
  <2> QED
    BY <1>3, <2>3, <2>4 DEF Task1Free
<1> QED
  BY <1>2, <1>3

------------------------------------------------------------------------------
\* An array that is to be appended to, and one whose first is taken off.
LEMMA AppendNames ==
    ASSUME Named, NEW p \in Nat, p \notin DOMAIN live, DOMAIN live' = DOMAIN live \cup {p},
           ptrs' = Append(ptrs, p)
    PROVE  Named' /\ Len(ptrs') = Len(ptrs) + 1
<1>1. /\ ptrs' \in Seq(Nat) /\ Len(ptrs') = Len(ptrs) + 1 /\ Len(ptrs) \in Nat
      /\ ptrs'[Len(ptrs) + 1] = p /\ \A k \in 1..Len(ptrs) : ptrs'[k] = ptrs[k]
  BY DEF Named
<1>2. 1..Len(ptrs') = (1..Len(ptrs)) \cup {Len(ptrs) + 1}
  BY <1>1
<1>3. \A k \in 1..Len(ptrs) : ptrs[k] \in DOMAIN live
  BY DEF Named
<1>4. DOMAIN live' = {ptrs'[k] : k \in 1..Len(ptrs')}
  BY <1>1, <1>2 DEF Named
<1>5. \A j, k \in 1..Len(ptrs') : ptrs'[j] = ptrs'[k] => j = k
  BY <1>1, <1>2, <1>3 DEF Named
<1> QED
  BY <1>1, <1>4, <1>5 DEF Named

\* free takes the first object of the array.
LEMMA TailNames ==
    ASSUME Named, Len(ptrs) > 0, DOMAIN live' = DOMAIN live \ {ptrs[1]}, ptrs' = Tail(ptrs)
    PROVE  Named' /\ Len(ptrs') = Len(ptrs) - 1
<1>1. /\ ptrs' \in Seq(Nat) /\ Len(ptrs') = Len(ptrs) - 1 /\ Len(ptrs) \in Nat
      /\ \A k \in 1..Len(ptrs') : ptrs'[k] = ptrs[k + 1]
  BY DEF Named
<1>2. /\ \A k \in 1..Len(ptrs') : k + 1 \in 1..Len(ptrs) /\ k + 1 # 1
      /\ \A k \in 1..Len(ptrs) : k # 1 => k - 1 \in 1..Len(ptrs') /\ (k - 1) + 1 = k
      /\ 1 \in 1..Len(ptrs)
  BY <1>1
<1>3. DOMAIN live' = {ptrs'[k] : k \in 1..Len(ptrs')}
  <2>1. ASSUME NEW k \in 1..Len(ptrs') PROVE ptrs'[k] \in DOMAIN live'
    <3>1. ptrs[k + 1] \in DOMAIN live /\ ptrs[k + 1] # ptrs[1]
      BY <1>2 DEF Named
    <3> QED
      BY <1>1, <3>1
  <2>2. ASSUME NEW p \in DOMAIN live' PROVE \E k \in 1..Len(ptrs') : p = ptrs'[k]
    <3>1. PICK j \in 1..Len(ptrs) : p = ptrs[j]
      BY DEF Named
    <3>2. j # 1
      BY <3>1
    <3> QED
      BY <1>1, <1>2, <3>1, <3>2
  <2> QED
    BY <2>1, <2>2
<1>4. \A j, k \in 1..Len(ptrs') : ptrs'[j] = ptrs'[k] => j = k
  <2> SUFFICES ASSUME NEW j \in 1..Len(ptrs'), NEW k \in 1..Len(ptrs'), ptrs'[j] = ptrs'[k]
               PROVE  j = k
    OBVIOUS
  <2>1. j + 1 = k + 1
    BY <1>1, <1>2 DEF Named
  <2> QED
    BY <2>1
<1> QED
  BY <1>1, <1>3, <1>4 DEF Named

\* Each place belongs to one task.
LEMMA Places ==
    ASSUME DataInv, RunInv
    PROVE  /\ pc \in {"fill", "check"} => task = "memtest"
           /\ pc = "choose" => task = "task3"
           /\ pc \in {"link", "walk", "unlinked", "rest"} => task = "task4"
           /\ pc \in {"init", "op", "copy"} => task = "task5"
  BY DEF DataInv, RunInv, Tasks, Task1Inv, ArrayInv, Task3Inv, Task4Inv, Task5Inv

\* Task 2 and memtest name all their objects in the array.
LEMMA AllocateAllStep ==
    ASSUME HeapInv, Careful, DataInv, AllocateAll
    PROVE  Goes
<1>1. task \in {"task2", "memtest"} /\ pc = "malloc" /\ task \in Tasks /\ task' = task /\ ArrayInv
  BY DEF AllocateAll, DataInv, Tasks, Goto
<1>2. PICK p \in Word : Asks(p) /\ ptrs' = Append(ptrs, p)
  BY DEF AllocateAll
<1> DEFINE n == IF task = "task2" THEN 1 ELSE OBJSIZE
<1>3. Requests = {n} /\ n \in Sizes
  BY <1>1, SizesAssumption DEF Requests
<1>4. /\ HeapInv' /\ initialized' /\ exited' = exited /\ p \notin DOMAIN live /\ p \in Nat
      /\ DOMAIN live' = DOMAIN live \cup {p} /\ live'[p] = n
      /\ \A q \in DOMAIN live : live'[q] = live[q]
  <2> HIDE DEF n
  <2> QED
    BY <1>2, <1>3, AsksGrows DEF Careful
<1>5. Named /\ Len(ptrs) \in Nat
  BY <1>1 DEF ArrayInv, Named
<1>6. Named' /\ Len(ptrs') = Len(ptrs) + 1
  BY <1>2, <1>4, <1>5, AppendNames
<1>7. /\ pc' \in {"malloc", "free"} \/ (task = "memtest" /\ pc' = "fill")
      /\ task = "memtest" => pc' \in {"malloc", "fill"}
  BY <1>1 DEF AllocateAll, Goto
<1>8. task = "memtest" => \A q \in DOMAIN live' : live'[q] = OBJSIZE
  BY <1>1, <1>4 DEF ArrayInv
<1>9. ArrayInv'
  BY <1>1, <1>5, <1>6, <1>7, <1>8 DEF ArrayInv
<1> QED
  BY <1>1, <1>4, <1>9, Stays

\* A size of 0 or beyond the heap is no chunk's.
LEMMA HeaderHarmless ==
    ASSUME NEW x \in Nat, x = 0 \/ x >= Words, NEW b \in BOOLEAN
    PROVE  Harmless(Header(x, b))
  BY DEF Harmless, Header

\* memtest's objects are objects, and their marks are no headers.
LEMMA MarksOwn ==
    ASSUME ArrayInv, task = "memtest"
    PROVE  Own([w \in Objects |-> Marked(w)])
<1> USE MyMallocAssumption
<1> SUFFICES ASSUME NEW w \in Objects
             PROVE  /\ \E p \in DOMAIN live : w \in Payload(p, live[p])
                    /\ Harmless(Marked(w))
  BY DEF Own
<1>1. /\ Named /\ DOMAIN ptrs = 1..Len(ptrs) /\ Len(ptrs) \in Nat
      /\ \A p \in DOMAIN live : live[p] = OBJSIZE
  BY DEF ArrayInv, Named
<1>2. PICK k \in DOMAIN ptrs : w \in Payload(ptrs[k], OBJSIZE)
  BY DEF Objects
<1>3. ptrs[k] \in DOMAIN live
  BY <1>1 DEF Named
<1> DEFINE c == CHOOSE j \in DOMAIN ptrs : w \in Payload(ptrs[j], OBJSIZE)
<1>4. c \in DOMAIN ptrs
  BY <1>2
<1>5. Marked(w) = Mark(c - 1)
  BY DEF Marked
<1> HIDE DEF c
<1>6. c - 1 \in Nat
  BY <1>1, <1>4
<1>7. Harmless(Mark(c - 1))
  <2> DEFINE x == IF c - 1 = 0 THEN 0 ELSE Words + (c - 1)
             b == (c - 1) % 2 = 1
  <2>1. Mark(c - 1) = Header(x, b)
    BY DEF Mark
  <2>2. x \in Nat /\ (x = 0 \/ x >= Words) /\ b \in BOOLEAN
    BY <1>6
  <2> HIDE DEF x, b
  <2> QED
    BY <2>1, <2>2, HeaderHarmless
<1> QED
  BY <1>1, <1>2, <1>3, <1>5, <1>7

\* memtest's marks do not disturb the heap, and each object has its own,
LEMMA FillStep ==
    ASSUME HeapInv, Careful, DataInv, RunInv, Fill
    PROVE  Goes
<1>1. /\ task = "memtest" /\ pc = "fill" /\ task \in Tasks /\ task' = task /\ ArrayInv
      /\ pc' = "check" /\ ptrs' = ptrs
  BY Places DEF Fill, DataInv, Tasks, Goto
<1>2. Named /\ Len(ptrs) > 0 /\ Len(ptrs) \in Nat
      /\ \A p \in DOMAIN live : live[p] = OBJSIZE
  BY <1>1 DEF ArrayInv, Named
<1>3. initialized
  <2>1. ptrs[1] \in DOMAIN live
    BY <1>2 DEF Named
  <2> QED
    BY <2>1 DEF HeapInv
<1> DEFINE f == [w \in Objects |-> Marked(w)]
<1>4. Own(f) /\ Writes(f)
  BY <1>1, MarksOwn DEF Fill
<1>5. DOMAIN f = Objects /\ \A w \in Objects : f[w] = Marked(w)
  OBVIOUS
<1> HIDE DEF f
<1>6. /\ HeapInv' /\ live' = live /\ initialized'
      /\ \A w \in Word : mem'[w] = IF w \in DOMAIN f THEN f[w] ELSE mem[w]
  BY <1>3, <1>4, WritesHold DEF Careful
<1>7. Objects \subseteq Word
  BY <1>3, <1>4, <1>5, PayloadInside DEF Own, HeapInv, Careful
<1>8. Objects' = Objects /\ \A w : Marked(w)' = Marked(w)
  BY <1>1 DEF Objects, Marked
<1>9. \A w \in Objects' : mem'[w] = Marked(w)'
  BY <1>5, <1>6, <1>7, <1>8
<1>10. ArrayInv'
  BY <1>1, <1>2, <1>6, <1>9 DEF ArrayInv, Named
<1>11. exited' = exited
  BY <1>4 DEF Writes
<1> QED
  BY <1>1, <1>6, <1>10, <1>11, Stays

\* so the marks are all found.
LEMMA CheckStep ==
    ASSUME HeapInv, Careful, DataInv, RunInv, Check
    PROVE  Goes
<1>1. /\ task = "memtest" /\ pc = "check" /\ task \in Tasks /\ task' = task /\ ArrayInv
      /\ pc' = "free" /\ ptrs' = ptrs /\ UNCHANGED vars
      /\ i' = Cardinality({w \in Objects : mem[w] # Marked(w)})
  BY Places DEF Check, Computes, DataInv, Tasks, Goto
<1>2. {w \in Objects : mem[w] # Marked(w)} = {}
  BY <1>1 DEF ArrayInv
<1>3. i' = 0
  BY <1>1, <1>2, FS_EmptySet
<1>4. HeapInv' /\ exited' = exited /\ live' = live
  BY <1>1 DEF vars, heap, HeapInv, Holds
<1>5. ArrayInv'
  BY <1>1, <1>3, <1>4 DEF ArrayInv, Named
<1>6. initialized'
  <2>1. Named /\ Len(ptrs) > 0 /\ Len(ptrs) \in Nat
    BY <1>1 DEF ArrayInv, Named
  <2>2. ptrs[1] \in DOMAIN live
    BY <2>1 DEF Named
  <2> QED
    BY <1>1, <2>2 DEF HeapInv, vars, heap
<1> QED
  BY <1>1, <1>4, <1>5, <1>6, Stays

\* Then the objects are freed, in the order of the array.
LEMMA FreeAllStep ==
    ASSUME HeapInv, Careful, DataInv, FreeAll
    PROVE  Goes
<1>1. task \in {"task2", "memtest"} /\ pc = "free" /\ task \in Tasks /\ ArrayInv /\ Gives(ptrs[1])
  BY DEF FreeAll, DataInv, Tasks
<1>2. Named /\ Len(ptrs) > 0 /\ Len(ptrs) \in Nat
  BY <1>1 DEF ArrayInv, Named
<1>3. ptrs[1] \in DOMAIN live
  BY <1>2 DEF Named
<1>4. /\ HeapInv' /\ initialized' /\ exited' = exited /\ DOMAIN live' = DOMAIN live \ {ptrs[1]}
      /\ \A q \in DOMAIN live' : live'[q] = live[q]
  BY <1>1, <1>3, GivesShrinks
<1>5. CASE Len(ptrs) > 1
  <2>1. task' = task /\ pc' = "free" /\ ptrs' = Tail(ptrs) /\ i' = i
    BY <1>5 DEF FreeAll, Goto
  <2>2. Named' /\ Len(ptrs') = Len(ptrs) - 1
    BY <1>2, <1>4, <2>1, TailNames
  <2>3. ArrayInv'
    BY <1>1, <1>2, <1>4, <1>5, <2>1, <2>2 DEF ArrayInv
  <2> QED
    BY <1>1, <1>4, <2>1, <2>3, Stays
<1>6. CASE ~(Len(ptrs) > 1)
  <2>1. Return /\ Len(ptrs) = 1
    BY <1>2, <1>6 DEF FreeAll
  <2>2. DOMAIN live = {ptrs[1]}
    BY <1>2, <2>1 DEF Named
  <2> QED
    BY <1>1, <1>4, <2>1, <2>2, Leaves
<1> QED
  BY <1>5, <1>6

------------------------------------------------------------------------------
\* Task 3 has a NULL to allocate into while it has not allocated them all: it
\* holds no more objects than it has allocated.
LEMMA SlotFree ==
    ASSUME Task3Inv, task = "task3", i < ALLOC_COUNT
    PROVE  \E k \in 1..ALLOC_COUNT : ptrs[k] = 0
<1> DEFINE K == {k \in 1..ALLOC_COUNT : ptrs[k] # 0}
<1>1. SUFFICES ASSUME K = 1..ALLOC_COUNT PROVE FALSE
  OBVIOUS
<1>2. ALLOC_COUNT \in Nat /\ ALLOC_COUNT > 0
  BY MemgrindAssumption
<1>3. Cardinality(1..ALLOC_COUNT) = ALLOC_COUNT
  <2>1. Cardinality(1..ALLOC_COUNT) = IF 1 > ALLOC_COUNT THEN 0 ELSE ALLOC_COUNT - 1 + 1
    BY <1>2, FS_Interval
  <2> QED
    BY <1>2, <2>1
<1>4. Cardinality(K) <= i /\ i \in Nat
  BY <1>2 DEF Task3Inv
<1> HIDE DEF K
<1> QED
  BY <1>1, <1>2, <1>3, <1>4

\* Task 3 allocates into a slot that is NULL,
LEMMA Task3MallocStep ==
    ASSUME HeapInv, Careful, DataInv, RunInv, Task3Malloc
    PROVE  Goes
<1> DEFINE K == {k \in 1..ALLOC_COUNT : ptrs[k] # 0}
           Z == {k \in DOMAIN ptrs : ptrs[k] = 0}
<1>1. /\ task = "task3" /\ pc = "choose" /\ i < ALLOC_COUNT /\ task \in Tasks /\ task' = task
      /\ pc' = "choose" /\ i' = i + 1 /\ Task3Inv
  BY Places DEF Task3Malloc, DataInv, Tasks, Goto
<1>2. PICK p \in Word : Asks(p) /\ ptrs' = [ptrs EXCEPT ![First(Z)] = p]
  BY DEF Task3Malloc
<1>3. ALLOC_COUNT \in Nat /\ 1..ALLOC_COUNT \in SUBSET Nat
  BY MemgrindAssumption
<1>4. /\ ptrs \in [1..ALLOC_COUNT -> Nat] /\ i \in 0..ALLOC_COUNT /\ Cardinality(K) <= i
      /\ DOMAIN live = {ptrs[k] : k \in 1..ALLOC_COUNT} \ {0}
      /\ \A j, k \in 1..ALLOC_COUNT : ptrs[j] = ptrs[k] /\ ptrs[j] # 0 => j = k
  BY <1>1 DEF Task3Inv
<1>5. Requests = {1} /\ 1 \in Sizes
  BY <1>1, SizesAssumption DEF Requests
<1>6. /\ HeapInv' /\ initialized' /\ exited' = exited /\ p \notin DOMAIN live /\ p \in Nat \ {0}
      /\ DOMAIN live' = DOMAIN live \cup {p}
  BY <1>2, <1>5, AsksGrows DEF Careful
<1> DEFINE z == First(Z)
<1>7. z \in Z
  <2>1. Z # {} /\ Z \in SUBSET Nat
    BY <1>1, <1>3, <1>4, SlotFree
  <2> HIDE DEF Z
  <2> QED
    BY <2>1, LeastElement DEF First
<1>8. z \in 1..ALLOC_COUNT /\ ptrs[z] = 0
  BY <1>4, <1>7
<1> HIDE DEF z
<1>9. ptrs' = [ptrs EXCEPT ![z] = p]
  BY <1>2 DEF z
<1>10. /\ ptrs' \in [1..ALLOC_COUNT -> Nat] /\ ptrs'[z] = p
       /\ \A k \in 1..ALLOC_COUNT : k # z => ptrs'[k] = ptrs[k]
  BY <1>4, <1>6, <1>8, <1>9
<1>11. {k \in 1..ALLOC_COUNT : ptrs'[k] # 0} = K \cup {z} /\ z \notin K
  BY <1>6, <1>8, <1>10
<1>12. Cardinality(K \cup {z}) <= i + 1
  <2>1. IsFiniteSet(K)
    <3>1. IsFiniteSet(1..ALLOC_COUNT)
      BY <1>3, FS_Interval
    <3> QED
      BY <3>1, FS_Subset
  <2> HIDE DEF K
  <2>2. Cardinality(K \cup {z}) = Cardinality(K) + 1 /\ Cardinality(K) \in Nat
    BY <1>11, <2>1, FS_AddElement, FS_CardinalityType
  <2> QED
    BY <1>4, <2>2
<1>13. DOMAIN live' = {ptrs'[k] : k \in 1..ALLOC_COUNT} \ {0}
  BY <1>4, <1>6, <1>8, <1>10
<1>14. \A j, k \in 1..ALLOC_COUNT : ptrs'[j] = ptrs'[k] /\ ptrs'[j] # 0 => j = k
  BY <1>4, <1>6, <1>8, <1>10
<1>15. i' \in 0..ALLOC_COUNT
  BY <1>1, <1>3, <1>4
<1>16. Task3Inv'
  BY <1>1, <1>10, <1>11, <1>12, <1>13, <1>14, <1>15 DEF Task3Inv
<1> QED
  BY <1>1, <1>6, <1>16, Stays

\* A slot is emptied.
LEMMA SlotEmptied ==
    ASSUME HeapInv, Careful, DataInv, task = "task3", NEW z \in DOMAIN ptrs, ptrs[z] # 0,
           Gives(ptrs[z]), ptrs' = [ptrs EXCEPT ![z] = 0], Goto("choose"), UNCHANGED i
    PROVE  Goes
<1> DEFINE K == {k \in 1..ALLOC_COUNT : ptrs[k] # 0}
<1>1. Task3Inv /\ task' = task /\ pc' = "choose" /\ i' = i /\ task \in Tasks
  BY DEF DataInv, Goto, Tasks
<1>2. /\ ptrs \in [1..ALLOC_COUNT -> Nat] /\ i \in 0..ALLOC_COUNT /\ Cardinality(K) <= i
      /\ DOMAIN live = {ptrs[k] : k \in 1..ALLOC_COUNT} \ {0}
      /\ \A j, k \in 1..ALLOC_COUNT : ptrs[j] = ptrs[k] /\ ptrs[j] # 0 => j = k
  BY <1>1 DEF Task3Inv
<1>3. ptrs[z] \in DOMAIN live /\ z \in 1..ALLOC_COUNT
  BY <1>2
<1>4. /\ HeapInv' /\ initialized' /\ exited' = exited
      /\ DOMAIN live' = DOMAIN live \ {ptrs[z]}
  BY <1>3, GivesShrinks
<1>5. /\ ptrs' \in [1..ALLOC_COUNT -> Nat] /\ ptrs'[z] = 0
      /\ \A k \in 1..ALLOC_COUNT : k # z => ptrs'[k] = ptrs[k]
  BY <1>2, <1>3
<1>6. {k \in 1..ALLOC_COUNT : ptrs'[k] # 0} = K \ {z}
  BY <1>3, <1>5
<1>7. Cardinality(K \ {z}) <= i
  <2>1. IsFiniteSet(K)
    <3>1. 1 \in Int /\ ALLOC_COUNT \in Int
      BY MemgrindAssumption
    <3>2. IsFiniteSet(1..ALLOC_COUNT)
      BY <3>1, FS_Interval
    <3> QED
      BY <3>2, FS_Subset
  <2> HIDE DEF K
  <2>2. /\ Cardinality(K \ {z}) <= Cardinality(K) /\ Cardinality(K \ {z}) \in Nat
        /\ Cardinality(K) \in Nat
    BY <2>1, FS_Subset, FS_CardinalityType
  <2> QED
    BY <1>2, <2>2, MemgrindAssumption
<1>8. DOMAIN live' = {ptrs'[k] : k \in 1..ALLOC_COUNT} \ {0}
  BY <1>2, <1>3, <1>4, <1>5
<1>9. \A j, k \in 1..ALLOC_COUNT : ptrs'[j] = ptrs'[k] /\ ptrs'[j] # 0 => j = k
  BY <1>2, <1>5
<1>10. Task3Inv'
  BY <1>1, <1>2, <1>5, <1>6, <1>7, <1>8, <1>9 DEF Task3Inv
<1> QED
  BY <1>1, <1>4, <1>10, Stays

\* and frees from one that is not, until all are.
LEMMA Task3FreeStep ==
    ASSUME HeapInv, Careful, DataInv, RunInv, Task3Free \/ Task3Rest
    PROVE  Goes
<1>1. task = "task3" /\ pc = "choose" /\ task \in Tasks /\ Task3Inv
  BY Places DEF Task3Free, Task3Rest, DataInv, Tasks
<1>2. ptrs \in [1..ALLOC_COUNT -> Nat] /\ DOMAIN live = {ptrs[k] : k \in 1..ALLOC_COUNT} \ {0}
  BY <1>1 DEF Task3Inv
<1>3. Releases = {ptrs[k] : k \in DOMAIN ptrs} \ {0}
  BY <1>1 DEF Releases
<1>4. CASE Task3Free
  <2>1. PICK k \in DOMAIN ptrs : Gives(ptrs[k]) /\ ptrs' = [ptrs EXCEPT ![k] = 0]
    BY <1>4 DEF Task3Free
  <2>2. ptrs[k] # 0 /\ Goto("choose") /\ UNCHANGED i
    BY <1>3, <1>4, <2>1 DEF Gives, Task3Free
  <2> QED
    BY <1>1, <2>1, <2>2, SlotEmptied
<1>5. CASE Task3Rest
  <2> DEFINE left == {k \in DOMAIN ptrs : ptrs[k] # 0}
  <2>1. CASE left = {}
    <3>1. Computes /\ Return
      BY <1>5, <2>1 DEF Task3Rest
    <3>2. DOMAIN live = {}
      BY <1>2, <2>1
    <3>3. /\ HeapInv' /\ exited' = exited /\ live' = live /\ initialized'
      BY <1>1, <3>1 DEF Computes, vars, heap, HeapInv, Holds, RunInv
    <3> QED
      BY <1>1, <3>1, <3>2, <3>3, Leaves
  <2>2. CASE left # {}
    <3>1. /\ Gives(ptrs[First(left)]) /\ ptrs' = [ptrs EXCEPT ![First(left)] = 0]
          /\ Goto("choose") /\ UNCHANGED i
      BY <1>5, <2>2 DEF Task3Rest
    <3>2. left \in SUBSET Nat
      BY <1>2, MemgrindAssumption
    <3>3. First(left) \in left
      <4> HIDE DEF left
      <4> QED
        BY <2>2, <3>2, LeastElement DEF First
    <3> DEFINE z == First(left)
    <3>4. z \in DOMAIN ptrs /\ ptrs[z] # 0
      BY <3>3
    <3>5. Gives(ptrs[z]) /\ ptrs' = [ptrs EXCEPT ![z] = 0]
      BY <3>1
    <3> HIDE DEF z
    <3> QED
      BY <1>1, <3>1, <3>4, <3>5, SlotEmptied
  <2> QED
    BY <2>1, <2>2
<1> QED
  BY <1>4, <1>5

------------------------------------------------------------------------------
\* Lists: a node is put in front,
LEMMA ChainPrepend ==
    ASSUME NEW f, NEW S, NEW h, Chain(f, S, h), NEW p \in Nat \ {0}, p \notin S
    PROVE  Chain([q \in S \cup {p} |-> IF q = p THEN h ELSE f[q]], S \cup {p}, p)
<1> DEFINE T == S \cup {p}
           g == [q \in T |-> IF q = p THEN h ELSE f[q]]
<1>1. /\ S \subseteq Nat \ {0} /\ f \in [S -> S \cup {0}]
      /\ IF S = {} THEN h = 0 ELSE h \in S
      /\ \A x \in S : f[x] # h
      /\ \A x, y \in S : f[x] = f[y] /\ f[x] # 0 => x = y
      /\ \A x \in S \ {h} : \E y \in S : f[y] = x
  BY DEF Chain
<1>2. PICK n \in Nat : \E r \in [S -> 0..n] : \A x \in S : f[x] # 0 => r[f[x]] < r[x]
  BY DEF Chain
<1>3. PICK r \in [S -> 0..n] : \A x \in S : f[x] # 0 => r[f[x]] < r[x]
  BY <1>2
<1>4. g[p] = h /\ (\A x \in S : x \in T /\ g[x] = f[x] /\ x # p) /\ p \in T /\ p # h
  BY <1>1
<1>5. T \subseteq Nat \ {0} /\ g \in [T -> T \cup {0}] /\ T # {}
  BY <1>1, <1>4
<1>6. T = S \cup {p}
  OBVIOUS
<1> HIDE DEF T, g
<1>7. \A x \in T : g[x] # p
  BY <1>1, <1>4, <1>6
<1>8. \A x, y \in T : g[x] = g[y] /\ g[x] # 0 => x = y
  BY <1>1, <1>4, <1>6
<1>9. \A x \in T \ {p} : \E y \in T : g[y] = x
  <2> SUFFICES ASSUME NEW x \in T \ {p} PROVE \E y \in T : g[y] = x
    OBVIOUS
  <2>1. CASE x = h
    BY <1>4, <2>1
  <2>2. CASE x # h
    BY <1>1, <1>4, <1>6, <2>2
  <2> QED
    BY <2>1, <2>2
<1>10. \E s \in [T -> 0..n + 1] : \A x \in T : g[x] # 0 => s[g[x]] < s[x]
  <2> DEFINE s == [x \in T |-> IF x = p THEN n + 1 ELSE r[x]]
  <2>1. s[p] = n + 1 /\ \A x \in S : s[x] = r[x]
    BY <1>4, <1>6
  <2>2. \A x \in S : r[x] \in 0..n /\ r[x] < n + 1 /\ r[x] \in 0..n + 1
    BY <1>3
  <2>3. s \in [T -> 0..n + 1]
    BY <1>6, <2>2
  <2> HIDE DEF s
  <2>4. \A x \in S : f[x] # 0 => s[f[x]] < s[x]
    BY <1>1, <1>3, <2>1
  <2>5. h # 0 => s[h] < s[p]
    BY <1>1, <2>1, <2>2
  <2> QED
    BY <1>4, <1>6, <2>3, <2>4, <2>5
<1>11. Chain(g, T, p)
  BY <1>4, <1>5, <1>7, <1>8, <1>9, <1>10 DEF Chain
<1> QED
  BY <1>11 DEF g, T

\* the node c after a is taken out,
LEMMA ChainUnlink ==
    ASSUME NEW f, NEW S, NEW h, Chain(f, S, h), NEW a \in S, NEW c \in S, f[a] = c
    PROVE  /\ Chain([q \in S \ {c} |-> IF q = a THEN f[c] ELSE f[q]], S \ {c}, h)
           /\ a # c /\ f[c] # c
<1> DEFINE T == S \ {c}
           g == [q \in T |-> IF q = a THEN f[c] ELSE f[q]]
<1>1. /\ S \subseteq Nat \ {0} /\ f \in [S -> S \cup {0}] /\ h \in S
      /\ \A x \in S : f[x] # h
      /\ \A x, y \in S : f[x] = f[y] /\ f[x] # 0 => x = y
      /\ \A x \in S \ {h} : \E y \in S : f[y] = x
  BY DEF Chain
<1>2. PICK n \in Nat : \E r \in [S -> 0..n] : \A x \in S : f[x] # 0 => r[f[x]] < r[x]
  BY DEF Chain
<1>3. PICK r \in [S -> 0..n] : \A x \in S : f[x] # 0 => r[f[x]] < r[x]
  BY <1>2
<1>4. \A x \in S : r[x] \in Nat /\ x # 0
  BY <1>1, <1>2, <1>3
<1>5. r[c] < r[a] /\ a # c /\ f[c] # c /\ c # h
  BY <1>1, <1>3, <1>4
<1>6. g[a] = f[c] /\ (\A x \in T : x # a => g[x] = f[x]) /\ a \in T
  BY <1>5
<1>7. \A x : x \in T <=> x \in S /\ x # c
  OBVIOUS
<1>8. \A x \in T : x # a => f[x] # c
  BY <1>1, <1>4, <1>7
<1>9. T \subseteq Nat \ {0} /\ g \in [T -> T \cup {0}]
  BY <1>1, <1>5, <1>6, <1>7, <1>8
<1> HIDE DEF T, g
<1>10. h \in T /\ T # {}
  BY <1>1, <1>5, <1>7
<1>11. \A x \in T : g[x] # h
  BY <1>1, <1>6, <1>7
<1>12. \A x, y \in T : g[x] = g[y] /\ g[x] # 0 => x = y
  BY <1>1, <1>6, <1>7
<1>13. \A x \in T \ {h} : \E y \in T : g[y] = x
  <2> SUFFICES ASSUME NEW x \in T \ {h} PROVE \E y \in T : g[y] = x
    OBVIOUS
  <2>1. PICK y \in S : f[y] = x
    BY <1>1, <1>7
  <2>2. CASE y = c
    BY <1>6, <2>1, <2>2
  <2>3. CASE y # c
    <3>1. y # a
      BY <1>7, <2>1
    <3> QED
      BY <1>6, <1>7, <2>1, <2>3, <3>1
  <2> QED
    BY <2>2, <2>3
<1>14. \E s \in [T -> 0..n] : \A x \in T : g[x] # 0 => s[g[x]] < s[x]
  <2> DEFINE s == [x \in T |-> r[x]]
  <2>1. s \in [T -> 0..n] /\ \A x \in T : s[x] = r[x]
    BY <1>3, <1>7
  <2> HIDE DEF s
  <2>2. ASSUME NEW x \in T, g[x] # 0 PROVE s[g[x]] < s[x]
    <3>1. g[x] \in T /\ s[g[x]] = r[g[x]] /\ s[x] = r[x]
      BY <1>9, <2>1, <2>2
    <3>2. CASE x = a
      <4>1. r[f[c]] < r[c] /\ f[c] \in S
        BY <1>1, <1>3, <1>6, <2>2, <3>2
      <4> QED
        BY <1>4, <1>5, <1>6, <3>1, <3>2, <4>1
    <3>3. CASE x # a
      BY <1>3, <1>6, <1>7, <2>2, <3>1, <3>3
    <3> QED
      BY <3>2, <3>3
  <2> QED
    BY <2>1, <2>2
<1>15. Chain(g, T, h)
  BY <1>9, <1>10, <1>11, <1>12, <1>13, <1>14 DEF Chain
<1> QED
  BY <1>5, <1>15 DEF g, T

\* A node of the list that is not as it should be: the one of the highest rank.
LEMMA HighestRank ==
    ASSUME NEW f, NEW S, NEW h, Chain(f, S, h), NEW B \in SUBSET S, B # {}
    PROVE  \E x \in B : \A y \in B : f[y] # x
<1>1. PICK n \in Nat : \E r \in [S -> 0..n] : \A x \in S : f[x] # 0 => r[f[x]] < r[x]
  BY DEF Chain
<1>2. PICK r \in [S -> 0..n] : \A x \in S : f[x] # 0 => r[f[x]] < r[x]
  BY <1>1
<1>3. \A x \in S : r[x] \in 0..n /\ r[x] \in Nat /\ n - r[x] \in Nat /\ x # 0
  BY <1>2 DEF Chain
<1> DEFINE D == {n - r[x] : x \in B}
<1>4. D \in SUBSET Nat /\ D # {}
  BY <1>3
<1>5. PICK d \in D : \A e \in D : d <= e
  <2> HIDE DEF D
  <2> QED
    BY <1>4, LeastElement
<1>6. PICK x \in B : d = n - r[x]
  OBVIOUS
<1>7. ASSUME NEW y \in B, f[y] = x PROVE FALSE
  <2>1. r[x] < r[y]
    BY <1>2, <1>3, <1>7
  <2>2. n - r[x] <= n - r[y]
    BY <1>5, <1>6
  <2> QED
    BY <1>1, <1>3, <2>1, <2>2
<1> QED
  BY <1>7

\* the first node is taken off.
LEMMA ChainTail ==
    ASSUME NEW f, NEW S, NEW h \in S, Chain(f, S, h)
    PROVE  Chain([q \in S \ {h} |-> f[q]], S \ {h}, f[h])
<1> DEFINE T == S \ {h}
           g == [q \in T |-> f[q]]
<1>1. /\ S \subseteq Nat \ {0} /\ f \in [S -> S \cup {0}]
      /\ \A x \in S : f[x] # h
      /\ \A x, y \in S : f[x] = f[y] /\ f[x] # 0 => x = y
      /\ \A x \in S \ {h} : \E y \in S : f[y] = x
  BY DEF Chain
<1>2. PICK n \in Nat : \E r \in [S -> 0..n] : \A x \in S : f[x] # 0 => r[f[x]] < r[x]
  BY DEF Chain
<1>3. PICK r \in [S -> 0..n] : \A x \in S : f[x] # 0 => r[f[x]] < r[x]
  BY <1>2
<1>4. \A x : x \in T <=> x \in S /\ x # h
  OBVIOUS
<1>5. \A x \in T : g[x] = f[x]
  OBVIOUS
<1>6. T \subseteq Nat \ {0} /\ g \in [T -> T \cup {0}]
  BY <1>1
<1> HIDE DEF T, g
<1>7. IF T = {} THEN f[h] = 0 ELSE f[h] \in T
  <2>1. T = {} => f[h] = 0
    BY <1>1, <1>4
  <2>2. ASSUME T # {} PROVE f[h] \in T
    <3>1. PICK x \in T : \A y \in T : f[y] # x
      <4>1. T \in SUBSET S
        BY <1>4
      <4> QED
        BY <2>2, <4>1, HighestRank
    <3>2. PICK y \in S : f[y] = x
      BY <1>1, <1>4
    <3> QED
      BY <1>4, <3>1, <3>2
  <2> QED
    BY <2>1, <2>2
<1>8. \A x \in T : g[x] # f[h]
  <2> SUFFICES ASSUME NEW x \in T, g[x] = f[h] PROVE FALSE
    OBVIOUS
  <2>1. f[h] # 0
    BY <1>6, <1>7
  <2> QED
    BY <1>1, <1>4, <1>5, <2>1
<1>9. \A x, y \in T : g[x] = g[y] /\ g[x] # 0 => x = y
  BY <1>1, <1>4, <1>5
<1>10. \A x \in T \ {f[h]} : \E y \in T : g[y] = x
  BY <1>1, <1>4, <1>5
<1>11. \E s \in [T -> 0..n] : \A x \in T : g[x] # 0 => s[g[x]] < s[x]
  <2> DEFINE s == [x \in T |-> r[x]]
  <2>1. s \in [T -> 0..n] /\ \A x \in T : s[x] = r[x]
    BY <1>3, <1>4
  <2> HIDE DEF s
  <2> QED
    BY <1>3, <1>4, <1>5, <1>6, <2>1
<1>12. Chain(g, T, f[h])
  BY <1>6, <1>7, <1>8, <1>9, <1>10, <1>11 DEF Chain
<1> QED
  BY <1>12 DEF g, T

\* And the one of the lowest: what follows it is as it should be.
LEMMA LowestRank ==
    ASSUME NEW f, NEW S, NEW h, Chain(f, S, h), NEW B \in SUBSET S, B # {}
    PROVE  \E x \in B : f[x] \notin B
<1>1. PICK n \in Nat : \E r \in [S -> 0..n] : \A x \in S : f[x] # 0 => r[f[x]] < r[x]
  BY DEF Chain
<1>2. PICK r \in [S -> 0..n] : \A x \in S : f[x] # 0 => r[f[x]] < r[x]
  BY <1>1
<1>3. \A x \in S : r[x] \in Nat /\ x # 0
  BY <1>2 DEF Chain
<1> DEFINE D == {r[x] : x \in B}
<1>4. D \in SUBSET Nat /\ D # {}
  BY <1>3
<1>5. PICK d \in D : \A e \in D : d <= e
  <2> HIDE DEF D
  <2> QED
    BY <1>4, LeastElement
<1>6. PICK x \in B : d = r[x]
  OBVIOUS
<1>7. ASSUME f[x] \in B PROVE FALSE
  <2>1. r[f[x]] < r[x] /\ r[f[x]] \in Nat /\ r[x] \in Nat
    BY <1>2, <1>3, <1>7
  <2>2. r[x] <= r[f[x]]
    BY <1>5, <1>6, <1>7
  <2> QED
    BY <2>1, <2>2
<1> QED
  BY <1>7

\* The walk along a list, as Reached takes it.
Along(f, S, g) == g = [p \in Nat |-> IF p \in S THEN {p} \cup g[f[p]] ELSE {p} \ {0}]

\* There is one: what every closed set with p in it has.
LEMMA AlongExists ==
    ASSUME NEW f, NEW S, NEW h, Chain(f, S, h)
    PROVE  \E g : Along(f, S, g)
<1> DEFINE Closed(C) == \A x \in C : f[x] # 0 => f[x] \in C
           All(p) == {x \in S : \A C \in SUBSET S : p \in C /\ Closed(C) => x \in C}
           g == [p \in Nat |-> IF p \in S THEN All(p) ELSE {p} \ {0}]
<1>1. S \subseteq Nat \ {0} /\ f \in [S -> S \cup {0}]
  BY DEF Chain
<1>2. ASSUME NEW p \in S PROVE g[p] = {p} \cup g[f[p]]
  <2>1. p \in Nat /\ g[p] = All(p) /\ f[p] \in Nat
    <3>1. p \in Nat /\ f[p] \in S \cup {0}
      BY <1>1
    <3>2. f[p] \in Nat
      <4>1. CASE f[p] = 0
        BY <4>1
      <4>2. CASE f[p] # 0
        <5>1. f[p] \in S
          BY <3>1, <4>2
        <5> QED
          BY <1>1, <5>1
      <4> QED
        BY <4>1, <4>2
    <3>3. g[p] = All(p)
      BY <3>1
    <3> QED
      BY <3>1, <3>2, <3>3
  <2>2. p \in All(p)
    OBVIOUS
  <2>3. CASE f[p] = 0
    <3>1. g[f[p]] = {}
      BY <1>1, <2>3
    <3>2. {p} \in SUBSET S /\ Closed({p})
      BY <2>3
    <3>3. All(p) \subseteq {p}
      BY <3>2
    <3> QED
      BY <2>1, <2>2, <3>1, <3>3
  <2>4. CASE f[p] # 0
    <3>1. f[p] \in S /\ g[f[p]] = All(f[p])
      BY <1>1, <2>4
    <3>2. All(f[p]) \subseteq All(p)
      <4> SUFFICES ASSUME NEW x \in All(f[p]), NEW C \in SUBSET S, p \in C, Closed(C)
                   PROVE  x \in C
        OBVIOUS
      <4> QED
        BY <2>4
    <3> DEFINE C0 == {p} \cup All(f[p])
    <3>3. C0 \in SUBSET S
      OBVIOUS
    <3>4. Closed(C0)
      <4>1. f[p] \in All(f[p])
        BY <3>1
      <4>2. ASSUME NEW y \in All(f[p]), f[y] # 0 PROVE f[y] \in All(f[p])
        <5>1. f[y] \in S
          BY <1>1, <4>2
        <5> QED
          BY <4>2, <5>1
      <4> QED
        BY <4>1, <4>2
    <3>5. All(p) \subseteq C0
      <4> HIDE DEF C0
      <4>1. p \in C0
        BY DEF C0
      <4> QED
        BY <3>3, <3>4, <4>1
    <3> QED
      BY <2>1, <2>2, <3>1, <3>2, <3>5
  <2> QED
    BY <2>3, <2>4
<1>3. \A p \in Nat : p \notin S => g[p] = {p} \ {0}
  OBVIOUS
<1>4. g = [p \in Nat |-> g[p]]
  OBVIOUS
<1> HIDE DEF g
<1>5. Along(f, S, g)
  BY <1>2, <1>3, <1>4 DEF Along
<1> QED
  BY <1>5

\* And from the head it visits every node, and nothing else.
LEMMA AlongVisits ==
    ASSUME NEW f, NEW S, NEW h, Chain(f, S, h), NEW g, Along(f, S, g)
    PROVE  g[h] = S
<1>1. /\ S \subseteq Nat \ {0} /\ f \in [S -> S \cup {0}]
      /\ IF S = {} THEN h = 0 ELSE h \in S
      /\ \A x \in S \ {h} : \E y \in S : f[y] = x
  BY DEF Chain
<1>2. (\A p \in S : g[p] = {p} \cup g[f[p]]) /\ g[0] = {}
  <2>1. \A p \in Nat : g[p] = IF p \in S THEN {p} \cup g[f[p]] ELSE {p} \ {0}
    <3> DEFINE e == [p \in Nat |-> IF p \in S THEN {p} \cup g[f[p]] ELSE {p} \ {0}]
    <3>1. g = e
      BY DEF Along
    <3>2. \A p \in Nat : e[p] = IF p \in S THEN {p} \cup g[f[p]] ELSE {p} \ {0}
      OBVIOUS
    <3> HIDE DEF e
    <3> QED
      BY <3>1, <3>2
  <2>2. 0 \in Nat /\ 0 \notin S /\ {0} \ {0} = {}
    BY <1>1
  <2>3. g[0] = {}
    BY <2>1, <2>2
  <2>4. \A p \in S : p \in Nat
    BY <1>1
  <2> QED
    BY <2>1, <2>3, <2>4
<1> DEFINE Fine(p) == p \in g[p] /\ g[p] \subseteq S /\ \A y \in g[p] : f[y] # 0 => f[y] \in g[p]
           B == {p \in S : ~Fine(p)}
<1>3. B = {}
  <2> SUFFICES ASSUME B # {} PROVE FALSE
    OBVIOUS
  <2>1. PICK x \in B : f[x] \notin B
    <3>1. B \in SUBSET S
      OBVIOUS
    <3> HIDE DEF B
    <3> QED
      BY <3>1, LowestRank
  <2>2. x \in S /\ g[x] = {x} \cup g[f[x]] /\ f[x] \in S \cup {0}
    BY <1>1, <1>2
  <2>3. CASE f[x] = 0
    BY <1>2, <2>2, <2>3
  <2>4. CASE f[x] # 0
    <3>1. Fine(f[x])
      BY <2>1, <2>2, <2>4
    <3> QED
      BY <2>2, <3>1
  <2> QED
    BY <2>3, <2>4
<1>4. CASE S = {}
  BY <1>1, <1>2, <1>4
<1>5. CASE S # {}
  <2>1. Fine(h) /\ h \in S
    BY <1>1, <1>3, <1>5
  <2> SUFFICES ASSUME S \ g[h] # {} PROVE FALSE
    BY <2>1
  <2>2. PICK x \in S \ g[h] : \A y \in S \ g[h] : f[y] # x
    <3>1. S \ g[h] \in SUBSET S
      OBVIOUS
    <3> QED
      BY <3>1, HighestRank
  <2>3. PICK y \in S : f[y] = x
    BY <1>1, <2>1, <2>2
  <2>4. y \in g[h] /\ f[y] # 0
    BY <1>1, <2>2, <2>3
  <2> QED
    BY <2>1, <2>2, <2>3, <2>4
<1> QED
  BY <1>4, <1>5

\* So a list reaches all its nodes.
LEMMA ListReached ==
    ASSUME List(DOMAIN live, ptrs[1])
    PROVE  Reached = DOMAIN live
<1> DEFINE S == DOMAIN live
           f == [p \in S |-> NextOf(p)]
           G == CHOOSE g : g = [p \in Nat |-> IF p \in S THEN {p} \cup g[NextOf(p)] ELSE {p} \ {0}]
<1>1. Chain(f, S, ptrs[1])
  BY DEF List
<1>2. \A g : Along(f, S, g) <=>
             g = [p \in Nat |-> IF p \in S THEN {p} \cup g[NextOf(p)] ELSE {p} \ {0}]
  BY DEF Along
<1>3. Along(f, S, G)
  <2>1. \E g : Along(f, S, g)
    <3> HIDE DEF f
    <3> QED
      BY <1>1, AlongExists
  <2>2. \E g : g = [p \in Nat |-> IF p \in S THEN {p} \cup g[NextOf(p)] ELSE {p} \ {0}]
    BY <1>2, <2>1
  <2>3. G = [p \in Nat |-> IF p \in S THEN {p} \cup G[NextOf(p)] ELSE {p} \ {0}]
    BY <2>2
  <2> HIDE DEF G, f
  <2> QED
    BY <1>2, <2>3
<1>4. Reached = G[ptrs[1]]
  BY DEF Reached
<1> HIDE DEF G, f
<1> QED
  BY <1>1, <1>3, <1>4, AlongVisits

------------------------------------------------------------------------------
\* A step that leaves the heap alone.
LEMMA Idle ==
    ASSUME HeapInv, Computes
    PROVE  /\ HeapInv' /\ exited' = exited /\ live' = live /\ mem' = mem
           /\ initialized' = initialized
  BY DEF Computes, vars, heap, HeapInv, Holds

\* A node has two words, the second of which is its link.
LEMMA NodeWords ==
    ASSUME HeapInv, SmallSizes, NEW p \in DOMAIN live, live[p] = NODESIZE
    PROVE  /\ initialized /\ mem \in Mem
           /\ p \in Nat \ {0} /\ p + 1 \in Payload(p, live[p]) /\ p + 1 \in Word
<1>1. initialized /\ Holds(mem, live)
  BY DEF HeapInv
<1>2. p \in Nat \ {0} /\ \A w \in Payload(p, live[p]) : w \in Word
  BY <1>1, PayloadInside
<1>3. p + 1 \in Payload(p, live[p])
  BY <1>2 DEF Payload, Need, NODESIZE
<1> QED
  BY <1>1, <1>2, <1>3 DEF Holds

\* A list is one still if its links are those of a chain.
LEMMA ListThen ==
    ASSUME NEW f, NEW S, NEW h, Chain(f, S, h), \A p \in S : NextOf(p)' = f[p]
    PROVE  Chain([p \in S |-> NextOf(p)'], S, h)
<1>1. f \in [S -> S \cup {0}]
  BY DEF Chain
<1>2. f = [p \in S |-> f[p]]
  BY <1>1
<1>3. [p \in S |-> NextOf(p)'] = f
  BY <1>2
<1> QED
  BY <1>3

\* What task 4 has between two steps.
Nodes == /\ task = "task4" /\ task \in Tasks /\ i \in Nat /\ initialized
         /\ \A p \in DOMAIN live : live[p] = NODESIZE
         /\ Task4Inv

\* At task 4's places that is what it has.
LEMMA NodesHold ==
    ASSUME DataInv, RunInv, task = "task4" \/ pc \in {"link", "walk", "unlinked", "rest"}
    PROVE  Nodes
<1>1. task = "task4"
  BY Places
<1> QED
  BY <1>1 DEF Nodes, DataInv, RunInv, Task4Inv, Tasks

\* What the steps of the task have to show.
LEMMA NodesStay ==
    ASSUME Nodes, HeapInv', initialized', exited' = exited, task' = task, i' \in Nat,
           \A p \in DOMAIN live' : live'[p] = NODESIZE,
           \/ /\ pc' \in {"malloc", "rest"}
              /\ Chain([p \in DOMAIN live' |-> NextOf(p)'], DOMAIN live', ptrs'[1])
           \/ /\ pc' = "link" /\ ptrs'[2] \in DOMAIN live'
              /\ Chain([p \in DOMAIN live' \ {ptrs'[2]} |-> NextOf(p)'],
                       DOMAIN live' \ {ptrs'[2]}, ptrs'[1])
           \/ /\ pc' = "walk"
              /\ Chain([p \in DOMAIN live' |-> NextOf(p)'], DOMAIN live', ptrs'[1])
              /\ ptrs'[3] \in DOMAIN live' \cup {0}
              /\ i' % 2 = 1 => ptrs'[2] \in DOMAIN live' /\ NextOf(ptrs[2])' = ptrs'[3]
           \/ /\ pc' = "unlinked" /\ i' % 2 = 1 /\ ptrs'[3] \in DOMAIN live'
              /\ Chain([p \in DOMAIN live' \ {ptrs'[3]} |-> NextOf(p)'],
                       DOMAIN live' \ {ptrs'[3]}, ptrs'[1])
              /\ NextOf(ptrs[3])' \in (DOMAIN live' \ {ptrs'[3]}) \cup {0}
    PROVE  Goes
<1>1. Task4Inv'
  BY DEF Task4Inv, List, Nodes
<1> QED
  BY <1>1, Stays DEF Nodes

\* A node is allocated,
LEMMA Task4MallocStep ==
    ASSUME HeapInv, Careful, DataInv, RunInv, Task4Malloc
    PROVE  Goes
<1> DEFINE S == DOMAIN live
<1>1. Nodes /\ task = "task4" /\ pc = "malloc" /\ task' = task /\ pc' = "link" /\ i' = i
  BY NodesHold DEF Task4Malloc, Goto
<1>2. PICK p \in Word : Asks(p) /\ ptrs' = <<ptrs[1], p>>
  BY DEF Task4Malloc
<1>3. Requests = {NODESIZE} /\ NODESIZE \in Sizes
  BY <1>1, SizesAssumption DEF Requests
<1>4. /\ HeapInv' /\ initialized' /\ exited' = exited /\ p \notin S /\ p \in Nat \ {0}
      /\ DOMAIN live' = S \cup {p} /\ live'[p] = NODESIZE
      /\ \A q \in S : live'[q] = live[q]
      /\ \A q \in S : \A w \in Payload(q, live[q]) : mem'[w] = mem[w]
  BY <1>2, <1>3, AsksGrows DEF Careful
<1>5. Chain([q \in S |-> NextOf(q)], S, ptrs[1]) /\ \A q \in S : live[q] = NODESIZE
  BY <1>1 DEF Nodes, Task4Inv, List
<1>6. \A q \in S : NextOf(q)' = NextOf(q)
  BY <1>4, <1>5, NodeWords DEF NextOf, Careful
<1>7. Chain([q \in S |-> NextOf(q)'], S, ptrs[1])
  BY <1>5, <1>6, ListThen
<1>8. DOMAIN live' \ {p} = S /\ ptrs'[1] = ptrs[1] /\ ptrs'[2] = p
  BY <1>2, <1>4
<1>9. \A q \in DOMAIN live' : live'[q] = NODESIZE
  BY <1>4, <1>5
<1>10. i' \in Nat
  BY <1>1 DEF Nodes
<1>11. Chain([q \in DOMAIN live' \ {ptrs'[2]} |-> NextOf(q)'], DOMAIN live' \ {ptrs'[2]}, ptrs'[1])
  BY <1>7, <1>8
<1>12. ptrs'[2] \in DOMAIN live'
  BY <1>4, <1>8
<1> QED
  BY <1>1, <1>4, <1>9, <1>10, <1>11, <1>12, NodesStay

\* becomes the head of the list,
LEMMA LinkInStep ==
    ASSUME HeapInv, Careful, DataInv, RunInv, LinkIn
    PROVE  Goes
<1> USE MyMallocAssumption
<1> DEFINE a == ptrs[2]
           h == ptrs[1]
           T == DOMAIN live
           S == T \ {a}
           f == [w \in {a + 1} |-> Link(h)]
<1>1. Nodes /\ pc = "link" /\ Writes(f)
  BY NodesHold DEF LinkIn
<1>2. /\ a \in T /\ Chain([q \in S |-> NextOf(q)], S, h) /\ \A q \in T : live[q] = NODESIZE
  BY <1>1 DEF Nodes, Task4Inv, List
<1>3. h \in Nat
  BY <1>2 DEF Chain
<1>4. /\ initialized /\ \A q \in T : /\ q \in Nat \ {0} /\ q + 1 \in Word
                                     /\ q + 1 \in Payload(q, live[q])
  BY <1>1, <1>2, NodeWords DEF Nodes, Careful
<1>5. Harmless(Link(h))
  <2>1. (IF h = 0 THEN 0 ELSE Words + h) \in Nat
    BY <1>3
  <2>2. h # 0 => Words + h >= Words
    BY <1>3
  <2> QED
    BY <2>1, <2>2, HeaderHarmless DEF Link
<1>6. DOMAIN f = {a + 1} /\ f[a + 1] = Link(h)
  OBVIOUS
<1>7. Own(f)
  BY <1>2, <1>4, <1>5, <1>6 DEF Own
<1> HIDE DEF f
<1>8. /\ HeapInv' /\ live' = live /\ initialized'
      /\ \A w \in Word : mem'[w] = IF w \in DOMAIN f THEN f[w] ELSE mem[w]
  BY <1>1, <1>4, <1>7, WritesHold DEF Careful
<1>9. mem'[a + 1] = Link(h) /\ \A q \in S : mem'[q + 1] = mem[q + 1]
  BY <1>2, <1>4, <1>6, <1>8
<1> HIDE DEF a, h
<1> DEFINE n(q) == IF mem'[q + 1].size = 0 THEN 0 ELSE mem'[q + 1].size - Words
<1>10. n(a) = h /\ \A q \in S : n(q) = NextOf(q)
  BY <1>3, <1>9 DEF NextOf, Link, Header
<1>11. S \cup {a} = T /\ a \notin S
  BY <1>2
<1>12. Chain([q \in T |-> n(q)], T, a)
  <2> DEFINE g == [q \in S |-> NextOf(q)]
             e == [q \in S \cup {a} |-> IF q = a THEN h ELSE g[q]]
  <2>1. Chain(e, S \cup {a}, a)
    <3> HIDE DEF g, S
    <3>1. Chain(g, S, h)
      BY <1>2 DEF g, S, a, h
    <3> QED
      BY <1>2, <1>4, <1>11, <3>1, ChainPrepend
  <2>2. e = [q \in T |-> n(q)]
    BY <1>10, <1>11
  <2> QED
    BY <1>11, <2>1, <2>2
<1>13. Chain([q \in DOMAIN live' |-> NextOf(q)'], DOMAIN live', a)
  BY <1>8, <1>12 DEF NextOf
<1>14. exited' = exited /\ \A q \in DOMAIN live' : live'[q] = NODESIZE
  BY <1>1, <1>2, <1>8 DEF Writes
<1>15. /\ task' = task
       /\ \/ pc' = "malloc" /\ i' = i + 1 /\ ptrs' = <<a>>
          \/ pc' = "walk" /\ i' = 0 /\ ptrs' = <<a, 0, a>>
  BY DEF LinkIn, Goto, a
<1>16. i \in Nat
  BY <1>1 DEF Nodes
<1>17. CASE pc' = "malloc" /\ i' = i + 1 /\ ptrs' = <<a>>
  BY <1>1, <1>8, <1>13, <1>14, <1>15, <1>16, <1>17, NodesStay
<1>18. CASE pc' = "walk" /\ i' = 0 /\ ptrs' = <<a, 0, a>>
  <2>1. ptrs'[1] = a /\ ptrs'[3] = a /\ i' \in Nat /\ i' % 2 # 1
    BY <1>18
  <2>2. Chain([q \in DOMAIN live' |-> NextOf(q)'], DOMAIN live', ptrs'[1])
        /\ ptrs'[3] \in DOMAIN live' \cup {0}
    BY <1>2, <1>8, <1>13, <2>1 DEF a
  <2> QED
    BY <1>1, <1>8, <1>14, <1>15, <1>18, <2>1, <2>2, NodesStay
<1> QED
  BY <1>15, <1>17, <1>18

\* is passed over,
LEMMA KeepStep ==
    ASSUME HeapInv, Careful, DataInv, RunInv, Keep \/ Walked
    PROVE  Goes
<1> DEFINE S == DOMAIN live
<1>1. /\ Nodes /\ pc = "walk" /\ task' = task /\ Computes
  BY NodesHold DEF Keep, Walked, Goto
<1>2. /\ HeapInv' /\ exited' = exited /\ live' = live /\ mem' = mem /\ initialized'
      /\ i \in Nat
  BY <1>1, Idle DEF Nodes
<1>3. /\ Chain([q \in S |-> NextOf(q)], S, ptrs[1]) /\ ptrs[3] \in S \cup {0}
      /\ \A q \in S : live[q] = NODESIZE
  BY <1>1 DEF Nodes, Task4Inv, List
<1>4. \A q \in DOMAIN live' : live'[q] = NODESIZE
  BY <1>2, <1>3
<1>5. CASE Walked
  <2>1. pc' = "rest" /\ ptrs' = ptrs /\ i' = i
    BY <1>5 DEF Walked, Goto
  <2>2. Chain([q \in DOMAIN live' |-> NextOf(q)'], DOMAIN live', ptrs'[1])
    BY <1>2, <1>3, <2>1 DEF NextOf
  <2> QED
    BY <1>1, <1>2, <1>4, <2>1, <2>2, NodesStay
<1>6. CASE Keep
  <2>1. /\ pc' = "walk" /\ ptrs' = <<ptrs[1], ptrs[3], NextOf(ptrs[3])>> /\ i' = i + 1
        /\ ptrs[3] \in S
    BY <1>3, <1>6 DEF Keep, Goto
  <2>2. ptrs'[1] = ptrs[1] /\ ptrs'[2] = ptrs[3] /\ ptrs'[3] = NextOf(ptrs[3])
    BY <2>1
  <2>3. Chain([q \in DOMAIN live' |-> NextOf(q)'], DOMAIN live', ptrs'[1])
    BY <1>2, <1>3, <2>2 DEF NextOf
  <2>4. NextOf(ptrs[3]) \in S \cup {0}
    <3>1. \A f : Chain(f, S, ptrs[1]) => f[ptrs[3]] \in S \cup {0}
      BY <2>1 DEF Chain
    <3> QED
      BY <1>3, <2>1, <3>1
  <2>5. NextOf(ptrs[2])' = ptrs'[3]
    BY <1>2, <2>2 DEF NextOf
  <2> QED
    BY <1>1, <1>2, <1>4, <2>1, <2>2, <2>3, <2>4, <2>5, NodesStay
<1> QED
  BY <1>5, <1>6

\* is taken out,
LEMMA UnlinkStep ==
    ASSUME HeapInv, Careful, DataInv, RunInv, Unlink
    PROVE  Goes
<1> USE MyMallocAssumption
<1> DEFINE h == ptrs[1]
           a == ptrs[2]
           c == ptrs[3]
           T == DOMAIN live
           S == T \ {c}
           f == [w \in {a + 1} |-> mem[c + 1]]
           g == [q \in T |-> NextOf(q)]
<1>1. Nodes /\ pc = "walk" /\ Writes(f) /\ c # 0 /\ i % 2 = 1
      /\ task' = task /\ pc' = "unlinked" /\ ptrs' = ptrs /\ i' = i
  BY NodesHold DEF Unlink, Goto
<1>2. /\ a \in T /\ c \in T /\ g[a] = c /\ Chain(g, T, h) /\ \A q \in T : live[q] = NODESIZE
  BY <1>1 DEF Nodes, Task4Inv, List
<1>3. /\ initialized /\ mem \in Mem
      /\ \A q \in T : /\ q \in Nat \ {0} /\ q + 1 \in Word
                      /\ q + 1 \in Payload(q, live[q])
  BY <1>1, <1>2, NodeWords DEF Nodes, Careful
<1>4. g[c] = NextOf(c) /\ g[c] \in T \cup {0} /\ T \subseteq Nat \ {0}
  BY <1>2 DEF Chain
<1>5. Harmless(mem[c + 1])
  <2>1. c + 1 \in Word
    BY <1>2, <1>3
  <2>2. mem[c + 1] \in [size : Nat, used : BOOLEAN]
    BY <1>3, <2>1 DEF Mem
  <2>3. NextOf(c) \in Nat
    <3>1. CASE g[c] = 0
      BY <1>4, <3>1
    <3>2. CASE g[c] # 0
      <4>1. g[c] \in T
        BY <1>4, <3>2
      <4>2. g[c] \in Nat
        BY <1>4, <4>1
      <4> QED
        BY <1>4, <4>2
    <3> QED
      BY <3>1, <3>2
  <2>4. mem[c + 1].size = 0 \/ mem[c + 1].size >= Words
    <3>1. mem[c + 1].size \in Nat
      BY <2>2
    <3> QED
      BY <2>3, <3>1 DEF NextOf
  <2> QED
    BY <2>2, <2>4 DEF Harmless
<1>6. DOMAIN f = {a + 1} /\ f[a + 1] = mem[c + 1]
  OBVIOUS
<1>7. Own(f)
  BY <1>2, <1>3, <1>5, <1>6 DEF Own
<1>8. /\ HeapInv' /\ live' = live /\ initialized'
      /\ \A w \in Word : mem'[w] = IF w \in DOMAIN f THEN f[w] ELSE mem[w]
  BY <1>1, <1>3, <1>7, WritesHold DEF Careful
<1> HIDE DEF f
<1>9. mem'[a + 1] = mem[c + 1] /\ \A q \in T : q # a => mem'[q + 1] = mem[q + 1]
  BY <1>2, <1>3, <1>6, <1>8
<1>10. \A q \in T : g[q] = NextOf(q)
  OBVIOUS
<1> DEFINE e == [q \in T \ {c} |-> IF q = a THEN g[c] ELSE g[q]]
<1>11. Chain(e, S, h) /\ a # c /\ g[c] # c
  <2> HIDE DEF g, a, c, h
  <2> QED
    BY <1>2, ChainUnlink
<1> DEFINE n(q) == IF mem'[q + 1].size = 0 THEN 0 ELSE mem'[q + 1].size - Words
<1>12. n(c) = g[c] /\ \A q \in S : n(q) = e[q]
  BY <1>2, <1>4, <1>9, <1>10, <1>11 DEF NextOf
<1>13. [q \in S |-> n(q)] = e
  BY <1>12
<1>14. DOMAIN live' \ {ptrs'[3]} = S /\ ptrs'[1] = h /\ ptrs'[3] = c
  BY <1>1, <1>8
<1>15. Chain([q \in S |-> NextOf(q)'], S, h) /\ NextOf(ptrs[3])' = g[c]
  <2>1. Chain([q \in S |-> n(q)], S, h)
    BY <1>11, <1>13
  <2>2. NextOf(ptrs[3])' = n(c)
    BY <1>14 DEF NextOf
  <2>3. \A q : NextOf(q)' = n(q)
    BY DEF NextOf
  <2> QED
    BY <1>12, <2>1, <2>2, <2>3
<1>16. Chain([q \in DOMAIN live' \ {ptrs'[3]} |-> NextOf(q)'], DOMAIN live' \ {ptrs'[3]}, ptrs'[1])
  BY <1>14, <1>15
<1>17. NextOf(ptrs[3])' \in (DOMAIN live' \ {ptrs'[3]}) \cup {0}
  BY <1>4, <1>11, <1>14, <1>15
<1>18. /\ exited' = exited /\ \A q \in DOMAIN live' : live'[q] = NODESIZE
       /\ i' \in Nat /\ i' % 2 = 1 /\ ptrs'[3] \in DOMAIN live'
  BY <1>1, <1>2, <1>8, <1>14 DEF Writes, Nodes
<1> QED
  BY <1>1, <1>8, <1>16, <1>17, <1>18, NodesStay

\* and freed,
LEMMA FreeNodeStep ==
    ASSUME HeapInv, Careful, DataInv, RunInv, FreeNode
    PROVE  Goes
<1> DEFINE c == ptrs[3]
           T == DOMAIN live
           S == T \ {c}
<1>1. /\ Nodes /\ pc = "unlinked" /\ Gives(c) /\ task' = task /\ pc' = "walk"
      /\ ptrs' = <<ptrs[1], ptrs[2], NextOf(c)>> /\ i' = i + 1
  BY NodesHold DEF FreeNode, Goto
<1>2. /\ c \in T /\ Chain([q \in S |-> NextOf(q)], S, ptrs[1]) /\ NextOf(c) \in S \cup {0}
      /\ \A q \in T : live[q] = NODESIZE
      /\ i \in Nat /\ i % 2 = 1
  BY <1>1 DEF Nodes, Task4Inv, List
<1>3. /\ HeapInv' /\ initialized' /\ exited' = exited /\ DOMAIN live' = S
      /\ \A q \in DOMAIN live' : live'[q] = live[q]
      /\ \A q \in T : \A w \in Payload(q, live[q]) : mem'[w] = mem[w]
  BY <1>1, <1>2, GivesShrinks
<1>4. \A q \in S : NextOf(q)' = NextOf(q)
  BY <1>2, <1>3, NodeWords DEF NextOf, Careful
<1>5. Chain([q \in S |-> NextOf(q)'], S, ptrs[1])
  BY <1>2, <1>4, ListThen
<1>6. ptrs'[1] = ptrs[1] /\ ptrs'[3] = NextOf(c)
  BY <1>1
<1>7. i' \in Nat /\ i' % 2 # 1
  BY <1>1, <1>2
<1>8. /\ \A q \in DOMAIN live' : live'[q] = NODESIZE
      /\ ptrs'[3] \in DOMAIN live' \cup {0}
      /\ Chain([q \in DOMAIN live' |-> NextOf(q)'], DOMAIN live', ptrs'[1])
  BY <1>2, <1>3, <1>5, <1>6
<1> QED
  BY <1>1, <1>3, <1>7, <1>8, NodesStay

\* or is freed at last.
LEMMA FreeRestStep ==
    ASSUME HeapInv, Careful, DataInv, RunInv, FreeRest \/ Task4Done
    PROVE  Goes
<1> DEFINE h == ptrs[1]
           T == DOMAIN live
           S == T \ {h}
           g == [q \in T |-> NextOf(q)]
<1>1. Nodes /\ pc = "rest"
  BY NodesHold DEF FreeRest, Task4Done
<1>2. Chain(g, T, h) /\ \A q \in T : live[q] = NODESIZE
  BY <1>1 DEF Nodes, Task4Inv, List
<1>3. (IF T = {} THEN h = 0 ELSE h \in T) /\ 0 \notin T
  <2> HIDE DEF g
  <2> QED
    BY <1>2 DEF Chain
<1>4. CASE FreeRest
  <2>1. Gives(h) /\ task' = task /\ pc' = "rest" /\ ptrs' = <<NextOf(h)>> /\ i' = i
    BY <1>4 DEF FreeRest, Goto
  <2>2. h \in T
    BY <1>1, <1>3, <2>1 DEF Gives, Releases
  <2>3. /\ HeapInv' /\ initialized' /\ exited' = exited /\ DOMAIN live' = S
        /\ \A q \in DOMAIN live' : live'[q] = live[q]
        /\ \A q \in T : \A w \in Payload(q, live[q]) : mem'[w] = mem[w]
    BY <2>1, <2>2, GivesShrinks
  <2>4. \A q \in S : NextOf(q)' = NextOf(q)
    BY <1>2, <2>3, NodeWords DEF NextOf, Careful
  <2>5. Chain([q \in S |-> g[q]], S, g[h])
    <3> HIDE DEF g, h
    <3> QED
      BY <1>2, <2>2, ChainTail
  <2>6. [q \in S |-> g[q]] = [q \in S |-> NextOf(q)'] /\ g[h] = ptrs'[1]
    BY <2>1, <2>2, <2>4
  <2>7. Chain([q \in DOMAIN live' |-> NextOf(q)'], DOMAIN live', ptrs'[1])
    BY <2>3, <2>5, <2>6
  <2>8. i' \in Nat /\ \A q \in DOMAIN live' : live'[q] = NODESIZE
    BY <1>1, <1>2, <2>1, <2>3 DEF Nodes
  <2> QED
    BY <1>1, <2>1, <2>3, <2>7, <2>8, NodesStay
<1>5. CASE Task4Done
  <2>1. h = 0 /\ Computes /\ Return
    BY <1>5 DEF Task4Done
  <2>2. T = {}
    BY <1>3, <2>1
  <2>3. HeapInv' /\ exited' = exited /\ DOMAIN live' = {} /\ initialized'
    BY <1>1, <2>1, <2>2, Idle DEF Nodes
  <2> QED
    BY <1>1, <2>1, <2>3, Leaves DEF Nodes
<1> QED
  BY <1>4, <1>5

------------------------------------------------------------------------------
\* Task 5's ints are no headers,
LEMMA IntsHarmless ==
    ASSUME HeapInv, SmallSizes, NEW p \in DOMAIN live
    PROVE  \A w \in Array(p) : Harmless(IntWord(w - p)) /\ w \in Word
<1> USE MyMallocAssumption
<1> SUFFICES ASSUME NEW w \in Array(p) PROVE Harmless(IntWord(w - p)) /\ w \in Word
  OBVIOUS
<1>1. Holds(mem, live)
  BY DEF HeapInv
<1>2. p \in Nat /\ w \in Word
  BY <1>1, PayloadInside DEF Array
<1>3. Need(live[p]) \in Nat
  BY <1>1, ObjectChunk
<1>4. w \in p .. p + Need(live[p]) - 1
  BY DEF Array, Payload
<1>5. Words + (w - p) \in Nat /\ Words + (w - p) >= Words
  BY <1>2, <1>3, <1>4
<1>6. Harmless(Header(Words + (w - p), FALSE))
  BY <1>5, HeaderHarmless
<1> QED
  BY <1>2, <1>6 DEF IntWord

\* and stay while nothing is written.
LEMMA CountsStay ==
    ASSUME NEW p \in DOMAIN live, Counts(p), live'[p] = live[p],
           \A w \in Payload(p, live[p]) : mem'[w] = mem[w]
    PROVE  /\ live'[p] % 4 = 0
           /\ \A w \in Payload(p, live'[p]) : mem'[w] = IntWord(w - p)
  BY DEF Counts, Array

\* The steps of task 5.
LEMMA Task5MallocStep ==
    ASSUME HeapInv, Careful, DataInv, RunInv, Task5Malloc
    PROVE  Goes
<1>1. /\ task = "task5" /\ pc = "malloc" /\ task \in Tasks /\ task' = task /\ pc' = "init"
      /\ DOMAIN live = {}
  BY DEF Task5Malloc, DataInv, Task5Inv, Tasks, Goto
<1>2. PICK p \in Word : Asks(p) /\ ptrs' = <<p>>
  BY DEF Task5Malloc
<1>3. Requests = {4 * FIRST} /\ 4 * FIRST \in Sizes
  BY <1>1, SizesAssumption DEF Requests
<1>4. /\ HeapInv' /\ initialized' /\ exited' = exited
      /\ DOMAIN live' = {p} /\ live'[p] = 4 * FIRST
  BY <1>1, <1>2, <1>3, AsksGrows DEF Careful
<1>5. FIRST \in Nat /\ (4 * FIRST) % 4 = 0
  BY MemgrindAssumption
<1>6. Task5Inv'
  BY <1>1, <1>2, <1>4, <1>5 DEF Task5Inv
<1> QED
  BY <1>1, <1>4, <1>6, Stays

\* The first array is filled,
LEMMA FillArrayStep ==
    ASSUME HeapInv, Careful, DataInv, RunInv, FillArray
    PROVE  Goes
<1> DEFINE p == ptrs[1]
           f == [w \in Array(p) |-> IntWord(w - p)]
<1>1. /\ task = "task5" /\ pc = "init" /\ task \in Tasks /\ task' = task /\ pc' = "op"
      /\ ptrs' = ptrs /\ initialized /\ Writes(f)
  BY Places DEF FillArray, RunInv, Tasks, Goto
<1>2. ptrs = <<p>> /\ DOMAIN live = {p} /\ live[p] % 4 = 0
  BY <1>1 DEF DataInv, Task5Inv
<1>3. \A w \in Array(p) : Harmless(IntWord(w - p)) /\ w \in Word
  BY <1>2, IntsHarmless DEF Careful
<1>4. DOMAIN f = Array(p) /\ \A w \in Array(p) : f[w] = IntWord(w - p)
  OBVIOUS
<1> HIDE DEF f
<1>5. Own(f)
  BY <1>2, <1>3, <1>4 DEF Own, Array
<1>6. /\ HeapInv' /\ live' = live /\ initialized'
      /\ \A w \in Word : mem'[w] = IF w \in DOMAIN f THEN f[w] ELSE mem[w]
  BY <1>1, <1>5, WritesHold DEF Careful
<1>7. \A w \in Array(p) : mem'[w] = IntWord(w - p)
  BY <1>3, <1>4, <1>6
<1>8. Counts(ptrs[1])'
  BY <1>1, <1>2, <1>6, <1>7 DEF Counts, Array, IntWord
<1>9. Task5Inv'
  BY <1>1, <1>2, <1>6, <1>8 DEF Task5Inv
<1>10. exited' = exited
  BY <1>1 DEF Writes
<1> QED
  BY <1>1, <1>6, <1>9, <1>10, Stays

\* a second one allocated, which leaves the ints of the first,
LEMMA ResizeStep ==
    ASSUME HeapInv, Careful, DataInv, RunInv, Resize
    PROVE  Goes
<1> DEFINE o == ptrs[1]
<1>1. /\ task = "task5" /\ pc = "op" /\ i < MAX_OPS /\ task \in Tasks /\ task' = task
      /\ pc' = "copy"
  BY Places DEF Resize, Tasks, Goto
<1>2. ptrs = <<o>> /\ DOMAIN live = {o} /\ Counts(o) /\ Task5Inv
  BY <1>1 DEF DataInv, Task5Inv
<1>3. PICK p \in Word : Asks(p) /\ ptrs' = <<o, p>>
  BY DEF Resize
<1>4. Requests = {4 * n : n \in Resized(Ints(o))}
  BY <1>1 DEF Requests
<1>5. PICK s \in Requests : Malloc(s) /\ p = Got(s)
  BY <1>3 DEF Asks
<1>6. o \in DOMAIN live /\ live[o] \in Sizes /\ live[o] \in Nat /\ live[o] % 4 = 0
  <2>1. Holds(mem, live) /\ o \in DOMAIN live
    BY <1>2 DEF HeapInv
  <2> QED
    BY <1>2, <2>1, ObjectChunk DEF Counts, Careful
<1>7. s \in Sizes
  BY <1>4, <1>6, SizesAssumption DEF Ints
<1>8. s % 4 = 0
  <2>1. PICK n \in Resized(Ints(o)) : s = 4 * n
    BY <1>4
  <2>2. Ints(o) \in Nat
    BY <1>6 DEF Ints
  <2>3. n \in Nat
    BY <2>1, <2>2 DEF Resized
  <2> QED
    BY <2>1, <2>3
<1>9. /\ HeapInv' /\ initialized' /\ exited' = exited
  BY <1>5, <1>7, MallocHolds DEF HeapInv, Malloc, Careful
<1>10. /\ p \notin DOMAIN live
       /\ live' = [q \in DOMAIN live \cup {p} |-> IF q = p THEN s ELSE live[q]]
       /\ \A q \in DOMAIN live : \A w \in Payload(q, live[q]) : mem'[w] = mem[w]
  BY <1>5, <1>7, MallocKeeps DEF Careful
<1>11. DOMAIN live' = {o, p} /\ live'[p] = s /\ live'[o] = live[o] /\ p # o
  BY <1>2, <1>10
<1>12. /\ live'[o] % 4 = 0
       /\ \A w \in Payload(o, live'[o]) : mem'[w] = IntWord(w - o)
  BY <1>2, <1>6, <1>10, <1>11, CountsStay
<1>13. ptrs'[1] = o /\ ptrs'[2] = p
  BY <1>3
<1>14. Counts(ptrs[1])'
  BY <1>12, <1>13 DEF Counts, Array, IntWord
<1>15. Task5Inv'
  BY <1>1, <1>3, <1>8, <1>11, <1>13, <1>14 DEF Task5Inv
<1> QED
  BY <1>1, <1>9, <1>15, Stays

\* or not,
LEMMA LeaveSizeStep ==
    ASSUME HeapInv, Careful, DataInv, RunInv, LeaveSize \/ Task5Rest
    PROVE  Goes
<1>1. /\ task = "task5" /\ pc = "op" /\ task \in Tasks /\ task' = task /\ pc' \in {"op", "free"}
      /\ ptrs' = ptrs /\ initialized /\ Computes
  BY Places DEF LeaveSize, Task5Rest, RunInv, Tasks, Goto
<1>2. HeapInv' /\ exited' = exited /\ live' = live /\ mem' = mem /\ initialized'
  BY <1>1, Idle
<1>3. ptrs = <<ptrs[1]>> /\ DOMAIN live = {ptrs[1]} /\ Counts(ptrs[1])
  BY <1>1 DEF DataInv, Task5Inv
<1>4. Counts(ptrs[1])'
  BY <1>1, <1>2, <1>3 DEF Counts, Array, IntWord
<1>5. Task5Inv'
  BY <1>1, <1>2, <1>3, <1>4 DEF Task5Inv
<1> QED
  BY <1>1, <1>2, <1>5, Stays

\* the ints copied and more made up,
LEMMA CopyStep ==
    ASSUME HeapInv, Careful, DataInv, RunInv, Copy
    PROVE  Goes
<1> DEFINE o == ptrs[1]
           p == ptrs[2]
           f == [w \in Array(p) |-> LET old == w - p + o
                                    IN IF old \in Array(o) THEN mem[old] ELSE IntWord(w - p)]
<1>1. /\ task = "task5" /\ pc = "copy" /\ task \in Tasks /\ task' = task /\ pc' = "free"
      /\ ptrs' = ptrs /\ initialized /\ Writes(f)
  BY Places DEF Copy, RunInv, Tasks, Goto
<1>2. /\ ptrs = <<o, p>> /\ o # p /\ DOMAIN live = {o, p} /\ Counts(o) /\ live[p] % 4 = 0
  BY <1>1 DEF DataInv, Task5Inv
<1>3. \A w \in Array(p) : Harmless(IntWord(w - p)) /\ w \in Word
  BY <1>2, IntsHarmless DEF Careful
<1>4. o \in Nat /\ p \in Nat
  BY <1>1, <1>2, ObjectChunk DEF HeapInv, Careful
<1>5. \A w \in Array(p) : f[w] = IntWord(w - p)
  <2> SUFFICES ASSUME NEW w \in Array(p), w - p + o \in Array(o)
               PROVE  mem[w - p + o] = IntWord(w - p)
    OBVIOUS
  <2>1. mem[w - p + o] = IntWord((w - p + o) - o)
    BY <1>2 DEF Counts
  <2>2. w \in Nat
    BY <1>3 DEF Word
  <2>3. (w - p + o) - o = w - p
    BY <1>4, <2>2
  <2> QED
    BY <2>1, <2>3
<1>6. DOMAIN f = Array(p)
  OBVIOUS
<1> HIDE DEF f
<1>7. Own(f)
  BY <1>2, <1>3, <1>5, <1>6 DEF Own, Array
<1>8. /\ HeapInv' /\ live' = live /\ initialized'
      /\ \A w \in Word : mem'[w] = IF w \in DOMAIN f THEN f[w] ELSE mem[w]
  BY <1>1, <1>7, WritesHold DEF Careful
<1>9. \A w \in Array(p) : mem'[w] = IntWord(w - p)
  BY <1>3, <1>5, <1>6, <1>8
<1>10. Counts(ptrs[2])'
  BY <1>1, <1>2, <1>8, <1>9 DEF Counts, Array, IntWord
<1>11. Task5Inv'
  BY <1>1, <1>2, <1>8, <1>10 DEF Task5Inv
<1>12. exited' = exited
  BY <1>1 DEF Writes
<1> QED
  BY <1>1, <1>8, <1>11, <1>12, Stays

\* and the first freed, or the last.
LEMMA Task5FreeStep ==
    ASSUME HeapInv, Careful, DataInv, Task5Free
    PROVE  Goes
<1> DEFINE o == ptrs[1]
           p == ptrs[2]
<1>1. task = "task5" /\ pc = "free" /\ task \in Tasks /\ Gives(o) /\ Task5Inv
  BY DEF Task5Free, DataInv, Tasks
<1>2. CASE ptrs = <<o>> /\ DOMAIN live = {o}
  <2>1. Return
    BY <1>2 DEF Task5Free
  <2>2. HeapInv' /\ initialized' /\ exited' = exited /\ DOMAIN live' = {}
    BY <1>1, <1>2, GivesShrinks
  <2> QED
    BY <1>1, <2>1, <2>2, Leaves
<1>3. CASE ptrs = <<o, p>> /\ o # p /\ DOMAIN live = {o, p} /\ Counts(p)
  <2>1. task' = task /\ pc' = "op" /\ ptrs' = <<p>>
    <3>1. \A x, y : Len(<<x, y>>) = 2 /\ Tail(<<x, y>>) = <<y>>
      OBVIOUS
    <3> HIDE DEF o, p
    <3>2. Len(ptrs) = 2 /\ Tail(ptrs) = <<p>>
      BY <1>3, <3>1
    <3>3. Len(ptrs) > 1
      BY <3>2
    <3>4. Goto("op") /\ ptrs' = Tail(ptrs)
      BY <3>3 DEF Task5Free
    <3> QED
      BY <3>2, <3>4 DEF Goto, Task5Free
  <2>2. /\ HeapInv' /\ initialized' /\ exited' = exited /\ DOMAIN live' = {p}
        /\ \A q \in DOMAIN live' : live'[q] = live[q]
        /\ \A q \in DOMAIN live : \A w \in Payload(q, live[q]) : mem'[w] = mem[w]
    BY <1>1, <1>3, GivesShrinks
  <2>3. /\ live'[p] % 4 = 0
        /\ \A w \in Payload(p, live'[p]) : mem'[w] = IntWord(w - p)
    BY <1>3, <2>2, CountsStay
  <2>4. ptrs'[1] = p
    BY <2>1
  <2>5. Counts(ptrs[1])'
    BY <2>3, <2>4 DEF Counts, Array, IntWord
  <2>6. Task5Inv'
    BY <1>1, <2>1, <2>2, <2>4, <2>5 DEF Task5Inv
  <2> QED
    BY <1>1, <2>1, <2>2, <2>6, Stays
<1> QED
  BY <1>1, <1>2, <1>3 DEF Task5Inv

------------------------------------------------------------------------------
\* The inductive invariant of the programs: the heap holds the objects, and the
\* task that runs has in it what it should.
ProgInv == HeapInv /\ DataInv /\ RunInv

\* A step of one of the tasks, or of memtest.
TaskStep == \/ Task1Malloc \/ Task1Free \/ Memtest
            \/ Task3Malloc \/ Task3Free \/ Task3Rest \/ Task4 \/ Task5

\* Every step of every task keeps what the tasks have in the heap.
LEMMA TaskStepGoes ==
    ASSUME ProgInv, Careful, TaskStep
    PROVE  Goes /\ task \in Tasks
<1> USE DEF ProgInv
<1>1. CASE Task1Malloc \/ Task1Free
  BY <1>1, Task1Step DEF Task1Malloc, Task1Free, Tasks
<1>2. CASE Memtest
  <2>1. task \in Tasks
    BY <1>2, Places DEF Memtest, AllocateAll, Fill, Check, FreeAll, Tasks
  <2> QED
    BY <1>2, <2>1, AllocateAllStep, FillStep, CheckStep, FreeAllStep DEF Memtest
<1>3. CASE Task3Malloc \/ Task3Free \/ Task3Rest
  <2>1. task \in Tasks
    BY <1>3, Places DEF Task3Malloc, Task3Free, Task3Rest, Tasks
  <2> QED
    BY <1>3, <2>1, Task3MallocStep, Task3FreeStep
<1>4. CASE Task4
  <2>1. task \in Tasks
    BY <1>4, Places DEF Task4, Task4Malloc, LinkIn, Keep, Unlink, FreeNode, Walked, FreeRest,
                        Task4Done, Tasks
  <2> QED
    BY <1>4, <2>1, Task4MallocStep, LinkInStep, KeepStep, UnlinkStep, FreeNodeStep,
       FreeRestStep DEF Task4
<1>5. CASE Task5
  <2>1. task \in Tasks
    BY <1>5, Places DEF Task5, Task5Malloc, FillArray, Resize, LeaveSize, Copy, Task5Rest,
                        Task5Free, Tasks
  <2> QED
    BY <1>5, <2>1, Task5MallocStep, FillArrayStep, ResizeStep, LeaveSizeStep, CopyStep,
       Task5FreeStep DEF Task5
<1> QED
  BY <1>1, <1>2, <1>3, <1>4, <1>5 DEF TaskStep

\* Nothing of the invariant reads how the program ended.
LEMMA DataUnread ==
    ASSUME DataInv, UNCHANGED <<mem, live, program>>
    PROVE  DataInv'
<1>1. /\ mem' = mem /\ live' = live /\ task' = task /\ pc' = pc /\ i' = i /\ ptrs' = ptrs
  BY DEF program
<1>2. Task1Inv' /\ Task3Inv' /\ EndInv'
  BY <1>1 DEF DataInv, Task1Inv, Task3Inv, EndInv
<1>3. ArrayInv'
  <2>1. Named' <=> Named
    BY <1>1 DEF Named
  <2>2. Objects' = Objects /\ \A w : Marked(w)' = Marked(w)
    BY <1>1 DEF Objects, Marked
  <2> QED
    BY <1>1, <2>1, <2>2 DEF DataInv, ArrayInv
<1>4. Task4Inv'
  BY <1>1 DEF DataInv, Task4Inv, List, NextOf
<1>5. Task5Inv'
  <2>1. Counts(ptrs[1])' <=> Counts(ptrs[1])
    BY <1>1 DEF Counts, Array
  <2>2. Counts(ptrs[2])' <=> Counts(ptrs[2])
    BY <1>1 DEF Counts, Array
  <2> QED
    BY <1>1, <2>1, <2>2 DEF DataInv, Task5Inv
<1> QED
  BY <1>2, <1>3, <1>4, <1>5 DEF DataInv

\* Every step of every program keeps it.
LEMMA ProgInvStep ==
    ASSUME ProgInv, Careful, [ProgramNext]_<<vars, program>>
    PROVE  ProgInv'
<1>1. CASE TaskStep
  <2>1. Goes /\ task \in Tasks
    BY <1>1, TaskStepGoes
  <2>2. RunInv'
    BY <2>1 DEF Goes, RunInv, ProgInv, Tasks
  <2> QED
    BY <2>1, <2>2 DEF Goes, ProgInv
<1>2. CASE Ends
  <2>1. /\ UNCHANGED <<mem, live, program>> /\ initialized' = initialized
        /\ exited' = Outcome
        /\ Outcome = "ok" => task = "end"
    BY <1>2 DEF Ends, Leave, heap, Outcome
  <2>2. HeapInv'
    BY <2>1 DEF ProgInv, HeapInv, Holds
  <2>3. RunInv'
    BY <2>1 DEF ProgInv, RunInv, program, Tasks
  <2> QED
    BY <2>1, <2>2, <2>3, DataUnread DEF ProgInv
<1>3. CASE UNCHANGED <<vars, program>>
  <2>1. UNCHANGED <<mem, live, program>> /\ initialized' = initialized /\ exited' = exited
    BY <1>3 DEF vars, heap
  <2>2. HeapInv'
    BY <2>1 DEF ProgInv, HeapInv, Holds
  <2>3. RunInv'
    BY <2>1 DEF ProgInv, RunInv, program
  <2> QED
    BY <2>1, <2>2, <2>3, DataUnread DEF ProgInv
<1>4. CASE OtherProgram
  <2>1. task = "other" /\ task' = "other" /\ pc' = pc /\ Next
    BY <1>4 DEF OtherProgram, program
  <2>2. HeapInv'
    BY <2>1, HeapInvStep DEF ProgInv
  <2>3. DataInv'
    BY <2>1 DEF DataInv, Task1Inv, ArrayInv, Task3Inv, Task4Inv, Task5Inv, EndInv
  <2>4. RunInv'
    BY <2>1 DEF ProgInv, RunInv
  <2> QED
    BY <2>2, <2>3, <2>4 DEF ProgInv
<1> QED
  BY <1>1, <1>2, <1>3, <1>4 DEF ProgramNext, TaskStep, Ended

\* Programs start with it,
LEMMA ProgInvInit == ProgramInit => ProgInv
<1> SUFFICES ASSUME ProgramInit PROVE ProgInv
  OBVIOUS
<1>1. /\ task \in {"task1", "memtest", "other"} /\ pc = Entry(task) /\ i = 0
      /\ ptrs = Pointers(task) /\ DOMAIN live = {} /\ exited = "no"
  BY DEF ProgramInit, Init
<1>2. HeapInv
  BY DEF ProgramInit, Init, HeapInv
<1>3. pc = "malloc" /\ ptrs = <<>>
  BY <1>1 DEF Entry, Pointers
<1>4. ArrayInv
  <2>1. <<>> \in Seq(Nat) /\ Len(<<>>) = 0 /\ 1..0 = {}
    OBVIOUS
  <2>2. Named
    BY <1>1, <1>3, <2>1 DEF Named
  <2> QED
    BY <1>1, <1>3, <2>2 DEF ArrayInv
<1>5. DataInv
  BY <1>1, <1>3, <1>4 DEF DataInv, Task1Inv, Task3Inv, Task4Inv, Task5Inv, EndInv
<1>6. RunInv
  BY <1>1, <1>3 DEF RunInv, Tasks
<1> QED
  BY <1>2, <1>5, <1>6 DEF ProgInv

\* so it always holds.
LEMMA ProgInvHolds == ASSUME Careful PROVE ProgramSpec => []ProgInv
<1>1. ProgInv /\ [ProgramNext]_<<vars, program>> => ProgInv'
  BY ProgInvStep
<1> QED
  BY <1>1, ProgInvInit, PTL DEF ProgramSpec

------------------------------------------------------------------------------
\* The tasks ask for sizes that may be asked for, and free what is theirs.
LEMMA Permitted ==
    ASSUME ProgInv, Careful, task \in Tasks
    PROVE  Requests \subseteq Sizes /\ Releases \subseteq DOMAIN live
<1> USE DEF ProgInv
<1>1. Requests \subseteq Sizes
  <2>1. CASE pc = "malloc"
    BY <2>1, SizesAssumption
       DEF Requests, Tasks, DataInv, Task3Inv
  <2>2. CASE pc = "choose"
    BY <2>2, SizesAssumption DEF Requests
  <2>3. CASE pc = "op" /\ i < MAX_OPS
    <3>1. Requests = {4 * n : n \in Resized(Ints(ptrs[1]))}
      BY <2>3 DEF Requests
    <3>2. DOMAIN live = {ptrs[1]} /\ live[ptrs[1]] % 4 = 0
      BY <2>3, Places DEF DataInv, Task5Inv, Counts
    <3>3. live[ptrs[1]] \in Sizes
      <4>1. ptrs[1] \in DOMAIN live /\ Holds(mem, live)
        BY <3>2 DEF HeapInv
      <4> QED
        BY <4>1, ObjectChunk DEF Careful
    <3> QED
      BY <3>1, <3>2, <3>3, SizesAssumption DEF Ints
  <2>4. CASE pc \notin {"malloc", "choose"} /\ ~(pc = "op" /\ i < MAX_OPS)
    BY <2>4 DEF Requests
  <2> QED
    BY <2>1, <2>2, <2>3, <2>4
<1>2. Releases \subseteq DOMAIN live
  <2>1. CASE pc = "free"
    <3>1. ptrs[1] \in DOMAIN live
      <4>1. CASE task \in {"task2", "memtest"}
        <5>1. Named /\ Len(ptrs) > 0 /\ Len(ptrs) \in Nat
          BY <2>1, <4>1 DEF DataInv, ArrayInv, Named
        <5> QED
          BY <5>1 DEF Named
      <4>2. CASE task \notin {"task2", "memtest"}
        BY <2>1, <4>2 DEF Tasks, DataInv, Task1Inv, Task3Inv, Task4Inv, Task5Inv
      <4> QED
        BY <4>1, <4>2
    <3> QED
      BY <2>1, <3>1 DEF Releases
  <2>2. CASE pc = "choose"
    <3>1. Task3Inv /\ task = "task3"
      BY <2>2, Places DEF DataInv
    <3>2. /\ ptrs \in [1..ALLOC_COUNT -> Nat]
          /\ DOMAIN live = {ptrs[k] : k \in 1..ALLOC_COUNT} \ {0}
      BY <3>1 DEF Task3Inv
    <3> QED
      BY <2>2, <3>2 DEF Releases
  <2>3. CASE pc = "unlinked"
    <3>1. Task4Inv /\ task = "task4"
      BY <2>3, Places DEF DataInv
    <3> QED
      BY <2>3, <3>1 DEF Releases, Task4Inv
  <2>4. CASE pc = "rest"
    <3>1. Task4Inv /\ task = "task4"
      BY <2>4, Places DEF DataInv
    <3>2. List(DOMAIN live, ptrs[1])
      BY <2>4, <3>1 DEF Task4Inv
    <3>3. ptrs[1] = 0 \/ ptrs[1] \in DOMAIN live
      BY <3>2 DEF List, Chain
    <3> QED
      BY <2>4, <3>3 DEF Releases
  <2>5. CASE pc \notin {"free", "choose", "unlinked", "rest"}
    BY <2>5 DEF Releases
  <2> QED
    BY <2>1, <2>2, <2>3, <2>4, <2>5
<1> QED
  BY <1>1, <1>2

\* What a program writes into its objects.
Stores == Fill \/ LinkIn \/ Unlink \/ FillArray \/ Copy

\* What a step of a program does to the heap.
LEMMA StepKinds ==
    ASSUME ProgInv, Careful, [ProgramNext]_<<vars, program>>
    PROVE  \/ \E s \in Sizes : Malloc(s)
           \/ \E p \in DOMAIN live : Free(p)
           \/ Stores /\ Running /\ UNCHANGED <<initialized, exited, report, live>>
           \/ Running /\ (Leave("ok") \/ Leave("error"))
           \/ UNCHANGED vars
           \/ Next
<1>1. ASSUME NEW p, Asks(p), task \in Tasks PROVE \E s \in Sizes : Malloc(s)
  <2>1. Requests \subseteq Sizes
    BY <1>1, Permitted
  <2> QED
    BY <1>1, <2>1 DEF Asks
<1>2. ASSUME NEW p, Gives(p), task \in Tasks PROVE \E q \in DOMAIN live : Free(q)
  <2>1. Releases \subseteq DOMAIN live
    BY <1>2, Permitted
  <2> QED
    BY <1>2, <2>1 DEF Gives
<1>3. CASE TaskStep
  <2>1. task \in Tasks
    BY <1>3, TaskStepGoes
  <2>2. CASE Task1Malloc \/ AllocateAll \/ Task3Malloc \/ Task4Malloc \/ Task5Malloc \/ Resize
    BY <1>1, <2>1, <2>2 DEF Task1Malloc, AllocateAll, Task3Malloc, Task4Malloc, Task5Malloc, Resize
  <2>3. CASE Task1Free \/ FreeAll \/ Task3Free \/ FreeNode \/ FreeRest \/ Task5Free
    BY <1>2, <2>1, <2>3 DEF Task1Free, FreeAll, Task3Free, FreeNode, FreeRest, Task5Free
  <2>4. CASE Stores
    BY <2>4 DEF Stores, Fill, LinkIn, Unlink, FillArray, Copy, Writes
  <2>5. CASE Check \/ Keep \/ Walked \/ Task4Done \/ LeaveSize \/ Task5Rest
    BY <2>5 DEF Check, Keep, Walked, Task4Done, LeaveSize, Task5Rest, Computes
  <2>6. CASE Task3Rest
    BY <1>2, <2>1, <2>6 DEF Task3Rest, Computes
  <2> QED
    BY <1>3, <2>2, <2>3, <2>4, <2>5, <2>6 DEF TaskStep, Memtest, Task4, Task5, Stores
<1>4. CASE Ends
  <2>1. Outcome \in {"ok", "error"}
    BY <1>4 DEF Ends, Outcome
  <2> QED
    BY <1>4, <2>1 DEF Ends
<1>5. CASE Ended \/ UNCHANGED <<vars, program>>
  BY <1>5 DEF Ended
<1>6. CASE OtherProgram
  BY <1>6 DEF OtherProgram
<1> QED
  BY <1>3, <1>4, <1>5, <1>6 DEF ProgramNext, TaskStep

------------------------------------------------------------------------------
\* What mymalloc promises holds whatever programs run on it: the headers tile
\* the heap and its chunks in use are the objects, a chunk is as large as its
\* object or a word larger, no two free chunks lie side by side, a request fails
\* only when no room is left (58-110, 156-221). The test programs write words of
\* their own, links, marks and ints, into the heap, and none of them is taken
\* for a header.
THEOREM HeapKept ==
    ASSUME Careful
    PROVE  ProgramSpec => [](Tiled /\ FitsTightly /\ NoTwoFree /\ FailsOnlyWhenFull)
<1>1. ProgInv => Tiled /\ FitsTightly /\ NoTwoFree /\ FailsOnlyWhenFull
  BY TiledHolds, FitsHolds, NoTwoFreeHolds, FullHolds DEF ProgInv
<1> QED
  BY <1>1, ProgInvHolds, PTL

\* And free takes nothing but their objects, while other programs write nothing
\* that reads as a chunk in use (193-216).
THEOREM OnlyObjectsFreed ==
    ASSUME SmallSizes, HarmlessData
    PROVE  ProgramSpec => []MisuseCaught
<1>1. ProgInv => MisuseCaught
  BY CaughtHolds DEF ProgInv
<1>2. Careful
  BY DEF Careful
<1> QED
  BY <1>1, <1>2, ProgInvHolds, PTL

\* What the tasks free is theirs, and free takes it.
FreesAccepted == task # "other" => \A p \in Releases : Appropriate(p)

\* It is a chunk in use.
LEMMA Accepted == ASSUME ProgInv, Careful PROVE FreesAccepted
<1> SUFFICES ASSUME task # "other", NEW p \in Releases PROVE Appropriate(p)
  BY DEF FreesAccepted
<1>1. task \in Tasks
  BY DEF ProgInv, RunInv, Releases
<1>2. p \in DOMAIN live /\ Holds(mem, live)
  BY <1>1, Permitted DEF ProgInv, HeapInv
<1>3. p \in -1..Words
  BY <1>2, ObjectChunk, MyMallocAssumption DEF Careful, Word
<1> QED
  BY <1>2, <1>3, PassesFree DEF ProgInv, Careful

\* The tasks never give free what it refuses: what they free is theirs, and has
\* been since they allocated it, though merges and splits go on around it
\* (memgrind.c 14-146, mymalloc.c 193-216).
THEOREM NoFreeRefused == ASSUME Careful PROVE ProgramSpec => []FreesAccepted
<1>1. ProgInv => FreesAccepted
  BY Accepted
<1> QED
  BY <1>1, ProgInvHolds, PTL

\* The programs find in the heap what they put there, for any counts, any sizes
\* and any heap: memtest its marks, task 4 all the nodes it has not freed, from
\* the head on, task 5 its ints (memtest.c 36-52, memgrind.c 66-146).
THEOREM DataFound == ASSUME Careful PROVE ProgramSpec => []DataIntact
<1>1. ProgInv => DataIntact
  <2> SUFFICES ASSUME ProgInv PROVE DataIntact
    OBVIOUS
  <2>1. task = "memtest" /\ pc = "free" => i = 0
    BY DEF ProgInv, DataInv, ArrayInv
  <2>2. task = "task4" /\ pc \in {"malloc", "rest"} => Reached = DOMAIN live
    BY ListReached DEF ProgInv, DataInv, Task4Inv
  <2>3. task = "task5" /\ pc = "op" => \A w \in Array(ptrs[1]) : mem[w] = IntWord(w - ptrs[1])
    BY DEF ProgInv, DataInv, Task5Inv, Counts
  <2> QED
    BY <2>1, <2>2, <2>3 DEF DataIntact
<1> QED
  BY <1>1, ProgInvHolds, PTL

\* Neither malloc nor free changes a word of an object that stays
\* (mymalloc.c 74, 102).
LEMMA KeptStep ==
    ASSUME ProgInv, Careful, [ProgramNext]_<<vars, program>>, ~Stores, ~Write
    PROVE  \A p \in DOMAIN live \cap DOMAIN live' :
              \A w \in Payload(p, live[p]) : mem'[w] = mem[w]
<1> USE DEF ProgInv, Careful
<1>1. ASSUME NEW s \in Sizes, Malloc(s)
      PROVE  \A p \in DOMAIN live : \A w \in Payload(p, live[p]) : mem'[w] = mem[w]
  BY <1>1, MallocKeeps
<1>2. ASSUME NEW p, p \in DOMAIN live, Free(p)
      PROVE  \A q \in DOMAIN live : \A w \in Payload(q, live[q]) : mem'[w] = mem[w]
  BY <1>2, FreeKeeps
<1>3. ASSUME NEW p \in -1..Words, Free(p)
      PROVE  \A q \in DOMAIN live : \A w \in Payload(q, live[q]) : mem'[w] = mem[w]
  <2>1. p \in DOMAIN live
    BY <1>3, PassesFree DEF Free
  <2> QED
    BY <1>2, <1>3, <2>1
<1>4. CASE mem' = mem
  BY <1>4
<1>5. CASE MallocZero \/ \E s \in Sizes : MallocFails(s)
  <2>1. mem' = Heap
    BY <1>5, HeapHolds, MergedIsHeap DEF MallocZero, MallocFails
  <2>2. CASE initialized
    BY <2>1, <2>2 DEF Heap
  <2>3. CASE ~initialized
    BY <2>3 DEF HeapInv
  <2> QED
    BY <2>2, <2>3
<1>6. CASE Next
  BY <1>1, <1>3, <1>4, <1>5, <1>6
     DEF Next, FreeInappropriate, Exit, Exited, Leave, vars, heap
<1>7. CASE Running /\ (Leave("ok") \/ Leave("error"))
  BY <1>4, <1>7 DEF Leave, heap
<1>8. CASE UNCHANGED vars
  BY <1>4, <1>8 DEF vars, heap
<1> QED
  BY <1>1, <1>2, <1>6, <1>7, <1>8, StepKinds

\* So what a program has written it has, until it frees it.
THEOREM PayloadsKept == ASSUME Careful PROVE ProgramSpec => PayloadKept
<1>1. ProgInv /\ [ProgramNext]_<<vars, program>> =>
        [\/ Write \/ Fill \/ LinkIn \/ Unlink \/ FillArray \/ Copy
         \/ \A p \in DOMAIN live \cap DOMAIN live' :
               \A w \in Payload(p, live[p]) : mem'[w] = mem[w]]_vars
  BY KeptStep DEF Stores
<1> QED
  BY <1>1, ProgInvHolds, PTL DEF ProgramSpec, PayloadKept

\* Under every program the heap is an allocator: it hands out no word twice.
THEOREM ProgramsHaveAllocator == ASSUME Careful PROVE ProgramSpec => ImplementsAllocator
<1>1. ProgramInit => A!Init
  BY DEF ProgramInit, Init, A!Init
<1>2. ProgInv /\ [ProgramNext]_<<vars, program>> => [A!Next]_(A!vars)
  <2> SUFFICES ASSUME ProgInv, [ProgramNext]_<<vars, program>> PROVE [A!Next]_(A!vars)
    OBVIOUS
  <2>1. ASSUME Next PROVE [A!Next]_(A!vars)
    BY <2>1, HeapStepAllocates DEF ProgInv
  <2>2. ASSUME NEW s \in Sizes, Malloc(s) PROVE A!Next
    BY <2>2, MallocAllocates DEF A!Next, Careful, ProgInv
  <2>3. ASSUME NEW p \in DOMAIN live, Free(p) PROVE A!Next
    BY <2>3 DEF Free, Running, A!Free, A!Next
  <2>4. CASE Running /\ (Leave("ok") \/ Leave("error"))
    BY <2>4 DEF Running, Leave, A!Exit, A!Next
  <2>5. CASE UNCHANGED <<live, exited>>
    BY <2>5 DEF A!vars
  <2> QED
    BY <2>1, <2>2, <2>3, <2>4, <2>5, StepKinds DEF vars
<1> QED
  BY <1>1, <1>2, ProgInvHolds, PTL DEF ProgramSpec, ImplementsAllocator, A!Spec

\* The report is that of the heap the program leaves.
LEMMA ProgramReports == ASSUME Careful PROVE ProgramSpec => []ReportInv
<1>1. ProgramInit => ReportInv
  BY DEF ProgramInit, Init, ReportInv
<1>2. ProgInv /\ ReportInv /\ [ProgramNext]_<<vars, program>> => ReportInv'
  <2> SUFFICES ASSUME ProgInv, ReportInv, [ProgramNext]_<<vars, program>> PROVE ReportInv'
    OBVIOUS
  <2>1. CASE Next
    BY <2>1, ReportInvStep
  <2>2. CASE Running /\ exited' = exited /\ report' = report
    BY <2>2 DEF ReportInv, Running
  <2>3. CASE Running /\ (Leave("ok") \/ Leave("error"))
    <3>1. mem' = mem /\ initialized' = initialized
      BY <2>3 DEF Leave, heap
    <3>2. check_leaks' = check_leaks
      BY <3>1 DEF check_leaks, Chunks, After
    <3> QED
      BY <2>3, <3>1, <3>2 DEF Leave, ReportInv
  <2>4. CASE UNCHANGED vars
    BY <2>4, ReportInvStep
  <2> QED
    BY <2>1, <2>2, <2>3, <2>4, StepKinds DEF Malloc, Free
<1> QED
  BY <1>1, <1>2, ProgInvHolds, PTL DEF ProgramSpec

\* The report at exit names every object that was not freed, and at most 15
\* bytes for each beyond what was asked for, and the variables have their types
\* (136-148).
THEOREM LeaksNamed == ASSUME Careful PROVE ProgramSpec => [](LeaksCounted /\ TypeOK)
<1>1. ProgInv /\ ReportInv => LeaksCounted /\ TypeOK
  BY CountedHolds, TypesHold DEF ProgInv
<1> QED
  BY <1>1, ProgInvHolds, ProgramReports, PTL

------------------------------------------------------------------------------
\* Room. The objects before the word w,
Before(l, w) == {p \in DOMAIN l : p - 1 < w}

\* whose number goes up by one at each chunk in use.
LEMMA BeforeCounts ==
    ASSUME NEW m, NEW l, Holds(m, l), SmallSizes, NEW b \in Chunks(m)
    PROVE  /\ IsFiniteSet(DOMAIN l) /\ Before(l, Words) = DOMAIN l
           /\ Cardinality(Before(l, b)) \in Nat
           /\ Cardinality(Before(l, After(m, b))) =
                 Cardinality(Before(l, b)) + (IF m[b].used THEN 1 ELSE 0)
           /\ m[b].used => b + 1 \in DOMAIN l
<1> USE MyMallocAssumption
<1> DEFINE S == Chunks(m)
<1>1. m \in Mem /\ Tiles(m, S) /\ DOMAIN l = {a + 1 : a \in Used(m, S)}
  BY DEF Holds
<1>2. \A p \in DOMAIN l : p - 1 \in S /\ p \in Word /\ p \in Nat /\ p - 1 \in Word /\ m[p - 1].used
  BY ObjectChunk
<1>3. IsFiniteSet(DOMAIN l)
  <2>1. IsFiniteSet(Word)
    BY FS_Interval DEF Word
  <2>2. DOMAIN l \in SUBSET Word
    BY <1>2
  <2> QED
    BY <2>1, <2>2, FS_Subset
<1> HIDE DEF S
<1>4. b \in S /\ b \in Word /\ b \in Nat /\ After(m, b) \in Nat /\ b < After(m, b)
  BY <1>1, AfterLater DEF Tiles, S
<1>5. \A p \in DOMAIN l : p - 1 < After(m, b) <=> p - 1 < b \/ p = b + 1
  <2> SUFFICES ASSUME NEW p \in DOMAIN l
               PROVE  p - 1 < After(m, b) <=> p - 1 < b \/ p = b + 1
    OBVIOUS
  <2>1. b < p - 1 => After(m, b) <= p - 1
    BY <1>1, <1>2, <1>4, TilesApart
  <2> QED
    BY <1>2, <1>4, <2>1
<1>6. IsFiniteSet(Before(l, b)) /\ Cardinality(Before(l, b)) \in Nat
  BY <1>3, FS_Subset, FS_CardinalityType DEF Before
<1>7. Before(l, Words) = DOMAIN l
  <2>1. \A w \in Word : w < Words
    BY DEF Word
  <2> QED
    BY <1>2, <2>1 DEF Before
<1>8. CASE m[b].used
  <2>1. b + 1 \in DOMAIN l
    BY <1>1, <1>4, <1>8 DEF Used
  <2>2. Before(l, After(m, b)) = Before(l, b) \cup {b + 1} /\ b + 1 \notin Before(l, b)
    BY <1>4, <1>5, <2>1 DEF Before
  <2>3. Cardinality(Before(l, After(m, b))) = Cardinality(Before(l, b)) + 1
    BY <1>6, <2>2, FS_AddElement
  <2> QED
    BY <1>3, <1>6, <1>7, <1>8, <2>1, <2>3
<1>9. CASE ~m[b].used
  <2>1. b + 1 \notin DOMAIN l
    BY <1>2, <1>4, <1>9
  <2>2. Before(l, After(m, b)) = Before(l, b)
    BY <1>5, <2>1 DEF Before
  <2> QED
    BY <1>3, <1>6, <1>7, <1>9, <2>2
<1> QED
  BY <1>8, <1>9

\* A heap with no room for n words more has objects all over: it is full of
\* chunks of at most n + 2 words in use and, between them, of at most n free.
LEMMA NoRoom ==
    ASSUME NEW m, NEW l, Holds(m, l), SmallSizes, NEW n \in Nat, n >= 1, find_free(m, n) = {},
           \A p \in DOMAIN l : Need(l[p]) <= n
    PROVE  Words <= (2 * n + 2) * Cardinality(DOMAIN l) + n
<1> USE MyMallocAssumption
<1> DEFINE S == Chunks(m)
           c == 2 * n + 2
           N(a) == Cardinality(Before(l, a))
           Near(a) == /\ a <= c * N(a) + n
                      /\ \A b \in S : After(m, b) = a /\ m[b].used => a <= c * N(a)
           Bad == {a \in S : ~(Near(a) /\ Near(After(m, a)))}
<1>1. m \in Mem /\ Tiles(m, S) /\ FreeApart(m, S)
  BY DEF Holds
<1> HIDE DEF S
<1>2. \A b \in S : /\ b \in Word /\ b \in Nat /\ m[b].size \in Nat /\ m[b].size > 0
                   /\ m[b].used \in BOOLEAN
                   /\ After(m, b) \in Nat /\ After(m, b) <= Words /\ b < After(m, b)
                   /\ After(m, b) = b + 1 + m[b].size
  BY <1>1, AfterLater DEF Tiles, After
<1>3. \A b \in S : /\ N(b) \in Nat
                   /\ N(After(m, b)) = N(b) + (IF m[b].used THEN 1 ELSE 0)
                   /\ m[b].used => b + 1 \in DOMAIN l
  BY BeforeCounts DEF S
<1>4. \A b \in S : m[b].used => After(m, b) <= b + n + 2
  <2> SUFFICES ASSUME NEW b \in S, m[b].used PROVE After(m, b) <= b + n + 2
    OBVIOUS
  <2>1. b + 1 \in DOMAIN l /\ (b + 1) - 1 = b
    BY <1>2, <1>3
  <2>2. Need(l[b + 1]) \in Nat /\ Need(l[b + 1]) <= n
    BY <2>1, ObjectChunk
  <2>3. m[(b + 1) - 1].size - Need(l[b + 1]) \in {0, 1}
    BY <2>1 DEF Holds
  <2>4. m[b].size - Need(l[b + 1]) \in {0, 1}
    BY <2>1, <2>3
  <2> QED
    BY <1>2, <2>2, <2>4
<1>5. \A b \in S : ~m[b].used => After(m, b) <= b + n
  BY <1>2 DEF find_free, S
<1>6. ASSUME NEW b \in S, Near(b) PROVE Near(After(m, b))
  <2> DEFINE a == After(m, b)
  <2>0. \A d \in S : After(m, d) = a => d = b
    <3> SUFFICES ASSUME NEW d \in S, After(m, d) = a, d # b PROVE FALSE
      OBVIOUS
    <3>1. d < b => After(m, d) <= b
      BY <1>1, TilesApart
    <3>2. b < d => After(m, b) <= d
      BY <1>1, TilesApart
    <3> QED
      BY <1>2, <1>6, <3>1, <3>2
  <2> DEFINE x == N(b)
  <2>1. x \in Nat /\ b <= c * x + n /\ c * x \in Nat /\ c \in Nat
    BY <1>3, <1>6
  <2> HIDE DEF x, N
  <2>2. CASE m[b].used
    <3>1. N(a) = x + 1
      BY <1>3, <2>2 DEF x, N
    <3>2. c * (x + 1) = c * x + c
      BY <2>1
    <3>3. a <= c * N(a)
      BY <1>2, <1>4, <2>1, <2>2, <3>1, <3>2
    <3>4. a <= c * N(a) + n
      BY <1>2, <2>1, <3>1, <3>2, <3>3
    <3> QED
      BY <3>3, <3>4
  <2>3. CASE ~m[b].used
    <3>1. N(a) = x
      BY <1>3, <2>1, <2>3 DEF x, N
    <3>2. b <= c * x
      <4>1. CASE b = 0
        BY <2>1, <4>1
      <4>2. CASE b # 0
        <5>1. PICK d \in S : After(m, d) = b
          BY <1>1, <4>2 DEF Tiles
        <5>2. m[d].used
          <6>1. ~IsFree(m, d) \/ ~IsFree(m, b)
            BY <1>1, <5>1 DEF FreeApart
          <6> QED
            BY <1>2, <2>3, <6>1 DEF IsFree
        <5> QED
          BY <1>6, <5>1, <5>2 DEF x, N
      <4> QED
        BY <4>1, <4>2
    <3>3. a <= c * x + n
      BY <1>2, <1>5, <2>1, <2>3, <3>2
    <3> QED
      BY <2>0, <2>3, <3>1, <3>3
  <2> QED
    BY <1>2, <1>6, <2>2, <2>3
<1>7. Near(0)
  <2>1. \A b \in S : After(m, b) # 0
    BY <1>2
  <2>2. N(0) \in Nat
    BY <1>1, <1>3 DEF Tiles
  <2>3. c * N(0) + n \in Nat
    BY <2>2
  <2> HIDE DEF N
  <2> QED
    BY <2>1, <2>3
<1>8. Bad = {}
  <2> HIDE DEF Near
  <2> SUFFICES ASSUME Bad # {} PROVE FALSE
    OBVIOUS
  <2>1. Bad \in SUBSET Nat
    BY <1>2
  <2>2. PICK a \in Bad : \A e \in Bad : a <= e
    <3> HIDE DEF Bad
    <3> QED
      BY <2>1, LeastElement
  <2>3. ~Near(a) /\ a \in S
    BY <1>6
  <2>4. a # 0
    BY <1>7, <2>3
  <2>5. PICK b \in S : After(m, b) = a
    BY <1>1, <2>3, <2>4 DEF Tiles
  <2>6. b \in Bad /\ b < a
    BY <1>2, <2>3, <2>5
  <2> QED
    BY <1>2, <2>2, <2>3, <2>6
<1>9. PICK e \in S : After(m, e) = Words
  BY <1>1, TilesEnd
<1>10. Words <= c * N(Words) + n
  BY <1>8, <1>9
<1>11. N(Words) = Cardinality(DOMAIN l)
  BY <1>9, BeforeCounts DEF S
<1> QED
  BY <1>10, <1>11

Multiple(k, a) == \E j \in Nat : a = k * j

\* Multiples of k are k or more apart, and just k if no more than one over.
LEMMA MultiplesApart ==
    ASSUME NEW k \in Nat, k >= 2, NEW a \in Nat, NEW b \in Nat, a < b,
           Multiple(k, a), Multiple(k, b)
    PROVE  b >= a + k /\ (b <= a + k + 1 => b = a + k)
<1>1. PICK x \in Nat : a = k * x
  BY DEF Multiple
<1>2. PICK y \in Nat : b = k * y
  BY DEF Multiple
<1>3. \A u, v \in Nat : u <= v => k * u <= k * v
  <2> SUFFICES ASSUME NEW u \in Nat, NEW v \in Nat, u <= v PROVE k * u <= k * v
    OBVIOUS
  <2>1. v - u \in Nat /\ v = u + (v - u)
    OBVIOUS
  <2>2. k * (u + (v - u)) = k * u + k * (v - u) /\ k * (v - u) \in Nat /\ k * u \in Nat
    BY <2>1
  <2> QED
    BY <2>1, <2>2
<1>4. x < y
  BY <1>1, <1>2, <1>3
<1>5. k * (x + 1) = k * x + k /\ k * (x + 2) = k * x + 2 * k
  OBVIOUS
<1>6. b >= a + k
  BY <1>1, <1>2, <1>3, <1>4, <1>5
<1>7. CASE y = x + 1
  BY <1>1, <1>2, <1>5, <1>6, <1>7
<1>8. CASE y # x + 1
  <2>1. x + 2 <= y /\ x + 2 \in Nat
    BY <1>4, <1>8
  <2>2. k * (x + 2) <= k * y
    BY <1>3, <2>1
  <2>3. b >= a + 2 * k
    BY <1>1, <1>2, <1>5, <2>2
  <2> QED
    BY <1>6, <2>3
<1> QED
  BY <1>7, <1>8

\* A heap of chunks at a pitch of n + 1 words in which no n are left is full of
\* objects.
LEMMA NoPitch ==
    ASSUME NEW m, NEW l, Holds(m, l), SmallSizes, NEW n \in Nat, n >= 1, find_free(m, n) = {},
           \A p \in DOMAIN l : Need(l[p]) = n,
           \A b \in Chunks(m) : Multiple(n + 1, b), Multiple(n + 1, Words)
    PROVE  Words <= (n + 1) * Cardinality(DOMAIN l)
<1> USE MyMallocAssumption
<1> DEFINE S == Chunks(m)
           k == n + 1
           N(a) == Cardinality(Before(l, a))
           Bad == {a \in S : ~(a <= k * N(a))}
<1>1. m \in Mem /\ Tiles(m, S)
  BY DEF Holds
<1> HIDE DEF S
<1>2. \A b \in S : /\ b \in Word /\ b \in Nat /\ m[b].size \in Nat /\ m[b].size > 0
                   /\ m[b].used \in BOOLEAN
                   /\ After(m, b) \in Nat /\ After(m, b) <= Words /\ b < After(m, b)
                   /\ After(m, b) = Words \/ After(m, b) \in S
                   /\ After(m, b) = b + 1 + m[b].size
  BY <1>1, AfterLater DEF Tiles, After
<1>3. \A b \in S : /\ N(b) \in Nat
                   /\ N(After(m, b)) = N(b) + (IF m[b].used THEN 1 ELSE 0)
                   /\ m[b].used => b + 1 \in DOMAIN l
  BY BeforeCounts DEF S
<1>4. k \in Nat /\ k >= 2 /\ \A b \in S : Multiple(k, b) /\ Multiple(k, After(m, b))
  BY <1>2 DEF S
<1> HIDE DEF k
<1>5. ASSUME NEW b \in S PROVE m[b].used /\ After(m, b) = b + k
  <2>1. After(m, b) >= b + k /\ (After(m, b) <= b + k + 1 => After(m, b) = b + k)
    BY <1>2, <1>4, MultiplesApart
  <2>2. m[b].size >= n
    BY <1>2, <2>1 DEF k
  <2>3. m[b].used
    BY <1>2, <2>2 DEF find_free, S
  <2>4. b + 1 \in DOMAIN l /\ (b + 1) - 1 = b
    BY <1>2, <1>3, <2>3
  <2>5. m[(b + 1) - 1].size - Need(l[b + 1]) \in {0, 1}
    BY <2>4 DEF Holds
  <2>6. m[b].size - n \in {0, 1}
    BY <2>4, <2>5
  <2>7. After(m, b) <= b + k + 1
    BY <1>2, <2>6 DEF k
  <2> QED
    BY <2>1, <2>3, <2>7
<1>6. ASSUME NEW b \in S, b <= k * N(b) PROVE After(m, b) <= k * N(After(m, b))
  <2> DEFINE x == N(b)
  <2>1. x \in Nat /\ b <= k * x /\ N(After(m, b)) = x + 1
    BY <1>3, <1>5, <1>6
  <2> HIDE DEF x, N
  <2>2. k * (x + 1) = k * x + k /\ k * x \in Nat
    BY <1>4, <2>1
  <2> QED
    BY <1>2, <1>4, <1>5, <2>1, <2>2
<1>7. Bad = {}
  <2> HIDE DEF N
  <2> SUFFICES ASSUME Bad # {} PROVE FALSE
    OBVIOUS
  <2>1. Bad \in SUBSET Nat
    BY <1>2
  <2>2. PICK a \in Bad : \A e \in Bad : a <= e
    <3> HIDE DEF Bad
    <3> QED
      BY <2>1, LeastElement
  <2>3. a # 0
    <3>1. N(a) \in Nat
      BY <1>3
    <3>2. k * N(a) \in Nat
      BY <1>4, <3>1
    <3> QED
      BY <3>2
  <2>4. PICK b \in S : After(m, b) = a
    BY <1>1, <2>3 DEF Tiles
  <2>5. b \in Bad /\ b < a
    BY <1>2, <1>6, <2>4
  <2> QED
    BY <1>2, <2>2, <2>5
<1>8. PICK e \in S : After(m, e) = Words
  BY <1>1, TilesEnd
<1>9. Words <= k * N(Words)
  BY <1>6, <1>7, <1>8
<1>10. N(Words) = Cardinality(DOMAIN l)
  BY <1>8, BeforeCounts DEF S
<1> QED
  BY <1>9, <1>10 DEF k

\* An empty heap is one chunk.
LEMMA EmptyHeap ==
    ASSUME NEW m, NEW l, Holds(m, l), DOMAIN l = {}
    PROVE  Chunks(m) = {0}
<1> DEFINE S == Chunks(m)
<1>1. m \in Mem /\ Tiles(m, S) /\ FreeApart(m, S) /\ Used(m, S) = {}
  BY DEF Holds
<1> HIDE DEF S
<1>2. \A b \in S : b \in Word /\ b \in Nat /\ IsFree(m, b) /\ After(m, b) \in Nat
  BY <1>1, AfterLater DEF Tiles, Used, IsFree
<1>3. 0 \in S /\ After(m, 0) = Words
  BY <1>1, <1>2 DEF Tiles, FreeApart
<1>4. ASSUME NEW b \in S, b # 0 PROVE FALSE
  <2>1. After(m, 0) <= b
    BY <1>1, <1>2, <1>3, <1>4, TilesApart
  <2> QED
    BY <1>2, <1>3, <2>1, MyMallocAssumption DEF Word
<1> QED
  BY <1>3, <1>4 DEF S

\* The headers malloc leaves: those it found, and one after its object.
LEMMA MallocChunks ==
    ASSUME HeapInv, SmallSizes, NEW s \in Sizes, Malloc(s)
    PROVE  \A b \in Chunks(mem') : b \in Chunks(Heap) \/ \E a \in Chunks(Heap) : b = a + 1 + Need(s)
<1> USE MyMallocAssumption
<1> DEFINE n == Aligned(s)
           m == Heap
           S == Chunks(m)
           a == First(find_free(m, n))
           k == Taken(m, a, n)
           T == WithRest(m, S, a, n)
<1>1. Holds(m, live)
  BY HeapHolds
<1>2. n \in Nat /\ n >= 1 /\ n = Need(s)
  BY AlignedNeed DEF Malloc
<1>3. find_free(m, n) # {} /\ mem' = k
  <2>1. Merged(n) = m
    BY MergedIsHeap
  <2>2. /\ find_free(Merged(n), n) # {}
        /\ mem' = Taken(Merged(n), First(find_free(Merged(n), n)), n)
    BY DEF Malloc, Taken
  <2> QED
    BY <2>1, <2>2
<1>4. a \in find_free(m, n)
  <2>1. find_free(m, n) \in SUBSET Nat
    BY <1>1 DEF find_free, Holds, Tiles, Word
  <2> QED
    BY <1>3, <2>1, LeastElement DEF First
<1> HIDE DEF n, m, a
<1>5. m \in Mem /\ Tiles(m, S)
  BY <1>1 DEF Holds
<1>6. a \in S /\ IsFree(m, a) /\ m[a].size >= n
  <2>1. a \in S /\ ~m[a].used /\ m[a].size >= n
    BY <1>4 DEF find_free
  <2> QED
    BY <1>5, <2>1, AfterLater DEF IsFree, Tiles
<1>7. k \in Mem /\ Tiles(k, T)
  BY <1>2, <1>5, <1>6, TakenSteps
<1>8. Chunks(mem') = T
  BY <1>3, <1>7, TilesAreChunks
<1> QED
  BY <1>2, <1>6, <1>8 DEF WithRest, m

\* What is in a heap that programs use can be counted.
LEMMA LiveFinite ==
    ASSUME HeapInv, SmallSizes
    PROVE  IsFiniteSet(DOMAIN live) /\ Cardinality(DOMAIN live) \in Nat
<1>1. Holds(Heap, live)
  BY HeapHolds
<1>2. 0 \in Chunks(Heap)
  BY <1>1 DEF Holds, Tiles
<1>3. IsFiniteSet(DOMAIN live)
  BY <1>1, <1>2, BeforeCounts
<1> QED
  BY <1>3, FS_CardinalityType

\* So a request is granted if the objects are few for the heap, and they and it
\* small.
LEMMA RoomFor ==
    ASSUME HeapInv, SmallSizes, NEW s \in Sizes, s # 0, NEW n \in Nat, Need(s) <= n,
           \A p \in DOMAIN live : Need(live[p]) <= n,
           (2 * n + 2) * Cardinality(DOMAIN live) + n < Words
    PROVE  find_free(Merged(Aligned(s)), Aligned(s)) # {}
<1> USE MyMallocAssumption
<1>1. Holds(Heap, live) /\ Merged(Aligned(s)) = Heap
  BY HeapHolds, MergedIsHeap
<1>2. Aligned(s) = Need(s) /\ Need(s) \in Nat /\ Need(s) >= 1
  BY AlignedNeed
<1>3. SUFFICES ASSUME find_free(Heap, Need(s)) = {} PROVE FALSE
  BY <1>1, <1>2
<1>4. \A b \in Chunks(Heap) : b \in Word /\ Heap[b].size \in Nat
  BY <1>1 DEF Holds, Tiles, Mem
<1>5. find_free(Heap, n) = {}
  BY <1>2, <1>3, <1>4 DEF find_free
<1>6. Words <= (2 * n + 2) * Cardinality(DOMAIN live) + n
  BY <1>1, <1>2, <1>5, NoRoom
<1>7. Cardinality(DOMAIN live) \in Nat
  BY LiveFinite
<1>8. (2 * n + 2) * Cardinality(DOMAIN live) \in Nat
  BY <1>7
<1> QED
  BY <1>6, <1>8

\* The largest array of task 5, in ints, and the pitch of memtest's objects.
Largest == IF FIRST > 2 * (MOST - 1) THEN FIRST ELSE 2 * (MOST - 1)
Pitch == Words \div OBJECTS

\* The heap has room for what the tasks have in it, wherever they have it: all
\* but one of the objects of tasks 1 to 3, of one word, and of the nodes, of two;
\* one array of task 5, and another. It has none to spare for memtest.
Roomy == /\ (2 * 1 + 2) * (ALLOC_COUNT - 1) + 1 < Words
         /\ (2 * 2 + 2) * (NODES - 1) + 2 < Words
         /\ (2 * Need(4 * Largest) + 2) + Need(4 * Largest) < Words
         /\ Pitch >= 2 /\ Words = OBJECTS * Pitch

\* As the constants of the code are (mymalloc.c 7, memgrind.c 8, 112, 155, 191,
\* memtest.c 17-20).
LEMMA CodeIsRoomy ==
    ASSUME Words = 512, ALLOC_COUNT = 120, NODES = 60, FIRST = 10, MOST = 80, OBJECTS = 64
    PROVE  Roomy
<1>1. Largest = 158 /\ Pitch = 8
  BY DEF Largest, Pitch
<1>2. Need(4 * Largest) = 79
  BY <1>1 DEF Need
<1> QED
  BY <1>1, <1>2 DEF Roomy

\* So many objects there are, so large; and memtest's chunks lie at its pitch.
ArrayRoom == task \in {"task2", "memtest"} =>
    /\ task = "task2" => \A p \in DOMAIN live : live[p] = 1
    /\ pc = "malloc" =>
          /\ Cardinality(DOMAIN live) <= Len(ptrs)
          /\ Len(ptrs) < (IF task = "task2" THEN ALLOC_COUNT ELSE OBJECTS)
          /\ task = "memtest" => \A b \in Chunks(Heap) : Multiple(Pitch, b)
Room3 == task = "task3" =>
    Cardinality(DOMAIN live) <= i /\ \A p \in DOMAIN live : live[p] = 1
Room4 == task = "task4" =>
    /\ pc = "malloc" => i < NODES /\ Cardinality(DOMAIN live) <= i
    /\ pc = "link" => i < NODES /\ Cardinality(DOMAIN live) <= i + 1
Room5 == task = "task5" => \A p \in DOMAIN live : live[p] <= 4 * Largest

\* So the tasks go on to their end.
GoesOn == task # "other" /\ exited # "no" => task = "end" /\ exited = "ok"

RoomInv == ArrayRoom /\ Room3 /\ Room4 /\ Room5 /\ GoesOn

\* Nothing but the task that runs is to be looked at, if a step stays in it,
LEMMA RoomStays ==
    ASSUME GoesOn, exited' = exited, task \in Tasks, task' = task,
           /\ task \in {"task2", "memtest"} => ArrayRoom'
           /\ task = "task3" => Room3'
           /\ task = "task4" => Room4'
           /\ task = "task5" => Room5'
    PROVE  RoomInv'
<1>1. GoesOn' /\ ArrayRoom' /\ Room3'
  BY DEF GoesOn, ArrayRoom, Room3
<1>2. Room4' /\ Room5'
  BY DEF Room4, Room5
<1> QED
  BY <1>1, <1>2 DEF RoomInv

\* and a task starts with an empty heap.
LEMMA RoomFresh ==
    ASSUME GoesOn, exited' = exited, task \in Tasks, Return, HeapInv', initialized',
           DOMAIN live' = {}
    PROVE  RoomInv'
<1>1. /\ pc' = Entry(task') /\ i' = 0 /\ ptrs' = Pointers(task')
      /\ task' \in Tasks \cup {"end"} /\ exited' = "no"
  BY DEF Return, GoesOn, Tasks, Following
<1>2. Cardinality(DOMAIN live') = 0
  BY FS_EmptySet
<1>3. ALLOC_COUNT > 0 /\ OBJECTS > 0 /\ NODES > 0
      /\ {ALLOC_COUNT, OBJECTS, NODES} \subseteq Nat
  BY MemgrindAssumption
<1>4. ArrayRoom'
  <2>1. Holds(mem', live') /\ Heap' = mem'
    BY DEF HeapInv, Heap
  <2>2. Chunks(Heap)' = {0}
    <3>1. Chunks(mem') = {0}
      BY <2>1, EmptyHeap
    <3> QED
      BY <2>1, <3>1
  <2>3. Multiple(Pitch, 0)
    <3>1. Pitch * 0 = 0
      BY <1>3, MyMallocAssumption DEF Pitch
    <3> QED
      BY <3>1 DEF Multiple
  <2>4. task' \in {"task2", "memtest"} => ptrs' = <<>>
    BY <1>1 DEF Pointers
  <2> QED
    BY <1>2, <1>3, <2>2, <2>3, <2>4 DEF ArrayRoom
<1>5. Room3' /\ Room4'
  <2>1. task' = "task4" => pc' = "malloc"
    BY <1>1 DEF Entry
  <2> QED
    BY <1>1, <1>2, <1>3, <2>1 DEF Room3, Room4
<1>6. Room5' /\ GoesOn'
  BY <1>1 DEF Room5, GoesOn
<1> QED
  BY <1>4, <1>5, <1>6 DEF RoomInv

\* malloc adds one object at most, and none is one fewer at most.
LEMMA OneMore ==
    ASSUME HeapInv, SmallSizes, NEW p, DOMAIN live' = DOMAIN live \cup {p}
    PROVE  Cardinality(DOMAIN live') \in Nat
           /\ Cardinality(DOMAIN live') <= Cardinality(DOMAIN live) + 1
<1>1. IsFiniteSet(DOMAIN live) /\ Cardinality(DOMAIN live) \in Nat
  BY LiveFinite
<1>2. Cardinality(DOMAIN live') = IF p \in DOMAIN live THEN Cardinality(DOMAIN live)
                                  ELSE Cardinality(DOMAIN live) + 1
  BY <1>1, FS_AddElement
<1> QED
  BY <1>1, <1>2

\* memtest's pitch is its objects and their headers.
LEMMA PitchIs ==
    ASSUME Roomy
    PROVE  /\ Pitch \in Nat /\ OBJSIZE = 8 * Pitch - 8 /\ Need(OBJSIZE) = Pitch - 1
           /\ OBJSIZE # 0 /\ Multiple(Pitch, Words)
<1>1. /\ OBJECTS \in Nat /\ OBJECTS > 0 /\ Pitch >= 2 /\ Words = OBJECTS * Pitch
      /\ Pitch \in Nat
  BY MemgrindAssumption, MyMallocAssumption DEF Roomy, Pitch
<1>2. Multiple(Pitch, Words)
  BY <1>1 DEF Multiple
<1> DEFINE k == Pitch
           c == OBJECTS
           x == 8 * Words
           q == x \div c
<1>3. c \in Nat /\ c > 0 /\ k \in Nat /\ x = c * (8 * k)
  <2>1. 8 * (c * k) = c * (8 * k)
    BY <1>1
  <2> QED
    BY <1>1, <2>1
<1>4. q = 8 * k
  <2> DEFINE y == 8 * k
  <2>1. y \in Nat /\ x = c * y /\ x \in Nat
    BY <1>3
  <2> HIDE DEF x, y, c
  <2>2. q \in Nat /\ c * q <= x /\ x < c * (q + 1)
    BY <1>3, <2>1
  <2> HIDE DEF q
  <2>3. ASSUME q < y PROVE FALSE
    <3>1. y - q - 1 \in Nat /\ y = (q + 1) + (y - q - 1)
      BY <2>1, <2>2, <2>3
    <3>2. c * ((q + 1) + (y - q - 1)) = c * (q + 1) + c * (y - q - 1)
          /\ c * (y - q - 1) \in Nat /\ c * (q + 1) \in Nat
      BY <1>3, <2>2, <3>1
    <3> QED
      BY <2>1, <2>2, <3>1, <3>2
  <2>4. ASSUME y < q PROVE FALSE
    <3>1. q - y - 1 \in Nat /\ q = (y + 1) + (q - y - 1)
      BY <2>1, <2>2, <2>4
    <3>2. c * ((y + 1) + (q - y - 1)) = c * y + c + c * (q - y - 1)
          /\ c * (q - y - 1) \in Nat /\ c * y \in Nat
      BY <1>3, <2>1, <3>1
    <3> QED
      BY <1>3, <2>1, <2>2, <3>1, <3>2
  <2>5. q = y
    BY <2>1, <2>2, <2>3, <2>4
  <2> QED
    BY <2>5 DEF y
<1>5. OBJSIZE = 8 * k - 8
  BY <1>4 DEF OBJSIZE
<1>6. Need(OBJSIZE) = k - 1 /\ OBJSIZE # 0
  BY <1>1, <1>5 DEF Need
<1> QED
  BY <1>1, <1>2, <1>5, <1>6

\* A larger size needs no fewer words; a node needs two.
LEMMA NeedGrows ==
    ASSUME NEW s \in Nat, NEW t \in Nat, s <= t
    PROVE  Need(s) \in Nat /\ Need(t) \in Nat /\ Need(s) <= Need(t)
  BY DEF Need

\* What the array of task 5 may become is no larger than its largest.
LEMMA ResizedSmall ==
    ASSUME NEW n \in Nat, n >= 1, n <= Largest, NEW k \in Resized(n)
    PROVE  k \in Nat /\ k >= 1 /\ k <= Largest
<1>1. FIRST \in Nat /\ MOST \in Nat /\ MOST >= 1 /\ LEAST \in Nat /\ LEAST >= 1
  BY MemgrindAssumption
<1>2. CASE k = n \div 2 /\ n >= LEAST + 1
  BY <1>1, <1>2 DEF Largest
<1>3. CASE k = 2 * n /\ n <= MOST - 1
  BY <1>1, <1>3 DEF Largest
<1> QED
  BY <1>1, <1>2, <1>3 DEF Resized

\* The tasks are granted what they ask for.
LEMMA AlwaysGranted ==
    ASSUME ProgInv, Careful, Roomy, RoomInv, task \in Tasks, NEW s \in Requests
    PROVE  find_free(Merged(Aligned(s)), Aligned(s)) # {}
<1> USE DEF ProgInv, Careful
<1>1. s \in Sizes
  BY Permitted
<1>2. Cardinality(DOMAIN live) \in Nat
  BY LiveFinite
<1>3. Words \in Nat /\ Words >= 2 /\ Need(1) = 1 /\ Need(NODESIZE) = 2
  BY MyMallocAssumption DEF Need, NODESIZE
<1>4. \A p \in DOMAIN live : live[p] \in Nat /\ live[p] # 0
  BY HeapHolds, ObjectChunk
<1>5. CASE task = "task1"
  <2>1. s = 1 /\ DOMAIN live = {}
    BY <1>5 DEF Requests, DataInv, Task1Inv
  <2>2. Cardinality(DOMAIN live) = 0
    BY <2>1, FS_EmptySet
  <2> QED
    BY <1>1, <1>3, <2>1, <2>2, RoomFor
<1>6. CASE task \in {"task2", "task3"}
  <2>1. s = 1 /\ \A p \in DOMAIN live : Need(live[p]) = 1
    BY <1>3, <1>6 DEF Requests, DataInv, ArrayInv, Task3Inv, RoomInv, ArrayRoom, Room3
  <2>2. Cardinality(DOMAIN live) <= ALLOC_COUNT - 1
    <3>1. CASE task = "task2"
      <4>1. pc = "malloc"
        BY <3>1 DEF Requests, DataInv, ArrayInv
      <4>2. Len(ptrs) \in Nat
        BY <3>1 DEF DataInv, ArrayInv, Named
      <4> QED
        BY <1>2, <3>1, <4>1, <4>2, MemgrindAssumption DEF RoomInv, ArrayRoom
    <3>2. CASE task = "task3"
      <4>1. i \in Nat /\ i < ALLOC_COUNT
        BY <3>2, MemgrindAssumption DEF Requests, DataInv, Task3Inv
      <4> QED
        BY <1>2, <3>2, <4>1, MemgrindAssumption DEF RoomInv, Room3
    <3> QED
      BY <1>6, <3>1, <3>2
  <2>3. (2 * 1 + 2) * Cardinality(DOMAIN live) + 1 < Words
    BY <1>2, <1>3, <2>2, MemgrindAssumption DEF Roomy
  <2> QED
    BY <1>1, <1>3, <2>1, <2>3, RoomFor
<1>7. CASE task = "task4"
  <2>1. pc = "malloc" /\ s = NODESIZE /\ i \in Nat
    BY <1>7 DEF Requests, DataInv, Task4Inv
  <2>2. \A p \in DOMAIN live : Need(live[p]) = 2
    BY <1>3, <1>7 DEF DataInv, Task4Inv
  <2>3. Cardinality(DOMAIN live) <= NODES - 1
    BY <1>2, <1>7, <2>1, MemgrindAssumption DEF RoomInv, Room4
  <2>4. (2 * 2 + 2) * Cardinality(DOMAIN live) + 2 < Words
    BY <1>2, <1>3, <2>3, MemgrindAssumption DEF Roomy
  <2> QED
    BY <1>1, <1>3, <2>1, <2>2, <2>4, RoomFor DEF NODESIZE
<1>8. CASE task = "task5"
  <2> DEFINE M == Need(4 * Largest)
  <2>1. Largest \in Nat /\ FIRST <= Largest /\ FIRST \in Nat /\ FIRST # 0
    BY MemgrindAssumption DEF Largest
  <2>2. M \in Nat /\ \A p \in DOMAIN live : Need(live[p]) <= M
    <3>1. 4 * Largest \in Nat
      BY <2>1
    <3>2. \A p \in DOMAIN live : live[p] <= 4 * Largest
      BY <1>8 DEF RoomInv, Room5
    <3> QED
      BY <1>4, <3>1, <3>2, NeedGrows
  <2>3. s # 0 /\ Need(s) <= M /\ (2 * M + 2) * Cardinality(DOMAIN live) + M < Words
    <3>1. CASE pc = "malloc"
      <4>1. s = 4 * FIRST
        BY <1>8, <3>1 DEF Requests
      <4>2. DOMAIN live = {}
        BY <1>8, <3>1 DEF DataInv, Task5Inv
      <4>3. Cardinality(DOMAIN live) = 0
        BY <4>2, FS_EmptySet
      <4>4. Need(s) <= M /\ s # 0
        BY <2>1, <4>1, NeedGrows
      <4>5. (2 * M + 2) + M < Words
        BY DEF Roomy
      <4> HIDE DEF M
      <4> QED
        BY <1>3, <2>2, <4>3, <4>4, <4>5
    <3>2. CASE pc = "op"
      <4>1. /\ DOMAIN live = {ptrs[1]} /\ live[ptrs[1]] % 4 = 0
        BY <1>8, <3>2 DEF DataInv, Task5Inv, Counts
      <4> DEFINE n == Ints(ptrs[1])
                 z == live[ptrs[1]]
      <4>2. z \in Nat /\ z # 0 /\ z <= 4 * Largest /\ z % 4 = 0
        BY <1>4, <1>8, <4>1 DEF RoomInv, Room5
      <4>3. n \in Nat /\ n >= 1 /\ n <= Largest
        <5>1. n = z \div 4
          BY DEF Ints
        <5> HIDE DEF n, z
        <5> QED
          BY <2>1, <4>2, <5>1
      <4>4. PICK k \in Resized(n) : s = 4 * k
        BY <3>2 DEF Requests
      <4>5. k \in Nat /\ k >= 1 /\ k <= Largest
        BY <4>3, ResizedSmall
      <4>6. s \in Nat /\ s # 0 /\ s <= 4 * Largest /\ 4 * Largest \in Nat
        BY <2>1, <4>4, <4>5
      <4>7. Need(s) <= M
        BY <4>6, NeedGrows
      <4>8. Cardinality(DOMAIN live) = 1
        BY <4>1, FS_Singleton
      <4>9. (2 * M + 2) + M < Words
        BY DEF Roomy
      <4> HIDE DEF M
      <4> QED
        BY <2>2, <4>6, <4>7, <4>8, <4>9
    <3>3. pc \in {"malloc", "op"}
      BY <1>8 DEF Requests, DataInv, Task5Inv
    <3> QED
      BY <3>1, <3>2, <3>3
  <2> HIDE DEF M
  <2> QED
    BY <1>1, <2>2, <2>3, RoomFor
<1>9. CASE task = "memtest"
  <2> DEFINE n == Pitch - 1
  <2>1. pc = "malloc" /\ s = OBJSIZE /\ Named /\ \A p \in DOMAIN live : live[p] = OBJSIZE
    BY <1>9 DEF Requests, DataInv, ArrayInv
  <2>2. /\ Pitch \in Nat /\ Need(OBJSIZE) = n /\ Multiple(Pitch, Words) /\ OBJSIZE # 0
        /\ Pitch >= 2 /\ Words = OBJECTS * Pitch
    BY PitchIs DEF Roomy
  <2>3. Holds(Heap, live) /\ Merged(Aligned(s)) = Heap /\ Aligned(s) = n
    BY <1>1, <2>1, <2>2, HeapHolds, MergedIsHeap, AlignedNeed
  <2>4. SUFFICES ASSUME find_free(Heap, n) = {} PROVE FALSE
    BY <2>3
  <2>5. n \in Nat /\ n >= 1 /\ n + 1 = Pitch
    BY <2>2
  <2>6. \A p \in DOMAIN live : Need(live[p]) = n
    BY <2>1, <2>2
  <2>7. \A b \in Chunks(Heap) : Multiple(Pitch, b)
    BY <1>9, <2>1 DEF RoomInv, ArrayRoom
  <2> HIDE DEF n
  <2>8. Words <= (n + 1) * Cardinality(DOMAIN live)
    BY <2>2, <2>3, <2>4, <2>5, <2>6, <2>7, NoPitch
  <2>9. Cardinality(DOMAIN live) <= OBJECTS - 1
    <3>1. Len(ptrs) \in Nat
      BY <2>1 DEF Named
    <3> QED
      BY <1>2, <1>9, <2>1, <3>1, MemgrindAssumption DEF RoomInv, ArrayRoom
  <2> DEFINE x == Cardinality(DOMAIN live)
  <2>10. x \in Nat /\ OBJECTS \in Nat /\ OBJECTS - x - 1 \in Nat
         /\ OBJECTS = x + 1 + (OBJECTS - x - 1)
    BY <1>2, <2>9, MemgrindAssumption
  <2>11. OBJECTS * Pitch = Pitch * x + Pitch + (OBJECTS - x - 1) * Pitch
    BY <2>2, <2>10
  <2>12. (OBJECTS - x - 1) * Pitch \in Nat /\ Pitch * x \in Nat
    BY <2>2, <2>10
  <2>13. Words <= Pitch * x
    BY <2>5, <2>8
  <2> HIDE DEF x
  <2> QED
    BY <2>2, <2>11, <2>12, <2>13
<1> QED
  BY <1>5, <1>6, <1>7, <1>8, <1>9 DEF Tasks

\* Tasks 1 to 3 and memtest keep within the room there is,
LEMMA ArrayRoomStep ==
    ASSUME ProgInv, Careful, Roomy, RoomInv, Task1Malloc \/ Task1Free \/ Memtest
    PROVE  RoomInv'
<1> USE DEF ProgInv, Careful
<1>1. Goes /\ GoesOn /\ SmallSizes
  BY TaskStepGoes DEF TaskStep, RoomInv
<1>2. HeapInv' /\ initialized' /\ exited' = exited
  BY <1>1 DEF Goes
<1>3. CASE Task1Malloc
  <2>1. task = "task1" /\ task' = task /\ task \in Tasks
    BY <1>3 DEF Task1Malloc, Goto, Tasks
  <2> QED
    BY <1>1, <1>2, <2>1, RoomStays
<1>4. CASE Task1Free
  <2>1. task = "task1" /\ task \in Tasks
    BY <1>4 DEF Task1Free, Tasks
  <2>2. CASE Goto("malloc")
    BY <1>1, <1>2, <2>1, <2>2, RoomStays DEF Goto
  <2>3. CASE Return
    <3>1. Gives(ptrs[1]) /\ DOMAIN live = {ptrs[1]}
      BY <1>4, <2>1 DEF Task1Free, DataInv, Task1Inv
    <3>2. DOMAIN live' = {}
      BY <3>1, GivesShrinks
    <3> QED
      BY <1>1, <1>2, <2>1, <2>3, <3>2, RoomFresh
  <2> QED
    BY <1>4, <2>2, <2>3 DEF Task1Free
<1>5. CASE AllocateAll
  <2>1. /\ task \in {"task2", "memtest"} /\ pc = "malloc" /\ task \in Tasks /\ task' = task
        /\ ArrayInv /\ ArrayRoom /\ Named
    BY <1>5 DEF AllocateAll, DataInv, ArrayInv, Tasks, Goto, RoomInv
  <2>2. PICK p \in Word : Asks(p) /\ ptrs' = Append(ptrs, p)
    BY <1>5 DEF AllocateAll
  <2> DEFINE n == IF task = "task2" THEN 1 ELSE OBJSIZE
  <2>3. Requests = {n} /\ n \in Sizes
    BY <2>1, SizesAssumption DEF Requests
  <2> HIDE DEF n
  <2>4. /\ DOMAIN live' = DOMAIN live \cup {p} /\ live'[p] = n
        /\ \A q \in DOMAIN live : live'[q] = live[q]
    BY <1>1, <2>2, <2>3, AsksGrows
  <2>5. /\ Cardinality(DOMAIN live') \in Nat
        /\ Cardinality(DOMAIN live') <= Cardinality(DOMAIN live) + 1
        /\ Cardinality(DOMAIN live) \in Nat
    BY <1>1, <2>4, OneMore, LiveFinite
  <2>6. Len(ptrs') = Len(ptrs) + 1 /\ Len(ptrs) \in Nat
    <3>1. p \in Nat
      BY MyMallocAssumption DEF Word
    <3> QED
      BY <2>1, <2>2, <3>1 DEF Named
  <2>7. task = "task2" => \A q \in DOMAIN live' : live'[q] = 1
    BY <2>1, <2>4 DEF ArrayRoom, n
  <2>8. pc' = "malloc" => Len(ptrs') < (IF task = "task2" THEN ALLOC_COUNT ELSE OBJECTS)
    BY <1>5, <2>1, <2>6, MemgrindAssumption DEF AllocateAll, Goto, ArrayRoom
  <2>9. task = "memtest" => \A b \in Chunks(Heap') : Multiple(Pitch, b)
    <3> SUFFICES ASSUME task = "memtest", NEW b \in Chunks(Heap') PROVE Multiple(Pitch, b)
      OBVIOUS
    <3>1. Malloc(OBJSIZE) /\ OBJSIZE \in Sizes
      BY <2>2, <2>3 DEF Asks, n
    <3>2. Heap' = mem'
      BY <1>2 DEF Heap
    <3>3. b \in Chunks(Heap) \/ \E a \in Chunks(Heap) : b = a + 1 + Need(OBJSIZE)
      BY <1>1, <3>1, <3>2, MallocChunks
    <3>4. \A a \in Chunks(Heap) : Multiple(Pitch, a)
      BY <2>1 DEF ArrayRoom
    <3>5. CASE b \in Chunks(Heap)
      BY <3>4, <3>5
    <3>6. CASE \E a \in Chunks(Heap) : b = a + 1 + Need(OBJSIZE)
      <4>1. PICK a \in Chunks(Heap) : b = a + 1 + Need(OBJSIZE)
        BY <3>6
      <4>2. PICK j \in Nat : a = Pitch * j
        BY <3>4 DEF Multiple
      <4>3. Pitch \in Nat /\ Need(OBJSIZE) = Pitch - 1
        BY PitchIs
      <4>4. b = Pitch * (j + 1) /\ j + 1 \in Nat
        BY <4>1, <4>2, <4>3
      <4> QED
        BY <4>4 DEF Multiple
    <3> QED
      BY <3>3, <3>5, <3>6
  <2>10. Cardinality(DOMAIN live') <= Len(ptrs')
    BY <2>1, <2>5, <2>6 DEF ArrayRoom
  <2>11. ArrayRoom'
    <3>1. Chunks(Heap)' = Chunks(Heap')
      BY DEF Chunks, After
    <3> QED
      BY <2>1, <2>7, <2>8, <2>9, <2>10, <3>1 DEF ArrayRoom
  <2> QED
    BY <1>1, <1>2, <2>1, <2>11, RoomStays
<1>6. CASE Fill \/ Check
  <2>1. /\ task = "memtest" /\ task' = task /\ task \in Tasks /\ pc' \in {"check", "free"}
    BY <1>6, Places DEF Fill, Check, Goto, Tasks
  <2>2. ArrayRoom'
    BY <2>1 DEF ArrayRoom
  <2> QED
    BY <1>1, <1>2, <2>1, <2>2, RoomStays
<1>7. CASE FreeAll
  <2>1. /\ task \in {"task2", "memtest"} /\ pc = "free" /\ task \in Tasks /\ Gives(ptrs[1])
        /\ Named /\ Len(ptrs) > 0 /\ Len(ptrs) \in Nat /\ ArrayRoom
    BY <1>7 DEF FreeAll, DataInv, ArrayInv, Named, Tasks, RoomInv
  <2>2. ptrs[1] \in DOMAIN live
    BY <2>1 DEF Named
  <2>3. /\ DOMAIN live' = DOMAIN live \ {ptrs[1]}
        /\ \A q \in DOMAIN live' : live'[q] = live[q]
    BY <2>1, <2>2, GivesShrinks
  <2>4. CASE Len(ptrs) > 1
    <3>1. task' = task /\ pc' = "free"
      BY <1>7, <2>4 DEF FreeAll, Goto
    <3>2. ArrayRoom'
      BY <2>1, <2>3, <3>1 DEF ArrayRoom
    <3> QED
      BY <1>1, <1>2, <2>1, <3>1, <3>2, RoomStays
  <2>5. CASE ~(Len(ptrs) > 1)
    <3>1. Return
      BY <1>7, <2>5 DEF FreeAll
    <3>4. Len(ptrs) = 1
      <4> DEFINE n == Len(ptrs)
      <4>1. n \in Nat /\ n > 0 /\ ~(n > 1)
        BY <2>1, <2>5
      <4> HIDE DEF n
      <4>2. n = 1
        BY <4>1
      <4> QED
        BY <4>2 DEF n
    <3>2. DOMAIN live' = {}
      BY <2>1, <2>3, <3>4 DEF Named
    <3> QED
      BY <1>1, <1>2, <2>1, <3>1, <3>2, RoomFresh
  <2> QED
    BY <2>4, <2>5
<1> QED
  BY <1>3, <1>4, <1>5, <1>6, <1>7 DEF Memtest

\* task 3 likewise,
LEMMA Room3Step ==
    ASSUME ProgInv, Careful, Roomy, RoomInv, Task3Malloc \/ Task3Free \/ Task3Rest
    PROVE  RoomInv'
<1> USE DEF ProgInv, Careful
<1>1. Goes /\ GoesOn /\ SmallSizes
  BY TaskStepGoes DEF TaskStep, RoomInv
<1>2. HeapInv' /\ initialized' /\ exited' = exited
  BY <1>1 DEF Goes
<1>3. /\ task = "task3" /\ task \in Tasks /\ Task3Inv /\ Room3 /\ i \in Nat /\ pc = "choose"
      /\ ptrs \in [1..ALLOC_COUNT -> Nat]
      /\ DOMAIN live = {ptrs[k] : k \in 1..ALLOC_COUNT} \ {0}
  BY Places, MemgrindAssumption
     DEF Task3Malloc, Task3Free, Task3Rest, DataInv, Task3Inv, Tasks, RoomInv
<1>4. CASE Task3Malloc
  <2>1. task' = task /\ i' = i + 1 /\ Requests = {1} /\ 1 \in Sizes
    BY <1>3, <1>4, SizesAssumption DEF Task3Malloc, Goto, Requests
  <2>2. PICK p \in Word : Asks(p)
    BY <1>4 DEF Task3Malloc
  <2>3. /\ DOMAIN live' = DOMAIN live \cup {p} /\ live'[p] = 1
        /\ \A q \in DOMAIN live : live'[q] = live[q]
    BY <1>1, <2>1, <2>2, AsksGrows
  <2>4. /\ Cardinality(DOMAIN live') \in Nat
        /\ Cardinality(DOMAIN live') <= Cardinality(DOMAIN live) + 1
        /\ Cardinality(DOMAIN live) \in Nat
    BY <1>1, <2>3, OneMore, LiveFinite
  <2>5. Room3'
    BY <1>3, <2>1, <2>3, <2>4 DEF Room3
  <2> QED
    BY <1>1, <1>2, <1>3, <2>1, <2>5, RoomStays
<1>5. ASSUME NEW p \in DOMAIN live, Gives(p), Goto("choose"), i' = i PROVE RoomInv'
  <2>1. /\ DOMAIN live' = DOMAIN live \ {p}
        /\ \A q \in DOMAIN live' : live'[q] = live[q]
    BY <1>5, GivesShrinks
  <2>2. /\ Cardinality(DOMAIN live') <= Cardinality(DOMAIN live)
        /\ Cardinality(DOMAIN live') \in Nat /\ Cardinality(DOMAIN live) \in Nat
    <3>1. IsFiniteSet(DOMAIN live)
      BY <1>1, LiveFinite
    <3> QED
      BY <2>1, <3>1, FS_Subset, FS_CardinalityType
  <2>3. Room3'
    BY <1>3, <1>5, <2>1, <2>2 DEF Room3
  <2>4. task' = task
    BY <1>5 DEF Goto
  <2> QED
    BY <1>1, <1>2, <1>3, <2>3, <2>4, RoomStays
<1>6. CASE Task3Free
  <2>1. PICK k \in DOMAIN ptrs : Gives(ptrs[k])
    BY <1>6 DEF Task3Free
  <2>2. ptrs[k] \in DOMAIN live
    BY <1>3, <2>1, Permitted DEF Gives
  <2> QED
    BY <1>5, <1>6, <2>1, <2>2 DEF Task3Free
<1>7. CASE Task3Rest
  <2> DEFINE left == {k \in DOMAIN ptrs : ptrs[k] # 0}
  <2>1. CASE left # {} /\ Gives(ptrs[First(left)]) /\ Goto("choose") /\ i' = i
    <3>1. ptrs[First(left)] \in DOMAIN live
      BY <1>3, <2>1, Permitted DEF Gives
    <3> QED
      BY <1>5, <2>1, <3>1
  <2>2. CASE left = {} /\ Computes /\ Return
    <3>1. DOMAIN live' = {}
      BY <1>3, <2>2 DEF Computes, vars
    <3> QED
      BY <1>1, <1>2, <1>3, <2>2, <3>1, RoomFresh
  <2> QED
    BY <1>7, <2>1, <2>2 DEF Task3Rest
<1> QED
  BY <1>4, <1>6, <1>7

\* task 4, whose counter counts its nodes,
LEMMA Room4Step ==
    ASSUME ProgInv, Careful, Roomy, RoomInv, Task4
    PROVE  RoomInv'
<1> USE DEF ProgInv, Careful
<1>1. Goes /\ GoesOn /\ SmallSizes
  BY TaskStepGoes DEF TaskStep, RoomInv
<1>2. HeapInv' /\ initialized' /\ exited' = exited
  BY <1>1 DEF Goes
<1>3. task = "task4" /\ task \in Tasks /\ Task4Inv /\ Room4 /\ i \in Nat
  BY Places DEF Task4, Task4Malloc, LinkIn, Keep, Unlink, FreeNode, Walked, FreeRest,
                Task4Done, DataInv, Task4Inv, Tasks, RoomInv
<1>4. CASE Task4Malloc
  <2>1. task' = task /\ pc = "malloc" /\ pc' = "link" /\ i' = i
    BY <1>4 DEF Task4Malloc, Goto
  <2>2. Requests = {NODESIZE} /\ NODESIZE \in Sizes
    BY <1>3, <2>1, SizesAssumption DEF Requests
  <2>3. PICK p \in Word : Asks(p)
    BY <1>4 DEF Task4Malloc
  <2>4. DOMAIN live' = DOMAIN live \cup {p}
    BY <1>1, <2>2, <2>3, AsksGrows
  <2>5. /\ Cardinality(DOMAIN live') \in Nat
        /\ Cardinality(DOMAIN live') <= Cardinality(DOMAIN live) + 1
        /\ Cardinality(DOMAIN live) \in Nat
    BY <1>1, <2>4, OneMore, LiveFinite
  <2>6. Room4'
    BY <1>3, <2>1, <2>5 DEF Room4
  <2> QED
    BY <1>1, <1>2, <1>3, <2>1, <2>6, RoomStays
<1>5. CASE LinkIn
  <2>1. /\ task' = task /\ pc = "link" /\ live' = live
        /\ (pc' = "malloc" /\ i' = i + 1 /\ i + 1 < NODES) \/ pc' = "walk"
    BY <1>5 DEF LinkIn, Writes, Goto
  <2>2. Room4'
    BY <1>3, <2>1 DEF Room4
  <2> QED
    BY <1>1, <1>2, <1>3, <2>1, <2>2, RoomStays
<1>6. CASE Keep \/ Unlink \/ FreeNode \/ Walked \/ FreeRest
  <2>1. task' = task /\ pc' \in {"walk", "unlinked", "rest"}
    BY <1>6 DEF Keep, Unlink, FreeNode, Walked, FreeRest, Goto
  <2>2. Room4'
    BY <2>1 DEF Room4
  <2> QED
    BY <1>1, <1>2, <1>3, <2>1, <2>2, RoomStays
<1>7. CASE Task4Done
  <2>1. pc = "rest" /\ ptrs[1] = 0 /\ Return /\ live' = live
    BY <1>7 DEF Task4Done, Computes, vars
  <2>2. DOMAIN live = {}
    BY <1>3, <2>1 DEF Task4Inv, List, Chain
  <2> QED
    BY <1>1, <1>2, <1>3, <2>1, <2>2, RoomFresh
<1> QED
  BY <1>4, <1>5, <1>6, <1>7 DEF Task4

\* and task 5, whose arrays do not outgrow the largest,
LEMMA Room5Step ==
    ASSUME ProgInv, Careful, Roomy, RoomInv, Task5
    PROVE  RoomInv'
<1> USE DEF ProgInv, Careful
<1>1. Goes /\ GoesOn /\ SmallSizes
  BY TaskStepGoes DEF TaskStep, RoomInv
<1>2. HeapInv' /\ initialized' /\ exited' = exited
  BY <1>1 DEF Goes
<1>3. task = "task5" /\ task \in Tasks /\ Task5Inv /\ Room5
  BY Places DEF Task5, Task5Malloc, FillArray, Resize, LeaveSize, Copy, Task5Rest,
                Task5Free, DataInv, Tasks, RoomInv
<1>4. Largest \in Nat /\ FIRST <= Largest /\ FIRST \in Nat
  BY MemgrindAssumption DEF Largest
<1>5. CASE Task5Malloc
  <2>1. task' = task /\ pc = "malloc" /\ DOMAIN live = {}
    BY <1>3, <1>5 DEF Task5Malloc, Goto, Task5Inv
  <2>2. Requests = {4 * FIRST} /\ 4 * FIRST \in Sizes
    BY <1>3, <2>1, SizesAssumption DEF Requests
  <2>3. PICK p \in Word : Asks(p)
    BY <1>5 DEF Task5Malloc
  <2>4. DOMAIN live' = {p} /\ live'[p] = 4 * FIRST
    BY <1>1, <2>1, <2>2, <2>3, AsksGrows
  <2>5. Room5'
    BY <1>4, <2>4 DEF Room5
  <2> QED
    BY <1>1, <1>2, <1>3, <2>1, <2>5, RoomStays
<1>6. CASE FillArray \/ LeaveSize \/ Copy \/ Task5Rest
  <2>1. task' = task /\ live' = live
    BY <1>6 DEF FillArray, LeaveSize, Copy, Task5Rest, Writes, Computes, vars, Goto
  <2>2. Room5'
    BY <1>3, <2>1 DEF Room5
  <2> QED
    BY <1>1, <1>2, <1>3, <2>1, <2>2, RoomStays
<1>7. CASE Resize
  <2> DEFINE o == ptrs[1]
             n == Ints(o)
  <2>1. task' = task /\ pc = "op" /\ i < MAX_OPS
    BY <1>7 DEF Resize, Goto
  <2>2. DOMAIN live = {o} /\ live[o] % 4 = 0
    BY <1>3, <2>1 DEF Task5Inv, Counts
  <2>3. PICK p \in Word : Asks(p)
    BY <1>7 DEF Resize
  <2>4. PICK s \in Requests : Malloc(s) /\ p = Got(s)
    BY <2>3 DEF Asks
  <2>5. s \in Sizes
    BY <1>3, Permitted
  <2>6. live' = [q \in DOMAIN live \cup {p} |-> IF q = p THEN s ELSE live[q]]
    BY <1>1, <2>4, <2>5, MallocKeeps
  <2>7. live[o] \in Nat /\ live[o] # 0 /\ live[o] <= 4 * Largest
    BY <1>1, <1>3, <2>2, HeapHolds, ObjectChunk DEF Room5
  <2>8. n \in Nat /\ n >= 1 /\ n <= Largest
    <3> DEFINE z == live[o]
    <3>1. n = z \div 4 /\ z \in Nat /\ z # 0 /\ z <= 4 * Largest /\ z % 4 = 0
      BY <2>2, <2>7 DEF Ints
    <3> HIDE DEF n, z
    <3> QED
      BY <1>4, <3>1
  <2>9. PICK k \in Resized(n) : s = 4 * k
    BY <2>1, <2>4 DEF Requests
  <2>10. s <= 4 * Largest
    <3>1. k \in Nat /\ k <= Largest
      BY <2>8, ResizedSmall
    <3> QED
      BY <1>4, <2>9, <3>1
  <2>11. Room5'
    BY <2>2, <2>6, <2>7, <2>10 DEF Room5
  <2> QED
    BY <1>1, <1>2, <1>3, <2>1, <2>11, RoomStays
<1>8. CASE Task5Free
  <2>1. pc = "free" /\ Gives(ptrs[1]) /\ ptrs[1] \in DOMAIN live
    BY <1>3, <1>8, Permitted DEF Task5Free, Gives
  <2>2. /\ DOMAIN live' = DOMAIN live \ {ptrs[1]}
        /\ \A q \in DOMAIN live' : live'[q] = live[q]
    BY <2>1, GivesShrinks
  <2>3. CASE Goto("op")
    <3>1. task' = task
      BY <2>3 DEF Goto
    <3>2. Room5'
      BY <1>3, <2>2 DEF Room5
    <3> QED
      BY <1>1, <1>2, <1>3, <3>1, <3>2, RoomStays
  <2>4. CASE Len(ptrs) <= 1 /\ Return
    <3>1. DOMAIN live = {ptrs[1]}
      <4>1. \/ DOMAIN live = {ptrs[1]}
            \/ ptrs = <<ptrs[1], ptrs[2]>>
        BY <1>3, <2>1 DEF Task5Inv
      <4>2. ptrs = <<ptrs[1], ptrs[2]>> => Len(ptrs) = 2
        OBVIOUS
      <4> QED
        BY <2>4, <4>1, <4>2
    <3>2. DOMAIN live' = {}
      BY <2>2, <3>1
    <3> QED
      BY <1>1, <1>2, <1>3, <2>4, <3>2, RoomFresh
  <2>5. Goto("op") \/ (Len(ptrs) <= 1 /\ Return)
    <3>1. Len(ptrs) \in Nat
      <4>1. ptrs = <<ptrs[1]>> \/ ptrs = <<ptrs[1], ptrs[2]>>
        BY <1>3, <2>1 DEF Task5Inv
      <4>2. /\ ptrs = <<ptrs[1]>> => Len(ptrs) = 1
            /\ ptrs = <<ptrs[1], ptrs[2]>> => Len(ptrs) = 2
        OBVIOUS
      <4> QED
        BY <4>1, <4>2
    <3>2. Len(ptrs) > 1 \/ Len(ptrs) <= 1
      BY <3>1
    <3>3. Len(ptrs) <= 1 => ~(Len(ptrs) > 1)
      BY <3>1
    <3> QED
      BY <1>8, <3>2, <3>3 DEF Task5Free
  <2> QED
    BY <2>3, <2>4, <2>5
<1> QED
  BY <1>5, <1>6, <1>7, <1>8 DEF Task5

\* and no request of theirs is refused. Nor is a free: so they end in main's
\* return.
LEMMA RoomInvStep ==
    ASSUME ProgInv, Careful, Roomy, RoomInv, [ProgramNext]_<<vars, program>>
    PROVE  RoomInv'
<1>1. CASE TaskStep
  BY <1>1, ArrayRoomStep, Room3Step, Room4Step, Room5Step DEF TaskStep
<1>2. CASE Ends
  <2>1. /\ UNCHANGED <<mem, live, program>> /\ initialized' = initialized
        /\ exited' = Outcome /\ task # "other"
    BY <1>2 DEF Ends, Leave, heap
  <2>2. task = "end"
    <3> SUFFICES ASSUME task # "end" PROVE FALSE
      OBVIOUS
    <3>1. task \in Tasks /\ Refused
      BY <1>2, <2>1 DEF Ends, Outcome, ProgInv, RunInv
    <3>2. \A s \in Requests : find_free(Merged(Aligned(s)), Aligned(s)) # {}
      BY <3>1, AlwaysGranted
    <3>3. \A p \in Releases : Appropriate(p)
      BY <2>1, Accepted DEF FreesAccepted
    <3> QED
      BY <3>1, <3>2, <3>3 DEF Refused
  <2>3. task' = "end" /\ exited' = "ok"
    BY <2>1, <2>2 DEF Outcome, program
  <2> QED
    BY <2>3 DEF RoomInv, ArrayRoom, Room3, Room4, Room5, GoesOn
<1>3. CASE UNCHANGED <<vars, program>>
  <2>1. /\ UNCHANGED <<mem, live, program>> /\ initialized' = initialized /\ exited' = exited
        /\ task' = task /\ pc' = pc /\ i' = i /\ ptrs' = ptrs
    BY <1>3 DEF vars, heap, program
  <2>2. Chunks(Heap)' = Chunks(Heap)
    BY <2>1 DEF Chunks, After, Heap
  <2>3. ArrayRoom'
    BY <2>1, <2>2 DEF RoomInv, ArrayRoom
  <2>4. Room3' /\ Room4' /\ Room5' /\ GoesOn'
    BY <2>1 DEF RoomInv, Room3, Room4, Room5, GoesOn
  <2> QED
    BY <2>3, <2>4 DEF RoomInv
<1>4. CASE OtherProgram
  <2>1. task' = "other"
    BY <1>4 DEF OtherProgram, program
  <2> QED
    BY <2>1 DEF RoomInv, ArrayRoom, Room3, Room4, Room5, GoesOn
<1> QED
  BY <1>1, <1>2, <1>3, <1>4 DEF ProgramNext, TaskStep, Ended

\* Programs start within the room there is.
LEMMA RoomInvInit == ProgramInit /\ Roomy => RoomInv
<1> SUFFICES ASSUME ProgramInit, Roomy PROVE RoomInv
  OBVIOUS
<1>1. /\ task \in {"task1", "memtest", "other"} /\ DOMAIN live = {} /\ exited = "no"
      /\ ptrs = <<>> /\ Len(<<>>) = 0
  BY DEF ProgramInit, Init, Pointers
<1>2. HeapInv
  BY ProgInvInit DEF ProgInv
<1>3. Cardinality(DOMAIN live) = 0
  BY <1>1, FS_EmptySet
<1>4. Chunks(Heap) = {0}
  BY <1>1, <1>2, HeapHolds, EmptyHeap
<1>5. Multiple(Pitch, 0)
  <2>1. Pitch * 0 = 0
    BY PitchIs
  <2> QED
    BY <2>1 DEF Multiple
<1> QED
  BY <1>1, <1>3, <1>4, <1>5, MemgrindAssumption
     DEF RoomInv, ArrayRoom, Room3, Room4, Room5, GoesOn

\* An empty heap has nothing to report.
LEMMA NothingToReport ==
    ASSUME SmallSizes, HeapInv, initialized, DOMAIN live = {}
    PROVE  check_leaks = <<0, 0>>
<1>1. Holds(mem, live)
  BY DEF HeapInv
<1>2. /\ check_leaks[1] = Cardinality(DOMAIN live) /\ check_leaks \in Nat \X Nat
      /\ 8 * check_leaks[2] - Asked \in 0 .. 15 * check_leaks[1]
  BY <1>1, ReportCounts
<1>3. Cardinality(DOMAIN live) = 0 /\ IsFiniteSet(DOMAIN live)
  BY FS_EmptySet
<1>4. Asked = 0
  <2>1. \A x \in DOMAIN live : live[x] \in Nat
    OBVIOUS
  <2>2. PICK g \in [SUBSET (DOMAIN live) -> Nat] :
           g[{}] = 0 /\ SumFunctionOnSet(live, DOMAIN live) = g[DOMAIN live]
    BY <1>3, <2>1, SumIs
  <2> QED
    BY <2>2 DEF Asked
<1>5. check_leaks[1] = 0 /\ check_leaks[2] \in Nat
  BY <1>2, <1>3
<1>6. check_leaks[2] = 0
  BY <1>2, <1>4, <1>5
<1> QED
  BY <1>2, <1>5, <1>6

\* "All 5 tasks complete successfully" (README.txt:78), and memtest, on any heap
\* that is roomy, as that of the code is, wherever earlier tasks and the
\* merges and splits leave free chunks: no request fails, no free is refused, and
\* nothing is leaked (memgrind.c 18-245, memtest.c 24-60).
THEOREM AllComplete == ASSUME Careful, Roomy PROVE ProgramSpec => []TasksComplete
<1>1. ProgInv /\ RoomInv /\ ReportInv => TasksComplete
  <2> SUFFICES ASSUME ProgInv, RoomInv, ReportInv, task # "other", exited # "no"
               PROVE  exited = "ok" /\ report = <<0, 0>>
    BY DEF TasksComplete, Running
  <2>1. task = "end" /\ exited = "ok"
    BY DEF RoomInv, GoesOn
  <2>2. initialized /\ DOMAIN live = {}
    BY <2>1 DEF ProgInv, RunInv, DataInv, EndInv
  <2>3. check_leaks = <<0, 0>>
    BY <2>2, NothingToReport DEF ProgInv, Careful
  <2> QED
    BY <2>1, <2>2, <2>3 DEF ReportInv
<1>2. ProgramInit => RoomInv
  BY RoomInvInit
<1>3. ProgInv /\ RoomInv /\ [ProgramNext]_<<vars, program>> => RoomInv'
  BY RoomInvStep
<1> QED
  BY <1>1, <1>2, <1>3, ProgInvHolds, ProgramReports, PTL DEF ProgramSpec

\* They do with the counts and the heap of the code.
THEOREM CodeCompletes ==
    ASSUME Careful,
           Words = 512, ALLOC_COUNT = 120, NODES = 60, FIRST = 10, MOST = 80, OBJECTS = 64
    PROVE  ProgramSpec => []TasksComplete
  BY CodeIsRoomy, AllComplete
=============================================================================

------------------------------- MODULE MyMalloc -------------------------------
(* mymalloc.c: the heap, its in-band headers and the walks over them, with a *)
(* client that allocates, writes what it was given, frees, frees what it     *)
(* should not, and exits. Sizes and addresses of chunks are multiples of 8   *)
(* bytes throughout, so the heap is an array of words; a header is one word, *)
(* a size in words and the flag in the low bit.                              *)
EXTENDS Integers, FiniteSets, Functions

CONSTANTS Words,        \* MEMLENGTH in words
          SizeMod,      \* 2^w for the w bits of a size_t
          Sizes,        \* bytes the client may ask for
          UserData,     \* what a word written by the client reads as a header
          Misuse        \* whether the client frees what is not its own

ASSUME MyMallocAssumption ==
    /\ Words \in Nat /\ Words >= 2 /\ SizeMod \in Nat /\ 8 * Words < SizeMod
    /\ Sizes \subseteq 0..SizeMod-1
    /\ UserData \subseteq [size : Nat, used : BOOLEAN]
    /\ Misuse \in BOOLEAN

VARIABLES mem,          \* heap.bytes: each word read as a header
          initialized,
          exited,       \* how the process ended: "no", "ok", or "error", exit(2)
          report,       \* what check_leaks printed: objects, and bytes in words
          live          \* the client's objects, with the bytes it asked for

heap == <<mem, initialized>>
vars == <<heap, exited, report, live>>

Word == 0..Words-1
Header(n, u) == [size |-> n, used |-> u]

Init == /\ mem = [a \in Word |-> Header(0, FALSE)]
        /\ initialized = FALSE
        /\ exited = "no" /\ report = <<>>
        /\ live = [p \in {} |-> 0]

------------------------------------------------------------------------------
\* The walk of find_free, coalesce and check_leaks over a memory m: from the
\* first word, each header leads to the next. It stops at a header of size 0.
After(m, a) == a + 1 + m[a].size
Chunks(m) ==
    LET From[a \in Nat] == IF a \notin Word \/ m[a].size = 0 THEN {}
                           ELSE {a} \cup From[After(m, a)]
    IN From[0]

IsFree(m, a) == a \in Word /\ m[a].size > 0 /\ ~m[a].used

First(S) == CHOOSE a \in S : \A b \in S : a <= b

\* Mutant: a chunk of just the size is not taken.
find_freeLarger(m, n) ==
    {a \in Chunks(m) : ~m[a].used /\ m[a].size > n /\ After(m, a) <= Words}

\* The chunks find_free would take; it takes the first.
find_free(m, n) ==
    {a \in Chunks(m) : ~m[a].used /\ m[a].size >= n /\ After(m, a) <= Words}

\* Mutants: every chunk is split; the rest may be a header without a word; the
\* new header is written one word early.
split_chunkAlways(m, a, n) ==
    [m EXCEPT ![a].size = n, ![a + 1 + n] = Header(m[a].size - n - 1, FALSE)]
split_chunkZero(m, a, n) ==
    IF m[a].size >= n + 1
    THEN [m EXCEPT ![a].size = n, ![a + 1 + n] = Header(m[a].size - n - 1, FALSE)]
    ELSE m
split_chunkEarly(m, a, n) ==
    IF m[a].size >= n + 2
    THEN [m EXCEPT ![a].size = n, ![a + n] = Header(m[a].size - n - 1, FALSE)]
    ELSE m

\* A rest of MIN_CHUNK_SIZE or more becomes a chunk.
split_chunk(m, a, n) ==
    IF m[a].size >= n + 2
    THEN [m EXCEPT ![a].size = n, ![a + 1 + n] = Header(m[a].size - n - 1, FALSE)]
    ELSE m

\* Mutant: a free chunk takes in the next one only.
coalesceOne(m) ==
    LET heads == {a \in Chunks(m) : IsFree(m, a) /\ ~\E b \in Chunks(m) :
                                        IsFree(m, b) /\ After(m, b) = a}
    IN [a \in Word |->
          IF a \in heads /\ IsFree(m, After(m, a))
          THEN Header(m[a].size + 1 + m[After(m, a)].size, FALSE) ELSE m[a]]

\* Every free chunk takes in the free chunks that follow it. The headers taken
\* in stay where they are.
coalesce(m) ==
    LET RunEnd[a \in Word] == IF IsFree(m, After(m, a)) THEN RunEnd[After(m, a)]
                              ELSE After(m, a)
        heads == {a \in Chunks(m) : IsFree(m, a) /\ ~\E b \in Chunks(m) :
                                        IsFree(m, b) /\ After(m, b) = a}
    IN [a \in Word |-> IF a \in heads THEN Header(RunEnd[a] - a - 1, FALSE) ELSE m[a]]

\* Mutant: freed chunks are counted too.
check_leaksAll == <<Cardinality(Chunks(mem)),
                    SumFunctionOnSet([a \in Word |-> mem[a].size], Chunks(mem))>>

\* What check_leaks counts: the objects and their bytes, in words.
check_leaks == LET used == {a \in Chunks(mem) : mem[a].used}
               IN <<Cardinality(used),
                    SumFunctionOnSet([a \in Word |-> mem[a].size], used)>>

\* atexit runs it if init_heap has registered it.
Leave(how) == /\ exited' = how
              /\ report' = IF initialized THEN check_leaks ELSE <<>>
              /\ UNCHANGED <<heap, live>>

Running == exited = "no"

------------------------------------------------------------------------------
\* init_heap, on the first call
Heap == IF initialized THEN mem ELSE [mem EXCEPT ![0] = Header(Words - 1, FALSE)]

\* Mutant: sizes are rounded down.
AlignedDown(s) == s \div 8

\* (size + 7) & ~7, in words; the sum wraps.
Aligned(s) == ((s + 7) % SizeMod) \div 8

MallocZero == /\ Running /\ 0 \in Sizes
              /\ initialized' = TRUE /\ mem' = Heap
              /\ UNCHANGED <<exited, report, live>>

\* The heap in which malloc finds its chunk, merged if need be.
Merged(n) == IF find_free(Heap, n) # {} THEN Heap ELSE coalesce(Heap)

\* Mutant: the chunk is not marked.
MallocUnmarked(s) ==
    LET n == Aligned(s)
        m == Merged(n)
        a == First(find_free(m, n))
    IN /\ Running /\ s > 0 /\ find_free(m, n) # {}
       /\ initialized' = TRUE
       /\ mem' = split_chunk(m, a, n)
       /\ live' = [p \in DOMAIN live \cup {a + 1} |-> IF p = a + 1 THEN s ELSE live[p]]
       /\ UNCHANGED <<exited, report>>

Malloc(s) ==
    LET n == Aligned(s)
        m == Merged(n)
        a == First(find_free(m, n))
    IN /\ Running /\ s > 0 /\ find_free(m, n) # {}
       /\ initialized' = TRUE
       /\ mem' = [split_chunk(m, a, n) EXCEPT ![a].used = TRUE]
       /\ live' = [p \in DOMAIN live \cup {a + 1} |-> IF p = a + 1 THEN s ELSE live[p]]
       /\ UNCHANGED <<exited, report>>

MallocFails(s) ==
    LET n == Aligned(s)
    IN /\ Running /\ s > 0 /\ find_free(Merged(n), n) = {}
       /\ initialized' = TRUE /\ mem' = Merged(n)
       /\ UNCHANGED <<exited, report, live>>

\* Mutant: the flag of the header is not looked at.
AppropriateUnflagged(p) == /\ p - 1 \in Word /\ p \in Word
                           /\ mem[p - 1].size > 0 /\ After(mem, p - 1) <= Words

\* The tests of myfree on a pointer to word p: valid_ptr of the pointer and of
\* its header, the flag, the size.
Appropriate(p) == /\ p - 1 \in Word /\ p \in Word
                  /\ mem[p - 1].used
                  /\ mem[p - 1].size > 0 /\ After(mem, p - 1) <= Words

Free(p) == /\ Running /\ Appropriate(p)
           /\ (p \in DOMAIN live \/ Misuse)
           /\ mem' = coalesce([mem EXCEPT ![p - 1].used = FALSE])
           /\ live' = [q \in DOMAIN live \ {p} |-> live[q]]
           /\ UNCHANGED <<initialized, exited, report>>

\* "Inappropriate pointer": exit(2), through check_leaks.
FreeInappropriate(p) == /\ Running /\ ~Appropriate(p)
                        /\ (p \in DOMAIN live \/ Misuse)
                        /\ Leave("error")

\* The client writes a word of an object of its own.
Need(s) == (s + 7) \div 8
Payload(p, s) == p .. p + Need(s) - 1
Write == /\ Running
         /\ \E p \in DOMAIN live : \E w \in Payload(p, live[p]) \cap Word, d \in UserData :
               mem' = [mem EXCEPT ![w] = d]
         /\ UNCHANGED <<initialized, exited, report, live>>

Exit == Running /\ Leave("ok")

Exited == ~Running /\ UNCHANGED vars

Next == \/ MallocZero
        \/ \E s \in Sizes : Malloc(s) \/ MallocFails(s)
        \/ \E p \in -1..Words : Free(p) \/ FreeInappropriate(p)
        \/ Write \/ Exit \/ Exited

Spec == Init /\ [][Next]_vars
------------------------------------------------------------------------------
TypeOK == /\ mem \in [Word -> [size : Nat, used : BOOLEAN]]
          /\ initialized \in BOOLEAN /\ exited \in {"no", "ok", "error"}
          /\ live \in [DOMAIN live -> Sizes \ {0}] /\ DOMAIN live \subseteq Nat
          /\ report \in {<<>>} \cup (Nat \X Nat)

\* The headers tile the heap: the walk ends exactly at its end, and the
\* allocated chunks on it are the client's objects, whatever stale headers and
\* data lie in between (58-62, 65-78, 80-110, 183, 218).
Tiled == initialized =>
    /\ \E a \in Chunks(mem) : After(mem, a) = Words
    /\ DOMAIN live = {a + 1 : a \in {b \in Chunks(mem) : mem[b].used}}

\* A chunk is no smaller than the object in it and less than two words larger:
\* what is not needed is split off (166, 69).
FitsTightly == \A p \in DOMAIN live :
    mem[p - 1].size - Need(live[p]) \in {0, 1}

\* There are never two free chunks side by side, so the merge and the second
\* search of a malloc that finds nothing (170-172) never help.
NoTwoFree == \A a \in Chunks(mem) : IsFree(mem, a) => ~IsFree(mem, After(mem, a))

\* A request would fail only when no row of words outside all chunks in use is
\* long enough for the header and the object (168-178).
FailsOnlyWhenFull ==
    Running /\ initialized =>
        \A s \in Sizes \ {0} : find_free(Merged(Aligned(s)), Aligned(s)) = {} =>
            \A a \in Word : a + Need(s) < Words =>
                \E p \in DOMAIN live :
                    (a .. a + Need(s)) \cap (p - 1 .. After(mem, p - 1) - 1) # {}

\* The tests of free pass the client's objects and nothing else: a double free,
\* or a pointer into or outside an object, ends the program with exit(2), and
\* an object never does (193-216). It rests on what the client writes: data with
\* the low bit set may pass for a header.
MisuseCaught == Running => {p \in -1..Words : Appropriate(p)} = DOMAIN live

\* The report at exit names every object that was not freed, and at most 15
\* bytes for each beyond what was asked for (136-148).
Asked == SumFunctionOnSet(live, DOMAIN live)
LeaksCounted == exited # "no" /\ initialized =>
    /\ report[1] = Cardinality(DOMAIN live)
    /\ 8 * report[2] - Asked \in 0 .. 15 * report[1]

\* The heap implements the allocator.
A == INSTANCE Allocator WITH exited <- exited # "no"
ImplementsAllocator == A!Spec

\* "All requests are rounded up to multiples of 8" (README.txt:10): an object
\* has the bytes it was asked for. A request within 7 bytes of SIZE_MAX is
\* rounded to 0 and granted.
RoundedUp == \A p \in DOMAIN live : 8 * mem[p - 1].size >= live[p]
=============================================================================

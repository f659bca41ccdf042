---------------------------- MODULE MyMallocProofs ----------------------------
(* mymalloc.c for every size of the heap, every request and every client:    *)
(* the headers tile the heap, free chunks are merged, and no two objects     *)
(* share a word. The walks over the headers are recursive functions; what    *)
(* they find is proved from the least counterexample.                        *)
EXTENDS MyMalloc, FiniteSetTheorems, TLAPS

Mem == [Word -> [size : Nat, used : BOOLEAN]]

\* Every set of natural numbers has a least one,
LEMMA LeastElement ==
    ASSUME NEW S \in SUBSET Nat, S # {}
    PROVE  \E x \in S : \A y \in S : x <= y
<1>1. IsWellFoundedOn({p \in Nat \X Nat : p[1] < p[2]}, Nat)
  BY NatLessThanWellFounded DEF OpToRel
<1>2. PICK x \in S : \A y \in S : <<y, x>> \notin {p \in Nat \X Nat : p[1] < p[2]}
  BY <1>1, WFMin
<1>3. \A y \in S : x <= y
  <2> SUFFICES ASSUME NEW y \in S PROVE x <= y
    OBVIOUS
  <2>1. x \in Nat /\ y \in Nat
    OBVIOUS
  <2>2. ~(y < x)
    BY <1>2, <2>1
  <2> QED
    BY <2>1, <2>2
<1> QED
  BY <1>3

\* and every set of words a last one.
LEMMA LastElement ==
    ASSUME NEW S \in SUBSET Word, S # {}
    PROVE  \E x \in S : \A y \in S : y <= x
<1> USE MyMallocAssumption DEF Word
<1> DEFINE D == {d \in Nat : \E x \in S : d = Words - x}
<1>1. PICK x0 \in S : TRUE
  OBVIOUS
<1>2. Words - x0 \in D
  OBVIOUS
<1>3. PICK d \in D : \A e \in D : d <= e
  BY <1>2, LeastElement
<1>4. PICK x \in S : d = Words - x
  OBVIOUS
<1>5. \A y \in S : Words - y \in D
  OBVIOUS
<1>6. ASSUME NEW y \in S PROVE y <= x
  <2>1. Words - x <= Words - y
    BY <1>3, <1>4, <1>5
  <2>2. x \in Int /\ y \in Int /\ Words \in Int
    OBVIOUS
  <2> QED
    BY <2>1, <2>2
<1> QED
  BY <1>6

------------------------------------------------------------------------------
\* The walk goes on at a word that can be a header.
On(m, a) == a \in Word /\ m[a].size # 0
Steps(m, f) == f = [a \in Nat |-> IF a \notin Word \/ m[a].size = 0 THEN {}
                                  ELSE {a} \cup f[After(m, a)]]

\* The walk goes forward.
LEMMA AfterLater ==
    ASSUME NEW m \in Mem, NEW a \in Word
    PROVE  /\ m[a].size \in Nat /\ m[a].used \in BOOLEAN
           /\ After(m, a) \in Nat /\ After(m, a) > a /\ a \in Nat
  BY MyMallocAssumption DEF Mem, After, Word

\* From the end of the heap backwards, the walk can be defined.
LEMMA WalkExists ==
    ASSUME NEW m \in Mem
    PROVE  \E f \in [Nat -> SUBSET Word] : Steps(m, f)
<1> USE MyMallocAssumption DEF Word
<1> DEFINE Def(f, a) == IF a \notin Word \/ m[a].size = 0 THEN {} ELSE {a} \cup f[After(m, a)]
           Good(d) == \E f \in [Nat -> SUBSET Word] :
                         \A a \in Nat : a >= Words - d => f[a] = Def(f, a)
           Bad == {d \in Nat : ~Good(d)}
<1>1. Good(Words)
  <2> SUFFICES ASSUME Bad # {} PROVE FALSE
    OBVIOUS
  <2>1. PICK d \in Bad : \A e \in Bad : d <= e
    BY LeastElement
  <2>2. CASE d = 0
    <3> DEFINE g == [a \in Nat |-> {}]
    <3>1. g \in [Nat -> SUBSET Word]
      OBVIOUS
    <3>2. \A a \in Nat : a >= Words - d => g[a] = Def(g, a)
      BY <2>2
    <3> QED
      BY <3>1, <3>2
  <2>3. CASE d > 0
    <3>1. d - 1 \in Nat /\ d - 1 \notin Bad
      <4> HIDE DEF Good
      <4>1. d - 1 \in Nat /\ ~(d <= d - 1)
        BY <2>3
      <4> QED
        BY <2>1, <4>1
    <3>2. PICK f \in [Nat -> SUBSET Word] :
             \A a \in Nat : a >= Words - (d - 1) => f[a] = Def(f, a)
      BY <3>1
    <3>3. CASE Words - d \notin Nat
      <4>1. \A a \in Nat : a >= Words - (d - 1)
        BY <3>3
      <4> QED
        BY <3>2, <4>1
    <3>4. CASE Words - d \in Nat
      <4> DEFINE w == Words - d
                 g == [f EXCEPT ![w] = Def(f, w)]
      <4>1. w \in Word /\ After(m, w) \in Nat /\ After(m, w) > w
        BY <2>3, <3>4, AfterLater
      <4>2. g \in [Nat -> SUBSET Word]
        BY <4>1, <3>4
      <4>3. g[w] = Def(g, w)
        BY <4>1, <3>4
      <4>4. ASSUME NEW a \in Nat, a > w PROVE g[a] = Def(g, a)
        <5>1. g[a] = Def(f, a)
          <6>1. a >= Words - (d - 1) /\ g[a] = f[a]
            BY <4>4, <3>4
          <6> QED
            BY <3>2, <6>1
        <5>2. a \in Word => After(m, a) \in Nat /\ After(m, a) # w
          BY <4>4, AfterLater
        <5> QED
          BY <5>1, <5>2
      <4>5. \A a \in Nat : a >= Words - d => g[a] = Def(g, a)
        <5> HIDE DEF g, Def
        <5> SUFFICES ASSUME NEW a \in Nat, a >= Words - d PROVE g[a] = Def(g, a)
          OBVIOUS
        <5>1. a = w \/ a > w
          BY <3>4
        <5> QED
          BY <5>1, <4>3, <4>4
      <4> HIDE DEF g
      <4> QED
        BY <4>2, <4>5
    <3> QED
      BY <3>3, <3>4
  <2> QED
    BY <2>1, <2>2, <2>3
<1>2. PICK f \in [Nat -> SUBSET Word] : \A a \in Nat : a >= Words - Words => f[a] = Def(f, a)
  BY <1>1
<1>3. Steps(m, f)
  BY <1>2 DEF Steps
<1> QED
  BY <1>3

\* Chunks is such a walk.
LEMMA ChunksWalk ==
    ASSUME NEW m \in Mem
    PROVE  \E f : Steps(m, f) /\ Chunks(m) = f[0]
<1> DEFINE G == CHOOSE f : f = [a \in Nat |-> IF a \notin Word \/ m[a].size = 0 THEN {}
                                              ELSE {a} \cup f[After(m, a)]]
<1>1. \E f : f = [a \in Nat |-> IF a \notin Word \/ m[a].size = 0 THEN {}
                                ELSE {a} \cup f[After(m, a)]]
  BY WalkExists DEF Steps
<1>2. G = [a \in Nat |-> IF a \notin Word \/ m[a].size = 0 THEN {}
                         ELSE {a} \cup G[After(m, a)]]
  BY <1>1
<1>3. Chunks(m) = G[0]
  BY DEF Chunks
<1> QED
  BY <1>2, <1>3 DEF Steps

\* What the walk finds. It starts at the first word,
Follows(m, S) ==
    /\ S \subseteq Word
    /\ \A a \in S : m[a].size > 0
    /\ On(m, 0) => 0 \in S
    /\ \A a \in S : On(m, After(m, a)) => After(m, a) \in S
    /\ \A a \in S : a = 0 \/ \E b \in S : After(m, b) = a

\* What Chunks visits: the beginning of the heap, and what comes after.
LEMMA ChunksFollow ==
    ASSUME NEW m \in Mem
    PROVE  Follows(m, Chunks(m))
<1> USE MyMallocAssumption DEF Mem
<1>1. PICK f : Steps(m, f) /\ Chunks(m) = f[0]
  BY ChunksWalk
<1>2. \A a \in Nat : f[a] = IF On(m, a) THEN {a} \cup f[After(m, a)] ELSE {}
  BY <1>1 DEF Steps, On
<1>3. \A a \in Nat : On(m, a) => a \in f[a] /\ a \in Word /\ m[a].size > 0
  <2> SUFFICES ASSUME NEW a \in Nat, On(m, a)
               PROVE  a \in f[a] /\ a \in Word /\ m[a].size > 0
    OBVIOUS
  <2>1. a \in Word /\ m[a].size # 0
    BY DEF On
  <2>2. m[a].size \in Nat
    BY <2>1, AfterLater
  <2>3. a \in f[a]
    BY <1>2
  <2> QED
    BY <2>1, <2>2, <2>3
\* Whatever a walk that starts at a has of its own leads on and is led to.
<1> DEFINE Sound(a) == \A x \in f[a] :
              /\ On(m, x)
              /\ On(m, After(m, x)) => After(m, x) \in f[a]
              /\ x = a \/ \E b \in f[a] : After(m, b) = x
<1>4. \A a \in Nat : Sound(a)
  <2> SUFFICES ASSUME NEW a0 \in Nat, ~Sound(a0) PROVE FALSE
    OBVIOUS
  <2> DEFINE Bad == {a \in Word : ~Sound(a)}
  <2>1. a0 \in Bad
    BY <1>2 DEF On
  <2>2. PICK a \in Bad : \A b \in Bad : b <= a
    BY <2>1, LastElement
  <2>3. a \in Word /\ a \in Nat /\ On(m, a)
    <3>1. a \in Word /\ a \in Nat
      BY AfterLater
    <3>2. f[a] # {}
      BY <2>2
    <3> QED
      BY <3>1, <3>2, <1>2
  <2>4. After(m, a) \in Nat /\ After(m, a) > a
    BY <2>3, AfterLater
  <2>5. Sound(After(m, a))
    <3> HIDE DEF Sound
    <3>1. After(m, a) \notin Bad
      BY <2>2, <2>3, <2>4
    <3>2. After(m, a) \notin Word => f[After(m, a)] = {}
      BY <2>4, <1>2 DEF On
    <3> QED
      BY <3>1, <3>2 DEF Sound
  <2>6. f[a] = {a} \cup f[After(m, a)]
    BY <2>3, <1>2
  <2>7. On(m, After(m, a)) => After(m, a) \in f[After(m, a)]
    BY <2>4, <1>3
  <2>8. Sound(a)
    BY <2>3, <2>5, <2>6, <2>7
  <2> QED
    BY <2>2, <2>8
<1>5. \A x \in Chunks(m) : On(m, x)
  BY <1>1, <1>4
<1> QED
  BY <1>1, <1>3, <1>4, <1>5 DEF Follows, On

------------------------------------------------------------------------------
\* The headers at S tile the heap: they lead from one to the next, and the last
\* to the end.
Tiles(m, S) ==
    /\ S \subseteq Word /\ 0 \in S
    /\ \A a \in S : /\ m[a].size > 0
                    /\ After(m, a) <= Words
                    /\ After(m, a) = Words \/ After(m, a) \in S
    /\ \A a \in S : a = 0 \/ \E b \in S : After(m, b) = a

\* Then they are what the walk finds.
LEMMA TilesAreChunks ==
    ASSUME NEW m \in Mem, NEW S, Tiles(m, S)
    PROVE  Chunks(m) = S
<1> DEFINE C == Chunks(m)
<1>1. Follows(m, C)
  BY ChunksFollow
<1>2. ASSUME S \ C # {} PROVE FALSE
  <2>0. S \ C \in SUBSET Nat
    <3> HIDE DEF C
    <3>1. S \subseteq Word /\ Word \subseteq Nat
      BY DEF Tiles, Word
    <3> QED
      BY <3>1
  <2>1. PICK x \in S \ C : \A y \in S \ C : x <= y
    BY <1>2, <2>0, LeastElement
  <2>2. x # 0
    BY <1>1, AfterLater DEF Follows, On, Tiles
  <2>3. PICK b \in S : After(m, b) = x
    BY <2>2 DEF Tiles
  <2>4. b < x /\ b \in Nat /\ x \in Nat
    BY <2>3, AfterLater DEF Tiles
  <2>5. b \in C
    BY <2>1, <2>4
  <2>6. On(m, x)
    BY AfterLater DEF Tiles, On
  <2> QED
    BY <1>1, <2>1, <2>3, <2>5, <2>6 DEF Follows
<1>3. ASSUME C \ S # {} PROVE FALSE
  <2>0. C \ S \in SUBSET Nat
    BY <1>1 DEF Follows, Word
  <2>1. PICK x \in C \ S : \A y \in C \ S : x <= y
    BY <1>3, <2>0, LeastElement
  <2>2. x # 0
    BY DEF Tiles
  <2>3. PICK b \in C : After(m, b) = x
    BY <1>1, <2>2 DEF Follows
  <2>4. b < x /\ b \in Nat /\ x \in Nat /\ x \in Word
    BY <1>1, <2>3, AfterLater DEF Follows
  <2>5. b \in S
    BY <2>1, <2>4
  <2>6. x = Words
    BY <2>1, <2>3, <2>5 DEF Tiles
  <2> QED
    BY <2>4, <2>6, MyMallocAssumption DEF Word
<1> QED
  BY <1>2, <1>3

\* No two overlap.
LEMMA TilesApart ==
    ASSUME NEW m \in Mem, NEW S, Tiles(m, S), NEW a \in S, NEW b \in S, a < b
    PROVE  After(m, a) <= b
<1> DEFINE Inside == {y \in S : \E x \in S : x < y /\ y < After(m, x)}
<1>0. S \subseteq Word /\ \A x \in S : x \in Nat /\ After(m, x) \in Nat /\ After(m, x) > x
  BY AfterLater DEF Tiles
<1>1. SUFFICES ASSUME Inside # {} PROVE FALSE
  BY <1>0
<1>2. PICK y \in Inside : \A z \in Inside : y <= z
  BY <1>0, <1>1, LeastElement
<1>3. PICK x \in S : x < y /\ y < After(m, x)
  OBVIOUS
<1>4. y # 0 /\ y \in S
  BY <1>0, <1>3
<1>5. PICK c \in S : After(m, c) = y
  BY <1>4 DEF Tiles
<1>6. c < y
  BY <1>0, <1>5
<1>7. CASE c < x
  <2>1. x \in Inside
    BY <1>3, <1>5, <1>7
  <2> QED
    BY <1>0, <1>2, <1>3, <2>1
<1>8. CASE c = x
  BY <1>0, <1>3, <1>5, <1>8
<1>9. CASE x < c
  <2>1. c \in Inside
    BY <1>0, <1>3, <1>6, <1>9
  <2> QED
    BY <1>0, <1>2, <1>6, <2>1
<1> QED
  BY <1>0, <1>7, <1>8, <1>9

\* Every word is in one,
LEMMA TilesCover ==
    ASSUME NEW m \in Mem, NEW S, Tiles(m, S), NEW w \in Word
    PROVE  \E a \in S : a <= w /\ w < After(m, a)
<1> DEFINE Before == {x \in S : x <= w}
<1>0. \A x \in S : x \in Word /\ x \in Nat /\ After(m, x) \in Nat /\ After(m, x) > x
  BY AfterLater DEF Tiles
<1>1. 0 \in Before /\ w < Words /\ w \in Nat /\ Words \in Nat
  BY MyMallocAssumption DEF Tiles, Word
<1>2. PICK a \in Before : \A x \in Before : x <= a
  BY <1>0, <1>1, LastElement
<1>3. After(m, a) \notin Before
  BY <1>0, <1>2
<1>4. After(m, a) = Words \/ After(m, a) \in S
  BY DEF Tiles
<1> QED
  BY <1>0, <1>1, <1>3, <1>4

\* and one ends the heap.
LEMMA TilesEnd ==
    ASSUME NEW m \in Mem, NEW S, Tiles(m, S)
    PROVE  \E a \in S : After(m, a) = Words
<1>1. S \subseteq Word /\ S # {}
  BY DEF Tiles
<1>2. PICK a \in S : \A x \in S : x <= a
  BY <1>1, LastElement
<1>3. After(m, a) \notin S
  BY <1>1, <1>2, AfterLater
<1> QED
  BY <1>3 DEF Tiles

\* A heap in which no walk can start has no chunk.
LEMMA NoWalk ==
    ASSUME NEW m \in Mem, m[0].size = 0
    PROVE  Chunks(m) = {}
<1> SUFFICES ASSUME Chunks(m) # {} PROVE FALSE
  OBVIOUS
<1>1. Follows(m, Chunks(m))
  BY ChunksFollow
<1>2. PICK x \in Chunks(m) : \A y \in Chunks(m) : x <= y
  BY <1>1, LeastElement DEF Follows, Word
<1>3. x \in Word /\ x # 0
  BY <1>1 DEF Follows
<1>4. PICK b \in Chunks(m) : After(m, b) = x
  BY <1>1, <1>3 DEF Follows
<1>5. b < x /\ b \in Nat /\ x \in Nat
  BY <1>1, <1>3, <1>4, AfterLater DEF Follows
<1> QED
  BY <1>2, <1>5

------------------------------------------------------------------------------
\* coalesce: where the run of free chunks after each word ends, and the chunks
\* that take the others in.
Runs(m, f) == f = [a \in Word |-> IF IsFree(m, After(m, a)) THEN f[After(m, a)]
                                  ELSE After(m, a)]
Heads(m) == {a \in Chunks(m) : IsFree(m, a) /\ ~\E b \in Chunks(m) :
                                   IsFree(m, b) /\ After(m, b) = a}

\* Where a run of free chunks ends can be defined from the end of the heap.
LEMMA RunsExist ==
    ASSUME NEW m \in Mem
    PROVE  \E f \in [Word -> Nat] : Runs(m, f)
<1> USE MyMallocAssumption
<1> DEFINE Def(f, a) == IF IsFree(m, After(m, a)) THEN f[After(m, a)] ELSE After(m, a)
           Good(d) == \E f \in [Word -> Nat] : \A a \in Word : a >= Words - d => f[a] = Def(f, a)
           Bad == {d \in Nat : ~Good(d)}
<1>1. Good(Words)
  <2> SUFFICES ASSUME Bad # {} PROVE FALSE
    OBVIOUS
  <2>1. PICK d \in Bad : \A e \in Bad : d <= e
    BY LeastElement
  <2>2. CASE d = 0
    <3> DEFINE g == [a \in Word |-> 0]
    <3>1. g \in [Word -> Nat]
      OBVIOUS
    <3>2. \A a \in Word : a >= Words - d => g[a] = Def(g, a)
      BY <2>2 DEF Word
    <3> QED
      BY <3>1, <3>2
  <2>3. CASE d > 0
    <3>1. d - 1 \in Nat /\ d - 1 \notin Bad
      <4> HIDE DEF Good
      <4>1. d - 1 \in Nat /\ ~(d <= d - 1)
        BY <2>3
      <4> QED
        BY <2>1, <4>1
    <3>2. PICK f \in [Word -> Nat] :
             \A a \in Word : a >= Words - (d - 1) => f[a] = Def(f, a)
      BY <3>1
    <3>3. CASE Words - d \notin Nat
      <4>1. \A a \in Word : a >= Words - (d - 1)
        BY <3>3 DEF Word
      <4> QED
        BY <3>2, <4>1
    <3>4. CASE Words - d \in Nat
      <4> DEFINE w == Words - d
                 g == [f EXCEPT ![w] = Def(f, w)]
      <4>1. w \in Word /\ After(m, w) \in Nat /\ After(m, w) > w
        BY <2>3, <3>4, AfterLater DEF Word
      <4>2. Def(f, w) \in Nat
        BY <4>1 DEF IsFree
      <4>3. g \in [Word -> Nat] /\ g[w] = Def(f, w) /\ \A a \in Word : a # w => g[a] = f[a]
        BY <4>1, <4>2
      <4>4. ASSUME NEW a \in Word, a >= Words - d PROVE g[a] = Def(g, a)
        <5>1. After(m, a) # w
          BY <4>4, AfterLater
        <5>2. Def(f, a) = Def(g, a)
          BY <4>3, <5>1 DEF IsFree
        <5>3. CASE a = w
          BY <4>3, <5>2, <5>3
        <5>4. CASE a # w
          <6>1. a >= Words - (d - 1)
            BY <4>4, <5>4, AfterLater
          <6>2. f[a] = Def(f, a)
            BY <3>2, <6>1
          <6> QED
            BY <4>3, <5>2, <5>4, <6>2
        <5> QED
          BY <5>3, <5>4
      <4> HIDE DEF g
      <4> QED
        BY <4>3, <4>4
    <3> QED
      BY <3>3, <3>4
  <2> QED
    BY <2>1, <2>2, <2>3
<1>2. PICK f \in [Word -> Nat] : \A a \in Word : a >= Words - Words => f[a] = Def(f, a)
  BY <1>1
<1>3. Runs(m, f)
  BY <1>2 DEF Runs, Word
<1> QED
  BY <1>3

\* coalesce makes each run of free chunks one.
LEMMA CoalesceRuns ==
    ASSUME NEW m \in Mem
    PROVE  \E f : /\ Runs(m, f)
                  /\ coalesce(m) = [a \in Word |-> IF a \in Heads(m)
                                                   THEN Header(f[a] - a - 1, FALSE) ELSE m[a]]
<1> DEFINE G == CHOOSE f : f = [a \in Word |-> IF IsFree(m, After(m, a)) THEN f[After(m, a)]
                                               ELSE After(m, a)]
<1>1. \E f : f = [a \in Word |-> IF IsFree(m, After(m, a)) THEN f[After(m, a)]
                                 ELSE After(m, a)]
  BY RunsExist DEF Runs
<1>2. G = [a \in Word |-> IF IsFree(m, After(m, a)) THEN G[After(m, a)] ELSE After(m, a)]
  BY <1>1
<1>3. coalesce(m) = [a \in Word |-> IF a \in Heads(m) THEN Header(G[a] - a - 1, FALSE) ELSE m[a]]
  BY DEF coalesce, Heads
<1> QED
  BY <1>2, <1>3 DEF Runs

\* A run ends at the end of the heap or at a chunk in use, and all its chunks
\* are free.
RunIs(m, S, a, e) ==
    /\ e \in Nat /\ e >= After(m, a) /\ e <= Words
    /\ e = Words \/ (e \in S /\ ~IsFree(m, e))
    /\ \A c \in S : a < c /\ c < e => IsFree(m, c)

\* A run ends at a chunk in use or at the end of the heap.
LEMMA RunEnds ==
    ASSUME NEW m \in Mem, NEW S, Tiles(m, S), NEW f, Runs(m, f), NEW a0 \in S
    PROVE  RunIs(m, S, a0, f[a0])
<1> DEFINE Bad == {a \in S : ~RunIs(m, S, a, f[a])}
<1>1. SUFFICES ASSUME Bad # {} PROVE FALSE
  OBVIOUS
<1>2. Bad \subseteq Word /\ S \subseteq Word
  BY DEF Tiles
<1>3. PICK a \in Bad : \A b \in Bad : b <= a
  BY <1>1, <1>2, LastElement
<1>4. /\ a \in Word /\ a \in Nat /\ After(m, a) \in Nat /\ After(m, a) > a
      /\ After(m, a) <= Words /\ (After(m, a) = Words \/ After(m, a) \in S)
  BY <1>2, AfterLater DEF Tiles
<1>5. f[a] = IF IsFree(m, After(m, a)) THEN f[After(m, a)] ELSE After(m, a)
  BY <1>4 DEF Runs
<1>6. \A c \in S : a < c => After(m, a) <= c
  BY TilesApart
<1>7. CASE ~IsFree(m, After(m, a))
  <2>1. \A c \in S : ~(a < c /\ c < f[a])
    BY <1>2, <1>4, <1>5, <1>6, <1>7, AfterLater
  <2> QED
    BY <1>4, <1>5, <1>7, <2>1 DEF RunIs
<1>8. CASE IsFree(m, After(m, a))
  <2> DEFINE b == After(m, a)
  <2>1. b \in S
    BY <1>4, <1>8, MyMallocAssumption DEF IsFree, Word
  <2>2. b \notin Bad
    BY <1>3, <1>4
  <2>3. RunIs(m, S, b, f[b])
    BY <2>1, <2>2
  <2>4. f[a] = f[b] /\ After(m, b) > b /\ After(m, b) \in Nat
    BY <1>2, <1>5, <1>8, <2>1, AfterLater
  <2>5. \A c \in S : a < c /\ c < f[a] => IsFree(m, c)
    BY <1>2, <1>4, <1>6, <1>8, <2>3, <2>4, AfterLater DEF RunIs
  <2>6. f[b] \in Nat /\ f[b] >= After(m, b) /\ f[b] <= Words
        /\ (f[b] = Words \/ (f[b] \in S /\ ~IsFree(m, f[b])))
    BY <2>3 DEF RunIs
  <2>7. f[a] >= After(m, a)
    BY <1>4, <2>4, <2>6
  <2> QED
    BY <2>4, <2>5, <2>6, <2>7 DEF RunIs
<1> QED
  BY <1>7, <1>8

\* The chunks that are left.
Kept(m, S) == {a \in S : ~IsFree(m, a)} \cup Heads(m)
FreeApart(m, S) == \A a \in S : IsFree(m, a) => ~IsFree(m, After(m, a))

\* coalesce leaves a tiling with no two free chunks side by side, and writes
\* the headers of free chunks only.
LEMMA Coalesced ==
    ASSUME NEW m \in Mem, NEW S, Tiles(m, S)
    PROVE  /\ coalesce(m) \in Mem
           /\ Tiles(coalesce(m), Kept(m, S))
           /\ FreeApart(coalesce(m), Kept(m, S))
           /\ Heads(m) \subseteq S
           /\ \A w \in Word : w \notin Heads(m) => coalesce(m)[w] = m[w]
           /\ \A w \in Heads(m) : IsFree(m, w) /\ ~coalesce(m)[w].used
<1> USE MyMallocAssumption
<1> DEFINE H == Heads(m)
           T == Kept(m, S)
           m1 == coalesce(m)
<1>1. PICK f : /\ Runs(m, f)
               /\ m1 = [a \in Word |-> IF a \in H THEN Header(f[a] - a - 1, FALSE) ELSE m[a]]
  BY CoalesceRuns
<1>2. H = {a \in S : IsFree(m, a) /\ ~\E b \in S : IsFree(m, b) /\ After(m, b) = a}
  BY TilesAreChunks DEF Heads
<1>3. \A a \in S : /\ a \in Word /\ a \in Nat /\ m[a].size \in Nat /\ m[a].size > 0
                   /\ After(m, a) \in Nat /\ After(m, a) > a /\ After(m, a) <= Words
                   /\ After(m, a) = Words \/ After(m, a) \in S
  BY AfterLater DEF Tiles
<1>4. \A a \in S : RunIs(m, S, a, f[a])
  BY <1>1, RunEnds
<1>5. ASSUME NEW a \in S, NEW b \in S, After(m, a) = After(m, b) PROVE a = b
  <2>1. ~(a < b) /\ ~(b < a)
    BY <1>3, <1>5, TilesApart
  <2> QED
    BY <1>3, <2>1
<1>6. Words \in Nat /\ Words \notin Word /\ 0 \in S /\ S \subseteq Word
      /\ \A a \in Word : ~(a >= Words)
  BY DEF Tiles, Word
<1>7. \A h \in H : /\ h \in S /\ IsFree(m, h)
                   /\ m1[h] = Header(f[h] - h - 1, FALSE)
                   /\ m1[h].size = f[h] - h - 1 /\ m1[h].used = FALSE
                   /\ m1[h].size \in Nat /\ m1[h].size > 0 /\ After(m1, h) = f[h]
  <2> SUFFICES ASSUME NEW h \in H
               PROVE  /\ h \in S /\ IsFree(m, h)
                      /\ m1[h] = Header(f[h] - h - 1, FALSE)
                      /\ m1[h].size = f[h] - h - 1 /\ m1[h].used = FALSE
                      /\ m1[h].size \in Nat /\ m1[h].size > 0 /\ After(m1, h) = f[h]
    OBVIOUS
  <2>1. h \in S /\ IsFree(m, h) /\ h \in Word
    BY <1>2, <1>3
  <2>2. m1[h] = Header(f[h] - h - 1, FALSE)
    BY <1>1, <2>1
  <2>3. m1[h].size = f[h] - h - 1 /\ m1[h].used = FALSE
    BY <2>2 DEF Header
  <2>4. f[h] \in Nat /\ f[h] >= h + 1 + m[h].size
    BY <1>4, <2>1 DEF RunIs, After
  <2>5. m1[h].size \in Nat /\ m1[h].size > 0
    BY <1>3, <2>1, <2>3, <2>4
  <2>6. After(m1, h) = f[h]
    <3> HIDE DEF m1
    <3> QED
      BY <1>3, <2>1, <2>3, <2>4 DEF After
  <2> QED
    BY <2>1, <2>2, <2>3, <2>5, <2>6
<1>8. \A w \in Word : w \notin H => m1[w] = m[w] /\ After(m1, w) = After(m, w)
                                    /\ (IsFree(m1, w) <=> IsFree(m, w))
  BY <1>1 DEF After, IsFree
<1>9. m1 \in Mem
  <2>1. \A w \in Word : (IF w \in H THEN Header(f[w] - w - 1, FALSE) ELSE m[w])
                        \in [size : Nat, used : BOOLEAN]
    BY <1>7 DEF Mem, Header
  <2> QED
    BY <1>1, <2>1 DEF Mem
<1>10. \A a : a \in T <=> (a \in S /\ ~IsFree(m, a)) \/ a \in H
  BY DEF Kept
<1> HIDE DEF m1, H, T
<1>11. T \subseteq Word /\ T \subseteq S
  BY <1>3, <1>7, <1>10
<1>12. 0 \in T
  <2>1. \A b \in S : After(m, b) # 0
    BY <1>3
  <2> QED
    BY <1>2, <1>6, <1>10, <2>1
<1>13. ASSUME NEW a \in T
       PROVE  /\ m1[a].size > 0
              /\ After(m1, a) <= Words
              /\ After(m1, a) = Words \/ After(m1, a) \in T
  <2>1. CASE a \in H
    <3>1. a \in S /\ m1[a].size > 0 /\ After(m1, a) = f[a]
      BY <1>7, <2>1
    <3>2. f[a] <= Words /\ (f[a] = Words \/ (f[a] \in S /\ ~IsFree(m, f[a])))
      BY <1>4, <3>1 DEF RunIs
    <3> QED
      BY <1>10, <3>1, <3>2
  <2>2. CASE a \notin H
    <3>1. a \in S /\ ~IsFree(m, a) /\ a \in Word
      BY <1>10, <1>11, <2>2
    <3>2. m1[a] = m[a] /\ After(m1, a) = After(m, a)
      BY <1>8, <2>2, <3>1
    <3>3. ASSUME After(m, a) # Words PROVE After(m, a) \in T
      <4>1. After(m, a) \in S
        BY <1>3, <3>1, <3>3
      <4>2. IsFree(m, After(m, a)) => After(m, a) \in H
        BY <1>2, <1>5, <3>1, <4>1
      <4> QED
        BY <1>10, <4>1, <4>2
    <3> QED
      BY <1>3, <3>1, <3>2, <3>3
  <2> QED
    BY <2>1, <2>2
<1>14. ASSUME NEW a \in T, a # 0 PROVE \E b \in T : After(m1, b) = a
  <2>1. a \in S /\ a \in Nat
    BY <1>3, <1>11
  <2>2. PICK b \in S : After(m, b) = a
    BY <1>14, <2>1 DEF Tiles
  <2>3. CASE ~IsFree(m, b)
    <3>1. b \in T /\ b \notin H /\ b \in Word
      BY <1>3, <1>7, <1>10, <2>3
    <3> QED
      BY <1>8, <2>2, <3>1
  <2>4. CASE IsFree(m, b)
    <3> DEFINE L == {h \in S : h < a /\ \A c \in S : h <= c /\ c < a => IsFree(m, c)}
    <3>1. a \notin H /\ ~IsFree(m, a)
      BY <1>2, <1>10, <2>2, <2>4
    <3>2. \A c \in S : b < c => a <= c
      BY <2>2, TilesApart
    <3>3. b \in L
      <4>1. ASSUME NEW c \in S, b <= c, c < a PROVE c = b
        BY <1>3, <2>1, <3>2, <4>1
      <4>2. b < a
        BY <1>3, <2>2
      <4> QED
        BY <2>4, <4>1, <4>2
    <3>4. L \subseteq Nat
      BY <1>3
    <3>5. PICK h \in L : \A g \in L : h <= g
      BY <3>3, <3>4, LeastElement
    <3>6. h \in S /\ h \in Nat /\ h < a /\ IsFree(m, h)
      BY <1>3, <3>5
    <3>7. h \in H
      <4>1. SUFFICES ASSUME NEW g \in S, IsFree(m, g), After(m, g) = h PROVE FALSE
        BY <1>2, <3>6
      <4>2. g < h /\ g \in Nat
        BY <1>3, <4>1
      <4>3. \A c \in S : g < c => h <= c
        BY <4>1, TilesApart
      <4>4. ASSUME NEW c \in S, g <= c, c < a PROVE IsFree(m, c)
        <5>1. c = g \/ h <= c
          BY <1>3, <4>2, <4>3, <4>4
        <5> QED
          BY <3>5, <4>1, <4>4, <5>1
      <4>5. g \in L
        BY <2>1, <3>6, <4>2, <4>4
      <4> QED
        BY <3>5, <3>6, <4>2, <4>5
    <3>8. /\ f[h] \in Nat /\ f[h] > h
          /\ f[h] = Words \/ (f[h] \in S /\ ~IsFree(m, f[h]))
          /\ \A c \in S : h < c /\ c < f[h] => IsFree(m, c)
      BY <1>3, <1>4, <3>6 DEF RunIs
    <3>9. ~(f[h] < a)
      BY <1>3, <1>6, <2>1, <3>5, <3>6, <3>8
    <3>10. ~(a < f[h])
      BY <2>1, <3>1, <3>6, <3>8
    <3>11. f[h] = a
      BY <2>1, <3>8, <3>9, <3>10
    <3> QED
      BY <1>7, <1>10, <3>7, <3>11
  <2> QED
    BY <2>3, <2>4
<1>15. ASSUME NEW a \in T, IsFree(m1, a) PROVE ~IsFree(m1, After(m1, a))
  <2>1. a \in H
    BY <1>8, <1>10, <1>11, <1>15
  <2>2. After(m1, a) = f[a] /\ (f[a] = Words \/ (f[a] \in S /\ ~IsFree(m, f[a])))
    BY <1>4, <1>7, <2>1 DEF RunIs
  <2>3. CASE f[a] = Words
    BY <1>6, <2>2, <2>3 DEF IsFree
  <2>4. CASE f[a] \in S /\ ~IsFree(m, f[a])
    BY <1>3, <1>7, <1>8, <2>2, <2>4
  <2> QED
    BY <2>2, <2>3, <2>4
<1>16. Tiles(m1, T)
  BY <1>11, <1>12, <1>13, <1>14 DEF Tiles
<1>17. FreeApart(m1, T)
  BY <1>15 DEF FreeApart
<1> QED
  BY <1>7, <1>8, <1>9, <1>16, <1>17 DEF m1, H, T

\* Where no two are side by side there is nothing to merge.
LEMMA CoalesceNothing ==
    ASSUME NEW m \in Mem, NEW S, Tiles(m, S), FreeApart(m, S)
    PROVE  coalesce(m) = m
<1>1. PICK f : /\ Runs(m, f)
               /\ coalesce(m) = [a \in Word |-> IF a \in Heads(m)
                                                THEN Header(f[a] - a - 1, FALSE) ELSE m[a]]
  BY CoalesceRuns
<1>2. ASSUME NEW a \in Heads(m) PROVE Header(f[a] - a - 1, FALSE) = m[a]
  <2>1. a \in S /\ a \in Word /\ IsFree(m, a)
    BY TilesAreChunks DEF Heads, Tiles
  <2>2. f[a] = After(m, a)
    BY <1>1, <2>1 DEF Runs, FreeApart
  <2>3. f[a] - a - 1 = m[a].size
    BY <2>1, <2>2, AfterLater DEF After
  <2>4. m[a].used = FALSE /\ m[a] \in [size : Nat, used : BOOLEAN]
    BY <2>1 DEF IsFree, Mem
  <2> QED
    BY <2>3, <2>4 DEF Header
<1>3. \A a \in Word : (IF a \in Heads(m) THEN Header(f[a] - a - 1, FALSE) ELSE m[a]) = m[a]
  BY <1>2
<1> QED
  BY <1>1, <1>3 DEF Mem

------------------------------------------------------------------------------
\* What malloc makes of a free chunk with room for n words.
Taken(m, a, n) == [split_chunk(m, a, n) EXCEPT ![a].used = TRUE]
WithRest(m, S, a, n) == IF m[a].size >= n + 2 THEN S \cup {a + 1 + n} ELSE S

\* A chunk that is taken, its rest split off, leaves the heap tiled.
LEMMA TakenSteps ==
    ASSUME NEW m \in Mem, NEW S, Tiles(m, S), NEW a \in S, IsFree(m, a),
           NEW n \in Nat, n >= 1, m[a].size >= n
    PROVE  /\ Taken(m, a, n) \in Mem
           /\ Taken(m, a, n)[a].used
           /\ Taken(m, a, n)[a].size - n \in {0, 1}
           /\ \A w \in Word : w # a /\ w \notin WithRest(m, S, a, n) \ S
                                => Taken(m, a, n)[w] = m[w]
           /\ Tiles(Taken(m, a, n), WithRest(m, S, a, n))
           /\ \A w \in WithRest(m, S, a, n) \ S : IsFree(Taken(m, a, n), w)
           /\ FreeApart(m, S) => FreeApart(Taken(m, a, n), WithRest(m, S, a, n))
<1> USE MyMallocAssumption
<1> DEFINE m2 == Taken(m, a, n)
           T == WithRest(m, S, a, n)
           r == a + 1 + n
           Goal == /\ m2 \in Mem
                   /\ m2[a].used
                   /\ m2[a].size - n \in {0, 1}
                   /\ \A w \in Word : w # a /\ w \notin T \ S => m2[w] = m[w]
                   /\ Tiles(m2, T)
                   /\ \A w \in T \ S : IsFree(m2, w)
                   /\ FreeApart(m, S) => FreeApart(m2, T)
<1>1. \A b \in S : /\ b \in Word /\ b \in Nat /\ m[b].size \in Nat /\ m[b].size > 0
                   /\ After(m, b) = b + 1 + m[b].size
                   /\ After(m, b) \in Nat /\ After(m, b) <= Words
                   /\ After(m, b) = Words \/ After(m, b) \in S
  BY AfterLater DEF Tiles, After
<1>2. m[a].used = FALSE /\ m[a] \in [size : Nat, used : BOOLEAN] /\ a \in Word
  BY <1>1 DEF IsFree, Mem
<1>3. Words \in Nat /\ Words \notin Word /\ 0 \in S /\ S \subseteq Word
  BY DEF Tiles, Word
<1>4. ASSUME ~(m[a].size >= n + 2) PROVE Goal
  <2>1. T = S /\ m2 = [m EXCEPT ![a].used = TRUE]
    BY <1>4 DEF WithRest, Taken, split_chunk
  <2>2. /\ m2 \in Mem /\ m2[a].used = TRUE /\ m2[a].size = m[a].size
        /\ \A w \in Word : w # a => m2[w] = m[w]
    BY <1>2, <2>1 DEF Mem
  <2> HIDE DEF m2, T
  <2>3. \A w \in Word : m2[w].size = m[w].size /\ After(m2, w) = After(m, w)
    BY <2>2 DEF After
  <2>4. m2[a].size - n \in {0, 1}
    BY <1>1, <1>4, <2>2
  <2>5. Tiles(m2, S)
    BY <1>1, <2>3 DEF Tiles
  <2>6. \A w \in Word : IsFree(m2, w) <=> IsFree(m, w) /\ w # a
    BY <2>2, <2>3 DEF IsFree
  <2>7. FreeApart(m, S) => FreeApart(m2, S)
    <3> SUFFICES ASSUME FreeApart(m, S), NEW b \in S, IsFree(m2, b)
                 PROVE  ~IsFree(m2, After(m2, b))
      BY DEF FreeApart
    <3>1. ~IsFree(m, After(m, b))
      BY <1>1, <2>6 DEF FreeApart
    <3> QED
      BY <1>1, <2>3, <2>6, <3>1 DEF IsFree
  <2> QED
    BY <2>1, <2>2, <2>4, <2>5, <2>7
<1>5. ASSUME m[a].size >= n + 2 PROVE Goal
  <2>1. T = S \cup {r}
        /\ m2 = [[m EXCEPT ![a].size = n, ![r] = Header(m[a].size - n - 1, FALSE)]
                    EXCEPT ![a].used = TRUE]
    BY <1>5 DEF WithRest, Taken, split_chunk
  <2>2. r \in Nat /\ r > a /\ r + 1 < After(m, a) /\ r \in Word
    BY <1>1, <1>3, <1>5 DEF Word
  <2>3. r \notin S
    BY <1>1, <2>2, TilesApart
  <2>4. /\ m2 \in Mem
        /\ m2[a] = Header(n, TRUE)
        /\ m2[r] = Header(m[a].size - n - 1, FALSE)
        /\ \A w \in Word : w # a /\ w # r => m2[w] = m[w]
    <3> DEFINE k == [m EXCEPT ![a].size = n, ![r] = Header(m[a].size - n - 1, FALSE)]
    <3>0. Header(m[a].size - n - 1, FALSE) \in [size : Nat, used : BOOLEAN]
      BY <1>1, <1>5 DEF Header
    <3>1. /\ k \in Mem
          /\ k[a] = [m[a] EXCEPT !.size = n]
          /\ k[r] = Header(m[a].size - n - 1, FALSE)
          /\ \A w \in Word : w # a /\ w # r => k[w] = m[w]
      <4> DEFINE j == [m EXCEPT ![a].size = n]
      <4>1. /\ j \in Mem /\ j[a] = [m[a] EXCEPT !.size = n]
            /\ \A w \in Word : w # a => j[w] = m[w]
        BY <1>2 DEF Mem
      <4>2. k = [j EXCEPT ![r] = Header(m[a].size - n - 1, FALSE)]
        OBVIOUS
      <4> HIDE DEF j, k, r
      <4>3. /\ k \in Mem /\ k[r] = Header(m[a].size - n - 1, FALSE)
            /\ \A w \in Word : w # r => k[w] = j[w]
        BY <2>2, <3>0, <4>1, <4>2 DEF Mem
      <4> QED
        BY <1>2, <2>2, <2>3, <4>1, <4>3
    <3>2. m2 = [k EXCEPT ![a].used = TRUE]
      BY <2>1
    <3> HIDE DEF k
    <3>3. /\ m2 \in Mem /\ m2[a] = [k[a] EXCEPT !.used = TRUE]
          /\ \A w \in Word : w # a => m2[w] = k[w]
      <4> HIDE DEF m2
      <4> QED
        BY <1>2, <3>1, <3>2 DEF Mem
    <3>4. m2[a] = Header(n, TRUE)
      <4> HIDE DEF m2
      <4> QED
        BY <1>2, <3>1, <3>3 DEF Header
    <3> HIDE DEF m2, r
    <3> QED
      BY <2>2, <2>3, <3>1, <3>3, <3>4
  <2> HIDE DEF m2, T
  <2>5. /\ m2[a].size = n /\ m2[a].used = TRUE
        /\ m2[r].size = m[a].size - n - 1 /\ m2[r].size > 0 /\ m2[r].used = FALSE
        /\ After(m2, a) = r /\ After(m2, r) = After(m, a)
    BY <1>1, <1>5, <2>2, <2>4 DEF Header, After
  <2>6. \A b \in S : b # a => m2[b].size = m[b].size /\ After(m2, b) = After(m, b)
    BY <1>3, <2>3, <2>4 DEF After
  <2>12. r # a /\ r <= Words /\ T = S \cup {r}
    BY <1>1, <2>1, <2>2
  <2> HIDE DEF r
  <2>7. Tiles(m2, T)
    <3>1. T \subseteq Word /\ 0 \in T
      BY <1>3, <2>1, <2>2
    <3>2. ASSUME NEW b \in T
          PROVE  /\ m2[b].size > 0 /\ After(m2, b) <= Words
                 /\ After(m2, b) = Words \/ After(m2, b) \in T
      <4>1. CASE b = a
        BY <2>5, <2>12, <4>1
      <4>2. CASE b = r
        BY <1>1, <2>5, <2>12, <4>2
      <4>3. CASE b # a /\ b # r
        BY <1>1, <2>6, <2>12, <4>3
      <4> QED
        BY <4>1, <4>2, <4>3
    <3>3. ASSUME NEW b \in T, b # 0 PROVE \E c \in T : After(m2, c) = b
      <4>1. CASE b = r
        BY <2>1, <2>5, <4>1
      <4>2. CASE b \in S
        <5>1. PICK c \in S : After(m, c) = b
          BY <3>3, <4>2 DEF Tiles
        <5>2. CASE c = a
          BY <2>1, <2>5, <5>1, <5>2
        <5>3. CASE c # a
          BY <2>1, <2>6, <5>1, <5>3
        <5> QED
          BY <5>2, <5>3
      <4> QED
        BY <2>1, <4>1, <4>2
    <3> QED
      BY <3>1, <3>2, <3>3 DEF Tiles
  <2>8. \A w \in T \ S : w = r
    BY <2>1
  <2>9. IsFree(m2, r)
    BY <2>2, <2>5 DEF IsFree
  <2>10. ASSUME FreeApart(m, S) PROVE FreeApart(m2, T)
    <3> SUFFICES ASSUME NEW b \in T, IsFree(m2, b)
                 PROVE  ~IsFree(m2, After(m2, b))
      BY DEF FreeApart
    <3>1. \A w : w # r /\ ~IsFree(m, w) => ~IsFree(m2, w)
      <4> SUFFICES ASSUME NEW w, w # r, IsFree(m2, w) PROVE IsFree(m, w)
        OBVIOUS
      <4> QED
        BY <2>4, <2>5 DEF IsFree
    <3>2. CASE b = r
      <4>1. ~IsFree(m, After(m, a)) /\ After(m, a) # r
        BY <2>2, <2>10 DEF FreeApart
      <4> QED
        BY <2>5, <3>1, <3>2, <4>1
    <3>3. CASE b # r
      <4>1. b \in S /\ b # a
        BY <2>1, <2>5, <3>3 DEF IsFree
      <4>2. IsFree(m, b)
        BY <3>1, <3>3
      <4>3. ~IsFree(m, After(m, b)) /\ After(m, b) # r
        BY <1>1, <1>3, <2>2, <2>3, <2>10, <4>1, <4>2 DEF FreeApart
      <4> QED
        BY <2>6, <3>1, <4>1, <4>3
    <3> QED
      BY <3>2, <3>3
  <2>11. m2[a].size - n \in {0, 1}
    BY <2>5
  <2>13. r \in T \ S
    BY <2>1, <2>3
  <2> QED
    BY <1>2, <2>4, <2>5, <2>7, <2>8, <2>9, <2>10, <2>11, <2>13
<1> QED
  BY <1>4, <1>5

\* A memory with the same headers at its chunks is tiled the same.
LEMMA SameHeaders ==
    ASSUME NEW m \in Mem, NEW k \in Mem, NEW S, Tiles(m, S),
           \A a \in S : k[a].size = m[a].size
    PROVE  /\ Tiles(k, S)
           /\ (\A a \in S : k[a] = m[a]) /\ FreeApart(m, S) => FreeApart(k, S)
<1>1. \A a \in S : After(k, a) = After(m, a) /\ k[a].size = m[a].size
  BY DEF After
<1>2. Tiles(k, S)
  BY <1>1 DEF Tiles
<1>3. ASSUME \A a \in S : k[a] = m[a], FreeApart(m, S), NEW a \in S, IsFree(k, a)
      PROVE  ~IsFree(k, After(k, a))
  <2>1. IsFree(m, a) /\ ~IsFree(m, After(m, a)) /\ After(k, a) = After(m, a)
    BY <1>1, <1>3 DEF IsFree, FreeApart
  <2>2. After(m, a) \in S \/ After(m, a) \notin Word
    BY MyMallocAssumption DEF Tiles, Word
  <2> QED
    BY <1>3, <2>1, <2>2 DEF IsFree
<1> QED
  BY <1>2, <1>3 DEF FreeApart

------------------------------------------------------------------------------
\* No request is so large that rounding it up wraps.
SmallSizes == \A s \in Sizes : s + 7 < SizeMod

\* No word the client writes reads as the header of a chunk in use that ends
\* within the heap.
HarmlessData == \A d \in UserData : d.used => d.size = 0 \/ d.size >= Words

\* The client frees only what is its own, or writes nothing that could be taken
\* for a header.
Careful == SmallSizes /\ (~Misuse \/ HarmlessData)

\* Words that are no chunk's header do not read as the header of an object.
Quiet(m, S) == \A w \in Word \ S : ~(m[w].used /\ m[w].size > 0 /\ After(m, w) <= Words)

Used(m, S) == {a \in S : m[a].used}

\* The heap m holds the objects l.
Holds(m, l) ==
    /\ m \in Mem
    /\ Tiles(m, Chunks(m))
    /\ FreeApart(m, Chunks(m))
    /\ DOMAIN l = {a + 1 : a \in Used(m, Chunks(m))}
    /\ l \in [DOMAIN l -> Sizes \ {0}]
    /\ \A p \in DOMAIN l : m[p - 1].size - Need(l[p]) \in {0, 1}
    /\ HarmlessData => Quiet(m, Chunks(m))

\* The inductive invariant.
HeapInv ==
    /\ initialized \in BOOLEAN
    /\ initialized => Holds(mem, live)
    /\ ~initialized => mem = [a \in Word |-> Header(0, FALSE)] /\ live = [p \in {} |-> 0]

\* A size that does not wrap is rounded up.
LEMMA AlignedNeed ==
    ASSUME SmallSizes, NEW s \in Sizes
    PROVE  Aligned(s) = Need(s) /\ Need(s) \in Nat /\ (s # 0 => Need(s) >= 1)
<1>1. s \in Nat /\ s + 7 < SizeMod /\ SizeMod \in Nat
  BY MyMallocAssumption DEF SmallSizes
<1>2. (s + 7) % SizeMod = s + 7
  BY <1>1
<1> QED
  BY <1>1, <1>2 DEF Aligned, Need

\* The heap init_heap makes is one free chunk.
LEMMA HeapHolds ==
    ASSUME HeapInv
    PROVE  Holds(Heap, live)
<1> USE MyMallocAssumption
<1>1. CASE initialized
  BY <1>1 DEF HeapInv, Heap
<1>2. CASE ~initialized
  <2>1. live = [p \in {} |-> 0] /\ mem = [a \in Word |-> Header(0, FALSE)]
        /\ Heap = [mem EXCEPT ![0] = Header(Words - 1, FALSE)]
    BY <1>2 DEF HeapInv, Heap
  <2>2. 0 \in Word /\ Words \notin Word /\ Words \in Nat
    BY DEF Word
  <2>3. \A a \in Word : Heap[a] = IF a = 0 THEN Header(Words - 1, FALSE) ELSE Header(0, FALSE)
    BY <2>1
  <2>4. Heap \in Mem
    <3>1. Header(Words - 1, FALSE) \in [size : Nat, used : BOOLEAN]
          /\ Header(0, FALSE) \in [size : Nat, used : BOOLEAN]
      BY DEF Header
    <3> QED
      BY <2>1, <3>1 DEF Mem
  <2> DEFINE h == Heap
  <2> HIDE DEF h
  <2>5. h[0].size = Words - 1 /\ h[0].used = FALSE /\ After(h, 0) = Words
    BY <2>2, <2>3 DEF h, Header, After
  <2>6. \A a \in Word : a # 0 => h[a].size = 0
    BY <2>3 DEF h, Header
  <2>7. Tiles(h, {0})
    BY <2>2, <2>5 DEF Tiles
  <2>8. Chunks(h) = {0}
    BY <2>4, <2>7, TilesAreChunks DEF h
  <2>9. FreeApart(h, {0})
    BY <2>2, <2>5 DEF FreeApart, IsFree
  <2>10. Quiet(h, {0})
    BY <2>6 DEF Quiet
  <2>11. Used(h, {0}) = {}
    BY <2>5 DEF Used
  <2>12. DOMAIN live = {} /\ live \in [DOMAIN live -> Sizes \ {0}]
    BY <2>1
  <2> QED
    BY <2>4, <2>7, <2>8, <2>9, <2>10, <2>11, <2>12 DEF Holds, h
<1> QED
  BY <1>1, <1>2

\* An object and its chunk.
LEMMA ObjectChunk ==
    ASSUME NEW m, NEW l, Holds(m, l), NEW p \in DOMAIN l, SmallSizes
    PROVE  /\ p - 1 \in Chunks(m) /\ p - 1 \in Word /\ p \in Word /\ p \in Nat
           /\ m[p - 1].used /\ m[p - 1].size > 0 /\ m[p - 1].size \in Nat
           /\ After(m, p - 1) = p + m[p - 1].size /\ After(m, p - 1) <= Words
           /\ l[p] \in Sizes /\ l[p] # 0 /\ l[p] \in Nat
           /\ Need(l[p]) \in Nat /\ Need(l[p]) >= 1 /\ Need(l[p]) <= m[p - 1].size
<1> USE MyMallocAssumption
<1>1. PICK a \in Used(m, Chunks(m)) : p = a + 1
  BY DEF Holds
<1>2. a \in Chunks(m) /\ a \in Word /\ m[a].used /\ m \in Mem
  BY <1>1 DEF Holds, Tiles, Used
<1>3. a \in Nat /\ m[a].size \in Nat /\ m[a].size > 0 /\ After(m, a) <= Words /\ a = p - 1
  BY <1>1, <1>2, AfterLater DEF Holds, Tiles
<1>4. l[p] \in Sizes /\ l[p] # 0 /\ l[p] \in Nat
  BY DEF Holds
<1>5. Need(l[p]) \in Nat /\ Need(l[p]) >= 1
  BY <1>4, AlignedNeed
<1>6. m[a].size - Need(l[p]) \in {0, 1}
  BY <1>3 DEF Holds
<1>7. Need(l[p]) <= m[a].size
  BY <1>3, <1>5, <1>6
<1>8. After(m, a) = a + 1 + m[a].size
  BY DEF After
<1>9. p \in Word
  BY <1>1, <1>2, <1>3, <1>8 DEF Word
<1> QED
  BY <1>1, <1>2, <1>3, <1>4, <1>5, <1>7, <1>8, <1>9

------------------------------------------------------------------------------
\* With no two free chunks side by side, malloc finds in the heap as it is
\* whatever it finds.
LEMMA MergedIsHeap ==
    ASSUME HeapInv, NEW n
    PROVE  Merged(n) = Heap
  BY HeapHolds, CoalesceNothing DEF Merged, Holds

\* After malloc the heap holds the objects, the new one among them.
LEMMA MallocHolds ==
    ASSUME HeapInv, SmallSizes, NEW s \in Sizes, Malloc(s)
    PROVE  initialized' /\ Holds(mem, live)'
<1> USE MyMallocAssumption
<1> DEFINE n == Aligned(s)
           m == Heap
           S == Chunks(m)
           a == First(find_free(m, n))
           k == Taken(m, a, n)
           T == WithRest(m, S, a, n)
<1>1. Holds(m, live)
  BY HeapHolds
<1>2. n \in Nat /\ n >= 1 /\ n = Need(s) /\ s # 0 /\ s \in Nat
  BY AlignedNeed DEF Malloc
<1>3. /\ find_free(m, n) # {} /\ initialized' = TRUE /\ mem' = k
      /\ live' = [p \in DOMAIN live \cup {a + 1} |-> IF p = a + 1 THEN s ELSE live[p]]
  <2>1. Merged(n) = m
    BY MergedIsHeap
  <2>2. /\ find_free(Merged(n), n) # {} /\ initialized' = TRUE
        /\ mem' = Taken(Merged(n), First(find_free(Merged(n), n)), n)
        /\ live' = [p \in DOMAIN live \cup {First(find_free(Merged(n), n)) + 1} |->
                       IF p = First(find_free(Merged(n), n)) + 1 THEN s ELSE live[p]]
    BY DEF Malloc, Taken
  <2> QED
    BY <2>1, <2>2
<1>4. a \in find_free(m, n)
  <2>1. find_free(m, n) \in SUBSET Nat
    BY <1>1 DEF find_free, Holds, Tiles, Word
  <2> QED
    BY <1>3, <2>1, LeastElement DEF First
<1> HIDE DEF n, m, a
<1>5. m \in Mem /\ Tiles(m, S) /\ FreeApart(m, S) /\ S \subseteq Word
  BY <1>1 DEF Holds, Tiles
<1>6. a \in S /\ a \in Word /\ a \in Nat /\ IsFree(m, a) /\ m[a].size >= n
  <2>1. a \in S /\ ~m[a].used /\ m[a].size >= n
    BY <1>4 DEF find_free
  <2>2. m[a].size > 0
    BY <1>5, <2>1 DEF Tiles
  <2> QED
    BY <1>5, <2>1, <2>2, AfterLater DEF IsFree
<1>7. /\ k \in Mem /\ k[a].used /\ k[a].size - n \in {0, 1}
      /\ \A w \in Word : w # a /\ w \notin T \ S => k[w] = m[w]
      /\ Tiles(k, T) /\ FreeApart(k, T)
      /\ \A w \in T \ S : IsFree(k, w)
  BY <1>2, <1>5, <1>6, TakenSteps
<1>8. Chunks(k) = T /\ S \subseteq T
  BY <1>7, TilesAreChunks DEF WithRest
<1> HIDE DEF k, S, T
<1>9. Used(k, T) = Used(m, S) \cup {a}
  BY <1>5, <1>6, <1>7, <1>8 DEF Used, IsFree
<1>10. DOMAIN live = {b + 1 : b \in Used(m, S)}
  BY <1>1 DEF Holds, S
<1>11. DOMAIN live' = {b + 1 : b \in Used(k, T)}
  BY <1>3, <1>9, <1>10
<1>12. live' \in [DOMAIN live' -> Sizes \ {0}]
  <2>1. live \in [DOMAIN live -> Sizes \ {0}]
    BY <1>1 DEF Holds
  <2> QED
    BY <1>2, <1>3, <2>1
<1>13. ASSUME NEW p \in DOMAIN live' PROVE k[p - 1].size - Need(live'[p]) \in {0, 1}
  <2>1. CASE p = a + 1
    BY <1>2, <1>3, <1>6, <1>7, <2>1
  <2>2. CASE p # a + 1
    <3>1. p \in DOMAIN live /\ live'[p] = live[p]
      BY <1>3, <2>2
    <3>2. p - 1 \in S /\ p - 1 \in Word /\ p \in Nat
      BY <1>1, <3>1, ObjectChunk DEF S
    <3>3. k[p - 1] = m[p - 1]
      BY <1>6, <1>7, <2>2, <3>2
    <3> QED
      BY <1>1, <3>1, <3>3 DEF Holds
  <2> QED
    BY <2>1, <2>2
<1>14. ASSUME HarmlessData PROVE Quiet(k, T)
  <2>1. Quiet(m, S)
    BY <1>1, <1>14 DEF Holds, S
  <2>2. \A w \in Word \ T : w \notin S /\ k[w] = m[w] /\ After(k, w) = After(m, w)
    BY <1>6, <1>7, <1>8 DEF After
  <2> QED
    BY <2>1, <2>2 DEF Quiet
<1>15. Holds(k, live')
  BY <1>7, <1>8, <1>11, <1>12, <1>13, <1>14 DEF Holds
<1> QED
  BY <1>3, <1>15

\* What free passes is an object, and every object passes.
LEMMA PassesFree ==
    ASSUME HeapInv, SmallSizes, NEW p \in -1..Words
    PROVE  /\ p \in DOMAIN live => Appropriate(p)
           /\ HarmlessData /\ Appropriate(p) => p \in DOMAIN live
<1> USE MyMallocAssumption
<1>1. ASSUME p \in DOMAIN live PROVE Appropriate(p)
  <2>1. Holds(mem, live)
    BY <1>1 DEF HeapInv
  <2> QED
    BY <1>1, <2>1, ObjectChunk DEF Appropriate
<1>2. ASSUME HarmlessData, Appropriate(p) PROVE p \in DOMAIN live
  <2>1. mem[p - 1].size > 0 /\ mem[p - 1].used /\ p - 1 \in Word /\ After(mem, p - 1) <= Words
    BY <1>2 DEF Appropriate
  <2>2. initialized
    <3> SUFFICES ASSUME ~initialized PROVE FALSE
      OBVIOUS
    <3>1. mem[p - 1] = Header(0, FALSE)
      BY <2>1 DEF HeapInv
    <3> QED
      BY <2>1, <3>1 DEF Header
  <2>3. Holds(mem, live)
    BY <2>2 DEF HeapInv
  <2>4. p - 1 \in Chunks(mem)
    BY <1>2, <2>1, <2>3 DEF Holds, Quiet
  <2> QED
    BY <2>1, <2>3, <2>4 DEF Holds, Used
<1> QED
  BY <1>1, <1>2

\* After free the heap holds the objects that are left.
LEMMA FreeHolds ==
    ASSUME HeapInv, Careful, NEW p \in -1..Words, Free(p)
    PROVE  initialized' /\ Holds(mem, live)'
<1> USE MyMallocAssumption DEF Careful
<1> DEFINE S == Chunks(mem)
           a == p - 1
           c == [mem EXCEPT ![a].used = FALSE]
           k == coalesce(c)
           T == Kept(c, S)
           l == [q \in DOMAIN live \ {p} |-> live[q]]
<1>1. p \in DOMAIN live
  BY PassesFree DEF Free
<1>2. Holds(mem, live) /\ initialized
  BY <1>1 DEF HeapInv
<1>3. initialized' = initialized /\ mem' = k /\ live' = l
  BY DEF Free
<1>4. mem \in Mem /\ Tiles(mem, S) /\ S \subseteq Word
  BY <1>2 DEF Holds, Tiles
<1>5. a \in S /\ a \in Word /\ mem[a].used /\ p = a + 1
  BY <1>1, <1>2, ObjectChunk
<1>6. /\ c \in Mem /\ c[a].used = FALSE /\ c[a].size = mem[a].size
      /\ \A w \in Word : w # a => c[w] = mem[w]
  BY <1>4, <1>5 DEF Mem
<1> HIDE DEF a, c, S
<1>7. Tiles(c, S)
  BY <1>4, <1>5, <1>6, SameHeaders
<1>8. /\ k \in Mem /\ Tiles(k, T) /\ FreeApart(k, T) /\ Heads(c) \subseteq S
      /\ \A w \in Word : w \notin Heads(c) => k[w] = c[w]
      /\ \A w \in Heads(c) : IsFree(c, w) /\ ~k[w].used
  BY <1>6, <1>7, Coalesced
<1>9. Chunks(k) = T
  BY <1>8, TilesAreChunks
<1>10. \A w : w \in T <=> (w \in S /\ ~IsFree(c, w)) \/ w \in Heads(c)
  BY DEF Kept
<1> HIDE DEF k, T
<1>11. \A w \in S : ~IsFree(c, w) <=> mem[w].used /\ w # a
  <2>1. \A w \in S : w \in Word /\ c[w].size > 0
    BY <1>4, <1>7 DEF Tiles
  <2> QED
    BY <1>6, <2>1 DEF IsFree
<1>12. Used(k, T) = Used(mem, S) \ {a}
  <2>1. \A w \in Word : w \notin Heads(c) /\ w # a => k[w] = mem[w]
    BY <1>6, <1>8
  <2> QED
    BY <1>4, <1>8, <1>10, <1>11, <2>1 DEF Used
<1>13. DOMAIN live = {b + 1 : b \in Used(mem, S)}
  BY <1>2 DEF Holds, S
<1>14. DOMAIN l = {b + 1 : b \in Used(k, T)}
  <2>1. Used(mem, S) \subseteq Nat /\ a \in Nat
    <3>1. Word \subseteq Nat
      BY DEF Word
    <3> QED
      BY <1>4, <1>5, <3>1 DEF Used
  <2> QED
    BY <1>5, <1>12, <1>13, <2>1
<1>15. l \in [DOMAIN l -> Sizes \ {0}] /\ \A q \in DOMAIN l : q # p /\ q \in DOMAIN live /\ l[q] = live[q]
  BY <1>2 DEF Holds
<1> HIDE DEF l
<1>16. ASSUME NEW q \in DOMAIN l PROVE k[q - 1].size - Need(l[q]) \in {0, 1}
  <2>1. q - 1 \in S /\ q - 1 \in Word /\ mem[q - 1].used /\ q \in Nat
    BY <1>2, <1>15, ObjectChunk DEF S
  <2>2. q - 1 # a /\ p \in Int
    BY <1>15, <2>1 DEF a
  <2>3. q - 1 \notin Heads(c)
    BY <1>8, <1>11, <2>1, <2>2
  <2>4. k[q - 1] = mem[q - 1]
    BY <1>6, <1>8, <2>1, <2>2, <2>3
  <2> QED
    BY <1>2, <1>15, <2>4 DEF Holds
<1>17. ASSUME HarmlessData PROVE Quiet(k, T)
  <2> SUFFICES ASSUME NEW w \in Word \ T, k[w].used, k[w].size > 0, After(k, w) <= Words
               PROVE  FALSE
    BY DEF Quiet
  <2>1. w \notin Heads(c) /\ k[w] = c[w]
    BY <1>8, <1>10
  <2>2. w # a /\ k[w] = mem[w]
    BY <1>6, <2>1
  <2>3. After(mem, w) <= Words /\ mem[w].used /\ mem[w].size > 0
    BY <2>2 DEF After
  <2>4. w \in S
    BY <1>2, <1>17, <2>3 DEF Holds, Quiet, S
  <2> QED
    BY <1>10, <1>11, <2>2, <2>3, <2>4
<1>18. Holds(k, l)
  BY <1>8, <1>9, <1>14, <1>15, <1>16, <1>17 DEF Holds
<1> QED
  BY <1>2, <1>3, <1>18

\* What the client writes into its objects leaves the chunks alone.
LEMMA WriteHolds ==
    ASSUME HeapInv, SmallSizes, Write
    PROVE  initialized' /\ Holds(mem, live)'
<1> USE MyMallocAssumption
<1> DEFINE S == Chunks(mem)
<1>1. PICK p \in DOMAIN live : \E w \in Payload(p, live[p]) \cap Word, d \in UserData :
                                  mem' = [mem EXCEPT ![w] = d]
  BY DEF Write
<1>2. PICK w \in Payload(p, live[p]) \cap Word, d \in UserData : mem' = [mem EXCEPT ![w] = d]
  BY <1>1
<1>3. initialized' = initialized /\ live' = live
  BY DEF Write
<1>4. Holds(mem, live) /\ initialized
  BY DEF HeapInv
<1>5. mem \in Mem /\ Tiles(mem, S) /\ FreeApart(mem, S) /\ S \subseteq Word
  BY <1>4 DEF Holds, Tiles
<1>6. d \in [size : Nat, used : BOOLEAN] /\ w \in Word
  BY <1>2
<1>7. mem' \in Mem /\ mem'[w] = d /\ \A x \in Word : x # w => mem'[x] = mem[x]
  BY <1>2, <1>5, <1>6 DEF Mem
<1>8. w \notin S
  <2>1. /\ p - 1 \in S /\ p \in Nat /\ Need(live[p]) \in Nat /\ mem[p - 1].size \in Nat
        /\ After(mem, p - 1) = p + mem[p - 1].size /\ Need(live[p]) <= mem[p - 1].size
    BY <1>4, ObjectChunk
  <2>2. w \in Nat /\ p - 1 < w /\ w < p + Need(live[p])
    BY <1>2, <2>1 DEF Payload
  <2> QED
    BY <1>5, <2>1, <2>2, TilesApart
<1> HIDE DEF S
<1>9. \A a \in S : mem'[a] = mem[a]
  BY <1>5, <1>7, <1>8
<1>10. Tiles(mem', S) /\ FreeApart(mem', S)
  BY <1>5, <1>7, <1>9, SameHeaders
<1>11. Chunks(mem') = S
  BY <1>7, <1>10, TilesAreChunks
<1>12. Used(mem', S) = Used(mem, S)
  BY <1>9 DEF Used
<1>13. \A q \in DOMAIN live : q - 1 \in S
  BY <1>4, ObjectChunk DEF S
<1>14. ASSUME HarmlessData PROVE Quiet(mem', S)
  <2>1. Quiet(mem, S)
    BY <1>4, <1>14 DEF Holds, S
  <2>2. ~(d.used /\ d.size > 0 /\ w + 1 + d.size <= Words)
    <3>1. d.size \in Nat /\ w \in Nat /\ Words \in Nat
      BY <1>6 DEF Word
    <3> QED
      BY <1>14, <3>1 DEF HarmlessData
  <2>3. ASSUME NEW x \in Word \ S, mem'[x].used, mem'[x].size > 0, After(mem', x) <= Words
        PROVE  FALSE
    <3>1. CASE x = w
      BY <1>7, <2>2, <2>3, <3>1 DEF After
    <3>2. CASE x # w
      BY <1>7, <2>1, <2>3, <3>2 DEF Quiet, After
    <3> QED
      BY <3>1, <3>2
  <2> QED
    BY <2>3 DEF Quiet
<1>15. Holds(mem', live)
  <2>1. /\ DOMAIN live = {a + 1 : a \in Used(mem, S)}
        /\ live \in [DOMAIN live -> Sizes \ {0}]
        /\ \A q \in DOMAIN live : mem[q - 1].size - Need(live[q]) \in {0, 1}
    BY <1>4 DEF Holds, S
  <2>2. \A q \in DOMAIN live : mem'[q - 1].size - Need(live[q]) \in {0, 1}
    BY <1>9, <1>13, <2>1
  <2> QED
    BY <1>7, <1>10, <1>11, <1>12, <1>14, <2>1, <2>2 DEF Holds
<1> QED
  BY <1>3, <1>4, <1>15

\* Every step of the heap and its client keeps it.
LEMMA HeapInvStep ==
    ASSUME Careful, HeapInv, [Next]_vars
    PROVE  HeapInv'
<1>1. CASE MallocZero
  BY <1>1, HeapHolds DEF MallocZero, HeapInv, Holds
<1>2. ASSUME NEW s \in Sizes, Malloc(s) PROVE HeapInv'
  BY <1>2, MallocHolds DEF HeapInv, Careful, Malloc
<1>3. ASSUME NEW s \in Sizes, MallocFails(s) PROVE HeapInv'
  BY <1>3, HeapHolds, MergedIsHeap DEF MallocFails, HeapInv, Holds
<1>4. ASSUME NEW p \in -1..Words, Free(p) PROVE HeapInv'
  BY <1>4, FreeHolds DEF HeapInv, Free
<1>5. CASE UNCHANGED <<mem, initialized, live>>
  BY <1>5 DEF HeapInv, Holds
<1>6. CASE Write
  BY <1>6, WriteHolds DEF HeapInv, Careful, Write
<1> QED
  BY <1>1, <1>2, <1>3, <1>4, <1>5, <1>6
     DEF Next, vars, heap, FreeInappropriate, Exit, Exited, Leave

\* So the heap always holds the objects.
LEMMA HeapInvHolds == ASSUME Careful PROVE Spec => []HeapInv
<1>1. Init => HeapInv
  BY DEF Init, HeapInv
<1>2. HeapInv /\ [Next]_vars => HeapInv'
  BY HeapInvStep
<1> QED
  BY <1>1, <1>2, PTL DEF Spec

\* The chunks of such a heap are tiles, and hold the objects.
LEMMA TiledHolds ==
    ASSUME Careful, HeapInv
    PROVE  Tiled
<1> SUFFICES ASSUME HeapInv, initialized PROVE Tiled
  BY DEF Tiled
<1>1. Holds(mem, live)
  BY DEF HeapInv
<1> QED
  BY <1>1, TilesEnd DEF Tiled, Holds, Used

\* The headers tile the heap, for every size of the heap and every client that
\* frees what is its own, or writes nothing that reads as a chunk in use:
\* whatever stale headers lie between them, the walk ends at the heap's end and
\* its chunks in use are the objects (58-110, 183, 218).
THEOREM HeapTiled == ASSUME Careful PROVE Spec => []Tiled
<1>1. HeapInv => Tiled
  BY TiledHolds
<1> QED
  BY <1>1, HeapInvHolds, PTL

\* They fit them.
LEMMA FitsHolds ==
    ASSUME Careful, HeapInv
    PROVE  FitsTightly
  BY DEF HeapInv, Holds, FitsTightly

\* A chunk is as large as its object, rounded up, or a word larger.
THEOREM ObjectsFitTightly == ASSUME Careful PROVE Spec => []FitsTightly
<1>1. HeapInv => FitsTightly
  BY FitsHolds
<1> QED
  BY <1>1, HeapInvHolds, PTL

\* No two of them that are free lie side by side.
LEMMA NoTwoFreeHolds ==
    ASSUME Careful, HeapInv
    PROVE  NoTwoFree
<1> SUFFICES ASSUME HeapInv PROVE NoTwoFree
  OBVIOUS
<1>1. CASE initialized
  BY <1>1 DEF HeapInv, Holds, FreeApart, NoTwoFree
<1>2. CASE ~initialized
  <2>1. mem = [a \in Word |-> Header(0, FALSE)]
    BY <1>2 DEF HeapInv
  <2>2. mem \in Mem /\ 0 \in Word
    <3>1. Header(0, FALSE) \in [size : Nat, used : BOOLEAN]
      BY DEF Header
    <3>2. 0 \in Word
      BY MyMallocAssumption DEF Word
    <3> QED
      BY <2>1, <3>1, <3>2 DEF Mem
  <2>3. mem[0].size = 0
    BY <2>1, <2>2 DEF Header
  <2> QED
    BY <2>2, <2>3, NoWalk DEF NoTwoFree
<1> QED
  BY <1>1, <1>2 DEF HeapInv

\* Free chunks never lie side by side: a second search, after a merge, finds
\* what the first one found (170-172).
THEOREM FreeMerged == ASSUME Careful PROVE Spec => []NoTwoFree
<1>1. HeapInv => NoTwoFree
  BY NoTwoFreeHolds
<1> QED
  BY <1>1, HeapInvHolds, PTL

\* What malloc does not find is not there.
LEMMA FullHolds ==
    ASSUME Careful, HeapInv
    PROVE  FailsOnlyWhenFull
<1> USE MyMallocAssumption
<1> SUFFICES ASSUME HeapInv, initialized, NEW s \in Sizes \ {0},
                    find_free(Merged(Aligned(s)), Aligned(s)) = {},
                    NEW a \in Word, a + Need(s) < Words
             PROVE  \E p \in DOMAIN live :
                      (a .. a + Need(s)) \cap (p - 1 .. After(mem, p - 1) - 1) # {}
  BY DEF FailsOnlyWhenFull
<1> DEFINE n == Need(s)
           S == Chunks(mem)
<1>1. n \in Nat /\ n = Aligned(s)
  BY AlignedNeed DEF Careful
<1>2. Holds(mem, live) /\ Heap = mem
  BY DEF HeapInv, Heap
<1>3. find_free(mem, n) = {}
  BY <1>1, <1>2, MergedIsHeap
<1>4. mem \in Mem /\ Tiles(mem, S) /\ FreeApart(mem, S)
  BY <1>2 DEF Holds
<1>5. a \in Nat /\ a < Words /\ a + n < Words
  BY DEF Word
<1> HIDE DEF n, S
<1>6. \A b \in S : /\ b \in Word /\ b \in Nat /\ mem[b].size \in Nat /\ mem[b].size > 0
                   /\ mem[b].used \in BOOLEAN
                   /\ After(mem, b) \in Nat /\ After(mem, b) <= Words /\ b < After(mem, b)
                   /\ After(mem, b) = Words \/ After(mem, b) \in S
                   /\ After(mem, b) = b + 1 + mem[b].size
  BY <1>4, AfterLater DEF Tiles, After
<1>7. ASSUME NEW b \in S, mem[b].used, NEW w \in a .. a + n, b <= w, w < After(mem, b)
      PROVE  \E p \in DOMAIN live :
               (a .. a + n) \cap (p - 1 .. After(mem, p - 1) - 1) # {}
  <2>1. b + 1 \in DOMAIN live /\ (b + 1) - 1 = b
    BY <1>2, <1>6, <1>7 DEF Holds, Used, S
  <2>2. w \in b .. After(mem, b) - 1
    BY <1>5, <1>6, <1>7
  <2> QED
    BY <1>7, <2>1, <2>2
<1>8. PICK c \in S : c <= a /\ a < After(mem, c)
  BY <1>4, TilesCover
<1>9. CASE mem[c].used
  BY <1>1, <1>5, <1>7, <1>8, <1>9 DEF n
<1>10. CASE ~mem[c].used
  <2>1. ~(mem[c].size >= n)
    BY <1>3, <1>6, <1>10 DEF find_free, S
  <2>2. After(mem, c) \in S /\ After(mem, c) \in Word /\ After(mem, c) \in a .. a + n
    BY <1>1, <1>5, <1>6, <1>8, <2>1
  <2>3. IsFree(mem, c)
    BY <1>6, <1>10 DEF IsFree
  <2>4. ~IsFree(mem, After(mem, c))
    BY <1>4, <2>3 DEF FreeApart
  <2>5. mem[After(mem, c)].used
    BY <1>6, <2>2, <2>4 DEF IsFree
  <2> QED
    BY <1>6, <1>7, <2>2, <2>5 DEF n
<1> QED
  BY <1>9, <1>10

\* When malloc fails, every row of words long enough for the object and its
\* header meets a chunk in use.
THEOREM OnlyWhenFull == ASSUME Careful PROVE Spec => []FailsOnlyWhenFull
<1>1. HeapInv => FailsOnlyWhenFull
  BY FullHolds
<1> QED
  BY <1>1, HeapInvHolds, PTL

\* What free takes is an object.
LEMMA CaughtHolds ==
    ASSUME SmallSizes, HarmlessData, HeapInv
    PROVE  MisuseCaught
<1> SUFFICES ASSUME HeapInv PROVE {p \in -1..Words : Appropriate(p)} = DOMAIN live
  BY DEF MisuseCaught
<1>1. \A p \in -1..Words : Appropriate(p) <=> p \in DOMAIN live
  BY PassesFree
<1>2. DOMAIN live \subseteq -1..Words
  <2>1. CASE initialized
    BY <2>1, ObjectChunk, MyMallocAssumption DEF HeapInv, Word
  <2>2. CASE ~initialized
    BY <2>2 DEF HeapInv
  <2> QED
    BY <2>1, <2>2 DEF HeapInv
<1> QED
  BY <1>1, <1>2

\* The tests of free pass the client's objects and nothing else, for every
\* client that writes nothing that reads as a chunk in use (193-216). Without
\* that they cannot: the header of an object is a word like any other.
THEOREM FreesOnlyObjects == ASSUME SmallSizes, HarmlessData PROVE Spec => []MisuseCaught
<1>1. HeapInv => MisuseCaught
  BY CaughtHolds
<1>2. Careful
  BY DEF Careful
<1> QED
  BY <1>1, <1>2, HeapInvHolds, PTL

------------------------------------------------------------------------------
\* No two objects share a word, headers included.
LEMMA BlocksApart ==
    ASSUME NEW m, NEW l, Holds(m, l), SmallSizes,
           NEW p \in DOMAIN l, NEW q \in DOMAIN l, p # q
    PROVE  (p - 1 .. p + Need(l[p]) - 1) \cap (q - 1 .. q + Need(l[q]) - 1) = {}
<1>1. /\ p - 1 \in Chunks(m) /\ p \in Nat /\ m[p - 1].size \in Nat
      /\ After(m, p - 1) = p + m[p - 1].size
      /\ Need(l[p]) \in Nat /\ Need(l[p]) <= m[p - 1].size
  BY ObjectChunk
<1>2. /\ q - 1 \in Chunks(m) /\ q \in Nat /\ m[q - 1].size \in Nat
      /\ After(m, q - 1) = q + m[q - 1].size
      /\ Need(l[q]) \in Nat /\ Need(l[q]) <= m[q - 1].size
  BY ObjectChunk
<1>3. m \in Mem /\ Tiles(m, Chunks(m))
  BY DEF Holds
<1>4. CASE p < q
  <2>1. After(m, p - 1) <= q - 1
    BY <1>1, <1>2, <1>3, <1>4, TilesApart
  <2> QED
    BY <1>1, <1>2, <2>1
<1>5. CASE q < p
  <2>1. After(m, q - 1) <= p - 1
    BY <1>1, <1>2, <1>3, <1>5, TilesApart
  <2> QED
    BY <1>1, <1>2, <2>1
<1> QED
  BY <1>1, <1>2, <1>4, <1>5

\* malloc hands out what the allocator may hand out.
LEMMA MallocAllocates ==
    ASSUME HeapInv, SmallSizes, NEW s \in Sizes, Malloc(s)
    PROVE  A!Malloc
<1> USE MyMallocAssumption
<1> DEFINE a == First(find_free(Merged(Aligned(s)), Aligned(s)))
           p == a + 1
<1>1. /\ s # 0 /\ exited = "no" /\ exited' = exited
      /\ live' = [q \in DOMAIN live \cup {p} |-> IF q = p THEN s ELSE live[q]]
  BY DEF Malloc, Running
<1>2. Holds(mem', live')
  BY MallocHolds
<1>3. p \notin DOMAIN live
  <2>1. Holds(Heap, live) /\ Merged(Aligned(s)) = Heap
    BY HeapHolds, MergedIsHeap
  <2>2. find_free(Heap, Aligned(s)) \in SUBSET Nat
    BY <2>1 DEF find_free, Holds, Tiles, Word
  <2>3. a \in find_free(Heap, Aligned(s))
    BY <2>1, <2>2, LeastElement DEF First, Malloc
  <2>4. a \in Chunks(Heap) /\ a \in Nat /\ ~Heap[a].used
    BY <2>2, <2>3 DEF find_free
  <2> HIDE DEF a
  <2> SUFFICES ASSUME p \in DOMAIN live PROVE FALSE
    OBVIOUS
  <2>5. Heap[p - 1].used
    BY <2>1, ObjectChunk
  <2> QED
    BY <2>4, <2>5
<1> HIDE DEF a, p
<1>4. p \in DOMAIN live' /\ live'[p] = s /\ \A q \in DOMAIN live : q \in DOMAIN live' /\ live'[q] = live[q] /\ q # p
  BY <1>1, <1>3
<1>5. p - 1 .. p + Need(s) - 1 \subseteq 0 .. Words - 1 /\ p \in 1 .. Words
  <2>1. /\ p \in Word /\ p - 1 \in Word /\ mem'[p - 1].size \in Nat /\ Need(s) \in Nat
        /\ p + mem'[p - 1].size <= Words /\ Need(s) <= mem'[p - 1].size
    BY <1>2, <1>4, ObjectChunk
  <2> QED
    BY <2>1 DEF Word
<1>6. \A q \in DOMAIN live : (p - 1 .. p + Need(s) - 1) \cap (q - 1 .. q + Need(live[q]) - 1) = {}
  BY <1>2, <1>4, BlocksApart
<1> QED
  BY <1>1, <1>5, <1>6 DEF A!Malloc, A!Block, A!Need, Need

\* A step of the heap is a step of the allocator.
LEMMA HeapStepAllocates ==
    ASSUME HeapInv, Careful, [Next]_vars
    PROVE  [A!Next]_(A!vars)
<1>1. ASSUME NEW s \in Sizes, Malloc(s) PROVE A!Next
  BY <1>1, MallocAllocates DEF A!Next, Careful
<1>2. ASSUME NEW p \in -1..Words, Free(p) PROVE A!Next
  <2>1. p \in DOMAIN live
    BY <1>2, PassesFree DEF Free, Careful
  <2> QED
    BY <1>2, <2>1 DEF Free, Running, A!Free, A!Next
<1>3. CASE Running /\ (Leave("ok") \/ Leave("error"))
  BY <1>3 DEF Running, Leave, A!Exit, A!Next
<1>4. CASE UNCHANGED <<live, exited>>
  BY <1>4 DEF A!vars
<1> QED
  BY <1>1, <1>2, <1>3, <1>4
     DEF Next, vars, MallocZero, MallocFails, FreeInappropriate, Exit, Write, Exited

\* The heap implements the allocator, for every size of the heap and every
\* request that does not wrap: an object lies within the heap, and shares no
\* word with another.
THEOREM HeapImplementsAllocator == ASSUME Careful PROVE Spec => ImplementsAllocator
<1>1. Init => A!Init
  BY DEF Init, A!Init
<1>2. HeapInv /\ [Next]_vars => [A!Next]_(A!vars)
  BY HeapStepAllocates
<1> QED
  BY <1>1, <1>2, HeapInvHolds, PTL DEF Spec, ImplementsAllocator, A!Spec

------------------------------------------------------------------------------
\* What an allocator keeps to: what it hands out is apart.
AllocatorInv == A!TypeOK /\ A!Disjoint

\* After a malloc the objects are disjoint: the new one was chosen so.
LEMMA MallocDisjoint == ASSUME AllocatorInv, A!Malloc PROVE AllocatorInv'
<1>1. PICK p \in 1..Words, s \in Sizes \ {0} :
         /\ ~(exited # "no") /\ UNCHANGED (exited # "no")
         /\ A!Block(p, s) \subseteq 0..Words-1
         /\ \A q \in DOMAIN live : A!Block(p, s) \cap A!Block(q, live[q]) = {}
         /\ live' = [q \in DOMAIN live \cup {p} |-> IF q = p THEN s ELSE live[q]]
  BY DEF A!Malloc
<1>2. /\ DOMAIN live' = DOMAIN live \cup {p}
      /\ live'[p] = s
      /\ \A q \in DOMAIN live : q # p => live'[q] = live[q]
  BY <1>1
<1>3. A!TypeOK'
  BY <1>1, <1>2 DEF AllocatorInv, A!TypeOK
<1>4. \A q \in DOMAIN live' : A!Block(q, live'[q]) \subseteq 0..Words-1
  BY <1>1, <1>2 DEF AllocatorInv, A!Disjoint
<1>5. ASSUME NEW q \in DOMAIN live', NEW r \in DOMAIN live', q # r
      PROVE  A!Block(q, live'[q]) \cap A!Block(r, live'[r]) = {}
  <2>1. CASE q = p
    BY <2>1, <1>1, <1>2, <1>5
  <2>2. CASE r = p
    <3>1. q \in DOMAIN live /\ live'[q] = live[q] /\ live'[r] = s
      BY <2>2, <1>2, <1>5
    <3>2. A!Block(p, s) \cap A!Block(q, live[q]) = {}
      BY <3>1, <1>1
    <3> QED
      BY <2>2, <3>1, <3>2
  <2>3. CASE q # p /\ r # p
    BY <2>3, <1>2, <1>5 DEF AllocatorInv, A!Disjoint
  <2> QED
    BY <2>1, <2>2, <2>3
<1> QED
  BY <1>3, <1>4, <1>5 DEF AllocatorInv, A!Disjoint

\* A free leaves fewer objects.
LEMMA FreeDisjoint == ASSUME AllocatorInv, A!Free PROVE AllocatorInv'
<1>1. PICK p \in DOMAIN live : /\ UNCHANGED (exited # "no")
                               /\ live' = [q \in DOMAIN live \ {p} |-> live[q]]
  BY DEF A!Free
<1>2. /\ DOMAIN live' = DOMAIN live \ {p}
      /\ \A q \in DOMAIN live' : live'[q] = live[q]
  BY <1>1
<1>3. A!TypeOK'
  BY <1>1, <1>2 DEF AllocatorInv, A!TypeOK
<1>4. A!Disjoint'
  BY <1>2 DEF AllocatorInv, A!Disjoint
<1> QED
  BY <1>3, <1>4 DEF AllocatorInv

\* Whatever the heap's size and the requests, the objects a program holds lie
\* within the heap and share no byte, headers included: what every user of
\* mymalloc relies on (mymalloc.c 156-221).
THEOREM ObjectsDisjoint == A!Spec => [](A!TypeOK /\ A!Disjoint)
<1>1. A!Init => AllocatorInv
  BY DEF A!Init, AllocatorInv, A!TypeOK, A!Disjoint
<1>2. AllocatorInv /\ [A!Next]_(A!vars) => AllocatorInv'
  <2> SUFFICES ASSUME AllocatorInv, [A!Next]_(A!vars) PROVE AllocatorInv'
    OBVIOUS
  <2>1. CASE A!Malloc
    BY <2>1, MallocDisjoint
  <2>2. CASE A!Free
    BY <2>2, FreeDisjoint
  <2>3. CASE A!Exit
    BY <2>3 DEF A!Exit, AllocatorInv, A!TypeOK, A!Disjoint
  <2>4. CASE UNCHANGED A!vars
    BY <2>4 DEF A!vars, AllocatorInv, A!TypeOK, A!Disjoint
  <2> QED
    BY <2>1, <2>2, <2>3, <2>4 DEF A!Next
<1> QED
  BY <1>1, <1>2, PTL DEF A!Spec, AllocatorInv

\* So the heap's are, whatever its size, the requests and the frees (156-221).
THEOREM HeapDisjoint == ASSUME Careful PROVE Spec => []A!Disjoint
<1>1. Spec => A!Spec
  BY HeapImplementsAllocator DEF ImplementsAllocator
<1> QED
  BY <1>1, ObjectsDisjoint, PTL

------------------------------------------------------------------------------
\* The sums of the report. They are folded in an order nobody chose: any element
\* can be taken out first.
SumSteps(f, S, g) ==
    g = [s \in SUBSET S |-> IF s = {} THEN 0
                            ELSE f[CHOOSE x \in s : TRUE] + g[s \ {CHOOSE x \in s : TRUE}]]

TakesOut(f, S, g) == \A s \in SUBSET S : \A x \in s : g[s] = f[x] + g[s \ {x}]

\* The sum can be defined, from the smallest sets up.
LEMMA SumExists ==
    ASSUME NEW S, IsFiniteSet(S), NEW f, \A x \in S : f[x] \in Nat
    PROVE  \E g \in [SUBSET S -> Nat] : SumSteps(f, S, g)
<1> DEFINE C(s) == CHOOSE x \in s : TRUE
           Def(g, s) == IF s = {} THEN 0 ELSE f[C(s)] + g[s \ {C(s)}]
           Good(n) == \E g \in [SUBSET S -> Nat] :
                        \A s \in SUBSET S : Cardinality(s) <= n => g[s] = Def(g, s)
           Bad == {n \in Nat : ~Good(n)}
<1>1. \A s \in SUBSET S : /\ IsFiniteSet(s) /\ Cardinality(s) \in Nat
                          /\ Cardinality(s) <= Cardinality(S)
                          /\ s # {} => C(s) \in s
                          /\ s # {} => Cardinality(s \ {C(s)}) = Cardinality(s) - 1
  <2> SUFFICES ASSUME NEW s \in SUBSET S
               PROVE  /\ IsFiniteSet(s) /\ Cardinality(s) \in Nat
                      /\ Cardinality(s) <= Cardinality(S)
                      /\ s # {} => C(s) \in s
                      /\ s # {} => Cardinality(s \ {C(s)}) = Cardinality(s) - 1
    OBVIOUS
  <2>1. IsFiniteSet(s) /\ Cardinality(s) <= Cardinality(S)
    BY FS_Subset
  <2>2. Cardinality(s) \in Nat
    BY <2>1, FS_CardinalityType
  <2>3. s # {} => C(s) \in s
    OBVIOUS
  <2>4. ASSUME s # {} PROVE Cardinality(s \ {C(s)}) = Cardinality(s) - 1
    BY <2>1, <2>3, <2>4, FS_RemoveElement
  <2> QED
    BY <2>1, <2>2, <2>3, <2>4
<1>2. Cardinality(S) \in Nat
  BY FS_CardinalityType
<1>3. \A n \in Nat : Good(n)
  <2> SUFFICES ASSUME Bad # {} PROVE FALSE
    OBVIOUS
  <2>1. PICK n \in Bad : \A k \in Bad : n <= k
    BY LeastElement
  <2>2. CASE n = 0
    <3> DEFINE g == [s \in SUBSET S |-> 0]
    <3>1. \A s \in SUBSET S : Cardinality(s) <= 0 => s = {}
      BY <1>1, FS_EmptySet
    <3>2. g \in [SUBSET S -> Nat] /\ \A s \in SUBSET S : Cardinality(s) <= n => g[s] = Def(g, s)
      BY <2>2, <3>1
    <3> QED
      BY <3>2
  <2>3. CASE n > 0
    <3>1. n - 1 \in Nat /\ n - 1 \notin Bad
      <4> HIDE DEF Good
      <4>1. n - 1 \in Nat /\ ~(n <= n - 1)
        BY <2>3
      <4> QED
        BY <2>1, <4>1
    <3>2. PICK g \in [SUBSET S -> Nat] :
             \A s \in SUBSET S : Cardinality(s) <= n - 1 => g[s] = Def(g, s)
      BY <3>1
    <3> DEFINE h == [s \in SUBSET S |-> IF Cardinality(s) <= n THEN Def(g, s) ELSE 0]
    <3>3. ASSUME NEW s \in SUBSET S, Cardinality(s) <= n PROVE Def(g, s) \in Nat
      <4>1. s # {} => s \ {C(s)} \in SUBSET S /\ C(s) \in S
        BY <1>1
      <4> HIDE DEF C
      <4> QED
        BY <4>1
    <3>4. h \in [SUBSET S -> Nat]
      <4> HIDE DEF Def
      <4> QED
        BY <3>3
    <3>5. ASSUME NEW s \in SUBSET S, Cardinality(s) <= n PROVE h[s] = Def(h, s)
      <4>1. h[s] = Def(g, s)
        <5> HIDE DEF Def
        <5> QED
          BY <3>5
      <4>2. CASE s = {}
        BY <4>1, <4>2
      <4>3. CASE s # {}
        <5> DEFINE t == s \ {C(s)}
        <5>1. t \in SUBSET S /\ Cardinality(t) <= n - 1 /\ Cardinality(t) <= n
          <6> HIDE DEF C
          <6>1. t \in SUBSET S /\ Cardinality(t) = Cardinality(s) - 1
            BY <1>1, <4>3
          <6>2. Cardinality(s) \in Nat /\ n \in Nat
            BY <1>1
          <6> QED
            BY <3>5, <6>1, <6>2
        <5>2. h[t] = g[t]
          <6> HIDE DEF Def, t
          <6>1. h[t] = Def(g, t) /\ g[t] = Def(g, t)
            BY <3>2, <5>1
          <6> QED
            BY <6>1
        <5> HIDE DEF h
        <5> QED
          BY <4>1, <4>3, <5>2
      <4> QED
        BY <4>2, <4>3
    <3> HIDE DEF h, Def
    <3> QED
      BY <3>4, <3>5
  <2> QED
    BY <2>1, <2>2, <2>3
<1>4. PICK g \in [SUBSET S -> Nat] :
         \A s \in SUBSET S : Cardinality(s) <= Cardinality(S) => g[s] = Def(g, s)
  BY <1>2, <1>3
<1>5. \A s \in SUBSET S : g[s] = Def(g, s)
  BY <1>1, <1>4
<1> QED
  BY <1>5 DEF SumSteps

\* It is a natural number.
LEMMA SumNat ==
    ASSUME NEW S, IsFiniteSet(S), NEW f, \A x \in S : f[x] \in Nat, NEW g, SumSteps(f, S, g)
    PROVE  g \in [SUBSET S -> Nat]
<1> DEFINE Bad == {n \in Nat : \E s \in SUBSET S : Cardinality(s) = n /\ g[s] \notin Nat}
<1>1. \A s \in SUBSET S : IsFiniteSet(s) /\ Cardinality(s) \in Nat
  BY FS_Subset, FS_CardinalityType
<1>2. ASSUME Bad # {} PROVE FALSE
  <2>1. PICK n \in Bad : \A k \in Bad : n <= k
    BY <1>2, LeastElement
  <2>2. PICK s \in SUBSET S : Cardinality(s) = n /\ g[s] \notin Nat
    OBVIOUS
  <2>3. PICK c \in s : g[s] = f[c] + g[s \ {c}]
    <3>1. s # {}
      BY <2>2 DEF SumSteps
    <3> QED
      BY <3>1 DEF SumSteps
  <2>4. s \ {c} \in SUBSET S /\ Cardinality(s \ {c}) = n - 1
    BY <1>1, <2>2, FS_RemoveElement
  <2>5. n - 1 \notin Bad
    BY <2>1
  <2>6. g[s \ {c}] \in Nat
    BY <1>1, <2>4, <2>5
  <2> QED
    BY <2>2, <2>3, <2>6
<1>3. \A s \in SUBSET S : g[s] \in Nat
  BY <1>1, <1>2
<1>4. g = [s \in SUBSET S |-> g[s]]
  BY DEF SumSteps
<1> QED
  BY <1>3, <1>4

\* It may take the elements in any order.
LEMMA SumTakesOut ==
    ASSUME NEW S, IsFiniteSet(S), NEW f, \A x \in S : f[x] \in Nat,
           NEW g, SumSteps(f, S, g)
    PROVE  TakesOut(f, S, g)
<1> DEFINE Out(s) == \A x \in s : g[s] = f[x] + g[s \ {x}]
           Bad == {n \in Nat : \E s \in SUBSET S : Cardinality(s) = n /\ ~Out(s)}
<1>1. \A s \in SUBSET S : IsFiniteSet(s) /\ Cardinality(s) \in Nat
  BY FS_Subset, FS_CardinalityType
<1>2. SUFFICES ASSUME NEW s0 \in SUBSET S, ~Out(s0) PROVE FALSE
  BY DEF TakesOut
<1>3. Bad # {}
  BY <1>1, <1>2
<1>4. PICK n \in Bad : \A k \in Bad : n <= k
  BY <1>3, LeastElement
<1>5. PICK s \in SUBSET S : Cardinality(s) = n /\ ~Out(s)
  OBVIOUS
<1>6. PICK x \in s : ~(g[s] = f[x] + g[s \ {x}])
  BY <1>5
<1>7. PICK c \in s : g[s] = f[c] + g[s \ {c}]
  BY <1>6 DEF SumSteps
<1>8. c # x
  BY <1>6, <1>7
<1>9. \A y \in s : Cardinality(s \ {y}) = n - 1 /\ s \ {y} \in SUBSET S
  BY <1>1, <1>5, FS_RemoveElement
<1>10. \A y \in s : Out(s \ {y})
  <2> HIDE DEF Out
  <2> SUFFICES ASSUME NEW y \in s, ~Out(s \ {y}) PROVE FALSE
    OBVIOUS
  <2>1. Cardinality(s \ {y}) \in Bad /\ Cardinality(s \ {y}) = n - 1
    BY <1>1, <1>9
  <2>2. n \in Nat
    OBVIOUS
  <2> HIDE DEF Bad
  <2>3. n <= n - 1
    BY <1>4, <2>1
  <2> QED
    BY <2>2, <2>3
<1>11. g[s \ {c}] = f[x] + g[(s \ {c}) \ {x}] /\ g[s \ {x}] = f[c] + g[(s \ {x}) \ {c}]
  BY <1>8, <1>10
<1>12. (s \ {c}) \ {x} = (s \ {x}) \ {c}
  OBVIOUS
<1>13. f[c] \in Nat /\ f[x] \in Nat /\ g[(s \ {x}) \ {c}] \in Nat
  <2>1. g \in [SUBSET S -> Nat]
    BY SumNat
  <2> QED
    BY <1>5, <2>1
<1>14. PICK k \in Nat : k = g[(s \ {x}) \ {c}]
  BY <1>13
<1>15. g[s] = f[c] + (f[x] + k) /\ g[s \ {x}] = f[c] + k
  BY <1>7, <1>11, <1>12, <1>14
<1>16. \A i, j \in Nat : i + (j + k) = j + (i + k)
  OBVIOUS
<1> QED
  BY <1>6, <1>13, <1>15, <1>16

\* SumFunctionOnSet is the last of such sums.
LEMMA SumIs ==
    ASSUME NEW S, IsFiniteSet(S), NEW f, \A x \in S : f[x] \in Nat
    PROVE  \E g \in [SUBSET S -> Nat] :
              /\ g[{}] = 0
              /\ \A s \in SUBSET S : \A x \in s : g[s] = f[x] + g[s \ {x}]
              /\ SumFunctionOnSet(f, S) = g[S]
<1> DEFINE G == CHOOSE g : g = [s \in SUBSET S |-> IF s = {} THEN 0
                                ELSE f[CHOOSE x \in s : TRUE] + g[s \ {CHOOSE x \in s : TRUE}]]
<1>1. PICK g \in [SUBSET S -> Nat] : SumSteps(f, S, g)
  BY SumExists
<1>2. SumSteps(f, S, G)
  BY <1>1 DEF SumSteps
<1>3. SumFunctionOnSet(f, S) = G[S]
  BY DEF SumFunctionOnSet, FoldFunctionOnSet, MapThenFoldSet
<1>7. \E h : SumSteps(f, S, h) /\ SumFunctionOnSet(f, S) = h[S]
  BY <1>2, <1>3
<1>8. PICK h : SumSteps(f, S, h) /\ SumFunctionOnSet(f, S) = h[S]
  BY <1>7
<1>4. h \in [SUBSET S -> Nat]
  BY <1>8, SumNat
<1>5. TakesOut(f, S, h)
  BY <1>8, SumTakesOut
<1>6. h[{}] = 0
  BY <1>8 DEF SumSteps
<1> QED
  BY <1>4, <1>5, <1>6, <1>8 DEF TakesOut

\* The memory beyond what was asked for: up to 7 bytes of rounding and up to a
\* word that is not split off, for each object.
LEMMA SumsApart ==
    ASSUME NEW U \in SUBSET Nat, IsFiniteSet(U), NEW D, D = {a + 1 : a \in U},
           NEW f, NEW l, \A a \in U : f[a] \in Nat, \A p \in D : l[p] \in Nat,
           \A a \in U : 8 * f[a] - l[a + 1] \in 0..15
    PROVE  /\ IsFiniteSet(D) /\ Cardinality(D) = Cardinality(U)
           /\ Cardinality(U) \in Nat /\ SumFunctionOnSet(f, U) \in Nat
           /\ 8 * SumFunctionOnSet(f, U) - SumFunctionOnSet(l, D) \in 0 .. 15 * Cardinality(U)
<1>1. IsFiniteSet(D) /\ Cardinality(D) = Cardinality(U)
  <2> DEFINE b == [a \in U |-> a + 1]
  <2>1. b \in Bijection(U, D)
    <3>1. b \in [U -> D] /\ (\A x \in U : b[x] = x + 1) /\ U \subseteq Nat
      OBVIOUS
    <3> HIDE DEF b
    <3>2. \A x, y \in U : b[x] = b[y] => x = y
      BY <3>1
    <3>3. \A d \in D : \E x \in U : b[x] = d
      BY <3>1
    <3> QED
      BY <3>1, <3>2, <3>3 DEF Bijection, Injection, Surjection, IsInjective
  <2>2. ExistsBijection(U, D)
    BY <2>1 DEF ExistsBijection
  <2> QED
    BY <2>2, FS_Bijection
<1>2. Cardinality(U) \in Nat /\ \A V \in SUBSET U : IsFiniteSet(V) /\ Cardinality(V) \in Nat
  BY FS_Subset, FS_CardinalityType
<1>3. PICK g \in [SUBSET U -> Nat] :
        /\ g[{}] = 0
        /\ \A s \in SUBSET U : \A x \in s : g[s] = f[x] + g[s \ {x}]
        /\ SumFunctionOnSet(f, U) = g[U]
  BY SumIs
<1>4. PICK h \in [SUBSET D -> Nat] :
        /\ h[{}] = 0
        /\ \A s \in SUBSET D : \A x \in s : h[s] = l[x] + h[s \ {x}]
        /\ SumFunctionOnSet(l, D) = h[D]
  BY <1>1, SumIs
<1> DEFINE Next1(V) == {a + 1 : a \in V}
           Fine(V) == 8 * g[V] - h[Next1(V)] \in 0 .. 15 * Cardinality(V)
           Bad == {n \in Nat : \E V \in SUBSET U : Cardinality(V) = n /\ ~Fine(V)}
<1>5. ASSUME Bad # {} PROVE FALSE
  <2>1. PICK n \in Bad : \A k \in Bad : n <= k
    BY <1>5, LeastElement
  <2>2. PICK V \in SUBSET U : Cardinality(V) = n /\ ~Fine(V)
    OBVIOUS
  <2>3. CASE V = {}
    <3>1. g[V] = 0 /\ h[Next1(V)] = 0 /\ Cardinality(V) = 0
      <4>1. Next1(V) = {} /\ Cardinality(V) = 0
        BY <2>3, FS_EmptySet
      <4> QED
        BY <1>3, <1>4, <2>3, <4>1
    <3> QED
      BY <2>2, <3>1
  <2>4. CASE V # {}
    <3>1. PICK x \in V : TRUE
      BY <2>4
    <3> DEFINE W == V \ {x}
    <3>2. W \in SUBSET U /\ Cardinality(W) = n - 1 /\ Cardinality(W) \in Nat
      BY <1>2, <2>2, <3>1, FS_RemoveElement
    <3>3. Fine(W)
      <4> HIDE DEF Fine, W
      <4>1. n \in Nat /\ Cardinality(W) \notin Bad
        <5>1. n \in Nat
          OBVIOUS
        <5>2. ~(n <= n - 1)
          BY <5>1
        <5> HIDE DEF Bad
        <5> QED
          BY <2>1, <3>2, <5>1, <5>2
      <4> QED
        BY <3>2, <4>1
    <3>4. g[V] = f[x] + g[W]
      BY <1>3, <3>1
    <3>5. Next1(V) \in SUBSET D /\ x + 1 \in Next1(V) /\ Next1(V) \ {x + 1} = Next1(W)
      <4>1. V \subseteq Nat /\ x \in Nat
        BY <3>1
      <4> QED
        BY <4>1
    <3>6. h[Next1(V)] = l[x + 1] + h[Next1(W)]
      <4> HIDE DEF Next1, W
      <4>1. h[Next1(V)] = l[x + 1] + h[Next1(V) \ {x + 1}]
        BY <1>4, <3>5
      <4> QED
        BY <3>5, <4>1
    <3>7. g[W] \in Nat /\ h[Next1(W)] \in Nat /\ f[x] \in Nat /\ l[x + 1] \in Nat
      <4> HIDE DEF W, Next1
      <4>1. Next1(W) \in SUBSET D /\ x \in U
        BY <3>1, <3>5
      <4>2. x + 1 \in D
        BY <3>5
      <4> QED
        BY <3>2, <4>1, <4>2
    <3>8. 8 * f[x] - l[x + 1] \in 0..15 /\ 8 * g[W] - h[Next1(W)] \in 0 .. 15 * (n - 1)
      BY <3>2, <3>3
    <3>9. n \in Nat
      OBVIOUS
    <3> HIDE DEF W, Next1
    <3>10. 8 * g[V] - h[Next1(V)] \in 0 .. 15 * n
      BY <3>4, <3>6, <3>7, <3>8, <3>9
    <3> QED
      BY <2>2, <3>10
  <2> QED
    BY <2>3, <2>4
<1>6. Fine(U)
  <2> HIDE DEF Fine
  <2> QED
    BY <1>2, <1>5
<1>7. Next1(U) = D
  OBVIOUS
<1> QED
  BY <1>1, <1>2, <1>3, <1>4, <1>6, <1>7

\* The report of the heap as it is.
LEMMA ReportCounts ==
    ASSUME SmallSizes, Holds(mem, live)
    PROVE  /\ check_leaks[1] = Cardinality(DOMAIN live)
           /\ check_leaks \in Nat \X Nat
           /\ 8 * check_leaks[2] - Asked \in 0 .. 15 * check_leaks[1]
<1> DEFINE U == Used(mem, Chunks(mem))
           D == DOMAIN live
           f == [a \in Word |-> mem[a].size]
<1>1. Chunks(mem) \subseteq Word /\ Word \subseteq Nat /\ IsFiniteSet(Word)
  <2>1. Word \subseteq Nat /\ IsFiniteSet(Word)
    BY MyMallocAssumption, FS_Interval DEF Word
  <2> QED
    BY <2>1 DEF Holds, Tiles
<1>2. U \in SUBSET Nat /\ IsFiniteSet(U)
  BY <1>1, FS_Subset DEF Used
<1>3. D = {a + 1 : a \in U}
  BY DEF Holds
<1>4. ASSUME NEW p \in D
      PROVE  live[p] \in Nat /\ f[p - 1] \in Nat /\ 8 * f[p - 1] - live[p] \in 0..15
  <2>1. /\ p - 1 \in Word /\ mem[p - 1].size \in Nat
        /\ live[p] \in Nat /\ Need(live[p]) \in Nat
    BY ObjectChunk
  <2>2. mem[p - 1].size - Need(live[p]) \in {0, 1}
    BY DEF Holds
  <2>3. 8 * Need(live[p]) - live[p] \in 0..7
    BY <2>1 DEF Need
  <2> QED
    BY <2>1, <2>2, <2>3
<1>5. \A a \in U : a + 1 \in D /\ (a + 1) - 1 = a
  BY <1>2, <1>3
<1>6. \A a \in U : f[a] \in Nat /\ 8 * f[a] - live[a + 1] \in 0..15
  <2> HIDE DEF f, U, D
  <2> QED
    BY <1>4, <1>5
<1>7. check_leaks = <<Cardinality(U), SumFunctionOnSet(f, U)>>
  BY DEF check_leaks, Used
<1>8. Asked = SumFunctionOnSet(live, D)
  BY DEF Asked
<1> HIDE DEF f, U, D
<1>9. /\ Cardinality(D) = Cardinality(U)
      /\ Cardinality(U) \in Nat /\ SumFunctionOnSet(f, U) \in Nat
      /\ 8 * SumFunctionOnSet(f, U) - SumFunctionOnSet(live, D) \in 0 .. 15 * Cardinality(U)
  BY <1>2, <1>3, <1>4, <1>6, SumsApart
<1> QED
  BY <1>7, <1>8, <1>9 DEF D

\* The program ends with the report of the heap it leaves.
ReportInv ==
    /\ exited \in {"no", "ok", "error"}
    /\ exited = "no" => report = <<>>
    /\ exited # "no" => report = IF initialized THEN check_leaks ELSE <<>>

\* The report is written once, at exit.
LEMMA ReportInvStep ==
    ASSUME ReportInv, [Next]_vars
    PROVE  ReportInv'
<1>1. CASE Running /\ exited' = exited /\ report' = report
  BY <1>1 DEF ReportInv, Running
<1>2. CASE Leave("ok") \/ Leave("error")
  <2>1. mem' = mem /\ initialized' = initialized
    BY <1>2 DEF Leave, heap
  <2>2. check_leaks' = check_leaks
    BY <2>1 DEF check_leaks, Chunks, After
  <2> QED
    BY <1>2, <2>1, <2>2 DEF Leave, ReportInv
<1>3. CASE UNCHANGED vars
  <2>1. check_leaks' = check_leaks
    BY <1>3 DEF vars, heap, check_leaks, Chunks, After
  <2> QED
    BY <1>3, <2>1 DEF vars, heap, ReportInv
<1> QED
  BY <1>1, <1>2, <1>3
     DEF Next, MallocZero, Malloc, MallocFails, Free, FreeInappropriate, Write, Exit, Exited

\* What the leak detector is to say holds in every state.
LEMMA ReportInvHolds == Spec => []ReportInv
<1>1. Init => ReportInv
  BY DEF Init, ReportInv
<1>2. ReportInv /\ [Next]_vars => ReportInv'
  BY ReportInvStep
<1> QED
  BY <1>1, <1>2, PTL DEF Spec

\* The report counts the objects.
LEMMA CountedHolds ==
    ASSUME Careful, HeapInv, ReportInv
    PROVE  LeaksCounted
<1> SUFFICES ASSUME HeapInv, ReportInv, exited # "no", initialized PROVE LeaksCounted
  BY DEF LeaksCounted
<1>1. Holds(mem, live) /\ report = check_leaks
  BY DEF HeapInv, ReportInv
<1> QED
  BY <1>1, ReportCounts DEF LeaksCounted, Careful

\* The report at exit names every object that was not freed, and at most 15
\* bytes for each beyond what was asked for (136-148).
THEOREM LeaksReported == ASSUME Careful PROVE Spec => []LeaksCounted
<1>1. HeapInv /\ ReportInv => LeaksCounted
  BY CountedHolds
<1> QED
  BY <1>1, HeapInvHolds, ReportInvHolds, PTL

\* The variables have their types.
LEMMA TypesHold ==
    ASSUME Careful, HeapInv, ReportInv
    PROVE  TypeOK
<1> SUFFICES ASSUME HeapInv, ReportInv PROVE TypeOK
  OBVIOUS
<1>1. CASE initialized
  <2>1. Holds(mem, live)
    BY <1>1 DEF HeapInv
  <2>2. check_leaks \in Nat \X Nat
    BY <2>1, ReportCounts DEF Careful
  <2>3. report \in {<<>>} \cup (Nat \X Nat)
    BY <1>1, <2>2 DEF ReportInv
  <2>4. DOMAIN live \subseteq Nat
    BY <2>1, ObjectChunk DEF Careful
  <2>5. mem \in [Word -> [size : Nat, used : BOOLEAN]] /\ live \in [DOMAIN live -> Sizes \ {0}]
    BY <2>1 DEF Holds, Mem
  <2> QED
    BY <2>3, <2>4, <2>5 DEF TypeOK, HeapInv, ReportInv
<1>2. CASE ~initialized
  <2>1. Header(0, FALSE) \in [size : Nat, used : BOOLEAN]
    BY DEF Header
  <2>2. mem \in [Word -> [size : Nat, used : BOOLEAN]]
    BY <1>2, <2>1 DEF HeapInv
  <2>3. live \in [DOMAIN live -> Sizes \ {0}] /\ DOMAIN live \subseteq Nat
    BY <1>2 DEF HeapInv
  <2> QED
    BY <1>2, <2>2, <2>3 DEF TypeOK, HeapInv, ReportInv
<1> QED
  BY <1>1, <1>2 DEF HeapInv

\* The variables have their types.
THEOREM TypeCorrect == ASSUME Careful PROVE Spec => []TypeOK
<1>1. HeapInv /\ ReportInv => TypeOK
  BY TypesHold
<1> QED
  BY <1>1, HeapInvHolds, ReportInvHolds, PTL
=============================================================================

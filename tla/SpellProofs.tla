----------------------------- MODULE SpellProofs -----------------------------
(* The types of spell, what its exit status says and which files it checks,   *)
(* for every command line, file system, dictionary and text.                  *)
EXTENDS Spell, SequenceTheorems, FiniteSetTheorems, NaturalsInduction, WellFoundedInduction, TLAPS

\* error_found is exact until it is turned into a status: the copies of the
\* reporting code (199-211, 237-249) and every failure set it, and nothing
\* else does.
Exact == error_found <=> missed # {} \/ printed # <<>>

IInv == /\ error_found \in BOOLEAN
        /\ \E R : printed \in Seq(R)
        /\ pc # "exit" => Exact
        /\ StatusTells

\* Reporting keeps error_found exact.
LEMMA CheckedExact ==
    ASSUME error_found \in BOOLEAN, \E R : printed \in Seq(R), Exact, Checked, UNCHANGED missed
    PROVE  error_found' \in BOOLEAN /\ (\E R : printed' \in Seq(R)) /\ Exact'
<1>1. CASE word = <<>>
  BY <1>1 DEF Checked, Exact
<1>2. CASE word # <<>>
  <2>1. PICK R : printed \in Seq(R)
    OBVIOUS
  <2> DEFINE e == [named |-> print_filename, file |-> file.node, line |-> line,
                   col |-> word_col, word |-> normalize_word(word)]
  <2>2. Report = <<>> \/ Report = <<e>>
    BY DEF Report
  <2>3. /\ printed' = printed \o Report
        /\ error_found' = (error_found \/ Report # <<>>)
    BY <1>2 DEF Checked
  <2> HIDE DEF e
  <2>4. CASE Report = <<>>
    <3>1. printed \o <<>> = printed
      BY <2>1
    <3> QED BY <2>1, <2>3, <2>4, <3>1 DEF Exact
  <2>5. CASE Report = <<e>>
    <3>1. printed \o <<e>> \in Seq(R \cup {e}) /\ printed \o <<e>> # <<>> /\ <<e>> # <<>>
      BY <2>1
    <3> QED BY <2>3, <2>5, <3>1 DEF Exact
  <2> QED BY <2>2, <2>4, <2>5
<1> QED BY <1>1, <1>2

\* Every step keeps it.
LEMMA Inductive == ASSUME IInv, [Next]_vars PROVE IInv'
<1> USE DEF result, seen, walk, place
<1>1. CASE NoDictionary
  BY <1>1 DEF NoDictionary, IInv, StatusTells
<1>2. CASE OpenDictionary
  BY <1>2 DEF OpenDictionary, IInv, StatusTells, Exact
<1>3. ASSUME NEW n \in 1..BUFFER_SIZE, Read(n) PROVE IInv'
  BY <1>3 DEF Read, IInv, StatusTells, Exact
<1>4. ASSUME NEW c \in DictChars, LoadChar(c) PROVE IInv'
  BY <1>4 DEF LoadChar, IInv, StatusTells, Exact
<1>5. CASE Loaded
  BY <1>5 DEF Loaded, IInv, StatusTells, Exact
<1>6. CASE StatFails
  BY <1>6 DEF StatFails, Visit, IInv, StatusTells, Exact
<1>7. CASE OpenFails
  BY <1>7 DEF OpenFails, Visit, IInv, StatusTells, Exact
<1>8. CASE process_directory
  BY <1>8 DEF process_directory, Visit, IInv, StatusTells, Exact
<1>9. CASE PassOver
  BY <1>9 DEF PassOver, Visit, IInv, StatusTells, Exact
<1>10. CASE OpenFile
  BY <1>10 DEF OpenFile, Visit, IInv, StatusTells, Exact
<1>11. ASSUME NEW c \in TextChars, WordChar(c) PROVE IInv'
  BY <1>11 DEF WordChar, IInv, StatusTells, Exact
<1>12. ASSUME NEW c \in TextChars, SpaceChar(c) PROVE IInv'
  <2>1. pc = "check" /\ pc' = pc /\ Checked /\ UNCHANGED missed
    BY <1>12 DEF SpaceChar
  <2> QED BY <2>1, CheckedExact DEF IInv, StatusTells
<1>13. CASE CloseFile
  <2>1. pc = "check" /\ pc' = "next" /\ Checked /\ UNCHANGED missed
    BY <1>13 DEF CloseFile
  <2> QED BY <2>1, CheckedExact DEF IInv, StatusTells
<1>14. CASE Return
  BY <1>14 DEF Return, IInv, StatusTells, Exact
<1>15. CASE UNCHANGED vars
  BY <1>15 DEF vars, IInv, StatusTells, Exact
<1> QED BY <1>1, <1>2, <1>3, <1>4, <1>5, <1>6, <1>7, <1>8, <1>9, <1>10, <1>11, <1>12, <1>13,
           <1>14, <1>15 DEF Next, Exited

\* spell returns EXIT_SUCCESS if everything it was to read could be opened and
\* no misspelling was printed, and only then (README.txt 45-47, spell.c 346).
THEOREM StatusTold == Spec => []StatusTells
<1>1. Init => IInv
  <2>1. <<>> \in Seq({})
    OBVIOUS
  <2> QED BY <2>1 DEF Init, IInv, StatusTells, Exact
<1>2. IInv /\ [Next]_vars => IInv'
  BY Inductive
<1>3. IInv => StatusTells
  BY DEF IInv
<1> QED BY <1>1, <1>2, <1>3, PTL DEF Spec

------------------------------------------------------------------------------
(* The types.                                                                 *)

\* Every set of natural numbers has a least one, so Min finds it,
LEMMA MinFound ==
    ASSUME NEW S \in SUBSET Nat, S # {}
    PROVE  Min(S) \in S /\ \A y \in S : Min(S) <= y
<1>1. IsWellFoundedOn({p \in Nat \X Nat : p[1] < p[2]}, Nat)
  BY NatLessThanWellFounded DEF OpToRel
<1>2. PICK x \in S : \A y \in S : <<y, x>> \notin {p \in Nat \X Nat : p[1] < p[2]}
  BY <1>1, WFMin
<1>3. \A y \in S : x <= y
  <2> SUFFICES ASSUME NEW y \in S PROVE x <= y
    OBVIOUS
  <2>1. x \in Nat /\ y \in Nat /\ ~(y < x)
    BY <1>2
  <2> QED
    BY <2>1
<1>4. \E z \in S : \A y \in S : z =< y
  BY <1>3
<1> QED
  BY <1>4 DEF Min

\* and every bounded one a greatest.
LEMMA MaxFound ==
    ASSUME NEW n \in Nat, NEW S \in SUBSET (0..n), S # {}
    PROVE  Max(S) \in S /\ \A y \in S : Max(S) >= y
<1> DEFINE D == {n - x : x \in S}
<1>1. D \in SUBSET Nat /\ D # {}
  <2>1. \A x \in S : n - x \in Nat
    OBVIOUS
  <2> QED
    BY <2>1
<1>2. Min(D) \in D /\ \A y \in D : Min(D) <= y
  BY <1>1, MinFound
<1>3. PICK x \in S : Min(D) = n - x
  BY <1>2
<1>4. \A y \in S : x >= y
  <2> SUFFICES ASSUME NEW y \in S PROVE x >= y
    OBVIOUS
  <2>1. n - y \in D /\ x \in 0..n /\ y \in 0..n
    OBVIOUS
  <2>2. n - x <= n - y
    BY <1>2, <1>3, <2>1
  <2> QED
    BY <2>1, <2>2
<1>5. \E z \in S : \A y \in S : z >= y
  BY <1>4
<1> QED
  BY <1>5 DEF Max

\* A word in lower case is a word.
LEMMA LowerType == ASSUME NEW w \in Seq(Char) PROVE to_lower(w) \in Seq(Char)
<1>1. \A i \in 1..Len(w) : (IF w[i] = "F" THEN "f" ELSE w[i]) \in Char
  <2>1. "f" \in Char
    BY DEF Char
  <2>2. \A i \in 1..Len(w) : w[i] \in Char
    OBVIOUS
  <2> QED
    BY <2>1, <2>2
<1>2. [i \in 1..Len(w) |-> IF w[i] = "F" THEN "f" ELSE w[i]] \in Seq(Char)
  BY <1>1
<1> QED
  BY <1>2 DEF to_lower

\* What is left of a word without its punctuation is a word.
LEMMA NormalizedType == ASSUME NEW w \in Seq(Char) PROVE normalize_word(w) \in Seq(Char)
<1> DEFINE L == {i \in DOMAIN w : w[i] # "("} \cup {Len(w) + 1}
           H == {i \in DOMAIN w : isalnum(w[i])} \cup {0}
<1>1. Min(L) \in 1..Len(w) + 1
  <2>1. L \in SUBSET Nat /\ L # {} /\ L \subseteq 1..Len(w) + 1
    OBVIOUS
  <2> QED
    BY <2>1, MinFound
<1>2. Max(H) \in 0..Len(w)
  <2>1. H \in SUBSET (0..Len(w)) /\ H # {} /\ Len(w) \in Nat
    OBVIOUS
  <2> QED
    BY <2>1, MaxFound
<1>3. \A i \in Min(L)..Max(H) : w[i] \in Char
  BY <1>1, <1>2
<1>4. SubSeq(w, Min(L), Max(H)) \in Seq(Char)
  BY <1>1, <1>2, <1>3, SubSeqProperties
<1> QED
  BY <1>4 DEF normalize_word

\* A word of the dictionary is made of its characters.
LEMMA CutType ==
    ASSUME NEW C, NEW t \in Seq(C), NEW i \in DOMAIN t, NEW E
    PROVE  Cut(t, i, E) \in Seq(C)
<1> DEFINE J == {j \in i..Len(t) : t[j] \in E} \cup {Len(t) + 1}
           M == {Min(J) - 1, i + MAX_WORD_LEN - 2}
<1>1. Min(J) \in i..Len(t) + 1
  <2>1. J \in SUBSET Nat /\ J # {} /\ J \subseteq i..Len(t) + 1
    OBVIOUS
  <2> QED
    BY <2>1, MinFound
<1>2. Min(M) \in Nat /\ Min(M) <= Len(t)
  <2>1. M \in SUBSET Nat /\ M # {} /\ Min(J) - 1 \in M /\ Min(J) - 1 <= Len(t)
    BY <1>1, SpellAssumption
  <2>2. Min(M) \in Nat /\ Min(M) <= Min(J) - 1
    BY <2>1, MinFound
  <2> QED
    BY <1>1, <2>1, <2>2
<1>3. \A j \in i..Min(M) : t[j] \in C
  BY <1>2
<1>4. SubSeq(t, i, Min(M)) \in Seq(C)
  BY <1>2, <1>3, SubSeqProperties
<1> QED
  BY <1>4 DEF Cut, M

\* What is read is the dictionary's or a text's characters.
TextInv == /\ pc \in {"start", "load"} => text \in Seq(DictChars)
           /\ pc = "check" => text \in Seq(TextChars)
TypeInv == TypeOK /\ TextInv

\* A word grows to 255 characters at most.
LEMMA LongerType ==
    ASSUME TypeOK, NEW c \in Char
    PROVE  Longer(c) \in Seq(Char) /\ Len(Longer(c)) < MAX_WORD_LEN
BY SpellAssumption DEF TypeOK, Longer

\* The hash table maps words to Booleans.
LEMMA AddedType ==
    ASSUME TypeOK, dictionary' = Added
    PROVE  DOMAIN dictionary' \subseteq Seq(Char) /\ \A d \in DOMAIN dictionary' : dictionary'[d] \in BOOLEAN
<1>1. CASE word = <<>>
  BY <1>1 DEF Added, TypeOK
<1>2. CASE word # <<>>
  <2> DEFINE lower == to_lower(word)
             has(d) == \/ d \in DOMAIN dictionary /\ dictionary[d]
                       \/ d = lower /\ isupper(word[1])
  <2>1. dictionary' = [d \in DOMAIN dictionary \cup {lower} |-> has(d)]
    BY <1>2 DEF Added, dict_add
  <2>2. lower \in Seq(Char)
    BY LowerType DEF TypeOK
  <2>3. \A d : has(d) \in BOOLEAN
    BY DEF isupper
  <2> HIDE DEF lower, has
  <2>4. DOMAIN dictionary' = DOMAIN dictionary \cup {lower}
    BY <2>1
  <2>5. \A d \in DOMAIN dictionary' : dictionary'[d] = has(d)
    BY <2>1
  <2> QED
    BY <2>2, <2>3, <2>4, <2>5 DEF TypeOK
<1> QED
  BY <1>1, <1>2

\* What is reported has the type of reports.
LEMMA CheckedType ==
    ASSUME TypeOK, Checked
    PROVE  /\ error_found' \in BOOLEAN
           /\ printed' \in Seq([named : BOOLEAN, file : Nodes, line : Nat, col : Nat, word : Seq(Char)])
<1> DEFINE R == [named : BOOLEAN, file : Nodes, line : Nat, col : Nat, word : Seq(Char)]
           e == [named |-> print_filename, file |-> file.node, line |-> line,
                 col |-> word_col, word |-> normalize_word(word)]
<1>1. CASE word = <<>>
  BY <1>1 DEF Checked, TypeOK
<1>2. CASE word # <<>>
  <2>1. Report = <<>> \/ Report = <<e>>
    BY DEF Report
  <2>2. print_filename \in BOOLEAN /\ file.node \in Nodes
    BY DEF TypeOK, Item, print_filename
  <2>3. normalize_word(word) \in Seq(Char)
    BY NormalizedType DEF TypeOK
  <2>4. e \in R
    BY <2>2, <2>3 DEF TypeOK
  <2>5. printed \in Seq(R) /\ error_found \in BOOLEAN
    BY DEF TypeOK
  <2> HIDE DEF e, R
  <2>6. Report \in Seq(R)
    <3>1. <<>> \in Seq(R) /\ <<e>> \in Seq(R)
      BY <2>4
    <3> QED
      BY <2>1, <3>1
  <2>7. printed' = printed \o Report /\ error_found' = (error_found \/ Report # <<>>)
    BY <1>2 DEF Checked
  <2>8. printed' \in Seq(R)
    BY <2>5, <2>6, <2>7
  <2>9. error_found' \in BOOLEAN
    BY <2>7
  <2> QED
    BY <2>8, <2>9 DEF R
<1> QED
  BY <1>1, <1>2

\* What is still to visit are nodes.
LEMMA TodoType ==
    ASSUME TypeOK, Visit
    PROVE  Entry \in Item /\ Tail(todo) \in Seq(Item)
BY HeadTailProperties DEF TypeOK, Visit, Entry

\* The entries of a directory are nodes, in any order,
LEMMA EntriesType ==
    ASSUME NEW d \in Dirs, NEW entries \in SetToSeqs(Entries[d] \ Hidden)
    PROVE  [i \in DOMAIN entries |-> [node |-> entries[i], top |-> FALSE]] \in Seq(Item)
<1> DEFINE S == Entries[d] \ Hidden
           n == Cardinality(S)
<1>1. S \subseteq Nodes /\ n \in Nat
  <2>1. Entries[d] \subseteq Nodes /\ IsFiniteSet(Entries[d])
    BY SpellAssumption
  <2> QED
    BY <2>1, FS_Difference, FS_CardinalityType
<1>2. entries \in [1..n -> S]
  BY DEF SetToSeqs
<1> HIDE DEF S, n
<1>3. [i \in 1..n |-> [node |-> entries[i], top |-> FALSE]] \in [1..n -> Item]
  BY <1>1, <1>2 DEF Item
<1> QED
  BY <1>1, <1>2, <1>3

\* so what is to visit is still nodes.
LEMMA DirectoryType ==
    ASSUME TypeOK, process_directory
    PROVE  todo' \in Seq(Item)
<1>1. Tail(todo) \in Seq(Item) /\ Entry.node \in Dirs
  BY TodoType DEF process_directory, IsDir
<1>2. PICK entries \in SetToSeqs(Entries[Entry.node] \ Hidden) :
          todo' = [i \in DOMAIN entries |-> [node |-> entries[i], top |-> FALSE]] \o Tail(todo)
  BY DEF process_directory
<1>3. [i \in DOMAIN entries |-> [node |-> entries[i], top |-> FALSE]] \in Seq(Item)
  BY <1>1, EntriesType
<1> QED
  BY <1>1, <1>2, <1>3

\* Every step keeps the types.
LEMMA TypeStep == ASSUME TypeInv, [Next]_vars PROVE TypeInv'
<1> USE DEF result, seen, walk, place, TypeInv, TextInv, TypeOK
<1>1. CASE NoDictionary
  BY <1>1 DEF NoDictionary
<1>2. CASE OpenDictionary
  BY <1>2 DEF OpenDictionary
<1>3. ASSUME NEW n \in 1..BUFFER_SIZE, Read(n) PROVE TypeInv'
  BY <1>3, SpellAssumption DEF Read
<1>4. ASSUME NEW c \in DictChars, LoadChar(c) PROVE TypeInv'
  <2>1. c \in Char /\ 1 \in Nat
    BY SpellAssumption
  <2>2. Append(text, c) \in Seq(DictChars) /\ Append(text, c) \in Seq(DictChars \cup TextChars)
    BY <1>4 DEF LoadChar
  <2>3. word' \in Seq(Char) /\ Len(word') < MAX_WORD_LEN
    <3>1. Longer(c) \in Seq(Char) /\ Len(Longer(c)) < MAX_WORD_LEN
      BY <2>1, LongerType
    <3>2. <<>> \in Seq(Char) /\ Len(<<>>) < MAX_WORD_LEN
      BY SpellAssumption
    <3>3. word' = <<>> \/ word' = Longer(c)
      BY <1>4 DEF LoadChar
    <3> QED
      BY <3>1, <3>2, <3>3
  <2>4. DOMAIN dictionary' \subseteq Seq(Char) /\ \A d \in DOMAIN dictionary' : dictionary'[d] \in BOOLEAN
    BY <1>4, AddedType DEF LoadChar
  <2>5. left' \in 0..BUFFER_SIZE
    BY <1>4, SpellAssumption DEF LoadChar
  <2> QED
    BY <1>4, <2>2, <2>3, <2>4, <2>5 DEF LoadChar
<1>5. CASE Loaded
  <2>1. \A i \in Starts(text, {"newline"}) : Cut(text, i, {"newline"}) \in Seq(DictChars)
    BY <1>5, CutType DEF Loaded, Starts
  <2>2. dict_words' \subseteq Seq(DictChars)
    BY <1>5, <2>1 DEF Loaded
  <2>3. DOMAIN dictionary' \subseteq Seq(Char) /\ \A d \in DOMAIN dictionary' : dictionary'[d] \in BOOLEAN
    BY <1>5, AddedType DEF Loaded
  <2>4. word' \in Seq(Char) /\ Len(word') < MAX_WORD_LEN /\ room' \in Nat
    BY <1>5, SpellAssumption DEF Loaded
  <2> QED
    BY <1>5, <2>2, <2>3, <2>4 DEF Loaded
<1>6. CASE StatFails
  <2>1. Entry.node \in Nodes /\ todo' \in Seq(Item)
    BY <1>6, TodoType DEF StatFails, Item
  <2>2. error_found' \in BOOLEAN /\ missed' \subseteq Nodes \cup {"dictionary"} /\ vanished' \in BOOLEAN
    BY <1>6, <2>1 DEF StatFails
  <2> QED
    BY <1>6, <2>1, <2>2 DEF StatFails
<1>7. CASE OpenFails
  <2>1. Entry.node \in Nodes /\ todo' \in Seq(Item)
    BY <1>7, TodoType DEF OpenFails, Item
  <2> QED
    BY <1>7, <2>1 DEF OpenFails
<1>8. CASE process_directory
  <2>1. todo' \in Seq(Item)
    BY <1>8, DirectoryType
  <2> QED
    BY <1>8, <2>1 DEF process_directory
<1>9. CASE PassOver
  <2>1. todo' \in Seq(Item)
    BY <1>9, TodoType DEF PassOver
  <2> QED
    BY <1>9, <2>1 DEF PassOver
<1>10. CASE OpenFile
  <2>1. todo' \in Seq(Item) /\ file' \in Item
    BY <1>10, TodoType DEF OpenFile
  <2>2. word' \in Seq(Char) /\ Len(word') < MAX_WORD_LEN
    BY <1>10, SpellAssumption DEF OpenFile
  <2> QED
    BY <1>10, <2>1, <2>2 DEF OpenFile
<1>11. ASSUME NEW c \in TextChars, WordChar(c) PROVE TypeInv'
  <2>1. c \in Char
    BY SpellAssumption
  <2>2. Append(text, c) \in Seq(TextChars) /\ Append(text, c) \in Seq(DictChars \cup TextChars)
    BY <1>11 DEF WordChar
  <2>3. word' \in Seq(Char) /\ Len(word') < MAX_WORD_LEN
    BY <1>11, <2>1, LongerType DEF WordChar
  <2>4. left' \in 0..BUFFER_SIZE /\ col' \in Nat /\ word_col' \in Nat
    BY <1>11, SpellAssumption DEF WordChar
  <2> QED
    BY <1>11, <2>2, <2>3, <2>4 DEF WordChar
<1>12. ASSUME NEW c \in TextChars, SpaceChar(c) PROVE TypeInv'
  <2>1. Append(text, c) \in Seq(TextChars) /\ Append(text, c) \in Seq(DictChars \cup TextChars)
    BY <1>12 DEF SpaceChar
  <2>2. /\ error_found' \in BOOLEAN
        /\ printed' \in Seq([named : BOOLEAN, file : Nodes, line : Nat, col : Nat, word : Seq(Char)])
    BY <1>12, CheckedType DEF SpaceChar
  <2>3. left' \in 0..BUFFER_SIZE /\ line' \in Nat /\ col' \in Nat
    BY <1>12, SpellAssumption DEF SpaceChar
  <2>4. word' \in Seq(Char) /\ Len(word') < MAX_WORD_LEN
    BY <1>12, SpellAssumption DEF SpaceChar
  <2> QED
    BY <1>12, <2>1, <2>2, <2>3, <2>4 DEF SpaceChar
<1>13. CASE CloseFile
  <2>1. /\ error_found' \in BOOLEAN
        /\ printed' \in Seq([named : BOOLEAN, file : Nodes, line : Nat, col : Nat, word : Seq(Char)])
    BY <1>13, CheckedType DEF CloseFile
  <2> DEFINE R == [file : Nodes, text : Seq(TextChars)]
             e == [file |-> file.node, text |-> text]
  <2>2. e \in R
    BY <1>13 DEF CloseFile, Item
  <2> HIDE DEF R, e
  <2>3. checked \in Seq(R)
    BY DEF R
  <2>4. checked' = Append(checked, e)
    BY <1>13 DEF CloseFile, e
  <2>5. checked' \in Seq(R)
    BY <2>2, <2>3, <2>4
  <2> QED
    BY <1>13, <2>1, <2>5 DEF CloseFile, R
<1>14. CASE Return
  BY <1>14 DEF Return
<1>15. CASE UNCHANGED vars
  BY <1>15 DEF vars
<1> QED BY <1>1, <1>2, <1>3, <1>4, <1>5, <1>6, <1>7, <1>8, <1>9, <1>10, <1>11, <1>12, <1>13,
           <1>14, <1>15 DEF Next, Exited

\* At the start everything has its type.
LEMMA InitType == ASSUME Init PROVE TypeInv
<1>0. "stdin" \in Nodes
  <2> DEFINE A == UNION {ToSet(a) : a \in Args}
             E == UNION {Entries[d] : d \in Dirs}
  <2>1. Nodes = A \cup E \cup {"stdin"}
    BY DEF Nodes
  <2> HIDE DEF A, E
  <2> QED
    BY <2>1
<1>1. todo \in Seq(Item)
  <2>1. "stdin" \in Nodes /\ args \in Seq(Nodes)
    BY <1>0, SpellAssumption DEF Init
  <2>2. \A n \in Nodes : Top(n) \in Item
    BY DEF Top, Item
  <2>3. [i \in 1..Len(args) |-> Top(args[i])] \in Seq(Item)
    BY <2>1, <2>2
  <2>4. <<Top("stdin")>> \in Seq(Item)
    BY <2>1, <2>2
  <2> QED
    BY <2>1, <2>3, <2>4 DEF Init
<1>2. file \in Item
  BY <1>0 DEF Init, Item, Top
<1>3. TextInv /\ text \in Seq(DictChars \cup TextChars)
  BY DEF Init, TextInv
<1>4. /\ word \in Seq(Char) /\ Len(word) < MAX_WORD_LEN /\ left \in 0..BUFFER_SIZE /\ room \in Nat
      /\ line \in Nat /\ col \in Nat /\ word_col \in Nat
  BY SpellAssumption DEF Init
<1>5. /\ DOMAIN dictionary \subseteq Seq(Char) /\ \A d \in DOMAIN dictionary : dictionary[d] \in BOOLEAN
      /\ dict_words \subseteq Seq(DictChars) /\ missed \subseteq Nodes \cup {"dictionary"}
  <2>1. DOMAIN dictionary = {}
    BY DEF Init
  <2> QED
    BY <2>1 DEF Init
<1>6. /\ checked \in Seq([file : Nodes, text : Seq(TextChars)])
      /\ printed \in Seq([named : BOOLEAN, file : Nodes, line : Nat, col : Nat, word : Seq(Char)])
  <2> DEFINE A == [file : Nodes, text : Seq(TextChars)]
             B == [named : BOOLEAN, file : Nodes, line : Nat, col : Nat, word : Seq(Char)]
  <2> HIDE DEF A, B
  <2>1. checked \in Seq(A) /\ printed \in Seq(B)
    BY DEF Init
  <2> QED
    BY <2>1 DEF A, B
<1>7. /\ pc \in {"start", "load", "next", "check", "exit"} /\ args \in Args
      /\ error_found \in BOOLEAN /\ status \in {"none", "success", "failure"} /\ vanished \in BOOLEAN
  BY DEF Init
<1> QED
  BY <1>1, <1>2, <1>3, <1>4, <1>5, <1>6, <1>7 DEF TypeInv, TypeOK

\* A word never fills its buffer's 255 characters, the table maps words to
\* Booleans, and all else has its type (spell.c 15-20, 182-250).
THEOREM TypeCorrect == Spec => []TypeOK
<1>1. Init => TypeInv
  BY InitType
<1>2. TypeInv /\ [Next]_vars => TypeInv'
  BY TypeStep
<1>3. TypeInv => TypeOK
  BY DEF TypeInv
<1> QED BY <1>1, <1>2, <1>3, PTL DEF Spec

------------------------------------------------------------------------------
(* The walk. First what lies under a node.                                    *)

\* A node is under itself; what is not hidden in a directory under it is, too;
\* and nothing else is, that is, what is under it is in every such set.
LEMMA UnderLeast ==
    ASSUME NEW a \in Nodes
    PROVE  /\ a \in Under(a) /\ Under(a) \subseteq Nodes /\ Downward(Under(a))
           /\ \A S \in SUBSET Nodes : a \in S /\ Downward(S) => Under(a) \subseteq S
<1>1. a \in Under(a) /\ Under(a) \subseteq Nodes
  BY DEF Under
<1>2. \A S \in SUBSET Nodes : a \in S /\ Downward(S) => Under(a) \subseteq S
  BY DEF Under
<1>3. Downward(Under(a))
  <2> SUFFICES ASSUME NEW d \in Under(a) \cap Dirs, NEW n \in Entries[d] \ Hidden PROVE n \in Under(a)
    BY DEF Downward
  <2>1. n \in Nodes
    BY SpellAssumption
  <2>2. ASSUME NEW S \in SUBSET Nodes, a \in S, Downward(S) PROVE n \in S
    <3>1. d \in S
      BY <1>2, <2>2
    <3> QED
      BY <2>2, <3>1 DEF Downward
  <2> QED
    BY <2>1, <2>2 DEF Under
<1> QED
  BY <1>1, <1>2, <1>3

\* Only itself is under what is no directory.
LEMMA UnderFile == ASSUME NEW a \in Nodes \ Dirs PROVE Under(a) = {a}
<1>1. Downward({a})
  BY DEF Downward
<1>2. Under(a) \subseteq {a}
  BY <1>1, UnderLeast
<1> QED
  BY <1>2, UnderLeast

\* Under a directory are itself and what is under its entries.
LEMMA UnderDirectory ==
    ASSUME NEW d \in Dirs, NEW n
    PROVE  n \in Under(d) <=> n = d \/ \E e \in Entries[d] \ Hidden : n \in Under(e)
<1>1. d \in Nodes /\ Entries[d] \subseteq Nodes
  BY SpellAssumption
<1> DEFINE S == {m \in Nodes : m = d \/ \E e \in Entries[d] \ Hidden : m \in Under(e)}
<1>2. Downward(S)
  <2> SUFFICES ASSUME NEW p \in S \cap Dirs, NEW m \in Entries[p] \ Hidden PROVE m \in S
    BY DEF Downward
  <2>1. m \in Nodes
    BY SpellAssumption
  <2>2. CASE p = d
    <3>1. m \in Under(m)
      BY <2>1, UnderLeast
    <3> QED
      BY <2>1, <2>2, <3>1
  <2>3. ASSUME NEW e \in Entries[d] \ Hidden, p \in Under(e) PROVE m \in S
    <3>1. m \in Under(e)
      BY <1>1, <2>3, UnderLeast DEF Downward
    <3> QED
      BY <2>1, <3>1
  <2> QED
    BY <2>2, <2>3
<1>3. Under(d) \subseteq S
  <2>1. S \in SUBSET Nodes /\ d \in S
    BY <1>1
  <2> HIDE DEF S
  <2> QED
    BY <1>1, <1>2, <2>1, UnderLeast
<1>4. ASSUME NEW e \in Entries[d] \ Hidden PROVE Under(e) \subseteq Under(d)
  <2>1. e \in Under(d) /\ Downward(Under(d)) /\ Under(d) \in SUBSET Nodes
    BY <1>1, UnderLeast DEF Downward
  <2> QED
    BY <1>1, <2>1, UnderLeast
<1>5. d \in Under(d)
  BY <1>1, UnderLeast
<1> QED
  BY <1>3, <1>4, <1>5

\* What is under a node is the node or an entry of a directory under it.
LEMMA UnderParent ==
    ASSUME NEW a \in Nodes, NEW n \in Under(a), n # a
    PROVE  \E p \in Under(a) \cap Dirs : n \in Entries[p] \ Hidden
<1> DEFINE S == {m \in Under(a) : m = a \/ \E p \in Under(a) \cap Dirs : m \in Entries[p] \ Hidden}
<1>1. Downward(S)
  BY UnderLeast DEF Downward
<1>2. S \in SUBSET Nodes /\ a \in S
  BY UnderLeast
<1> HIDE DEF S
<1>3. n \in S
  BY <1>1, <1>2, UnderLeast
<1> QED
  BY <1>3 DEF S

\* No directory is under what is in it,
LEMMA NotBelowItself ==
    ASSUME NEW d \in Dirs, NEW e \in Entries[d] \ Hidden
    PROVE  d \notin Under(e)
<1> SUFFICES ASSUME d \in Under(e) PROVE FALSE
  OBVIOUS
<1>1. e \in Nodes /\ d \in Nodes
  BY SpellAssumption
<1> DEFINE S == {n \in Dirs \cap Under(e) : d \in Under(n)}
<1>2. d \in S
  BY <1>1, UnderLeast
<1>3. ASSUME NEW m \in Under(e), d \in Under(m) PROVE m \in S
  <2>1. m \in Nodes
    BY <1>1, UnderLeast
  <2>2. CASE m \notin Dirs
    BY <1>3, <2>1, <2>2, UnderFile
  <2> QED
    BY <1>3, <2>2
<1>4. ASSUME NEW n \in S PROVE S \cap Entries[n] # {}
  <2>1. CASE n = d
    <3>1. e \in S
      BY <1>1, <1>3, UnderLeast
    <3> QED
      BY <2>1, <3>1
  <2>2. CASE n # d
    <3>1. PICK m \in Entries[n] \ Hidden : d \in Under(m)
      BY <2>2, UnderDirectory
    <3>2. m \in Under(e)
      BY <1>1, UnderLeast DEF Downward
    <3> QED
      BY <1>3, <3>1, <3>2
  <2> QED
    BY <2>1, <2>2
<1>5. S \in SUBSET Dirs /\ S # {}
  BY <1>2
<1> HIDE DEF S
<1> QED
  BY <1>4, <1>5, TreeAssumption

\* so nothing is under two of its entries.
LEMMA UnderApart ==
    ASSUME NEW d \in Dirs, NEW a \in Entries[d] \ Hidden, NEW b \in Entries[d] \ Hidden, a # b
    PROVE  Under(a) \cap Under(b) = {}
<1>1. a \in Nodes /\ b \in Nodes
  BY SpellAssumption
<1>2. ASSUME NEW x \in Nodes, NEW n \in Under(x), n # x, NEW p \in Dirs, n \in Entries[p]
      PROVE  p \in Under(x)
  <2>1. PICK q \in Under(x) \cap Dirs : n \in Entries[q] \ Hidden
    BY <1>2, UnderParent
  <2>2. p = q
    BY <1>2, <2>1, TreeAssumption
  <2> QED
    BY <2>1, <2>2
<1> DEFINE S == {n \in Under(a) : n \notin Under(b)}
<1>3. a \in S
  <2>1. a \notin Under(b)
    BY <1>1, <1>2, NotBelowItself
  <2> QED
    BY <1>1, <2>1, UnderLeast
<1>4. Downward(S)
  <2> SUFFICES ASSUME NEW p \in S \cap Dirs, NEW m \in Entries[p] \ Hidden, m \in Under(b) PROVE FALSE
    BY <1>1, UnderLeast DEF Downward
  <2>1. m = b
    BY <1>1, <1>2
  <2>2. p = d
    BY <2>1, TreeAssumption
  <2> QED
    BY <2>2, NotBelowItself
<1>5. S \in SUBSET Nodes
  BY <1>1, UnderLeast
<1> HIDE DEF S
<1>6. Under(a) \subseteq S
  BY <1>1, <1>3, <1>4, <1>5, UnderLeast
<1> QED
  BY <1>6 DEF S

\* How often a sequence has something of a set.
Hits(s, B) == {i \in DOMAIN s : s[i] \in B}
Count(s, B) == Cardinality(Hits(s, B))

\* It is a finite number.
LEMMA HitsFinite ==
    ASSUME NEW A, NEW s \in Seq(A), NEW B
    PROVE  IsFiniteSet(Hits(s, B)) /\ Hits(s, B) \in SUBSET (1..Len(s)) /\ Count(s, B) \in Nat
<1>1. Hits(s, B) \in SUBSET (1..Len(s)) /\ Len(s) \in Nat
  BY DEF Hits
<1>2. IsFiniteSet(1..Len(s))
  BY <1>1, FS_Interval
<1> QED
  BY <1>1, <1>2, FS_Subset, FS_CardinalityType DEF Count

\* Counts add up.
LEMMA CountConcat ==
    ASSUME NEW A, NEW s \in Seq(A), NEW t \in Seq(A), NEW B
    PROVE  Count(s \o t, B) = Count(s, B) + Count(t, B)
<1> DEFINE n == Len(s)
           H == Hits(t, B)
           K == {i + n : i \in H}
           f == [i \in H |-> i + n]
<1>1. /\ IsFiniteSet(Hits(s, B)) /\ Hits(s, B) \in SUBSET (1..n) /\ Count(s, B) \in Nat
      /\ IsFiniteSet(H) /\ H \in SUBSET (1..Len(t)) /\ Count(t, B) \in Nat /\ n \in Nat /\ Len(t) \in Nat
  BY HitsFinite
<1>2. /\ DOMAIN (s \o t) = 1..n + Len(t)
      /\ \A i \in 1..n + Len(t) : (s \o t)[i] = IF i <= n THEN s[i] ELSE t[i - n]
  <2>1. s \o t \in Seq(A) /\ Len(s \o t) = n + Len(t)
    BY ConcatProperties
  <2> QED
    BY <2>1, ConcatProperties
<1>3. /\ DOMAIN s = 1..n /\ DOMAIN t = 1..Len(t)
  OBVIOUS
<1>4. Hits(s \o t, B) = Hits(s, B) \cup K
  <2>1. ASSUME NEW i \in Hits(s \o t, B) PROVE i \in Hits(s, B) \cup K
    <3>1. i \in 1..n + Len(t) /\ (IF i <= n THEN s[i] ELSE t[i - n]) \in B
      BY <1>2, <2>1 DEF Hits
    <3>2. CASE i <= n
      BY <1>1, <1>3, <3>1, <3>2 DEF Hits
    <3>3. CASE ~(i <= n)
      <4>1. i - n \in 1..Len(t) /\ (i - n) + n = i
        BY <1>1, <3>1, <3>3
      <4>2. i - n \in H
        BY <1>3, <3>1, <3>3, <4>1 DEF Hits
      <4> QED
        BY <4>1, <4>2
    <3> QED
      BY <3>2, <3>3
  <2>2. ASSUME NEW i \in Hits(s, B) PROVE i \in Hits(s \o t, B)
    <3>1. i \in 1..n /\ s[i] \in B
      BY <1>3, <2>2 DEF Hits
    <3>2. i \in 1..n + Len(t) /\ i <= n
      BY <1>1, <3>1
    <3> QED
      BY <1>2, <3>1, <3>2 DEF Hits
  <2>3. ASSUME NEW i \in H PROVE i + n \in Hits(s \o t, B)
    <3>1. i \in 1..Len(t) /\ t[i] \in B
      BY <1>3, <2>3 DEF Hits
    <3>2. i + n \in 1..n + Len(t) /\ ~(i + n <= n) /\ (i + n) - n = i
      BY <1>1, <3>1
    <3> QED
      BY <1>2, <3>1, <3>2 DEF Hits
  <2> QED
    BY <2>1, <2>2, <2>3
<1>5. Hits(s, B) \cap K = {}
  BY <1>1
<1>6. IsFiniteSet(K) /\ Cardinality(K) = Cardinality(H)
  <2> HIDE DEF H, n
  <2>1. f \in Bijection(H, K)
    <3>1. f \in [H -> K] /\ \A k \in K : \E i \in H : f[i] = k
      OBVIOUS
    <3>2. \A i, j \in H : f[i] = f[j] => i = j
      BY <1>1
    <3> QED
      BY <3>1, <3>2 DEF Bijection, Injection, Surjection, IsInjective
  <2> QED
    BY <1>1, <2>1, FS_Bijection DEF ExistsBijection
<1> HIDE DEF K, H
<1>7. Cardinality(Hits(s, B) \cup K) = Cardinality(Hits(s, B)) + Cardinality(K) - Cardinality({})
  BY <1>1, <1>5, <1>6, FS_Union
<1>8. Cardinality({}) = 0
  BY FS_EmptySet
<1> QED
  BY <1>1, <1>4, <1>6, <1>7, <1>8 DEF Count, H

\* One thing counts once or not at all.
LEMMA CountOne ==
    ASSUME NEW x, NEW B
    PROVE  Count(<<x>>, B) = IF x \in B THEN 1 ELSE 0
<1>1. CASE x \in B
  <2>1. Hits(<<x>>, B) = {1}
    BY <1>1 DEF Hits
  <2> QED
    BY <1>1, <2>1, FS_Singleton DEF Count
<1>2. CASE x \notin B
  <2>1. Hits(<<x>>, B) = {}
    BY <1>2 DEF Hits
  <2> QED
    BY <1>2, <2>1, FS_EmptySet DEF Count
<1> QED
  BY <1>1, <1>2

\* So what is taken from the head or put at the end counts once or not at all.
LEMMA CountEnds ==
    ASSUME NEW A, NEW s \in Seq(A), NEW B
    PROVE  /\ \A x \in A : Count(Append(s, x), B) = Count(s, B) + IF x \in B THEN 1 ELSE 0
           /\ s # <<>> => Count(s, B) = Count(Tail(s), B) + IF Head(s) \in B THEN 1 ELSE 0
<1>1. ASSUME NEW x \in A PROVE Count(Append(s, x), B) = Count(s, B) + IF x \in B THEN 1 ELSE 0
  <2>1. Append(s, x) = s \o <<x>> /\ <<x>> \in Seq(A)
    BY <1>1, AppendIsConcat
  <2>2. Count(s \o <<x>>, B) = Count(s, B) + Count(<<x>>, B)
    BY <2>1, CountConcat
  <2>3. Count(<<x>>, B) = IF x \in B THEN 1 ELSE 0
    BY CountOne
  <2> QED
    BY <2>1, <2>2, <2>3
<1>2. ASSUME s # <<>>
      PROVE  Count(s, B) = Count(Tail(s), B) + IF Head(s) \in B THEN 1 ELSE 0
  <2>1. Head(s) \in A /\ Tail(s) \in Seq(A) /\ <<Head(s)>> \in Seq(A)
    BY <1>2, HeadTailProperties
  <2>2. s = <<Head(s)>> \o Tail(s)
    BY <1>2, <2>1
  <2>3. Count(s, B) = Count(<<Head(s)>>, B) + Count(Tail(s), B)
    <3>1. Count(<<Head(s)>> \o Tail(s), B) = Count(<<Head(s)>>, B) + Count(Tail(s), B)
      BY <2>1, CountConcat
    <3> QED
      BY <2>2, <3>1
  <2>4. Count(Tail(s), B) \in Nat
    BY <2>1, HitsFinite
  <2> QED
    BY <2>3, <2>4, CountOne
<1> QED
  BY <1>1, <1>2

\* A sequence of a set's elements has each of them once.
LEMMA CountOrder ==
    ASSUME NEW S, IsFiniteSet(S), NEW e \in SetToSeqs(S), NEW B,
           \A x, y \in S \cap B : x = y
    PROVE  Count(e, B) = IF S \cap B = {} THEN 0 ELSE 1
<1> DEFINE n == Cardinality(S)
<1>1. /\ e \in [1..n -> S] /\ \A i, j \in 1..n : i # j => e[i] # e[j]
      /\ n \in Nat /\ IsFiniteSet(1..n) /\ Cardinality(1..n) = n
  <2>1. n \in Nat
    BY FS_CardinalityType
  <2>2. e \in [1..n -> S] /\ \A i, j \in 1..n : i # j => e[i] # e[j]
    BY DEF SetToSeqs
  <2> HIDE DEF n
  <2>3. IsFiniteSet(1..n) /\ Cardinality(1..n) = n
    BY <2>1, FS_Interval
  <2> QED
    BY <2>1, <2>2, <2>3
<1>2. e \in Surjection(1..n, S)
  <2>1. e \in Injection(1..n, S)
    BY <1>1 DEF Injection, IsInjective
  <2> QED
    BY <1>1, <2>1, FS_Injection
<1> HIDE DEF n
<1>3. CASE S \cap B = {}
  <2>1. Hits(e, B) = {}
    BY <1>1, <1>3 DEF Hits
  <2> QED
    BY <1>3, <2>1, FS_EmptySet DEF Count
<1>4. CASE S \cap B # {}
  <2>1. PICK x \in S \cap B : TRUE
    BY <1>4
  <2>2. PICK k \in 1..n : e[k] = x
    BY <1>2, <2>1 DEF Surjection
  <2>3. Hits(e, B) = {k}
    BY <1>1, <2>1, <2>2 DEF Hits
  <2> QED
    BY <1>4, <2>3, FS_Singleton DEF Count
<1> QED
  BY <1>3, <1>4

\* The files still to be checked are found in what is still to visit: what leads
\* to f, what has been checked of f, whether f is being checked.
Leading(f) == {t \in Item : (t.top /\ t.node = f) \/ f \in Under(t.node) \cap Suffixed}
Filed(f)   == {r \in [file : Nodes, text : Seq(TextChars)] : r.file = f}
Inside(f)  == IF pc = "check" /\ file.node = f THEN 1 ELSE 0
Asked(f)   == Count(args, {a \in Nodes : Leads(a, f)})
Balance(f) == Count(checked, Filed(f)) + Inside(f) + Count(todo, Leading(f)) = Asked(f)

WalkInv == /\ pc = "exit" /\ missed = {} => todo = <<>>
           /\ missed = {} /\ ~vanished /\ args # <<>> => \A f \in Nodes \ Dirs : Balance(f)

\* A file leads to itself, if it is wanted, and to nothing else.
LEMMA FileLeads ==
    ASSUME NEW t \in Item, t.node \notin Dirs, NEW f \in Nodes \ Dirs
    PROVE  t \in Leading(f) <=> t.node = f /\ (t.top \/ t.node \in Suffixed)
<1>1. t.node \in Nodes \ Dirs
  BY DEF Item
<1>2. Under(t.node) = {t.node}
  BY <1>1, UnderFile
<1> QED
  BY <1>2 DEF Leading

\* A directory leads where one of its entries does, and only one.
LEMMA DirectoryLeads ==
    ASSUME NEW t \in Item, t.node \in Dirs, NEW f \in Nodes \ Dirs,
           NEW e \in SetToSeqs(Entries[t.node] \ Hidden)
    PROVE  Count([i \in DOMAIN e |-> [node |-> e[i], top |-> FALSE]], Leading(f))
           = IF t \in Leading(f) THEN 1 ELSE 0
<1> DEFINE S == Entries[t.node] \ Hidden
           B == {n \in Nodes : f \in Under(n) \cap Suffixed}
           q == [i \in DOMAIN e |-> [node |-> e[i], top |-> FALSE]]
<1>1. S \subseteq Nodes /\ IsFiniteSet(S)
  <2>1. Entries[t.node] \subseteq Nodes /\ IsFiniteSet(Entries[t.node])
    BY SpellAssumption
  <2> QED
    BY <2>1, FS_Difference
<1>2. t \in Leading(f) <=> S \cap B # {}
  <2>1. t \in Leading(f) <=> f \in Under(t.node) \cap Suffixed
    BY DEF Leading
  <2>2. f \in Under(t.node) <=> \E n \in S : f \in Under(n)
    BY UnderDirectory
  <2> QED
    BY <1>1, <2>1, <2>2
<1>3. \A x, y \in S \cap B : x = y
  BY UnderApart
<1>4. Hits(q, Leading(f)) = Hits(e, B)
  <2>1. e \in [1..Cardinality(S) -> S]
    BY DEF SetToSeqs
  <2>2. DOMAIN q = DOMAIN e
    OBVIOUS
  <2>3. ASSUME NEW i \in DOMAIN e PROVE q[i] \in Leading(f) <=> e[i] \in B
    <3>1. e[i] \in Nodes
      BY <1>1, <2>1
    <3>2. q[i] = [node |-> e[i], top |-> FALSE]
      OBVIOUS
    <3>3. q[i] \in Item /\ q[i].node = e[i] /\ q[i].top = FALSE
      BY <3>1, <3>2 DEF Item
    <3> QED
      BY <3>1, <3>3 DEF Leading
  <2> HIDE DEF q, B
  <2> QED
    BY <2>2, <2>3 DEF Hits
<1>5. Count(e, B) = IF S \cap B = {} THEN 0 ELSE 1
  <2>1. e \in SetToSeqs(S)
    OBVIOUS
  <2> HIDE DEF S, B
  <2> QED
    BY <1>1, <1>3, <2>1, CountOrder
<1> QED
  BY <1>2, <1>4, <1>5 DEF Count

\* The counts are natural numbers.
LEMMA CountTypes ==
    ASSUME TypeInv, NEW f
    PROVE  /\ Count(checked, Filed(f)) \in Nat /\ Count(todo, Leading(f)) \in Nat
           /\ Inside(f) \in {0, 1}
<1>1. checked \in Seq([file : Nodes, text : Seq(TextChars)]) /\ todo \in Seq(Item)
  BY DEF TypeInv, TypeOK
<1> QED
  BY <1>1, HitsFinite DEF Inside

\* What is taken from what is to visit counts once if it leads to f.
LEMMA HeadCounts ==
    ASSUME TypeInv, Visit, NEW f
    PROVE  /\ Entry \in Item /\ Tail(todo) \in Seq(Item)
           /\ Count(Tail(todo), Leading(f)) \in Nat
           /\ Count(todo, Leading(f)) = Count(Tail(todo), Leading(f)) + IF Entry \in Leading(f) THEN 1 ELSE 0
<1>1. todo \in Seq(Item) /\ todo # <<>>
  BY DEF TypeInv, TypeOK, Visit
<1>2. Entry \in Item /\ Tail(todo) \in Seq(Item)
  BY <1>1, HeadTailProperties DEF Entry
<1> QED
  BY <1>1, <1>2, CountEnds, HitsFinite DEF Entry

\* Each step keeps the balance: a directory hands on what it leads to,
LEMMA DirectoryBalance ==
    ASSUME TypeInv, process_directory, NEW f \in Nodes \ Dirs, Balance(f)
    PROVE  Balance(f)'
<1>1. Visit /\ Entry.node \in Dirs /\ UNCHANGED <<pc, args, file, checked>>
  BY DEF process_directory, IsDir, seen
<1>2. PICK e \in SetToSeqs(Entries[Entry.node] \ Hidden) :
          todo' = [i \in DOMAIN e |-> [node |-> e[i], top |-> FALSE]] \o Tail(todo)
  BY DEF process_directory
<1> DEFINE q == [i \in DOMAIN e |-> [node |-> e[i], top |-> FALSE]]
<1>3. /\ Entry \in Item /\ Tail(todo) \in Seq(Item)
      /\ Count(todo, Leading(f)) = Count(Tail(todo), Leading(f)) + IF Entry \in Leading(f) THEN 1 ELSE 0
      /\ Count(Tail(todo), Leading(f)) \in Nat
  BY <1>1, HeadCounts
<1>4. q \in Seq(Item)
  BY <1>1, <1>3, EntriesType
<1>5. Count(q, Leading(f)) = IF Entry \in Leading(f) THEN 1 ELSE 0
  BY <1>1, <1>3, DirectoryLeads
<1>6. Count(q \o Tail(todo), Leading(f)) = Count(q, Leading(f)) + Count(Tail(todo), Leading(f))
  BY <1>3, <1>4, CountConcat
<1>7. Count(todo', Leading(f)) = Count(todo, Leading(f))
  BY <1>2, <1>3, <1>5, <1>6
<1>8. Inside(f)' = Inside(f) /\ Asked(f)' = Asked(f) /\ Leading(f)' = Leading(f) /\ Filed(f)' = Filed(f)
  BY <1>1 DEF Inside, Asked, Leading, Filed
<1> QED
  BY <1>1, <1>7, <1>8 DEF Balance

\* what is passed over leads to no file,
LEMMA PassOverBalance ==
    ASSUME TypeInv, PassOver, NEW f \in Nodes \ Dirs, Balance(f)
    PROVE  Balance(f)'
<1>1. Visit /\ Entry.node \notin Dirs /\ ~Wanted /\ todo' = Tail(todo) /\ UNCHANGED <<pc, args, file, checked>>
  BY DEF PassOver, IsDir, seen
<1>2. /\ Entry \in Item
      /\ Count(Tail(todo), Leading(f)) \in Nat
      /\ Count(todo, Leading(f)) = Count(Tail(todo), Leading(f)) + IF Entry \in Leading(f) THEN 1 ELSE 0
  BY <1>1, HeadCounts
<1>3. Entry \notin Leading(f)
  BY <1>1, <1>2, FileLeads DEF Wanted
<1>4. Count(todo', Leading(f)) = Count(todo, Leading(f))
  BY <1>1, <1>2, <1>3
<1>5. Inside(f)' = Inside(f) /\ Asked(f)' = Asked(f) /\ Leading(f)' = Leading(f) /\ Filed(f)' = Filed(f)
  BY <1>1 DEF Inside, Asked, Leading, Filed
<1> QED
  BY <1>1, <1>4, <1>5 DEF Balance

\* a file that is opened leads to itself,
LEMMA OpenBalance ==
    ASSUME TypeInv, OpenFile, NEW f \in Nodes \ Dirs, Balance(f)
    PROVE  Balance(f)'
<1>1. /\ Visit /\ Entry.node \notin Dirs /\ Wanted /\ todo' = Tail(todo) /\ file' = Entry
      /\ pc = "next" /\ pc' = "check" /\ UNCHANGED <<args, checked>>
  BY DEF OpenFile, Visit, IsDir, seen
<1>2. /\ Entry \in Item
      /\ Count(Tail(todo), Leading(f)) \in Nat
      /\ Count(todo, Leading(f)) = Count(Tail(todo), Leading(f)) + IF Entry \in Leading(f) THEN 1 ELSE 0
  BY <1>1, HeadCounts
<1>3. Entry \in Leading(f) <=> Entry.node = f
  BY <1>1, <1>2, FileLeads DEF Wanted
<1>4. Inside(f) = 0 /\ Inside(f)' = IF Entry \in Leading(f) THEN 1 ELSE 0
  BY <1>1, <1>3 DEF Inside
<1>5. Asked(f)' = Asked(f) /\ Leading(f)' = Leading(f) /\ Filed(f)' = Filed(f)
  BY <1>1 DEF Asked, Leading, Filed
<1>6. Count(checked, Filed(f)) \in Nat
  BY CountTypes
<1> DEFINE T == Count(Tail(todo), Leading(f))
           K == Count(checked, Filed(f))
           h == IF Entry \in Leading(f) THEN 1 ELSE 0
<1>7. h \in {0, 1} /\ T \in Nat /\ K \in Nat
  BY <1>2, <1>6
<1>8. K + 0 + (T + h) = Asked(f)
  BY <1>2, <1>4 DEF Balance
<1> HIDE DEF T, K, h
<1>9. K + h + T = Asked(f)
  BY <1>7, <1>8
<1>10. Count(checked', Filed(f)) = K /\ Inside(f)' = h /\ Count(todo', Leading(f)) = T
  BY <1>1, <1>4 DEF K, h, T
<1> QED
  BY <1>5, <1>9, <1>10 DEF Balance

\* and when it is closed it has been checked.
LEMMA CloseBalance ==
    ASSUME TypeInv, CloseFile, NEW f \in Nodes \ Dirs, Balance(f)
    PROVE  Balance(f)'
<1> DEFINE R == [file : Nodes, text : Seq(TextChars)]
           e == [file |-> file.node, text |-> text]
<1>1. checked' = Append(checked, e) /\ pc = "check" /\ pc' = "next" /\ UNCHANGED <<args, todo, file>>
  BY DEF CloseFile, walk
<1>2. e \in R /\ checked \in Seq(R)
  BY <1>1 DEF TypeInv, TypeOK, TextInv, Item
<1>3. e \in Filed(f) <=> file.node = f
  BY <1>2 DEF Filed
<1> HIDE DEF e, R
<1>4. Count(checked', Filed(f)) = Count(checked, Filed(f)) + IF e \in Filed(f) THEN 1 ELSE 0
  BY <1>1, <1>2, CountEnds
<1>5. Inside(f)' = 0 /\ Inside(f) = IF e \in Filed(f) THEN 1 ELSE 0
  BY <1>1, <1>3 DEF Inside
<1>6. Asked(f)' = Asked(f) /\ Leading(f)' = Leading(f) /\ Filed(f)' = Filed(f)
  BY <1>1 DEF Asked, Leading, Filed
<1>7. Count(checked, Filed(f)) \in Nat /\ Count(todo, Leading(f)) \in Nat /\ Inside(f) \in {0, 1}
  BY CountTypes
<1>8. Count(checked', Filed(f)) = Count(checked, Filed(f)) + Inside(f) /\ Inside(f)' = 0
  BY <1>4, <1>5
<1>9. Count(checked', Filed(f)) + Inside(f)' + Count(todo, Leading(f)) = Asked(f)
  BY <1>7, <1>8 DEF Balance
<1> QED
  BY <1>1, <1>6, <1>9 DEF Balance

\* At the start what is to visit is what was asked for.
LEMMA InitBalance ==
    ASSUME Init, args # <<>>, NEW f \in Nodes \ Dirs
    PROVE  Balance(f)
<1>1. args \in Seq(Nodes) /\ todo = [i \in DOMAIN args |-> Top(args[i])]
  BY SpellAssumption DEF Init
<1>2. ASSUME NEW i \in DOMAIN args
      PROVE  todo[i] \in Leading(f) <=> args[i] \in {a \in Nodes : Leads(a, f)}
  <2>1. todo[i] = Top(args[i]) /\ args[i] \in Nodes
    BY <1>1, <1>2
  <2>2. todo[i] \in Item /\ todo[i].top /\ todo[i].node = args[i]
    BY <2>1 DEF Top, Item
  <2> QED
    BY <2>1, <2>2 DEF Leading, Leads
<1>3. DOMAIN todo = DOMAIN args
  BY <1>1
<1>4. Hits(todo, Leading(f)) = Hits(args, {a \in Nodes : Leads(a, f)})
  BY <1>2, <1>3 DEF Hits
<1>5. Count(todo, Leading(f)) = Asked(f) /\ Asked(f) \in Nat
  BY <1>1, <1>4, HitsFinite DEF Asked, Count
<1>6. Inside(f) = 0
  BY DEF Init, Inside
<1>7. Count(checked, Filed(f)) = 0
  <2>1. Hits(checked, Filed(f)) = {}
    BY DEF Init, Hits
  <2> QED
    BY <2>1, FS_EmptySet DEF Count
<1> QED
  BY <1>5, <1>6, <1>7 DEF Balance

\* Every step keeps the balance.
LEMMA WalkStep == ASSUME TypeInv, WalkInv, [Next]_vars PROVE WalkInv'
<1> USE DEF seen, walk
\* A step that leaves the walk where it is,
<1>a. ASSUME UNCHANGED <<args, todo, file, checked, missed, vanished>>,
             pc' # "exit" \/ pc = "exit" \/ todo = <<>>,
             pc' = pc \/ (pc # "check" /\ pc' # "check")
      PROVE  WalkInv'
  <2>1. ASSUME NEW f PROVE Balance(f)' <=> Balance(f)
    <3>1. /\ Inside(f)' = Inside(f) /\ Asked(f)' = Asked(f) /\ Leading(f)' = Leading(f)
          /\ Filed(f)' = Filed(f)
      BY <1>a DEF Inside, Asked, Leading, Filed
    <3> QED
      BY <1>a, <3>1 DEF Balance
  <2> QED
    BY <1>a, <2>1 DEF WalkInv
\* one that goes on, and one that has missed something.
<1>b. ASSUME UNCHANGED <<missed, vanished, args>>, pc' # "exit",
             \A f \in Nodes \ Dirs : Balance(f) => Balance(f)'
      PROVE  WalkInv'
  BY <1>b DEF WalkInv
<1>c. ASSUME missed' # {} \/ (vanished' /\ pc' # "exit")
      PROVE  WalkInv'
  BY <1>c DEF WalkInv
<1>1. CASE NoDictionary
  BY <1>1, <1>c DEF NoDictionary
<1>2. CASE OpenDictionary
  BY <1>2, <1>a DEF OpenDictionary
<1>3. ASSUME NEW n \in 1..BUFFER_SIZE, Read(n) PROVE WalkInv'
  BY <1>3, <1>a DEF Read
<1>4. ASSUME NEW c \in DictChars, LoadChar(c) PROVE WalkInv'
  BY <1>4, <1>a DEF LoadChar
<1>5. CASE Loaded
  BY <1>5, <1>a DEF Loaded
<1>6. CASE StatFails
  BY <1>6, <1>c DEF StatFails, Visit
<1>7. CASE OpenFails
  BY <1>7, <1>c DEF OpenFails
<1>8. CASE process_directory
  BY <1>8, <1>b, DirectoryBalance DEF process_directory, Visit
<1>9. CASE PassOver
  BY <1>9, <1>b, PassOverBalance DEF PassOver, Visit
<1>10. CASE OpenFile
  BY <1>10, <1>b, OpenBalance DEF OpenFile
<1>11. ASSUME NEW c \in TextChars, WordChar(c) PROVE WalkInv'
  BY <1>11, <1>a DEF WordChar
<1>12. ASSUME NEW c \in TextChars, SpaceChar(c) PROVE WalkInv'
  BY <1>12, <1>a DEF SpaceChar
<1>13. CASE CloseFile
  BY <1>13, <1>b, CloseBalance DEF CloseFile
<1>14. CASE Return
  BY <1>14, <1>a DEF Return
<1>15. CASE UNCHANGED vars
  BY <1>15, <1>a DEF vars
<1> QED BY <1>1, <1>2, <1>3, <1>4, <1>5, <1>6, <1>7, <1>8, <1>9, <1>10, <1>11, <1>12, <1>13,
           <1>14, <1>15 DEF Next, Exited

\* A run in which everything could be opened has checked each file as often as
\* its arguments lead to it: none is left out, and none is checked twice because
\* of the order readdir gives (process_directory 264-294, main 325-344).
THEOREM WalksAll == Spec => []WalkComplete
<1>1. Init => TypeInv /\ WalkInv
  BY InitType, InitBalance DEF Init, WalkInv
<1>2. TypeInv /\ WalkInv /\ [Next]_vars => (TypeInv /\ WalkInv)'
  BY TypeStep, WalkStep
<1>3. TypeInv /\ WalkInv => WalkComplete
  <2> SUFFICES ASSUME TypeInv, WalkInv, pc = "exit", missed = {}, ~vanished, args # <<>>,
                      NEW f \in Nodes \ Dirs
               PROVE  Cardinality({k \in DOMAIN checked : checked[k].file = f})
                      = Cardinality({i \in DOMAIN args : Leads(args[i], f)})
    BY DEF WalkComplete
  <2>1. Balance(f) /\ Inside(f) = 0
    BY DEF WalkInv, Inside
  <2>2. Count(todo, Leading(f)) = 0
    <3>1. Hits(todo, Leading(f)) = {}
      BY DEF WalkInv, Hits
    <3> QED
      BY <3>1, FS_EmptySet DEF Count
  <2>3. Count(checked, Filed(f)) = Asked(f)
    BY <2>1, <2>2, CountTypes DEF Balance
  <2>4. Hits(checked, Filed(f)) = {k \in DOMAIN checked : checked[k].file = f}
    <3> DEFINE R == [file : Nodes, text : Seq(TextChars)]
    <3>1. checked \in Seq(R) /\ Filed(f) = {r \in R : r.file = f}
      BY DEF TypeInv, TypeOK, Filed
    <3> HIDE DEF R
    <3>2. \A k \in DOMAIN checked : checked[k] \in R
      BY <3>1
    <3> QED
      BY <3>1, <3>2 DEF Hits
  <2>5. args \in Seq(Nodes)
    BY SpellAssumption DEF TypeInv, TypeOK
  <2>6. Hits(args, {a \in Nodes : Leads(a, f)}) = {i \in DOMAIN args : Leads(args[i], f)}
    BY <2>5 DEF Hits
  <2> QED
    BY <2>3, <2>4, <2>6 DEF Count, Asked
<1> QED BY <1>1, <1>2, <1>3, PTL DEF Spec

------------------------------------------------------------------------------
(* The reports. First how the words of a text grow as it is read.             *)

\* A further character.
LEMMA AppendAt ==
    ASSUME NEW C, NEW t \in Seq(C), NEW c \in C
    PROVE  /\ Append(t, c) \in Seq(C) /\ Len(t) \in Nat /\ Len(Append(t, c)) = Len(t) + 1
           /\ DOMAIN t = 1..Len(t) /\ DOMAIN Append(t, c) = 1..Len(t) + 1
           /\ \A i \in 1..Len(t) : Append(t, c)[i] = t[i]
           /\ Append(t, c)[Len(t) + 1] = c
BY AppendProperties

\* A part is what its characters are.
LEMMA SamePart ==
    ASSUME NEW C, NEW t \in Seq(C), NEW u \in Seq(C), NEW a \in Nat \ {0}, NEW b \in Nat,
           b <= Len(t), b <= Len(u), \A j \in a..b : t[j] = u[j]
    PROVE  SubSeq(t, a, b) = SubSeq(u, a, b)
<1>1. /\ SubSeq(t, a, b) \in Seq(C) /\ Len(SubSeq(t, a, b)) = (IF a <= b THEN b - a + 1 ELSE 0)
      /\ \A i \in 1..b - a + 1 : SubSeq(t, a, b)[i] = t[a + i - 1]
  BY SubSeqProperties
<1>2. /\ SubSeq(u, a, b) \in Seq(C) /\ Len(SubSeq(u, a, b)) = (IF a <= b THEN b - a + 1 ELSE 0)
      /\ \A i \in 1..b - a + 1 : SubSeq(u, a, b)[i] = u[a + i - 1]
  BY SubSeqProperties
<1> DEFINE x == SubSeq(t, a, b)
           y == SubSeq(u, a, b)
<1>3. ASSUME NEW i \in 1..Len(x) PROVE x[i] = y[i]
  <2>1. i \in 1..b - a + 1 /\ a + i - 1 \in a..b
    BY <1>1, <1>3
  <2> QED
    BY <1>1, <1>2, <2>1
<1>4. Len(x) = Len(y)
  BY <1>1, <1>2
<1>5. x \in Seq(C) /\ y \in Seq(C)
  BY <1>1, <1>2
<1> HIDE DEF x, y
<1>6. x = y
  BY <1>3, <1>4, <1>5, SeqEqual
<1> QED
  BY <1>6 DEF x, y

\* Where a word that begins at i is cut, if nothing ends it before e.
End(i, e) == IF e < i + MAX_WORD_LEN - 2 THEN e ELSE i + MAX_WORD_LEN - 2

\* A word goes to the first character that ends it, or is cut before.
LEMMA CutIs ==
    ASSUME NEW C, NEW t \in Seq(C), NEW E, NEW i \in 1..Len(t), NEW e \in i..Len(t),
           \A j \in i..e : t[j] \notin E, e = Len(t) \/ t[e + 1] \in E
    PROVE  Cut(t, i, E) = SubSeq(t, i, End(i, e))
<1> DEFINE J == {j \in i..Len(t) : t[j] \in E} \cup {Len(t) + 1}
           M == {Min(J) - 1, i + MAX_WORD_LEN - 2}
<1>1. Len(t) \in Nat /\ MAX_WORD_LEN \in Nat /\ MAX_WORD_LEN > 1
  BY SpellAssumption
<1>2. Min(J) = e + 1
  <2>1. J \in SUBSET Nat /\ e + 1 \in J /\ e + 1 \in Nat
    BY <1>1
  <2>2. \A j \in J : e + 1 <= j
    BY <1>1
  <2> HIDE DEF J
  <2>3. Min(J) \in J /\ \A y \in J : Min(J) <= y
    BY <2>1, MinFound
  <2>4. Min(J) <= e + 1 /\ e + 1 <= Min(J) /\ Min(J) \in Nat
    BY <2>1, <2>2, <2>3
  <2> QED
    BY <2>1, <2>4
<1>3. M = {e, i + MAX_WORD_LEN - 2}
  <2>1. (e + 1) - 1 = e
    BY <1>1
  <2> QED
    BY <1>2, <2>1
<1>4. Min(M) = End(i, e)
  <2> DEFINE b == i + MAX_WORD_LEN - 2
  <2>1. e \in Nat /\ b \in Nat
    BY <1>1
  <2> HIDE DEF b, M
  <2>2. M = {e, b}
    BY <1>3 DEF b
  <2>3. Min(M) \in M /\ \A y \in M : Min(M) <= y
    <3>1. M \in SUBSET Nat /\ M # {}
      BY <2>1, <2>2
    <3> QED
      BY <3>1, MinFound
  <2>4. (Min(M) = e \/ Min(M) = b) /\ Min(M) <= e /\ Min(M) <= b
    BY <2>2, <2>3
  <2>5. Min(M) = IF e < b THEN e ELSE b
    BY <2>1, <2>4
  <2> QED
    BY <2>5 DEF End, b
<1> QED
  BY <1>4 DEF Cut, M

\* The words that have ended.
Within(t, E) == {i \in Starts(t, E) : \E j \in i..Len(t) : t[j] \in E}

\* What has ended is cut as before.
LEMMA CutKept ==
    ASSUME NEW C, NEW t \in Seq(C), NEW E, NEW c \in C, NEW i \in Within(t, E)
    PROVE  Cut(Append(t, c), i, E) = Cut(t, i, E)
<1> DEFINE u == Append(t, c)
           J == {j \in i..Len(t) : t[j] \in E}
<1>1. /\ u \in Seq(C) /\ Len(t) \in Nat /\ Len(u) = Len(t) + 1
      /\ DOMAIN t = 1..Len(t) /\ \A k \in 1..Len(t) : u[k] = t[k]
  BY AppendAt
<1>2. i \in 1..Len(t) /\ t[i] \notin E /\ J # {} /\ J \in SUBSET Nat
  BY <1>1 DEF Within, Starts
<1>3. PICK m \in J : \A j \in J : m <= j
  BY <1>2, MinFound
<1> HIDE DEF u
<1>4. m \in i..Len(t) /\ t[m] \in E /\ m # i /\ \A j \in i..m - 1 : t[j] \notin E
  <2>1. m \in i..Len(t) /\ t[m] \in E
    BY <1>3
  <2>2. ASSUME NEW j \in i..m - 1, t[j] \in E PROVE FALSE
    <3>1. j \in J /\ j < m
      BY <1>1, <1>2, <2>1, <2>2
    <3> QED
      BY <1>1, <1>2, <1>3, <2>1, <3>1
  <2> QED
    BY <1>2, <2>1, <2>2
<1> DEFINE e == m - 1
<1>5. e \in i..Len(t) /\ e + 1 = m /\ e < Len(t) /\ e \in i..Len(u) /\ i \in 1..Len(u)
  BY <1>1, <1>2, <1>4
<1>6. Cut(t, i, E) = SubSeq(t, i, End(i, e))
  <2>1. \A j \in i..e : t[j] \notin E
    BY <1>4
  <2>2. t[e + 1] \in E
    BY <1>4, <1>5
  <2> HIDE DEF e
  <2> QED
    BY <1>2, <1>5, <2>1, <2>2, CutIs
<1>7. Cut(u, i, E) = SubSeq(u, i, End(i, e))
  <2>1. \A j \in i..e : u[j] \notin E
    BY <1>1, <1>2, <1>4
  <2>2. u[e + 1] \in E
    BY <1>1, <1>2, <1>4, <1>5
  <2> HIDE DEF e
  <2> QED
    BY <1>1, <1>5, <2>1, <2>2, CutIs
<1>8. SubSeq(t, i, End(i, e)) = SubSeq(u, i, End(i, e))
  <2> HIDE DEF e
  <2>1. End(i, e) \in Nat /\ End(i, e) <= e
    BY <1>1, <1>2, <1>5, SpellAssumption DEF End
  <2>2. End(i, e) <= Len(t) /\ End(i, e) <= Len(u) /\ i \in Nat \ {0}
    BY <1>1, <1>2, <1>5, <2>1
  <2>3. \A j \in i..End(i, e) : t[j] = u[j]
    BY <1>1, <1>2, <2>1, <2>2
  <2> QED
    BY <1>1, <2>1, <2>2, <2>3, SamePart
<1> QED
  BY <1>6, <1>7, <1>8 DEF u

\* A character begins a word if it ends none and comes after one that does,
LEMMA StartsGrow ==
    ASSUME NEW C, NEW t \in Seq(C), NEW E, NEW c \in C
    PROVE  Starts(Append(t, c), E)
           = Starts(t, E) \cup IF c \notin E /\ (t = <<>> \/ t[Len(t)] \in E) THEN {Len(t) + 1} ELSE {}
<1> DEFINE u == Append(t, c)
           n == Len(t)
<1>1. /\ n \in Nat /\ DOMAIN t = 1..n /\ DOMAIN u = 1..n + 1
      /\ \A k \in 1..n : u[k] = t[k]
      /\ u[n + 1] = c
  BY AppendAt
<1>2. t = <<>> <=> n = 0
  OBVIOUS
<1> HIDE DEF u, n
<1>3. ASSUME NEW i \in 1..n PROVE i \in Starts(u, E) <=> i \in Starts(t, E)
  <2>1. i \in 1..n + 1 /\ (i # 1 => i - 1 \in 1..n)
    BY <1>1
  <2> QED
    BY <1>1, <2>1 DEF Starts
<1>4. n + 1 \in Starts(u, E) <=> c \notin E /\ (n = 0 \/ t[n] \in E)
  <2>1. n + 1 \in 1..n + 1 /\ (n + 1 = 1 <=> n = 0) /\ (n + 1) - 1 = n /\ (n # 0 => n \in 1..n)
    BY <1>1
  <2> QED
    BY <1>1, <2>1 DEF Starts
<1>5. Starts(u, E) \subseteq 1..n + 1 /\ Starts(t, E) \subseteq 1..n /\ 1..n + 1 = (1..n) \cup {n + 1}
  BY <1>1 DEF Starts
<1>6. n + 1 \notin 1..n
  BY <1>1
<1>7. Starts(u, E) = Starts(t, E) \cup IF c \notin E /\ (n = 0 \/ t[n] \in E) THEN {n + 1} ELSE {}
  BY <1>3, <1>4, <1>5, <1>6
<1> QED
  BY <1>2, <1>7 DEF u, n

\* and ends all that have begun, or none.
LEMMA WithinGrow ==
    ASSUME NEW C, NEW t \in Seq(C), NEW E, NEW c \in C
    PROVE  Within(Append(t, c), E) = IF c \in E THEN Starts(t, E) ELSE Within(t, E)
<1> DEFINE u == Append(t, c)
           n == Len(t)
<1>1. /\ n \in Nat /\ DOMAIN t = 1..n /\ Len(u) = n + 1
      /\ \A k \in 1..n : u[k] = t[k]
      /\ u[n + 1] = c
  BY AppendAt
<1>2. Starts(u, E) = Starts(t, E) \cup IF c \notin E /\ (t = <<>> \/ t[n] \in E) THEN {n + 1} ELSE {}
  BY StartsGrow
<1> HIDE DEF u, n
<1>3. Starts(t, E) \subseteq 1..n
  BY <1>1 DEF Starts
<1>4. CASE c \in E
  <2>1. Starts(u, E) = Starts(t, E)
    BY <1>2, <1>4
  <2>2. ASSUME NEW i \in Starts(t, E) PROVE \E j \in i..Len(u) : u[j] \in E
    <3>1. n + 1 \in i..Len(u)
      BY <1>1, <1>3, <2>2
    <3> QED
      BY <1>1, <1>4, <3>1
  <2> QED
    BY <1>4, <2>1, <2>2 DEF Within, u
<1>5. CASE c \notin E
  <2>1. ASSUME NEW i \in Within(u, E) PROVE i \in Within(t, E)
    <3>1. PICK j \in i..n + 1 : u[j] \in E
      BY <1>1 DEF Within
    <3>2. i \in Starts(u, E)
      BY DEF Within
    <3>3. j # n + 1
      BY <1>1, <1>5, <3>1
    <3>4. i \in Starts(t, E)
      <4>1. i \in Starts(t, E) \/ i = n + 1
        BY <1>2, <3>2
      <4>2. i # n + 1
        BY <1>1, <3>1, <3>3
      <4> QED
        BY <4>1, <4>2
    <3>5. j \in i..n /\ j \in 1..n
      BY <1>1, <1>3, <3>1, <3>3, <3>4
    <3> QED
      BY <1>1, <3>1, <3>4, <3>5 DEF Within, n
  <2>2. ASSUME NEW i \in Within(t, E) PROVE i \in Within(u, E)
    <3>1. i \in Starts(t, E) /\ \E j \in i..n : t[j] \in E
      BY DEF Within, n
    <3>2. PICK j \in i..n : t[j] \in E
      BY <3>1
    <3>3. j \in 1..n /\ j \in i..Len(u)
      BY <1>1, <1>3, <3>1
    <3>4. i \in Starts(u, E)
      BY <1>2, <3>1
    <3> QED
      BY <1>1, <3>2, <3>3, <3>4 DEF Within
  <2> QED
    BY <1>5, <2>1, <2>2 DEF u
<1> QED
  BY <1>4, <1>5

\* The word that is being read is what has been read since it began, or as much
\* as it holds.
Current(t, E, w, i) == /\ \A j \in i..Len(t) : t[j] \notin E
                       /\ w = SubSeq(t, i, End(i, Len(t)))
Scanned(t, E, w) == IF w = <<>> THEN t = <<>> \/ t[Len(t)] \in E
                    ELSE \E i \in Starts(t, E) : Current(t, E, w, i)

\* With no word begun, all have ended;
LEMMA NoneOpen ==
    ASSUME NEW C, NEW t \in Seq(C), NEW E, Scanned(t, E, <<>>)
    PROVE  Within(t, E) = Starts(t, E)
<1>1. Len(t) \in Nat /\ DOMAIN t = 1..Len(t)
  OBVIOUS
<1>2. ASSUME NEW i \in Starts(t, E) PROVE \E j \in i..Len(t) : t[j] \in E
  <2>1. i \in 1..Len(t)
    BY <1>1 DEF Starts
  <2>2. t # <<>>
    BY <2>1
  <2>3. t[Len(t)] \in E /\ Len(t) \in i..Len(t)
    BY <1>1, <2>1, <2>2 DEF Scanned
  <2> QED
    BY <2>3
<1> QED
  BY <1>2 DEF Within

\* with one begun, all others have, and they are before it.
LEMMA OneOpen ==
    ASSUME NEW C, NEW t \in Seq(C), NEW E, NEW w, NEW i \in Starts(t, E), Current(t, E, w, i)
    PROVE  /\ Starts(t, E) = Within(t, E) \cup {i} /\ i \notin Within(t, E)
           /\ \A j \in Within(t, E) : j < i
           /\ w = Cut(t, i, E) /\ w \in Seq(C) /\ w # <<>>
<1>1. Len(t) \in Nat /\ DOMAIN t = 1..Len(t) /\ i \in 1..Len(t) /\ Starts(t, E) \subseteq 1..Len(t)
  BY DEF Starts
<1>2. i \notin Within(t, E)
  BY DEF Within, Current
<1>3. ASSUME NEW k \in Starts(t, E), k # i PROVE k < i /\ k \in Within(t, E)
  <2>1. ~(k > i)
    <3> SUFFICES ASSUME k > i PROVE FALSE
      OBVIOUS
    <3>1. k - 1 \in i..Len(t) /\ k # 1 /\ k \in 1..Len(t)
      BY <1>1
    <3>2. t[k - 1] \in E
      BY <3>1 DEF Starts
    <3> QED
      BY <3>1, <3>2 DEF Current
  <2>2. k < i /\ k \in 1..Len(t)
    BY <1>1, <1>3, <2>1
  <2>3. i # 1 /\ i - 1 \in k..Len(t)
    BY <1>1, <2>2
  <2>4. t[i - 1] \in E
    BY <2>3 DEF Starts
  <2> QED
    BY <2>2, <2>3, <2>4 DEF Within
<1>4. w = Cut(t, i, E)
  <2>1. Len(t) \in i..Len(t)
    BY <1>1
  <2> QED
    BY <1>1, <2>1, CutIs DEF Current
<1>5. w \in Seq(C) /\ Len(w) >= 1
  <2>1. End(i, Len(t)) \in Nat /\ i <= End(i, Len(t)) /\ End(i, Len(t)) <= Len(t)
    BY <1>1, SpellAssumption DEF End
  <2> DEFINE e == End(i, Len(t))
  <2> HIDE DEF e
  <2>2. e \in Nat /\ i <= e /\ e <= Len(t)
    BY <2>1 DEF e
  <2>3. \A j \in i..e : t[j] \in C
    BY <1>1, <2>2
  <2>4. SubSeq(t, i, e) \in Seq(C) /\ Len(SubSeq(t, i, e)) = e - i + 1
    BY <1>1, <2>2, <2>3, SubSeqProperties
  <2>5. w = SubSeq(t, i, e)
    BY DEF Current, e
  <2> QED
    BY <1>1, <2>2, <2>4, <2>5
<1>6. Within(t, E) \subseteq Starts(t, E)
  BY DEF Within
<1> QED
  BY <1>2, <1>3, <1>4, <1>5, <1>6

\* A character that ends no word goes on with the one that is being read, or
\* begins one.
LEMMA WordGrows ==
    ASSUME NEW C, NEW t \in Seq(C), NEW E, NEW c \in C, c \notin E, Scanned(t, E, word)
    PROVE  /\ Scanned(Append(t, c), E, Longer(c)) /\ Longer(c) # <<>>
           /\ word = <<>> => Current(Append(t, c), E, Longer(c), Len(t) + 1)
           /\ \A i \in Starts(t, E) :
                 word # <<>> /\ Current(t, E, word, i) => Current(Append(t, c), E, Longer(c), i)
<1> DEFINE u == Append(t, c)
           n == Len(t)
<1>1. /\ u \in Seq(C) /\ n \in Nat /\ DOMAIN t = 1..n /\ Len(u) = n + 1 /\ DOMAIN u = 1..n + 1
      /\ \A k \in 1..n : u[k] = t[k]
      /\ u[n + 1] = c
  BY AppendAt
<1>2. Starts(u, E) = Starts(t, E) \cup IF t = <<>> \/ t[n] \in E THEN {n + 1} ELSE {}
  BY StartsGrow
<1> HIDE DEF u, n
<1>3. MAX_WORD_LEN \in Nat /\ MAX_WORD_LEN > 1
  BY SpellAssumption
<1>4. CASE word = <<>>
  <2>1. Longer(c) = <<c>>
    BY <1>3, <1>4 DEF Longer
  <2>2. n + 1 \in Starts(u, E)
    BY <1>2, <1>4 DEF Scanned, n
  <2>3. End(n + 1, Len(u)) = n + 1
    BY <1>1, <1>3 DEF End
  <2>4. SubSeq(u, n + 1, n + 1) = <<c>>
    <3>1. \A j \in n + 1..n + 1 : u[j] \in C
      BY <1>1
    <3>2. /\ SubSeq(u, n + 1, n + 1) \in Seq(C) /\ Len(SubSeq(u, n + 1, n + 1)) = 1
          /\ SubSeq(u, n + 1, n + 1)[1] = u[n + 1 + 1 - 1]
      BY <1>1, <3>1, SubSeqProperties
    <3>3. n + 1 + 1 - 1 = n + 1
      BY <1>1
    <3>4. SubSeq(u, n + 1, n + 1)[1] = c
      BY <1>1, <3>2, <3>3
    <3> DEFINE x == SubSeq(u, n + 1, n + 1)
    <3>5. x \in Seq(C) /\ Len(x) = 1 /\ x[1] = c
      BY <3>2, <3>4
    <3> HIDE DEF x
    <3>6. x = <<c>>
      BY <3>5
    <3> QED
      BY <3>6 DEF x
  <2>5. \A j \in n + 1..Len(u) : u[j] \notin E
    BY <1>1
  <2>6. Current(u, E, Longer(c), n + 1)
    BY <2>1, <2>3, <2>4, <2>5 DEF Current
  <2>7. Longer(c) # <<>>
    BY <2>1
  <2> QED
    BY <1>4, <2>2, <2>6, <2>7 DEF Scanned, u, n
<1>5. ASSUME word # <<>>, NEW i \in Starts(t, E), Current(t, E, word, i)
      PROVE  Current(u, E, Longer(c), i) /\ Longer(c) # <<>>
  <2>1. i \in 1..n
    BY <1>1 DEF Starts
  <2>2. \A j \in i..Len(u) : u[j] \notin E
    <3> SUFFICES ASSUME NEW j \in i..Len(u) PROVE u[j] \notin E
      OBVIOUS
    <3>1. CASE j = n + 1
      BY <1>1, <3>1
    <3>2. CASE j # n + 1
      <4>1. j \in 1..n /\ j \in i..n
        BY <1>1, <2>1, <3>2
      <4> QED
        BY <1>1, <1>5, <4>1 DEF Current, n
    <3> QED
      BY <3>1, <3>2
  <2>3. word = SubSeq(t, i, End(i, n))
    BY <1>5 DEF Current, n
  <2> DEFINE e == End(i, n)
  <2>4. /\ e \in Nat /\ i <= e /\ e <= n /\ (e < i + MAX_WORD_LEN - 2 => e = n)
        /\ e <= i + MAX_WORD_LEN - 2
    BY <1>1, <1>3, <2>1 DEF End
  <2> HIDE DEF e
  <2>5. /\ SubSeq(t, i, e) = SubSeq(u, i, e)
    <3>1. \A j \in i..e : t[j] = u[j]
      BY <1>1, <2>1, <2>4
    <3>2. i \in Nat \ {0} /\ e <= n /\ e <= Len(u)
      BY <1>1, <2>1, <2>4
    <3>3. e <= Len(t)
      BY <3>2 DEF n
    <3> QED
      BY <1>1, <2>4, <3>1, <3>2, <3>3, SamePart
  <2>6. SubSeq(t, i, e) \in Seq(C) /\ Len(SubSeq(t, i, e)) = e - i + 1
    <3>1. \A j \in i..e : t[j] \in C
      BY <1>1, <2>1, <2>4
    <3> QED
      BY <2>1, <2>4, <3>1, SubSeqProperties
  <2>7. word = SubSeq(u, i, e) /\ Len(word) = e - i + 1 /\ word \in Seq(C)
    BY <2>3, <2>5, <2>6 DEF e
  <2>8. CASE e < i + MAX_WORD_LEN - 2
    <3>1. e = n /\ End(i, Len(u)) = n + 1
      BY <1>1, <1>3, <2>1, <2>4, <2>8 DEF End
    <3>2. Longer(c) = Append(word, c)
      BY <1>3, <2>1, <2>4, <2>7, <2>8 DEF Longer
    <3>3. Append(word, c) = SubSeq(u, i, n + 1)
      <4>1. i \in 1..Len(u) /\ n + 1 \in i..Len(u) /\ (n + 1) - 1 = n
        BY <1>1, <2>1
      <4>2. SubSeq(u, i, n + 1) = SubSeq(u, i, n) \o <<u[n + 1]>>
        BY <1>1, <4>1, SubSeqRecursiveSecond
      <4>3. Append(word, c) = word \o <<c>>
        BY <2>7, AppendIsConcat
      <4> QED
        BY <1>1, <2>7, <3>1, <4>2, <4>3
    <3>4. Append(word, c) # <<>>
      <4>1. word \in Seq(C)
        BY <2>7
      <4> DEFINE v == Append(word, c)
                 m == Len(word)
      <4>2. Len(v) = m + 1 /\ m \in Nat
        BY <4>1, AppendAt
      <4> HIDE DEF v, m
      <4>3. Len(v) # 0
        BY <4>2
      <4>4. v # <<>>
        BY <4>3
      <4> QED
        BY <4>4 DEF v
    <3> QED
      BY <2>2, <3>1, <3>2, <3>3, <3>4 DEF Current
  <2>9. CASE ~(e < i + MAX_WORD_LEN - 2)
    <3>1. End(i, Len(u)) = e
      BY <1>1, <1>3, <2>1, <2>4, <2>9 DEF End
    <3>2. Longer(c) = word
      <4>1. ~(Len(word) < MAX_WORD_LEN - 1)
        BY <1>3, <2>1, <2>4, <2>7, <2>9
      <4> QED
        BY <4>1 DEF Longer
    <3> QED
      BY <1>5, <2>2, <2>7, <3>1, <3>2 DEF Current
  <2> QED
    BY <2>8, <2>9
<1>6. CASE word # <<>>
  <2>1. PICK i \in Starts(t, E) : Current(t, E, word, i)
    BY <1>6 DEF Scanned
  <2>2. i \in Starts(u, E) /\ Current(u, E, Longer(c), i) /\ Longer(c) # <<>>
    BY <1>2, <1>5, <1>6, <2>1
  <2> QED
    BY <1>5, <1>6, <2>2 DEF Scanned, u
<1> QED
  BY <1>4, <1>6

\* The character that ends a word leaves none that is being read.
LEMMA WordEnds ==
    ASSUME NEW C, NEW t \in Seq(C), NEW E, NEW c \in C, c \in E
    PROVE  /\ Scanned(Append(t, c), E, <<>>)
           /\ \A i \in Starts(t, E) : \A w : Current(t, E, w, i) => Cut(Append(t, c), i, E) = w
<1> DEFINE u == Append(t, c)
           n == Len(t)
<1>1. /\ u \in Seq(C) /\ n \in Nat /\ DOMAIN t = 1..n /\ Len(u) = n + 1
      /\ \A k \in 1..n : u[k] = t[k]
      /\ u[n + 1] = c
  BY AppendAt
<1> HIDE DEF u, n
<1>2. Scanned(u, E, <<>>)
  BY <1>1 DEF Scanned
<1>3. ASSUME NEW i \in Starts(t, E), NEW w, Current(t, E, w, i) PROVE Cut(u, i, E) = w
  <2>1. i \in 1..n
    BY <1>1 DEF Starts
  <2>2. /\ \A j \in i..n : t[j] \notin E
        /\ w = SubSeq(t, i, End(i, n))
    BY <1>3 DEF Current, n
  <2>3. Cut(u, i, E) = SubSeq(u, i, End(i, n))
    <3>1. \A j \in i..n : u[j] \notin E
      BY <1>1, <2>1, <2>2
    <3>2. i \in 1..Len(u) /\ n \in i..Len(u) /\ u[n + 1] \in E
      BY <1>1, <2>1
    <3> QED
      BY <1>1, <3>1, <3>2, CutIs
  <2>4. SubSeq(t, i, End(i, n)) = SubSeq(u, i, End(i, n))
    <3>1. End(i, n) \in Nat /\ End(i, n) <= n
      BY <1>1, <2>1, SpellAssumption DEF End
    <3>2. i \in Nat \ {0} /\ End(i, n) <= Len(t) /\ End(i, n) <= Len(u)
      BY <1>1, <2>1, <3>1 DEF n
    <3>3. \A j \in i..End(i, n) : t[j] = u[j]
      BY <1>1, <2>1, <3>1
    <3> QED
      BY <1>1, <3>1, <3>2, <3>3, SamePart
  <2> QED
    BY <2>2, <2>3, <2>4
<1> QED
  BY <1>2, <1>3 DEF u

\* The words of a text, as those that have ended and the one that is being read.
Parts(t, E, I) == {Cut(t, i, E) : i \in I}

\* In the end they are all words.
LEMMA PartsAll ==
    ASSUME NEW C, NEW t \in Seq(C), NEW E, NEW w, Scanned(t, E, w)
    PROVE  Parts(t, E, Starts(t, E)) = Parts(t, E, Within(t, E)) \cup IF w # <<>> THEN {w} ELSE {}
<1>1. CASE w = <<>>
  BY <1>1, NoneOpen
<1>2. CASE w # <<>>
  <2>1. PICK i \in Starts(t, E) : Current(t, E, w, i)
    BY <1>2 DEF Scanned
  <2>2. Starts(t, E) = Within(t, E) \cup {i} /\ w = Cut(t, i, E)
    BY <2>1, OneOpen
  <2> QED
    BY <1>2, <2>2 DEF Parts
<1> QED
  BY <1>1, <1>2

\* A further character may end the one.
LEMMA PartsGrow ==
    ASSUME NEW C, NEW t \in Seq(C), NEW E, NEW c \in C, NEW w, Scanned(t, E, w)
    PROVE  Parts(Append(t, c), E, Within(Append(t, c), E))
           = Parts(t, E, Within(t, E)) \cup IF c \in E /\ w # <<>> THEN {w} ELSE {}
<1> DEFINE u == Append(t, c)
           I == Within(t, E)
<1>1. \A i \in I : Cut(u, i, E) = Cut(t, i, E)
  BY CutKept
<1>2. Within(u, E) = IF c \in E THEN Starts(t, E) ELSE I
  BY WithinGrow
<1>3. CASE c \notin E \/ w = <<>>
  <2>1. w = <<>> => Starts(t, E) = I
    BY NoneOpen
  <2> HIDE DEF I, u
  <2>2. Within(u, E) = I
    BY <1>2, <1>3, <2>1
  <2> QED
    BY <1>1, <1>3, <2>2 DEF Parts, u, I
<1>4. CASE c \in E /\ w # <<>>
  <2>1. PICK i \in Starts(t, E) : Current(t, E, w, i)
    BY <1>4 DEF Scanned
  <2>2. Starts(t, E) = I \cup {i}
    BY <2>1, OneOpen
  <2>3. Cut(u, i, E) = w
    BY <1>4, <2>1, WordEnds
  <2> HIDE DEF I, u
  <2>4. Within(u, E) = I \cup {i}
    BY <1>2, <1>4, <2>2
  <2>5. Parts(u, E, I \cup {i}) = Parts(t, E, I) \cup {w}
    BY <1>1, <2>3 DEF Parts
  <2> QED
    BY <1>4, <2>4, <2>5 DEF u, I
<1> QED
  BY <1>3, <1>4

\* The hash table and the words that were put into it.
Stores(D, W) == /\ DOMAIN D = {to_lower(d) : d \in W}
                /\ \A l \in DOMAIN D : D[l] <=> \E d \in W : to_lower(d) = l /\ isupper(d[1])

\* dict_add puts a word into it.
LEMMA AddStores ==
    ASSUME NEW W, NEW w, Stores(dictionary, W)
    PROVE  Stores(dict_add(w), W \cup {w})
<1> DEFINE D == dict_add(w)
           lower == to_lower(w)
<1>1. /\ DOMAIN D = DOMAIN dictionary \cup {lower}
      /\ \A d \in DOMAIN D : D[d] = (\/ d \in DOMAIN dictionary /\ dictionary[d]
                                     \/ d = lower /\ isupper(w[1]))
  BY DEF dict_add
<1>2. DOMAIN D = {to_lower(d) : d \in W \cup {w}}
  BY <1>1 DEF Stores
<1>3. ASSUME NEW l \in DOMAIN D
      PROVE  D[l] <=> \E d \in W \cup {w} : to_lower(d) = l /\ isupper(d[1])
  <2>1. l \in DOMAIN dictionary => (dictionary[l] <=> \E d \in W : to_lower(d) = l /\ isupper(d[1]))
    BY DEF Stores
  <2>2. l \notin DOMAIN dictionary => ~\E d \in W : to_lower(d) = l
    BY DEF Stores
  <2> HIDE DEF D
  <2>3. D[l] <=> \/ l \in DOMAIN dictionary /\ dictionary[l]
                 \/ l = lower /\ isupper(w[1])
    BY <1>1
  <2> QED
    BY <2>1, <2>2, <2>3
<1> QED
  BY <1>2, <1>3 DEF Stores

\* It holds the words of the dictionary that have been read, then all of them.
DictInv == /\ pc \in {"start", "load"} =>
                 /\ Scanned(text, {"newline"}, word)
                 /\ Stores(dictionary, Parts(text, {"newline"}, Within(text, {"newline"})))
           /\ pc \in {"next", "check"} => Stores(dictionary, dict_words)

\* Nothing begins in an empty text.
LEMMA EmptyText == ASSUME NEW E PROVE Scanned(<<>>, E, <<>>) /\ Starts(<<>>, E) = {} /\ Within(<<>>, E) = {}
BY DEF Scanned, Starts, Within

\* Every step keeps it.
LEMMA DictStep == ASSUME TypeInv, DictInv, [Next]_vars PROVE DictInv'
<1> USE DEF result, walk, place
<1> DEFINE N == {"newline"}
           W == Parts(text, N, Within(text, N))
<1>a. ASSUME dictionary' = Added, Stores(dictionary, W)
      PROVE  Stores(dictionary', W \cup IF word # <<>> THEN {word} ELSE {})
  <2>1. CASE word = <<>>
    BY <1>a, <2>1 DEF Added
  <2>2. CASE word # <<>>
    <3>1. Stores(dict_add(word), W \cup {word})
      BY <1>a, AddStores
    <3> QED
      BY <1>a, <2>2, <3>1 DEF Added
  <2> QED
    BY <2>1, <2>2
<1>1. CASE NoDictionary
  BY <1>1 DEF NoDictionary, DictInv
<1>2. CASE OpenDictionary
  BY <1>2 DEF OpenDictionary, DictInv
<1>3. ASSUME NEW n \in 1..BUFFER_SIZE, Read(n) PROVE DictInv'
  BY <1>3 DEF Read, DictInv
<1>4. ASSUME NEW c \in DictChars, LoadChar(c) PROVE DictInv'
  <2>1. /\ pc = "load" /\ pc' = "load" /\ text \in Seq(DictChars) /\ text' = Append(text, c)
        /\ Scanned(text, N, word) /\ Stores(dictionary, W)
    BY <1>4 DEF LoadChar, TypeInv, TextInv, DictInv
  <2>2. Parts(text', N, Within(text', N)) = W \cup IF c \in N /\ word # <<>> THEN {word} ELSE {}
    BY <2>1, PartsGrow
  <2>3. CASE c = "newline"
    <3>1. dictionary' = Added /\ word' = <<>> /\ c \in N
      BY <1>4, <2>3 DEF LoadChar
    <3>2. Scanned(text', N, word')
      BY <2>1, <3>1, WordEnds
    <3>3. Stores(dictionary', W \cup IF word # <<>> THEN {word} ELSE {})
      BY <1>a, <2>1, <3>1
    <3> QED
      BY <2>1, <2>2, <3>1, <3>2, <3>3 DEF DictInv
  <2>4. CASE c # "newline"
    <3>1. word' = Longer(c) /\ dictionary' = dictionary /\ c \notin N
      BY <1>4, <2>4 DEF LoadChar
    <3>2. Scanned(text', N, word')
      BY <2>1, <3>1, WordGrows
    <3> QED
      BY <2>1, <2>2, <3>1, <3>2 DEF DictInv
  <2> QED
    BY <2>3, <2>4
<1>5. CASE Loaded
  <2>1. /\ pc = "load" /\ pc' = "next" /\ text \in Seq(DictChars) /\ dictionary' = Added
        /\ Scanned(text, N, word) /\ Stores(dictionary, W)
        /\ dict_words' = Parts(text, N, Starts(text, N))
    BY <1>5 DEF Loaded, TypeInv, TextInv, DictInv, Parts
  <2>3. dict_words' = W \cup IF word # <<>> THEN {word} ELSE {}
    BY <2>1, PartsAll
  <2>4. Stores(dictionary', W \cup IF word # <<>> THEN {word} ELSE {})
    BY <1>a, <2>1
  <2> QED
    BY <2>1, <2>3, <2>4 DEF DictInv
<1>6. CASE StatFails
  BY <1>6 DEF StatFails, Visit, DictInv
<1>7. CASE OpenFails
  BY <1>7 DEF OpenFails, Visit, DictInv
<1>8. CASE process_directory
  BY <1>8 DEF process_directory, Visit, DictInv
<1>9. CASE PassOver
  BY <1>9 DEF PassOver, Visit, DictInv
<1>10. CASE OpenFile
  BY <1>10 DEF OpenFile, Visit, DictInv
<1>11. ASSUME NEW c \in TextChars, WordChar(c) PROVE DictInv'
  BY <1>11 DEF WordChar, DictInv
<1>12. ASSUME NEW c \in TextChars, SpaceChar(c) PROVE DictInv'
  BY <1>12 DEF SpaceChar, DictInv
<1>13. CASE CloseFile
  BY <1>13 DEF CloseFile, DictInv
<1>14. CASE Return
  BY <1>14 DEF Return, DictInv
<1>15. CASE UNCHANGED vars
  BY <1>15 DEF vars, DictInv
<1> QED BY <1>1, <1>2, <1>3, <1>4, <1>5, <1>6, <1>7, <1>8, <1>9, <1>10, <1>11, <1>12, <1>13,
           <1>14, <1>15 DEF Next, Exited

\* What dict_lookup finds is what is known.
LEMMA LookupKnown ==
    ASSUME Stores(dictionary, dict_words), NEW w
    PROVE  dict_lookup(w) <=> Known(w)
<1> DEFINE l == to_lower(w)
           forms == {d \in dict_words : to_lower(d) = l}
<1>1. l \in DOMAIN dictionary <=> forms # {}
  BY DEF Stores
<1>2. l \in DOMAIN dictionary => (dictionary[l] <=> \E d \in forms : isupper(d[1]))
  BY DEF Stores
<1> HIDE DEF l, forms
<1>3. dict_lookup(w) <=> l \in DOMAIN dictionary /\ (dictionary[l] => isupper(w[1]))
  BY DEF dict_lookup, l
<1>4. Known(w) <=> forms # {} /\ ((\E d \in forms : isupper(d[1])) => isupper(w[1]))
  BY DEF Known, forms, l
<1> QED
  BY <1>1, <1>2, <1>3, <1>4

\* normalize_word leaves out what it should.
LEMMA Normalized ==
    ASSUME NEW u \in Seq(Char), NEW j \in DOMAIN u, isalpha(u[j])
    PROVE  /\ normalize_word(u) # <<>>
           /\ Misspelt(u) = {w \in {normalize_word(u)} : ~Known(w)}
<1> DEFINE L == {i \in DOMAIN u : u[i] # "("} \cup {Len(u) + 1}
           H == {i \in DOMAIN u : isalnum(u[i])} \cup {0}
           a == Min(L)
           b == Max(H)
           Fits(q) == /\ \A k \in 1..q[1]-1 : u[k] = "("
                      /\ u[q[1]] # "(" /\ isalnum(u[q[2]])
                      /\ \A k \in q[2]+1..Len(u) : ~isalnum(u[k])
           Q == {q \in (DOMAIN u) \X (DOMAIN u) : Fits(q)}
<1>1. Len(u) \in Nat /\ DOMAIN u = 1..Len(u) /\ j \in 1..Len(u) /\ isalnum(u[j]) /\ \A i \in DOMAIN u : isalnum(u[i]) => u[i] # "("
  BY DEF isalpha, isalnum
<1>2. a \in L /\ \A i \in L : a <= i
  <2>1. L \in SUBSET Nat /\ L # {}
    BY <1>1
  <2> QED
    BY <2>1, MinFound
<1>3. b \in H /\ \A i \in H : b >= i
  <2>1. H \in SUBSET (0..Len(u)) /\ H # {}
    BY <1>1
  <2> QED
    BY <1>1, <2>1, MaxFound
<1> HIDE DEF a, b
<1>4. b \in 1..Len(u) /\ isalnum(u[b]) /\ \A k \in b+1..Len(u) : ~isalnum(u[k])
  <2>1. j \in H
    BY <1>1
  <2>2. b \in 1..Len(u) /\ isalnum(u[b])
    <3>1. b >= j /\ b \in H
      BY <1>3, <2>1
    <3>2. b # 0
      BY <1>1, <3>1
    <3> QED
      BY <1>1, <3>1, <3>2
  <2>3. ASSUME NEW k \in b+1..Len(u), isalnum(u[k]) PROVE FALSE
    <3>1. k \in H /\ k > b /\ k \in Nat /\ b \in Nat
      BY <1>1, <2>2, <2>3
    <3>2. b >= k
      BY <1>3, <3>1
    <3> QED
      BY <3>1, <3>2
  <2> QED
    BY <2>2, <2>3
<1>5. a \in 1..b /\ u[a] # "(" /\ \A k \in 1..a-1 : u[k] = "("
  <2>1. b \in L
    BY <1>1, <1>4
  <2>2. a <= b /\ a \in 1..Len(u) /\ u[a] # "("
    BY <1>1, <1>2, <1>4, <2>1
  <2>3. ASSUME NEW k \in 1..a-1, u[k] # "(" PROVE FALSE
    <3>1. k \in L /\ k < a /\ k \in Nat /\ a \in Nat
      BY <1>1, <2>2, <2>3
    <3>2. a <= k
      BY <1>2, <3>1
    <3> QED
      BY <3>1, <3>2
  <2> QED
    BY <1>4, <2>2, <2>3
<1>6. normalize_word(u) = SubSeq(u, a, b)
  BY DEF normalize_word, a, b
<1> HIDE DEF L, H
<1>7. <<a, b>> \in Q
  <2>1. <<a, b>>[1] = a /\ <<a, b>>[2] = b /\ a \in DOMAIN u /\ b \in DOMAIN u
    BY <1>1, <1>4, <1>5
  <2> QED
    BY <1>4, <1>5, <2>1
<1>8. ASSUME NEW q \in Q PROVE q = <<a, b>>
  <2>1. q[1] \in 1..Len(u) /\ q[2] \in 1..Len(u) /\ q = <<q[1], q[2]>> /\ Fits(q)
    BY <1>1
  <2>2. ~(q[1] < a) /\ ~(a < q[1])
    BY <1>1, <1>4, <1>5, <2>1
  <2>3. ~(q[2] < b) /\ ~(b < q[2])
    BY <1>1, <1>4, <2>1
  <2>4. q[1] = a /\ q[2] = b
    BY <1>4, <1>5, <2>1, <2>2, <2>3
  <2> QED
    BY <2>1, <2>4
<1>9. {SubSeq(u, p[1], p[2]) : p \in Q} = {SubSeq(u, a, b)}
  <2>1. Q = {<<a, b>>}
    BY <1>7, <1>8
  <2> HIDE DEF Q
  <2> QED
    BY <2>1
<1>10. Misspelt(u) = {w \in {SubSeq(u, a, b)} : ~Known(w)}
  <2>1. Misspelt(u) = {w \in {SubSeq(u, p[1], p[2]) : p \in Q} : (\E k \in DOMAIN u : isalpha(u[k])) /\ ~Known(w)}
    BY DEF Misspelt
  <2> HIDE DEF Q
  <2> QED
    BY <1>9, <2>1
<1>11. SubSeq(u, a, b) # <<>>
  <2>1. Len(SubSeq(u, a, b)) = b - a + 1
    <3>1. \A k \in a..b : u[k] \in Char
      BY <1>1, <1>4, <1>5
    <3> QED
      BY <1>1, <1>4, <1>5, <3>1, SubSeqProperties
  <2>2. b - a + 1 # 0 /\ Len(<<>>) = 0
    BY <1>1, <1>4, <1>5
  <2> QED
    BY <2>1, <2>2
<1> QED
  BY <1>6, <1>10, <1>11

\* A word is reported if it is misspelt, and as what it is.
LEMMA ReportRight ==
    ASSUME word \in Seq(Char), Stores(dictionary, dict_words)
    PROVE  \/ Report = <<>> /\ Misspelt(word) = {}
           \/ /\ Report = <<[named |-> print_filename, file |-> file.node, line |-> line,
                             col |-> word_col, word |-> normalize_word(word)]>>
              /\ normalize_word(word) \in Misspelt(word)
<1>1. CASE should_skip_word(word)
  BY <1>1 DEF should_skip_word, Report, Misspelt
<1>2. CASE ~should_skip_word(word)
  <2>1. /\ normalize_word(word) # <<>>
        /\ Misspelt(word) = {w \in {normalize_word(word)} : ~Known(w)}
    BY <1>2, Normalized DEF should_skip_word
  <2>2. dict_lookup(normalize_word(word)) <=> Known(normalize_word(word))
    BY LookupKnown
  <2> QED
    BY <1>2, <2>1, <2>2 DEF Report
<1> QED
  BY <1>1, <1>2

\* The reports so far stand where their places come among those of the words
\* that have ended.
Ranks(F, s, R) == /\ IsFiniteSet(F) /\ Len(s) = Cardinality(F)
                  /\ \A p \in F : s[Cardinality({q \in F : Precedes(q, p)}) + 1] \in R[p]

\* A further one comes last.
LEMMA RankAdd ==
    ASSUME NEW F, F \subseteq Nat \X Nat, NEW A, NEW s \in Seq(A), NEW R, Ranks(F, s, R),
           NEW z \in Nat \X Nat, z \notin F, \A q \in F : Precedes(q, z),
           NEW r \in A, r \in R[z]
    PROVE  Ranks(F \cup {z}, Append(s, r), R)
<1> DEFINE G == F \cup {z}
           n == Cardinality(F)
           t == Append(s, r)
           B(X, p) == {q \in X : Precedes(q, p)}
<1>1. /\ n \in Nat /\ Len(s) = n /\ IsFiniteSet(F)
      /\ Len(t) = n + 1 /\ t[n + 1] = r /\ \A i \in 1..n : t[i] = s[i]
  BY FS_CardinalityType, AppendProperties DEF Ranks
<1>2. IsFiniteSet(G) /\ Cardinality(G) = n + 1
  BY <1>1, FS_AddElement
<1>3. \A p \in F : z[1] \in Nat /\ z[2] \in Nat /\ p[1] \in Nat /\ p[2] \in Nat
  OBVIOUS
<1>4. ASSUME NEW p \in F PROVE t[Cardinality(B(G, p)) + 1] \in R[p]
  <2>1. ~Precedes(z, p) /\ ~Precedes(p, p)
    BY <1>3 DEF Precedes
  <2>2. B(G, p) = B(F, p)
    BY <2>1
  <2>3. Cardinality(B(F, p)) + 1 \in 1..n
    <3>1. B(F, p) \in SUBSET F /\ B(F, p) # F
      BY <2>1
    <3>2. Cardinality(B(F, p)) <= n /\ Cardinality(B(F, p)) # n /\ IsFiniteSet(B(F, p))
      BY <1>1, <3>1, FS_Subset
    <3>3. Cardinality(B(F, p)) \in Nat
      BY <3>2, FS_CardinalityType
    <3> QED
      BY <1>1, <3>2, <3>3
  <2>4. s[Cardinality(B(F, p)) + 1] \in R[p]
    BY DEF Ranks
  <2> HIDE DEF B, t, n, G
  <2> QED
    BY <1>1, <2>2, <2>3, <2>4
<1>5. t[Cardinality(B(G, z)) + 1] \in R[z]
  <2>1. ~Precedes(z, z)
    <3>1. z[1] \in Nat /\ z[2] \in Nat
      OBVIOUS
    <3> QED
      BY <3>1 DEF Precedes
  <2>2. B(G, z) = F
    BY <2>1
  <2> QED
    BY <1>1, <2>2
<1> HIDE DEF t
<1>6. \A p \in G : t[Cardinality({q \in G : Precedes(q, p)}) + 1] \in R[p]
  BY <1>4, <1>5
<1> HIDE DEF G
<1> QED
  BY <1>1, <1>2, <1>6 DEF Ranks, G, t

\* Line and column, as the text is read.
LEMMA LinesFinite ==
    ASSUME NEW t, NEW i \in Nat
    PROVE  /\ IsFiniteSet(Newlines(t, i)) /\ Newlines(t, i) \in SUBSET (1..i - 1)
           /\ Max(Newlines(t, i) \cup {0}) \in 0..i /\ LineAt(t, i) \in Nat
<1>1. Newlines(t, i) \in SUBSET (1..i - 1) /\ IsFiniteSet(1..i - 1)
  BY FS_Interval DEF Newlines
<1>2. IsFiniteSet(Newlines(t, i)) /\ Cardinality(Newlines(t, i)) \in Nat
  BY <1>1, FS_Subset, FS_CardinalityType
<1>3. Max(Newlines(t, i) \cup {0}) \in 0..i
  <2>1. Newlines(t, i) \cup {0} \in SUBSET (0..i) /\ Newlines(t, i) \cup {0} # {}
    BY <1>1
  <2> QED
    BY <2>1, MaxFound
<1> QED
  BY <1>1, <1>2, <1>3 DEF LineAt

\* The place of a character depends on what is before it.
LEMMA PlaceKept ==
    ASSUME NEW C, NEW t \in Seq(C), NEW c \in C, NEW i \in 1..Len(t) + 1
    PROVE  /\ LineAt(Append(t, c), i) = LineAt(t, i) /\ ColAt(Append(t, c), i) = ColAt(t, i)
<1>1. \A j \in 1..i - 1 : Append(t, c)[j] = t[j]
  <2>1. Len(t) \in Nat /\ \A j \in 1..Len(t) : Append(t, c)[j] = t[j]
    BY AppendAt
  <2> QED
    BY <2>1
<1>2. Newlines(Append(t, c), i) = Newlines(t, i)
  BY <1>1 DEF Newlines
<1> QED
  BY <1>2 DEF LineAt, ColAt

\* A newline begins a line, any other character goes on with it.
LEMMA PlaceNext ==
    ASSUME NEW C, NEW t \in Seq(C), NEW c \in C
    PROVE  /\ LineAt(Append(t, c), Len(t) + 2)
              = IF c = "newline" THEN LineAt(t, Len(t) + 1) + 1 ELSE LineAt(t, Len(t) + 1)
           /\ ColAt(Append(t, c), Len(t) + 2) = IF c = "newline" THEN 1 ELSE ColAt(t, Len(t) + 1) + 1
<1> DEFINE n == Len(t)
           u == Append(t, c)
           O == Newlines(t, n + 1)
           K == Newlines(u, n + 2)
<1>1. n \in Nat /\ (\A j \in 1..n : u[j] = t[j]) /\ u[n + 1] = c
  BY AppendAt
<1>2. n + 1 \in Nat /\ n + 2 \in Nat /\ (n + 1) - 1 = n /\ (n + 2) - 1 = n + 1
  BY <1>1
<1>3. IsFiniteSet(O) /\ O \in SUBSET (1..n) /\ Max(O \cup {0}) \in 0..n + 1 /\ LineAt(t, n + 1) \in Nat
  <2>1. /\ IsFiniteSet(O) /\ O \in SUBSET (1..(n + 1) - 1)
        /\ Max(O \cup {0}) \in 0..n + 1 /\ LineAt(t, n + 1) \in Nat
    BY <1>2, LinesFinite
  <2> QED
    BY <1>2, <2>1
<1>4. K = O \cup IF c = "newline" THEN {n + 1} ELSE {}
  <2>1. K = {j \in 1..n + 1 : u[j] = "newline"}
    BY <1>2 DEF Newlines
  <2>2. O = {j \in 1..n : t[j] = "newline"}
    BY <1>2 DEF Newlines
  <2>3. 1..n + 1 = (1..n) \cup {n + 1} /\ n + 1 \notin 1..n
    BY <1>1
  <2> HIDE DEF K, O, u, n
  <2> QED
    BY <1>1, <2>1, <2>2, <2>3
<1> HIDE DEF O, K, u
<1>5. CASE c = "newline"
  <2>1. K = O \cup {n + 1} /\ n + 1 \notin O
    BY <1>1, <1>3, <1>4, <1>5
  <2>2. Cardinality(K) = Cardinality(O) + 1 /\ Cardinality(O) \in Nat
    BY <1>3, <2>1, FS_AddElement, FS_CardinalityType
  <2>3. Max(K \cup {0}) = n + 1
    <3>1. K \cup {0} \in SUBSET (0..n + 1) /\ K \cup {0} # {} /\ n + 1 \in K \cup {0}
      <4>1. n \in Nat /\ O \in SUBSET (1..n) /\ K = O \cup {n + 1}
        BY <1>1, <1>3, <2>1
      <4> HIDE DEF n
      <4>2. 0 \in 0..n + 1 /\ n + 1 \in 0..n + 1 /\ 1..n \subseteq 0..n + 1
        BY <4>1
      <4> QED
        BY <4>1, <4>2
    <3>2. Max(K \cup {0}) \in K \cup {0} /\ Max(K \cup {0}) >= n + 1
      BY <1>2, <3>1, MaxFound
    <3>3. Max(K \cup {0}) \in 0..n + 1
      BY <3>1, <3>2
    <3> QED
      BY <1>1, <3>2, <3>3
  <2>4. LineAt(u, n + 2) = 1 + Cardinality(K) /\ LineAt(t, n + 1) = 1 + Cardinality(O)
    BY DEF LineAt, K, O
  <2>5. ColAt(u, n + 2) = (n + 2) - Max(K \cup {0})
    BY DEF ColAt, K
  <2>6. LineAt(u, n + 2) = LineAt(t, n + 1) + 1 /\ ColAt(u, n + 2) = 1
    BY <1>1, <2>2, <2>3, <2>4, <2>5
  <2> QED
    BY <1>5, <2>6 DEF u
<1>6. CASE c # "newline"
  <2>1. K = O
    BY <1>4, <1>6
  <2>2. LineAt(u, n + 2) = LineAt(t, n + 1)
    BY <2>1 DEF LineAt, K, O
  <2>3. ColAt(u, n + 2) = (n + 2) - Max(O \cup {0}) /\ ColAt(t, n + 1) = (n + 1) - Max(O \cup {0})
    BY <2>1 DEF ColAt, K, O
  <2>4. ColAt(u, n + 2) = ColAt(t, n + 1) + 1
    <3> DEFINE m == Max(O \cup {0})
    <3>1. m \in Nat
      BY <1>3
    <3> HIDE DEF m
    <3>2. ColAt(u, n + 2) = (n + 2) - m /\ ColAt(t, n + 1) = (n + 1) - m
      BY <2>3 DEF m
    <3> QED
      BY <1>1, <3>1, <3>2
  <2> QED
    BY <1>6, <2>2, <2>4 DEF u
<1> QED
  BY <1>5, <1>6

\* A word is on one line.
LEMMA LineOfWord ==
    ASSUME NEW C, NEW t \in Seq(C), NEW w, NEW i \in Starts(t, Space), Current(t, Space, w, i)
    PROVE  LineAt(t, i) = LineAt(t, Len(t) + 1)
<1>1. Len(t) \in Nat /\ i \in 1..Len(t) /\ \A j \in i..Len(t) : t[j] # "newline"
  <2>1. Len(t) \in Nat /\ DOMAIN t = 1..Len(t)
    OBVIOUS
  <2>2. i \in DOMAIN t
    BY DEF Starts
  <2>3. \A j \in i..Len(t) : t[j] \notin Space
    BY DEF Current
  <2>4. "newline" \in Space
    BY DEF Space
  <2> QED
    BY <2>1, <2>2, <2>3, <2>4
<1>2. Newlines(t, Len(t) + 1) = Newlines(t, i)
  <2> DEFINE n == Len(t)
  <2>1. n \in Nat /\ i \in 1..n /\ (n + 1) - 1 = n /\ \A j \in i..n : t[j] # "newline"
    BY <1>1
  <2> HIDE DEF n
  <2>2. \A j \in 1..n : t[j] = "newline" => j \in 1..i - 1
    BY <2>1
  <2>3. 1..i - 1 \subseteq 1..n
    BY <2>1
  <2>4. Newlines(t, n + 1) = Newlines(t, i)
    BY <2>1, <2>2, <2>3 DEF Newlines
  <2> QED
    BY <2>4 DEF n
<1> QED
  BY <1>2 DEF LineAt

\* The k-th text and its file, the last being the one that is read; the reports
\* that are right for a place; the places of the words that have ended.
TextAt(k) == IF k <= Len(checked) THEN checked[k].text ELSE text
FileAt(k) == IF k <= Len(checked) THEN checked[k].file ELSE file.node
Rep == [named : BOOLEAN, file : Nodes, line : Nat, col : Nat, word : Seq(Char)]
RightAt(p) == {r \in Rep : /\ r.file = FileAt(p[1])
                           /\ r.line = LineAt(TextAt(p[1]), p[2])
                           /\ r.col = ColAt(TextAt(p[1]), p[2])
                           /\ r.word \in Misspelt(Cut(TextAt(p[1]), p[2], Space))}
Rights == [p \in Nat \X Nat |-> RightAt(p)]
Open   == {Len(checked) + 1} \X (IF pc = "check" THEN Faults(text) \cap Within(text, Space) ELSE {})
Found  == Places \cup Open

\* Line, column and word are those of what has been read.
PlaceInv == pc = "check" =>
    /\ Scanned(text, Space, word)
    /\ line = LineAt(text, Len(text) + 1) /\ col = ColAt(text, Len(text) + 1)
    /\ word # <<>> => \A i \in Starts(text, Space) : Current(text, Space, word, i) => word_col = ColAt(text, i)

ReportInv == /\ pc \in {"start", "load"} => checked = <<>>
             /\ PlaceInv
             /\ Ranks(Found, printed, Rights)

\* Places are pairs of positions.
LEMMA PlacesType ==
    ASSUME TypeInv
    PROVE  /\ Places \subseteq (1..Len(checked)) \X Nat /\ Len(checked) \in Nat
           /\ Faults(text) \subseteq Starts(text, Space) /\ Starts(text, Space) \subseteq 1..Len(text)
           /\ Len(text) \in Nat
<1>1. ASSUME NEW k \in DOMAIN checked PROVE Faults(checked[k].text) \subseteq Nat
  <2>1. checked[k].text \in Seq(TextChars)
    <3> DEFINE R == [file : Nodes, text : Seq(TextChars)]
    <3>1. checked \in Seq(R)
      BY DEF TypeInv, TypeOK
    <3> HIDE DEF R
    <3>2. checked[k] \in R
      BY <3>1
    <3> QED
      BY <3>2 DEF R
  <2>2. DOMAIN checked[k].text \subseteq Nat
    BY <2>1
  <2> QED
    BY <2>2 DEF Faults, Starts
<1>2. DOMAIN checked = 1..Len(checked) /\ Len(checked) \in Nat
  BY DEF TypeInv, TypeOK
<1>3. DOMAIN text = 1..Len(text) /\ Len(text) \in Nat
  BY DEF TypeInv, TypeOK
<1>4. Places \subseteq (1..Len(checked)) \X Nat
  BY <1>1, <1>2 DEF Places
<1> QED
  BY <1>2, <1>3, <1>4 DEF Faults, Starts

\* When the word that is being read has ended and been looked at, all that have
\* begun are accounted for.
LEMMA AddFault ==
    ASSUME TypeInv, ReportInv, DictInv, pc = "check", Checked
    PROVE  Ranks(Places \cup ({Len(checked) + 1} \X Faults(text)), printed', Rights)
<1> DEFINE K == Len(checked) + 1
           I == Within(text, Space)
           F == Faults(text)
<1>1. /\ text \in Seq(TextChars) /\ word \in Seq(Char) /\ printed \in Seq(Rep)
      /\ Scanned(text, Space, word) /\ Stores(dictionary, dict_words) /\ Ranks(Found, printed, Rights)
      /\ Found = Places \cup ({K} \X (F \cap I))
  BY DEF TypeInv, TypeOK, TextInv, ReportInv, PlaceInv, DictInv, Found, Open, Rep
<1>2. /\ Places \subseteq (1..Len(checked)) \X Nat /\ Len(checked) \in Nat
      /\ F \subseteq Starts(text, Space) /\ Starts(text, Space) \subseteq 1..Len(text) /\ Len(text) \in Nat
  BY PlacesType
<1>3. CASE word = <<>>
  <2>1. I = Starts(text, Space)
    BY <1>1, <1>3, NoneOpen
  <2>2. F \cap I = F
    BY <1>2, <2>1
  <2>3. printed' = printed
    BY <1>3 DEF Checked
  <2> QED
    BY <1>1, <2>2, <2>3
<1>4. CASE word # <<>>
  <2>1. PICK i \in Starts(text, Space) : Current(text, Space, word, i)
    BY <1>1, <1>4 DEF Scanned
  <2>2. /\ Starts(text, Space) = I \cup {i} /\ i \notin I /\ (\A j \in I : j < i)
        /\ word = Cut(text, i, Space)
    BY <1>1, <2>1, OneOpen
  <2>3. i \in F <=> Misspelt(word) # {}
    BY <2>2 DEF Faults
  <2>4. printed' = printed \o Report
    BY <1>4 DEF Checked
  <2>5. CASE Report = <<>> /\ Misspelt(word) = {}
    <3>1. F \cap I = F
      BY <1>2, <2>2, <2>3, <2>5
    <3>2. printed' = printed
      BY <1>1, <2>4, <2>5
    <3> QED
      BY <1>1, <3>1, <3>2
  <2> DEFINE e == [named |-> print_filename, file |-> file.node, line |-> line,
                   col |-> word_col, word |-> normalize_word(word)]
             z == <<K, i>>
  <2>6. CASE Report = <<e>> /\ normalize_word(word) \in Misspelt(word)
    <3>1. F = (F \cap I) \cup {i}
      BY <1>2, <2>2, <2>3, <2>6
    <3>2. Places \cup ({K} \X F) = Found \cup {z}
      <4> HIDE DEF F, I, K
      <4> QED
        BY <1>1, <3>1
    <3>3. z \in Nat \X Nat /\ i \in Nat /\ K \in Nat
      BY <1>2
    <3>4. Found \subseteq Nat \X Nat /\ z \notin Found /\ \A q \in Found : Precedes(q, z)
      <4>1. ASSUME NEW q \in Found PROVE q \in Nat \X Nat /\ q # z /\ Precedes(q, z)
        <5>1. CASE q \in Places
          <6>1. q \in Nat \X Nat /\ q[1] < K
            BY <1>2, <5>1
          <6> QED
            BY <3>3, <6>1 DEF Precedes
        <5>2. CASE q \in {K} \X (F \cap I)
          <6>1. q[1] = K /\ q[2] \in I /\ q[2] < i /\ q = <<q[1], q[2]>>
            BY <2>2, <5>2
          <6>2. q[2] \in Nat
            BY <1>2, <2>2, <6>1
          <6> QED
            BY <3>3, <6>1, <6>2 DEF Precedes
        <5> QED
          BY <1>1, <5>1, <5>2
      <4> QED
        BY <4>1
    <3>5. e \in Rep
      <4>1. print_filename \in BOOLEAN /\ file.node \in Nodes /\ line \in Nat /\ word_col \in Nat
        BY DEF TypeInv, TypeOK, Item, print_filename
      <4>2. normalize_word(word) \in Seq(Char)
        BY <1>1, NormalizedType
      <4> QED
        BY <4>1, <4>2 DEF Rep
    <3>6. e \in Rights[z]
      <4>1. TextAt(K) = text /\ FileAt(K) = file.node
        BY <1>2 DEF TextAt, FileAt
      <4>2. line = LineAt(text, i)
        BY <1>1, <2>1, LineOfWord DEF ReportInv, PlaceInv
      <4>3. word_col = ColAt(text, i)
        BY <1>4, <2>1 DEF ReportInv, PlaceInv
      <4>4. e \in RightAt(z)
        BY <2>2, <2>6, <3>5, <4>1, <4>2, <4>3 DEF RightAt
      <4> QED
        BY <3>3, <4>4 DEF Rights
    <3>7. printed' = Append(printed, e)
      <4> HIDE DEF e
      <4> QED
        BY <1>1, <2>4, <2>6, <3>5, AppendIsConcat
    <3> HIDE DEF z, e
    <3>8. Ranks(Found \cup {z}, Append(printed, e), Rights)
      BY <1>1, <3>3, <3>4, <3>5, <3>6, RankAdd
    <3> QED
      BY <3>2, <3>7, <3>8
  <2> QED
    BY <1>1, <2>5, <2>6, ReportRight
<1> QED
  BY <1>3, <1>4

\* Ranks depends on the right reports of the places it is about.
LEMMA RanksSame ==
    ASSUME NEW F, NEW s, NEW R, NEW S, Ranks(F, s, R), \A p \in F : R[p] = S[p]
    PROVE  Ranks(F, s, S)
BY DEF Ranks

\* What is right for a file that has been checked stays so.
LEMMA RightsKept ==
    ASSUME TypeInv, UNCHANGED <<checked, dict_words>>, NEW p \in Places
    PROVE  Rights'[p] = Rights[p]
<1>1. p \in Nat \X Nat /\ p[1] \in Nat /\ p[1] <= Len(checked)
  BY PlacesType
<1>2. TextAt(p[1])' = TextAt(p[1]) /\ FileAt(p[1])' = FileAt(p[1])
  BY <1>1 DEF TextAt, FileAt
<1>3. RightAt(p)' = RightAt(p)
  BY <1>2 DEF RightAt, Misspelt, Known, Rep
<1>4. Rights[p] = RightAt(p) /\ Rights'[p] = RightAt(p)'
  BY <1>1 DEF Rights
<1> QED
  BY <1>3, <1>4

\* What is right for a word of the text that is read stays so while its cut does.
LEMMA RightsHere ==
    ASSUME TypeInv, pc = "check", NEW c \in TextChars, text' = Append(text, c),
           UNCHANGED <<checked, dict_words, file>>,
           NEW i \in Starts(text, Space), Cut(text', i, Space) = Cut(text, i, Space)
    PROVE  /\ Rights'[<<Len(checked) + 1, i>>] = Rights[<<Len(checked) + 1, i>>]
           /\ i \in Faults(text)' <=> i \in Faults(text)
<1> DEFINE K == Len(checked) + 1
           z == <<K, i>>
<1>1. /\ text \in Seq(TextChars) /\ Len(text) \in Nat /\ i \in 1..Len(text) /\ Len(checked) \in Nat
  BY PlacesType DEF TypeInv, TextInv
<1>2. /\ z \in Nat \X Nat /\ z[1] = K /\ z[2] = i /\ ~(K <= Len(checked))
  BY <1>1
<1>3. i \in Starts(text', Space)
  BY <1>1, StartsGrow
<1>4. LineAt(text', i) = LineAt(text, i) /\ ColAt(text', i) = ColAt(text, i)
  BY <1>1, PlaceKept
<1>5. Misspelt(Cut(text, i, Space))' = Misspelt(Cut(text, i, Space))
  BY DEF Misspelt, Known
<1>6. /\ TextAt(K) = text /\ FileAt(K) = file.node /\ TextAt(K)' = text' /\ FileAt(K)' = file.node
  BY <1>2 DEF TextAt, FileAt
<1>7. RightAt(z)' = RightAt(z)
  <2>1. ASSUME NEW r PROVE r \in RightAt(z) <=> r \in RightAt(z)'
    BY <1>2, <1>4, <1>5, <1>6 DEF RightAt, Rep
  <2>2. RightAt(z) \subseteq Rep /\ RightAt(z)' \subseteq Rep
    BY DEF RightAt, Rep
  <2> QED
    BY <2>1, <2>2
<1>8. Rights[z] = RightAt(z) /\ Rights'[z] = RightAt(z)'
  BY <1>2 DEF Rights
<1>9. i \in Faults(text)' <=> i \in Faults(text)
  BY <1>3, <1>5 DEF Faults
<1> QED
  BY <1>7, <1>8, <1>9

\* A character that ends no word changes nothing of what is reported,
LEMMA WordCharReport ==
    ASSUME TypeInv, ReportInv, NEW c \in TextChars, WordChar(c)
    PROVE  ReportInv'
<1> DEFINE n == Len(text)
           K == Len(checked) + 1
<1>1. /\ pc = "check" /\ pc' = "check" /\ c \notin Space /\ text' = Append(text, c)
      /\ word' = Longer(c) /\ col' = col + 1 /\ line' = line
      /\ word_col' = IF word = <<>> THEN col ELSE word_col
      /\ UNCHANGED <<checked, dict_words, file, printed>>
  BY DEF WordChar, isspace, walk, result, seen
<1>2. /\ text \in Seq(TextChars) /\ Scanned(text, Space, word) /\ n \in Nat
      /\ line = LineAt(text, n + 1) /\ col = ColAt(text, n + 1)
      /\ word # <<>> => \A i \in Starts(text, Space) : Current(text, Space, word, i) => word_col = ColAt(text, i)
  BY <1>1 DEF ReportInv, PlaceInv, TypeInv, TextInv
<1>3. /\ Scanned(text', Space, word') /\ word' # <<>>
      /\ word = <<>> => Current(text', Space, word', n + 1)
      /\ \A i \in Starts(text, Space) :
            word # <<>> /\ Current(text, Space, word, i) => Current(text', Space, word', i)
  BY <1>1, <1>2, WordGrows
<1>4. text' \in Seq(TextChars) /\ Len(text') = n + 1 /\ Len(text') + 1 = n + 2
  BY <1>1, <1>2, AppendAt
<1>5. /\ Starts(text', Space) = Starts(text, Space) \cup
                                IF text = <<>> \/ text[n] \in Space THEN {n + 1} ELSE {}
      /\ Within(text', Space) = Within(text, Space)
  BY <1>1, <1>2, StartsGrow, WithinGrow
<1>6. line' = LineAt(text', Len(text') + 1) /\ col' = ColAt(text', Len(text') + 1)
  <2>1. c # "newline"
    BY <1>1 DEF Space
  <2>2. LineAt(text', n + 2) = LineAt(text, n + 1) /\ ColAt(text', n + 2) = ColAt(text, n + 1) + 1
    BY <1>1, <1>2, <2>1, PlaceNext
  <2> QED
    BY <1>1, <1>2, <1>4, <2>2
<1>7. ASSUME NEW i \in Starts(text', Space), Current(text', Space, word', i)
      PROVE  word_col' = ColAt(text', i)
  <2>1. ASSUME NEW j \in Starts(text', Space), Current(text', Space, word', j) PROVE j = i
    BY <1>4, <1>7, <2>1, OneOpen
  <2>2. CASE word = <<>>
    <3>1. n + 1 \in Starts(text', Space)
      BY <1>2, <1>5, <2>2 DEF Scanned
    <3>2. i = n + 1
      BY <1>3, <2>1, <2>2, <3>1
    <3>3. ColAt(text', n + 1) = ColAt(text, n + 1)
      <4>1. n + 1 \in 1..Len(text) + 1
        BY <1>2
      <4> QED
        BY <1>1, <1>2, <4>1, PlaceKept
    <3> QED
      BY <1>1, <1>2, <2>2, <3>2, <3>3
  <2>3. CASE word # <<>>
    <3>1. PICK j \in Starts(text, Space) : Current(text, Space, word, j)
      BY <1>2, <2>3 DEF Scanned
    <3>2. j = i
      BY <1>3, <1>5, <2>1, <2>3, <3>1
    <3>3. ColAt(text', j) = ColAt(text, j)
      <4>1. j \in 1..Len(text) + 1
        BY <1>2, PlacesType
      <4> QED
        BY <1>1, <1>2, <4>1, PlaceKept
    <3> QED
      BY <1>1, <1>2, <2>3, <3>1, <3>2, <3>3
  <2> QED
    BY <2>2, <2>3
<1>8. ASSUME NEW i \in Within(text, Space)
      PROVE  Rights'[<<K, i>>] = Rights[<<K, i>>] /\ (i \in Faults(text)' <=> i \in Faults(text))
  <2>1. i \in Starts(text, Space)
    BY DEF Within
  <2>2. Cut(text', i, Space) = Cut(text, i, Space)
    BY <1>1, <1>2, CutKept
  <2> QED
    BY <1>1, <2>1, <2>2, RightsHere
<1>9. Found' = Found
  <2>1. Places' = Places
    BY <1>1 DEF Places, Faults, Misspelt, Known
  <2>2. Faults(text)' \cap Within(text', Space) = Faults(text) \cap Within(text, Space)
    BY <1>5, <1>8
  <2>3. Open' = Open
    BY <1>1, <2>2 DEF Open
  <2> QED
    BY <2>1, <2>3 DEF Found
<1>10. ASSUME NEW p \in Found PROVE Rights[p] = Rights'[p]
  <2>1. CASE p \in Places
    BY <1>1, <2>1, RightsKept
  <2>2. CASE p \in Open
    <3>1. PICK i \in Within(text, Space) : p = <<K, i>>
      BY <1>1, <2>2 DEF Open
    <3> QED
      BY <1>8, <3>1
  <2> QED
    BY <2>1, <2>2 DEF Found
<1>11. Ranks(Found', printed', Rights')
  BY <1>1, <1>9, <1>10, RanksSame DEF ReportInv
<1>12. PlaceInv'
  BY <1>3, <1>6, <1>7 DEF PlaceInv
<1> QED
  BY <1>1, <1>11, <1>12 DEF ReportInv

\* one that ends a word reports it if it should be,
LEMMA SpaceCharReport ==
    ASSUME TypeInv, ReportInv, DictInv, NEW c \in TextChars, SpaceChar(c)
    PROVE  ReportInv'
<1> DEFINE n == Len(text)
           K == Len(checked) + 1
<1>1. /\ pc = "check" /\ pc' = "check" /\ c \in Space /\ text' = Append(text, c) /\ Checked
      /\ word' = <<>>
      /\ line' = IF c = "newline" THEN line + 1 ELSE line
      /\ col' = IF c = "newline" THEN 1 ELSE col + 1
      /\ UNCHANGED <<checked, dict_words, file>>
  BY DEF SpaceChar, isspace, walk, seen
<1>2. /\ text \in Seq(TextChars) /\ Scanned(text, Space, word) /\ n \in Nat
      /\ line = LineAt(text, n + 1) /\ col = ColAt(text, n + 1)
  BY <1>1 DEF ReportInv, PlaceInv, TypeInv, TextInv
<1>3. Scanned(text', Space, word')
  BY <1>1, <1>2, WordEnds
<1>4. Len(text') + 1 = n + 2
  BY <1>1, <1>2, AppendAt
<1>5. Within(text', Space) = Starts(text, Space) /\ Starts(text', Space) = Starts(text, Space)
  <2>1. Starts(text', Space) = Starts(text, Space)
    <3> DEFINE first == text = <<>> \/ text[n] \in Space
               more  == IF c \notin Space /\ first THEN {n + 1} ELSE {}
    <3>1. Starts(Append(text, c), Space) = Starts(text, Space) \cup more
      BY <1>2, StartsGrow
    <3>2. more = {}
      BY <1>1
    <3> HIDE DEF more
    <3> QED
      BY <1>1, <3>1, <3>2
  <2>2. Within(text', Space) = Starts(text, Space)
    BY <1>1, <1>2, WithinGrow
  <2> QED
    BY <2>1, <2>2
<1>6. line' = LineAt(text', Len(text') + 1) /\ col' = ColAt(text', Len(text') + 1)
  <2>1. /\ LineAt(text', n + 2) = IF c = "newline" THEN LineAt(text, n + 1) + 1 ELSE LineAt(text, n + 1)
        /\ ColAt(text', n + 2) = IF c = "newline" THEN 1 ELSE ColAt(text, n + 1) + 1
    BY <1>1, <1>2, PlaceNext
  <2> QED
    BY <1>1, <1>2, <1>4, <2>1
<1>7. ASSUME NEW i \in Starts(text, Space) PROVE Cut(text', i, Space) = Cut(text, i, Space)
  <2>1. CASE i \in Within(text, Space)
    BY <1>1, <1>2, <2>1, CutKept
  <2>2. CASE i \notin Within(text, Space)
    <3>1. word # <<>>
      BY <1>2, <2>2, NoneOpen
    <3>2. PICK j \in Starts(text, Space) : Current(text, Space, word, j)
      BY <1>2, <3>1 DEF Scanned
    <3>3. i = j /\ word = Cut(text, i, Space)
      BY <1>2, <2>2, <3>2, OneOpen
    <3> QED
      BY <1>1, <1>2, <3>2, <3>3, WordEnds
  <2> QED
    BY <2>1, <2>2
<1>8. ASSUME NEW i \in Starts(text, Space)
      PROVE  Rights'[<<K, i>>] = Rights[<<K, i>>] /\ (i \in Faults(text)' <=> i \in Faults(text))
  BY <1>1, <1>7, RightsHere
<1>9. Found' = Places \cup ({K} \X Faults(text))
  <2>1. Places' = Places
    BY <1>1 DEF Places, Faults, Misspelt, Known
  <2>2. Faults(text)' \subseteq Starts(text', Space) /\ Faults(text) \subseteq Starts(text, Space)
    BY DEF Faults
  <2>3. Faults(text)' \cap Within(text', Space) = Faults(text)
    BY <1>5, <1>8, <2>2
  <2>4. Open' = {K} \X Faults(text)
    BY <1>1, <2>3 DEF Open
  <2> QED
    BY <2>1, <2>4 DEF Found
<1>10. ASSUME NEW p \in Places \cup ({K} \X Faults(text)) PROVE Rights[p] = Rights'[p]
  <2>1. CASE p \in Places
    BY <1>1, <2>1, RightsKept
  <2>2. CASE p \in {K} \X Faults(text)
    <3>1. PICK i \in Faults(text) : p = <<K, i>>
      BY <2>2
    <3>2. i \in Starts(text, Space)
      BY DEF Faults
    <3> QED
      BY <1>8, <3>1, <3>2
  <2> QED
    BY <2>1, <2>2
<1>11. Ranks(Places \cup ({K} \X Faults(text)), printed', Rights)
  BY <1>1, AddFault
<1>12. Ranks(Found', printed', Rights')
  BY <1>9, <1>10, <1>11, RanksSame
<1>13. PlaceInv'
  BY <1>1, <1>3, <1>6 DEF PlaceInv
<1> QED
  BY <1>1, <1>12, <1>13 DEF ReportInv

\* and so does the end of the file.
LEMMA CloseFileReport == ASSUME TypeInv, ReportInv, DictInv, CloseFile PROVE ReportInv'
<1> DEFINE K == Len(checked) + 1
           R == [file : Nodes, text : Seq(TextChars)]
           e == [file |-> file.node, text |-> text]
<1>1. /\ pc = "check" /\ pc' = "next" /\ checked' = Append(checked, e) /\ Checked
      /\ UNCHANGED <<dict_words, file, text>>
  BY DEF CloseFile, walk
<1>2. checked \in Seq(R) /\ e \in R /\ text \in Seq(TextChars)
  BY <1>1 DEF TypeInv, TypeOK, TextInv, Item
<1>3. e.text = text /\ e.file = file.node
  OBVIOUS
<1> HIDE DEF R, e
<1>4. /\ Len(checked) \in Nat /\ Len(checked') = K /\ checked'[K] = e
      /\ \A k \in 1..Len(checked) : checked'[k] = checked[k]
  BY <1>1, <1>2, AppendAt
<1>5. DOMAIN checked = 1..Len(checked) /\ DOMAIN checked' = 1..K
  BY <1>1, <1>2, <1>4
<1>6. Places' = Places \cup ({K} \X Faults(text))
  <2>1. Places' = UNION {{k} \X Faults(checked'[k].text) : k \in DOMAIN checked'}
    BY <1>1 DEF Places, Faults, Misspelt, Known
  <2>2. DOMAIN checked' = (DOMAIN checked) \cup {K}
    BY <1>4, <1>5
  <2>3. \A k \in DOMAIN checked : {k} \X Faults(checked'[k].text) = {k} \X Faults(checked[k].text)
    BY <1>4, <1>5
  <2>4. {K} \X Faults(checked'[K].text) = {K} \X Faults(text)
    BY <1>3, <1>4
  <2> HIDE DEF K
  <2>5. UNION {{k} \X Faults(checked'[k].text) : k \in (DOMAIN checked) \cup {K}}
        = (UNION {{k} \X Faults(checked'[k].text) : k \in DOMAIN checked})
          \cup ({K} \X Faults(checked'[K].text))
    <3> DEFINE G(k) == {k} \X Faults(checked'[k].text)
    <3> HIDE DEF G
    <3>1. UNION {G(k) : k \in (DOMAIN checked) \cup {K}}
          = (UNION {G(k) : k \in DOMAIN checked}) \cup G(K)
      OBVIOUS
    <3> QED
      BY <3>1 DEF G
  <2>6. UNION {{k} \X Faults(checked'[k].text) : k \in DOMAIN checked} = Places
    BY <2>3 DEF Places
  <2> QED
    BY <2>1, <2>2, <2>4, <2>5, <2>6
<1>7. Found' = Places \cup ({K} \X Faults(text))
  BY <1>1, <1>6 DEF Found, Open
<1>8. ASSUME NEW p \in Places \cup ({K} \X Faults(text)) PROVE Rights[p] = Rights'[p]
  <2>1. p \in Nat \X Nat /\ p[1] \in 1..K
    BY PlacesType
  <2>2. TextAt(p[1])' = TextAt(p[1]) /\ FileAt(p[1])' = FileAt(p[1])
    <3>1. CASE p[1] <= Len(checked)
      BY <1>4, <2>1, <3>1 DEF TextAt, FileAt
    <3>2. CASE p[1] = K
      <4> HIDE DEF K
      <4>1. TextAt(K) = text /\ FileAt(K) = file.node
        BY <1>4 DEF TextAt, FileAt, K
      <4>2. checked'[K].text = text /\ checked'[K].file = file.node /\ K <= Len(checked')
        BY <1>3, <1>4 DEF K
      <4>3. TextAt(p[1])' = checked'[K].text /\ FileAt(p[1])' = checked'[K].file
        BY <3>2, <4>2 DEF TextAt, FileAt
      <4> QED
        BY <3>2, <4>1, <4>2, <4>3
    <3> QED
      BY <1>4, <2>1, <3>1, <3>2
  <2>3. RightAt(p)' = RightAt(p)
    BY <1>1, <2>2 DEF RightAt, Misspelt, Known, Rep
  <2>4. Rights[p] = RightAt(p) /\ Rights'[p] = RightAt(p)'
    BY <2>1 DEF Rights
  <2> QED
    BY <2>3, <2>4
<1>9. Ranks(Places \cup ({K} \X Faults(text)), printed', Rights)
  BY <1>1, AddFault
<1>10. Ranks(Found', printed', Rights')
  BY <1>7, <1>8, <1>9, RanksSame
<1> QED
  BY <1>1, <1>10 DEF ReportInv, PlaceInv

\* Every step keeps it.
LEMMA ReportStep == ASSUME TypeInv, DictInv, ReportInv, [Next]_vars PROVE ReportInv'
<1> USE DEF result, walk, place, seen
\* A step between files, one that reads no character, and one that opens a file.
<1>a. ASSUME UNCHANGED <<checked, dict_words, printed>>, pc # "check", pc' # "check",
             pc' \in {"start", "load"} => pc \in {"start", "load"}
      PROVE  ReportInv'
  <2>1. Places' = Places
    BY <1>a DEF Places, Faults, Misspelt, Known
  <2>2. Found = Places /\ Found' = Places
    BY <1>a, <2>1 DEF Found, Open
  <2>3. \A p \in Places : Rights[p] = Rights'[p]
    BY <1>a, RightsKept
  <2>4. Ranks(Found', printed', Rights')
    BY <1>a, <2>2, <2>3, RanksSame DEF ReportInv
  <2> QED
    BY <1>a, <2>4 DEF ReportInv, PlaceInv
<1>b. ASSUME UNCHANGED <<pc, text, word, line, col, word_col, checked, dict_words, printed, file>>
      PROVE  ReportInv'
  <2>1. Places' = Places /\ Open' = Open
    BY <1>b DEF Places, Open, Faults, Misspelt, Known
  <2>2. Rights' = Rights
    <3>1. ASSUME NEW p PROVE RightAt(p)' = RightAt(p)
      BY <1>b DEF RightAt, TextAt, FileAt, Misspelt, Known, Rep
    <3> QED
      BY <3>1 DEF Rights
  <2>3. Ranks(Found', printed', Rights')
    BY <1>b, <2>1, <2>2 DEF ReportInv, Found
  <2> QED
    BY <1>b, <2>3 DEF ReportInv, PlaceInv
<1>c. CASE OpenFile
  <2>1. /\ pc = "next" /\ pc' = "check" /\ text' = <<>> /\ word' = <<>> /\ line' = 1 /\ col' = 1
        /\ UNCHANGED <<checked, dict_words, printed>>
    BY <1>c DEF OpenFile, Visit
  <2>2. Places' = Places
    BY <2>1 DEF Places, Faults, Misspelt, Known
  <2>3. Found = Places /\ Found' = Places
    <3>1. Within(text', Space) = {}
      BY <2>1, EmptyText
    <3> QED
      BY <2>1, <2>2, <3>1 DEF Found, Open
  <2>4. \A p \in Places : Rights[p] = Rights'[p]
    BY <2>1, RightsKept
  <2>5. Ranks(Found', printed', Rights')
    BY <2>1, <2>3, <2>4, RanksSame DEF ReportInv
  <2>6. LineAt(<<>>, 1) = 1 /\ ColAt(<<>>, 1) = 1
    <3>1. Newlines(<<>>, 1) = {}
      BY DEF Newlines
    <3>2. Max({} \cup {0}) = 0
      BY MaxFound
    <3>3. Cardinality({}) = 0
      BY FS_EmptySet
    <3> QED
      BY <3>1, <3>2, <3>3 DEF LineAt, ColAt
  <2>7. PlaceInv'
    <3>1. Scanned(text', Space, word') /\ Len(text') + 1 = 1
      BY <2>1, EmptyText
    <3> QED
      BY <2>1, <2>6, <3>1 DEF PlaceInv
  <2> QED
    BY <2>1, <2>5, <2>7 DEF ReportInv
<1>1. CASE NoDictionary
  BY <1>1, <1>a DEF NoDictionary
<1>2. CASE OpenDictionary
  BY <1>2, <1>a DEF OpenDictionary
<1>3. ASSUME NEW n \in 1..BUFFER_SIZE, Read(n) PROVE ReportInv'
  BY <1>3, <1>b DEF Read
<1>4. ASSUME NEW c \in DictChars, LoadChar(c) PROVE ReportInv'
  BY <1>4, <1>a DEF LoadChar
<1>5. CASE Loaded
  <2>1. pc = "load" /\ pc' = "next" /\ UNCHANGED <<checked, printed>> /\ checked = <<>>
    BY <1>5 DEF Loaded, ReportInv
  <2>2. Places = {} /\ Places' = {}
    BY <2>1 DEF Places
  <2>3. Found = {} /\ Found' = {}
    BY <2>1, <2>2 DEF Found, Open
  <2>4. Ranks(Found', printed', Rights')
    BY <2>1, <2>3 DEF ReportInv, Ranks
  <2> QED
    BY <2>1, <2>4 DEF ReportInv, PlaceInv
<1>6. CASE StatFails
  BY <1>6, <1>a DEF StatFails, Visit
<1>7. CASE OpenFails
  BY <1>7, <1>a DEF OpenFails, Visit
<1>8. CASE process_directory
  BY <1>8, <1>a DEF process_directory, Visit
<1>9. CASE PassOver
  BY <1>9, <1>a DEF PassOver, Visit
<1>11. ASSUME NEW c \in TextChars, WordChar(c) PROVE ReportInv'
  BY <1>11, WordCharReport
<1>12. ASSUME NEW c \in TextChars, SpaceChar(c) PROVE ReportInv'
  BY <1>12, SpaceCharReport
<1>13. CASE CloseFile
  BY <1>13, CloseFileReport
<1>14. CASE Return
  BY <1>14, <1>a DEF Return
<1>15. CASE UNCHANGED vars
  BY <1>15, <1>b DEF vars
<1> QED BY <1>c, <1>1, <1>2, <1>3, <1>4, <1>5, <1>6, <1>7, <1>8, <1>9, <1>11, <1>12, <1>13,
           <1>14, <1>15 DEF Next, Exited

\* Whose reports name their file. A single argument is still to be visited, or
\* it was one file and nothing else is left, or what is left is in a directory.
Named   == \A i \in DOMAIN printed : printed[i].named
Waiting == printed = <<>> /\ checked = <<>> /\ pc # "check" /\ Len(todo) <= 1
Single  == todo = <<>> /\ Len(checked) + (IF pc = "check" THEN 1 ELSE 0) <= 1
Below   == /\ \A i \in DOMAIN todo : ~todo[i].top
           /\ Named /\ (pc = "check" => ~file.top)
NameInv == IF Len(args) > 1 THEN Named ELSE Waiting \/ Single \/ Below

\* A report of a file that is named.
LEMMA NamedMore == ASSUME TypeInv, Named, print_filename, Checked PROVE Named'
<1>1. printed' = printed \/ printed' = printed \o Report
  BY DEF Checked
<1>2. CASE printed' = printed
  BY <1>2 DEF Named
<1>3. CASE printed' = printed \o Report
  <2> DEFINE e == [named |-> print_filename, file |-> file.node, line |-> line,
                   col |-> word_col, word |-> normalize_word(word)]
             B == [named : BOOLEAN, file : Nodes, line : Nat, col : Nat, word : Seq(Char)]
  <2>1. Report = <<>> \/ Report = <<e>>
    BY DEF Report
  <2>2. printed \in Seq(B) /\ e.named
    BY DEF TypeInv, TypeOK
  <2> HIDE DEF e, B
  <2>3. CASE Report = <<>>
    BY <1>3, <2>2, <2>3 DEF Named
  <2>4. CASE Report = <<e>>
    <3>1. DOMAIN printed' = 1..Len(printed) + 1 /\ Len(printed) \in Nat
      BY <1>3, <2>2, <2>4
    <3>2. printed'[Len(printed) + 1] = e /\ \A i \in 1..Len(printed) : printed'[i] = printed[i]
      BY <1>3, <2>2, <2>4
    <3>3. DOMAIN printed = 1..Len(printed)
      BY <2>2
    <3>4. ASSUME NEW i \in DOMAIN printed' PROVE printed'[i].named
      <4>1. i = Len(printed) + 1 \/ i \in 1..Len(printed)
        BY <3>1
      <4> QED
        BY <2>2, <3>2, <3>3, <4>1 DEF Named
    <3> QED
      BY <3>4 DEF Named
  <2> QED
    BY <2>1, <2>3, <2>4
<1> QED
  BY <1>1, <1>2, <1>3

\* Every step keeps it.
LEMMA NameStep == ASSUME TypeInv, NameInv, [Next]_vars PROVE NameInv'
<1> USE DEF result, walk, place, seen
<1>0. todo \in Seq(Item) /\ checked \in Seq([file : Nodes, text : Seq(TextChars)]) /\ Len(checked) \in Nat
  BY DEF TypeInv, TypeOK
<1>t. ASSUME Visit PROVE /\ todo # <<>> /\ Len(todo) \in Nat /\ Len(todo) >= 1
                         /\ Tail(todo) \in Seq(Item) /\ Len(Tail(todo)) = Len(todo) - 1
                         /\ \A i \in DOMAIN Tail(todo) : i + 1 \in DOMAIN todo /\ Tail(todo)[i] = todo[i + 1]
                         /\ 1 \in DOMAIN todo /\ Entry = todo[1]
  <2> HIDE DEF Item
  <2> QED
    BY <1>0, <1>t DEF Visit, Entry
\* A step that does not visit, one that takes a node away, and one that reports.
<1>a. ASSUME UNCHANGED <<args, todo, file, checked, printed>>, (pc' # "check" /\ pc # "check") \/ pc' = pc
      PROVE  NameInv'
  BY <1>a DEF NameInv, Named, Waiting, Single, Below
<1>b. ASSUME Visit, todo' = Tail(todo), UNCHANGED <<args, checked, printed>>, pc' # "check"
      PROVE  NameInv'
  <2>1. CASE Len(args) > 1
    BY <1>b, <2>1 DEF NameInv, Named
  <2>2. CASE Waiting /\ ~(Len(args) > 1)
    <3>1. Len(todo) <= 1
      BY <2>2 DEF Waiting
    <3>2. Len(Tail(todo)) <= 1
      <4> HIDE DEF Item
      <4> QED
        BY <1>b, <1>t, <3>1
    <3> QED
      BY <1>b, <2>2, <3>2 DEF NameInv, Waiting
  <2>3. CASE Below /\ ~(Len(args) > 1)
    BY <1>b, <1>t, <2>3 DEF NameInv, Below, Named
  <2> QED
    BY <1>b, <1>t, <2>1, <2>2, <2>3 DEF NameInv, Single
<1>c. ASSUME Checked, pc = "check",
             \/ (pc' = "check" /\ checked' = checked)
             \/ (pc' = "next" /\ Len(checked') = Len(checked) + 1),
             UNCHANGED <<args, todo, file>>
      PROVE  NameInv'
  <2>1. CASE Len(args) > 1
    BY <1>c, <2>1, NamedMore DEF NameInv, print_filename
  <2>2. CASE Single /\ ~(Len(args) > 1)
    BY <1>0, <1>c, <2>2 DEF NameInv, Single
  <2>3. CASE Below /\ ~(Len(args) > 1)
    <3>1. Named'
      BY <1>c, <2>3, NamedMore DEF Below, print_filename
    <3> QED
      BY <1>c, <2>3, <3>1 DEF NameInv, Below
  <2> QED
    BY <1>c, <2>1, <2>2, <2>3 DEF NameInv, Waiting
<1>1. CASE NoDictionary
  BY <1>1, <1>a DEF NoDictionary
<1>2. CASE OpenDictionary
  BY <1>2, <1>a DEF OpenDictionary
<1>3. ASSUME NEW n \in 1..BUFFER_SIZE, Read(n) PROVE NameInv'
  BY <1>3, <1>a DEF Read
<1>4. ASSUME NEW c \in DictChars, LoadChar(c) PROVE NameInv'
  BY <1>4, <1>a DEF LoadChar
<1>5. CASE Loaded
  BY <1>5, <1>a DEF Loaded
<1>6. CASE StatFails
  BY <1>6, <1>b DEF StatFails, Visit
<1>7. CASE OpenFails
  BY <1>7, <1>b DEF OpenFails, Visit
<1>8. CASE process_directory
  <2>0. PICK e \in SetToSeqs(Entries[Entry.node] \ Hidden) :
             todo' = [i \in DOMAIN e |-> [node |-> e[i], top |-> FALSE]] \o Tail(todo)
    BY <1>8 DEF process_directory
  <2> DEFINE q == [i \in DOMAIN e |-> [node |-> e[i], top |-> FALSE]]
  <2>1. Visit /\ pc' = pc /\ pc # "check" /\ UNCHANGED <<args, file, checked, printed>>
    BY <1>8 DEF process_directory, Visit
  <2>2. q \in Seq(Item) /\ \A i \in DOMAIN q : ~q[i].top
    <3>1. q \in Seq(Item)
      BY <1>8, EntriesType DEF process_directory, IsDir
    <3> QED
      BY <3>1
  <2> HIDE DEF q
  <2>3. ASSUME \A i \in DOMAIN Tail(todo) : ~Tail(todo)[i].top
        PROVE  \A i \in DOMAIN todo' : ~todo'[i].top
    <3> HIDE DEF Item
    <3>1. todo' = q \o Tail(todo) /\ Tail(todo) \in Seq(Item)
      BY <1>t, <2>0, <2>1 DEF q
    <3> QED
      BY <2>2, <2>3, <3>1
  <2>4. CASE Len(args) > 1
    BY <2>1, <2>4 DEF NameInv, Named
  <2>5. CASE Waiting /\ ~(Len(args) > 1)
    <3>1. Len(Tail(todo)) = 0
      <4>1. Len(todo) <= 1
        BY <2>5 DEF Waiting
      <4> DEFINE m == Len(todo)
                 k == Len(Tail(todo))
      <4>2. m \in Nat /\ m >= 1 /\ k = m - 1
        BY <1>t, <2>1
      <4> HIDE DEF m, k
      <4>3. m <= 1
        BY <4>1 DEF m
      <4>4. k = 0
        BY <4>2, <4>3
      <4> QED
        BY <4>4 DEF k
    <3>2. \A i \in DOMAIN Tail(todo) : ~Tail(todo)[i].top
      <4> HIDE DEF Item
      <4> QED
        BY <1>t, <2>1, <3>1
    <3>3. Named'
      BY <2>1, <2>5 DEF Waiting, Named
    <3> QED
      BY <2>1, <2>3, <2>5, <3>2, <3>3 DEF NameInv, Below
  <2>6. CASE Below /\ ~(Len(args) > 1)
    <3>1. \A i \in DOMAIN Tail(todo) : ~Tail(todo)[i].top
      BY <1>t, <2>1, <2>6 DEF Below
    <3> QED
      BY <2>1, <2>3, <2>6, <3>1 DEF NameInv, Below, Named
  <2> QED
    BY <1>t, <2>1, <2>4, <2>5, <2>6 DEF NameInv, Single
<1>9. CASE PassOver
  BY <1>9, <1>b DEF PassOver, Visit
<1>10. CASE OpenFile
  <2>1. /\ Visit /\ todo' = Tail(todo) /\ UNCHANGED <<args, checked, printed>> /\ pc' = "check"
        /\ file' = Entry /\ pc # "check"
    BY <1>10 DEF OpenFile, Visit
  <2>2. CASE Len(args) > 1
    BY <2>1, <2>2 DEF NameInv, Named
  <2>3. CASE Waiting /\ ~(Len(args) > 1)
    <3>1. Tail(todo) = <<>>
      <4> HIDE DEF Item
      <4> QED
        BY <1>t, <2>1, <2>3 DEF Waiting
    <3>2. Len(checked') = 0
      BY <2>1, <2>3 DEF Waiting
    <3> QED
      BY <2>1, <2>3, <3>1, <3>2 DEF NameInv, Single
  <2>4. CASE Below /\ ~(Len(args) > 1)
    <3>1. ~file'.top /\ \A i \in DOMAIN todo' : ~todo'[i].top
      BY <1>t, <2>1, <2>4 DEF Below
    <3> QED
      BY <2>1, <2>4, <3>1 DEF NameInv, Below, Named
  <2> QED
    BY <1>t, <2>1, <2>2, <2>3, <2>4 DEF NameInv, Single
<1>11. ASSUME NEW c \in TextChars, WordChar(c) PROVE NameInv'
  BY <1>11, <1>a DEF WordChar
<1>12. ASSUME NEW c \in TextChars, SpaceChar(c) PROVE NameInv'
  <2>1. Checked /\ pc = "check" /\ pc' = "check" /\ UNCHANGED <<args, todo, file, checked>>
    BY <1>12 DEF SpaceChar
  <2> QED
    BY <1>c, <2>1
<1>13. CASE CloseFile
  <2>1. Len(checked') = Len(checked) + 1
    BY <1>0, <1>13 DEF CloseFile
  <2> QED
    BY <1>13, <1>c, <2>1 DEF CloseFile
<1>14. CASE Return
  BY <1>14, <1>a DEF Return
<1>15. CASE UNCHANGED vars
  BY <1>15, <1>a DEF vars
<1> QED BY <1>1, <1>2, <1>3, <1>4, <1>5, <1>6, <1>7, <1>8, <1>9, <1>10, <1>11, <1>12, <1>13,
           <1>14, <1>15 DEF Next, Exited

\* At the start nothing has been read or reported.
LEMMA InitReport == ASSUME Init PROVE DictInv /\ ReportInv /\ NameInv
<1>1. /\ pc = "start" /\ text = <<>> /\ word = <<>> /\ checked = <<>> /\ printed = <<>>
      /\ dictionary = <<>>
      /\ todo = IF args = <<>> THEN <<Top("stdin")>> ELSE [i \in DOMAIN args |-> Top(args[i])]
  BY DEF Init
<1>2. DictInv
  <2>1. Parts(text, {"newline"}, Within(text, {"newline"})) = {}
    BY <1>1, EmptyText DEF Parts
  <2>2. Stores(dictionary, {})
    BY <1>1 DEF Stores
  <2> QED
    BY <1>1, <2>1, <2>2, EmptyText DEF DictInv
<1>3. ReportInv
  <2>1. Found = {}
    BY <1>1 DEF Found, Open, Places
  <2>2. Ranks(Found, printed, Rights)
    BY <1>1, <2>1, FS_EmptySet DEF Ranks
  <2> QED
    BY <1>1, <2>2 DEF ReportInv, PlaceInv
<1>4. NameInv
  <2>1. args \in Seq(Nodes)
    BY InitType, SpellAssumption DEF TypeInv, TypeOK
  <2>2. CASE Len(args) > 1
    BY <1>1, <2>2 DEF NameInv, Named
  <2>3. CASE ~(Len(args) > 1)
    <3>1. Len(todo) <= 1
      BY <1>1, <2>1, <2>3
    <3> QED
      BY <1>1, <2>3, <3>1 DEF NameInv, Waiting
  <2> QED
    BY <2>2, <2>3
<1> QED
  BY <1>2, <1>3, <1>4

\* However read has cut the texts, what has been printed when the program ends is
\* the misspelt words of what it has checked, each once, where it stands and in
\* order, and named if there were several files (check_file 191-250).
THEOREM ReportsRight == Spec => []ReportsExact
<1> DEFINE AllInv == TypeInv /\ DictInv /\ ReportInv /\ NameInv
<1>1. Init => AllInv
  BY InitType, InitReport
<1>2. AllInv /\ [Next]_vars => AllInv'
  <2> SUFFICES ASSUME AllInv, [Next]_vars PROVE AllInv'
    OBVIOUS
  <2>1. TypeInv'
    BY TypeStep
  <2>2. DictInv'
    BY DictStep
  <2>3. ReportInv'
    BY ReportStep
  <2>4. NameInv'
    BY NameStep
  <2> QED
    BY <2>1, <2>2, <2>3, <2>4
<1>3. AllInv => ReportsExact
  <2> SUFFICES ASSUME AllInv, pc = "exit" PROVE ReportsExact
    BY DEF ReportsExact
  <2>1. Found = Places
    BY DEF Found, Open
  <2>2. Ranks(Places, printed, Rights)
    BY <2>1 DEF ReportInv
  <2>3. Len(printed) = Cardinality(Places)
    BY <2>2 DEF Ranks
  <2>4. ASSUME NEW p \in Places, NEW r, r = printed[Cardinality({q \in Places : Precedes(q, p)}) + 1],
               NEW t, t = checked[p[1]].text
        PROVE  /\ r.file = checked[p[1]].file
               /\ r.line = LineAt(t, p[2]) /\ r.col = ColAt(t, p[2])
               /\ r.word \in Misspelt(Cut(t, p[2], Space))
    <3>1. r \in Rights[p]
      BY <2>2, <2>4 DEF Ranks
    <3>2. p \in Nat \X Nat /\ p[1] <= Len(checked)
      BY PlacesType
    <3>3. r \in RightAt(p) /\ TextAt(p[1]) = t /\ FileAt(p[1]) = checked[p[1]].file
      BY <2>4, <3>1, <3>2 DEF Rights, TextAt, FileAt
    <3> QED
      BY <3>3 DEF RightAt
  <2>5. Len(checked) > 1 => Named
    BY DEF NameInv, Waiting, Single, Below
  <2> QED
    BY <2>3, <2>4, <2>5 DEF ReportsExact, Named
<1> QED BY <1>1, <1>2, <1>3, PTL DEF Spec
=============================================================================

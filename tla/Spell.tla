-------------------------------- MODULE Spell --------------------------------
(* The spelling checker (P2/src/spell.c): the dictionary, the files and       *)
(* directories it is given, and the characters of each file, which come in    *)
(* pieces as read returns them. The hash table is a function from words in    *)
(* lower case to has_capital.                                                 *)
EXTENDS Integers, Sequences, SequencesExt, FiniteSetsExt

CONSTANTS Args,           \* what the command line may name, sequences of nodes
          Dirs,           \* the nodes that are directories
          Entries,        \* the nodes in each directory
          Hidden,         \* the nodes whose names begin with a dot
          Suffixed,       \* the regular files whose names end with the suffix
          DictChars, TextChars,     \* what dictionaries and files are made of
          BUFFER_SIZE, MAX_WORD_LEN,
          MaxDict, MaxText          \* bounds: characters read in all

VARIABLES pc,
          args,           \* the files and directories on the command line
          todo,           \* what is still to visit: the nodes, and whether
                          \* each comes from the command line
          file,           \* what is being checked
          left,           \* characters of the buffer still to look at
          word, line, col, word_col,
          dictionary, error_found, status,
          room,           \* bound: characters that may still be read
          text,           \* what has been read of the file that is open
          dict_words,     \* the words of the dictionary
          checked,        \* the files checked, with their texts
          missed,         \* what could not be opened
          vanished,       \* whether something in a directory had no stat
          printed         \* the misspellings reported

Char == {"f", "F", "1", "(", ".", " ", "newline"}
Space == {" ", "newline"}
isspace(c) == c \in Space
isupper(c) == c = "F"
isalpha(c) == c \in {"f", "F"}
isalnum(c) == c \in {"f", "F", "1"}
to_lower(w) == [i \in DOMAIN w |-> IF w[i] = "F" THEN "f" ELSE w[i]]

Nodes == (UNION {ToSet(a) : a \in Args}) \cup (UNION {Entries[d] : d \in Dirs}) \cup {"stdin"}

ASSUME SpellAssumption ==
    /\ Args \subseteq Seq(Nodes) /\ Dirs \subseteq Nodes /\ Entries \in [Dirs -> SUBSET Nodes]
    /\ \A d \in Dirs : IsFiniteSet(Entries[d])
    /\ DictChars \subseteq Char /\ TextChars \subseteq Char
    /\ BUFFER_SIZE \in Nat \ {0} /\ MAX_WORD_LEN \in Nat /\ MAX_WORD_LEN > 1
    /\ MaxDict \in Nat /\ MaxText \in Nat

\* Nodes are path names: an entry's is its directory's, a slash and a name
\* (spell.c 278), so it is in no other, and no directory is below itself.
ASSUME TreeAssumption ==
    /\ \A d, e \in Dirs : Entries[d] \cap Entries[e] # {} => d = e
    /\ \A D \in SUBSET Dirs : D # {} => \E d \in D : D \cap Entries[d] = {}

walk   == <<args, todo, file>>
place  == <<word, line, col, word_col>>
result == <<error_found, status, printed>>
seen   == <<checked, missed, vanished>>
vars   == <<pc, walk, left, place, dictionary, result, room, dict_words, text, seen>>

------------------------------------------------------------------------------
Top(n) == [node |-> n, top |-> TRUE]

Init == /\ pc = "start"
        /\ args \in Args
        /\ todo = IF args = <<>> THEN <<Top("stdin")>> ELSE [i \in DOMAIN args |-> Top(args[i])]
        /\ file = Top("stdin") /\ left = 0
        /\ word = <<>> /\ line = 1 /\ col = 1 /\ word_col = 1
        /\ dictionary = <<>>
        /\ error_found = FALSE /\ status = "none" /\ printed = <<>>
        /\ room = MaxDict /\ text = <<>> /\ dict_words = {}
        /\ checked = <<>> /\ missed = {} /\ vanished = FALSE

------------------------------------------------------------------------------
(* The dictionary.                                                            *)

NoDictionary == /\ pc = "start" /\ pc' = "exit" /\ status' = "failure"
                /\ missed' = {"dictionary"}
                /\ UNCHANGED <<walk, left, place, dictionary, error_found, printed, room,
                               dict_words, text, checked, vanished>>

OpenDictionary == /\ pc = "start" /\ pc' = "load"
                  /\ UNCHANGED <<walk, left, place, dictionary, result, room, dict_words, text, seen>>

\* Mutant: a word does not go on in the next buffer.
ReadAfresh(n) ==
    /\ pc \in {"load", "check"} /\ left = 0 /\ n <= room
    /\ left' = n /\ room' = room - n /\ word' = <<>>
    /\ UNCHANGED <<pc, walk, line, col, word_col, dictionary, result, dict_words, text, seen>>

\* read returns n bytes.
Read(n) == /\ pc \in {"load", "check"} /\ left = 0 /\ n <= room
           /\ left' = n /\ room' = room - n
           /\ UNCHANGED <<pc, walk, place, dictionary, result, dict_words, text, seen>>

\* Mutant: one character too many.
LongerBy(c) == IF Len(word) < MAX_WORD_LEN THEN Append(word, c) ELSE word

\* The word with a further character, if there is room for it.
Longer(c) == IF Len(word) < MAX_WORD_LEN - 1 THEN Append(word, c) ELSE word

dict_add(w) ==
    LET lower == to_lower(w)
    IN [d \in DOMAIN dictionary \cup {lower} |->
          \/ d \in DOMAIN dictionary /\ dictionary[d]
          \/ d = lower /\ isupper(w[1])]

Added == IF word = <<>> THEN dictionary ELSE dict_add(word)

LoadChar(c) ==
    /\ pc = "load" /\ left > 0 /\ left' = left - 1
    /\ text' = Append(text, c)
    /\ \/ c = "newline" /\ dictionary' = Added /\ word' = <<>>
       \/ c # "newline" /\ word' = Longer(c) /\ UNCHANGED dictionary
    /\ UNCHANGED <<pc, walk, line, col, word_col, result, room, dict_words, seen>>

\* The words of the text t, by where they start: ended by the characters of E, and cut.
Starts(t, E) == {i \in DOMAIN t : t[i] \notin E /\ (i = 1 \/ t[i - 1] \in E)}
Cut(t, i, E) ==
    LET end == Min({j \in i..Len(t) : t[j] \in E} \cup {Len(t) + 1})
    IN SubSeq(t, i, Min({end - 1, i + MAX_WORD_LEN - 2}))

\* End of file, or a failed read.
Loaded == /\ pc = "load" /\ left = 0 /\ pc' = "next"
          /\ dictionary' = Added /\ word' = <<>> /\ room' = MaxText
          /\ dict_words' = {Cut(text, i, {"newline"}) : i \in Starts(text, {"newline"})}
          /\ text' = <<>>
          /\ UNCHANGED <<walk, left, line, col, word_col, result, seen>>

------------------------------------------------------------------------------
(* main and process_directory: the next node to visit.                        *)

Entry == Head(todo)
Visit == pc = "next" /\ todo # <<>>
Wanted == Entry.top \/ Entry.node \in Suffixed
IsDir == Entry.node \in Dirs

StatFails == /\ Visit /\ todo' = Tail(todo)
             /\ IF Entry.top THEN /\ error_found' = TRUE /\ missed' = missed \cup {Entry.node}
                                  /\ UNCHANGED vanished
                ELSE vanished' = TRUE /\ UNCHANGED <<error_found, missed>>
             /\ UNCHANGED <<pc, args, file, left, place, dictionary, status, printed, room,
                            dict_words, text, checked>>

OpenFails == /\ Visit /\ (IsDir \/ Wanted)
             /\ todo' = Tail(todo)
             /\ error_found' = TRUE /\ missed' = missed \cup {Entry.node}
             /\ UNCHANGED <<pc, args, file, left, place, dictionary, status, printed, room,
                            dict_words, text, checked, vanished>>

\* Mutant: hidden entries are visited.
process_directoryAll ==
    /\ Visit /\ IsDir
    /\ \E entries \in SetToSeqs(Entries[Entry.node]) :
          todo' = [i \in DOMAIN entries |-> [node |-> entries[i], top |-> FALSE]] \o Tail(todo)
    /\ UNCHANGED <<pc, args, file, left, place, dictionary, result, room, dict_words, text, seen>>

\* readdir gives the entries in any order.
process_directory ==
    /\ Visit /\ IsDir
    /\ \E entries \in SetToSeqs(Entries[Entry.node] \ Hidden) :
          todo' = [i \in DOMAIN entries |-> [node |-> entries[i], top |-> FALSE]] \o Tail(todo)
    /\ UNCHANGED <<pc, args, file, left, place, dictionary, result, room, dict_words, text, seen>>

PassOver == /\ Visit /\ ~IsDir /\ ~Wanted
            /\ todo' = Tail(todo)
            /\ UNCHANGED <<pc, args, file, left, place, dictionary, result, room, dict_words, text, seen>>

OpenFile == /\ Visit /\ ~IsDir /\ Wanted
            /\ pc' = "check" /\ file' = Entry /\ todo' = Tail(todo)
            /\ text' = <<>> /\ word' = <<>> /\ line' = 1 /\ col' = 1 /\ word_col' = 1
            /\ UNCHANGED <<args, left, dictionary, result, room, dict_words, seen>>

------------------------------------------------------------------------------
(* check_file: one word.                                                      *)

should_skip_word(w) == \A i \in DOMAIN w : ~isalpha(w[i])

normalize_word(w) ==
    LET start == Min({i \in DOMAIN w : w[i] # "("} \cup {Len(w) + 1})
        end   == Max({i \in DOMAIN w : isalnum(w[i])} \cup {0})
    IN SubSeq(w, start, end)

dict_lookup(w) == /\ to_lower(w) \in DOMAIN dictionary
                  /\ dictionary[to_lower(w)] => isupper(w[1])

print_filename == ~file.top \/ Len(args) > 1

Report ==
    LET normalized == normalize_word(word)
    IN IF should_skip_word(word) \/ normalized = <<>> \/ dict_lookup(normalized) THEN <<>>
       ELSE <<[named |-> print_filename, file |-> file.node, line |-> line,
               col |-> word_col, word |-> normalized]>>

Checked == IF word = <<>> THEN UNCHANGED <<error_found, printed>>
           ELSE /\ printed' = printed \o Report
                /\ error_found' = (error_found \/ Report # <<>>)

WordChar(c) ==
    /\ pc = "check" /\ left > 0 /\ ~isspace(c)
    /\ left' = left - 1 /\ text' = Append(text, c)
    /\ word_col' = IF word = <<>> THEN col ELSE word_col
    /\ word' = Longer(c) /\ col' = col + 1
    /\ UNCHANGED <<pc, walk, line, dictionary, result, room, dict_words, seen>>

SpaceChar(c) ==
    /\ pc = "check" /\ left > 0 /\ isspace(c)
    /\ left' = left - 1 /\ text' = Append(text, c)
    /\ Checked /\ word' = <<>>
    /\ line' = IF c = "newline" THEN line + 1 ELSE line
    /\ col' = IF c = "newline" THEN 1 ELSE col + 1
    /\ UNCHANGED <<pc, walk, word_col, dictionary, status, room, dict_words, seen>>

\* Mutant: the last word is printed and no more.
CloseFileQuietly ==
    /\ pc = "check" /\ left = 0 /\ pc' = "next"
    /\ printed' = IF word = <<>> THEN printed ELSE printed \o Report
    /\ checked' = Append(checked, [file |-> file.node, text |-> text])
    /\ UNCHANGED <<walk, left, place, dictionary, error_found, status, room, dict_words, text,
                   missed, vanished>>

\* End of file, or a failed read.
CloseFile ==
    /\ pc = "check" /\ left = 0 /\ pc' = "next"
    /\ Checked
    /\ checked' = Append(checked, [file |-> file.node, text |-> text])
    /\ UNCHANGED <<walk, left, place, dictionary, status, room, dict_words, text, missed, vanished>>

Return == /\ pc = "next" /\ todo = <<>> /\ pc' = "exit"
          /\ status' = IF error_found THEN "failure" ELSE "success"
          /\ UNCHANGED <<walk, left, place, dictionary, error_found, printed, room, dict_words,
                         text, seen>>

Exited == pc = "exit" /\ UNCHANGED vars

Next == \/ NoDictionary \/ OpenDictionary
        \/ \E n \in 1..BUFFER_SIZE : Read(n)
        \/ \E c \in DictChars : LoadChar(c)
        \/ Loaded
        \/ StatFails \/ OpenFails \/ process_directory \/ PassOver \/ OpenFile
        \/ \E c \in TextChars : WordChar(c) \/ SpaceChar(c)
        \/ CloseFile \/ Return \/ Exited

Spec == Init /\ [][Next]_vars
------------------------------------------------------------------------------
Item == [node : Nodes, top : BOOLEAN]

TypeOK ==
    /\ pc \in {"start", "load", "next", "check", "exit"}
    /\ args \in Args /\ todo \in Seq(Item) /\ file \in Item
    /\ left \in 0..BUFFER_SIZE
    /\ word \in Seq(Char) /\ Len(word) < MAX_WORD_LEN
    /\ line \in Nat /\ col \in Nat /\ word_col \in Nat
    /\ DOMAIN dictionary \subseteq Seq(Char) /\ \A d \in DOMAIN dictionary : dictionary[d] \in BOOLEAN
    /\ error_found \in BOOLEAN /\ status \in {"none", "success", "failure"}
    /\ room \in Nat /\ text \in Seq(DictChars \cup TextChars)
    /\ dict_words \subseteq Seq(DictChars)
    /\ checked \in Seq([file : Nodes, text : Seq(TextChars)])
    /\ missed \subseteq Nodes \cup {"dictionary"} /\ vanished \in BOOLEAN
    /\ printed \in Seq([named : BOOLEAN, file : Nodes, line : Nat, col : Nat, word : Seq(Char)])

(* What should be reported, from whole texts.                                 *)
\* A word is in the dictionary, and begins with a capital if a form of it there
\* does ("Capitalized dictionary words require capital first letter in input").
Known(w) == LET forms == {d \in dict_words : to_lower(d) = to_lower(w)}
            IN forms # {} /\ ((\E d \in forms : isupper(d[1])) => isupper(w[1]))

\* A word without the opening punctuation before it and what is neither letter
\* nor digit after it, if that is what must be reported of it.
Misspelt(u) ==
    {w \in {SubSeq(u, p[1], p[2]) : p \in {q \in (DOMAIN u) \X (DOMAIN u) :
               /\ \A j \in 1..q[1]-1 : u[j] = "("
               /\ u[q[1]] # "(" /\ isalnum(u[q[2]])
               /\ \A j \in q[2]+1..Len(u) : ~isalnum(u[j])}} :
       (\E j \in DOMAIN u : isalpha(u[j])) /\ ~Known(w)}

\* Where a text has misspelt words; the place of its i-th character.
Faults(t)      == {i \in Starts(t, Space) : Misspelt(Cut(t, i, Space)) # {}}
Newlines(t, i) == {j \in 1..i-1 : t[j] = "newline"}
LineAt(t, i)   == 1 + Cardinality(Newlines(t, i))
ColAt(t, i)    == i - Max(Newlines(t, i) \cup {0})

\* Where all the texts have.
Places == UNION {{k} \X Faults(checked[k].text) : k \in DOMAIN checked}
Precedes(p, q) == p[1] < q[1] \/ (p[1] = q[1] /\ p[2] < q[2])

\* The reports are the misspelt words of the files, each at its line and column
\* and in their order, wherever the reads have cut the texts, cut at 255
\* characters, the last word with or without a newline (check_file 191-250). If
\* more than one file has been checked each report names its own ("filename
\* reporting with multiple files", README.txt 116).
ReportsExact ==
    pc = "exit" =>
        /\ Len(printed) = Cardinality(Places)
        /\ \A p \in Places :
              LET r == printed[Cardinality({q \in Places : Precedes(q, p)}) + 1]
                  t == checked[p[1]].text
              IN /\ r.file = checked[p[1]].file
                 /\ r.line = LineAt(t, p[2]) /\ r.col = ColAt(t, p[2])
                 /\ r.word \in Misspelt(Cut(t, p[2], Space))
        /\ Len(checked) > 1 => \A i \in DOMAIN printed : printed[i].named

\* "Returns EXIT_SUCCESS only if all files opened and no errors found"
\* (README.txt 45-47), and then always.
StatusTells == pc = "exit" => (status = "success" <=> missed = {} /\ printed = <<>>)

\* Where every open and stat succeeds, a file is checked as often as arguments
\* lead to it, through directories that are not hidden and to names with the
\* suffix (process_directory).
Downward(S) == \A d \in S \cap Dirs : Entries[d] \ Hidden \subseteq S
Under(a) == {n \in Nodes : \A S \in SUBSET Nodes : a \in S /\ Downward(S) => n \in S}
Leads(a, f) == a = f \/ f \in Under(a) \cap Suffixed
WalkComplete ==
    pc = "exit" /\ missed = {} /\ ~vanished /\ args # <<>> =>
        \A f \in Nodes \ Dirs :
            Cardinality({k \in DOMAIN checked : checked[k].file = f})
            = Cardinality({i \in DOMAIN args : Leads(args[i], f)})
=============================================================================

------------------------------ MODULE Allocator ------------------------------
(* What mymalloc and myfree promise (README.txt of P1): memory out of one    *)
(* heap, 8-byte aligned, never the same byte twice. An object is known by    *)
(* the word its memory begins at; the word before it is its header's.        *)
EXTENDS Integers

CONSTANTS Words,        \* MEMLENGTH in words of 8 bytes
          Sizes         \* bytes that may be asked for

VARIABLES live,         \* the objects handed out, with the bytes asked for
          exited

vars == <<live, exited>>

Need(s)    == (s + 7) \div 8
Block(p, s) == p - 1 .. p + Need(s) - 1

Init == live = [p \in {} |-> 0] /\ exited = FALSE

Malloc == \E p \in 1..Words, s \in Sizes \ {0} :
             /\ ~exited /\ UNCHANGED exited
             /\ Block(p, s) \subseteq 0..Words-1
             /\ \A q \in DOMAIN live : Block(p, s) \cap Block(q, live[q]) = {}
             /\ live' = [q \in DOMAIN live \cup {p} |-> IF q = p THEN s ELSE live[q]]

Free == \E p \in DOMAIN live :
           /\ ~exited /\ UNCHANGED exited
           /\ live' = [q \in DOMAIN live \ {p} |-> live[q]]

Exit == ~exited /\ exited' = TRUE /\ UNCHANGED live

Next == Malloc \/ Free \/ Exit

Spec == Init /\ [][Next]_vars
------------------------------------------------------------------------------
TypeOK == /\ live \in [DOMAIN live -> Sizes \ {0}]
          /\ exited \in BOOLEAN

\* Objects lie within the heap and share no word, headers included.
Disjoint ==
    /\ \A p \in DOMAIN live : Block(p, live[p]) \subseteq 0..Words-1
    /\ \A p, q \in DOMAIN live :
          p # q => Block(p, live[p]) \cap Block(q, live[q]) = {}
=============================================================================

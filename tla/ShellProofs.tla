----------------------------- MODULE ShellProofs -----------------------------
(* mysh for every script: the chains of and/or mean what they say, nothing   *)
(* that is printed is lost, and parse_job accepts the lines of the grammar,  *)
(* however long. What the recursive functions of the lexer and the parser    *)
(* compute is proved from the first word at which it would be something else. *)
EXTENDS Shell, WellFoundedInduction, SequenceTheorems, TLAPS

\* Every set of natural numbers has a least one.
LEMMA LeastElement ==
    ASSUME NEW S \in SUBSET Nat, S # {}
    PROVE  \E x \in S : \A y \in S : x <= y
<1>1. IsWellFoundedOn({p \in Nat \X Nat : p[1] < p[2]}, Nat)
  BY NatLessThanWellFounded DEF OpToRel
<1>2. PICK x \in S : \A y \in S : <<y, x>> \notin {p \in Nat \X Nat : p[1] < p[2]}
  BY <1>1, WFMin
<1>3. \A y \in S : x <= y
  <2> SUFFICES ASSUME NEW y \in S PROVE x <= y
    OBVIOUS
  <2>1. x \in Nat /\ y \in Nat
    OBVIOUS
  <2>2. ~(y < x)
    BY <1>2, <2>1
  <2> QED
    BY <2>1, <2>2
<1> QED
  BY <1>3

------------------------------------------------------------------------------
\* The lexer, from the end of the line backwards.
Lexes(l, f) ==
    f = [i \in Nat |-> IF i > Len(l) \/ l[i] = "#" THEN <<>>
                       ELSE IF ~Solid(l, i) \/ Solid(l, i - 1) THEN f[i + 1]
                       ELSE <<IF Solid(l, i + 1) THEN "missing" ELSE l[i]>> \o f[i + 1]]

\* The tokens can be defined, from the end of the line backwards.
LEMMA LexExists ==
    ASSUME NEW l \in Seq(Piece)
    PROVE  \E f \in [Nat -> Seq(Token)] : Lexes(l, f)
<1> DEFINE Def(f, i) == IF i > Len(l) \/ l[i] = "#" THEN <<>>
                        ELSE IF ~Solid(l, i) \/ Solid(l, i - 1) THEN f[i + 1]
                        ELSE <<IF Solid(l, i + 1) THEN "missing" ELSE l[i]>> \o f[i + 1]
           Good(d) == \E f \in [Nat -> Seq(Token)] :
                         \A i \in Nat : i + d > Len(l) => f[i] = Def(f, i)
           Bad == {d \in Nat : ~Good(d)}
<1>1. Len(l) \in Nat /\ \A i \in 1..Len(l) : l[i] \in Piece
  OBVIOUS
<1>2. ASSUME NEW f \in [Nat -> Seq(Token)], NEW i \in Nat PROVE Def(f, i) \in Seq(Token)
  <2>1. Solid(l, i) => l[i] \in Token
    BY <1>1 DEF Solid, Piece
  <2>2. "missing" \in Token
    BY DEF Token, Word
  <2>3. \A t \in Token : <<t>> \o f[i + 1] \in Seq(Token)
    <3> SUFFICES ASSUME NEW t \in Token PROVE <<t>> \o f[i + 1] \in Seq(Token)
      OBVIOUS
    <3>1. <<t>> \in Seq(Token) /\ f[i + 1] \in Seq(Token)
      OBVIOUS
    <3> QED
      BY <3>1, ConcatProperties
  <2>4. f[i + 1] \in Seq(Token) /\ <<>> \in Seq(Token)
    OBVIOUS
  <2> QED
    BY <2>1, <2>2, <2>3, <2>4
<1>3. Good(Len(l) + 1)
  <2> SUFFICES ASSUME Bad # {} PROVE FALSE
    <3>1. Len(l) + 1 \in Nat
      BY <1>1
    <3> HIDE DEF Good
    <3> QED
      BY <3>1
  <2>1. PICK d \in Bad : \A e \in Bad : d <= e
    BY LeastElement
  <2>2. CASE d = 0
    <3> DEFINE g == [i \in Nat |-> <<>>]
    <3>1. g \in [Nat -> Seq(Token)]
      OBVIOUS
    <3>2. \A i \in Nat : i + d > Len(l) => g[i] = Def(g, i)
      BY <1>1, <2>2
    <3> QED
      BY <3>1, <3>2
  <2>3. CASE d > 0
    <3>1. d - 1 \in Nat /\ d - 1 \notin Bad
      <4> HIDE DEF Good
      <4>1. d - 1 \in Nat /\ ~(d <= d - 1)
        BY <2>3
      <4> QED
        BY <2>1, <4>1
    <3>2. PICK f \in [Nat -> Seq(Token)] :
             \A i \in Nat : i + (d - 1) > Len(l) => f[i] = Def(f, i)
      BY <3>1
    <3> DEFINE g == [i \in Nat |-> IF i + (d - 1) > Len(l) THEN f[i] ELSE Def(f, i)]
    <3>3. g \in [Nat -> Seq(Token)]
      <4> HIDE DEF Def
      <4> QED
        BY <1>2
    <3>4. ASSUME NEW i \in Nat, i + d > Len(l) PROVE g[i] = Def(g, i)
      <4>1. g[i] = Def(f, i)
        <5> HIDE DEF Def
        <5> QED
          BY <3>2
      <4>2. g[i + 1] = f[i + 1]
        <5> HIDE DEF Def
        <5>1. i + 1 \in Nat /\ (i + 1) + (d - 1) > Len(l)
          BY <1>1, <2>3, <3>4
        <5> QED
          BY <5>1
      <4> HIDE DEF g
      <4> QED
        BY <4>1, <4>2
    <3> HIDE DEF g, Def
    <3> QED
      BY <3>3, <3>4
  <2> QED
    BY <2>1, <2>2, <2>3
<1>4. PICK f \in [Nat -> Seq(Token)] :
         \A i \in Nat : i + (Len(l) + 1) > Len(l) => f[i] = Def(f, i)
  BY <1>3
<1>5. \A i \in Nat : f[i] = Def(f, i)
  <2> HIDE DEF Def
  <2> SUFFICES ASSUME NEW i \in Nat PROVE f[i] = Def(f, i)
    OBVIOUS
  <2>1. i + (Len(l) + 1) > Len(l)
    BY <1>1
  <2> QED
    BY <1>4, <2>1
<1> QED
  BY <1>5 DEF Lexes

\* The tokens of a line are tokens: no two functions fit, so it is the one.
LEMMA TokenizeType ==
    ASSUME NEW l \in Seq(Piece)
    PROVE  Tokenize(l) \in Seq(Token)
<1> DEFINE G == CHOOSE f : f =
              [i \in Nat |-> IF i > Len(l) \/ l[i] = "#" THEN <<>>
                             ELSE IF ~Solid(l, i) \/ Solid(l, i - 1) THEN f[i + 1]
                             ELSE <<IF Solid(l, i + 1) THEN "missing" ELSE l[i]>> \o f[i + 1]]
<1>1. PICK f \in [Nat -> Seq(Token)] : Lexes(l, f)
  BY LexExists
<1>2. Lexes(l, G) /\ Tokenize(l) = G[1]
  BY <1>1 DEF Lexes, Tokenize
<1> HIDE DEF G
<1> DEFINE Bad == {d \in Nat : \E i \in Nat : i + d > Len(l) /\ f[i] # G[i]}
<1>3. ASSUME Bad # {} PROVE FALSE
  <2>1. PICK d \in Bad : \A e \in Bad : d <= e
    BY <1>3, LeastElement
  <2>2. PICK i \in Nat : i + d > Len(l) /\ f[i] # G[i]
    OBVIOUS
  <2>3. Len(l) \in Nat /\ d \in Nat
    OBVIOUS
  <2>4. i <= Len(l)
    BY <1>1, <1>2, <2>2, <2>3 DEF Lexes
  <2>5. f[i + 1] # G[i + 1]
    <3> SUFFICES ASSUME f[i + 1] = G[i + 1] PROVE FALSE
      OBVIOUS
    <3> DEFINE Def(h) == IF i > Len(l) \/ l[i] = "#" THEN <<>>
                         ELSE IF ~Solid(l, i) \/ Solid(l, i - 1) THEN h[i + 1]
                         ELSE <<IF Solid(l, i + 1) THEN "missing" ELSE l[i]>> \o h[i + 1]
    <3>1. f[i] = Def(f)
      BY <1>1 DEF Lexes
    <3>2. G[i] = Def(G)
      BY <1>2 DEF Lexes
    <3>3. Def(f) = Def(G)
      OBVIOUS
    <3> HIDE DEF Def
    <3> QED
      BY <2>2, <3>1, <3>2, <3>3
  <2>6. d - 1 \in Nat /\ (i + 1) + (d - 1) > Len(l)
    BY <2>2, <2>3, <2>4
  <2>7. d - 1 \in Bad
    BY <2>5, <2>6
  <2> HIDE DEF Bad
  <2>8. d <= d - 1
    BY <2>1, <2>7
  <2> QED
    BY <2>3, <2>8
<1>4. f[1] = G[1]
  <2>1. Len(l) + 1 \in Nat /\ 1 + (Len(l) + 1) > Len(l)
    OBVIOUS
  <2> QED
    BY <1>3, <2>1
<1> QED
  BY <1>2, <1>4

------------------------------------------------------------------------------
\* The variables have their types, and a line is being run only while there is
\* room for its entry.
TypeInv == TypeOK /\ (pc = "line" => Len(log) < MaxLines)

\* A line begins with and, with or, or with neither.
LEMMA ConditionalType == Conditional(line) \in {"none", "and", "or"}
  BY DEF Conditional

\* What becomes of a line.
LEMMA EndsType ==
    ASSUME TypeInv, NEW did \in {"blank", "bad", "skipped", "ran"}, NEW status \in {0, 1},
           NEW next \in {"read", "leave"}, Ends(did, status, next),
           buf' \in Seq(1..MaxLines), out' \in Seq(1..MaxLines), said' \in Seq(1..MaxLines)
    PROVE  TypeInv'
<1> DEFINE e == [cond |-> Conditional(line), did |-> did, ok |-> status = 0]
<1>1. e \in Entry
  BY ConditionalType DEF Entry
<1> HIDE DEF e
<1>2. log' = Append(log, e) /\ log \in Seq(Entry)
  BY DEF Ends, e, TypeInv, TypeOK
<1>3. log' \in Seq(Entry)
  BY <1>1, <1>2
<1> QED
  BY <1>3 DEF Ends, TypeInv, TypeOK

\* After a command the shell reads on or leaves.
LEMMA ThenType == \A cmd : Then(cmd) \in {"read", "leave"}
  BY DEF Then

\* Lines are numbered within the bound.
LEMMA ThisType == ASSUME TypeInv, pc = "line" PROVE This \in 1..MaxLines
  BY ShellAssumption DEF This, TypeInv, TypeOK

\* Sequences of one and of none.
LEMMA ShortSequences == ASSUME NEW S, NEW x \in S PROVE <<x>> \in Seq(S) /\ <<>> \in Seq(S)
  OBVIOUS

\* Every step keeps the types.
LEMMA TypeStep == ASSUME TypeInv, [Next]_vars PROVE TypeInv'
<1> USE DEF output
<1>0. buf \in Seq(1..MaxLines) /\ out \in Seq(1..MaxLines) /\ said \in Seq(1..MaxLines)
      /\ exit_status \in {0, 1}
  BY DEF TypeInv, TypeOK
<1>1. ASSUME NEW l \in Lines, ReadLine(l) PROVE TypeInv'
  <2>1. line' \in Seq(Token)
    BY <1>1, TokenizeType, ShellAssumption DEF ReadLine
  <2> QED
    BY <1>1, <2>1 DEF ReadLine, TypeInv, TypeOK
<1>2. CASE EndOfInput
  BY <1>2 DEF EndOfInput, TypeInv, TypeOK
<1>3. CASE Blank
  BY <1>0, <1>3, EndsType DEF Blank
<1>4. CASE SyntaxError
  BY <1>0, <1>4, EndsType DEF SyntaxError
<1>5. CASE Skip
  BY <1>0, <1>5, EndsType DEF Skip
<1>6. ASSUME NEW status \in {0, 1}, RunBuiltin(status) PROVE TypeInv'
  <2>1. pc = "line"
    BY <1>6 DEF RunBuiltin, Ends
  <2>2. This \in 1..MaxLines
    BY <2>1, ThisType
  <2>3. Printf => /\ buf' \in Seq(1..MaxLines) /\ out' \in Seq(1..MaxLines)
                  /\ said' \in Seq(1..MaxLines)
    <3>1. /\ Append(buf, This) \in Seq(1..MaxLines) /\ Append(out, This) \in Seq(1..MaxLines)
          /\ Append(said, This) \in Seq(1..MaxLines)
      BY <1>0, <2>2, AppendProperties
    <3> QED
      BY <1>0, <3>1 DEF Printf
  <2>4. /\ buf' \in Seq(1..MaxLines) /\ out' \in Seq(1..MaxLines)
        /\ said' \in Seq(1..MaxLines)
    BY <1>0, <1>6, <2>3 DEF RunBuiltin
  <2>5. \E s \in {0, 1}, next \in {"read", "leave"} : Ends("ran", s, next)
    BY <1>6, ThenType DEF RunBuiltin
  <2> QED
    BY <2>4, <2>5, EndsType
<1>7. ASSUME NEW status \in {0, 1}, RunProgram(status) PROVE TypeInv'
  <2>1. pc = "line" /\ Ends("ran", status, Then(First))
    BY <1>7 DEF RunProgram, Ends
  <2>2. This \in 1..MaxLines
    BY <2>1, ThisType
  <2>3. ASSUME NEW own \in {<<>>, <<This>>}, NEW flushes \in BOOLEAN, ChildPrints(own, flushes)
        PROVE  /\ buf' \in Seq(1..MaxLines) /\ out' \in Seq(1..MaxLines)
               /\ said' \in Seq(1..MaxLines)
    <3>1. own \in Seq(1..MaxLines)
      BY <2>2, ShortSequences
    <3>2. (IF flushes THEN buf ELSE <<>>) \in Seq(1..MaxLines)
      BY <1>0, <2>2, ShortSequences
    <3> QED
      BY <1>0, <2>3, <3>1, <3>2, ConcatProperties DEF ChildPrints
  <2>4. /\ buf' \in Seq(1..MaxLines) /\ out' \in Seq(1..MaxLines)
        /\ said' \in Seq(1..MaxLines)
    BY <1>7, <2>3 DEF RunProgram
  <2> QED
    BY <2>1, <2>4, ThenType, EndsType
<1>8. CASE RunFails
  BY <1>0, <1>8, ThenType, EndsType DEF RunFails
<1>9. CASE Leave
  BY <1>9, ConcatProperties DEF Leave, TypeInv, TypeOK
<1>10. CASE UNCHANGED vars
  BY <1>10 DEF vars, TypeInv, TypeOK
<1> QED
  BY <1>1, <1>2, <1>3, <1>4, <1>5, <1>6, <1>7, <1>8, <1>9, <1>10 DEF Next, Done

\* So the variables are always well typed.
LEMMA TypeInvHolds == Spec => []TypeInv
<1>1. Init => TypeInv
  BY ShellAssumption DEF Init, TypeInv, TypeOK
<1>2. TypeInv /\ [Next]_vars => TypeInv'
  BY TypeStep
<1> QED
  BY <1>1, <1>2, PTL DEF Spec

\* The variables have their types: a line is always tokens, whatever was typed.
THEOREM TypeCorrect == Spec => []TypeOK
<1>1. TypeInv => TypeOK
  BY DEF TypeInv
<1> QED
  BY <1>1, TypeInvHolds, PTL

------------------------------------------------------------------------------
\* The last line before the i-th of a log that ran or was refused succeeded, or
\* there is none.
Out(lg, i) ==
    LET S == {j \in 1..i-1 : lg[j].did \in {"ran", "bad"}}
    IN S = {} \/ \E j \in S : (\A x \in S : x <= j) /\ lg[j].ok

\* A later entry does not change what was before it,
LEMMA OutBefore ==
    ASSUME NEW lg \in Seq(Entry), NEW e \in Entry, NEW i \in 1..Len(lg) + 1
    PROVE  Out(Append(lg, e), i) <=> Out(lg, i)
<1>1. \A j \in 1..i-1 : Append(lg, e)[j] = lg[j]
  OBVIOUS
<1> QED
  BY <1>1 DEF Out

\* and is the last one, if it ran or was refused.
LEMMA OutLast ==
    ASSUME NEW lg \in Seq(Entry), NEW e \in Entry
    PROVE  Out(Append(lg, e), Len(lg) + 2)
             <=> IF e.did \in {"ran", "bad"} THEN e.ok ELSE Out(lg, Len(lg) + 1)
<1> DEFINE n == Len(lg) + 1
           lh == Append(lg, e)
           S == {j \in 1..(n + 1)-1 : lh[j].did \in {"ran", "bad"}}
           R == {j \in 1..n-1 : lg[j].did \in {"ran", "bad"}}
<1>1. n \in Nat /\ n >= 1 /\ lh[n] = e /\ \A j \in 1..n-1 : lh[j] = lg[j]
  OBVIOUS
<1>2. Out(lh, n + 1) <=> (S = {} \/ \E j \in S : (\A x \in S : x <= j) /\ lh[j].ok)
  BY DEF Out
<1>3. Out(lg, n) <=> (R = {} \/ \E j \in R : (\A x \in R : x <= j) /\ lg[j].ok)
  BY DEF Out
<1> HIDE DEF n, lh
<1>4. CASE e.did \in {"ran", "bad"}
  <2>1. n \in S /\ \A x \in S : x <= n
    BY <1>1, <1>4
  <2>2. \A j \in S : (\A x \in S : x <= j) => j = n
    BY <1>1, <2>1
  <2> QED
    BY <1>1, <1>2, <1>4, <2>1, <2>2 DEF n, lh
<1>5. CASE e.did \notin {"ran", "bad"}
  <2>1. S = R
    BY <1>1, <1>5
  <2>2. \A j \in R : lh[j] = lg[j]
    BY <1>1
  <2> HIDE DEF S, R
  <2>3. Out(lh, n + 1) <=> Out(lg, n)
    BY <1>2, <1>3, <2>1, <2>2
  <2>4. n + 1 = Len(lg) + 2
    BY DEF n
  <2> QED
    BY <1>5, <2>3, <2>4 DEF n, lh
<1> QED
  BY <1>4, <1>5

\* The inductive invariant: the status is that of the last line that counts.
Held(lg) == \A i \in 1..Len(lg) :
    lg[i].did \in {"ran", "skipped"} =>
        (lg[i].did = "skipped" <=> \/ lg[i].cond = "and" /\ ~Out(lg, i)
                                   \/ lg[i].cond = "or" /\ Out(lg, i))
ChainInv == /\ Held(log)
            /\ exit_status = 0 <=> Out(log, Len(log) + 1)

\* A line that ends in one of the four ways leaves a chain that means what it
\* says.
LEMMA EndsChain ==
    ASSUME TypeInv, ChainInv, NEW did, NEW status \in {0, 1}, NEW next, Ends(did, status, next),
           \/ did = "blank" /\ status = exit_status
           \/ did = "bad" /\ status = 1
           \/ did = "skipped" /\ status = exit_status /\ ~Wanted
           \/ did = "ran" /\ Wanted
    PROVE  ChainInv'
<1> DEFINE e == [cond |-> Conditional(line), did |-> did, ok |-> status = 0]
<1>1. e \in Entry /\ e.did = did /\ e.cond = Conditional(line) /\ e.ok = (status = 0)
  BY ConditionalType DEF Entry
<1> HIDE DEF e
<1>2. log' = Append(log, e) /\ log \in Seq(Entry) /\ exit_status' = status
  BY DEF Ends, e, TypeInv, TypeOK
<1>3. Len(log') = Len(log) + 1 /\ log'[Len(log) + 1] = e
      /\ (\A i \in 1..Len(log) : log'[i] = log[i]) /\ Len(log) \in Nat
  BY <1>1, <1>2
<1>4. exit_status' = 0 <=> Out(log', Len(log') + 1)
  <2>1. Out(log', Len(log) + 2) <=> IF did \in {"ran", "bad"} THEN e.ok ELSE Out(log, Len(log) + 1)
    BY <1>1, <1>2, OutLast
  <2>2. Len(log') + 1 = Len(log) + 2
    BY <1>3
  <2>3. exit_status = 0 <=> Out(log, Len(log) + 1)
    BY DEF ChainInv
  <2> QED
    BY <1>1, <1>2, <2>1, <2>2, <2>3
<1>5. ASSUME NEW i \in 1..Len(log'), log'[i].did \in {"ran", "skipped"}
      PROVE  log'[i].did = "skipped" <=> \/ log'[i].cond = "and" /\ ~Out(log', i)
                                         \/ log'[i].cond = "or" /\ Out(log', i)
  <2>1. i \in 1..Len(log) + 1 /\ (Out(log', i) <=> Out(log, i))
    BY <1>1, <1>2, <1>3, OutBefore
  <2>2. CASE i = Len(log) + 1
    <3>1. log'[i] = e /\ (exit_status = 0 <=> Out(log', i))
      BY <1>3, <2>1, <2>2 DEF ChainInv
    <3>2. Wanted <=> \/ Conditional(line) = "none"
                     \/ Conditional(line) = "and" /\ exit_status = 0
                     \/ Conditional(line) = "or" /\ exit_status # 0
      BY DEF Wanted
    <3> QED
      BY <1>1, <1>5, <3>1, <3>2, ConditionalType
  <2>3. CASE i # Len(log) + 1
    <3>1. i \in 1..Len(log) /\ log'[i] = log[i]
      BY <1>3, <2>1, <2>3
    <3> QED
      BY <1>5, <2>1, <3>1 DEF ChainInv, Held
  <2> QED
    BY <2>2, <2>3
<1> QED
  BY <1>4, <1>5 DEF ChainInv, Held

\* and/or look at the last line that ran or was refused, across any number of
\* lines that were skipped or blank, however long the script (shell.c 88-100).
THEOREM ChainsMean == Spec => []ChainsHold
<1>1. Init => ChainInv
  BY DEF Init, ChainInv, Held, Out
<1>2. TypeInv /\ ChainInv /\ [Next]_vars => ChainInv'
  <2> SUFFICES ASSUME TypeInv, ChainInv, [Next]_vars PROVE ChainInv'
    OBVIOUS
  <2>0. exit_status \in {0, 1}
    BY DEF TypeInv, TypeOK
  <2>1. CASE UNCHANGED <<log, exit_status>>
    BY <2>1 DEF ChainInv
  <2>2. CASE Blank
    BY <2>0, <2>2, EndsChain DEF Blank
  <2>3. CASE SyntaxError
    BY <2>3, EndsChain DEF SyntaxError
  <2>4. CASE Skip
    BY <2>0, <2>4, EndsChain DEF Skip
  <2>5. ASSUME NEW status \in {0, 1}, RunBuiltin(status) PROVE ChainInv'
    BY <2>5, EndsChain DEF RunBuiltin
  <2>6. ASSUME NEW status \in {0, 1}, RunProgram(status) PROVE ChainInv'
    BY <2>6, EndsChain DEF RunProgram
  <2>7. CASE RunFails
    BY <2>7, EndsChain DEF RunFails
  <2> QED
    BY <2>1, <2>2, <2>3, <2>4, <2>5, <2>6, <2>7
       DEF Next, ReadLine, EndOfInput, Leave, Done, vars
<1>3. ChainInv => ChainsHold
  BY DEF ChainInv, Held, ChainsHold, Outcome, Out
<1> QED
  BY <1>1, <1>2, <1>3, TypeInvHolds, PTL DEF Spec

------------------------------------------------------------------------------
\* What a sequence has, and what it has after more is added.
Has(s, x) == \E j \in 1..Len(s) : s[j] = x

\* What two sequences one after the other have.
LEMMA HasMore ==
    ASSUME NEW S, NEW s \in Seq(S), NEW t \in Seq(S), NEW x
    PROVE  Has(s \o t, x) <=> Has(s, x) \/ Has(t, x)
<1>1. /\ Len(s) \in Nat /\ Len(t) \in Nat /\ Len(s \o t) = Len(s) + Len(t)
      /\ \A i \in 1..Len(s) : (s \o t)[i] = s[i]
      /\ \A i \in 1..Len(t) : (s \o t)[Len(s) + i] = t[i]
  BY ConcatProperties
<1>2. ASSUME Has(s \o t, x) PROVE Has(s, x) \/ Has(t, x)
  <2>1. PICK j \in 1..Len(s \o t) : (s \o t)[j] = x
    BY <1>2 DEF Has
  <2>2. CASE j <= Len(s)
    BY <1>1, <2>1, <2>2 DEF Has
  <2>3. CASE j > Len(s)
    <3>1. j - Len(s) \in 1..Len(t) /\ Len(s) + (j - Len(s)) = j
      BY <1>1, <2>1, <2>3
    <3> QED
      BY <1>1, <2>1, <3>1 DEF Has
  <2> QED
    BY <1>1, <2>2, <2>3
<1>3. Has(s, x) => Has(s \o t, x)
  BY <1>1 DEF Has
<1>4. Has(t, x) => Has(s \o t, x)
  <2> SUFFICES ASSUME NEW j \in 1..Len(t), t[j] = x PROVE Has(s \o t, x)
    BY DEF Has
  <2>1. Len(s) + j \in 1..Len(s \o t) /\ (s \o t)[Len(s) + j] = x
    BY <1>1
  <2> QED
    BY <2>1 DEF Has
<1> QED
  BY <1>2, <1>3, <1>4

\* What a sequence has after one more element.
LEMMA HasOneMore ==
    ASSUME NEW S, NEW s \in Seq(S), NEW y \in S, NEW x
    PROVE  Has(Append(s, y), x) <=> Has(s, x) \/ x = y
<1>1. /\ Len(Append(s, y)) = Len(s) + 1 /\ Append(s, y)[Len(s) + 1] = y
      /\ \A i \in 1..Len(s) : Append(s, y)[i] = s[i]
      /\ Len(s) \in Nat
  BY AppendProperties
<1> QED
  BY <1>1 DEF Has

\* The inductive invariant: what was printed has reached the output, or waits in
\* the buffer of a shell that has not ended.
Numbers == 1..MaxLines
LostInv == \A x \in Numbers :
    Has(said, x) => Has(out, x) \/ (pc # "done" /\ Has(buf, x))

\* Whatever way the shell ends, and however often it prints: nothing that was
\* said fails to reach its output (71-77, 107, main.c 41-51).
THEOREM NothingIsLost == Spec => []NothingLost
<1> USE DEF output
<1>1. Init => LostInv
  BY DEF Init, LostInv, Has
<1>2. TypeInv /\ LostInv /\ [Next]_vars => LostInv'
  <2> SUFFICES ASSUME TypeInv, LostInv, [Next]_vars, NEW x \in Numbers, Has(said', x)
               PROVE  Has(out', x) \/ (pc' # "done" /\ Has(buf', x))
    BY DEF LostInv, Has
  <2> DEFINE Goal == Has(out', x) \/ (pc' # "done" /\ Has(buf', x))
  <2>0. /\ buf \in Seq(Numbers) /\ out \in Seq(Numbers) /\ said \in Seq(Numbers)
        /\ Has(said, x) => Has(out, x) \/ (pc # "done" /\ Has(buf, x))
        /\ ~Has(<<>>, x)
    BY DEF TypeInv, TypeOK, LostInv, Has, Numbers
  <2>1. CASE UNCHANGED output /\ (pc' # "done" \/ pc' = pc)
    BY <2>0, <2>1
  <2>2. ASSUME pc = "line", pc' # "done", Printf PROVE Goal
    <3>1. This \in Numbers
      BY <2>2, ThisType DEF Numbers
    <3>2. said' = Append(said, This) /\ (Has(said', x) <=> Has(said, x) \/ x = This)
      BY <2>0, <2>2, <3>1, HasOneMore DEF Printf
    <3>3. Has(Append(buf, This), x) <=> Has(buf, x) \/ x = This
      BY <2>0, <3>1, HasOneMore
    <3>4. Has(Append(out, This), x) <=> Has(out, x) \/ x = This
      BY <2>0, <3>1, HasOneMore
    <3>5. \/ buf' = Append(buf, This) /\ out' = out
          \/ out' = Append(out, This) /\ buf' = buf
      BY <2>2 DEF Printf
    <3> QED
      BY <2>0, <2>2, <3>2, <3>3, <3>4, <3>5
  <2>3. ASSUME pc = "line", pc' # "done", NEW own \in {<<>>, <<This>>}, NEW flushes \in BOOLEAN,
               ChildPrints(own, flushes)
        PROVE  Goal
    <3> DEFINE b == IF flushes THEN buf ELSE <<>>
    <3>1. This \in Numbers
      BY <2>3, ThisType DEF Numbers
    <3>2. own \in Seq(Numbers) /\ b \in Seq(Numbers)
      BY <2>0, <3>1, ShortSequences
    <3> HIDE DEF b
    <3>3. out' = out \o b \o own /\ said' = said \o own /\ buf' = buf
      BY <2>3 DEF ChildPrints, b
    <3>4. out \o b \in Seq(Numbers)
      BY <2>0, <3>2, ConcatProperties
    <3>5. Has(said', x) <=> Has(said, x) \/ Has(own, x)
      BY <2>0, <3>2, <3>3, HasMore
    <3>6. Has(out', x) <=> Has(out \o b, x) \/ Has(own, x)
      BY <3>2, <3>3, <3>4, HasMore
    <3>7. Has(out \o b, x) <=> Has(out, x) \/ Has(b, x)
      BY <2>0, <3>2, HasMore
    <3> QED
      BY <2>0, <2>3, <3>3, <3>5, <3>6, <3>7
  <2>4. CASE Leave
    <3>1. out' = out \o buf /\ said' = said
      BY <2>4 DEF Leave
    <3>2. Has(out', x) <=> Has(out, x) \/ Has(buf, x)
      BY <2>0, <3>1, HasMore
    <3> QED
      BY <2>0, <3>1, <3>2
  <2>5. ASSUME NEW status \in {0, 1}, RunBuiltin(status) PROVE Goal
    <3>1. pc = "line" /\ pc' # "done"
      BY <2>5 DEF RunBuiltin, Ends, Then
    <3>2. Printf \/ UNCHANGED output
      BY <2>5 DEF RunBuiltin
    <3> QED
      BY <2>1, <2>2, <3>1, <3>2
  <2>6. ASSUME NEW status \in {0, 1}, RunProgram(status) PROVE Goal
    <3>1. pc = "line" /\ pc' # "done"
      BY <2>6 DEF RunProgram, Ends, Then
    <3>2. \E own \in {<<>>, <<This>>}, flushes \in BOOLEAN : ChildPrints(own, flushes)
      BY <2>6 DEF RunProgram
    <3> QED
      BY <2>3, <3>1, <3>2
  <2>7. CASE ReadLine(line) \/ EndOfInput \/ Blank \/ SyntaxError \/ Skip \/ RunFails
             \/ \E l \in Lines : ReadLine(l)
    <3>1. UNCHANGED output /\ pc' # "done"
      BY <2>7 DEF ReadLine, EndOfInput, Blank, SyntaxError, Skip, RunFails, Ends, Then
    <3> QED
      BY <2>1, <3>1
  <2>8. CASE UNCHANGED vars
    BY <2>1, <2>8 DEF vars
  <2> QED
    BY <2>4, <2>5, <2>6, <2>7, <2>8 DEF Next, Done
<1>3. TypeInv /\ LostInv => NothingLost
  <2> SUFFICES ASSUME TypeInv, LostInv, pc = "done", NEW i \in 1..Len(said)
               PROVE  \E j \in 1..Len(out) : out[j] = said[i]
    BY DEF NothingLost
  <2>1. said \in Seq(Numbers)
    BY DEF TypeInv, TypeOK, Numbers
  <2>2. PICK x : x = said[i]
    OBVIOUS
  <2>3. x \in Numbers /\ Has(said, x)
    BY <2>1, <2>2 DEF Has
  <2> QED
    BY <2>2, <2>3 DEF LostInv, Has
<1> QED
  BY <1>1, <1>2, <1>3, TypeInvHolds, PTL DEF Spec

------------------------------------------------------------------------------
\* The parser, from the last token backwards: what it makes of the tokens from
\* the i-th on, with the name cmd of a program seen in this segment, or none.
Names == Word \cup {""}
At    == Nat \X Names \X BOOLEAN
Seg   == [cmd : Word, file : BOOLEAN]

Parse(ts, P, i, cmd, file) ==
    IF i > Len(ts) \/ ts[i] = "|"
    THEN IF cmd = "" THEN <<>>
         ELSE IF i >= Len(ts) THEN <<[cmd |-> cmd, file |-> file]>>
         ELSE IF P[<<i + 1, "", FALSE>>] = <<>> THEN <<>>
         ELSE <<[cmd |-> cmd, file |-> file]>> \o P[<<i + 1, "", FALSE>>]
    ELSE IF ts[i] \in Redir
    THEN IF Filename(ts, i) THEN P[<<i + 2, cmd, file \/ ts[i] = ">">>] ELSE <<>>
    ELSE IF ts[i] \in Word THEN P[<<i + 1, IF cmd = "" THEN ts[i] ELSE cmd, file>>]
    ELSE <<>>
Parses(ts, P) == P = [at \in At |-> Parse(ts, P, at[1], at[2], at[3])]

\* One step of the parser gives segments.
LEMMA ParseType ==
    ASSUME NEW ts \in Seq(Token), NEW P \in [At -> Seq(Seg)],
           NEW i \in Nat, NEW cmd \in Names, NEW file \in BOOLEAN
    PROVE  Parse(ts, P, i, cmd, file) \in Seq(Seg)
<1>1. \A j \in Nat, c \in Names, b \in BOOLEAN : P[<<j, c, b>>] \in Seq(Seg)
  BY DEF At
<1>2. i + 1 \in Nat /\ i + 2 \in Nat /\ "" \in Names /\ FALSE \in BOOLEAN
      /\ (file \/ ts[i] = ">") \in BOOLEAN
      /\ (ts[i] \in Word => ts[i] \in Names)
  <2>1. i + 1 \in Nat /\ i + 2 \in Nat
    OBVIOUS
  <2>2. "" \in Names /\ (ts[i] \in Word => ts[i] \in Names)
    BY DEF Names
  <2>3. (file \/ ts[i] = ">") \in BOOLEAN
    OBVIOUS
  <2> QED
    BY <2>1, <2>2, <2>3
<1>3. ASSUME cmd # "" PROVE /\ <<[cmd |-> cmd, file |-> file]>> \in Seq(Seg)
                            /\ <<[cmd |-> cmd, file |-> file]>> \o P[<<i + 1, "", FALSE>>] \in Seq(Seg)
  <2>1. [cmd |-> cmd, file |-> file] \in Seg
    BY <1>3 DEF Names, Seg
  <2>2. <<[cmd |-> cmd, file |-> file]>> \in Seq(Seg)
    BY <2>1, ShortSequences
  <2>3. P[<<i + 1, "", FALSE>>] \in Seq(Seg)
    BY <1>1, <1>2
  <2> QED
    BY <2>2, <2>3, ConcatProperties
<1>4. <<>> \in Seq(Seg)
  OBVIOUS
<1>5. P[<<i + 2, cmd, file \/ ts[i] = ">">>] \in Seq(Seg)
  BY <1>1, <1>2
<1>6. ts[i] \in Word => P[<<i + 1, IF cmd = "" THEN ts[i] ELSE cmd, file>>] \in Seq(Seg)
  BY <1>1, <1>2
<1> QED
  BY <1>3, <1>4, <1>5, <1>6 DEF Parse

\* It looks no further than two tokens ahead.
SameAhead(ts, f, g, i) ==
    i <= Len(ts) => \A j \in {i + 1, i + 2}, c \in Names, b \in BOOLEAN :
                        g[<<j, c, b>>] = f[<<j, c, b>>]

\* It looks only at what it says of the tokens ahead.
LEMMA ParseSame ==
    ASSUME NEW ts \in Seq(Token), NEW f, NEW g,
           NEW i \in Nat, NEW cmd \in Names, NEW file \in BOOLEAN,
           SameAhead(ts, f, g, i)
    PROVE  Parse(ts, g, i, cmd, file) = Parse(ts, f, i, cmd, file)
<1>0. (file \/ ts[i] = ">") \in BOOLEAN /\ Len(ts) \in Nat
  OBVIOUS
<1>1. "" \in Names /\ (ts[i] \in Word => ts[i] \in Names)
  BY DEF Names
<1>2. CASE i > Len(ts)
  <2>1. i > Len(ts) /\ i >= Len(ts)
    BY <1>0, <1>2
  <2> DEFINE one == IF cmd = "" THEN <<>> ELSE <<[cmd |-> cmd, file |-> file]>>
  <2>2. Parse(ts, f, i, cmd, file) = one
    BY <2>1 DEF Parse
  <2>3. Parse(ts, g, i, cmd, file) = one
    BY <2>1 DEF Parse
  <2> HIDE DEF one
  <2> QED
    BY <2>2, <2>3
<1>3. CASE i <= Len(ts)
  <2>0. \A j \in {i + 1, i + 2}, c \in Names, b \in BOOLEAN : g[<<j, c, b>>] = f[<<j, c, b>>]
    BY <1>3 DEF SameAhead
  <2>1. g[<<i + 1, "", FALSE>>] = f[<<i + 1, "", FALSE>>]
    BY <1>0, <1>1, <2>0
  <2>2. g[<<i + 2, cmd, file \/ ts[i] = ">">>] = f[<<i + 2, cmd, file \/ ts[i] = ">">>]
    BY <1>0, <1>1, <2>0
  <2>3. ts[i] \in Word => g[<<i + 1, IF cmd = "" THEN ts[i] ELSE cmd, file>>]
                          = f[<<i + 1, IF cmd = "" THEN ts[i] ELSE cmd, file>>]
    BY <1>0, <1>1, <2>0
  <2> QED
    BY <2>1, <2>2, <2>3 DEF Parse
<1> QED
  BY <1>0, <1>2, <1>3

\* The parser can be defined, from the end of the tokens backwards.
LEMMA ParseExists ==
    ASSUME NEW ts \in Seq(Token)
    PROVE  \E P \in [At -> Seq(Seg)] : Parses(ts, P)
<1> DEFINE Def(P, at) == Parse(ts, P, at[1], at[2], at[3])
           Good(d) == \E P \in [At -> Seq(Seg)] :
                         \A at \in At : at[1] + d > Len(ts) => P[at] = Def(P, at)
           Bad == {d \in Nat : ~Good(d)}
<1>1. Len(ts) \in Nat /\ \A at \in At : at[1] \in Nat /\ at[2] \in Names /\ at[3] \in BOOLEAN
  BY DEF At
<1>2. ASSUME NEW P \in [At -> Seq(Seg)], NEW at \in At PROVE Def(P, at) \in Seq(Seg)
  BY <1>1, ParseType
<1>3. Good(Len(ts) + 1)
  <2> SUFFICES ASSUME Bad # {} PROVE FALSE
    <3>1. Len(ts) + 1 \in Nat
      BY <1>1
    <3> HIDE DEF Good
    <3> QED
      BY <3>1
  <2>1. PICK d \in Bad : \A e \in Bad : d <= e
    BY LeastElement
  <2> DEFINE Z == [at \in At |-> <<>>]
  <2>2. \E f \in [At -> Seq(Seg)] :
          d > 0 => \A at \in At : at[1] + (d - 1) > Len(ts) => f[at] = Def(f, at)
    <3>1. Z \in [At -> Seq(Seg)]
      OBVIOUS
    <3>2. CASE d = 0
      <4> HIDE DEF Z, Def
      <4> QED
        BY <3>1, <3>2
    <3>3. CASE d > 0
      <4>1. d - 1 \in Nat /\ d - 1 \notin Bad
        <5> HIDE DEF Good
        <5>1. d - 1 \in Nat /\ ~(d <= d - 1)
          BY <3>3
        <5> QED
          BY <2>1, <5>1
      <4> HIDE DEF Def
      <4> QED
        BY <4>1
    <3> QED
      BY <3>2, <3>3
  <2>3. PICK f \in [At -> Seq(Seg)] :
          d > 0 => \A at \in At : at[1] + (d - 1) > Len(ts) => f[at] = Def(f, at)
    BY <2>2
  <2> DEFINE Known(at) == d > 0 /\ at[1] + (d - 1) > Len(ts)
             g == [at \in At |-> IF Known(at) THEN f[at] ELSE Def(f, at)]
  <2>4. g \in [At -> Seq(Seg)]
    <3> HIDE DEF Def, Known
    <3> QED
      BY <1>2
  <2>5. ASSUME NEW at \in At, at[1] + d > Len(ts) PROVE g[at] = Def(g, at)
    <3>1. g[at] = Def(f, at)
      <4> HIDE DEF Def
      <4> QED
        BY <2>3
    <3> DEFINE i == at[1]
               cmd == at[2]
               file == at[3]
    <3>2. i \in Nat /\ cmd \in Names /\ file \in BOOLEAN /\ Len(ts) \in Nat /\ d \in Nat
      BY <1>1
    <3> HIDE DEF i, cmd, file
    <3>3. ASSUME NEW j \in {i + 1, i + 2}, NEW c \in Names, NEW b \in BOOLEAN,
                 i <= Len(ts)
          PROVE  g[<<j, c, b>>] = f[<<j, c, b>>]
      <4>1. <<j, c, b>> \in At /\ <<j, c, b>>[1] = j
        BY <3>2 DEF At
      <4>2. j + (d - 1) > Len(ts) /\ d > 0
        BY <2>5, <3>2, <3>3 DEF i
      <4> HIDE DEF Def
      <4> QED
        BY <4>1, <4>2
    <3>4. Parse(ts, g, i, cmd, file) = Parse(ts, f, i, cmd, file)
      <4> HIDE DEF g, Known
      <4>1. SameAhead(ts, f, g, i)
        BY <3>3 DEF SameAhead
      <4> QED
        BY <3>2, <4>1, ParseSame
    <3> QED
      BY <3>1, <3>4 DEF i, cmd, file
  <2>6. Good(d)
    <3> HIDE DEF g, Def
    <3> QED
      BY <2>4, <2>5
  <2> QED
    BY <2>1, <2>6
<1>4. PICK P \in [At -> Seq(Seg)] :
         \A at \in At : at[1] + (Len(ts) + 1) > Len(ts) => P[at] = Def(P, at)
  BY <1>3
<1>5. \A at \in At : P[at] = Def(P, at)
  <2> HIDE DEF Def
  <2> SUFFICES ASSUME NEW at \in At PROVE P[at] = Def(P, at)
    OBVIOUS
  <2>1. at[1] + (Len(ts) + 1) > Len(ts)
    BY <1>1
  <2> QED
    BY <1>4, <2>1
<1> QED
  BY <1>5 DEF Parses

\* Segments is what some such parser finds.
LEMMA SegmentsParse ==
    ASSUME NEW ts \in Seq(Token)
    PROVE  \E P \in [At -> Seq(Seg)] : Parses(ts, P) /\ Segments(ts) = P[<<1, "", FALSE>>]
<1> DEFINE G == CHOOSE P : P = [at \in At |-> Parse(ts, P, at[1], at[2], at[3])]
<1>1. Parses(ts, G)
  BY ParseExists DEF Parses
<1>2. Segments(ts) = G[<<1, "", FALSE>>]
  BY DEF Segments, Parse, At, Names
<1> HIDE DEF G
<1>3. PICK f \in [At -> Seq(Seg)] : Parses(ts, f)
  BY ParseExists
<1>4. /\ \A at \in At : at[1] \in Nat /\ at[2] \in Names /\ at[3] \in BOOLEAN
      /\ \A at \in At : f[at] = Parse(ts, f, at[1], at[2], at[3])
      /\ \A at \in At : G[at] = Parse(ts, G, at[1], at[2], at[3])
  BY <1>1, <1>3 DEF At, Parses
<1> DEFINE Bad == {d \in Nat : \E at \in At : at[1] + d > Len(ts) /\ f[at] # G[at]}
<1>5. ASSUME Bad # {} PROVE FALSE
  <2>1. PICK d \in Bad : \A e \in Bad : d <= e
    BY <1>5, LeastElement
  <2>2. PICK at \in At : at[1] + d > Len(ts) /\ f[at] # G[at]
    OBVIOUS
  <2>3. Len(ts) \in Nat /\ d \in Nat /\ at[1] \in Nat
    BY <1>4
  <2>4. ASSUME NEW j \in {at[1] + 1, at[1] + 2}, NEW c \in Names, NEW b \in BOOLEAN,
               at[1] <= Len(ts)
        PROVE  G[<<j, c, b>>] = f[<<j, c, b>>]
    <3>1. <<j, c, b>> \in At /\ <<j, c, b>>[1] = j
      BY <2>3 DEF At
    <3>2. d - 1 \in Nat /\ j + (d - 1) > Len(ts)
      BY <2>2, <2>3, <2>4
    <3>3. d - 1 \notin Bad
      <4>1. ~(d <= d - 1)
        BY <2>3
      <4> HIDE DEF Bad
      <4> QED
        BY <2>1, <4>1
    <3> QED
      BY <3>1, <3>2, <3>3
  <2>5. Parse(ts, G, at[1], at[2], at[3]) = Parse(ts, f, at[1], at[2], at[3])
    <3>1. SameAhead(ts, f, G, at[1])
      BY <2>4 DEF SameAhead
    <3> QED
      BY <1>4, <3>1, ParseSame
  <2> QED
    BY <1>4, <2>2, <2>5
<1>6. <<1, "", FALSE>> \in At /\ <<1, "", FALSE>>[1] = 1
  BY DEF At, Names
<1>7. f[<<1, "", FALSE>>] = G[<<1, "", FALSE>>]
  <2>1. Len(ts) \in Nat /\ 1 + Len(ts) > Len(ts)
    OBVIOUS
  <2> QED
    BY <1>5, <1>6, <2>1
<1> QED
  BY <1>2, <1>3, <1>7

------------------------------------------------------------------------------
\* The grammar, from the i-th token on. A command may end at j,
EndsAt(ts, i, j) ==
    /\ j \in i - 1 .. Len(ts)
    /\ j = Len(ts) \/ ts[j + 1] = "|"
    /\ \A x \in i..j : ts[x] # "|"

\* and what is left of it up to there goes with what was seen of it.
Rest(ts, i, j, named) ==
    /\ \A x \in i..j : /\ ts[x] \notin {"and", "or"}
                       /\ ts[x] \in Redir => x < j /\ ts[x + 1] \in Word
    /\ named \/ \E x \in i..j : ts[x] \in Word /\ ~(x > i /\ ts[x - 1] \in Redir)

Later(ts, i) == \A w \in Window(ts) :
                    w[1] > i => w[1] = Len(ts) + 1 \/ Command(ts, w[1], w[2])
Accept(ts, i, named) == /\ \A j : EndsAt(ts, i, j) => Rest(ts, i, j, named)
                        /\ Later(ts, i)

\* A command from its beginning to an end is a window.
LEMMA WindowEnds ==
    ASSUME NEW ts \in Seq(Token), NEW i \in 1..Len(ts) + 1,
           i = 1 \/ ts[i - 1] = "|"
    PROVE  \A j : EndsAt(ts, i, j) => <<i, j>> \in Window(ts)
<1> SUFFICES ASSUME NEW j, EndsAt(ts, i, j) PROVE <<i, j>> \in Window(ts)
  OBVIOUS
<1>1. Len(ts) \in Nat
  OBVIOUS
<1>2. j \in 0..Len(ts) /\ i <= j + 1
  BY <1>1 DEF EndsAt
<1> QED
  BY <1>1, <1>2 DEF EndsAt, Window

\* Every command ends, at a bar or with the line.
LEMMA EndExists ==
    ASSUME NEW ts \in Seq(Token), NEW i \in 1..Len(ts) + 1
    PROVE  \E j : EndsAt(ts, i, j)
<1> DEFINE S == {e \in i..Len(ts) + 1 : e = Len(ts) + 1 \/ ts[e] = "|"}
<1>1. Len(ts) \in Nat /\ i \in Nat
  OBVIOUS
<1>2. Len(ts) + 1 \in S /\ S \subseteq Nat
  BY <1>1
<1>3. PICK e \in S : \A x \in S : e <= x
  BY <1>2, LeastElement
<1>4. e - 1 \in i - 1 .. Len(ts) /\ (e - 1) + 1 = e /\ (e - 1 = Len(ts) \/ ts[e] = "|")
  BY <1>1
<1>5. \A x \in i .. e - 1 : ts[x] # "|"
  BY <1>1, <1>3
<1> QED
  BY <1>4, <1>5 DEF EndsAt

\* A token that is no | is in the command it stands in.
LEMMA NoBar ==
    ASSUME NEW ts \in Seq(Token), NEW i \in 1..Len(ts), ts[i] # "|"
    PROVE  /\ \A j : EndsAt(ts, i, j) <=> EndsAt(ts, i + 1, j)
           /\ \A j : EndsAt(ts, i, j) => j \in i..Len(ts)
           /\ Later(ts, i) <=> Later(ts, i + 1)
<1>1. Len(ts) \in Nat /\ i \in Nat /\ i >= 1 /\ i <= Len(ts)
  OBVIOUS
<1>2. ASSUME NEW j, EndsAt(ts, i, j) PROVE EndsAt(ts, i + 1, j) /\ j \in i..Len(ts)
  <2>1. j \in i - 1 .. Len(ts) /\ (j = Len(ts) \/ ts[j + 1] = "|") /\ \A x \in i..j : ts[x] # "|"
    BY <1>2 DEF EndsAt
  <2>2. j # i - 1
    <3> SUFFICES ASSUME j = i - 1 PROVE FALSE
      OBVIOUS
    <3>1. j + 1 = i /\ j # Len(ts)
      BY <1>1
    <3> QED
      BY <2>1, <3>1
  <2>3. j \in (i + 1) - 1 .. Len(ts) /\ j \in i..Len(ts)
    BY <1>1, <2>1, <2>2
  <2> QED
    BY <1>1, <2>1, <2>3 DEF EndsAt
<1>3. ASSUME NEW j, EndsAt(ts, i + 1, j) PROVE EndsAt(ts, i, j)
  <2>1. j \in i..Len(ts) /\ (j = Len(ts) \/ ts[j + 1] = "|") /\ \A x \in i + 1..j : ts[x] # "|"
    BY <1>1, <1>3 DEF EndsAt
  <2>2. \A x \in i..j : ts[x] # "|"
    <3> SUFFICES ASSUME NEW x \in i..j PROVE ts[x] # "|"
      OBVIOUS
    <3>1. x = i \/ x \in i + 1..j
      BY <1>1, <2>1
    <3> QED
      BY <2>1, <3>1
  <2>3. j \in i - 1 .. Len(ts)
    BY <1>1, <2>1
  <2> QED
    BY <2>1, <2>2, <2>3 DEF EndsAt
<1>4. \A w \in Window(ts) : w[1] \in Nat /\ w[1] # i + 1
  <2> SUFFICES ASSUME NEW w \in Window(ts) PROVE w[1] \in Nat /\ w[1] # i + 1
    OBVIOUS
  <2>1. w[1] \in 1..Len(ts) + 1 /\ (w[1] = 1 \/ ts[w[1] - 1] = "|")
    BY DEF Window
  <2>2. w[1] = i + 1 => w[1] # 1 /\ w[1] - 1 = i
    BY <1>1
  <2> QED
    BY <2>1, <2>2
<1>5. \A w \in Window(ts) : w[1] > i <=> w[1] > i + 1
  BY <1>1, <1>4
<1>6. Later(ts, i) <=> Later(ts, i + 1)
  BY <1>5 DEF Later
<1> QED
  BY <1>2, <1>3, <1>6

\* Past the last token nothing more is needed than a name.
LEMMA AcceptPast ==
    ASSUME NEW ts \in Seq(Token), NEW named \in BOOLEAN
    PROVE  Accept(ts, Len(ts) + 1, named) <=> named
<1>1. Len(ts) \in Nat
  OBVIOUS
<1>2. \A j : EndsAt(ts, Len(ts) + 1, j) <=> j = Len(ts)
  BY <1>1 DEF EndsAt
<1>3. Rest(ts, Len(ts) + 1, Len(ts), named) <=> named
  BY <1>1 DEF Rest
<1>4. Later(ts, Len(ts) + 1)
  BY <1>1 DEF Later, Window
<1> QED
  BY <1>2, <1>3, <1>4 DEF Accept

\* A bar wants a named command before it and a job after it, or nothing.
LEMMA AcceptBar ==
    ASSUME NEW ts \in Seq(Token), NEW i \in 1..Len(ts), ts[i] = "|", NEW named \in BOOLEAN
    PROVE  Accept(ts, i, named) <=> named /\ (i = Len(ts) \/ Accept(ts, i + 1, FALSE))
<1>1. Len(ts) \in Nat /\ i \in Nat /\ i >= 1 /\ i <= Len(ts)
  OBVIOUS
<1>2. \A j : EndsAt(ts, i, j) <=> j = i - 1
  <2>1. ASSUME NEW j, EndsAt(ts, i, j) PROVE j = i - 1
    <3>1. j \in i - 1 .. Len(ts) /\ \A x \in i..j : ts[x] # "|"
      BY <2>1 DEF EndsAt
    <3>2. i \notin i..j
      BY <3>1
    <3> QED
      BY <1>1, <3>1, <3>2
  <2>2. EndsAt(ts, i, i - 1)
    <3>1. (i - 1) + 1 = i /\ i - 1 \in i - 1 .. Len(ts) /\ i .. i - 1 = {}
      BY <1>1
    <3> QED
      BY <3>1 DEF EndsAt
  <2> QED
    BY <2>1, <2>2
<1>3. Rest(ts, i, i - 1, named) <=> named
  <2>1. i .. i - 1 = {}
    BY <1>1
  <2> QED
    BY <2>1 DEF Rest
<1>4. Accept(ts, i, named) <=> named /\ Later(ts, i)
  BY <1>2, <1>3 DEF Accept
<1>5. CASE i = Len(ts)
  <2>1. \A w \in Window(ts) : w[1] \in 1..Len(ts) + 1
    BY DEF Window
  <2>2. Later(ts, i)
    BY <1>1, <1>5, <2>1 DEF Later
  <2> QED
    BY <1>4, <1>5, <2>2
<1>6. CASE i < Len(ts)
  <2>1. (i + 1) - 1 = i /\ i + 1 \in 1..Len(ts) + 1 /\ i + 1 # Len(ts) + 1 /\ i # Len(ts)
    BY <1>1, <1>6
  <2>2. \A j : EndsAt(ts, i + 1, j) => <<i + 1, j>> \in Window(ts)
    BY <2>1, WindowEnds
  <2>3. ASSUME NEW w \in Window(ts), w[1] = i + 1
        PROVE  EndsAt(ts, i + 1, w[2])
    <3>1. w[2] \in 0..Len(ts) /\ i + 1 <= w[2] + 1
      BY <2>3 DEF Window
    <3>2. w[2] \in (i + 1) - 1 .. Len(ts)
      BY <1>1, <3>1
    <3> QED
      BY <2>3, <3>2 DEF Window, EndsAt
  <2>4. \A j : Rest(ts, i + 1, j, FALSE) <=> Command(ts, i + 1, j)
    BY DEF Rest, Command
  <2>5. ASSUME Later(ts, i) PROVE Accept(ts, i + 1, FALSE)
    <3>1. \A j : EndsAt(ts, i + 1, j) => Command(ts, i + 1, j)
      <4> SUFFICES ASSUME NEW j, EndsAt(ts, i + 1, j) PROVE Command(ts, i + 1, j)
        OBVIOUS
      <4> DEFINE w == <<i + 1, j>>
      <4>1. w \in Window(ts) /\ w[1] = i + 1 /\ w[2] = j /\ w[1] > i
        BY <1>1, <2>2
      <4> HIDE DEF w
      <4> QED
        BY <2>1, <2>5, <4>1 DEF Later
    <3>2. Later(ts, i + 1)
      <4>1. \A w \in Window(ts) : w[1] \in Nat
        BY DEF Window
      <4>2. \A w \in Window(ts) : w[1] > i + 1 => w[1] > i
        BY <1>1, <4>1
      <4> QED
        BY <2>5, <4>2 DEF Later
    <3> QED
      BY <2>4, <3>1, <3>2 DEF Accept
  <2>6. ASSUME Accept(ts, i + 1, FALSE) PROVE Later(ts, i)
    <3> SUFFICES ASSUME NEW w \in Window(ts), w[1] > i
                 PROVE  w[1] = Len(ts) + 1 \/ Command(ts, w[1], w[2])
      BY DEF Later
    <3>1. CASE w[1] = i + 1
      BY <2>3, <2>4, <2>6, <3>1 DEF Accept
    <3>2. CASE w[1] # i + 1
      <4>1. w[1] > i + 1
        BY <1>1, <3>2 DEF Window
      <4> QED
        BY <2>6, <4>1 DEF Accept, Later
    <3> QED
      BY <3>1, <3>2
  <2> QED
    BY <1>4, <2>1, <2>5, <2>6
<1>7. i = Len(ts) \/ i < Len(ts)
  BY <1>1
<1> QED
  BY <1>5, <1>6, <1>7

\* A word names the command.
LEMMA AcceptWord ==
    ASSUME NEW ts \in Seq(Token), NEW i \in 1..Len(ts), ts[i] \in Word, NEW named \in BOOLEAN
    PROVE  Accept(ts, i, named) <=> Accept(ts, i + 1, TRUE)
<1>1. Len(ts) \in Nat /\ i \in Nat /\ i >= 1 /\ i <= Len(ts)
  OBVIOUS
<1>2. ts[i] # "|" /\ ts[i] \notin Redir /\ ts[i] \notin {"and", "or"}
  BY DEF Word, Redir
<1>3. ASSUME NEW j \in i..Len(ts)
      PROVE  Rest(ts, i, j, named) <=> Rest(ts, i + 1, j, TRUE)
  <2>1. i \in i..j /\ ~(i > i) /\ \A x : x \in i..j <=> x = i \/ x \in i + 1..j
    BY <1>1
  <2> QED
    BY <1>2, <2>1 DEF Rest
<1>4. /\ \A j : EndsAt(ts, i, j) <=> EndsAt(ts, i + 1, j)
      /\ \A j : EndsAt(ts, i, j) => j \in i..Len(ts)
      /\ Later(ts, i) <=> Later(ts, i + 1)
  BY <1>2, NoBar
<1> QED
  BY <1>3, <1>4 DEF Accept

\* A redirection wants a file, which does not name the command.
LEMMA AcceptRedir ==
    ASSUME NEW ts \in Seq(Token), NEW i \in 1..Len(ts), ts[i] \in Redir, NEW named \in BOOLEAN
    PROVE  Accept(ts, i, named) <=> Filename(ts, i) /\ Accept(ts, i + 2, named)
<1>1. Len(ts) \in Nat /\ i \in Nat /\ i >= 1 /\ i <= Len(ts)
  OBVIOUS
<1>2. ts[i] # "|" /\ ts[i] \notin Word /\ ts[i] \notin {"and", "or"}
  BY DEF Word, Redir
<1>3. /\ \A j : EndsAt(ts, i, j) <=> EndsAt(ts, i + 1, j)
      /\ \A j : EndsAt(ts, i, j) => j \in i..Len(ts)
      /\ Later(ts, i) <=> Later(ts, i + 1)
  BY <1>2, NoBar
<1>4. CASE ~Filename(ts, i)
  <2>1. PICK j : EndsAt(ts, i, j)
    <3>1. i \in 1..Len(ts) + 1
      BY <1>1
    <3> QED
      BY <3>1, EndExists
  <2>2. j \in i..Len(ts) /\ i \in i..j
    BY <1>1, <1>3, <2>1
  <2>3. ~(i < j /\ ts[i + 1] \in Word)
    BY <1>1, <1>4, <2>2 DEF Filename
  <2>4. ~Rest(ts, i, j, named)
    BY <2>2, <2>3 DEF Rest
  <2> QED
    BY <1>4, <2>1, <2>4 DEF Accept
<1>5. CASE Filename(ts, i)
  <2>1. i + 1 \in 1..Len(ts) /\ ts[i + 1] \in Word /\ (i + 1) + 1 = i + 2
    BY <1>1, <1>5 DEF Filename
  <2>2. ts[i + 1] # "|" /\ ts[i + 1] \notin Redir /\ ts[i + 1] \notin {"and", "or"}
    BY <2>1 DEF Word, Redir
  <2>3. /\ \A j : EndsAt(ts, i + 1, j) <=> EndsAt(ts, i + 2, j)
        /\ \A j : EndsAt(ts, i + 1, j) => j \in i + 1..Len(ts)
        /\ Later(ts, i + 1) <=> Later(ts, i + 2)
    BY <2>1, <2>2, NoBar
  <2>4. ASSUME NEW j \in i + 1..Len(ts)
        PROVE  Rest(ts, i, j, named) <=> Rest(ts, i + 2, j, named)
    <3>1. /\ i < j /\ i \in i..j /\ i + 1 \in i..j
          /\ \A x : x \in i..j <=> x = i \/ x = i + 1 \/ x \in i + 2..j
          /\ i + 1 > i /\ (i + 1) - 1 = i
      BY <1>1
    <3> DEFINE Fits(x) == /\ ts[x] \notin {"and", "or"}
                          /\ ts[x] \in Redir => x < j /\ ts[x + 1] \in Word
               Named(k, x) == ts[x] \in Word /\ ~(x > k /\ ts[x - 1] \in Redir)
    <3>2. Fits(i) /\ Fits(i + 1)
      BY <1>2, <2>1, <2>2, <3>1
    <3>3. ~Named(i, i) /\ ~Named(i, i + 1)
      BY <1>2, <3>1
    <3>4. ASSUME NEW x \in i + 2..j PROVE Named(i, x) <=> Named(i + 2, x)
      <4>1. x > i /\ (x = i + 2 \/ x > i + 2)
        BY <1>1
      <4>2. x = i + 2 => x - 1 = i + 1 /\ ~(x > i + 2)
        BY <1>1
      <4> QED
        BY <2>2, <4>1, <4>2
    <3>5. Rest(ts, i, j, named) <=> /\ \A x \in i..j : Fits(x)
                                    /\ named \/ \E x \in i..j : Named(i, x)
      BY DEF Rest
    <3>6. Rest(ts, i + 2, j, named) <=> /\ \A x \in i + 2..j : Fits(x)
                                        /\ named \/ \E x \in i + 2..j : Named(i + 2, x)
      BY DEF Rest
    <3> HIDE DEF Fits, Named
    <3> QED
      BY <3>1, <3>2, <3>3, <3>4, <3>5, <3>6
  <2>5. \A j : EndsAt(ts, i, j) <=> EndsAt(ts, i + 2, j)
    BY <1>3, <2>3
  <2>6. \A j : EndsAt(ts, i, j) => (Rest(ts, i, j, named) <=> Rest(ts, i + 2, j, named))
    BY <1>3, <2>3, <2>4
  <2> QED
    BY <1>3, <1>5, <2>3, <2>5, <2>6 DEF Accept
<1> QED
  BY <1>4, <1>5

\* and and or do not belong within a job.
LEMMA AcceptElse ==
    ASSUME NEW ts \in Seq(Token), NEW i \in 1..Len(ts), ts[i] \in {"and", "or"},
           NEW named \in BOOLEAN
    PROVE  ~Accept(ts, i, named)
<1>1. i \in 1..Len(ts) + 1 /\ ts[i] # "|" /\ i \in Nat
  OBVIOUS
<1>2. PICK j : EndsAt(ts, i, j)
  BY <1>1, EndExists
<1>3. j \in i..Len(ts)
  BY <1>1, <1>2, NoBar
<1>4. i \in i..j
  BY <1>1, <1>3
<1> QED
  BY <1>2, <1>4 DEF Accept, Rest

\* From the i-th token on the parser finds a command exactly when what is left is
\* of the grammar.
LEMMA ParserAccepts ==
    ASSUME NEW ts \in Seq(Token), NEW P \in [At -> Seq(Seg)], Parses(ts, P)
    PROVE  \A i \in 1..Len(ts) + 1, cmd \in Names, file \in BOOLEAN :
              P[<<i, cmd, file>>] # <<>> <=> Accept(ts, i, cmd # "")
<1> DEFINE Right(i) == \A cmd \in Names, file \in BOOLEAN :
                          P[<<i, cmd, file>>] # <<>> <=> Accept(ts, i, cmd # "")
           Bad == {d \in 0..Len(ts) : ~Right((Len(ts) + 1) - d)}
<1>0. Len(ts) \in Nat
  OBVIOUS
<1>1. \A i \in 1..Len(ts) : ts[i] \in Token
  OBVIOUS
<1>2. ASSUME Bad # {} PROVE FALSE
  <2>1. Bad \subseteq Nat
    <3> HIDE DEF Right
    <3> QED
      BY <1>0
  <2>2. PICK d \in Bad : \A e \in Bad : d <= e
    BY <1>2, <2>1, LeastElement
  <2> DEFINE i == (Len(ts) + 1) - d
  <2>3. d \in 0..Len(ts) /\ i \in 1..Len(ts) + 1 /\ i \in Nat /\ ~Right(i)
    <3>1. d \in 0..Len(ts)
      <4> HIDE DEF Right
      <4> QED
        OBVIOUS
    <3>3. ~Right(i)
      <4> HIDE DEF Right
      <4> QED
        OBVIOUS
    <3>2. (Len(ts) + 1) - d \in 1..Len(ts) + 1 /\ (Len(ts) + 1) - d \in Nat
      <4> HIDE DEF Right, Bad
      <4> QED
        BY <1>0, <3>1
    <3> QED
      BY <3>1, <3>2, <3>3
  <2>4. ASSUME NEW k \in i + 1..Len(ts) + 1 PROVE Right(k)
    <3> HIDE DEF Right
    <3>1. (Len(ts) + 1) - k \in 0..Len(ts) /\ ~(d <= (Len(ts) + 1) - k)
          /\ (Len(ts) + 1) - ((Len(ts) + 1) - k) = k
      BY <1>0, <2>3, <2>4
    <3>2. (Len(ts) + 1) - k \notin Bad
      <4> HIDE DEF Bad
      <4> QED
        BY <2>2, <3>1
    <3> QED
      BY <3>1, <3>2
  <2> HIDE DEF i, Bad
  <2>5. PICK cmd \in Names, file \in BOOLEAN :
          ~(P[<<i, cmd, file>>] # <<>> <=> Accept(ts, i, cmd # ""))
    BY <2>3
  <2> DEFINE named == cmd # ""
  <2>15. i \in Nat /\ 1 <= i /\ i <= Len(ts) + 1
    <3>1. i \in 1..Len(ts) + 1
      BY <2>3
    <3> QED
      BY <1>0, <3>1
  <2>6. P[<<i, cmd, file>>] = Parse(ts, P, i, cmd, file)
    <3>1. <<i, cmd, file>> \in At /\ <<i, cmd, file>>[1] = i
          /\ <<i, cmd, file>>[2] = cmd /\ <<i, cmd, file>>[3] = file
      BY <2>3 DEF At
    <3> QED
      BY <3>1 DEF Parses
  <2>7. named \in BOOLEAN /\ "" \in Names /\ Word \subseteq Names /\ "" \notin Word
    BY DEF Names, Word
  <2>8. CASE i = Len(ts) + 1
    <3>1. i > Len(ts) /\ i >= Len(ts)
      BY <1>1, <2>8
    <3>2. Accept(ts, i, named) <=> named
      BY <2>7, <2>8, AcceptPast
    <3>3. cmd = "" => P[<<i, cmd, file>>] = <<>>
      BY <2>6, <3>1 DEF Parse
    <3>4. cmd # "" => P[<<i, cmd, file>>] = <<[cmd |-> cmd, file |-> file]>>
      BY <2>6, <3>1 DEF Parse
    <3>5. <<[cmd |-> cmd, file |-> file]>> # <<>>
      OBVIOUS
    <3> QED
      BY <2>5, <3>2, <3>3, <3>4, <3>5
  <2>9. CASE i \in 1..Len(ts) /\ ts[i] = "|"
    <3>1. Accept(ts, i, named) <=> named /\ (i = Len(ts) \/ Accept(ts, i + 1, FALSE))
      BY <2>7, <2>9, AcceptBar
    <3>2. <<[cmd |-> cmd, file |-> file]>> # <<>>
      OBVIOUS
    <3>3. CASE cmd = ""
      <4>1. P[<<i, cmd, file>>] = <<>>
        BY <2>6, <2>9, <3>3 DEF Parse
      <4> QED
        BY <2>5, <3>1, <3>3, <4>1
    <3>4. CASE cmd # "" /\ i = Len(ts)
      <4>1. i >= Len(ts)
        <5>1. i = Len(ts)
          BY <3>4
        <5> QED
          BY <1>0, <5>1
      <4>2. P[<<i, cmd, file>>] = <<[cmd |-> cmd, file |-> file]>>
        BY <2>6, <2>9, <3>4, <4>1 DEF Parse
      <4> QED
        BY <2>5, <3>1, <3>2, <3>4, <4>2
    <3>5. CASE cmd # "" /\ i # Len(ts)
      <4>1. ~(i >= Len(ts)) /\ ~(i > Len(ts)) /\ i + 1 \in i + 1..Len(ts) + 1 /\ i + 1 \in Nat
        <5>1. i \in 1..Len(ts) /\ i # Len(ts)
          BY <2>9, <3>5
        <5> QED
          BY <1>0, <5>1
      <4> DEFINE rest == P[<<i + 1, "", FALSE>>]
      <4>2. rest # <<>> <=> Accept(ts, i + 1, FALSE)
        BY <2>4, <2>7, <4>1
      <4>3. rest \in Seq(Seg) /\ <<[cmd |-> cmd, file |-> file]>> \in Seq(Seg)
        <5>1. <<i + 1, "", FALSE>> \in At
          BY <2>7, <4>1 DEF At
        <5>2. [cmd |-> cmd, file |-> file] \in Seg
          BY <3>5 DEF Seg, Names
        <5> QED
          BY <5>1, <5>2, ShortSequences
      <4>4. P[<<i, cmd, file>>] = IF rest = <<>> THEN <<>>
                                  ELSE <<[cmd |-> cmd, file |-> file]>> \o rest
        BY <2>6, <2>9, <3>5, <4>1 DEF Parse
      <4> HIDE DEF rest
      <4>5. <<[cmd |-> cmd, file |-> file]>> \o rest # <<>>
        <5>1. Len(<<[cmd |-> cmd, file |-> file]>> \o rest) = 1 + Len(rest) /\ Len(rest) \in Nat
          BY <4>3, ConcatProperties
        <5> QED
          BY <5>1
      <4> QED
        BY <2>5, <3>1, <3>5, <4>2, <4>4, <4>5
    <3> QED
      BY <3>3, <3>4, <3>5
  <2>10. CASE i \in 1..Len(ts) /\ ts[i] \in Redir
    <3>1. Accept(ts, i, named) <=> Filename(ts, i) /\ Accept(ts, i + 2, named)
      BY <2>7, <2>10, AcceptRedir
    <3>2. ts[i] # "|" /\ ~(i > Len(ts))
      BY <1>1, <2>10 DEF Redir
    <3> DEFINE b == file \/ ts[i] = ">"
    <3>3. P[<<i, cmd, file>>] = IF Filename(ts, i) THEN P[<<i + 2, cmd, b>>] ELSE <<>>
      BY <2>6, <2>10, <3>2 DEF Parse
    <3>4. b \in BOOLEAN
      OBVIOUS
    <3> HIDE DEF b
    <3>5. CASE Filename(ts, i)
      <4>0. i < Len(ts)
        BY <3>5 DEF Filename
      <4>1. i + 2 \in i + 1..Len(ts) + 1
        BY <1>0, <2>15, <4>0
      <4>2. P[<<i + 2, cmd, b>>] # <<>> <=> Accept(ts, i + 2, named)
        BY <2>4, <3>4, <4>1
      <4> QED
        BY <2>5, <3>1, <3>3, <3>5, <4>2
    <3>6. CASE ~Filename(ts, i)
      BY <2>5, <3>1, <3>3, <3>6
    <3> QED
      BY <3>5, <3>6
  <2>11. CASE i \in 1..Len(ts) /\ ts[i] \in Word
    <3>1. Accept(ts, i, named) <=> Accept(ts, i + 1, TRUE)
      BY <2>7, <2>11, AcceptWord
    <3>2. ts[i] # "|" /\ ts[i] \notin Redir /\ ~(i > Len(ts))
      BY <1>1, <2>11 DEF Redir, Word
    <3> DEFINE c == IF cmd = "" THEN ts[i] ELSE cmd
    <3>3. P[<<i, cmd, file>>] = P[<<i + 1, c, file>>]
      BY <2>6, <2>11, <3>2 DEF Parse
    <3>4. c \in Names /\ c # ""
      BY <2>7, <2>11
    <3> HIDE DEF c
    <3>7. i <= Len(ts)
      BY <1>0, <2>11
    <3>8. i + 1 \in i + 1..Len(ts) + 1
      BY <1>0, <2>15, <3>7
    <3>5. P[<<i + 1, c, file>>] # <<>> <=> Accept(ts, i + 1, c # "")
      BY <2>4, <3>4, <3>8
    <3>6. (c # "") = TRUE
      BY <3>4
    <3> QED
      BY <2>5, <3>1, <3>3, <3>5, <3>6
  <2>12. CASE i \in 1..Len(ts) /\ ts[i] \in {"and", "or"}
    <3>1. ~Accept(ts, i, named)
      BY <2>7, <2>12, AcceptElse
    <3>2. ts[i] # "|" /\ ts[i] \notin Redir /\ ts[i] \notin Word /\ ~(i > Len(ts))
      BY <1>1, <2>12 DEF Redir, Word
    <3>3. P[<<i, cmd, file>>] = <<>>
      BY <2>6, <3>2 DEF Parse
    <3> QED
      BY <2>5, <3>1, <3>3
  <2>13. i = Len(ts) + 1 \/ i \in 1..Len(ts)
    BY <1>0, <2>15
  <2>14. i \in 1..Len(ts) => \/ ts[i] = "|" \/ ts[i] \in Redir \/ ts[i] \in Word
                             \/ ts[i] \in {"and", "or"}
    BY <1>1 DEF Token
  <2> QED
    BY <2>8, <2>9, <2>10, <2>11, <2>12, <2>13, <2>14
<1>3. ASSUME NEW i \in 1..Len(ts) + 1 PROVE Right(i)
  <2> HIDE DEF Right
  <2>1. (Len(ts) + 1) - i \in 0..Len(ts) /\ (Len(ts) + 1) - ((Len(ts) + 1) - i) = i
    BY <1>0
  <2> QED
    BY <1>2, <2>1
<1> QED
  BY <1>3

\* parse_job accepts the sequences of tokens that are a job of the grammar.
LEMMA JobsParse ==
    ASSUME NEW ts \in Seq(Token)
    PROVE  Segments(ts) # <<>> <=> IsJob(ts)
<1>1. PICK P \in [At -> Seq(Seg)] : Parses(ts, P) /\ Segments(ts) = P[<<1, "", FALSE>>]
  BY SegmentsParse
<1>2. Len(ts) \in Nat /\ 1 \in 1..Len(ts) + 1 /\ "" \in Names /\ ("" # "") = FALSE
  BY DEF Names
<1>3. Segments(ts) # <<>> <=> Accept(ts, 1, FALSE)
  BY <1>1, <1>2, ParserAccepts
<1>4. \A j : Rest(ts, 1, j, FALSE) <=> Command(ts, 1, j)
  BY DEF Rest, Command
<1>5. ASSUME Accept(ts, 1, FALSE) PROVE IsJob(ts)
  <2>1. ts # <<>>
    <3> SUFFICES ASSUME ts = <<>> PROVE FALSE
      OBVIOUS
    <3>1. Len(ts) + 1 = 1
      OBVIOUS
    <3>2. Accept(ts, Len(ts) + 1, FALSE)
      BY <1>5, <3>1
    <3> QED
      BY <3>2, AcceptPast
  <2>2. 1 \in 1..Len(ts)
    BY <2>1
  <2>3. ts[1] # "|"
    BY <1>5, <2>2, AcceptBar
  <2>4. ASSUME NEW w \in Window(ts), w[1] # Len(ts) + 1 PROVE Command(ts, w[1], w[2])
    <3>1. CASE w[1] > 1
      BY <1>5, <2>4, <3>1 DEF Accept, Later
    <3>2. CASE w[1] = 1
      <4>1. w \in Window(ts) /\ w[2] \in 0..Len(ts) /\ w[1] \in 1..Len(ts) + 1
        BY DEF Window
      <4>2. /\ \A x \in w[1]..w[2] : ts[x] # "|"
            /\ w[2] = Len(ts) \/ ts[w[2] + 1] = "|"
        BY DEF Window
      <4>3. EndsAt(ts, 1, w[2])
        <5>1. 1 - 1 = 0
          OBVIOUS
        <5>2. w[2] \in 1 - 1..Len(ts)
          BY <4>1, <5>1
        <5> QED
          BY <3>2, <4>2, <5>2 DEF EndsAt
      <4> QED
        BY <1>4, <1>5, <3>2, <4>3 DEF Accept
    <3>3. w[1] = 1 \/ w[1] > 1
      <4>1. w[1] \in 1..Len(ts) + 1
        BY DEF Window
      <4>2. Len(ts) \in Nat
        OBVIOUS
      <4> QED
        BY <4>1, <4>2
    <3> QED
      BY <3>1, <3>2, <3>3
  <2> QED
    BY <2>1, <2>3, <2>4 DEF IsJob
<1>6. ASSUME IsJob(ts) PROVE Accept(ts, 1, FALSE)
  <2>1. \A w \in Window(ts) : w[1] = Len(ts) + 1 \/ Command(ts, w[1], w[2])
    BY <1>6 DEF IsJob
  <2>2. Later(ts, 1)
    BY <2>1 DEF Later
  <2>3. 1 # Len(ts) + 1
    BY <1>6 DEF IsJob
  <2>4. ASSUME NEW j, EndsAt(ts, 1, j) PROVE Command(ts, 1, j)
    <3> DEFINE w == <<1, j>>
    <3>1. w \in Window(ts) /\ w[1] = 1 /\ w[2] = j
      BY <1>2, <2>4, WindowEnds
    <3> HIDE DEF w
    <3> QED
      BY <2>1, <2>3, <3>1
  <2> QED
    BY <1>4, <2>2, <2>4 DEF Accept
<1> QED
  BY <1>3, <1>5, <1>6

\* parse_job accepts the lines of the grammar and no other, for lines of any
\* length (parse.c 130-209).
THEOREM GrammarParsed == Spec => []ParsesGrammar
<1>1. TypeInv => ParsesGrammar
  <2> SUFFICES ASSUME TypeInv PROVE Job # <<>> <=> IsJob(Body(line))
    BY DEF ParsesGrammar
  <2>1. line \in Seq(Token)
    BY DEF TypeInv, TypeOK
  <2>2. Body(line) \in Seq(Token)
    <3>1. CASE Conditional(line) = "none"
      BY <2>1, <3>1 DEF Body
    <3>2. CASE Conditional(line) # "none"
      <4>1. line # <<>>
        BY <3>2 DEF Conditional
      <4>2. Tail(line) \in Seq(Token)
        BY <2>1, <4>1
      <4> QED
        BY <3>2, <4>2 DEF Body
    <3> QED
      BY <3>1, <3>2
  <2> QED
    BY <2>2, JobsParse DEF Job
<1> QED
  BY <1>1, TypeInvHolds, PTL
=============================================================================

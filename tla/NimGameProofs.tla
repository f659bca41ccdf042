---------------------------- MODULE NimGameProofs ----------------------------
(* The verdicts of the abstract game, for every board.                       *)
EXTENDS NimGame, TLAPS

\* Taking n stones from a pile gives a board with n stones fewer.
LEMMA BoardFacts ==
    ASSUME NEW b \in Board, NEW i \in Pile, NEW n \in 1..b[i]
    PROVE  /\ Remove(b, i, n) \in Board
           /\ Stones(b) \in Nat
           /\ Stones(Remove(b, i, n)) = Stones(b) - n
<1>1. /\ Remove(b, i, n) \in Board
      /\ \A j \in Pile : Remove(b, i, n)[j] = IF j = i THEN b[i] - n ELSE b[j]
  BY DEF Remove, Board, Pile
<1> QED
  BY <1>1 DEF Stones, Pile, Board

\* Verdict holds of the game as long as the start has stones: its inductive
\* form is itself with the types.
THEOREM VerdictHolds == Spec => [](TypeOK /\ Verdict)
<1>1. Init => TypeOK /\ Verdict
  <2>1. Stones(Start) # 0
    BY StartAssumption DEF Board, Stones, Pile
  <2> QED
    BY <2>1, StartAssumption DEF Init, TypeOK, Verdict, Player
<1>2. TypeOK /\ Verdict /\ [Next]_vars => (TypeOK /\ Verdict)'
  <2> SUFFICES ASSUME TypeOK, Verdict, [Next]_vars PROVE TypeOK' /\ Verdict'
    OBVIOUS
  <2> USE DEF TypeOK, Verdict
  <2>a. turn \in Player /\ turn # 0 /\ \A p \in Player : Other(p) \in Player \ {0}
    BY DEF Player, Other
  <2>1. ASSUME NEW i \in Pile, NEW n \in 1..piles[i], Move(i, n)
        PROVE  TypeOK' /\ Verdict'
    <3>1. piles' \in Board /\ Stones(piles') = Stones(piles) - n /\ Stones(piles) \in Nat
      BY <2>1, BoardFacts DEF Move
    <3>2. Stones(piles') # 0
      BY <2>1, <3>1 DEF Move
    <3> QED
      BY <2>1, <2>a, <3>1, <3>2 DEF Move
  <2>2. ASSUME NEW i \in Pile, NEW n \in 1..piles[i], Win(i, n)
        PROVE  TypeOK' /\ Verdict'
    <3>1. piles' \in Board /\ Stones(piles') = Stones(piles) - n /\ Stones(piles) \in Nat
      BY <2>2, BoardFacts DEF Win
    <3>2. Stones(piles') = 0
      BY <2>2, <3>1 DEF Win
    <3> QED
      BY <2>2, <2>a, <3>1, <3>2 DEF Win
  <2>3. ASSUME NEW p \in Player, Forfeit(p)
        PROVE  TypeOK' /\ Verdict'
    BY <2>3, <2>a DEF Forfeit
  <2>4. CASE Abort
    BY <2>4 DEF Abort
  <2>5. CASE UNCHANGED vars
    BY <2>5 DEF vars
  <2> QED
    BY <2>1, <2>2, <2>3, <2>4, <2>5 DEF Next
<1> QED
  BY <1>1, <1>2, PTL DEF Spec
=============================================================================

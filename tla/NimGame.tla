------------------------------- MODULE NimGame -------------------------------
(* What a game of nimd promises its two players, without sockets, threads or *)
(* messages: the players alternate, a move removes stones from one pile, who *)
(* takes the last stone wins, who leaves loses, and the server may give a    *)
(* game up without a winner.                                                 *)
EXTENDS NimRules

VARIABLES piles,        \* the board
          turn,         \* the player to move
          how,          \* "playing", or how the game ended
          winner        \* the winner, 0 while there is none

vars == <<piles, turn, how, winner>>

TypeOK == /\ piles \in Board
          /\ turn \in Player
          /\ how \in {"playing", "won", "forfeit", "aborted"}
          /\ winner \in {0} \cup Player

Init == piles = Start /\ turn = 1 /\ how = "playing" /\ winner = 0

\* A move that leaves stones passes the turn.
Move(i, n) == /\ how = "playing"
              /\ Legal(piles, i, n)
              /\ Stones(piles) > n
              /\ piles' = Remove(piles, i, n)
              /\ turn' = Other(turn)
              /\ UNCHANGED <<how, winner>>

\* The move that takes the last stone wins and keeps the turn.
Win(i, n) == /\ how = "playing"
             /\ Legal(piles, i, n)
             /\ Stones(piles) = n
             /\ piles' = Remove(piles, i, n)
             /\ how' = "won"
             /\ winner' = turn
             /\ UNCHANGED turn

Forfeit(p) == /\ how = "playing"
              /\ how' = "forfeit"
              /\ winner' = Other(p)
              /\ UNCHANGED <<piles, turn>>

Abort == /\ how = "playing"
         /\ how' = "aborted"
         /\ UNCHANGED <<piles, turn, winner>>

Next == \/ \E i \in Pile : \E n \in 1..piles[i] : Move(i, n) \/ Win(i, n)
        \/ \E p \in Player : Forfeit(p)
        \/ Abort

Spec == Init /\ [][Next]_vars
------------------------------------------------------------------------------
(* A game is won exactly when its board is empty, and then by the player     *)
(* whose turn it was; there is a winner exactly in games won or forfeited    *)
(* (nimd.c 174-176, 197-198, 235-238).                                       *)
Verdict == /\ how = "won" <=> Stones(piles) = 0
           /\ how = "won" => winner = turn
           /\ winner = 0 <=> how \in {"playing", "aborted"}
=============================================================================

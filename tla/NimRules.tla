------------------------------ MODULE NimRules ------------------------------
(* The board of a game of Nim as game_thread of nimd.c keeps it: five piles *)
(* indexed from 0, and the players 1 and 2 by whom turns and winners are    *)
(* named on the wire.                                                       *)
EXTENDS Integers

CONSTANT Start          \* the piles a game begins with; {1,3,5,7,9} in the code

Pile   == 0..4
Player == {1, 2}
Board  == [Pile -> Nat]

Other(p) == IF p = 1 THEN 2 ELSE 1

Stones(b) == b[0] + b[1] + b[2] + b[3] + b[4]

\* Mutant of Legal: a pile may be overdrawn.
LegalOverdraw(b, i, n) == i \in Pile /\ n >= 1

\* Whether "MOVE|i|n" passes the checks of game_thread, and its effect.
Legal(b, i, n)  == i \in Pile /\ n >= 1 /\ n <= b[i]
Remove(b, i, n) == [b EXCEPT ![i] = @ - n]

ASSUME StartAssumption == Start \in Board /\ Stones(Start) > 0
=============================================================================

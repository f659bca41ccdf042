---------------------------- MODULE MCGameThread ----------------------------
(* Three stones in two piles, and MOVEs that are right at one time and wrong *)
(* at another: games of up to three moves with every refusal in them.        *)
EXTENDS GameThread

MCStart == [i \in Pile |-> IF i < 2 THEN i + 1 ELSE 0]
MCMoves  == {[type |-> "MOVE", pile |-> m[1], amount |-> m[2]] :
              m \in {<<0, 1>>, <<1, 1>>, <<1, 2>>, <<-1, 1>>, <<5, 1>>, <<1, 0>>}}
=============================================================================

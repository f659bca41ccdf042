------------------------------- MODULE MCLobby -------------------------------
(* Three connections, two of which may open under the same name: enough for  *)
(* a game, a third client to take a descriptor the game has closed, and a    *)
(* name to be asked for again.                                               *)
EXTENDS Lobby, TLC

Symmetry == Permutations(Name)
=============================================================================

----------------------------- MODULE MCHidBlock -----------------------------
(* HidBlock for TLC: the game's threads are interchangeable.               *)
EXTENDS HidBlock, TLC

GameSymmetry == Permutations(Game)

=============================================================================

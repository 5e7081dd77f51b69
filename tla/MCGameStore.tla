----------------------------- MODULE MCGameStore -----------------------------
(***************************************************************************)
(* One player, one or two sessions and two games, with a crash.            *)
(***************************************************************************)
EXTENDS GameStore, TLC

sessionSymmetry == Permutations(Sessions)
=============================================================================

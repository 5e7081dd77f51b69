------------------------------ MODULE MCTransfer ------------------------------
(***************************************************************************)
(* Two commands of one player, so that the file of the first is there when *)
(* the second begins and its session may still run.                        *)
(***************************************************************************)
EXTENDS Transfer
=============================================================================

----------------------------- MODULE MCProcesses -----------------------------
(***************************************************************************)
(* Two sessions: one may be forked before Ctrl-C and the other after it.   *)
(***************************************************************************)
EXTENDS Processes
=============================================================================

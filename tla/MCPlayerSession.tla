---------------------------- MODULE MCPlayerSession ----------------------------
(***************************************************************************)
(* One player, one server, one or two short games, under four networks.    *)
(***************************************************************************)
EXTENDS PlayerSession

CONSTANTS a, b, c

aba == <<a, b, a>>
ccc == <<c, c, c>>

ListAba == <<aba>>
WordsAba == {aba, ccc}

(* Scores and the last exchange of the server play no part in a session,   *)
(* nor does, at the prompt, the command that was handled last.             *)
sessionView ==
    <<network, ongoing, last, up, board, running, leaving, waiting, requests, replies,
      IF waiting THEN <<command, out>> ELSE <<>> >>

(* For the run about a trial that is repeated.                             *)
retryView == <<sessionView, out, result>>
=============================================================================

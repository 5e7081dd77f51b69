---------------------------- MODULE MCGameServer ----------------------------
(***************************************************************************)
(* Small instances of GameServer for TLC.  The thresholds of               *)
(* calculateMaxErrors are scaled down with the words, so that a game is    *)
(* lost after one, two or three misses instead of eight to ten.            *)
(***************************************************************************)
EXTENDS GameServerRefinement, Messages

CONSTANTS a, b, c

aba == <<a, b, a>>
bb == <<b, b>>
aaa == <<a, a, a>>
ccc == <<c, c, c>>

ListMixed == <<aba, bb>>
WordsMixed == {aba, bb}
HintMixed == {aba}

ListAba == <<aba>>
WordsAba == {aba, ccc}

ListAaa == <<aaa, aaa>>
WordsAaa == {aaa}

(* Everything but the last exchange, for the properties of the files.      *)
filesView == <<ongoing, last, scores, scoreboard, wordPtr, up, now>>

(* The games with the last exchange: the properties of games and of        *)
(* retransmission need no finer view.                                      *)
exchangeView == <<ongoing, last, wordPtr, up, request, reply>>
=============================================================================

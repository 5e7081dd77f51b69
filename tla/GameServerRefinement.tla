------------------------- MODULE GameServerRefinement -------------------------
(***************************************************************************)
(* GameServer implements Hangman: a game file, read as the sets of guesses *)
(* its trials record, behaves like the game Hangman describes, whatever    *)
(* the trial numbers, repetitions and restarts.                            *)
(***************************************************************************)
EXTENDS GameServer

(* No game is not one of the abstract games either.                        *)
ASSUME RefinementAssumption ==
    NoGame \notin [word : Words, letters : SUBSET Letters, words : SUBSET Words]

guesses(g, type) ==
    {g.trials[i].guess :
        i \in {j \in 1..numTrials(g) : g.trials[j].type = type}}

playing(g) ==
    IF g = NoGame THEN NoGame
    ELSE [word |-> g.word, letters |-> guesses(g, "L"), words |-> guesses(g, "W")]

done(g) ==
    IF g = NoGame THEN NoGame
    ELSE [word |-> g.word, letters |-> guesses(g, "L"), words |-> guesses(g, "W"),
          outcome |-> g.outcome]

H == INSTANCE Hangman WITH
        Players <- PLIDs, Alphabet <- Letters, Vocabulary <- Words,
        Secrets <- {WordList[i] : i \in DOMAIN WordList},
        Allowed <- [w \in Words |-> calculateMaxErrors(w)],
        Idle <- NoGame,
        game <- [p \in PLIDs |-> playing(ongoing[p])],
        result <- [p \in PLIDs |-> done(last[p])]

(* The server's handling of every request, with its incremental counters   *)
(* and its early ends, is the game as Hangman states it over sets of       *)
(* guesses: the same wins, the same losses, at the same guess.             *)
ImplementsHangman == H!Spec
=============================================================================

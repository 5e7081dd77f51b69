------------------------------- MODULE Hangman -------------------------------
(***************************************************************************)
(* What the game promises its players, without messages, trial numbers,    *)
(* masks, counters or files.  A game is a secret word and the sets of the  *)
(* letters and words tried so far; everything else follows from these.     *)
(***************************************************************************)
EXTENDS Integers, Sequences, FiniteSets

CONSTANTS
    Players, Alphabet, Vocabulary,
    Secrets, \* the words a game may be about
    Allowed, \* for each of them, the misses a player may have
    Idle     \* no game

VARIABLES
    game,   \* the game each player is in, or Idle
    result  \* the last game each player finished, or Idle

lettersOf(word) == {word[i] : i \in DOMAIN word}

fresh(word) == [word |-> word, letters |-> {}, words |-> {}]

missed(g) == Cardinality(g.letters \ lettersOf(g.word))
                + Cardinality(g.words \ {g.word})

solved(g) == lettersOf(g.word) \subseteq g.letters \/ g.word \in g.words

finished(g, outcome) ==
    [word |-> g.word, letters |-> g.letters, words |-> g.words,
     outcome |-> outcome]

Init ==
    /\ game = [p \in Players |-> Idle]
    /\ result = [p \in Players |-> Idle]

Start(p) ==
    /\ game[p] = Idle
    /\ \E word \in Secrets : game' = [game EXCEPT ![p] = fresh(word)]
    /\ UNCHANGED result

Finish(p, g, outcome) ==
    /\ game' = [game EXCEPT ![p] = Idle]
    /\ result' = [result EXCEPT ![p] = finished(g, outcome)]

(* A new guess wins if it solves the word, loses if it is one miss too     *)
(* many, and otherwise the game goes on with it.                           *)
Judge(p, g) ==
    \/ solved(g) /\ Finish(p, g, "win")
    \/ ~solved(g) /\ missed(g) > Allowed[g.word] /\ Finish(p, g, "fail")
    \/ /\ ~solved(g) /\ missed(g) <= Allowed[g.word]
       /\ game' = [game EXCEPT ![p] = g]
       /\ UNCHANGED result

TryLetter(p) ==
    /\ game[p] # Idle
    /\ \E letter \in Alphabet \ game[p].letters :
         Judge(p, [game[p] EXCEPT !.letters = @ \cup {letter}])

TryWord(p) ==
    /\ game[p] # Idle
    /\ \E word \in Vocabulary \ game[p].words :
         Judge(p, [game[p] EXCEPT !.words = @ \cup {word}])

GiveUp(p) == game[p] # Idle /\ Finish(p, game[p], "quit")

Next == \E p \in Players : Start(p) \/ TryLetter(p) \/ TryWord(p) \/ GiveUp(p)

Spec == Init /\ [][Next]_<<game, result>>
=============================================================================

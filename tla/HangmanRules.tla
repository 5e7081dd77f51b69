---------------------------- MODULE HangmanRules ----------------------------
(***************************************************************************)
(* The rules of one hangman game as the Game Server (GS) computes them:    *)
(* the Game record of src/GS/persistence.h, how it is created, and what a  *)
(* letter or a word does to it.  Pure operators, no state.                 *)
(*                                                                         *)
(* A word is a sequence of letters.  The number of trials is the length of *)
(* game.trials (the code rebuilds it so each time it loads a game); the    *)
(* counters numSucc and remaining are stored beside the trials and kept up *)
(* to date incrementally, as in the code.                                  *)
(***************************************************************************)
EXTENDS Integers, Sequences, FiniteSets

CONSTANTS
    Letters,      \* the alphabet
    Hidden,       \* '_', an undiscovered position of the mask
    Words,        \* the words that can be guessed, those of the list included
    WordList,     \* the word file: a sequence of words
    AliasLetters, \* letters whose code can be the low byte of a heap address
    BaseErrors,   \* 7: wrong guesses allowed for a short word
    ShortLen,     \* 7: words below this length are short
    MediumLen     \* 11: words below this length are medium

ASSUME RulesAssumption ==
    /\ Hidden \notin Letters
    /\ Words \subseteq Seq(Letters)
    /\ <<>> \notin Words
    /\ WordList \in Seq(Words)
    /\ WordList # <<>>
    /\ AliasLetters \subseteq Letters
    /\ BaseErrors \in Nat /\ ShortLen \in Nat /\ MediumLen \in Nat

-----------------------------------------------------------------------------
Trials ==
    [type : {"L"}, guess : Letters, correct : BOOLEAN]
        \cup [type : {"W"}, guess : Words, correct : BOOLEAN]

Outcomes == {"ongoing", "win", "fail", "quit"}

Games ==
    [word      : Words,
     mask      : Seq(Letters \cup {Hidden}),
     outcome   : Outcomes,
     numSucc   : Nat,
     maxErrors : Nat,
     remaining : Nat,
     trials    : Seq(Trials)]

calculateMaxErrors(word) ==
    IF Len(word) < ShortLen THEN BaseErrors
    ELSE IF Len(word) < MediumLen THEN BaseErrors + 1
    ELSE BaseErrors + 2

getLetterPositions(letter, word) == {i \in 1..Len(word) : word[i] = letter}

newGame(word) ==
    [word      |-> word,
     mask      |-> [i \in 1..Len(word) |-> Hidden],
     outcome   |-> "ongoing",
     numSucc   |-> 0,
     maxErrors |-> calculateMaxErrors(word),
     remaining |-> Len(word),
     trials    |-> <<>>]

-----------------------------------------------------------------------------
numTrials(game) == Len(game.trials)

(* What the code calls game->numTrials - game->numSucc.                     *)
misses(game) == numTrials(game) - game.numSucc

(* Mutant: the search stops one trial too early.                            *)
triedBefore_stopsEarly(game, type, guess, upTo) ==
    \E i \in 1..(upTo - 1) :
        game.trials[i].type = type /\ game.trials[i].guess = guess

(* The guess is one of the first `upTo` trials.                             *)
triedBefore(game, type, guess, upTo) ==
    \E i \in 1..upTo : game.trials[i].type = type /\ game.trials[i].guess = guess

(* Mutant: the trial goes to the head of the list.                          *)
registerGameTrial_prepends(game, trial) ==
    [game EXCEPT !.trials = <<trial>> \o @]

registerGameTrial(game, trial) == [game EXCEPT !.trials = Append(@, trial)]

letterTrial(letter, correct) ==
    [type |-> "L", guess |-> letter, correct |-> correct]

wordTrial(word, correct) == [type |-> "W", guess |-> word, correct |-> correct]

(* Mutant: the end is recognised one request late.                          *)
letterStatus_winsLate(game, letter) ==
    LET n == Cardinality(getLetterPositions(letter, game.word)) IN
    CASE n = 0 /\ misses(game) >= game.maxErrors -> "OVR"
      [] n = 0 /\ misses(game) < game.maxErrors  -> "NOK"
      [] n > 0 /\ game.remaining = 0             -> "WIN"
      [] OTHER                                   -> "OK"

(* Mutant: one miss more is allowed.                                        *)
letterStatus_oneMissMore(game, letter) ==
    LET n == Cardinality(getLetterPositions(letter, game.word)) IN
    CASE n = 0 /\ misses(game) > game.maxErrors  -> "OVR"
      [] n = 0 /\ misses(game) <= game.maxErrors -> "NOK"
      [] n > 0 /\ game.remaining = n             -> "WIN"
      [] OTHER                                   -> "OK"

(* The status of a letter, or a word, played as a new trial.                *)
letterStatus(game, letter) ==
    LET n == Cardinality(getLetterPositions(letter, game.word)) IN
    CASE n = 0 /\ misses(game) >= game.maxErrors -> "OVR"
      [] n = 0 /\ misses(game) < game.maxErrors  -> "NOK"
      [] n > 0 /\ game.remaining = n             -> "WIN"
      [] OTHER                                   -> "OK"

(* Mutant: one miss more is allowed.                                        *)
wordStatus_oneMissMore(game, word) ==
    CASE word = game.word -> "WIN"
      [] word # game.word /\ misses(game) > game.maxErrors -> "OVR"
      [] OTHER -> "NOK"

wordStatus(game, word) ==
    CASE word = game.word -> "WIN"
      [] word # game.word /\ misses(game) >= game.maxErrors -> "OVR"
      [] OTHER -> "NOK"

(* A successful trial shows the whole word, or every position of a letter. *)
showWord(game) == [game EXCEPT !.numSucc = @ + 1, !.mask = game.word]

(* Mutant: the letters found are not counted off.                           *)
showLetter_keepsRemaining(game, letter) ==
    LET pos == getLetterPositions(letter, game.word) IN
    [game EXCEPT
        !.numSucc = @ + 1,
        !.mask = [i \in DOMAIN @ |-> IF i \in pos THEN letter ELSE @[i]]]

showLetter(game, letter) ==
    LET pos == getLetterPositions(letter, game.word) IN
    [game EXCEPT
        !.numSucc = @ + 1,
        !.remaining = @ - Cardinality(pos),
        !.mask = [i \in DOMAIN @ |-> IF i \in pos THEN letter ELSE @[i]]]

(* The game after a new letter (word) trial, before it is saved or ended.   *)
playLetter(game, letter) ==
    LET status == letterStatus(game, letter) IN
    CASE status = "WIN" ->
           registerGameTrial(showWord(game), letterTrial(letter, TRUE))
      [] status = "OK" ->
           registerGameTrial(showLetter(game, letter), letterTrial(letter, TRUE))
      [] status \in {"NOK", "OVR"} ->
           registerGameTrial(game, letterTrial(letter, FALSE))

playWord(game, word) ==
    IF wordStatus(game, word) = "WIN"
    THEN registerGameTrial(showWord(game), wordTrial(word, TRUE))
    ELSE registerGameTrial(game, wordTrial(word, FALSE))

(* Integer division rounds the quotient to the nearest, as the code intends *)
(* by adding numTrials / 2.                                                 *)
calculateScore(game) ==
    LET rounded == (100 * game.numSucc + numTrials(game) \div 2)
                       \div numTrials(game)
    IN  IF game.numSucc = 0 \/ numTrials(game) = 0 THEN 0
        ELSE IF rounded < 100 THEN rounded ELSE 100

-----------------------------------------------------------------------------
(* What a game in progress satisfies between two requests.                 *)

correctTrials(game) == {i \in 1..numTrials(game) : game.trials[i].correct}

lettersFound(game) ==
    {game.trials[i].guess :
        i \in {j \in correctTrials(game) : game.trials[j].type = "L"}}

hiddenPositions(game) == {i \in 1..Len(game.word) : game.mask[i] = Hidden}

(* The counters and the mask that are kept incrementally, written to the   *)
(* game file and read back say what the list of trials says.               *)
Counted(game) ==
    /\ game.numSucc = Cardinality(correctTrials(game))
    /\ game.maxErrors = calculateMaxErrors(game.word)
    /\ game.remaining = Cardinality(hiddenPositions(game))
    /\ game.mask = [i \in 1..Len(game.word) |->
                       IF game.word[i] \in lettersFound(game)
                       THEN game.word[i] ELSE Hidden]

(* Every correct letter shows at least one position of its own.            *)
Economical(game) == game.numSucc + game.remaining <= Len(game.word)

(* A game still open is not solved, and its player may still miss.         *)
StillOpen(game) ==
    /\ hiddenPositions(game) # {}
    /\ misses(game) <= game.maxErrors
    /\ \A i \in correctTrials(game) : game.trials[i].type = "L"

(* No letter and no word was registered twice.                             *)
TriedOnce(game) ==
    \A i, j \in 1..numTrials(game) :
        i # j => \/ game.trials[i].type # game.trials[j].type
                 \/ game.trials[i].guess # game.trials[j].guess

(* How a finished game must look: a lost one spent exactly one miss more   *)
(* than the maximum, the last of its trials; a won one stayed within the   *)
(* maximum, only its last trial solved it and the whole word shows; one    *)
(* given up was neither won nor lost.                                      *)
Decided(game) ==
    LET n == numTrials(game) IN
    \/ /\ game.outcome = "fail" /\ n > 0
       /\ misses(game) = game.maxErrors + 1
       /\ ~game.trials[n].correct
    \/ /\ game.outcome = "win" /\ n > 0
       /\ misses(game) <= game.maxErrors
       /\ game.trials[n].correct
       /\ game.mask = game.word
       /\ \A i \in correctTrials(game) \ {n} : game.trials[i].type = "L"
    \/ game.outcome = "quit" /\ StillOpen(game) /\ Counted(game)
=============================================================================

-------------------------- MODULE HangmanRulesProofs --------------------------
(***************************************************************************)
(* What a new game, a letter and a word do to one game, for every word     *)
(* list, alphabet and threshold: the facts GameServerProofs lifts to the   *)
(* requests of the server.                                                 *)
(***************************************************************************)
EXTENDS HangmanRules, FiniteSetTheorems, TLAPS

(* The inductive invariant of a game in progress.                          *)
GoodGame(game) ==
    /\ game \in Games
    /\ game.outcome = "ongoing"
    /\ Counted(game) /\ Economical(game)
    /\ StillOpen(game) /\ TriedOnce(game)

(* What holds of a finished one.                                           *)
Finished(game) ==
    /\ game \in Games
    /\ game.outcome # "ongoing"
    /\ Decided(game) /\ TriedOnce(game)

-----------------------------------------------------------------------------
(* The sets that are counted are finite.                                   *)

LEMMA PositionsFinite ==
    ASSUME NEW word \in Seq(Letters), NEW letter
    PROVE  LET pos == getLetterPositions(letter, word) IN
           /\ IsFiniteSet(pos)
           /\ Cardinality(pos) \in Nat
           /\ Cardinality(pos) = 0 <=> pos = {}
<1> DEFINE pos == getLetterPositions(letter, word)
<1>1. Len(word) \in Nat
  OBVIOUS
<1>2. IsFiniteSet(1..Len(word))
  BY <1>1, FS_Interval
<1>3. pos \in SUBSET (1..Len(word))
  BY DEF getLetterPositions
<1>4. IsFiniteSet(pos)
  BY <1>2, <1>3, FS_Subset
<1> QED
  BY <1>4, FS_CardinalityType, FS_EmptySet

LEMMA HiddenFinite ==
    ASSUME NEW game \in Games
    PROVE  /\ IsFiniteSet(hiddenPositions(game))
           /\ Cardinality(hiddenPositions(game)) \in Nat
           /\ Cardinality(hiddenPositions(game)) = 0
                <=> hiddenPositions(game) = {}
<1>1. Len(game.word) \in Nat
  BY RulesAssumption DEF Games
<1>2. IsFiniteSet(1..Len(game.word))
  BY <1>1, FS_Interval
<1>3. hiddenPositions(game) \in SUBSET (1..Len(game.word))
  BY DEF hiddenPositions
<1>4. IsFiniteSet(hiddenPositions(game))
  BY <1>2, <1>3, FS_Subset
<1> QED
  BY <1>4, FS_CardinalityType, FS_EmptySet

LEMMA CorrectFinite ==
    ASSUME NEW game \in Games
    PROVE  /\ IsFiniteSet(correctTrials(game))
           /\ Cardinality(correctTrials(game)) \in Nat
<1>1. numTrials(game) \in Nat
  BY DEF Games, numTrials
<1>2. IsFiniteSet(1..numTrials(game))
  BY <1>1, FS_Interval
<1>3. correctTrials(game) \in SUBSET (1..numTrials(game))
  BY DEF correctTrials
<1>4. IsFiniteSet(correctTrials(game))
  BY <1>2, <1>3, FS_Subset
<1> QED
  BY <1>4, FS_CardinalityType

-----------------------------------------------------------------------------
(* A new game has nothing found and nothing tried.                         *)

LEMMA MaxErrorsType ==
    ASSUME NEW word \in Words
    PROVE  calculateMaxErrors(word) \in Nat
BY RulesAssumption DEF calculateMaxErrors

LEMMA NewGameIsGood ==
    ASSUME NEW word \in Words
    PROVE  GoodGame(newGame(word))
<1> DEFINE game == newGame(word)
<1>1. /\ word \in Seq(Letters) /\ Len(word) \in Nat /\ Len(word) # 0
  BY RulesAssumption
<1>2. game \in Games
  <2>1. [i \in 1..Len(word) |-> Hidden] \in Seq(Letters \cup {Hidden})
    BY <1>1
  <2>2. <<>> \in Seq(Trials)
    OBVIOUS
  <2> QED
    BY <1>1, <2>1, <2>2, MaxErrorsType DEF newGame, Games, Outcomes
<1>3. numTrials(game) = 0 /\ correctTrials(game) = {} /\ lettersFound(game) = {}
  BY DEF newGame, numTrials, correctTrials, lettersFound
<1>4. hiddenPositions(game) = 1..Len(word)
  BY <1>1 DEF newGame, hiddenPositions
<1>5. Cardinality(1..Len(word)) = Len(word)
  BY <1>1, FS_Interval
<1>6. Counted(game)
  BY <1>3, <1>4, <1>5, FS_EmptySet DEF Counted, newGame
<1>7. StillOpen(game)
  BY <1>1, <1>3, <1>4, MaxErrorsType DEF StillOpen, newGame, misses
<1>8. TriedOnce(game) /\ Economical(game)
  BY <1>1, <1>3 DEF TriedOnce, Economical, newGame
<1> QED
  BY <1>2, <1>6, <1>7, <1>8 DEF GoodGame, newGame

-----------------------------------------------------------------------------
(* Registering a trial appends it and touches nothing else.                *)

LEMMA RegisterTrial ==
    ASSUME NEW game \in Games, NEW trial \in Trials
    PROVE  LET new == registerGameTrial(game, trial)
               n   == numTrials(game)
           IN
           /\ new \in Games
           /\ new.word = game.word /\ new.mask = game.mask
           /\ new.outcome = game.outcome /\ new.numSucc = game.numSucc
           /\ new.maxErrors = game.maxErrors /\ new.remaining = game.remaining
           /\ n \in Nat /\ numTrials(new) = n + 1
           /\ \A i \in 1..n : new.trials[i] = game.trials[i]
           /\ new.trials[n + 1] = trial
<1> DEFINE new == registerGameTrial(game, trial)
<1>1. game.trials \in Seq(Trials)
  BY DEF Games
<1>2. new = [game EXCEPT !.trials = Append(game.trials, trial)]
  BY DEF registerGameTrial
<1>4. /\ Append(game.trials, trial) \in Seq(Trials)
      /\ Len(Append(game.trials, trial)) = Len(game.trials) + 1
      /\ \A i \in 1..Len(game.trials) :
           Append(game.trials, trial)[i] = game.trials[i]
      /\ Append(game.trials, trial)[Len(game.trials) + 1] = trial
  BY <1>1
<1> HIDE DEF new
<1>5. new \in Games /\ new.trials = Append(game.trials, trial)
  BY <1>2, <1>4 DEF Games
<1>6. /\ new.word = game.word /\ new.mask = game.mask
      /\ new.outcome = game.outcome /\ new.numSucc = game.numSucc
      /\ new.maxErrors = game.maxErrors /\ new.remaining = game.remaining
  BY <1>2 DEF Games
<1> QED
  BY <1>1, <1>4, <1>5, <1>6 DEF numTrials, new

(* The cases of letterStatus and wordStatus.                               *)

LEMMA LetterStatusCases ==
    ASSUME NEW game \in Games, NEW letter \in Letters
    PROVE  LET pos    == getLetterPositions(letter, game.word)
               status == letterStatus(game, letter)
           IN  \/ status = "OVR" /\ pos = {} /\ misses(game) >= game.maxErrors
               \/ status = "NOK" /\ pos = {} /\ misses(game) < game.maxErrors
               \/ status = "WIN" /\ pos # {} /\ game.remaining = Cardinality(pos)
               \/ status = "OK"  /\ pos # {} /\ game.remaining # Cardinality(pos)
<1>1. game.word \in Seq(Letters)
  BY RulesAssumption DEF Games
<1>2. misses(game) \in Int /\ game.maxErrors \in Int
  BY DEF misses, numTrials, Games
<1> QED
  BY <1>1, <1>2, PositionsFinite DEF letterStatus

(* What a registered trial adds to the sets read off the trials.           *)

LEMMA RegisteredCorrect ==
    ASSUME NEW game \in Games, NEW trial \in Trials
    PROVE  LET new == registerGameTrial(game, trial) IN
           /\ trial.correct =>
                /\ correctTrials(new) = correctTrials(game) \cup {numTrials(game) + 1}
                /\ Cardinality(correctTrials(new)) = Cardinality(correctTrials(game)) + 1
           /\ ~trial.correct => correctTrials(new) = correctTrials(game)
           /\ trial.correct /\ trial.type = "L" =>
                lettersFound(new) = lettersFound(game) \cup {trial.guess}
           /\ ~trial.correct => lettersFound(new) = lettersFound(game)
<1> DEFINE new == registerGameTrial(game, trial)
           n   == numTrials(game)
<1>1. /\ n \in Nat /\ numTrials(new) = n + 1
      /\ \A i \in 1..n : new.trials[i] = game.trials[i]
      /\ new.trials[n + 1] = trial
  BY RegisterTrial
<1> HIDE DEF new, n
<1>2. \A i \in 1..(n + 1) : i \in 1..n \/ i = n + 1
  BY <1>1
<1>3. correctTrials(game) = {i \in 1..n : game.trials[i].correct}
  BY DEF correctTrials, n
<1>4. correctTrials(new) = {i \in 1..(n + 1) : new.trials[i].correct}
  BY <1>1 DEF correctTrials
<1>5. CASE trial.correct
  <2>1. correctTrials(new) = correctTrials(game) \cup {n + 1}
    BY <1>1, <1>2, <1>3, <1>4, <1>5
  <2>2. n + 1 \notin correctTrials(game)
    BY <1>1, <1>3
  <2>3. Cardinality(correctTrials(new)) = Cardinality(correctTrials(game)) + 1
    BY <2>1, <2>2, CorrectFinite, FS_AddElement
  <2>4. ASSUME trial.type = "L"
        PROVE  lettersFound(new) = lettersFound(game) \cup {trial.guess}
    BY <1>1, <1>3, <2>1, <2>4 DEF lettersFound
  <2> QED
    BY <1>5, <2>1, <2>3, <2>4 DEF new, n
<1>6. CASE ~trial.correct
  <2>1. correctTrials(new) = correctTrials(game)
    BY <1>1, <1>2, <1>3, <1>4, <1>6
  <2>2. lettersFound(new) = lettersFound(game)
    BY <1>1, <1>3, <2>1 DEF lettersFound
  <2> QED
    BY <1>6, <2>1, <2>2 DEF new
<1> QED
  BY <1>5, <1>6

LEMMA RegisteredOnce ==
    ASSUME NEW game \in Games, TriedOnce(game),
           NEW trial \in Trials,
           ~triedBefore(game, trial.type, trial.guess, numTrials(game))
    PROVE  TriedOnce(registerGameTrial(game, trial))
<1> DEFINE new == registerGameTrial(game, trial)
           n   == numTrials(game)
<1>1. /\ n \in Nat /\ numTrials(new) = n + 1
      /\ \A i \in 1..n : new.trials[i] = game.trials[i]
      /\ new.trials[n + 1] = trial
  BY RegisterTrial
<1> HIDE DEF new
<1>2. \A i \in 1..n : game.trials[i].type # trial.type \/ game.trials[i].guess # trial.guess
  BY DEF triedBefore
<1>3. SUFFICES ASSUME NEW i \in 1..(n + 1), NEW j \in 1..(n + 1), i # j
               PROVE  \/ new.trials[i].type # new.trials[j].type
                      \/ new.trials[i].guess # new.trials[j].guess
  BY <1>1 DEF TriedOnce, new
<1>4. CASE i \in 1..n /\ j \in 1..n
  BY <1>1, <1>3, <1>4 DEF TriedOnce
<1>5. CASE i = n + 1 /\ j \in 1..n
  BY <1>1, <1>2, <1>5
<1>6. CASE j = n + 1 /\ i \in 1..n
  BY <1>1, <1>2, <1>6
<1> QED
  BY <1>1, <1>3, <1>4, <1>5, <1>6

-----------------------------------------------------------------------------
(* A miss that the player could afford.                                    *)

LEMMA MissGoesOn ==
    ASSUME NEW game, GoodGame(game), misses(game) < game.maxErrors,
           NEW trial \in Trials, ~trial.correct,
           ~triedBefore(game, trial.type, trial.guess, numTrials(game))
    PROVE  GoodGame(registerGameTrial(game, trial))
<1> DEFINE new == registerGameTrial(game, trial)
<1>1. game \in Games
  BY DEF GoodGame
<1>2. /\ new \in Games
      /\ new.word = game.word /\ new.mask = game.mask
      /\ new.outcome = game.outcome /\ new.numSucc = game.numSucc
      /\ new.maxErrors = game.maxErrors /\ new.remaining = game.remaining
      /\ numTrials(game) \in Nat /\ numTrials(new) = numTrials(game) + 1
      /\ \A i \in 1..numTrials(game) : new.trials[i] = game.trials[i]
  BY <1>1, RegisterTrial
<1>3. correctTrials(new) = correctTrials(game) /\ lettersFound(new) = lettersFound(game)
  BY <1>1, RegisteredCorrect
<1>4. TriedOnce(new)
  BY <1>1, RegisteredOnce DEF GoodGame
<1> HIDE DEF new
<1>5. hiddenPositions(new) = hiddenPositions(game)
  BY <1>2 DEF hiddenPositions
<1>6. Counted(new) /\ Economical(new)
  BY <1>2, <1>3, <1>5 DEF GoodGame, Counted, Economical
<1>7. misses(new) = misses(game) + 1 /\ misses(new) <= new.maxErrors
  <2>1. /\ game.numSucc \in Nat /\ game.maxErrors \in Nat
        /\ new.numSucc = game.numSucc /\ new.maxErrors = game.maxErrors
        /\ numTrials(game) \in Nat /\ numTrials(new) = numTrials(game) + 1
    BY <1>1, <1>2 DEF Games
  <2> QED
    BY <2>1 DEF misses
<1>8. \A i \in correctTrials(new) : new.trials[i].type = "L"
  BY <1>2, <1>3 DEF GoodGame, StillOpen, correctTrials
<1>9. StillOpen(new)
  BY <1>5, <1>7, <1>8 DEF StillOpen, GoodGame
<1> QED
  BY <1>2, <1>4, <1>6, <1>9 DEF GoodGame, new

(* The miss too many.                                                      *)

LEMMA MissLoses ==
    ASSUME NEW game, GoodGame(game), misses(game) >= game.maxErrors,
           NEW trial \in Trials, ~trial.correct,
           ~triedBefore(game, trial.type, trial.guess, numTrials(game))
    PROVE  Finished([registerGameTrial(game, trial) EXCEPT !.outcome = "fail"])
<1> DEFINE new == registerGameTrial(game, trial)
           n   == numTrials(game)
<1>1. game \in Games /\ misses(game) <= game.maxErrors
  BY DEF GoodGame, StillOpen
<1>2. /\ new \in Games
      /\ new.numSucc = game.numSucc /\ new.maxErrors = game.maxErrors
      /\ n \in Nat /\ numTrials(new) = n + 1
      /\ new.trials[n + 1] = trial
  BY <1>1, RegisterTrial
<1> HIDE DEF new
<1>3. misses(new) = new.maxErrors + 1
  BY <1>1, <1>2 DEF misses, Games, n
<1>4. ~new.trials[n + 1].correct
  BY <1>2
<1>8. TriedOnce(new)
  BY <1>1, RegisteredOnce DEF GoodGame, new
<1> DEFINE lost == [new EXCEPT !.outcome = "fail"]
<1>5. /\ lost \in Games /\ lost.outcome = "fail" /\ lost.trials = new.trials
      /\ lost.numSucc = new.numSucc /\ lost.maxErrors = new.maxErrors
  BY <1>2 DEF Games, Outcomes
<1> HIDE DEF lost
<1>6. numTrials(lost) = n + 1 /\ misses(lost) = misses(new)
  BY <1>2, <1>5 DEF numTrials, misses
<1>7. Decided(lost)
  BY <1>2, <1>3, <1>4, <1>5, <1>6 DEF Decided, n
<1>9. TriedOnce(lost)
  BY <1>5, <1>8 DEF TriedOnce, numTrials
<1> QED
  BY <1>5, <1>7, <1>9 DEF Finished, new, lost

-----------------------------------------------------------------------------
(* The positions of a letter not yet tried are hidden.                     *)

LEMMA NewLetterIsHidden ==
    ASSUME NEW game, GoodGame(game), NEW letter \in Letters,
           ~triedBefore(game, "L", letter, numTrials(game))
    PROVE  /\ letter \notin lettersFound(game)
           /\ getLetterPositions(letter, game.word) \subseteq hiddenPositions(game)
           /\ Cardinality(getLetterPositions(letter, game.word)) <= game.remaining
<1> DEFINE pos == getLetterPositions(letter, game.word)
<1>1. game \in Games
  BY DEF GoodGame
<1>2. letter \notin lettersFound(game)
  BY DEF lettersFound, triedBefore, correctTrials
<1>3. \A i \in pos : i \in 1..Len(game.word) /\ game.word[i] = letter
  BY DEF getLetterPositions
<1> HIDE DEF pos
<1>4. \A i \in pos : game.mask[i] = Hidden
  BY <1>2, <1>3 DEF GoodGame, Counted
<1>5. pos \in SUBSET hiddenPositions(game)
  BY <1>3, <1>4 DEF hiddenPositions
<1>6. Cardinality(pos) <= game.remaining
  BY <1>1, <1>5, HiddenFinite, FS_Subset DEF GoodGame, Counted
<1> QED
  BY <1>2, <1>5, <1>6 DEF pos

(* A letter that shows some positions, but not all that were hidden.       *)

LEMMA HitGoesOn ==
    ASSUME NEW game, GoodGame(game), NEW letter \in Letters,
           ~triedBefore(game, "L", letter, numTrials(game)),
           letterStatus(game, letter) = "OK"
    PROVE  GoodGame(playLetter(game, letter))
<1> DEFINE pos   == getLetterPositions(letter, game.word)
           c     == Cardinality(pos)
           mask  == [i \in DOMAIN game.mask |->
                       IF i \in pos THEN letter ELSE game.mask[i]]
           shown == showLetter(game, letter)
           trial == letterTrial(letter, TRUE)
           new   == registerGameTrial(shown, trial)
<1>1. /\ game \in Games /\ game.outcome = "ongoing"
      /\ game.word \in Words /\ game.word \in Seq(Letters)
      /\ Len(game.word) \in Nat
      /\ game.numSucc \in Nat /\ game.remaining \in Nat
  BY RulesAssumption DEF GoodGame, Games
<1>2. pos # {} /\ game.remaining # c
  BY <1>1, LetterStatusCases
<1>3. IsFiniteSet(pos) /\ c \in Nat /\ c > 0
  BY <1>1, <1>2, PositionsFinite
<1>4. letter \notin lettersFound(game) /\ pos \subseteq hiddenPositions(game)
      /\ c < game.remaining
  BY <1>1, <1>2, <1>3, NewLetterIsHidden
<1>5. /\ DOMAIN game.mask = 1..Len(game.word)
      /\ game.mask \in Seq(Letters \cup {Hidden})
      /\ \A i \in 1..Len(game.word) :
           game.mask[i] = IF game.word[i] \in lettersFound(game)
                          THEN game.word[i] ELSE Hidden
  BY <1>1 DEF GoodGame, Counted, Games
<1>6. mask \in Seq(Letters \cup {Hidden}) /\ DOMAIN mask = 1..Len(game.word)
  BY <1>1, <1>5
<1>7. trial \in Trials /\ trial.correct /\ trial.type = "L" /\ trial.guess = letter
  BY DEF letterTrial, Trials
<1>8. /\ playLetter(game, letter) = new
      /\ shown = [game EXCEPT !.numSucc = game.numSucc + 1,
                              !.remaining = game.remaining - c,
                              !.mask = mask]
  BY DEF playLetter, showLetter
<1> HIDE DEF trial, mask, c, shown
<1>9. /\ shown \in Games
      /\ shown.word = game.word /\ shown.trials = game.trials
      /\ shown.outcome = game.outcome /\ shown.maxErrors = game.maxErrors
      /\ shown.numSucc = game.numSucc + 1
      /\ shown.remaining = game.remaining - c /\ shown.mask = mask
  <2>1. game.remaining - c \in Nat /\ game.numSucc + 1 \in Nat
    BY <1>1, <1>3, <1>4
  <2> QED
    BY <1>1, <1>6, <1>8, <2>1 DEF Games
<1>10. /\ numTrials(shown) = numTrials(game)
       /\ correctTrials(shown) = correctTrials(game)
       /\ lettersFound(shown) = lettersFound(game)
  BY <1>9 DEF numTrials, correctTrials, lettersFound
<1>11. TriedOnce(shown) /\ ~triedBefore(shown, "L", letter, numTrials(shown))
  BY <1>9, <1>10 DEF GoodGame, TriedOnce, triedBefore
<1>12. /\ new \in Games
       /\ new.word = game.word /\ new.mask = mask
       /\ new.outcome = "ongoing" /\ new.numSucc = game.numSucc + 1
       /\ new.maxErrors = game.maxErrors /\ new.remaining = game.remaining - c
       /\ numTrials(game) \in Nat /\ numTrials(new) = numTrials(game) + 1
       /\ \A i \in 1..numTrials(game) : new.trials[i] = game.trials[i]
       /\ new.trials[numTrials(game) + 1] = trial
  BY <1>1, <1>7, <1>9, <1>10, RegisterTrial
<1>13. /\ correctTrials(new) = correctTrials(game) \cup {numTrials(game) + 1}
       /\ Cardinality(correctTrials(new)) = Cardinality(correctTrials(game)) + 1
       /\ lettersFound(new) = lettersFound(game) \cup {letter}
  BY <1>7, <1>9, <1>10, RegisteredCorrect
<1>14. TriedOnce(new)
  BY <1>7, <1>9, <1>11, RegisteredOnce
<1> HIDE DEF new
<1>15. \A i \in 1..Len(game.word) : i \in pos <=> game.word[i] = letter
  BY DEF getLetterPositions
<1> HIDE DEF pos
<1>16. Counted(new)
  <2>1. mask = [i \in 1..Len(new.word) |->
                  IF new.word[i] \in lettersFound(new) THEN new.word[i] ELSE Hidden]
    <3>1. \A i \in 1..Len(game.word) :
            mask[i] = IF game.word[i] \in lettersFound(game) \cup {letter}
                      THEN game.word[i] ELSE Hidden
      BY <1>5, <1>15 DEF mask
    <3> QED
      BY <3>1, <1>5, <1>12, <1>13 DEF mask
  <2>2. hiddenPositions(new) = hiddenPositions(game) \ pos
    <3>1. letter # Hidden
      BY RulesAssumption
    <3>2. \A i \in 1..Len(game.word) :
            mask[i] = IF i \in pos THEN letter ELSE game.mask[i]
      BY <1>5 DEF mask
    <3> QED
      BY <3>1, <3>2, <1>12 DEF hiddenPositions
  <2>3. Cardinality(hiddenPositions(new)) = game.remaining - c
    <3>1. hiddenPositions(game) \cap pos = pos
      BY <1>4
    <3>2. Cardinality(hiddenPositions(game) \ pos)
            = Cardinality(hiddenPositions(game)) - Cardinality(hiddenPositions(game) \cap pos)
      BY <1>1, HiddenFinite, FS_Difference
    <3> QED
      BY <2>2, <3>1, <3>2 DEF GoodGame, Counted, c
  <2> QED
    BY <1>12, <1>13, <2>1, <2>3 DEF Counted, GoodGame
<1>17. Economical(new)
  BY <1>1, <1>3, <1>12 DEF Economical, GoodGame
<1>18. StillOpen(new)
  <2>1. hiddenPositions(new) # {}
    BY <1>1, <1>3, <1>4, <1>12, <1>16, HiddenFinite DEF Counted
  <2>2. misses(new) = misses(game)
    BY <1>1, <1>12 DEF misses
  <2>3. \A i \in correctTrials(game) : i \in 1..numTrials(game)
    BY DEF correctTrials
  <2>4. \A i \in correctTrials(new) : new.trials[i].type = "L"
    BY <1>7, <1>12, <1>13, <2>3 DEF GoodGame, StillOpen
  <2> QED
    BY <1>12, <2>1, <2>2, <2>4 DEF GoodGame, StillOpen
<1> QED
  BY <1>8, <1>12, <1>14, <1>16, <1>17, <1>18 DEF GoodGame

-----------------------------------------------------------------------------
(* The trial that solves the word.                                         *)

LEMMA WinDecides ==
    ASSUME NEW game, GoodGame(game), NEW trial \in Trials, trial.correct,
           ~triedBefore(game, trial.type, trial.guess, numTrials(game))
    PROVE  LET new == registerGameTrial(showWord(game), trial) IN
           new \in Games /\ Finished([new EXCEPT !.outcome = "win"])
<1> DEFINE shown == showWord(game)
           new   == registerGameTrial(shown, trial)
           n     == numTrials(game)
<1>1. /\ game \in Games /\ game.numSucc \in Nat /\ game.maxErrors \in Nat
      /\ game.word \in Seq(Letters) /\ misses(game) <= game.maxErrors
  BY RulesAssumption DEF GoodGame, StillOpen, Games
<1>2. game.word \in Seq(Letters \cup {Hidden})
  BY <1>1
<1>3. /\ shown \in Games
      /\ shown.word = game.word /\ shown.trials = game.trials
      /\ shown.maxErrors = game.maxErrors
      /\ shown.numSucc = game.numSucc + 1 /\ shown.mask = game.word
  <2>1. game.numSucc + 1 \in Nat
    BY <1>1
  <2> QED
    BY <1>1, <1>2, <2>1 DEF Games, showWord
<1> HIDE DEF shown
<1>4. numTrials(shown) = n /\ correctTrials(shown) = correctTrials(game)
  BY <1>3 DEF numTrials, correctTrials
<1>5. TriedOnce(shown)
      /\ ~triedBefore(shown, trial.type, trial.guess, numTrials(shown))
  BY <1>3, <1>4 DEF GoodGame, TriedOnce, triedBefore
<1>6. /\ new \in Games
      /\ new.word = game.word /\ new.mask = game.word
      /\ new.numSucc = game.numSucc + 1 /\ new.maxErrors = game.maxErrors
      /\ n \in Nat /\ numTrials(new) = n + 1
      /\ \A i \in 1..n : new.trials[i] = game.trials[i]
      /\ new.trials[n + 1] = trial
  BY <1>3, <1>4, RegisterTrial
<1>7. correctTrials(new) = correctTrials(game) \cup {n + 1}
  BY <1>3, <1>4, RegisteredCorrect
<1>8. TriedOnce(new)
  BY <1>3, <1>5, RegisteredOnce
<1> HIDE DEF new, n
<1> DEFINE won == [new EXCEPT !.outcome = "win"]
<1>9. /\ won \in Games /\ won.outcome = "win" /\ won.trials = new.trials
      /\ won.word = new.word /\ won.mask = new.mask
      /\ won.numSucc = new.numSucc /\ won.maxErrors = new.maxErrors
  BY <1>6 DEF Games, Outcomes
<1> HIDE DEF won
<1>10. numTrials(won) = n + 1 /\ correctTrials(won) = correctTrials(new)
  BY <1>6, <1>9 DEF numTrials, correctTrials
<1>11. misses(won) <= won.maxErrors
  BY <1>1, <1>6, <1>9, <1>10 DEF misses, n
<1>12. \A i \in correctTrials(game) : i \in 1..n /\ game.trials[i].type = "L"
  BY DEF GoodGame, StillOpen, correctTrials, n
<1>13. \A i \in correctTrials(won) \ {n + 1} : won.trials[i].type = "L"
  BY <1>6, <1>7, <1>9, <1>10, <1>12
<1>14. Decided(won)
  BY <1>6, <1>9, <1>10, <1>11, <1>13 DEF Decided
<1>15. TriedOnce(won)
  BY <1>8, <1>9 DEF TriedOnce, numTrials
<1> QED
  BY <1>6, <1>9, <1>14, <1>15 DEF Finished, won, new, shown

(* Giving up decides nothing and changes nothing else.                     *)

LEMMA QuitFinishes ==
    ASSUME NEW game, GoodGame(game)
    PROVE  Finished([game EXCEPT !.outcome = "quit"])
<1> DEFINE new == [game EXCEPT !.outcome = "quit"]
<1>1. game \in Games
  BY DEF GoodGame
<1>2. /\ new \in Games /\ new.outcome = "quit" /\ new.trials = game.trials
      /\ new.word = game.word /\ new.mask = game.mask
      /\ new.numSucc = game.numSucc /\ new.maxErrors = game.maxErrors
      /\ new.remaining = game.remaining
  BY <1>1 DEF Games, Outcomes
<1> HIDE DEF new
<1>3. /\ numTrials(new) = numTrials(game) /\ misses(new) = misses(game)
      /\ correctTrials(new) = correctTrials(game)
      /\ lettersFound(new) = lettersFound(game)
      /\ hiddenPositions(new) = hiddenPositions(game)
  BY <1>2 DEF numTrials, misses, correctTrials, lettersFound, hiddenPositions
<1>4. Counted(new) /\ StillOpen(new)
  BY <1>2, <1>3 DEF GoodGame, Counted, StillOpen
<1>5. TriedOnce(new)
  BY <1>2, <1>3 DEF GoodGame, TriedOnce
<1> QED
  BY <1>2, <1>4, <1>5 DEF Finished, Decided, new

-----------------------------------------------------------------------------
(* What playing a new letter, or a new word, does to a game in progress:   *)
(* it leaves it in progress and good, or finishes it by the rules.         *)

THEOREM PlayedLetter ==
    ASSUME NEW game, GoodGame(game), NEW letter \in Letters,
           ~triedBefore(game, "L", letter, numTrials(game))
    PROVE  LET status == letterStatus(game, letter)
               played == playLetter(game, letter)
           IN  /\ played \in Games
               /\ status \in {"OK", "NOK", "WIN", "OVR"}
               /\ status \in {"OK", "NOK"} => GoodGame(played)
               /\ status = "WIN" => Finished([played EXCEPT !.outcome = "win"])
               /\ status = "OVR" => Finished([played EXCEPT !.outcome = "fail"])
<1> DEFINE status == letterStatus(game, letter)
           played == playLetter(game, letter)
           shown  == showWord(game)
           miss   == letterTrial(letter, FALSE)
           hit    == letterTrial(letter, TRUE)
<1>1. game \in Games
  BY DEF GoodGame
<1>2. /\ miss \in Trials /\ ~miss.correct /\ miss.type = "L" /\ miss.guess = letter
      /\ hit \in Trials /\ hit.correct /\ hit.type = "L" /\ hit.guess = letter
  BY DEF letterTrial, Trials
<1>3. /\ status \in {"OK", "NOK", "WIN", "OVR"}
      /\ status = "NOK" => misses(game) < game.maxErrors
      /\ status = "OVR" => misses(game) >= game.maxErrors
  BY <1>1, LetterStatusCases
<1>4. status \in {"NOK", "OVR"} => played = registerGameTrial(game, miss)
  BY DEF playLetter
<1>5. status = "WIN" => played = registerGameTrial(shown, hit)
  BY DEF playLetter
<1> HIDE DEF miss, hit, played
<1>6. status = "OK" => GoodGame(played)
  BY HitGoesOn DEF played
<1>7. status = "NOK" => GoodGame(played)
  BY <1>2, <1>3, <1>4, MissGoesOn
<1>8. status = "OVR" => Finished([played EXCEPT !.outcome = "fail"])
  BY <1>2, <1>3, <1>4, MissLoses
<1>9. status = "WIN" =>
        played \in Games /\ Finished([played EXCEPT !.outcome = "win"])
  BY <1>2, <1>5, WinDecides
<1>10. played \in Games
  BY <1>1, <1>2, <1>3, <1>4, <1>6, <1>9, RegisterTrial DEF GoodGame
<1> QED
  BY <1>3, <1>6, <1>7, <1>8, <1>9, <1>10 DEF played

THEOREM PlayedWord ==
    ASSUME NEW game, GoodGame(game), NEW word \in Words,
           ~triedBefore(game, "W", word, numTrials(game))
    PROVE  LET status == wordStatus(game, word)
               played == playWord(game, word)
           IN  /\ played \in Games
               /\ status \in {"NOK", "WIN", "OVR"}
               /\ status = "NOK" => GoodGame(played)
               /\ status = "WIN" => Finished([played EXCEPT !.outcome = "win"])
               /\ status = "OVR" => Finished([played EXCEPT !.outcome = "fail"])
<1> DEFINE status == wordStatus(game, word)
           played == playWord(game, word)
           shown  == showWord(game)
           miss   == wordTrial(word, FALSE)
           hit    == wordTrial(word, TRUE)
<1>1. /\ miss \in Trials /\ ~miss.correct /\ miss.type = "W" /\ miss.guess = word
      /\ hit \in Trials /\ hit.correct /\ hit.type = "W" /\ hit.guess = word
  BY DEF wordTrial, Trials
<1>2. misses(game) \in Int /\ game.maxErrors \in Int
  BY DEF misses, numTrials, Games, GoodGame
<1>3. /\ status \in {"NOK", "WIN", "OVR"}
      /\ status = "NOK" => misses(game) < game.maxErrors
      /\ status = "OVR" => misses(game) >= game.maxErrors
  BY <1>2 DEF wordStatus
<1>4. status # "WIN" => played = registerGameTrial(game, miss)
  BY DEF playWord
<1>5. status = "WIN" => played = registerGameTrial(shown, hit)
  BY DEF playWord
<1> HIDE DEF miss, hit, played, status
<1>6. status = "NOK" => GoodGame(played)
  BY <1>1, <1>3, <1>4, MissGoesOn
<1>7. status = "OVR" => Finished([played EXCEPT !.outcome = "fail"])
  BY <1>1, <1>3, <1>4, MissLoses
<1>8. status = "WIN" =>
        played \in Games /\ Finished([played EXCEPT !.outcome = "win"])
  BY <1>1, <1>3, <1>5, WinDecides
<1>9. played \in Games
  BY <1>1, <1>3, <1>4, <1>8, RegisterTrial DEF GoodGame
<1> QED
  BY <1>3, <1>6, <1>7, <1>8, <1>9 DEF played, status
=============================================================================

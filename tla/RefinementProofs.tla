--------------------------- MODULE RefinementProofs ---------------------------
(***************************************************************************)
(* GameServer implements Hangman, for every set of players, word list and  *)
(* threshold.  The counters of a game and its mask are computed from what  *)
(* was there before; Agrees says what they come to in terms of the sets of *)
(* guesses, and each request then is a step of Hangman or changes nothing. *)
(***************************************************************************)
EXTENDS GameServerRefinement, GameServerProofs

AbstractGames == [word : Words, letters : SUBSET Letters, words : SUBSET Words]

(* The letters found are those tried that are in the word; the misses the  *)
(* counters give are the guesses that miss.                                *)
Agrees(g) ==
    /\ IsFiniteSet(guesses(g, "L")) /\ IsFiniteSet(guesses(g, "W"))
    /\ lettersFound(g) = guesses(g, "L") \cap H!lettersOf(g.word)
    /\ g.word \notin guesses(g, "W")
    /\ misses(g) = H!missed(playing(g))

AgreesInv == \A p \in PLIDs : ongoing[p] # NoGame => Agrees(ongoing[p])

-----------------------------------------------------------------------------
(* Hangman counts as this module does.                                     *)
LEMMA SameCardinality == \A S : H!Cardinality(S) = Cardinality(S)
BY DEF H!Cardinality, Cardinality, H!IsFiniteSet, IsFiniteSet

(* What the mapping makes of a game, and of one with a trial more.         *)

LEMMA PlayingIs ==
    ASSUME NEW g \in Games
    PROVE  /\ playing(g) = [word |-> g.word, letters |-> guesses(g, "L"),
                            words |-> guesses(g, "W")]
           /\ done(g) = H!finished(playing(g), g.outcome)
           /\ playing(g) \in AbstractGames
           /\ playing(g) # NoGame
<1>1. g # NoGame
  BY ServerAssumption
<1>2. playing(g) = [word |-> g.word, letters |-> guesses(g, "L"),
                    words |-> guesses(g, "W")]
  BY <1>1 DEF playing
<1>3. done(g) = H!finished(playing(g), g.outcome)
  BY <1>1, <1>2 DEF done, H!finished
<1>4. g.word \in Words /\ \A i \in 1..numTrials(g) : g.trials[i] \in Trials
  BY DEF Games, numTrials
<1>5. guesses(g, "L") \in SUBSET Letters /\ guesses(g, "W") \in SUBSET Words
  BY <1>4 DEF guesses, Trials
<1>6. playing(g) \in AbstractGames
  BY <1>2, <1>4, <1>5 DEF AbstractGames
<1> QED
  BY <1>2, <1>3, <1>6, RefinementAssumption DEF AbstractGames

LEMMA GuessesRegistered ==
    ASSUME NEW g \in Games, NEW trial \in Trials, NEW type
    PROVE  guesses(registerGameTrial(g, trial), type) =
             IF trial.type = type THEN guesses(g, type) \cup {trial.guess}
                                  ELSE guesses(g, type)
<1> DEFINE new == registerGameTrial(g, trial)
           n   == numTrials(g)
<1>1. /\ n \in Nat /\ numTrials(new) = n + 1
      /\ \A i \in 1..n : new.trials[i] = g.trials[i]
      /\ new.trials[n + 1] = trial
  BY RegisterTrial
<1> HIDE DEF new, n
<1>2. \A i : i \in 1..(n + 1) <=> i \in 1..n \/ i = n + 1
  BY <1>1
<1>3. guesses(g, type) = {g.trials[i].guess : i \in {j \in 1..n : g.trials[j].type = type}}
  BY DEF guesses, n
<1>4. guesses(new, type) =
        {new.trials[i].guess : i \in {j \in 1..(n + 1) : new.trials[j].type = type}}
  BY <1>1 DEF guesses
<1>5. CASE trial.type = type
  BY <1>1, <1>2, <1>3, <1>4, <1>5 DEF new
<1>6. CASE trial.type # type
  BY <1>1, <1>2, <1>3, <1>4, <1>6 DEF new
<1> QED
  BY <1>5, <1>6

LEMMA NotTried ==
    ASSUME NEW g \in Games, NEW type, NEW guess,
           ~triedBefore(g, type, guess, numTrials(g))
    PROVE  guess \notin guesses(g, type)
BY DEF triedBefore, guesses

LEMMA MissedIs ==
    ASSUME NEW g \in Games
    PROVE  H!missed(playing(g)) = Cardinality(guesses(g, "L") \ H!lettersOf(g.word))
                                    + Cardinality(guesses(g, "W") \ {g.word})
<1> DEFINE abs == playing(g)
<1>1. /\ abs.word = g.word /\ abs.letters = guesses(g, "L")
      /\ abs.words = guesses(g, "W")
  BY PlayingIs
<1> HIDE DEF abs
<1>2. H!missed(abs) = H!Cardinality(abs.letters \ H!lettersOf(abs.word))
                        + H!Cardinality(abs.words \ {abs.word})
  BY DEF H!missed
<1>3. H!missed(abs) = Cardinality(abs.letters \ H!lettersOf(abs.word))
                        + Cardinality(abs.words \ {abs.word})
  BY <1>2, SameCardinality, Zenon
<1> QED
  BY <1>1, <1>3 DEF abs

(* A game in progress is not solved, and its misses are allowed.           *)
LEMMA OpenIsUnsolved ==
    ASSUME NEW g, GoodGame(g), Agrees(g)
    PROVE  /\ ~H!solved(playing(g))
           /\ H!missed(playing(g)) <= calculateMaxErrors(g.word)
<1>1. g \in Games
  BY DEF GoodGame
<1>2. PICK i \in 1..Len(g.word) : g.mask[i] = Hidden
  BY DEF GoodGame, StillOpen, hiddenPositions
<1>3. g.word \in Seq(Letters)
  BY <1>1, RulesAssumption DEF Games
<1>4. g.word[i] \in H!lettersOf(g.word) /\ g.word[i] # Hidden
  BY <1>2, <1>3, RulesAssumption DEF H!lettersOf
<1>5. g.word[i] \notin guesses(g, "L")
  BY <1>2, <1>4 DEF GoodGame, Counted, Agrees
<1>6. ~H!solved(playing(g))
  BY <1>1, <1>4, <1>5, PlayingIs DEF H!solved, Agrees
<1> QED
  BY <1>6 DEF Agrees, GoodGame, Counted, StillOpen

-----------------------------------------------------------------------------
(* A trial that misses is one miss more in either sense, one that hits is  *)
(* none.                                                                   *)

LEMMA MissAgrees ==
    ASSUME NEW g \in Games, Agrees(g), NEW trial \in Trials, ~trial.correct,
           ~triedBefore(g, trial.type, trial.guess, numTrials(g)),
           trial.type = "L" => trial.guess \notin H!lettersOf(g.word),
           trial.type = "W" => trial.guess # g.word
    PROVE  /\ Agrees(registerGameTrial(g, trial))
           /\ H!missed(playing(registerGameTrial(g, trial))) = misses(g) + 1
<1> DEFINE new == registerGameTrial(g, trial)
           missedL(h) == guesses(h, "L") \ H!lettersOf(h.word)
           missedW(h) == guesses(h, "W") \ {h.word}
<1>1. /\ new \in Games /\ new.word = g.word
      /\ new.numSucc = g.numSucc /\ g.numSucc \in Nat
      /\ numTrials(g) \in Nat /\ numTrials(new) = numTrials(g) + 1
  BY RegisterTrial DEF Games
<1>2. lettersFound(new) = lettersFound(g)
  BY RegisteredCorrect
<1>3. trial.guess \notin guesses(g, trial.type)
  BY NotTried
<1>4. /\ guesses(new, "L") = IF trial.type = "L" THEN guesses(g, "L") \cup {trial.guess}
                                                 ELSE guesses(g, "L")
      /\ guesses(new, "W") = IF trial.type = "W" THEN guesses(g, "W") \cup {trial.guess}
                                                 ELSE guesses(g, "W")
  BY GuessesRegistered
<1>5. trial.type \in {"L", "W"}
  BY DEF Trials
<1> HIDE DEF new
<1>6. misses(new) = misses(g) + 1
  BY <1>1 DEF misses
<1>7. /\ IsFiniteSet(guesses(new, "L")) /\ IsFiniteSet(guesses(new, "W"))
      /\ lettersFound(new) = guesses(new, "L") \cap H!lettersOf(new.word)
      /\ new.word \notin guesses(new, "W")
  <2>1. IsFiniteSet(guesses(new, "L")) /\ IsFiniteSet(guesses(new, "W"))
    BY <1>4, FS_AddElement DEF Agrees
  <2>2. lettersFound(new) = guesses(new, "L") \cap H!lettersOf(new.word)
    BY <1>1, <1>2, <1>4 DEF Agrees
  <2>3. new.word \notin guesses(new, "W")
    BY <1>1, <1>4 DEF Agrees
  <2> QED
    BY <2>1, <2>2, <2>3
<1>8. \A h \in Games :
        H!missed(playing(h)) = Cardinality(missedL(h)) + Cardinality(missedW(h))
  BY MissedIs
<1>9. /\ IsFiniteSet(missedL(g)) /\ IsFiniteSet(missedW(g))
      /\ Cardinality(missedL(g)) \in Nat /\ Cardinality(missedW(g)) \in Nat
  <2>1. missedL(g) \in SUBSET guesses(g, "L") /\ missedW(g) \in SUBSET guesses(g, "W")
    OBVIOUS
  <2> QED
    BY <2>1, FS_Subset, FS_CardinalityType DEF Agrees
<1>10. Cardinality(missedL(new)) + Cardinality(missedW(new))
         = Cardinality(missedL(g)) + Cardinality(missedW(g)) + 1
  <2>1. CASE trial.type = "L"
    <3>1. missedL(new) = missedL(g) \cup {trial.guess} /\ missedW(new) = missedW(g)
      BY <1>1, <1>4, <2>1
    <3>2. trial.guess \notin missedL(g)
      BY <1>3, <2>1
    <3>3. Cardinality(missedL(new)) = Cardinality(missedL(g)) + 1
      BY <1>9, <3>1, <3>2, FS_AddElement
    <3> HIDE DEF missedL, missedW
    <3> QED
      BY <1>9, <3>1, <3>3
  <2>2. CASE trial.type = "W"
    <3>1. missedW(new) = missedW(g) \cup {trial.guess} /\ missedL(new) = missedL(g)
      BY <1>1, <1>4, <2>2
    <3>2. trial.guess \notin missedW(g)
      BY <1>3, <2>2
    <3>3. Cardinality(missedW(new)) = Cardinality(missedW(g)) + 1
      BY <1>9, <3>1, <3>2, FS_AddElement
    <3> HIDE DEF missedL, missedW
    <3> QED
      BY <1>9, <3>1, <3>3
  <2> QED
    BY <1>5, <2>1, <2>2
<1>11. H!missed(playing(new)) = misses(g) + 1
  BY <1>1, <1>8, <1>10 DEF Agrees
<1> QED
  BY <1>6, <1>7, <1>11 DEF Agrees, new

(* What is read off the trials is the same for games of the same trials.   *)
LEMMA SameTrials ==
    ASSUME NEW g, NEW h, g.trials = h.trials
    PROVE  /\ numTrials(g) = numTrials(h)
           /\ lettersFound(g) = lettersFound(h)
           /\ \A type : guesses(g, type) = guesses(h, type)
BY DEF numTrials, lettersFound, correctTrials, guesses

(* A letter of the word: found and tried, and no miss in either sense.     *)
LEMMA HitAgrees ==
    ASSUME NEW g \in Games, Agrees(g), NEW letter \in Letters,
           letter \in H!lettersOf(g.word), letterStatus(g, letter) = "OK",
           playLetter(g, letter) \in Games
    PROVE  Agrees(playLetter(g, letter))
<1> DEFINE new == playLetter(g, letter)
           hit == letterTrial(letter, TRUE)
           ref == registerGameTrial(g, hit)
<1>1. /\ new.trials = Append(g.trials, hit) /\ ref.trials = new.trials
      /\ new.word = g.word /\ new.numSucc = g.numSucc + 1
  BY DEF playLetter, registerGameTrial, showLetter, Games
<1>2. hit \in Trials /\ hit.type = "L" /\ hit.guess = letter /\ hit.correct
  BY DEF letterTrial, Trials
<1>3. /\ g.numSucc \in Nat /\ numTrials(g) \in Nat
      /\ numTrials(ref) = numTrials(g) + 1
  BY <1>2, RegisterTrial DEF Games
<1> HIDE DEF hit, new
<1>4. /\ lettersFound(ref) = lettersFound(g) \cup {letter}
      /\ guesses(ref, "L") = guesses(g, "L") \cup {letter}
      /\ guesses(ref, "W") = guesses(g, "W")
  <2>1. lettersFound(ref) = lettersFound(g) \cup {letter}
    BY <1>2, RegisteredCorrect
  <2> QED
    BY <1>2, <2>1, GuessesRegistered
<1> HIDE DEF ref
<1>5. /\ numTrials(new) = numTrials(g) + 1
      /\ lettersFound(new) = lettersFound(g) \cup {letter}
      /\ guesses(new, "L") = guesses(g, "L") \cup {letter}
      /\ guesses(new, "W") = guesses(g, "W")
  <2>1. /\ numTrials(new) = numTrials(ref) /\ lettersFound(new) = lettersFound(ref)
        /\ guesses(new, "L") = guesses(ref, "L")
        /\ guesses(new, "W") = guesses(ref, "W")
    BY <1>1, SameTrials
  <2> QED
    BY <1>3, <1>4, <2>1
<1>6. misses(new) = misses(g)
  BY <1>1, <1>3, <1>5 DEF misses
<1>7. H!missed(playing(new)) = H!missed(playing(g))
  <2>1. guesses(new, "L") \ H!lettersOf(new.word) = guesses(g, "L") \ H!lettersOf(g.word)
    BY <1>1, <1>5
  <2>2. new \in Games
    BY DEF new
  <2> QED
    BY <1>1, <1>5, <2>1, <2>2, MissedIs
<1>8. IsFiniteSet(guesses(new, "L"))
  BY <1>5, FS_AddElement DEF Agrees
<1> QED
  BY <1>1, <1>5, <1>6, <1>7, <1>8 DEF Agrees, new

-----------------------------------------------------------------------------
(* A new letter and a new word are judged as Hangman judges them.          *)

LEMMA LetterJudged ==
    ASSUME NEW g, GoodGame(g), Agrees(g), NEW letter \in Letters,
           ~triedBefore(g, "L", letter, numTrials(g))
    PROVE  LET status == letterStatus(g, letter)
               played == playLetter(g, letter)
               abs    == [playing(g) EXCEPT !.letters = @ \cup {letter}]
           IN  /\ playing(played) = abs
               /\ status = "WIN" => H!solved(abs)
               /\ status \in {"OK", "NOK"} => Agrees(played)
               /\ status = "OVR" => /\ ~H!solved(abs)
                                    /\ H!missed(abs) > calculateMaxErrors(g.word)
<1> DEFINE status == letterStatus(g, letter)
           played == playLetter(g, letter)
           abs    == [playing(g) EXCEPT !.letters = @ \cup {letter}]
           pos    == getLetterPositions(letter, g.word)
           trial(correct) == letterTrial(letter, correct)
<1>1. g \in Games /\ g.word \in Seq(Letters)
  BY RulesAssumption DEF GoodGame, Games
<1>2. played \in Games
  BY PlayedLetter
<1>3. \A correct \in BOOLEAN :
        /\ trial(correct) \in Trials /\ trial(correct).correct = correct
        /\ trial(correct).type = "L" /\ trial(correct).guess = letter
  BY DEF letterTrial, Trials
<1>4. /\ \/ status = "OVR" /\ pos = {} /\ misses(g) >= g.maxErrors
         \/ status = "NOK" /\ pos = {}
         \/ status = "WIN" /\ pos # {} /\ g.remaining = Cardinality(pos)
         \/ status = "OK"  /\ pos # {}
  BY <1>1, LetterStatusCases
<1>5. pos = {} <=> letter \notin H!lettersOf(g.word)
  BY <1>1 DEF getLetterPositions, H!lettersOf
<1>6. /\ played.word = g.word
      /\ \E correct \in BOOLEAN :
           played.trials = registerGameTrial(g, trial(correct)).trials
      /\ pos = {} => played = registerGameTrial(g, trial(FALSE))
  BY <1>1, <1>4 DEF playLetter, registerGameTrial, showLetter, showWord, Games
<1> HIDE DEF trial, played
<1>7. /\ guesses(played, "L") = guesses(g, "L") \cup {letter}
      /\ guesses(played, "W") = guesses(g, "W")
  <2>1. PICK correct \in BOOLEAN :
          played.trials = registerGameTrial(g, trial(correct)).trials
    BY <1>6
  <2> QED
    BY <1>1, <1>3, <2>1, GuessesRegistered, SameTrials
<1>8. playing(played) = abs
  BY <1>1, <1>2, <1>6, <1>7, PlayingIs
<1>9. CASE status = "WIN"
  <2>1. pos \in SUBSET hiddenPositions(g)
    BY NewLetterIsHidden
  <2>2. pos = hiddenPositions(g)
    BY <1>1, <1>4, <1>9, <2>1, HiddenFinite, FS_Subset DEF GoodGame, Counted
  <2>3. ASSUME NEW i \in DOMAIN g.word
        PROVE  g.word[i] \in guesses(g, "L") \cup {letter}
    <3>1. i \in 1..Len(g.word)
      BY <1>1
    <3>2. CASE i \in pos
      BY <3>2 DEF getLetterPositions
    <3>3. CASE i \notin pos
      <4>1. g.mask[i] # Hidden
        BY <2>2, <3>1, <3>3 DEF hiddenPositions
      <4>2. g.word[i] \in lettersFound(g)
        BY <3>1, <4>1 DEF GoodGame, Counted
      <4> QED
        BY <4>2 DEF Agrees
    <3> QED
      BY <3>2, <3>3
  <2>4. abs.word = g.word /\ abs.letters = guesses(g, "L") \cup {letter}
    BY <1>1, PlayingIs
  <2>5. H!solved(abs)
    BY <2>3, <2>4 DEF H!solved, H!lettersOf
  <2> QED
    BY <1>8, <1>9, <2>5 DEF played
<1>10. CASE status = "OK"
  BY <1>1, <1>2, <1>4, <1>5, <1>8, <1>10, HitAgrees DEF played
<1>11. CASE status \in {"NOK", "OVR"}
  <2>1. /\ letter \notin H!lettersOf(g.word)
        /\ played = registerGameTrial(g, trial(FALSE))
    BY <1>4, <1>5, <1>6, <1>11
  <2>2. Agrees(played) /\ H!missed(playing(played)) = misses(g) + 1
    BY <1>1, <1>3, <2>1, MissAgrees
  <2>3. ASSUME status = "OVR" PROVE H!missed(abs) > calculateMaxErrors(g.word)
    <3>1. misses(g) >= g.maxErrors /\ g.maxErrors = calculateMaxErrors(g.word)
      BY <1>4, <2>3 DEF GoodGame, Counted
    <3>2. misses(g) \in Int /\ g.maxErrors \in Int
      BY <1>1 DEF misses, numTrials, Games
    <3> QED
      BY <1>8, <2>2, <3>1, <3>2
  <2>4. ~H!solved(abs)
    <3>1. ~H!solved(playing(g))
      BY OpenIsUnsolved
    <3>2. /\ playing(g).word = g.word /\ abs.word = g.word
          /\ abs.letters = playing(g).letters \cup {letter}
          /\ abs.words = playing(g).words
      BY <1>1, PlayingIs
    <3> QED
      BY <2>1, <3>1, <3>2 DEF H!solved
  <2> QED
    BY <1>8, <1>11, <2>2, <2>3, <2>4 DEF played
<1> QED
  BY <1>4, <1>9, <1>10, <1>11

LEMMA WordJudged ==
    ASSUME NEW g, GoodGame(g), Agrees(g), NEW word \in Words,
           ~triedBefore(g, "W", word, numTrials(g))
    PROVE  LET status == wordStatus(g, word)
               played == playWord(g, word)
               abs    == [playing(g) EXCEPT !.words = @ \cup {word}]
           IN  /\ playing(played) = abs
               /\ status = "WIN" => H!solved(abs)
               /\ status = "NOK" => Agrees(played)
               /\ status = "OVR" => /\ ~H!solved(abs)
                                    /\ H!missed(abs) > calculateMaxErrors(g.word)
<1> DEFINE status == wordStatus(g, word)
           played == playWord(g, word)
           abs    == [playing(g) EXCEPT !.words = @ \cup {word}]
           trial(correct) == wordTrial(word, correct)
<1>1. g \in Games
  BY DEF GoodGame
<1>2. played \in Games
  BY PlayedWord
<1>3. \A correct \in BOOLEAN :
        /\ trial(correct) \in Trials /\ trial(correct).correct = correct
        /\ trial(correct).type = "W" /\ trial(correct).guess = word
  BY DEF wordTrial, Trials
<1>4. /\ status = "WIN" => word = g.word
      /\ status # "WIN" => word # g.word
      /\ status = "OVR" => misses(g) >= g.maxErrors
  BY DEF wordStatus
<1>5. /\ played.word = g.word
      /\ \E correct \in BOOLEAN :
           played.trials = registerGameTrial(g, trial(correct)).trials
      /\ status # "WIN" => played = registerGameTrial(g, trial(FALSE))
  BY <1>1 DEF playWord, registerGameTrial, showWord, Games
<1> HIDE DEF trial, played, status
<1>6. /\ guesses(played, "W") = guesses(g, "W") \cup {word}
      /\ guesses(played, "L") = guesses(g, "L")
  <2>1. PICK correct \in BOOLEAN :
          played.trials = registerGameTrial(g, trial(correct)).trials
    BY <1>5
  <2> QED
    BY <1>1, <1>3, <2>1, GuessesRegistered, SameTrials
<1>7. playing(played) = abs
  BY <1>1, <1>2, <1>5, <1>6, PlayingIs
<1>8. /\ playing(g).word = g.word /\ abs.word = g.word
      /\ abs.letters = playing(g).letters
      /\ abs.words = playing(g).words \cup {word}
  BY <1>1, PlayingIs
<1>9. CASE status = "WIN"
  BY <1>4, <1>7, <1>8, <1>9 DEF H!solved, status, played
<1>10. CASE status # "WIN"
  <2>1. word # g.word /\ played = registerGameTrial(g, trial(FALSE))
    BY <1>4, <1>5, <1>10
  <2> DEFINE miss == trial(FALSE)
  <2>2. /\ miss \in Trials /\ ~miss.correct
        /\ miss.type = "W" /\ miss.guess = word
    BY <1>3
  <2>3. played = registerGameTrial(g, miss)
    BY <2>1
  <2> HIDE DEF miss
  <2>4. Agrees(played) /\ H!missed(playing(played)) = misses(g) + 1
    BY <1>1, <2>1, <2>2, <2>3, MissAgrees
  <2>5. ASSUME status = "OVR" PROVE H!missed(abs) > calculateMaxErrors(g.word)
    <3>1. misses(g) >= g.maxErrors /\ g.maxErrors = calculateMaxErrors(g.word)
      BY <1>4, <2>5 DEF GoodGame, Counted
    <3>2. misses(g) \in Int /\ g.maxErrors \in Int
      BY <1>1 DEF misses, numTrials, Games
    <3> QED
      BY <1>7, <2>4, <3>1, <3>2
  <2>6. ~H!solved(abs)
    BY <1>8, <2>1, OpenIsUnsolved DEF H!solved
  <2> QED
    BY <1>7, <1>10, <2>4, <2>5, <2>6 DEF status, played
<1> QED
  BY <1>9, <1>10

-----------------------------------------------------------------------------
(* The two ways a handler leaves the files, seen through the mapping.      *)

gameBar == [p \in PLIDs |-> playing(ongoing[p])]
resultBar == [p \in PLIDs |-> done(last[p])]

LEMMA SaveMapped ==
    ASSUME GamesInv, NEW p \in PLIDs, NEW g, saveGame(p, g)
    PROVE  gameBar' = [gameBar EXCEPT ![p] = playing(g)] /\ resultBar' = resultBar
BY DEF GamesInv, saveGame, gameBar, resultBar

LEMMA EndMapped ==
    ASSUME GamesInv, NEW p \in PLIDs, NEW g \in Games, NEW outcome \in Outcomes,
           endGame(p, g, outcome)
    PROVE  /\ gameBar' = [gameBar EXCEPT ![p] = NoGame]
           /\ resultBar' = [resultBar EXCEPT ![p] = H!finished(playing(g), outcome)]
<1> DEFINE end == [g EXCEPT !.outcome = outcome]
<1>1. /\ end \in Games /\ end.outcome = outcome
      /\ end.word = g.word /\ end.trials = g.trials
  BY DEF Games
<1>2. /\ ongoing' = [ongoing EXCEPT ![p] = NoGame]
      /\ last' = [last EXCEPT ![p] = end]
  BY DEF endGame
<1> HIDE DEF end
<1>3. done(end) = H!finished(playing(g), outcome)
  <2>1. playing(end) = playing(g)
    BY <1>1, PlayingIs, SameTrials
  <2> QED
    BY <1>1, <2>1, PlayingIs
<1>4. playing(NoGame) = NoGame
  BY DEF playing
<1> QED
  BY <1>2, <1>3, <1>4 DEF GamesInv, gameBar, resultBar

(* Hangman's step for a guess that is judged.                              *)
LEMMA Judged ==
    ASSUME GamesInv, AgreesInv, NEW p \in PLIDs, ongoing[p] # NoGame,
           NEW played \in Games, NEW abs, playing(played) = abs,
           abs.word = ongoing[p].word,
           \/ H!solved(abs) /\ endGame(p, played, "win")
           \/ /\ ~H!solved(abs)
              /\ H!missed(abs) > calculateMaxErrors(abs.word)
              /\ endGame(p, played, "fail")
           \/ GoodGame(played) /\ Agrees(played) /\ saveGame(p, played)
    PROVE  H!Judge(p, abs)
<1>1. abs.word \in Words
  BY DEF GamesInv, Games
<1>2. [w \in Words |-> calculateMaxErrors(w)][abs.word] = calculateMaxErrors(abs.word)
  BY <1>1
<1>3. CASE H!solved(abs) /\ endGame(p, played, "win")
  <2>1. "win" \in Outcomes
    BY DEF Outcomes
  <2>2. /\ gameBar' = [gameBar EXCEPT ![p] = NoGame]
        /\ resultBar' = [resultBar EXCEPT ![p] = H!finished(abs, "win")]
    BY <1>3, <2>1, EndMapped
  <2>3. H!Finish(p, abs, "win")
    BY <2>2 DEF H!Finish, gameBar, resultBar
  <2> QED
    BY <1>3, <2>3 DEF H!Judge
<1>4. CASE /\ ~H!solved(abs)
           /\ H!missed(abs) > calculateMaxErrors(abs.word)
           /\ endGame(p, played, "fail")
  <2>1. "fail" \in Outcomes
    BY DEF Outcomes
  <2>2. /\ gameBar' = [gameBar EXCEPT ![p] = NoGame]
        /\ resultBar' = [resultBar EXCEPT ![p] = H!finished(abs, "fail")]
    BY <1>4, <2>1, EndMapped
  <2>3. H!Finish(p, abs, "fail")
    BY <2>2 DEF H!Finish, gameBar, resultBar
  <2> QED
    BY <1>2, <1>4, <2>3 DEF H!Judge
<1>5. CASE GoodGame(played) /\ Agrees(played) /\ saveGame(p, played)
  <2>1. /\ ~H!solved(abs)
        /\ H!missed(abs) <= calculateMaxErrors(played.word)
    BY <1>5, OpenIsUnsolved
  <2>2. abs.word = played.word
    BY PlayingIs
  <2>3. gameBar' = [gameBar EXCEPT ![p] = abs] /\ resultBar' = resultBar
    BY <1>5, SaveMapped
  <2> QED
    BY <1>2, <2>1, <2>2, <2>3 DEF H!Judge, gameBar, resultBar
<1> QED
  BY <1>3, <1>4, <1>5

-----------------------------------------------------------------------------
(* What each request is in Hangman, and that the games still agree.        *)

absVars == <<gameBar, resultBar>>

simulated == AgreesInv' /\ (H!Next \/ UNCHANGED absVars)

LEMMA AgreesSaved ==
    ASSUME GamesInv, AgreesInv, NEW p \in PLIDs, NEW g, Agrees(g), saveGame(p, g)
    PROVE  AgreesInv'
<1>1. ongoing' = [ongoing EXCEPT ![p] = g] /\ DOMAIN ongoing = PLIDs
  BY DEF saveGame, GamesInv
<1> SUFFICES ASSUME NEW q \in PLIDs, ongoing'[q] # NoGame PROVE Agrees(ongoing'[q])
  BY DEF AgreesInv, Agrees, guesses, lettersFound, correctTrials, misses, numTrials
<1>2. ongoing'[q] = g \/ ongoing'[q] = ongoing[q]
  BY <1>1
<1> QED
  BY <1>1, <1>2 DEF AgreesInv

LEMMA AgreesEnded ==
    ASSUME GamesInv, AgreesInv, NEW p \in PLIDs, NEW g, NEW outcome, endGame(p, g, outcome)
    PROVE  AgreesInv'
<1>1. ongoing' = [ongoing EXCEPT ![p] = NoGame] /\ DOMAIN ongoing = PLIDs
  BY DEF endGame, GamesInv
<1>2. \A q \in PLIDs : ongoing'[q] = NoGame \/ ongoing'[q] = ongoing[q]
  BY <1>1
<1> QED
  BY <1>2 DEF AgreesInv

LEMMA GamesUnchanged ==
    ASSUME AgreesInv, UNCHANGED <<ongoing, last>>
    PROVE  simulated
BY DEF simulated, AgreesInv, absVars, gameBar, resultBar

LEMMA GameSavedAgain ==
    ASSUME GamesInv, AgreesInv, NEW p \in PLIDs, saveGame(p, ongoing[p])
    PROVE  simulated
<1>1. UNCHANGED <<ongoing, last>>
  BY DEF GamesInv, saveGame
<1> QED
  BY <1>1, GamesUnchanged

LEMMA SimulateStart ==
    ASSUME GamesInv, AgreesInv, NEW p \in PLIDs, StartNew(p)
    PROVE  simulated
<1>1. PICK i \in DOMAIN WordList :
        ongoing[p] = NoGame /\ saveGame(p, newGame(WordList[i]))
  BY DEF StartNew
<1> DEFINE word == WordList[i]
           new  == newGame(word)
<1>2. word \in Words
  BY RulesAssumption
<1>3. new \in Games /\ GoodGame(new)
  BY <1>2, NewGameIsGood DEF GoodGame
<1>4. /\ new.word = word /\ new.numSucc = 0 /\ numTrials(new) = 0
      /\ \A type : guesses(new, type) = {}
      /\ lettersFound(new) = {}
  BY DEF newGame, numTrials, guesses, lettersFound, correctTrials
<1> HIDE DEF new
<1>5. playing(new) = H!fresh(word)
  BY <1>3, <1>4, PlayingIs DEF H!fresh
<1>6. misses(new) = H!missed(playing(new))
  <2>1. Cardinality({}) = 0
    BY FS_EmptySet
  <2>2. {} \ H!lettersOf(new.word) = {} /\ {} \ {new.word} = {}
    OBVIOUS
  <2>3. H!missed(playing(new)) = 0
    BY <1>3, <1>4, <2>1, <2>2, MissedIs
  <2> QED
    BY <1>4, <2>3 DEF misses
<1>7. Agrees(new)
  BY <1>4, <1>6, FS_EmptySet DEF Agrees
<1>8. AgreesInv'
  BY <1>1, <1>7, AgreesSaved DEF new
<1>9. gameBar' = [gameBar EXCEPT ![p] = H!fresh(word)] /\ resultBar' = resultBar
  BY <1>1, <1>5, SaveMapped DEF new
<1>10. gameBar[p] = NoGame
  BY <1>1 DEF gameBar, playing
<1>11. H!Start(p)
  BY <1>9, <1>10 DEF H!Start, gameBar, resultBar
<1> QED
  BY <1>8, <1>11 DEF simulated, H!Next

LEMMA SimulateLetter ==
    ASSUME GamesInv, AgreesInv, NEW p \in PLIDs, NEW letter \in Letters, NEW trial,
           LetterPlayed(p, letter, trial)
    PROVE  simulated
<1> DEFINE g      == ongoing[p]
           status == letterStatus(g, letter)
           played == playLetter(g, letter)
           abs    == [playing(g) EXCEPT !.letters = @ \cup {letter}]
<1>1. /\ g # NoGame /\ ~triedBefore(g, "L", letter, numTrials(g))
      /\ \/ status = "WIN" /\ endGame(p, played, "win")
         \/ status = "OVR" /\ endGame(p, played, "fail")
         \/ status \in {"OK", "NOK"} /\ saveGame(p, played)
  BY DEF LetterPlayed
<1>2. g \in Games /\ GoodGame(g) /\ Agrees(g)
  BY <1>1 DEF GamesInv, GoodGame, AgreesInv
<1>3. /\ played \in Games
      /\ status \in {"OK", "NOK"} => GoodGame(played)
  BY <1>1, <1>2, PlayedLetter
<1>4. /\ playing(played) = abs
      /\ status = "WIN" => H!solved(abs)
      /\ status \in {"OK", "NOK"} => Agrees(played)
      /\ status = "OVR" => ~H!solved(abs) /\ H!missed(abs) > calculateMaxErrors(g.word)
  BY <1>1, <1>2, LetterJudged
<1>5. abs.word = g.word /\ gameBar[p] = playing(g) /\ playing(g) # NoGame
      /\ playing(g).letters = guesses(g, "L")
  BY <1>2, PlayingIs DEF gameBar
<1>6. letter \in Letters \ playing(g).letters
  BY <1>1, <1>2, <1>5, NotTried
<1> HIDE DEF status, played, abs
<1>7. H!Judge(p, abs)
  BY <1>1, <1>3, <1>4, <1>5, Judged
<1>8. H!TryLetter(p)
  BY <1>5, <1>6, <1>7 DEF H!TryLetter, gameBar, abs
<1>9. AgreesInv'
  BY <1>1, <1>4, AgreesSaved, AgreesEnded
<1> QED
  BY <1>8, <1>9 DEF simulated, H!Next

LEMMA SimulateWord ==
    ASSUME GamesInv, AgreesInv, NEW p \in PLIDs, NEW word \in Words, NEW trial,
           WordPlayed(p, word, trial)
    PROVE  simulated
<1> DEFINE g      == ongoing[p]
           status == wordStatus(g, word)
           played == playWord(g, word)
           abs    == [playing(g) EXCEPT !.words = @ \cup {word}]
<1>1. /\ g # NoGame /\ ~triedBefore(g, "W", word, numTrials(g))
      /\ \/ status = "WIN" /\ endGame(p, played, "win")
         \/ status = "OVR" /\ endGame(p, played, "fail")
         \/ status = "NOK" /\ saveGame(p, played)
  BY DEF WordPlayed
<1>2. g \in Games /\ GoodGame(g) /\ Agrees(g)
  BY <1>1 DEF GamesInv, GoodGame, AgreesInv
<1>3. /\ played \in Games
      /\ status = "NOK" => GoodGame(played)
  BY <1>1, <1>2, PlayedWord
<1>4. /\ playing(played) = abs
      /\ status = "WIN" => H!solved(abs)
      /\ status = "NOK" => Agrees(played)
      /\ status = "OVR" => ~H!solved(abs) /\ H!missed(abs) > calculateMaxErrors(g.word)
  BY <1>1, <1>2, WordJudged
<1>5. abs.word = g.word /\ gameBar[p] = playing(g) /\ playing(g) # NoGame
      /\ playing(g).words = guesses(g, "W")
  BY <1>2, PlayingIs DEF gameBar
<1>6. word \in Words \ playing(g).words
  BY <1>1, <1>2, <1>5, NotTried
<1> HIDE DEF status, played, abs
<1>7. H!Judge(p, abs)
  BY <1>1, <1>3, <1>4, <1>5, Judged
<1>8. H!TryWord(p)
  BY <1>5, <1>6, <1>7 DEF H!TryWord, gameBar, abs
<1>9. AgreesInv'
  BY <1>1, <1>4, AgreesSaved, AgreesEnded
<1> QED
  BY <1>8, <1>9 DEF simulated, H!Next

LEMMA SimulateQuit ==
    ASSUME GamesInv, AgreesInv, NEW p \in PLIDs, ongoing[p] # NoGame,
           endGame(p, ongoing[p], "quit")
    PROVE  simulated
<1>1. ongoing[p] \in Games /\ "quit" \in Outcomes
  BY DEF GamesInv, Outcomes
<1>2. gameBar[p] = playing(ongoing[p]) /\ gameBar[p] # NoGame
  BY <1>1, PlayingIs DEF gameBar
<1>3. /\ gameBar' = [gameBar EXCEPT ![p] = NoGame]
      /\ resultBar' = [resultBar EXCEPT ![p] = H!finished(gameBar[p], "quit")]
  BY <1>1, <1>2, EndMapped
<1>4. H!GiveUp(p)
  BY <1>2, <1>3 DEF H!GiveUp, H!Finish, gameBar, resultBar
<1>5. AgreesInv'
  BY AgreesEnded
<1> QED
  BY <1>4, <1>5 DEF simulated, H!Next

LEMMA SimulateStep ==
    ASSUME GamesInv, AgreesInv, [Next]_vars
    PROVE  simulated
<1>1. ASSUME NEW p \in PLIDs, SNG(p) \/ QUT(p) \/ REV(p) PROVE simulated
  <2>1. CASE SNG(p)
    BY <2>1, SimulateStart, GamesUnchanged DEF SNG, StartAgain
  <2>2. CASE QUT(p)
    BY <2>2, SimulateQuit, GamesUnchanged DEF QUT, store
  <2>3. CASE REV(p)
    BY <2>3, GamesUnchanged DEF REV
  <2> QED
    BY <1>1, <2>1, <2>2, <2>3
<1>2. ASSUME NEW p \in PLIDs, NEW letter \in Letters, NEW trial, PLG(p, letter, trial)
      PROVE  simulated
  BY <1>2, SimulateLetter, GameSavedAgain, GamesUnchanged
     DEF PLG, LetterWithoutGame, LetterOutOfTurn, LetterRepeated, LetterDuplicate, store
<1>3. ASSUME NEW p \in PLIDs, NEW word \in Words, NEW trial, PWG(p, word, trial)
      PROVE  simulated
  BY <1>3, SimulateWord, GameSavedAgain, GamesUnchanged
     DEF PWG, WordWithoutGame, WordOutOfTurn, WordRepeated, WordCrash,
         WordDuplicate, store
<1>4. CASE UNCHANGED <<ongoing, last>>
  BY <1>4, GamesUnchanged
<1> QED
  BY <1>1, <1>2, <1>3, <1>4
     DEF Next, UDPRequest, GHL, STA, GSB, Tick, Restart, vars

(* Every behaviour of the server is one of the game as Hangman states it:  *)
(* for every word list and threshold, wins and losses come at the guess    *)
(* that decides them, and repetitions, refusals and restarts are no steps. *)
THEOREM Implementation == Spec => ImplementsHangman
<1>1. Init => AgreesInv
  BY DEF Init, AgreesInv
<1>2. Init => H!Init
  BY DEF Init, H!Init, playing, done
<1>3. IInv /\ AgreesInv /\ [Next]_vars => AgreesInv'
  BY SimulateStep DEF IInv, simulated
<1>4. IInv /\ AgreesInv /\ [Next]_vars =>
        [H!Next]_<<[p \in PLIDs |-> playing(ongoing[p])],
                   [p \in PLIDs |-> done(last[p])]>>
  BY SimulateStep DEF IInv, simulated, absVars, gameBar, resultBar
<1> QED
  BY <1>1, <1>2, <1>3, <1>4, Invariance, PTL DEF Spec, ImplementsHangman, H!Spec
===============================================================================

--------------------------- MODULE GameServerProofs ---------------------------
(***************************************************************************)
(* Safety of GameServer for every set of players, word list, alphabet and  *)
(* threshold.  The inductive invariant says of each file what the rules    *)
(* promise: a game in progress is good, a finished one is decided, and the *)
(* names of the score files are those of different wins.                   *)
(***************************************************************************)
EXTENDS GameServer, HangmanRulesProofs

GamesInv ==
    /\ ongoing \in [PLIDs -> Games \cup {NoGame}]
    /\ last \in [PLIDs -> Games \cup {NoGame}]
    /\ \A p \in PLIDs :
         /\ ongoing[p] # NoGame => GoodGame(ongoing[p])
         /\ last[p] # NoGame => Finished(last[p])

ScoresInv ==
    /\ scores \subseteq ScoreFiles
    /\ IsFiniteSet(scores)
    /\ \A s, r \in scores : sameFile(s, r) => s = r
    /\ scoreboard \in Seq(ScoreFiles)

ProcessInv ==
    /\ wordPtr \in 0..Len(WordList)
    /\ up \in BOOLEAN
    /\ now \in 0..MaxTime

IInv == GamesInv /\ ScoresInv /\ ProcessInv

-----------------------------------------------------------------------------
(* Scores.                                                                 *)

LEMMA ScoreType ==
    ASSUME NEW game \in Games
    PROVE  calculateScore(game) \in 0..100
<1> DEFINE n == numTrials(game)
           a == 100 * game.numSucc + n \div 2
<1>1. n \in Nat /\ game.numSucc \in Nat
  BY DEF Games, numTrials
<1>2. CASE n = 0
  BY <1>2 DEF calculateScore
<1>3. CASE n # 0
  <2>1. a \in Nat /\ n \in Nat /\ n > 0
    BY <1>1, <1>3
  <2> HIDE DEF a, n
  <2>2. a \div n \in Nat
    BY <2>1
  <2>3. calculateScore(game) = IF game.numSucc = 0 \/ n = 0 THEN 0
                               ELSE IF a \div n < 100 THEN a \div n ELSE 100
    BY DEF calculateScore, a, n
  <2> QED
    BY <2>2, <2>3
<1> QED
  BY <1>2, <1>3

(* The files come in a strict order, so each rank below their number is    *)
(* the rank of one of them.                                                *)

rank(files, s) == Cardinality({r \in files : fileBefore(s, r)})

LEMMA FileOrder ==
    ASSUME NEW s \in ScoreFiles, NEW r \in ScoreFiles, NEW q \in ScoreFiles
    PROVE  /\ ~fileBefore(s, s)
           /\ fileBefore(s, r) /\ fileBefore(r, q) => fileBefore(s, q)
           /\ fileBefore(s, r) \/ fileBefore(r, s) \/ sameFile(s, r)
<1>1. \A f \in ScoreFiles : f.score \in Int /\ f.PLID \in Int /\ f.stamp \in Int
  <2>1. PLIDs \subseteq Int /\ 0..MaxTime \subseteq Int /\ 0..100 \subseteq Int
    BY ServerAssumption
  <2>2. \A f \in ScoreFiles :
          f.score \in 0..100 /\ f.PLID \in PLIDs /\ f.stamp \in 0..MaxTime
    BY DEF ScoreFiles
  <2> QED
    BY <2>1, <2>2
<1>2. ~fileBefore(s, s)
  BY <1>1 DEF fileBefore
<1>3. fileBefore(s, r) /\ fileBefore(r, q) => fileBefore(s, q)
  BY <1>1 DEF fileBefore
<1>4. fileBefore(s, r) \/ fileBefore(r, s) \/ sameFile(s, r)
  BY <1>1 DEF fileBefore, sameFile
<1> QED
  BY <1>2, <1>3, <1>4

LEMMA RankOrder ==
    ASSUME NEW files \in SUBSET ScoreFiles, IsFiniteSet(files),
           NEW s \in files, NEW r \in files, fileBefore(s, r)
    PROVE  /\ rank(files, s) \in Nat /\ rank(files, r) \in Nat
           /\ rank(files, r) < rank(files, s)
<1> DEFINE above(f) == {q \in files : fileBefore(f, q)}
<1>1. above(s) \in SUBSET files /\ above(r) \in SUBSET above(s)
  BY FileOrder
<1>2. r \in above(s) /\ r \notin above(r)
  BY FileOrder
<1>3. IsFiniteSet(above(s)) /\ IsFiniteSet(above(r))
  BY <1>1, FS_Subset
<1>4. /\ Cardinality(above(s)) \in Nat /\ Cardinality(above(r)) \in Nat
      /\ Cardinality(above(r)) < Cardinality(above(s))
  BY <1>1, <1>2, <1>3, FS_Subset, FS_CardinalityType
<1> QED
  BY <1>4 DEF rank

LEMMA RankExists ==
    ASSUME NEW files \in SUBSET ScoreFiles, IsFiniteSet(files),
           \A s, r \in files : sameFile(s, r) => s = r,
           NEW k \in 0..(Cardinality(files) - 1)
    PROVE  \E s \in files : rank(files, s) = k
<1> DEFINE n == Cardinality(files)
           above(s) == {r \in files : fileBefore(s, r)}
           f == [s \in files |-> rank(files, s)]
<1>1. n \in Nat
  BY FS_CardinalityType
<1>2. ASSUME NEW s \in files
      PROVE  /\ IsFiniteSet(above(s)) /\ rank(files, s) = Cardinality(above(s))
             /\ rank(files, s) \in 0..(n - 1)
  <2>1. above(s) \in SUBSET files /\ s \notin above(s)
    BY FileOrder
  <2>2. IsFiniteSet(above(s)) /\ Cardinality(above(s)) <= n
        /\ Cardinality(above(s)) \in Nat
        /\ Cardinality(above(s)) # n
    BY <2>1, FS_Subset, FS_CardinalityType
  <2> QED
    BY <1>1, <2>2 DEF rank
<1>3. ASSUME NEW s \in files, NEW r \in files, fileBefore(s, r)
      PROVE  rank(files, s) # rank(files, r)
  BY <1>2, <1>3, RankOrder
<1>4. \A s, r \in files : s # r => f[s] # f[r]
  BY <1>3, FileOrder
<1>5. f \in Injection(files, 0..(n - 1))
  BY <1>2, <1>4 DEF Injection, IsInjective
<1>6. IsFiniteSet(0..(n - 1)) /\ Cardinality(0..(n - 1)) = n
  BY <1>1, FS_Interval
<1>7. f \in Surjection(files, 0..(n - 1))
  BY <1>5, <1>6, FS_Injection
<1> QED
  BY <1>7 DEF Surjection

LEMMA ScoreboardType ==
    ASSUME NEW files \in SUBSET ScoreFiles, IsFiniteSet(files),
           \A s, r \in files : sameFile(s, r) => s = r
    PROVE  generateScoreboard(files) \in Seq(ScoreFiles)
<1> DEFINE n == Cardinality(files)
           lines == IF n < ScoreboardMaxItems THEN n ELSE ScoreboardMaxItems
           line(k) == CHOOSE s \in files : rank(files, s) = k - 1
<1>1. n \in Nat /\ lines \in Nat /\ lines <= n
  BY FS_CardinalityType, ServerAssumption
<1>2. ASSUME NEW k \in 1..lines
      PROVE  line(k) \in ScoreFiles
  <2>1. k - 1 \in 0..(n - 1)
    BY <1>1
  <2>2. \E s \in files : rank(files, s) = k - 1
    BY <2>1, RankExists
  <2> QED
    BY <2>2
<1>3. generateScoreboard(files) = [k \in 1..lines |-> line(k)]
  BY DEF generateScoreboard, rank
<1> HIDE DEF lines, line
<1> QED
  BY <1>1, <1>2, <1>3

-----------------------------------------------------------------------------
(* The two ways a handler leaves the files changed.                        *)

LEMMA SaveGame ==
    ASSUME GamesInv, ScoresInv, NEW p \in PLIDs, NEW game, GoodGame(game),
           saveGame(p, game)
    PROVE  GamesInv' /\ ScoresInv'
<1>1. game \in Games
  BY DEF GoodGame
<1>2. /\ ongoing' = [ongoing EXCEPT ![p] = game]
      /\ last' = last /\ scores' = scores /\ scoreboard' = scoreboard
  BY DEF saveGame
<1>3. ongoing' \in [PLIDs -> Games \cup {NoGame}]
  BY <1>1, <1>2 DEF GamesInv
<1>4. \A q \in PLIDs : ongoing'[q] # NoGame => GoodGame(ongoing'[q])
  BY <1>2 DEF GamesInv
<1> QED
  BY <1>2, <1>3, <1>4 DEF GamesInv, ScoresInv

LEMMA RegisterScore ==
    ASSUME ScoresInv, NEW score \in ScoreFiles, registerScore(score)
    PROVE  ScoresInv'
<1> DEFINE kept == {s \in scores : ~sameFile(s, score)}
<1>1. scores' = kept \cup {score} /\ scoreboard' = generateScoreboard(scores')
  BY DEF registerScore
<1>2. IsFiniteSet(kept) /\ kept \in SUBSET scores
  BY FS_Subset DEF ScoresInv
<1>3. IsFiniteSet(scores')
  BY <1>1, <1>2, FS_AddElement
<1>4. scores' \in SUBSET ScoreFiles
  BY <1>1, <1>2 DEF ScoresInv
<1>5. \A s, r \in scores' : sameFile(s, r) => s = r
  <2>1. \A s \in kept : s \in scores /\ ~sameFile(s, score)
    OBVIOUS
  <2>2. \A s, r : sameFile(s, r) => sameFile(r, s)
    BY DEF sameFile
  <2> HIDE DEF kept
  <2> QED
    BY <1>1, <2>1, <2>2 DEF ScoresInv
<1>6. scoreboard' \in Seq(ScoreFiles)
  BY <1>1, <1>3, <1>4, <1>5, ScoreboardType
<1> QED
  BY <1>3, <1>4, <1>5, <1>6 DEF ScoresInv

LEMMA EndGame ==
    ASSUME GamesInv, ScoresInv, ProcessInv,
           NEW p \in PLIDs, NEW game \in Games, NEW outcome,
           Finished([game EXCEPT !.outcome = outcome]),
           endGame(p, game, outcome)
    PROVE  GamesInv' /\ ScoresInv'
<1> DEFINE end == [game EXCEPT !.outcome = outcome]
<1>1. end \in Games /\ Finished(end)
  BY DEF Finished
<1>2. /\ last' = [last EXCEPT ![p] = end]
      /\ ongoing' = [ongoing EXCEPT ![p] = NoGame]
  BY DEF endGame
<1> HIDE DEF end
<1>3. GamesInv'
  <2>1. /\ ongoing' \in [PLIDs -> Games \cup {NoGame}]
        /\ last' \in [PLIDs -> Games \cup {NoGame}]
    BY <1>1, <1>2 DEF GamesInv
  <2>2. \A q \in PLIDs : ongoing'[q] # NoGame => GoodGame(ongoing'[q])
    BY <1>2 DEF GamesInv
  <2>3. \A q \in PLIDs : last'[q] # NoGame => Finished(last'[q])
    BY <1>1, <1>2 DEF GamesInv
  <2> QED
    BY <2>1, <2>2, <2>3 DEF GamesInv
<1>4. newScore(p, game) \in ScoreFiles
  <2>1. /\ game.word \in Words /\ game.numSucc \in Nat
        /\ numTrials(game) \in Nat /\ now \in 0..MaxTime
    BY DEF Games, numTrials, ProcessInv
  <2>2. calculateScore(game) \in 0..100
    BY ScoreType
  <2> QED
    BY <2>1, <2>2 DEF newScore, ScoreFiles
<1>5. ScoresInv'
  <2>1. CASE outcome = "win"
    BY <1>4, <2>1, RegisterScore DEF endGame
  <2>2. CASE outcome # "win"
    BY <2>2 DEF endGame, ScoresInv
  <2> QED
    BY <2>1, <2>2
<1> QED
  BY <1>3, <1>5

-----------------------------------------------------------------------------
(* The invariant holds of the empty directories and every request, tick    *)
(* and restart preserves it.                                               *)

LEMMA InitInv == Init => IInv
<1> SUFFICES ASSUME Init PROVE IInv
  OBVIOUS
<1> USE DEF Init
<1>1. GamesInv
  BY DEF GamesInv
<1>2. ScoresInv
  <2>1. scores = {} /\ scoreboard = <<>> /\ IsFiniteSet({})
    BY FS_EmptySet
  <2> QED
    BY <2>1 DEF ScoresInv
<1>3. ProcessInv
  <2>1. Len(WordList) \in Nat
    BY RulesAssumption
  <2> QED
    BY <2>1, ServerAssumption DEF ProcessInv
<1> QED
  BY <1>1, <1>2, <1>3 DEF IInv

LEMMA StoreUnchanged ==
    ASSUME GamesInv, ScoresInv, UNCHANGED store
    PROVE  GamesInv' /\ ScoresInv'
<1>1. ongoing' = ongoing /\ last' = last
  BY DEF store
<1>2. scores' = scores /\ scoreboard' = scoreboard
  BY DEF store
<1>3. GamesInv'
  BY <1>1 DEF GamesInv
<1>4. ScoresInv'
  BY <1>2 DEF ScoresInv
<1> QED
  BY <1>3, <1>4

LEMMA StepSNG ==
    ASSUME IInv, NEW p \in PLIDs, SNG(p)
    PROVE  IInv'
<1>1. up' = up /\ now' = now /\ GamesInv /\ ScoresInv /\ ProcessInv
  BY DEF SNG, IInv
<1>2. CASE StartNew(p)
  <2>1. PICK entry \in DOMAIN WordList :
          /\ chooseWordListEntry(entry)
          /\ saveGame(p, newGame(WordList[entry]))
    BY <1>2 DEF StartNew
  <2>2. WordList[entry] \in Words /\ entry \in 0..Len(WordList)
    BY RulesAssumption
  <2>3. GamesInv' /\ ScoresInv'
    BY <1>1, <2>1, <2>2, NewGameIsGood, SaveGame
  <2>4. wordPtr' \in 0..Len(WordList)
    BY <1>1, <2>1, <2>2 DEF chooseWordListEntry, ProcessInv
  <2> QED
    BY <1>1, <2>3, <2>4 DEF IInv, ProcessInv
<1>3. CASE StartAgain(p)
  <2>1. UNCHANGED store /\ wordPtr' = wordPtr
    BY <1>3 DEF StartAgain, store
  <2> QED
    BY <1>1, <2>1, StoreUnchanged DEF IInv, ProcessInv
<1> QED
  BY <1>2, <1>3 DEF SNG

LEMMA StepPLG ==
    ASSUME IInv, NEW p \in PLIDs, NEW letter \in Letters, NEW trial,
           PLG(p, letter, trial)
    PROVE  IInv'
<1> DEFINE game   == ongoing[p]
           status == letterStatus(game, letter)
           played == playLetter(game, letter)
<1>1. /\ wordPtr' = wordPtr /\ up' = up /\ now' = now
      /\ GamesInv /\ ScoresInv /\ ProcessInv
  BY DEF PLG, IInv
<1> SUFFICES GamesInv' /\ ScoresInv'
  BY <1>1 DEF IInv, ProcessInv
<1>2. game # NoGame => GoodGame(game)
  BY <1>1 DEF GamesInv
<1> HIDE DEF game, status, played
<1>3. CASE UNCHANGED store
  BY <1>1, <1>3, StoreUnchanged
<1>4. CASE game # NoGame /\ saveGame(p, game)
  BY <1>1, <1>2, <1>4, SaveGame
<1>5. CASE LetterPlayed(p, letter, trial)
  <2>1. /\ game # NoGame
        /\ ~triedBefore(game, "L", letter, numTrials(game))
        /\ \/ status = "WIN" /\ endGame(p, played, "win")
           \/ status = "OVR" /\ endGame(p, played, "fail")
           \/ status \in {"OK", "NOK"} /\ saveGame(p, played)
    BY <1>5 DEF LetterPlayed, game, status, played
  <2>2. /\ status \in {"OK", "NOK"} => GoodGame(played)
        /\ status = "WIN" => Finished([played EXCEPT !.outcome = "win"])
        /\ status = "OVR" => Finished([played EXCEPT !.outcome = "fail"])
    BY <1>2, <2>1, PlayedLetter DEF status, played
  <2>3. played \in Games
    BY <1>2, <2>1, PlayedLetter DEF played
  <2> QED
    BY <1>1, <2>1, <2>2, <2>3, SaveGame, EndGame
<1> QED
  BY <1>3, <1>4, <1>5
     DEF PLG, LetterWithoutGame, LetterOutOfTurn, LetterRepeated,
         LetterDuplicate, game

LEMMA StepPWG ==
    ASSUME IInv, NEW p \in PLIDs, NEW word \in Words, NEW trial,
           PWG(p, word, trial)
    PROVE  IInv'
<1> DEFINE game   == ongoing[p]
           status == wordStatus(game, word)
           played == playWord(game, word)
<1>1. /\ wordPtr' = wordPtr /\ now' = now
      /\ GamesInv /\ ScoresInv /\ ProcessInv
  BY DEF PWG, IInv
<1>2. game # NoGame => GoodGame(game)
  BY <1>1 DEF GamesInv
<1>3. up' \in BOOLEAN
  BY <1>1 DEF PWG, WordWithoutGame, WordOutOfTurn, WordRepeated, WordCrash,
              WordDuplicate, WordPlayed, ProcessInv
<1> SUFFICES GamesInv' /\ ScoresInv'
  BY <1>1, <1>3 DEF IInv, ProcessInv
<1> HIDE DEF game, status, played
<1>4. CASE UNCHANGED store
  BY <1>1, <1>4, StoreUnchanged
<1>5. CASE game # NoGame /\ saveGame(p, game)
  BY <1>1, <1>2, <1>5, SaveGame
<1>6. CASE WordPlayed(p, word, trial)
  <2>1. /\ game # NoGame
        /\ ~triedBefore(game, "W", word, numTrials(game))
        /\ \/ status = "WIN" /\ endGame(p, played, "win")
           \/ status = "OVR" /\ endGame(p, played, "fail")
           \/ status = "NOK" /\ saveGame(p, played)
    BY <1>6 DEF WordPlayed, game, status, played
  <2>2. /\ status = "NOK" => GoodGame(played)
        /\ status = "WIN" => Finished([played EXCEPT !.outcome = "win"])
        /\ status = "OVR" => Finished([played EXCEPT !.outcome = "fail"])
    BY <1>2, <2>1, PlayedWord DEF status, played
  <2>3. played \in Games
    BY <1>2, <2>1, PlayedWord DEF played
  <2> QED
    BY <1>1, <2>1, <2>2, <2>3, SaveGame, EndGame
<1> QED
  BY <1>4, <1>5, <1>6
     DEF PWG, WordWithoutGame, WordOutOfTurn, WordRepeated, WordCrash,
         WordDuplicate, game, store

LEMMA StepQUT ==
    ASSUME IInv, NEW p \in PLIDs, QUT(p)
    PROVE  IInv'
<1>1. /\ wordPtr' = wordPtr /\ up' = up /\ now' = now
      /\ GamesInv /\ ScoresInv /\ ProcessInv
  BY DEF QUT, IInv
<1> SUFFICES GamesInv' /\ ScoresInv'
  BY <1>1 DEF IInv, ProcessInv
<1>2. CASE UNCHANGED store
  BY <1>1, <1>2, StoreUnchanged
<1>3. CASE ongoing[p] # NoGame /\ endGame(p, ongoing[p], "quit")
  <2>1. GoodGame(ongoing[p]) /\ ongoing[p] \in Games
    BY <1>1, <1>3 DEF GamesInv, GoodGame
  <2> QED
    BY <1>1, <1>3, <2>1, QuitFinishes, EndGame
<1> QED
  BY <1>2, <1>3 DEF QUT

LEMMA Step == IInv /\ [Next]_vars => IInv'
<1> SUFFICES ASSUME IInv, [Next]_vars PROVE IInv'
  OBVIOUS
<1>1. GamesInv /\ ScoresInv /\ ProcessInv
  BY DEF IInv
<1>2. ASSUME NEW p \in PLIDs, UDPRequest(p) PROVE IInv'
  <2>1. CASE REV(p)
    BY <1>1, <2>1, StoreUnchanged DEF REV, store, IInv, ProcessInv
  <2> QED
    BY <1>2, <2>1, StepSNG, StepQUT, StepPLG, StepPWG DEF UDPRequest
<1>3. ASSUME NEW p \in PLIDs, GHL(p) PROVE IInv'
  BY <1>1, <1>3, StoreUnchanged DEF GHL, store, IInv, ProcessInv
<1>4. ASSUME NEW p \in PLIDs, STA(p) PROVE IInv'
  BY <1>1, <1>4, StoreUnchanged DEF STA, store, IInv, ProcessInv
<1>5. CASE GSB
  BY <1>1, <1>5, StoreUnchanged DEF GSB, store, IInv, ProcessInv
<1>6. CASE Tick
  <2>1. UNCHANGED store /\ now' \in 0..MaxTime
        /\ wordPtr' = wordPtr /\ up' = up
    BY <1>1, <1>6, ServerAssumption DEF Tick, store, ProcessInv
  <2> QED
    BY <1>1, <2>1, StoreUnchanged DEF IInv, ProcessInv
<1>7. CASE Restart
  <2>1. UNCHANGED store /\ now' = now /\ up' = TRUE /\ wordPtr' = 0
    BY <1>7 DEF Restart, store
  <2>2. 0 \in 0..Len(WordList)
    BY RulesAssumption
  <2> QED
    BY <1>1, <2>1, <2>2, StoreUnchanged DEF IInv, ProcessInv
<1>8. CASE UNCHANGED vars
  BY <1>1, <1>8, StoreUnchanged DEF vars, store, IInv, ProcessInv
<1> QED
  BY <1>2, <1>3, <1>4, <1>5, <1>6, <1>7, <1>8 DEF Next

(* The inductive invariant holds in every reachable state.                 *)
THEOREM Invariance == Spec => []IInv
BY InitInv, Step, PTL DEF Spec

-----------------------------------------------------------------------------
(* What the model checking runs check on small instances.                  *)

(* The files always hold games, scores and a scoreboard the code can read  *)
(* back, with a finished game only in the file of the last game.           *)
THEOREM TypeCorrect == Spec => []TypeOK
<1>1. IInv => TypeOK
  BY DEF IInv, GamesInv, ScoresInv, ProcessInv, GoodGame, Finished, TypeOK
<1> QED
  BY <1>1, Invariance, PTL

(* The counters and the mask of a game in progress always follow from its  *)
(* trials, whatever was played, repeated or given up.                      *)
THEOREM CountersAlwaysAgree == Spec => []CountersAgree
<1>1. IInv => CountersAgree
  BY DEF IInv, GamesInv, GoodGame, CountersAgree
<1> QED
  BY <1>1, Invariance, PTL

(* A game that is solved or lost is never left among those in progress.    *)
THEOREM OngoingAlwaysOpen == Spec => []OngoingIsOpen
<1>1. IInv => OngoingIsOpen
  BY DEF IInv, GamesInv, GoodGame, OngoingIsOpen
<1> QED
  BY <1>1, Invariance, PTL

(* No letter and no word is ever registered twice in one game.             *)
THEOREM NeverGuessedTwice == Spec => []NoGuessTwice
<1>1. IInv => NoGuessTwice
  BY DEF IInv, GamesInv, GoodGame, Finished, NoGuessTwice
<1> QED
  BY <1>1, Invariance, PTL

(* A finished game was won, lost or given up by the rules.                 *)
THEOREM FinishedAlwaysDecided == Spec => []FinishedIsDecided
<1>1. IInv => FinishedIsDecided
  BY DEF IInv, GamesInv, Finished, FinishedIsDecided
<1> QED
  BY <1>1, Invariance, PTL

(* The trials of a game in progress stay below the letters to find plus    *)
(* the misses allowed: every correct letter shows a position of its own    *)
(* and one position is still hidden.                                       *)
THEOREM TrialsAlwaysFit == Spec => []TrialsFitProtocol
<1>1. ASSUME NEW game, GoodGame(game)
      PROVE  numTrials(game) < Len(game.word) + game.maxErrors
  <2>1. /\ game \in Games /\ misses(game) <= game.maxErrors
        /\ game.numSucc + game.remaining <= Len(game.word)
        /\ game.remaining = Cardinality(hiddenPositions(game))
        /\ hiddenPositions(game) # {}
    BY <1>1 DEF GoodGame, StillOpen, Economical, Counted
  <2>2. game.remaining # 0
    BY <2>1, HiddenFinite
  <2>3. /\ numTrials(game) \in Nat /\ game.numSucc \in Nat
        /\ game.remaining \in Nat /\ game.maxErrors \in Nat
        /\ Len(game.word) \in Nat
    BY <2>1, RulesAssumption DEF Games, numTrials
  <2> QED
    BY <2>1, <2>2, <2>3 DEF misses
<1>2. IInv => TrialsFitProtocol
  BY <1>1 DEF IInv, GamesInv, TrialsFitProtocol
<1> QED
  BY <1>2, Invariance, PTL
-----------------------------------------------------------------------------
(* Games only grow.  Every request leaves a game as it is, or registers    *)
(* one trial at its end.                                                   *)

growth ==
    \A p \in PLIDs :
        ongoing[p] # NoGame =>
            IF ongoing'[p] # NoGame THEN grown(ongoing[p], ongoing'[p])
                                    ELSE grown(ongoing[p], last'[p])

LEMMA GrownSame ==
    ASSUME NEW game \in Games, NEW new,
           new.word = game.word, new.trials = game.trials
    PROVE  grown(game, new)
<1>1. game.trials \in Seq(Trials)
  BY DEF Games
<1>2. SubSeq(game.trials, 1, Len(game.trials)) = game.trials
  BY <1>1
<1> QED
  BY <1>1, <1>2 DEF grown, numTrials

LEMMA GrownByTrial ==
    ASSUME NEW game \in Games, NEW trial \in Trials, NEW new,
           new.word = game.word, new.trials = Append(game.trials, trial)
    PROVE  grown(game, new) /\ numTrials(new) = numTrials(game) + 1
<1>1. game.trials \in Seq(Trials)
  BY DEF Games
<1>2. SubSeq(Append(game.trials, trial), 1, Len(game.trials)) = game.trials
  BY <1>1
<1>3. Len(Append(game.trials, trial)) = Len(game.trials) + 1
  BY <1>1
<1>4. Len(game.trials) \in Nat
  BY <1>1
<1> QED
  BY <1>2, <1>3, <1>4 DEF grown, numTrials

LEMMA LetterAppended ==
    ASSUME NEW game \in Games, NEW letter \in Letters
    PROVE  \E trial \in Trials :
             /\ trial.type = "L" /\ trial.guess = letter
             /\ playLetter(game, letter).word = game.word
             /\ playLetter(game, letter).trials = Append(game.trials, trial)
<1> DEFINE status == letterStatus(game, letter)
<1>1. \A correct \in BOOLEAN :
        /\ letterTrial(letter, correct) \in Trials
        /\ letterTrial(letter, correct).type = "L"
        /\ letterTrial(letter, correct).guess = letter
  BY DEF letterTrial, Trials
<1>2. status \in {"OVR", "NOK", "WIN", "OK"}
  BY LetterStatusCases
<1> HIDE DEF status
<1>3. CASE status = "WIN"
  BY <1>1, <1>3 DEF playLetter, registerGameTrial, showWord, Games, status
<1>4. CASE status = "OK"
  BY <1>1, <1>4 DEF playLetter, registerGameTrial, showLetter, Games, status
<1>5. CASE status \in {"NOK", "OVR"}
  BY <1>1, <1>5 DEF playLetter, registerGameTrial, Games, status
<1> QED
  BY <1>2, <1>3, <1>4, <1>5

LEMMA WordAppended ==
    ASSUME NEW game \in Games, NEW word \in Words
    PROVE  \E trial \in Trials :
             /\ trial.type = "W" /\ trial.guess = word
             /\ playWord(game, word).word = game.word
             /\ playWord(game, word).trials = Append(game.trials, trial)
<1>1. \A correct \in BOOLEAN :
        /\ wordTrial(word, correct) \in Trials
        /\ wordTrial(word, correct).type = "W"
        /\ wordTrial(word, correct).guess = word
  BY DEF wordTrial, Trials
<1>2. CASE wordStatus(game, word) = "WIN"
  BY <1>1, <1>2 DEF playWord, registerGameTrial, showWord, Games
<1>3. CASE wordStatus(game, word) # "WIN"
  BY <1>1, <1>3 DEF playWord, registerGameTrial, Games
<1> QED
  BY <1>2, <1>3

(* The three ways in which a request leaves the games.                     *)

LEMMA GrowthUnchanged ==
    ASSUME GamesInv, UNCHANGED <<ongoing, last>>
    PROVE  growth
BY GrownSame DEF GamesInv, GoodGame, growth

LEMMA GrowthSave ==
    ASSUME GamesInv, NEW p \in PLIDs, NEW game,
           ongoing[p] = NoGame \/ (game # NoGame /\ grown(ongoing[p], game)),
           saveGame(p, game)
    PROVE  growth
<1>1. ongoing' = [ongoing EXCEPT ![p] = game] /\ ongoing \in [PLIDs -> Games \cup {NoGame}]
  BY DEF saveGame, GamesInv
<1> SUFFICES ASSUME NEW q \in PLIDs, ongoing[q] # NoGame
             PROVE  ongoing'[q] # NoGame /\ grown(ongoing[q], ongoing'[q])
  BY DEF growth
<1>2. CASE q = p
  BY <1>1, <1>2
<1>3. CASE q # p
  BY <1>1, <1>3, GrownSame
<1> QED
  BY <1>2, <1>3

LEMMA GrowthEnd ==
    ASSUME GamesInv, NEW p \in PLIDs, NEW game \in Games, NEW outcome,
           grown(ongoing[p], game), endGame(p, game, outcome)
    PROVE  growth
<1> DEFINE end == [game EXCEPT !.outcome = outcome]
<1>1. end.word = game.word /\ end.trials = game.trials
  BY DEF Games
<1>2. ongoing' = [ongoing EXCEPT ![p] = NoGame] /\ last' = [last EXCEPT ![p] = end]
  BY DEF endGame
<1>3. ongoing \in [PLIDs -> Games \cup {NoGame}] /\ last \in [PLIDs -> Games \cup {NoGame}]
  BY DEF GamesInv
<1>4. grown(ongoing[p], end)
  BY <1>1 DEF grown, numTrials
<1> HIDE DEF end
<1> SUFFICES ASSUME NEW q \in PLIDs, ongoing[q] # NoGame
             PROVE  IF ongoing'[q] # NoGame THEN grown(ongoing[q], ongoing'[q])
                                            ELSE grown(ongoing[q], last'[q])
  BY DEF growth
<1>5. CASE q = p
  BY <1>2, <1>3, <1>4, <1>5
<1>6. CASE q # p
  BY <1>2, <1>3, <1>6, GrownSame
<1> QED
  BY <1>5, <1>6

LEMMA GrowthPLG ==
    ASSUME GamesInv, NEW p \in PLIDs, NEW letter \in Letters, NEW trial,
           PLG(p, letter, trial)
    PROVE  growth
<1> DEFINE game == ongoing[p]
           played == playLetter(game, letter)
<1>1. game # NoGame => GoodGame(game) /\ game \in Games
  BY DEF GamesInv, GoodGame
<1>2. CASE UNCHANGED store
  BY <1>2, GrowthUnchanged DEF store
<1>3. CASE game # NoGame /\ saveGame(p, game)
  BY <1>1, <1>3, GrownSame, GrowthSave
<1>4. CASE LetterPlayed(p, letter, trial)
  <2>1. /\ game # NoGame
        /\ ~triedBefore(game, "L", letter, numTrials(game))
        /\ \/ \E outcome : endGame(p, played, outcome)
           \/ saveGame(p, played)
    BY <1>4 DEF LetterPlayed
  <2>2. played \in Games
    BY <1>1, <2>1, PlayedLetter
  <2>3. grown(game, played)
    BY <1>1, <2>1, LetterAppended, GrownByTrial
  <2> HIDE DEF game, played
  <2>4. played # NoGame
    BY <2>2, ServerAssumption
  <2> QED
    BY <2>1, <2>2, <2>3, <2>4, GrowthSave, GrowthEnd DEF game
<1> QED
  BY <1>2, <1>3, <1>4
     DEF PLG, LetterWithoutGame, LetterOutOfTurn, LetterRepeated, LetterDuplicate

LEMMA GrowthPWG ==
    ASSUME GamesInv, NEW p \in PLIDs, NEW word \in Words, NEW trial,
           PWG(p, word, trial)
    PROVE  growth
<1> DEFINE game == ongoing[p]
           played == playWord(game, word)
<1>1. game # NoGame => GoodGame(game) /\ game \in Games
  BY DEF GamesInv, GoodGame
<1>2. CASE UNCHANGED store
  BY <1>2, GrowthUnchanged DEF store
<1>3. CASE game # NoGame /\ saveGame(p, game)
  BY <1>1, <1>3, GrownSame, GrowthSave
<1>4. CASE WordPlayed(p, word, trial)
  <2>1. /\ game # NoGame
        /\ ~triedBefore(game, "W", word, numTrials(game))
        /\ \/ \E outcome : endGame(p, played, outcome)
           \/ saveGame(p, played)
    BY <1>4 DEF WordPlayed
  <2>2. played \in Games
    BY <1>1, <2>1, PlayedWord
  <2>3. grown(game, played)
    BY <1>1, <2>1, WordAppended, GrownByTrial
  <2> HIDE DEF game, played
  <2>4. played # NoGame
    BY <2>2, ServerAssumption
  <2> QED
    BY <2>1, <2>2, <2>3, <2>4, GrowthSave, GrowthEnd DEF game
<1> QED
  BY <1>2, <1>3, <1>4
     DEF PWG, WordWithoutGame, WordOutOfTurn, WordRepeated, WordCrash,
         WordDuplicate, store

LEMMA GrowthStep == GamesInv /\ [Next]_vars => growth
<1> SUFFICES ASSUME GamesInv, [Next]_vars PROVE growth
  OBVIOUS
<1>1. ASSUME NEW p \in PLIDs, UDPRequest(p) PROVE growth
  <2>1. CASE SNG(p)
    <3>1. CASE StartNew(p)
      BY <3>1, GrowthSave DEF StartNew
    <3>2. CASE StartAgain(p)
      BY <3>2, GrowthUnchanged DEF StartAgain
    <3> QED
      BY <2>1, <3>1, <3>2 DEF SNG
  <2>2. CASE QUT(p)
    <3>1. CASE UNCHANGED store
      BY <3>1, GrowthUnchanged DEF store
    <3>2. CASE ongoing[p] # NoGame /\ endGame(p, ongoing[p], "quit")
      BY <3>2, GrownSame, GrowthEnd DEF GamesInv, GoodGame
    <3> QED
      BY <2>2, <3>1, <3>2 DEF QUT
  <2>3. CASE REV(p)
    BY <2>3, GrowthUnchanged DEF REV
  <2> QED
    BY <1>1, <2>1, <2>2, <2>3, GrowthPLG, GrowthPWG DEF UDPRequest
<1>2. CASE UNCHANGED <<ongoing, last>>
  BY <1>2, GrowthUnchanged
<1> QED
  BY <1>1, <1>2 DEF Next, GHL, STA, GSB, Tick, Restart, vars

(* A game keeps its word and its trials, in their order, and gains at most *)
(* one with each request, whoever plays what and however often the server  *)
(* is started again; the request that ends it loses none of them.          *)
THEOREM GamesAlwaysGrow == Spec => GamesOnlyGrow
<1>1. IInv /\ [Next]_vars =>
        [\A p \in PLIDs :
           ongoing[p] # NoGame =>
              IF ongoing'[p] # NoGame THEN grown(ongoing[p], ongoing'[p])
                                      ELSE grown(ongoing[p], last'[p])]_vars
  BY GrowthStep DEF IInv, growth
<1> QED
  BY <1>1, Invariance, PTL DEF Spec, GamesOnlyGrow

-----------------------------------------------------------------------------
(* The scoreboard is a ranking of the score files there are.               *)

BoardInv == scoreboard = generateScoreboard(scores)

(* Line k of the board is the file that k - 1 files beat.                  *)
LEMMA BoardLines ==
    ASSUME NEW files \in SUBSET ScoreFiles, IsFiniteSet(files),
           \A s, r \in files : sameFile(s, r) => s = r
    PROVE  LET board == generateScoreboard(files) IN
           /\ Len(board) \in Nat /\ DOMAIN board = 1..Len(board)
           /\ Len(board) <= ScoreboardMaxItems
           /\ Len(board) <= Cardinality(files)
           /\ Len(board) < ScoreboardMaxItems => Len(board) = Cardinality(files)
           /\ \A k \in 1..Len(board) :
                board[k] \in files /\ rank(files, board[k]) = k - 1
<1> DEFINE n == Cardinality(files)
           lines == IF n < ScoreboardMaxItems THEN n ELSE ScoreboardMaxItems
           line(k) == CHOOSE s \in files : rank(files, s) = k - 1
           board == generateScoreboard(files)
<1>1. /\ n \in Nat /\ lines \in Nat /\ lines <= n
      /\ lines <= ScoreboardMaxItems /\ (lines < ScoreboardMaxItems => lines = n)
  BY FS_CardinalityType, ServerAssumption
<1>2. ASSUME NEW k \in 1..lines
      PROVE  line(k) \in files /\ rank(files, line(k)) = k - 1
  <2>1. k - 1 \in 0..(n - 1)
    BY <1>1
  <2>2. \E s \in files : rank(files, s) = k - 1
    BY <2>1, RankExists
  <2> QED
    BY <2>2
<1>3. board = [k \in 1..lines |-> line(k)]
  BY DEF generateScoreboard, rank
<1> HIDE DEF lines, line, board
<1>4. board \in Seq(files) /\ Len(board) = lines /\ DOMAIN board = 1..lines
  BY <1>1, <1>2, <1>3
<1> QED
  BY <1>1, <1>2, <1>3, <1>4 DEF board

(* ScoreboardRanks, of any board and files.                                *)
rankedBoard(board, files) ==
    LET listed == {board[k] : k \in DOMAIN board} IN
    /\ listed \subseteq files
    /\ Cardinality(listed) = Len(board)
    /\ \A j, k \in DOMAIN board : j < k => board[j].score >= board[k].score
    /\ Len(board) < ScoreboardMaxItems => listed = files
    /\ \A s \in files \ listed, k \in DOMAIN board : s.score <= board[k].score
    /\ Len(board) <= ScoreboardMaxItems

LEMMA BoardRanks ==
    ASSUME NEW files \in SUBSET ScoreFiles, IsFiniteSet(files),
           \A s, r \in files : sameFile(s, r) => s = r
    PROVE  rankedBoard(generateScoreboard(files), files)
<1> DEFINE board  == generateScoreboard(files)
           listed == {board[k] : k \in DOMAIN board}
           lines  == Len(board)
<1>1. /\ lines \in Nat /\ DOMAIN board = 1..lines
      /\ lines <= ScoreboardMaxItems /\ lines <= Cardinality(files)
      /\ lines < ScoreboardMaxItems => lines = Cardinality(files)
      /\ \A k \in 1..lines : board[k] \in files /\ rank(files, board[k]) = k - 1
  BY BoardLines
<1> HIDE DEF board, lines
<1>2. \A s, r \in files : s # r => rank(files, s) # rank(files, r)
  BY FileOrder, RankOrder
<1>3. \A s, r \in files : rank(files, s) <= rank(files, r) => s.score >= r.score
  <2>1. \A s \in files : s.score \in Int
    BY DEF ScoreFiles
  <2> SUFFICES ASSUME NEW s \in files, NEW r \in files, ~(s.score >= r.score)
               PROVE  ~(rank(files, s) <= rank(files, r))
    OBVIOUS
  <2>2. fileBefore(s, r)
    BY <2>1 DEF fileBefore
  <2> QED
    BY <2>2, RankOrder
<1>4. \A s \in files : /\ rank(files, s) \in 0..(Cardinality(files) - 1)
                       /\ rank(files, s) < lines => s \in listed
  <2> SUFFICES ASSUME NEW s \in files
               PROVE  /\ rank(files, s) \in 0..(Cardinality(files) - 1)
                      /\ rank(files, s) < lines => s \in listed
    OBVIOUS
  <2>1. rank(files, s) \in 0..(Cardinality(files) - 1)
    <3> DEFINE above == {r \in files : fileBefore(s, r)}
    <3>1. above \in SUBSET files /\ s \notin above
      BY FileOrder
    <3>2. /\ Cardinality(files) \in Nat /\ Cardinality(above) \in Nat
          /\ Cardinality(above) < Cardinality(files)
      BY <3>1, FS_Subset, FS_CardinalityType
    <3> QED
      BY <3>2 DEF rank
  <2>2. ASSUME rank(files, s) < lines PROVE s \in listed
    <3>1. rank(files, s) + 1 \in 1..lines
      BY <1>1, <2>1, <2>2
    <3>2. /\ board[rank(files, s) + 1] \in files
          /\ rank(files, board[rank(files, s) + 1]) = rank(files, s)
      BY <1>1, <2>1, <3>1
    <3> QED
      BY <1>1, <1>2, <3>1, <3>2
  <2> QED
    BY <2>1, <2>2
<1>5. listed \subseteq files
  BY <1>1
<1>6. Cardinality(listed) = lines
  <2>1. board \in Bijection(1..lines, listed)
    <3> DEFINE f == [k \in 1..lines |-> board[k]]
    <3>1. board = f
      BY <1>1, BoardLines, ScoreboardType DEF board
    <3>2. \A j, k \in 1..lines : j # k => board[j] # board[k]
      BY <1>1
    <3> HIDE DEF listed
    <3> QED
      BY <1>1, <3>1, <3>2 DEF listed, Bijection, Injection, Surjection, IsInjective
  <2>2. IsFiniteSet(1..lines) /\ Cardinality(1..lines) = lines
    BY <1>1, FS_Interval
  <2> QED
    BY <2>1, <2>2, FS_Bijection DEF ExistsBijection
<1>7. \A j, k \in DOMAIN board : j < k => board[j].score >= board[k].score
  BY <1>1, <1>3
<1>8. lines < ScoreboardMaxItems => listed = files
  BY <1>1, <1>4, <1>5
<1>9. \A s \in files \ listed, k \in DOMAIN board : s.score <= board[k].score
  <2> SUFFICES ASSUME NEW s \in files \ listed, NEW k \in DOMAIN board
               PROVE  s.score <= board[k].score
    OBVIOUS
  <2> HIDE DEF listed
  <2>1. ~(rank(files, s) < lines) /\ rank(files, s) \in Int
    BY <1>4
  <2>2. k \in 1..lines /\ board[k] \in files /\ rank(files, board[k]) = k - 1
    BY <1>1
  <2>3. rank(files, board[k]) <= rank(files, s) /\ board[k] \in files
    BY <1>1, <2>1, <2>2
  <2>4. board[k].score >= s.score
    BY <1>3, <2>3
  <2>5. board[k].score \in Int /\ s.score \in Int
    BY <2>3 DEF ScoreFiles
  <2> QED
    BY <2>4, <2>5
<1> HIDE DEF listed
<1> QED
  BY <1>1, <1>5, <1>6, <1>7, <1>8, <1>9 DEF rankedBoard, board, listed, lines

(* A request changes the last games and the scores only by ending a game,  *)
(* and a game it ends as won has a success and at most 99 trials.          *)
winnable(game) == game.numSucc >= 1 /\ numTrials(game) \in 1..99

ends == \E p \in PLIDs, game \in Games, outcome \in {"win", "fail", "quit"} :
            endGame(p, game, outcome) /\ (outcome = "win" => winnable(game))

LEMMA EndsPLG ==
    ASSUME GamesInv, NEW p \in PLIDs, NEW letter \in Letters,
           NEW trial \in 1..MaxTrial, LetterPlayed(p, letter, trial)
    PROVE  ends \/ UNCHANGED <<last, scores, scoreboard>>
<1> DEFINE game   == ongoing[p]
           status == letterStatus(game, letter)
           played == playLetter(game, letter)
<1>1. /\ game # NoGame /\ trial = numTrials(game) + 1
      /\ ~triedBefore(game, "L", letter, numTrials(game))
      /\ \/ status = "WIN" /\ endGame(p, played, "win")
         \/ status = "OVR" /\ endGame(p, played, "fail")
         \/ status \in {"OK", "NOK"} /\ saveGame(p, played)
  BY DEF LetterPlayed
<1>2. game \in Games /\ GoodGame(game)
  BY <1>1 DEF GamesInv, GoodGame
<1>3. played \in Games /\ numTrials(played) = numTrials(game) + 1
  <2>1. played \in Games
    BY <1>1, <1>2, PlayedLetter
  <2>2. numTrials(played) = numTrials(game) + 1
    BY <1>2, LetterAppended, GrownByTrial
  <2> QED
    BY <2>1, <2>2
<1>4. status = "WIN" => played.numSucc = game.numSucc + 1 /\ game.numSucc \in Nat
  BY <1>2 DEF playLetter, showWord, registerGameTrial, Games
<1>5. numTrials(played) \in 1..99
  BY <1>1, <1>3, ServerAssumption
<1> HIDE DEF status, played, game
<1>6. status = "WIN" => winnable(played)
  BY <1>4, <1>5 DEF winnable
<1> QED
  BY <1>1, <1>3, <1>6 DEF ends, saveGame

LEMMA EndsPWG ==
    ASSUME GamesInv, NEW p \in PLIDs, NEW word \in Words,
           NEW trial \in 1..MaxTrial, WordPlayed(p, word, trial)
    PROVE  ends \/ UNCHANGED <<last, scores, scoreboard>>
<1> DEFINE game   == ongoing[p]
           status == wordStatus(game, word)
           played == playWord(game, word)
<1>1. /\ game # NoGame /\ trial = numTrials(game) + 1
      /\ ~triedBefore(game, "W", word, numTrials(game))
      /\ \/ status = "WIN" /\ endGame(p, played, "win")
         \/ status = "OVR" /\ endGame(p, played, "fail")
         \/ status = "NOK" /\ saveGame(p, played)
  BY DEF WordPlayed
<1>2. game \in Games /\ GoodGame(game)
  BY <1>1 DEF GamesInv, GoodGame
<1>3. played \in Games /\ numTrials(played) = numTrials(game) + 1
  <2>1. played \in Games
    BY <1>1, <1>2, PlayedWord
  <2>2. numTrials(played) = numTrials(game) + 1
    BY <1>2, WordAppended, GrownByTrial
  <2> QED
    BY <2>1, <2>2
<1>4. status = "WIN" => played.numSucc = game.numSucc + 1 /\ game.numSucc \in Nat
  BY <1>2 DEF playWord, showWord, registerGameTrial, Games
<1>5. numTrials(played) \in 1..99
  BY <1>1, <1>3, ServerAssumption
<1> HIDE DEF status, played, game
<1>6. status = "WIN" => winnable(played)
  BY <1>4, <1>5 DEF winnable
<1> QED
  BY <1>1, <1>3, <1>6 DEF ends, saveGame

LEMMA EndsStep ==
    ASSUME GamesInv, [Next]_vars
    PROVE  ends \/ UNCHANGED <<last, scores, scoreboard>>
<1> DEFINE same == UNCHANGED <<last, scores, scoreboard>>
<1>1. ASSUME NEW p \in PLIDs, SNG(p) \/ QUT(p) \/ REV(p) PROVE ends \/ same
  <2>1. CASE QUT(p)
    <3>1. CASE ongoing[p] # NoGame /\ endGame(p, ongoing[p], "quit")
      BY <3>1 DEF ends, GamesInv
    <3> QED
      BY <2>1, <3>1 DEF QUT, store
  <2> QED
    BY <1>1, <2>1 DEF SNG, StartNew, StartAgain, REV, saveGame
<1>2. ASSUME NEW p \in PLIDs, NEW letter \in Letters, NEW trial \in 1..MaxTrial,
             PLG(p, letter, trial)
      PROVE  ends \/ same
  BY <1>2, EndsPLG DEF PLG, LetterWithoutGame, LetterOutOfTurn, LetterRepeated,
                       LetterDuplicate, saveGame, store
<1>3. ASSUME NEW p \in PLIDs, NEW word \in Words, NEW trial \in 1..MaxTrial,
             PWG(p, word, trial)
      PROVE  ends \/ same
  BY <1>3, EndsPWG DEF PWG, WordWithoutGame, WordOutOfTurn, WordRepeated,
                       WordCrash, WordDuplicate, saveGame, store
<1> QED
  BY <1>1, <1>2, <1>3 DEF Next, UDPRequest, GHL, STA, GSB, Tick, Restart, vars

(* The scoreboard ranks the score files, whichever wins came in whichever  *)
(* order and whichever replaced another's file.                            *)
THEOREM ScoreboardAlwaysRanks == Spec => []ScoreboardRanks
<1>1. Init => BoardInv
  <2>1. Cardinality({}) = 0
    BY FS_EmptySet
  <2>2. generateScoreboard({}) = <<>>
    BY <2>1, ServerAssumption DEF generateScoreboard
  <2> QED
    BY <2>2 DEF Init, BoardInv
<1>2. IInv /\ BoardInv /\ [Next]_vars => BoardInv'
  BY EndsStep DEF IInv, BoardInv, ends, endGame, registerScore
<1>3. IInv /\ BoardInv => ScoreboardRanks
  <2> SUFFICES ASSUME IInv, BoardInv PROVE ScoreboardRanks
    OBVIOUS
  <2>1. /\ scores \in SUBSET ScoreFiles /\ IsFiniteSet(scores)
        /\ \A s, r \in scores : sameFile(s, r) => s = r
    BY DEF IInv, ScoresInv
  <2>2. scoreboard = generateScoreboard(scores)
    BY DEF BoardInv
  <2>3. rankedBoard(scoreboard, scores)
    BY <2>1, <2>2, BoardRanks
  <2> QED
    BY <2>3 DEF rankedBoard, ScoreboardRanks
<1> QED
  BY <1>1, <1>2, <1>3, Invariance, PTL DEF Spec

-----------------------------------------------------------------------------
(* Every win that is a player's last game has its score file.              *)

(* With at most 99 trials one success rounds to at least one per cent.     *)
LEMMA WinScores ==
    ASSUME NEW game \in Games, winnable(game)
    PROVE  calculateScore(game) \in 1..100
<1> DEFINE n == numTrials(game)
           a == 100 * game.numSucc + n \div 2
<1>1. n \in 1..99 /\ game.numSucc \in Nat /\ game.numSucc >= 1
  BY DEF winnable, Games
<1>2. a \in Nat /\ a >= n /\ n \in Nat /\ n > 0
  <2> HIDE DEF n
  <2>1. n \div 2 \in Nat
    BY <1>1
  <2> QED
    BY <1>1, <2>1
<1>3. calculateScore(game) = IF a \div n < 100 THEN a \div n ELSE 100
  BY <1>1 DEF calculateScore
<1> HIDE DEF a, n
<1>4. a \div n \in Nat /\ a \div n >= 1
  BY <1>2
<1> QED
  BY <1>3, <1>4

LEMMA WinHasScoreStep ==
    ASSUME IInv, WinHasScore, [Next]_vars
    PROVE  WinHasScore'
<1>1. CASE UNCHANGED <<last, scores, scoreboard>>
  BY <1>1 DEF WinHasScore
<1>2. ASSUME NEW p \in PLIDs, NEW game \in Games,
             NEW outcome \in {"win", "fail", "quit"},
             endGame(p, game, outcome), outcome = "win" => winnable(game)
      PROVE  WinHasScore'
  <2> DEFINE end == [game EXCEPT !.outcome = outcome]
  <2>1. /\ end.outcome = outcome /\ end.word = game.word
        /\ end.numSucc = game.numSucc /\ end.trials = game.trials
    BY DEF Games
  <2>2. last' = [last EXCEPT ![p] = end] /\ last \in [PLIDs -> Games \cup {NoGame}]
    BY <1>2 DEF endGame, IInv, GamesInv
  <2>3. numTrials(end) = numTrials(game) /\ calculateScore(end) = calculateScore(game)
    BY <2>1 DEF numTrials, calculateScore
  <2> HIDE DEF end
  <2> SUFFICES ASSUME NEW q \in PLIDs, last'[q] # NoGame, last'[q].outcome = "win"
               PROVE  \E s \in scores' :
                        /\ s.PLID = q /\ s.word = last'[q].word
                        /\ s.numSucc = last'[q].numSucc
                        /\ s.numTrials = numTrials(last'[q])
                        /\ s.score = calculateScore(last'[q]) /\ s.score \in 1..100
    BY DEF WinHasScore, numTrials, calculateScore
  <2>4. CASE q = p
    <3>1. last'[q] = end /\ outcome = "win"
      BY <2>1, <2>2, <2>4
    <3>2. newScore(p, game) \in scores' /\ calculateScore(game) \in 1..100
      BY <1>2, <3>1, WinScores DEF endGame, registerScore
    <3> QED
      BY <2>1, <2>3, <2>4, <3>1, <3>2 DEF newScore
  <2>5. CASE q # p
    <3>1. last'[q] = last[q]
      BY <2>2, <2>5
    <3>2. PICK s \in scores :
            /\ s.PLID = q /\ s.word = last[q].word
            /\ s.numSucc = last[q].numSucc
            /\ s.numTrials = numTrials(last[q])
            /\ s.score = calculateScore(last[q]) /\ s.score \in 1..100
      BY <3>1 DEF WinHasScore
    <3>3. ~sameFile(s, newScore(p, game))
      BY <2>5, <3>2 DEF sameFile, newScore
    <3>4. s \in scores'
      BY <1>2, <3>3 DEF endGame, registerScore
    <3> QED
      BY <3>1, <3>2, <3>4
  <2> QED
    BY <2>4, <2>5
<1> QED
  BY <1>1, <1>2, EndsStep DEF IInv, ends

(* The score file of a player's last win is there, with what the game says *)
(* and a score of at least 1, whatever other wins replaced.                *)
THEOREM WinAlwaysHasScore == Spec => []WinHasScore
<1>1. Init => WinHasScore
  BY DEF Init, WinHasScore
<1>2. IInv /\ WinHasScore /\ [Next]_vars => WinHasScore'
  BY WinHasScoreStep
<1> QED
  BY <1>1, <1>2, Invariance, PTL DEF Spec

-----------------------------------------------------------------------------
(* Retransmission.  A trial that is delivered twice is registered once and *)
(* answered the same.  After a trial was served there is no game, or the   *)
(* trial is not the next one, or its guess is among those of the game:     *)
(* serving it again cannot play it.  And the answer to it is the one that  *)
(* the game, as it is now, makes the server give again.                    *)

kind(msg) == IF msg.cmd = "PLG" THEN "L" ELSE "W"

spent(msg, game) ==
    \/ game = NoGame
    \/ msg.trial # numTrials(game) + 1
    \/ triedBefore(game, kind(msg), msg.guess, numTrials(game))

SpentInv == isTrial(request) => spent(request, ongoing[request.PLID])

-----------------------------------------------------------------------------
(* After a trial the request is spent, and a spent one changes no file.    *)

LEMMA SpentPLG ==
    ASSUME GamesInv, NEW p \in PLIDs, NEW letter \in Letters, NEW trial,
           PLG(p, letter, trial)
    PROVE  SpentInv' /\ (spent(request', ongoing[p]) => UNCHANGED store)
<1> DEFINE game   == ongoing[p]
           played == playLetter(game, letter)
<1>1. /\ request'.PLID = p /\ request'.guess = letter /\ request'.trial = trial
      /\ kind(request') = "L"
  BY DEF PLG, kind
<1>2. ongoing \in [PLIDs -> Games \cup {NoGame}] /\ (game # NoGame => game \in Games)
  BY DEF GamesInv
<1>3. SUFFICES /\ spent(request', ongoing'[p])
               /\ spent(request', ongoing[p]) => UNCHANGED store
  BY <1>1 DEF SpentInv
<1>4. game # NoGame => numTrials(game) \in Nat
  BY <1>2 DEF Games, numTrials
<1>5. CASE LetterWithoutGame(p)
  BY <1>5 DEF LetterWithoutGame, store, spent
<1>6. CASE LetterOutOfTurn(p, trial)
  BY <1>1, <1>2, <1>6 DEF LetterOutOfTurn, saveGame, store, spent
<1>7. CASE LetterRepeated(p, letter, trial)
  <2>1. game # NoGame /\ trial = numTrials(game) /\ saveGame(p, game)
    BY <1>7 DEF LetterRepeated
  <2>2. UNCHANGED store
    BY <1>2, <2>1 DEF saveGame, store
  <2> QED
    BY <1>1, <1>4, <2>1, <2>2 DEF spent, store
<1>8. CASE LetterDuplicate(p, letter, trial)
  BY <1>1, <1>8 DEF LetterDuplicate, store, spent
<1>9. CASE LetterPlayed(p, letter, trial)
  <2>1. /\ game # NoGame /\ trial = numTrials(game) + 1
        /\ ~triedBefore(game, "L", letter, numTrials(game))
        /\ ongoing' = [ongoing EXCEPT ![p] = NoGame]
             \/ ongoing' = [ongoing EXCEPT ![p] = played]
    BY <1>9 DEF LetterPlayed, endGame, saveGame
  <2>2. numTrials(played) = numTrials(game) + 1
    BY <1>2, <2>1, LetterAppended, GrownByTrial
  <2>3. ~spent(request', ongoing[p])
    BY <1>1, <2>1 DEF spent
  <2>4. ongoing'[p] = NoGame \/ ongoing'[p] = played
    BY <1>2, <2>1
  <2>5. spent(request', ongoing'[p])
    BY <1>1, <1>4, <2>1, <2>2, <2>4 DEF spent
  <2> QED
    BY <2>3, <2>5
<1> QED
  BY <1>5, <1>6, <1>7, <1>8, <1>9 DEF PLG

LEMMA SpentPWG ==
    ASSUME GamesInv, NEW p \in PLIDs, NEW word \in Words, NEW trial,
           PWG(p, word, trial)
    PROVE  SpentInv' /\ (spent(request', ongoing[p]) => UNCHANGED store)
<1> DEFINE game   == ongoing[p]
           played == playWord(game, word)
<1>1. /\ request'.PLID = p /\ request'.guess = word /\ request'.trial = trial
      /\ kind(request') = "W"
  BY DEF PWG, kind
<1>2. ongoing \in [PLIDs -> Games \cup {NoGame}] /\ (game # NoGame => game \in Games)
  BY DEF GamesInv
<1>3. SUFFICES /\ spent(request', ongoing'[p])
               /\ spent(request', ongoing[p]) => UNCHANGED store
  BY <1>1 DEF SpentInv
<1>4. game # NoGame => numTrials(game) \in Nat
  BY <1>2 DEF Games, numTrials
<1>5. CASE WordWithoutGame(p)
  BY <1>5 DEF WordWithoutGame, store, spent
<1>6. CASE WordOutOfTurn(p, trial)
  BY <1>1, <1>2, <1>6 DEF WordOutOfTurn, saveGame, store, spent
<1>7. CASE WordRepeated(p, word, trial) \/ WordCrash(p, trial)
  <2>1. game # NoGame /\ trial = numTrials(game)
        /\ (saveGame(p, game) \/ UNCHANGED store)
    BY <1>7 DEF WordRepeated, WordCrash
  <2>2. UNCHANGED store
    BY <1>2, <2>1 DEF saveGame, store
  <2> QED
    BY <1>1, <1>4, <2>1, <2>2 DEF spent, store
<1>8. CASE WordDuplicate(p, word, trial)
  BY <1>1, <1>8 DEF WordDuplicate, store, spent
<1>9. CASE WordPlayed(p, word, trial)
  <2>1. /\ game # NoGame /\ trial = numTrials(game) + 1
        /\ ~triedBefore(game, "W", word, numTrials(game))
        /\ ongoing' = [ongoing EXCEPT ![p] = NoGame]
             \/ ongoing' = [ongoing EXCEPT ![p] = played]
    BY <1>9 DEF WordPlayed, endGame, saveGame
  <2>2. numTrials(played) = numTrials(game) + 1
    BY <1>2, <2>1, WordAppended, GrownByTrial
  <2>3. ~spent(request', ongoing[p])
    BY <1>1, <2>1 DEF spent
  <2>4. ongoing'[p] = NoGame \/ ongoing'[p] = played
    BY <1>2, <2>1
  <2>5. spent(request', ongoing'[p])
    BY <1>1, <1>4, <2>1, <2>2, <2>4 DEF spent
  <2> QED
    BY <2>3, <2>5
<1> QED
  BY <1>5, <1>6, <1>7, <1>8, <1>9 DEF PWG

LEMMA SpentStep ==
    GamesInv /\ SpentInv /\ [Next]_vars =>
        SpentInv' /\ (servedAgain => UNCHANGED store)
<1> SUFFICES ASSUME GamesInv, SpentInv, [Next]_vars
             PROVE  SpentInv' /\ (servedAgain => UNCHANGED store)
  OBVIOUS
<1>1. ASSUME NEW p \in PLIDs, NEW letter \in Letters, NEW trial, PLG(p, letter, trial)
      PROVE  SpentInv' /\ (servedAgain => UNCHANGED store)
  <2>1. request'.PLID = p
    BY <1>1 DEF PLG
  <2>2. servedAgain => spent(request', ongoing[p])
    BY <2>1 DEF servedAgain, SpentInv
  <2> QED
    BY <1>1, <2>2, SpentPLG
<1>2. ASSUME NEW p \in PLIDs, NEW word \in Words, NEW trial, PWG(p, word, trial)
      PROVE  SpentInv' /\ (servedAgain => UNCHANGED store)
  <2>1. request'.PLID = p
    BY <1>2 DEF PWG
  <2>2. servedAgain => spent(request', ongoing[p])
    BY <2>1 DEF servedAgain, SpentInv
  <2> QED
    BY <1>2, <2>2, SpentPWG
<1>3. CASE ~isTrial(request')
  BY <1>3 DEF SpentInv, servedAgain
<1>4. CASE UNCHANGED <<request, store>>
  BY <1>4 DEF SpentInv, spent, store
<1>5. ASSUME NEW p \in PLIDs, SNG(p) \/ QUT(p) \/ REV(p) \/ GHL(p) \/ STA(p)
      PROVE  ~isTrial(request')
  BY <1>5 DEF SNG, QUT, REV, GHL, STA, isTrial
<1>6. CASE GSB \/ Restart
  BY <1>3, <1>6 DEF GSB, Restart, Silence, isTrial
<1>7. CASE Tick \/ UNCHANGED vars
  BY <1>4, <1>7 DEF Tick, vars, store
<1> QED
  BY <1>1, <1>2, <1>3, <1>5, <1>6, <1>7 DEF Next, UDPRequest

(* Serving the same trial twice in a row changes no file the second time,  *)
(* however much time passes in between and also when the first one won   *)
(* or lost the game.                                                       *)
THEOREM RetransmissionAlwaysHarmless == Spec => RetransmissionHarmless
<1>1. Init => SpentInv
  BY DEF Init, SpentInv, isTrial, Silence
<1>2. IInv /\ SpentInv /\ [Next]_vars => SpentInv'
  BY SpentStep DEF IInv
<1>3. IInv /\ SpentInv /\ [Next]_vars => [servedAgain => UNCHANGED store]_vars
  BY SpentStep DEF IInv
<1> QED
  BY <1>1, <1>2, <1>3, Invariance, PTL DEF Spec, RetransmissionHarmless

-----------------------------------------------------------------------------
(* The answer to a spent trial, from the game alone.                       *)

declined(msg, game, status) ==
    IF msg.cmd = "PLG" THEN RLG(status, numTrials(game), {})
                       ELSE RWG(status, numTrials(game))

again(msg, game) ==
    LET n == numTrials(game) IN
    IF msg.trial \notin {n, n + 1} \/ (msg.trial = n /\ game.trials[n].guess # msg.guess)
    THEN declined(msg, game, "INV")
    ELSE IF msg.trial = n + 1 \/ triedBefore(game, kind(msg), msg.guess, n - 1)
    THEN declined(msg, game, "DUP")
    ELSE IF msg.cmd = "PLG" THEN RLG_found(game, msg.guess) ELSE RWG("NOK", n)

sameKind(msg, game) ==
    /\ game # NoGame
    /\ numTrials(game) > 0
    /\ game.trials[numTrials(game)].type = kind(msg)

AnsweredInv ==
    isTrial(request) /\ sameKind(request, ongoing[request.PLID]) =>
        reply = again(request, ongoing[request.PLID])

LEMMA AgainPLG ==
    ASSUME GamesInv, NEW p \in PLIDs, NEW letter \in Letters, NEW trial,
           PLG(p, letter, trial)
    PROVE  /\ AnsweredInv'
           /\ spent(request', ongoing[p]) /\ sameKind(request', ongoing[p]) =>
                reply' = again(request', ongoing[p])
<1> DEFINE game   == ongoing[p]
           n      == numTrials(game)
           msg    == request'
           played == playLetter(game, letter)
<1>1. /\ msg.PLID = p /\ msg.guess = letter /\ msg.trial = trial
      /\ msg.cmd = "PLG" /\ kind(msg) = "L"
  BY DEF PLG, kind
<1>2. /\ ongoing \in [PLIDs -> Games \cup {NoGame}]
      /\ game # NoGame => game \in Games /\ GoodGame(game) /\ n \in Nat
  BY DEF GamesInv, Games, numTrials
<1>3. ASSUME NEW g, ongoing'[p] = g,
             g # NoGame /\ sameKind(msg, g) => reply' = again(msg, g)
      PROVE  AnsweredInv'
  BY <1>1, <1>3 DEF AnsweredInv, sameKind, again, declined, RLG_found, kind,
                    numTrials, triedBefore
<1>4. ASSUME ongoing'[p] = game, game # NoGame /\ sameKind(msg, game) => reply' = again(msg, game)
      PROVE  AnsweredInv' /\ (sameKind(msg, game) => reply' = again(msg, game))
  BY <1>3, <1>4 DEF sameKind
<1> HIDE DEF msg
<1>5. CASE LetterWithoutGame(p)
  BY <1>4, <1>5 DEF LetterWithoutGame, store, sameKind, msg
<1>6. CASE LetterOutOfTurn(p, trial)
  <2>1. ongoing'[p] = game /\ reply' = again(msg, game)
    BY <1>1, <1>2, <1>6 DEF LetterOutOfTurn, saveGame, again, declined
  <2> QED
    BY <1>4, <2>1 DEF msg
<1>7. CASE LetterRepeated(p, letter, trial)
  <2>1. ongoing'[p] = game /\ trial = n
    BY <1>2, <1>7 DEF LetterRepeated, saveGame
  <2>2. ASSUME sameKind(msg, game) PROVE reply' = again(msg, game)
    <3> DEFINE t == game.trials[n]
    <3>1. t.type = "L"
      BY <1>1, <2>2 DEF sameKind
    <3>2. PICK same \in {t.guess = letter} :
            reply' = IF ~same THEN RLG("INV", n, {})
                     ELSE IF triedBefore(game, "L", letter, n - 1)
                     THEN RLG("DUP", n, {})
                     ELSE RLG_found(game, letter)
      BY <1>7, <2>1, <3>1 DEF LetterRepeated, sameLetter
    <3>3. CASE t.guess = letter
      <4>1. reply' = IF triedBefore(game, "L", letter, n - 1)
                     THEN RLG("DUP", n, {}) ELSE RLG_found(game, letter)
        BY <3>2, <3>3
      <4>2. msg.trial = n /\ n # n + 1 /\ t.guess = msg.guess
        BY <1>1, <1>2, <2>1, <2>2, <3>3 DEF sameKind
      <4>3. again(msg, game) = IF triedBefore(game, "L", letter, n - 1)
                               THEN RLG("DUP", n, {}) ELSE RLG_found(game, letter)
        BY <1>1, <4>2 DEF again, declined
      <4> QED
        BY <4>1, <4>3
    <3>4. CASE t.guess # letter
      BY <1>1, <1>2, <2>1, <3>2, <3>4 DEF again, declined
    <3> QED
      BY <3>3, <3>4
  <2> QED
    BY <1>4, <2>1, <2>2 DEF msg
<1>8. CASE LetterDuplicate(p, letter, trial)
  <2>1. ongoing'[p] = game /\ reply' = again(msg, game)
    BY <1>1, <1>2, <1>8 DEF LetterDuplicate, store, again, declined
  <2> QED
    BY <1>4, <2>1 DEF msg
<1>9. CASE LetterPlayed(p, letter, trial)
  <2> DEFINE status == letterStatus(game, letter)
  <2>1. /\ game # NoGame /\ trial = n + 1
        /\ ~triedBefore(game, "L", letter, n)
        /\ reply' = RLG(status, numTrials(played),
                        IF status = "OK" THEN getLetterPositions(letter, game.word) ELSE {})
        /\ \/ ongoing' = [ongoing EXCEPT ![p] = NoGame]
           \/ /\ ongoing' = [ongoing EXCEPT ![p] = played]
              /\ status \in {"OK", "NOK"}
    BY <1>9 DEF LetterPlayed, endGame, saveGame
  <2>2. ~spent(msg, ongoing[p])
    BY <1>1, <2>1 DEF spent
  <2>3. CASE ongoing' = [ongoing EXCEPT ![p] = NoGame]
    BY <1>2, <1>3, <2>2, <2>3 DEF sameKind, msg
  <2>4. CASE /\ ongoing' = [ongoing EXCEPT ![p] = played]
             /\ status \in {"OK", "NOK"}
    <3>1. ongoing'[p] = played
      BY <1>2, <2>4
    <3>2. PICK t \in Trials : /\ t.type = "L" /\ t.guess = letter
                              /\ played.word = game.word
                              /\ played.trials = Append(game.trials, t)
      BY <1>2, <2>1, LetterAppended
    <3>3. /\ numTrials(played) = n + 1 /\ played.trials[n + 1] = t
          /\ \A i \in 1..n : played.trials[i] = game.trials[i]
      BY <1>2, <3>2 DEF numTrials, Games
    <3>4. ~triedBefore(played, "L", letter, n)
      BY <2>1, <3>3 DEF triedBefore
    <3>5. /\ status = "OK" <=> getLetterPositions(letter, game.word) # {}
      BY <1>2, <2>1, <2>4, LetterStatusCases
    <3> HIDE DEF game, played, status, n
    <3>6. reply' = RLG_found(played, letter)
      BY <2>1, <2>4, <3>2, <3>5 DEF RLG_found
    <3>7. again(msg, played) = RLG_found(played, letter)
      <4>1. n \in Nat /\ (n + 1) - 1 = n /\ n + 1 # (n + 1) + 1
        BY <1>2, <2>1 DEF n, game
      <4>2. msg.trial = numTrials(played) /\ played.trials[numTrials(played)].guess = msg.guess
        BY <1>1, <2>1, <3>2, <3>3
      <4>3. ~triedBefore(played, kind(msg), msg.guess, numTrials(played) - 1)
        BY <1>1, <3>3, <3>4, <4>1
      <4> QED
        BY <1>1, <3>3, <4>1, <4>2, <4>3 DEF again
    <3> QED
      BY <1>3, <2>2, <3>1, <3>6, <3>7 DEF msg, game
  <2> QED
    BY <2>1, <2>3, <2>4
<1> QED
  BY <1>5, <1>6, <1>7, <1>8, <1>9 DEF PLG, msg

LEMMA AgainPWG ==
    ASSUME GamesInv, NEW p \in PLIDs, NEW word \in Words, NEW trial,
           PWG(p, word, trial)
    PROVE  /\ AnsweredInv'
           /\ spent(request', ongoing[p]) /\ sameKind(request', ongoing[p]) =>
                reply' = again(request', ongoing[p])
<1> DEFINE game   == ongoing[p]
           n      == numTrials(game)
           msg    == request'
           played == playWord(game, word)
<1>1. /\ msg.PLID = p /\ msg.guess = word /\ msg.trial = trial
      /\ msg.cmd = "PWG" /\ kind(msg) = "W"
  BY DEF PWG, kind
<1>2. /\ ongoing \in [PLIDs -> Games \cup {NoGame}]
      /\ game # NoGame => game \in Games /\ GoodGame(game) /\ n \in Nat
  BY DEF GamesInv, Games, numTrials
<1>3. ASSUME NEW g, ongoing'[p] = g,
             g # NoGame /\ sameKind(msg, g) => reply' = again(msg, g)
      PROVE  AnsweredInv'
  BY <1>1, <1>3 DEF AnsweredInv, sameKind, again, declined, kind,
                    numTrials, triedBefore
<1>4. ASSUME ongoing'[p] = game, game # NoGame /\ sameKind(msg, game) => reply' = again(msg, game)
      PROVE  AnsweredInv' /\ (sameKind(msg, game) => reply' = again(msg, game))
  BY <1>3, <1>4 DEF sameKind
<1> HIDE DEF msg
<1>5. CASE WordWithoutGame(p)
  BY <1>4, <1>5 DEF WordWithoutGame, sameKind, msg
<1>6. CASE WordOutOfTurn(p, trial)
  <2>1. ongoing'[p] = game /\ reply' = again(msg, game)
    BY <1>1, <1>2, <1>6 DEF WordOutOfTurn, saveGame, again, declined
  <2> QED
    BY <1>4, <2>1 DEF msg
<1>7. CASE WordRepeated(p, word, trial)
  <2>1. ongoing'[p] = game /\ trial = n
    BY <1>2, <1>7 DEF WordRepeated, saveGame
  <2>2. ASSUME sameKind(msg, game) PROVE reply' = again(msg, game)
    <3> DEFINE t == game.trials[n]
    <3>1. t.type = "W"
      BY <1>1, <2>2 DEF sameKind
    <3>2. PICK same \in {t.guess = word} :
            reply' = IF ~same THEN RWG("INV", n)
                     ELSE IF triedBefore(game, "W", word, n - 1)
                     THEN RWG("DUP", n)
                     ELSE RWG("NOK", n)
      BY <1>7, <2>1, <3>1 DEF WordRepeated, sameWord
    <3>3. CASE t.guess = word
      <4>1. reply' = IF triedBefore(game, "W", word, n - 1)
                     THEN RWG("DUP", n) ELSE RWG("NOK", n)
        BY <3>2, <3>3
      <4>2. msg.trial = n /\ n # n + 1 /\ t.guess = msg.guess
        BY <1>1, <1>2, <2>1, <2>2, <3>3 DEF sameKind
      <4>3. again(msg, game) = IF triedBefore(game, "W", word, n - 1)
                               THEN RWG("DUP", n) ELSE RWG("NOK", n)
        BY <1>1, <4>2 DEF again, declined
      <4> QED
        BY <4>1, <4>3
    <3>4. CASE t.guess # word
      BY <1>1, <1>2, <2>1, <3>2, <3>4 DEF again, declined
    <3> QED
      BY <3>3, <3>4
  <2> QED
    BY <1>4, <2>1, <2>2 DEF msg
<1>8. CASE WordCrash(p, trial)
  <2>1. ongoing'[p] = game /\ ~sameKind(msg, game)
    BY <1>1, <1>8 DEF WordCrash, store, sameKind
  <2> QED
    BY <1>4, <2>1 DEF msg
<1>9. CASE WordDuplicate(p, word, trial)
  <2>1. ongoing'[p] = game /\ reply' = again(msg, game)
    BY <1>1, <1>2, <1>9 DEF WordDuplicate, again, declined
  <2> QED
    BY <1>4, <2>1 DEF msg
<1>10. CASE WordPlayed(p, word, trial)
  <2> DEFINE status == wordStatus(game, word)
  <2>1. /\ game # NoGame /\ trial = n + 1
        /\ ~triedBefore(game, "W", word, n)
        /\ reply' = RWG(status, numTrials(played))
        /\ \/ ongoing' = [ongoing EXCEPT ![p] = NoGame]
           \/ ongoing' = [ongoing EXCEPT ![p] = played] /\ status = "NOK"
    BY <1>10 DEF WordPlayed, endGame, saveGame
  <2>2. ~spent(msg, ongoing[p])
    BY <1>1, <2>1 DEF spent
  <2>3. CASE ongoing' = [ongoing EXCEPT ![p] = NoGame]
    BY <1>2, <1>3, <2>2, <2>3 DEF sameKind, msg
  <2>4. CASE ongoing' = [ongoing EXCEPT ![p] = played] /\ status = "NOK"
    <3>1. ongoing'[p] = played
      BY <1>2, <2>4
    <3>2. PICK t \in Trials : /\ t.type = "W" /\ t.guess = word
                              /\ played.word = game.word
                              /\ played.trials = Append(game.trials, t)
      BY <1>2, <2>1, WordAppended
    <3>3. /\ numTrials(played) = n + 1 /\ played.trials[n + 1] = t
          /\ \A i \in 1..n : played.trials[i] = game.trials[i]
      BY <1>2, <3>2 DEF numTrials, Games
    <3>4. ~triedBefore(played, "W", word, n)
      BY <2>1, <3>3 DEF triedBefore
    <3> HIDE DEF game, played, status, n
    <3>5. again(msg, played) = RWG("NOK", n + 1)
      <4>1. n \in Nat /\ (n + 1) - 1 = n /\ n + 1 # (n + 1) + 1
        BY <1>2, <2>1 DEF n, game
      <4>2. msg.trial = numTrials(played) /\ played.trials[numTrials(played)].guess = msg.guess
        BY <1>1, <2>1, <3>2, <3>3
      <4>3. ~triedBefore(played, kind(msg), msg.guess, numTrials(played) - 1)
        BY <1>1, <3>3, <3>4, <4>1
      <4> QED
        BY <1>1, <3>3, <4>1, <4>2, <4>3 DEF again
    <3> QED
      BY <1>3, <2>1, <2>2, <2>4, <3>1, <3>3, <3>5 DEF msg, game
  <2> QED
    BY <2>1, <2>3, <2>4
<1> QED
  BY <1>5, <1>6, <1>7, <1>8, <1>9, <1>10 DEF PWG, msg

LEMMA AgainStep ==
    GamesInv /\ SpentInv /\ AnsweredInv /\ [Next]_vars =>
        AnsweredInv' /\ (servedAgain /\ comparable => reply' = reply)
<1> SUFFICES ASSUME GamesInv, SpentInv, AnsweredInv, [Next]_vars
             PROVE  AnsweredInv' /\ (servedAgain /\ comparable => reply' = reply)
  OBVIOUS
<1>1. ASSUME NEW p \in PLIDs, request'.PLID = p, AnsweredInv',
             spent(request', ongoing[p]) /\ sameKind(request', ongoing[p]) =>
                 reply' = again(request', ongoing[p])
      PROVE  AnsweredInv' /\ (servedAgain /\ comparable => reply' = reply)
  <2> SUFFICES ASSUME servedAgain, comparable PROVE reply' = reply
    BY <1>1
  <2>1. isTrial(request) /\ request' = request /\ request.PLID = p
    BY <1>1 DEF servedAgain
  <2>2. spent(request, ongoing[p]) /\ sameKind(request, ongoing[p])
    BY <2>1 DEF SpentInv, comparable, sameKind, kind
  <2>3. reply = again(request, ongoing[p])
    BY <2>1, <2>2 DEF AnsweredInv
  <2>4. reply' = again(request, ongoing[p])
    BY <1>1, <2>1, <2>2
  <2> QED
    BY <2>3, <2>4
<1>2. ASSUME NEW p \in PLIDs, NEW letter \in Letters, NEW trial, PLG(p, letter, trial)
      PROVE  AnsweredInv' /\ (servedAgain /\ comparable => reply' = reply)
  <2>1. request'.PLID = p
    BY <1>2 DEF PLG
  <2> QED
    BY <1>1, <1>2, <2>1, AgainPLG
<1>3. ASSUME NEW p \in PLIDs, NEW word \in Words, NEW trial, PWG(p, word, trial)
      PROVE  AnsweredInv' /\ (servedAgain /\ comparable => reply' = reply)
  <2>1. request'.PLID = p
    BY <1>3 DEF PWG
  <2> QED
    BY <1>1, <1>3, <2>1, AgainPWG
<1>4. CASE ~isTrial(request')
  BY <1>4 DEF AnsweredInv, servedAgain
<1>5. CASE UNCHANGED <<request, reply, store>>
  <2>1. request' = request /\ reply' = reply /\ ongoing' = ongoing
    BY <1>5 DEF store
  <2> QED
    BY <2>1 DEF AnsweredInv
<1>6. ASSUME NEW p \in PLIDs, SNG(p) \/ QUT(p) \/ REV(p) \/ GHL(p) \/ STA(p)
      PROVE  ~isTrial(request')
  BY <1>6 DEF SNG, QUT, REV, GHL, STA, isTrial
<1>7. CASE GSB \/ Restart
  BY <1>4, <1>7 DEF GSB, Restart, Silence, isTrial
<1>8. CASE Tick \/ UNCHANGED vars
  BY <1>5, <1>8 DEF Tick, vars, store
<1> QED
  BY <1>2, <1>3, <1>4, <1>6, <1>7, <1>8 DEF Next, UDPRequest

(* A trial served twice in a row while its game goes on gets the same      *)
(* answer twice, however it was answered: played, duplicate, out of turn   *)
(* or itself a repetition.                                                 *)
THEOREM RepetitionAlwaysRepeatsReply == Spec => RetransmissionRepeatsReply
<1>1. Init => SpentInv /\ AnsweredInv
  BY DEF Init, SpentInv, AnsweredInv, isTrial, Silence
<1>2. IInv /\ SpentInv /\ AnsweredInv /\ [Next]_vars => SpentInv' /\ AnsweredInv'
  BY SpentStep, AgainStep DEF IInv
<1>3. IInv /\ SpentInv /\ AnsweredInv /\ [Next]_vars =>
        [servedAgain /\ comparable => reply' = reply]_vars
  BY AgainStep DEF IInv
<1> QED
  BY <1>1, <1>2, <1>3, Invariance, PTL DEF Spec, RetransmissionRepeatsReply

===============================================================================

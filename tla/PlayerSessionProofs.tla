-------------------------- MODULE PlayerSessionProofs --------------------------
(***************************************************************************)
(* The player and the server keep the same game, for every word list that  *)
(* fits the protocol and every bound.  The invariant says what is on its   *)
(* way: at most one exchange is, and the request or the answer in flight   *)
(* accounts for the distance between the player's trial number, board and  *)
(* misses left and those of the game.                                      *)
(***************************************************************************)
EXTENDS PlayerSession, MessagesProofs

theGame == ongoing[Me]

(* How far ERR for a registered trial can bring the player behind.         *)
slack == IF network = "failing" THEN 1 ELSE 0

Requests ==
    [cmd : {"SNG", "QUT", "REV"}, PLID : {Me}]
      \cup [cmd : {"PLG"}, PLID : {Me}, guess : Letters, trial : 1..MaxTrial + 1]
      \cup [cmd : {"PWG"}, PLID : {Me}, guess : parsePWGArgs, trial : 1..MaxTrial + 1]

ServerInv == IInv /\ ListedInv

-----------------------------------------------------------------------------
(* On every network.                                                       *)

ShapeInv ==
    /\ in_game \in BOOLEAN /\ known \in BOOLEAN /\ (in_game => known)
    /\ running \in BOOLEAN /\ leaving \in BOOLEAN /\ waiting \in BOOLEAN
    /\ mask \in Seq(Letters \cup {Hidden})
    /\ remaining_errors \in 0..UIntMax /\ trial \in 0..MaxTrial + 1
    /\ result \in Results /\ network \in Networks

(* The command, its request and the state it was given in.                 *)
CommandInv ==
    /\ waiting =>
         /\ out \in Requests
         /\ \/ command = "start" /\ out.cmd = "SNG" /\ ~in_game /\ ~leaving
            \/ /\ \/ command = "play" /\ out.cmd = "PLG"
                  \/ command = "guess" /\ out.cmd = "PWG"
               /\ in_game /\ ~leaving /\ out.trial = trial
            \/ command \in {"quit", "exit"} /\ out.cmd = "QUT" /\ in_game
            \/ command = "reveal" /\ out.cmd = "REV" /\ in_game /\ ~leaving
    /\ running /\ leaving => waiting /\ command = "exit"

WireInv ==
    /\ requests \subseteq Requests
    /\ \A msg \in replies :
         msg.cmd = "RSG" /\ msg.status = "OK" =>
             msg.n_letters \in Nat /\ msg.max_errors \in 0..MaxTrial

-----------------------------------------------------------------------------
(* On a network that delivers a datagram once and in time.                 *)

alone == \A m, n \in requests : m.cmd # "QUT" /\ n.cmd # "QUT" => m = n

(* The player listens to the answer of its last request and to no other.   *)
attentive == running /\ ~leaving

FlightInv ==
    /\ alone
    /\ \A m \in requests : m.cmd = "SNG" => requests = {m} /\ (running => ~in_game)
    /\ attentive =>
         /\ requests \subseteq {out}
         /\ ~waiting => requests = {} /\ replies = {}
         /\ requests # {} => replies = {}
         /\ \A r, s \in replies : r = s

(* No request in flight has the number of a trial already registered, and  *)
(* the player does not fall behind.                                        *)
ahead(n) == theGame # NoGame => n + slack >= numTrials(theGame)

CountInv ==
    /\ \A m \in requests : isTrial(m) => ahead(m.trial - 1)
    /\ attentive /\ in_game => ahead(trial)

(* What an answer in flight says of the game is so.                        *)
truthful(msg) ==
    /\ isTrial(out) /\ msg.status \in {"WIN", "OVR"} => theGame = NoGame
    /\ isTrial(out) /\ msg.status = "INV" => ahead(msg.trial)
    /\ isTrial(out) /\ msg.status \in {"DUP", "ERR"} => ahead(trial - 1)
    /\ out.cmd = "QUT" /\ msg.status = "OK" => theGame = NoGame
    /\ out.cmd = "SNG" /\ msg.status = "OK" =>
         /\ theGame # NoGame /\ numTrials(theGame) = 0
         /\ msg.n_letters = Len(theGame.word)
         /\ msg.max_errors = theGame.maxErrors

listening == attentive /\ waiting

AnswerInv == listening => \A msg \in replies : understood(out, msg) => truthful(msg)

LivesInv == network # "failing" => up

-----------------------------------------------------------------------------
(* The board.                                                              *)

(* A letter trial is correct when the letter is in the word.               *)
Judged(game) ==
    \A i \in 1..numTrials(game) :
        game.trials[i].type = "L" =>
            (game.trials[i].correct
               <=> getLetterPositions(game.trials[i].guess, game.word) # {})

JudgedInv == theGame # NoGame => Judged(theGame)

(* A letter found is found on the server's board too, and a miss has been  *)
(* counted there already.                                                  *)
showable(msg) ==
    theGame # NoGame =>
        /\ out.cmd = "PLG" /\ msg.status = "OK" =>
             \A i \in msg.pos : i \in 1..Len(theGame.word) =>
                 /\ theGame.word[i] = out.guess
                 /\ \/ theGame.mask[i] = out.guess
                    \/ network = "failing" /\ out.guess \in AliasLetters
        /\ isTrial(out) /\ msg.status = "NOK" /\ network # "failing" =>
             remaining_errors > missesLeft(theGame)

ShowInv == listening => \A msg \in replies : understood(out, msg) => showable(msg)

-----------------------------------------------------------------------------
(* On a reliable network.                                                  *)

sameBoard ==
    /\ theGame # NoGame
    /\ mask = theGame.mask /\ remaining_errors = missesLeft(theGame)

(* The player's copy once the answer has been heard.                       *)
settles(msg) ==
    /\ understood(out, msg)
    /\ isTrial(out) =>
         /\ msg.status \in {"OK", "NOK", "DUP", "ERR", "WIN", "OVR"}
         /\ msg.status \in {"DUP", "ERR"} => sameBoard /\ trial = numTrials(theGame) + 1
         /\ msg.status = "NOK" =>
              /\ theGame # NoGame /\ trial = numTrials(theGame)
              /\ mask = theGame.mask /\ remaining_errors = missesLeft(theGame) + 1
         /\ msg.status = "OK" =>
              /\ theGame # NoGame /\ trial = numTrials(theGame)
              /\ out.cmd = "PLG"
              /\ theGame.mask = [i \in DOMAIN mask |->
                                   IF i \in msg.pos THEN out.guess ELSE mask[i]]
              /\ remaining_errors = missesLeft(theGame)
    /\ out.cmd = "QUT" => msg.status = "OK"
    /\ out.cmd = "REV" => sameBoard /\ trial = numTrials(theGame)

SyncInv ==
    attentive /\ in_game =>
        /\ ~waiting => sameBoard /\ trial = numTrials(theGame)
        /\ waiting =>
             /\ requests # {} \/ replies # {}
             /\ requests # {} =>
                  /\ sameBoard
                  /\ trial = numTrials(theGame) + (IF isTrial(out) THEN 1 ELSE 0)
             /\ \A msg \in replies : settles(msg)

-----------------------------------------------------------------------------
(* The server, seen from the session.                                      *)

LEMMA RequestFields ==
    ASSUME NEW msg \in Requests
    PROVE  /\ msg.cmd \in {"SNG", "PLG", "PWG", "QUT", "REV"} /\ msg.PLID = Me
           /\ Me \in PLIDs
           /\ msg.cmd = "PLG" => msg.guess \in Letters
           /\ msg.cmd = "PWG" => msg.guess \in Words
           /\ isTrial(msg) => msg.trial \in 1..MaxTrial + 1
           /\ msg # Silence
BY SessionAssumption DEF Requests, isTrial, parsePWGArgs, Silence

(* A request that the server can read is one of its own steps.             *)
LEMMA ServeIsNext ==
    ASSUME NEW msg \in Requests, readable(msg), serve(msg)
    PROVE  /\ Next
           /\ \/ msg.cmd = "SNG" /\ SNG(Me)
              \/ msg.cmd = "PLG" /\ PLG(Me, msg.guess, msg.trial)
                   /\ msg.guess \in Letters /\ msg.trial \in 1..MaxTrial
              \/ msg.cmd = "PWG" /\ PWG(Me, msg.guess, msg.trial)
                   /\ msg.guess \in Words /\ msg.trial \in 1..MaxTrial
              \/ msg.cmd = "QUT" /\ QUT(Me)
              \/ msg.cmd = "REV" /\ REV(Me)
<1>1. /\ msg.PLID = Me /\ Me \in PLIDs
      /\ msg.cmd = "PLG" => msg.guess \in Letters
      /\ msg.cmd = "PWG" => msg.guess \in Words
  BY RequestFields
<1>2. \/ msg.cmd = "SNG" /\ SNG(Me)
      \/ msg.cmd = "PLG" /\ PLG(Me, msg.guess, msg.trial)
      \/ msg.cmd = "PWG" /\ PWG(Me, msg.guess, msg.trial)
      \/ msg.cmd = "QUT" /\ QUT(Me)
      \/ msg.cmd = "REV" /\ REV(Me)
  BY <1>1 DEF serve
<1>3. msg.cmd \in {"PLG", "PWG"} => msg.trial \in 1..MaxTrial
  BY DEF readable, deserializePLG, deserializePWG, twoDigits
<1>4. UDPRequest(Me)
  BY <1>1, <1>2, <1>3 DEF UDPRequest
<1> QED
  BY <1>1, <1>2, <1>3, <1>4 DEF Next

LEMMA ServerQuiet ==
    ASSUME ServerInv, UNCHANGED server
    PROVE  ServerInv'
<1>1. UNCHANGED vars
  BY DEF server, store, vars
<1> QED
  BY <1>1, Step, ListedStep DEF ServerInv, IInv

LEMMA ServerServes ==
    ASSUME ServerInv, NEW msg \in Requests, serve(msg)
    PROVE  ServerInv'
<1>1. CASE readable(msg)
  BY <1>1, ServeIsNext, Step, ListedStep DEF ServerInv, IInv
<1>2. CASE ~readable(msg)
  <2>1. UNCHANGED <<ongoing, last, scores, scoreboard, wordPtr, up, now>>
    BY <1>2 DEF serve, Refuse
  <2>2. GamesInv' /\ ScoresInv'
    BY <2>1, StoreUnchanged DEF store, ServerInv, IInv
  <2> QED
    BY <2>1, <2>2 DEF ServerInv, IInv, ListedInv, ProcessInv
<1> QED
  BY <1>1, <1>2

LEMMA ServerRestarts ==
    ASSUME ServerInv, Restart
    PROVE  ServerInv'
BY Step, ListedStep DEF ServerInv, IInv, Next

(* An abort changes no file and neither the word pointer nor the clock.    *)
LEMMA ServerAborts ==
    ASSUME ServerInv, Abort
    PROVE  ServerInv'
<1>1. UNCHANGED <<ongoing, last, scores, scoreboard, wordPtr, now>> /\ up' = FALSE
  BY DEF Abort, store
<1>2. GamesInv' /\ ScoresInv'
  BY <1>1, StoreUnchanged DEF store, ServerInv, IInv
<1> QED
  BY <1>1, <1>2 DEF ServerInv, IInv, ListedInv, ProcessInv

-----------------------------------------------------------------------------
(* What serving one request does to the game, and how it is answered.      *)

says(status) == reply' # Silence /\ reply'.status = status

startsGame ==
    /\ theGame' # NoGame /\ (theGame # NoGame => theGame' = theGame)
    /\ \/ numTrials(theGame') = 0 /\ reply' = RSG_OK(theGame')
       \/ theGame # NoGame /\ says("NOK")

(* The trial is the last one again.                                        *)
repeatsTrial(msg) ==
    \/ reply' = Silence /\ msg.cmd = "PWG"
    \/ says("INV") /\ reply'.trial = msg.trial
    \/ says("DUP")
    \/ says("NOK")
    \/ /\ says("OK") /\ msg.cmd = "PLG"
       /\ reply'.pos = getLetterPositions(msg.guess, theGame.word)
       /\ Judged(theGame) =>
            \/ msg.guess \in AliasLetters
            \/ \A i \in reply'.pos : theGame.mask[i] = msg.guess

(* The trial is registered and the game goes on.                           *)
playsOn(msg) ==
    /\ theGame'.word = theGame.word /\ theGame'.maxErrors = theGame.maxErrors
    /\ Judged(theGame) => Judged(theGame')
    /\ \/ /\ says("NOK")
          /\ theGame'.mask = theGame.mask
          /\ missesLeft(theGame') = missesLeft(theGame) - 1
       \/ /\ says("OK") /\ msg.cmd = "PLG"
          /\ reply'.pos = getLetterPositions(msg.guess, theGame.word)
          /\ theGame'.mask = [i \in DOMAIN theGame.mask |->
                               IF i \in reply'.pos THEN msg.guess ELSE theGame.mask[i]]
          /\ missesLeft(theGame') = missesLeft(theGame)

trialServed(msg) ==
    \/ theGame = NoGame /\ theGame' = NoGame /\ says("ERR")
    \/ /\ theGame # NoGame /\ theGame' = theGame
       /\ \/ /\ msg.trial \notin {numTrials(theGame), numTrials(theGame) + 1}
             /\ says("INV") /\ reply'.trial = numTrials(theGame)
          \/ msg.trial = numTrials(theGame) /\ repeatsTrial(msg)
          \/ msg.trial = numTrials(theGame) + 1 /\ says("DUP")
    \/ /\ theGame # NoGame /\ msg.trial = numTrials(theGame) + 1
       /\ \/ theGame' = NoGame /\ (says("WIN") \/ says("OVR"))
          \/ /\ theGame' # NoGame /\ numTrials(theGame') = msg.trial
             /\ playsOn(msg)

(* A letter trial is marked correct when the letter is in the word.        *)
LEMMA LetterJudged ==
    ASSUME NEW game, GoodGame(game), NEW letter \in Letters,
           letterStatus(game, letter) \in {"OK", "NOK"}
    PROVE  LET played == playLetter(game, letter)
               pos    == getLetterPositions(letter, game.word)
           IN
           /\ played.word = game.word /\ played.maxErrors = game.maxErrors
           /\ numTrials(played) = numTrials(game) + 1
           /\ Judged(game) => Judged(played)
           /\ letterStatus(game, letter) = "NOK" =>
                /\ played.mask = game.mask
                /\ missesLeft(played) = missesLeft(game) - 1
           /\ letterStatus(game, letter) = "OK" =>
                /\ pos # {}
                /\ played.mask = [i \in DOMAIN game.mask |->
                                    IF i \in pos THEN letter ELSE game.mask[i]]
                /\ missesLeft(played) = missesLeft(game)
<1> DEFINE played == playLetter(game, letter)
           pos    == getLetterPositions(letter, game.word)
           shown  == showLetter(game, letter)
           status == letterStatus(game, letter)
           miss   == letterTrial(letter, FALSE)
           hit    == letterTrial(letter, TRUE)
<1>1. /\ game \in Games /\ numTrials(game) \in Nat
      /\ game.numSucc \in Nat /\ game.maxErrors \in Nat
  BY DEF GoodGame, Games, numTrials
<1>2. /\ status = "OK" => pos # {}
      /\ status = "NOK" => pos = {}
  BY <1>1, LetterStatusCases
<1>3. /\ miss \in Trials /\ ~miss.correct /\ miss.type = "L" /\ miss.guess = letter
      /\ hit \in Trials /\ hit.correct /\ hit.type = "L" /\ hit.guess = letter
  BY DEF letterTrial, Trials
<1>4. ASSUME NEW new, NEW t \in Trials, new.word = game.word,
             new.trials = Append(game.trials, t), t.type = "L", t.guess = letter,
             t.correct <=> pos # {}
      PROVE  /\ numTrials(new) = numTrials(game) + 1
             /\ Judged(game) => Judged(new)
  <2> DEFINE n == numTrials(game)
  <2>1. /\ numTrials(new) = n + 1
        /\ \A i \in 1..n : new.trials[i] = game.trials[i]
        /\ new.trials[n + 1] = t
    <3>1. game.trials \in Seq(Trials)
      BY <1>1 DEF Games
    <3> QED
      BY <1>4, <3>1 DEF numTrials
  <2> SUFFICES ASSUME Judged(game), NEW i \in 1..numTrials(new),
                      new.trials[i].type = "L"
               PROVE  new.trials[i].correct
                        <=> getLetterPositions(new.trials[i].guess, new.word) # {}
    BY <2>1 DEF Judged
  <2> HIDE DEF n
  <2>2. CASE i = n + 1
    BY <1>4, <2>1, <2>2
  <2>3. CASE i # n + 1
    <3>1. i \in 1..n
      BY <1>1, <2>1, <2>3 DEF n
    <3> QED
      BY <1>4, <2>1, <3>1 DEF Judged, n
  <2> QED
    BY <2>2, <2>3
<1>5. CASE status = "NOK"
  <2>1. played = registerGameTrial(game, miss)
    BY <1>5 DEF playLetter
  <2>2. /\ played.word = game.word /\ played.maxErrors = game.maxErrors
        /\ played.mask = game.mask /\ played.numSucc = game.numSucc
        /\ played.trials = Append(game.trials, miss)
    BY <1>1, <2>1 DEF registerGameTrial, Games
  <2>3. /\ numTrials(played) = numTrials(game) + 1
        /\ Judged(game) => Judged(played)
    BY <1>2, <1>3, <1>4, <1>5, <2>2
  <2>4. missesLeft(played) = missesLeft(game) - 1
    <3> HIDE DEF played
    <3> QED
      BY <1>1, <2>2, <2>3 DEF missesLeft, misses
  <2> QED
    BY <1>5, <2>2, <2>3, <2>4
<1>6. CASE status = "OK"
  <2>1. played = registerGameTrial(shown, hit)
    BY <1>6 DEF playLetter
  <2>2. /\ played.word = game.word /\ played.maxErrors = game.maxErrors
        /\ played.mask = [i \in DOMAIN game.mask |->
                            IF i \in pos THEN letter ELSE game.mask[i]]
        /\ played.numSucc = game.numSucc + 1
        /\ played.trials = Append(game.trials, hit)
    BY <1>1, <2>1 DEF registerGameTrial, showLetter, Games
  <2>3. /\ numTrials(played) = numTrials(game) + 1
        /\ Judged(game) => Judged(played)
    BY <1>2, <1>3, <1>4, <1>6, <2>2
  <2>4. missesLeft(played) = missesLeft(game)
    <3>1. /\ played.numSucc = game.numSucc + 1 /\ played.maxErrors = game.maxErrors
          /\ numTrials(played) = numTrials(game) + 1
      BY <2>2, <2>3
    <3> HIDE DEF played
    <3> QED
      BY <1>1, <3>1 DEF missesLeft, misses
  <2> QED
    BY <1>2, <1>6, <2>2, <2>3, <2>4
<1> QED
  BY <1>5, <1>6

(* A word that does not end the game shows nothing and is a miss.          *)
LEMMA WordJudged ==
    ASSUME NEW game, GoodGame(game), NEW word \in Words,
           wordStatus(game, word) = "NOK"
    PROVE  LET played == playWord(game, word) IN
           /\ played.word = game.word /\ played.maxErrors = game.maxErrors
           /\ numTrials(played) = numTrials(game) + 1
           /\ Judged(game) => Judged(played)
           /\ played.mask = game.mask
           /\ missesLeft(played) = missesLeft(game) - 1
<1> DEFINE played == playWord(game, word)
           miss   == wordTrial(word, FALSE)
           n      == numTrials(game)
<1>1. /\ game \in Games /\ n \in Nat
      /\ game.numSucc \in Nat /\ game.maxErrors \in Nat
  BY DEF GoodGame, Games, numTrials
<1>2. miss \in Trials /\ miss.type = "W"
  BY DEF wordTrial, Trials
<1>3. played = registerGameTrial(game, miss)
  BY DEF playWord
<1> HIDE DEF played, miss
<1>4. /\ played.word = game.word /\ played.mask = game.mask
      /\ played.maxErrors = game.maxErrors /\ played.numSucc = game.numSucc
      /\ numTrials(played) = n + 1
      /\ \A i \in 1..n : played.trials[i] = game.trials[i]
      /\ played.trials[n + 1] = miss
  BY <1>1, <1>2, <1>3, RegisterTrial
<1> HIDE DEF n
<1>5. Judged(game) => Judged(played)
  <2> SUFFICES ASSUME Judged(game), NEW i \in 1..numTrials(played),
                      played.trials[i].type = "L"
               PROVE  played.trials[i].correct
                        <=> getLetterPositions(played.trials[i].guess, played.word) # {}
    BY DEF Judged
  <2>1. i \in 1..n
    BY <1>1, <1>2, <1>4
  <2> QED
    BY <1>4, <2>1 DEF Judged, n
<1>6. missesLeft(played) = missesLeft(game) - 1
  BY <1>1, <1>4 DEF missesLeft, misses, n
<1> QED
  BY <1>4, <1>5, <1>6 DEF played, n

LEMMA ServedLetter ==
    ASSUME ServerInv, NEW msg \in Requests, msg.cmd = "PLG", msg.guess \in Letters,
           msg.trial \in 1..MaxTrial, PLG(Me, msg.guess, msg.trial)
    PROVE  /\ trialServed(msg)
           /\ reply' # Silence /\ reply'.cmd = "RLG" /\ up' = up
<1> DEFINE game   == theGame
           letter == msg.guess
           t      == msg.trial
           n      == numTrials(game)
           pos    == getLetterPositions(letter, game.word)
           status == letterStatus(game, letter)
           played == playLetter(game, letter)
<1>1. /\ ongoing \in [PLIDs -> Games \cup {NoGame}] /\ Me \in PLIDs
      /\ game # NoGame => GoodGame(game)
  BY SessionAssumption DEF ServerInv, IInv, GamesInv, theGame
<1>2. game # NoGame => game \in Games /\ n \in Nat
  BY <1>1 DEF GoodGame, Games, numTrials
<1>3. ASSUME NEW st, NEW k, NEW found, reply' = RLG(st, k, found)
      PROVE  /\ says(st) /\ reply'.trial = k /\ reply'.pos = found
             /\ reply'.cmd = "RLG"
  BY <1>3 DEF RLG, says, Silence
<1>4. up' = up /\ t \in Nat /\ t # 0
  BY ServerAssumption DEF PLG
<1>5. UNCHANGED store => theGame' = theGame
  BY DEF store, theGame
<1>6. \A g : saveGame(Me, g) => theGame' = g
  BY <1>1 DEF saveGame, theGame
<1>7. CASE LetterWithoutGame(Me)
  BY <1>4, <1>5, <1>7 DEF LetterWithoutGame, trialServed, says, Silence, theGame
<1>8. CASE LetterOutOfTurn(Me, t)
  <2>1. /\ game # NoGame /\ t \notin {n, n + 1}
        /\ reply' = RLG("INV", n, {}) /\ theGame' = game
    BY <1>6, <1>8 DEF LetterOutOfTurn, theGame
  <2>2. says("INV") /\ reply'.trial = n /\ reply'.cmd = "RLG"
    BY <1>3, <2>1
  <2> QED
    BY <1>4, <2>1, <2>2 DEF trialServed, says
<1>9. CASE LetterRepeated(Me, letter, t)
  <2>1. game # NoGame /\ t = n /\ theGame' = game
    BY <1>6, <1>9 DEF LetterRepeated, theGame
  <2> DEFINE u == game.trials[t]
  <2>2. \/ reply' = RLG("INV", t, {}) \/ reply' = RLG("DUP", t, {})
        \/ /\ reply' = RLG_found(game, letter)
           /\ letter \in AliasLetters \/ (u.type = "L" /\ u.guess = letter)
    <3>1. CASE u.type = "L"
      <4>1. PICK same \in {u.guess = letter} :
              reply' = IF ~same THEN RLG("INV", t, {})
                       ELSE IF triedBefore(game, "L", letter, t - 1)
                       THEN RLG("DUP", t, {}) ELSE RLG_found(game, letter)
        BY <1>9, <3>1 DEF LetterRepeated, sameLetter, theGame
      <4>2. CASE u.guess = letter
        BY <3>1, <4>1, <4>2
      <4>3. CASE u.guess # letter
        BY <4>1, <4>3
      <4> QED
        BY <4>2, <4>3
    <3>2. CASE u.type # "L" /\ letter \in AliasLetters
      BY <1>9, <3>2 DEF LetterRepeated, theGame
    <3>3. CASE u.type # "L" /\ letter \notin AliasLetters
      <4>1. PICK same \in {FALSE} :
              reply' = IF ~same THEN RLG("INV", t, {})
                       ELSE IF triedBefore(game, "L", letter, t - 1)
                       THEN RLG("DUP", t, {}) ELSE RLG_found(game, letter)
        BY <1>9, <3>3 DEF LetterRepeated, sameLetter, theGame
      <4> QED
        BY <4>1
    <3> QED
      BY <3>1, <3>2, <3>3
  <2>3. CASE reply' = RLG("INV", t, {}) \/ reply' = RLG("DUP", t, {})
    <3>1. repeatsTrial(msg) /\ reply' # Silence /\ reply'.cmd = "RLG"
      BY <1>3, <2>3 DEF repeatsTrial, says
    <3> QED
      BY <1>4, <2>1, <3>1 DEF trialServed
  <2>4. CASE reply' = RLG_found(game, letter) /\ pos = {}
    <3>1. reply' = RLG("NOK", n, pos)
      BY <2>4 DEF RLG_found
    <3>2. repeatsTrial(msg) /\ reply' # Silence /\ reply'.cmd = "RLG"
      BY <1>3, <3>1 DEF repeatsTrial, says
    <3> QED
      BY <1>4, <2>1, <3>2 DEF trialServed
  <2>5. CASE /\ reply' = RLG_found(game, letter) /\ pos # {}
             /\ letter \in AliasLetters \/ (u.type = "L" /\ u.guess = letter)
    <3>1. reply' = RLG("OK", n, pos)
      BY <2>5 DEF RLG_found
    <3>2. says("OK") /\ reply'.pos = pos /\ reply'.cmd = "RLG"
      BY <1>3, <3>1
    <3>3. ASSUME Judged(game), letter \notin AliasLetters
          PROVE  \A i \in pos : game.mask[i] = letter
      <4>1. /\ game.trials[n].type = "L" /\ game.trials[n].guess = letter
            /\ n \in 1..n
        BY <1>2, <1>4, <2>1, <2>5, <3>3
      <4>2. n \in correctTrials(game)
        BY <2>5, <3>3, <4>1 DEF Judged, correctTrials
      <4>3. letter \in lettersFound(game)
        BY <4>1, <4>2 DEF lettersFound
      <4>4. game.mask = [i \in 1..Len(game.word) |->
                           IF game.word[i] \in lettersFound(game)
                           THEN game.word[i] ELSE Hidden]
        BY <1>1, <2>1 DEF GoodGame, Counted
      <4> HIDE DEF game, letter
      <4> QED
        BY <4>3, <4>4 DEF getLetterPositions
    <3>4. repeatsTrial(msg)
      BY <3>2, <3>3 DEF repeatsTrial
    <3> QED
      BY <1>4, <2>1, <3>2, <3>4 DEF trialServed, says
  <2> QED
    BY <2>2, <2>3, <2>4, <2>5
<1>10. CASE LetterDuplicate(Me, letter, t)
  <2>1. /\ game # NoGame /\ t = n + 1 /\ theGame' = game
        /\ reply' = RLG("DUP", n, {})
    BY <1>5, <1>10 DEF LetterDuplicate, theGame
  <2>2. says("DUP") /\ reply'.cmd = "RLG"
    BY <1>3, <2>1
  <2> QED
    BY <1>4, <2>1, <2>2 DEF trialServed, says
<1>11. CASE LetterPlayed(Me, letter, t)
  <2>1. /\ game # NoGame /\ t = n + 1
        /\ reply' = RLG(status, numTrials(played), IF status = "OK" THEN pos ELSE {})
        /\ \/ status = "WIN" /\ endGame(Me, played, "win")
           \/ status = "OVR" /\ endGame(Me, played, "fail")
           \/ status \in {"OK", "NOK"} /\ theGame' = played
        /\ ~triedBefore(game, "L", letter, n)
    BY <1>6, <1>11 DEF LetterPlayed, theGame
  <2>2. reply' # Silence /\ reply'.cmd = "RLG" /\ says(status)
        /\ (status = "OK" => reply'.pos = pos)
    BY <1>3, <2>1 DEF says
  <2>3. CASE status \in {"WIN", "OVR"}
    <3>1. theGame' = NoGame
      BY <1>1, <2>1, <2>3 DEF endGame, theGame
    <3> QED
      BY <1>4, <2>1, <2>2, <2>3, <3>1 DEF trialServed
  <2>4. CASE status \in {"OK", "NOK"}
    <3>1. /\ theGame' = played /\ played \in Games
      BY <1>1, <2>1, <2>4, PlayedLetter
    <3>2. played # NoGame
      BY <3>1, ServerAssumption
    <3>3. /\ played.word = game.word /\ played.maxErrors = game.maxErrors
          /\ numTrials(played) = n + 1
          /\ Judged(game) => Judged(played)
          /\ status = "NOK" =>
               /\ played.mask = game.mask
               /\ missesLeft(played) = missesLeft(game) - 1
          /\ status = "OK" =>
               /\ played.mask = [i \in DOMAIN game.mask |->
                                   IF i \in pos THEN letter ELSE game.mask[i]]
               /\ missesLeft(played) = missesLeft(game)
      BY <1>1, <2>1, <2>4, LetterJudged
    <3> HIDE DEF status, played
    <3>4. playsOn(msg)
      BY <2>2, <2>4, <3>1, <3>3 DEF playsOn
    <3> QED
      BY <1>4, <2>1, <2>2, <3>1, <3>2, <3>3, <3>4 DEF trialServed
  <2> QED
    BY <2>1, <2>3, <2>4
<1> QED
  BY <1>7, <1>8, <1>9, <1>10, <1>11 DEF PLG

LEMMA ServedWord ==
    ASSUME ServerInv, NEW msg \in Requests, msg.cmd = "PWG", msg.guess \in Words,
           msg.trial \in 1..MaxTrial, PWG(Me, msg.guess, msg.trial)
    PROVE  /\ trialServed(msg)
           /\ reply' = Silence => theGame # NoGame /\ msg.trial = numTrials(theGame)
           /\ reply' # Silence => reply'.cmd = "RWG" /\ up' = up
<1> DEFINE game   == theGame
           word   == msg.guess
           t      == msg.trial
           n      == numTrials(game)
           status == wordStatus(game, word)
           played == playWord(game, word)
<1>1. /\ ongoing \in [PLIDs -> Games \cup {NoGame}] /\ Me \in PLIDs
      /\ game # NoGame => GoodGame(game)
  BY SessionAssumption DEF ServerInv, IInv, GamesInv, theGame
<1>2. game # NoGame => game \in Games /\ n \in Nat
  BY <1>1 DEF GoodGame, Games, numTrials
<1>3. ASSUME NEW st, NEW k, reply' = RWG(st, k)
      PROVE  says(st) /\ reply'.trial = k /\ reply'.cmd = "RWG" /\ reply' # Silence
  BY <1>3 DEF RWG, says, Silence
<1>4. t \in Nat /\ t # 0
  BY ServerAssumption
<1>5. UNCHANGED ongoing => theGame' = theGame
  BY DEF theGame
<1>6. \A g : saveGame(Me, g) => theGame' = g
  BY <1>1 DEF saveGame, theGame
<1>7. CASE WordWithoutGame(Me)
  BY <1>4, <1>5, <1>7 DEF WordWithoutGame, trialServed, says, Silence, theGame
<1>8. CASE WordOutOfTurn(Me, t)
  <2>1. /\ game # NoGame /\ t \notin {n, n + 1} /\ up' = up
        /\ reply' = RWG("INV", n) /\ theGame' = game
    BY <1>6, <1>8 DEF WordOutOfTurn, theGame
  <2>2. says("INV") /\ reply'.trial = n /\ reply'.cmd = "RWG" /\ reply' # Silence
    BY <1>3, <2>1
  <2> QED
    BY <1>4, <2>1, <2>2 DEF trialServed
<1>9. CASE WordRepeated(Me, word, t)
  <2>1. game # NoGame /\ t = n /\ theGame' = game /\ up' = up
    BY <1>6, <1>9 DEF WordRepeated, theGame
  <2>2. reply' \in {RWG("INV", t), RWG("DUP", t), RWG("NOK", t)}
    BY <1>9 DEF WordRepeated
  <2>3. repeatsTrial(msg) /\ reply' # Silence /\ reply'.cmd = "RWG"
    BY <1>3, <2>2 DEF repeatsTrial
  <2> QED
    BY <1>4, <2>1, <2>3 DEF trialServed
<1>10. CASE WordCrash(Me, t)
  <2>1. game # NoGame /\ t = n /\ theGame' = game /\ reply' = Silence
    BY <1>5, <1>10 DEF WordCrash, theGame, store
  <2> QED
    BY <2>1 DEF trialServed, repeatsTrial
<1>11. CASE WordDuplicate(Me, word, t)
  <2>1. /\ game # NoGame /\ t = n + 1 /\ theGame' = game /\ up' = up
        /\ reply' = RWG("DUP", n)
    BY <1>5, <1>11 DEF WordDuplicate, theGame
  <2>2. says("DUP") /\ reply'.cmd = "RWG" /\ reply' # Silence
    BY <1>3, <2>1
  <2> QED
    BY <1>4, <2>1, <2>2 DEF trialServed
<1>12. CASE WordPlayed(Me, word, t)
  <2>1. /\ game # NoGame /\ t = n + 1 /\ up' = up
        /\ reply' = RWG(status, numTrials(played))
        /\ \/ status = "WIN" /\ endGame(Me, played, "win")
           \/ status = "OVR" /\ endGame(Me, played, "fail")
           \/ status = "NOK" /\ theGame' = played
        /\ ~triedBefore(game, "W", word, n)
    BY <1>6, <1>12 DEF WordPlayed, theGame
  <2>2. reply' # Silence /\ reply'.cmd = "RWG" /\ says(status)
    BY <1>3, <2>1
  <2>3. CASE status \in {"WIN", "OVR"}
    <3>1. theGame' = NoGame
      BY <1>1, <2>1, <2>3 DEF endGame, theGame
    <3> QED
      BY <1>4, <2>1, <2>2, <2>3, <3>1 DEF trialServed
  <2>4. CASE status = "NOK"
    <3>1. theGame' = played /\ played \in Games
      BY <1>1, <2>1, <2>4, PlayedWord
    <3>2. played # NoGame
      BY <3>1, ServerAssumption
    <3>3. /\ played.word = game.word /\ played.maxErrors = game.maxErrors
          /\ numTrials(played) = n + 1
          /\ Judged(game) => Judged(played)
          /\ played.mask = game.mask
          /\ missesLeft(played) = missesLeft(game) - 1
      BY <1>1, <2>1, <2>4, WordJudged
    <3> HIDE DEF status, played
    <3>4. playsOn(msg)
      BY <2>2, <2>4, <3>1, <3>3 DEF playsOn
    <3> QED
      BY <1>4, <2>1, <2>2, <3>1, <3>2, <3>3, <3>4 DEF trialServed
  <2> QED
    BY <2>1, <2>3, <2>4
<1> QED
  BY <1>7, <1>8, <1>9, <1>10, <1>11, <1>12 DEF PWG

LEMMA ServedStart ==
    ASSUME ServerInv, SNG(Me)
    PROVE  startsGame /\ up' = up /\ reply' # Silence /\ reply'.cmd = "RSG"
<1>1. ongoing \in [PLIDs -> Games \cup {NoGame}] /\ Me \in PLIDs
  BY SessionAssumption DEF ServerInv, IInv, GamesInv
<1>2. \A game : RSG_OK(game) # Silence /\ RSG_OK(game).cmd = "RSG"
  BY DEF RSG_OK, Silence
<1>3. up' = up
  BY DEF SNG
<1>4. CASE StartNew(Me)
  <2>1. PICK i \in DOMAIN WordList :
          /\ ongoing[Me] = NoGame
          /\ saveGame(Me, newGame(WordList[i]))
          /\ reply' = RSG_OK(newGame(WordList[i]))
    BY <1>4 DEF StartNew
  <2> DEFINE new == newGame(WordList[i])
  <2>2. new \in Games /\ numTrials(new) = 0
    <3>1. WordList[i] \in Words
      BY RulesAssumption
    <3> QED
      BY <3>1, NewGameIsGood DEF GoodGame, numTrials, newGame
  <2>3. theGame = NoGame /\ theGame' = new /\ new # NoGame
    BY <1>1, <2>1, <2>2, ServerAssumption DEF saveGame, theGame
  <2> HIDE DEF new
  <2>4. reply' = RSG_OK(new)
    BY <2>1 DEF new
  <2> QED
    BY <1>2, <1>3, <2>2, <2>3, <2>4 DEF startsGame
<1>5. CASE StartAgain(Me)
  <2>1. /\ theGame # NoGame /\ theGame' = theGame
        /\ reply' = IF numTrials(theGame) = 0 THEN RSG_OK(theGame)
                    ELSE [cmd |-> "RSG", status |-> "NOK"]
    BY <1>5 DEF StartAgain, theGame
  <2>2. CASE numTrials(theGame) = 0
    BY <1>2, <1>3, <2>1, <2>2 DEF startsGame
  <2>3. CASE numTrials(theGame) # 0
    BY <1>3, <2>1, <2>3 DEF startsGame, says, Silence
  <2> QED
    BY <2>2, <2>3
<1> QED
  BY <1>4, <1>5 DEF SNG

LEMMA ServedQuit ==
    ASSUME ServerInv, QUT(Me)
    PROVE  /\ theGame' = NoGame /\ up' = up /\ reply' # Silence /\ reply'.cmd = "RQT"
           /\ theGame # NoGame => says("OK")
<1>1. ongoing \in [PLIDs -> Games \cup {NoGame}] /\ Me \in PLIDs
  BY SessionAssumption DEF ServerInv, IInv, GamesInv
<1> QED
  BY <1>1 DEF QUT, endGame, theGame, store, says, Silence

LEMMA ServedReveal ==
    ASSUME REV(Me)
    PROVE  theGame' = theGame /\ up' = up /\ reply' # Silence /\ reply'.cmd = "RRV"
BY DEF REV, theGame, Silence

(* A request that does not parse.                                          *)
LEMMA ServedRefused ==
    ASSUME NEW msg \in Requests, serve(msg), ~readable(msg)
    PROVE  /\ theGame' = theGame /\ up' = up /\ reply' # Silence
           /\ reply' = refusal(msg) /\ reply'.status = "ERR"
BY DEF serve, Refuse, theGame, refusal, Silence, response, Requests

(* All of it: the five ways in which a request is served.                  *)
LEMMA Served ==
    ASSUME ServerInv, NEW msg \in Requests, serve(msg)
    PROVE  /\ \/ isTrial(msg) /\ trialServed(msg)
              \/ isTrial(msg) /\ theGame' = theGame /\ says("ERR") /\ ~readable(msg)
              \/ msg.cmd = "SNG" /\ startsGame
              \/ msg.cmd = "QUT" /\ theGame' = NoGame /\ (theGame # NoGame => says("OK"))
              \/ msg.cmd = "REV" /\ theGame' = theGame
           /\ reply' # Silence => up' = up /\ reply'.cmd = response[msg.cmd]
           /\ reply' = Silence =>
                msg.cmd = "PWG" /\ theGame # NoGame /\ msg.trial = numTrials(theGame)
<1>1. /\ response["SNG"] = "RSG" /\ response["PLG"] = "RLG"
      /\ response["PWG"] = "RWG" /\ response["QUT"] = "RQT"
      /\ response["REV"] = "RRV"
  BY DEF response
<1>2. CASE readable(msg)
  <2>1. CASE msg.cmd = "SNG" /\ SNG(Me)
    BY <1>1, <2>1, ServedStart
  <2>2. CASE /\ msg.cmd = "PLG" /\ PLG(Me, msg.guess, msg.trial)
             /\ msg.guess \in Letters /\ msg.trial \in 1..MaxTrial
    BY <1>1, <2>2, ServedLetter DEF isTrial
  <2>3. CASE /\ msg.cmd = "PWG" /\ PWG(Me, msg.guess, msg.trial)
             /\ msg.guess \in Words /\ msg.trial \in 1..MaxTrial
    BY <1>1, <2>3, ServedWord DEF isTrial
  <2>4. CASE msg.cmd = "QUT" /\ QUT(Me)
    BY <1>1, <2>4, ServedQuit
  <2>5. CASE msg.cmd = "REV" /\ REV(Me)
    BY <1>1, <2>5, ServedReveal
  <2> QED
    BY <1>2, <2>1, <2>2, <2>3, <2>4, <2>5, ServeIsNext
<1>3. CASE ~readable(msg)
  <2>1. isTrial(msg)
    BY <1>3, RequestFields DEF readable, isTrial, checkPLID, deserializeSNG,
       deserializeQUT, deserializeREV
  <2>2. reply'.cmd = response[msg.cmd]
    BY <1>3, ServedRefused DEF refusal
  <2> QED
    BY <1>3, <2>1, <2>2, ServedRefused DEF says
<1> QED
  BY <1>2, <1>3

-----------------------------------------------------------------------------
(* The player's variables keep their types on every network.               *)

LocalInv == ServerInv /\ ShapeInv /\ CommandInv /\ WireInv

LEMMA LocalInit == SessionInit => LocalInv
<1> SUFFICES ASSUME SessionInit PROVE LocalInv
  OBVIOUS
<1> USE DEF SessionInit, PlayerInit
<1>1. ServerInv
  BY InitInv DEF ServerInv, ListedInv, Init
<1>2. 0 \in 0..UIntMax /\ 0 \in 0..MaxTrial + 1 /\ <<>> \in Seq(Letters \cup {Hidden})
  BY SessionAssumption, ServerAssumption
<1>3. ShapeInv
  BY <1>2 DEF ShapeInv, Results
<1>4. CommandInv /\ WireInv
  BY DEF CommandInv, WireInv
<1> QED
  BY <1>1, <1>3, <1>4 DEF LocalInv

(* A request of the right type is sent: the command and the variables of   *)
(* the board are what is left to check.                                    *)
LEMMA SendTypes ==
    ASSUME LocalInv, NEW cmd, NEW msg \in Requests, send(cmd, msg), UNCHANGED network
    PROVE  ServerInv' /\ WireInv' /\ waiting' /\ out' \in Requests
BY ServerQuiet DEF LocalInv, send, WireInv

LEMMA LocalStart == LocalInv /\ Start /\ UNCHANGED network => LocalInv'
<1> SUFFICES ASSUME LocalInv, Start, UNCHANGED network PROVE LocalInv'
  OBVIOUS
<1> DEFINE msg == [cmd |-> "SNG", PLID |-> Me]
<1>1. msg \in Requests
  BY DEF Requests
<1>2. ServerInv' /\ WireInv' /\ out' \in Requests
  BY <1>1, SendTypes DEF Start
<1>3. ShapeInv'
  BY DEF LocalInv, ShapeInv, Start, send, board
<1>4. CommandInv'
  BY <1>2 DEF LocalInv, CommandInv, Start, Idle, send, board
<1> QED
  BY <1>2, <1>3, <1>4 DEF LocalInv

LEMMA NextTrial ==
    ASSUME ShapeInv, CountBound
    PROVE  plusOne(trial) = trial + 1 /\ trial + 1 \in 1..MaxTrial + 1
BY SessionAssumption, ServerAssumption DEF ShapeInv, CountBound, plusOne

LEMMA LocalTrial ==
    ASSUME LocalInv, UNCHANGED network,
           \/ \E letter \in parsePLGArgs : Play(letter)
           \/ \E w \in parsePWGArgs : Guess(w)
    PROVE  LocalInv'
<1>1. CountBound /\ trial' = trial + 1 /\ trial' \in 1..MaxTrial + 1
  BY NextTrial DEF Play, Guess, LocalInv
<1>2. PICK cmd \in {"play", "guess"}, msg \in Requests :
        /\ send(cmd, msg) /\ msg.trial = trial'
        /\ \/ cmd = "play" /\ msg.cmd = "PLG"
           \/ cmd = "guess" /\ msg.cmd = "PWG"
  <2>1. ASSUME NEW letter \in parsePLGArgs, Play(letter)
        PROVE  \E cmd \in {"play", "guess"}, msg \in Requests :
                 /\ send(cmd, msg) /\ msg.trial = trial'
                 /\ \/ cmd = "play" /\ msg.cmd = "PLG"
                    \/ cmd = "guess" /\ msg.cmd = "PWG"
    <3> DEFINE msg == [cmd |-> "PLG", PLID |-> Me, guess |-> letter, trial |-> trial']
    <3>1. msg \in Requests
      BY <1>1 DEF Requests, parsePLGArgs
    <3>2. send("play", msg)
      BY <2>1 DEF Play
    <3> QED
      BY <3>1, <3>2
  <2>2. ASSUME NEW w \in parsePWGArgs, Guess(w)
        PROVE  \E cmd \in {"play", "guess"}, msg \in Requests :
                 /\ send(cmd, msg) /\ msg.trial = trial'
                 /\ \/ cmd = "play" /\ msg.cmd = "PLG"
                    \/ cmd = "guess" /\ msg.cmd = "PWG"
    <3> DEFINE msg == [cmd |-> "PWG", PLID |-> Me, guess |-> w, trial |-> trial']
    <3>1. msg \in Requests
      BY <1>1 DEF Requests
    <3>2. send("guess", msg)
      BY <2>2 DEF Guess
    <3> QED
      BY <3>1, <3>2
  <2> QED
    BY <2>1, <2>2
<1>3. /\ Idle /\ in_game
      /\ UNCHANGED <<in_game, known, mask, remaining_errors, leaving>>
  BY DEF Play, Guess
<1>4. ServerInv' /\ WireInv' /\ out' \in Requests
  BY <1>2, SendTypes
<1>5. ShapeInv'
  BY <1>1, <1>2, <1>3 DEF LocalInv, ShapeInv, send
<1>6. CommandInv'
  BY <1>2, <1>3, <1>4 DEF LocalInv, CommandInv, Idle, send
<1> QED
  BY <1>4, <1>5, <1>6 DEF LocalInv

LEMMA LocalQuit ==
    ASSUME LocalInv, UNCHANGED network, Quit("quit") \/ Quit("exit") \/ Reveal
    PROVE  LocalInv'
<1>1. PICK cmd \in {"quit", "exit", "reveal"}, msg \in Requests :
        /\ send(cmd, msg)
        /\ \/ cmd \in {"quit", "exit"} /\ msg.cmd = "QUT"
           \/ cmd = "reveal" /\ msg.cmd = "REV"
  <2>1. QuitMessage \in Requests /\ [cmd |-> "REV", PLID |-> Me] \in Requests
    BY DEF Requests, QuitMessage
  <2> QED
    BY <2>1 DEF Quit, Reveal, QuitMessage
<1>2. Idle /\ in_game /\ UNCHANGED <<board, leaving>>
  BY DEF Quit, Reveal
<1>3. ServerInv' /\ WireInv' /\ out' \in Requests
  BY <1>1, SendTypes
<1>4. ShapeInv'
  BY <1>1, <1>2 DEF LocalInv, ShapeInv, send, board
<1>5. CommandInv'
  BY <1>1, <1>2, <1>3 DEF LocalInv, CommandInv, Idle, send, board
<1> QED
  BY <1>3, <1>4, <1>5 DEF LocalInv

(* Everything that ends the process, or forgets the game at the prompt.    *)
LEMMA LocalEnd ==
    ASSUME LocalInv, UNCHANGED network, ExitNow \/ State \/ Die \/ Launch
    PROVE  LocalInv'
<1>1. UNCHANGED server /\ requests' = requests /\ replies' \subseteq replies
  BY DEF ExitNow, State, Die, Launch
<1>2. ServerInv' /\ WireInv'
  BY <1>1, ServerQuiet DEF LocalInv, WireInv
<1>3. 0 \in 0..UIntMax /\ 0 \in 0..MaxTrial + 1 /\ <<>> \in Seq(Letters \cup {Hidden})
  BY SessionAssumption, ServerAssumption
<1>4. ShapeInv'
  <2>1. CASE ExitNow
    BY <2>1 DEF LocalInv, ShapeInv, ExitNow, board
  <2>4. CASE Die
    BY <2>4 DEF LocalInv, ShapeInv, Die, board
  <2>2. CASE State
    BY <1>3, <2>2 DEF LocalInv, ShapeInv, State, endGame_player
  <2>3. CASE Launch
    BY <1>3, <2>3 DEF LocalInv, ShapeInv, Launch, Results
  <2> QED
    BY <2>1, <2>2, <2>3, <2>4
<1>5. CommandInv'
  BY DEF LocalInv, CommandInv, ExitNow, State, Die, Launch, board, Idle
<1> QED
  BY <1>2, <1>4, <1>5 DEF LocalInv

LEMMA LocalInterrupt == LocalInv /\ Interrupt /\ UNCHANGED network => LocalInv'
<1> SUFFICES ASSUME LocalInv, Interrupt, UNCHANGED network PROVE LocalInv'
  OBVIOUS
<1>1. UNCHANGED board
  BY DEF Interrupt
<1>2. CASE /\ running' = FALSE
           /\ UNCHANGED <<server, leaving, command, out, waiting, result,
                          requests, replies>>
  <2>1. ServerInv' /\ WireInv'
    BY <1>2, ServerQuiet DEF LocalInv, WireInv
  <2>2. ShapeInv' /\ CommandInv'
    BY <1>1, <1>2 DEF LocalInv, ShapeInv, CommandInv, board
  <2> QED
    BY <2>1, <2>2 DEF LocalInv
<1>3. CASE in_game /\ leaving' = TRUE /\ send("exit", QuitMessage)
  <2>1. QuitMessage \in Requests /\ QuitMessage.cmd = "QUT"
    BY DEF Requests, QuitMessage
  <2>2. ServerInv' /\ WireInv' /\ out' \in Requests
    BY <1>3, <2>1, SendTypes
  <2>3. ShapeInv' /\ CommandInv'
    BY <1>1, <1>3, <2>1, <2>2 DEF LocalInv, ShapeInv, CommandInv, board, send
  <2> QED
    BY <2>2, <2>3 DEF LocalInv
<1> QED
  BY <1>2, <1>3 DEF Interrupt

LEMMA LocalTimeout == LocalInv /\ (Timeout \/ Lose) /\ UNCHANGED network => LocalInv'
<1> SUFFICES ASSUME LocalInv, Timeout \/ Lose, UNCHANGED network PROVE LocalInv'
  OBVIOUS
<1>1. UNCHANGED server /\ requests' \subseteq requests /\ replies' \subseteq replies
  BY DEF Timeout, Lose
<1>2. ServerInv' /\ WireInv'
  BY <1>1, ServerQuiet DEF LocalInv, WireInv
<1>3. CASE Timeout
  <2>1. ShapeInv' /\ CommandInv'
    BY <1>3 DEF LocalInv, ShapeInv, CommandInv, Timeout, board, Results
  <2> QED
    BY <1>2, <2>1 DEF LocalInv
<1>4. CASE Lose
  <2>1. ShapeInv' /\ CommandInv'
    BY <1>4 DEF LocalInv, ShapeInv, CommandInv, Lose, board, player
  <2> QED
    BY <1>2, <2>1 DEF LocalInv
<1> QED
  BY <1>3, <1>4

(* The callbacks keep the board a board: a trial that waits for its answer *)
(* is not numbered 0.                                                      *)
LEMMA LocalReceive == LocalInv /\ Receive /\ UNCHANGED network => LocalInv'
<1> SUFFICES ASSUME LocalInv, Receive, UNCHANGED network PROVE LocalInv'
  OBVIOUS
<1>1. PICK msg \in replies :
        /\ replies' \in afterDelivery(replies, msg)
        /\ \/ /\ understood(out, msg) /\ callback(msg)
              /\ result' = "SUCCESS"
              /\ running' = (~leaving /\ command # "exit")
           \/ /\ result' = "EDESERIALIZE" /\ running' = ~leaving
              /\ UNCHANGED board
  BY DEF Receive
<1>2. /\ running /\ waiting /\ waiting' = FALSE
      /\ UNCHANGED <<server, leaving, command, out, requests, network>>
  BY DEF Receive
<1>3. replies' \subseteq replies
  BY <1>1 DEF afterDelivery
<1>4. ServerInv' /\ WireInv'
  BY <1>2, <1>3, ServerQuiet DEF LocalInv, WireInv
<1>5. CommandInv'
  BY <1>1, <1>2 DEF LocalInv, CommandInv, ShapeInv
<1>6. /\ running' \in BOOLEAN /\ leaving' \in BOOLEAN /\ waiting' \in BOOLEAN
      /\ result' \in Results /\ network' \in Networks
  BY <1>1, <1>2 DEF LocalInv, ShapeInv, Results
<1> SUFFICES ShapeInv'
  BY <1>4, <1>5 DEF LocalInv
<1>7. CASE UNCHANGED board
  BY <1>6, <1>7 DEF LocalInv, ShapeInv, board
<1>8. /\ in_game \in BOOLEAN /\ known \in BOOLEAN /\ (in_game => known)
      /\ mask \in Seq(Letters \cup {Hidden})
      /\ remaining_errors \in 0..UIntMax /\ trial \in 0..MaxTrial + 1
      /\ UIntMax \in Nat /\ MaxTrial \in Nat /\ UIntMax > MaxTrial + 1
  BY SessionAssumption, ServerAssumption DEF LocalInv, ShapeInv
<1>9. CASE command = "start" /\ understood(out, msg) /\ startCallback(msg)
  <2>1. CASE msg.status # "OK"
    BY <1>7, <1>9, <2>1 DEF startCallback
  <2>2. CASE msg.status = "OK"
    <3>1. msg.cmd = "RSG"
      BY <1>2, <1>9 DEF LocalInv, CommandInv, understood, response
    <3>2. msg.n_letters \in Nat /\ msg.max_errors \in 0..MaxTrial
      BY <2>2, <3>1 DEF LocalInv, WireInv
    <3>3. [i \in 1..msg.n_letters |-> Hidden] \in Seq(Letters \cup {Hidden})
      BY <3>2
    <3>4. msg.max_errors \in 0..UIntMax /\ 0 \in 0..MaxTrial + 1
      BY <1>8, <3>2
    <3> QED
      BY <1>6, <1>9, <2>2, <3>3, <3>4 DEF startCallback, ShapeInv
  <2> QED
    BY <2>1, <2>2
<1>10. CASE command \in {"play", "guess"} /\ understood(out, msg) /\ trialCallback(msg)
  <2>1. trial \in 1..MaxTrial + 1 /\ isTrial(out)
    BY <1>2, <1>10, RequestFields DEF LocalInv, CommandInv, isTrial
  <2>2. minusOne(trial) \in 0..MaxTrial + 1 /\ minusOne(remaining_errors) \in 0..UIntMax
    BY <1>8, <2>1 DEF minusOne
  <2>3. msg.status = "INV" => msg.trial \in 0..MaxTrial + 1
    <3>1. msg.cmd = response[out.cmd] /\ response["PLG"] = "RLG" /\ response["PWG"] = "RWG"
      BY <1>10 DEF understood, response
    <3>2. deserializeRLG(msg) \/ deserializeRWG(msg)
      BY <1>10, <2>1, <3>1 DEF understood, isTrial, statusEnum
    <3>3. msg.status = "INV" => twoDigits(msg.trial)
      BY <3>2 DEF deserializeRLG, deserializeRWG
    <3> QED
      BY <1>8, <3>3 DEF twoDigits
  <2>4. <<>> \in Seq(Letters \cup {Hidden})
    OBVIOUS
  <2>5. /\ in_game' \in BOOLEAN /\ known' = known /\ (in_game' => known')
        /\ mask' = <<>> \/ mask' = mask
        /\ remaining_errors' \in 0..UIntMax /\ trial' \in 0..MaxTrial + 1
    <3>1. CASE /\ endGame_player /\ UNCHANGED <<known, remaining_errors, trial>>
      BY <1>8, <3>1 DEF endGame_player
    <3>2. CASE /\ remaining_errors' = minusOne(remaining_errors)
               /\ UNCHANGED <<in_game, known, mask, trial>>
      BY <1>8, <2>2, <3>2
    <3>3. CASE /\ trial' = minusOne(trial)
               /\ UNCHANGED <<in_game, known, mask, remaining_errors>>
      BY <1>8, <2>2, <3>3
    <3>4. CASE /\ msg.status = "INV" /\ trial' = msg.trial
               /\ UNCHANGED <<in_game, known, mask, remaining_errors>>
      BY <1>8, <2>3, <3>4
    <3> QED
      BY <1>10, <3>1, <3>2, <3>3, <3>4 DEF trialCallback
  <2> QED
    BY <1>6, <1>8, <2>4, <2>5 DEF ShapeInv
<1>11. CASE command = "play" /\ understood(out, msg) /\ playCallback(msg)
  <2>1. CASE msg.status = "OK"
    <3>1. out.guess \in Letters
      BY <1>2, <1>11, RequestFields DEF LocalInv, CommandInv
    <3>2. [i \in DOMAIN mask |-> IF i \in msg.pos THEN out.guess ELSE mask[i]]
            \in Seq(Letters \cup {Hidden})
      BY <1>8, <3>1
    <3> QED
      BY <1>6, <1>8, <1>11, <2>1, <3>2 DEF playCallback, ShapeInv
  <2>2. CASE msg.status # "OK"
    BY <1>10, <1>11, <2>2 DEF playCallback
  <2> QED
    BY <2>1, <2>2
<1>12. CASE quitCallback(msg) \/ exitCallback
  <2>1. <<>> \in Seq(Letters \cup {Hidden})
    OBVIOUS
  <2> QED
    BY <1>6, <1>7, <1>8, <1>12, <2>1 DEF quitCallback, exitCallback, endGame_player, ShapeInv
<1> QED
  BY <1>1, <1>7, <1>9, <1>10, <1>11, <1>12 DEF callback

LEMMA LocalServe == LocalInv /\ Serve /\ UNCHANGED network => LocalInv'
<1> SUFFICES ASSUME LocalInv, Serve, UNCHANGED network PROVE LocalInv'
  OBVIOUS
<1>1. PICK msg \in requests :
        /\ serve(msg) /\ requests' \in afterDelivery(requests, msg)
        /\ \E answer \in answers(msg) : replies' = replies \cup answer
  BY DEF Serve
<1>2. msg \in Requests /\ UNCHANGED player
  BY DEF LocalInv, WireInv, Serve
<1>3. ServerInv'
  BY <1>1, <1>2, ServerServes DEF LocalInv
<1>4. ShapeInv' /\ CommandInv'
  BY <1>2 DEF LocalInv, ShapeInv, CommandInv, player, board
<1>5. requests' \subseteq requests
  BY <1>1 DEF afterDelivery
<1>6. \A r \in replies' : r \in replies \/ (r = reply' /\ reply' # Silence) \/ r = refusal(msg)
  BY <1>1 DEF answers
<1>7. refusal(msg).status = "ERR"
  BY DEF refusal
<1>8. ASSUME reply' # Silence, reply'.cmd = "RSG", reply'.status = "OK"
      PROVE  reply'.n_letters \in Nat /\ reply'.max_errors \in 0..MaxTrial
  <2>1. msg.cmd = "SNG"
    BY <1>1, <1>2, <1>8, Served, RequestFields DEF LocalInv, response
  <2>2. startsGame
    BY <1>1, <1>2, <2>1, Served DEF LocalInv, isTrial
  <2>3. theGame' # NoGame /\ reply' = RSG_OK(theGame')
    BY <1>8, <2>2 DEF startsGame, says
  <2>4. GoodGame(theGame') /\ listed(theGame'.word)
    BY <1>3, <2>3, SessionAssumption DEF ServerInv, IInv, GamesInv, ListedInv, theGame
  <2>5. /\ Len(theGame'.word) \in Nat /\ theGame'.maxErrors \in Nat
        /\ theGame'.maxErrors = calculateMaxErrors(theGame'.word)
    BY <2>4, RulesAssumption DEF GoodGame, Games, Counted
  <2>6. PICK i \in DOMAIN WordList : WordList[i] = theGame'.word
    BY <2>4 DEF listed
  <2>7. Len(theGame'.word) + theGame'.maxErrors <= MaxTrial
    BY <2>5, <2>6, MessagesAssumption
  <2>8. theGame'.maxErrors \in 0..MaxTrial
    BY <2>5, <2>7, ServerAssumption
  <2>9. /\ reply'.n_letters = Len(theGame'.word)
        /\ reply'.max_errors = theGame'.maxErrors
    BY <2>3 DEF RSG_OK
  <2> QED
    BY <2>5, <2>8, <2>9
<1>9. WireInv'
  BY <1>5, <1>6, <1>7, <1>8 DEF LocalInv, WireInv
<1> QED
  BY <1>3, <1>4, <1>9 DEF LocalInv

LEMMA LocalRestart == LocalInv /\ RestartServer /\ UNCHANGED network => LocalInv'
<1> SUFFICES ASSUME LocalInv, RestartServer, UNCHANGED network PROVE LocalInv'
  OBVIOUS
<1>1. ServerInv'
  BY ServerRestarts DEF LocalInv, RestartServer
<1>2. ShapeInv' /\ CommandInv' /\ WireInv'
  BY DEF LocalInv, ShapeInv, CommandInv, WireInv, RestartServer, player, board
<1> QED
  BY <1>1, <1>2 DEF LocalInv

LEMMA LocalAbort == LocalInv /\ Abort /\ UNCHANGED network => LocalInv'
<1> SUFFICES ASSUME LocalInv, Abort, UNCHANGED network PROVE LocalInv'
  OBVIOUS
<1>1. ServerInv'
  BY ServerAborts DEF LocalInv
<1>2. ShapeInv' /\ CommandInv' /\ WireInv'
  BY DEF LocalInv, ShapeInv, CommandInv, WireInv, Abort, player, board
<1> QED
  BY <1>1, <1>2 DEF LocalInv

LEMMA LocalStutter == LocalInv /\ UNCHANGED sessionVars => LocalInv'
<1> SUFFICES ASSUME LocalInv, UNCHANGED sessionVars PROVE LocalInv'
  OBVIOUS
<1>1. UNCHANGED <<server, player, requests, replies, network>>
  BY DEF sessionVars, vars, server, store
<1>2. ServerInv'
  BY <1>1, ServerQuiet DEF LocalInv
<1>3. ShapeInv' /\ CommandInv' /\ WireInv'
  BY <1>1 DEF LocalInv, ShapeInv, CommandInv, WireInv, player, board
<1> QED
  BY <1>2, <1>3 DEF LocalInv

LEMMA LocalStep == LocalInv /\ [SessionNext]_sessionVars => LocalInv'
BY LocalStart, LocalTrial, LocalQuit, LocalEnd, LocalInterrupt, LocalTimeout,
   LocalReceive, LocalServe, LocalAbort, LocalRestart, LocalStutter DEF SessionNext, PlayerStep

(* On every network, also one that delivers datagrams twice and out of     *)
(* order, the player's copy of the game keeps its types, and its trial     *)
(* number neither wraps around below zero nor outgrows the protocol.       *)
THEOREM PlayerTypeCorrect == SessionSpec => []PlayerTypeOK
<1>1. LocalInv => PlayerTypeOK
  BY RequestFields DEF LocalInv, ShapeInv, CommandInv, PlayerTypeOK
<1> QED
  BY <1>1, LocalInit, LocalStep, PTL DEF SessionSpec

-----------------------------------------------------------------------------
(* Nothing but losses, and errors of sendto: the player does not fall      *)
(* behind.                                                                 *)

orderly == network # "disorderly"

LossInv == orderly => FlightInv /\ CountInv /\ AnswerInv /\ LivesInv

LEMMA GameTypes ==
    ASSUME ServerInv
    PROVE  /\ theGame # NoGame => GoodGame(theGame) /\ theGame \in Games
           /\ theGame # NoGame => numTrials(theGame) \in Nat /\ numTrials(theGame) < MaxTrial
           /\ slack \in {0, 1} /\ (slack = 1 <=> network = "failing")
<1>1. theGame # NoGame => GoodGame(theGame) /\ listed(theGame.word)
  BY SessionAssumption DEF ServerInv, IInv, GamesInv, ListedInv, theGame
<1> QED
  BY <1>1, GameFits DEF GoodGame, slack

LEMMA LossInit == SessionInit => LossInv
<1> SUFFICES ASSUME SessionInit PROVE LossInv
  OBVIOUS
<1>1. theGame = NoGame /\ up /\ requests = {} /\ replies = {} /\ ~in_game
  BY SessionAssumption DEF SessionInit, Init, PlayerInit, theGame
<1> QED
  BY <1>1 DEF LossInv, FlightInv, CountInv, AnswerInv, LivesInv, alone, ahead, truthful

(* At the prompt nothing is in flight, and one request is sent.            *)
LEMMA SendFlight ==
    ASSUME LocalInv, FlightInv, Idle, NEW cmd, NEW msg \in Requests, send(cmd, msg),
           UNCHANGED <<in_game, leaving>>, msg.cmd = "SNG" => ~in_game
    PROVE  attentive /\ FlightInv' /\ AnswerInv' /\ requests' = {msg} /\ replies' = {}
<1>1. attentive /\ requests = {} /\ replies = {}
  BY DEF LocalInv, CommandInv, FlightInv, Idle, attentive
<1>2. requests' = {msg} /\ out' = msg /\ replies' = {} /\ waiting' /\ running' = running
  BY <1>1 DEF send
<1> QED
  BY <1>1, <1>2 DEF FlightInv, AnswerInv, alone, attentive

LEMMA LossSend ==
    ASSUME LocalInv, orderly, LossInv, UNCHANGED network,
           \/ Start \/ Quit("quit") \/ Quit("exit") \/ Reveal
           \/ \E letter \in parsePLGArgs : Play(letter)
           \/ \E w \in parsePWGArgs : Guess(w)
    PROVE  LossInv'
<1>1. FlightInv /\ CountInv /\ LivesInv
  BY DEF LossInv
<1>2. /\ ServerInv /\ theGame' = theGame /\ slack' = slack /\ LivesInv'
      /\ trial \in Nat
  BY <1>1, ServerAssumption DEF LocalInv, ShapeInv, LivesInv, theGame, slack, Start,
           Quit, Reveal, Play, Guess, send, server, store
<1>3. \A n : ahead(n)' <=> ahead(n)
  BY <1>2 DEF ahead
<1>4. CASE Start
  <2> DEFINE msg == [cmd |-> "SNG", PLID |-> Me]
  <2>1. msg \in Requests /\ msg.cmd = "SNG" /\ ~isTrial(msg)
    BY DEF Requests, isTrial
  <2>2. FlightInv' /\ AnswerInv' /\ requests' = {msg} /\ ~in_game'
    BY <1>1, <1>4, <2>1, SendFlight DEF Start, board
  <2> HIDE DEF msg
  <2>3. CountInv'
    BY <2>1, <2>2 DEF CountInv
  <2> QED
    BY <1>2, <2>2, <2>3 DEF LossInv
<1>5. CASE Quit("quit") \/ Quit("exit") \/ Reveal
  <2>1. PICK cmd \in {"quit", "exit", "reveal"}, msg \in Requests :
          send(cmd, msg) /\ msg.cmd \in {"QUT", "REV"}
    BY <1>5 DEF Quit, Reveal, QuitMessage, Requests
  <2>2. Idle /\ in_game /\ UNCHANGED <<board, leaving>>
    BY <1>5 DEF Quit, Reveal
  <2>3. attentive /\ FlightInv' /\ AnswerInv' /\ requests' = {msg}
    BY <1>1, <2>1, <2>2, SendFlight DEF board
  <2>4. ahead(trial) /\ ~isTrial(msg) /\ trial' = trial
    BY <1>1, <2>1, <2>2, <2>3 DEF CountInv, isTrial, board
  <2>5. CountInv'
    BY <1>3, <2>3, <2>4 DEF CountInv
  <2> QED
    BY <1>2, <2>3, <2>5 DEF LossInv
<1>6. CASE \/ \E letter \in parsePLGArgs : Play(letter)
           \/ \E w \in parsePWGArgs : Guess(w)
  <2>1. CountBound /\ trial' = trial + 1 /\ trial' \in 1..MaxTrial + 1
    BY <1>6, NextTrial DEF Play, Guess, LocalInv
  <2>2. PICK cmd \in {"play", "guess"}, msg \in Requests :
          send(cmd, msg) /\ msg.trial = trial' /\ msg.cmd # "SNG"
    <3>1. ASSUME NEW letter \in parsePLGArgs, Play(letter)
          PROVE  \E cmd \in {"play", "guess"}, msg \in Requests :
                   send(cmd, msg) /\ msg.trial = trial' /\ msg.cmd # "SNG"
      <4> DEFINE msg == [cmd |-> "PLG", PLID |-> Me, guess |-> letter, trial |-> trial']
      <4>1. msg \in Requests
        BY <2>1 DEF Requests, parsePLGArgs
      <4> QED
        BY <3>1, <4>1 DEF Play
    <3>2. ASSUME NEW w \in parsePWGArgs, Guess(w)
          PROVE  \E cmd \in {"play", "guess"}, msg \in Requests :
                   send(cmd, msg) /\ msg.trial = trial' /\ msg.cmd # "SNG"
      <4> DEFINE msg == [cmd |-> "PWG", PLID |-> Me, guess |-> w, trial |-> trial']
      <4>1. msg \in Requests
        BY <2>1 DEF Requests
      <4> QED
        BY <3>2, <4>1 DEF Guess
    <3> QED
      BY <1>6, <3>1, <3>2
  <2>3. Idle /\ in_game /\ UNCHANGED <<in_game, leaving>>
    BY <1>6 DEF Play, Guess
  <2>4. attentive /\ FlightInv' /\ AnswerInv' /\ requests' = {msg}
    BY <1>1, <2>2, <2>3, SendFlight
  <2>5. ahead(trial)
    BY <1>1, <2>3, <2>4 DEF CountInv
  <2>6. msg.trial - 1 = trial
    BY <1>2, <2>1, <2>2
  <2>7. ahead(trial)'
    <3>1. ahead(trial + 1)
      BY <1>2, <2>5, GameTypes DEF ahead
    <3> QED
      BY <1>2, <2>1, <3>1 DEF ahead
  <2>8. ahead(msg.trial - 1)'
    BY <1>3, <2>5, <2>6
  <2>9. CountInv'
    BY <2>4, <2>7, <2>8 DEF CountInv
  <2> QED
    BY <1>2, <2>4, <2>9 DEF LossInv
<1> QED
  BY <1>4, <1>5, <1>6

(* Steps of the player that send nothing, and losses.                      *)
LEMMA LossQuiet ==
    ASSUME LocalInv, orderly, LossInv, UNCHANGED network,
           ExitNow \/ State \/ Die \/ Launch \/ Interrupt \/ Timeout \/ Lose
    PROVE  LossInv'
<1>1. FlightInv /\ CountInv /\ AnswerInv /\ LivesInv
  BY DEF LossInv
<1>2. UNCHANGED server
  BY DEF ExitNow, State, Die, Launch, Interrupt, send, Timeout, Lose
<1>3. theGame' = theGame /\ slack' = slack /\ LivesInv'
  BY <1>1, <1>2 DEF LivesInv, theGame, slack, server, store
<1>4. \A n : ahead(n)' <=> ahead(n)
  BY <1>3 DEF ahead
<1>5. CASE ExitNow \/ Die
  <2>1. requests' = requests /\ running' = FALSE
    BY <1>5 DEF ExitNow, Die
  <2>2. FlightInv' /\ AnswerInv' /\ CountInv'
    BY <1>1, <1>4, <2>1 DEF FlightInv, AnswerInv, CountInv, alone, attentive, listening
  <2> QED
    BY <1>3, <2>2 DEF LossInv
<1>6. CASE State
  <2>1. /\ requests' = requests /\ replies' = replies /\ out' = out
        /\ running' = running /\ leaving' = leaving /\ ~waiting /\ waiting' = waiting
        /\ in_game' = FALSE
    BY <1>6 DEF State, Idle, endGame_player
  <2>2. FlightInv' /\ AnswerInv' /\ CountInv'
    BY <1>1, <1>4, <2>1 DEF FlightInv, AnswerInv, CountInv, alone, attentive, listening
  <2> QED
    BY <1>3, <2>2 DEF LossInv
<1>7. CASE Launch
  <2>1. requests' = {} /\ replies' = {} /\ in_game' = FALSE
    BY <1>7 DEF Launch
  <2>2. FlightInv' /\ AnswerInv' /\ CountInv'
    BY <2>1 DEF FlightInv, AnswerInv, CountInv, alone
  <2> QED
    BY <1>3, <2>2 DEF LossInv
<1>8. CASE Interrupt
  <2>1. CASE requests' = requests /\ running' = FALSE
    <3>1. FlightInv' /\ AnswerInv' /\ CountInv'
      BY <1>1, <1>4, <2>1 DEF FlightInv, AnswerInv, CountInv, alone, attentive, listening
    <3> QED
      BY <1>3, <3>1 DEF LossInv
  <2>2. CASE running /\ in_game /\ leaving' = TRUE /\ send("exit", QuitMessage)
    <3>1. /\ requests' = requests \cup {QuitMessage}
          /\ QuitMessage.cmd = "QUT" /\ ~isTrial(QuitMessage)
      BY <2>2 DEF send, QuitMessage, isTrial
    <3>2. alone' /\ \A m \in requests' : m.cmd # "SNG"
      BY <1>1, <2>2, <3>1 DEF FlightInv, alone
    <3>3. FlightInv' /\ AnswerInv'
      BY <2>2, <3>2 DEF FlightInv, AnswerInv, attentive, listening
    <3>4. CountInv'
      BY <1>1, <1>4, <2>2, <3>1 DEF CountInv, attentive
    <3> QED
      BY <1>3, <3>3, <3>4 DEF LossInv
  <2> QED
    BY <1>8, <2>1, <2>2 DEF Interrupt
<1>9. CASE Timeout
  <2>1. /\ requests = {} /\ replies = {} /\ requests' = {} /\ replies' = {}
        /\ waiting' = FALSE /\ running /\ running' = ~leaving /\ leaving' = leaving
        /\ UNCHANGED board
    BY <1>9 DEF Timeout, orderly
  <2>2. FlightInv' /\ AnswerInv'
    BY <2>1 DEF FlightInv, AnswerInv, alone
  <2>3. CountInv'
    BY <1>1, <1>3, <2>1 DEF CountInv, attentive, board, ahead
  <2> QED
    BY <1>3, <2>2, <2>3 DEF LossInv
<1>10. CASE Lose
  <2>1. /\ requests' \subseteq requests /\ replies' \subseteq replies
        /\ requests' = requests \/ replies' = replies
        /\ UNCHANGED player
    BY <1>10 DEF Lose
  <2>2. /\ out' = out /\ command' = command /\ running' = running /\ leaving' = leaving
        /\ waiting' = waiting /\ in_game' = in_game /\ trial' = trial
    BY <2>1 DEF player, board
  <2>3. FlightInv'
    BY <1>1, <2>1, <2>2 DEF FlightInv, alone, attentive
  <2>4. CountInv'
    BY <1>1, <1>3, <2>1, <2>2 DEF CountInv, attentive, ahead
  <2>5. \A msg : truthful(msg)' <=> truthful(msg)
    BY <1>3, <2>2 DEF truthful, ahead
  <2>6. AnswerInv'
    BY <1>1, <2>1, <2>2, <2>5 DEF AnswerInv, listening, attentive, understood
  <2> QED
    BY <1>3, <2>3, <2>4, <2>6 DEF LossInv
<1> QED
  BY <1>5, <1>6, <1>7, <1>8, <1>9, <1>10

(* The answer is taken for what it says: the trial number is corrected to  *)
(* one that is not behind.                                                 *)
LEMMA LossReceive ==
    ASSUME LocalInv, orderly, LossInv, UNCHANGED network, Receive
    PROVE  LossInv'
<1>1. FlightInv /\ CountInv /\ AnswerInv /\ LivesInv
  BY DEF LossInv
<1>2. PICK msg \in replies :
        /\ replies' = replies \ {msg}
        /\ \/ /\ understood(out, msg) /\ callback(msg)
              /\ running' = (~leaving /\ command # "exit")
           \/ running' = ~leaving /\ UNCHANGED board
  BY DEF Receive, afterDelivery, orderly
<1>3. /\ running /\ waiting /\ waiting' = FALSE
      /\ UNCHANGED <<server, leaving, command, out, requests, network>>
  BY DEF Receive
<1>4. theGame' = theGame /\ slack' = slack /\ LivesInv'
  BY <1>1, <1>3 DEF LivesInv, theGame, slack, server, store
<1>5. \A n : ahead(n)' <=> ahead(n)
  BY <1>4 DEF ahead
<1>6. AnswerInv'
  BY <1>3 DEF AnswerInv, listening
<1>7. CASE leaving
  <2>1. running' = FALSE
    BY <1>2, <1>7
  <2>2. FlightInv' /\ CountInv'
    BY <1>1, <1>3, <1>5, <2>1 DEF FlightInv, CountInv, alone, attentive
  <2> QED
    BY <1>4, <1>6, <2>2 DEF LossInv
<1>8. CASE ~leaving
  <2>1. attentive /\ listening
    BY <1>3, <1>8 DEF attentive, listening
  <2>2. requests = {} /\ replies' = {} /\ requests' = {}
    BY <1>1, <1>2, <1>3, <2>1 DEF FlightInv
  <2>3. FlightInv'
    BY <2>2 DEF FlightInv, alone
  <2>4. in_game => ahead(trial)
    BY <1>1, <2>1 DEF CountInv
  <2>5. understood(out, msg) => truthful(msg)
    BY <1>1, <2>1 DEF AnswerInv
  <2>6. trial \in Nat /\ (command \in {"play", "guess"} => trial # 0 /\ isTrial(out))
        /\ (command = "start" => out.cmd = "SNG") /\ (command # "start" => in_game)
    <3>1. trial \in Nat
      BY ServerAssumption DEF LocalInv, ShapeInv
    <3> QED
      BY <1>3, <3>1, RequestFields, ServerAssumption DEF LocalInv, CommandInv, isTrial
  <2>7. in_game' => ahead(trial)'
    <3>1. CASE UNCHANGED board
      BY <1>4, <2>4, <3>1 DEF board, ahead
    <3>2. CASE command = "start" /\ understood(out, msg) /\ startCallback(msg)
      <4>1. CASE msg.status = "OK"
        <5>1. trial' = 0 /\ numTrials(theGame) = 0 /\ slack \in {0, 1}
          BY <2>5, <2>6, <3>2, <4>1, GameTypes DEF startCallback, truthful, LocalInv
        <5> QED
          BY <1>4, <5>1 DEF ahead
      <4> QED
        BY <3>1, <3>2, <4>1 DEF startCallback
    <3>3. CASE /\ command \in {"play", "guess"} /\ understood(out, msg)
               /\ trialCallback(msg)
      <4>1. truthful(msg) /\ isTrial(out) /\ in_game
        BY <2>5, <2>6, <3>3
      <4>2. CASE in_game' = FALSE
        BY <4>2
      <4>3. CASE trial' = trial
        BY <1>4, <2>4, <4>1, <4>3 DEF ahead
      <4>4. CASE msg.status \in {"DUP", "ERR"} /\ trial' = minusOne(trial)
        <5>1. ahead(trial - 1) /\ trial' = trial - 1
          BY <2>6, <3>3, <4>1, <4>4 DEF truthful, minusOne
        <5> QED
          BY <1>4, <5>1 DEF ahead
      <4>5. CASE msg.status = "INV" /\ trial' = msg.trial
        <5>1. ahead(msg.trial)
          BY <4>1, <4>5 DEF truthful
        <5> QED
          BY <1>4, <4>5, <5>1 DEF ahead
      <4> QED
        BY <3>3, <4>2, <4>3, <4>4, <4>5 DEF trialCallback, endGame_player
    <3>4. CASE command = "play" /\ understood(out, msg) /\ playCallback(msg)
      <4>1. CASE trial' = trial
        BY <1>4, <2>4, <2>6, <3>4, <4>1 DEF ahead
      <4> QED
        BY <3>3, <3>4, <4>1 DEF playCallback
    <3>5. CASE quitCallback(msg) \/ exitCallback
      BY <3>1, <3>5 DEF quitCallback, exitCallback, endGame_player
    <3> QED
      BY <1>2, <3>1, <3>2, <3>3, <3>4, <3>5 DEF callback
  <2>8. CountInv'
    BY <2>2, <2>7 DEF CountInv
  <2> QED
    BY <1>4, <1>6, <2>3, <2>8 DEF LossInv
<1> QED
  BY <1>7, <1>8

(* What the server says of the trial it was sent by a player that is not   *)
(* behind: whatever it answers, or ERR instead of it, is no reason for the *)
(* player to fall behind.                                                  *)
LEMMA TrialAnswered ==
    ASSUME ServerInv, ServerInv', UNCHANGED network, NEW msg \in Requests, isTrial(msg),
           ahead(msg.trial - 1),
           \/ trialServed(msg)
           \/ theGame' = theGame /\ says("ERR")
    PROVE  /\ ahead(msg.trial)'
           /\ reply' # Silence =>
                /\ reply'.status \in {"WIN", "OVR"} => theGame' = NoGame
                /\ reply'.status = "INV" => ahead(reply.trial)'
                /\ reply'.status \in {"DUP", "ERR"} => ahead(msg.trial - 1)'
           /\ network = "failing" => ahead(msg.trial - 1)'
<1> DEFINE n == numTrials(theGame)
           t == msg.trial
<1>1. /\ slack' = slack /\ slack \in {0, 1} /\ (slack = 1 <=> network = "failing")
      /\ theGame # NoGame => n \in Nat
  BY GameTypes DEF slack
<1>2. t \in Nat /\ t # 0
  BY RequestFields, ServerAssumption
<1>3. theGame # NoGame => t - 1 + slack >= n
  BY DEF ahead
<1>4. \A k : ahead(k)' <=> (theGame' # NoGame => k + slack >= numTrials(theGame'))
  BY <1>1 DEF ahead
<1>5. CASE theGame' = NoGame
  <2>1. \A k : ahead(k)'
    BY <1>4, <1>5
  <2>2. ahead(reply.trial)'
    BY <1>5 DEF ahead
  <2> QED
    BY <1>5, <2>1, <2>2
<1>6. CASE theGame' # NoGame /\ theGame' = theGame
  <2>1. ahead(t)' /\ ahead(t - 1)'
    <3> HIDE DEF t
    <3> QED
      BY <1>1, <1>2, <1>3, <1>4, <1>6
  <2>2. reply' # Silence =>
          /\ reply'.status \notin {"WIN", "OVR"}
          /\ reply'.status = "INV" => reply'.trial = n
    BY <1>2, <1>6 DEF trialServed, repeatsTrial, says
  <2>3. reply' # Silence /\ reply'.status = "INV" => ahead(reply.trial)'
    BY <1>1, <1>6, <2>2 DEF ahead
  <2> QED
    BY <2>1, <2>2, <2>3
<1>7. CASE theGame' # NoGame /\ theGame' # theGame
  <2>1. theGame # NoGame /\ t = n + 1 /\ numTrials(theGame') = t /\ playsOn(msg)
    BY <1>7 DEF trialServed
  <2>2. reply'.status \in {"NOK", "OK"}
    BY <2>1 DEF playsOn, says
  <2>3. ahead(t)' /\ (network = "failing" => ahead(t - 1)')
    <3> HIDE DEF t
    <3> QED
      BY <1>1, <1>2, <1>4, <2>1
  <2> QED
    BY <2>2, <2>3
<1> QED
  BY <1>5, <1>6, <1>7

(* A player that has its last request served had no other in flight, and   *)
(* gets the reply, ERR instead of it, or nothing.                          *)
LEMMA AnswerSent ==
    ASSUME LocalInv, FlightInv, attentive, NEW msg \in requests,
           requests' = requests \ {msg},
           \E answer \in answers(msg) : replies' = replies \cup answer
    PROVE  /\ msg = out /\ requests' = {} /\ waiting /\ replies = {}
           /\ \A r \in replies' : \/ r = reply' /\ reply' # Silence
                                  \/ r = refusal(msg) /\ network = "failing"
           /\ \A r, s \in replies' : r = s
           /\ network # "failing" /\ reply' # Silence => replies' = {reply'}
<1>1. msg = out /\ requests' = {} /\ waiting /\ replies = {}
  BY DEF FlightInv, LocalInv, ShapeInv
<1>2. PICK answer \in answers(msg) : replies' = answer
  BY <1>1
<1>3. \/ answer = {} /\ (network = "failing" \/ reply' = Silence)
      \/ answer = {reply'} /\ reply' # Silence
      \/ answer = {refusal(msg)} /\ network = "failing"
  BY <1>2 DEF answers
<1> QED
  BY <1>1, <1>2, <1>3

LEMMA LossServe ==
    ASSUME LocalInv, LocalInv', orderly, LossInv, UNCHANGED network, Serve
    PROVE  LossInv'
<1>1. FlightInv /\ CountInv /\ AnswerInv /\ LivesInv /\ ServerInv /\ ServerInv'
  BY DEF LossInv, LocalInv
<1>2. PICK msg \in requests :
        /\ serve(msg) /\ requests' = requests \ {msg}
        /\ \E answer \in answers(msg) : replies' = replies \cup answer
  BY DEF Serve, afterDelivery, orderly
<1>3. msg \in Requests /\ UNCHANGED player
  BY DEF LocalInv, WireInv, Serve
<1>4. /\ out' = out /\ command' = command /\ running' = running /\ leaving' = leaving
      /\ waiting' = waiting /\ in_game' = in_game /\ trial' = trial
  BY <1>3 DEF player, board
<1>5. /\ isTrial(msg) => trialServed(msg) \/ (theGame' = theGame /\ says("ERR"))
      /\ msg.cmd = "SNG" => startsGame
      /\ msg.cmd = "QUT" => theGame' = NoGame
      /\ msg.cmd = "REV" => theGame' = theGame
      /\ reply' # Silence => up' = up
      /\ reply' = Silence =>
           isTrial(msg) /\ theGame # NoGame /\ msg.trial = numTrials(theGame)
  BY <1>1, <1>2, <1>3, Served DEF isTrial
<1>6. isTrial(msg) => ahead(msg.trial - 1)
  BY <1>1, <1>2 DEF CountInv
<1>7. LivesInv'
  <2>1. CASE reply' # Silence
    BY <1>1, <1>5, <2>1 DEF LivesInv
  <2>2. CASE reply' = Silence
    <3>1. /\ msg.trial - 1 + slack >= msg.trial /\ msg.trial \in Nat
          /\ slack \in {0, 1} /\ (slack = 1 <=> network = "failing")
      BY <1>1, <1>3, <1>5, <1>6, <2>2, GameTypes, RequestFields, ServerAssumption DEF ahead
    <3>2. network = "failing"
      BY <3>1
    <3> QED
      BY <3>2 DEF LivesInv
  <2> QED
    BY <2>1, <2>2
<1>8. attentive =>
        /\ msg = out /\ requests' = {} /\ waiting /\ replies = {}
        /\ \A r \in replies' : \/ r = reply' /\ reply' # Silence
                               \/ r = refusal(msg) /\ network = "failing"
        /\ \A r, s \in replies' : r = s
  BY <1>1, <1>2, AnswerSent
<1>9. FlightInv'
  <2>1. alone' /\ \A m \in requests' : m.cmd = "SNG" =>
                    requests' = {m} /\ (running' => ~in_game')
    BY <1>1, <1>2, <1>4 DEF FlightInv, alone
  <2>2. attentive' =>
          /\ requests' = {} /\ waiting'
          /\ \A r, s \in replies' : r = s
    BY <1>4, <1>8 DEF attentive
  <2> QED
    BY <1>4, <2>1, <2>2 DEF FlightInv
<1>10. attentive => out.trial = trial \/ ~isTrial(out)
  BY <1>8 DEF LocalInv, CommandInv, isTrial
<1>11. slack' = slack
  BY DEF slack
<1>12. CountInv'
  <2>1. ASSUME NEW m \in requests', isTrial(m) PROVE ahead(m.trial - 1)'
    <3>1. m # msg /\ m.cmd # "QUT" /\ m \in requests
      BY <1>2, <2>1 DEF isTrial
    <3>2. msg.cmd = "QUT"
      BY <1>1, <3>1 DEF FlightInv, alone
    <3> QED
      BY <1>5, <3>2 DEF ahead
  <2>2. ASSUME attentive', in_game' PROVE ahead(trial)'
    <3>1. attentive /\ in_game /\ msg = out /\ ahead(trial)
      BY <1>1, <1>4, <1>8, <2>2 DEF attentive, CountInv
    <3>2. CASE isTrial(msg)
      <4>1. ahead(msg.trial)' /\ msg.trial = trial
        BY <1>1, <1>3, <1>5, <1>6, <1>10, <3>1, <3>2, TrialAnswered
      <4> QED
        BY <1>4, <4>1 DEF ahead
    <3>3. CASE msg.cmd = "SNG"
      BY <1>8, <3>1, <3>3 DEF LocalInv, CommandInv
    <3>4. CASE msg.cmd = "QUT"
      BY <1>5, <3>4 DEF ahead
    <3>5. CASE msg.cmd = "REV"
      BY <1>4, <1>5, <1>11, <3>1, <3>5 DEF ahead
    <3> QED
      BY <1>3, <3>2, <3>3, <3>4, <3>5, RequestFields DEF isTrial
  <2> QED
    BY <2>1, <2>2 DEF CountInv
<1>13. AnswerInv'
  <2> SUFFICES ASSUME listening', NEW r \in replies' PROVE truthful(r)'
    BY DEF AnswerInv
  <2>1. /\ attentive /\ msg = out /\ out' = msg /\ trial' = trial
        /\ \/ r = reply' /\ reply' # Silence
           \/ r = refusal(msg) /\ network = "failing"
    BY <1>4, <1>8 DEF listening, attentive
  <2>2. refusal(msg).status = "ERR"
    BY DEF refusal
  <2>3. CASE isTrial(msg)
    <3>1. msg.trial = trial /\ msg.cmd # "QUT" /\ msg.cmd # "SNG"
      BY <1>10, <2>1, <2>3 DEF isTrial
    <3>2. /\ r.status \in {"WIN", "OVR"} => theGame' = NoGame
          /\ r.status \in {"DUP", "ERR"} => ahead(msg.trial - 1)'
      BY <1>1, <1>3, <1>5, <1>6, <2>1, <2>2, <2>3, TrialAnswered
    <3>3. r.status = "INV" => r = reply' /\ ahead(reply.trial)'
      BY <1>1, <1>3, <1>5, <1>6, <2>1, <2>2, <2>3, TrialAnswered
    <3>4. r.status = "INV" => ahead(r.trial)'
      BY <3>3 DEF ahead
    <3>5. r.status \in {"DUP", "ERR"} => ahead(trial - 1)'
      BY <2>1, <3>1, <3>2 DEF ahead
    <3> QED
      BY <2>1, <3>1, <3>2, <3>4, <3>5 DEF truthful
  <2>4. CASE msg.cmd = "SNG"
    <3>1. startsGame
      BY <1>5, <2>4
    <3>2. r.status = "OK" => r = RSG_OK(theGame') /\ theGame' # NoGame
                               /\ numTrials(theGame') = 0
      BY <2>1, <2>2, <3>1 DEF startsGame, says
    <3>3. r.status = "OK" => /\ r.n_letters = Len(theGame'.word)
                             /\ r.max_errors = theGame'.maxErrors
      BY <3>2 DEF RSG_OK
    <3> QED
      BY <2>1, <2>4, <3>2, <3>3 DEF truthful, isTrial
  <2>5. CASE msg.cmd = "QUT"
    BY <1>5, <2>1, <2>5 DEF truthful, isTrial
  <2>6. CASE msg.cmd = "REV"
    BY <2>1, <2>6 DEF truthful, isTrial
  <2> QED
    BY <1>3, <2>3, <2>4, <2>5, <2>6, RequestFields DEF isTrial
<1> QED
  BY <1>7, <1>9, <1>12, <1>13 DEF LossInv

LEMMA LossRestart ==
    ASSUME LocalInv, LossInv, UNCHANGED network,
           Abort \/ RestartServer \/ UNCHANGED sessionVars
    PROVE  LossInv'
<1>1. /\ theGame' = theGame /\ slack' = slack
      /\ up' = TRUE \/ up' = up \/ network = "failing"
      /\ network' = network
      /\ requests' = requests /\ replies' = replies
      /\ out' = out /\ command' = command /\ running' = running /\ leaving' = leaving
      /\ waiting' = waiting /\ in_game' = in_game /\ trial' = trial
  BY DEF Abort, RestartServer, Restart, theGame, slack, store, sessionVars, vars,
         player, board
<1>2. \A n : ahead(n)' <=> ahead(n)
  BY <1>1 DEF ahead
<1>3. \A msg : truthful(msg)' <=> truthful(msg)
  BY <1>1 DEF truthful, ahead
<1>4. ahead(trial)' <=> ahead(trial)
  BY <1>1 DEF ahead
<1>5. FlightInv => FlightInv'
  BY <1>1 DEF FlightInv, alone, attentive
<1>6. CountInv => CountInv'
  BY <1>1, <1>2, <1>4 DEF CountInv, attentive
<1>7. AnswerInv => AnswerInv'
  BY <1>1, <1>3 DEF AnswerInv, listening, attentive, understood
<1>8. LivesInv => LivesInv'
  BY <1>1 DEF LivesInv
<1> QED
  BY <1>5, <1>6, <1>7, <1>8 DEF LossInv, orderly

LEMMA LossStep ==
    LocalInv /\ LocalInv' /\ LossInv /\ [SessionNext]_sessionVars => LossInv'
<1> SUFFICES ASSUME LocalInv, LocalInv', LossInv, [SessionNext]_sessionVars
             PROVE  LossInv'
  OBVIOUS
<1>1. UNCHANGED network
  BY DEF SessionNext, sessionVars
<1>2. CASE orderly
  BY <1>1, <1>2, LossSend, LossQuiet, LossReceive, LossServe, LossRestart
     DEF SessionNext, PlayerStep
<1>3. CASE ~orderly
  BY <1>1, <1>3 DEF LossInv, orderly
<1> QED
  BY <1>2, <1>3

LEMMA SessionInvariance == SessionSpec => [](LocalInv /\ LossInv)
BY LocalInit, LocalStep, LossInit, LossStep, PTL DEF SessionSpec

(* Losses never put the player behind the server, and ERR for what was     *)
(* registered by at most one: whatever is lost, timed out, interrupted or  *)
(* restarted, and whatever the player tries.                               *)
THEOREM NeverFallsBehind ==
    ASSUME "disorderly" \notin Networks
    PROVE  SessionSpec => []NeverBehind
<1>1. LocalInv /\ LossInv => NeverBehind
  BY DEF LocalInv, ShapeInv, LossInv, orderly, CountInv, attentive, ahead, slack,
         theGame, NeverBehind, playing
<1> QED
  BY <1>1, SessionInvariance, PTL

(* Losses alone never make the player send what kills the server.          *)
THEOREM LossesSurvived == SessionSpec => []SurvivesLosses
<1>1. LossInv => SurvivesLosses
  BY DEF LossInv, orderly, LivesInv, SurvivesLosses
<1> QED
  BY <1>1, SessionInvariance, PTL

(* When the player leaves a game that was won, lost or given up, the       *)
(* server has ended it.                                                    *)
THEOREM OverWhenOver ==
    ASSUME "disorderly" \notin Networks
    PROVE  SessionSpec => OverOnlyWhenOver
<1> DEFINE over == running /\ in_game /\ running' /\ ~in_game' => ongoing'[Me] = NoGame
<1>1. ASSUME LocalInv, LossInv, [SessionNext]_sessionVars
      PROVE  [over]_sessionVars
  <2> SUFFICES ASSUME running, in_game, running', ~in_game', SessionNext
               PROVE  theGame' = NoGame
    BY <1>1 DEF theGame
  <2>1. orderly /\ FlightInv /\ AnswerInv
    BY <1>1 DEF LocalInv, ShapeInv, LossInv, orderly
  <2>2. CASE State
    BY <2>2 DEF State, server, store, theGame
  <2>3. CASE Receive
    <3>1. PICK msg \in replies :
            /\ understood(out, msg) /\ callback(msg)
            /\ ~leaving /\ command # "exit"
      BY <2>3 DEF Receive, board
    <3>2. waiting /\ listening /\ theGame' = theGame
      BY <2>3, <3>1 DEF Receive, listening, attentive, theGame, server, store
    <3>3. truthful(msg)
      BY <2>1, <3>1, <3>2 DEF AnswerInv
    <3>4. CASE command = "quit"
      BY <1>1, <3>1, <3>2, <3>3, <3>4 DEF callback, quitCallback, board, truthful,
                                       LocalInv, CommandInv
    <3>5. CASE command \in {"play", "guess"}
      <4>1. isTrial(out)
        BY <1>1, <3>2, <3>5 DEF LocalInv, CommandInv, isTrial
      <4>2. msg.status \in {"WIN", "OVR"}
        BY <3>1, <3>5 DEF callback, playCallback, trialCallback
      <4> QED
        BY <3>2, <3>3, <4>1, <4>2 DEF truthful
    <3>6. CASE command \in {"start", "reveal"}
      BY <1>1, <3>1, <3>2, <3>6 DEF callback, LocalInv, CommandInv, board
    <3> QED
      BY <3>1, <3>4, <3>5, <3>6 DEF callback
  <2>4. CASE \/ Start \/ Quit("quit") \/ Quit("exit") \/ Reveal
             \/ \E letter \in parsePLGArgs : Play(letter)
             \/ \E w \in parsePWGArgs : Guess(w)
    BY <2>4 DEF Start, Quit, Reveal, Play, Guess, board
  <2>5. CASE ExitNow \/ Die \/ Interrupt \/ Timeout
    BY <2>5 DEF ExitNow, Die, Interrupt, Timeout, board
  <2>6. CASE Launch
    BY <2>6 DEF Launch
  <2>7. CASE Serve \/ Lose \/ Abort \/ RestartServer
    BY <2>7 DEF Serve, Lose, Abort, RestartServer, player, board
  <2> QED
    BY <2>2, <2>3, <2>4, <2>5, <2>6, <2>7 DEF SessionNext, PlayerStep
<1>2. LocalInv /\ LossInv /\ [SessionNext]_sessionVars => [over]_sessionVars
  BY <1>1
<1> QED
  BY <1>2, SessionInvariance, PTL DEF SessionSpec, OverOnlyWhenOver

-----------------------------------------------------------------------------
(* The board of a game, and the player's copy of it.                       *)

LEMMA GameBoard ==
    ASSUME NEW game, GoodGame(game)
    PROVE  /\ Len(game.word) \in Nat /\ DOMAIN game.mask = 1..Len(game.word)
           /\ Len(game.mask) = Len(game.word)
           /\ \A i \in 1..Len(game.word) : game.mask[i] \in {Hidden, game.word[i]}
           /\ missesLeft(game) \in 0..game.maxErrors /\ game.maxErrors \in Nat
<1>1. /\ game \in Games /\ Counted(game) /\ StillOpen(game)
      /\ numTrials(game) \in Nat /\ game.numSucc \in Nat /\ game.maxErrors \in Nat
      /\ game.word \in Seq(Letters) /\ game.mask \in Seq(Letters \cup {Hidden})
  BY RulesAssumption DEF GoodGame, Games, numTrials
<1>2. game.mask = [i \in 1..Len(game.word) |->
                     IF game.word[i] \in lettersFound(game)
                     THEN game.word[i] ELSE Hidden]
  BY <1>1 DEF Counted
<1>3. Len(game.word) \in Nat /\ DOMAIN game.mask = 1..Len(game.word)
  BY <1>1, <1>2
<1>4. Len(game.mask) = Len(game.word)
  BY <1>1, <1>3
<1>5. \A i \in 1..Len(game.word) : game.mask[i] \in {Hidden, game.word[i]}
  BY <1>2
<1>6. game.numSucc <= numTrials(game)
  <2>1. correctTrials(game) \in SUBSET (1..numTrials(game))
    BY DEF correctTrials
  <2>2. /\ IsFiniteSet(1..numTrials(game))
        /\ Cardinality(1..numTrials(game)) = numTrials(game)
    <3> DEFINE n == numTrials(game)
    <3> HIDE DEF n
    <3>1. n \in Nat
      BY <1>1 DEF n
    <3>2. IsFiniteSet(1..n) /\ Cardinality(1..n) = n
      BY <3>1, FS_Interval
    <3> QED
      BY <3>2 DEF n
  <2>3. Cardinality(correctTrials(game)) <= numTrials(game)
    BY <2>1, <2>2, FS_Subset
  <2> QED
    BY <1>1, <2>3 DEF Counted
<1>7. missesLeft(game) \in 0..game.maxErrors
  BY <1>1, <1>6 DEF missesLeft, misses, StillOpen
<1> QED
  BY <1>1, <1>3, <1>4, <1>5, <1>7

(* Before the first trial nothing shows and nothing has been missed.       *)
LEMMA FreshBoard ==
    ASSUME NEW game, GoodGame(game), numTrials(game) = 0
    PROVE  /\ game.mask = [i \in 1..Len(game.word) |-> Hidden]
           /\ missesLeft(game) = game.maxErrors
<1>1. correctTrials(game) = {}
  BY DEF correctTrials
<1>2. lettersFound(game) = {}
  BY <1>1 DEF lettersFound
<1>3. game.mask = [i \in 1..Len(game.word) |-> Hidden]
  BY <1>2 DEF GoodGame, Counted
<1>4. game.numSucc = 0
  BY <1>1, FS_EmptySet DEF GoodGame, Counted
<1>5. missesLeft(game) = game.maxErrors
  BY <1>4 DEF missesLeft, misses, GoodGame, Games
<1> QED
  BY <1>3, <1>5

ViewInv == orderly => JudgedInv /\ BoardTruthful /\ ShowInv

(* A step that leaves the game alone, and either leaves the board and the  *)
(* answer awaited alone too or ends them.                                  *)
LEMMA ViewKept ==
    ASSUME ViewInv, UNCHANGED network, theGame' = theGame,
           \/ ~running' \/ ~in_game'
           \/ UNCHANGED <<running, in_game, mask, remaining_errors>>,
           \/ ~listening' \/ replies' = {}
           \/ /\ listening /\ replies' \subseteq replies
              /\ UNCHANGED <<out, remaining_errors>>
    PROVE  ViewInv'
<1>1. orderly => JudgedInv'
  BY DEF ViewInv, JudgedInv, Judged
<1>2. orderly => BoardTruthful'
  BY DEF ViewInv, BoardTruthful, playing, theGame, orderly
<1>3. ASSUME orderly, listening, replies' \subseteq replies,
             UNCHANGED <<out, remaining_errors>>
      PROVE  ShowInv'
  <2>1. \A msg : showable(msg)' <=> showable(msg)
    BY <1>3 DEF showable
  <2>2. \A msg : understood(out, msg)' <=> understood(out, msg)
    BY <1>3
  <2> QED
    BY <1>3, <2>1, <2>2 DEF ViewInv, ShowInv
<1>4. orderly => ShowInv'
  BY <1>3 DEF ShowInv
<1> QED
  BY <1>1, <1>2, <1>4 DEF ViewInv, orderly

LEMMA ViewSend ==
    ASSUME LocalInv, orderly, LossInv, ViewInv, UNCHANGED network,
           \/ Start \/ Quit("quit") \/ Quit("exit") \/ Reveal
           \/ \E letter \in parsePLGArgs : Play(letter)
           \/ \E w \in parsePWGArgs : Guess(w)
    PROVE  ViewInv'
<1>1. /\ theGame' = theGame /\ replies' = replies /\ Idle
      /\ UNCHANGED <<running, leaving, in_game, mask, remaining_errors>>
  BY DEF Start, Quit, Reveal, Play, Guess, send, server, store, board, theGame
<1>2. replies = {}
  BY <1>1 DEF LocalInv, CommandInv, LossInv, FlightInv, attentive, Idle
<1> QED
  BY <1>1, <1>2, ViewKept

LEMMA ViewQuiet ==
    ASSUME LocalInv, ViewInv, UNCHANGED network,
           \/ ExitNow \/ State \/ Die \/ Launch \/ Interrupt \/ Timeout \/ Lose
           \/ Abort \/ RestartServer \/ UNCHANGED sessionVars
    PROVE  ViewInv'
<1>1. theGame' = theGame
  BY DEF ExitNow, State, Die, Launch, Interrupt, send, Timeout, Lose, Abort, RestartServer,
         Restart, sessionVars, vars, server, store, theGame
<1>2. \/ ~running' \/ ~in_game'
      \/ UNCHANGED <<running, in_game, mask, remaining_errors>>
  BY DEF ExitNow, State, Die, Launch, Interrupt, send, Timeout, Lose, Abort, RestartServer,
         sessionVars, player, board, endGame_player, LocalInv, ShapeInv
<1>3. \/ ~listening' \/ replies' = {}
      \/ /\ listening /\ replies' \subseteq replies
         /\ UNCHANGED <<out, remaining_errors>>
  <2>1. CASE ExitNow \/ State \/ Die \/ Interrupt \/ Timeout
    BY <2>1 DEF ExitNow, State, Die, Interrupt, Timeout, Idle, listening, attentive
  <2>2. CASE Launch
    BY <2>2 DEF Launch
  <2>3. CASE Lose \/ Abort \/ RestartServer \/ UNCHANGED sessionVars
    BY <2>3 DEF Lose, Abort, RestartServer, sessionVars, player, board, listening, attentive
  <2> QED
    BY <2>1, <2>2, <2>3
<1> QED
  BY <1>1, <1>2, <1>3, ViewKept

(* What the player shows after an answer is so.                            *)
LEMMA ViewReceive ==
    ASSUME LocalInv, orderly, LossInv, ViewInv, UNCHANGED network, Receive
    PROVE  ViewInv'
<1>1. BoardTruthful /\ ShowInv /\ AnswerInv
  BY DEF ViewInv, LossInv
<1>2. PICK msg \in replies :
        \/ /\ understood(out, msg) /\ callback(msg)
           /\ running' = (~leaving /\ command # "exit")
        \/ running' = ~leaving /\ UNCHANGED board
  BY DEF Receive
<1>3. /\ running /\ waiting /\ waiting' = FALSE /\ theGame' = theGame
      /\ UNCHANGED <<command, out>>
  BY DEF Receive, server, store, theGame
<1>4. CASE ~running' \/ ~in_game' \/ UNCHANGED <<in_game, mask, remaining_errors>>
  <2>1. running' => running' = running
    BY <1>2, <1>3 DEF LocalInv, ShapeInv
  <2> QED
    BY <1>3, <1>4, <2>1, ViewKept DEF listening
<1>5. CASE /\ running' /\ in_game' /\ ~UNCHANGED <<in_game, mask, remaining_errors>>
  <2>1. /\ ~leaving /\ understood(out, msg) /\ callback(msg) /\ listening
        /\ truthful(msg) /\ showable(msg) /\ command # "exit"
    BY <1>1, <1>2, <1>3, <1>5 DEF board, listening, attentive, AnswerInv, ShowInv
  <2>2. JudgedInv' /\ ShowInv'
    BY <1>3 DEF ViewInv, JudgedInv, Judged, ShowInv, listening
  <2> SUFFICES ASSUME theGame # NoGame PROVE BoardTruthful'
    BY <1>3, <2>2 DEF ViewInv, BoardTruthful, playing, theGame, orderly
  <2> DEFINE game == theGame
  <2>3. GoodGame(game)
    BY GameTypes DEF LocalInv
  <2> HIDE DEF game
  <2>4. /\ Len(game.word) \in Nat /\ game.maxErrors \in Nat
        /\ missesLeft(game) \in 0..game.maxErrors
    BY <2>3, GameBoard
  <2>5. ASSUME Len(mask') = Len(game.word),
               \A i \in DOMAIN mask' :
                 \/ mask'[i] \in {Hidden, game.mask[i]}
                 \/ network = "failing" /\ mask'[i] \in AliasLetters \cap {game.word[i]},
               network = "failing"
                 \/ remaining_errors' \in missesLeft(game)..game.maxErrors
        PROVE  BoardTruthful'
    BY <1>3, <2>5 DEF BoardTruthful, theGame, game
  <2>6. CASE command = "start"
    <3>1. /\ msg.status = "OK" /\ mask' = [i \in 1..msg.n_letters |-> Hidden]
          /\ remaining_errors' = msg.max_errors
      BY <1>5, <2>1, <2>6 DEF callback, startCallback, board
    <3>2. /\ numTrials(game) = 0 /\ msg.n_letters = Len(game.word)
          /\ msg.max_errors = game.maxErrors
      BY <1>3, <2>1, <2>6, <3>1 DEF truthful, LocalInv, CommandInv, game
    <3>3. Len(mask') = Len(game.word) /\ \A i \in DOMAIN mask' : mask'[i] = Hidden
      BY <2>4, <3>1, <3>2
    <3> QED
      BY <2>4, <2>5, <3>1, <3>2, <3>3
  <2>7. CASE command # "start"
    <3>1. in_game
      BY <1>3, <2>7 DEF LocalInv, CommandInv
    <3>2. /\ Len(mask) = Len(game.word) /\ mask \in Seq(Letters \cup {Hidden})
          /\ \A i \in DOMAIN mask :
               \/ mask[i] \in {Hidden, game.mask[i]}
               \/ network = "failing" /\ mask[i] \in AliasLetters \cap {game.word[i]}
          /\ network = "failing" \/ remaining_errors \in missesLeft(game)..game.maxErrors
      BY <1>1, <1>3, <3>1 DEF BoardTruthful, playing, theGame, game, LocalInv, ShapeInv
    <3>3. DOMAIN mask = 1..Len(game.word)
      BY <3>2
    <3>4. CASE /\ command \in {"play", "guess"} /\ msg.status = "NOK" /\ mask' = mask
               /\ remaining_errors' = minusOne(remaining_errors)
      <4>1. isTrial(out)
        BY <1>3, <3>4 DEF LocalInv, CommandInv, isTrial
      <4>2. network # "failing" => remaining_errors > missesLeft(game)
        BY <2>1, <3>4, <4>1 DEF showable, game
      <4>3. network # "failing" => remaining_errors' \in missesLeft(game)..game.maxErrors
        BY <2>4, <3>2, <3>4, <4>2 DEF minusOne
      <4> QED
        BY <2>5, <3>2, <3>4, <4>3
    <3>5. CASE /\ command = "play" /\ msg.status = "OK"
               /\ mask' = [i \in DOMAIN mask |->
                             IF i \in msg.pos THEN out.guess ELSE mask[i]]
               /\ remaining_errors' = remaining_errors
      <4>1. out.cmd = "PLG"
        BY <1>3, <3>5 DEF LocalInv, CommandInv
      <4>2. \A i \in msg.pos : i \in 1..Len(game.word) =>
              /\ game.word[i] = out.guess
              /\ \/ game.mask[i] = out.guess
                 \/ network = "failing" /\ out.guess \in AliasLetters
        BY <2>1, <3>5, <4>1 DEF showable, game
      <4>3. DOMAIN mask' = 1..Len(game.word) /\ Len(mask') = Len(game.word)
        BY <2>4, <3>3, <3>5
      <4>4. \A i \in DOMAIN mask' :
              \/ mask'[i] \in {Hidden, game.mask[i]}
              \/ network = "failing" /\ mask'[i] \in AliasLetters \cap {game.word[i]}
        BY <3>2, <3>3, <3>5, <4>2, <4>3
      <4> QED
        BY <2>5, <3>2, <3>5, <4>3, <4>4
    <3> QED
      BY <1>5, <2>1, <2>7, <3>1, <3>4, <3>5 DEF callback, playCallback, trialCallback,
         quitCallback, endGame_player, board
  <2> QED
    BY <2>6, <2>7
<1> QED
  BY <1>4, <1>5 DEF LocalInv, ShapeInv

(* Serving a request only ever grows what the board of a game shows.       *)
LEMMA BoardGrows ==
    ASSUME ServerInv, theGame # NoGame, NEW msg \in Requests, playsOn(msg)
    PROVE  /\ theGame'.word = theGame.word /\ theGame'.maxErrors = theGame.maxErrors
           /\ \A i \in 1..Len(theGame.word) :
                theGame.mask[i] # Hidden => theGame'.mask[i] = theGame.mask[i]
           /\ missesLeft(theGame') \in {missesLeft(theGame), missesLeft(theGame) - 1}
<1> DEFINE game == theGame
<1>1. GoodGame(game)
  BY GameTypes
<1>2. /\ DOMAIN game.mask = 1..Len(game.word)
      /\ \A i \in 1..Len(game.word) : game.mask[i] \in {Hidden, game.word[i]}
  BY <1>1, GameBoard
<1>3. /\ theGame'.word = game.word /\ theGame'.maxErrors = game.maxErrors
      /\ missesLeft(theGame') \in {missesLeft(game), missesLeft(game) - 1}
  BY DEF playsOn
<1>4. \A i \in 1..Len(game.word) : game.mask[i] # Hidden => theGame'.mask[i] = game.mask[i]
  <2>1. CASE theGame'.mask = game.mask
    BY <2>1
  <2>2. CASE theGame'.mask = [i \in DOMAIN game.mask |->
                 IF i \in getLetterPositions(msg.guess, game.word)
                 THEN msg.guess ELSE game.mask[i]]
    BY <1>2, <2>2 DEF getLetterPositions
  <2> QED
    BY <2>1, <2>2 DEF playsOn
<1> QED
  BY <1>3, <1>4

LEMMA ViewServe ==
    ASSUME LocalInv, LocalInv', orderly, LossInv, ViewInv, UNCHANGED network, Serve
    PROVE  ViewInv'
<1>1. /\ FlightInv /\ CountInv /\ ServerInv /\ ServerInv'
      /\ JudgedInv /\ BoardTruthful
  BY DEF LossInv, LocalInv, ViewInv
<1>2. PICK msg \in requests :
        /\ serve(msg) /\ requests' = requests \ {msg}
        /\ \E answer \in answers(msg) : replies' = replies \cup answer
  BY DEF Serve, afterDelivery, orderly
<1>3. msg \in Requests /\ UNCHANGED player
  BY DEF LocalInv, WireInv, Serve
<1>4. /\ out' = out /\ running' = running /\ leaving' = leaving /\ waiting' = waiting
      /\ in_game' = in_game /\ mask' = mask /\ remaining_errors' = remaining_errors
  BY <1>3 DEF player, board
<1>5. /\ isTrial(msg) => trialServed(msg) \/ (theGame' = theGame /\ says("ERR"))
      /\ msg.cmd = "SNG" => startsGame
      /\ msg.cmd = "QUT" => theGame' = NoGame
      /\ msg.cmd = "REV" => theGame' = theGame
      /\ msg.cmd \in {"SNG", "QUT", "REV"} \/ isTrial(msg)
  BY <1>1, <1>2, <1>3, Served, RequestFields DEF isTrial
<1>6. \/ theGame' = NoGame
      \/ theGame' = theGame
      \/ theGame = NoGame /\ msg.cmd = "SNG" /\ numTrials(theGame') = 0
      \/ theGame # NoGame /\ isTrial(msg) /\ playsOn(msg)
  BY <1>5 DEF startsGame, trialServed, says
<1>7. JudgedInv'
  <2>1. CASE theGame' = theGame
    BY <1>1, <2>1 DEF JudgedInv, Judged
  <2>2. CASE numTrials(theGame') = 0
    <3>1. Judged(theGame')
      BY <2>2 DEF Judged
    <3> QED
      BY <3>1 DEF JudgedInv, Judged
  <2>3. CASE theGame # NoGame /\ playsOn(msg)
    <3>1. Judged(theGame')
      BY <1>1, <2>3 DEF JudgedInv, playsOn
    <3> QED
      BY <3>1 DEF JudgedInv, Judged
  <2> QED
    BY <1>6, <2>1, <2>2, <2>3 DEF JudgedInv
<1>8. BoardTruthful'
  <2> SUFFICES ASSUME running, in_game, theGame' # NoGame, theGame' # theGame
               PROVE  BoardTruthful'
    BY <1>1, <1>4 DEF BoardTruthful, playing, theGame
  <2>1. msg.cmd # "SNG"
    BY <1>1, <1>2 DEF FlightInv
  <2>2. theGame # NoGame /\ playsOn(msg)
    BY <1>6, <2>1
  <2> DEFINE game == theGame
             next == theGame'
  <2>3. /\ next.word = game.word /\ next.maxErrors = game.maxErrors
        /\ \A i \in 1..Len(game.word) : game.mask[i] # Hidden => next.mask[i] = game.mask[i]
        /\ missesLeft(next) \in {missesLeft(game), missesLeft(game) - 1}
    BY <1>1, <1>3, <2>2, BoardGrows
  <2>4. /\ Len(mask) = Len(game.word)
        /\ \A i \in DOMAIN mask :
             \/ mask[i] \in {Hidden, game.mask[i]}
             \/ network = "failing" /\ mask[i] \in AliasLetters \cap {game.word[i]}
        /\ network = "failing" \/ remaining_errors \in missesLeft(game)..game.maxErrors
        /\ mask \in Seq(Letters \cup {Hidden})
    BY <1>1, <2>2 DEF BoardTruthful, playing, theGame, LocalInv, ShapeInv
  <2>5. /\ missesLeft(game) \in 0..game.maxErrors /\ game.maxErrors \in Nat
        /\ Len(game.word) \in Nat
    BY <1>1, <2>2, GameTypes, GameBoard
  <2>6. DOMAIN mask = 1..Len(game.word)
    BY <2>4
  <2>7. BoardTruthful' <=>
          /\ Len(mask) = Len(next.word)
          /\ \A i \in DOMAIN mask :
               \/ mask[i] \in {Hidden, next.mask[i]}
               \/ network = "failing" /\ mask[i] \in AliasLetters \cap {next.word[i]}
          /\ network = "failing" \/ remaining_errors \in missesLeft(next)..next.maxErrors
    BY <1>4 DEF BoardTruthful, playing, theGame
  <2> HIDE DEF game, next
  <2>8. \A i \in DOMAIN mask :
          \/ mask[i] \in {Hidden, next.mask[i]}
          \/ network = "failing" /\ mask[i] \in AliasLetters \cap {next.word[i]}
    BY <2>3, <2>4, <2>6
  <2>9. network = "failing" \/ remaining_errors \in missesLeft(next)..next.maxErrors
    BY <2>3, <2>4, <2>5
  <2> QED
    BY <2>3, <2>4, <2>7, <2>8, <2>9
<1>9. ShowInv'
  <2> SUFFICES ASSUME listening', NEW r \in replies', theGame' # NoGame, isTrial(msg),
                      r.status \in {"OK", "NOK"}
               PROVE  showable(r)'
    <3>1. listening' => msg = out
      BY <1>1, <1>2, <1>4, AnswerSent DEF listening, attentive
    <3> QED
      BY <1>4, <3>1 DEF ShowInv, showable, isTrial
  <2>1. /\ msg = out /\ out' = msg /\ running
        /\ \/ r = reply' /\ reply' # Silence
           \/ r = refusal(msg)
    BY <1>1, <1>2, <1>4, AnswerSent DEF listening, attentive
  <2>2. r = reply' /\ reply' # Silence
    BY <2>1 DEF refusal
  <2>3. in_game
    BY <1>4, <2>1 DEF listening, LocalInv, CommandInv, isTrial
  <2>4. /\ theGame # NoGame
        /\ \/ theGame' = theGame /\ msg.trial = numTrials(theGame) /\ repeatsTrial(msg)
           \/ playsOn(msg)
    BY <1>5, <2>2 DEF trialServed, says
  <2>5. /\ GoodGame(theGame) /\ numTrials(theGame) \in Nat /\ slack \in {0, 1}
        /\ (slack = 1 <=> network = "failing") /\ msg.trial \in Nat
        /\ msg.trial - 1 + slack >= numTrials(theGame)
    BY <1>1, <1>2, <1>3, <2>4, GameTypes, RequestFields, ServerAssumption
       DEF CountInv, ahead
  <2>6. Judged(theGame)
    BY <1>1, <2>4 DEF JudgedInv
  <2> DEFINE shown == \A i \in r.pos : i \in 1..Len(theGame'.word) =>
                        /\ theGame'.word[i] = msg.guess
                        /\ \/ theGame'.mask[i] = msg.guess
                           \/ network = "failing" /\ msg.guess \in AliasLetters
             unspent == remaining_errors > missesLeft(theGame')
  <2>7. CASE theGame' = theGame /\ msg.trial = numTrials(theGame) /\ repeatsTrial(msg)
    <3>1. network = "failing"
      BY <2>5, <2>7
    <3>2. ASSUME r.status = "OK", msg.cmd = "PLG" PROVE shown
      <4>1. /\ r.pos = getLetterPositions(msg.guess, theGame.word)
            /\ \/ msg.guess \in AliasLetters
               \/ \A i \in r.pos : theGame.mask[i] = msg.guess
        BY <2>2, <2>6, <2>7, <3>2 DEF repeatsTrial, says
      <4> QED
        BY <2>7, <3>1, <4>1 DEF getLetterPositions
    <3> QED
      BY <1>4, <2>1, <3>1, <3>2 DEF showable
  <2>8. CASE playsOn(msg)
    <3>1. ASSUME r.status = "OK", msg.cmd = "PLG" PROVE shown
      <4>1. /\ theGame'.word = theGame.word
            /\ r.pos = getLetterPositions(msg.guess, theGame.word)
            /\ theGame'.mask = [i \in DOMAIN theGame.mask |->
                                  IF i \in r.pos THEN msg.guess ELSE theGame.mask[i]]
        BY <2>2, <2>8, <3>1 DEF playsOn, says
      <4>2. DOMAIN theGame.mask = 1..Len(theGame.word)
        BY <2>5, GameBoard
      <4> QED
        BY <4>1, <4>2 DEF getLetterPositions
    <3>2. ASSUME r.status = "NOK", network # "failing" PROVE unspent
      <4>1. missesLeft(theGame') = missesLeft(theGame) - 1
        BY <2>2, <2>8, <3>2 DEF playsOn, says
      <4>2. remaining_errors \in missesLeft(theGame)..theGame.maxErrors
        BY <1>1, <2>1, <2>3, <2>4, <3>2 DEF BoardTruthful, playing, theGame
      <4>3. missesLeft(theGame) \in 0..theGame.maxErrors /\ theGame.maxErrors \in Nat
        BY <2>5, GameBoard
      <4> QED
        BY <4>1, <4>2, <4>3
    <3> QED
      BY <1>4, <2>1, <3>1, <3>2 DEF showable
  <2> QED
    BY <2>4, <2>7, <2>8
<1> QED
  BY <1>7, <1>8, <1>9 DEF ViewInv

LEMMA ViewStep ==
    LocalInv /\ LocalInv' /\ LossInv /\ ViewInv /\ [SessionNext]_sessionVars
        => ViewInv'
<1> SUFFICES ASSUME LocalInv, LocalInv', LossInv, ViewInv, [SessionNext]_sessionVars
             PROVE  ViewInv'
  OBVIOUS
<1>1. UNCHANGED network
  BY DEF SessionNext, sessionVars
<1>2. CASE orderly
  <2>1. CASE \/ Start \/ Quit("quit") \/ Quit("exit") \/ Reveal
             \/ \E letter \in parsePLGArgs : Play(letter)
             \/ \E w \in parsePWGArgs : Guess(w)
    BY <1>1, <1>2, <2>1, ViewSend
  <2>2. CASE \/ ExitNow \/ State \/ Die \/ Launch \/ Interrupt \/ Timeout \/ Lose
             \/ Abort \/ RestartServer \/ UNCHANGED sessionVars
    BY <1>1, <2>2, ViewQuiet
  <2>3. CASE Receive
    BY <1>1, <1>2, <2>3, ViewReceive
  <2>4. CASE Serve
    BY <1>1, <1>2, <2>4, ViewServe
  <2> QED
    BY <2>1, <2>2, <2>3, <2>4 DEF SessionNext, PlayerStep
<1>3. CASE ~orderly
  BY <1>1, <1>3 DEF ViewInv, orderly
<1> QED
  BY <1>2, <1>3

LEMMA ViewInvariance == SessionSpec => []ViewInv
<1>1. SessionInit => ViewInv
  <2> SUFFICES ASSUME SessionInit PROVE ViewInv
    OBVIOUS
  <2>1. theGame = NoGame /\ replies = {} /\ ~in_game
    BY SessionAssumption DEF SessionInit, Init, PlayerInit, theGame
  <2> QED
    BY <2>1 DEF ViewInv, JudgedInv, BoardTruthful, playing, ShowInv
<1> QED
  BY <1>1, ViewStep, SessionInvariance, PTL DEF SessionSpec

(* The player's board never shows a letter that is not in its place, nor   *)
(* fewer misses left than the server allows; on a network whose sendto can *)
(* fail, never more than a letter of the word the server does not show yet.*)
THEOREM BoardAlwaysTruthful ==
    ASSUME "disorderly" \notin Networks
    PROVE  SessionSpec => []BoardTruthful
<1>1. LocalInv /\ ViewInv => BoardTruthful
  BY DEF LocalInv, ShapeInv, ViewInv, orderly
<1> QED
  BY <1>1, SessionInvariance, ViewInvariance, PTL

-----------------------------------------------------------------------------
(* Without losses.                                                         *)

LEMMA ServedUnderstood ==
    ASSUME ServerInv, NEW msg \in Requests, serve(msg), reply' # Silence
    PROVE  understood(msg, reply') \/ (isTrial(msg) /\ says("INV"))
<1>1. GamesInv /\ ListedInv /\ Me \in PLIDs
  BY SessionAssumption DEF ServerInv, IInv
<1>2. CASE readable(msg)
  <2>1. /\ \/ msg.cmd = "SNG" /\ SNG(Me)
           \/ msg.cmd = "PLG" /\ PLG(Me, msg.guess, msg.trial)
                /\ msg.guess \in Letters /\ msg.trial \in 1..MaxTrial
           \/ msg.cmd = "PWG" /\ PWG(Me, msg.guess, msg.trial)
                /\ msg.guess \in Words /\ msg.trial \in 1..MaxTrial
           \/ msg.cmd = "QUT" /\ QUT(Me)
           \/ msg.cmd = "REV" /\ REV(Me)
    BY <1>2, ServeIsNext
  <2>2. request' = msg
    <3>1. CASE msg.cmd = "SNG" /\ SNG(Me)
      BY <3>1 DEF SNG, Requests
    <3>2. CASE msg.cmd = "PLG" /\ PLG(Me, msg.guess, msg.trial)
      BY <3>2 DEF PLG, Requests
    <3>3. CASE msg.cmd = "PWG" /\ PWG(Me, msg.guess, msg.trial)
      BY <3>3 DEF PWG, Requests
    <3>4. CASE msg.cmd = "QUT" /\ QUT(Me)
      BY <3>4 DEF QUT, Requests
    <3>5. CASE msg.cmd = "REV" /\ REV(Me)
      BY <3>5 DEF REV, Requests
    <3> QED
      BY <2>1, <3>1, <3>2, <3>3, <3>4, <3>5
  <2>3. answered'
    <3>1. CASE msg.cmd = "PLG"
      BY <1>1, <2>1, <3>1, AnswerPLG
    <3>2. CASE msg.cmd = "PWG"
      BY <1>1, <2>1, <3>2, AnswerPWG DEF ReplyInv
    <3>3. CASE msg.cmd = "SNG"
      BY <1>1, <2>1, <3>3, AnswerSNG
    <3>4. CASE msg.cmd \in {"QUT", "REV"}
      BY <1>1, <2>1, <3>4, AnswerPlain
    <3> QED
      BY <2>1, <3>1, <3>2, <3>3, <3>4
  <2>4. understood(request', reply') \/ invalidZero(reply')
    BY <2>3 DEF answered, understood, invalidZero
  <2>5. understood(msg, reply') \/ invalidZero(reply')
    BY <2>2, <2>4
  <2>6. invalidZero(reply') => isTrial(msg) /\ says("INV")
    <3>1. reply'.cmd = response[msg.cmd]
      BY Served
    <3> QED
      BY <3>1, RequestFields DEF invalidZero, says, isTrial, response
  <2> QED
    BY <2>5, <2>6
<1>3. CASE ~readable(msg)
  <2>1. reply' = refusal(msg)
    BY <1>3, ServedRefused
  <2>2. isTrial(msg)
    BY <1>3, RequestFields DEF readable, isTrial, checkPLID, deserializeSNG,
       deserializeQUT, deserializeREV
  <2>3. reply'.cmd = response[msg.cmd] /\ reply'.status = "ERR"
    BY <2>1 DEF refusal
  <2> QED
    BY <2>2, <2>3 DEF isTrial, understood, response, deserializeRLG, deserializeRWG
<1> QED
  BY <1>2, <1>3

reliably == network = "reliable"

CopyInv == reliably => SyncInv

LEMMA CopySend ==
    ASSUME LocalInv, reliably, LossInv, SyncInv, UNCHANGED network,
           \/ Start \/ Quit("quit") \/ Quit("exit") \/ Reveal
           \/ \E letter \in parsePLGArgs : Play(letter)
           \/ \E w \in parsePWGArgs : Guess(w)
    PROVE  SyncInv'
<1>1. /\ theGame' = theGame /\ replies' = replies /\ Idle /\ waiting'
      /\ UNCHANGED <<running, leaving, in_game, mask, remaining_errors>>
      /\ out' \in requests'
  BY DEF Start, Quit, Reveal, Play, Guess, send, server, store, board, theGame
<1>2. attentive /\ replies = {}
  BY <1>1 DEF LocalInv, CommandInv, LossInv, orderly, reliably, FlightInv, attentive, Idle
<1>3. CASE ~in_game
  BY <1>1, <1>3 DEF SyncInv
<1>4. CASE in_game
  <2>1. sameBoard /\ trial = numTrials(theGame)
    BY <1>1, <1>2, <1>4 DEF SyncInv, Idle
  <2>2. sameBoard'
    BY <1>1, <2>1 DEF sameBoard
  <2>3. trial' = numTrials(theGame') + (IF isTrial(out') THEN 1 ELSE 0)
    <3>1. numTrials(theGame) \in Nat
      BY <2>1, GameTypes DEF LocalInv, sameBoard
    <3>2. CASE Start \/ Quit("quit") \/ Quit("exit") \/ Reveal
      BY <1>1, <1>4, <2>1, <3>1, <3>2
         DEF Start, Quit, Reveal, send, isTrial, QuitMessage, board
    <3>3. CASE \/ \E letter \in parsePLGArgs : Play(letter)
               \/ \E w \in parsePWGArgs : Guess(w)
      <4>1. trial' = trial + 1
        BY <3>3, NextTrial DEF Play, Guess, LocalInv
      <4>2. isTrial(out')
        BY <3>3 DEF Play, Guess, send, isTrial
      <4> QED
        BY <1>1, <2>1, <4>1, <4>2
    <3> QED
      BY <3>2, <3>3
  <2>4. /\ waiting' /\ requests' # {} /\ replies' = {}
        /\ (trial = numTrials(theGame) + (IF isTrial(out) THEN 1 ELSE 0))'
    BY <1>1, <1>2, <2>3
  <2> QED
    BY <2>2, <2>4 DEF SyncInv
<1> QED
  BY <1>3, <1>4

LEMMA CopyQuiet ==
    ASSUME LocalInv, reliably, LossInv, SyncInv, UNCHANGED network,
           \/ ExitNow \/ State \/ Die \/ Launch \/ Interrupt \/ Timeout \/ Lose
           \/ Abort \/ RestartServer \/ UNCHANGED sessionVars
    PROVE  SyncInv'
<1>1. CASE ExitNow \/ State \/ Die \/ Launch \/ Interrupt
  <2>1. ~attentive' \/ ~in_game'
    BY <1>1 DEF ExitNow, State, Die, Launch, Interrupt, attentive, endGame_player,
       LocalInv, ShapeInv
  <2> QED
    BY <2>1 DEF SyncInv
<1>2. CASE Timeout
  <2>1. /\ requests = {} /\ replies = {} /\ running /\ waiting
        /\ running' = ~leaving /\ leaving' = leaving /\ in_game' = in_game
    BY <1>2 DEF Timeout, reliably, board
  <2>2. ~(attentive /\ in_game)
    BY <2>1 DEF SyncInv
  <2>3. ~(attentive' /\ in_game')
    BY <2>1, <2>2 DEF attentive
  <2> QED
    BY <2>3 DEF SyncInv
<1>3. CASE Abort \/ RestartServer \/ UNCHANGED sessionVars
  <2>1. /\ theGame' = theGame /\ requests' = requests /\ replies' = replies
        /\ out' = out /\ running' = running /\ leaving' = leaving
        /\ waiting' = waiting /\ in_game' = in_game /\ trial' = trial
        /\ mask' = mask /\ remaining_errors' = remaining_errors
    BY <1>3 DEF Abort, RestartServer, Restart, theGame, store, sessionVars, vars, player, board
  <2>2. sameBoard' <=> sameBoard
    BY <2>1 DEF sameBoard
  <2>3. \A msg : settles(msg)' <=> settles(msg)
    BY <2>1, <2>2 DEF settles
  <2> QED
    BY <2>1, <2>2, <2>3 DEF SyncInv, attentive
<1> QED
  BY <1>1, <1>2, <1>3 DEF Lose, reliably

LEMMA CopyReceive ==
    ASSUME LocalInv, reliably, LossInv, SyncInv, UNCHANGED network, Receive
    PROVE  SyncInv'
<1>1. FlightInv /\ AnswerInv
  BY DEF LossInv, orderly, reliably
<1>2. PICK msg \in replies :
        \/ /\ understood(out, msg) /\ callback(msg)
           /\ running' = (~leaving /\ command # "exit")
        \/ ~understood(out, msg) /\ running' = ~leaving /\ UNCHANGED board
  BY DEF Receive
<1>3. /\ running /\ waiting /\ waiting' = FALSE /\ theGame' = theGame
      /\ UNCHANGED <<leaving, command, out>>
  BY DEF Receive, server, store, theGame
<1> SUFFICES ASSUME attentive', in_game'
             PROVE  sameBoard' /\ trial' = numTrials(theGame')
  BY <1>3 DEF SyncInv
<1>4. attentive /\ listening /\ in_game' /\ running'
  BY <1>3 DEF attentive, listening
<1>5. ASSUME theGame # NoGame, mask' = theGame.mask,
             remaining_errors' = missesLeft(theGame), trial' = numTrials(theGame)
      PROVE  sameBoard' /\ trial' = numTrials(theGame')
  BY <1>3, <1>5 DEF sameBoard
<1>6. theGame # NoGame =>
        /\ GoodGame(theGame) /\ numTrials(theGame) \in Nat
        /\ missesLeft(theGame) \in Nat
  BY GameTypes, GameBoard DEF LocalInv
<1>7. CASE command = "start"
  <2>1. out.cmd = "SNG" /\ ~in_game
    BY <1>3, <1>7 DEF LocalInv, CommandInv
  <2>2. /\ understood(out, msg) /\ msg.status = "OK"
        /\ mask' = [i \in 1..msg.n_letters |-> Hidden]
        /\ remaining_errors' = msg.max_errors /\ trial' = 0
    BY <1>2, <1>4, <1>7, <2>1 DEF callback, startCallback, board
  <2>3. /\ theGame # NoGame /\ numTrials(theGame) = 0
        /\ msg.n_letters = Len(theGame.word) /\ msg.max_errors = theGame.maxErrors
    BY <1>1, <1>4, <2>1, <2>2 DEF AnswerInv, truthful
  <2>4. /\ theGame.mask = [i \in 1..Len(theGame.word) |-> Hidden]
        /\ missesLeft(theGame) = theGame.maxErrors
    BY <1>6, <2>3, FreshBoard
  <2> QED
    BY <1>5, <2>2, <2>3, <2>4
<1>8. CASE command # "start"
  <2>1. in_game /\ command \in {"play", "guess", "quit", "exit", "reveal"}
    BY <1>3, <1>8 DEF LocalInv, CommandInv
  <2>2. settles(msg)
    BY <1>3, <1>4, <2>1 DEF SyncInv
  <2>3. callback(msg) /\ command # "exit"
    BY <1>2, <1>4, <2>2 DEF settles
  <2>4. CASE command = "quit"
    BY <1>3, <1>4, <2>2, <2>3, <2>4
       DEF LocalInv, CommandInv, settles, callback, quitCallback, endGame_player
  <2>5. CASE command = "reveal"
    <3>1. out.cmd = "REV" /\ UNCHANGED board
      BY <1>3, <2>3, <2>5 DEF LocalInv, CommandInv, callback
    <3> QED
      BY <1>5, <2>2, <3>1 DEF settles, sameBoard, board
  <2>6. CASE command \in {"play", "guess"}
    <3>1. isTrial(out) /\ (command = "play" <=> out.cmd = "PLG")
      BY <1>3, <2>6 DEF LocalInv, CommandInv, isTrial
    <3>2. CASE msg.status = "OK"
      <4>1. /\ theGame # NoGame /\ trial = numTrials(theGame) /\ command = "play"
            /\ theGame.mask = [i \in DOMAIN mask |->
                                 IF i \in msg.pos THEN out.guess ELSE mask[i]]
            /\ remaining_errors = missesLeft(theGame)
        BY <2>2, <3>1, <3>2 DEF settles
      <4>2. /\ mask' = [i \in DOMAIN mask |->
                          IF i \in msg.pos THEN out.guess ELSE mask[i]]
            /\ remaining_errors' = remaining_errors /\ trial' = trial
        BY <2>3, <3>2, <4>1 DEF callback, playCallback
      <4> QED
        BY <1>5, <4>1, <4>2
    <3>3. CASE msg.status # "OK"
      <4>1. trialCallback(msg)
        BY <2>3, <2>6, <3>3 DEF callback, playCallback
      <4>2. CASE msg.status = "NOK"
        <5>1. /\ theGame # NoGame /\ trial = numTrials(theGame)
              /\ mask = theGame.mask /\ remaining_errors = missesLeft(theGame) + 1
          BY <2>2, <3>1, <4>2 DEF settles
        <5>2. /\ remaining_errors' = minusOne(remaining_errors)
              /\ mask' = mask /\ trial' = trial
          BY <4>1, <4>2 DEF trialCallback
        <5>3. remaining_errors' = missesLeft(theGame)
          BY <1>6, <5>1, <5>2 DEF minusOne
        <5> QED
          BY <1>5, <5>1, <5>2, <5>3
      <4>3. CASE msg.status \in {"DUP", "ERR"}
        <5>1. /\ theGame # NoGame /\ trial = numTrials(theGame) + 1
              /\ mask = theGame.mask /\ remaining_errors = missesLeft(theGame)
          BY <2>2, <3>1, <4>3 DEF settles, sameBoard
        <5>2. /\ trial' = minusOne(trial)
              /\ mask' = mask /\ remaining_errors' = remaining_errors
          BY <4>1, <4>3 DEF trialCallback
        <5>3. trial' = numTrials(theGame)
          BY <1>6, <5>1, <5>2 DEF minusOne
        <5> QED
          BY <1>5, <5>1, <5>2, <5>3
      <4>4. CASE msg.status \in {"WIN", "OVR"}
        BY <1>4, <4>1, <4>4 DEF trialCallback, endGame_player
      <4> QED
        BY <2>2, <3>1, <3>3, <4>2, <4>3, <4>4 DEF settles
    <3> QED
      BY <3>2, <3>3
  <2> QED
    BY <2>1, <2>3, <2>4, <2>5, <2>6
<1> QED
  BY <1>7, <1>8

(* The answer to the request of a player in step brings it in step again.  *)
LEMMA CopyServe ==
    ASSUME LocalInv, LocalInv', reliably, LossInv, SyncInv, UNCHANGED network, Serve
    PROVE  SyncInv'
<1>1. FlightInv /\ ServerInv
  BY DEF LossInv, LocalInv, orderly, reliably
<1>2. PICK msg \in requests :
        /\ serve(msg) /\ requests' = requests \ {msg}
        /\ \E answer \in answers(msg) : replies' = replies \cup answer
  BY DEF Serve, afterDelivery, reliably
<1>3. msg \in Requests /\ UNCHANGED player
  BY DEF LocalInv, WireInv, Serve
<1>4. /\ out' = out /\ running' = running /\ leaving' = leaving /\ waiting' = waiting
      /\ in_game' = in_game /\ mask' = mask /\ remaining_errors' = remaining_errors
      /\ trial' = trial /\ command' = command
  BY <1>3 DEF player, board
<1> SUFFICES ASSUME attentive', in_game' PROVE SyncInv'
  BY DEF SyncInv
<1>5. attentive /\ in_game /\ network # "failing"
  BY <1>4 DEF attentive, reliably
<1>6. /\ msg = out /\ requests' = {} /\ waiting /\ waiting'
      /\ reply' # Silence => replies' = {reply'}
  BY <1>1, <1>2, <1>4, <1>5, AnswerSent
<1>7. /\ sameBoard /\ trial = numTrials(theGame) + (IF isTrial(out) THEN 1 ELSE 0)
      /\ requests # {}
  BY <1>2, <1>5, <1>6 DEF SyncInv
<1>8. /\ theGame # NoGame /\ numTrials(theGame) \in Nat
      /\ mask = theGame.mask /\ remaining_errors = missesLeft(theGame)
  BY <1>1, <1>7, GameTypes DEF sameBoard
<1>9. isTrial(msg) => msg.trial = trial /\ trial = numTrials(theGame) + 1
                        /\ msg.trial # numTrials(theGame)
  BY <1>6, <1>7, <1>8 DEF LocalInv, CommandInv, isTrial
<1>10. /\ isTrial(msg) => trialServed(msg) \/ (theGame' = theGame /\ says("ERR"))
       /\ msg.cmd = "QUT" => theGame' = NoGame /\ says("OK")
       /\ msg.cmd = "REV" => theGame' = theGame
       /\ reply' # Silence /\ reply'.cmd = response[msg.cmd]
  BY <1>1, <1>2, <1>3, <1>8, <1>9, Served DEF isTrial
<1>11. ~(says("INV") /\ isTrial(msg))
  BY <1>8, <1>9, <1>10 DEF trialServed, playsOn, says
<1>12. understood(msg, reply')
  BY <1>1, <1>2, <1>3, <1>10, <1>11, ServedUnderstood
<1>13. settles(reply)'
  <2>1. understood(out, reply)'
    BY <1>4, <1>6, <1>12
  <2>2. theGame' = theGame => sameBoard'
    BY <1>4, <1>7 DEF sameBoard
  <2>3. CASE msg.cmd = "REV"
    <3>1. ~isTrial(out) /\ out'.cmd = "REV" /\ ~isTrial(out)'
      BY <1>4, <1>6, <2>3 DEF isTrial
    <3>2. theGame' = theGame /\ sameBoard' /\ trial' = numTrials(theGame')
      BY <1>4, <1>7, <1>8, <1>10, <2>2, <2>3, <3>1
    <3> QED
      BY <2>1, <3>1, <3>2 DEF settles
  <2>4. CASE msg.cmd = "QUT"
    BY <1>4, <1>6, <1>10, <2>1, <2>4 DEF settles, isTrial, says
  <2>5. CASE isTrial(msg)
    <3>1. CASE theGame' = theGame /\ (says("ERR") \/ says("DUP"))
      BY <1>4, <1>6, <1>7, <1>9, <2>1, <2>2, <2>5, <3>1 DEF settles, isTrial, says
    <3>2. CASE says("WIN") \/ says("OVR")
      BY <1>4, <1>6, <2>1, <2>5, <3>2 DEF settles, isTrial, says
    <3>3. CASE /\ theGame' # NoGame /\ numTrials(theGame') = msg.trial
               /\ playsOn(msg)
      <4>1. GoodGame(theGame)
        BY <1>1, <1>8, GameTypes
      <4>2. missesLeft(theGame) \in Nat
        BY <4>1, GameBoard
      <4>3. CASE says("NOK")
        <5>1. /\ theGame'.mask = theGame.mask
              /\ missesLeft(theGame') = missesLeft(theGame) - 1
          BY <3>3, <4>3 DEF playsOn, says
        <5>2. /\ mask' = theGame'.mask
              /\ remaining_errors' = missesLeft(theGame') + 1
              /\ trial' = numTrials(theGame')
          BY <1>4, <1>8, <1>9, <2>5, <3>3, <4>2, <5>1
        <5> QED
          BY <1>4, <1>6, <2>1, <2>5, <3>3, <4>3, <5>2 DEF settles, isTrial, says
      <4>4. CASE says("OK")
        <5>1. /\ msg.cmd = "PLG"
              /\ theGame'.mask = [i \in DOMAIN theGame.mask |->
                                    IF i \in reply'.pos THEN msg.guess ELSE theGame.mask[i]]
              /\ missesLeft(theGame') = missesLeft(theGame)
          BY <3>3, <4>4 DEF playsOn, says
        <5>2. /\ out'.cmd = "PLG"
              /\ theGame'.mask = [i \in DOMAIN mask' |->
                                    IF i \in reply'.pos THEN out'.guess ELSE mask'[i]]
              /\ remaining_errors' = missesLeft(theGame')
              /\ trial' = numTrials(theGame')
          BY <1>4, <1>6, <1>8, <1>9, <2>5, <3>3, <5>1
        <5> QED
          BY <1>4, <1>6, <2>1, <2>5, <3>3, <4>4, <5>2 DEF settles, isTrial, says
      <4> QED
        BY <3>3, <4>3, <4>4 DEF playsOn
    <3> QED
      BY <1>8, <1>9, <1>10, <2>5, <3>1, <3>2, <3>3 DEF trialServed
  <2>6. msg.cmd # "SNG"
    BY <1>1, <1>2, <1>5 DEF FlightInv, attentive
  <2> QED
    BY <1>3, <2>3, <2>4, <2>5, <2>6, RequestFields DEF isTrial
<1> QED
  BY <1>4, <1>6, <1>10, <1>13 DEF SyncInv

LEMMA CopyStep ==
    LocalInv /\ LocalInv' /\ LossInv /\ CopyInv /\ [SessionNext]_sessionVars
        => CopyInv'
<1> SUFFICES ASSUME LocalInv, LocalInv', LossInv, CopyInv, reliably',
                    [SessionNext]_sessionVars
             PROVE  SyncInv'
  BY DEF CopyInv
<1>1. UNCHANGED network /\ reliably /\ SyncInv
  <2>1. UNCHANGED network
    BY DEF SessionNext, sessionVars
  <2> QED
    BY <2>1 DEF reliably, CopyInv
<1>2. CASE \/ Start \/ Quit("quit") \/ Quit("exit") \/ Reveal
           \/ \E letter \in parsePLGArgs : Play(letter)
           \/ \E w \in parsePWGArgs : Guess(w)
  BY <1>1, <1>2, CopySend
<1>3. CASE \/ ExitNow \/ State \/ Die \/ Launch \/ Interrupt \/ Timeout \/ Lose
           \/ Abort \/ RestartServer \/ UNCHANGED sessionVars
  BY <1>1, <1>3, CopyQuiet
<1>4. CASE Receive
  BY <1>1, <1>4, CopyReceive
<1>5. CASE Serve
  BY <1>1, <1>5, CopyServe
<1> QED
  BY <1>2, <1>3, <1>4, <1>5 DEF SessionNext, PlayerStep

(* Without losses the player at the prompt has the server's game before it:*)
(* the same trial number, the same mask and the same misses left.          *)
THEOREM AlwaysInSync == SessionSpec => []InSync
<1>1. SessionInit => CopyInv
  BY DEF SessionInit, PlayerInit, CopyInv, SyncInv
<1>2. LocalInv /\ CopyInv => InSync
  BY DEF LocalInv, CommandInv, CopyInv, reliably, SyncInv, sameBoard, attentive, InSync,
         Idle, theGame
<1> QED
  BY <1>1, <1>2, CopyStep, SessionInvariance, PTL DEF SessionSpec

-----------------------------------------------------------------------------
(* The server in a session.                                                *)

serverFiles == <<store, wordPtr, now>>

(* Whatever its player and the network do, the server's files change by    *)
(* the steps of GameServer and no others, also when it aborts, so what is  *)
(* proved of its games and scores holds in every session.                  *)
THEOREM SessionRunsServer == SessionSpec => Init /\ [][Next]_serverFiles
<1>1. SessionInit => Init
  BY DEF SessionInit
<1>2. LocalInv /\ [SessionNext]_sessionVars => [Next]_serverFiles
  <2> SUFFICES ASSUME LocalInv, [SessionNext]_sessionVars
               PROVE  Next \/ UNCHANGED serverFiles
    OBVIOUS
  <2>1. CASE PlayerStep \/ Lose \/ Abort \/ UNCHANGED sessionVars
    BY <2>1 DEF PlayerStep, Start, Play, Guess, Quit, Reveal, ExitNow, State, Interrupt,
       Die, Launch, Receive, Timeout, Lose, Abort, send, server, store, serverFiles,
       sessionVars, vars
  <2>2. CASE Serve
    <3>1. PICK msg \in Requests : serve(msg)
      BY <2>2 DEF Serve, LocalInv, WireInv
    <3>2. CASE readable(msg)
      BY <3>1, <3>2, ServeIsNext
    <3>3. CASE ~readable(msg)
      BY <3>1, <3>3 DEF serve, Refuse, serverFiles, store
    <3> QED
      BY <3>2, <3>3
  <2>3. CASE RestartServer
    BY <2>3 DEF RestartServer, Next
  <2> QED
    BY <2>1, <2>2, <2>3 DEF SessionNext
<1> QED
  BY <1>1, <1>2, SessionInvariance, PTL DEF SessionSpec

===============================================================================

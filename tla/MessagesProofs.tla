---------------------------- MODULE MessagesProofs ----------------------------
(***************************************************************************)
(* The player can read what the server answers, for every word list that   *)
(* fits the protocol: games are of listed words, and those have room for   *)
(* one more trial in the two digits of a trial number.                     *)
(***************************************************************************)
EXTENDS Messages, GameServerProofs

listed(word) == \E i \in DOMAIN WordList : WordList[i] = word

ListedInv == \A p \in PLIDs : ongoing[p] # NoGame => listed(ongoing[p].word)

answered == understood(request, reply) \/ invalidZero(reply)

ReplyInv == reply # Silence => answered

-----------------------------------------------------------------------------
(* What the assumptions on the word list make of a game in progress.       *)

LEMMA GameFits ==
    ASSUME NEW game, GoodGame(game), listed(game.word)
    PROVE  /\ legalLength(game.word) /\ game.maxErrors <= MaxDigit
           /\ numTrials(game) \in Nat /\ numTrials(game) < MaxTrial
           /\ \A letter : getLetterPositions(letter, game.word) \subseteq 1..MaxWordSize
<1>1. PICK i \in DOMAIN WordList : WordList[i] = game.word
  BY DEF listed
<1>2. /\ game \in Games /\ misses(game) <= game.maxErrors
      /\ game.maxErrors = calculateMaxErrors(game.word)
      /\ game.numSucc + game.remaining <= Len(game.word)
      /\ game.remaining = Cardinality(hiddenPositions(game))
      /\ hiddenPositions(game) # {}
  BY DEF GoodGame, StillOpen, Economical, Counted
<1>3. game.remaining # 0
  BY <1>2, HiddenFinite
<1>4. /\ numTrials(game) \in Nat /\ game.numSucc \in Nat
      /\ game.remaining \in Nat /\ game.maxErrors \in Nat
      /\ Len(game.word) \in Nat
  BY <1>2, RulesAssumption DEF Games, numTrials
<1>5. /\ legalLength(game.word) /\ game.maxErrors <= MaxDigit
      /\ Len(game.word) + game.maxErrors <= MaxTrial
  BY <1>1, <1>2, MessagesAssumption
<1>6. MaxTrial \in Nat /\ MinWordSize \in Nat /\ MaxWordSize \in Nat
  BY ServerAssumption, MessagesAssumption
<1>7. numTrials(game) < MaxTrial
  BY <1>2, <1>3, <1>4, <1>5, <1>6 DEF misses
<1>8. Len(game.word) <= MaxWordSize
  BY <1>4, <1>5, <1>6 DEF legalLength
<1>9. \A letter : getLetterPositions(letter, game.word) \subseteq 1..MaxWordSize
  BY <1>4, <1>6, <1>8 DEF getLetterPositions
<1> QED
  BY <1>4, <1>5, <1>7, <1>9

-----------------------------------------------------------------------------
(* Games are of listed words: a game keeps its word, a new one is listed.  *)

LEMMA NewGameListed ==
    ASSUME GamesInv, [Next]_vars, NEW p \in PLIDs,
           ongoing[p] = NoGame, ongoing'[p] # NoGame
    PROVE  listed(ongoing'[p].word)
<1>1. ongoing \in [PLIDs -> Games \cup {NoGame}]
  BY DEF GamesInv
<1>2. ASSUME NEW q \in PLIDs, UDPRequest(q) PROVE listed(ongoing'[p].word)
  <2>1. CASE SNG(q) /\ StartNew(q)
    <3>1. PICK i \in DOMAIN WordList : saveGame(q, newGame(WordList[i]))
      BY <2>1 DEF StartNew
    <3>2. ongoing' = [ongoing EXCEPT ![q] = newGame(WordList[i])]
      BY <3>1 DEF saveGame
    <3>3. ongoing'[p] = newGame(WordList[i])
      BY <1>1, <3>2
    <3> QED
      BY <3>3 DEF newGame, listed
  <2>2. CASE SNG(q) /\ StartAgain(q)
    BY <2>2 DEF StartAgain
  <2>3. CASE QUT(q)
    BY <1>1, <2>3 DEF QUT, endGame, store
  <2>4. CASE REV(q)
    BY <2>4 DEF REV
  <2>5. ASSUME NEW letter \in Letters, NEW trial, PLG(q, letter, trial)
        PROVE  FALSE
    BY <1>1, <2>5 DEF PLG, LetterWithoutGame, LetterOutOfTurn, LetterRepeated,
                      LetterDuplicate, LetterPlayed, saveGame, endGame, store
  <2>6. ASSUME NEW word \in Words, NEW trial, PWG(q, word, trial)
        PROVE  FALSE
    BY <1>1, <2>6 DEF PWG, WordWithoutGame, WordOutOfTurn, WordRepeated, WordCrash,
                      WordDuplicate, WordPlayed, saveGame, endGame, store
  <2> QED
    BY <1>2, <2>1, <2>2, <2>3, <2>4, <2>5, <2>6 DEF UDPRequest, SNG
<1> QED
  BY <1>2 DEF Next, GHL, STA, GSB, Tick, Restart, vars

LEMMA ListedStep == GamesInv /\ ListedInv /\ [Next]_vars => ListedInv'
<1> SUFFICES ASSUME GamesInv, ListedInv, [Next]_vars,
                    NEW p \in PLIDs, ongoing'[p] # NoGame
             PROVE  listed(ongoing'[p].word)
  BY DEF ListedInv, listed
<1>1. CASE ongoing[p] = NoGame
  BY <1>1, NewGameListed
<1>2. CASE ongoing[p] # NoGame
  <2>1. ongoing'[p].word = ongoing[p].word
    BY <1>2, GrowthStep DEF growth, grown
  <2> QED
    BY <1>2, <2>1 DEF ListedInv
<1> QED
  BY <1>1, <1>2

-----------------------------------------------------------------------------
(* Every answer is one the player reads.                                   *)

LEMMA AnswerPLG ==
    ASSUME GamesInv, ListedInv, NEW p \in PLIDs, NEW letter \in Letters,
           NEW trial \in 1..MaxTrial, PLG(p, letter, trial)
    PROVE  answered'
<1> DEFINE game == ongoing[p]
           pos  == getLetterPositions(letter, game.word)
           n    == numTrials(game)
<1>1. request'.cmd = "PLG"
  BY DEF PLG
<1>2. ASSUME NEW status, NEW t, NEW found,
             reply' = RLG(status, t, found), t \in Nat, t <= MaxTrial,
             \/ status = "INV"
             \/ t # 0 /\ status \in {"WIN", "DUP", "NOK", "OVR"}
             \/ t # 0 /\ status = "OK" /\ found # {} /\ found \subseteq 1..MaxWordSize
      PROVE  answered'
  <2>1. /\ reply'.cmd = "RLG" /\ reply'.status = status
        /\ reply'.trial = t /\ reply'.pos = found
    BY <1>2 DEF RLG
  <2>2. t # 0 => twoDigits(t)
    BY <1>2, ServerAssumption DEF twoDigits
  <2>3. t # 0 => deserializeRLG(reply')
    BY <1>2, <2>1, <2>2 DEF deserializeRLG
  <2>4. t = 0 => invalidZero(reply')
    BY <1>2, <2>1 DEF invalidZero
  <2>5. response["PLG"] = "RLG"
    BY DEF response
  <2> QED
    BY <1>1, <2>1, <2>3, <2>4, <2>5 DEF answered, understood
<1>3. game # NoGame =>
        /\ GoodGame(game) /\ game \in Games
        /\ n \in Nat /\ n < MaxTrial /\ pos \subseteq 1..MaxWordSize
  BY GameFits DEF GamesInv, ListedInv, GoodGame
<1>4. trial \in Nat /\ trial # 0 /\ MaxTrial \in Nat
  BY ServerAssumption
<1>5. CASE LetterWithoutGame(p)
  BY <1>1, <1>5 DEF LetterWithoutGame, answered, understood, deserializeRLG, response
<1>6. CASE LetterOutOfTurn(p, trial)
  BY <1>2, <1>3, <1>4, <1>6 DEF LetterOutOfTurn
<1>7. CASE LetterRepeated(p, letter, trial)
  <2>1. game # NoGame /\ trial = n
    BY <1>7 DEF LetterRepeated
  <2>2. \/ reply' = RLG("INV", n, {})
        \/ reply' = RLG("DUP", n, {})
        \/ reply' = RLG(IF pos = {} THEN "NOK" ELSE "OK", n, pos)
    BY <1>7 DEF LetterRepeated, RLG_found
  <2> HIDE DEF game, pos, n
  <2> QED
    BY <1>2, <1>3, <1>4, <2>1, <2>2
<1>8. CASE LetterDuplicate(p, letter, trial)
  <2>1. game # NoGame /\ reply' = RLG("DUP", n, {})
        /\ triedBefore(game, "L", letter, n)
    BY <1>8 DEF LetterDuplicate
  <2>2. n # 0
    BY <2>1 DEF triedBefore
  <2> HIDE DEF game, n
  <2> QED
    BY <1>2, <1>3, <1>4, <2>1, <2>2
<1>9. CASE LetterPlayed(p, letter, trial)
  <2> DEFINE status == letterStatus(game, letter)
             played == playLetter(game, letter)
  <2>1. /\ game # NoGame
        /\ reply' = RLG(status, numTrials(played), IF status = "OK" THEN pos ELSE {})
    BY <1>9 DEF LetterPlayed
  <2>2. /\ status \in {"OVR", "NOK", "WIN", "OK"}
        /\ status = "OK" => pos # {}
    BY <1>3, <2>1, LetterStatusCases
  <2>3. numTrials(played) = n + 1
    BY <1>3, <2>1, LetterAppended, GrownByTrial
  <2> HIDE DEF game, pos, n, status, played
  <2>4. n + 1 \in Nat /\ n + 1 <= MaxTrial /\ n + 1 # 0
    BY <1>3, <1>4, <2>1
  <2> QED
    BY <1>2, <1>3, <2>1, <2>2, <2>3, <2>4
<1> QED
  BY <1>5, <1>6, <1>7, <1>8, <1>9 DEF PLG

LEMMA AnswerPWG ==
    ASSUME GamesInv, ListedInv, NEW p \in PLIDs, NEW word \in Words,
           NEW trial \in 1..MaxTrial, PWG(p, word, trial)
    PROVE  ReplyInv'
<1> DEFINE game == ongoing[p]
           n    == numTrials(game)
<1> USE DEF ReplyInv
<1>1. request'.cmd = "PWG"
  BY DEF PWG
<1>2. ASSUME NEW status, NEW t,
             reply' = RWG(status, t), t \in Nat, t <= MaxTrial,
             \/ status = "INV"
             \/ t # 0 /\ status \in {"WIN", "DUP", "NOK", "OVR"}
      PROVE  answered'
  <2>1. reply'.cmd = "RWG" /\ reply'.status = status /\ reply'.trial = t
    BY <1>2 DEF RWG
  <2>2. t # 0 => twoDigits(t)
    BY <1>2, ServerAssumption DEF twoDigits
  <2>3. t # 0 => deserializeRWG(reply')
    BY <1>2, <2>1, <2>2 DEF deserializeRWG
  <2>4. t = 0 => invalidZero(reply')
    BY <1>2, <2>1 DEF invalidZero
  <2>5. response["PWG"] = "RWG"
    BY DEF response
  <2> QED
    BY <1>1, <2>1, <2>3, <2>4, <2>5 DEF answered, understood
<1>3. game # NoGame =>
        GoodGame(game) /\ game \in Games /\ n \in Nat /\ n < MaxTrial
  BY GameFits DEF GamesInv, ListedInv, GoodGame
<1>4. trial \in Nat /\ trial # 0 /\ MaxTrial \in Nat
  BY ServerAssumption
<1>5. CASE WordWithoutGame(p)
  BY <1>1, <1>5 DEF WordWithoutGame, answered, understood, deserializeRWG, response
<1>6. CASE WordOutOfTurn(p, trial)
  BY <1>2, <1>3, <1>4, <1>6 DEF WordOutOfTurn
<1>7. CASE WordRepeated(p, word, trial)
  <2>1. game # NoGame /\ trial = n
    BY <1>7 DEF WordRepeated
  <2>2. reply' \in {RWG("INV", n), RWG("DUP", n), RWG("NOK", n)}
    BY <1>7 DEF WordRepeated
  <2> HIDE DEF game, n
  <2> QED
    BY <1>2, <1>3, <1>4, <2>1, <2>2
<1>8. CASE WordCrash(p, trial)
  BY <1>8 DEF WordCrash
<1>9. CASE WordDuplicate(p, word, trial)
  <2>1. game # NoGame /\ reply' = RWG("DUP", n)
        /\ triedBefore(game, "W", word, n)
    BY <1>9 DEF WordDuplicate
  <2>2. n # 0
    BY <2>1 DEF triedBefore
  <2> HIDE DEF game, n
  <2> QED
    BY <1>2, <1>3, <1>4, <2>1, <2>2
<1>10. CASE WordPlayed(p, word, trial)
  <2> DEFINE status == wordStatus(game, word)
             played == playWord(game, word)
  <2>1. game # NoGame /\ reply' = RWG(status, numTrials(played))
    BY <1>10 DEF WordPlayed
  <2>2. status \in {"OVR", "NOK", "WIN"}
    BY DEF wordStatus
  <2>3. numTrials(played) = n + 1
    BY <1>3, <2>1, WordAppended, GrownByTrial
  <2> HIDE DEF game, n, status, played
  <2>4. n + 1 \in Nat /\ n + 1 <= MaxTrial /\ n + 1 # 0
    BY <1>3, <1>4, <2>1
  <2> QED
    BY <1>2, <2>1, <2>2, <2>3, <2>4
<1> QED
  BY <1>5, <1>6, <1>7, <1>8, <1>9, <1>10 DEF PWG

LEMMA AnswerSNG ==
    ASSUME GamesInv, ListedInv, NEW p \in PLIDs, SNG(p)
    PROVE  answered'
<1>1. request'.cmd = "SNG" /\ response["SNG"] = "RSG"
  BY DEF SNG, response
<1>2. ASSUME NEW game, GoodGame(game), listed(game.word), reply' = RSG_OK(game)
      PROVE  answered'
  <2>1. legalLength(game.word) /\ game.maxErrors <= MaxDigit
    BY <1>2, GameFits
  <2>2. deserializeRSG(reply') /\ reply'.cmd = "RSG"
    BY <1>2, <2>1 DEF RSG_OK, deserializeRSG, legalLength
  <2> QED
    BY <1>1, <2>2 DEF answered, understood
<1>3. CASE StartNew(p)
  <2>1. PICK i \in DOMAIN WordList : reply' = RSG_OK(newGame(WordList[i]))
    BY <1>3 DEF StartNew
  <2>2. WordList[i] \in Words
    BY RulesAssumption
  <2>3. GoodGame(newGame(WordList[i]))
    BY <2>2, NewGameIsGood
  <2>4. listed(newGame(WordList[i]).word)
    BY DEF listed, newGame
  <2> QED
    BY <1>2, <2>1, <2>3, <2>4
<1>4. CASE StartAgain(p)
  <2>1. GoodGame(ongoing[p]) /\ listed(ongoing[p].word)
    BY <1>4 DEF StartAgain, GamesInv, ListedInv
  <2>2. reply' = RSG_OK(ongoing[p]) \/ reply' = [cmd |-> "RSG", status |-> "NOK"]
    BY <1>4 DEF StartAgain
  <2>3. CASE reply' = [cmd |-> "RSG", status |-> "NOK"]
    BY <1>1, <2>3 DEF answered, understood, deserializeRSG
  <2> QED
    BY <1>2, <2>1, <2>2, <2>3
<1> QED
  BY <1>3, <1>4 DEF SNG

(* The answers that carry no number.                                       *)
LEMMA AnswerPlain ==
    ASSUME GamesInv, ListedInv,
           \/ \E p \in PLIDs : QUT(p) \/ REV(p) \/ GHL(p) \/ STA(p)
           \/ GSB
    PROVE  answered'
<1> USE DEF answered, understood, response
<1>1. ASSUME NEW p \in PLIDs, QUT(p) PROVE answered'
  BY <1>1 DEF QUT, deserializeRQT
<1>2. ASSUME NEW p \in PLIDs, REV(p) PROVE answered'
  <2>1. CASE ongoing[p] = NoGame
    BY <1>2, <2>1 DEF REV, deserializeRRV
  <2>2. CASE ongoing[p] # NoGame
    <3>1. legalLength(ongoing[p].word)
      BY <2>2, GameFits DEF GamesInv, ListedInv
    <3> QED
      BY <1>2, <2>2, <3>1 DEF REV, deserializeRRV
  <2> QED
    BY <2>1, <2>2
<1>3. ASSUME NEW p \in PLIDs, GHL(p) PROVE answered'
  BY <1>3 DEF GHL, statusEnum
<1>4. ASSUME NEW p \in PLIDs, STA(p) PROVE answered'
  <2>1. /\ request'.cmd = "STA" /\ reply'.cmd = "RST"
        /\ reply'.status \in {"ACT", "FIN", "NOK"}
    BY <1>4 DEF STA
  <2> QED
    BY <2>1 DEF statusEnum
<1>5. CASE GSB
  BY <1>5 DEF GSB, statusEnum
<1> QED
  BY <1>1, <1>2, <1>3, <1>4, <1>5

LEMMA ReplyStep == GamesInv /\ ListedInv /\ ReplyInv /\ [Next]_vars => ReplyInv'
<1> SUFFICES ASSUME GamesInv, ListedInv, ReplyInv, [Next]_vars PROVE ReplyInv'
  OBVIOUS
<1>1. ASSUME NEW p \in PLIDs, UDPRequest(p) PROVE ReplyInv'
  BY <1>1, AnswerPLG, AnswerPWG, AnswerSNG, AnswerPlain DEF UDPRequest, ReplyInv
<1>2. CASE (\E p \in PLIDs : GHL(p) \/ STA(p)) \/ GSB
  BY <1>2, AnswerPlain DEF ReplyInv
<1>3. CASE UNCHANGED <<request, reply>>
  BY <1>3 DEF ReplyInv, answered
<1>4. CASE Restart
  BY <1>4 DEF Restart, ReplyInv
<1> QED
  BY <1>1, <1>2, <1>3, <1>4 DEF Next, Tick, vars

(* Whatever was played, no answer of the server is ever unreadable to the  *)
(* player, but for INV with trial 0: this holds of every word list whose   *)
(* words fit the fields of the messages.                                   *)
THEOREM RepliesAlwaysUnderstood == Spec => []RepliesUnderstood
<1>1. Init => ListedInv /\ ReplyInv
  BY DEF Init, ListedInv, ReplyInv
<1>2. IInv /\ IInv' /\ ListedInv /\ ReplyInv /\ [Next]_vars => ListedInv' /\ ReplyInv'
  BY ListedStep, ReplyStep DEF IInv
<1>3. ReplyInv => RepliesUnderstood
  BY DEF ReplyInv, answered, RepliesUnderstood
<1> QED
  BY <1>1, <1>2, <1>3, Invariance, PTL DEF Spec
===============================================================================

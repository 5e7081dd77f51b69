----------------------------- MODULE GameServer -----------------------------
(***************************************************************************)
(* The Game Server with every request handled in one step.  The UDP        *)
(* listener (src/GS/GS.c) is one process serving one datagram after the    *)
(* other, so its requests really are sequential; the TCP requests only     *)
(* read.  The files are seen here as values that change atomically: the    *)
(* window inside saveGame, and crashes in the middle of a handler, are the *)
(* subject of a module of their own.                                       *)
(*                                                                         *)
(* ongoing[p] is GAMES/<p>.txt, last[p] is GAMES/<p>_last.txt, scores is   *)
(* the directory SCORES, scoreboard is SCORES/SCOREBOARD.txt.              *)
(***************************************************************************)
EXTENDS HangmanRules

CONSTANTS
    PLIDs,              \* player numbers
    NoGame,             \* no such file
    Sequential,         \* TRUE unless the server runs with -r
    WithHint,           \* words whose hint file is in the directory hints
    ScoreboardMaxItems, \* 10
    MaxTime,            \* bound on the clock, in seconds
    MaxTrial            \* bound on the trial number of a request (99)

ASSUME ServerAssumption ==
    /\ PLIDs \subseteq Nat
    /\ NoGame \notin Games
    /\ Sequential \in BOOLEAN
    /\ WithHint \subseteq Words
    /\ ScoreboardMaxItems \in Nat \ {0}
    /\ MaxTime \in Nat
    /\ MaxTrial \in 1..99

VARIABLES
    ongoing, last, scores, scoreboard,
    wordPtr, \* word_list_seq_ptr of the UDP process
    up,      \* the UDP process is running
    now,     \* the wall clock, in seconds
    request, reply \* the last datagram or TCP request served and its answer

store == <<ongoing, last, scores, scoreboard>>
vars == <<ongoing, last, scores, scoreboard, wordPtr, up, now, request, reply>>

Silence == [cmd |-> "none"]

-----------------------------------------------------------------------------
(* Scores.  A score file is named after the score, the player and the      *)
(* second the game was won: a second file of that name replaces the first. *)

(* Mutant: the score is taken before the winning trial is counted.          *)
newScore_tooEarly(p, game) ==
    [score |-> calculateScore(game), PLID |-> p, stamp |-> now,
     word |-> game.word, numSucc |-> game.numSucc,
     numTrials |-> numTrials(game) - 1]

newScore(p, game) ==
    [score |-> calculateScore(game), PLID |-> p, stamp |-> now,
     word |-> game.word, numSucc |-> game.numSucc,
     numTrials |-> numTrials(game)]

sameFile(s, r) == s.score = r.score /\ s.PLID = r.PLID /\ s.stamp = r.stamp

(* The order of alphasort on the file names.                               *)
fileBefore(s, r) ==
    \/ s.score < r.score
    \/ s.score = r.score /\ s.PLID < r.PLID
    \/ s.score = r.score /\ s.PLID = r.PLID /\ s.stamp < r.stamp

(* Mutant: the files from the first in that order.                          *)
generateScoreboard_ascending(files) ==
    LET n == Cardinality(files)
        lines == IF n < ScoreboardMaxItems THEN n ELSE ScoreboardMaxItems
    IN  [k \in 1..lines |->
            CHOOSE s \in files :
                Cardinality({r \in files : fileBefore(s, r)}) = n - k]

(* The files from the last in that order, at most ScoreboardMaxItems.      *)
generateScoreboard(files) ==
    LET n == Cardinality(files)
        lines == IF n < ScoreboardMaxItems THEN n ELSE ScoreboardMaxItems
    IN  [k \in 1..lines |->
            CHOOSE s \in files :
                Cardinality({r \in files : fileBefore(s, r)}) = k - 1]

registerScore(score) ==
    /\ scores' = {s \in scores : ~sameFile(s, score)} \cup {score}
    /\ scoreboard' = generateScoreboard(scores')

-----------------------------------------------------------------------------
Init ==
    /\ ongoing = [p \in PLIDs |-> NoGame]
    /\ last = [p \in PLIDs |-> NoGame]
    /\ scores = {} /\ scoreboard = <<>>
    /\ wordPtr = 0 /\ up = TRUE /\ now = 0
    /\ request = Silence /\ reply = Silence

saveGame(p, game) ==
    /\ ongoing' = [ongoing EXCEPT ![p] = game]
    /\ UNCHANGED <<last, scores, scoreboard>>

(* Mutant: the outcome is not recorded.                                     *)
endGame_keepsOutcome(p, game, outcome) ==
    /\ last' = [last EXCEPT ![p] = game]
    /\ ongoing' = [ongoing EXCEPT ![p] = NoGame]
    /\ IF outcome = "win" THEN registerScore(newScore(p, game))
                          ELSE UNCHANGED <<scores, scoreboard>>

endGame(p, game, outcome) ==
    /\ last' = [last EXCEPT ![p] = [game EXCEPT !.outcome = outcome]]
    /\ ongoing' = [ongoing EXCEPT ![p] = NoGame]
    /\ IF outcome = "win" THEN registerScore(newScore(p, game))
                          ELSE UNCHANGED <<scores, scoreboard>>

chooseWordListEntry(entry) ==
    IF Sequential
    THEN /\ entry = (wordPtr % Len(WordList)) + 1
         /\ wordPtr' = entry
    ELSE UNCHANGED wordPtr

-----------------------------------------------------------------------------
(* SNG: start a game, or confirm one that has no trial yet.                *)

RSG_OK(game) ==
    [cmd |-> "RSG", status |-> "OK", n_letters |-> Len(game.word),
     max_errors |-> game.maxErrors]

StartNew(p) ==
    \E entry \in DOMAIN WordList :
        /\ ongoing[p] = NoGame
        /\ chooseWordListEntry(entry)
        /\ saveGame(p, newGame(WordList[entry]))
        /\ reply' = RSG_OK(newGame(WordList[entry]))

StartAgain(p) ==
    /\ ongoing[p] # NoGame
    /\ reply' = IF numTrials(ongoing[p]) = 0
                THEN RSG_OK(ongoing[p])
                ELSE [cmd |-> "RSG", status |-> "NOK"]
    /\ UNCHANGED <<ongoing, last, scores, scoreboard, wordPtr>>

SNG(p) ==
    /\ up
    /\ request' = [cmd |-> "SNG", PLID |-> p]
    /\ StartNew(p) \/ StartAgain(p)
    /\ UNCHANGED <<up, now>>

-----------------------------------------------------------------------------
(* PLG: play a letter.                                                     *)

RLG(status, trial, pos) ==
    [cmd |-> "RLG", status |-> status, trial |-> trial, pos |-> pos]

(* Mutant: a letter that is not there is answered with no positions.        *)
RLG_found_empty(game, letter) ==
    RLG("OK", numTrials(game), getLetterPositions(letter, game.word))

(* No positions are sent unless the letter is in the word.                 *)
RLG_found(game, letter) ==
    LET pos == getLetterPositions(letter, game.word) IN
    RLG(IF pos = {} THEN "NOK" ELSE "OK", numTrials(game), pos)

(* loadGame fails, so does the handler.                                    *)
LetterWithoutGame(p) ==
    /\ ongoing[p] = NoGame
    /\ reply' = [cmd |-> "RLG", status |-> "ERR"]
    /\ UNCHANGED store

LetterOutOfTurn(p, trial) ==
    /\ ongoing[p] # NoGame
    /\ trial \notin {numTrials(ongoing[p]), numTrials(ongoing[p]) + 1}
    /\ reply' = RLG("INV", numTrials(ongoing[p]), {})
    /\ saveGame(p, ongoing[p])

(* The last trial again.  When that trial was a word, the code compares    *)
(* the letter with the low byte of the word's address.                     *)
sameLetter(trial, letter) ==
    IF trial.type = "L" THEN {trial.guess = letter}
    ELSE IF letter \in AliasLetters THEN BOOLEAN ELSE {FALSE}

(* Mutant: a retransmission is registered as one more trial.                *)
LetterRepeated_countsAgain(p, letter, trial) ==
    LET game == ongoing[p] IN
    /\ game # NoGame
    /\ trial = numTrials(game)
    /\ \E same \in sameLetter(game.trials[trial], letter) :
         IF ~same THEN /\ reply' = RLG("INV", trial, {})
                       /\ saveGame(p, game)
         ELSE /\ reply' = RLG_found(game, letter)
              /\ saveGame(p, registerGameTrial(game, game.trials[trial]))

(* Mutant: a retransmission is compared with itself too.                    *)
LetterRepeated_seesItself(p, letter, trial) ==
    LET game == ongoing[p] IN
    /\ game # NoGame
    /\ trial = numTrials(game)
    /\ \E same \in sameLetter(game.trials[trial], letter) :
         reply' = IF ~same THEN RLG("INV", trial, {})
                  ELSE IF triedBefore(game, "L", letter, trial)
                  THEN RLG("DUP", trial, {})
                  ELSE RLG_found(game, letter)
    /\ saveGame(p, game)

LetterRepeated(p, letter, trial) ==
    LET game == ongoing[p] IN
    /\ game # NoGame
    /\ trial = numTrials(game)
    /\ \E same \in sameLetter(game.trials[trial], letter) :
         reply' = IF ~same THEN RLG("INV", trial, {})
                  ELSE IF triedBefore(game, "L", letter, trial - 1)
                  THEN RLG("DUP", trial, {})
                  ELSE RLG_found(game, letter)
    /\ saveGame(p, game)

LetterDuplicate(p, letter, trial) ==
    LET game == ongoing[p] IN
    /\ game # NoGame
    /\ trial = numTrials(game) + 1
    /\ triedBefore(game, "L", letter, numTrials(game))
    /\ reply' = RLG("DUP", numTrials(game), {})
    /\ UNCHANGED store

LetterPlayed(p, letter, trial) ==
    LET game   == ongoing[p]
        status == letterStatus(game, letter)
        played == playLetter(game, letter)
    IN
    /\ game # NoGame
    /\ trial = numTrials(game) + 1
    /\ ~triedBefore(game, "L", letter, numTrials(game))
    /\ reply' = RLG(status, numTrials(played),
                    IF status = "OK"
                    THEN getLetterPositions(letter, game.word) ELSE {})
    /\ \/ status = "WIN" /\ endGame(p, played, "win")
       \/ status = "OVR" /\ endGame(p, played, "fail")
       \/ status \in {"OK", "NOK"} /\ saveGame(p, played)

PLG(p, letter, trial) ==
    /\ up
    /\ request' = [cmd |-> "PLG", PLID |-> p, guess |-> letter, trial |-> trial]
    /\ \/ LetterWithoutGame(p)
       \/ LetterOutOfTurn(p, trial)
       \/ LetterRepeated(p, letter, trial)
       \/ LetterDuplicate(p, letter, trial)
       \/ LetterPlayed(p, letter, trial)
    /\ UNCHANGED <<wordPtr, up, now>>

-----------------------------------------------------------------------------
(* PWG: guess the word.                                                    *)

RWG(status, trial) == [cmd |-> "RWG", status |-> status, trial |-> trial]

WordWithoutGame(p) ==
    /\ ongoing[p] = NoGame
    /\ reply' = [cmd |-> "RWG", status |-> "ERR"]
    /\ UNCHANGED <<ongoing, last, scores, scoreboard, up>>

WordOutOfTurn(p, trial) ==
    /\ ongoing[p] # NoGame
    /\ trial \notin {numTrials(ongoing[p]), numTrials(ongoing[p]) + 1}
    /\ reply' = RWG("INV", numTrials(ongoing[p]))
    /\ saveGame(p, ongoing[p])
    /\ UNCHANGED up

(* The last trial again.  When that trial was a letter, the code follows   *)
(* the letter as if it were the address of a word: the comparison has any  *)
(* result, or the process dies of the access (WordCrash).                  *)
sameWord(trial, word) ==
    IF trial.type = "W" THEN {trial.guess = word} ELSE BOOLEAN

WordRepeated(p, word, trial) ==
    LET game == ongoing[p] IN
    /\ game # NoGame
    /\ trial = numTrials(game)
    /\ \E same \in sameWord(game.trials[trial], word) :
         reply' = IF ~same THEN RWG("INV", trial)
                  ELSE IF triedBefore(game, "W", word, trial - 1)
                  THEN RWG("DUP", trial)
                  ELSE RWG("NOK", trial)
    /\ saveGame(p, game)
    /\ UNCHANGED up

WordCrash(p, trial) ==
    LET game == ongoing[p] IN
    /\ game # NoGame
    /\ trial = numTrials(game)
    /\ game.trials[trial].type = "L"
    /\ up' = FALSE
    /\ reply' = Silence
    /\ UNCHANGED store

WordDuplicate(p, word, trial) ==
    LET game == ongoing[p] IN
    /\ game # NoGame
    /\ trial = numTrials(game) + 1
    /\ triedBefore(game, "W", word, numTrials(game))
    /\ reply' = RWG("DUP", numTrials(game))
    /\ UNCHANGED <<ongoing, last, scores, scoreboard, up>>

WordPlayed(p, word, trial) ==
    LET game   == ongoing[p]
        status == wordStatus(game, word)
        played == playWord(game, word)
    IN
    /\ game # NoGame
    /\ trial = numTrials(game) + 1
    /\ ~triedBefore(game, "W", word, numTrials(game))
    /\ reply' = RWG(status, numTrials(played))
    /\ \/ status = "WIN" /\ endGame(p, played, "win")
       \/ status = "OVR" /\ endGame(p, played, "fail")
       \/ status = "NOK" /\ saveGame(p, played)
    /\ UNCHANGED up

PWG(p, word, trial) ==
    /\ up
    /\ request' = [cmd |-> "PWG", PLID |-> p, guess |-> word, trial |-> trial]
    /\ \/ WordWithoutGame(p)
       \/ WordOutOfTurn(p, trial)
       \/ WordRepeated(p, word, trial)
       \/ WordCrash(p, trial)
       \/ WordDuplicate(p, word, trial)
       \/ WordPlayed(p, word, trial)
    /\ UNCHANGED <<wordPtr, now>>

-----------------------------------------------------------------------------
(* QUT: give the game up.                                                  *)
QUT(p) ==
    /\ up
    /\ request' = [cmd |-> "QUT", PLID |-> p]
    /\ \/ /\ ongoing[p] = NoGame
          /\ reply' = [cmd |-> "RQT", status |-> "NOK"]
          /\ UNCHANGED store
       \/ /\ ongoing[p] # NoGame
          /\ reply' = [cmd |-> "RQT", status |-> "OK"]
          /\ endGame(p, ongoing[p], "quit")
    /\ UNCHANGED <<wordPtr, up, now>>

(* REV: ask for the word.                                                  *)
REV(p) ==
    /\ up
    /\ request' = [cmd |-> "REV", PLID |-> p]
    /\ reply' = IF ongoing[p] = NoGame
                THEN [cmd |-> "RRV", status |-> "ERR"]
                ELSE [cmd |-> "RRV", word |-> ongoing[p].word]
    /\ UNCHANGED <<ongoing, last, scores, scoreboard, wordPtr, up, now>>

-----------------------------------------------------------------------------
(* The TCP requests, served by processes that outlive the UDP one.         *)

GHL(p) ==
    /\ request' = [cmd |-> "GHL", PLID |-> p]
    /\ reply' = IF ongoing[p] # NoGame /\ ongoing[p].word \in WithHint
                THEN [cmd |-> "RHL", status |-> "OK", hintOf |-> ongoing[p].word]
                ELSE [cmd |-> "RHL", status |-> "NOK"]
    /\ UNCHANGED <<ongoing, last, scores, scoreboard, wordPtr, up, now>>

STA(p) ==
    /\ request' = [cmd |-> "STA", PLID |-> p]
    /\ reply' = CASE ongoing[p] # NoGame ->
                       [cmd |-> "RST", status |-> "ACT", game |-> ongoing[p]]
                  [] ongoing[p] = NoGame /\ last[p] # NoGame ->
                       [cmd |-> "RST", status |-> "FIN", game |-> last[p]]
                  [] OTHER -> [cmd |-> "RST", status |-> "NOK"]
    /\ UNCHANGED <<ongoing, last, scores, scoreboard, wordPtr, up, now>>

GSB ==
    /\ request' = [cmd |-> "GSB"]
    /\ reply' = IF scoreboard = <<>>
                THEN [cmd |-> "RSB", status |-> "EMPTY"]
                ELSE [cmd |-> "RSB", status |-> "OK", lines |-> scoreboard]
    /\ UNCHANGED <<ongoing, last, scores, scoreboard, wordPtr, up, now>>

-----------------------------------------------------------------------------
Tick ==
    /\ now < MaxTime
    /\ now' = now + 1
    /\ UNCHANGED <<ongoing, last, scores, scoreboard, wordPtr, up, request, reply>>

(* The server is stopped, or was dead, and is started again: only what is  *)
(* in files survives.                                                      *)
Restart ==
    /\ up' = TRUE /\ wordPtr' = 0
    /\ request' = Silence /\ reply' = Silence
    /\ UNCHANGED <<ongoing, last, scores, scoreboard, now>>

UDPRequest(p) ==
    \/ SNG(p) \/ QUT(p) \/ REV(p)
    \/ \E trial \in 1..MaxTrial :
         \/ \E letter \in Letters : PLG(p, letter, trial)
         \/ \E word \in Words : PWG(p, word, trial)

Next ==
    \/ \E p \in PLIDs : UDPRequest(p) \/ GHL(p) \/ STA(p)
    \/ GSB
    \/ Tick
    \/ Restart

Spec == Init /\ [][Next]_vars

-----------------------------------------------------------------------------
(* Types.                                                                  *)

ScoreFiles ==
    [score : 0..100, PLID : PLIDs, stamp : 0..MaxTime, word : Words,
     numSucc : Nat, numTrials : Nat]

(* Every file holds what the code can load back, the word pointer stays    *)
(* within the list and the clock within its bound.                         *)
TypeOK ==
    /\ ongoing \in [PLIDs -> Games \cup {NoGame}]
    /\ last \in [PLIDs -> Games \cup {NoGame}]
    /\ \A p \in PLIDs :
         /\ ongoing[p] # NoGame => ongoing[p].outcome = "ongoing"
         /\ last[p] # NoGame => last[p].outcome # "ongoing"
    /\ scores \subseteq ScoreFiles
    /\ scoreboard \in Seq(ScoreFiles)
    /\ wordPtr \in 0..Len(WordList)
    /\ up \in BOOLEAN
    /\ now \in 0..MaxTime

-----------------------------------------------------------------------------
(* The counters of every game in progress agree with its trials: the       *)
(* incremental updates of fulfillPLGRequest never drift from the trials,   *)
(* over any sequence of letters, words, repetitions and restarts.          *)
CountersAgree == \A p \in PLIDs : ongoing[p] # NoGame => Counted(ongoing[p])

(* A game in progress is never already solved or already lost: the request *)
(* that solves or loses it also ends it.                                   *)
OngoingIsOpen == \A p \in PLIDs : ongoing[p] # NoGame => StillOpen(ongoing[p])

(* No guess costs its player twice: a letter or word already tried is      *)
(* never registered again, in a running or a finished game.                *)
NoGuessTwice ==
    \A p \in PLIDs :
        /\ ongoing[p] # NoGame => TriedOnce(ongoing[p])
        /\ last[p] # NoGame => TriedOnce(last[p])

(* Every finished game was decided by the rules: lost by the one miss too  *)
(* many, won by its last trial within the misses allowed, or given up      *)
(* undecided.                                                              *)
FinishedIsDecided == \A p \in PLIDs : last[p] # NoGame => Decided(last[p])

(* The number of trials stays below what two digits can say in a message:  *)
(* a game in progress has fewer trials than letters to find plus misses    *)
(* allowed, so trial numbers never outgrow the protocol.                   *)
TrialsFitProtocol ==
    \A p \in PLIDs : ongoing[p] # NoGame =>
        numTrials(ongoing[p]) < Len(ongoing[p].word) + ongoing[p].maxErrors

-----------------------------------------------------------------------------
(* Scores.                                                                 *)

(* A won game that is the player's most recent one has its score file,     *)
(* with a score between 1 and 100.                                         *)
WinHasScore ==
    \A p \in PLIDs :
        last[p] # NoGame /\ last[p].outcome = "win" =>
            \E s \in scores :
                /\ s.PLID = p /\ s.word = last[p].word
                /\ s.numSucc = last[p].numSucc
                /\ s.numTrials = numTrials(last[p])
                /\ s.score = calculateScore(last[p]) /\ s.score \in 1..100

(* The scoreboard ranks the score files: no line twice, better scores      *)
(* first, and no file left out that beats one on the board.                *)
ScoreboardRanks ==
    LET listed == {scoreboard[k] : k \in DOMAIN scoreboard} IN
    /\ listed \subseteq scores
    /\ Cardinality(listed) = Len(scoreboard)
    /\ \A j, k \in DOMAIN scoreboard :
         j < k => scoreboard[j].score >= scoreboard[k].score
    /\ Len(scoreboard) < ScoreboardMaxItems => listed = scores
    /\ \A s \in scores \ listed, k \in DOMAIN scoreboard :
         s.score <= scoreboard[k].score
    /\ Len(scoreboard) <= ScoreboardMaxItems

-----------------------------------------------------------------------------
(* Retransmission.  A player that got no answer may send the same trial    *)
(* again, and the network may deliver a datagram twice.                    *)

isTrial(msg) == msg.cmd \in {"PLG", "PWG"}

servedAgain == isTrial(request) /\ request' = request

(* Serving the same trial twice in a row changes nothing the second time,  *)
(* not even when the first one ended the game.                             *)
RetransmissionHarmless == [][servedAgain => UNCHANGED store]_vars

(* The repetition has the kind of the trial it repeats.                    *)
comparable ==
    LET game == ongoing[request.PLID] IN
    /\ game # NoGame
    /\ numTrials(game) > 0
    /\ game.trials[numTrials(game)].type =
         IF request.cmd = "PLG" THEN "L" ELSE "W"

(* While the game goes on, the second answer is the first one again.       *)
RetransmissionRepeatsReply ==
    [][servedAgain /\ comparable => reply' = reply]_vars

(* The promise as the statement words it: the server repeats the previous  *)
(* answer, whatever it was, as long as both requests were answered.        *)
RetransmissionAnswered ==
    [][servedAgain /\ reply # Silence /\ reply' # Silence => reply' = reply]_vars

-----------------------------------------------------------------------------
(* A game never changes its word or forgets a trial: a request adds at     *)
(* most one trial, and when it ends the game the whole game moves to the   *)
(* player's last game.                                                     *)
grown(old, new) ==
    /\ new.word = old.word
    /\ numTrials(new) \in numTrials(old)..(numTrials(old) + 1)
    /\ SubSeq(new.trials, 1, numTrials(old)) = old.trials

GamesOnlyGrow ==
    [][\A p \in PLIDs :
         ongoing[p] # NoGame =>
            IF ongoing'[p] # NoGame THEN grown(ongoing[p], ongoing'[p])
                                    ELSE grown(ongoing[p], last'[p])]_vars
=============================================================================

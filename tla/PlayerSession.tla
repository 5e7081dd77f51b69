---------------------------- MODULE PlayerSession ----------------------------
(***************************************************************************)
(* One player process (src/player) talking to the Game Server over UDP.    *)
(* The player handles one command at a time: a hook checks it and writes   *)
(* the request, sendUDPMessage sends it and waits five seconds for a       *)
(* datagram, whatever arrives is taken for the answer, and the command's   *)
(* callback updates the player's copy of the game.                         *)
(*                                                                         *)
(* `hint` and `scoreboard` only print and are left out; `state` changes    *)
(* the player and is here, read over TCP at one instant.                   *)
(***************************************************************************)
EXTENDS Messages

CONSTANTS
    Me,      \* the PLID the player gives
    Networks, \* the networks considered
    UIntMax  \* the largest unsigned int

(* A lossy network drops datagrams; on a failing one a sendto of the       *)
(* server may also return an error; a disorderly one delivers datagrams    *)
(* twice, in any order and after the player stopped waiting.  A reliable   *)
(* one does nothing of the kind.                                           *)
ASSUME SessionAssumption ==
    /\ Me \in PLIDs
    /\ Networks \subseteq {"reliable", "lossy", "failing", "disorderly"}
    /\ UIntMax \in Nat /\ UIntMax > MaxTrial + 1

VARIABLES
    in_game, known,   \* state->in_game, and whether state->PLID is set
    mask,             \* state->word
    remaining_errors, trial,
    running, leaving, \* the process runs, and is in gracefulShutdown
    command, out,     \* the UDP command being handled, and its request
    waiting,          \* in recvfrom
    result,           \* how the last UDP command ended
    requests, replies, \* datagrams in flight
    network           \* which network they are on

board == <<in_game, known, mask, remaining_errors, trial>>
player == <<board, running, leaving, command, out, waiting, result>>
server == <<store, wordPtr, up, now, request, reply>>
sessionVars == <<vars, player, requests, replies, network>>

-----------------------------------------------------------------------------
PlayerInit ==
    /\ in_game = FALSE /\ known = FALSE /\ mask = <<>>
    /\ remaining_errors = 0 /\ trial = 0
    /\ running = TRUE /\ leaving = FALSE
    /\ command = "none" /\ out = Silence /\ waiting = FALSE
    /\ result = "SUCCESS"

SessionInit ==
    Init /\ PlayerInit /\ requests = {} /\ replies = {} /\ network \in Networks

Idle == running /\ ~waiting

send(cmd, msg) ==
    /\ command' = cmd /\ out' = msg /\ waiting' = TRUE
    /\ requests' = requests \cup {msg}
    /\ UNCHANGED <<server, running, result, replies>>

-----------------------------------------------------------------------------
(* The commands: what the hook checks and what is sent.                    *)

Start ==
    /\ Idle /\ ~in_game
    /\ send("start", [cmd |-> "SNG", PLID |-> Me])
    /\ UNCHANGED <<board, leaving>>

plusOne(n) == IF n = UIntMax THEN 0 ELSE n + 1
minusOne(n) == IF n = 0 THEN UIntMax ELSE n - 1

(* The player counts on past the last trial number the protocol has; the   *)
(* model stops it at the first that the server refuses.                    *)
CountBound == trial # MaxTrial + 1

Play(letter) ==
    /\ Idle /\ in_game /\ CountBound
    /\ trial' = plusOne(trial)
    /\ send("play", [cmd |-> "PLG", PLID |-> Me, guess |-> letter, trial |-> trial'])
    /\ UNCHANGED <<in_game, known, mask, remaining_errors, leaving>>

Guess(w) ==
    /\ Idle /\ in_game /\ CountBound
    /\ Len(w) = Len(mask)
    /\ trial' = plusOne(trial)
    /\ send("guess", [cmd |-> "PWG", PLID |-> Me, guess |-> w, trial |-> trial'])
    /\ UNCHANGED <<in_game, known, mask, remaining_errors, leaving>>

QuitMessage == [cmd |-> "QUT", PLID |-> Me]

(* Mutant: the player leaves the game without waiting for the answer.      *)
Quit_endsAtOnce(cmd) ==
    /\ Idle /\ in_game
    /\ in_game' = FALSE /\ mask' = <<>>
    /\ send(cmd, QuitMessage)
    /\ UNCHANGED <<known, remaining_errors, trial, leaving>>

(* `quit`, or `exit` in a game.                                            *)
Quit(cmd) ==
    /\ Idle /\ in_game
    /\ send(cmd, QuitMessage)
    /\ UNCHANGED <<board, leaving>>

Reveal ==
    /\ Idle /\ in_game
    /\ send("reveal", [cmd |-> "REV", PLID |-> Me])
    /\ UNCHANGED <<board, leaving>>

ExitNow ==
    /\ Idle /\ ~in_game
    /\ running' = FALSE
    /\ UNCHANGED <<server, board, leaving, command, out, waiting, result, requests, replies>>

endGame_player == in_game' = FALSE /\ mask' = <<>>

(* `state`: the answer is the file read while the player waits.            *)
State ==
    /\ Idle /\ known
    /\ ongoing[Me] = NoGame /\ last[Me] # NoGame
    /\ endGame_player
    /\ UNCHANGED <<server, known, remaining_errors, trial, running, leaving,
                   command, out, waiting, result, requests, replies>>

(* Ctrl-C or end of input, at the prompt or while a command waits: in a    *)
(* game, `exit` is dispatched before the end, and again by the next Ctrl-C.*)
Interrupt ==
    /\ running
    /\ \/ /\ ~in_game
          /\ running' = FALSE
          /\ UNCHANGED <<server, leaving, command, out, waiting, result,
                         requests, replies>>
       \/ /\ in_game
          /\ leaving' = TRUE
          /\ send("exit", QuitMessage)
    /\ UNCHANGED board

(* The process ends without a word, or is started again.                   *)
Die ==
    /\ running
    /\ running' = FALSE
    /\ UNCHANGED <<server, board, leaving, command, out, waiting, result,
                   requests, replies>>

(* A new process has a new socket; it is started when the requests of the  *)
(* old one have left the network.                                          *)
Launch ==
    /\ ~running /\ requests = {}
    /\ in_game' = FALSE /\ known' = FALSE /\ mask' = <<>>
    /\ remaining_errors' = 0 /\ trial' = 0
    /\ running' = TRUE /\ leaving' = FALSE
    /\ command' = "none" /\ out' = Silence /\ waiting' = FALSE
    /\ result' = "SUCCESS"
    /\ replies' = {}
    /\ UNCHANGED <<server, requests>>

-----------------------------------------------------------------------------
(* The answer.                                                             *)

(* A disorderly network may deliver a datagram once more.                  *)
afterDelivery(flight, msg) ==
    {flight \ {msg}} \cup (IF network = "disorderly" THEN {flight} ELSE {})

(* Mutant: the PLID is not kept.                                           *)
startCallback_forgetsPLID(msg) ==
    IF msg.status = "OK"
    THEN /\ mask' = [i \in 1..msg.n_letters |-> Hidden]
         /\ remaining_errors' = msg.max_errors
         /\ trial' = 0 /\ in_game' = TRUE
         /\ UNCHANGED known
    ELSE UNCHANGED board

startCallback(msg) ==
    IF msg.status = "OK"
    THEN /\ mask' = [i \in 1..msg.n_letters |-> Hidden]
         /\ remaining_errors' = msg.max_errors
         /\ trial' = 0 /\ known' = TRUE /\ in_game' = TRUE
    ELSE UNCHANGED board

(* Mutant: a duplicate guess keeps its trial number.                       *)
trialCallback_dupCounts(msg) ==
    \/ msg.status \in {"OVR", "WIN"}
       /\ endGame_player /\ UNCHANGED <<known, remaining_errors, trial>>
    \/ msg.status = "NOK"
       /\ remaining_errors' = minusOne(remaining_errors)
       /\ UNCHANGED <<in_game, known, mask, trial>>
    \/ msg.status = "DUP" /\ UNCHANGED board
    \/ msg.status = "ERR"
       /\ trial' = minusOne(trial)
       /\ UNCHANGED <<in_game, known, mask, remaining_errors>>
    \/ msg.status = "INV"
       /\ trial' = msg.trial
       /\ UNCHANGED <<in_game, known, mask, remaining_errors>>

(* Mutant: the case of a duplicate has no break.                           *)
trialCallback_dupFallsThrough(msg) ==
    \/ msg.status \in {"OVR", "WIN"}
       /\ endGame_player /\ UNCHANGED <<known, remaining_errors, trial>>
    \/ msg.status = "NOK"
       /\ remaining_errors' = minusOne(remaining_errors)
       /\ UNCHANGED <<in_game, known, mask, trial>>
    \/ msg.status = "DUP"
       /\ trial' = minusOne(trial)
       /\ remaining_errors' = minusOne(remaining_errors)
       /\ UNCHANGED <<in_game, known, mask>>
    \/ msg.status = "ERR"
       /\ trial' = minusOne(trial)
       /\ UNCHANGED <<in_game, known, mask, remaining_errors>>
    \/ msg.status = "INV"
       /\ trial' = msg.trial
       /\ UNCHANGED <<in_game, known, mask, remaining_errors>>

(* What playCallback and guessCallback do alike.                           *)
trialCallback(msg) ==
    \/ msg.status \in {"OVR", "WIN"}
       /\ endGame_player /\ UNCHANGED <<known, remaining_errors, trial>>
    \/ msg.status = "NOK"
       /\ remaining_errors' = minusOne(remaining_errors)
       /\ UNCHANGED <<in_game, known, mask, trial>>
    \/ msg.status \in {"DUP", "ERR"}
       /\ trial' = minusOne(trial)
       /\ UNCHANGED <<in_game, known, mask, remaining_errors>>
    \/ msg.status = "INV"
       /\ trial' = msg.trial
       /\ UNCHANGED <<in_game, known, mask, remaining_errors>>

playCallback(msg) ==
    IF msg.status = "OK"
    THEN /\ mask' = [i \in DOMAIN mask |->
                        IF i \in msg.pos THEN out.guess ELSE mask[i]]
         /\ UNCHANGED <<in_game, known, remaining_errors, trial>>
    ELSE trialCallback(msg)

quitCallback(msg) ==
    IF msg.status = "OK"
    THEN endGame_player /\ UNCHANGED <<known, remaining_errors, trial>>
    ELSE UNCHANGED board

exitCallback == endGame_player /\ UNCHANGED <<known, remaining_errors, trial>>

callback(msg) ==
    \/ command = "start" /\ startCallback(msg)
    \/ command = "play" /\ playCallback(msg)
    \/ command = "guess" /\ trialCallback(msg)
    \/ command = "quit" /\ quitCallback(msg)
    \/ command = "exit" /\ exitCallback
    \/ command = "reveal" /\ UNCHANGED board

Receive ==
    /\ running /\ waiting
    /\ \E msg \in replies :
         /\ replies' \in afterDelivery(replies, msg)
         /\ \/ /\ understood(out, msg)
               /\ callback(msg)
               /\ result' = "SUCCESS"
               /\ running' = (~leaving /\ command # "exit")
            \/ /\ ~understood(out, msg)
               /\ result' = "EDESERIALIZE"
               /\ running' = ~leaving
               /\ UNCHANGED board
    /\ waiting' = FALSE
    /\ UNCHANGED <<server, leaving, command, out, requests>>

(* Mutant: after a timeout the trial number is taken back.                 *)
Timeout_undoesTrial ==
    /\ running /\ waiting
    /\ network = "disorderly" \/ (requests = {} /\ replies = {})
    /\ waiting' = FALSE
    /\ trial' = IF isTrial(out) THEN minusOne(trial) ELSE trial
    /\ result' = "ECOMMS_TIMEO"
    /\ running' = ~leaving
    /\ UNCHANGED <<server, in_game, known, mask, remaining_errors, leaving,
                   command, out, requests, replies>>

(* Nothing came within five seconds.  Unless the network is disorderly     *)
(* that is longer than any datagram takes.                                 *)
Timeout ==
    /\ running /\ waiting
    /\ network = "disorderly" \/ (requests = {} /\ replies = {})
    /\ waiting' = FALSE
    /\ result' = "ECOMMS_TIMEO"
    /\ running' = ~leaving
    /\ UNCHANGED <<server, board, leaving, command, out, requests, replies>>

-----------------------------------------------------------------------------
(* The network and the server.                                             *)

Lose ==
    /\ network # "reliable"
    /\ \/ /\ \E msg \in requests : requests' = requests \ {msg}
          /\ UNCHANGED replies
       \/ /\ \E msg \in replies : replies' = replies \ {msg}
          /\ UNCHANGED requests
    /\ UNCHANGED <<server, player>>

(* A request that does not parse is answered ERR and changes nothing.      *)
Refuse(msg) ==
    /\ up
    /\ request' = msg /\ reply' = refusal(msg)
    /\ UNCHANGED <<ongoing, last, scores, scoreboard, wordPtr, up, now>>

serve(msg) ==
    IF ~readable(msg) THEN Refuse(msg) ELSE
    \/ msg.cmd = "SNG" /\ SNG(msg.PLID)
    \/ msg.cmd = "PLG" /\ PLG(msg.PLID, msg.guess, msg.trial)
    \/ msg.cmd = "PWG" /\ PWG(msg.PLID, msg.guess, msg.trial)
    \/ msg.cmd = "QUT" /\ QUT(msg.PLID)
    \/ msg.cmd = "REV" /\ REV(msg.PLID)

(* The datagrams that leave the server: the answer; when its sendto fails, *)
(* ERR after all, though the request was fulfilled; none if the process    *)
(* died, or the ERR failed too.                                            *)
answers(msg) ==
    IF reply' = Silence THEN {{}}
    ELSE {{reply'}} \cup (IF network = "failing" THEN {{refusal(msg)}, {}} ELSE {})

Serve ==
    /\ \E msg \in requests :
         /\ serve(msg)
         /\ requests' \in afterDelivery(requests, msg)
         /\ \E answer \in answers(msg) : replies' = replies \cup answer
    /\ UNCHANGED player

(* When an answer could not be sent, it and the request are destroyed,     *)
(* parts of which were freed before with the game: the PLID of a new game, *)
(* a word that was registered, the positions of a letter that has none.    *)
(* The process may abort, at once or later; here, at any time on a failing *)
(* network.                                                                *)
Abort ==
    /\ network = "failing" /\ up
    /\ up' = FALSE
    /\ UNCHANGED <<store, wordPtr, now, request, reply, player, requests, replies>>

RestartServer ==
    /\ Restart
    /\ UNCHANGED <<player, requests, replies>>

PlayerStep ==
    \/ Start \/ Reveal \/ State \/ ExitNow
    \/ \E letter \in parsePLGArgs : Play(letter)
    \/ \E w \in parsePWGArgs : Guess(w)
    \/ Quit("quit") \/ Quit("exit")
    \/ Interrupt \/ Die \/ Launch
    \/ Receive \/ Timeout

SessionNext ==
    /\ PlayerStep \/ Serve \/ Lose \/ Abort \/ RestartServer
    /\ UNCHANGED network

SessionSpec == SessionInit /\ [][SessionNext]_sessionVars

-----------------------------------------------------------------------------
Results == {"SUCCESS", "EDESERIALIZE", "ECOMMS_TIMEO"}

(* The player's copy of the game has the shape of a game, and a process    *)
(* that waits has sent a request.                                          *)
PlayerTypeOK ==
    /\ {in_game, known, running, leaving, waiting} \subseteq BOOLEAN
    /\ mask \in Seq(Letters \cup {Hidden})
    /\ remaining_errors \in 0..UIntMax /\ trial \in 0..MaxTrial + 1
    /\ in_game => known
    /\ waiting => out # Silence
    /\ result \in Results

playing == running /\ in_game /\ ongoing[Me] # NoGame

(* What a game says of the misses its player has left.                     *)
missesLeft(game) == game.maxErrors - misses(game)

(* Without losses the player's copy is the server's game whenever the      *)
(* player is at the prompt: the same trial number, mask and misses left.   *)
InSync ==
    network = "reliable" /\ Idle /\ in_game =>
        /\ ongoing[Me] # NoGame
        /\ trial = numTrials(ongoing[Me])
        /\ mask = ongoing[Me].mask
        /\ remaining_errors = missesLeft(ongoing[Me])

(* Losses alone never put the player's trial number behind the server's,   *)
(* so the next request is never mistaken for a repetition of an old trial. *)
(* ERR for a trial that was registered does, but never by more than one:   *)
(* the next trial is answered as the repetition of that one, or refused    *)
(* with its number, and the two count alike again.                         *)
NeverBehind ==
    playing /\ ~leaving =>
        trial + (IF network = "failing" THEN 1 ELSE 0) >= numTrials(ongoing[Me])

(* The player's board never shows what is not so: every letter on it is in *)
(* its place in the word and shown on the server's board too, and the      *)
(* misses left are at least what the server allows and at most what it     *)
(* allowed at the start.  Only after an ERR for a trial that was registered*)
(* are the misses wrong, as a word played next has the number of a letter, *)
(* and may be answered NOK without being wrong; or the board ahead of the  *)
(* server's, as a letter played next is compared with a word's address.    *)
BoardTruthful ==
    playing =>
        LET game == ongoing[Me] IN
        /\ Len(mask) = Len(game.word)
        /\ \A i \in DOMAIN mask :
             \/ mask[i] \in {Hidden, game.mask[i]}
             \/ network = "failing" /\ mask[i] \in AliasLetters \cap {game.word[i]}
        /\ network = "failing"
             \/ remaining_errors \in missesLeft(game)..game.maxErrors

(* The player considers a game over only when the server has ended it.     *)
OverOnlyWhenOver ==
    [][running /\ in_game /\ running' /\ ~in_game' => ongoing'[Me] = NoGame]_sessionVars

(* The server process never dies of a request.                             *)
ServerSurvives == up

(* Losses and timeouts alone never bring the player to send the request    *)
(* that may kill the server, a word with the number of a letter; a datagram*)
(* delivered twice or an ERR for what was registered does.                 *)
SurvivesLosses == network \in {"reliable", "lossy"} => up

(* Statement, page 6: a trial that got no answer is the next one sent,     *)
(* with the same number (the guess is what the user types again).          *)
RetryRepeatsTrial ==
    [][ /\ result = "ECOMMS_TIMEO" /\ isTrial(out)
        /\ ~waiting /\ waiting' /\ isTrial(out')
        => out'.trial = out.trial ]_sessionVars

(* player/commands.c: on INV the player "tries to sync with the server".   *)
InvalidBringsSync ==
    [][ \A msg \in replies :
          /\ waiting /\ ~waiting' /\ replies' = replies \ {msg}
          /\ isTrial(out) /\ msg.cmd = response[out.cmd] /\ msg.status = "INV"
          => trial' = msg.trial ]_sessionVars
=============================================================================

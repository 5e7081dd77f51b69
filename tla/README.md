# Hangman RC: a TLA+ verification

This directory holds TLA+ modules, TLC configurations and TLAPS proofs about
Hangman RC (`src/`): a Game Server (`GS`) that keeps the games, and players that
guess words over UDP and fetch files over TCP. The protocol is that of
`src/statement.pdf`; every definition is taken from the C sources, and
`PROJECT.json` maps each to its lines. Line references below are relative to
`src/src/`.

## 1. The system

### Components

| Component | State | Operations |
|---|---|---|
| Rules of a game (`GS/commands.c`, `GS/server_state.c`, part of `GS/persistence.c`) | the `Game` record: word, mask, outcome, counters, list of trials | `newGame`, a letter, a word, score of a won game |
| Requests of the Game Server (`GS/commands.c`, `GS/GS.c`) | only the pointer into the word list (without `-r`); everything else is in files | UDP: SNG, PLG, PWG, QUT, REV; TCP: GHL, STA, GSB |
| Game and score files (`GS/persistence.c`) | `GAMES/<PLID>.txt`, `GAMES/<PLID>_last.txt`, `SCORES/*`, `SCORES/SCOREBOARD.txt`, all locked with `flock` | `saveGame`, `loadGame`, `findGameFileForPlayer`, `endGame`, `registerScore`, `generateScoreboard`, `getGameState`, `getResponseFile` |
| Player session (`player/commands.c`, `player/player.c`, `player/network.c`) | the copy of the game: mask, trial number, errors left, PLID, `in_game` | start, play, guess, quit, exit, reveal, hint, scoreboard, state, Ctrl-C |
| Messages (`common/messages.c`) | none | a serialiser and a deserialiser for every message |
| File transfer (`player/network.c`, `GS/network.c`) | a socket and a partly written file | `replyTCP`, `writeToTCPSocket`, `readFileTCP` |
| Processes of the Game Server (`GS/GS.c`) | parent (UDP listener), child (TCP listener), one child per TCP connection | fork, SIGINT handler, wait |
| Word list, arguments, sockets, logging | read or set up once | - |

### How they interact

The parent process of the server reads one datagram after the other
(`GS/GS.c:89-135`): it loads the player's game from its file, computes, writes
the file, and answers. So UDP requests are served strictly one at a time. The
TCP listener forks a process per connection (`GS/GS.c:150-215`), and these read
the files while the parent writes them; the `flock` calls are all the
synchronisation there is. A reply is a few words, or a few words and a file, and
both sides give up on a call that takes more than five seconds. Ctrl-C reaches
all the server's processes; each sets a flag that its loop tests, and waits in
its signal handler for its children. The player runs one command at a time: a hook checks
it and changes the copy of the game, the request is sent, `recvfrom` waits at
most five seconds, and whatever datagram came is taken for the answer and given
to the command's callback.

### What is hard here

* A trial whose answer is lost has been registered, and the player does not
  know: its trial number, mask and errors left are a *copy* that drifts.
* A trial that is delivered twice must not be registered twice, and its answer
  should be the same, also when the first one ended the game.
* The counters of a game (`numSucc`, `remainingLetters`, `maskedWord`) are
  updated incrementally, written and read back; the tests for a won and a lost
  game are made *before* the new trial is counted.
* Repetition paths and first-time paths of PLG and PWG are separate code.
* Score files are named after score, player and second: a second win with the same
  score in the same second replaces the first.
* A wait for a lock that Ctrl-C interrupts fails, and SNG takes a game that it could
  not lock for no game.
* A game file is truncated before it is locked; a won game ends in four file
  operations; readers and crashes can fall in between.
* A killed player leaves a game it can neither quit nor start again.
* When a `sendto` of the server fails, the player is told ERR about a trial that
  was registered.
* A TCP reply may stop anywhere, and a failed handler writes a *second* reply on
  the same connection, which a player in the middle of a file reads as data.
* The signal handler waits: for a child that may wait for the lock of the process
  it interrupted; and the flag it sets is tested before a call that may block.

### What makes each component correct

* Rules: counters always say what the trials say; a game ends exactly at the
  guess that decides it; no guess is registered twice.
* Requests: the server, with its trial numbers, files and restarts, is the game
  of hangman as anyone would state it; repetitions are harmless.
* Files: a reader sees a game that was there, scores are ranked, a won game has
  its score until one of the same name replaces it, and a game in progress is lost
  only by an interruption.
* Player: in sync without losses; never behind the server and never showing
  anything false with losses, and no danger to the server.
* Messages: each side can read whatever the other can write.
* Transfer: a file that is shown is the file that was sent; nothing is left by a
  failure that could be taken for one; commands and sessions end.
* Processes: Ctrl-C ends every process, children first.

## 2. The modules

| Module | Models | Notes |
|---|---|---|
| `HangmanRules` | one game: `newGame`, `playLetter`, `playWord`, `calculateScore` | pure operators on the `Game` record |
| `Hangman` | what the game promises, over sets of guesses | abstract specification, no code behind it |
| `GameServer` | every request of `GS/commands.c` as one step on the files | EXTENDS `HangmanRules` |
| `GameServerRefinement` | `GameServer` implements `Hangman` | the mapping reads a game's trials as two sets |
| `Messages` | what each side accepts of the other's messages | EXTENDS `GameServer` |
| `PlayerSession` | one player process, the UDP network and the `GameServer` | EXTENDS `Messages` |
| `GameStore` | the game files and the scoreboard, one system call at a time, read by TCP sessions, with crashes and interrupted locks | game contents abstracted |
| `Transfer` | TCP commands of a player and the sessions that serve them, one read or write at a time | file contents abstracted |
| `Processes` | the server's processes, their signals and the lock | requests abstracted |
| `HangmanRulesProofs`, `GameServerProofs`, `RefinementProofs`, `MessagesProofs`, `GameStoreProofs`, `TransferProofs`, `ProcessesProofs`, `PlayerSessionProofs` | the theorems | checked by TLAPS |
| `MCGameServer`, `MCPlayerSession`, `MCGameStore`, `MCTransfer`, `MCProcesses` | small instances and views for TLC | |

`PlayerSession` composes the player with the whole server through `Messages`. The
three modules about system calls are separate because they look at different
state: `GameStore` at the files, `Transfer` at one connection, `Processes` at the
processes. They meet in what each takes from the others. `Processes` has one lock:
the one place where a lock is asked for with another one held is
`generateScoreboard` (`GS/persistence.c:523`, then 483 for each score file), and
score files are touched by the UDP process alone, so that it never waits there.
`GameStore` and `Processes` have sessions that answer in one step because `Transfer`
shows that every session ends.

### HangmanRules and GameServer

A game is a record with the fields of `Game` in `GS/persistence.h`. `numTrials`
is the length of `trials`, as `loadGame` recounts it; `numSucc` and `remaining`
are stored and updated exactly where the code updates them, so that the
invariants can ask whether they agree with the trials. A status test comes
before the trial is registered, as in the code (`misses >= maxErrors` of the
trials *before* this one).

`ongoing[p]` and `last[p]` are the two game files of a player, `scores` the
directory of score files and `scoreboard` the lines of the board. One action
models one handler with everything it does: `LetterPlayed` for example is the
lookup, the update of the counters and the mask, the registration, and
`saveGame` or `endGame` with `registerScore` and `generateScoreboard`. Repeated,
duplicate and out-of-turn trials are actions of their own because the code has
a path of its own for each (and PLG and PWG differ). `request` and `reply` keep
the last exchange, for the properties of retransmission.

Two readings of memory that was never written are choices: PLG repeating the
number of a *word* trial compares the letter with a byte of the address of that
word (`sameLetter`), and PWG repeating the number of a *letter* trial follows the
letter as a pointer (`sameWord`, `WordCrash`: the process may die).

The requests are atomic here. For UDP that is what the code does: one process,
one datagram at a time. What it hides about files is the subject of `GameStore`.

### PlayerSession

The player's variables are those of `PlayerState`. The actions `Start`, `Play`,
`Guess`, `Quit`, `Reveal` are a pre-hook with its guards and side effects (the
trial number is incremented *before* the request is sent) followed by `sendto`;
`Receive` is `recvfrom`, the deserialiser and the callback of the command;
`Timeout` is `recvfrom` giving up; `Interrupt` is Ctrl-C, which dispatches `exit`
in a game, also while another command waits. `Die` and `Launch` end and start the
process, `State` is the TCP `state` command read at one instant.

A request is served by the handlers of `GameServer` only if `Messages` says that
the server can read it; otherwise `Refuse` answers ERR, as `GS/GS.c:115` does. The
player, too, first tries to read an answer (`understood`).

Four networks are distinguished: *reliable*; *lossy* (any datagram may
disappear); *failing* (lossy, and a `sendto` of the server may return an error,
after which `main` sends ERR for the request it has just fulfilled: `answers`; the
request and the answer are destroyed before that, and some have a part that was freed
with the game, so that the process may abort: `Abort`); and
*disorderly* (datagrams also delivered twice, out of order, and after the
timeout). Except on the last, a timeout means that nothing is in flight: five
seconds are longer than a datagram takes. `UIntMax` stands for the largest
`unsigned int`, which `state->trial` and `state->remaining_errors` wrap around at.
A player that is out of step counts on with every trial; the model stops it at
the first number that the server refuses (`CountBound`).

### Messages

Texts are records whose fields the serialisers fill. Each `deserialize*` operator
is the condition under which the code of that name accepts the text of such a
record: a PLID of the right form, a letter, a word of 3 to 30 letters, a trial
number of 1 to 99, one digit of errors, a list of positions that is neither empty
nor longer than a word. `MessagesAssumption` says what the word file must satisfy
for the protocol to have room for its games; `parseWordListFile` does not check
it. The player's parsers of letters and words are the sets from which
`PlayerSession` takes its input.

### GameStore

Each process (the UDP server, and one process per TCP connection) has a program
counter, at most one open file, its `flock` on it, and a game in memory. Each
action is one call: `fopen`, `flock`, reading and `fclose`, `fopen(.., "w")`
(which truncates *before* the lock), `fclose` of a written file (which writes it,
in one piece: no file outgrows the buffer of stdio), `unlink`, `fstat`, `fread`.
What a handler decides about a trial is a choice among what `GameServer` allows;
a game is reduced to a serial number, its number of trials, its outcome and its
score. A score file has the name the code gives it, of score, player and second
(`nameOf`): `CreateScore` truncates one of the same name, and its score is gone.
Time passes between requests (`timePasses`): a request looks at the clock once.
`Crash` ends the server process between any two calls; when it ends by `exit`, as a
second Ctrl-C makes it, stdio still writes what the interrupted `saveGame` had put
into its buffer (`leftBehind`), which may be a part of a game. `Restart` starts it again
in the same second or a later one. A first Ctrl-C matters here when it comes while a
process waits in `flock`, which then fails with EINTR (`interrupted`):
`ServerLockFails` makes `loadGame` find no game, which SNG answers with a new one
written over the game in progress, and `saveGame` or `generateScoreboard` return
with the file truncated and the answer ERR; the server stops after that request
(`stopping`). `SessionLockFails` makes a session answer NOK or EMPTY. A
file that is unlinked while open lives on in the session's descriptor.
`committed`, `seen` and `over` are history variables for the properties.

### Transfer

A unit of the stream is a word of the reply or a piece of the file as long as a
word. The player (`phase`) reads command, status, file name, size, data and newline;
what it reads next depends on what it read, and the file is written block by
block. A session has `out`, the units it still writes, of which each `write` takes
at most a block and what there is room for in the socket buffers (`Capacity`).
`ReadFails` and `WriteFails` are the calls that time out or find the connection
closed; after a failed write of the reply, the session writes a whole refusal
(`GS/GS.c:200`), and nobody looks at that one's result. A word of the refusal can
thus end up in the player's file. The player may leave, or stop without leaving;
the session may be killed; and the next command has a connection of its own while
the session of the last may still be writing.

### Processes

Each process has a label `pc`: what it does or is about to do. The signal is
handled before anything else a process does (`free`), and the handler either
returns into the call, which then fails with EINTR where the code gets EINTR (and
goes on as `afterInterrupt` says: SNG, for one, from the failed lock to `saveGame`), or
runs before the call, which then waits as if nothing had happened: the program is
built in strict POSIX mode, where `signal` neither restarts calls nor blocks the
signal in its handler. `handling` is the handler's `wait` loop, which ends when no
child runs (SIGCHLD is ignored, so `wait` returns only then). The lock is kept
while the handler waits. A session is forked with the `shutdown` flag of the
listener and its listening socket.

## 3. What TLC checks

All runs end with every reachable state of the instance examined, except those
that are expected to find a violation.

| Run | Question | Instance |
|---|---|---|
| `games` | do the games on file follow the rules, only grow, and implement `Hangman`; does a trial served twice change anything, or get another answer; can the player read every answer? | one player, words `aba` and `bb` (no miss allowed for the shorter, one for the longer), letters a, b, c, trials to 5, the exchange in the view |
| `answered` | (violation) is a repeated trial always answered as before? | word `aba` |
| `scores` | is the scoreboard a ranking, has every last win its score? | two players, two seconds, board of two lines |
| `sessions` | how far can the player's copy drift from the server's game? | reliable, lossy and failing network, word `aba`, trials to 5, an address may look like the letter a |
| `retry` | (violation) is an unanswered trial repeated with its number? | lossy |
| `sync` | (violation) does INV bring the player in step? | lossy |
| `duplicated` | (violation) does the server survive its own players? | disorderly |
| `store` | what can readers, crashes and interrupted locks see and do of the files? | one player, two games, one session, two seconds, one crash or interruption |
| `served` | does anybody wait for a lock for ever? | two sessions, one game, with fairness |
| `board` | (violation) is EMPTY answered only before the first win? | one session, no crash |
| `transfer` | what files can a transfer leave, and does it end? | two commands, files of 0, 1, 4 and 5 units, blocks of 2, buffers of 4, with fairness |
| `processes` | does Ctrl-C end the server, and in which order? | two sessions, two Ctrl-C, with fairness |

### The properties

* `CountersAgree`, `OngoingIsOpen`, `NoGuessTwice`, `FinishedIsDecided`,
  `TrialsFitProtocol`: the counters follow from the trials; no decided game stays
  in progress; nothing is registered twice; a finished game was decided by
  exactly the guess the rules say; trial numbers never outgrow the protocol.
* `GamesOnlyGrow`, `ImplementsHangman`: a game keeps its word and its trials, and
  wins and losses happen at the same guess as in the abstract game.
* `RetransmissionHarmless`, `RetransmissionRepeatsReply`: the second delivery of
  a trial changes no file, not even when the first ended the game, and gets the
  same answer while the game goes on.
* `ScoreboardRanks`, `WinHasScore`: the board lists the best files in order, with
  ties and replaced files; a win has its score of 1 to 100.
* `RepliesUnderstood`: whatever the state of a game, the player can read the
  answer; the one exception, INV with trial 0, is the finding of run `sync`.
* `InSync`, `NeverBehind`, `BoardTruthful`, `OverOnlyWhenOver`, `SurvivesLosses`:
  without losses the player's copy is exact at the prompt; with losses its trial
  number is never behind (so its next trial is never mistaken for a repetition,
  which is also why the server survives), its mask never shows a wrong letter, its
  errors left never promise less than the server allows, and it thinks a game over
  only when it is. On a failing network it may be behind, but by one trial only;
  there `SurvivesLosses` and the part of `BoardTruthful` about misses do not hold,
  because a word may then carry the number of a letter. Nor may a letter then only be
  shown that the server shows: one that carries the number of a word is compared
  with that word's address, and when the low byte happens to be this letter
  (`AliasLetters`) it is answered OK with its true positions, although no trial was
  registered. So there `BoardTruthful` says of such a letter only that it is in its
  place in the word.
* `GameOnFile`, `GameLostOnlyByInterruption`, `AnswersCurrent`, `AnsweredEndIsFinal`,
  `ScoreboardComplete`, `EveryoneServed`: a game is always whole in one file except
  while `saveGame` rewrites the file of a game in progress; such a game disappears,
  is replaced by another one or loses trials only by a crash in just that place, or
  because the wait for a lock was interrupted; a session reads a game of its own time
  although it opens one file after the other; once the end of a game was answered no
  crash revives it, and the score of a win stays until a later win of the player has
  the same score in the same second, whose file has the same name (`replaced`);
  before the first crash or interruption every score *file* is on the board (a score
  that was replaced is on neither); the locks never block anybody for good.
* `StoredFileIsWhole`, `FailureLeavesNoFile`, `TransferTypeOK`, `EverySessionEnds`,
  `EveryTransferEnds`: a file shown as received is the one that was sent, except
  when a write timed out with exactly two words of it to go: then the refusal's two
  words complete it and its newline passes for the file's. After a failure there is
  no complete file of that command. Sessions end although their player stops
  reading, commands although their session is late, dead or was never forked.
* `OnlyLatecomersOutlive`, `InterruptEnds`, `SecondInterruptEnds`,
  `ProcessTypeOK`: after one Ctrl-C the UDP process ends last, but for sessions that
  were forked after the listener had been interrupted. One Ctrl-C ends everything
  with two exceptions, each of which the run was found to need: a listener that was
  interrupted between its test and its call and oversleeps, and the cycle of a UDP
  process interrupted with the lock, a session that waits for it and the waits
  between them. A second Ctrl-C always ends everything.

Every property is shown to depend on the code by a mutant: a plausible bug, kept
beside the definition it would replace and marked `Mutant:`, under which the same
run finds the property violated.

### Bounds, and why they are enough

* The thresholds of `calculateMaxErrors` (7 errors, lengths 7 and 11) are
  constants; the runs use 0 or 1 error and lengths 3, 4 and 5, so that games are lost
  after one or two misses and, in `games`, words on both sides of a threshold occur.
  The proofs hold for all values.
* Words have repeated and unrepeated letters, and a wrong word can be guessed;
  `MaxTrial` is at least one more than any game can reach, so out-of-turn numbers
  above and below the current one occur, and in `sessions` a player out of step
  also reaches the number that is refused. In the code it is 99.
* The board has two lines instead of ten, with up to four score files.
* `GameStore`: one player suffices since players share nothing but the scores;
  two games let a session span a whole game, and two wins have the same name or, a
  second later, another one; one crash or interrupted lock leaves every intermediate
  state of the files, and the run goes on from each of them. One session meets
  all the server's calls; two sessions compete in `served`, where nothing crashes.
  A single score above 0 suffices: names also differ by the second.
* `Transfer`: files without data, shorter than a block, of two blocks and of two
  blocks and a bit; the longest reply is ten units and the buffers hold four, so a
  write can stop anywhere in the file. Two commands let the second find the file of
  the first.
* `Processes`: two sessions, of which one may be forked before and one after the
  signal, or both contend for the lock. A third Ctrl-C would do what the second does.
* `UIntMax` is 9, beyond every number counted to, so that a subtraction below 0
  would be out of all ranges.
* A VIEW leaves out what neither guards nor properties of the run depend on: the
  scores and the clock in `games`, the scores and the server's last exchange in
  `sessions`, the last exchange in `scores`. No liveness is checked under a VIEW.

### Fairness

`FairSpec` of `GameStore`: every process that is in the middle of its work runs on
(WF). Nothing is assumed about who gets a contended lock, and therefore a session
is promised an answer only once the server pauses; the number of sessions is
bounded, without which readers could starve the server.

`FairSpec` of `Transfer`: a call returns, with data or because of `SO_RCVTIMEO` and
`SO_SNDTIMEO`, which both sides set (WF of `PlayerReads` and of `SessionRuns` for each
connection). Nobody need accept a connection, give a command or stay alive.

`FairSpec` of `Processes`: the operating system runs every process that can run
(WF of `Runs`, per process). `Receive`, `Connect`, `Accept` and `Press` are not fair: no
datagram, connection or Ctrl-C need ever come, which is why a listener can
oversleep.

## 4. What is proved

The theorems hold for every value of the constants: any set of players, alphabet,
word list, set of guessable words and thresholds of `GameServer`, any players, TCP
sessions and numbers of games, trials and crashes of `GameStore`, any sessions of
`Processes`, and any file sizes, block, number of commands and room of at least four
units of `Transfer`. The assumptions are those stated beside the constants
(`RulesAssumption`, `ServerAssumption`, `MessagesAssumption`, `RefinementAssumption`,
`StoreAssumption`, `NamesAssumption`, `TransferAssumption`,
`ProcessAssumption`, `SessionAssumption`); they bound the thresholds
and words as the code does and keep the values that mean "no game" or "no file"
apart from games and files. TLC evaluates them in the runs. `PlayerSession` is proved for
any player, word list, `UIntMax` and set of networks (`SessionAssumption`); the theorems
that a network which repeats datagrams refutes say so in a hypothesis.

`HangmanRulesProofs` is about one game. `GoodGame` is the invariant of a game in
progress: it is a `Game`, `Counted` (the counters follow from the trials),
`StillOpen`, `TriedOnce` and `Economical`. `NewGameIsGood` establishes it; the theorems
`PlayedLetter` and `PlayedWord` show that a new letter or word either leaves the
game good (status OK, NOK) or makes it `Finished` (WIN, OVR). The hard part is
`CountersAgree`: a new letter in the word uncovers as many hidden positions as
`showLetter` subtracts, because a letter not tried before has none of its
positions uncovered yet; `Economical` (each correct letter uncovered at least one
position) is the strengthening `TrialsFitProtocol` needs.

`GameServerProofs` lifts this to the server. `IInv` says that every ongoing game
is good, every last game finished, the score files are finite with distinct names
(`ScoresInv`), and the process variables are in range. `SaveGame` and `EndGame`
are the two ways a handler leaves the files; each request then has one lemma
(`StepSNG`, `StepPLG`, ...). The type of the scoreboard needs that every rank below
the number of files is held by exactly one file (`RankExists`, a counting argument
over a strict order).

From `Invariance` follow `TypeCorrect`, `CountersAlwaysAgree`,
`OngoingAlwaysOpen`, `NeverGuessedTwice`, `FinishedAlwaysDecided` and
`TrialsAlwaysFit`: the invariants of the runs `games` and `scores`, for every
instance. `GamesAlwaysGrow` is an action property: each request leaves a game as it
is (`GrowthUnchanged`, or `GrowthSave` with the game that was loaded) or appends one
trial (`LetterAppended`, `WordAppended`), and a game that ends does so with all its
trials (`GrowthEnd`).

`ScoreboardAlwaysRanks`: the board is always made of the present scores
(`BoardInv`), and `BoardLines` and `BoardRanks` say of `generateScoreboard` that for a
finite set of files its lines are as many as the files, ten at most, that each is
a file's, in the order of the names, and that what is left out is not better. Both
rest on `RankOrder` (the ranks follow the order) and `RankExists`.
`WinAlwaysHasScore`: a game is won with at least one success in at most 99 trials,
so the score rounds to 1 or more (`WinScores`); every step that ends a game is
analysed by what it does to its player's last game (`ends`), and no other step
removes a score.

`RefinementProofs` shows that `GameServer` implements `Hangman`
(`Implementation`). The abstract game keeps no mask and no counters, so the mapping
alone is not inductive: `AgreesInv` says of every game in progress that what the
abstract game computes from the set of letters and words tried (is it solved, how
many misses) is what the code's counters say (`MissAgrees`, `HitAgrees`). With it
`LetterJudged` and `WordJudged` show that a handler's status and the abstract
judgement coincide, and `SimulateStep` maps each request to an abstract step or a
stutter. Saving and ending map alike although the code writes two files.

`RetransmissionAlwaysHarmless`, also in `GameServerProofs`, shows
`RetransmissionHarmless`. Its invariant `SpentInv` says of the last request, if it was
a trial, that it cannot be played any more: the game is over, the number is not the
next one, or the guess is among the game's trials. Each way of serving a trial establishes this, and a spent trial takes
only paths that change no file. `RepetitionAlwaysRepeatsReply` needs more of the
last request: `AnsweredInv` says that while its game goes on and ends in a trial of
the request's kind, the reply is the one that serving it `again` computes.

`MessagesProofs` shows `RepliesUnderstood` from `MessagesAssumption`. The invariants
needed besides `IInv` are `ListedInv` (games are of listed words: a new one is, and
by `GrowthStep` a game keeps its word) and `ReplyInv` (the answer itself); the bound of
the trial number is that of `TrialsAlwaysFit`.

`GameStoreProofs` follows every system call on the files, with a crash between any
two and an interruption of any wait for a lock. `Shape` joins the types with where each process is, what it holds in memory
and has open. On it rest, in layers: `FilesInv` (the ongoing file holds a game in
progress and the other one a game that is over; while a game ends its ongoing file
stays until the ended game is written), which with `GameOnFile` is inductive;
`SeenInv` (whatever a session may still find on its way from file to file was its
player's since it asked: the game on file, the file a descriptor is open on even
when its name is gone, and the game the server is about to unlink); `OwnersInv` (no
two players ever have the same game, in files or memory) and `ScoredInv` (from
its registration to the answer the score of a won game is on file), from which
`OverInv` shows that a game answered as over is `settled` and, if won, has its score
or was replaced (`keepsScore`); `ContinuesInv` (what the server has in memory of a game in progress is that
game or goes on from it, unless it is stopping); and `BoardInv`. The theorems
`GameAlwaysOnFile`, `AnswersAlwaysCurrent`, `AnsweredEndAlwaysFinal`,
`ScoreboardAlwaysComplete` and, from `ContinuesInv`, `GameLostOnlyInterrupted` follow,
one for each property of the run `store`. `IInv` as a whole was model-checked before
it was proved, also with two players.

`ProcessesProofs` is about any set of sessions. `IInv` joins the types, `LockInv`
(a process works on the file exactly when it has the lock), `SignalInv` (who is in
the handler is interrupted and runs) and `OrderInv`: before the second Ctrl-C, a
process whose handler has returned has no running child but latecomers, and a
listener ends only after its handler returned. `ChildrenEndFirst` follows by going
from the UDP process to the listener to the sessions, with the listener that never
came up as a case of its own.

`TransferProofs` is about one connection at a time. `said(n, k, i)` is unit `i` of what
a session sends that replies with a file of `n` units, is cut off after `k` of them
and goes on with a refusal. `StreamInv` says that there is such a `k`, at least 4, that
what the player has of the file and of a block, what is on the way and what the
session has still to write are these units in this order (`FileSent`); or the same of
a refusal or `ERR` alone. The step that matters is the write that fails for want of
room: the buffers are full, so the four words before the file are on their way, and
`k` becomes what was sent. What the player takes as the newline is unit `n + 5`, which
is one for `k = n + 5`, the whole reply, and for `k = n + 2`, the splice, only.
From this follow `TransferTypeCorrect`, `StoredFileAlwaysWhole` and
`FailureAlwaysLeavesNoFile`.

`PlayerSessionProofs` is about one player, the server and any of the four networks.
First comes what serving a request does, without the details of the server: the
lemma `Served` lists the five ways (a game starts; a trial is answered without
effect, repeated or registered, with what its answer says; the game ends; nothing
happens), and everything below uses only that. The inductive invariant comes in
layers, each model-checked before it was proved:

* `LocalInv`, on every network: the invariants of the server (`IInv`, `ListedInv`), the
  types (`ShapeInv`), which command waits with which request (`CommandInv`), and what the
  datagrams in flight can be (`WireInv`). It yields `PlayerTypeCorrect`: even repeated, late
  and unrelated answers leave the player's copy the shape of a game, since the
  number of an INV answer and that of errors are within their fields. With it also
  `SessionRunsServer`: in a session the server's files change by steps of `GameServer`
  only, also when it aborts, so all that is proved there of games and scores holds
  here.
* `LossInv`, when datagrams are not repeated: at most one exchange is under way, and
  none at the prompt (`FlightInv`); no trial in flight has a number already used, and
  the player is not behind (`CountInv`); an answer in flight is true of the game it
  will be applied to (`AnswerInv`, `truthful`), so that the player's counting up before
  sending and down after ERR and DUP balance. `slack` is what an ERR for a registered
  trial costs: 1 on a failing network, else 0. The trial numbers balance only as long
  as the player is alone with its answer, which is why `exit` while another command
  waits is excluded by `leaving`: then two requests are in flight and nothing is
  claimed but that no game starts meanwhile. `NeverFallsBehind`, `LossesSurvived`
  and `OverWhenOver` follow. The server lives because a word that repeats the
  number of a letter would have a number already used.
* `ViewInv`, for the board: a letter trial is marked correct exactly when the letter
  is in the word (`JudgedInv`), the player's board is `BoardTruthful`, and an answer in flight
  can be shown (`ShowInv`, `showable`): its positions show on the server's board, and a
  miss it reports is one the player has not counted. Serving a request only adds to
  the server's board (`BoardGrows`). `BoardAlwaysTruthful` follows. The attempt to prove
  it without `AliasLetters` failed and led to the exception named in section 3.
* `CopyInv`, on a reliable network: the answer in flight is the one missing piece
  between the player's copy and the game (`settles`). It needs that every answer can be
  read, from `MessagesProofs`, and that an answer to a player in step is never INV.
  `AlwaysInSync` follows.

`NeverFallsBehind`, `OverWhenOver` and `BoardAlwaysTruthful` assume that `Networks` has no
disorderly one. That is needed, not convenience: there a late answer of one command
is taken for that of the next, and TLC refutes each of the three (run `duplicated` shows
what becomes of the server).

Only model-checked: liveness under fairness (`EverySessionEnds`, `EveryTransferEnds`,
`InterruptEnds`, `SecondInterruptEnds`, `EveryoneServed`), which is out of the prover's
reach. Every invariant and every other action property of the passing runs is a
theorem.

## 5. Where code and documents disagree

Each is the violation of one property in a run of its own.

* `answered`: the statement (p. 6) wants the answer to a repeated trial repeated;
  after the trial that ended the game the code answers ERR (`GS/commands.c:181`).
* `retry`: the statement (p. 6) wants an unanswered trial repeated with its
  number; the player has already incremented it (`player/commands.c:336`).
* `sync`: the player means to take over the trial number of an INV answer
  (`player/commands.c:376`), but the deserialiser refuses INV 0
  (`common/messages.c:351`).
* `duplicated`: the statement (p. 9) rules out segmentation faults; a PWG with the
  number of a letter trial makes the server follow a letter as a pointer
  (`GS/commands.c:312`).
* `board`: the statement (p. 7) reserves EMPTY for the time before the first win;
  a session that reads while the board is rewritten answers it too
  (`GS/persistence.c:522`).

## 6. Assumptions, and what is not modelled

* Allocation, disk space and permissions never fail, on either side. So the second `fwrite` of a short one (`player/network.c:203`), which
  would write the block again, is not reached.
* When an answer cannot be sent, or `saveGame` fails, the code frees some memory
  twice: the PLID of a new game, a word that was registered
  (`destroyGame` and then `requestDestroyer`), the positions of a letter that has
  none (`getLetterPositions` and then `responseDestroyer`; `GS/commands.c:101-105`).
  The one outcome considered is that the process aborts. `PlayerSession` lets it on a
  failing network at any time, whatever was requested, which is more than the code
  does; `SurvivesLosses` speaks of the other networks. In `GameStore` it would be the
  end of a server that is stopping, with the files as they are.
* The requests in flight are a set: two identical QUTs, of a `quit` and of the `exit`
  that interrupts it, are one unless the first was served before the second was sent.
* In `GameStore` the handler of the first Ctrl-C does not wait for the sessions, which
  only adds behaviours; what the wait can do is the subject of `Processes`.
* One player process per PLID in `PlayerSession`; a new process starts when the
  requests of the old one have left the network, and has a socket of its own.
* A crash is the end of the server process. What was given to the operating
  system stays; the machine itself does not crash.
* The texts of messages are records, and what no program of this repository sends
  is left out. Words of the list that are themselves `OK` or `ERR` would be read as
  statuses; they are too short or not lower-case letters.
* The words before a file fit the socket buffers. Both programs have the same
  limit for file sizes, so the player's test of it does not fail.
* Signals that arrive together are one; Ctrl-C is pressed at most twice.
* Not modelled: socket set-up beyond its success or failure, options, the parsers
  that only refuse a command, logging and display, reading the word list (an
  empty list makes every SNG fail and changes nothing).

## 7. Plan

1. *Done*: rules, requests, refinement, player session, files, messages, transfer,
   processes, and the theorems of section 4.
2. *Done*: the simulation of `Hangman`, `ScoreboardRanks`, `WinHasScore`,
   `RetransmissionRepeatsReply`, the safety of the files and of a transfer.
3. *Done*: the invariants of `PlayerSession`, and the theorem that a session runs the
   server through `GameServer`'s steps.
4. Open: what the player's copy still satisfies, beyond its types, when datagrams are
   repeated and reordered; and two exceptions the code leaves that no property
   covers (a crash between `registerScore` and `unlink`; a late OK of a longer word,
   `player/commands.c:346`); the text of the files: that what is saved reads back as the
   same game is taken for granted.

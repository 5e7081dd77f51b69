------------------------------ MODULE GameStore ------------------------------
(***************************************************************************)
(* The files of the Game Server, one system call at a time.  The UDP       *)
(* process loads, writes, ends and ranks games (src/GS/persistence.c)      *)
(* while TCP sessions, processes of their own, read the same files under   *)
(* flock, and the UDP process may die between any two calls.               *)
(*                                                                         *)
(* What GameServer decides about a trial is a choice here: a game is its   *)
(* serial number, its number of trials, its outcome and, once won, its     *)
(* score.  A file is written by fclose, in one piece, since no file        *)
(* outgrows the buffer of stdio.  Score files are touched by the UDP       *)
(* process alone: nobody ever waits for their locks, which are left out.   *)
(***************************************************************************)
EXTENDS Integers, FiniteSets

CONSTANTS
    PLIDs,
    Server,     \* the UDP process
    Sessions,   \* TCP sessions: one connection each
    Scoreboard, \* SCORES/SCOREBOARD.txt
    NoFile,     \* there is no such file
    Empty,      \* the content of a file that was created or truncated
    Closed, Unlinked, \* descriptors: none open, and one of a file without a name
    NoGame,     \* what loadGame returns for want of a game
    MaxGames, MaxTrials, MaxScore, MaxTime, MaxCrashes \* bounds

ASSUME StoreAssumption ==
    /\ Server \notin Sessions
    /\ MaxGames \in Nat /\ MaxTrials \in Nat /\ MaxScore \in Nat
    /\ MaxTime \in Nat /\ MaxCrashes \in Nat

VARIABLES
    file,    \* file name -> content
    scores,  \* the score files that are written
    halfScores, \* the score files that are created and still empty
    fd, lock, \* process -> the file it has open, and its flock on it
    orphan,  \* session -> content of the unlinked file it has open
    pc, mem, \* process -> the call it is at, and the game in its memory
    request, \* process -> the request it serves
    serial, now, \* how many games were started, and the second it is
    crashes, \* crashes and interrupted waits so far
    stopping, \* whether the server was interrupted: this request is its last
    committed, \* player -> the game as of the last completed change of a file
    seen,    \* session -> the games its player had in files since it began;
             \*   of a session that reads the scoreboard, the games then over
    over     \* the games whose end was answered: whose they were and when

files == <<file, scores, halfScores>>
descriptors == <<fd, lock, orphan>>
history == <<committed, seen, over>>
vars == <<file, scores, halfScores, fd, lock, orphan, pc, mem, request,
          serial, now, crashes, stopping, committed, seen, over>>

Processes == {Server} \cup Sessions

ongoingFile(p) == <<"ongoing", p>>
lastFile(p) == <<"last", p>>

GameFiles == {ongoingFile(p) : p \in PLIDs} \cup {lastFile(p) : p \in PLIDs}

Games == [id : 1..MaxGames, trials : 0..MaxTrials, score : 0..MaxScore,
          outcome : {"ongoing", "win", "fail", "quit"}]

(* How and when a player's game ended; if it was won, its score file.      *)
Ends == [PLID : PLIDs, stamp : 0..MaxTime, game : Games]

(* The name of a score file: nothing in it tells a game from another that  *)
(* its player won with the same score in the same second.                  *)
nameOf(end) == <<end.game.score, end.PLID, end.stamp>>

UDPRequests == [cmd : {"SNG", "TRIAL", "QUT", "REV"}, PLID : PLIDs]
NoRequest == [cmd |-> "none"]
TCPRequests == [cmd : {"STA", "GHL"}, PLID : PLIDs] \cup [cmd : {"GSB"}]

(* The values that stand for no content, no game and no file are none.     *)
ASSUME NamesAssumption ==
    /\ {NoFile, Empty, NoGame} \cap Games = {} /\ NoFile # Empty
    /\ Scoreboard \notin GameFiles
    /\ {Closed, Unlinked} \cap (GameFiles \cup {Scoreboard}) = {}
    /\ Closed # Unlinked

-----------------------------------------------------------------------------
Init ==
    /\ file = [f \in GameFiles \cup {Scoreboard} |-> NoFile]
    /\ scores = {} /\ halfScores = {}
    /\ fd = [q \in Processes |-> Closed]
    /\ lock = [q \in Processes |-> "none"]
    /\ orphan = [s \in Sessions |-> Empty]
    /\ pc = [q \in Processes |-> "idle"]
    /\ mem = [q \in Processes |-> NoGame]
    /\ request = [q \in Processes |-> NoRequest]
    /\ serial = 0 /\ now = 0 /\ crashes = 0 /\ stopping = FALSE
    /\ committed = [p \in PLIDs |-> NoGame]
    /\ seen = [s \in Sessions |-> {}]
    /\ over = {}

(* Process q goes on to another call, its memory as it was.                *)
goto(q, label) == pc' = [pc EXCEPT ![q] = label] /\ UNCHANGED mem

load(q, game, label) ==
    /\ mem' = [mem EXCEPT ![q] = game]
    /\ pc' = [pc EXCEPT ![q] = label]

open(q, name) == fd' = [fd EXCEPT ![q] = name] /\ UNCHANGED <<lock, orphan>>

close(q) ==
    /\ fd' = [fd EXCEPT ![q] = Closed]
    /\ lock' = [lock EXCEPT ![q] = "none"]
    /\ orphan' = IF q \in Sessions THEN [orphan EXCEPT ![q] = Empty] ELSE orphan

(* Nobody else holds the file in a way that excludes this.  A file without *)
(* a name is written by nobody, and its lock does not matter.              *)
available(q, mode) ==
    \A r \in Processes \ {q} :
        fd[r] = fd[q] /\ fd[q] # Unlinked =>
            lock[r] = "none" \/ (lock[r] = "shared" /\ mode = "shared")

flock(q, mode) ==
    /\ available(q, mode)
    /\ lock' = [lock EXCEPT ![q] = mode]
    /\ UNCHANGED <<fd, orphan>>

contentOf(q) == IF fd[q] = Unlinked THEN orphan[q] ELSE file[fd[q]]

unchangedButMoves == UNCHANGED <<file, scores, halfScores, request, serial, now,
                                 crashes, stopping, committed, seen, over>>

-----------------------------------------------------------------------------
(* loadGame and findGameFileForPlayer, by the server and by sessions.      *)

player(q) == request[q].PLID

(* Mutant: the last game is looked for first.                              *)
OpenOngoing_lastFirst(q) ==
    LET name == IF file[lastFile(player(q))] # NoFile THEN lastFile(player(q))
                                                      ELSE ongoingFile(player(q))
    IN
    /\ pc[q] = "open"
    /\ IF file[name] # NoFile
       THEN open(q, name) /\ goto(q, "lock")
       ELSE load(q, NoGame, "loaded") /\ UNCHANGED descriptors
    /\ unchangedButMoves

OpenOngoing(q) ==
    /\ pc[q] = "open"
    /\ \/ /\ file[ongoingFile(player(q))] # NoFile
          /\ open(q, ongoingFile(player(q)))
          /\ goto(q, "lock")
       \/ /\ file[ongoingFile(player(q))] = NoFile
          /\ IF request[q].cmd = "STA" THEN goto(q, "openLast")
                                       ELSE load(q, NoGame, "loaded")
          /\ UNCHANGED descriptors
    /\ unchangedButMoves

OpenLast(q) ==
    /\ pc[q] = "openLast"
    /\ \/ /\ file[lastFile(player(q))] # NoFile
          /\ open(q, lastFile(player(q)))
          /\ goto(q, "lock")
       \/ /\ file[lastFile(player(q))] = NoFile
          /\ load(q, NoGame, "loaded")
          /\ UNCHANGED descriptors
    /\ unchangedButMoves

LockGame(q) ==
    /\ pc[q] = "lock"
    /\ flock(q, "exclusive")
    /\ goto(q, "read")
    /\ unchangedButMoves

(* Mutant: the file is not closed.                                         *)
ReadGame_keepsOpen(q) ==
    /\ pc[q] = "read"
    /\ load(q, IF contentOf(q) = Empty THEN NoGame ELSE contentOf(q), "loaded")
    /\ UNCHANGED descriptors
    /\ unchangedButMoves

(* Mutant: a game without trials is not read.                              *)
ReadGame_needsTrials(q) ==
    /\ pc[q] = "read"
    /\ load(q, IF contentOf(q) = Empty \/ contentOf(q).trials = 0
               THEN NoGame ELSE contentOf(q), "loaded")
    /\ close(q)
    /\ unchangedButMoves

(* Mutant: an empty file is taken for a game.                              *)
ReadGame_trustsFile(q) ==
    /\ pc[q] = "read"
    /\ load(q, contentOf(q), "loaded")
    /\ close(q)
    /\ unchangedButMoves

ReadGame(q) ==
    /\ pc[q] = "read"
    /\ load(q, IF contentOf(q) = Empty THEN NoGame ELSE contentOf(q), "loaded")
    /\ close(q)
    /\ unchangedButMoves

Load(q) == OpenOngoing(q) \/ OpenLast(q) \/ LockGame(q) \/ ReadGame(q)

-----------------------------------------------------------------------------
(* The server: one datagram after the other.                               *)

timePasses == now' \in {now, now + 1} /\ now' <= MaxTime

(* A request takes no time here: it looks at the clock at most once.       *)
AcceptDatagram ==
    /\ pc[Server] = "idle"
    /\ \E r \in UDPRequests : request' = [request EXCEPT ![Server] = r]
    /\ goto(Server, "open")
    /\ timePasses
    /\ UNCHANGED <<files, descriptors, serial, crashes, stopping, history>>

(* Whether a game is to be saved or ended: both go through saveGame, a won *)
(* game through registerScore first.                                       *)
save(game) ==
    load(Server, game, IF game.outcome = "win" THEN "createScore" ELSE "create")

finish(game, outcome) == save([game EXCEPT !.outcome = outcome])

(* What a trial makes of a game.                                           *)
tried(game) ==
    {[game EXCEPT !.trials = @ + 1, !.outcome = outcome] :
        outcome \in {"ongoing", "fail"}}
    \cup {[game EXCEPT !.trials = @ + 1, !.outcome = "win", !.score = score] :
            score \in 1..MaxScore}

(* What the handlers do with the game they loaded.                         *)
Handle ==
    LET cmd == request[Server].cmd
        game == mem[Server]
    IN
    /\ pc[Server] = "loaded"
    /\ \/ /\ cmd = "SNG" /\ game = NoGame /\ serial < MaxGames
          /\ serial' = serial + 1
          /\ save([id |-> serial + 1, trials |-> 0, score |-> 0,
                   outcome |-> "ongoing"])
       \/ /\ cmd = "TRIAL" /\ game # NoGame \* out of turn or repeated
          /\ save(game)
          /\ UNCHANGED serial
       \/ /\ cmd = "TRIAL" /\ game # NoGame /\ game.trials < MaxTrials
          /\ \E after \in tried(game) : save(after)
          /\ UNCHANGED serial
       \/ /\ cmd = "QUT" /\ game # NoGame
          /\ finish(game, "quit")
          /\ UNCHANGED serial
       \/ /\ \/ cmd \in {"TRIAL", "QUT"} /\ game = NoGame
             \/ cmd = "TRIAL" \* a duplicate
             \/ cmd = "SNG" /\ (game # NoGame \/ serial = MaxGames)
             \/ cmd = "REV"
          /\ goto(Server, "reply")
          /\ UNCHANGED serial
    /\ UNCHANGED <<files, descriptors, request, now, crashes, stopping, history>>

(* newScore: the score of the game in memory, with the time it is.         *)
newScore == [PLID |-> player(Server), stamp |-> now, game |-> mem[Server]]

otherNames(ends) == {end \in ends : nameOf(end) # nameOf(newScore)}

(* Mutant: the scoreboard is made while the score is still in a buffer.    *)
CreateScore_unflushed ==
    /\ pc[Server] = "createScore"
    /\ halfScores' = otherNames(halfScores) \cup {newScore}
    /\ scores' = otherNames(scores)
    /\ goto(Server, "createBoard")
    /\ UNCHANGED <<file, descriptors, request, serial, now, crashes, stopping,
                   history>>

(* registerScore: the score file, in place of one of the same name, then   *)
(* the scoreboard.                                                         *)
CreateScore ==
    /\ pc[Server] = "createScore"
    /\ halfScores' = otherNames(halfScores) \cup {newScore}
    /\ scores' = otherNames(scores)
    /\ goto(Server, "writeScore")
    /\ UNCHANGED <<file, descriptors, request, serial, now, crashes, stopping,
                   history>>

scoreWritten ==
    /\ halfScores' = halfScores \ {newScore}
    /\ scores' = scores \cup {newScore}

WriteScore ==
    /\ pc[Server] = "writeScore"
    /\ scoreWritten
    /\ goto(Server, "createBoard")
    /\ UNCHANGED <<file, descriptors, request, serial, now, crashes, stopping,
                   history>>

(* generateScoreboard; which ten files are listed is GameServer's subject. *)
CreateBoard ==
    /\ pc[Server] = "createBoard"
    /\ file' = [file EXCEPT ![Scoreboard] = Empty]
    /\ open(Server, Scoreboard)
    /\ goto(Server, "lockBoard")
    /\ UNCHANGED <<scores, halfScores, request, serial, now, crashes, stopping,
                   history>>

LockBoard ==
    /\ pc[Server] = "lockBoard"
    /\ flock(Server, "exclusive")
    /\ goto(Server, "writeBoard")
    /\ unchangedButMoves

WriteBoard ==
    /\ pc[Server] = "writeBoard"
    /\ file' = [file EXCEPT ![Scoreboard] = scores]
    /\ close(Server)
    /\ goto(Server, "create")
    /\ UNCHANGED <<scores, halfScores, request, serial, now, crashes, stopping,
                   history>>

(* Mutant: a game that ends is saved where it was.                         *)
target_ongoing(game) == ongoingFile(player(Server))

(* saveGame: the name follows from the outcome.                            *)
target(game) ==
    IF game.outcome = "ongoing" THEN ongoingFile(player(Server))
                                ELSE lastFile(player(Server))

(* fopen(.., "w") truncates before the lock is asked for.                  *)
CreateGame ==
    /\ pc[Server] = "create"
    /\ file' = [file EXCEPT ![target(mem[Server])] = Empty]
    /\ open(Server, target(mem[Server]))
    /\ goto(Server, "lockSave")
    /\ UNCHANGED <<scores, halfScores, request, serial, now, crashes, stopping,
                   history>>

LockSave ==
    /\ pc[Server] = "lockSave"
    /\ flock(Server, "exclusive")
    /\ goto(Server, "write")
    /\ unchangedButMoves

(* From now on a session of player p may read the game.                    *)
nowSeen(p, game) ==
    seen' = [s \in Sessions |->
                IF request[s].cmd \in {"STA", "GHL"} /\ player(s) = p
                THEN seen[s] \cup {game} ELSE seen[s]]

(* Mutant: the ongoing file is not removed.                                *)
WriteGame_keepsOngoing ==
    LET game == mem[Server] IN
    /\ pc[Server] = "write"
    /\ file' = [file EXCEPT ![target(game)] = game]
    /\ close(Server)
    /\ nowSeen(player(Server), game)
    /\ IF game.outcome = "ongoing"
       THEN committed' = [committed EXCEPT ![player(Server)] = game]
       ELSE UNCHANGED committed
    /\ goto(Server, "reply")
    /\ UNCHANGED <<scores, halfScores, request, serial, now, crashes, stopping,
                   over>>

WriteGame ==
    LET game == mem[Server] IN
    /\ pc[Server] = "write"
    /\ file' = [file EXCEPT ![target(game)] = game]
    /\ close(Server)
    /\ nowSeen(player(Server), game)
    /\ \/ /\ game.outcome = "ongoing"
          /\ committed' = [committed EXCEPT ![player(Server)] = game]
          /\ goto(Server, "reply")
       \/ /\ game.outcome # "ongoing"
          /\ goto(Server, "unlink")
          /\ UNCHANGED committed
    /\ UNCHANGED <<scores, halfScores, request, serial, now, crashes, stopping,
                   over>>

(* A session that has the file open keeps it.                              *)
UnlinkOngoing ==
    LET name == ongoingFile(player(Server)) IN
    /\ pc[Server] = "unlink"
    /\ file' = [file EXCEPT ![name] = NoFile]
    /\ fd' = [q \in Processes |-> IF fd[q] = name THEN Unlinked ELSE fd[q]]
    /\ orphan' = [s \in Sessions |->
                     IF fd[s] = name THEN file[name] ELSE orphan[s]]
    /\ committed' = [committed EXCEPT ![player(Server)] = mem[Server]]
    /\ goto(Server, "reply")
    /\ UNCHANGED <<scores, halfScores, lock, request, serial, now, crashes,
                   stopping, seen, over>>

(* The answer, and the test of the loop.                                   *)
Reply ==
    /\ pc[Server] = "reply"
    /\ over' = IF mem[Server] # NoGame /\ mem[Server].outcome # "ongoing"
               THEN over \cup {newScore} ELSE over
    /\ load(Server, NoGame, IF stopping THEN "down" ELSE "idle")
    /\ request' = [request EXCEPT ![Server] = NoRequest]
    /\ UNCHANGED <<files, descriptors, serial, now, crashes, stopping,
                   committed, seen>>

ServerStep ==
    \/ AcceptDatagram \/ Load(Server) \/ Handle
    \/ CreateScore \/ WriteScore \/ CreateBoard \/ LockBoard \/ WriteBoard
    \/ CreateGame \/ LockSave \/ WriteGame \/ UnlinkOngoing \/ Reply

-----------------------------------------------------------------------------
(* A crash, or the end by a second Ctrl-C; time may pass until the restart.*)

onFile(content, p) ==
    LET name == IF content[ongoingFile(p)] # NoFile THEN ongoingFile(p)
                                                    ELSE lastFile(p)
    IN  IF content[name] \in {NoFile, Empty} THEN NoGame ELSE content[name]

(* What a killed process leaves of the file it was writing: nothing.  The  *)
(* second Ctrl-C calls exit, which writes out what of it was in the buffer:*)
(* a game is then without its last trials.                                 *)
leftBehind ==
    \/ UNCHANGED <<files, seen>>
    \/ /\ pc[Server] = "write"
       /\ \E k \in 0..mem[Server].trials :
            LET torn == [mem[Server] EXCEPT !.trials = k] IN
            /\ file' = [file EXCEPT ![target(mem[Server])] = torn]
            /\ nowSeen(player(Server), torn)
       /\ UNCHANGED <<scores, halfScores>>
    \/ /\ pc[Server] = "writeScore"
       /\ scoreWritten
       /\ UNCHANGED <<file, seen>>
    \/ /\ pc[Server] = "writeBoard"
       /\ \E some \in SUBSET scores : file' = [file EXCEPT ![Scoreboard] = some]
       /\ UNCHANGED <<scores, halfScores, seen>>

Crash ==
    /\ pc[Server] # "down" /\ crashes < MaxCrashes
    /\ crashes' = crashes + 1
    /\ load(Server, NoGame, "down")
    /\ close(Server)
    /\ leftBehind
    /\ committed' = [p \in PLIDs |-> onFile(file', p)]
    /\ request' = [request EXCEPT ![Server] = NoRequest]
    /\ UNCHANGED <<serial, now, stopping, over>>

Restart ==
    /\ pc[Server] = "down"
    /\ goto(Server, "idle")
    /\ stopping' = FALSE
    /\ timePasses
    /\ UNCHANGED <<files, descriptors, request, serial, crashes, history>>

-----------------------------------------------------------------------------
(* SIGINT while a process waits in flock: a handler set by signal ends the *)
(* wait with EINTR, and what called flock fails without closing the file.  *)
(* The descriptor that leaks has no lock and is forgotten.                 *)
interrupted(q) ==
    /\ crashes < MaxCrashes
    /\ crashes' = crashes + 1
    /\ pc[q] \in {"lock", "lockSave", "lockBoard", "lockShared"}
    /\ \/ fd[q] = Unlinked
       \/ ~available(q, IF pc[q] = "lockShared" THEN "shared" ELSE "exclusive")
    /\ close(q)

(* The server goes on as if the player had no game, or answers ERR; its    *)
(* loop ends then.  (The handler first waits for the listener: here the    *)
(* sessions may also go on.  A second SIGINT is a crash.  SNG and PWG then *)
(* free a PLID or a word twice and may abort: the files stay as they are.) *)
ServerLockFails ==
    /\ interrupted(Server) /\ ~stopping
    /\ stopping' = TRUE
    /\ load(Server, NoGame, IF pc[Server] = "lock" THEN "loaded" ELSE "reply")
    /\ committed' = [p \in PLIDs |-> onFile(file, p)]
    /\ UNCHANGED <<files, request, serial, now, seen, over>>

(* A session answers NOK or EMPTY.                                         *)
SessionLockFails(s) ==
    /\ interrupted(s)
    /\ load(s, IF pc[s] = "lock" THEN NoGame ELSE NoFile, "loaded")
    /\ UNCHANGED <<files, request, serial, now, stopping, history>>

-----------------------------------------------------------------------------
(* A TCP session: state, hint or scoreboard.                               *)

Connect(s) ==
    /\ pc[s] = "idle"
    /\ \E r \in TCPRequests :
         /\ request' = [request EXCEPT ![s] = r]
         /\ IF r.cmd = "GSB"
            THEN /\ goto(s, "openBoard")
                 /\ seen' = [seen EXCEPT ![s] = {end.game : end \in over}]
            ELSE /\ goto(s, "open")
                 /\ seen' = [seen EXCEPT ![s] =
                        {committed[r.PLID]} \cup
                        (IF pc[Server] = "unlink" /\ player(Server) = r.PLID
                         THEN {mem[Server]} ELSE {})]
    /\ UNCHANGED <<files, descriptors, serial, now, crashes, stopping,
                   committed, over>>

(* getScoreboard and getResponseFile.                                      *)
OpenBoard(s) ==
    /\ pc[s] = "openBoard"
    /\ \/ /\ file[Scoreboard] # NoFile
          /\ open(s, Scoreboard)
          /\ goto(s, "lockShared")
       \/ /\ file[Scoreboard] = NoFile
          /\ load(s, NoFile, "loaded")
          /\ UNCHANGED descriptors
    /\ unchangedButMoves

LockShared(s) ==
    /\ pc[s] = "lockShared"
    /\ flock(s, "shared")
    /\ goto(s, "stat")
    /\ unchangedButMoves

(* fstat: the size, kept as the content it is the size of.                 *)
StatBoard(s) ==
    /\ pc[s] = "stat"
    /\ load(s, contentOf(s), "readBoard")
    /\ UNCHANGED descriptors
    /\ unchangedButMoves

(* fread: a file that was truncated since is too short.                    *)
ReadBoard(s) ==
    /\ pc[s] = "readBoard"
    /\ load(s, IF mem[s] = contentOf(s) THEN mem[s] ELSE NoFile, "loaded")
    /\ close(s)
    /\ unchangedButMoves

(* The answer is sent and the process ends, which closes what it has open. *)
Answer(s) ==
    /\ pc[s] = "loaded"
    /\ load(s, NoGame, "done")
    /\ request' = [request EXCEPT ![s] = NoRequest]
    /\ seen' = [seen EXCEPT ![s] = {}]
    /\ close(s)
    /\ UNCHANGED <<files, serial, now, crashes, stopping, committed, over>>

SessionStep(s) ==
    \/ Connect(s) \/ Load(s)
    \/ OpenBoard(s) \/ LockShared(s) \/ StatBoard(s) \/ ReadBoard(s)
    \/ Answer(s)

Next ==
    \/ ServerStep \/ ServerLockFails \/ Crash \/ Restart
    \/ \E s \in Sessions : SessionStep(s) \/ SessionLockFails(s)

Spec == Init /\ [][Next]_vars

(* Every process runs on; a server need not receive anything, be started   *)
(* again or be interrupted.                                                *)
FairSpec ==
    /\ Spec
    /\ WF_vars(ServerStep /\ pc[Server] # "idle")
    /\ \A s \in Sessions : WF_vars(SessionStep(s) /\ pc[s] # "idle")

-----------------------------------------------------------------------------
Labels == {"idle", "down", "open", "openLast", "lock", "read", "loaded",
           "createScore", "writeScore", "createBoard", "lockBoard", "writeBoard",
           "create", "lockSave", "write", "unlink", "reply",
           "openBoard", "lockShared", "stat", "readBoard", "done"}

(* Files hold games, scores or nothing, and only a process between opening *)
(* and closing a file has a lock.                                          *)
TypeOK ==
    /\ \A f \in GameFiles : file[f] \in Games \cup {NoFile, Empty}
    /\ file[Scoreboard] \in (SUBSET Ends) \cup {NoFile, Empty}
    /\ scores \subseteq Ends /\ halfScores \subseteq Ends
    /\ pc \in [Processes -> Labels]
    /\ mem[Server] \in Games \cup {NoGame}
    /\ \A q \in Processes :
         /\ fd[q] \in GameFiles \cup {Scoreboard, Closed, Unlinked}
         /\ lock[q] \in {"none", "shared", "exclusive"}
         /\ fd[q] = Closed => lock[q] = "none"
    /\ committed \in [PLIDs -> Games \cup {NoGame}]
    /\ over \subseteq Ends

(* While the ongoing file of player p is rewritten.                        *)
rewriting(p) ==
    /\ pc[Server] \in {"lockSave", "write"}
    /\ player(Server) = p /\ mem[Server].outcome = "ongoing"

(* Every game last saved or ended is whole in one of its player's files,   *)
(* except while saveGame rewrites the file of a game that goes on: endGame *)
(* never has it in neither, wherever it is.                                *)
GameOnFile ==
    \A p \in PLIDs :
        rewriting(p) \/ committed[p] = onFile(file, p)

(* What a session reads is a game its player had at some time since the    *)
(* session began, although it looks for one file after the other and the   *)
(* server rewrites and removes them meanwhile.                             *)
AnswersCurrent ==
    \A s \in Sessions :
        pc[s] = "loaded" /\ request[s].cmd \in {"STA", "GHL"} /\ mem[s] # NoGame
            => mem[s] \in seen[s]

(* A game in progress is lost, or loses trials, only by an interruption:   *)
(* of saveGame while it rewrites the game, or of loadGame, whose failure   *)
(* SNG takes for the want of a game.                                       *)
inProgress(p) == committed[p] # NoGame /\ committed[p].outcome = "ongoing"

goesBack(p) ==
    \/ committed'[p] = NoGame
    \/ committed'[p].id # committed[p].id
    \/ committed'[p].trials < committed[p].trials

GameLostOnlyByInterruption ==
    [][\A p \in PLIDs :
         inProgress(p) /\ goesBack(p)
            => stopping \/ (rewriting(p) /\ crashes' > crashes)]_vars

(* The player won again, with the same score in the same second, and that  *)
(* game's file has the name of this one's: it may even be empty since.     *)
replaced(end) ==
    \E later \in scores \cup halfScores :
        nameOf(later) = nameOf(end) /\ later.game.id > end.game.id

(* An end that was answered is final, whatever crashes: the game is never  *)
(* in progress again, and its score, if it was won, stays until a later    *)
(* win of the same name replaces it.                                       *)
AnsweredEndIsFinal ==
    \A end \in over :
        /\ \A p \in PLIDs :
             committed[p] # NoGame /\ committed[p].id = end.game.id
                => p = end.PLID /\ committed[p] = end.game
        /\ end.game.outcome = "win" => end \in scores \/ replaced(end)

(* Until the server is first killed or interrupted, every score file is on *)
(* the scoreboard whenever no win is being registered.                     *)
ScoreboardComplete ==
    crashes = 0 /\ pc[Server] \in {"idle", "open", "lock", "read", "loaded"} =>
        \/ scores = {} /\ file[Scoreboard] = NoFile
        \/ scores # {} /\ file[Scoreboard] = scores

(* Nobody waits for a lock for ever: the server answers every datagram     *)
(* unless it crashes, and once it stops being busy every session is        *)
(* answered.  (A server that never pauses may take the lock again and      *)
(* again before a session does.)                                           *)
busy == pc[Server] \notin {"idle", "down"}

EveryoneServed ==
    /\ busy ~> ~busy
    /\ \A s \in Sessions :
         <>[]~busy => (pc[s] # "idle" ~> pc[s] = "done")

(* Statement, page 7: RSB EMPTY is the answer "if the scoreboard is still  *)
(* empty (no game was yet won by any player)".                             *)
EmptyOnlyBeforeFirstWin ==
    \A s \in Sessions :
        pc[s] = "loaded" /\ request[s].cmd = "GSB" /\ mem[s] = NoFile =>
            \A game \in seen[s] : game.outcome # "win"
=============================================================================

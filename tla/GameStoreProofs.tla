--------------------------- MODULE GameStoreProofs ---------------------------
(***************************************************************************)
(* Safety of the Game Server's files, for any players and TCP sessions and *)
(* any number of games, trials and crashes: what is saved is on file, a    *)
(* session never answers with what its player did not have, a game in      *)
(* progress is lost only by an interruption, and an end that was answered  *)
(* is final.                                                               *)
(***************************************************************************)
EXTENDS GameStore, TLAPS

Loading == {"open", "lock", "read"}
Scoring == {"createScore", "writeScore", "createBoard", "lockBoard", "writeBoard"}
Saving == {"create", "lockSave", "write"}
ServerLabels == {"idle", "down", "loaded", "unlink", "reply"}
                    \cup Loading \cup Scoring \cup Saving

Searching == Loading \cup {"openLast"}
ReadingBoard == {"openBoard", "lockShared", "stat", "readBoard"}
SessionLabels == {"idle", "loaded", "done"} \cup Searching \cup ReadingBoard

StoreTypes ==
    /\ DOMAIN file = GameFiles \cup {Scoreboard}
    /\ \A f \in GameFiles : file[f] \in Games \cup {NoFile, Empty}
    /\ file[Scoreboard] \in (SUBSET Ends) \cup {NoFile, Empty}
    /\ scores \subseteq Ends /\ halfScores \subseteq Ends
    /\ serial \in 0..MaxGames /\ crashes \in 0..MaxCrashes /\ now \in 0..MaxTime
    /\ DOMAIN fd = Processes /\ DOMAIN lock = Processes
    /\ pc \in [Processes -> Labels] /\ DOMAIN mem = Processes
    /\ DOMAIN request = Processes
    /\ DOMAIN orphan = Sessions /\ DOMAIN seen = Sessions
    /\ committed \in [PLIDs -> Games \cup {NoGame}]
    /\ over \subseteq Ends

(* Where the server is, what it holds in memory and has open.              *)
ServerInv ==
    /\ pc[Server] \in ServerLabels
    /\ request[Server] \in IF pc[Server] \in {"idle", "down"}
                           THEN {NoRequest} ELSE UDPRequests
    /\ pc[Server] \in {"idle", "down"} \cup Loading => mem[Server] = NoGame
    /\ pc[Server] \in {"loaded", "reply"} => mem[Server] \in Games \cup {NoGame}
    /\ pc[Server] \in Scoring \cup Saving \cup {"unlink"} => mem[Server] \in Games
    /\ pc[Server] \in Scoring => mem[Server].outcome = "win"
    /\ pc[Server] = "unlink" => mem[Server].outcome # "ongoing"
    /\ pc[Server] \in {"lock", "read"} => file[ongoingFile(player(Server))] # NoFile
    /\ fd[Server] =
         IF pc[Server] \in {"lock", "read"} THEN ongoingFile(player(Server))
         ELSE IF pc[Server] \in {"lockBoard", "writeBoard"} THEN Scoreboard
         ELSE IF pc[Server] \in {"lockSave", "write"} THEN target(mem[Server])
         ELSE Closed

searchesFor(s, p) ==
    /\ pc[s] \in Searching \cup {"loaded"}
    /\ request[s].cmd \in {"STA", "GHL"} /\ player(s) = p

(* Where a session is and what it has open.                                *)
sessionAt(s) ==
    /\ pc[s] \in SessionLabels
    /\ request[s] \in IF pc[s] \in {"idle", "done"} THEN {NoRequest} ELSE TCPRequests
    /\ pc[s] \in Searching => request[s].cmd \in {"STA", "GHL"}
    /\ pc[s] \in ReadingBoard => request[s].cmd = "GSB"

sessionHas(s) ==
    /\ fd[s] \in IF pc[s] \in {"lock", "read"}
                 THEN {ongoingFile(player(s)), lastFile(player(s)), Unlinked}
                 ELSE IF pc[s] \in ReadingBoard \ {"openBoard"} THEN {Scoreboard}
                 ELSE {Closed}
    /\ fd[s] \in GameFiles => file[fd[s]] # NoFile
    /\ fd[s] = Unlinked => orphan[s] \in Games \cup {Empty}

SessionInv == \A s \in Sessions : sessionAt(s) /\ sessionHas(s)

LockInv == \A q \in Processes :
    /\ lock[q] \in {"none", "shared", "exclusive"}
    /\ fd[q] = Closed => lock[q] = "none"

(* From the file it loaded to the one it writes, the server has the only   *)
(* game in progress of its player; the ongoing file stays until the ended  *)
(* game is in the other one.                                               *)
FilesInv ==
    /\ \A p \in PLIDs :
         /\ file[ongoingFile(p)] \in Games => file[ongoingFile(p)].outcome = "ongoing"
         /\ file[lastFile(p)] \in Games => file[lastFile(p)].outcome # "ongoing"
         /\ rewriting(p) => file[ongoingFile(p)] = Empty
    /\ pc[Server] = "loaded" /\ mem[Server] # NoGame =>
         file[ongoingFile(player(Server))] = mem[Server]
    /\ pc[Server] \in Scoring \cup Saving \cup {"unlink"}
         /\ mem[Server].outcome # "ongoing" =>
            file[ongoingFile(player(Server))] \in Games
    /\ pc[Server] = "unlink" => file[lastFile(player(Server))] = mem[Server]
    /\ pc[Server] = "reply" /\ mem[Server] # NoGame
         /\ mem[Server].outcome # "ongoing" =>
            /\ file[ongoingFile(player(Server))] = NoFile
            /\ file[lastFile(player(Server))] = mem[Server]
            /\ committed[player(Server)] = mem[Server]

(* What a session has found so far, or may still find.                     *)
finds(s, p) ==
    /\ onFile(file, p) \in seen[s] \cup {NoGame}
    /\ pc[Server] = "unlink" /\ player(Server) = p => mem[Server] \in seen[s]
    /\ pc[s] = "openLast" /\ file[lastFile(p)] \in Games => file[lastFile(p)] \in seen[s]
    /\ pc[s] \in {"lock", "read"} /\ contentOf(s) \in Games => contentOf(s) \in seen[s]
    /\ pc[s] = "loaded" => mem[s] \in seen[s] \cup {NoGame}

SeenInv == \A s \in Sessions, p \in PLIDs : searchesFor(s, p) => finds(s, p)

(* Game n is player p's, by the files, the change last made, or the memory *)
(* of the server.                                                          *)
has(p, n) ==
    \/ \E f \in {ongoingFile(p), lastFile(p)} : file[f] \in Games /\ file[f].id = n
    \/ committed[p] # NoGame /\ committed[p].id = n
    \/ /\ request[Server] # NoRequest /\ player(Server) = p
       /\ mem[Server] # NoGame /\ mem[Server].id = n

OwnersInv ==
    \A p \in PLIDs, n \in Int : has(p, n) =>
      /\ n \in 1..serial
      /\ \A r \in PLIDs : has(r, n) => r = p

(* Game n, if it is player p's, was started after the end given.           *)
isAfter(p, n, end) == n # end.game.id /\ (p = end.PLID => n > end.game.id)

(* No file of a game that was answered as over brings it back, and what    *)
(* the server works on is another, its player's a later one.               *)
settled(end) ==
    /\ end \in Ends /\ end.game.id \in 1..serial
    /\ \A p \in PLIDs :
         /\ file[ongoingFile(p)] \in Games => isAfter(p, file[ongoingFile(p)].id, end)
         /\ file[lastFile(p)] \in Games /\ file[lastFile(p)].id = end.game.id =>
              p = end.PLID /\ file[lastFile(p)] = end.game
         /\ committed[p] # NoGame /\ committed[p].id = end.game.id =>
              p = end.PLID /\ committed[p] = end.game
    /\ pc[Server] \in {"loaded", "unlink"} \cup Scoring \cup Saving
         /\ mem[Server] # NoGame => isAfter(player(Server), mem[Server].id, end)

keepsScore(end) == end.game.outcome = "win" => end \in scores \/ replaced(end)

OverInv == \A end \in over : settled(end) /\ keepsScore(end)

(* From its registration to the answer, the score of a game won is there.  *)
ScoredInv ==
    pc[Server] \in {"createBoard", "lockBoard", "writeBoard", "unlink", "reply"} \cup Saving
      /\ mem[Server] # NoGame /\ mem[Server].outcome = "win" => newScore \in scores

(* Unless it was interrupted, the server has the game in progress of its   *)
(* player in memory, as it was or some trials further.                     *)
ContinuesInv ==
    ~stopping /\ pc[Server] \in {"loaded", "unlink"} \cup Scoring \cup Saving
      /\ inProgress(player(Server)) =>
        /\ mem[Server] # NoGame
        /\ mem[Server].id = committed[player(Server)].id
        /\ mem[Server].trials >= committed[player(Server)].trials

BoardInv ==
    crashes = 0 =>
        \/ pc[Server] \in {"writeScore", "createBoard", "lockBoard", "writeBoard"}
        \/ scores = {} /\ file[Scoreboard] = NoFile
        \/ scores # {} /\ file[Scoreboard] = scores

(* The layers of the inductive invariant: where everybody is, then what is *)
(* on file, which makes what is answered current and what is over final.   *)
Shape == StoreTypes /\ ServerInv /\ SessionInv /\ LockInv

IInv ==
    /\ Shape /\ FilesInv /\ GameOnFile /\ SeenInv
    /\ ContinuesInv /\ OwnersInv /\ ScoredInv /\ OverInv /\ BoardInv

-----------------------------------------------------------------------------
LEMMA Names ==
    /\ \A p \in PLIDs :
         /\ ongoingFile(p) \in GameFiles /\ lastFile(p) \in GameFiles
         /\ \A r \in PLIDs :
              /\ ongoingFile(p) # lastFile(r)
              /\ ongoingFile(p) = ongoingFile(r) => p = r
              /\ lastFile(p) = lastFile(r) => p = r
    /\ \A f \in GameFiles :
         /\ f # Scoreboard /\ f # Closed /\ f # Unlinked
         /\ \E p \in PLIDs : f = ongoingFile(p) \/ f = lastFile(p)
    /\ Scoreboard # Closed /\ Scoreboard # Unlinked /\ Closed # Unlinked
    /\ Server \notin Sessions
    /\ NoFile # Empty
    /\ \A game \in Games : game # NoFile /\ game # Empty /\ game # NoGame
<1>1. \A p, r \in PLIDs :
         /\ <<"ongoing", p>> # <<"last", r>>
         /\ <<"ongoing", p>> = <<"ongoing", r>> => p = r
         /\ <<"last", p>> = <<"last", r>> => p = r
  OBVIOUS
<1> QED
  BY <1>1, NamesAssumption, StoreAssumption DEF GameFiles, ongoingFile, lastFile

LEMMA InitShape == Init => Shape
<1> SUFFICES ASSUME Init PROVE Shape
  OBVIOUS
<1> USE StoreAssumption, Names DEF Init, Processes
<1>1. StoreTypes
  BY DEF StoreTypes, Labels
<1>2. ServerInv
  BY DEF ServerInv, ServerLabels, Loading, Scoring, Saving
<1>3. SessionInv
  BY DEF SessionInv, sessionAt, sessionHas, SessionLabels, Searching,
     ReadingBoard,
       Loading
<1>4. LockInv
  BY DEF LockInv
<1> QED
  BY <1>1, <1>2, <1>3, <1>4 DEF Shape

(* What every step is made of.                                             *)
LEMMA ServerCases ==
    ASSUME Shape, ServerStep
    PROVE  \/ AcceptDatagram \/ OpenOngoing(Server) \/ LockGame(Server)
           \/ ReadGame(Server) \/ Handle \/ CreateScore \/ WriteScore
           \/ CreateBoard \/ LockBoard \/ WriteBoard
           \/ CreateGame \/ LockSave \/ WriteGame \/ UnlinkOngoing \/ Reply
BY DEF ServerStep, Load, OpenLast, Shape, ServerInv, ServerLabels, Loading,
   Scoring, Saving

(* A step of the server leaves the sessions where they are; only the       *)
(* removal of a file changes what a session has open.                      *)
LEMMA ServerLeavesSessions ==
    ASSUME Shape, ServerStep, NEW s \in Sessions
    PROVE  /\ pc'[s] = pc[s] /\ mem'[s] = mem[s] /\ request'[s] = request[s]
           /\ UnlinkOngoing \/ (/\ fd'[s] = fd[s] /\ orphan'[s] = orphan[s]
                               /\ lock'[s] = lock[s])
<1> s \in Processes /\ Server \in Processes /\ s # Server /\ Server \notin Sessions
  BY Names DEF Processes
<1> USE DEF Shape, StoreTypes, files, descriptors, history, unchangedButMoves,
        goto, load, open, close, flock
<1>1. CASE AcceptDatagram
  BY <1>1 DEF AcceptDatagram
<1>2. CASE OpenOngoing(Server)
  BY <1>2 DEF OpenOngoing
<1>3. CASE LockGame(Server)
  BY <1>3 DEF LockGame
<1>4. CASE ReadGame(Server)
  BY <1>4 DEF ReadGame
<1>5. CASE Handle
  BY <1>5 DEF Handle, save, finish
<1>6. CASE CreateScore
  BY <1>6 DEF CreateScore
<1>7. CASE WriteScore
  BY <1>7 DEF WriteScore
<1>8. CASE CreateBoard
  BY <1>8 DEF CreateBoard
<1>9. CASE LockBoard
  BY <1>9 DEF LockBoard
<1>10. CASE WriteBoard
  BY <1>10 DEF WriteBoard
<1>11. CASE CreateGame
  BY <1>11 DEF CreateGame
<1>12. CASE LockSave
  BY <1>12 DEF LockSave
<1>13. CASE WriteGame
  BY <1>13 DEF WriteGame
<1>14. CASE UnlinkOngoing
  BY <1>14 DEF UnlinkOngoing
<1>15. CASE Reply
  BY <1>15 DEF Reply
<1> QED
  BY ServerCases, <1>1, <1>2, <1>3, <1>4, <1>5, <1>6, <1>7, <1>8, <1>9, <1>10,
     <1>11, <1>12, <1>13, <1>14, <1>15

LEMMA SavedTarget ==
    ASSUME Shape, pc[Server] \in Scoring \cup Saving \cup {"unlink"}
    PROVE  /\ player(Server) \in PLIDs /\ mem[Server] \in Games
           /\ target(mem[Server]) \in GameFiles
           /\ target(mem[Server]) = IF mem[Server].outcome = "ongoing"
                                    THEN ongoingFile(player(Server))
                                    ELSE lastFile(player(Server))
BY Names DEF Shape, ServerInv, UDPRequests, player, target, Scoring, Saving

(* The server removes one file, and games and scores are what it writes.   *)
LEMMA ServerFiles ==
    ASSUME Shape, ServerStep
    PROVE  /\ DOMAIN file' = DOMAIN file
           /\ \A f \in GameFiles :
                \/ file'[f] = file[f]
                \/ CreateGame /\ f = target(mem[Server]) /\ file'[f] = Empty
                \/ WriteGame /\ f = target(mem[Server]) /\ file'[f] = mem[Server]
                \/ UnlinkOngoing /\ f = ongoingFile(player(Server)) /\ file'[f] = NoFile
           /\ file'[Scoreboard] \in (SUBSET Ends) \cup {NoFile, Empty}
<1> USE DEF Shape, StoreTypes, files, unchangedButMoves
<1>1. UNCHANGED file \/ CreateBoard \/ WriteBoard \/ CreateGame \/ WriteGame
        \/ UnlinkOngoing
  BY ServerCases DEF AcceptDatagram, OpenOngoing, LockGame, ReadGame, Handle,
     CreateScore, WriteScore, LockBoard, LockSave, Reply
<1>2. CASE UNCHANGED file
  BY <1>2
<1>3. CASE CreateBoard
  BY <1>3, Names DEF CreateBoard
<1>4. CASE WriteBoard
  BY <1>4, Names DEF WriteBoard
<1>5. CASE CreateGame
  BY <1>5, Names, SavedTarget DEF CreateGame, Saving
<1>6. CASE WriteGame
  BY <1>6, Names, SavedTarget DEF WriteGame, Saving
<1>7. CASE UnlinkOngoing
  BY <1>7, Names, SavedTarget DEF UnlinkOngoing
<1> QED
  BY <1>1, <1>2, <1>3, <1>4, <1>5, <1>6, <1>7

LEMMA ServerSessionInv ==
    ASSUME Shape, ServerStep
    PROVE  SessionInv'
<1> SUFFICES ASSUME NEW s \in Sessions
             PROVE  sessionAt(s)' /\ sessionHas(s)'
  BY DEF SessionInv
<1>1. /\ pc'[s] = pc[s] /\ request'[s] = request[s]
      /\ player(s)' = player(s)
  BY ServerLeavesSessions DEF player
<1>2. sessionAt(s) /\ sessionHas(s)
  BY DEF Shape, SessionInv
<1>3. \A f \in GameFiles : file'[f] # NoFile \/ file'[f] = file[f]
                           \/ (UnlinkOngoing /\ f = ongoingFile(player(Server)))
  BY ServerFiles, SavedTarget, Names DEF CreateGame, WriteGame, Saving
<1>4. sessionAt(s)'
  BY <1>1, <1>2 DEF sessionAt
<1>5. CASE UnlinkOngoing
  <2>1. /\ fd'[s] = IF fd[s] = ongoingFile(player(Server)) THEN Unlinked ELSE fd[s]
        /\ orphan'[s] = IF fd[s] = ongoingFile(player(Server))
                        THEN file[ongoingFile(player(Server))] ELSE orphan[s]
    BY <1>5 DEF UnlinkOngoing, Processes
  <2>2. /\ ongoingFile(player(Server)) \in GameFiles
        /\ ongoingFile(player(Server)) # Closed
        /\ ongoingFile(player(Server)) # Scoreboard
    BY <1>5, SavedTarget, Names DEF UnlinkOngoing
  <2>3. CASE fd[s] = ongoingFile(player(Server))
    <3>1. pc[s] \in {"lock", "read"}
      BY <1>2, <2>2, <2>3 DEF sessionHas
    <3>2. fd'[s] = Unlinked /\ orphan'[s] \in Games \cup {Empty}
      BY <1>2, <2>1, <2>2, <2>3 DEF sessionHas, Shape, StoreTypes
    <3> QED
      BY <1>1, <1>4, <3>1, <3>2, Names DEF sessionHas
  <2>4. CASE fd[s] # ongoingFile(player(Server))
    BY <1>1, <1>2, <1>3, <1>4, <2>1, <2>4, Names DEF sessionHas
  <2> QED
    BY <2>3, <2>4
<1>6. CASE ~UnlinkOngoing
  BY <1>1, <1>2, <1>3, <1>4, <1>6, ServerLeavesSessions, Names DEF sessionHas
<1> QED
  BY <1>5, <1>6

LEMMA ServerLockInv ==
    ASSUME Shape, ServerStep
    PROVE  LockInv'
<1> Server \in Processes /\ Processes = {Server} \cup Sessions
  BY DEF Processes
<1>1. \A q \in Processes : fd[q] = Closed => lock[q] = "none"
  BY DEF Shape, LockInv
<1> USE DEF Shape, StoreTypes, descriptors, unchangedButMoves, open, close, flock
<1>2. CASE AcceptDatagram
  BY <1>1, <1>2 DEF AcceptDatagram, LockInv
<1>3. CASE OpenOngoing(Server)
  BY <1>1, <1>3, Names DEF OpenOngoing, LockInv, ServerInv
<1>4. CASE LockGame(Server)
  BY <1>1, <1>4, Names DEF LockGame, LockInv, ServerInv, ServerLabels,
     Loading, Scoring, Saving, UDPRequests, player
<1>5. CASE ReadGame(Server)
  BY <1>1, <1>5 DEF ReadGame, LockInv
<1>6. CASE Handle
  BY <1>1, <1>6 DEF Handle, LockInv
<1>7. CASE CreateScore
  BY <1>1, <1>7 DEF CreateScore, LockInv
<1>8. CASE WriteScore
  BY <1>1, <1>8 DEF WriteScore, LockInv
<1>9. CASE CreateBoard
  BY <1>1, <1>9, Names DEF CreateBoard, LockInv, ServerInv
<1>10. CASE LockBoard
  BY <1>1, <1>10, Names DEF LockBoard, LockInv, ServerInv
<1>11. CASE WriteBoard
  BY <1>1, <1>11 DEF WriteBoard, LockInv
<1>12. CASE CreateGame
  BY <1>1, <1>12, Names DEF CreateGame, LockInv, ServerInv
<1>13. CASE LockSave
  BY <1>1, <1>13, Names, SavedTarget DEF LockSave, LockInv, ServerInv, Saving
<1>14. CASE WriteGame
  BY <1>1, <1>14 DEF WriteGame, LockInv
<1>15. CASE UnlinkOngoing
  BY <1>1, <1>15, Names DEF UnlinkOngoing, LockInv
<1>16. CASE Reply
  BY <1>1, <1>16 DEF Reply, LockInv
<1> QED
  BY ServerCases, <1>2, <1>3, <1>4, <1>5, <1>6, <1>7, <1>8, <1>9, <1>10,
     <1>11, <1>12, <1>13, <1>14, <1>15, <1>16

(* Handle goes on to save a game, a new one or the one it loaded.          *)
saves(game) ==
    /\ mem' = [mem EXCEPT ![Server] = game]
    /\ pc' = [pc EXCEPT ![Server] =
                IF game.outcome = "win" THEN "createScore" ELSE "create"]
    /\ \/ /\ mem[Server] = NoGame
          /\ serial' = serial + 1 /\ serial' \in 1..MaxGames
          /\ game.id = serial' /\ game.outcome = "ongoing"
       \/ /\ mem[Server] # NoGame /\ UNCHANGED serial
          /\ game.id = mem[Server].id /\ game.trials >= mem[Server].trials

LEMMA GameTried ==
    ASSUME NEW game \in Games, game.trials < MaxTrials, NEW after \in tried(game)
    PROVE  /\ after \in Games /\ after.id = game.id
           /\ after.trials = game.trials + 1
<1>1. game.trials + 1 \in 0..MaxTrials
  BY StoreAssumption DEF Games
<1>2. \A score \in 1..MaxScore : score \in 0..MaxScore
  BY StoreAssumption
<1> QED
  BY <1>1, <1>2 DEF Games, tried

LEMMA HandleSaves ==
    ASSUME Shape, Handle
    PROVE  \/ /\ pc' = [pc EXCEPT ![Server] = "reply"]
              /\ UNCHANGED <<mem, serial>>
           \/ \E game \in Games : saves(game)
<1> DEFINE cmd == request[Server].cmd
           game == mem[Server]
<1>1. /\ game \in Games \cup {NoGame} /\ pc[Server] = "loaded"
      /\ serial \in 0..MaxGames
  BY DEF Handle, Shape, ServerInv, StoreTypes
<1>2. ASSUME game = NoGame, serial < MaxGames, serial' = serial + 1,
             save([id |-> serial + 1, trials |-> 0, score |-> 0,
                   outcome |-> "ongoing"])
      PROVE  \E g \in Games : saves(g)
  <2> DEFINE g == [id |-> serial + 1, trials |-> 0, score |-> 0,
                   outcome |-> "ongoing"]
  <2>1. g \in Games
    BY <1>1, <1>2, StoreAssumption DEF Games
  <2>2. saves(g)
    BY <1>1, <1>2, StoreAssumption DEF saves, save, load
  <2> QED
    BY <2>1, <2>2
<1>3. ASSUME game # NoGame, UNCHANGED serial, NEW g \in Games, g.id = game.id,
             g.trials >= game.trials, save(g)
      PROVE  \E h \in Games : saves(h)
  BY <1>3 DEF saves, save, load
<1>4. game # NoGame => game.trials \in Nat
  BY <1>1, StoreAssumption DEF Games
<1>5. CASE game # NoGame /\ UNCHANGED serial /\ save(game)
  BY <1>1, <1>3, <1>4, <1>5
<1>6. ASSUME game # NoGame, game.trials < MaxTrials, UNCHANGED serial,
             NEW after \in tried(game), save(after)
      PROVE  \E g \in Games : saves(g)
  <2>1. after \in Games /\ after.id = game.id /\ after.trials >= game.trials
    BY <1>1, <1>4, <1>6, GameTried
  <2> QED
    BY <1>3, <1>6, <2>1
<1>7. CASE game # NoGame /\ UNCHANGED serial /\ finish(game, "quit")
  <2>1. /\ [game EXCEPT !.outcome = "quit"] \in Games
        /\ [game EXCEPT !.outcome = "quit"].id = game.id
        /\ [game EXCEPT !.outcome = "quit"].trials = game.trials
    BY <1>1, <1>7 DEF Games
  <2>2. [game EXCEPT !.outcome = "quit"].trials >= game.trials
    BY <1>4, <1>7, <2>1
  <2>3. save([game EXCEPT !.outcome = "quit"])
    BY <1>7 DEF finish
  <2> QED
    BY <1>3, <1>7, <2>1, <2>2, <2>3
<1> QED
  BY <1>2, <1>5, <1>6, <1>7 DEF Handle, goto

LEMMA ServerServerInv ==
    ASSUME Shape, ServerStep
    PROVE  ServerInv'
<1> Server \in Processes
  BY DEF Processes
<1> USE DEF Shape, StoreTypes, files, descriptors, history, unchangedButMoves,
        goto, load, open, close, flock, UDPRequests, NoRequest,
        ServerLabels, Loading, Scoring, Saving
<1>1. CASE AcceptDatagram
  BY <1>1 DEF AcceptDatagram, ServerInv
<1>2. CASE OpenOngoing(Server)
  BY <1>2 DEF OpenOngoing, ServerInv, player
<1>3. CASE LockGame(Server)
  BY <1>3 DEF LockGame, ServerInv, player
<1>4. CASE ReadGame(Server)
  <2>1. /\ fd[Server] = ongoingFile(player(Server)) /\ player(Server) \in PLIDs
        /\ request[Server] \in UDPRequests
    BY <1>4 DEF ReadGame, ServerInv, player
  <2>2. /\ file[ongoingFile(player(Server))] \in Games \cup {NoFile, Empty}
        /\ contentOf(Server) = file[ongoingFile(player(Server))]
    BY <2>1, Names DEF contentOf
  <2> QED
    BY <1>4, <2>1, <2>2 DEF ReadGame, ServerInv
<1>5. CASE Handle
  <2>1. /\ mem[Server] \in Games \cup {NoGame} /\ request[Server] \in UDPRequests
        /\ fd[Server] = Closed
    BY <1>5 DEF Handle, ServerInv
  <2>2. CASE pc' = [pc EXCEPT ![Server] = "reply"] /\ UNCHANGED mem
    BY <1>5, <2>1, <2>2 DEF Handle, ServerInv
  <2>3. ASSUME NEW game \in Games, saves(game)
        PROVE  ServerInv'
    BY <1>5, <2>1, <2>3 DEF Handle, ServerInv, saves
  <2> QED
    BY <1>5, <2>2, <2>3, HandleSaves
<1>6. CASE CreateScore
  BY <1>6 DEF CreateScore, ServerInv
<1>7. CASE WriteScore
  BY <1>7 DEF WriteScore, ServerInv
<1>8. CASE CreateBoard
  BY <1>8 DEF CreateBoard, ServerInv
<1>9. CASE LockBoard
  BY <1>9 DEF LockBoard, ServerInv
<1>10. CASE WriteBoard
  BY <1>10 DEF WriteBoard, ServerInv
<1>11. CASE CreateGame
  <2>1. target(mem[Server])' = target(mem[Server])
    BY <1>11 DEF CreateGame, target, player
  <2> QED
    BY <1>11, <2>1 DEF CreateGame, ServerInv
<1>12. CASE LockSave
  <2>1. target(mem[Server])' = target(mem[Server])
    BY <1>12 DEF LockSave, target, player
  <2> QED
    BY <1>12, <2>1 DEF LockSave, ServerInv
<1>13. CASE WriteGame
  BY <1>13 DEF WriteGame, ServerInv
<1>14. CASE UnlinkOngoing
  <2>1. ongoingFile(player(Server)) # Closed
    BY <1>14, SavedTarget, Names DEF UnlinkOngoing
  <2> QED
    BY <1>14, <2>1 DEF UnlinkOngoing, ServerInv
<1>15. CASE Reply
  BY <1>15 DEF Reply, ServerInv
<1> QED
  BY ServerCases, <1>1, <1>2, <1>3, <1>4, <1>5, <1>6, <1>7, <1>8, <1>9, <1>10,
     <1>11, <1>12, <1>13, <1>14, <1>15

LEMMA NewScoreIsEnd ==
    ASSUME Shape, pc[Server] \in Scoring \cup {"reply"}, mem[Server] # NoGame
    PROVE  newScore \in Ends
<1>1. player(Server) \in PLIDs /\ now \in 0..MaxTime /\ mem[Server] \in Games
  BY DEF Shape, StoreTypes, ServerInv, UDPRequests, player, Scoring
<1> QED
  BY <1>1 DEF newScore, Ends

LEMMA ServerStoreTypes ==
    ASSUME Shape, ServerStep
    PROVE  StoreTypes'
<1> USE DEF StoreTypes, files, descriptors, history, unchangedButMoves,
        goto, load, open, close, flock
<1>1. StoreTypes /\ ServerInv
  BY DEF Shape
<1>2. /\ DOMAIN file' = GameFiles \cup {Scoreboard}
      /\ \A f \in GameFiles : file'[f] \in Games \cup {NoFile, Empty}
      /\ file'[Scoreboard] \in (SUBSET Ends) \cup {NoFile, Empty}
  <2>1. CreateGame \/ WriteGame => mem[Server] \in Games
    BY SavedTarget DEF CreateGame, WriteGame, Saving
  <2> QED
    BY <1>1, <2>1, ServerFiles
<1>3. /\ scores' \subseteq Ends /\ halfScores' \subseteq Ends
  <2>1. CreateScore \/ WriteScore => newScore \in Ends
    BY <1>1, NewScoreIsEnd, Names DEF CreateScore, WriteScore, Scoring, ServerInv
  <2>2. CASE CreateScore \/ WriteScore
    BY <1>1, <2>1, <2>2 DEF CreateScore, WriteScore, scoreWritten, otherNames
  <2> QED
    BY <1>1, <2>2, ServerCases DEF AcceptDatagram, OpenOngoing, LockGame,
       ReadGame, Handle, CreateBoard, LockBoard,
       WriteBoard, CreateGame, LockSave, WriteGame, UnlinkOngoing, Reply
<1>4. serial' \in 0..MaxGames /\ crashes' = crashes /\ now' \in 0..MaxTime
  <2>1. crashes' = crashes /\ (now' = now \/ AcceptDatagram)
    BY ServerCases DEF AcceptDatagram, OpenOngoing, LockGame,
       ReadGame, Handle, CreateScore, WriteScore, CreateBoard, LockBoard,
       WriteBoard, CreateGame, LockSave, WriteGame, UnlinkOngoing, Reply
  <2>2. now' \in 0..MaxTime
    BY <1>1, <2>1, StoreAssumption DEF AcceptDatagram, timePasses
  <2>3. serial' \in 0..MaxGames
    BY <1>1, HandleSaves, ServerCases DEF saves, AcceptDatagram, OpenOngoing,
       LockGame, ReadGame, CreateScore, WriteScore, CreateBoard, LockBoard,
       WriteBoard, CreateGame, LockSave, WriteGame, UnlinkOngoing, Reply
  <2> QED
    BY <1>1, <2>1, <2>2, <2>3
<1>5. /\ DOMAIN fd' = Processes /\ DOMAIN lock' = Processes
      /\ pc' \in [Processes -> Labels] /\ DOMAIN mem' = Processes
      /\ DOMAIN request' = Processes
      /\ DOMAIN orphan' = Sessions /\ DOMAIN seen' = Sessions
  BY <1>1, ServerCases DEF AcceptDatagram, OpenOngoing, LockGame,
     ReadGame, Handle, CreateScore, WriteScore, CreateBoard, LockBoard,
     WriteBoard, CreateGame, LockSave, WriteGame, UnlinkOngoing, Reply,
     save, finish, nowSeen, Labels
<1>6. committed' \in [PLIDs -> Games \cup {NoGame}]
  <2>1. WriteGame \/ UnlinkOngoing =>
          player(Server) \in PLIDs /\ mem[Server] \in Games
    BY SavedTarget DEF WriteGame, UnlinkOngoing, Saving
  <2> QED
    BY <1>1, <2>1, ServerCases DEF AcceptDatagram, OpenOngoing, LockGame,
       ReadGame, Handle, CreateScore, WriteScore, CreateBoard, LockBoard,
       WriteBoard, CreateGame, LockSave, WriteGame, UnlinkOngoing, Reply
<1>7. over' \subseteq Ends
  <2>1. CASE Reply
    BY <1>1, <2>1, NewScoreIsEnd DEF Reply
  <2> QED
    BY <1>1, <2>1, ServerCases DEF AcceptDatagram, OpenOngoing, LockGame,
       ReadGame, Handle, CreateScore, WriteScore, CreateBoard, LockBoard,
       WriteBoard, CreateGame, LockSave, WriteGame, UnlinkOngoing
<1> QED
  BY <1>1, <1>2, <1>3, <1>4, <1>5, <1>6, <1>7

(* What a crash may leave in the file that was being written.              *)
LEMMA TornGame ==
    ASSUME NEW game \in Games, NEW k \in 0..game.trials
    PROVE  LET torn == [game EXCEPT !.trials = k]
           IN  torn \in Games /\ torn.id = game.id /\ torn.outcome = game.outcome
<1>1. k \in 0..MaxTrials
  BY StoreAssumption DEF Games
<1> QED
  BY <1>1 DEF Games

tornLeft(torn) ==
    /\ pc[Server] = "write"
    /\ torn.id = mem[Server].id /\ torn.outcome = mem[Server].outcome
    /\ file' = [file EXCEPT ![target(mem[Server])] = torn]
    /\ nowSeen(player(Server), torn)

(* The server dies, or a failed lock makes it give up what it was doing.   *)
breaksOff == Crash \/ ServerLockFails

LEMMA CrashFiles ==
    ASSUME Shape, breaksOff
    PROVE  /\ \/ UNCHANGED seen /\ \A f \in GameFiles : file'[f] = file[f]
              \/ \E torn \in Games : tornLeft(torn)
           /\ DOMAIN file' = DOMAIN file
           /\ file'[Scoreboard] \in (SUBSET Ends) \cup {NoFile, Empty}
           /\ scores \subseteq scores' /\ scores' \subseteq Ends
           /\ halfScores' \subseteq Ends
           /\ halfScores \subseteq scores' \cup halfScores'
<1>1. StoreTypes
  BY DEF Shape
<1>2. leftBehind
  BY DEF breaksOff, Crash, ServerLockFails, leftBehind
<1>3. CASE UNCHANGED <<files, seen>>
  BY <1>1, <1>3 DEF StoreTypes, files
<1>4. ASSUME pc[Server] = "write", NEW k \in 0..mem[Server].trials,
             file' = [file EXCEPT ![target(mem[Server])] =
                          [mem[Server] EXCEPT !.trials = k]],
             nowSeen(player(Server), [mem[Server] EXCEPT !.trials = k]),
             UNCHANGED <<scores, halfScores>>
      PROVE  /\ \E torn \in Games : tornLeft(torn)
             /\ DOMAIN file' = DOMAIN file
             /\ UNCHANGED <<file[Scoreboard], scores, halfScores>>
  <2>1. mem[Server] \in Games /\ target(mem[Server]) \in GameFiles
    BY <1>4, SavedTarget DEF Saving
  <2>2. LET torn == [mem[Server] EXCEPT !.trials = k]
        IN  torn \in Games /\ torn.id = mem[Server].id
              /\ torn.outcome = mem[Server].outcome
    BY <2>1, TornGame
  <2>3. \E torn \in Games : tornLeft(torn)
    BY <1>4, <2>2 DEF tornLeft
  <2>4. file'[Scoreboard] = file[Scoreboard] /\ DOMAIN file' = DOMAIN file
    BY <1>1, <1>4, <2>1, Names DEF StoreTypes
  <2> QED
    BY <1>4, <2>3, <2>4
<1>5. CASE /\ pc[Server] = "writeScore"
           /\ scoreWritten
           /\ UNCHANGED <<file, seen>>
  <2>1. newScore \in Ends
    BY <1>5, NewScoreIsEnd, Names DEF Shape, ServerInv, Scoring
  <2> QED
    BY <1>1, <1>5, <2>1 DEF StoreTypes, scoreWritten
<1>6. CASE /\ pc[Server] = "writeBoard"
           /\ \E some \in SUBSET scores : file' = [file EXCEPT ![Scoreboard] = some]
           /\ UNCHANGED <<scores, halfScores, seen>>
  BY <1>1, <1>6, Names DEF StoreTypes
<1> QED
  BY <1>1, <1>2, <1>3, <1>4, <1>5, <1>6 DEF leftBehind, StoreTypes

LEMMA CrashShape ==
    ASSUME Shape, Crash
    PROVE  Shape'
<1>1. StoreTypes /\ ServerInv /\ SessionInv /\ LockInv
  BY DEF Shape
<1>2. /\ \A f \in GameFiles : \/ file'[f] = file[f]
                              \/ file'[f] \in Games
      /\ \A f \in GameFiles : file'[f] \in Games \cup {NoFile, Empty}
  BY <1>1, CrashFiles DEF StoreTypes, tornLeft, breaksOff
<1>3. /\ pc' = [pc EXCEPT ![Server] = "down"]
      /\ mem' = [mem EXCEPT ![Server] = NoGame]
      /\ request' = [request EXCEPT ![Server] = NoRequest]
      /\ fd' = [fd EXCEPT ![Server] = Closed]
      /\ lock' = [lock EXCEPT ![Server] = "none"]
      /\ orphan' = orphan
      /\ Server \in Processes /\ Server \notin Sessions
      /\ Processes = {Server} \cup Sessions
  BY Names DEF Crash, load, close, Processes
<1>4. StoreTypes'
  <2> USE DEF Labels
  <2>1. /\ serial' \in 0..MaxGames /\ crashes' \in 0..MaxCrashes
        /\ now' \in 0..MaxTime /\ over' \subseteq Ends
    BY <1>1, StoreAssumption DEF StoreTypes, Crash
  <2>2. \A p \in PLIDs : onFile(file', p) \in Games \cup {NoGame}
    BY <1>2, Names DEF onFile
  <2>3. committed' \in [PLIDs -> Games \cup {NoGame}]
    BY <2>2 DEF Crash
  <2>4. DOMAIN seen' = Sessions
    BY <1>1, CrashFiles DEF StoreTypes, tornLeft, nowSeen, breaksOff
  <2> QED
    BY <1>1, <1>2, <1>3, <2>1, <2>3, <2>4, CrashFiles DEF StoreTypes, breaksOff
<1>5. ServerInv'
  BY <1>1, <1>3 DEF StoreTypes, ServerInv, ServerLabels, Loading, Scoring, Saving
<1>6. SessionInv'
  <2> SUFFICES ASSUME NEW s \in Sessions
               PROVE  sessionAt(s)' /\ sessionHas(s)'
    BY DEF SessionInv
  <2>1. /\ sessionAt(s) /\ sessionHas(s)
        /\ pc'[s] = pc[s] /\ request'[s] = request[s]
        /\ fd'[s] = fd[s] /\ orphan'[s] = orphan[s]
        /\ player(s)' = player(s)
    BY <1>1, <1>3 DEF SessionInv, StoreTypes, player
  <2> QED
    BY <1>2, <2>1, Names DEF sessionAt, sessionHas
<1>7. LockInv'
  BY <1>1, <1>3 DEF LockInv, StoreTypes
<1> QED
  BY <1>4, <1>5, <1>6, <1>7 DEF Shape

LEMMA LockFailsShape ==
    ASSUME Shape, ServerLockFails
    PROVE  Shape'
<1>1. /\ Server \in Processes /\ Server \notin Sessions
      /\ Processes = {Server} \cup Sessions
  BY Names DEF Processes
<1>2. StoreTypes /\ ServerInv /\ SessionInv /\ LockInv
  BY DEF Shape
<1>3. /\ UNCHANGED <<file, scores, halfScores, request, serial, now, seen, over>>
      /\ pc' = [pc EXCEPT ![Server] = IF pc[Server] = "lock" THEN "loaded"
                                                            ELSE "reply"]
      /\ pc[Server] \in {"lock", "lockSave", "lockBoard", "lockShared"}
      /\ mem' = [mem EXCEPT ![Server] = NoGame]
      /\ fd' = [fd EXCEPT ![Server] = Closed]
      /\ lock' = [lock EXCEPT ![Server] = "none"]
      /\ orphan' = orphan
      /\ crashes' = crashes + 1 /\ crashes < MaxCrashes
      /\ committed' = [p \in PLIDs |-> onFile(file, p)]
  BY <1>1 DEF ServerLockFails, interrupted, load, close, files
<1>4. StoreTypes'
  <2>1. \A p \in PLIDs : onFile(file, p) \in Games \cup {NoGame}
    BY <1>2, Names DEF onFile, StoreTypes
  <2>2. committed' \in [PLIDs -> Games \cup {NoGame}]
    BY <1>3, <2>1
  <2>3. crashes' \in 0..MaxCrashes
    BY <1>2, <1>3, StoreAssumption DEF StoreTypes
  <2> QED
    BY <1>1, <1>2, <1>3, <2>2, <2>3 DEF StoreTypes, Labels
<1>5. ServerInv'
  BY <1>1, <1>2, <1>3 DEF StoreTypes, ServerInv, ServerLabels, Loading, Scoring,
     Saving
<1>6. SessionInv'
  BY <1>1, <1>2, <1>3 DEF StoreTypes, SessionInv, sessionAt, sessionHas, player
<1>7. LockInv'
  BY <1>1, <1>2, <1>3 DEF LockInv, StoreTypes
<1> QED
  BY <1>4, <1>5, <1>6, <1>7 DEF Shape

LEMMA RestartShape ==
    ASSUME Shape, Restart
    PROVE  Shape'
<1>1. /\ Server \in Processes /\ Server \notin Sessions
      /\ Processes = {Server} \cup Sessions
  BY Names DEF Processes
<1>2. StoreTypes /\ ServerInv /\ SessionInv /\ LockInv
  BY DEF Shape
<1> USE DEF Restart, goto, files, descriptors, history
<1>3. StoreTypes'
  BY <1>1, <1>2, StoreAssumption DEF StoreTypes, Labels, timePasses
<1>4. ServerInv'
  BY <1>1, <1>2 DEF StoreTypes, ServerInv, ServerLabels, Loading, Scoring, Saving
<1>5. SessionInv'
  BY <1>1, <1>2 DEF StoreTypes, SessionInv, sessionAt, sessionHas, player
<1>6. LockInv'
  BY <1>2 DEF LockInv
<1> QED
  BY <1>3, <1>4, <1>5, <1>6 DEF Shape

sessionActs(s) == SessionStep(s) \/ SessionLockFails(s)

(* A step of a session is its own business.                                *)
LEMMA SessionLeaves ==
    ASSUME Shape, NEW s \in Sessions, sessionActs(s)
    PROVE  /\ UNCHANGED <<file, scores, halfScores, serial, now, stopping,
                          committed, over>>
           /\ crashes' \in 0..MaxCrashes /\ crashes' >= crashes
           /\ pc' \in [Processes -> Labels] /\ DOMAIN mem' = Processes
           /\ DOMAIN fd' = Processes /\ DOMAIN lock' = Processes
           /\ DOMAIN request' = Processes
           /\ DOMAIN orphan' = Sessions /\ DOMAIN seen' = Sessions
           /\ \A q \in Processes \ {s} :
                /\ pc'[q] = pc[q] /\ mem'[q] = mem[q] /\ request'[q] = request[q]
                /\ fd'[q] = fd[q] /\ lock'[q] = lock[q]
           /\ \A r \in Sessions \ {s} : orphan'[r] = orphan[r] /\ seen'[r] = seen[r]
<1> s \in Processes
  BY DEF Processes
<1>0. crashes \in 0..MaxCrashes /\ MaxCrashes \in Nat
  BY StoreAssumption DEF Shape, StoreTypes
<1> USE <1>0 DEF Shape, StoreTypes, files, descriptors, history, unchangedButMoves,
        goto, load, open, close, flock, Labels
<1>1. CASE Connect(s)
  BY <1>1 DEF Connect
<1>2. CASE OpenOngoing(s)
  BY <1>2 DEF OpenOngoing
<1>3. CASE OpenLast(s)
  BY <1>3 DEF OpenLast
<1>4. CASE LockGame(s)
  BY <1>4 DEF LockGame
<1>5. CASE ReadGame(s)
  BY <1>5 DEF ReadGame
<1>6. CASE OpenBoard(s)
  BY <1>6 DEF OpenBoard
<1>7. CASE LockShared(s)
  BY <1>7 DEF LockShared
<1>8. CASE StatBoard(s)
  BY <1>8 DEF StatBoard
<1>9. CASE ReadBoard(s)
  BY <1>9 DEF ReadBoard
<1>10. CASE Answer(s)
  BY <1>10 DEF Answer
<1>11. CASE SessionLockFails(s)
  BY <1>11 DEF SessionLockFails, interrupted
<1> QED
  BY <1>1, <1>2, <1>3, <1>4, <1>5, <1>6, <1>7, <1>8, <1>9, <1>10, <1>11
     DEF SessionStep, Load, sessionActs

LEMMA SessionMoves ==
    ASSUME Shape, NEW s \in Sessions, sessionActs(s)
    PROVE  /\ sessionAt(s)' /\ sessionHas(s)'
           /\ lock'[s] \in {"none", "shared", "exclusive"}
           /\ fd'[s] = Closed => lock'[s] = "none"
<1> s \in Processes
  BY DEF Processes
<1>1. /\ sessionAt(s) /\ sessionHas(s)
      /\ lock[s] \in {"none", "shared", "exclusive"}
      /\ fd[s] = Closed => lock[s] = "none"
      /\ pc[s] \in {"open", "openLast", "lock", "read", "loaded", "openBoard",
                    "lockShared", "stat", "readBoard"} => request[s] \in TCPRequests
      /\ pc[s] \in Searching => player(s) \in PLIDs
  BY DEF Shape, SessionInv, LockInv, sessionAt, player, TCPRequests, NoRequest,
         Searching, Loading
<1> USE DEF Shape, StoreTypes, files, descriptors, history, unchangedButMoves,
        goto, load, open, close, flock, sessionAt, sessionHas, SessionLabels,
        Searching, Loading, ReadingBoard, TCPRequests, NoRequest
<1>2. CASE Connect(s)
  BY <1>1, <1>2, Names DEF Connect
<1>3. CASE OpenOngoing(s)
  BY <1>1, <1>3, Names DEF OpenOngoing, player
<1>4. CASE OpenLast(s)
  BY <1>1, <1>4, Names DEF OpenLast, player
<1>5. CASE LockGame(s)
  BY <1>1, <1>5, Names DEF LockGame, player
<1>6. CASE ReadGame(s)
  BY <1>1, <1>6, Names DEF ReadGame, player
<1>7. CASE OpenBoard(s)
  BY <1>1, <1>7, Names DEF OpenBoard, player
<1>8. CASE LockShared(s)
  BY <1>1, <1>8, Names DEF LockShared, player
<1>9. CASE StatBoard(s)
  BY <1>1, <1>9, Names DEF StatBoard, player
<1>10. CASE ReadBoard(s)
  BY <1>1, <1>10, Names DEF ReadBoard, player
<1>11. CASE Answer(s)
  BY <1>1, <1>11, Names DEF Answer, player
<1>12. CASE SessionLockFails(s)
  BY <1>1, <1>12, Names DEF SessionLockFails, interrupted, player
<1> QED
  BY <1>2, <1>3, <1>4, <1>5, <1>6, <1>7, <1>8, <1>9, <1>10, <1>11, <1>12
     DEF SessionStep, Load, sessionActs

LEMMA SessionShape ==
    ASSUME Shape, NEW s \in Sessions, sessionActs(s)
    PROVE  Shape'
<1>1. /\ StoreTypes /\ ServerInv /\ SessionInv /\ LockInv
      /\ Processes = {Server} \cup Sessions /\ Server \notin Sessions
  BY Names DEF Shape, Processes
<1>2. StoreTypes'
  BY <1>1, SessionLeaves DEF StoreTypes
<1>3. ServerInv'
  <2>1. /\ player(Server)' = player(Server)
        /\ target(mem[Server])' = target(mem[Server])
    BY <1>1, SessionLeaves DEF player, target
  <2> QED
    BY <1>1, <2>1, SessionLeaves DEF ServerInv
<1>4. SessionInv'
  <2>1. \A r \in Sessions \ {s} : player(r)' = player(r)
    BY <1>1, SessionLeaves DEF player
  <2>2. ASSUME NEW r \in Sessions \ {s}
        PROVE  sessionAt(r)' /\ sessionHas(r)'
    <3>1. /\ sessionAt(r) /\ sessionHas(r) /\ file' = file
          /\ pc'[r] = pc[r] /\ request'[r] = request[r] /\ fd'[r] = fd[r]
          /\ orphan'[r] = orphan[r] /\ player(r)' = player(r)
      BY <1>1, <2>1, SessionLeaves DEF SessionInv
    <3> QED
      BY <3>1 DEF sessionAt, sessionHas
  <2> QED
    BY <2>2, SessionMoves DEF SessionInv
<1>5. LockInv'
  BY <1>1, SessionLeaves, SessionMoves DEF LockInv
<1> QED
  BY <1>2, <1>3, <1>4, <1>5 DEF Shape

LEMMA ShapeStuttering ==
    ASSUME Shape, UNCHANGED vars
    PROVE  Shape'
<1> USE DEF vars
<1>1. StoreTypes' /\ LockInv'
  BY DEF Shape, StoreTypes, LockInv
<1>2. ServerInv'
  BY DEF Shape, ServerInv, player, target
<1>3. SessionInv'
  BY DEF Shape, SessionInv, sessionAt, sessionHas, player
<1> QED
  BY <1>1, <1>2, <1>3 DEF Shape

LEMMA ShapeStep == Shape /\ [Next]_vars => Shape'
<1> SUFFICES ASSUME Shape, [Next]_vars PROVE Shape'
  OBVIOUS
<1>1. CASE ServerStep
  BY <1>1, ServerStoreTypes, ServerServerInv, ServerSessionInv,
     ServerLockInv DEF Shape
<1> QED
  BY <1>1, CrashShape, LockFailsShape, RestartShape, SessionShape,
     ShapeStuttering DEF Next, sessionActs

(* Every game in a file is a game, and nobody locks what it has not open.  *)
THEOREM TypeCorrect == Spec => []TypeOK
<1>1. Shape => TypeOK
  <2> SUFFICES ASSUME Shape PROVE TypeOK
    OBVIOUS
  <2>1. pc \in [Processes -> Labels]
    BY DEF Shape, StoreTypes
  <2>2. mem[Server] \in Games \cup {NoGame}
    BY DEF Shape, ServerInv, ServerLabels
  <2>3. fd[Server] \in GameFiles \cup {Scoreboard, Closed, Unlinked}
    <3>1. CASE pc[Server] \in {"lock", "read"}
      BY <3>1, Names DEF Shape, ServerInv, player, UDPRequests
    <3>2. CASE pc[Server] \in {"lockSave", "write"}
      BY <3>2, SavedTarget DEF Shape, ServerInv, Saving
    <3> QED
      BY <3>1, <3>2 DEF Shape, ServerInv
  <2>4. \A s \in Sessions : fd[s] \in GameFiles \cup {Scoreboard, Closed, Unlinked}
    <3> SUFFICES ASSUME NEW s \in Sessions
                 PROVE  fd[s] \in GameFiles \cup {Scoreboard, Closed, Unlinked}
      OBVIOUS
    <3>1. pc[s] \in {"lock", "read"} => player(s) \in PLIDs
      BY DEF Shape, SessionInv, sessionAt, player, TCPRequests, Searching, Loading
    <3> QED
      BY <3>1, Names DEF Shape, SessionInv, sessionHas
  <2> QED
    BY <2>1, <2>2, <2>3, <2>4 DEF Shape, StoreTypes, LockInv, TypeOK, Processes
<1> QED
  BY <1>1, InitShape, ShapeStep, PTL DEF Spec

-----------------------------------------------------------------------------
(* What is saved is on file.                                               *)

LEMMA ServerBusyFor ==
    ASSUME Shape, pc[Server] \notin {"idle", "down"}
    PROVE  /\ player(Server) \in PLIDs
           /\ request[Server] \in UDPRequests /\ request[Server] # NoRequest
BY DEF Shape, ServerInv, UDPRequests, NoRequest, player

LEMMA ServerFilesInv ==
    ASSUME Shape, FilesInv, GameOnFile, ServerStep
    PROVE  FilesInv' /\ GameOnFile'
<1>1. StoreTypes /\ ServerInv /\ Server \in Processes
  BY DEF Shape, Processes
<1> USE DEF StoreTypes, files, descriptors, history, unchangedButMoves,
        goto, load, open, close, flock, Loading, Scoring, Saving
<1>2. CASE AcceptDatagram
  BY <1>1, <1>2 DEF AcceptDatagram, FilesInv, GameOnFile, rewriting, onFile
<1>3. CASE OpenOngoing(Server)
  BY <1>1, <1>3 DEF OpenOngoing, ServerInv, FilesInv,
     GameOnFile, rewriting, onFile, player
<1>4. CASE LockGame(Server)
  BY <1>1, <1>4 DEF LockGame, ServerInv, FilesInv,
     GameOnFile, rewriting, onFile, player
<1>5. CASE ReadGame(Server)
  <2>1. /\ mem'[Server] = IF contentOf(Server) = Empty THEN NoGame ELSE contentOf(Server)
        /\ pc'[Server] = "loaded"
        /\ UNCHANGED <<file, committed, request>>
    BY <1>1, <1>5 DEF ReadGame
  <2>2. contentOf(Server) = file[ongoingFile(player(Server))]
    BY <1>1, <1>5, ServerBusyFor, Names DEF ReadGame, ServerInv, contentOf
  <2>3. player(Server)' = player(Server)
    BY <2>1 DEF player
  <2>4. GameOnFile'
    BY <1>5, <2>1 DEF ReadGame, GameOnFile, rewriting, onFile
  <2> QED
    BY <2>1, <2>2, <2>3, <2>4 DEF FilesInv, rewriting
<1>6. CASE Handle
  <2>1. /\ pc[Server] = "loaded" /\ UNCHANGED <<file, committed, request>>
        /\ player(Server)' = player(Server) /\ player(Server) \in PLIDs
        /\ mem[Server] \in Games \cup {NoGame}
    BY <1>1, <1>6, ServerBusyFor DEF Handle, player, ServerInv
  <2>2. CASE pc' = [pc EXCEPT ![Server] = "reply"] /\ UNCHANGED mem
    BY <1>1, <2>1, <2>2, Names DEF FilesInv, GameOnFile, rewriting, onFile
  <2>3. ASSUME NEW game \in Games, saves(game)
        PROVE  FilesInv' /\ GameOnFile'
    <3>1. /\ mem'[Server] = game
          /\ pc'[Server] = IF game.outcome = "win" THEN "createScore" ELSE "create"
          /\ game.outcome # "ongoing" => mem[Server] # NoGame
      BY <1>1, <2>3 DEF saves
    <3>2. game.outcome # "ongoing" => file[ongoingFile(player(Server))] \in Games
      BY <2>1, <3>1 DEF FilesInv
    <3> QED
      BY <2>1, <3>1, <3>2 DEF FilesInv, GameOnFile, rewriting, onFile
  <2> QED
    BY <1>6, <2>2, <2>3, HandleSaves
<1>7. CASE CreateScore
  BY <1>1, <1>7 DEF CreateScore, ServerInv, FilesInv,
     GameOnFile, rewriting, onFile, player
<1>8. CASE WriteScore
  BY <1>1, <1>8 DEF WriteScore, ServerInv, FilesInv,
     GameOnFile, rewriting, onFile, player
<1>9. CASE CreateBoard
  <2>1. \A p \in PLIDs : /\ file'[ongoingFile(p)] = file[ongoingFile(p)]
                         /\ file'[lastFile(p)] = file[lastFile(p)]
    BY <1>1, <1>9, Names DEF CreateBoard
  <2>2. /\ UNCHANGED <<committed, mem, request>> /\ player(Server) \in PLIDs
        /\ player(Server)' = player(Server)
    BY <1>9, ServerBusyFor DEF CreateBoard, player
  <2>3. /\ pc[Server] \in Scoring /\ pc'[Server] \in Scoring \cup {"create"}
        /\ mem[Server].outcome = "win"
    BY <1>1, <1>9 DEF CreateBoard, ServerInv
  <2> QED
    BY <2>1, <2>2, <2>3 DEF FilesInv, GameOnFile, rewriting, onFile
<1>10. CASE LockBoard
  BY <1>1, <1>10 DEF LockBoard, ServerInv, FilesInv,
     GameOnFile, rewriting, onFile, player
<1>11. CASE WriteBoard
  <2>1. \A p \in PLIDs : /\ file'[ongoingFile(p)] = file[ongoingFile(p)]
                         /\ file'[lastFile(p)] = file[lastFile(p)]
    BY <1>1, <1>11, Names DEF WriteBoard
  <2>2. /\ UNCHANGED <<committed, mem, request>> /\ player(Server) \in PLIDs
        /\ player(Server)' = player(Server)
    BY <1>11, ServerBusyFor DEF WriteBoard, player
  <2>3. /\ pc[Server] \in Scoring /\ pc'[Server] \in Scoring \cup {"create"}
        /\ mem[Server].outcome = "win"
    BY <1>1, <1>11 DEF WriteBoard, ServerInv
  <2> QED
    BY <2>1, <2>2, <2>3 DEF FilesInv, GameOnFile, rewriting, onFile
<1>12. CASE CreateGame
  BY <1>1, <1>12, Names, SavedTarget DEF CreateGame, ServerInv, FilesInv,
     GameOnFile, rewriting, onFile, player
<1>13. CASE LockSave
  BY <1>1, <1>13 DEF LockSave, ServerInv, FilesInv,
     GameOnFile, rewriting, onFile, player
<1>14. CASE WriteGame
  BY <1>1, <1>14, Names, SavedTarget DEF WriteGame, ServerInv, FilesInv,
     GameOnFile, rewriting, onFile, player
<1>15. CASE UnlinkOngoing
  BY <1>1, <1>15, Names, SavedTarget DEF UnlinkOngoing, ServerInv, FilesInv,
     GameOnFile, rewriting, onFile, player
<1>16. CASE Reply
  BY <1>1, <1>16 DEF Reply, ServerInv, FilesInv,
     GameOnFile, rewriting, onFile, player
<1> QED
  BY ServerCases, <1>2, <1>3, <1>4, <1>5, <1>6, <1>7, <1>8, <1>9, <1>10,
     <1>11, <1>12, <1>13, <1>14, <1>15, <1>16

(* The steps that leave the server where it is and its files alone.        *)
serverStill ==
    /\ UNCHANGED <<file, scores, halfScores, serial, now, stopping, committed, over>>
    /\ crashes' >= crashes
    /\ pc'[Server] = pc[Server] /\ mem'[Server] = mem[Server]
    /\ request'[Server] = request[Server]

LEMMA StillSteps ==
    ASSUME Shape
    PROVE  /\ \A s \in Sessions :
                SessionStep(s) \/ SessionLockFails(s) => serverStill
           /\ UNCHANGED vars => serverStill
<1>1. Server \in Processes /\ Server \notin Sessions
  BY Names DEF Processes
<1>2. ASSUME NEW s \in Sessions, SessionStep(s) \/ SessionLockFails(s)
      PROVE  serverStill
  BY <1>1, <1>2, SessionLeaves DEF serverStill, sessionActs
<1>3. crashes >= crashes
  BY StoreAssumption DEF Shape, StoreTypes
<1> QED
  BY <1>2, <1>3 DEF serverStill, vars

(* To the files, a server that broke off is one that is idle.              *)
atRest ==
    /\ pc'[Server] \in {"idle", "down", "loaded", "reply"}
    /\ mem'[Server] = NoGame

LEMMA RestSteps ==
    ASSUME Shape
    PROVE  /\ breaksOff => /\ atRest /\ UNCHANGED serial
                           /\ committed' = [p \in PLIDs |-> onFile(file', p)]
                           /\ crashes' > crashes /\ crashes' > 0
           /\ Restart => atRest /\ UNCHANGED <<file, scores, halfScores,
                              committed, over, serial, crashes, mem, request>>
<1>1. /\ DOMAIN pc = Processes /\ DOMAIN mem = Processes /\ DOMAIN request = Processes
      /\ Server \in Processes /\ ServerInv /\ crashes \in Nat
  BY StoreAssumption DEF Shape, StoreTypes, Processes
<1>2. Crash => /\ atRest /\ UNCHANGED serial
               /\ committed' = [p \in PLIDs |-> onFile(file', p)]
               /\ crashes' > crashes /\ crashes' > 0
  BY <1>1 DEF atRest, Crash, load
<1>3. ServerLockFails => /\ atRest /\ UNCHANGED serial
                         /\ committed' = [p \in PLIDs |-> onFile(file', p)]
                         /\ crashes' > crashes /\ crashes' > 0
  BY <1>1 DEF atRest, ServerLockFails, interrupted, load, files
<1>4. Restart => atRest /\ UNCHANGED <<file, scores, halfScores,
                              committed, over, serial, crashes, mem, request>>
  BY <1>1 DEF atRest, Restart, goto, ServerInv, files, history
<1> QED
  BY <1>2, <1>3, <1>4 DEF breaksOff

LEMMA FilesStep ==
    Shape /\ FilesInv /\ GameOnFile /\ [Next]_vars => FilesInv' /\ GameOnFile'
<1> SUFFICES ASSUME Shape, FilesInv, GameOnFile, [Next]_vars
             PROVE  FilesInv' /\ GameOnFile'
  OBVIOUS
<1>1. CASE ServerStep
  BY <1>1, ServerFilesInv
<1>2. CASE breaksOff
  <2>1. /\ pc'[Server] \in {"idle", "down", "loaded", "reply"}
        /\ mem'[Server] = NoGame
        /\ committed' = [p \in PLIDs |-> onFile(file', p)]
    BY <1>2, RestSteps DEF atRest
  <2>2. GameOnFile'
    BY <2>1 DEF GameOnFile, rewriting
  <2>3. ASSUME NEW p \in PLIDs
        PROVE  /\ file'[ongoingFile(p)] \in Games =>
                    file'[ongoingFile(p)].outcome = "ongoing"
               /\ file'[lastFile(p)] \in Games =>
                    file'[lastFile(p)].outcome # "ongoing"
    <3>1. CASE \A f \in GameFiles : file'[f] = file[f]
      BY <3>1, Names DEF FilesInv
    <3>2. ASSUME NEW torn \in Games, tornLeft(torn)
          PROVE  /\ file'[ongoingFile(p)] \in Games =>
                      file'[ongoingFile(p)].outcome = "ongoing"
                 /\ file'[lastFile(p)] \in Games =>
                      file'[lastFile(p)].outcome # "ongoing"
      <4>1. /\ target(mem[Server]) = IF torn.outcome = "ongoing"
                                     THEN ongoingFile(player(Server))
                                     ELSE lastFile(player(Server))
            /\ target(mem[Server]) \in GameFiles /\ player(Server) \in PLIDs
            /\ file' = [file EXCEPT ![target(mem[Server])] = torn]
            /\ DOMAIN file = GameFiles \cup {Scoreboard}
        BY <3>2, SavedTarget DEF tornLeft, Saving, Shape, StoreTypes
      <4>2. \A f \in GameFiles :
              file'[f] = IF f = target(mem[Server]) THEN torn ELSE file[f]
        BY <4>1
      <4> QED
        BY <4>1, <4>2, Names DEF FilesInv
    <3> QED
      BY <1>2, <3>1, <3>2, CrashFiles
  <2> QED
    BY <2>1, <2>2, <2>3 DEF FilesInv, rewriting, Scoring, Saving
<1>3. CASE Restart
  <2>1. pc'[Server] = "idle"
    BY <1>3 DEF Restart, goto, Shape, StoreTypes, Processes
  <2> QED
    BY <1>3, <2>1, RestSteps DEF FilesInv, GameOnFile, rewriting, Scoring, Saving,
       onFile, Restart
<1>4. CASE serverStill
  BY <1>4 DEF serverStill, FilesInv, GameOnFile, rewriting, onFile, player
<1> QED
  BY <1>1, <1>2, <1>3, <1>4, StillSteps DEF Next, breaksOff

-----------------------------------------------------------------------------
(* A game won has its score, and the scoreboard has it.                    *)

LEMMA ScoredStep == Shape /\ FilesInv /\ ScoredInv /\ [Next]_vars => ScoredInv'
<1> SUFFICES ASSUME Shape, FilesInv, ScoredInv, [Next]_vars PROVE ScoredInv'
  OBVIOUS
<1>1. StoreTypes /\ ServerInv /\ Server \in Processes
  BY DEF Shape, Processes
<1>2. CASE ServerStep
  <2> USE DEF StoreTypes, files, descriptors, history, unchangedButMoves,
          goto, load, open, close, flock, Saving, ScoredInv
  <2>1. CASE \/ AcceptDatagram \/ OpenOngoing(Server) \/ LockGame(Server)
             \/ ReadGame(Server) \/ CreateScore \/ Reply
    BY <1>1, <2>1 DEF AcceptDatagram, OpenOngoing, LockGame, ReadGame,
       CreateScore, Reply
  <2>2. CASE Handle
    <3>1. pc[Server] = "loaded"
      BY <2>2 DEF Handle
    <3>2. mem[Server] # NoGame => mem[Server].outcome = "ongoing"
      BY <1>1, <3>1, ServerBusyFor DEF FilesInv, ServerInv
    <3>3. CASE pc' = [pc EXCEPT ![Server] = "reply"] /\ UNCHANGED mem
      BY <1>1, <3>2, <3>3
    <3>4. ASSUME NEW game \in Games, saves(game)
          PROVE  ScoredInv'
      BY <1>1, <3>4 DEF saves
    <3> QED
      BY <2>2, <3>3, <3>4, HandleSaves
  <2>3. CASE WriteScore
    <3>1. newScore' = newScore /\ newScore \in scores'
      BY <2>3 DEF WriteScore, scoreWritten, newScore, player
    <3> QED
      BY <3>1
  <2>4. CASE \/ CreateBoard \/ LockBoard \/ WriteBoard \/ CreateGame \/ LockSave
             \/ WriteGame \/ UnlinkOngoing
    <3>1. UNCHANGED <<mem, scores>> /\ newScore' = newScore
      BY <2>4 DEF CreateBoard, LockBoard, WriteBoard, CreateGame, LockSave,
         WriteGame, UnlinkOngoing, newScore, player
    <3>2. pc[Server] \in {"createBoard", "lockBoard", "writeBoard", "unlink"} \cup Saving
      BY <2>4 DEF CreateBoard, LockBoard, WriteBoard, CreateGame, LockSave,
         WriteGame, UnlinkOngoing
    <3> QED
      BY <3>1, <3>2
  <2> QED
    BY <1>2, <2>1, <2>2, <2>3, <2>4, ServerCases
<1>3. CASE breaksOff \/ Restart
  BY <1>3, RestSteps DEF atRest, ScoredInv, Saving
<1>4. CASE serverStill
  BY <1>4 DEF serverStill, ScoredInv, newScore, player
<1> QED
  BY <1>2, <1>3, <1>4, StillSteps DEF Next, breaksOff

LEMMA BoardStep == Shape /\ ScoredInv /\ BoardInv /\ [Next]_vars => BoardInv'
<1> SUFFICES ASSUME Shape, ScoredInv, BoardInv, [Next]_vars PROVE BoardInv'
  OBVIOUS
<1>1. StoreTypes /\ ServerInv /\ Server \in Processes
  BY DEF Shape, Processes
<1>2. CASE ServerStep
  <2> USE DEF StoreTypes, files, descriptors, history, unchangedButMoves,
          goto, load, open, close, flock, BoardInv
  <2>1. CASE \/ CreateScore \/ WriteScore \/ CreateBoard \/ LockBoard
    BY <1>1, <2>1 DEF CreateScore, WriteScore, CreateBoard, LockBoard
  <2>2. CASE WriteBoard
    <3>1. file'[Scoreboard] = scores /\ scores' = scores
      BY <1>1, <2>2, Names DEF WriteBoard
    <3>2. scores # {}
      BY <1>1, <2>2, Names DEF WriteBoard, ServerInv, Scoring, ScoredInv
    <3> QED
      BY <3>1, <3>2
  <2>3. CASE ~(CreateScore \/ WriteScore \/ CreateBoard \/ LockBoard \/ WriteBoard)
    <3>1. /\ scores' = scores /\ crashes' = crashes
          /\ pc[Server] \notin {"writeScore", "createBoard", "lockBoard", "writeBoard"}
      BY <2>3, <1>2, ServerCases DEF AcceptDatagram, OpenOngoing, LockGame,
         ReadGame,
         Handle, CreateGame, LockSave, WriteGame, UnlinkOngoing, Reply
    <3>2. CASE CreateGame \/ WriteGame \/ UnlinkOngoing
      <4>1. /\ target(mem[Server]) # Scoreboard
            /\ ongoingFile(player(Server)) # Scoreboard
        BY <3>2, SavedTarget, Names DEF CreateGame, WriteGame, UnlinkOngoing,
           Saving
      <4> QED
        BY <1>1, <3>1, <3>2, <4>1 DEF CreateGame, WriteGame, UnlinkOngoing
    <3>3. CASE ~(CreateGame \/ WriteGame \/ UnlinkOngoing)
      <4>1. file' = file
        BY <1>2, <2>3, <3>3, ServerCases DEF AcceptDatagram, OpenOngoing,
           LockGame,
           ReadGame, Handle, LockSave, Reply
      <4> QED
        BY <3>1, <4>1
    <3> QED
      BY <3>2, <3>3
  <2> QED
    BY <2>1, <2>2, <2>3
<1>3. CASE breaksOff
  BY <1>3, RestSteps DEF BoardInv
<1>4. CASE Restart
  BY <1>1, <1>4 DEF Restart, BoardInv, goto, files
<1>5. CASE serverStill
  <2>1. crashes' = 0 => crashes = 0
    BY <1>1, <1>5, StoreAssumption DEF serverStill, StoreTypes
  <2> QED
    BY <1>5, <2>1 DEF serverStill, BoardInv
<1> QED
  BY <1>2, <1>3, <1>4, <1>5, StillSteps DEF Next, breaksOff

-----------------------------------------------------------------------------
(* No two players ever have the same game.                                 *)

isNew(p, n) == serial' = serial + 1 /\ n = serial' /\ p = player(Server)

LEMMA OwnedBefore ==
    ASSUME Shape, ServerStep, NEW p \in PLIDs, NEW n \in Int, has(p, n)'
    PROVE  has(p, n) \/ isNew(p, n)
<1>1. /\ StoreTypes /\ ServerInv /\ Server \in Processes
      /\ ongoingFile(p) \in GameFiles /\ lastFile(p) \in GameFiles
  BY Names DEF Shape, Processes
<1>2. ASSUME NEW f \in {ongoingFile(p), lastFile(p)}, file'[f] \in Games,
             file'[f].id = n
      PROVE  has(p, n)
  <2>1. CASE file'[f] = file[f]
    BY <1>2, <2>1 DEF has
  <2>2. CASE WriteGame /\ f = target(mem[Server]) /\ file'[f] = mem[Server]
    <3>1. /\ player(Server) = p /\ request[Server] # NoRequest
          /\ mem[Server] \in Games
      BY <1>1, <1>2, <2>2, SavedTarget, ServerBusyFor, Names DEF WriteGame, Saving
    <3> QED
      BY <1>2, <2>2, <3>1, Names DEF has
  <2> QED
    BY <1>1, <1>2, <2>1, <2>2, ServerFiles, Names
<1>3. ASSUME committed'[p] # NoGame, committed'[p].id = n
      PROVE  has(p, n)
  <2>1. CASE committed'[p] = committed[p]
    BY <1>3, <2>1 DEF has
  <2>2. CASE committed'[p] # committed[p]
    <3>1. /\ WriteGame \/ UnlinkOngoing
          /\ player(Server) = p /\ committed'[p] = mem[Server]
      BY <1>1, <2>2, ServerCases DEF StoreTypes, AcceptDatagram, OpenOngoing,
         LockGame,
         ReadGame, Handle, CreateScore, WriteScore, CreateBoard, LockBoard,
         WriteBoard, CreateGame, LockSave, WriteGame, UnlinkOngoing, Reply,
         unchangedButMoves, history
    <3>2. request[Server] # NoRequest
      BY <3>1, ServerBusyFor DEF WriteGame, UnlinkOngoing
    <3> QED
      BY <1>3, <3>1, <3>2 DEF has
  <2> QED
    BY <2>1, <2>2
<1>4. ASSUME request'[Server] # NoRequest, player(Server)' = p,
             mem'[Server] # NoGame, mem'[Server].id = n
      PROVE  has(p, n) \/ isNew(p, n)
  <2>1. pc[Server] \notin {"idle", "down"} /\ UNCHANGED request
    BY <1>1, <1>4, ServerCases DEF StoreTypes, ServerInv, Loading,
       AcceptDatagram, OpenOngoing, LockGame,
       ReadGame, Handle, CreateScore, WriteScore, CreateBoard, LockBoard,
       WriteBoard, CreateGame, LockSave, WriteGame, UnlinkOngoing, Reply,
       unchangedButMoves, goto, load
  <2>2. /\ player(Server) = p /\ request[Server] # NoRequest
    BY <1>4, <2>1, ServerBusyFor DEF player
  <2>3. CASE mem'[Server] = mem[Server]
    BY <1>4, <2>2, <2>3 DEF has
  <2>4. CASE ReadGame(Server)
    <3>1. /\ mem'[Server] = file[ongoingFile(p)]
          /\ file[ongoingFile(p)] \in Games
      BY <1>1, <1>4, <2>2, <2>4, Names DEF StoreTypes, ServerInv, ReadGame,
         load, contentOf
    <3> QED
      BY <1>4, <3>1 DEF has
  <2>5. CASE Handle
    BY <1>1, <1>4, <2>2, <2>3, <2>5, HandleSaves DEF saves, isNew, has, StoreTypes
  <2>6. ReadGame(Server) \/ Handle \/ mem'[Server] = mem[Server] \/ mem'[Server] = NoGame
    BY <1>1, ServerCases DEF StoreTypes, AcceptDatagram, OpenOngoing, LockGame,
       CreateScore, WriteScore, CreateBoard, LockBoard,
       WriteBoard, CreateGame, LockSave, WriteGame, UnlinkOngoing, Reply,
       unchangedButMoves, goto, load
  <2> QED
    BY <1>4, <2>3, <2>4, <2>5, <2>6
<1> QED
  BY <1>2, <1>3, <1>4 DEF has

LEMMA CrashOwned ==
    ASSUME Shape, breaksOff, NEW p \in PLIDs, NEW n \in Int, has(p, n)'
    PROVE  has(p, n)
<1>1. /\ ongoingFile(p) \in GameFiles /\ lastFile(p) \in GameFiles
      /\ mem'[Server] = NoGame
      /\ committed'[p] = onFile(file', p)
  BY Names, RestSteps DEF atRest
<1>2. ASSUME NEW f \in {ongoingFile(p), lastFile(p)}, file'[f] \in Games,
             file'[f].id = n
      PROVE  has(p, n)
  <2>1. CASE file'[f] = file[f]
    BY <1>2, <2>1 DEF has
  <2>2. ASSUME NEW torn \in Games, tornLeft(torn)
        PROVE  has(p, n)
    <3>1. \A g \in GameFiles :
            file'[g] = IF g = target(mem[Server]) THEN torn ELSE file[g]
      BY <2>2 DEF tornLeft, Shape, StoreTypes
    <3>2. CASE f = target(mem[Server])
      <4>1. /\ player(Server) = p /\ request[Server] # NoRequest
            /\ mem[Server] \in Games /\ mem[Server].id = n
        BY <1>1, <1>2, <2>2, <3>1, <3>2, SavedTarget, ServerBusyFor, Names
           DEF tornLeft, Saving
      <4> QED
        BY <4>1, Names DEF has
    <3>3. CASE f # target(mem[Server])
      BY <1>1, <1>2, <2>1, <3>1, <3>3
    <3> QED
      BY <3>2, <3>3
  <2> QED
    BY <1>1, <1>2, <2>1, <2>2, CrashFiles
<1>3. ASSUME committed'[p] # NoGame, committed'[p].id = n
      PROVE  has(p, n)
  <2>1. \A f \in GameFiles : file'[f] \in Games \cup {NoFile, Empty}
    BY CrashShape, LockFailsShape DEF breaksOff, Shape, StoreTypes
  <2>2. \E f \in {ongoingFile(p), lastFile(p)} :
           file'[f] \in Games /\ file'[f].id = n
    BY <1>1, <1>3, <2>1 DEF onFile
  <2> QED
    BY <1>2, <2>2
<1> QED
  BY <1>1, <1>2, <1>3 DEF has

LEMMA OwnersStep == Shape /\ OwnersInv /\ [Next]_vars => OwnersInv'
<1> SUFFICES ASSUME Shape, OwnersInv, [Next]_vars PROVE OwnersInv'
  OBVIOUS
<1>1. serial \in Nat /\ serial' \in Nat /\ serial <= serial'
  <2>1. serial \in Nat /\ serial' \in Nat
    BY ShapeStep, StoreAssumption DEF Shape, StoreTypes
  <2>2. CASE ServerStep
    <3>1. UNCHANGED serial \/ Handle
      BY <2>2, ServerCases DEF AcceptDatagram, OpenOngoing, LockGame, ReadGame,
         CreateScore, WriteScore, CreateBoard, LockBoard, WriteBoard,
         CreateGame, LockSave, WriteGame, UnlinkOngoing, Reply, unchangedButMoves
    <3> QED
      BY <2>1, <3>1, HandleSaves DEF saves
  <2>3. CASE breaksOff \/ Restart \/ serverStill
    BY <2>1, <2>3, RestSteps DEF serverStill
  <2> QED
    BY <2>2, <2>3, StillSteps DEF Next, breaksOff
<1>2. ASSUME NEW p \in PLIDs, NEW n \in Int, has(p, n)'
      PROVE  has(p, n) \/ isNew(p, n)
  <2>1. CASE serverStill
    BY <1>2, <2>1 DEF serverStill, has, player
  <2>2. CASE Restart
    BY <1>2, <2>2, RestSteps DEF has, player
  <2> QED
    BY <1>2, <2>1, <2>2, OwnedBefore, CrashOwned, StillSteps DEF Next, breaksOff
<1>3. \A p \in PLIDs, n \in Int : has(p, n) =>
        n \in 1..serial /\ \A r \in PLIDs : has(r, n) => r = p
  BY DEF OwnersInv
<1>4. SUFFICES ASSUME NEW p \in PLIDs, NEW n \in Int, has(p, n)'
               PROVE  n \in 1..serial' /\ \A r \in PLIDs : has(r, n)' => r = p
  BY DEF OwnersInv
<1>5. CASE has(p, n)
  <2>1. n \in 1..serial
    BY <1>3, <1>5
  <2>2. \A r \in PLIDs : ~isNew(r, n)
    BY <1>1, <2>1 DEF isNew
  <2> QED
    BY <1>1, <1>2, <1>3, <1>5, <2>1, <2>2
<1>6. CASE ~has(p, n)
  <2>1. isNew(p, n)
    BY <1>2, <1>4, <1>6
  <2>2. ~(n \in 1..serial)
    BY <1>1, <2>1 DEF isNew
  <2>3. \A r \in PLIDs : has(r, n)' => isNew(r, n)
    BY <1>2, <1>3, <2>2
  <2> QED
    BY <1>1, <2>1, <2>3 DEF isNew
<1> QED
  BY <1>5, <1>6

-----------------------------------------------------------------------------
(* An end that was answered stays.                                         *)

LEMMA ServerKeepsSettled ==
    ASSUME Shape, ServerStep, NEW CONSTANT end, settled(end)
    PROVE  settled(end)'
<1>1. /\ StoreTypes /\ ServerInv /\ Server \in Processes
  BY DEF Shape, Processes
<1>2. UNCHANGED serial \/ Handle
  BY ServerCases DEF AcceptDatagram, OpenOngoing, LockGame, ReadGame,
     CreateScore, WriteScore, CreateBoard, LockBoard, WriteBoard,
     CreateGame, LockSave, WriteGame, UnlinkOngoing, Reply, unchangedButMoves
<1>3. end \in Ends /\ end.game.id \in 1..serial /\ end.game.id \in 1..serial'
  BY <1>1, <1>2, HandleSaves DEF settled, saves, StoreTypes
<1>4. WriteGame => isAfter(player(Server), mem[Server].id, end)
  BY <1>1, SavedTarget, Names DEF WriteGame, settled, Saving
<1>5. ASSUME NEW p \in PLIDs
      PROVE  /\ file'[ongoingFile(p)] \in Games =>
                    isAfter(p, file'[ongoingFile(p)].id, end)
             /\ file'[lastFile(p)] \in Games /\ file'[lastFile(p)].id = end.game.id =>
                  p = end.PLID /\ file'[lastFile(p)] = end.game
  <2>1. ASSUME NEW f \in {ongoingFile(p), lastFile(p)}
        PROVE  \/ file'[f] = file[f]
               \/ file'[f] \in Games => isAfter(p, file'[f].id, end)
    <3>1. CASE WriteGame /\ f = target(mem[Server]) /\ file'[f] = mem[Server]
      <4>1. player(Server) = p
        BY <3>1, SavedTarget, Names DEF WriteGame, Saving
      <4> QED
        BY <1>4, <3>1, <4>1
    <3> QED
      BY <3>1, ServerFiles, Names
  <2> QED
    BY <2>1 DEF settled, isAfter
<1>6. ASSUME NEW p \in PLIDs, committed'[p] # NoGame, committed'[p].id = end.game.id
      PROVE  p = end.PLID /\ committed'[p] = end.game
  <2>1. CASE committed'[p] = committed[p]
    BY <1>6, <2>1 DEF settled
  <2>2. CASE committed'[p] # committed[p]
    <3>1. /\ WriteGame \/ UnlinkOngoing
          /\ committed'[p] = mem[Server]
      BY <1>1, <2>2, ServerCases DEF StoreTypes, AcceptDatagram, OpenOngoing,
         LockGame,
         ReadGame, Handle, CreateScore, WriteScore, CreateBoard, LockBoard,
         WriteBoard, CreateGame, LockSave, WriteGame, UnlinkOngoing, Reply,
         unchangedButMoves, history
    <3>2. mem[Server].id # end.game.id
      BY <3>1, SavedTarget, Names DEF WriteGame, UnlinkOngoing, settled, isAfter,
         Saving
    <3> QED
      BY <1>6, <3>1, <3>2
  <2> QED
    BY <2>1, <2>2
<1>7. ASSUME pc'[Server] \in {"loaded", "unlink"} \cup Scoring \cup Saving,
             mem'[Server] # NoGame
      PROVE  isAfter(player(Server)', mem'[Server].id, end)
  <2>1. CASE Handle
    <3>1. player(Server)' = player(Server) /\ pc[Server] = "loaded"
      BY <2>1 DEF Handle, player
    <3>2. pc'[Server] = "reply" \/ \E game \in Games : saves(game)
      BY <1>1, <2>1, HandleSaves DEF StoreTypes
    <3>3. ASSUME NEW game \in Games, saves(game)
          PROVE  isAfter(player(Server)', mem'[Server].id, end)
      <4>1. mem'[Server] = game
        BY <1>1, <3>3 DEF saves, StoreTypes
      <4>2. CASE game.id = serial + 1 /\ serial' = serial + 1
        <5>1. end.game.id \in Nat /\ end.game.id <= serial /\ serial \in Nat
          BY <1>1, <1>3, StoreAssumption DEF StoreTypes
        <5> QED
          BY <4>1, <4>2, <5>1 DEF isAfter
      <4>3. CASE mem[Server] # NoGame /\ game.id = mem[Server].id
        BY <3>1, <4>1, <4>3 DEF settled
      <4> QED
        BY <3>3, <4>2, <4>3 DEF saves
    <3> QED
      BY <1>7, <3>2, <3>3 DEF Scoring, Saving
  <2>2. CASE ReadGame(Server)
    <3>1. /\ mem'[Server] = file[ongoingFile(player(Server))]
          /\ file[ongoingFile(player(Server))] \in Games
          /\ player(Server) \in PLIDs /\ player(Server)' = player(Server)
      BY <1>1, <1>7, <2>2, ServerBusyFor, Names
         DEF StoreTypes, ServerInv, ReadGame, load, contentOf, unchangedButMoves,
             player
    <3> QED
      BY <3>1 DEF settled
  <2>3. CASE ~Handle /\ ~ReadGame(Server)
    <3>1. /\ mem'[Server] = mem[Server] /\ request' = request
          /\ pc[Server] \in {"loaded", "unlink"} \cup Scoring \cup Saving
      BY <1>1, <1>7, <2>3, ServerCases DEF StoreTypes, ServerInv, AcceptDatagram,
         OpenOngoing, LockGame, CreateScore, WriteScore, CreateBoard, LockBoard,
         WriteBoard, CreateGame, LockSave, WriteGame, UnlinkOngoing, Reply,
         unchangedButMoves, goto, load, Scoring, Saving
    <3> QED
      BY <1>7, <3>1 DEF settled, player
  <2> QED
    BY <2>1, <2>2, <2>3
<1> QED
  BY <1>3, <1>5, <1>6, <1>7 DEF settled

(* CreateScore is the only step that takes a score away, and what it puts  *)
(* in its place is a later win of the same player.                         *)
LEMMA ServerKeepsScore ==
    ASSUME Shape, ServerStep, NEW CONSTANT end, settled(end), keepsScore(end)
    PROVE  keepsScore(end)'
<1> SUFFICES ASSUME end.game.outcome = "win"
             PROVE  end \in scores' \/ replaced(end)'
  BY DEF keepsScore
<1>1. end \in scores \/ replaced(end)
  BY DEF keepsScore
<1>2. CASE CreateScore
  <2>1. /\ halfScores' = otherNames(halfScores) \cup {newScore}
        /\ scores' = otherNames(scores)
    BY <1>2 DEF CreateScore
  <2>2. CASE nameOf(newScore) = nameOf(end)
    <3>1. player(Server) = end.PLID
      BY <2>2 DEF nameOf, newScore
    <3>2. mem[Server].id > end.game.id
      BY <1>2, <3>1, SavedTarget, Names DEF CreateScore, settled, isAfter, Scoring
    <3>3. newScore.game.id > end.game.id
      BY <3>2 DEF newScore
    <3>4. newScore \in scores' \cup halfScores'
      BY <2>1
    <3>5. nameOf(newScore) = nameOf(end) /\ newScore.game.id > end.game.id
      BY <2>2, <3>3
    <3> HIDE DEF newScore
    <3> QED
      BY <3>4, <3>5 DEF replaced
  <2>3. CASE nameOf(newScore) # nameOf(end)
    <3>1. CASE end \in scores
      BY <2>1, <2>3, <3>1 DEF otherNames
    <3>2. CASE replaced(end)
      <4>1. PICK later \in scores \cup halfScores :
              nameOf(later) = nameOf(end) /\ later.game.id > end.game.id
        BY <3>2 DEF replaced
      <4>2. later \in scores' \cup halfScores'
        BY <2>1, <2>3, <4>1 DEF otherNames
      <4> QED
        BY <4>1, <4>2 DEF replaced
    <3> QED
      BY <1>1, <3>1, <3>2
  <2> QED
    BY <2>2, <2>3
<1>3. CASE ~CreateScore
  <2>1. scores \subseteq scores' /\ halfScores \subseteq scores' \cup halfScores'
    BY <1>3, ServerCases DEF AcceptDatagram, OpenOngoing, LockGame, ReadGame,
       Handle, WriteScore, scoreWritten, CreateBoard, LockBoard, WriteBoard,
       CreateGame, LockSave, WriteGame, UnlinkOngoing, Reply, files,
       unchangedButMoves
  <2> QED
    BY <1>1, <2>1 DEF replaced
<1> QED
  BY <1>2, <1>3

LEMMA CrashKeepsSettled ==
    ASSUME Shape, breaksOff, NEW CONSTANT end, settled(end), keepsScore(end)
    PROVE  settled(end)' /\ keepsScore(end)'
<1>1. /\ mem'[Server] = NoGame /\ serial' = serial
      /\ committed' = [p \in PLIDs |-> onFile(file', p)]
  BY RestSteps DEF atRest
<1>2. ASSUME NEW p \in PLIDs, NEW f \in {ongoingFile(p), lastFile(p)}
      PROVE  file'[f] = file[f] \/ (file'[f] \in Games => isAfter(p, file'[f].id, end))
  <2>1. ASSUME NEW torn \in Games, tornLeft(torn)
        PROVE  file'[f] = file[f] \/ isAfter(p, file'[f].id, end)
    <3>1. isAfter(player(Server), torn.id, end) /\ player(Server) \in PLIDs
      BY <2>1, SavedTarget, Names DEF tornLeft, settled, Saving
    <3>2. CASE f = target(mem[Server])
      <4>1. player(Server) = p
        BY <2>1, <3>1, <3>2, SavedTarget, Names DEF tornLeft, Saving
      <4>2. file'[f] = torn
        BY <2>1, <3>2, Names DEF tornLeft, Shape, StoreTypes
      <4> QED
        BY <3>1, <4>1, <4>2
    <3>3. CASE f # target(mem[Server])
      BY <2>1, <3>3 DEF tornLeft, Shape, StoreTypes
    <3> QED
      BY <3>2, <3>3
  <2> QED
    BY <2>1, CrashFiles, Names
<1>3. ASSUME NEW p \in PLIDs
      PROVE  /\ file'[ongoingFile(p)] \in Games =>
                    isAfter(p, file'[ongoingFile(p)].id, end)
             /\ file'[lastFile(p)] \in Games /\ file'[lastFile(p)].id = end.game.id =>
                  p = end.PLID /\ file'[lastFile(p)] = end.game
  BY <1>2 DEF settled, isAfter
<1>4. ASSUME NEW p \in PLIDs, committed'[p] # NoGame, committed'[p].id = end.game.id
      PROVE  p = end.PLID /\ committed'[p] = end.game
  <2>1. \A f \in GameFiles : file'[f] \in Games \cup {NoFile, Empty}
    BY CrashShape, LockFailsShape DEF breaksOff, Shape, StoreTypes
  <2> QED
    BY <1>1, <1>3, <1>4, <2>1, Names DEF onFile, isAfter
<1>5. settled(end)'
  BY <1>1, <1>3, <1>4 DEF settled
<1>6. scores \subseteq scores' /\ halfScores \subseteq scores' \cup halfScores'
  BY CrashFiles
<1> QED
  BY <1>5, <1>6 DEF keepsScore, replaced

(* The game that Reply tells its player is over.                           *)
LEMMA AnsweredSettled ==
    ASSUME Shape, FilesInv, OwnersInv, ScoredInv, Reply,
           NEW CONSTANT end, newScore = end,
           mem[Server] # NoGame, mem[Server].outcome # "ongoing"
    PROVE  settled(end)' /\ keepsScore(end)'
<1>0. /\ mem[Server] \in Games /\ pc[Server] = "reply"
      /\ player(Server) \in PLIDs /\ request[Server] # NoRequest
      /\ mem[Server].id \in Int
  BY ServerBusyFor DEF Reply, Shape, ServerInv, Games
<1>1. /\ end.game = mem[Server] /\ end.PLID = player(Server)
      /\ end \in Ends /\ end.game \in Games
  BY <1>0, NewScoreIsEnd DEF newScore
<1>2. has(player(Server), end.game.id)
  BY <1>0, <1>1 DEF has
<1>3. /\ end.game.id \in 1..serial
      /\ \A r \in PLIDs : has(r, end.game.id) => r = player(Server)
  BY <1>0, <1>1, <1>2 DEF OwnersInv
<1>4. /\ file[ongoingFile(player(Server))] = NoFile
      /\ file[lastFile(player(Server))] = end.game
      /\ committed[player(Server)] = end.game
  BY <1>0, <1>1 DEF FilesInv
<1>5. ASSUME NEW p \in PLIDs
      PROVE  /\ file[ongoingFile(p)] \in Games =>
                    isAfter(p, file[ongoingFile(p)].id, end)
             /\ file[lastFile(p)] \in Games /\ file[lastFile(p)].id = end.game.id =>
                  p = end.PLID /\ file[lastFile(p)] = end.game
             /\ committed[p] # NoGame /\ committed[p].id = end.game.id =>
                  p = end.PLID /\ committed[p] = end.game
  <2>1. CASE p = player(Server)
    BY <1>1, <1>4, <2>1, Names
  <2>2. CASE p # player(Server)
    BY <1>1, <1>3, <2>2 DEF has, isAfter
  <2> QED
    BY <2>1, <2>2
<1>6. end.game.outcome = "win" => end \in scores
  BY <1>0, <1>1 DEF ScoredInv
<1>7. UNCHANGED <<file, scores, committed, serial>> /\ mem'[Server] = NoGame
  BY DEF Reply, files, load, Shape, StoreTypes, Processes
<1> QED
  BY <1>1, <1>3, <1>5, <1>6, <1>7 DEF settled, keepsScore

LEMMA OverStep ==
    Shape /\ FilesInv /\ OwnersInv /\ ScoredInv /\ OverInv /\ [Next]_vars => OverInv'
<1> SUFFICES ASSUME Shape, FilesInv, OwnersInv, ScoredInv, OverInv, [Next]_vars,
                    NEW CONSTANT end, end \in over'
             PROVE  settled(end)' /\ keepsScore(end)'
  BY DEF OverInv
<1>1. CASE end \in over
  <2>1. settled(end) /\ keepsScore(end)
    BY <1>1 DEF OverInv
  <2>2. CASE serverStill
    BY <2>1, <2>2 DEF serverStill, settled, keepsScore, replaced, player
  <2>3. CASE Restart
    BY <2>1, <2>3, RestSteps DEF atRest, settled, keepsScore, replaced, Scoring,
       Saving
  <2> QED
    BY <2>1, <2>2, <2>3, ServerKeepsSettled, ServerKeepsScore, CrashKeepsSettled,
       StillSteps DEF Next, breaksOff
<1>2. CASE end \notin over
  <2>1. over' # over
    BY <1>2
  <2>2. Reply
    BY <2>1, StillSteps, ServerCases DEF Next, serverStill, AcceptDatagram,
       OpenOngoing, LockGame, ReadGame, Handle, CreateScore, WriteScore,
       CreateBoard, LockBoard, WriteBoard, CreateGame, LockSave, WriteGame,
       UnlinkOngoing, unchangedButMoves, history, Crash, ServerLockFails, Restart
  <2>3. newScore = end /\ mem[Server] # NoGame /\ mem[Server].outcome # "ongoing"
    BY <1>2, <2>2 DEF Reply
  <2> QED
    BY <2>2, <2>3, AnsweredSettled
<1> QED
  BY <1>1, <1>2

-----------------------------------------------------------------------------
(* A game in progress goes on unless the server is interrupted.            *)

(* What is on file of a player for whom the server rewrites no game.       *)
LEMMA OnFile ==
    ASSUME Shape, FilesInv, GameOnFile, NEW p \in PLIDs, ~rewriting(p), inProgress(p)
    PROVE  file[ongoingFile(p)] = committed[p] /\ committed[p] \in Games
<1>1. /\ file[ongoingFile(p)] \in Games \cup {NoFile, Empty}
      /\ file[lastFile(p)] \in Games \cup {NoFile, Empty}
      /\ committed[p] \in Games
  BY Names DEF Shape, StoreTypes, inProgress
<1>2. committed[p] = onFile(file, p)
  BY DEF GameOnFile
<1> QED
  BY <1>1, <1>2, Names DEF onFile, FilesInv, inProgress

LEMMA ServerContinues ==
    ASSUME Shape, FilesInv, GameOnFile, ContinuesInv, ServerStep
    PROVE  ContinuesInv'
<1> DEFINE working == {"loaded", "unlink"} \cup Scoring \cup Saving
           p == player(Server)
<1> SUFFICES ASSUME ~stopping', pc'[Server] \in working, inProgress(p)'
             PROVE  /\ mem'[Server] # NoGame
                    /\ mem'[Server].id = committed'[p'].id
                    /\ mem'[Server].trials >= committed'[p'].trials
  BY DEF ContinuesInv
<1>1. /\ StoreTypes /\ ServerInv /\ Server \in Processes
      /\ stopping' = stopping /\ request' = request /\ p' = p
      /\ pc[Server] \notin {"idle", "down"}
  BY ServerCases DEF Shape, StoreTypes, Processes, Loading, Scoring, Saving,
     AcceptDatagram, OpenOngoing, LockGame, ReadGame, Handle, CreateScore,
     WriteScore, CreateBoard, LockBoard, WriteBoard, CreateGame, LockSave,
     WriteGame, UnlinkOngoing, Reply, unchangedButMoves, goto, load, player
<1>2. p \in PLIDs
  BY <1>1, ServerBusyFor
<1>3. CASE ReadGame(Server)
  <2>1. /\ committed' = committed /\ ~rewriting(p) /\ inProgress(p)
        /\ pc[Server] = "read"
    BY <1>1, <1>3 DEF ReadGame, unchangedButMoves, rewriting, inProgress
  <2>2. file[ongoingFile(p)] = committed[p] /\ committed[p] \in Games
    BY <1>2, <2>1, OnFile
  <2>3. mem'[Server] = committed[p]
    BY <1>1, <1>2, <1>3, <2>1, <2>2, Names
       DEF ReadGame, load, contentOf, ServerInv, StoreTypes
  <2>4. committed[p].trials \in Nat
    BY <2>2, StoreAssumption DEF Games
  <2> QED
    BY <1>1, <2>1, <2>2, <2>3, <2>4, Names
<1>4. CASE OpenOngoing(Server)
  <2>1. /\ committed' = committed /\ ~rewriting(p) /\ inProgress(p)
        /\ file[ongoingFile(p)] = NoFile
    BY <1>1, <1>4 DEF OpenOngoing, unchangedButMoves, rewriting, inProgress, goto,
       load, StoreTypes, Scoring, Saving
  <2> QED
    BY <1>2, <2>1, OnFile, Names
<1>5. CASE Handle
  <2>1. committed' = committed /\ inProgress(p) /\ pc[Server] = "loaded"
    BY <1>1, <1>5 DEF Handle, history, inProgress
  <2>2. /\ mem[Server] # NoGame
        /\ mem[Server].id = committed[p].id
        /\ mem[Server].trials >= committed[p].trials
    BY <1>1, <2>1 DEF ContinuesInv
  <2>3. pc'[Server] = "reply" \/ \E game \in Games : saves(game)
    BY <1>1, <1>5, HandleSaves DEF StoreTypes
  <2>4. PICK game \in Games : saves(game)
    BY <2>3 DEF Scoring, Saving
  <2>5. /\ mem'[Server] = game /\ game.id = mem[Server].id
        /\ game.trials >= mem[Server].trials
    BY <1>1, <2>2, <2>4 DEF saves, StoreTypes
  <2>6. /\ game.trials \in Int /\ mem[Server].trials \in Int
        /\ committed[p].trials \in Int
    BY <1>1, <1>2, <2>1, <2>2, <2>4
       DEF StoreTypes, ServerInv, Games, inProgress
  <2> QED
    BY <1>1, <2>1, <2>2, <2>5, <2>6, Names
<1>6. CASE WriteGame
  <2>1. /\ mem' = mem /\ pc'[Server] = "unlink" /\ committed' = committed
    BY <1>1, <1>6 DEF WriteGame, goto, StoreTypes, Scoring, Saving
  <2> QED
    BY <1>1, <1>6, <2>1 DEF WriteGame, ContinuesInv, Saving, inProgress
<1>7. CASE ~(ReadGame(Server) \/ OpenOngoing(Server) \/ Handle \/ WriteGame)
  <2>1. /\ mem' = mem /\ committed' = committed /\ pc[Server] \in working
    BY <1>1, <1>7, ServerCases DEF StoreTypes, Scoring, Saving,
       AcceptDatagram, LockGame, CreateScore,
       WriteScore, CreateBoard, LockBoard, WriteBoard, CreateGame, LockSave,
       UnlinkOngoing, Reply, unchangedButMoves, goto, load, history
  <2> QED
    BY <1>1, <2>1 DEF ContinuesInv, inProgress
<1> QED
  BY <1>3, <1>4, <1>5, <1>6, <1>7

LEMMA ContinuesStep ==
    Shape /\ FilesInv /\ GameOnFile /\ ContinuesInv /\ [Next]_vars => ContinuesInv'
<1> SUFFICES ASSUME Shape, FilesInv, GameOnFile, ContinuesInv, [Next]_vars
             PROVE  ContinuesInv'
  OBVIOUS
<1>1. CASE ServerStep
  BY <1>1, ServerContinues
<1>2. CASE Crash \/ Restart
  <2>1. pc'[Server] \in {"idle", "down"}
    BY <1>2 DEF Crash, Restart, load, goto, Shape, StoreTypes, Processes
  <2> QED
    BY <2>1 DEF ContinuesInv, Scoring, Saving
<1>3. CASE ServerLockFails
  BY <1>3 DEF ServerLockFails, ContinuesInv
<1>4. CASE serverStill
  BY <1>4 DEF serverStill, ContinuesInv, inProgress, player
<1> QED
  BY <1>1, <1>2, <1>3, <1>4, StillSteps DEF Next

(* A step that takes a game in progress back is an interruption.           *)
LEMMA LosesOnlyInterrupted ==
    ASSUME Shape, FilesInv, GameOnFile, ContinuesInv, [Next]_vars,
           NEW p \in PLIDs, inProgress(p), goesBack(p)
    PROVE  stopping \/ (rewriting(p) /\ crashes' > crashes)
<1>1. /\ StoreTypes /\ ServerInv /\ Server \in Processes
      /\ committed[p] \in Games /\ committed[p].trials \in Int
      /\ ongoingFile(p) \in GameFiles
  BY Names DEF Shape, StoreTypes, Processes, inProgress, Games
<1>2. committed'[p] # committed[p]
  BY <1>1, Names DEF goesBack
<1>3. CASE ServerStep
  <2>1. /\ WriteGame \/ UnlinkOngoing
        /\ player(Server) = p /\ committed'[p] = mem[Server]
    BY <1>1, <1>2, <1>3, ServerCases DEF StoreTypes, AcceptDatagram, OpenOngoing,
       LockGame, ReadGame, Handle, CreateScore, WriteScore, CreateBoard,
       LockBoard, WriteBoard, CreateGame, LockSave, WriteGame, UnlinkOngoing,
       Reply, unchangedButMoves, history
  <2>2. pc[Server] \in {"write", "unlink"}
    BY <2>1 DEF WriteGame, UnlinkOngoing
  <2>3. mem[Server].trials \in Int
    BY <1>1, <2>2 DEF ServerInv, Saving, Games
  <2> QED
    BY <1>1, <2>1, <2>2, <2>3 DEF ContinuesInv, goesBack, Saving
<1>4. CASE breaksOff
  <2> SUFFICES ASSUME ~rewriting(p)
               PROVE  FALSE
    BY <1>4, RestSteps
  <2>1. file[ongoingFile(p)] = committed[p]
    BY OnFile
  <2>2. file'[ongoingFile(p)] = file[ongoingFile(p)]
    <3>1. ASSUME NEW torn \in Games, tornLeft(torn)
          PROVE  file'[ongoingFile(p)] = file[ongoingFile(p)]
      <4>1. player(Server) # p \/ torn.outcome # "ongoing"
        BY <3>1 DEF tornLeft, rewriting
      <4>2. target(mem[Server]) # ongoingFile(p)
        BY <3>1, <4>1, SavedTarget, Names DEF tornLeft, Saving
      <4> QED
        BY <1>1, <3>1, <4>2 DEF tornLeft, StoreTypes
    <3> QED
      BY <1>1, <1>4, <3>1, CrashFiles
  <2>3. committed'[p] = committed[p]
    BY <1>1, <1>4, <2>1, <2>2, RestSteps, Names DEF onFile
  <2> QED
    BY <1>2, <2>3
<1>5. CASE Restart \/ serverStill
  BY <1>2, <1>5, RestSteps DEF serverStill
<1> QED
  BY <1>3, <1>4, <1>5, StillSteps DEF Next, breaksOff

-----------------------------------------------------------------------------
(* A session finds nothing its player did not have.                        *)

(* What a file of the player may hold next has been seen, is nothing, or   *)
(* is there already.                                                       *)
LEMMA ServerKeepsFinding ==
    ASSUME Shape, FilesInv, ServerStep, NEW s \in Sessions, NEW p \in PLIDs,
           searchesFor(s, p), finds(s, p)
    PROVE  finds(s, p)'
<1>1. /\ StoreTypes /\ ServerInv /\ sessionAt(s) /\ sessionHas(s)
      /\ Server \in Processes /\ player(s) = p
      /\ request[s].cmd \in {"STA", "GHL"}
      /\ ongoingFile(p) \in GameFiles /\ lastFile(p) \in GameFiles
      /\ ongoingFile(p) # lastFile(p)
  BY Names DEF Shape, SessionInv, Processes, searchesFor
<1>2. pc'[s] = pc[s] /\ mem'[s] = mem[s]
  BY ServerLeavesSessions
<1>3. /\ seen[s] \subseteq seen'[s]
      /\ WriteGame /\ player(Server) = p => mem[Server] \in seen'[s]
  BY <1>1, ServerCases DEF StoreTypes, AcceptDatagram, OpenOngoing, LockGame,
     ReadGame, Handle, CreateScore, WriteScore, CreateBoard, LockBoard,
     WriteBoard, CreateGame, LockSave, WriteGame, UnlinkOngoing, Reply,
     unchangedButMoves, history, nowSeen
<1>4. ASSUME NEW f \in {ongoingFile(p), lastFile(p)}, file'[f] \in Games
      PROVE  file'[f] = file[f] \/ file'[f] \in seen'[s]
  <2>1. CASE WriteGame /\ f = target(mem[Server]) /\ file'[f] = mem[Server]
    BY <1>1, <1>3, <1>4, <2>1, SavedTarget, Names DEF WriteGame, Saving
  <2> QED
    BY <1>1, <1>4, <2>1, ServerFiles, Names
<1>5. onFile(file', p) \in seen'[s] \cup {NoGame}
  <2>1. CASE CreateGame \/ WriteGame
    <3>1. /\ mem[Server] \in Games /\ player(Server) \in PLIDs
          /\ target(mem[Server]) \in GameFiles
          /\ target(mem[Server]) = IF mem[Server].outcome = "ongoing"
                                   THEN ongoingFile(player(Server))
                                   ELSE lastFile(player(Server))
      BY <2>1, SavedTarget DEF CreateGame, WriteGame, Saving
    <3>2. \A f \in GameFiles :
            file'[f] = IF f = target(mem[Server])
                       THEN IF CreateGame THEN Empty ELSE mem[Server] ELSE file[f]
      BY <1>1, <2>1, <3>1, ServerFiles DEF CreateGame, WriteGame, StoreTypes,
         UnlinkOngoing
    <3>3. mem[Server].outcome # "ongoing" => file[ongoingFile(player(Server))] \in Games
      BY <2>1 DEF CreateGame, WriteGame, FilesInv, Saving
    <3>4. CASE player(Server) # p
      <4>1. file'[ongoingFile(p)] = file[ongoingFile(p)]
              /\ file'[lastFile(p)] = file[lastFile(p)]
        BY <1>1, <3>1, <3>2, <3>4, Names
      <4> QED
        BY <1>3, <4>1 DEF onFile, finds
    <3>5. CASE player(Server) = p /\ mem[Server].outcome = "ongoing"
      <4>1. file'[ongoingFile(p)] \in {Empty, mem[Server]}
              /\ (CreateGame \/ mem[Server] \in seen'[s])
              /\ (CreateGame => file'[ongoingFile(p)] = Empty)
        BY <1>1, <1>3, <2>1, <3>1, <3>2, <3>5
      <4> QED
        BY <3>1, <4>1, Names DEF onFile
    <3>6. CASE player(Server) = p /\ mem[Server].outcome # "ongoing"
      <4>1. file'[ongoingFile(p)] = file[ongoingFile(p)]
              /\ file[ongoingFile(p)] \in Games
        BY <1>1, <3>1, <3>2, <3>3, <3>6
      <4> QED
        BY <1>3, <4>1, Names DEF onFile, finds
    <3> QED
      BY <3>4, <3>5, <3>6
  <2>2. CASE UnlinkOngoing
    <3>1. /\ player(Server) \in PLIDs /\ mem[Server] \in Games
          /\ file[lastFile(player(Server))] = mem[Server]
          /\ file' = [file EXCEPT ![ongoingFile(player(Server))] = NoFile]
      BY <2>2, SavedTarget DEF UnlinkOngoing, FilesInv
    <3>2. CASE player(Server) # p
      <4>1. file'[ongoingFile(p)] = file[ongoingFile(p)]
              /\ file'[lastFile(p)] = file[lastFile(p)]
        BY <1>1, <3>1, <3>2, Names DEF StoreTypes
      <4> QED
        BY <1>3, <4>1 DEF onFile, finds
    <3>3. CASE player(Server) = p
      <4>1. /\ file'[ongoingFile(p)] = NoFile /\ file'[lastFile(p)] = mem[Server]
            /\ mem[Server] \in seen[s]
        BY <1>1, <2>2, <3>1, <3>3 DEF StoreTypes, finds, UnlinkOngoing
      <4> QED
        BY <1>3, <3>1, <4>1, Names DEF onFile
    <3> QED
      BY <3>2, <3>3
  <2>3. CASE ~(CreateGame \/ WriteGame \/ UnlinkOngoing)
    BY <1>1, <1>3, <2>3, ServerFiles DEF onFile, finds
  <2> QED
    BY <2>1, <2>2, <2>3
<1>6. pc'[Server] = "unlink" /\ player(Server)' = p => mem'[Server] \in seen'[s]
  <2>1. pc'[Server] = "unlink" => WriteGame /\ UNCHANGED <<mem, request>>
    BY <1>1, ServerCases, HandleSaves DEF StoreTypes, saves, AcceptDatagram,
       OpenOngoing, LockGame,
       ReadGame, CreateScore, WriteScore, CreateBoard, LockBoard,
       WriteBoard, CreateGame, LockSave, WriteGame, UnlinkOngoing, Reply,
       unchangedButMoves, goto, load
  <2> QED
    BY <1>3, <2>1 DEF player
<1>7. pc[s] = "openLast" /\ file'[lastFile(p)] \in Games => file'[lastFile(p)] \in seen'[s]
  BY <1>3, <1>4 DEF finds
<1>8. pc[s] \in {"lock", "read"} /\ contentOf(s)' \in Games => contentOf(s)' \in seen'[s]
  <2> SUFFICES ASSUME pc[s] \in {"lock", "read"}, contentOf(s)' \in Games
               PROVE  contentOf(s)' \in seen'[s]
    OBVIOUS
  <2>1. fd[s] \in {ongoingFile(p), lastFile(p), Unlinked}
    BY <1>1 DEF sessionHas
  <2>2. CASE UnlinkOngoing /\ fd[s] = ongoingFile(player(Server))
    <3>1. contentOf(s)' = contentOf(s)
      <4>1. ongoingFile(player(Server)) # Unlinked
        BY <2>2, SavedTarget, Names DEF UnlinkOngoing
      <4>2. fd'[s] = Unlinked /\ orphan'[s] = file[fd[s]]
        BY <2>2 DEF UnlinkOngoing, Processes
      <4> QED
        BY <2>2, <4>1, <4>2 DEF contentOf
    <3> QED
      BY <1>3, <3>1 DEF finds
  <2>3. CASE ~(UnlinkOngoing /\ fd[s] = ongoingFile(player(Server)))
    <3>1. fd'[s] = fd[s] /\ orphan'[s] = orphan[s]
      BY <2>3, ServerLeavesSessions DEF UnlinkOngoing, Processes
    <3> QED
      BY <1>1, <1>3, <1>4, <2>1, <3>1, Names DEF contentOf, finds
  <2> QED
    BY <2>2, <2>3
<1> QED
  BY <1>2, <1>3, <1>5, <1>6, <1>7, <1>8 DEF finds

LEMMA CrashKeepsFinding ==
    ASSUME Shape, FilesInv, breaksOff, NEW s \in Sessions, NEW p \in PLIDs,
           searchesFor(s, p), finds(s, p)
    PROVE  finds(s, p)'
<1>1. /\ StoreTypes /\ sessionAt(s) /\ sessionHas(s)
      /\ player(s) = p /\ request[s].cmd \in {"STA", "GHL"}
      /\ ongoingFile(p) \in GameFiles /\ lastFile(p) \in GameFiles
      /\ s # Server /\ s \in Processes
  BY Names DEF Shape, SessionInv, Processes, searchesFor
<1>2. /\ pc'[s] = pc[s] /\ mem'[s] = mem[s] /\ fd'[s] = fd[s] /\ orphan' = orphan
      /\ pc'[Server] # "unlink"
  <2>1. pc'[Server] # "unlink"
    BY RestSteps DEF atRest
  <2>2. CASE Crash
    BY <1>1, <2>1, <2>2, Names DEF Crash, load, close, StoreTypes
  <2>3. CASE ServerLockFails
    BY <1>1, <2>1, <2>3, Names DEF ServerLockFails, interrupted, load, close,
       StoreTypes
  <2> QED
    BY <2>2, <2>3 DEF breaksOff
<1>3. /\ seen[s] \subseteq seen'[s]
      /\ \A f \in GameFiles :
           f \in {ongoingFile(p), lastFile(p)} =>
             \/ file'[f] = file[f]
             \/ file'[f] \in Games /\ file'[f] \in seen'[s]
      /\ \/ onFile(file', p) = onFile(file, p)
         \/ onFile(file', p) \in seen'[s]
  <2>1. CASE UNCHANGED seen /\ \A f \in GameFiles : file'[f] = file[f]
    BY <1>1, <2>1 DEF onFile
  <2>2. ASSUME NEW torn \in Games, tornLeft(torn)
        PROVE  <1>3!1 /\ <1>3!2 /\ <1>3!3
    <3>1. /\ player(Server) \in PLIDs /\ target(mem[Server]) \in GameFiles
          /\ target(mem[Server]) = IF torn.outcome = "ongoing"
                                   THEN ongoingFile(player(Server))
                                   ELSE lastFile(player(Server))
          /\ torn.outcome # "ongoing" => file[ongoingFile(player(Server))] \in Games
          /\ \A f \in GameFiles :
               file'[f] = IF f = target(mem[Server]) THEN torn ELSE file[f]
      BY <1>1, <2>2, SavedTarget DEF tornLeft, Saving, StoreTypes, FilesInv
    <3>2. /\ seen[s] \subseteq seen'[s]
          /\ player(Server) = p => torn \in seen'[s]
      BY <1>1, <2>2 DEF tornLeft, nowSeen
    <3>3. ASSUME NEW f \in {ongoingFile(p), lastFile(p)}
          PROVE  \/ file'[f] = file[f]
                 \/ file'[f] \in Games /\ file'[f] \in seen'[s]
      BY <1>1, <3>1, <3>2, Names
    <3>4. \/ onFile(file', p) = onFile(file, p)
          \/ onFile(file', p) \in seen'[s]
      <4>1. CASE player(Server) # p
        <5>1. file'[ongoingFile(p)] = file[ongoingFile(p)]
                /\ file'[lastFile(p)] = file[lastFile(p)]
          BY <1>1, <3>1, <4>1, Names
        <5> QED
          BY <5>1 DEF onFile
      <4>2. CASE player(Server) = p /\ torn.outcome = "ongoing"
        <5>1. file'[ongoingFile(p)] = torn /\ torn \in seen'[s]
          BY <1>1, <3>1, <3>2, <4>2
        <5> QED
          BY <5>1, Names DEF onFile
      <4>3. CASE player(Server) = p /\ torn.outcome # "ongoing"
        <5>1. file'[ongoingFile(p)] = file[ongoingFile(p)]
                /\ file[ongoingFile(p)] \in Games
          BY <1>1, <3>1, <4>3, Names
        <5> QED
          BY <5>1, Names DEF onFile
      <4> QED
        BY <4>1, <4>2, <4>3
    <3> QED
      BY <3>2, <3>3, <3>4
  <2> QED
    BY <2>1, <2>2, CrashFiles
<1>4. contentOf(s)' \in Games /\ pc[s] \in {"lock", "read"} =>
         contentOf(s)' = contentOf(s) \/ contentOf(s)' \in seen'[s]
  BY <1>1, <1>2, <1>3, Names DEF contentOf, sessionHas
<1> QED
  BY <1>1, <1>2, <1>3, <1>4 DEF finds

LEMMA SessionFinds ==
    ASSUME Shape, FilesInv, GameOnFile, SeenInv,
           NEW s \in Sessions, sessionActs(s), NEW p \in PLIDs, searchesFor(s, p)'
    PROVE  finds(s, p)'
<1>1. /\ StoreTypes /\ sessionAt(s) /\ sessionHas(s)
      /\ ongoingFile(p) \in GameFiles /\ lastFile(p) \in GameFiles
      /\ s # Server /\ s \in Processes /\ Server \in Processes
      /\ \A f \in GameFiles : f # Unlinked
  BY Names DEF Shape, SessionInv, Processes
<1>2. /\ UNCHANGED file /\ pc'[Server] = pc[Server]
      /\ player(Server)' = player(Server) /\ mem'[Server] = mem[Server]
  BY <1>1, SessionLeaves DEF player
<1>3. CASE Connect(s)
  <2>1. /\ pc'[s] = "open" /\ request'[s].cmd \in {"STA", "GHL"}
        /\ committed[p] \in seen'[s]
        /\ pc[Server] = "unlink" /\ player(Server) = p => mem[Server] \in seen'[s]
    BY <1>1, <1>3 DEF Connect, StoreTypes, searchesFor, Searching, Loading,
       goto, player,
       TCPRequests
  <2>2. onFile(file, p) \in seen'[s] \cup {NoGame}
    <3>1. CASE rewriting(p)
      BY <1>1, <3>1, Names DEF FilesInv, onFile
    <3>2. CASE ~rewriting(p)
      BY <2>1, <3>2 DEF GameOnFile
    <3> QED
      BY <3>1, <3>2
  <2> QED
    BY <1>2, <2>1, <2>2 DEF finds, onFile
<1>4. ASSUME Load(s)
      PROVE  finds(s, p)'
  <2>1. /\ searchesFor(s, p) /\ UNCHANGED <<request, seen>> /\ player(s) = p
    BY <1>1, <1>4 DEF Load, OpenOngoing, OpenLast, LockGame, ReadGame,
       searchesFor,
       Searching, Loading, unchangedButMoves, player
  <2>2. finds(s, p)
    BY <2>1 DEF SeenInv
  <2>3. CASE OpenOngoing(s)
    <3>1. CASE pc'[s] = "lock"
      <4>1. contentOf(s)' = file[ongoingFile(p)] /\ file[ongoingFile(p)] # NoFile
        BY <1>1, <1>2, <2>1, <2>3, <3>1
           DEF OpenOngoing, open, goto, load, contentOf, StoreTypes
      <4>2. file[ongoingFile(p)] \in Games => file[ongoingFile(p)] \in seen[s]
        BY <1>1, <2>2, <4>1, Names DEF finds, onFile
      <4> QED
        BY <1>2, <2>1, <2>2, <3>1, <4>1, <4>2 DEF finds, onFile
    <3>2. CASE pc'[s] # "lock"
      <4>1. /\ file[ongoingFile(p)] = NoFile
            /\ pc'[s] \in {"openLast", "loaded"}
            /\ pc'[s] = "loaded" => mem'[s] = NoGame
        BY <1>1, <2>1, <2>3, <3>2 DEF OpenOngoing, goto, load, StoreTypes
      <4>2. file[lastFile(p)] \in Games => file[lastFile(p)] \in seen[s]
        BY <1>1, <2>2, <4>1, Names DEF finds, onFile
      <4> QED
        BY <1>2, <2>1, <2>2, <4>1, <4>2 DEF finds, onFile
    <3> QED
      BY <3>1, <3>2
  <2>4. CASE OpenLast(s)
    <3>1. CASE pc'[s] = "lock"
      <4>1. /\ contentOf(s)' = file[lastFile(p)]
            /\ pc[s] = "openLast"
        BY <1>1, <1>2, <2>1, <2>4, <3>1
           DEF OpenLast, open, goto, load, contentOf, StoreTypes
      <4> QED
        BY <1>2, <2>1, <2>2, <3>1, <4>1 DEF finds, onFile
    <3>2. CASE pc'[s] # "lock"
      <4>1. pc'[s] = "loaded" /\ mem'[s] = NoGame
        BY <1>1, <2>1, <2>4, <3>2 DEF OpenLast, goto, load, StoreTypes
      <4> QED
        BY <1>2, <2>1, <2>2, <4>1 DEF finds, onFile
    <3> QED
      BY <3>1, <3>2
  <2>5. CASE LockGame(s)
    <3>1. /\ contentOf(s)' = contentOf(s) /\ pc'[s] = "read" /\ pc[s] = "lock"
      BY <1>1, <1>2, <2>5 DEF LockGame, flock, goto, contentOf,
         unchangedButMoves, StoreTypes
    <3> QED
      BY <1>2, <2>1, <2>2, <3>1 DEF finds, onFile
  <2>6. CASE ReadGame(s)
    <3>1. /\ mem'[s] = IF contentOf(s) = Empty THEN NoGame ELSE contentOf(s)
          /\ pc'[s] = "loaded" /\ pc[s] = "read"
      BY <1>1, <2>6 DEF ReadGame, load, StoreTypes
    <3>2. contentOf(s) \in Games \cup {Empty}
      BY <1>1, <2>1, <3>1, Names DEF contentOf, sessionHas, StoreTypes
    <3> QED
      BY <1>2, <2>1, <2>2, <3>1, <3>2 DEF finds, onFile
  <2> QED
    BY <1>4, <2>3, <2>4, <2>5, <2>6 DEF Load
<1>5. OpenBoard(s) \/ LockShared(s) \/ StatBoard(s) \/ ReadBoard(s) \/ Answer(s) => FALSE
  <2>1. pc[s] \in ReadingBoard => request[s].cmd = "GSB"
    BY <1>1 DEF sessionAt
  <2> QED
    BY <1>1, <2>1 DEF OpenBoard, LockShared, StatBoard, ReadBoard, Answer,
       searchesFor,
       unchangedButMoves, ReadingBoard, Searching, Loading, load, StoreTypes
<1>6. CASE SessionLockFails(s)
  <2>1. /\ searchesFor(s, p) /\ UNCHANGED <<seen, request>>
        /\ pc'[s] = "loaded" /\ mem'[s] \in {NoGame, NoFile}
        /\ pc[s] # "lock" => pc[s] = "lockShared"
        /\ pc[s] = "lock" => mem'[s] = NoGame
    <3>1. /\ pc[s] \in {"lock", "lockShared"} /\ UNCHANGED <<seen, request>>
          /\ pc'[s] = "loaded"
          /\ mem'[s] = IF pc[s] = "lock" THEN NoGame ELSE NoFile
      BY <1>1, <1>6 DEF SessionLockFails, interrupted, load, StoreTypes, history,
         sessionAt, SessionLabels, Searching, Loading, ReadingBoard
    <3>2. pc[s] = "lock"
      BY <1>1, <3>1 DEF searchesFor, sessionAt, ReadingBoard
    <3> QED
      BY <3>1, <3>2 DEF searchesFor, player, Searching, Loading
  <2>2. finds(s, p) /\ mem'[s] = NoGame
    BY <2>1 DEF SeenInv, searchesFor, Searching, Loading
  <2> QED
    BY <1>2, <2>1, <2>2 DEF finds, onFile
<1> QED
  BY <1>3, <1>4, <1>5, <1>6 DEF SessionStep, sessionActs

LEMMA SeenStep ==
    Shape /\ FilesInv /\ GameOnFile /\ SeenInv /\ [Next]_vars => SeenInv'
<1> SUFFICES ASSUME Shape, FilesInv, GameOnFile, SeenInv, [Next]_vars,
                    NEW s \in Sessions, NEW p \in PLIDs, searchesFor(s, p)'
             PROVE  finds(s, p)'
  BY DEF SeenInv
<1>1. ASSUME searchesFor(s, p)
      PROVE  finds(s, p)
  BY <1>1 DEF SeenInv
<1>2. CASE ServerStep
  BY <1>1, <1>2, ServerKeepsFinding, ServerLeavesSessions DEF searchesFor, player
<1>3. CASE breaksOff
  <2>1. pc'[s] = pc[s] /\ request'[s] = request[s]
    BY <1>3, Names DEF breaksOff, Crash, ServerLockFails, load, Shape,
       StoreTypes, Processes
  <2> QED
    BY <1>1, <1>3, <2>1, CrashKeepsFinding DEF searchesFor, player
<1>4. CASE Restart
  <2>1. /\ pc'[s] = pc[s] /\ s # Server /\ pc'[Server] = "idle"
        /\ UNCHANGED <<file, fd, orphan, mem, request, seen>>
    BY <1>4, Names DEF Restart, goto, Shape, StoreTypes, Processes, files,
       descriptors,
       history
  <2> QED
    BY <1>1, <2>1 DEF searchesFor, finds, player, onFile, contentOf
<1>5. ASSUME NEW r \in Sessions, sessionActs(r)
      PROVE  finds(s, p)'
  <2>1. CASE r = s
    BY <1>5, <2>1, SessionFinds
  <2>2. CASE r # s
    <3>1. /\ pc'[s] = pc[s] /\ mem'[s] = mem[s] /\ request'[s] = request[s]
          /\ fd'[s] = fd[s] /\ orphan'[s] = orphan[s] /\ seen'[s] = seen[s]
          /\ UNCHANGED file
          /\ pc'[Server] = pc[Server] /\ mem'[Server] = mem[Server]
          /\ request'[Server] = request[Server]
      BY <1>5, <2>2, SessionLeaves, Names DEF Processes
    <3> QED
      BY <1>1, <3>1 DEF searchesFor, finds, player, onFile, contentOf
  <2> QED
    BY <2>1, <2>2
<1>6. CASE UNCHANGED vars
  BY <1>1, <1>6 DEF vars, searchesFor, finds, player, onFile, contentOf
<1> QED
  BY <1>2, <1>3, <1>4, <1>5, <1>6 DEF Next, breaksOff, sessionActs

-----------------------------------------------------------------------------
LEMMA InitInv == Init => IInv
<1> SUFFICES ASSUME Init PROVE IInv
  OBVIOUS
<1>1. Shape
  BY InitShape
<1>2. /\ \A f \in GameFiles : file[f] = NoFile
      /\ pc[Server] = "idle" /\ mem[Server] = NoGame /\ request[Server] = NoRequest
      /\ \A s \in Sessions : pc[s] = "idle"
      /\ scores = {} /\ file[Scoreboard] = NoFile /\ over = {}
      /\ \A p \in PLIDs : committed[p] = NoGame
  BY Names DEF Init, Processes
<1>3. FilesInv /\ GameOnFile
  BY <1>2, Names DEF FilesInv, GameOnFile, rewriting, onFile, Scoring, Saving
<1>4. SeenInv
  BY <1>2 DEF SeenInv, searchesFor, Searching, Loading
<1>5. OwnersInv
  BY <1>2, Names DEF OwnersInv, has
<1>6. ScoredInv /\ OverInv /\ BoardInv /\ ContinuesInv
  BY <1>2 DEF ScoredInv, OverInv, BoardInv, ContinuesInv, Scoring, Saving
<1> QED
  BY <1>1, <1>3, <1>4, <1>5, <1>6 DEF IInv

LEMMA NextInv == IInv /\ [Next]_vars => IInv'
BY ShapeStep, FilesStep, SeenStep, ContinuesStep, OwnersStep, ScoredStep, OverStep,
   BoardStep DEF IInv

THEOREM Invariance == Spec => []IInv
BY InitInv, NextInv, PTL DEF Spec

(* saveGame and endGame: a game last saved or ended is whole in one of its *)
(* player's files, except while the file of a game that goes on is being   *)
(* rewritten; a crash loses none but that one.                             *)
THEOREM GameAlwaysOnFile == Spec => []GameOnFile
<1>1. IInv => GameOnFile
  BY DEF IInv
<1> QED
  BY <1>1, Invariance, PTL

(* findGameFileForPlayer and loadGame, by a session that looks for one     *)
(* file after the other while the server renames the game from one to the  *)
(* other: what is found is a game the player had since it asked.           *)
THEOREM AnswersAlwaysCurrent == Spec => []AnswersCurrent
<1>1. IInv => AnswersCurrent
  <2> SUFFICES ASSUME IInv, NEW s \in Sessions, pc[s] = "loaded",
                      request[s].cmd \in {"STA", "GHL"}, mem[s] # NoGame
               PROVE  mem[s] \in seen[s]
    BY DEF AnswersCurrent
  <2>1. player(s) \in PLIDs
    BY DEF IInv, Shape, SessionInv, sessionAt, TCPRequests, player
  <2> QED
    BY <2>1 DEF IInv, SeenInv, searchesFor, finds
<1> QED
  BY <1>1, Invariance, PTL

(* saveGame, loadGame and fulfillSNGRequest: a game in progress is lost, or *)
(* loses trials, only when the server is interrupted while it rewrites     *)
(* that game, or because of a lock whose wait was interrupted.             *)
THEOREM GameLostOnlyInterrupted == Spec => GameLostOnlyByInterruption
<1>1. IInv /\ [Next]_vars =>
        [\A p \in PLIDs :
            inProgress(p) /\ goesBack(p)
               => stopping \/ (rewriting(p) /\ crashes' > crashes)]_vars
  BY LosesOnlyInterrupted DEF IInv
<1> QED
  BY <1>1, Invariance, PTL DEF Spec, GameLostOnlyByInterruption

(* endGame and registerScore: once its end is answered, no crash, restart  *)
(* or later game brings a game back, and the score of a game won stays on  *)
(* file until the player wins again with it in the same second.            *)
THEOREM AnsweredEndAlwaysFinal == Spec => []AnsweredEndIsFinal
<1>1. IInv => AnsweredEndIsFinal
  BY DEF IInv, OverInv, settled, keepsScore, AnsweredEndIsFinal
<1> QED
  BY <1>1, Invariance, PTL

(* registerScore and generateScoreboard: until the server is first killed  *)
(* or interrupted, every score file is on the scoreboard whenever no win   *)
(* is being registered.                                                    *)
THEOREM ScoreboardAlwaysComplete == Spec => []ScoreboardComplete
<1>1. IInv => ScoreboardComplete
  BY DEF IInv, BoardInv, ScoreboardComplete
<1> QED
  BY <1>1, Invariance, PTL

=============================================================================

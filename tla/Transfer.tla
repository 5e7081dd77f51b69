------------------------------- MODULE Transfer -------------------------------
(***************************************************************************)
(* The TCP commands (scoreboard, hint, state): how a player's process and  *)
(* the session that the Game Server forks for its connection exchange one  *)
(* request and one reply, with or without a file.  The player reads word   *)
(* by word, then the file block by block (src/player/network.c, handled in *)
(* src/player/commands.c); the session writes until its socket buffer is   *)
(* full (src/GS/network.c, handled in src/GS/GS.c).  Either side gives up  *)
(* on a call after five seconds, and either may die.                       *)
(*                                                                         *)
(* A unit of the stream is a word of the reply, or a piece of the file as  *)
(* long as a word.  Which file is asked for, and what is in it, is the     *)
(* subject of GameServer and GameStore.  Calls on the player's disk        *)
(* succeed.                                                                *)
(***************************************************************************)
EXTENDS Integers, Sequences, FiniteSetsExt

CONSTANTS
    FileSizes,   \* sizes of the files that are sent, in units
    Capacity,    \* units the socket buffers hold between the two programs
    Block,       \* FILE_TRANSFER_BLOCK_SIZE and TCP_MAX_BLOCK_SIZE, in units
    MaxCommands  \* bound: TCP commands the player gives

(* A reply without a file, and the words before a file, fit the buffers:   *)
(* a write of theirs never waits.                                          *)
ASSUME TransferAssumption ==
    /\ FileSizes \subseteq Nat
    /\ Capacity \in Nat /\ Capacity >= 4
    /\ Block \in Nat \ {0}
    /\ MaxCommands \in Nat

VARIABLES
    phase,   \* what the player does: the prompt, or what it reads next
    conn,    \* the connection of its command; each command opens another
    fsize,   \* the size announced for the file, once it is known
    block,   \* what is read of a block
    local,   \* the player's file of that name
    result,  \* of the last command
    session, \* connection -> what its session does
    sent,    \* connection -> size of the file the session replies with
    out,     \* connection -> what the session has still to write
    stream,  \* connection -> what is on the way to the player
    left     \* connection -> whether the player has closed its end

playerVars == <<phase, conn, fsize, block, local, result>>
sessionVars == <<session, sent, out>>
vars == <<playerVars, sessionVars, stream, left>>

Connections == 1..MaxCommands

NoFile == <<<<"no file">>>>  \* the player has no file of that name
NoSize == -1                 \* the reply is one without a file

Unit(word) == <<word>>
Data(n) == [i \in 1..n |-> <<"data", i>>]

(* replyTCP, with a file of n units and without one; the reply of GS.c to  *)
(* a request that cannot be read; and the one after a handler failed.      *)
fileReply(n) == <<Unit("command"), Unit("ok"), Unit("fname"), <<"fsize", n>>>>
                    \o Data(n) \o <<Unit("eol")>>
refusal == <<Unit("command"), Unit("nok"), Unit("eol")>>
unreadable == <<Unit("ERR")>>

Init ==
    /\ phase = "prompt" /\ conn = 0 /\ fsize = 0 /\ block = <<>>
    /\ local = NoFile /\ result = "none"
    /\ session = [c \in Connections |-> "none"]
    /\ sent = [c \in Connections |-> NoSize]
    /\ out = [c \in Connections |-> <<>>]
    /\ stream = [c \in Connections |-> <<>>]
    /\ left = [c \in Connections |-> FALSE]

-----------------------------------------------------------------------------
(* The player.  A command that ends closes the connection.                 *)

leave == /\ left' = [left EXCEPT ![conn] = TRUE]
         /\ stream' = [stream EXCEPT ![conn] = <<>>]

finish(r) == phase' = "prompt" /\ result' = r /\ leave /\ block' = <<>>

(* sendTCPMessage: the request fits the buffers and is written at once.    *)
Ask ==
    /\ phase = "prompt" /\ conn < MaxCommands
    /\ conn' = conn + 1
    /\ phase' = "command" /\ result' = "none" /\ fsize' = 0
    /\ session' = [session EXCEPT ![conn'] = "queued"]
    /\ UNCHANGED <<block, local, sent, out, stream, left>>

(* Nobody listens, or the request cannot be written.                       *)
AskFails ==
    /\ phase = "prompt" /\ conn < MaxCommands
    /\ conn' = conn + 1
    /\ result' = "ECOMMS_TCP" /\ fsize' = 0
    /\ UNCHANGED <<phase, block, local, sessionVars, stream, left>>

arrived == phase \notin {"prompt", "gone"} /\ stream[conn] # <<>>
unit == Head(stream[conn])
take == stream' = [stream EXCEPT ![conn] = Tail(@)] /\ UNCHANGED left

(* The first two words: a line that ends after the first one is no reply.  *)
ReadCommand ==
    /\ phase = "command" /\ arrived
    /\ \/ /\ unit = Unit("command")
          /\ phase' = "status" /\ take
          /\ UNCHANGED <<result, block>>
       \/ /\ unit # Unit("command")
          /\ finish("ECOMMS_TCP")
    /\ UNCHANGED <<conn, fsize, local, sessionVars>>

(* Mutant: a file is expected after every status.                          *)
ReadStatus_alwaysFile ==
    /\ phase = "status" /\ arrived
    /\ phase' = "fname"
    /\ take
    /\ UNCHANGED <<conn, fsize, block, local, result, sessionVars>>

(* parseEnum, and which statuses come with a file (fileReceiveStatuses).   *)
(* The refusal of main says NOK also to `scoreboard`, which does not have  *)
(* that status.                                                            *)
ReadStatus ==
    /\ phase = "status" /\ arrived
    /\ \/ /\ phase' = IF unit = Unit("ok") THEN "fname" ELSE "end"
          /\ take
          /\ UNCHANGED <<block, result>>
       \/ /\ unit = Unit("nok")
          /\ finish("EDESERIALIZE")
    /\ UNCHANGED <<conn, fsize, local, sessionVars>>

ReadEnd ==
    /\ phase = "end" /\ arrived
    /\ finish("without file")
    /\ UNCHANGED <<conn, fsize, local, sessionVars>>

ReadName ==
    /\ phase = "fname" /\ arrived
    /\ phase' = "fsize" /\ take
    /\ UNCHANGED <<conn, fsize, block, local, result, sessionVars>>

(* fopen(.., "w") empties the file of an earlier command.  Both programs   *)
(* have the same limit for sizes, so the player's test of it never fails.  *)
ReadSize ==
    /\ phase = "fsize" /\ arrived
    /\ fsize' = unit[2]
    /\ local' = <<>>
    /\ phase' = IF fsize' = 0 THEN "newline" ELSE "data"
    /\ take
    /\ UNCHANGED <<conn, block, result, sessionVars>>

(* Mutant: every block is taken to be a whole one.                         *)
wanted_wholeBlock == Block

wanted == Min({Block, fsize - Len(local)})

complete(content) == Len(content) >= fsize

(* read(2) returns what there is; a whole block goes to the file.          *)
ReadData ==
    LET got == Append(block, unit) IN
    /\ phase = "data" /\ arrived
    /\ \/ /\ Len(got) < wanted
          /\ block' = got
          /\ UNCHANGED <<phase, local>>
       \/ /\ Len(got) >= wanted
          /\ block' = <<>>
          /\ local' = local \o got
          /\ phase' = IF complete(local') THEN "newline" ELSE "data"
    /\ take
    /\ UNCHANGED <<conn, fsize, result, sessionVars>>

(* Mutant: a file without its newline is kept.                             *)
discard_nothing == UNCHANGED local

(* handleTCPCommand removes a file that is not followed by a newline.      *)
discard == local' = NoFile

(* checkNewline.                                                           *)
ReadNewline ==
    /\ phase = "newline" /\ arrived
    /\ \/ /\ unit = Unit("eol")
          /\ finish("file")
          /\ UNCHANGED local
       \/ /\ unit # Unit("eol")
          /\ finish("EDESERIALIZE")
          /\ discard
    /\ UNCHANGED <<conn, fsize, sessionVars>>

(* Mutant: a read that times out is tried again.                           *)
ReadFails_retries ==
    /\ phase \notin {"prompt", "gone"} /\ ~arrived
    /\ session[conn] = "ended"
    /\ finish("ECOMMS_TCP")
    /\ IF phase = "newline" THEN discard ELSE UNCHANGED local
    /\ UNCHANGED <<conn, fsize, sessionVars>>

(* read(2) returns -1 after five seconds without a byte, or 0 after the    *)
(* session closed its end.  The code asks for EINPROGRESS to tell these    *)
(* apart, which is the error of neither: no timeout is ever reported.      *)
ReadFails ==
    /\ phase \notin {"prompt", "gone"} /\ ~arrived
    /\ IF phase = "newline"
       THEN finish("EDESERIALIZE") /\ discard
       ELSE finish("ECOMMS_TCP") /\ UNCHANGED local
    /\ UNCHANGED <<conn, fsize, sessionVars>>

PlayerReads ==
    \/ ReadCommand \/ ReadStatus \/ ReadEnd \/ ReadName \/ ReadSize
    \/ ReadData \/ ReadNewline \/ ReadFails

(* Ctrl-C, or the end of the process: the file stays as far as it is.  A   *)
(* process that is only stopped, or whose machine is gone, reads no more   *)
(* but does not close the connection.                                      *)
PlayerDies ==
    /\ phase # "gone"
    /\ phase' = "gone"
    /\ block' = <<>>
    /\ UNCHANGED <<left, stream>> \/ (phase # "prompt" /\ leave)
    /\ UNCHANGED <<conn, fsize, local, result, sessionVars>>

-----------------------------------------------------------------------------
(* The session of connection c.                                            *)

goto(c, label) == session' = [session EXCEPT ![c] = label]

reply(c, units, label) == out' = [out EXCEPT ![c] = units] /\ goto(c, label)

(* accept and fork.                                                        *)
Accept(c) ==
    /\ session[c] = "queued"
    /\ goto(c, "reading")
    /\ UNCHANGED <<playerVars, sent, out, stream, left>>

(* readTCPMessage, then handleTCPCommand: a file, or the status that has   *)
(* none.                                                                   *)
Serve(c) ==
    /\ session[c] = "reading"
    /\ \/ \E n \in FileSizes :
            /\ sent' = [sent EXCEPT ![c] = n]
            /\ reply(c, fileReply(n), "replying")
       \/ reply(c, refusal, "replying") /\ UNCHANGED sent
    /\ UNCHANGED <<playerVars, stream, left>>

(* The request is more than five seconds on its way, or never comes.       *)
RequestFails(c) ==
    /\ session[c] = "reading"
    /\ reply(c, unreadable, "failing")
    /\ UNCHANGED <<playerVars, sent, stream, left>>

writing(c) == session[c] \in {"replying", "failing"} /\ out[c] # <<>>
room(c) == Capacity - Len(stream[c])

(* write(2) takes what there is room for; nobody reads what it sends to a  *)
(* player that has just left.                                              *)
Write(c) ==
    LET k == Min({Block, room(c), Len(out[c])}) IN
    /\ writing(c) /\ room(c) > 0
    /\ out' = [out EXCEPT ![c] = SubSeq(@, k + 1, Len(@))]
    /\ stream' = IF left[c] THEN stream
                 ELSE [stream EXCEPT ![c] = @ \o SubSeq(out[c], 1, k)]
    /\ UNCHANGED <<playerVars, session, sent, left>>

(* Mutant: a write that finds no room for five seconds is tried again.     *)
WriteFails_retries(c) ==
    /\ writing(c) /\ left[c]
    /\ \/ session[c] = "replying" /\ reply(c, refusal, "failing")
       \/ session[c] = "failing" /\ reply(c, <<>>, "ended")
    /\ UNCHANGED <<playerVars, sent, stream, left>>

(* There was no room for five seconds, or the player has left.  The main   *)
(* program takes this for a failed handler and writes a refusal after what *)
(* was written before; its own failure is ignored.                         *)
WriteFails(c) ==
    /\ writing(c) /\ (room(c) = 0 \/ left[c])
    /\ \/ session[c] = "replying" /\ reply(c, refusal, "failing")
       \/ session[c] = "failing" /\ reply(c, <<>>, "ended")
    /\ UNCHANGED <<playerVars, sent, stream, left>>

(* All is written: the process ends, which closes the connection.          *)
Finish(c) ==
    /\ session[c] \in {"replying", "failing"} /\ out[c] = <<>>
    /\ goto(c, "ended")
    /\ UNCHANGED <<playerVars, sent, out, stream, left>>

SessionRuns(c) == Serve(c) \/ RequestFails(c) \/ Write(c) \/ WriteFails(c) \/ Finish(c)

(* The server is shut down or killed; what was written still arrives.      *)
SessionDies(c) ==
    /\ session[c] \notin {"none", "ended"}
    /\ reply(c, <<>>, "ended")
    /\ UNCHANGED <<playerVars, sent, stream, left>>

Next ==
    \/ Ask \/ AskFails \/ PlayerReads \/ PlayerDies
    \/ \E c \in Connections : Accept(c) \/ SessionRuns(c) \/ SessionDies(c)

Spec == Init /\ [][Next]_vars

(* Nobody need accept a connection, and nobody need read or write but by   *)
(* its own choice: each side's calls return, after five seconds at most.   *)
PlayerFair == WF_vars(PlayerReads)
SessionsFair == \A c \in Connections : WF_vars(SessionRuns(c))

FairSpec == Spec /\ PlayerFair /\ SessionsFair

-----------------------------------------------------------------------------
Phases == {"prompt", "command", "status", "end", "fname", "fsize", "data",
           "newline", "gone"}
Results == {"none", "file", "without file", "ECOMMS_TCP", "EDESERIALIZE"}

(* The words come in the order in which the player reads them, although a  *)
(* session may write two replies: a unit is taken for another only in a    *)
(* file and after it.                                                      *)
TransferTypeOK ==
    /\ phase \in Phases /\ result \in Results
    /\ conn \in 0..MaxCommands
    /\ fsize \in FileSizes \cup {0}
    /\ Len(block) < Block
    /\ \A c \in Connections :
         /\ session[c] \in {"none", "queued", "reading", "replying", "failing", "ended"}
         /\ sent[c] \in FileSizes \cup {NoSize}
         /\ Len(stream[c]) <= Capacity
    /\ arrived =>
         /\ phase = "command" => unit \in {Unit("command"), Unit("ERR")}
         /\ phase = "status" => unit \in {Unit("ok"), Unit("nok")}
         /\ phase = "end" => unit = Unit("eol")
         /\ phase = "fname" => unit = Unit("fname")
         /\ phase = "fsize" => unit = <<"fsize", sent[conn]>>

(* A write of the session that timed out with exactly two words of the     *)
(* file to go is followed by a refusal, whose first two words the player   *)
(* takes for the end of the file and whose newline for the file's.         *)
spliced(n) == Data(n - 2) \o <<Unit("command"), Unit("nok")>>

(* A file the player shows as received has the announced size and is the   *)
(* file that was sent, wherever either side's calls were cut short, except *)
(* in that one case: no other mixture of a reply and a refusal, and no     *)
(* truncated file, is ever taken for a file.                               *)
StoredFileIsWhole ==
    result = "file" /\ phase = "prompt" =>
        /\ Len(local) = fsize
        /\ \/ local = Data(sent[conn])
           \/ sent[conn] >= 2 /\ local = spliced(sent[conn])

(* After a command that failed there is no file under the name, or it is   *)
(* one of an earlier command, or it is shorter than was announced: a whole *)
(* file of this command is only left by one that reports it.               *)
FailureLeavesNoFile ==
    phase = "prompt" /\ result \in {"ECOMMS_TCP", "EDESERIALIZE"} =>
        \/ local = NoFile
        \/ fsize = 0
        \/ Len(local) < fsize

(* Every session that has read its connection ends, although its player    *)
(* may stop reading, or leave, at any point.                               *)
EverySessionEnds ==
    \A c \in Connections : session[c] = "reading" ~> session[c] = "ended"

(* Every command ends although its session may be late, die, or never be   *)
(* forked.                                                                 *)
EveryTransferEnds ==
    phase = "command" ~> phase \in {"prompt", "gone"}
=============================================================================

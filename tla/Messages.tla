------------------------------- MODULE Messages -------------------------------
(***************************************************************************)
(* What the two ends of the protocol make of each other's messages         *)
(* (src/common/messages.c and the argument parsers of the player).  The    *)
(* text is abstracted to records whose fields the serialisers fill; the    *)
(* deserialisers are the conditions under which the text of such a record  *)
(* is read back: numbers of one or two digits within their bounds, words   *)
(* of legal length, statuses of the list.  A message that fails them is    *)
(* refused by the side that gets it.                                       *)
(***************************************************************************)
EXTENDS GameServer

CONSTANTS
    MinWordSize, MaxWordSize, \* 3 and 30 letters
    MaxDigit                  \* 9, the largest number of errors one digit says

legalLength(word) == Len(word) \in MinWordSize..MaxWordSize

(* The word file holds words of legal length, which parseWordListFile does *)
(* not look at, and the protocol has room for every game with them: 39     *)
(* trials at most, of 99.                                                  *)
ASSUME MessagesAssumption ==
    /\ {MinWordSize, MaxWordSize, MaxDigit} \subseteq Nat /\ MinWordSize > 0
    /\ \A i \in DOMAIN WordList :
         /\ legalLength(WordList[i])
         /\ calculateMaxErrors(WordList[i]) <= MaxDigit
         /\ Len(WordList[i]) + calculateMaxErrors(WordList[i]) <= MaxTrial

-----------------------------------------------------------------------------
(* What a user can give to `play` and `guess`.                             *)
parsePLGArgs == Letters
parsePWGArgs == {w \in Words : Len(w) <= MaxWordSize}

-----------------------------------------------------------------------------
(* Requests, as the server reads them.                                     *)

checkPLID(PLID) == PLID \in PLIDs

twoDigits(n) == n \in 1..MaxTrial

deserializeSNG(msg) == checkPLID(msg.PLID)

deserializePLG(msg) ==
    checkPLID(msg.PLID) /\ msg.guess \in Letters /\ twoDigits(msg.trial)

deserializePWG(msg) ==
    checkPLID(msg.PLID) /\ legalLength(msg.guess) /\ twoDigits(msg.trial)

deserializeQUT(msg) == checkPLID(msg.PLID)

deserializeREV(msg) == checkPLID(msg.PLID)

deserializeGHL(msg) == checkPLID(msg.PLID)

deserializeSTA(msg) == checkPLID(msg.PLID)

readable(msg) ==
    \/ msg.cmd = "SNG" /\ deserializeSNG(msg)
    \/ msg.cmd = "PLG" /\ deserializePLG(msg)
    \/ msg.cmd = "PWG" /\ deserializePWG(msg)
    \/ msg.cmd = "QUT" /\ deserializeQUT(msg)
    \/ msg.cmd = "REV" /\ deserializeREV(msg)
    \/ msg.cmd = "GHL" /\ deserializeGHL(msg)
    \/ msg.cmd = "STA" /\ deserializeSTA(msg)
    \/ msg.cmd = "GSB"

(* The command of the answer to each request.                              *)
response == [SNG |-> "RSG", PLG |-> "RLG", PWG |-> "RWG", QUT |-> "RQT",
             REV |-> "RRV", GHL |-> "RHL", STA |-> "RST", GSB |-> "RSB"]

(* The answer to a request that is refused, or could not be fulfilled or   *)
(* answered.                                                               *)
refusal(msg) == [cmd |-> response[msg.cmd], status |-> "ERR"]

-----------------------------------------------------------------------------
(* Answers, as the player reads them.                                      *)

deserializeRSG(msg) ==
    /\ msg.status \in {"OK", "NOK", "ERR"}
    /\ msg.status = "OK" =>
         /\ msg.n_letters \in MinWordSize..MaxWordSize
         /\ msg.max_errors <= MaxDigit

deserializeRLG(msg) ==
    \/ msg.status = "ERR"
    \/ /\ msg.status \in {"WIN", "DUP", "NOK", "OVR", "INV"}
       /\ twoDigits(msg.trial)
    \/ /\ msg.status = "OK"
       /\ twoDigits(msg.trial)
       /\ msg.pos # {} /\ msg.pos \subseteq 1..MaxWordSize

deserializeRWG(msg) ==
    \/ msg.status = "ERR"
    \/ /\ msg.status \in {"WIN", "DUP", "NOK", "OVR", "INV"}
       /\ twoDigits(msg.trial)

deserializeRQT(msg) == msg.status \in {"OK", "NOK", "ERR"}

deserializeRRV(msg) ==
    IF "word" \in DOMAIN msg THEN legalLength(msg.word)
                             ELSE msg.status = "ERR"

(* The statuses of the TCP answers; the rest of these is in Transfer.       *)
statusEnum == [RSB |-> {"OK", "EMPTY"}, RHL |-> {"OK", "NOK"},
               RST |-> {"ACT", "FIN", "NOK"}]

(* The answer msg is read as one to the request req.                       *)
understood(req, msg) ==
    /\ msg.cmd = response[req.cmd]
    /\ \/ msg.cmd = "RSG" /\ deserializeRSG(msg)
       \/ msg.cmd = "RLG" /\ deserializeRLG(msg)
       \/ msg.cmd = "RWG" /\ deserializeRWG(msg)
       \/ msg.cmd = "RQT" /\ deserializeRQT(msg)
       \/ msg.cmd = "RRV" /\ deserializeRRV(msg)
       \/ msg.cmd \in DOMAIN statusEnum /\ msg.status \in statusEnum[msg.cmd]

-----------------------------------------------------------------------------
(* The answer to a trial out of turn before any was registered.            *)
invalidZero(msg) ==
    msg.cmd \in {"RLG", "RWG"} /\ msg.status = "INV" /\ msg.trial = 0

(* The player can read every answer that the server writes to a request it *)
(* could read, whatever the state of the game: no position list is ever    *)
(* empty, no number has more digits than its field, no status is unknown.  *)
(* The one exception is INV with trial 0.                                  *)
RepliesUnderstood ==
    readable(request) /\ reply # Silence
        => understood(request, reply) \/ invalidZero(reply)
===============================================================================

---------------------------- MODULE TransferProofs ----------------------------
(***************************************************************************)
(* Safety of a TCP transfer, for files of any sizes, any block and any     *)
(* room between the programs: every word is read for what it is, and what  *)
(* is stored as received is the file, but for one splice.                  *)
(***************************************************************************)
EXTENDS Transfer, TLAPS, SequenceTheorems

Words == {"command", "ok", "nok", "fname", "eol", "ERR"}
Units == {<<word>> : word \in Words} \cup ({"data", "fsize"} \X Nat)

Reading == {"command", "status", "end", "fname", "fsize", "data", "newline"}

(* The types, and the connections that were not opened yet.                *)
Shape ==
    /\ phase \in Phases /\ result \in Results /\ conn \in 0..MaxCommands
    /\ fsize \in FileSizes \cup {0}
    /\ block \in Seq(Units) /\ Len(block) < Block
    /\ phase \in {"prompt", "gone"} => block = <<>>
    /\ session \in [Connections ->
           {"none", "queued", "reading", "replying", "failing", "ended"}]
    /\ sent \in [Connections -> FileSizes \cup {NoSize}]
    /\ out \in [Connections -> Seq(Units)]
    /\ stream \in [Connections -> Seq(Units)]
    /\ left \in [Connections -> BOOLEAN]
    /\ \A c \in Connections :
         /\ Len(stream[c]) <= Capacity
         /\ session[c] \in {"none", "queued", "reading"} => out[c] = <<>>
         /\ c > conn => session[c] = "none" /\ stream[c] = <<>> /\ ~left[c]
    /\ phase \in Reading => conn > 0 /\ ~left[conn]

(* How many units of the reply the player has read.                        *)
position ==
    IF phase = "command" THEN 0 ELSE IF phase = "status" THEN 1
    ELSE IF phase \in {"end", "fname"} THEN 2 ELSE IF phase = "fsize" THEN 3
    ELSE 4 + Len(local) + Len(block)

(* How many the session has sent.                                          *)
total == position + Len(stream[conn])

(* Unit i of a reply with a file that was cut short after k units and      *)
(* followed by a refusal.                                                  *)
said(n, k, i) == IF i <= k THEN fileReply(n)[i] ELSE refusal[i - k]

(* What the player has kept of it, but for what is on the way to it.        *)
Received(n, k) ==
    phase \in {"data", "newline"} =>
        /\ fsize = n
        /\ local \in Seq(Units) /\ Len(local) <= n
        /\ \A i \in 1..Len(local) : local[i] = said(n, k, 4 + i)
        /\ \A i \in 1..Len(block) : block[i] = said(n, k, 4 + Len(local) + i)
        /\ phase = "data" => Len(local) < n /\ Len(block) < wanted
        /\ phase = "newline" => Len(local) = n /\ block = <<>>

(* What the session has still to write of it.                              *)
Unwritten(n, k) ==
    /\ session[conn] = "replying" => k = n + 5 /\ Len(out[conn]) = k - total
    /\ session[conn] = "failing" => k <= total /\ Len(out[conn]) = k + 3 - total
    /\ session[conn] \in {"replying", "failing"} =>
         \A i \in 1..Len(out[conn]) : out[conn][i] = said(n, k, total + i)

(* What was sent and what is read of it is the beginning of such a reply.  *)
(* It may be cut anywhere but in the words before the file.                *)
FileSent(n, k) ==
    /\ sent[conn] = n /\ k \in 4..n + 5 /\ total <= k + 3
    /\ phase \in Reading \ {"end"}
    /\ \A i \in 1..Len(stream[conn]) : stream[conn][i] = said(n, k, position + i)
    /\ Received(n, k)
    /\ Unwritten(n, k)

(* The same of a reply without a file.                                     *)
RefusalSent ==
    /\ phase \in {"command", "status", "end"} /\ total + Len(out[conn]) <= 3
    /\ session[conn] # "failing"
    /\ \A i \in 1..Len(stream[conn]) : stream[conn][i] = refusal[position + i]
    /\ \A i \in 1..Len(out[conn]) : out[conn][i] = refusal[total + i]

UnreadableSent ==
    /\ phase = "command" /\ total + Len(out[conn]) <= 1
    /\ session[conn] # "replying"
    /\ \A i \in 1..Len(stream[conn]) : stream[conn][i] = Unit("ERR")
    /\ \A i \in 1..Len(out[conn]) : out[conn][i] = Unit("ERR")

StreamInv ==
    phase \in Reading =>
      /\ session[conn] # "none"
      /\ phase \notin {"data", "newline"} => fsize = 0 /\ block = <<>>
      /\ \/ /\ session[conn] \in {"queued", "reading", "ended"}
            /\ phase = "command" /\ stream[conn] = <<>> /\ out[conn] = <<>>
         \/ /\ session[conn] \in {"replying", "failing", "ended"}
            /\ \/ \E n \in FileSizes, k \in Nat : FileSent(n, k)
               \/ RefusalSent
               \/ UnreadableSent

(* A session that answered does not choose another file.                   *)
StoredInv ==
    result = "file" /\ phase = "prompt" =>
        conn > 0 /\ session[conn] \in {"replying", "failing", "ended"}

(* What the last command left and reported.                                *)
Kept == StoredInv /\ StoredFileIsWhole /\ FailureLeavesNoFile

IInv == Shape /\ StreamInv /\ Kept

-----------------------------------------------------------------------------
LEMMA MinOfTwo ==
    ASSUME NEW a \in Int, NEW b \in Int
    PROVE  Min({a, b}) = IF a <= b THEN a ELSE b
<1> DEFINE m == IF a <= b THEN a ELSE b
<1>1. m \in {a, b} /\ \A y \in {a, b} : m <= y
  OBVIOUS
<1>2. \A x \in {a, b} : (\A y \in {a, b} : x <= y) => x = m
  OBVIOUS
<1> QED
  BY <1>1, <1>2 DEF Min

LEMMA MinOfThree ==
    ASSUME NEW a \in Int, NEW b \in Int, NEW c \in Int
    PROVE  /\ Min({a, b, c}) \in {a, b, c}
           /\ Min({a, b, c}) <= a /\ Min({a, b, c}) <= b /\ Min({a, b, c}) <= c
<1> DEFINE m == IF a <= b THEN IF a <= c THEN a ELSE c
                          ELSE IF b <= c THEN b ELSE c
<1>1. m \in {a, b, c} /\ \A y \in {a, b, c} : m <= y
  OBVIOUS
<1> QED
  BY <1>1 DEF Min

LEMMA Joined ==
    ASSUME NEW S, NEW s \in Seq(S), NEW t \in Seq(S)
    PROVE  /\ s \o t \in Seq(S) /\ Len(s \o t) = Len(s) + Len(t)
           /\ \A i \in 1..Len(s) : (s \o t)[i] = s[i]
           /\ \A i \in 1..Len(t) : (s \o t)[Len(s) + i] = t[i]
<1>1. /\ s \o t \in Seq(S) /\ Len(s \o t) = Len(s) + Len(t)
      /\ \A i \in 1..Len(s) + Len(t) :
           (s \o t)[i] = IF i <= Len(s) THEN s[i] ELSE t[i - Len(s)]
  OBVIOUS
<1>2. Len(s) \in Nat /\ Len(t) \in Nat
  OBVIOUS
<1>3. ASSUME NEW i \in 1..Len(s) PROVE (s \o t)[i] = s[i]
  BY <1>1, <1>2
<1>4. ASSUME NEW i \in 1..Len(t) PROVE (s \o t)[Len(s) + i] = t[i]
  <2>1. Len(s) + i \in 1..Len(s) + Len(t) /\ ~(Len(s) + i <= Len(s))
        /\ Len(s) + i - Len(s) = i
    BY <1>2
  <2> QED
    BY <2>1, <1>1
<1> QED
  BY <1>1, <1>3, <1>4

(* The reply with a file, unit by unit.                                    *)
LEMMA FileReply ==
    ASSUME NEW n \in Nat
    PROVE  /\ fileReply(n) \in Seq(Units) /\ Len(fileReply(n)) = n + 5
           /\ fileReply(n)[1] = Unit("command") /\ fileReply(n)[2] = Unit("ok")
           /\ fileReply(n)[3] = Unit("fname") /\ fileReply(n)[4] = <<"fsize", n>>
           /\ \A i \in 1..n : fileReply(n)[4 + i] = <<"data", i>>
           /\ fileReply(n)[n + 5] = Unit("eol")
<1> DEFINE head == <<Unit("command"), Unit("ok"), Unit("fname"), <<"fsize", n>>>>
           tail == <<Unit("eol")>>
           data == Data(n)
           front == head \o data
           whole == front \o tail
<1>1. head \in Seq(Units) /\ Len(head) = 4
  BY DEF Units, Words, Unit
<1>2. tail \in Seq(Units) /\ Len(tail) = 1
  BY DEF Units, Words, Unit
<1>3. data \in Seq(Units) /\ Len(data) = n
  BY DEF Data, Units
<1>4. \A i \in 1..n : data[i] = <<"data", i>>
  BY DEF Data
<1>5. /\ head[1] = Unit("command") /\ head[2] = Unit("ok")
      /\ head[3] = Unit("fname") /\ head[4] = <<"fsize", n>> /\ tail[1] = Unit("eol")
  OBVIOUS
<1>6. fileReply(n) = whole
  BY DEF fileReply
<1> HIDE DEF head, tail, data
<1>7. /\ front \in Seq(Units) /\ Len(front) = 4 + n
      /\ \A i \in 1..4 : front[i] = head[i]
      /\ \A i \in 1..n : front[4 + i] = data[i]
  <2>1. /\ front \in Seq(Units) /\ Len(front) = Len(head) + Len(data)
        /\ \A i \in 1..Len(head) : front[i] = head[i]
        /\ \A i \in 1..Len(data) : front[Len(head) + i] = data[i]
    <3>1. head \in Seq(Units) /\ data \in Seq(Units)
      BY <1>1, <1>3
    <3> QED
      BY <3>1, Joined
  <2> HIDE DEF front
  <2> QED
    BY <1>1, <1>3, <2>1
<1> HIDE DEF front
<1>8. /\ whole \in Seq(Units) /\ Len(whole) = 4 + n + 1
      /\ \A i \in 1..4 + n : whole[i] = front[i]
      /\ \A i \in 1..1 : whole[4 + n + i] = tail[i]
  <2>1. /\ whole \in Seq(Units) /\ Len(whole) = Len(front) + Len(tail)
        /\ \A i \in 1..Len(front) : whole[i] = front[i]
        /\ \A i \in 1..Len(tail) : whole[Len(front) + i] = tail[i]
    BY <1>2, <1>7, Joined
  <2> HIDE DEF whole
  <2> QED
    BY <1>2, <1>7, <2>1
<1> HIDE DEF whole
<1>9. whole[n + 5] = tail[1] /\ Len(whole) = n + 5
  <2>1. 1 \in 1..1 /\ 4 + n + 1 = n + 5
    OBVIOUS
  <2> QED
    BY <1>8, <2>1, Zenon
<1>10. whole[1] = head[1] /\ whole[2] = head[2] /\ whole[3] = head[3] /\ whole[4] = head[4]
  BY <1>7, <1>8
<1>11. ASSUME NEW i \in 1..n PROVE whole[4 + i] = <<"data", i>>
  BY <1>4, <1>7, <1>8
<1> QED
  BY <1>5, <1>6, <1>8, <1>9, <1>10, <1>11

LEMMA OtherReplies ==
    /\ refusal \in Seq(Units) /\ Len(refusal) = 3
    /\ refusal[1] = Unit("command") /\ refusal[2] = Unit("nok")
    /\ refusal[3] = Unit("eol")
    /\ unreadable \in Seq(Units) /\ Len(unreadable) = 1 /\ unreadable[1] = Unit("ERR")
BY DEF refusal, unreadable, Unit, Units, Words

LEMMA UnitsDiffer ==
    /\ \A v, w \in Words : Unit(v) = Unit(w) => v = w
    /\ \A w \in Words : \A i : Unit(w) # <<"data", i>> /\ Unit(w) # <<"fsize", i>>
BY DEF Unit

LEMMA Sizes ==
    /\ FileSizes \subseteq Nat /\ \A n \in FileSizes : n \in Nat /\ n # NoSize
    /\ Capacity \in Nat /\ Capacity >= 4 /\ Block \in Nat /\ Block > 0
    /\ MaxCommands \in Nat
BY TransferAssumption DEF NoSize

LEMMA Said ==
    ASSUME NEW n \in Nat, NEW k \in 4..n + 5
    PROVE  /\ said(n, k, 1) = Unit("command") /\ said(n, k, 2) = Unit("ok")
           /\ said(n, k, 3) = Unit("fname") /\ said(n, k, 4) = <<"fsize", n>>
           /\ \A i \in 1..n : 4 + i <= k => said(n, k, 4 + i) = <<"data", i>>
           /\ k = n + 5 => said(n, k, n + 5) = Unit("eol")
           /\ said(n, k, k + 1) = Unit("command") /\ said(n, k, k + 2) = Unit("nok")
           /\ said(n, k, k + 3) = Unit("eol")
<1>1. \A i \in Nat : i <= k => said(n, k, i) = fileReply(n)[i]
  BY DEF said
<1>2. \A i \in 1..3 : said(n, k, k + i) = refusal[i]
  <2> SUFFICES ASSUME NEW i \in 1..3 PROVE said(n, k, k + i) = refusal[i]
    OBVIOUS
  <2>1. ~(k + i <= k) /\ k + i - k = i
    OBVIOUS
  <2> QED
    BY <2>1 DEF said
<1> DEFINE whole == fileReply(n)
<1>3. /\ whole[1] = Unit("command") /\ whole[2] = Unit("ok")
      /\ whole[3] = Unit("fname") /\ whole[4] = <<"fsize", n>>
      /\ \A i \in 1..n : whole[4 + i] = <<"data", i>>
      /\ whole[n + 5] = Unit("eol")
  BY FileReply
<1>4. \A i \in Nat : i <= k => said(n, k, i) = whole[i]
  BY <1>1
<1> HIDE DEF said, whole
<1>5. /\ said(n, k, 1) = whole[1] /\ said(n, k, 2) = whole[2]
      /\ said(n, k, 3) = whole[3] /\ said(n, k, 4) = whole[4]
      /\ \A i \in 1..n : 4 + i <= k => said(n, k, 4 + i) = whole[4 + i]
      /\ k = n + 5 => said(n, k, n + 5) = whole[n + 5]
  BY <1>4
<1>6. /\ said(n, k, k + 1) = Unit("command") /\ said(n, k, k + 2) = Unit("nok")
      /\ said(n, k, k + 3) = Unit("eol")
  BY <1>2, OtherReplies
<1> QED
  BY <1>3, <1>5, <1>6

(* The player's connection while it reads.                                 *)
LEMMA Connected ==
    ASSUME Shape, phase \in Reading
    PROVE  /\ conn \in Connections /\ conn \in Nat /\ ~left[conn]
           /\ stream[conn] \in Seq(Units) /\ out[conn] \in Seq(Units)
           /\ Len(stream[conn]) \in Nat /\ Len(out[conn]) \in Nat
           /\ block \in Seq(Units) /\ Len(block) \in Nat
BY Sizes DEF Shape, Connections

LEMMA Taken ==
    ASSUME Shape, phase \in Reading, arrived, take
    PROVE  /\ unit = stream[conn][1] /\ unit \in Units /\ Len(stream[conn]) > 0
           /\ stream' \in [Connections -> Seq(Units)]
           /\ \A c \in Connections : c # conn => stream'[c] = stream[c]
           /\ Len(stream'[conn]) = Len(stream[conn]) - 1
           /\ \A i \in 1..Len(stream'[conn]) : stream'[conn][i] = stream[conn][i + 1]
<1>1. conn \in Connections /\ stream[conn] \in Seq(Units) /\ stream[conn] # <<>>
  BY Connected DEF arrived
<1>2. /\ Head(stream[conn]) = stream[conn][1] /\ Head(stream[conn]) \in Units
      /\ Tail(stream[conn]) \in Seq(Units) /\ Len(stream[conn]) > 0
      /\ Len(Tail(stream[conn])) = Len(stream[conn]) - 1
      /\ \A i \in 1..Len(Tail(stream[conn])) :
           Tail(stream[conn])[i] = stream[conn][i + 1]
  BY <1>1, HeadTailProperties, EmptySeq
<1>3. /\ stream' = [stream EXCEPT ![conn] = Tail(stream[conn])]
      /\ stream \in [Connections -> Seq(Units)]
  BY DEF take, Shape
<1>4. stream'[conn] = Tail(stream[conn])
  BY <1>1, <1>3
<1>5. /\ stream' \in [Connections -> Seq(Units)]
      /\ \A c \in Connections : c # conn => stream'[c] = stream[c]
  BY <1>1, <1>2, <1>3
<1> QED
  BY <1>2, <1>4, <1>5 DEF unit

(* Where the player stands in a reply with a file.                         *)
LEMMA Position ==
    ASSUME Shape, NEW n \in FileSizes, NEW k \in Nat, FileSent(n, k)
    PROVE  /\ position \in Nat /\ total \in Nat
           /\ total = position + Len(stream[conn])
           /\ phase = "command" => position = 0
           /\ phase = "status" => position = 1
           /\ phase = "fname" => position = 2
           /\ phase = "fsize" => position = 3
           /\ phase \in {"data", "newline"} =>
                Len(local) \in Nat /\ position = 4 + Len(local) + Len(block)
<1>1. phase \in Reading \ {"end"} /\ Received(n, k)
  BY DEF FileSent
<1>2. Len(stream[conn]) \in Nat /\ Len(block) \in Nat
  BY <1>1, Connected
<1>3. phase \in {"data", "newline"} => Len(local) \in Nat
  BY <1>1 DEF Received
<1>4. /\ phase = "command" => position = 0
      /\ phase = "status" => position = 1
      /\ phase = "fname" => position = 2
      /\ phase = "fsize" => position = 3
      /\ phase \in {"data", "newline"} => position = 4 + Len(local) + Len(block)
  BY DEF position
<1>5. position \in Nat
  BY <1>1, <1>2, <1>3, <1>4 DEF Reading
<1>6. total = position + Len(stream[conn])
  BY DEF total
<1>7. total \in Nat
  BY <1>2, <1>5, <1>6
<1> QED
  BY <1>3, <1>4, <1>5, <1>6, <1>7

(* A unit that the player takes leaves the reply what it was.              *)
LEMMA FileTaken ==
    ASSUME Shape, NEW n \in FileSizes, NEW k \in Nat, FileSent(n, k),
           arrived, take, UNCHANGED <<conn, sessionVars>>,
           position' = position + 1, phase' \in Reading \ {"end"}, Received(n, k)'
    PROVE  FileSent(n, k)'
<1>1. phase \in Reading
  BY DEF FileSent
<1>2. /\ conn' = conn /\ session' = session /\ sent' = sent /\ out' = out
  BY DEF sessionVars
<1>3. /\ Len(stream[conn]) \in Nat /\ Len(stream'[conn]) = Len(stream[conn]) - 1
      /\ \A i \in 1..Len(stream'[conn]) : stream'[conn][i] = stream[conn][i + 1]
  BY <1>1, Connected, Taken
<1>4. position \in Nat /\ total = position + Len(stream[conn])
  BY Position
<1>5. total' = position' + Len(stream'[conn])
  BY <1>2 DEF total
<1>6. total' = total
  <2> DEFINE here == Len(stream[conn])
             there == Len(stream'[conn])
             before == position
             after == position'
  <2>1. here \in Nat /\ there = here - 1 /\ before \in Nat /\ after = before + 1
    BY <1>3, <1>4
  <2>2. total = before + here /\ total' = after + there
    BY <1>4, <1>5
  <2> HIDE DEF here, there, before, after
  <2> QED
    BY <2>1, <2>2
<1>7. Unwritten(n, k)'
  <2>1. Unwritten(n, k)
    BY DEF FileSent
  <2> QED
    BY <1>2, <1>6, <2>1 DEF Unwritten
<1>8. ASSUME NEW i \in 1..Len(stream'[conn])
      PROVE  stream'[conn][i] = said(n, k, position' + i)
  <2>1. i + 1 \in 1..Len(stream[conn]) /\ position + (i + 1) = position' + i
    BY <1>3, <1>4
  <2>2. stream[conn][i + 1] = said(n, k, position + (i + 1))
    BY <2>1 DEF FileSent
  <2> QED
    BY <1>3, <2>1, <2>2
<1>9. sent[conn] = n /\ k \in 4..n + 5 /\ total <= k + 3
  BY DEF FileSent
<1> QED
  BY <1>2, <1>6, <1>7, <1>8, <1>9 DEF FileSent

LEMMA RefusalTaken ==
    ASSUME Shape, RefusalSent, arrived, take, UNCHANGED <<conn, sessionVars>>,
           position' = position + 1, phase' \in {"status", "end"}
    PROVE  RefusalSent'
<1>1. phase \in Reading /\ position \in 0..2
  BY DEF RefusalSent, Reading, position
<1>2. /\ conn' = conn /\ session' = session /\ sent' = sent /\ out' = out
  BY DEF sessionVars
<1>3. /\ Len(stream[conn]) \in Nat /\ Len(stream'[conn]) = Len(stream[conn]) - 1
      /\ \A i \in 1..Len(stream'[conn]) : stream'[conn][i] = stream[conn][i + 1]
  BY <1>1, Connected, Taken
<1>4. total' = total
  <2> DEFINE here == Len(stream[conn])
             there == Len(stream'[conn])
             before == position
             after == position'
  <2>1. here \in Nat /\ there = here - 1 /\ before \in Nat /\ after = before + 1
    BY <1>1, <1>3
  <2>2. total = before + here /\ total' = after + there
    BY <1>2 DEF total
  <2> HIDE DEF here, there, before, after
  <2> QED
    BY <2>1, <2>2
<1>5. ASSUME NEW i \in 1..Len(stream'[conn])
      PROVE  stream'[conn][i] = refusal[position' + i]
  <2>1. i + 1 \in 1..Len(stream[conn]) /\ position + (i + 1) = position' + i
    BY <1>1, <1>3
  <2>2. stream[conn][i + 1] = refusal[position + (i + 1)]
    BY <2>1 DEF RefusalSent
  <2> QED
    BY <1>3, <2>1, <2>2
<1>6. /\ total' + Len(out'[conn']) <= 3 /\ session'[conn'] # "failing"
      /\ \A i \in 1..Len(out'[conn']) : out'[conn'][i] = refusal[total' + i]
  BY <1>2, <1>4 DEF RefusalSent
<1> QED
  BY <1>2, <1>5, <1>6 DEF RefusalSent

(* What the player reads next is said at its position.                     *)
LEMMA FileUnit ==
    ASSUME Shape, NEW n \in FileSizes, NEW k \in Nat, FileSent(n, k), arrived
    PROVE  unit = said(n, k, position + 1) /\ Len(stream[conn]) > 0
<1>1. phase \in Reading
  BY DEF FileSent
<1>2. stream[conn] \in Seq(Units) /\ stream[conn] # <<>>
  BY <1>1, Connected DEF arrived
<1>3. Head(stream[conn]) = stream[conn][1] /\ Len(stream[conn]) > 0
  BY <1>2, HeadTailProperties, EmptySeq
<1>4. stream[conn][1] = said(n, k, position + 1)
  BY <1>3 DEF FileSent
<1> QED
  BY <1>3, <1>4 DEF unit

LEMMA RefusalUnit ==
    ASSUME Shape, RefusalSent, arrived
    PROVE  /\ unit = refusal[position + 1]
           /\ phase = "command" => unit = Unit("command")
           /\ phase = "status" => unit = Unit("nok")
           /\ phase = "end" => unit = Unit("eol")
<1>1. phase \in Reading /\ phase \in {"command", "status", "end"}
  BY DEF RefusalSent, Reading
<1>2. stream[conn] \in Seq(Units) /\ stream[conn] # <<>>
  BY <1>1, Connected DEF arrived
<1>3. Head(stream[conn]) = stream[conn][1] /\ Len(stream[conn]) > 0
  BY <1>2, HeadTailProperties, EmptySeq
<1>4. unit = refusal[position + 1]
  BY <1>3 DEF RefusalSent, unit
<1> QED
  BY <1>1, <1>4, OtherReplies DEF position

LEMMA UnreadableUnit ==
    ASSUME Shape, UnreadableSent, arrived
    PROVE  unit = Unit("ERR")
<1>1. phase \in Reading
  BY DEF UnreadableSent, Reading
<1>2. stream[conn] \in Seq(Units) /\ stream[conn] # <<>>
  BY <1>1, Connected DEF arrived
<1>3. Head(stream[conn]) = stream[conn][1] /\ Len(stream[conn]) > 0
  BY <1>2, HeadTailProperties, EmptySeq
<1> QED
  BY <1>3 DEF UnreadableSent, unit

-----------------------------------------------------------------------------
(* The player's steps.                                                     *)

LEMMA Answered ==
    ASSUME Shape, StreamInv, arrived
    PROVE  /\ phase \in Reading /\ session[conn] \in {"replying", "failing", "ended"}
           /\ \/ \E n \in FileSizes, k \in Nat : FileSent(n, k)
              \/ RefusalSent
              \/ UnreadableSent
<1>1. phase \in Reading
  BY DEF Shape, arrived, Phases, Reading
<1>2. stream[conn] # <<>>
  BY DEF arrived
<1> QED
  BY <1>1, <1>2 DEF StreamInv

LEMMA AtPrompt ==
    ASSUME phase' \in {"prompt", "gone"}
    PROVE  StreamInv'
BY DEF StreamInv, Reading

LEMMA CommandRead ==
    ASSUME Shape, StreamInv, ReadCommand
    PROVE  StreamInv'
<1>1. CASE finish("ECOMMS_TCP")
  BY <1>1, AtPrompt DEF finish
<1>2. CASE unit = Unit("command") /\ phase' = "status" /\ take /\ UNCHANGED <<result, block>>
  <2>1. /\ arrived /\ phase = "command"
        /\ UNCHANGED <<conn, sessionVars>> /\ fsize' = fsize /\ block' = block
        /\ session' = session
    BY <1>2 DEF ReadCommand, sessionVars
  <2>2. position = 0 /\ position' = 1
    BY <1>2, <2>1 DEF position
  <2>3. session[conn] # "none" /\ fsize = 0 /\ block = <<>>
    BY <2>1 DEF StreamInv, Reading
  <2>4. ASSUME NEW n \in FileSizes, NEW k \in Nat, FileSent(n, k) PROVE FileSent(n, k)'
    <3>1. Received(n, k)' /\ phase' \in Reading \ {"end"}
      BY <1>2 DEF Received, Reading
    <3> QED
      BY <1>2, <2>1, <2>2, <2>4, <3>1, FileTaken
  <2>5. RefusalSent => RefusalSent'
    BY <1>2, <2>1, <2>2, RefusalTaken
  <2>6. ~UnreadableSent
    BY <1>2, <2>1, UnreadableUnit, UnitsDiffer DEF Words
  <2> QED
    BY <1>2, <2>1, <2>3, <2>4, <2>5, <2>6, Answered DEF StreamInv
<1> QED
  BY <1>1, <1>2 DEF ReadCommand

LEMMA StatusRead ==
    ASSUME Shape, StreamInv, ReadStatus
    PROVE  StreamInv'
<1>1. CASE finish("EDESERIALIZE")
  BY <1>1, AtPrompt DEF finish
<1>2. CASE /\ phase' = IF unit = Unit("ok") THEN "fname" ELSE "end"
           /\ take /\ UNCHANGED <<block, result>>
  <2>1. /\ arrived /\ phase = "status"
        /\ UNCHANGED <<conn, sessionVars>> /\ fsize' = fsize /\ block' = block
        /\ session' = session
    BY <1>2 DEF ReadStatus, sessionVars
  <2>2. position = 1 /\ position' = 2
    BY <1>2, <2>1 DEF position
  <2>3. session[conn] # "none" /\ fsize = 0 /\ block = <<>>
    BY <2>1 DEF StreamInv, Reading
  <2>4. ASSUME NEW n \in FileSizes, NEW k \in Nat, FileSent(n, k) PROVE FileSent(n, k)'
    <3>1. k \in 4..n + 5 /\ n \in Nat
      BY <2>4, Sizes DEF FileSent
    <3>2. unit = Unit("ok")
      BY <2>1, <2>2, <2>4, <3>1, FileUnit, Said
    <3>3. Received(n, k)' /\ phase' \in Reading \ {"end"}
      BY <1>2, <3>2 DEF Received, Reading
    <3> QED
      BY <1>2, <2>1, <2>2, <2>4, <3>3, FileTaken
  <2>5. ASSUME RefusalSent PROVE RefusalSent'
    <3>1. unit = Unit("nok")
      BY <2>1, <2>5, RefusalUnit
    <3>2. phase' = "end"
      BY <1>2, <3>1, UnitsDiffer DEF Words
    <3> QED
      BY <1>2, <2>1, <2>2, <2>5, <3>2, RefusalTaken
  <2>6. ~UnreadableSent
    BY <2>1 DEF UnreadableSent
  <2>7. phase' \notin {"data", "newline"}
    BY <1>2
  <2> QED
    BY <1>2, <2>1, <2>3, <2>4, <2>5, <2>6, <2>7, Answered DEF StreamInv
<1> QED
  BY <1>1, <1>2 DEF ReadStatus

LEMMA NameRead ==
    ASSUME Shape, StreamInv, ReadName
    PROVE  StreamInv'
<1>1. /\ arrived /\ phase = "fname" /\ phase' = "fsize" /\ take
      /\ UNCHANGED <<conn, sessionVars>> /\ fsize' = fsize /\ block' = block
      /\ session' = session
  BY DEF ReadName, sessionVars
<1>2. position = 2 /\ position' = 3
  BY <1>1 DEF position
<1>3. session[conn] # "none" /\ fsize = 0 /\ block = <<>>
  BY <1>1 DEF StreamInv, Reading
<1>4. ASSUME NEW n \in FileSizes, NEW k \in Nat, FileSent(n, k) PROVE FileSent(n, k)'
  <2>1. Received(n, k)' /\ phase' \in Reading \ {"end"}
    BY <1>1 DEF Received, Reading
  <2> QED
    BY <1>1, <1>2, <1>4, <2>1, FileTaken
<1>5. ~RefusalSent /\ ~UnreadableSent
  BY <1>1 DEF RefusalSent, UnreadableSent
<1> QED
  BY <1>1, <1>3, <1>4, <1>5, Answered DEF StreamInv

LEMMA SizeRead ==
    ASSUME Shape, StreamInv, ReadSize
    PROVE  StreamInv' /\ fsize' \in FileSizes
<1>1. /\ arrived /\ phase = "fsize" /\ take /\ fsize' = unit[2] /\ local' = <<>>
      /\ phase' = IF fsize' = 0 THEN "newline" ELSE "data"
      /\ UNCHANGED <<conn, sessionVars>> /\ block' = block /\ session' = session
  BY DEF ReadSize, sessionVars
<1>2. session[conn] # "none" /\ block = <<>>
  BY <1>1 DEF StreamInv, Reading
<1>3. ~RefusalSent /\ ~UnreadableSent
  BY <1>1 DEF RefusalSent, UnreadableSent
<1>4. ASSUME NEW n \in FileSizes, NEW k \in Nat, FileSent(n, k)
      PROVE  FileSent(n, k)' /\ fsize' = n
  <2>1. k \in 4..n + 5 /\ n \in Nat
    BY <1>4, Sizes DEF FileSent
  <2>2. position = 3
    BY <1>1 DEF position
  <2>3. unit = <<"fsize", n>>
    BY <1>1, <1>4, <2>1, <2>2, FileUnit, Said
  <2>4. fsize' = n
    BY <1>1, <2>3
  <2>5. Len(local') = 0 /\ Len(block') = 0 /\ local' \in Seq(Units)
    BY <1>1, <1>2
  <2>6. position' = 4
    BY <1>1, <2>5 DEF position
  <2>7. n # 0 => 0 < wanted'
    <3>1. wanted' = Min({Block, n - 0})
      BY <2>4, <2>5 DEF wanted
    <3>2. Min({Block, n - 0}) = IF Block <= n THEN Block ELSE n
      BY <2>1, MinOfTwo, Sizes
    <3> QED
      BY <2>1, <3>1, <3>2, Sizes
  <2>8. Received(n, k)'
    BY <1>1, <1>2, <2>1, <2>4, <2>5, <2>7 DEF Received
  <2>9. phase' \in Reading \ {"end"}
    BY <1>1 DEF Reading
  <2> QED
    BY <1>1, <1>4, <2>2, <2>4, <2>6, <2>8, <2>9, FileTaken
<1>5. PICK n \in FileSizes, k \in Nat : FileSent(n, k)
  BY <1>1, <1>3, Answered
<1>6. phase' \in {"data", "newline"}
  BY <1>1
<1> QED
  BY <1>1, <1>2, <1>4, <1>5, <1>6, Answered DEF StreamInv

(* What is wanted of a block, and what comes.                              *)
LEMMA Wanted ==
    ASSUME Shape, NEW n \in FileSizes, NEW k \in Nat, FileSent(n, k), phase = "data"
    PROVE  /\ wanted \in Nat /\ wanted <= Block /\ wanted <= n - Len(local)
           /\ Len(block) < wanted /\ fsize = n /\ Len(local) < n
           /\ local \in Seq(Units) /\ Len(local) \in Nat /\ Len(block) \in Nat
           /\ \A i \in 1..Len(local) : local[i] = said(n, k, 4 + i)
           /\ \A i \in 1..Len(block) : block[i] = said(n, k, 4 + Len(local) + i)
<1>1. /\ fsize = n /\ Len(local) < n /\ Len(block) < wanted /\ local \in Seq(Units)
      /\ \A i \in 1..Len(local) : local[i] = said(n, k, 4 + i)
      /\ \A i \in 1..Len(block) : block[i] = said(n, k, 4 + Len(local) + i)
  BY DEF FileSent, Received
<1>2. Len(local) \in Nat /\ n \in Nat
  BY <1>1, Sizes
<1>3. Len(block) \in Nat
  BY DEF Shape
<1>4. wanted = IF Block <= n - Len(local) THEN Block ELSE n - Len(local)
  <2> DEFINE rest == n - Len(local)
  <2>1. rest \in Int /\ Block \in Int
    BY <1>2, Sizes
  <2>2. wanted = Min({Block, rest})
    BY <1>1 DEF wanted
  <2> HIDE DEF rest
  <2>3. wanted = IF Block <= rest THEN Block ELSE rest
    BY <2>1, <2>2, MinOfTwo
  <2> QED
    BY <2>3 DEF rest
<1>5. wanted \in Nat /\ wanted <= Block /\ wanted <= n - Len(local)
  BY <1>1, <1>2, <1>4, Sizes
<1> QED
  BY <1>1, <1>2, <1>3, <1>5

LEMMA DataRead ==
    ASSUME Shape, StreamInv, ReadData
    PROVE  StreamInv' /\ block' \in Seq(Units) /\ Len(block') < Block
<1> DEFINE got == Append(block, unit)
<1>1. /\ arrived /\ phase = "data" /\ take /\ fsize' = fsize
      /\ UNCHANGED <<conn, sessionVars>> /\ session' = session
      /\ \/ /\ Len(got) < wanted
            /\ block' = got
            /\ UNCHANGED <<phase, local>>
         \/ /\ Len(got) >= wanted
            /\ block' = <<>>
            /\ local' = local \o got
            /\ phase' = IF complete(local') THEN "newline" ELSE "data"
  BY DEF ReadData, sessionVars
<1>2. session[conn] # "none" /\ phase \in Reading
  BY <1>1 DEF StreamInv, Reading
<1>3. ~RefusalSent /\ ~UnreadableSent
  BY <1>1 DEF RefusalSent, UnreadableSent
<1>4. PICK n \in FileSizes, k \in Nat : FileSent(n, k)
  BY <1>1, <1>3, Answered
<1>5. /\ wanted \in Nat /\ wanted <= Block /\ wanted <= n - Len(local)
      /\ Len(block) < wanted /\ fsize = n /\ Len(local) < n
      /\ local \in Seq(Units) /\ Len(local) \in Nat /\ Len(block) \in Nat
      /\ \A i \in 1..Len(local) : local[i] = said(n, k, 4 + i)
      /\ \A i \in 1..Len(block) : block[i] = said(n, k, 4 + Len(local) + i)
  BY <1>1, <1>4, Wanted
<1>6. n \in Nat /\ k \in Nat /\ Block \in Nat /\ Block > 0
  BY Sizes
<1>7. position = 4 + Len(local) + Len(block)
  BY <1>1 DEF position
<1>8. unit = said(n, k, 4 + Len(local) + (Len(block) + 1)) /\ unit \in Units
  <2>1. position + 1 = 4 + Len(local) + (Len(block) + 1)
    BY <1>5, <1>7
  <2>2. unit = said(n, k, position + 1)
    BY <1>1, <1>4, FileUnit
  <2> QED
    BY <1>1, <1>2, <2>1, <2>2, Taken
<1>9. /\ got \in Seq(Units) /\ Len(got) = Len(block) + 1
      /\ \A i \in 1..Len(block) : got[i] = block[i]
      /\ got[Len(block) + 1] = unit
  <2>1. block \in Seq(Units) /\ unit \in Units
    BY <1>8 DEF Shape
  <2> QED
    BY <2>1, AppendProperties
<1> HIDE DEF got
<1>10. \A i \in 1..Len(got) : got[i] = said(n, k, 4 + Len(local) + i)
  <2> SUFFICES ASSUME NEW i \in 1..Len(got) PROVE got[i] = said(n, k, 4 + Len(local) + i)
    OBVIOUS
  <2>1. CASE i = Len(block) + 1
    BY <1>8, <1>9, <2>1
  <2>2. CASE i # Len(block) + 1
    <3>1. i \in 1..Len(block)
      BY <1>5, <1>9, <2>2
    <3> QED
      BY <1>5, <1>9, <3>1
  <2> QED
    BY <2>1, <2>2
<1>11. CASE /\ Len(got) < wanted /\ block' = got
            /\ UNCHANGED <<phase, local>>
  <2>1. wanted' = wanted
    BY <1>1, <1>11 DEF wanted
  <2>2. position' = position + 1
    <3>1. position' = 4 + Len(local) + Len(got)
      BY <1>1, <1>11 DEF position
    <3> QED
      BY <1>5, <1>7, <1>9, <3>1
  <2>3. Received(n, k)'
    <3>1. phase' = "data" /\ fsize' = n /\ local' = local /\ block' = got
      BY <1>1, <1>5, <1>11
    <3>2. Len(local) <= n /\ Len(got) < wanted'
      BY <1>5, <1>6, <1>11, <2>1
    <3> QED
      BY <1>5, <1>10, <3>1, <3>2 DEF Received
  <2>4. phase' \in Reading \ {"end"}
    BY <1>1, <1>11 DEF Reading
  <2>5. FileSent(n, k)'
    BY <1>1, <1>4, <2>2, <2>3, <2>4, FileTaken
  <2>6. block' \in Seq(Units) /\ Len(block') < Block
    BY <1>5, <1>6, <1>9, <1>11
  <2> QED
    BY <1>1, <1>2, <1>11, <2>5, <2>6, Answered DEF StreamInv
<1>12. CASE /\ Len(got) >= wanted /\ block' = <<>>
            /\ local' = local \o got
            /\ phase' = IF complete(local') THEN "newline" ELSE "data"
  <2>1. /\ local' \in Seq(Units) /\ Len(local') = Len(local) + Len(got)
        /\ \A i \in 1..Len(local) : local'[i] = local[i]
        /\ \A i \in 1..Len(got) : local'[Len(local) + i] = got[i]
    <3>1. local \in Seq(Units) /\ got \in Seq(Units) /\ local' = local \o got
      BY <1>5, <1>9, <1>12
    <3>2. /\ local \o got \in Seq(Units) /\ Len(local \o got) = Len(local) + Len(got)
          /\ \A i \in 1..Len(local) : (local \o got)[i] = local[i]
          /\ \A i \in 1..Len(got) : (local \o got)[Len(local) + i] = got[i]
      BY <3>1, Joined
    <3> QED
      BY <3>1, <3>2
  <2>2. Len(got) = wanted
    BY <1>5, <1>9, <1>12
  <2>3. Len(local') <= n /\ Len(local') \in Nat /\ Len(block') = 0
    BY <1>5, <1>6, <1>12, <2>1, <2>2
  <2>4. position' = position + 1
    <3>1. phase' \in {"data", "newline"}
      BY <1>12
    <3>2. position' = 4 + Len(local') + Len(block')
      BY <3>1 DEF position
    <3> QED
      BY <1>5, <1>7, <1>9, <2>1, <2>3, <3>2
  <2>5. \A i \in 1..Len(local') : local'[i] = said(n, k, 4 + i)
    <3> SUFFICES ASSUME NEW i \in 1..Len(local') PROVE local'[i] = said(n, k, 4 + i)
      OBVIOUS
    <3>1. CASE i <= Len(local)
      BY <1>5, <2>1, <2>3, <3>1
    <3>2. CASE i > Len(local)
      <4> DEFINE j == i - Len(local)
      <4>1. j \in 1..Len(got) /\ Len(local) + j = i /\ 4 + Len(local) + j = 4 + i
        BY <1>5, <1>9, <2>1, <2>3, <3>2
      <4> HIDE DEF j
      <4>2. local'[Len(local) + j] = said(n, k, 4 + Len(local) + j)
        BY <1>10, <2>1, <4>1
      <4> QED
        BY <4>1, <4>2
    <3> QED
      BY <1>5, <2>3, <3>1, <3>2
  <2>6. phase' = "data" => Len(local') < n
    BY <1>1, <1>5, <1>6, <1>12, <2>3 DEF complete
  <2>7. phase' = "newline" => Len(local') = n
    <3> SUFFICES ASSUME phase' = "newline" PROVE Len(local') = n
      OBVIOUS
    <3>1. complete(local')
      BY <1>12
    <3>2. Len(local') >= n
      BY <1>1, <1>5, <3>1 DEF complete
    <3> QED
      BY <1>6, <2>3, <3>2
  <2>8. phase' = "data" => Len(block') < wanted'
    <3> SUFFICES ASSUME phase' = "data" PROVE Len(block') < wanted'
      OBVIOUS
    <3>1. wanted' = Min({Block, n - Len(local')})
      <4>1. fsize' = n
        BY <1>1, <1>5
      <4> QED
        BY <4>1 DEF wanted
    <3> DEFINE rest == n - Len(local')
    <3>2. rest \in Int /\ Block \in Int /\ rest > 0 /\ wanted' = Min({Block, rest})
      BY <1>6, <2>3, <2>6, <3>1
    <3> HIDE DEF rest
    <3>3. wanted' = IF Block <= rest THEN Block ELSE rest
      BY <3>2, MinOfTwo
    <3> QED
      BY <1>6, <2>3, <3>2, <3>3
  <2>9. Received(n, k)'
    BY <1>1, <1>5, <1>12, <2>1, <2>3, <2>5, <2>6, <2>7, <2>8 DEF Received
  <2>10. phase' \in Reading \ {"end"} /\ phase' \in {"data", "newline"}
    BY <1>12 DEF Reading
  <2>11. FileSent(n, k)'
    BY <1>1, <1>4, <2>4, <2>9, <2>10, FileTaken
  <2>12. block' \in Seq(Units) /\ Len(block') < Block
    BY <1>6, <1>12
  <2> QED
    BY <1>1, <1>2, <2>10, <2>11, <2>12, Answered DEF StreamInv
<1> QED
  BY <1>1, <1>11, <1>12

(* The two files that are kept, unit by unit.                              *)
LEMMA Contents ==
    ASSUME NEW n \in Nat
    PROVE  /\ Data(n) \in Seq(Units) /\ Len(Data(n)) = n
           /\ \A i \in 1..n : Data(n)[i] = <<"data", i>>
           /\ n >= 2 =>
                /\ spliced(n) \in Seq(Units) /\ Len(spliced(n)) = n
                /\ \A i \in 1..n - 2 : spliced(n)[i] = <<"data", i>>
                /\ spliced(n)[n - 1] = Unit("command") /\ spliced(n)[n] = Unit("nok")
<1>1. \A m \in Nat : /\ Data(m) \in Seq(Units) /\ Len(Data(m)) = m
                     /\ \A i \in 1..m : Data(m)[i] = <<"data", i>>
  BY DEF Data, Units
<1>2. ASSUME n >= 2
      PROVE  /\ spliced(n) \in Seq(Units) /\ Len(spliced(n)) = n
             /\ \A i \in 1..n - 2 : spliced(n)[i] = <<"data", i>>
             /\ spliced(n)[n - 1] = Unit("command") /\ spliced(n)[n] = Unit("nok")
  <2> DEFINE front == Data(n - 2)
             words == <<Unit("command"), Unit("nok")>>
             whole == front \o words
  <2>1. n - 2 \in Nat
    BY <1>2
  <2>2. /\ front \in Seq(Units) /\ Len(front) = n - 2
        /\ \A i \in 1..n - 2 : front[i] = <<"data", i>>
    BY <1>1, <2>1
  <2>3. words \in Seq(Units) /\ Len(words) = 2
    BY DEF Units, Words, Unit
  <2>4. words[1] = Unit("command") /\ words[2] = Unit("nok")
    OBVIOUS
  <2>5. spliced(n) = whole
    BY DEF spliced
  <2> HIDE DEF front, words
  <2>6. /\ whole \in Seq(Units) /\ Len(whole) = Len(front) + Len(words)
        /\ \A i \in 1..Len(front) : whole[i] = front[i]
        /\ \A i \in 1..Len(words) : whole[Len(front) + i] = words[i]
    <3>1. front \in Seq(Units) /\ words \in Seq(Units)
      BY <2>2, <2>3
    <3> QED
      BY <3>1, Joined
  <2> HIDE DEF whole
  <2>7. whole \in Seq(Units) /\ Len(whole) = n
    BY <2>2, <2>3, <2>6
  <2>8. \A i \in 1..n - 2 : whole[i] = <<"data", i>>
    BY <2>2, <2>6
  <2>9. whole[n - 1] = words[1] /\ whole[n] = words[2]
    <3>1. n - 1 = Len(front) + 1 /\ n = Len(front) + 2 /\ {1, 2} \subseteq 1..Len(words)
      BY <2>2, <2>3
    <3> QED
      BY <2>6, <3>1
  <2> QED
    BY <2>4, <2>5, <2>7, <2>8, <2>9
<1> QED
  BY <1>1, <1>2

LEMMA Alike ==
    ASSUME NEW s \in Seq(Units), NEW t \in Seq(Units), Len(s) = Len(t),
           \A i \in 1..Len(s) : s[i] = t[i]
    PROVE  s = t
OBVIOUS

(* The newline after the file: of the reply, or of a refusal that began    *)
(* two units before its end.                                               *)
LEMMA WholeFile ==
    ASSUME Shape, NEW n \in FileSizes, NEW k \in Nat, FileSent(n, k),
           phase = "newline", arrived, unit = Unit("eol")
    PROVE  /\ fsize = n /\ Len(local) = n /\ sent[conn] = n
           /\ local = Data(n) \/ (n >= 2 /\ local = spliced(n))
<1>1. /\ fsize = n /\ Len(local) = n /\ local \in Seq(Units) /\ block = <<>>
      /\ \A i \in 1..Len(local) : local[i] = said(n, k, 4 + i)
      /\ sent[conn] = n /\ k \in 4..n + 5 /\ total <= k + 3
  BY DEF FileSent, Received
<1>2. n \in Nat /\ k \in Nat
  BY Sizes
<1>3. position = n + 4
  BY <1>1, <1>2 DEF position
<1>4. unit = said(n, k, n + 5) /\ Len(stream[conn]) > 0
  BY <1>2, <1>3, FileUnit
<1>5. k >= n + 2
  <2>1. total = n + 4 + Len(stream[conn])
    BY <1>3 DEF total
  <2>2. Len(stream[conn]) \in Nat
    BY Connected DEF FileSent
  <2> DEFINE here == Len(stream[conn])
             sum == total
  <2>3. here \in Nat /\ here > 0 /\ sum = n + 4 + here /\ sum <= k + 3
    BY <1>1, <1>4, <2>1, <2>2
  <2> HIDE DEF here, sum
  <2> QED
    BY <1>2, <2>3
<1>6. /\ \A i \in 1..n : 4 + i <= k => said(n, k, 4 + i) = <<"data", i>>
      /\ said(n, k, k + 1) = Unit("command") /\ said(n, k, k + 2) = Unit("nok")
  BY <1>1, <1>2, Said
<1>7. k # n + 4 /\ k # n + 3
  <2>1. k = n + 4 => k + 1 = n + 5
    BY <1>2
  <2>2. k = n + 3 => k + 2 = n + 5
    BY <1>2
  <2> QED
    BY <1>4, <1>6, <2>1, <2>2, UnitsDiffer DEF Words
<1>8. CASE k = n + 5
  <2>1. \A i \in 1..n : local[i] = <<"data", i>>
    BY <1>1, <1>2, <1>6, <1>8
  <2> DEFINE data == Data(n)
  <2>2. data \in Seq(Units) /\ Len(data) = n /\ \A i \in 1..n : data[i] = <<"data", i>>
    BY <1>2, Contents
  <2> HIDE DEF data
  <2>3. local = data
    BY <1>1, <2>1, <2>2, Alike
  <2> QED
    BY <1>1, <2>3 DEF data
<1>9. CASE k = n + 2
  <2>1. n >= 2
    BY <1>1, <1>2, <1>9
  <2>2. \A i \in 1..n - 2 : local[i] = <<"data", i>>
    BY <1>1, <1>2, <1>6, <1>9
  <2>3. local[n - 1] = Unit("command") /\ local[n] = Unit("nok")
    <3>1. 4 + (n - 1) = k + 1 /\ 4 + n = k + 2 /\ n - 1 \in 1..n /\ n \in 1..n
      BY <1>2, <1>9, <2>1
    <3> QED
      BY <1>1, <1>6, <3>1
  <2>4. /\ spliced(n) \in Seq(Units) /\ Len(spliced(n)) = n
        /\ \A i \in 1..n - 2 : spliced(n)[i] = <<"data", i>>
        /\ spliced(n)[n - 1] = Unit("command") /\ spliced(n)[n] = Unit("nok")
    BY <1>2, <2>1, Contents
  <2>5. \A i \in 1..n : i \in 1..n - 2 \/ i = n - 1 \/ i = n
    BY <1>2, <2>1
  <2>6. \A i \in 1..n : local[i] = spliced(n)[i]
    BY <2>2, <2>3, <2>4, <2>5
  <2>7. local = spliced(n)
    BY <1>1, <2>4, <2>6, Alike
  <2> QED
    BY <1>1, <2>1, <2>7
<1> QED
  BY <1>1, <1>2, <1>5, <1>7, <1>8, <1>9

LEMMA KeptUntold ==
    ASSUME phase' # "prompt" \/ result' \in {"none", "without file"}
    PROVE  Kept'
BY DEF Kept, StoredInv, StoredFileIsWhole, FailureLeavesNoFile

LEMMA KeptFailure ==
    ASSUME result' \in {"ECOMMS_TCP", "EDESERIALIZE"},
           local' = NoFile \/ fsize' = 0 \/ Len(local') < fsize'
    PROVE  Kept'
BY DEF Kept, StoredInv, StoredFileIsWhole, FailureLeavesNoFile

(* No size is announced before it is read.                                 *)
LEMMA Unannounced ==
    ASSUME StreamInv, phase \in {"command", "status", "end", "fname", "fsize"}
    PROVE  fsize = 0 /\ block = <<>>
BY DEF StreamInv, Reading

LEMMA NewlineRead ==
    ASSUME Shape, StreamInv, ReadNewline
    PROVE  StreamInv' /\ Kept'
<1>1. /\ arrived /\ phase = "newline" /\ fsize' = fsize /\ conn' = conn
      /\ sent' = sent /\ session' = session
  BY DEF ReadNewline, sessionVars
<1>2. CASE unit = Unit("eol") /\ finish("file") /\ UNCHANGED local
  <2>1. phase' = "prompt" /\ result' = "file" /\ local' = local
    BY <1>2 DEF finish
  <2>2. ~RefusalSent /\ ~UnreadableSent
    BY <1>1 DEF RefusalSent, UnreadableSent
  <2>3. PICK n \in FileSizes, k \in Nat : FileSent(n, k)
    BY <1>1, <2>2, Answered
  <2>4. /\ fsize = n /\ Len(local) = n /\ sent[conn] = n
        /\ local = Data(n) \/ (n >= 2 /\ local = spliced(n))
    BY <1>1, <1>2, <2>3, WholeFile
  <2>5. StoredFileIsWhole'
    BY <1>1, <2>1, <2>4 DEF StoredFileIsWhole
  <2>6. StoredInv'
    BY <1>1, Answered, Connected DEF StoredInv, Shape
  <2>7. FailureLeavesNoFile'
    BY <2>1 DEF FailureLeavesNoFile
  <2> QED
    BY <2>1, <2>5, <2>6, <2>7, AtPrompt DEF Kept
<1>3. CASE finish("EDESERIALIZE") /\ discard
  BY <1>3, AtPrompt, KeptFailure DEF finish, discard
<1> QED
  BY <1>2, <1>3 DEF ReadNewline

LEMMA Failed ==
    ASSUME Shape, StreamInv, ReadFails
    PROVE  StreamInv' /\ Kept'
<1>1. /\ phase \in Reading /\ fsize' = fsize
      /\ phase' = "prompt" /\ result' \in {"ECOMMS_TCP", "EDESERIALIZE"}
  BY DEF ReadFails, finish, Shape, Phases, Reading
<1>2. CASE phase = "newline"
  <2>1. local' = NoFile
    BY <1>2 DEF ReadFails, discard
  <2> QED
    BY <1>1, <2>1, AtPrompt, KeptFailure
<1>3. CASE phase = "data"
  <2>1. local' = local
    BY <1>3 DEF ReadFails
  <2>2. Len(local) < fsize
    <3>1. \E n \in FileSizes, k \in Nat : FileSent(n, k)
      BY <1>1, <1>3 DEF StreamInv, RefusalSent, UnreadableSent
    <3> QED
      BY <1>3, <3>1 DEF FileSent, Received
  <2> QED
    BY <1>1, <2>1, <2>2, AtPrompt, KeptFailure
<1>4. CASE phase \in {"command", "status", "end", "fname", "fsize"}
  <2>1. fsize' = 0
    BY <1>1, <1>4, Unannounced
  <2> QED
    BY <1>1, <2>1, AtPrompt, KeptFailure
<1> QED
  BY <1>1, <1>2, <1>3, <1>4 DEF Reading

LEMMA PlayerStep ==
    ASSUME Shape, StreamInv, PlayerReads
    PROVE  StreamInv' /\ Kept'
<1>1. CASE ReadCommand
  <2>1. CASE phase' = "status"
    BY <1>1, <2>1, CommandRead, KeptUntold
  <2>2. CASE finish("ECOMMS_TCP")
    <3>1. fsize' = 0 /\ result' = "ECOMMS_TCP"
      BY <1>1, <2>2, Unannounced DEF ReadCommand, finish
    <3> QED
      BY <1>1, <3>1, CommandRead, KeptFailure
  <2> QED
    BY <1>1, <2>1, <2>2 DEF ReadCommand
<1>2. CASE ReadStatus
  <2>1. CASE phase' \in {"fname", "end"}
    BY <1>2, <2>1, StatusRead, KeptUntold
  <2>2. CASE finish("EDESERIALIZE")
    <3>1. fsize' = 0 /\ result' = "EDESERIALIZE"
      BY <1>2, <2>2, Unannounced DEF ReadStatus, finish
    <3> QED
      BY <1>2, <3>1, StatusRead, KeptFailure
  <2>3. phase' \in {"fname", "end"} \/ finish("EDESERIALIZE")
    BY <1>2 DEF ReadStatus
  <2> QED
    BY <2>1, <2>2, <2>3
<1>3. CASE ReadEnd
  <2>1. phase' = "prompt" /\ result' = "without file"
    BY <1>3 DEF ReadEnd, finish
  <2> QED
    BY <2>1, AtPrompt, KeptUntold
<1>4. CASE ReadName
  <2>1. phase' = "fsize"
    BY <1>4 DEF ReadName
  <2> QED
    BY <1>4, <2>1, NameRead, KeptUntold
<1>5. CASE ReadSize
  <2>1. phase' \in {"newline", "data"}
    BY <1>5 DEF ReadSize
  <2> QED
    BY <1>5, <2>1, SizeRead, KeptUntold
<1>6. CASE ReadData
  <2>1. phase' \in {"newline", "data"}
    BY <1>6 DEF ReadData
  <2> QED
    BY <1>6, <2>1, DataRead, KeptUntold
<1>7. CASE ReadNewline
  BY <1>7, NewlineRead
<1>8. CASE ReadFails
  BY <1>8, Failed
<1> QED
  BY <1>1, <1>2, <1>3, <1>4, <1>5, <1>6, <1>7, <1>8 DEF PlayerReads

LEMMA ShapeTaken ==
    ASSUME Shape, phase \in Reading, arrived, take, UNCHANGED <<conn, sessionVars>>,
           phase' \in Reading, result' \in Results, fsize' \in FileSizes \cup {0},
           block' \in Seq(Units), Len(block') < Block
    PROVE  Shape'
<1>1. /\ conn' = conn /\ session' = session /\ sent' = sent /\ out' = out
      /\ left' = left
  BY DEF sessionVars, take
<1>2. conn \in Connections /\ ~left[conn] /\ conn > 0
  BY Connected DEF Shape
<1>3. /\ stream' \in [Connections -> Seq(Units)]
      /\ \A c \in Connections : c # conn => stream'[c] = stream[c]
      /\ Len(stream'[conn]) = Len(stream[conn]) - 1
  BY Taken
<1>4. ASSUME NEW c \in Connections
      PROVE  /\ Len(stream'[c]) <= Capacity
             /\ c > conn => stream'[c] = <<>>
  <2>1. CASE c = conn
    <3>1. Len(stream[conn]) <= Capacity /\ Len(stream[conn]) \in Nat
      BY <1>2, Connected DEF Shape
    <3> QED
      BY <1>2, <1>3, <2>1, <3>1, Sizes, Connected
  <2>2. CASE c # conn
    BY <1>3, <2>2 DEF Shape
  <2> QED
    BY <2>1, <2>2
<1>5. phase' \in Phases /\ phase' \notin {"prompt", "gone"}
  BY DEF Reading, Phases
<1> QED
  BY <1>1, <1>2, <1>3, <1>4, <1>5 DEF Shape

LEMMA ShapeLeft ==
    ASSUME Shape, phase \in Reading, leave, UNCHANGED <<conn, sessionVars>>,
           phase' \in {"prompt", "gone"}, result' \in Results,
           fsize' = fsize, block' = <<>>
    PROVE  Shape'
<1>1. conn' = conn /\ session' = session /\ sent' = sent /\ out' = out
  BY DEF sessionVars
<1>2. conn \in Connections /\ conn \in Nat
  BY Connected
<1>3. /\ stream' = [stream EXCEPT ![conn] = <<>>] /\ left' = [left EXCEPT ![conn] = TRUE]
      /\ stream \in [Connections -> Seq(Units)] /\ left \in [Connections -> BOOLEAN]
  BY DEF leave, Shape
<1>4. <<>> \in Seq(Units) /\ Len(<<>>) = 0
  OBVIOUS
<1>5. /\ stream' \in [Connections -> Seq(Units)] /\ left' \in [Connections -> BOOLEAN]
      /\ \A c \in Connections : c # conn => stream'[c] = stream[c] /\ left'[c] = left[c]
      /\ stream'[conn] = <<>>
  BY <1>2, <1>3, <1>4
<1>6. ASSUME NEW c \in Connections
      PROVE  /\ Len(stream'[c]) <= Capacity
             /\ c > conn => stream'[c] = <<>> /\ ~left'[c]
  <2>1. CASE c = conn
    BY <1>2, <1>4, <1>5, <2>1, Sizes
  <2>2. CASE c # conn
    BY <1>5, <2>2 DEF Shape
  <2> QED
    BY <2>1, <2>2
<1>7. phase' \in Phases /\ phase' \notin Reading
  BY DEF Reading, Phases
<1>8. block' \in Seq(Units) /\ Len(block') < Block
  BY <1>4, Sizes
<1> QED
  BY <1>1, <1>5, <1>6, <1>7, <1>8 DEF Shape

LEMMA ShapeRead ==
    ASSUME Shape, StreamInv, PlayerReads
    PROVE  Shape'
<1> USE DEF sessionVars
<1>1. phase \in Reading /\ UNCHANGED <<conn, sessionVars>>
  BY DEF PlayerReads, ReadCommand, ReadStatus, ReadEnd, ReadName, ReadSize, ReadData,
         ReadNewline, ReadFails, Reading, Shape, Phases
<1>2. /\ result \in Results /\ fsize \in FileSizes \cup {0}
      /\ block \in Seq(Units) /\ Len(block) < Block
  BY DEF Shape
<1>3. ASSUME NEW r \in Results, finish(r), fsize' = fsize PROVE Shape'
  BY <1>1, <1>3, ShapeLeft DEF finish
<1>4. {"none", "file", "without file", "ECOMMS_TCP", "EDESERIALIZE"} \subseteq Results
  BY DEF Results
<1>5. CASE ReadCommand
  <2>1. CASE phase' = "status" /\ take /\ UNCHANGED <<result, block>>
    BY <1>1, <1>2, <1>5, <2>1, ShapeTaken DEF ReadCommand, Reading
  <2> QED
    BY <1>3, <1>4, <1>5, <2>1 DEF ReadCommand
<1>6. CASE ReadStatus
  <2>1. CASE phase' \in {"fname", "end"} /\ take /\ UNCHANGED <<result, block>>
    BY <1>1, <1>2, <1>6, <2>1, ShapeTaken DEF ReadStatus, Reading
  <2> QED
    BY <1>3, <1>4, <1>6, <2>1 DEF ReadStatus
<1>7. CASE ReadEnd
  BY <1>3, <1>4, <1>7 DEF ReadEnd
<1>8. CASE ReadName
  BY <1>1, <1>2, <1>8, ShapeTaken DEF ReadName, Reading
<1>9. CASE ReadSize
  <2>1. fsize' \in FileSizes
    BY <1>9, SizeRead
  <2> QED
    BY <1>1, <1>2, <1>9, <2>1, ShapeTaken DEF ReadSize, Reading
<1>10. CASE ReadData
  <2>1. block' \in Seq(Units) /\ Len(block') < Block
    BY <1>10, DataRead
  <2> QED
    BY <1>1, <1>2, <1>10, <2>1, ShapeTaken DEF ReadData, Reading
<1>11. CASE ReadNewline
  BY <1>3, <1>4, <1>11 DEF ReadNewline
<1>12. CASE ReadFails
  BY <1>3, <1>4, <1>12 DEF ReadFails
<1> QED
  BY <1>5, <1>6, <1>7, <1>8, <1>9, <1>10, <1>11, <1>12 DEF PlayerReads

LEMMA Asked ==
    ASSUME Shape, Ask
    PROVE  Shape' /\ StreamInv' /\ Kept'
<1>1. /\ phase = "prompt" /\ conn' = conn + 1 /\ conn' \in Connections
      /\ phase' = "command" /\ result' = "none" /\ fsize' = 0 /\ block' = <<>>
      /\ session' = [session EXCEPT ![conn'] = "queued"]
      /\ sent' = sent /\ out' = out /\ stream' = stream /\ left' = left
  BY Sizes DEF Ask, Shape, Connections
<1>2. conn \in Nat /\ conn' > conn
  BY <1>1, Sizes DEF Shape
<1>3. /\ session[conn'] = "none" /\ stream[conn'] = <<>> /\ ~left[conn']
      /\ out[conn'] = <<>>
  BY <1>1, <1>2 DEF Shape
<1>4. /\ session'[conn'] = "queued"
      /\ \A c \in Connections : c # conn' => session'[c] = session[c]
      /\ session' \in [Connections ->
             {"none", "queued", "reading", "replying", "failing", "ended"}]
  BY <1>1 DEF Shape
<1>5. ASSUME NEW c \in Connections
      PROVE  /\ Len(stream'[c]) <= Capacity
             /\ session'[c] \in {"none", "queued", "reading"} => out'[c] = <<>>
             /\ c > conn' => session'[c] = "none" /\ stream'[c] = <<>> /\ ~left'[c]
  <2>1. CASE c = conn'
    BY <1>1, <1>2, <1>3, <2>1 DEF Shape
  <2>2. CASE c # conn'
    <3>1. c > conn' => c > conn
      BY <1>1, <1>2 DEF Connections
    <3> QED
      BY <1>1, <1>4, <2>2, <3>1 DEF Shape
  <2> QED
    BY <2>1, <2>2
<1>6. Shape'
  <2>1. conn' \in 0..MaxCommands /\ conn' > 0 /\ ~left'[conn']
    BY <1>1, <1>2, <1>3 DEF Connections
  <2>2. block' \in Seq(Units) /\ Len(block') < Block
    BY <1>1, Sizes
  <2>3. phase' \in Phases /\ result' \in Results
    BY <1>1 DEF Phases, Results
  <2> QED
    BY <1>1, <1>4, <1>5, <2>1, <2>2, <2>3 DEF Shape
<1>7. StreamInv'
  BY <1>1, <1>3, <1>4 DEF StreamInv
<1> QED
  BY <1>1, <1>6, <1>7, KeptUntold

LEMMA NotAsked ==
    ASSUME Shape, AskFails
    PROVE  Shape' /\ StreamInv' /\ Kept'
<1>1. /\ phase = "prompt" /\ phase' = "prompt" /\ conn' = conn + 1
      /\ conn < MaxCommands
      /\ result' = "ECOMMS_TCP" /\ fsize' = 0 /\ block' = block
      /\ session' = session /\ sent' = sent /\ out' = out
      /\ stream' = stream /\ left' = left
  BY DEF AskFails, sessionVars
<1>2. conn \in Nat /\ conn' \in 0..MaxCommands
  BY <1>1, Sizes DEF Shape
<1>3. \A c \in Connections : c > conn' => c > conn
  BY <1>1, <1>2 DEF Connections
<1>4. result' \in Results /\ phase' \notin Reading
  BY <1>1 DEF Results, Reading
<1>5. Shape'
  BY <1>1, <1>2, <1>3, <1>4 DEF Shape
<1> QED
  BY <1>1, <1>5, AtPrompt, KeptFailure

LEMMA Died ==
    ASSUME Shape, PlayerDies
    PROVE  Shape' /\ StreamInv' /\ Kept'
<1>1. /\ phase' = "gone" /\ block' = <<>> /\ conn' = conn /\ fsize' = fsize
      /\ result' = result /\ UNCHANGED <<conn, sessionVars>>
      /\ session' = session /\ sent' = sent /\ out' = out
  BY DEF PlayerDies, sessionVars
<1>2. CASE UNCHANGED <<left, stream>>
  <2>1. block' \in Seq(Units) /\ Len(block') < Block
    BY <1>1, Sizes
  <2>2. phase' \in Phases /\ phase' \notin Reading
    BY <1>1 DEF Phases, Reading
  <2> QED
    BY <1>1, <1>2, <2>1, <2>2, AtPrompt, KeptUntold DEF Shape
<1>3. CASE phase # "prompt" /\ leave
  <2>1. phase \in Reading /\ result \in Results
    BY <1>3 DEF PlayerDies, Shape, Phases, Reading
  <2> QED
    BY <1>1, <1>3, <2>1, ShapeLeft, AtPrompt, KeptUntold
<1> QED
  BY <1>2, <1>3 DEF PlayerDies

-----------------------------------------------------------------------------
(* The steps of a session.                                                 *)

Labels == {"none", "queued", "reading", "replying", "failing", "ended"}

LEMMA SessionShape ==
    ASSUME Shape, NEW c \in Connections, UNCHANGED <<playerVars, left>>,
           session[c] # "none",
           session' \in [Connections -> Labels],
           sent' \in [Connections -> FileSizes \cup {NoSize}],
           out' \in [Connections -> Seq(Units)],
           stream' \in [Connections -> Seq(Units)],
           \A d \in Connections : d # c =>
               session'[d] = session[d] /\ out'[d] = out[d] /\ stream'[d] = stream[d],
           Len(stream'[c]) <= Capacity,
           session'[c] \in {"none", "queued", "reading"} => out'[c] = <<>>
    PROVE  Shape'
<1>1. /\ phase' = phase /\ conn' = conn /\ fsize' = fsize /\ block' = block
      /\ result' = result /\ left' = left
  BY DEF playerVars
<1>2. ~(c > conn)
  BY DEF Shape
<1>3. ASSUME NEW d \in Connections
      PROVE  /\ Len(stream'[d]) <= Capacity
             /\ session'[d] \in {"none", "queued", "reading"} => out'[d] = <<>>
             /\ d > conn => session'[d] = "none" /\ stream'[d] = <<>> /\ ~left'[d]
  <2>1. CASE d = c
    BY <1>2, <2>1
  <2>2. CASE d # c
    BY <1>1, <2>2 DEF Shape
  <2> QED
    BY <2>1, <2>2
<1> QED
  BY <1>1, <1>3 DEF Shape, Labels

LEMMA KeptSession ==
    ASSUME Shape, Kept, UNCHANGED playerVars,
           conn \in Connections =>
               \/ session'[conn] = session[conn] /\ sent'[conn] = sent[conn]
               \/ session[conn] \in {"queued", "reading"}
               \/ /\ session'[conn] \in {"replying", "failing", "ended"}
                  /\ sent'[conn] = sent[conn]
    PROVE  Kept'
<1>1. /\ phase' = phase /\ conn' = conn /\ fsize' = fsize /\ local' = local
      /\ result' = result
  BY DEF playerVars
<1>2. FailureLeavesNoFile'
  BY <1>1 DEF Kept, FailureLeavesNoFile
<1>3. ASSUME result = "file", phase = "prompt"
      PROVE  /\ conn > 0 /\ session'[conn] \in {"replying", "failing", "ended"}
             /\ sent'[conn] = sent[conn]
  <2>1. conn > 0 /\ session[conn] \in {"replying", "failing", "ended"}
    BY <1>3 DEF Kept, StoredInv
  <2>2. conn \in Connections
    BY <2>1, Sizes DEF Shape, Connections
  <2> QED
    BY <2>1, <2>2
<1>4. StoredInv'
  BY <1>1, <1>3 DEF StoredInv
<1>5. StoredFileIsWhole'
  BY <1>1, <1>3 DEF Kept, StoredFileIsWhole
<1> QED
  BY <1>2, <1>4, <1>5 DEF Kept

(* A session that the player does not listen to.                           *)
LEMMA OtherSession ==
    ASSUME Shape, StreamInv, UNCHANGED <<playerVars, left>>,
           conn \in Connections =>
               /\ session'[conn] = session[conn] /\ sent'[conn] = sent[conn]
               /\ out'[conn] = out[conn] /\ stream'[conn] = stream[conn]
    PROVE  StreamInv'
<1>1. /\ phase' = phase /\ conn' = conn /\ fsize' = fsize /\ block' = block
      /\ local' = local
  BY DEF playerVars
<1> SUFFICES ASSUME phase \in Reading PROVE StreamInv'
  BY <1>1 DEF StreamInv
<1>2. /\ session'[conn] = session[conn] /\ sent'[conn] = sent[conn]
      /\ out'[conn] = out[conn] /\ stream'[conn] = stream[conn]
  BY Connected
<1>3. position' = position /\ total' = total
  BY <1>1, <1>2 DEF position, total
<1>4. wanted' = wanted
  BY <1>1 DEF wanted
<1>5. ASSUME NEW n \in FileSizes, NEW k \in Nat, FileSent(n, k) PROVE FileSent(n, k)'
  <2>1. Received(n, k)'
    BY <1>1, <1>4, <1>5 DEF FileSent, Received
  <2>2. Unwritten(n, k)'
    BY <1>1, <1>2, <1>3, <1>5 DEF FileSent, Unwritten
  <2> QED
    BY <1>1, <1>2, <1>3, <1>5, <2>1, <2>2 DEF FileSent
<1>6. RefusalSent => RefusalSent'
  BY <1>1, <1>2, <1>3 DEF RefusalSent
<1>7. UnreadableSent => UnreadableSent'
  BY <1>1, <1>2, <1>3 DEF UnreadableSent
<1> QED
  BY <1>1, <1>2, <1>5, <1>6, <1>7 DEF StreamInv

(* What a write leaves and what it brings on the way.                      *)
LEMMA Written ==
    ASSUME Shape, NEW c \in Connections, Write(c)
    PROVE  \E q \in Nat :
             /\ q > 0 /\ q <= Len(out[c]) /\ q <= Capacity - Len(stream[c])
             /\ out' \in [Connections -> Seq(Units)]
             /\ Len(out'[c]) = Len(out[c]) - q
             /\ \A i \in 1..Len(out'[c]) : out'[c][i] = out[c][q + i]
             /\ \A d \in Connections : d # c => out'[d] = out[d] /\ stream'[d] = stream[d]
             /\ stream' \in [Connections -> Seq(Units)]
             /\ left[c] => stream' = stream
             /\ ~left[c] =>
                  /\ Len(stream'[c]) = Len(stream[c]) + q
                  /\ \A i \in 1..Len(stream[c]) : stream'[c][i] = stream[c][i]
                  /\ \A i \in 1..q : stream'[c][Len(stream[c]) + i] = out[c][i]
<1> DEFINE q == Min({Block, room(c), Len(out[c])})
           rest == SubSeq(out[c], q + 1, Len(out[c]))
           part == SubSeq(out[c], 1, q)
           more == stream[c] \o part
<1>1. /\ out[c] \in Seq(Units) /\ stream[c] \in Seq(Units) /\ out[c] # <<>>
      /\ out \in [Connections -> Seq(Units)] /\ stream \in [Connections -> Seq(Units)]
  BY DEF Write, writing, Shape
<1>2. /\ Len(out[c]) \in Nat /\ Len(out[c]) > 0 /\ Len(stream[c]) \in Nat
      /\ room(c) \in Int /\ room(c) = Capacity - Len(stream[c]) /\ room(c) > 0
  BY <1>1, EmptySeq, Sizes DEF room, Write
<1>3. q \in Nat /\ q > 0 /\ q <= room(c) /\ q <= Len(out[c])
  <2>1. Block \in Int /\ room(c) \in Int /\ Len(out[c]) \in Int
    BY <1>2, Sizes
  <2>2. q \in {Block, room(c), Len(out[c])} /\ q <= room(c) /\ q <= Len(out[c])
    BY <2>1, MinOfThree
  <2> HIDE DEF q
  <2> QED
    BY <1>2, <2>1, <2>2, Sizes
<1>4. /\ out' = [out EXCEPT ![c] = rest]
      /\ stream' = IF left[c] THEN stream ELSE [stream EXCEPT ![c] = more]
  BY <1>1 DEF Write
<1> HIDE DEF q
<1>5. /\ rest \in Seq(Units) /\ Len(rest) = Len(out[c]) - q
      /\ \A i \in 1..Len(rest) : rest[i] = out[c][q + i]
  <2>1. \A i \in q + 1..Len(out[c]) : out[c][i] \in Units
    BY <1>1, <1>3
  <2>2. /\ rest \in Seq(Units)
        /\ Len(rest) = IF q + 1 <= Len(out[c]) THEN Len(out[c]) - (q + 1) + 1 ELSE 0
        /\ \A i \in 1..Len(out[c]) - (q + 1) + 1 : rest[i] = out[c][q + 1 + i - 1]
    BY <1>2, <1>3, <2>1, SubSeqProperties
  <2> HIDE DEF rest
  <2>3. Len(rest) = Len(out[c]) - q
    BY <1>2, <1>3, <2>2
  <2>4. ASSUME NEW i \in 1..Len(rest) PROVE rest[i] = out[c][q + i]
    <3>1. i \in 1..Len(out[c]) - (q + 1) + 1 /\ q + 1 + i - 1 = q + i
      BY <1>2, <1>3, <2>3
    <3> QED
      BY <2>2, <3>1
  <2> QED
    BY <2>2, <2>3, <2>4
<1>6. /\ part \in Seq(Units) /\ Len(part) = q
      /\ \A i \in 1..q : part[i] = out[c][i]
  <2>1. \A i \in 1..q : out[c][i] \in Units
    BY <1>1, <1>2, <1>3
  <2>2. /\ part \in Seq(Units)
        /\ Len(part) = IF 1 <= q THEN q - 1 + 1 ELSE 0
        /\ \A i \in 1..q - 1 + 1 : part[i] = out[c][1 + i - 1]
    BY <1>3, <2>1, SubSeqProperties
  <2> HIDE DEF part
  <2>3. Len(part) = q
    BY <1>3, <2>2
  <2>4. ASSUME NEW i \in 1..q PROVE part[i] = out[c][i]
    <3>1. i \in 1..q - 1 + 1 /\ 1 + i - 1 = i
      BY <1>3
    <3> QED
      BY <2>2, <3>1
  <2> QED
    BY <2>2, <2>3, <2>4
<1> HIDE DEF rest, part
<1>7. /\ more \in Seq(Units) /\ Len(more) = Len(stream[c]) + Len(part)
      /\ \A i \in 1..Len(stream[c]) : more[i] = stream[c][i]
      /\ \A i \in 1..Len(part) : more[Len(stream[c]) + i] = part[i]
  <2>1. stream[c] \in Seq(Units) /\ part \in Seq(Units)
    BY <1>1, <1>6
  <2> QED
    BY <2>1, Joined
<1> HIDE DEF more
<1>8. /\ out' \in [Connections -> Seq(Units)] /\ out'[c] = rest
      /\ \A d \in Connections : d # c => out'[d] = out[d]
  BY <1>1, <1>4, <1>5
<1>9. /\ stream' \in [Connections -> Seq(Units)]
      /\ \A d \in Connections : d # c => stream'[d] = stream[d]
      /\ ~left[c] => stream'[c] = more
      /\ left[c] => stream' = stream
  BY <1>1, <1>4, <1>7
<1>10. /\ Len(out'[c]) = Len(out[c]) - q
       /\ \A i \in 1..Len(out'[c]) : out'[c][i] = out[c][q + i]
  BY <1>5, <1>8
<1>11. ~left[c] =>
         /\ Len(stream'[c]) = Len(stream[c]) + q
         /\ \A i \in 1..Len(stream[c]) : stream'[c][i] = stream[c][i]
         /\ \A i \in 1..q : stream'[c][Len(stream[c]) + i] = out[c][i]
  BY <1>6, <1>7, <1>9
<1>12. q <= Capacity - Len(stream[c])
  BY <1>2, <1>3
<1> QED
  BY <1>3, <1>8, <1>9, <1>10, <1>11, <1>12

LEMMA WriteSteps ==
    ASSUME Shape, StreamInv, NEW c \in Connections, Write(c)
    PROVE  StreamInv' /\ Shape'
<1>1. /\ UNCHANGED <<playerVars, left>> /\ session' = session /\ sent' = sent
      /\ session[c] \in {"replying", "failing"} /\ out[c] # <<>>
      /\ phase' = phase /\ conn' = conn /\ fsize' = fsize /\ block' = block
      /\ local' = local
  BY DEF Write, writing, playerVars
<1>2. PICK q \in Nat :
         /\ q > 0 /\ q <= Len(out[c]) /\ q <= Capacity - Len(stream[c])
         /\ out' \in [Connections -> Seq(Units)]
         /\ Len(out'[c]) = Len(out[c]) - q
         /\ \A i \in 1..Len(out'[c]) : out'[c][i] = out[c][q + i]
         /\ \A d \in Connections : d # c => out'[d] = out[d] /\ stream'[d] = stream[d]
         /\ stream' \in [Connections -> Seq(Units)]
         /\ left[c] => stream' = stream
         /\ ~left[c] =>
              /\ Len(stream'[c]) = Len(stream[c]) + q
              /\ \A i \in 1..Len(stream[c]) : stream'[c][i] = stream[c][i]
              /\ \A i \in 1..q : stream'[c][Len(stream[c]) + i] = out[c][i]
  BY Written
<1>3. Shape'
  <2>1. Len(stream[c]) \in Nat /\ Len(stream[c]) <= Capacity
    BY DEF Shape
  <2>2. Len(stream'[c]) <= Capacity
    BY <1>2, <2>1, Sizes
  <2>3. session' \in [Connections -> Labels] /\ sent' \in [Connections -> FileSizes \cup {NoSize}]
    BY <1>1 DEF Shape, Labels
  <2>4. session[c] # "none" /\ session'[c] \notin {"none", "queued", "reading"}
    BY <1>1
  <2> QED
    BY <1>1, <1>2, <2>2, <2>3, <2>4, SessionShape
<1>4. CASE c # conn \/ phase \notin Reading
  <2>1. CASE c # conn
    <3>1. conn \in Connections =>
             /\ session'[conn] = session[conn] /\ sent'[conn] = sent[conn]
             /\ out'[conn] = out[conn] /\ stream'[conn] = stream[conn]
      BY <1>1, <1>2, <2>1
    <3> QED
      BY <1>1, <1>3, <3>1, OtherSession
  <2>2. CASE phase \notin Reading
    BY <1>1, <1>3, <2>2 DEF StreamInv
  <2> QED
    BY <1>4, <2>1, <2>2
<1>5. CASE c = conn /\ phase \in Reading
  <2>1. /\ ~left[conn] /\ Len(stream[conn]) \in Nat /\ Len(out[conn]) \in Nat
    BY <1>5, Connected
  <2>2. /\ q > 0 /\ q <= Len(out[conn]) /\ Len(out'[conn]) = Len(out[conn]) - q
        /\ \A i \in 1..Len(out'[conn]) : out'[conn][i] = out[conn][q + i]
        /\ Len(stream'[conn]) = Len(stream[conn]) + q
        /\ \A i \in 1..Len(stream[conn]) : stream'[conn][i] = stream[conn][i]
        /\ \A i \in 1..q : stream'[conn][Len(stream[conn]) + i] = out[conn][i]
    BY <1>2, <1>5, <2>1
  <2>3. position' = position
    BY <1>1 DEF position
  <2>4. ASSUME position \in Nat PROVE total' = total + q /\ total \in Nat
    <3> DEFINE here == Len(stream[conn])
               there == Len(stream'[conn])
               at == position
    <3>1. here \in Nat /\ there = here + q /\ at \in Nat
      BY <2>1, <2>2, <2>4
    <3>2. total = at + here /\ total' = at + there
      BY <1>1, <2>3 DEF total
    <3> HIDE DEF here, there, at
    <3> QED
      BY <3>1, <3>2
  <2>5. ASSUME NEW i \in 1..Len(stream'[conn])
        PROVE  \/ i \in 1..Len(stream[conn]) /\ stream'[conn][i] = stream[conn][i]
               \/ \E j \in 1..q : /\ i = Len(stream[conn]) + j /\ j \in 1..Len(out[conn])
                                  /\ stream'[conn][i] = out[conn][j]
    <3>1. CASE i <= Len(stream[conn])
      BY <2>1, <2>2, <3>1
    <3>2. CASE i > Len(stream[conn])
      <4> DEFINE j == i - Len(stream[conn])
      <4>1. j \in 1..q /\ i = Len(stream[conn]) + j /\ j \in 1..Len(out[conn])
        BY <2>1, <2>2, <3>2
      <4> HIDE DEF j
      <4> QED
        BY <2>2, <4>1
    <3> QED
      BY <2>1, <2>2, <3>1, <3>2
  <2>6. \A i \in 1..Len(out'[conn]) : q + i \in 1..Len(out[conn])
    BY <2>1, <2>2
  <2>7. ASSUME NEW n \in FileSizes, NEW k \in Nat, FileSent(n, k) PROVE FileSent(n, k)'
    <3>1. /\ position \in Nat /\ total \in Nat /\ total' = total + q
          /\ total = position + Len(stream[conn])
      BY <2>4, <2>7, Position
    <3>2. Received(n, k)'
      <4>1. wanted' = wanted
        BY <1>1 DEF wanted
      <4> QED
        BY <1>1, <2>7, <4>1 DEF FileSent, Received
    <3>3. /\ session[conn] = "replying" => k = n + 5 /\ Len(out[conn]) = k - total
          /\ session[conn] = "failing" => k <= total /\ Len(out[conn]) = k + 3 - total
          /\ \A i \in 1..Len(out[conn]) : out[conn][i] = said(n, k, total + i)
      BY <1>1, <1>5, <2>7 DEF FileSent, Unwritten
    <3>4. \A i \in 1..Len(out'[conn]) : out'[conn][i] = said(n, k, total' + i)
      <4> SUFFICES ASSUME NEW i \in 1..Len(out'[conn])
                   PROVE  out'[conn][i] = said(n, k, total' + i)
        OBVIOUS
      <4>1. q + i \in 1..Len(out[conn]) /\ out'[conn][i] = out[conn][q + i]
        BY <2>2, <2>6
      <4>2. out[conn][q + i] = said(n, k, total + (q + i))
        BY <3>3, <4>1
      <4>3. total + (q + i) = total' + i
        <5> DEFINE t == total
        <5>1. t \in Nat /\ total' = t + q
          BY <3>1
        <5> HIDE DEF t
        <5>2. t + (q + i) = t + q + i
          BY <5>1
        <5> QED
          BY <5>1, <5>2 DEF t
      <4> QED
        BY <4>1, <4>2, <4>3
    <3>5. /\ session[conn] = "replying" => Len(out'[conn]) = k - total'
          /\ session[conn] = "failing" => k <= total' /\ Len(out'[conn]) = k + 3 - total'
      <4> DEFINE t == total
                 tt == total'
                 o == Len(out[conn])
                 oo == Len(out'[conn])
      <4>1. /\ t \in Nat /\ tt = t + q /\ o \in Nat /\ oo = o - q
            /\ session[conn] = "replying" => o = k - t
            /\ session[conn] = "failing" => k <= t /\ o = k + 3 - t
        BY <2>1, <2>2, <3>1, <3>3
      <4> HIDE DEF t, tt, o, oo
      <4>2. /\ session[conn] = "replying" => oo = k - tt
            /\ session[conn] = "failing" => k <= tt /\ oo = k + 3 - tt
        BY <4>1
      <4> QED
        BY <4>2 DEF tt, oo
    <3>6. Unwritten(n, k)'
      BY <1>1, <3>3, <3>4, <3>5 DEF Unwritten
    <3>7. \A i \in 1..Len(stream'[conn]) : stream'[conn][i] = said(n, k, position' + i)
      <4> SUFFICES ASSUME NEW i \in 1..Len(stream'[conn])
                   PROVE  stream'[conn][i] = said(n, k, position + i)
        BY <2>3
      <4>1. CASE i \in 1..Len(stream[conn]) /\ stream'[conn][i] = stream[conn][i]
        BY <2>7, <4>1 DEF FileSent
      <4>2. ASSUME NEW j \in 1..q, i = Len(stream[conn]) + j, j \in 1..Len(out[conn]),
                   stream'[conn][i] = out[conn][j]
            PROVE  stream'[conn][i] = said(n, k, position + i)
        <5>1. out[conn][j] = said(n, k, total + j)
          BY <3>3, <4>2
        <5>2. total + j = position + i
          BY <2>1, <3>1, <4>2
        <5> QED
          BY <4>2, <5>1, <5>2
      <4> QED
        BY <2>5, <4>1, <4>2
    <3>8. total' <= k + 3
      <4> DEFINE t == total
                 tt == total'
                 o == Len(out[conn])
      <4>1. /\ t \in Nat /\ tt = t + q /\ o \in Nat /\ q <= o
            /\ o = k - t \/ o = k + 3 - t
        BY <1>1, <1>5, <2>1, <2>2, <3>1, <3>3
      <4> HIDE DEF t, tt, o
      <4>2. tt <= k + 3
        BY <4>1
      <4> QED
        BY <4>2 DEF tt
    <3> QED
      BY <1>1, <2>7, <3>2, <3>6, <3>7, <3>8 DEF FileSent
  <2>8. ASSUME RefusalSent PROVE RefusalSent'
    <3>1. position \in Nat
      BY <2>8 DEF RefusalSent, position
    <3>2. total \in Nat /\ total' = total + q /\ total = position + Len(stream[conn])
      BY <2>4, <3>1 DEF total
    <3>3. /\ total + Len(out[conn]) <= 3
          /\ \A i \in 1..Len(stream[conn]) : stream[conn][i] = refusal[position + i]
          /\ \A i \in 1..Len(out[conn]) : out[conn][i] = refusal[total + i]
      BY <2>8 DEF RefusalSent
    <3>4. ASSUME NEW i \in 1..Len(stream'[conn])
          PROVE  stream'[conn][i] = refusal[position + i]
      <4>1. CASE i \in 1..Len(stream[conn]) /\ stream'[conn][i] = stream[conn][i]
        BY <3>3, <4>1
      <4>2. ASSUME NEW j \in 1..q, i = Len(stream[conn]) + j, j \in 1..Len(out[conn]),
                   stream'[conn][i] = out[conn][j]
            PROVE  stream'[conn][i] = refusal[position + i]
        <5>1. total + j = position + i
          BY <2>1, <3>1, <3>2, <4>2
        <5> QED
          BY <3>3, <4>2, <5>1
      <4> QED
        BY <2>5, <4>1, <4>2
    <3>5. ASSUME NEW i \in 1..Len(out'[conn])
          PROVE  out'[conn][i] = refusal[total' + i]
      <4>1. q + i \in 1..Len(out[conn]) /\ out'[conn][i] = out[conn][q + i]
        BY <2>2, <2>6
      <4>2. total + (q + i) = total' + i
        BY <3>2
      <4> QED
        BY <3>3, <4>1, <4>2
    <3>6. total' + Len(out'[conn]) <= 3
      BY <2>1, <2>2, <3>2, <3>3
    <3> QED
      BY <1>1, <2>3, <2>8, <3>4, <3>5, <3>6 DEF RefusalSent
  <2>9. ASSUME UnreadableSent PROVE UnreadableSent'
    <3>1. position \in Nat
      BY <2>9 DEF UnreadableSent, position
    <3>2. total \in Nat /\ total' = total + q
      BY <2>4, <3>1
    <3>3. /\ total + Len(out[conn]) <= 1
          /\ \A i \in 1..Len(stream[conn]) : stream[conn][i] = Unit("ERR")
          /\ \A i \in 1..Len(out[conn]) : out[conn][i] = Unit("ERR")
      BY <2>9 DEF UnreadableSent
    <3>4. \A i \in 1..Len(stream'[conn]) : stream'[conn][i] = Unit("ERR")
      BY <2>5, <3>3
    <3>5. \A i \in 1..Len(out'[conn]) : out'[conn][i] = Unit("ERR")
      BY <2>2, <2>6, <3>3
    <3>6. total' + Len(out'[conn]) <= 1
      <4> DEFINE t == total
                 tt == total'
                 o == Len(out[conn])
                 oo == Len(out'[conn])
      <4>1. t \in Nat /\ tt = t + q /\ o \in Nat /\ oo = o - q /\ t + o <= 1
        BY <2>1, <2>2, <3>2, <3>3
      <4> HIDE DEF t, tt, o, oo
      <4>2. tt + oo <= 1
        BY <4>1
      <4> QED
        BY <4>2 DEF tt, oo
    <3> QED
      BY <1>1, <2>9, <3>4, <3>5, <3>6 DEF UnreadableSent
  <2>10. /\ session[conn] # "none"
         /\ phase \notin {"data", "newline"} => fsize = 0 /\ block = <<>>
         /\ \/ \E n \in FileSizes, k \in Nat : FileSent(n, k)
            \/ RefusalSent
            \/ UnreadableSent
    BY <1>1, <1>5 DEF StreamInv
  <2>11. StreamInv'
    BY <1>1, <1>5, <2>7, <2>8, <2>9, <2>10 DEF StreamInv
  <2> QED
    BY <1>3, <2>11
<1> QED
  BY <1>4, <1>5

(* A session that changes its label, and what it has still to write.       *)
LEMMA Replied ==
    ASSUME Shape, StreamInv, NEW c \in Connections, session[c] # "none",
           UNCHANGED <<playerVars, stream, left>>,
           NEW label \in {"replying", "failing", "ended"}, NEW units \in Seq(Units),
           reply(c, units, label),
           sent' \in [Connections -> FileSizes \cup {NoSize}],
           \A d \in Connections : d # c => sent'[d] = sent[d]
    PROVE  /\ Shape' /\ session'[c] = label /\ out'[c] = units
           /\ c # conn \/ phase \notin Reading => StreamInv'
           /\ c = conn /\ phase \in Reading => position' = position /\ total' = total
<1>1. /\ session' = [session EXCEPT ![c] = label] /\ out' = [out EXCEPT ![c] = units]
      /\ session \in [Connections -> Labels] /\ out \in [Connections -> Seq(Units)]
      /\ stream' = stream
  BY DEF reply, goto, Shape, Labels
<1>2. /\ session' \in [Connections -> Labels] /\ out' \in [Connections -> Seq(Units)]
      /\ session'[c] = label /\ out'[c] = units
      /\ \A d \in Connections : d # c => session'[d] = session[d] /\ out'[d] = out[d]
  BY <1>1 DEF Labels
<1>3. Shape'
  <2>1. stream' \in [Connections -> Seq(Units)] /\ Len(stream'[c]) <= Capacity
    BY <1>1 DEF Shape
  <2>2. session'[c] \notin {"none", "queued", "reading"}
    BY <1>2
  <2> QED
    BY <1>1, <1>2, <2>1, <2>2, SessionShape
<1>4. /\ phase' = phase /\ conn' = conn /\ fsize' = fsize /\ block' = block
      /\ local' = local
  BY DEF playerVars
<1>5. c # conn \/ phase \notin Reading => StreamInv'
  <2>1. CASE c # conn
    <3>1. conn \in Connections =>
             /\ session'[conn] = session[conn] /\ sent'[conn] = sent[conn]
             /\ out'[conn] = out[conn] /\ stream'[conn] = stream[conn]
      BY <1>1, <1>2, <2>1
    <3> QED
      BY <3>1, OtherSession
  <2>2. CASE phase \notin Reading
    BY <1>4, <2>2 DEF StreamInv
  <2> QED
    BY <2>1, <2>2
<1>6. position' = position /\ total' = total
  BY <1>1, <1>4 DEF position, total
<1> QED
  BY <1>2, <1>3, <1>5, <1>6

(* A session that ends, with what it has written.                          *)
LEMMA Closed ==
    ASSUME Shape, StreamInv, NEW c \in Connections, session[c] # "none",
           UNCHANGED <<playerVars, sent, stream, left>>, reply(c, <<>>, "ended")
    PROVE  Shape' /\ StreamInv'
<1>1. /\ sent' \in [Connections -> FileSizes \cup {NoSize}] /\ sent' = sent
      /\ <<>> \in Seq(Units)
  BY DEF Shape
<1>2. /\ Shape' /\ session'[c] = "ended" /\ out'[c] = <<>>
      /\ c # conn \/ phase \notin Reading => StreamInv'
      /\ c = conn /\ phase \in Reading => position' = position /\ total' = total
  BY <1>1, Replied
<1>3. CASE c = conn /\ phase \in Reading
  <2>1. /\ phase' = phase /\ conn' = conn /\ fsize' = fsize /\ block' = block
        /\ local' = local /\ stream' = stream /\ wanted' = wanted
    BY DEF playerVars, wanted
  <2>2. /\ position' = position /\ total' = total
        /\ session'[conn] = "ended" /\ out'[conn] = <<>>
    BY <1>2, <1>3
  <2>3. ASSUME NEW n \in FileSizes, NEW k \in Nat, FileSent(n, k) PROVE FileSent(n, k)'
    <3>1. Received(n, k)'
      BY <2>1, <2>3 DEF FileSent, Received
    <3>2. Unwritten(n, k)'
      BY <2>1, <2>2 DEF Unwritten
    <3> QED
      BY <1>1, <2>1, <2>2, <2>3, <3>1, <3>2 DEF FileSent
  <2>4. Len(out[conn]) \in Nat /\ Len(out'[conn]) = 0
    BY <1>3, <2>2, Connected
  <2>5. ASSUME RefusalSent PROVE RefusalSent'
    <3>1. position \in Nat
      BY <2>5 DEF RefusalSent, position
    <3>2. total \in Nat
      BY <1>3, <3>1, Connected DEF total
    <3>3. total + Len(out[conn]) <= 3
      BY <2>5 DEF RefusalSent
    <3>4. total' + Len(out'[conn]) <= 3
      BY <2>2, <2>4, <3>2, <3>3
    <3> QED
      BY <2>1, <2>2, <2>4, <2>5, <3>4 DEF RefusalSent
  <2>6. ASSUME UnreadableSent PROVE UnreadableSent'
    <3>1. position \in Nat
      BY <2>6 DEF UnreadableSent, position
    <3>2. total \in Nat
      BY <1>3, <3>1, Connected DEF total
    <3>3. total + Len(out[conn]) <= 1
      BY <2>6 DEF UnreadableSent
    <3>4. total' + Len(out'[conn]) <= 1
      BY <2>2, <2>4, <3>2, <3>3
    <3> QED
      BY <2>1, <2>2, <2>4, <2>6, <3>4 DEF UnreadableSent
  <2>7. StreamInv'
    BY <1>3, <2>1, <2>2, <2>3, <2>5, <2>6 DEF StreamInv
  <2> QED
    BY <1>2, <2>7
<1> QED
  BY <1>2, <1>3

LEMMA EndSteps ==
    ASSUME Shape, StreamInv, NEW c \in Connections, Finish(c) \/ SessionDies(c)
    PROVE  Shape' /\ StreamInv'
<1>1. session[c] # "none" /\ UNCHANGED <<playerVars, sent, stream, left>>
  BY DEF Finish, SessionDies
<1>2. reply(c, <<>>, "ended")
  <2>1. CASE Finish(c)
    <3>1. out' = [out EXCEPT ![c] = <<>>]
      BY <2>1 DEF Finish, Shape
    <3> QED
      BY <2>1, <3>1 DEF Finish, reply
  <2>2. CASE SessionDies(c)
    BY <2>2 DEF SessionDies
  <2> QED
    BY <2>1, <2>2
<1> QED
  BY <1>1, <1>2, Closed

(* A reply that found no room: at least the words before the file are on   *)
(* their way, so what follows begins in the file or after it.              *)
LEMMA WriteFailsSteps ==
    ASSUME Shape, StreamInv, NEW c \in Connections, WriteFails(c)
    PROVE  Shape' /\ StreamInv'
<1>1. /\ UNCHANGED <<playerVars, sent, stream, left>> /\ session[c] # "none"
      /\ out[c] # <<>> /\ (room(c) = 0 \/ left[c])
  BY DEF WriteFails, writing
<1>2. CASE session[c] = "failing" /\ reply(c, <<>>, "ended")
  BY <1>1, <1>2, Closed
<1>3. CASE session[c] = "replying" /\ reply(c, refusal, "failing")
  <2>1. /\ sent' \in [Connections -> FileSizes \cup {NoSize}] /\ sent' = sent
        /\ refusal \in Seq(Units)
    BY <1>1, OtherReplies DEF Shape
  <2>2. /\ Shape' /\ session'[c] = "failing" /\ out'[c] = refusal
        /\ c # conn \/ phase \notin Reading => StreamInv'
        /\ c = conn /\ phase \in Reading => position' = position /\ total' = total
    BY <1>1, <1>3, <2>1, Replied
  <2>3. CASE c = conn /\ phase \in Reading
    <3>1. /\ phase' = phase /\ conn' = conn /\ fsize' = fsize /\ block' = block
          /\ local' = local /\ stream' = stream /\ wanted' = wanted
      BY <1>1 DEF playerVars, wanted
    <3>2. /\ position' = position /\ total' = total
          /\ session'[conn] = "failing" /\ out'[conn] = refusal
      BY <2>2, <2>3
    <3>3. Len(stream[conn]) = Capacity /\ Len(out[conn]) > 0
      <4>1. room(conn) = 0 /\ out[conn] # <<>> /\ out[conn] \in Seq(Units)
        BY <1>1, <2>3, Connected
      <4>2. Len(stream[conn]) \in Nat
        BY <2>3, Connected
      <4>3. Len(stream[conn]) = Capacity
        BY <4>1, <4>2, Sizes DEF room
      <4> QED
        BY <4>1, <4>3, EmptySeq
    <3>4. ASSUME position \in Nat PROVE total \in Nat /\ total >= 4
      <4> DEFINE here == Len(stream[conn])
                 at == position
      <4>1. here \in Nat /\ here >= 4 /\ at \in Nat /\ total = at + here
        BY <2>3, <3>3, <3>4, Connected, Sizes DEF total
      <4> HIDE DEF here, at
      <4> QED
        BY <4>1
    <3>5. ~RefusalSent /\ ~UnreadableSent
      <4>1. RefusalSent \/ UnreadableSent => position \in Nat
        BY DEF RefusalSent, UnreadableSent, position
      <4>2. Len(out[conn]) \in Nat
        BY <2>3, Connected
      <4> QED
        BY <3>4, <4>1, <4>2 DEF RefusalSent, UnreadableSent
    <3>6. PICK n \in FileSizes, k \in Nat : FileSent(n, k)
      BY <1>3, <2>3, <3>5 DEF StreamInv
    <3>7. PICK t \in Nat : /\ position \in Nat /\ t = total /\ t >= 4
                           /\ t = position + Len(stream[conn])
      BY <3>4, <3>6, Position
    <3>8. k = n + 5 /\ Len(out[conn]) = k - t /\ n \in Nat
      BY <1>3, <2>3, <3>6, <3>7, Sizes DEF FileSent, Unwritten
    <3>9. total = t /\ total' = t
      BY <3>2, <3>7
    <3>10. t \in 4..n + 5 /\ t < k
      BY <3>3, <3>7, <3>8
    <3>11. \A i \in Nat : i <= t => said(n, t, i) = said(n, k, i)
      BY <3>7, <3>8, <3>10 DEF said
    <3>12. \A i \in 1..Len(stream[conn]) : stream'[conn][i] = said(n, t, position' + i)
      <4> SUFFICES ASSUME NEW i \in 1..Len(stream[conn])
                   PROVE  stream[conn][i] = said(n, t, position + i)
        BY <3>1, <3>2
      <4>1. stream[conn][i] = said(n, k, position + i)
        BY <3>6 DEF FileSent
      <4>2. position + i \in Nat /\ position + i <= t
        BY <3>7
      <4> QED
        BY <3>11, <4>1, <4>2
    <3>13. Received(n, t)'
      <4> SUFFICES ASSUME phase \in {"data", "newline"} PROVE Received(n, t)'
        BY <3>1 DEF Received
      <4>1. Received(n, k)
        BY <3>6 DEF FileSent
      <4>2. /\ Len(local) \in Nat /\ Len(block) \in Nat /\ Len(stream[conn]) \in Nat
            /\ t = 4 + Len(local) + Len(block) + Len(stream[conn])
        BY <2>3, <3>6, <3>7, Position, Connected
      <4>3. ASSUME NEW i \in 1..Len(local) PROVE local[i] = said(n, t, 4 + i)
        <5>1. 4 + i \in Nat /\ 4 + i <= t
          BY <3>7, <4>2
        <5> QED
          BY <3>11, <4>1, <5>1 DEF Received
      <4>4. ASSUME NEW i \in 1..Len(block)
            PROVE  block[i] = said(n, t, 4 + Len(local) + i)
        <5>1. 4 + Len(local) + i \in Nat /\ 4 + Len(local) + i <= t
          BY <3>7, <4>2
        <5> QED
          BY <3>11, <4>1, <5>1 DEF Received
      <4> QED
        BY <3>1, <4>1, <4>3, <4>4 DEF Received
    <3>14. Unwritten(n, t)'
      <4>1. Len(refusal) = 3 /\ t + 3 - t = 3 /\ t <= t
        BY <3>7, OtherReplies
      <4>2. ASSUME NEW i \in 1..3 PROVE refusal[i] = said(n, t, t + i)
        <5>1. ~(t + i <= t) /\ t + i - t = i
          BY <3>7
        <5> QED
          BY <5>1 DEF said
      <4>3. session'[conn'] = "failing" /\ out'[conn'] = refusal
        BY <3>1, <3>2
      <4> QED
        BY <3>9, <4>1, <4>2, <4>3 DEF Unwritten
    <3>15. sent'[conn'] = n /\ total' <= t + 3 /\ phase' \in Reading \ {"end"}
      BY <2>1, <3>1, <3>6, <3>7, <3>9 DEF FileSent
    <3>16. FileSent(n, t)'
      BY <3>1, <3>10, <3>12, <3>13, <3>14, <3>15 DEF FileSent
    <3>17. phase' \notin {"data", "newline"} => fsize' = 0 /\ block' = <<>>
      BY <2>3, <3>1 DEF StreamInv
    <3>18. StreamInv'
      BY <3>1, <3>2, <3>7, <3>16, <3>17 DEF StreamInv
    <3> QED
      BY <2>2, <3>18
  <2> QED
    BY <2>2, <2>3
<1> QED
  BY <1>2, <1>3 DEF WriteFails

(* Before its session has read the request, nothing is on the way.         *)
LEMMA NotYet ==
    ASSUME Shape, StreamInv, phase \in Reading, session[conn] \in {"queued", "reading"}
    PROVE  /\ phase = "command" /\ stream[conn] = <<>> /\ out[conn] = <<>>
           /\ fsize = 0 /\ block = <<>> /\ position = 0 /\ total = 0
<1>1. /\ phase = "command" /\ stream[conn] = <<>> /\ out[conn] = <<>>
      /\ fsize = 0 /\ block = <<>>
  BY DEF StreamInv
<1>2. Len(stream[conn]) = 0
  BY <1>1
<1>3. position = 0
  BY <1>1 DEF position
<1> QED
  BY <1>1, <1>2, <1>3 DEF total

LEMMA AcceptSteps ==
    ASSUME Shape, StreamInv, NEW c \in Connections, Accept(c)
    PROVE  Shape' /\ StreamInv'
<1>1. /\ session[c] = "queued" /\ session' = [session EXCEPT ![c] = "reading"]
      /\ UNCHANGED <<playerVars, left>> /\ sent' = sent /\ out' = out /\ stream' = stream
  BY DEF Accept, goto
<1>2. /\ session' \in [Connections -> Labels] /\ session'[c] = "reading"
      /\ \A d \in Connections : d # c => session'[d] = session[d]
  BY <1>1 DEF Shape, Labels
<1>3. Shape'
  <2>1. /\ sent' \in [Connections -> FileSizes \cup {NoSize}]
        /\ out' \in [Connections -> Seq(Units)] /\ stream' \in [Connections -> Seq(Units)]
        /\ Len(stream'[c]) <= Capacity /\ out'[c] = <<>>
    BY <1>1 DEF Shape
  <2> QED
    BY <1>1, <1>2, <2>1, SessionShape
<1>4. /\ phase' = phase /\ conn' = conn /\ fsize' = fsize /\ block' = block
  BY <1>1 DEF playerVars
<1>5. CASE c # conn
  <2>1. conn \in Connections =>
             /\ session'[conn] = session[conn] /\ sent'[conn] = sent[conn]
             /\ out'[conn] = out[conn] /\ stream'[conn] = stream[conn]
    BY <1>1, <1>2, <1>5
  <2> QED
    BY <1>1, <1>3, <2>1, OtherSession
<1>6. CASE c = conn /\ phase \in Reading
  <2>1. /\ phase = "command" /\ stream[conn] = <<>> /\ out[conn] = <<>>
        /\ fsize = 0 /\ block = <<>>
    BY <1>1, <1>6, NotYet
  <2> QED
    BY <1>1, <1>2, <1>3, <1>4, <1>6, <2>1 DEF StreamInv
<1>7. CASE phase \notin Reading
  BY <1>3, <1>4, <1>7 DEF StreamInv
<1> QED
  BY <1>5, <1>6, <1>7

LEMMA RequestFailsSteps ==
    ASSUME Shape, StreamInv, NEW c \in Connections, RequestFails(c)
    PROVE  Shape' /\ StreamInv'
<1>1. /\ session[c] = "reading" /\ reply(c, unreadable, "failing")
      /\ UNCHANGED <<playerVars, stream, left>> /\ sent' = sent /\ unreadable \in Seq(Units)
      /\ sent' \in [Connections -> FileSizes \cup {NoSize}]
  BY OtherReplies DEF RequestFails, Shape
<1>2. /\ Shape' /\ session'[c] = "failing" /\ out'[c] = unreadable
      /\ c # conn \/ phase \notin Reading => StreamInv'
      /\ c = conn /\ phase \in Reading => position' = position /\ total' = total
  BY <1>1, Replied
<1>3. CASE c = conn /\ phase \in Reading
  <2>1. /\ phase = "command" /\ stream[conn] = <<>> /\ fsize = 0 /\ block = <<>>
        /\ position = 0 /\ total = 0
    BY <1>1, <1>3, NotYet
  <2>2. /\ phase' = phase /\ conn' = conn /\ fsize' = fsize /\ block' = block
        /\ stream' = stream
    BY <1>1 DEF playerVars
  <2>3. total' + Len(out'[conn']) <= 1
    <3>1. total' = 0 /\ Len(out'[conn']) = 1
      BY <1>2, <1>3, <2>1, <2>2, OtherReplies
    <3> QED
      BY <3>1
  <2>4. /\ \A i \in 1..Len(stream'[conn']) : stream'[conn'][i] = Unit("ERR")
        /\ \A i \in 1..Len(out'[conn']) : out'[conn'][i] = Unit("ERR")
    BY <1>2, <1>3, <2>1, <2>2, OtherReplies
  <2>5. UnreadableSent'
    BY <1>2, <1>3, <2>1, <2>2, <2>3, <2>4 DEF UnreadableSent
  <2>6. StreamInv'
    BY <1>2, <1>3, <2>1, <2>2, <2>5 DEF StreamInv
  <2> QED
    BY <1>2, <2>6
<1> QED
  BY <1>2, <1>3

LEMMA ServeSteps ==
    ASSUME Shape, StreamInv, NEW c \in Connections, Serve(c)
    PROVE  Shape' /\ StreamInv'
<1>1. session[c] = "reading" /\ UNCHANGED <<playerVars, stream, left>>
  BY DEF Serve
<1>2. /\ phase' = phase /\ conn' = conn /\ fsize' = fsize /\ block' = block
      /\ stream' = stream
  BY <1>1 DEF playerVars
<1>3. ASSUME NEW n \in FileSizes, sent' = [sent EXCEPT ![c] = n],
             reply(c, fileReply(n), "replying")
      PROVE  Shape' /\ StreamInv'
  <2>1. /\ sent' \in [Connections -> FileSizes \cup {NoSize}] /\ sent'[c] = n
        /\ \A d \in Connections : d # c => sent'[d] = sent[d]
    BY <1>3 DEF Shape
  <2>2. n \in Nat
    BY Sizes
  <2> DEFINE whole == fileReply(n)
  <2>3. whole \in Seq(Units) /\ Len(whole) = n + 5
    BY <2>2, FileReply
  <2> HIDE DEF whole
  <2>4. reply(c, whole, "replying")
    BY <1>3 DEF whole
  <2>5. /\ Shape' /\ session'[c] = "replying" /\ out'[c] = whole
        /\ c # conn \/ phase \notin Reading => StreamInv'
        /\ c = conn /\ phase \in Reading => position' = position /\ total' = total
    BY <1>1, <2>1, <2>3, <2>4, Replied
  <2>6. CASE c = conn /\ phase \in Reading
    <3>1. /\ phase = "command" /\ stream[conn] = <<>> /\ fsize = 0 /\ block = <<>>
          /\ position = 0 /\ total = 0
      BY <1>1, <2>6, NotYet
    <3>2. /\ total' = 0 /\ out'[conn'] = whole /\ session'[conn'] = "replying"
          /\ sent'[conn'] = n
      BY <1>2, <2>1, <2>5, <2>6, <3>1
    <3>3. PICK k \in Nat : k = n + 5
      BY <2>2
    <3>4. ASSUME NEW i \in 1..n + 5 PROVE whole[i] = said(n, k, 0 + i)
      <4>1. i \in Nat /\ i <= k /\ 0 + i = i
        BY <2>2, <3>3
      <4> QED
        BY <4>1 DEF said, whole
    <3>5. Unwritten(n, k)'
      <4>1. Len(out'[conn']) = k - 0 /\ Len(out'[conn']) = n + 5
        BY <2>3, <3>2, <3>3
      <4> QED
        BY <3>2, <3>3, <3>4, <4>1 DEF Unwritten
    <3>6. Received(n, k)'
      BY <1>2, <3>1 DEF Received
    <3>7. \A i \in 1..Len(stream'[conn']) : stream'[conn'][i] = said(n, k, position' + i)
      BY <1>2, <3>1
    <3>8. k \in 4..n + 5 /\ total' <= k + 3 /\ phase' \in Reading \ {"end"}
      BY <1>2, <2>2, <3>1, <3>2, <3>3 DEF Reading
    <3>9. FileSent(n, k)'
      BY <3>2, <3>5, <3>6, <3>7, <3>8 DEF FileSent
    <3>10. StreamInv'
      BY <1>2, <3>1, <3>2, <3>9 DEF StreamInv
    <3> QED
      BY <2>5, <3>10
  <2> QED
    BY <2>5, <2>6
<1>4. ASSUME reply(c, refusal, "replying"), sent' = sent
      PROVE  Shape' /\ StreamInv'
  <2>1. /\ sent' \in [Connections -> FileSizes \cup {NoSize}]
        /\ refusal \in Seq(Units) /\ Len(refusal) = 3
    BY <1>4, OtherReplies DEF Shape
  <2>2. /\ Shape' /\ session'[c] = "replying" /\ out'[c] = refusal
        /\ c # conn \/ phase \notin Reading => StreamInv'
        /\ c = conn /\ phase \in Reading => position' = position /\ total' = total
    BY <1>1, <1>4, <2>1, Replied
  <2>3. CASE c = conn /\ phase \in Reading
    <3>1. /\ phase = "command" /\ stream[conn] = <<>> /\ fsize = 0 /\ block = <<>>
          /\ position = 0 /\ total = 0
      BY <1>1, <2>3, NotYet
    <3>2. total' = 0 /\ out'[conn'] = refusal /\ session'[conn'] = "replying"
      BY <1>2, <2>2, <2>3, <3>1
    <3>3. total' + Len(out'[conn']) <= 3
      <4>1. total' = 0 /\ Len(out'[conn']) = 3
        BY <2>1, <3>2
      <4> QED
        BY <4>1
    <3>4. /\ \A i \in 1..Len(stream'[conn']) : stream'[conn'][i] = refusal[position' + i]
          /\ \A i \in 1..Len(out'[conn']) : out'[conn'][i] = refusal[total' + i]
      <4>1. \A i \in 1..3 : 0 + i = i
        OBVIOUS
      <4>2. Len(out'[conn']) = 3 /\ \A i \in 1..3 : out'[conn'][i] = refusal[i]
        BY <2>1, <3>2
      <4>3. stream'[conn'] = <<>>
        BY <1>2, <3>1
      <4>4. \A i \in 1..3 : refusal[total' + i] = refusal[i]
        BY <3>2, <4>1
      <4>5. \A i \in 1..Len(out'[conn']) : out'[conn'][i] = refusal[total' + i]
        BY <4>2, <4>4
      <4>6. \A i \in 1..Len(stream'[conn']) : stream'[conn'][i] = refusal[position' + i]
        BY <4>3
      <4> QED
        BY <1>2, <4>5, <4>6
    <3>5. RefusalSent'
      BY <1>2, <3>1, <3>2, <3>3, <3>4 DEF RefusalSent
    <3>6. StreamInv'
      BY <1>2, <3>1, <3>2, <3>5 DEF StreamInv
    <3> QED
      BY <2>2, <3>6
  <2> QED
    BY <2>2, <2>3
<1> QED
  BY <1>3, <1>4 DEF Serve

-----------------------------------------------------------------------------
(* The whole.                                                              *)

LEMMA SessionStep ==
    ASSUME Shape, StreamInv, Kept, NEW c \in Connections,
           Accept(c) \/ SessionRuns(c) \/ SessionDies(c)
    PROVE  Shape' /\ StreamInv' /\ Kept'
<1>1. Shape' /\ StreamInv'
  BY AcceptSteps, ServeSteps, RequestFailsSteps, WriteSteps, WriteFailsSteps, EndSteps
     DEF SessionRuns
<1>2. session \in [Connections -> Labels] /\ sent \in [Connections -> FileSizes \cup {NoSize}]
  BY DEF Shape, Labels
<1>3. UNCHANGED playerVars
  BY DEF Accept, SessionRuns, Serve, RequestFails, Write, WriteFails, Finish, SessionDies
<1>4. ASSUME conn \in Connections
      PROVE  \/ session'[conn] = session[conn] /\ sent'[conn] = sent[conn]
             \/ session[conn] \in {"queued", "reading"}
             \/ /\ session'[conn] \in {"replying", "failing", "ended"}
                /\ sent'[conn] = sent[conn]
  <2>1. CASE c = conn
    BY <1>2, <1>4, <2>1
       DEF Accept, SessionRuns, Serve, RequestFails, Write, WriteFails, Finish,
           SessionDies, reply, goto, writing
  <2>2. CASE c # conn
    BY <1>2, <1>4, <2>2
       DEF Accept, SessionRuns, Serve, RequestFails, Write, WriteFails, Finish,
           SessionDies, reply, goto, writing
  <2> QED
    BY <2>1, <2>2
<1> QED
  BY <1>1, <1>3, <1>4, KeptSession

LEMMA Initially == Init => IInv
<1> SUFFICES ASSUME Init PROVE IInv
  OBVIOUS
<1>1. <<>> \in Seq(Units) /\ Len(<<>>) = 0
  OBVIOUS
<1>2. phase = "prompt" /\ result = "none" /\ conn = 0
  BY DEF Init
<1>3. Shape
  BY <1>1, Sizes DEF Init, Shape, Phases, Results, Reading
<1>4. StreamInv
  BY <1>2 DEF StreamInv, Reading
<1>5. Kept
  BY <1>2 DEF Kept, StoredInv, StoredFileIsWhole, FailureLeavesNoFile
<1> QED
  BY <1>3, <1>4, <1>5 DEF IInv

LEMMA Preserved == IInv /\ [Next]_vars => IInv'
<1> SUFFICES ASSUME Shape, StreamInv, Kept, [Next]_vars
             PROVE  Shape' /\ StreamInv' /\ Kept'
  BY DEF IInv
<1>1. CASE Ask
  BY <1>1, Asked
<1>2. CASE AskFails
  BY <1>2, NotAsked
<1>3. CASE PlayerReads
  BY <1>3, PlayerStep, ShapeRead
<1>4. CASE PlayerDies
  BY <1>4, Died
<1>5. ASSUME NEW c \in Connections, Accept(c) \/ SessionRuns(c) \/ SessionDies(c)
      PROVE  Shape' /\ StreamInv' /\ Kept'
  BY <1>5, SessionStep
<1>6. CASE UNCHANGED vars
  <2>1. /\ UNCHANGED <<playerVars, left>> /\ session' = session /\ sent' = sent
        /\ out' = out /\ stream' = stream
    BY <1>6 DEF vars, sessionVars
  <2>2. Shape'
    BY <2>1 DEF playerVars, Shape
  <2>3. StreamInv'
    BY <2>1, OtherSession
  <2>4. Kept'
    BY <2>1, KeptSession
  <2> QED
    BY <2>2, <2>3, <2>4
<1> QED
  BY <1>1, <1>2, <1>3, <1>4, <1>5, <1>6 DEF Next

(* Every state: what is on the way and what is kept are parts of one reply *)
(* that was cut off at most once, outside the words before its file.       *)
THEOREM TransferInvariance == Spec => []IInv
BY Initially, Preserved, PTL DEF Spec

(* Every word that the player reads is the one of the reply that it is     *)
(* read for, whatever the session has written and wherever it stopped.     *)
THEOREM TransferTypeCorrect == Spec => []TransferTypeOK
<1>1. ASSUME IInv PROVE TransferTypeOK
  <2>1. /\ phase \in Phases /\ result \in Results /\ conn \in 0..MaxCommands
        /\ fsize \in FileSizes \cup {0} /\ Len(block) < Block
        /\ \A c \in Connections :
             /\ session[c] \in {"none", "queued", "reading", "replying", "failing", "ended"}
             /\ sent[c] \in FileSizes \cup {NoSize}
             /\ Len(stream[c]) <= Capacity
    BY <1>1 DEF IInv, Shape
  <2>2. ASSUME arrived
        PROVE  /\ phase = "command" => unit \in {Unit("command"), Unit("ERR")}
               /\ phase = "status" => unit \in {Unit("ok"), Unit("nok")}
               /\ phase = "end" => unit = Unit("eol")
               /\ phase = "fname" => unit = Unit("fname")
               /\ phase = "fsize" => unit = <<"fsize", sent[conn]>>
    <3>1. ASSUME NEW n \in FileSizes, NEW k \in Nat, FileSent(n, k)
          PROVE  /\ phase = "command" => unit = Unit("command")
                 /\ phase = "status" => unit = Unit("ok")
                 /\ phase # "end"
                 /\ phase = "fname" => unit = Unit("fname")
                 /\ phase = "fsize" => unit = <<"fsize", sent[conn]>>
      <4>1. n \in Nat /\ k \in 4..n + 5 /\ sent[conn] = n /\ phase # "end"
        BY <3>1, Sizes DEF FileSent
      <4>2. unit = said(n, k, position + 1)
        BY <1>1, <2>2, <3>1, FileUnit DEF IInv
      <4>3. /\ said(n, k, 1) = Unit("command") /\ said(n, k, 2) = Unit("ok")
            /\ said(n, k, 3) = Unit("fname") /\ said(n, k, 4) = <<"fsize", n>>
        BY <4>1, Said
      <4>4. /\ phase = "command" => position + 1 = 1
            /\ phase = "status" => position + 1 = 2
            /\ phase = "fname" => position + 1 = 3
            /\ phase = "fsize" => position + 1 = 4
        BY DEF position
      <4> QED
        BY <4>1, <4>2, <4>3, <4>4
    <3>2. RefusalSent =>
            /\ phase \in {"command", "status", "end"}
            /\ phase = "command" => unit = Unit("command")
            /\ phase = "status" => unit = Unit("nok")
            /\ phase = "end" => unit = Unit("eol")
      BY <1>1, <2>2, RefusalUnit DEF IInv, RefusalSent
    <3>3. UnreadableSent => phase = "command" /\ unit = Unit("ERR")
      BY <1>1, <2>2, UnreadableUnit DEF IInv, UnreadableSent
    <3> QED
      BY <1>1, <2>2, <3>1, <3>2, <3>3, Answered DEF IInv
  <2> QED
    BY <2>1, <2>2 DEF TransferTypeOK
<1> QED
  BY <1>1, TransferInvariance, PTL

(* What the player keeps as received is the file that was sent, or the one *)
(* splice of it with a refusal, for every size, block and room.            *)
THEOREM StoredFileAlwaysWhole == Spec => []StoredFileIsWhole
<1>1. IInv => StoredFileIsWhole
  BY DEF IInv, Kept
<1> QED
  BY <1>1, TransferInvariance, PTL

(* A command that reports a failure leaves no whole file of its own.       *)
THEOREM FailureAlwaysLeavesNoFile == Spec => []FailureLeavesNoFile
<1>1. IInv => FailureLeavesNoFile
  BY DEF IInv, Kept
<1> QED
  BY <1>1, TransferInvariance, PTL

==============================================================================

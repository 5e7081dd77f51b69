--------------------------- MODULE ProcessesProofs ---------------------------
(***************************************************************************)
(* Safety of the Game Server's processes, for any set of sessions: a lock  *)
(* belongs to a process at work, and after one Ctrl-C the UDP process is   *)
(* the last to end, but for sessions forked after the listener's turn.     *)
(***************************************************************************)
EXTENDS Processes, TLAPS

UDPLabels == {"init", "failed", "test", "recvfrom", "lock", "hold", "save",
              "saving", "ended"}
TCPLabels == {"init", "failed", "test", "accept", "ended"}
SessionLabels == {"none", "queued", "unserved", "read", "lock", "hold",
                  "write", "error", "ended"}

TypeInv ==
    /\ pc \in [Everyone -> UDPLabels \cup TCPLabels \cup SessionLabels]
    /\ pc[UDP] \in UDPLabels
    /\ pc[TCP] \in TCPLabels
    /\ \A s \in Sessions : pc[s] \in SessionLabels
    /\ shutdown \in [Everyone -> BOOLEAN]
    /\ handling \in [Everyone -> BOOLEAN]
    /\ pending \in SUBSET Everyone
    /\ presses \in 0..2
    /\ lock \in Everyone \cup {Nobody}

(* A process works on the file exactly when it has the lock.               *)
LockInv == \A p \in Everyone : hasLock(p) <=> lock = p

SignalInv ==
    /\ \A p \in Everyone : handling[p] => shutdown[p] /\ runs(p)
    /\ \A p \in pending : runs(p)

(* Before the second Ctrl-C: what a process knows of its children when its *)
(* handler has returned, and who may have ended.                           *)
OrderInv ==
    /\ presses = 0 => pending = {} /\ \A p \in Everyone : ~shutdown[p]
    /\ presses <= 1 =>
         /\ \A p \in pending : ~shutdown[p]
         /\ \A p \in Listeners : pc[p] = "ended" => shutdown[p] /\ ~handling[p]
         /\ shutdown[UDP] /\ ~handling[UDP] => ~runs(TCP)
         /\ shutdown[TCP] /\ ~handling[TCP] =>
              \A s \in Sessions : runs(s) => s \in late
    /\ pc[TCP] \in {"init", "failed"} => \A s \in Sessions : ~runs(s)

IInv == TypeInv /\ LockInv /\ SignalInv /\ OrderInv

USE DEF Listeners, Everyone, NotRunning, UDPLabels, TCPLabels, SessionLabels

-----------------------------------------------------------------------------
LEMMA Distinct ==
    /\ UDP # TCP /\ UDP \notin Sessions /\ TCP \notin Sessions
    /\ Nobody \notin Everyone
BY ProcessAssumption

LEMMA InitInv == Init => IInv
<1> SUFFICES ASSUME Init PROVE IInv
  OBVIOUS
<1>1. \A p \in Everyone : ~shutdown[p] /\ ~handling[p] /\ pc[p] \in {"init", "none"}
  BY DEF Init
<1>2. pc[UDP] = "init" /\ pc[TCP] = "init" /\ \A s \in Sessions : pc[s] = "none"
  BY Distinct DEF Init
<1>3. TypeInv
  BY <1>2 DEF Init, TypeInv
<1>4. LockInv
  BY <1>1, Distinct DEF Init, LockInv, hasLock
<1>5. SignalInv /\ OrderInv
  BY <1>1, <1>2 DEF Init, SignalInv, OrderInv, runs
<1> QED
  BY <1>3, <1>4, <1>5 DEF IInv

(* The steps that change no signals.                                       *)
LEMMA WorkStep ==
    ASSUME IInv, NEW p \in Everyone,
           \/ p \in Listeners /\ (Listen(p) \/ Test(p))
           \/ p = UDP /\ Receive
           \/ p # TCP /\ (Lock(p) \/ Unlock(p))
           \/ p \in Sessions /\ (ReadRequest(p) \/ WriteReply(p))
    PROVE  IInv'
<1> USE DEF IInv
<1>1. /\ UNCHANGED <<shutdown, handling, pending, presses, late, missed>>
      /\ runs(p) /\ ~handling[p] /\ p \notin pending
  BY DEF Listen, Test, Receive, Lock, Unlock, ReadRequest, WriteReply, free, signals
<1>2. \E l : /\ pc' = [pc EXCEPT ![p] = l]
             /\ p = UDP => l \in UDPLabels
             /\ p = TCP => l \in TCPLabels
             /\ p \in Sessions => l \in SessionLabels
             /\ p \in Listeners /\ l = "ended" => shutdown[p]
             /\ l = "failed" => pc[p] = "init" /\ p \in Listeners
             /\ l # "init"
  BY Distinct DEF Listen, Test, Receive, Lock, Unlock, ReadRequest, WriteReply,
                  goto, served, end, hasLock, asksLock, free, TypeInv
<1>3. /\ lock' \in Everyone \cup {Nobody}
      /\ \A q \in Everyone : hasLock(q)' <=> lock' = q
  BY Distinct DEF Listen, Test, Receive, Lock, Unlock, ReadRequest, WriteReply,
                  goto, served, end, hasLock, asksLock, free, TypeInv, LockInv
<1>4. PICK l : /\ pc' = [pc EXCEPT ![p] = l]
               /\ p = UDP => l \in UDPLabels
               /\ p = TCP => l \in TCPLabels
               /\ p \in Sessions => l \in SessionLabels
               /\ p \in Listeners /\ l = "ended" => shutdown[p]
               /\ l = "failed" => pc[p] = "init" /\ p \in Listeners
               /\ l # "init"
  BY <1>2
<1>5. TypeInv'
  BY <1>1, <1>3, <1>4, Distinct DEF TypeInv
<1>6. \A q \in Everyone : runs(q)' => runs(q)
  BY <1>1, <1>4 DEF TypeInv, runs
<1>7. SignalInv'
  BY <1>1, <1>4, <1>6, Distinct DEF SignalInv, TypeInv, runs
<1>8. OrderInv'
  BY <1>1, <1>4, <1>6, Distinct DEF OrderInv, TypeInv, runs
<1> QED
  BY <1>3, <1>5, <1>7, <1>8 DEF LockInv

(* A connection waits for its session.                                     *)
LEMMA ConnectStep ==
    ASSUME IInv, NEW s \in Sessions, Connect(s)
    PROVE  IInv'
<1> USE DEF IInv
<1>1. /\ UNCHANGED <<lock, shutdown, handling, pending, presses, late, missed>>
      /\ pc[s] = "none" /\ pc' = [pc EXCEPT ![s] = "queued"]
  BY DEF Connect, goto, signals
<1>2. TypeInv'
  BY <1>1, Distinct DEF TypeInv
<1>3. \A q \in Everyone : (runs(q)' <=> runs(q)) /\ (hasLock(q)' <=> hasLock(q))
  BY <1>1 DEF TypeInv, runs, hasLock
<1>4. \A p \in Listeners : pc'[p] = pc[p]
  BY <1>1, Distinct DEF TypeInv
<1>5. LockInv'
  BY <1>1, <1>3 DEF LockInv
<1>6. SignalInv'
  BY <1>1, <1>3 DEF SignalInv, TypeInv
<1>7. OrderInv'
  BY <1>1, <1>3, <1>4 DEF OrderInv, TypeInv
<1> QED
  BY <1>2, <1>5, <1>6, <1>7

(* A new session knows what the listener knows.                            *)
LEMMA AcceptStep ==
    ASSUME IInv, NEW s \in Sessions, Accept(s)
    PROVE  IInv'
<1> USE DEF IInv
<1>1. /\ UNCHANGED <<lock, handling, pending, presses, missed>>
      /\ pc[s] = "queued" /\ pc[TCP] = "accept"
      /\ ~handling[TCP] /\ TCP \notin pending
  BY DEF Accept, free
<1>2. PICK l \in {"read", "unserved"} : pc' = [pc EXCEPT ![TCP] = "test", ![s] = l]
  BY DEF Accept
<1>3. /\ l = "read" => /\ shutdown' = [shutdown EXCEPT ![s] = shutdown[TCP]]
                       /\ shutdown[TCP] => late' = late \cup {s}
                       /\ ~shutdown[TCP] => late' = late
      /\ l = "unserved" => UNCHANGED <<shutdown, late>>
  <2>1. pc'[s] = l
    BY <1>2, Distinct DEF TypeInv
  <2> QED
    BY <1>2, <2>1, Distinct DEF Accept, TypeInv
<1>4. TypeInv'
  BY <1>1, <1>2, <1>3, Distinct DEF TypeInv
<1>5. /\ \A q \in Everyone : q # s => (runs(q)' <=> runs(q)) /\ shutdown'[q] = shutdown[q]
      /\ \A q \in Everyone : hasLock(q)' <=> hasLock(q)
      /\ ~runs(s) /\ (runs(s)' => l = "read")
      /\ pc'[TCP] = "test" /\ pc'[UDP] = pc[UDP]
  BY <1>1, <1>2, <1>3, Distinct DEF TypeInv, runs, hasLock
<1>6. LockInv'
  BY <1>1, <1>5 DEF LockInv
<1>7. SignalInv'
  BY <1>1, <1>5, Distinct DEF SignalInv, TypeInv
<1>8. OrderInv'
  <2>1. presses' = 0 => pending' = {} /\ \A p \in Everyone : ~shutdown'[p]
    BY <1>1, <1>2, <1>3, Distinct DEF OrderInv, TypeInv
  <2>2. presses' <= 1 =>
          /\ \A p \in pending' : ~shutdown'[p]
          /\ \A p \in Listeners : pc'[p] = "ended" => shutdown'[p] /\ ~handling'[p]
    BY <1>1, <1>5, Distinct DEF OrderInv, SignalInv, TypeInv
  <2>3. presses' <= 1 /\ shutdown'[UDP] /\ ~handling'[UDP] => ~runs(TCP)'
    BY <1>1, <1>5, Distinct DEF OrderInv
  <2>4. presses' <= 1 /\ shutdown'[TCP] /\ ~handling'[TCP] =>
          \A q \in Sessions : runs(q)' => q \in late'
    BY <1>1, <1>3, <1>5, Distinct DEF OrderInv
  <2> QED
    BY <1>5, <2>1, <2>2, <2>3, <2>4 DEF OrderInv
<1> QED
  BY <1>4, <1>6, <1>7, <1>8

(* Ctrl-C goes to every process that runs.                                 *)
LEMMA PressStep ==
    ASSUME IInv, Press
    PROVE  IInv'
BY DEF IInv, TypeInv, LockInv, SignalInv, OrderInv, Press, runs, hasLock

(* The handler ends a process only when it knew of the shutdown before.    *)
LEMMA InterruptStep ==
    ASSUME IInv, NEW p \in Everyone, Interrupt(p)
    PROVE  IInv'
<1> USE DEF IInv
<1>1. /\ p \in pending /\ pending' = pending \ {p} /\ runs(p)
      /\ UNCHANGED <<presses, late>>
  BY DEF Interrupt, SignalInv
<1>2. CASE shutdown[p]
  <2>1. /\ pc' = [pc EXCEPT ![p] = "ended"]
        /\ lock' = IF lock = p THEN Nobody ELSE lock
        /\ handling' = [handling EXCEPT ![p] = FALSE]
        /\ UNCHANGED shutdown
    BY <1>2 DEF Interrupt, end, goto
  <2>2. presses = 2
    BY <1>1, <1>2 DEF OrderInv, TypeInv
  <2>3. TypeInv'
    BY <1>1, <2>1, Distinct DEF TypeInv
  <2>4. \A q \in Everyone : q # p => (runs(q)' <=> runs(q)) /\ (hasLock(q)' <=> hasLock(q))
    BY <2>1 DEF TypeInv, runs, hasLock
  <2>5. ~runs(p)' /\ ~hasLock(p)'
    BY <2>1 DEF TypeInv, runs, hasLock
  <2>6. LockInv'
    BY <2>1, <2>4, <2>5, Distinct DEF LockInv
  <2>7. SignalInv'
    BY <1>1, <2>1, <2>4 DEF SignalInv, TypeInv
  <2>8. OrderInv'
    <3>1. pc'[TCP] \in {"init", "failed"} => pc[TCP] \in {"init", "failed"}
      BY <2>1, Distinct DEF TypeInv
    <3>2. \A q \in Sessions : runs(q)' => runs(q)
      BY <2>4, <2>5
    <3> QED
      BY <1>1, <2>2, <3>1, <3>2 DEF OrderInv
  <2> QED
    BY <2>3, <2>6, <2>7, <2>8
<1>3. CASE ~shutdown[p]
  <2>1. /\ shutdown' = [shutdown EXCEPT ![p] = TRUE]
        /\ handling' = [handling EXCEPT ![p] = TRUE]
        /\ UNCHANGED lock
        /\ resume(p)
    BY <1>3 DEF Interrupt
  <2>2. PICK l : /\ pc' = [pc EXCEPT ![p] = l]
                 /\ l = pc[p] \/ ( /\ ~hasLock(p)
                                   /\ p \in Listeners => l \in {"test", "save"}
                                   /\ l = "save" => p = UDP
                                   /\ p \in Listeners => pc[p] \in {"recvfrom", "accept", "lock", "save"}
                                   /\ p \in Sessions => l \in {"write", "error"})
    <3>1. CASE UNCHANGED pc
      <4>1. pc' = [pc EXCEPT ![p] = pc[p]]
        BY <3>1 DEF TypeInv
      <4> QED
        BY <4>1
    <3>2. CASE interruptible(p) /\ \E label \in afterInterrupt(p) : goto(p, label)
      <4> PICK label \in afterInterrupt(p) : goto(p, label)
        BY <3>2
      <4>1. ~hasLock(p) /\ (p \in Listeners => pc[p] \in {"recvfrom", "accept", "lock", "save"})
        BY <3>2, Distinct DEF interruptible, asksLock, hasLock, TypeInv
      <4>2. CASE p \in Listeners
        <5>1. label = "test" \/ (label = "save" /\ pc[p] = "lock")
          BY <4>2 DEF afterInterrupt
        <5>2. label = "save" => p = UDP
          BY <4>2, <5>1, Distinct DEF TypeInv
        <5>3. pc' = [pc EXCEPT ![p] = label]
          BY DEF goto
        <5> QED
          BY <4>1, <4>2, <5>1, <5>2, <5>3, Distinct
      <4>3. CASE p \in Sessions
        <5>1. label \in {"write", "error"} /\ p \notin Listeners
          BY <4>3, Distinct DEF afterInterrupt
        <5>2. pc' = [pc EXCEPT ![p] = label]
          BY DEF goto
        <5> QED
          BY <4>1, <4>3, <5>1, <5>2
      <4> QED
        BY <4>2, <4>3
    <3> QED
      BY <2>1, <3>1, <3>2 DEF resume
  <2>3. TypeInv'
    BY <1>1, <2>1, <2>2, Distinct DEF TypeInv
  <2>4. \A q \in Everyone : (runs(q)' <=> runs(q)) /\ (hasLock(q)' <=> hasLock(q))
    BY <1>1, <2>2, Distinct DEF TypeInv, runs, hasLock
  <2>5. \A q \in Listeners : pc'[q] \in {"init", "failed", "ended"} => pc'[q] = pc[q]
    BY <2>2, Distinct DEF TypeInv
  <2>6. LockInv'
    BY <2>1, <2>4 DEF LockInv
  <2>7. SignalInv'
    BY <1>1, <2>1, <2>4 DEF SignalInv, TypeInv
  <2>8. OrderInv'
    <3>1. presses' # 0
      BY <1>1 DEF OrderInv
    <3>2. \A q \in Everyone : q # p => shutdown'[q] = shutdown[q] /\ handling'[q] = handling[q]
      BY <2>1 DEF TypeInv
    <3>3. shutdown'[p] /\ handling'[p]
      BY <2>1 DEF TypeInv
    <3>4. presses' <= 1 =>
            /\ \A q \in pending' : ~shutdown'[q]
            /\ \A q \in Listeners : pc'[q] = "ended" => shutdown'[q] /\ ~handling'[q]
      <4>1. pc[p] # "ended"
        BY <1>1 DEF runs
      <4> QED
        BY <1>1, <2>5, <3>2, <4>1 DEF OrderInv, TypeInv
    <3>5. presses' <= 1 =>
            /\ shutdown'[UDP] /\ ~handling'[UDP] => ~runs(TCP)'
            /\ shutdown'[TCP] /\ ~handling'[TCP] =>
                 \A s \in Sessions : runs(s)' => s \in late'
      BY <1>1, <2>4, <3>2, <3>3, Distinct DEF OrderInv
    <3> QED
      BY <2>4, <2>5, <3>1, <3>4, <3>5 DEF OrderInv
  <2> QED
    BY <2>3, <2>6, <2>7, <2>8
<1> QED
  BY <1>2, <1>3

(* The handler returns when no child runs.                                 *)
LEMMA ResumeStep ==
    ASSUME IInv, NEW p \in Everyone, Resume(p)
    PROVE  IInv'
<1> USE DEF IInv
<1>1. /\ handling[p] /\ handling' = [handling EXCEPT ![p] = FALSE]
      /\ UNCHANGED <<pc, shutdown, pending, presses, lock, late, missed>>
      /\ p = UDP => ~runs(TCP)
      /\ p = TCP => \A s \in Sessions : ~runs(s)
  BY Distinct DEF Resume, childrenEnded, children
<1>2. TypeInv' /\ LockInv'
  BY <1>1 DEF TypeInv, LockInv, hasLock
<1>3. SignalInv'
  BY <1>1 DEF SignalInv, TypeInv, runs
<1>4. OrderInv'
  <2>1. \A q \in Everyone : handling'[q] => handling[q]
    BY <1>1 DEF TypeInv
  <2>2. \A q \in Everyone : q # p => handling'[q] = handling[q]
    BY <1>1 DEF TypeInv
  <2> QED
    BY <1>1, <2>1, <2>2, Distinct DEF OrderInv, runs
<1> QED
  BY <1>2, <1>3, <1>4

-----------------------------------------------------------------------------
LEMMA NextInv == IInv /\ [Next]_vars => IInv'
<1> SUFFICES ASSUME IInv, [Next]_vars PROVE IInv'
  OBVIOUS
<1>1. CASE \E p \in Everyone : Runs(p)
  <2>1. PICK p \in Everyone : Runs(p)
    BY <1>1
  <2> QED
    BY <2>1, InterruptStep, ResumeStep, WorkStep DEF Runs
<1>2. CASE Receive
  BY <1>2, WorkStep
<1>3. CASE Press
  BY <1>3, PressStep
<1>4. CASE \E s \in Sessions : Connect(s) \/ Accept(s)
  BY <1>4, ConnectStep, AcceptStep
<1>5. CASE UNCHANGED vars
  BY <1>5 DEF vars, IInv, TypeInv, LockInv, SignalInv, OrderInv, runs, hasLock
<1> QED
  BY <1>1, <1>2, <1>3, <1>4, <1>5 DEF Next

(* The inductive invariant of the processes.                               *)
THEOREM ProcessInvariance == Spec => []IInv
<1> QED
  BY InitInv, NextInv, PTL DEF Spec

(* A lock always belongs to a process at work on the file, and only an     *)
(* interrupted process is in its handler.                                  *)
THEOREM ProcessTypeCorrect == Spec => []ProcessTypeOK
<1>1. IInv => ProcessTypeOK
  BY Distinct DEF IInv, TypeInv, LockInv, SignalInv, ProcessTypeOK
<1> QED
  BY <1>1, ProcessInvariance, PTL

(* After one Ctrl-C the UDP process outlives the listener and every        *)
(* session, however many there are, but for those forked after the         *)
(* listener was interrupted.                                               *)
THEOREM ChildrenEndFirst == Spec => []OnlyLatecomersOutlive
<1>1. IInv => OnlyLatecomersOutlive
  <2> SUFFICES ASSUME IInv, pc[UDP] = "ended", presses <= 1
               PROVE  ~runs(TCP) /\ \A s \in Sessions : runs(s) => s \in late
    BY DEF OnlyLatecomersOutlive
  <2>1. ~runs(TCP)
    BY DEF IInv, OrderInv
  <2>2. CASE pc[TCP] = "ended"
    BY <2>1, <2>2 DEF IInv, OrderInv
  <2>3. CASE pc[TCP] = "failed"
    BY <2>1, <2>3 DEF IInv, OrderInv
  <2> QED
    BY <2>1, <2>2, <2>3 DEF IInv, TypeInv, runs
<1> QED
  BY <1>1, ProcessInvariance, PTL
=============================================================================

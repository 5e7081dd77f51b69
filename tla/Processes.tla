------------------------------ MODULE Processes ------------------------------
(***************************************************************************)
(* The processes of the Game Server and their end (src/GS/GS.c).  The UDP  *)
(* process forks the TCP listener, which forks a session for each          *)
(* connection.  Ctrl-C sends SIGINT to all of them; the handler sets       *)
(* `shutdown` and waits for the children, and ends the process when it     *)
(* runs a second time.                                                     *)
(*                                                                         *)
(* The program is built with -std=c17 -D_POSIX_C_SOURCE (Makefile), where  *)
(* signal() neither restarts the call it interrupts nor blocks the signal  *)
(* in its handler.  What a session reads and writes is the subject of      *)
(* Transfer; here each of its calls returns or fails.  All game files are  *)
(* one, with one lock.  A score file may be locked while the scoreboard is *)
(* being written (persistence.c:523, 483), but only the UDP process uses   *)
(* score files: it never waits for one.                                    *)
(***************************************************************************)
EXTENDS Naturals

CONSTANTS
    UDP,       \* the process that the user starts
    TCP,       \* its child, the listener
    Sessions,  \* the children of that
    Nobody

ASSUME ProcessAssumption ==
    /\ UDP # TCP
    /\ {UDP, TCP, Nobody} \cap Sessions = {}
    /\ Nobody \notin {UDP, TCP}

VARIABLES
    pc,        \* what a process does, or is about to do
    shutdown,  \* process -> serverState.shutdown, in its own memory
    handling,  \* process -> whether its handler waits for children
    pending,   \* the processes that have a SIGINT to handle
    presses,   \* how often Ctrl-C was pressed
    lock,      \* who has the lock on the game file
    late,      \* sessions forked after the listener was interrupted
    missed     \* processes interrupted between the test of shutdown and the
               \*   call that waits for the next datagram or connection

vars == <<pc, shutdown, handling, pending, presses, lock, late, missed>>
signals == <<shutdown, handling, pending, presses, late, missed>>

Listeners == {UDP, TCP}
Everyone == Listeners \cup Sessions

NotRunning == {"none", "queued", "unserved", "failed", "ended"}
runs(p) == pc[p] \notin NotRunning

children(p) == IF p = UDP THEN {TCP} ELSE IF p = TCP THEN Sessions ELSE {}

(* A signal is handled before the process does anything else.              *)
free(p) == runs(p) /\ ~handling[p] /\ p \notin pending

Init ==
    /\ pc = [p \in Everyone |-> IF p \in Listeners THEN "init" ELSE "none"]
    /\ shutdown = [p \in Everyone |-> FALSE]
    /\ handling = [p \in Everyone |-> FALSE]
    /\ pending = {} /\ presses = 0
    /\ lock = Nobody
    /\ late = {} /\ missed = {}

goto(p, label) == pc' = [pc EXCEPT ![p] = label]

(* The end of a process gives up its lock.                                 *)
end(p) ==
    /\ goto(p, "ended")
    /\ lock' = IF lock = p THEN Nobody ELSE lock

-----------------------------------------------------------------------------
(* The listeners.  Each sets up its own socket; a failure ends that one    *)
(* alone.                                                                  *)
Listen(p) ==
    /\ free(p) /\ pc[p] = "init"
    /\ goto(p, "test") \/ goto(p, "failed")
    /\ UNCHANGED <<lock, signals>>

(* Mutant: the loop has no end.                                            *)
Test_ignoresFlag(p) ==
    /\ free(p) /\ pc[p] = "test"
    /\ goto(p, IF p = UDP THEN "recvfrom" ELSE "accept")
    /\ UNCHANGED <<lock, signals>>

Test(p) ==
    /\ free(p) /\ pc[p] = "test"
    /\ goto(p, IF shutdown[p] THEN "ended" ELSE IF p = UDP THEN "recvfrom" ELSE "accept")
    /\ UNCHANGED <<lock, signals>>

(* A datagram, for which the game file is locked, or an error.             *)
Receive ==
    /\ free(UDP) /\ pc[UDP] = "recvfrom"
    /\ goto(UDP, "lock") \/ goto(UDP, "test")
    /\ UNCHANGED <<lock, signals>>

(* Sessions inherit the listening socket and do not close it: connections  *)
(* queue as long as one of them runs.                                      *)
listening == pc[TCP] \in {"test", "accept"} \/ \E s \in Sessions : runs(s)

Connect(s) ==
    /\ pc[s] = "none" /\ listening
    /\ goto(s, "queued")
    /\ UNCHANGED <<lock, signals>>

(* accept, fork: the session has the listener's `shutdown`.  Without fork  *)
(* the listener goes on with the connection open and unserved.             *)
Accept(s) ==
    /\ free(TCP) /\ pc[TCP] = "accept" /\ pc[s] = "queued"
    /\ \/ /\ pc' = [pc EXCEPT ![TCP] = "test", ![s] = "read"]
          /\ shutdown' = [shutdown EXCEPT ![s] = shutdown[TCP]]
          /\ late' = IF shutdown[TCP] THEN late \cup {s} ELSE late
       \/ /\ pc' = [pc EXCEPT ![TCP] = "test", ![s] = "unserved"]
          /\ UNCHANGED <<shutdown, late>>
    /\ UNCHANGED <<lock, handling, pending, presses, missed>>

-----------------------------------------------------------------------------
(* The game file, for the UDP process and the sessions.                    *)

asksLock(p) == pc[p] \in {"lock", "save"}
hasLock(p) == pc[p] \in {"hold", "saving"}

Lock(p) ==
    /\ free(p) /\ asksLock(p) /\ lock = Nobody
    /\ lock' = p
    /\ goto(p, IF pc[p] = "lock" THEN "hold" ELSE "saving")
    /\ UNCHANGED signals

served(p) == goto(p, IF p = UDP THEN "test" ELSE "write")

(* Mutant: the file stays open.                                            *)
Unlock_keeps(p) ==
    /\ free(p) /\ hasLock(p)
    /\ served(p)
    /\ UNCHANGED <<lock, signals>>

(* A request of the UDP process that loads a game may also save it.        *)
Unlock(p) ==
    /\ free(p) /\ hasLock(p)
    /\ lock' = Nobody
    /\ served(p) \/ (p = UDP /\ pc[p] = "hold" /\ goto(p, "save"))
    /\ UNCHANGED signals

(* The sessions: every read and write returns within five seconds, and a   *)
(* failed handler is followed by one more reply.                           *)
ReadRequest(s) ==
    /\ free(s) /\ pc[s] = "read"
    /\ \E next \in {"lock", "write", "error"} : goto(s, next)
    /\ UNCHANGED <<lock, signals>>

WriteReply(s) ==
    /\ free(s) /\ pc[s] \in {"write", "error"}
    /\ end(s) \/ (pc[s] = "write" /\ goto(s, "error") /\ UNCHANGED lock)
    /\ UNCHANGED signals

-----------------------------------------------------------------------------
(* SIGINT.  One Ctrl-C after the other: signals that coincide are one.     *)
Press ==
    /\ presses < 2 /\ pending = {}
    /\ presses' = presses + 1
    /\ pending' = {p \in Everyone : runs(p)}
    /\ UNCHANGED <<pc, shutdown, handling, lock, late, missed>>

(* Where a process goes on when the call it waits in fails with EINTR.     *)
waitsForever(p) == pc[p] \in {"recvfrom", "accept"}
interruptible(p) == pc[p] \in {"recvfrom", "accept", "read", "write", "error"}
                    \/ (asksLock(p) /\ lock # Nobody)
(* A game that cannot be locked is no game: SNG goes on to save a new one, *)
(* and a session answers so.                                               *)
afterInterrupt(p) ==
    IF p \in Listeners
    THEN IF pc[p] = "lock" THEN {"test", "save"} ELSE {"test"}
    ELSE IF pc[p] = "lock" THEN {"write"} ELSE {"error"}

(* The handler runs before the call, or within it.                         *)
resume(p) ==
    \/ /\ UNCHANGED pc
       /\ missed' = IF waitsForever(p) THEN missed \cup {p} ELSE missed
    \/ /\ interruptible(p)
       /\ \E label \in afterInterrupt(p) : goto(p, label)
       /\ UNCHANGED missed

(* Mutant: the flag is set after the wait.                                 *)
Interrupt_flagLast(p) ==
    /\ p \in pending /\ pending' = pending \ {p}
    /\ handling' = [handling EXCEPT ![p] = TRUE]
    /\ UNCHANGED <<shutdown, lock>>
    /\ resume(p)
    /\ UNCHANGED <<presses, late>>

(* handleGracefulShutdownSignal, up to wait.                               *)
Interrupt(p) ==
    /\ p \in pending /\ pending' = pending \ {p}
    /\ \/ /\ shutdown[p]
          /\ end(p)
          /\ handling' = [handling EXCEPT ![p] = FALSE]
          /\ UNCHANGED <<shutdown, missed>>
       \/ /\ ~shutdown[p]
          /\ shutdown' = [shutdown EXCEPT ![p] = TRUE]
          /\ handling' = [handling EXCEPT ![p] = TRUE]
          /\ resume(p)
          /\ UNCHANGED lock
    /\ UNCHANGED <<presses, late>>

(* Mutant: the first child that ends is enough.                            *)
childrenEnded_one(p) ==
    children(p) = {} \/ \E q \in children(p) : ~runs(q)

childrenEnded(p) == \A q \in children(p) : ~runs(q)

(* wait has no more children to wait for.                                  *)
Resume(p) ==
    /\ handling[p] /\ p \notin pending /\ childrenEnded(p)
    /\ handling' = [handling EXCEPT ![p] = FALSE]
    /\ UNCHANGED <<pc, shutdown, pending, presses, lock, late, missed>>

-----------------------------------------------------------------------------
(* What a process does without anybody's help.                             *)
Runs(p) ==
    \/ Interrupt(p) \/ Resume(p)
    \/ p \in Listeners /\ (Listen(p) \/ Test(p))
    \/ p # TCP /\ (Lock(p) \/ Unlock(p))
    \/ p \in Sessions /\ (ReadRequest(p) \/ WriteReply(p))

Next ==
    \/ \E p \in Everyone : Runs(p)
    \/ Receive \/ Press
    \/ \E s \in Sessions : Connect(s) \/ Accept(s)

Spec == Init /\ [][Next]_vars

(* The system runs every process; nobody need send anything or press       *)
(* Ctrl-C.                                                                 *)
FairSpec == Spec /\ \A p \in Everyone : WF_vars(Runs(p))

-----------------------------------------------------------------------------
(* A lock belongs to a process at work on the file, also while its handler *)
(* waits, and only interrupted processes handle a signal.                  *)
ProcessTypeOK ==
    /\ \A p \in Listeners :
         pc[p] \in {"init", "failed", "test", "recvfrom", "accept", "lock", "hold",
                    "save", "saving", "ended"}
    /\ \A s \in Sessions :
         pc[s] \in {"none", "queued", "unserved", "read", "lock", "hold",
                    "write", "error", "ended"}
    /\ \A p \in Everyone :
         /\ hasLock(p) <=> lock = p
         /\ handling[p] => shutdown[p] /\ runs(p)
         /\ p \in pending => runs(p)
    /\ presses \in 0..2

everyoneEnded == \A p \in Everyone : ~runs(p)

(* One Ctrl-C, and the server ends as its handler promises, after its      *)
(* children: when the UDP process is over, so is the listener, and the     *)
(* sessions that still run were forked after the listener was interrupted. *)
OnlyLatecomersOutlive ==
    pc[UDP] = "ended" /\ presses <= 1 =>
        /\ ~runs(TCP)
        /\ \A s \in Sessions : runs(s) => s \in late

(* A signal that came between the test and the call is not noticed until   *)
(* the next datagram, or connection, comes.                                *)
oversleeping(p) == p \in missed /\ waitsForever(p) /\ ~handling[p]

(* The UDP process was interrupted with the lock, and a session that is    *)
(* interrupted before it asks for the lock waits for it, while the         *)
(* listener waits for the session and the UDP process for the listener.    *)
lockCycle ==
    /\ lock = UDP /\ handling[UDP]
    /\ \E s \in Sessions : pc[s] = "lock" /\ shutdown[s]

(* One Ctrl-C ends every process, whatever it was doing, with two          *)
(* exceptions: these are the only ways in which the server hangs, and only *)
(* until the second Ctrl-C.                                                *)
InterruptEnds ==
    presses = 1 ~> \/ everyoneEnded \/ presses = 2
                   \/ \E p \in Listeners : oversleeping(p)
                   \/ lockCycle

(* The second Ctrl-C ends every process, also those that oversleep or wait *)
(* for each other.                                                         *)
SecondInterruptEnds == presses = 2 ~> everyoneEnded
=============================================================================

------------------------------ MODULE RemoteConn ------------------------------
(***************************************************************************)
(* SCPConn (remoteconn.go): a connection whose scp.Conn can be replaced    *)
(* while goroutines read and write it.  A caller that meets a broken conn  *)
(* waits on connCond; the first to wait starts the reuse timer, a          *)
(* goroutine that closes the SCPConn unless the channel reuseCh is closed  *)
(* first.  Every critical section of connMutex is one step.  connClosed is *)
(* set together with connErr = errConnClosed, which nothing overwrites.    *)
(*                                                                         *)
(* The callers are the two pumps of server.go: "c2s" reads, "s2c" writes.  *)
(* Between two operations a pump is "away", at its other connection.       *)
(* Timer k is the k-th timer goroutine started; channel k is its done.     *)
(***************************************************************************)
EXTENDS Naturals

CONSTANT MaxConn   \* bound: how many reuse handshakes succeed

ASSUME MaxConnAssumption == MaxConn \in Nat

Callers == {"c2s", "s2c"}
Conns   == 0 .. MaxConn

VARIABLES
  conn, connErr,              \* SCPConn; connErr is "nil", "failed" or "closed"
  usable,                     \* Conns -> whether reading and writing it works
  pc, using,                  \* per caller: control state, conn it operates on
  reuseCh,                    \* the timer reuseCh belongs to; 0 is nil
  started,                    \* number of timer goroutines started
  running, expired, stopped,  \* timers: not returned, time over, channel closed
  replaced                    \* number of reuse handlers that have run

sessVars  == <<conn, connErr, usable, replaced>>
timerVars == <<reuseCh, started, running, expired, stopped>>
vars == <<sessVars, pc, using, timerVars>>

Init ==
  /\ conn = 0 /\ connErr = "nil"
  /\ usable = [c \in Conns |-> TRUE] /\ replaced = 0
  /\ pc = [p \in Callers |-> "acquire"] /\ using = [p \in Callers |-> 0]
  /\ reuseCh = 0 /\ started = 0
  /\ running = {} /\ expired = {} /\ stopped = {}

connClosed == connErr = "closed"

-----------------------------------------------------------------------------
(* startWait when reuseCh is ch at that point; the variants are wrong ones. *)
StartWait_NoTimer(ch) == reuseCh' = ch /\ UNCHANGED <<started, running>>
StartWait_NotCounted(ch) ==
  /\ reuseCh' = IF ch = 0 THEN started + 1 ELSE ch
  /\ UNCHANGED <<started, running>>
StartWait_Always(ch) ==
  /\ started' = started + 1
  /\ running' = running \cup {started + 1}
  /\ reuseCh' = started + 1
StartWait(ch) ==
  \/ /\ ch # 0
     /\ reuseCh' = ch
     /\ UNCHANGED <<started, running>>
  \/ /\ ch = 0
     /\ started' = started + 1
     /\ running' = running \cup {started + 1}
     /\ reuseCh' = started + 1

(* The loop of acquireConn from the test on.  ch is reuseCh on entry; what *)
(* a stopWait before it closed is in stopped'.                             *)
AcquireLoop(p, ch) ==
  \/ /\ connClosed
     /\ pc' = [pc EXCEPT ![p] = "end"]
     /\ reuseCh' = ch
     /\ UNCHANGED <<using, started, running>>
  \/ /\ connErr = "failed"
     /\ StartWait(ch)
     /\ pc' = [pc EXCEPT ![p] = "waiting"]
     /\ UNCHANGED using
  \/ /\ connErr = "nil"
     /\ pc' = [pc EXCEPT ![p] = "io"] /\ using' = [using EXCEPT ![p] = conn]
     /\ reuseCh' = ch
     /\ UNCHANGED <<started, running>>

AcquireConn(p) ==
  /\ pc[p] = "acquire"
  /\ AcquireLoop(p, reuseCh)
  /\ UNCHANGED <<sessVars, expired, stopped>>

(* connCond.Wait returns: stopWait, and round the loop. *)
StopWait_KeepCh == reuseCh
StopWait == 0

Wake(p) ==
  /\ pc[p] = "woken"
  /\ stopped' = stopped \cup ({reuseCh} \ {0})
  /\ AcquireLoop(p, StopWait)
  /\ UNCHANGED <<sessVars, expired>>

(* conn.Read or conn.Write outside the mutex.  A write that fails has still *)
(* been cached, so Write returns after reporting the error; Read returns n, *)
(* nil and the pump reads again.                                            *)
OperateOK(p) ==
  /\ pc[p] = "io" /\ usable[using[p]]
  /\ pc' = [pc EXCEPT ![p] = "away"]
  /\ UNCHANGED <<sessVars, using, timerVars>>

OperateFails(p) ==
  /\ pc[p] = "io" /\ ~usable[using[p]]
  /\ pc' = [pc EXCEPT ![p] = "report"]
  /\ UNCHANGED <<sessVars, using, timerVars>>

(* conn.Freeze happened with the failure: the conn is already unusable. *)
Current_Any(p) == TRUE
Current(p) == using[p] = conn

SetConnError(p) ==
  /\ pc[p] = "report"
  /\ connErr' = IF Current(p) /\ ~connClosed THEN "failed" ELSE connErr
  /\ \E next \in {"acquire", "away"} :
       /\ next = "away" => p = "s2c"
       /\ pc' = [pc EXCEPT ![p] = next]
  /\ UNCHANGED <<conn, usable, replaced, using, timerVars>>

(* The pump's other connection: done with it, or it failed and the pump ends. *)
Return(p) ==
  /\ pc[p] = "away"
  /\ pc' = [pc EXCEPT ![p] = "acquire"]
  /\ UNCHANGED <<sessVars, using, timerVars>>

(* connCond.Broadcast *)
Broadcast_None(w) == w
Broadcast_One(w) ==
  IF \E p \in Callers : w[p] = "waiting"
  THEN [w EXCEPT ![CHOOSE p \in Callers : w[p] = "waiting"] = "woken"]
  ELSE w
Broadcast(w) == [p \in Callers |-> IF w[p] = "waiting" THEN "woken" ELSE w[p]]

(* SCPConn.Close with the callers in control states w. *)
Close(w) ==
  \/ /\ connClosed
     /\ pc' = w
     /\ UNCHANGED <<connErr, usable>>
  \/ /\ ~connClosed
     /\ connErr' = "closed"
     /\ usable' = [usable EXCEPT ![conn] = FALSE]
     /\ pc' = Broadcast(w)

PumpEnds(p) ==
  /\ pc[p] = "away"
  /\ Close([pc EXCEPT ![p] = "end"])
  /\ UNCHANGED <<conn, replaced, using, timerVars>>

-----------------------------------------------------------------------------
(* The transport of the current conn fails, or a reuse handshake freezes it. *)
Break ==
  /\ usable[conn]
  /\ usable' = [usable EXCEPT ![conn] = FALSE]
  /\ UNCHANGED <<conn, connErr, replaced, pc, using, timerVars>>

(* onReuseConn with the next conn. *)
ReplaceConn ==
  /\ replaced < MaxConn
  /\ replaced' = replaced + 1
  /\ \/ /\ connClosed
        /\ usable' = [usable EXCEPT ![replaced + 1] = FALSE]
        /\ UNCHANGED <<conn, connErr, pc>>
     \/ /\ ~connClosed
        /\ usable' = [usable EXCEPT ![conn] = FALSE]
        /\ conn' = replaced + 1 /\ connErr' = "nil"
        /\ pc' = Broadcast(pc)
  /\ UNCHANGED <<using, timerVars>>

-----------------------------------------------------------------------------
(* The timer goroutine's select: both cases can be ready, and then either   *)
(* may be taken.                                                            *)
Expire(k) ==
  /\ k \in running \ expired
  /\ expired' = expired \cup {k}
  /\ UNCHANGED <<sessVars, pc, using, reuseCh, started, running, stopped>>

TimerCloses(k) ==
  /\ k \in running \cap expired
  /\ running' = running \ {k}
  /\ Close(pc)
  /\ UNCHANGED <<conn, replaced, using, reuseCh, started, expired, stopped>>

TimerStopped(k) ==
  /\ k \in running \cap stopped
  /\ running' = running \ {k}
  /\ UNCHANGED <<sessVars, pc, using, reuseCh, started, expired, stopped>>

Caller(p) == \/ AcquireConn(p) \/ Wake(p) \/ OperateFails(p) \/ SetConnError(p)

Next ==
  \/ \E p \in Callers : Caller(p) \/ OperateOK(p) \/ Return(p) \/ PumpEnds(p)
  \/ Break \/ ReplaceConn
  \/ \E k \in 1 .. started : Expire(k) \/ TimerCloses(k) \/ TimerStopped(k)

Spec == Init /\ [][Next]_vars

(* Goroutines run and time passes.                                          *)
GoFairness ==
  /\ \A p \in Callers : WF_vars(Caller(p))
  /\ WF_vars(\E k \in running \ stopped : Expire(k))
  /\ WF_vars(\E k \in running \cap expired : TimerCloses(k))

(* A pump that has ended has closed the upstream connection, so the other   *)
(* one comes back from it.  Nothing else is assumed of the upstream server: *)
(* it may send nothing for ever and, as the write to it has no deadline, it *)
(* may stop reading and hold the c2s pump for ever.                         *)
UpstreamFairness ==
  \A p, q \in Callers : WF_vars(pc[q] = "end" /\ (Return(p) \/ PumpEnds(p)))

FairSpec == Spec /\ GoFairness /\ UpstreamFairness

-----------------------------------------------------------------------------
TypeOK ==
  /\ conn \in Conns /\ connErr \in {"nil", "failed", "closed"}
  /\ usable \in [Conns -> BOOLEAN] /\ replaced \in 0 .. MaxConn
  /\ pc \in [Callers -> {"acquire", "waiting", "woken", "io", "report", "away", "end"}]
  /\ using \in [Callers -> Conns]
  /\ started \in Nat /\ reuseCh \in 0 .. started
  /\ running \subseteq 1 .. started /\ expired \subseteq 1 .. started
  /\ stopped \subseteq 1 .. started

(* No wake-up is lost: a caller that waits does so on a broken, open         *)
(* SCPConn, and the timer that will close it runs and has not been stopped.  *)
WaiterHasTimer ==
  \A p \in Callers : pc[p] = "waiting" =>
    connErr = "failed" /\ reuseCh \in running \ stopped

(* However startWait and stopWait of the two callers interleave, at most one *)
(* timer can still fire unstopped: the one in reuseCh.                       *)
OneTimer == running \ stopped \subseteq {reuseCh}

(* connErr is never left on a conn that works: the waiters of a replaced     *)
(* conn are not sent back to wait by a late error of the old one.            *)
ErrorIsCurrent == connErr # "nil" => ~usable[conn]

(* The reuse timer never closes a session that has been reused: README, "if  *)
(* it is not reused within scp.reuse_time".                                  *)
TimerSparesReused ==
  [][running' # running /\ connClosed' # connClosed => connErr = "failed"]_vars

(* A caller does not wait for ever.                                          *)
WaitEnds == \A p \in Callers : pc[p] = "waiting" ~> pc[p] # "waiting"

(* A broken session is reused or, README, closed after scp.reuse_time.  One *)
(* thing can prevent it: the c2s pump, which would notice, is held for ever *)
(* in its write to a server that does not read.                             *)
BrokenResolved ==
  connErr = "failed" ~> (connErr # "failed" \/ [](pc["c2s"] = "away"))

(* When the session is closed both pumps end, so that onNewConn returns and  *)
(* gives the id back; again unless the server holds the c2s pump for ever.   *)
ClosedEnds ==
  connClosed ~> ((\A p \in Callers : pc[p] = "end") \/ [](pc["c2s"] = "away"))
=============================================================================

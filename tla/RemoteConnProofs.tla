--------------------------- MODULE RemoteConnProofs ---------------------------
(***************************************************************************)
(* The safety of SCPConn's waiting and timing out, for every number of     *)
(* reuses.  WaiterHasTimer is not inductive: a caller that starts to wait  *)
(* while reuseCh is set starts no timer, so a set reuseCh must itself      *)
(* stand for a live timer (ChannelIsLive), and OneTimer is what keeps that *)
(* timer from being stopped behind a waiter's back.  ErrorIsCurrent needs  *)
(* that an error on its way to setConnError is about an unusable conn.     *)
(***************************************************************************)
EXTENDS RemoteConn, TLAPS

(* The time a leaf may take. *)
USE SMTT(30), ZenonT(20)

(* While the SCPConn is open, a non-nil reuseCh is the channel of a timer   *)
(* goroutine that runs and has not been stopped (startWait, stopWait).      *)
ChannelIsLive == reuseCh # 0 /\ ~connClosed => reuseCh \in running \ stopped

(* A caller reports an error only of a conn that no longer works.           *)
ReportsDead == \A p \in Callers : pc[p] = "report" => ~usable[using[p]]

IInv == /\ TypeOK /\ WaiterHasTimer /\ OneTimer /\ ErrorIsCurrent
        /\ ChannelIsLive /\ ReportsDead

(* The state NewSCPConn leaves satisfies the inductive invariant.           *)
LEMMA InitIInv == Init => IInv
<1> SUFFICES ASSUME Init PROVE IInv
  OBVIOUS
<1>1. TypeOK
  <2>1. usable \in [Conns -> BOOLEAN]
    BY DEF Init
  <2> QED
    BY <2>1, MaxConnAssumption DEF Init, TypeOK, Conns
<1>2. WaiterHasTimer /\ ReportsDead
  BY DEF Init, WaiterHasTimer, ReportsDead
<1>3. OneTimer /\ ChannelIsLive
  BY DEF Init, OneTimer, ChannelIsLive, connClosed
<1>4. ErrorIsCurrent
  BY DEF Init, ErrorIsCurrent
<1> QED
  BY <1>1, <1>2, <1>3, <1>4 DEF IInv

(* Every critical section, operation and timer step preserves the types.    *)
LEMMA TypeStep == TypeOK /\ [Next]_vars => TypeOK'
<1> SUFFICES ASSUME TypeOK, [Next]_vars PROVE TypeOK'
  OBVIOUS
<1> USE MaxConnAssumption DEF TypeOK, Conns, connClosed, sessVars, timerVars, vars
<1>0. ASSUME NEW p \in Callers, NEW ch \in 0 .. started, AcquireLoop(p, ch),
             UNCHANGED <<sessVars, expired>>, stopped' \subseteq 1 .. started
      PROVE TypeOK'
  <2>1. CASE connErr = "failed" /\ StartWait(ch) /\ pc' = [pc EXCEPT ![p] = "waiting"]
                                /\ UNCHANGED using
    <3>1. CASE ch # 0 /\ reuseCh' = ch /\ UNCHANGED <<started, running>>
      BY <1>0, <2>1, <3>1
    <3>2. CASE /\ ch = 0 /\ started' = started + 1
               /\ running' = running \cup {started + 1} /\ reuseCh' = started + 1
      <4>1. 1 .. started \subseteq 1 .. started'
        BY <3>2
      <4>2. started' \in Nat /\ reuseCh' \in 0 .. started' /\ reuseCh' \in 1 .. started'
        BY <3>2
      <4>3. /\ running' \subseteq 1 .. started' /\ expired' \subseteq 1 .. started'
            /\ stopped' \subseteq 1 .. started'
        BY <1>0, <3>2, <4>1, <4>2
      <4> QED
        BY <1>0, <2>1, <4>2, <4>3
    <3> QED
      BY <2>1, <3>1, <3>2 DEF StartWait
  <2>2. CASE reuseCh' = ch /\ UNCHANGED <<started, running>>
    BY <1>0, <2>2, Zenon DEF AcquireLoop
  <2> QED
    BY <1>0, <2>1, <2>2 DEF AcquireLoop
<1>1. ASSUME NEW p \in Callers, AcquireConn(p) PROVE TypeOK'
  BY <1>0, <1>1 DEF AcquireConn
<1>2. ASSUME NEW p \in Callers, Wake(p) PROVE TypeOK'
  <2>1. stopped' \subseteq 1 .. started
    BY <1>2 DEF Wake
  <2>2. AcquireLoop(p, 0) /\ UNCHANGED <<sessVars, expired>>
    BY <1>2 DEF Wake, StopWait
  <2> QED
    BY <1>0, <2>1, <2>2
<1>3. ASSUME NEW p \in Callers, OperateFails(p) \/ OperateOK(p) \/ Return(p) PROVE TypeOK'
  BY <1>3, Zenon DEF OperateFails, OperateOK, Return
<1>4. ASSUME NEW p \in Callers, SetConnError(p) PROVE TypeOK'
  BY <1>4 DEF SetConnError, Current
<1>5. ASSUME NEW p \in Callers, PumpEnds(p) PROVE TypeOK'
  BY <1>5, Zenon DEF PumpEnds, Close, Broadcast
<1>6. CASE Break \/ ReplaceConn
  <2>1. CASE Break
    BY <2>1 DEF Break
  <2>2. CASE ReplaceConn
    <3>1. replaced + 1 \in 1 .. MaxConn /\ replaced' = replaced + 1
      BY <2>2 DEF ReplaceConn
    <3>2. conn' \in Conns
      BY <2>2, <3>1 DEF ReplaceConn
    <3>3. \/ usable' = [usable EXCEPT ![replaced + 1] = FALSE]
          \/ usable' = [usable EXCEPT ![conn] = FALSE]
      BY <2>2 DEF ReplaceConn
    <3>4. usable' \in [Conns -> BOOLEAN]
      BY <3>3, Zenon
    <3> QED
      BY <2>2, <3>1, <3>2, <3>4 DEF ReplaceConn, Broadcast
  <2> QED
    BY <1>6, <2>1, <2>2
<1>7. ASSUME NEW k \in 1 .. started, Expire(k) \/ TimerStopped(k) PROVE TypeOK'
  BY <1>7, Zenon DEF Expire, TimerStopped
<1>8. ASSUME NEW k \in 1 .. started, TimerCloses(k) PROVE TypeOK'
  BY <1>8, Zenon DEF TimerCloses, Close, Broadcast
<1>9. CASE UNCHANGED vars
  BY <1>9
<1> QED
  BY <1>1, <1>2, <1>3, <1>4, <1>5, <1>6, <1>7, <1>8, <1>9, SMTT(30) DEF Next, Caller

(* The inductive invariant is preserved by every step.                      *)
LEMMA IInvStep == IInv /\ [Next]_vars => IInv'
<1> SUFFICES ASSUME IInv, [Next]_vars
             PROVE (WaiterHasTimer /\ OneTimer /\ ErrorIsCurrent /\ ChannelIsLive
                      /\ ReportsDead)'
  BY TypeStep DEF IInv
<1> USE DEF IInv, connClosed, WaiterHasTimer, OneTimer, ErrorIsCurrent, ChannelIsLive, ReportsDead,
            sessVars, timerVars, vars
<1> DEFINE Goal == (WaiterHasTimer /\ OneTimer /\ ErrorIsCurrent /\ ChannelIsLive
                      /\ ReportsDead)'
<1>0. ASSUME NEW p \in Callers, NEW ch \in 0 .. started, AcquireLoop(p, ch),
             UNCHANGED <<sessVars, expired>>, stopped' \subseteq 1 .. started,
             running \ stopped' \subseteq {ch},
             ch # 0 /\ ~connClosed => ch \in running \ stopped'
      PROVE Goal
  <2>1. CASE connErr # "failed" /\ reuseCh' = ch /\ UNCHANGED <<started, running>>
    <3>1. \A q \in Callers : pc'[q] # "waiting" /\ (pc'[q] = "report" => pc[q] = "report")
      BY <1>0, <2>1 DEF AcquireLoop, TypeOK
    <3>2. \A q \in Callers : pc'[q] = "report" => using'[q] = using[q]
      BY <1>0, <2>1 DEF AcquireLoop, TypeOK
    <3> QED
      BY <1>0, <2>1, <3>1, <3>2
  <2>2. CASE connErr = "failed" /\ StartWait(ch) /\ pc' = [pc EXCEPT ![p] = "waiting"]
                                /\ UNCHANGED using
    <3>1. reuseCh' \in running' \ stopped' /\ running' \ stopped' \subseteq {reuseCh'}
      <4>1. CASE ch # 0 /\ reuseCh' = ch /\ UNCHANGED <<started, running>>
        BY <1>0, <2>2, <4>1
      <4>2. CASE /\ ch = 0 /\ started' = started + 1
                 /\ running' = running \cup {started + 1} /\ reuseCh' = started + 1
        BY <1>0, <4>2 DEF TypeOK
      <4> QED
        BY <2>2, <4>1, <4>2 DEF StartWait
    <3>2. \A q \in Callers : pc'[q] = "report" => pc[q] = "report"
      BY <2>2 DEF TypeOK
    <3> QED
      BY <1>0, <2>2, <3>1, <3>2
  <2> QED
    BY <1>0, <2>1, <2>2 DEF AcquireLoop
<1>1. ASSUME NEW p \in Callers, AcquireConn(p) PROVE Goal
  BY <1>0, <1>1 DEF AcquireConn, TypeOK
<1>2. ASSUME NEW p \in Callers, Wake(p) PROVE Goal
  <2>1. /\ stopped' = stopped \cup ({reuseCh} \ {0}) /\ AcquireLoop(p, 0)
        /\ UNCHANGED <<sessVars, expired>>
    BY <1>2 DEF Wake, StopWait
  <2>2. stopped' \subseteq 1 .. started /\ running \ stopped' \subseteq {0}
    BY <2>1 DEF TypeOK
  <2> QED
    BY <1>0, <2>1, <2>2 DEF TypeOK
<1>3. ASSUME NEW p \in Callers, OperateFails(p) \/ OperateOK(p) \/ Return(p) PROVE Goal
  BY <1>3, ZenonT(40) DEF OperateFails, OperateOK, Return, TypeOK
<1>4. ASSUME NEW p \in Callers, SetConnError(p) PROVE Goal
  BY <1>4 DEF SetConnError, Current, TypeOK
<1>5. ASSUME NEW p \in Callers, PumpEnds(p) PROVE Goal
  BY <1>5 DEF PumpEnds, Close, Broadcast, TypeOK
<1>6. CASE Break \/ ReplaceConn
  <2>1. CASE Break
    BY <2>1 DEF Break, TypeOK
  <2>2. CASE ReplaceConn
    BY <2>2 DEF ReplaceConn, Broadcast, TypeOK
  <2> QED
    BY <1>6, <2>1, <2>2
<1>7. ASSUME NEW k \in 1 .. started, Expire(k) \/ TimerStopped(k) PROVE Goal
  BY <1>7, Zenon DEF Expire, TimerStopped, TypeOK
<1>8. ASSUME NEW k \in 1 .. started, TimerCloses(k) PROVE Goal
  BY <1>8 DEF TimerCloses, Close, Broadcast, TypeOK
<1>9. CASE UNCHANGED vars
  BY <1>9
<1> QED
  BY <1>1, <1>2, <1>3, <1>4, <1>5, <1>6, <1>7, <1>8, <1>9 DEF Next, Caller

(* The inductive invariant holds in every reachable state.                  *)
THEOREM Invariance == Spec => []IInv
  BY InitIInv, IInvStep, PTL DEF Spec

(* SCPConn's state stays well typed, however many reuses there are.         *)
THEOREM TypeCorrect == Spec => []TypeOK
<1>1. IInv => TypeOK
  BY DEF IInv
<1> QED
  BY <1>1, Invariance, PTL

(* acquireConn never waits without a timer that will end the wait.          *)
THEOREM NoLostTimer == Spec => []WaiterHasTimer
<1>1. IInv => WaiterHasTimer
  BY DEF IInv
<1> QED
  BY <1>1, Invariance, PTL

(* startWait and stopWait never leave two timers that can both fire.        *)
THEOREM SingleTimer == Spec => []OneTimer
<1>1. IInv => OneTimer
  BY DEF IInv
<1> QED
  BY <1>1, Invariance, PTL

(* setConnError never marks a working conn as broken.                       *)
THEOREM NoStaleError == Spec => []ErrorIsCurrent
<1>1. IInv => ErrorIsCurrent
  BY DEF IInv
<1> QED
  BY <1>1, Invariance, PTL
=============================================================================

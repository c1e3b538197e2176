---------------------------- MODULE ServerProofs ----------------------------
(***************************************************************************)
(* The id allocator, and the ids and pairs of the server, for any number   *)
(* of sessions and of reuse requests.  The sessions that hold an id and    *)
(* the allocator's account of what is handed out are the same set, each id *)
(* has one holder, and connPairs follows the holders: none of the three is *)
(* inductive alone.                                                        *)
(* On top of them stands what each session has closed and what each reuse  *)
(* request has installed.                                                  *)
(***************************************************************************)
EXTENDS Server, FiniteSetTheorems, SequenceTheorems, TLAPS

(* The time a leaf may take. *)
USE SMTT(30), ZenonT(20)

-----------------------------------------------------------------------------
(* The allocator, for every first id and every number of holders.  The      *)
(* accounting of ids is inductive together with their count: the reset of   *)
(* ReleaseID compares the length of free with off - start, and Counted      *)
(* turns that comparison into "nobody holds an id".                         *)

(* As many ids are held or free as were ever numbered.                      *)
Counted == IsFiniteSet(held) /\ Cardinality(held) + Len(free) = off - Start

AllocInv == AllocTypeOK /\ Accounting /\ Counted /\ Restarts

(* The allocator NewIDAllocator returns.                                    *)
LEMMA InitAllocInv == AllocInit => AllocInv
  BY AllocatorAssumption, FS_EmptySet DEF AllocInit, AllocInv, AllocTypeOK, Accounting, Counted, Restarts

(* What AcquireID returns is nobody's.                                      *)
LEMMA NextIsFresh == AllocInv => FreshID
  BY AllocatorAssumption DEF AllocInv, AllocTypeOK, Accounting, FreshID, NextID

(* AcquireID preserves the accounting, from the stack or from the counter.  *)
LEMMA AcquireStep == AllocInv /\ Acquire => AllocInv'
<1> SUFFICES ASSUME AllocInv, Acquire PROVE AllocInv'
  OBVIOUS
<1> USE AllocatorAssumption DEF AllocInv, AllocTypeOK
<1>1. NextID \notin held /\ held' = held \cup {NextID}
  BY NextIsFresh DEF FreshID, Acquire
<1>2. IsFiniteSet(held') /\ Cardinality(held') = Cardinality(held) + 1
  BY <1>1, FS_AddElement DEF Counted
<1>3. Cardinality(held) \in Nat
  BY FS_CardinalityType DEF Counted
<1>r. Restarts'
  BY <1>1, Zenon DEF Restarts
<1>4. CASE free # <<>> /\ free' = SubSeq(free, 1, Len(free) - 1) /\ UNCHANGED off
  <2>0. Len(free) \in Nat \ {0} /\ DOMAIN free = 1 .. Len(free)
    BY <1>4, EmptySeq
  <2>1. NextID = free[Len(free)] /\ Len(free) \in DOMAIN free /\ NextID \in Nat
    BY <1>4, <2>0, ElementOfSeq DEF NextID
  <2>2a. /\ free' \in Seq(Nat) /\ Len(free') = Len(free) - 1
         /\ \A j \in 1 .. Len(free) - 1 : free'[j] = free[j]
    BY <1>4, <2>0, SubSeqProperties, SMTT(30)
  <2>2. /\ free' \in Seq(Nat) /\ Len(free') = Len(free) - 1
        /\ \A j \in DOMAIN free' : j \in DOMAIN free /\ j < Len(free) /\ free'[j] = free[j]
        /\ \A j \in DOMAIN free : j < Len(free) => j \in DOMAIN free'
    <3>1. DOMAIN free' = 1 .. Len(free) - 1
      BY <2>2a, LenProperties
    <3>2. \A j \in 1 .. Len(free) - 1 : j \in 1 .. Len(free) /\ j < Len(free)
      BY <2>0
    <3>3. \A j \in 1 .. Len(free) : j < Len(free) => j \in 1 .. Len(free) - 1
      BY <2>0
    <3> QED
      BY <2>0, <2>2a, <3>1, <3>2, <3>3, Zenon
  <2>3. AllocTypeOK' /\ Counted'
    <3>1. AllocTypeOK'
      BY <1>1, <1>4, <2>1, <2>2, Zenon
    <3>2. Len(free) \in Nat /\ Len(free') = Len(free) - 1
      BY <2>0, <2>2
    <3>3. Counted'
      BY <1>2, <1>3, <1>4, <3>2 DEF Counted
    <3> QED
      BY <3>1, <3>3
  <2>4. \A i \in Start .. off' - 1 : i \in held' \/ \E j \in DOMAIN free' : free'[j] = i
    <3> SUFFICES ASSUME NEW i \in Start .. off - 1, i \notin held'
                 PROVE \E j \in DOMAIN free' : free'[j] = i
      BY <1>4
    <3>1. PICK j \in DOMAIN free : free[j] = i
      BY <1>1 DEF Accounting
    <3>2. j # Len(free)
      BY <1>1, <2>1, <3>1
    <3> QED
      BY <2>2, <3>1, <3>2, SMTT(30)
  <2>5. \A i \in held' : i \in Start .. off' - 1
    BY <1>1, <1>4, <2>1 DEF Accounting
  <2>6. \A j \in DOMAIN free' : free'[j] \in Start .. off' - 1 /\ free'[j] \notin held'
    BY <1>1, <1>4, <2>1, <2>2 DEF Accounting
  <2>7. \A j, k \in DOMAIN free' : free'[j] = free'[k] => j = k
    BY <2>2 DEF Accounting
  <2> QED
    BY <1>r, <2>3, <2>4, <2>5, <2>6, <2>7, Zenon DEF Accounting
<1>5. CASE free = <<>> /\ off' = off + 1 /\ UNCHANGED free
  <2>1. NextID = off
    BY <1>5 DEF NextID
  <2>2. AllocTypeOK' /\ Counted'
    BY <1>1, <1>2, <1>3, <1>5, <2>1 DEF Counted
  <2>3. Start <= off
    BY <1>3, <1>5 DEF Counted
  <2> QED
    BY <1>r, <1>1, <1>5, <2>1, <2>2, <2>3 DEF Accounting
<1> QED
  BY <1>4, <1>5 DEF Acquire, AcquireID

(* ReleaseID preserves it, whether or not it starts over.                   *)
LEMMA ReleaseStep == AllocInv /\ (\E freed \in held : Release(freed)) => AllocInv'
<1> SUFFICES ASSUME AllocInv, NEW freed \in held, Release(freed) PROVE AllocInv'
  OBVIOUS
<1> USE AllocatorAssumption DEF AllocInv, AllocTypeOK, Release
<1>1. /\ IsFiniteSet(held') /\ Cardinality(held') = Cardinality(held) - 1
      /\ Cardinality(held) \in Nat /\ Cardinality(held') \in Nat
  BY FS_RemoveElement, FS_CardinalityType DEF Counted
<1>2. CASE AllReleased(Append(free, freed)) /\ off' = Start /\ free' = <<>>
  <2>1. Cardinality(held') = 0
    BY <1>1, <1>2 DEF AllReleased, Counted
  <2>2. held' = {}
    BY <1>1, <2>1, FS_EmptySet, Zenon
  <2> QED
    BY <1>1, <1>2, <2>1, <2>2 DEF Accounting, Counted, Restarts
<1>3. CASE ~AllReleased(Append(free, freed)) /\ free' = Append(free, freed) /\ UNCHANGED off
  <2>1. freed \in Nat
    OBVIOUS
  <2>2. /\ free' \in Seq(Nat) /\ Len(free') = Len(free) + 1
        /\ \A j \in DOMAIN free' : j \in DOMAIN free \/ j = Len(free) + 1
        /\ \A j \in DOMAIN free : j \in DOMAIN free' /\ free'[j] = free[j] /\ j # Len(free) + 1
        /\ free'[Len(free) + 1] = freed /\ Len(free) + 1 \in DOMAIN free'
    BY <1>3, <2>1
  <2>3. AllocTypeOK' /\ Counted'
    BY <1>1, <1>3, <2>2 DEF Counted
  <2>r. Restarts'
    <3>1. Len(free') # off - Start
      BY <1>3 DEF AllReleased
    <3>2. held' # {}
      <4>1. Cardinality(held') + Len(free') = off - Start
        BY <1>3, <2>3 DEF Counted
      <4>2. Cardinality(held') # 0
        <5>1. Len(free') \in Nat
          BY <2>2, LenProperties
        <5>2. Cardinality(held') = 0 => Cardinality(held') + Len(free') = Len(free')
          BY <5>1
        <5> QED
          BY <3>1, <4>1, <5>2
      <4> QED
        BY <4>2, FS_EmptySet, Zenon
    <3> QED
      BY <3>2, Zenon DEF Restarts
  <2>4. \A i \in Start .. off' - 1 : i \in held' \/ \E j \in DOMAIN free' : free'[j] = i
    BY <1>3, <2>2 DEF Accounting
  <2>5. \A i \in held' : i \in Start .. off' - 1
    BY <1>3 DEF Accounting
  <2>6. \A j \in DOMAIN free' : free'[j] \in Start .. off' - 1 /\ free'[j] \notin held'
    BY <1>3, <2>2 DEF Accounting
  <2>7. \A j, k \in DOMAIN free' : free'[j] = free'[k] => j = k
    BY <2>2, Zenon DEF Accounting
  <2> QED
    BY <2>r, <2>3, <2>4, <2>5, <2>6, <2>7, Zenon DEF Accounting
<1> QED
  BY <1>2, <1>3 DEF ReleaseID

(* The accounting holds in every reachable state.                           *)
THEOREM AllocInvariance == AllocSpec => []AllocInv
<1>1. AllocInv /\ UNCHANGED allocVars => AllocInv'
  BY DEF allocVars, AllocInv, AllocTypeOK, Accounting, Counted, Restarts
<1>2. AllocInv /\ [AllocNext]_allocVars => AllocInv'
  BY <1>1, AcquireStep, ReleaseStep DEF AllocNext
<1> QED
  BY InitAllocInv, <1>2, PTL DEF AllocSpec

(* The counter and the stack hold natural numbers.                          *)
THEOREM AllocTypeCorrect == AllocSpec => []AllocTypeOK
<1>1. AllocInv => AllocTypeOK
  BY DEF AllocInv
<1> QED
  BY <1>1, AllocInvariance, PTL

(* Every id numbered is held or free, once: none is lost or doubled.        *)
THEOREM AccountingCorrect == AllocSpec => []Accounting
<1>1. AllocInv => Accounting
  BY DEF AllocInv
<1> QED
  BY <1>1, AllocInvariance, PTL

(* When all ids are given back the numbering starts over.                   *)
THEOREM RestartsCorrect == AllocSpec => []Restarts
<1>1. AllocInv => Restarts
  BY DEF AllocInv
<1> QED
  BY <1>1, AllocInvariance, PTL

(* AcquireID never returns an id somebody holds.                            *)
THEOREM UniqueIDs == AllocSpec => []FreshID
  BY NextIsFresh, AllocInvariance, PTL

-----------------------------------------------------------------------------

Steps == {"accept", "respond", "add", "dial", "pump", "remove", "release",
          "panicked", "done"}
Registered(n) == npc[n] \in {"dial", "pump", "remove"}

(* Every id handed out belongs to one session, which gives it back or has   *)
(* panicked.                                                                *)
HoldersInv ==
  /\ npc \in [New -> Steps] /\ id \in [New -> Nat]
  /\ \A n \in New : Holds(n) => id[n] \in held
  /\ \A i \in held : \E n \in New : Holds(n) /\ id[n] = i

IInv == AllocInv /\ HoldersInv /\ IDsUnique /\ PairsExact

(* Before the first connection.                                             *)
LEMMA InitServer == Init => IInv
<1> SUFFICES ASSUME Init PROVE IInv
  OBVIOUS
<1>1. AllocInv
  BY InitAllocInv DEF Init
<1>2. HoldersInv /\ IDsUnique
  BY DEF Init, AllocInit, HoldersInv, IDsUnique, Holds, Steps, None
<1>3. PairsExact
  BY DEF Init, PairsExact
<1> QED
  BY <1>1, <1>2, <1>3 DEF IInv

(* A step that moves no session across the borders of holding an id or of   *)
(* being registered, and touches neither ids nor pairs.                     *)
LEMMA Quiet ==
  ASSUME IInv, UNCHANGED <<allocVars, id, connPairs>>, npc' \in [New -> Steps],
         \A n \in New : (Holds(n) <=> Holds(n)') /\ (Registered(n) <=> Registered(n)')
  PROVE  IInv'
<1>1. AllocInv'
  BY DEF IInv, AllocInv, AllocTypeOK, Accounting, Counted, Restarts, allocVars
<1>2. HoldersInv'
  BY DEF IInv, HoldersInv, allocVars
<1>3. IDsUnique'
  BY DEF IInv, IDsUnique
<1>4. PairsExact'
  BY DEF IInv, PairsExact, Registered
<1> QED
  BY <1>1, <1>2, <1>3, <1>4 DEF IInv

(* One session moves from a step to another one.                            *)
LEMMA QuietStep ==
  ASSUME IInv, UNCHANGED <<allocVars, id, connPairs>>, NEW n \in New, NEW to \in Steps,
         Step(n, to),
         Holds(n) <=> to \in {"respond", "add", "dial", "pump", "remove", "release",
                              "panicked"},
         Registered(n) <=> to \in {"dial", "pump", "remove"}
  PROVE  IInv'
<1>1. npc' \in [New -> Steps] /\ npc'[n] = to /\ \A m \in New \ {n} : npc'[m] = npc[m]
  BY DEF IInv, HoldersInv, Step
<1>2. \A m \in New : (Holds(m) <=> Holds(m)') /\ (Registered(m) <=> Registered(m)')
  BY <1>1 DEF Holds, Registered
<1> QED
  BY <1>1, <1>2, Quiet

(* serverNewHandshake takes an id that nobody has.                          *)
LEMMA AcquireKeeps ==
  ASSUME IInv, NEW n \in New, npc[n] = "accept", Acquire,
         id' = [id EXCEPT ![n] = NextID], Step(n, "respond"), UNCHANGED connPairs
  PROVE  IInv'
<1>1. AllocInv'
  BY AcquireStep DEF IInv
<1>2. NextID \notin held /\ held' = held \cup {NextID}
  BY NextIsFresh DEF IInv, FreshID, Acquire
<1>3. NextID \in Nat
  BY <1>1, <1>2 DEF AllocInv, AllocTypeOK
<1>4. /\ npc' \in [New -> Steps] /\ npc'[n] = "respond" /\ id' \in [New -> Nat]
      /\ id'[n] = NextID
      /\ \A m \in New \ {n} : npc'[m] = npc[m] /\ id'[m] = id[m]
  BY <1>3 DEF IInv, HoldersInv, Step, Steps
<1>5. ~Holds(n) /\ Holds(n)' /\ \A m \in New \ {n} : Holds(m) <=> Holds(m)'
  BY <1>4 DEF Holds
<1>6. HoldersInv'
  BY <1>2, <1>4, <1>5 DEF IInv, HoldersInv
<1>7. IDsUnique'
  BY <1>2, <1>4, <1>5 DEF IInv, HoldersInv, IDsUnique
<1>8. PairsExact'
  BY <1>4 DEF IInv, PairsExact
<1> QED
  BY <1>1, <1>6, <1>7, <1>8 DEF IInv

(* ReleaseID, from either path, gives back an id that was held.             *)
LEMMA ReleaseKeeps ==
  ASSUME IInv, NEW n \in New, npc[n] \in {"respond", "release"}, Release(id[n]),
         Step(n, "done"), UNCHANGED <<id, connPairs>>
  PROVE  IInv' /\ id[n] \in held
<1>1. Holds(n) /\ id[n] \in held
  BY DEF IInv, HoldersInv, Holds
<1>2. AllocInv'
  BY <1>1, ReleaseStep DEF IInv
<1>3. held' = held \ {id[n]}
  BY DEF Release
<1>4. /\ npc' \in [New -> Steps] /\ npc'[n] = "done"
      /\ \A m \in New \ {n} : npc'[m] = npc[m]
  BY DEF IInv, HoldersInv, Step, Steps
<1>5. ~Holds(n)' /\ \A m \in New \ {n} : Holds(m) <=> Holds(m)'
  BY <1>4 DEF Holds
<1>6. HoldersInv'
  BY <1>1, <1>3, <1>4, <1>5, Zenon DEF IInv, HoldersInv, IDsUnique
<1>7. IDsUnique'
  BY <1>5 DEF IInv, IDsUnique
<1>8. PairsExact'
  BY <1>4 DEF IInv, PairsExact
<1> QED
  BY <1>1, <1>2, <1>6, <1>7, <1>8, Zenon DEF IInv

(* addConnPair registers the session under an id that is its alone.         *)
LEMMA AddKeeps == \A n \in New : IInv /\ AddConnPair(n) => IInv'
<1> SUFFICES ASSUME IInv, NEW n \in New, AddConnPair(n) PROVE IInv'
  OBVIOUS
<1>1. /\ npc' \in [New -> Steps] /\ npc'[n] = "dial" /\ npc[n] = "add"
      /\ \A m \in New \ {n} : npc'[m] = npc[m]
      /\ UNCHANGED <<allocVars, id>> /\ connPairs' = connPairs \cup {<<id[n], n>>}
  BY DEF IInv, HoldersInv, AddConnPair, Step, Steps
<1>2. \A m \in New : Holds(m) <=> Holds(m)'
  BY <1>1 DEF Holds
<1>3. AllocInv'
  BY <1>1 DEF IInv, AllocInv, AllocTypeOK, Accounting, Counted, Restarts, allocVars
<1>4. HoldersInv' /\ IDsUnique'
  BY <1>1, <1>2 DEF IInv, HoldersInv, IDsUnique, allocVars
<1>5. PairsExact'
  BY <1>1 DEF IInv, PairsExact
<1> QED
  BY <1>3, <1>4, <1>5 DEF IInv

(* removeConnPair deletes its own pair and no other.                        *)
LEMMA RemoveKeeps == \A n \in New : IInv /\ RemoveConnPair(n) => IInv'
<1> SUFFICES ASSUME IInv, NEW n \in New, RemoveConnPair(n) PROVE IInv'
  OBVIOUS
<1>1. /\ npc' \in [New -> Steps] /\ npc'[n] = "release" /\ npc[n] = "remove"
      /\ \A m \in New \ {n} : npc'[m] = npc[m]
      /\ UNCHANGED <<allocVars, id>>
      /\ connPairs' = {e \in connPairs : e[1] # id[n]}
  BY DEF IInv, HoldersInv, RemoveConnPair, Step, Steps, After
<1>2. \A m \in New : Holds(m) <=> Holds(m)'
  BY <1>1 DEF Holds
<1>3. AllocInv'
  BY <1>1 DEF IInv, AllocInv, AllocTypeOK, Accounting, Counted, Restarts, allocVars
<1>4. HoldersInv' /\ IDsUnique'
  BY <1>1, <1>2, Zenon DEF IInv, HoldersInv, IDsUnique, allocVars
<1>5. PairsExact'
  <2>1. \A m \in New \ {n} : npc[m] \in {"dial", "pump", "remove"} => id[m] # id[n]
    BY <1>1 DEF IInv, IDsUnique, Holds
  <2>2. connPairs' = {<<id[m], m>> :
          m \in {k \in New \ {n} : npc[k] \in {"dial", "pump", "remove"}}}
    BY <1>1, <2>1 DEF IInv, PairsExact
  <2> QED
    BY <1>1, <2>2 DEF PairsExact
<1> QED
  BY <1>3, <1>4, <1>5 DEF IInv

(* The other steps of onNewConn are quiet.                                  *)
LEMMA NewQuiet ==
  \A n \in New :
    IInv /\ (NewResponse(n) \/ NewUpstreamConn(n) \/ PumpsEnd(n)) =>
      IInv' /\ UNCHANGED allocVars
<1> SUFFICES ASSUME IInv, NEW n \in New,
                    NewResponse(n) \/ NewUpstreamConn(n) \/ PumpsEnd(n)
             PROVE  IInv' /\ UNCHANGED allocVars
  OBVIOUS
<1>1. UNCHANGED <<allocVars, id, connPairs>>
  BY DEF NewResponse, NewUpstreamConn, PumpsEnd
<1>2. \/ npc[n] = "respond" /\ Step(n, "add")
      \/ npc[n] = "respond" /\ Step(n, "panicked")
      \/ npc[n] = "dial" /\ Step(n, "pump")
      \/ npc[n] \in {"dial", "pump"} /\ Step(n, "remove")
  BY DEF NewResponse, NewUpstreamConn, PumpsEnd, After
<1>3. {"add", "panicked", "pump", "remove"} \subseteq Steps
  BY DEF Steps
<1> QED
  BY <1>1, <1>2, <1>3, QuietStep DEF Holds, Registered

(* What a step does to the ids is a step of the allocator, and the          *)
(* invariant survives it.                                                   *)
LEMMA ServerStep == IInv /\ [Next]_vars => IInv' /\ [AllocNext]_allocVars
<1> SUFFICES ASSUME IInv, [Next]_vars PROVE IInv' /\ [AllocNext]_allocVars
  OBVIOUS
<1>1. ASSUME UNCHANGED <<allocVars, id, connPairs, npc>> PROVE IInv' /\ [AllocNext]_allocVars
  BY <1>1, Quiet DEF IInv, HoldersInv, Holds, Registered
<1>2. ASSUME NEW n \in New, OnNewConn(n) PROVE IInv' /\ [AllocNext]_allocVars
  <2>1. CASE ServerNewHandshake(n)
    <3>1. CASE Acquire /\ id' = [id EXCEPT ![n] = NextID] /\ Step(n, "respond")
      <4>1. npc[n] = "accept" /\ UNCHANGED connPairs
        BY <2>1 DEF ServerNewHandshake
      <4> QED
        BY <3>1, <4>1, AcquireKeeps, Zenon DEF AllocNext
    <3>2. CASE Step(n, "done") /\ UNCHANGED <<allocVars, id>>
      <4>1. npc[n] = "accept" /\ UNCHANGED connPairs /\ "done" \in Steps
        BY <2>1 DEF ServerNewHandshake, Steps
      <4> QED
        BY <3>2, <4>1, QuietStep DEF Holds, Registered
    <3> QED
      BY <2>1, <3>1, <3>2 DEF ServerNewHandshake
  <2>2. CASE NewResponseFails(n) \/ DeferReleaseID(n)
    <3>1. /\ npc[n] \in {"respond", "release"} /\ Release(id[n]) /\ Step(n, "done")
          /\ UNCHANGED <<id, connPairs>>
      BY <2>2 DEF NewResponseFails, DeferReleaseID, After
    <3> QED
      BY <3>1, ReleaseKeeps DEF AllocNext
  <2>3. CASE NewResponse(n) \/ NewUpstreamConn(n) \/ PumpsEnd(n)
    BY <2>3, NewQuiet
  <2>4. CASE AddConnPair(n)
    BY <2>4, AddKeeps DEF AddConnPair
  <2>5. CASE RemoveConnPair(n)
    BY <2>5, RemoveKeeps DEF RemoveConnPair
  <2> QED
    BY <1>2, <2>1, <2>2, <2>3, <2>4, <2>5, Zenon DEF OnNewConn
<1>3. ASSUME NEW n \in New, CloseSession(n) PROVE IInv' /\ [AllocNext]_allocVars
  BY <1>1, <1>3 DEF CloseSession
<1>4. ASSUME NEW r \in Reuse, OnReuseConn(r) PROVE IInv' /\ [AllocNext]_allocVars
  <2>1. UNCHANGED <<allocVars, id, connPairs, npc>>
    BY <1>4, Zenon DEF OnReuseConn, ReadReuseRequest, QueryByID, Spawn, Respond, GetConnPair,
                ReplaceConn, newVars
  <2> QED
    BY <1>1, <2>1, Zenon
<1>5. CASE UNCHANGED vars
  BY <1>1, <1>5 DEF vars, newVars
<1> QED
  BY <1>2, <1>3, <1>4, <1>5 DEF Next

(* The accounts of sessions, pairs and allocator agree in every reachable   *)
(* state.                                                                   *)
THEOREM ServerInvariance == Spec => []IInv
  BY InitServer, ServerStep, PTL DEF Spec

(* The server implements the allocator's specification: it gives back only  *)
(* ids it holds, each once, so what is proved of the allocator holds in it. *)
THEOREM UsesAllocator == Spec => AllocatorUse
<1>1. Init => AllocInit
  BY DEF Init
<1> QED
  BY <1>1, InitServer, ServerStep, PTL DEF Spec, AllocSpec, AllocatorUse

(* Two goroutines never own the same id.                                    *)
THEOREM SessionIDsUnique == Spec => []IDsUnique
<1>1. IInv => IDsUnique
  BY DEF IInv
<1> QED
  BY <1>1, ServerInvariance, PTL

(* connPairs holds exactly the sessions between addConnPair and             *)
(* removeConnPair.                                                          *)
THEOREM PairsCorrect == Spec => []PairsExact
<1>1. IInv => PairsExact
  BY DEF IInv
<1> QED
  BY <1>1, ServerInvariance, PTL

(* The panic in addConnPair is out of reach.                                *)
THEOREM NeverConflicts == Spec => []NoConflict
<1>1. IInv => NoConflict
  <2> SUFFICES ASSUME IInv, NEW n \in New, npc[n] = "add", NEW m \in New,
                      <<id[n], m>> \in connPairs
               PROVE  FALSE
    BY DEF NoConflict, Owners
  <2>1. id[m] = id[n] /\ npc[m] \in {"dial", "pump", "remove"}
    BY DEF IInv, PairsExact
  <2> QED
    BY <2>1 DEF IInv, IDsUnique, Holds
<1> QED
  BY <1>1, ServerInvariance, PTL

(* When every goroutine has ended, the ids that are out are those of the    *)
(* goroutines that panicked; without a panic the allocator is as it was at  *)
(* the start.                                                               *)
THEOREM IDsComeBack == Spec => []OnlyPanicLeaks
<1>1. IInv => OnlyPanicLeaks
  <2> SUFFICES ASSUME IInv, \A n \in New : Ended(n) PROVE OnlyPanicLeaks
    BY DEF OnlyPanicLeaks
  <2>1. \A n \in New : Holds(n) <=> npc[n] = "panicked"
    BY DEF Ended, Holds
  <2>2. \A i \in Start .. off - 1 : (\A j \in DOMAIN free : free[j] # i) <=> i \in held
    <3>1. Accounting
      BY Zenon DEF IInv, AllocInv
    <3> TAKE i \in Start .. off - 1
    <3>2. i \in held \/ \E j \in DOMAIN free : free[j] = i
      BY <3>1, Zenon DEF Accounting
    <3>3. \A j \in DOMAIN free : free[j] \notin held
      BY <3>1, Zenon DEF Accounting
    <3> QED
      BY <3>2, <3>3, Zenon
  <2>3. \A i : i \in held <=> \E n \in New : npc[n] = "panicked" /\ id[n] = i
    BY <2>1, Zenon DEF IInv, HoldersInv
  <2>4. (\A n \in New : npc[n] = "done") => held = {}
    BY <2>3
  <2>5. Restarts
    BY Zenon DEF IInv, AllocInv
  <2>6. (\A n \in New : npc[n] = "done") => off = Start /\ free = <<>>
    BY <2>4, <2>5, Zenon DEF Restarts
  <2>7. \A i \in Start .. off - 1 :
          (\A j \in DOMAIN free : free[j] # i) <=> \E n \in New : npc[n] = "panicked" /\ id[n] = i
    <3> TAKE i \in Start .. off - 1
    <3> QED
      BY <2>2, <2>3, Zenon
  <2> QED
    BY <2>6, <2>7, Zenon DEF OnlyPanicLeaks
<1> QED
  BY <1>1, ServerInvariance, PTL

-----------------------------------------------------------------------------
(* Connections.  A session that never reached its dial, and cannot any more *)
(* or not yet, has no pair, so nobody replaces its first connection.        *)
Unregistered(n) == upstream[n] = "none" /\ npc[n] # "dial"

ConnTypes ==
  /\ npc \in [New -> Steps]
  /\ upstream \in [New -> {"none", "open", "closed", "failed", "panic"}]
  /\ remote \in [New -> New \cup Reuse] /\ closed \in [New -> BOOLEAN]
  /\ rpc \in [Reuse -> {"accept", "query", "spawn", "respond", "get", "replace", "done"}]
  /\ client \in [Reuse -> New] /\ pair \in [Reuse -> New] /\ reqId \in [Reuse -> Nat]

(* What session n has closed by now.                                        *)
Life(n) ==
  /\ npc[n] \in {"accept", "respond", "add", "dial", "panicked"} => upstream[n] = "none"
  /\ upstream[n] = "none" =>
       \/ npc[n] \in {"accept", "respond", "add", "dial", "panicked"}
       \/ npc[n] = "done" /\ n \notin open
  /\ upstream[n] = "open" => npc[n] = "pump"
  /\ upstream[n] = "closed" => closed[n]
  /\ upstream[n] = "failed" => n \notin open
  /\ closed[n] => remote[n] \notin open
  /\ Unregistered(n) => remote[n] = n
  /\ n \in open => remote[n] = n

(* The pair that request r found is that of its own session, or the session *)
(* is over.                                                                 *)
Matches(r) == pair[r] = client[r] \/ npc[client[r]] = "done"

(* What request r knows.                                                    *)
Asks(r) ==
  /\ rpc[r] # "accept" => npc[client[r]] # "accept" /\ reqId[r] = id[client[r]]
  /\ rpc[r] = "replace" => ~Unregistered(pair[r]) /\ Matches(r)
  /\ rpc[r] = "done" /\ r \in open => remote[pair[r]] = r

(* A connection in RemoteConn that is not the first one was put there by    *)
(* the ReplaceConn of a request that is over.                               *)
Installed(n) ==
  remote[n] # n => /\ remote[n] \in Reuse /\ rpc[remote[n]] = "done"
                   /\ pair[remote[n]] = n /\ Matches(remote[n])

ConnInv ==
  /\ ConnTypes
  /\ \A n \in New : Life(n) /\ Installed(n)
  /\ \A r \in Reuse : Asks(r)

(* Every connection is its session's own at the start.                      *)
LEMMA InitConn == Init => ConnInv
<1> SUFFICES ASSUME Init PROVE ConnInv
  OBVIOUS
<1>1. ConnTypes
  BY DEF Init, ConnTypes, Steps, None
<1>2. \A n \in New : Life(n) /\ Installed(n)
  BY DEF Init, Life, Installed, Unregistered
<1>3. \A r \in Reuse : Asks(r)
  BY DEF Init, Asks
<1> QED
  BY <1>1, <1>2, <1>3, Zenon DEF ConnInv

(* A step of session n alone: it opens nothing and installs nothing.        *)
LEMMA SessionSide ==
  ASSUME ConnInv, NEW n \in New, UNCHANGED <<remote, reuseVars>>, open' \subseteq open,
         ConnTypes', Life(n)', Unregistered(n)' => Unregistered(n),
         npc[n] = "accept" \/ id'[n] = id[n],
         npc[n] # "accept" => npc'[n] # "accept",
         npc[n] = "done" => npc'[n] = "done",
         \A m \in New \ {n} : /\ npc'[m] = npc[m] /\ id'[m] = id[m]
                              /\ upstream'[m] = upstream[m] /\ closed'[m] = closed[m]
  PROVE  ConnInv'
<1>1. \A m \in New : Life(m)'
  BY DEF ConnInv, Life, Unregistered
<1>2. \A m \in New : Unregistered(m)' => Unregistered(m)
  BY Zenon DEF Unregistered
<1>3. \A r \in Reuse : client[r] \in New /\ pair[r] \in New
  BY Zenon DEF ConnInv, ConnTypes
<1>4. \A r \in Reuse : Matches(r) => Matches(r)'
  BY <1>3, Zenon DEF Matches, reuseVars
<1>5. \A m \in New : Installed(m)'
  BY <1>4, Zenon DEF ConnInv, Installed, reuseVars
<1>6. ASSUME NEW r \in Reuse PROVE Asks(r)'
  <2>1. /\ Asks(r) /\ client[r] \in New /\ pair[r] \in New
        /\ rpc'[r] = rpc[r] /\ client' = client /\ pair' = pair /\ reqId' = reqId
    BY <1>3, Zenon DEF ConnInv, reuseVars
  <2>2. npc[client[r]] # "accept" =>
          npc'[client[r]] # "accept" /\ id'[client[r]] = id[client[r]]
    BY <2>1, Zenon
  <2>3. ~Unregistered(pair[r]) => ~Unregistered(pair[r])'
    BY <1>2, <2>1, Zenon DEF Unregistered
  <2> QED
    BY <1>4, <2>1, <2>2, <2>3, Zenon DEF Asks, Unregistered
<1> QED
  BY <1>1, <1>5, <1>6, Zenon DEF ConnInv

(* Each step of onNewConn, and the closing of its session.                  *)
LEMMA SessionStep ==
  ASSUME ConnInv, HoldersInv, NEW n \in New, OnNewConn(n) \/ CloseSession(n)
  PROVE  ConnInv'
<1> USE DEF Step, CloseConns, connVars
<1>0. /\ npc \in [New -> Steps] /\ id \in [New -> Nat] /\ closed \in [New -> BOOLEAN]
      /\ upstream \in [New -> {"none", "open", "closed", "failed", "panic"}]
  BY Zenon DEF ConnInv, ConnTypes, HoldersInv
<1>1. CASE ServerNewHandshake(n) \/ NewResponseFails(n) \/ NewResponse(n)
  <2>1. /\ UNCHANGED <<remote, closed, upstream, reuseVars>> /\ open' \subseteq open
        /\ npc[n] \in {"accept", "respond"} /\ npc'[n] \in {"respond", "add", "panicked", "done"}
        /\ npc'[n] = "done" => n \notin open'
        /\ npc' \in [New -> Steps]
        /\ npc[n] = "accept" \/ id'[n] = id[n]
        /\ \A m \in New \ {n} : npc'[m] = npc[m] /\ id'[m] = id[m]
    BY <1>0, <1>1, Zenon DEF ServerNewHandshake, NewResponseFails, NewResponse, Steps
  <2>2. ConnTypes'
    BY <2>1, Zenon DEF ConnInv, ConnTypes, reuseVars
  <2>3. Life(n)' /\ Unregistered(n)
    BY <2>1, Zenon DEF ConnInv, Life, Unregistered
  <2> QED
    BY <2>1, <2>2, <2>3, SessionSide, Zenon
<1>2. CASE AddConnPair(n) \/ RemoveConnPair(n) \/ DeferReleaseID(n)
  <2>1. /\ UNCHANGED <<id, remote, closed, upstream, reuseVars, open>>
        /\ npc' \in [New -> Steps]
        /\ \/ npc[n] = "add" /\ npc'[n] = "dial"
           \/ npc[n] = "remove" /\ npc'[n] = "release"
           \/ npc[n] = "release" /\ npc'[n] = "done"
        /\ \A m \in New \ {n} : npc'[m] = npc[m]
    BY <1>0, <1>2, Zenon DEF AddConnPair, RemoveConnPair, DeferReleaseID, After, Steps
  <2>2. ConnTypes'
    BY <2>1, Zenon DEF ConnInv, ConnTypes, reuseVars
  <2>3. Life(n)' /\ (Unregistered(n)' => Unregistered(n))
    BY <2>1, Zenon DEF ConnInv, Life, Unregistered
  <2> QED
    BY <2>1, <2>2, <2>3, SessionSide, Zenon
<1>3. CASE NewUpstreamConn(n)
  <2>1. /\ UNCHANGED <<id, remote, closed, reuseVars>> /\ open' \subseteq open
        /\ npc' \in [New -> Steps] /\ npc[n] = "dial"
        /\ upstream' \in [New -> {"none", "open", "closed", "failed", "panic"}]
        /\ \/ upstream'[n] = "open" /\ npc'[n] = "pump"
           \/ upstream'[n] = "failed" /\ npc'[n] = "remove" /\ n \notin open'
           \/ upstream'[n] = "panic" /\ npc'[n] = "remove"
        /\ \A m \in New \ {n} : npc'[m] = npc[m] /\ upstream'[m] = upstream[m]
    BY <1>0, <1>3, ZenonT(40) DEF NewUpstreamConn, After, Steps
  <2>2. ConnTypes'
    BY <2>1, Zenon DEF ConnInv, ConnTypes, reuseVars
  <2>3. Life(n)' /\ ~Unregistered(n)'
    BY <2>1, Zenon DEF ConnInv, Life, Unregistered
  <2> QED
    BY <2>1, <2>2, <2>3, SessionSide, Zenon
<1>4. CASE PumpsEnd(n)
  <2>1. /\ UNCHANGED <<id, remote, closed, reuseVars, open>>
        /\ npc' \in [New -> Steps] /\ npc[n] = "pump" /\ npc'[n] = "remove" /\ closed[n]
        /\ upstream' \in [New -> {"none", "open", "closed", "failed", "panic"}]
        /\ upstream'[n] = "closed"
        /\ \A m \in New \ {n} : npc'[m] = npc[m] /\ upstream'[m] = upstream[m]
    BY <1>0, <1>4, Zenon DEF PumpsEnd, After, Steps
  <2>2. ConnTypes'
    BY <2>1, Zenon DEF ConnInv, ConnTypes, reuseVars
  <2>3. Life(n)' /\ ~Unregistered(n)'
    BY <2>1, Zenon DEF ConnInv, Life, Unregistered
  <2> QED
    BY <2>1, <2>2, <2>3, SessionSide, Zenon
<1>5. CASE CloseSession(n)
  <2>1. /\ UNCHANGED <<npc, id, remote, upstream, reuseVars>> /\ npc[n] = "pump"
        /\ open' = open \ {remote[n]} /\ closed' \in [New -> BOOLEAN] /\ closed'[n]
        /\ \A m \in New \ {n} : closed'[m] = closed[m]
    BY <1>0, <1>5, ZenonT(40) DEF CloseSession
  <2>2. ConnTypes'
    BY <2>1, Zenon DEF ConnInv, ConnTypes, reuseVars
  <2>3. Life(n)' /\ (Unregistered(n)' => Unregistered(n))
    BY <2>1, Zenon DEF ConnInv, Life, Unregistered
  <2> QED
    BY <2>1, <2>2, <2>3, SessionSide, Zenon
<1> QED
  BY <1>1, <1>2, <1>3, <1>4, <1>5, Zenon DEF OnNewConn

(* A step of request r alone that installs nothing.                         *)
LEMMA RequestSide ==
  ASSUME ConnInv, NEW r \in Reuse, UNCHANGED <<newVars, client>>, open' \subseteq open,
         ConnTypes', rpc[r] # "done", Asks(r)',
         \A q \in Reuse \ {r} : rpc'[q] = rpc[q] /\ pair'[q] = pair[q] /\ reqId'[q] = reqId[q]
  PROVE  ConnInv'
<1>1. \A n \in New : Life(n)'
  BY Zenon DEF ConnInv, Life, Unregistered, newVars
<1>2. ASSUME NEW n \in New PROVE Installed(n)'
  <2>1. Installed(n) /\ remote' = remote /\ npc' = npc /\ client' = client
    BY Zenon DEF ConnInv, newVars
  <2>2. \A q \in Reuse : rpc[q] = "done" => rpc'[q] = "done" /\ pair'[q] = pair[q]
    BY Zenon
  <2> QED
    BY <2>1, <2>2, Zenon DEF Installed, Matches
<1>3. ASSUME NEW q \in Reuse PROVE Asks(q)'
  <2>1. CASE q = r
    BY <2>1, Zenon
  <2>2. CASE q # r
    <3>1. /\ Asks(q) /\ client' = client /\ npc' = npc /\ id' = id
          /\ upstream' = upstream /\ remote' = remote
      BY Zenon DEF ConnInv, newVars
    <3>2. rpc'[q] = rpc[q] /\ pair'[q] = pair[q] /\ reqId'[q] = reqId[q]
      BY <2>2, Zenon
    <3> QED
      BY <3>1, <3>2, Zenon DEF Asks, Matches, Unregistered
  <2> QED
    BY <2>1, <2>2
<1> QED
  BY <1>1, <1>2, <1>3, Zenon DEF ConnInv

(* The pair that getConnPair finds under the id of the request.             *)
LEMMA FoundMatches ==
  ASSUME IInv, ConnInv, NEW r \in Reuse, rpc[r] = "get", NEW m \in Owners(reqId[r])
  PROVE  /\ m \in New /\ ~Unregistered(m)
         /\ m = client[r] \/ npc[client[r]] = "done"
<1>1. m \in New /\ <<reqId[r], m>> \in connPairs
  BY DEF Owners
<1>2. id[m] = reqId[r] /\ npc[m] \in {"dial", "pump", "remove"}
  BY <1>1, Zenon DEF IInv, PairsExact
<1>3. ~Unregistered(m)
  BY <1>1, <1>2, Zenon DEF ConnInv, Life, Unregistered
<1>4. client[r] \in New /\ npc[client[r]] # "accept" /\ id[client[r]] = reqId[r]
  BY DEF ConnInv, ConnTypes, Asks
<1>5. npc[client[r]] = "done" \/ Holds(client[r])
  BY <1>4 DEF ConnInv, ConnTypes, Steps, Holds
<1> QED
  BY <1>1, <1>2, <1>3, <1>4, <1>5, ZenonT(40) DEF IInv, IDsUnique, Holds

(* Each step of onReuseConn.                                                *)
LEMMA RequestStep ==
  ASSUME IInv, ConnInv, NEW r \in Reuse, OnReuseConn(r)
  PROVE  ConnInv'
<1> USE DEF Go, CloseConns, connVars
<1> DEFINE RPC == {"accept", "query", "spawn", "respond", "get", "replace", "done"}
<1>0. /\ rpc \in [Reuse -> RPC] /\ pair \in [Reuse -> New] /\ reqId \in [Reuse -> Nat]
      /\ client[r] \in New /\ id \in [New -> Nat] /\ remote \in [New -> New \cup Reuse]
  BY DEF ConnInv, ConnTypes, IInv, HoldersInv
<1>1. ASSUME rpc[r] \in {"query", "spawn", "respond", "get", "replace"}, Refuse(r),
             UNCHANGED <<newVars, client, reqId>>
      PROVE  ConnInv'
  <2>1. /\ rpc' \in [Reuse -> RPC] /\ rpc'[r] = "done" /\ UNCHANGED pair
        /\ open' = open \ {r} /\ \A q \in Reuse \ {r} : rpc'[q] = rpc[q]
    BY <1>0, <1>1, Zenon DEF Refuse
  <2>2. ConnTypes'
    BY <1>1, <2>1, SMTT(30) DEF ConnInv, ConnTypes, newVars
  <2>3. Asks(r)'
    BY <1>1, <2>1, ZenonT(40) DEF ConnInv, Asks, newVars
  <2> QED
    BY <1>1, <2>1, <2>2, <2>3, RequestSide, Zenon
<1>2. CASE ReadReuseRequest(r)
  <2>1. /\ rpc[r] = "accept" /\ rpc' \in [Reuse -> RPC] /\ rpc'[r] = "query"
        /\ npc[client[r]] # "accept" /\ reqId' \in [Reuse -> Nat] /\ reqId'[r] = id[client[r]]
        /\ UNCHANGED <<newVars, client, pair, open>>
        /\ \A q \in Reuse \ {r} : rpc'[q] = rpc[q] /\ reqId'[q] = reqId[q]
    BY <1>0, <1>2, Zenon DEF ReadReuseRequest
  <2>2. ConnTypes'
    BY <2>1, Zenon DEF ConnInv, ConnTypes, newVars
  <2>3. Asks(r)'
    BY <2>1, Zenon DEF Asks, newVars
  <2> QED
    BY <2>1, <2>2, <2>3, RequestSide, Zenon
<1>3. ASSUME rpc[r] \in {"query", "spawn", "respond"}, NEW to \in {"spawn", "respond", "get"},
             Go(r, to), UNCHANGED <<newVars, client, reqId, pair>>, open' \subseteq open
      PROVE  ConnInv'
  <2>1. /\ rpc' \in [Reuse -> RPC] /\ rpc'[r] = to
        /\ \A q \in Reuse \ {r} : rpc'[q] = rpc[q]
    BY <1>0, <1>3, Zenon
  <2>2. ConnTypes'
    BY <1>3, <2>1, Zenon DEF ConnInv, ConnTypes, newVars
  <2>3. Asks(r)'
    BY <1>3, <2>1, Zenon DEF ConnInv, Asks, newVars
  <2> QED
    BY <1>3, <2>1, <2>2, <2>3, RequestSide, Zenon
<1>4. CASE QueryByID(r) \/ Spawn(r) \/ Respond(r)
  BY <1>1, <1>3, <1>4, Zenon DEF QueryByID, Spawn, Respond
<1>5. CASE GetConnPair(r)
  <2>1. CASE Refuse(r)
    BY <1>1, <1>5, <2>1, Zenon DEF GetConnPair
  <2>2. ASSUME NEW m \in Owners(reqId[r]), pair' = [pair EXCEPT ![r] = m], Go(r, "replace"),
               UNCHANGED open
        PROVE  ConnInv'
    <3>1. rpc[r] = "get" /\ UNCHANGED <<newVars, client, reqId>>
      BY <1>5, Zenon DEF GetConnPair
    <3>2. m \in New /\ ~Unregistered(m) /\ (m = client[r] \/ npc[client[r]] = "done")
      BY <3>1, FoundMatches, Zenon
    <3>3. /\ rpc' \in [Reuse -> RPC] /\ rpc'[r] = "replace"
          /\ pair' \in [Reuse -> New] /\ pair'[r] = m
          /\ \A q \in Reuse \ {r} : rpc'[q] = rpc[q] /\ pair'[q] = pair[q]
      BY <1>0, <2>2, <3>2, Zenon
    <3>4. ConnTypes'
      BY <3>1, <3>3, Zenon DEF ConnInv, ConnTypes, newVars
    <3>5. Asks(r)'
      BY <3>1, <3>2, <3>3, Zenon DEF ConnInv, Asks, Matches, Unregistered, newVars
    <3> QED
      BY <2>2, <3>1, <3>3, <3>4, <3>5, RequestSide, Zenon
  <2> QED
    BY <1>5, <2>1, <2>2, Zenon DEF GetConnPair
<1>6. CASE ReplaceConn(r)
  <2> DEFINE m == pair[r]
  <2>1. CASE Refuse(r) /\ UNCHANGED remote
    BY <1>1, <1>6, <2>1, Zenon DEF ReplaceConn, newVars
  <2>2. CASE /\ ~closed[m] /\ CloseConns({remote[m]}) /\ Go(r, "done") /\ UNCHANGED pair
             /\ remote' = [remote EXCEPT ![m] = r]
    <3>1. /\ rpc[r] = "replace" /\ m \in New
          /\ UNCHANGED <<npc, id, closed, upstream, client, reqId>>
      BY <1>0, <1>6, Zenon DEF ReplaceConn
    <3>2. /\ rpc' \in [Reuse -> RPC] /\ rpc'[r] = "done"
          /\ \A q \in Reuse \ {r} : rpc'[q] = rpc[q]
          /\ remote' \in [New -> New \cup Reuse] /\ remote'[m] = r
          /\ \A n \in New \ {m} : remote'[n] = remote[n]
          /\ open' = open \ {remote[m]}
      BY <1>0, <2>2, <3>1, Zenon
    <3>3. ~Unregistered(m) /\ Matches(r)
      BY <3>1, Zenon DEF ConnInv, Asks
    <3>4. ConnTypes'
      BY <2>2, <3>1, <3>2, Zenon DEF ConnInv, ConnTypes
    <3>5. \A n \in New : Life(n)'
      <4> SUFFICES ASSUME NEW n \in New PROVE Life(n)'
        BY Zenon
      <4>1. Life(n) /\ (remote[n] # n => remote[n] \in Reuse /\ pair[remote[n]] = n)
        BY Zenon DEF ConnInv, Installed
      <4>2. CASE n = m
        BY <2>2, <3>1, <3>2, <3>3, <4>1, <4>2, Zenon DEF Life, Unregistered
      <4>3. CASE n # m
        BY <3>1, <3>2, <4>1, <4>3, ZenonT(40) DEF Life, Unregistered
      <4> QED
        BY <4>2, <4>3
    <3>6. \A n \in New : Installed(n)'
      <4> SUFFICES ASSUME NEW n \in New PROVE Installed(n)'
        OBVIOUS
      <4>1. Installed(n)
        BY Zenon DEF ConnInv
      <4>2. CASE n = m
        BY <2>2, <3>1, <3>2, <3>3, <4>2, Zenon DEF Installed, Matches
      <4>3. CASE n # m
        BY <2>2, <3>1, <3>2, <4>1, <4>3, ZenonT(40) DEF Installed, Matches
      <4> QED
        BY <4>2, <4>3
    <3>7. \A q \in Reuse : Asks(q)'
      <4> SUFFICES ASSUME NEW q \in Reuse PROVE Asks(q)'
        OBVIOUS
      <4>1. Asks(q) /\ pair[q] \in New
        BY Zenon DEF ConnInv, ConnTypes
      <4>2. CASE q = r
        BY <2>2, <3>1, <3>2, <4>1, <4>2, ZenonT(40) DEF Asks
      <4>3. CASE q # r
        BY <2>2, <3>1, <3>2, <4>1, <4>3, Zenon DEF Asks, Matches, Unregistered
      <4> QED
        BY <4>2, <4>3, Zenon
    <3> QED
      BY <3>4, <3>5, <3>6, <3>7, Zenon DEF ConnInv
  <2> QED
    BY <1>6, <2>1, <2>2, ZenonT(40) DEF ReplaceConn, ReplaceRefused
<1> QED
  BY <1>2, <1>4, <1>5, <1>6, ZenonT(40) DEF OnReuseConn

(* What sessions have closed and requests have installed, in every state.   *)
THEOREM ConnInvariance == Spec => []ConnInv
<1>1. IInv /\ ConnInv /\ [Next]_vars => ConnInv'
  <2> SUFFICES ASSUME IInv, ConnInv, [Next]_vars PROVE ConnInv'
    BY Zenon
  <2>1. CASE UNCHANGED vars
    BY <2>1, ZenonT(40) DEF ConnInv, ConnTypes, Life, Installed, Asks, Matches, Unregistered,
                vars, newVars, reuseVars, connVars
  <2> QED
    BY <2>1, SessionStep, RequestStep DEF Next, IInv
<1> QED
  BY <1>1, InitConn, ServerInvariance, PTL DEF Spec

(* The connection in RemoteConn belongs to its session, or to one that is   *)
(* over and whose id the session has been given.                            *)
THEOREM InstallsOwn == Spec => []InstalledMatches
<1>1. ConnInv => InstalledMatches
  <2> SUFFICES ASSUME ConnInv, NEW n \in New, SecretOf(remote[n]) # n
               PROVE  npc[SecretOf(remote[n])] = "done"
    BY DEF InstalledMatches
  <2>1. remote[n] # n
    BY Zenon DEF SecretOf
  <2>2. remote[n] \in Reuse /\ pair[remote[n]] = n /\ Matches(remote[n])
    BY <2>1, Zenon DEF ConnInv, Installed
  <2>3. SecretOf(remote[n]) = client[remote[n]]
    BY <2>2, ServerAssumption, Zenon DEF SecretOf
  <2> QED
    BY <2>2, <2>3 DEF Matches
<1> QED
  BY <1>1, ConnInvariance, PTL

(* A session that is over leaves no client connection open, a panic and a   *)
(* failed dial excepted, and then at most the one in RemoteConn.            *)
THEOREM LeavesNothingOpen == Spec => []NothingLeftOpen
<1>1. ConnInv => NothingLeftOpen
  <2> SUFFICES ASSUME ConnInv, NEW n \in New, Ended(n),
                      NEW c \in open \cap ({n} \cup {r \in Reuse :
                                                     pair[r] = n /\ rpc[r] = "done"})
               PROVE  /\ c = remote[n]
                      /\ \/ npc[n] = "panicked" /\ c = n
                         \/ upstream[n] = "panic"
                         \/ upstream[n] = "failed" /\ c # n
    BY Zenon DEF NothingLeftOpen
  <2>1. c = remote[n]
    BY DEF ConnInv, Life, Asks
  <2>2. CASE npc[n] = "panicked"
    BY <2>1, <2>2, Zenon DEF ConnInv, Life, Unregistered
  <2>3. CASE npc[n] = "done"
    <3>1. upstream[n] \in {"none", "open", "closed", "failed", "panic"}
      BY Zenon DEF ConnInv, ConnTypes
    <3> QED
      BY <2>1, <2>3, <3>1, ZenonT(40) DEF ConnInv, Life, Unregistered
  <2> QED
    BY <2>2, <2>3, Zenon DEF Ended
<1> QED
  BY <1>1, ConnInvariance, PTL

(* The rest of the state that no other theorem is about.                    *)
RestTypes ==
  /\ oldConn \in [Reuse -> New \cup Reuse]
  /\ open \subseteq New \cup Reuse /\ usable \subseteq New \cup Reuse

(* Sockets and buffers are only taken away from conns, except by spawn, and *)
(* a handler keeps a conn that connPairs led it to.                         *)
LEMMA RestStep == ConnTypes /\ RestTypes /\ [Next]_vars => RestTypes'
<1> SUFFICES ASSUME ConnTypes, RestTypes, [Next]_vars PROVE RestTypes'
  OBVIOUS
<1> USE DEF newVars, reuseVars, connVars
<1>1. ASSUME oldConn' = oldConn, open' \subseteq open, usable' \subseteq usable
      PROVE  RestTypes'
  BY <1>1, Zenon DEF RestTypes
<1>2. ASSUME NEW n \in New, OnNewConn(n) \/ CloseSession(n) PROVE RestTypes'
  <2>1. oldConn' = oldConn /\ open' \subseteq open /\ usable' \subseteq usable
    BY <1>2, Zenon DEF OnNewConn, ServerNewHandshake, NewResponseFails, NewResponse, AddConnPair,
      NewUpstreamConn, PumpsEnd, RemoveConnPair, DeferReleaseID, CloseSession, CloseConns
  <2> QED
    BY <1>1, <2>1, Zenon
<1>3. ASSUME NEW r \in Reuse, OnReuseConn(r) PROVE RestTypes'
  <2>1. /\ open' \subseteq open /\ usable' \subseteq usable \cup {r}
        /\ \/ oldConn' = oldConn \/ Forget(r)
           \/ \E m \in New : oldConn' = [oldConn EXCEPT ![r] = remote[m]]
    BY <1>3, Zenon DEF OnReuseConn, ReadReuseRequest, QueryByID, Spawn, Respond, GetConnPair,
      ReplaceConn, Refuse, CloseConns, Owners
  <2>2. \A m \in New : remote[m] \in New \cup Reuse
    BY Zenon DEF ConnTypes
  <2>3. oldConn' \in [Reuse -> New \cup Reuse]
    BY <2>1, <2>2 DEF RestTypes, Forget
  <2> QED
    BY <2>1, <2>3, Zenon DEF RestTypes
<1>4. CASE UNCHANGED vars
  BY <1>1, <1>4, Zenon DEF vars
<1> QED
  BY <1>2, <1>3, <1>4, Zenon DEF Next

(* Every variable of the server has its type.                               *)
THEOREM ServerTypes == Spec => []TypeOK
<1>1. Init => RestTypes
  BY DEF Init, RestTypes
<1>2. ConnInv => ConnTypes
  BY Zenon DEF ConnInv
<1>3. ASSUME IInv, ConnInv, RestTypes PROVE TypeOK
  <2>1. connPairs \subseteq Nat \X New
    BY <1>3 DEF IInv, PairsExact, HoldersInv
  <2> QED
    BY <1>3, <2>1, Zenon DEF TypeOK, IInv, AllocInv, HoldersInv, ConnInv, ConnTypes, RestTypes, Steps
<1> QED
  BY <1>1, <1>2, <1>3, RestStep, ServerInvariance, ConnInvariance, PTL DEF Spec
=============================================================================

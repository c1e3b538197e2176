----------------------------- MODULE IDAllocator -----------------------------
(***************************************************************************)
(* The allocator of connection ids (scp/idallocator.go): a counter off and *)
(* a stack of released ids.  Each method runs under the allocator's mutex. *)
(* held is the set of ids handed out and not given back.                   *)
(***************************************************************************)
EXTENDS Integers, Sequences, FiniteSets

CONSTANT Start   \* first id

ASSUME AllocatorAssumption == Start \in Nat

VARIABLES off, free, held

allocVars == <<off, free, held>>

AllocInit == off = Start /\ free = <<>> /\ held = {}

(* The id the next AcquireID returns. *)
NextID == IF free # <<>> THEN free[Len(free)] ELSE off

AcquireID ==
  \/ /\ free # <<>>
     /\ free' = SubSeq(free, 1, Len(free) - 1)
     /\ UNCHANGED off
  \/ /\ free = <<>>
     /\ off' = off + 1
     /\ UNCHANGED free

(* ReleaseID panics when id > off, and starts over when all are released.  *)
AllReleased_OneEarly(f) == Len(f) + 1 = off - Start
AllReleased(f) == Len(f) = off - Start

ReleaseID(id) ==
  LET f == Append(free, id) IN
  /\ id <= off
  /\ \/ AllReleased(f) /\ off' = Start /\ free' = <<>>
     \/ ~AllReleased(f) /\ free' = f /\ UNCHANGED off

Acquire == AcquireID /\ held' = held \cup {NextID}

Release(id) == ReleaseID(id) /\ held' = held \ {id}

AllocNext == Acquire \/ \E id \in held : Release(id)

AllocSpec == AllocInit /\ [][AllocNext]_allocVars

-----------------------------------------------------------------------------
AllocTypeOK == off \in Nat /\ free \in Seq(Nat) /\ held \subseteq Nat

(* No id is handed out while somebody holds it.                            *)
FreshID == NextID \notin held

(* Every id below off is either held or free, and free only once; so the   *)
(* panic of ReleaseID is out of reach and no id is lost.                   *)
Accounting ==
  /\ \A i \in Start .. off - 1 : i \in held \/ \E j \in DOMAIN free : free[j] = i
  /\ \A i \in held : i \in Start .. off - 1
  /\ \A j \in DOMAIN free : free[j] \in Start .. off - 1 /\ free[j] \notin held
  /\ \A j, k \in DOMAIN free : free[j] = free[k] => j = k

(* The ids in use stay small: when all are given back numbering restarts.  *)
Restarts == held = {} => off = Start /\ free = <<>>
=============================================================================

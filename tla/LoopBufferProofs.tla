--------------------------- MODULE LoopBufferProofs ---------------------------
(***************************************************************************)
(* The ring buffer keeps the last bytes written, for every capacity and    *)
(* every sequence of writes and resets.  The inductive invariant says what *)
(* each slot holds: below off, the newest bytes; from off on, once the     *)
(* buffer has looped, the ones before them.                                *)
(***************************************************************************)
EXTENDS LoopBuffer, TLAPS

(* The time a leaf may take. *)
USE SMTT(30), ZenonT(20)

(* Where the bytes are: the comment on the buf field of loopBuffer.         *)
Contents ==
  /\ looped = "no" => off = total
  /\ looped = "yes" => total >= Cap
  /\ \A i \in Slots : i < off => buf[i] = total - off + i + 1
  /\ looped = "yes" => \A i \in Slots : i >= off => buf[i] = total - off - Cap + i + 1

RingInv == TypeOK /\ Contents

(* Write and Reset preserve the layout.                                     *)
LEMMA Step == RingInv /\ [Next]_vars => RingInv'
<1> SUFFICES ASSUME RingInv, [Next]_vars PROVE RingInv'
  OBVIOUS
<1> USE LoopBufferAssumption DEF RingInv, TypeOK, Contents, Slots
<1>1. CASE Reset
  BY <1>1 DEF Reset
<1>2. ASSUME NEW n \in 0 .. MaxWrite, Write(n) PROVE RingInv'
  <2>1. CASE WriteAll(n)
    BY <1>2, <2>1 DEF Write, WriteAll
  <2>2. CASE WriteInside(n)
    BY <1>2, <2>2 DEF Write, WriteInside
  <2>3. CASE WriteRound(n)
    BY <1>2, <2>3 DEF Write, WriteRound
  <2> QED
    BY <1>2, <2>1, <2>2, <2>3 DEF Write
<1>3. CASE UNCHANGED vars
  BY <1>3 DEF vars
<1> QED
  BY <1>1, <1>2, <1>3 DEF Next

(* The layout holds in every reachable state.                               *)
THEOREM Invariance == Spec => []RingInv
<1>1. Init => RingInv
  BY LoopBufferAssumption DEF Init, RingInv, TypeOK, Contents, Slots
<1> QED
  BY <1>1, Step, PTL DEF Spec

(* The buffer's fields stay in range.                                       *)
THEOREM TypeCorrect == Spec => []TypeOK
<1>1. RingInv => TypeOK
  BY DEF RingInv
<1> QED
  BY <1>1, Invariance, PTL

(* Len counts the bytes that are there.                                     *)
THEOREM LenCorrect == Spec => []LenIsRight
<1>1. RingInv => LenIsRight
  BY LoopBufferAssumption DEF RingInv, TypeOK, Contents, LenIsRight, BufLen, Slots
<1> QED
  BY <1>1, Invariance, PTL

(* ReadLastBytes returns the last bytes written.                            *)
THEOREM LastBytesCorrect == Spec => []LastBytesKept
<1>1. ASSUME RingInv, NEW n \in 0 .. BufLen, NEW k \in 1 .. n
      PROVE ReadLastBytes(n)[k] = total - n + k
  <2> USE LoopBufferAssumption, <1>1 DEF RingInv, TypeOK, Contents, BufLen, Slots
  <2>1. n \in Int /\ k \in Int /\ 1 <= k /\ k <= n /\ n <= Cap
    OBVIOUS
  <2>2. CASE n <= off
    <3>1. ReadLastBytes(n)[k] = buf[off - n + k - 1] /\ off - n + k - 1 \in Slots
      BY <2>1, <2>2 DEF ReadLastBytes
    <3> QED
      BY <2>1, <2>2, <3>1
  <2>3. CASE n > off /\ k <= n - off
    <3>1. /\ ReadLastBytes(n)[k] = buf[Cap - (n - off) + k - 1]
          /\ Cap - (n - off) + k - 1 \in Slots /\ looped = "yes"
      BY <2>1, <2>3 DEF ReadLastBytes
    <3> QED
      BY <2>1, <2>3, <3>1
  <2>4. CASE n > off /\ k > n - off
    <3>1. ReadLastBytes(n)[k] = buf[k - (n - off) - 1] /\ k - (n - off) - 1 \in Slots
      BY <2>1, <2>4 DEF ReadLastBytes
    <3> QED
      BY <2>1, <2>4, <3>1
  <2> QED
    BY <2>1, <2>2, <2>3, <2>4
<1>2. RingInv => LastBytesKept
  BY <1>1 DEF LastBytesKept
<1> QED
  BY <1>2, Invariance, PTL
=============================================================================

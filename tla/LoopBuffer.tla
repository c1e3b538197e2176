------------------------------ MODULE LoopBuffer ------------------------------
(***************************************************************************)
(* The ring buffer behind a conn's reuse buffer (scp/loopbuffer.go).  The  *)
(* bytes written are numbered 1, 2, 3, ... since the last Reset; total is  *)
(* how many there were, so the last n are total - n + 1 .. total.          *)
(***************************************************************************)
EXTENDS Integers, Sequences

CONSTANTS
  Cap,       \* cap(b.buf)
  MaxWrite,  \* bound: bytes in one Write
  MaxTotal   \* bound: bytes written between two Resets

ASSUME LoopBufferAssumption ==
  Cap \in Nat \ {0} /\ MaxWrite \in Nat /\ MaxTotal \in Nat

Slots == 0 .. Cap - 1

VARIABLES buf, off, looped, total

vars == <<buf, off, looped, total>>

Init == /\ buf = [i \in Slots |-> 0] /\ off = 0 /\ looped = "no"
        /\ total = 0

BufLen == IF looped = "yes" THEN Cap ELSE off

(* Write of n bytes: more than fit, fewer than reach the end, or round it. *)
WriteAll(n) ==
  /\ n >= Cap
  /\ buf' = [i \in Slots |-> total + n - Cap + i + 1]
  /\ looped' = "yes" /\ off' = 0

WriteInside(n) ==
  /\ n < Cap /\ n < Cap - off
  /\ buf' = [i \in Slots |-> IF off <= i /\ i < off + n
                             THEN total + (i - off) + 1 ELSE buf[i]]
  /\ off' = off + n
  /\ UNCHANGED looped

WriteRound_KeepsFlag(n) ==
  LET right == Cap - off IN
  /\ n < Cap /\ n >= right
  /\ buf' = [i \in Slots |-> IF off <= i THEN total + (i - off) + 1
                             ELSE IF i < n - right THEN total + right + i + 1
                             ELSE buf[i]]
  /\ off' = n - right
  /\ UNCHANGED looped
WriteRound(n) ==
  LET right == Cap - off IN
  /\ n < Cap /\ n >= right
  /\ buf' = [i \in Slots |-> IF off <= i THEN total + (i - off) + 1
                             ELSE IF i < n - right THEN total + right + i + 1
                             ELSE buf[i]]
  /\ looped' = "yes" /\ off' = n - right

Write(n) ==
  /\ total + n <= MaxTotal
  /\ WriteAll(n) \/ WriteInside(n) \/ WriteRound(n)
  /\ total' = total + n

(* Reset leaves the bytes in place: the pool hands the buffer out again. *)
Reset == /\ off' = 0 /\ looped' = "no" /\ total' = 0
         /\ UNCHANGED buf

(* What ReadLastBytes(n) returns for n <= Len. *)
ReadLastBytes_FromEnd(n) ==
  LET wrapped == n - off IN
  [k \in 1 .. n |-> IF n <= off THEN buf[off - n + k - 1]
                    ELSE IF k <= wrapped THEN buf[Cap - n + k - 1]
                    ELSE buf[k - wrapped - 1]]
ReadLastBytes(n) ==
  LET wrapped == n - off IN
  [k \in 1 .. n |-> IF n <= off THEN buf[off - n + k - 1]
                    ELSE IF k <= wrapped THEN buf[Cap - wrapped + k - 1]
                    ELSE buf[k - wrapped - 1]]

Next == Reset \/ \E n \in 0 .. MaxWrite : Write(n)

Spec == Init /\ [][Next]_vars

-----------------------------------------------------------------------------
TypeOK == /\ buf \in [Slots -> Int] /\ off \in Slots /\ looped \in {"yes", "no"}
          /\ total \in Nat

(* Len is the number of bytes written, until the buffer is full.            *)
LenIsRight == BufLen = IF total < Cap THEN total ELSE Cap

(* ReadLastBytes returns the last bytes written, in order, whatever mixture *)
(* of short, long and wrapping writes and reuses of the buffer came before: *)
(* what ScpSession assumes of the reuse buffer.                             *)
LastBytesKept ==
  \A n \in 0 .. BufLen : \A k \in 1 .. n : ReadLastBytes(n)[k] = total - n + k
=============================================================================

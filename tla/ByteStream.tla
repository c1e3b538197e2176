------------------------------ MODULE ByteStream ------------------------------
(***************************************************************************)
(* What SCP promises of one direction of a session: a reliable stream of   *)
(* bytes.  Byte i is the i-th byte accepted from the writer; the reader    *)
(* gets byte 1, 2, 3, ... and never one that was not accepted.  Once the   *)
(* stream is faulty a byte may also come out as garbage (0).               *)
(***************************************************************************)
EXTENDS Naturals, Sequences

VARIABLES sent, got, faulty

Init == sent = 0 /\ got = <<>> /\ faulty = FALSE

Accept ==
  /\ sent' = sent + 1
  /\ faulty' \in {faulty, TRUE}
  /\ UNCHANGED got

Deliver ==
  /\ Len(got) < sent
  /\ got' = Append(got, Len(got) + 1)
  /\ UNCHANGED <<sent, faulty>>

Garble ==
  /\ faulty
  /\ got' \in {Append(got, 0), Append(got, Len(got) + 1)}
  /\ UNCHANGED <<sent, faulty>>

Next == Accept \/ Deliver \/ Garble

Spec == Init /\ [][Next]_<<sent, got, faulty>>
=============================================================================

----------------------------- MODULE MCScpSession -----------------------------
(* Small instances of ScpSession.                                            *)
EXTENDS ScpSession

(* Bytes go in one direction only, either one: what the two directions       *)
(* share, the conns and their replacement, is exercised by each alone.       *)
OneWay == cSent = 0 \/ wrote = 0
=============================================================================

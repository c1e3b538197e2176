------------------------------- MODULE MCServer -------------------------------
(* Small instances of Server: interchangeable sessions and reuse requests.   *)
EXTENDS Server, TLC

(* The goroutines of a kind are interchangeable.                             *)
Symmetry == Permutations(New) \cup Permutations(Reuse)
=============================================================================

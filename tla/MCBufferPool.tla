----------------------------- MODULE MCBufferPool -----------------------------
(* Small instances of BufferPool: interchangeable conns and buffers.         *)
EXTENDS BufferPool, TLC

Symmetry == Permutations(Conns) \cup Permutations(Buffers)
=============================================================================

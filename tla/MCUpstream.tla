------------------------------ MODULE MCUpstream ------------------------------
(* Files that take every path of reloadConfig: one with a list of hosts and one *)
(* with only a resolver, and three that are refused.                            *)
EXTENDS Upstream, TLC

H(n, w, a) == [name |-> n, weight |-> w, addrs |-> a]
File(b, r, t, z, hs) == [bad |-> b, resolv |-> r, net |-> t, buf |-> z, hosts |-> hs]

MCFiles == {
  File("", "none", "tcp", 1, <<H("a", 2, <<"x", "y">>), H("b", 0, <<"z">>)>>),
  File("", "rule", "scp", 0, <<>>),
  File("", "none", "tcp", 0, <<>>),
  File("option", "none", "tcp", 0, <<>>),
  File("hosts", "rule", "tcp", 0, <<>>)}

(* Dials, and reloads, are interchangeable.                                     *)
Symmetry == Permutations(Dialers) \cup Permutations(Reloaders)
=============================================================================

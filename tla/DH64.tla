--------------------------------- MODULE DH64 ---------------------------------
(***************************************************************************)
(* The key exchange (dh64/dh64.go) on words of W bits: p is a prime just   *)
(* below 2^W, so that doubling overflows, as with the 64 bits of the code. *)
(***************************************************************************)
EXTENDS Integers

CONSTANTS
  W,      \* bits of a word
  P, G    \* the constants p and g

ASSUME DH64Assumption == W \in Nat /\ P \in Nat /\ P < 2^W /\ G \in 1 .. P - 1

(* p is prime. *)
ASSUME PrimeAssumption == \A x, y \in 1 .. P - 1 : (x * y) % P # 0

Word == 0 .. 2^W - 1
Wrap(x) == x % 2^W

(* mulModP: one turn of its loop, and the result once b is 0, which it is   *)
(* after W turns at the latest.                                             *)
AddModP(m, a) == IF m >= P - a THEN m - (P - a) ELSE Wrap(m + a)
Twice_Unreduced(a) == Wrap(a * 2)
Twice(a) == IF a >= P - a THEN Wrap(Wrap(a * 2) - P) ELSE Wrap(a * 2)

Turn(s) ==
  IF s.b = 0 THEN s
  ELSE [m |-> IF s.b % 2 > 0 THEN AddModP(s.m, s.a) ELSE s.m,
        a |-> Twice(s.a),
        b |-> s.b \div 2]
MulLoop(a, b) ==
  LET loop[i \in Nat] == IF i = 0 THEN [m |-> 0, a |-> a, b |-> b] ELSE Turn(loop[i - 1])
  IN loop
MulModP(a, b) == MulLoop(a, b)[W].m

PowStep(t, a, b) == LET s == MulModP(t, t) IN IF b % 2 > 0 THEN MulModP(s, a) ELSE s
PowLoop(a) ==
  LET pow[b \in Nat \ {0}] == IF b = 1 THEN a ELSE PowStep(pow[b \div 2], a, b)
  IN pow
PowModP(a, b) == PowLoop(a)[b]

(* powmodp, for a # 0 and b # 0; it panics on the others. *)
PowMod(a, b) == PowModP(IF a > P THEN a % P ELSE a, b)

PrivateKeys == Word \ {0}
PublicKey(priKey) == PowMod(G, priKey)
Secret(priKey, pubKey) == PowMod(pubKey, priKey)

(* What they should compute. *)
Powers(a) == LET pw[i \in Nat] == IF i = 0 THEN 1 ELSE (pw[i - 1] * a) % P IN pw
Power(a, n) == Powers(a)[n]
=============================================================================

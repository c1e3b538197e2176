---------------------------- MODULE HandshakeProofs ----------------------------
(***************************************************************************)
(* The handshake, for every word size, every prime, every number of pieces *)
(* and every timeout.  First the arithmetic of dh64: mulModP and powmodp   *)
(* compute the product and the power modulo p although their words         *)
(* overflow, and the powers commute.  Then the two ends of a handshake,    *)
(* and the deadlines.                                                      *)
(***************************************************************************)
EXTENDS Handshake, FiniteSetTheorems, SequenceTheorems, WellFoundedInduction, TLAPS

(* The time a leaf may take. *)
USE SMTT(30), ZenonT(20)

-----------------------------------------------------------------------------
(* Induction and recursion on the natural numbers. *)

(* A set with 0 and the successors of its members holds every number.       *)
LEMMA NatSet ==
  ASSUME NEW S \in SUBSET Nat, 0 \in S, \A n \in S : n + 1 \in S
  PROVE  S = Nat
<1> DEFINE R == {ss \in Nat \X Nat : ss[1] < ss[2]}
           T == Nat \ S
<1> SUFFICES ASSUME T # {} PROVE FALSE
  BY Zenon
<1>1. IsWellFoundedOn(R, Nat)
  BY NatLessThanWellFounded DEF OpToRel
<1>0. T \subseteq Nat
  OBVIOUS
<1> HIDE DEF R, T
<1>2. PICK x \in T : \A y \in T : ~ (<<y, x>> \in R)
  BY <1>0, <1>1, WFMin, Zenon
<1> USE DEF T
<1>3. x \in Nat /\ x # 0 /\ x - 1 \in Nat
  OBVIOUS
<1>4. <<x - 1, x>> \in R
  BY <1>3 DEF R
<1>5. x - 1 \in S
  BY <1>2, <1>3, <1>4
<1> QED
  BY <1>5, <1>3

(* A function that is defined by recursion exists.                          *)
LEMMA Recursion ==
  ASSUME NEW S, NEW s0 \in S, NEW step \in [S -> S]
  PROVE  \E f \in [Nat -> S] : f = [i \in Nat |-> IF i = 0 THEN s0 ELSE step[f[i - 1]]]
<1> DEFINE Part(n, f) == f \in [0 .. n -> S] /\ f[0] = s0
                         /\ \A i \in 1 .. n : f[i] = step[f[i - 1]]
           F == [n \in Nat |-> (CHOOSE f : Part(n, f))[n]]
<1>1. \A n \in Nat : \E f : Part(n, f)
  <2> DEFINE D == {n \in Nat : \E f : Part(n, f)}
  <2>1. 0 \in D
    <3>1. Part(0, [i \in 0 .. 0 |-> s0])
      OBVIOUS
    <3> QED
      BY <3>1, Zenon
  <2>2. ASSUME NEW n \in D PROVE n + 1 \in D
    <3>1. PICK f : Part(n, f)
      OBVIOUS
    <3> DEFINE h == [i \in 0 .. n + 1 |-> IF i = n + 1 THEN step[f[n]] ELSE f[i]]
    <3>2. Part(n + 1, h)
      BY <3>1
    <3> HIDE DEF Part, h
    <3> QED
      BY <3>2
  <2> HIDE DEF Part
  <2>3. D = Nat
    <3> HIDE DEF D
    <3>1. D \in SUBSET Nat
      BY DEF D
    <3> QED
      BY <2>1, <2>2, <3>1, NatSet
  <2> QED
    BY <2>3
<1>2. ASSUME NEW n \in Nat, NEW m \in Nat, NEW f, NEW h, Part(n, f), Part(m, h)
      PROVE  \A k \in Nat : k <= n /\ k <= m => f[k] = h[k]
  <2> DEFINE D == {k \in Nat : k <= n /\ k <= m => f[k] = h[k]}
  <2>1. 0 \in D
    BY <1>2
  <2>2. ASSUME NEW k \in D PROVE k + 1 \in D
    BY <1>2, <2>2
  <2>3. D = Nat
    <3> HIDE DEF D
    <3>1. D \in SUBSET Nat
      BY DEF D
    <3> QED
      BY <2>1, <2>2, <3>1, NatSet
  <2> QED
    BY <2>3
<1> DEFINE Fn(n) == CHOOSE f : Part(n, f)
<1>3. \A n \in Nat : Part(n, Fn(n))
  <2> HIDE DEF Part
  <2> QED
    BY <1>1
<1> HIDE DEF Fn
<1>4. \A n \in Nat : F[n] = Fn(n)[n]
  BY DEF Fn
<1>5. F \in [Nat -> S]
  <2>1. \A n \in Nat : Fn(n)[n] \in S
    BY <1>3
  <2> QED
    BY <2>1, <1>4
<1>6. F[0] = s0
  BY <1>3, <1>4, Zenon
<1>7. ASSUME NEW i \in Nat \ {0} PROVE F[i] = step[F[i - 1]]
  <2>1. i \in Nat /\ i - 1 \in Nat
    OBVIOUS
  <2>2. Fn(i)[i] = step[Fn(i)[i - 1]]
    BY <1>3, <2>1
  <2>3. Fn(i)[i - 1] = Fn(i - 1)[i - 1]
    <3> HIDE DEF Part
    <3>1. Part(i, Fn(i)) /\ Part(i - 1, Fn(i - 1))
      BY <1>3, <2>1
    <3> QED
      BY <1>2, <2>1, <3>1
  <2> HIDE DEF F
  <2> QED
    BY <1>4, <2>1, <2>2, <2>3
<1> HIDE DEF F
<1>8. F = [i \in Nat |-> IF i = 0 THEN s0 ELSE step[F[i - 1]]]
  BY <1>5, <1>6, <1>7
<1> QED
  BY <1>5, <1>8

-----------------------------------------------------------------------------
(* Arithmetic modulo p. *)

LEMMA PType == P \in Nat /\ P >= 2 /\ 2^W \in Nat /\ P < 2^W
BY DH64Assumption

(* Quotient and remainder.                                                  *)
LEMMA DivMod ==
  ASSUME NEW x \in Int
  PROVE  x = P * (x \div P) + (x % P) /\ x % P \in 0 .. P - 1 /\ x \div P \in Int
BY PType

(* The remainder is the only one.                                           *)
LEMMA ModUnique ==
  ASSUME NEW q \in Int, NEW r \in 0 .. P - 1
  PROVE  (P * q + r) % P = r
BY PType

(* A factor may be reduced first.                                           *)
LEMMA ModMul ==
  ASSUME NEW x \in Int, NEW y \in Int
  PROVE  ((x % P) * y) % P = (x * y) % P
<1> DEFINE q == x \div P
           r == x % P
           s == (r * y) \div P
           t == (r * y) % P
<1>1. x = P * q + r /\ r \in 0 .. P - 1 /\ q \in Int
  BY DivMod
<1>2. r * y \in Int
  BY <1>1
<1>3. r * y = P * s + t /\ t \in 0 .. P - 1 /\ s \in Int
  BY <1>2, DivMod
<1> HIDE DEF q, r, s, t
<1>4. x * y = (P * q) * y + r * y
  BY <1>1, PType
<1>5. x * y = P * (q * y) + (P * s + t)
  BY <1>1, <1>3, <1>4, PType
<1>6. x * y = P * (q * y + s) + t
  BY <1>1, <1>3, <1>5, PType
<1>7. (x * y) % P = t
  BY <1>1, <1>3, <1>6, ModUnique
<1> QED
  BY <1>7 DEF t, r

(* Numbers that differ by a multiple of p.                                  *)
Cong(x, y) == \E q \in Int : x = y + P * q

(* A number below p is what any number congruent to it reduces to.          *)
LEMMA CongMod ==
  ASSUME NEW x \in 0 .. P - 1, NEW y \in Int, Cong(x, y)
  PROVE  x = y % P
<1>1. PICK q \in Int : x = y + P * q
  BY DEF Cong
<1>2. y = P * (-q) + x
  BY <1>1, PType
<1> QED
  BY <1>2, ModUnique

(* Congruence is reflexive,                                                 *)
LEMMA CongRefl == \A x \in Int : Cong(x, x)
<1> TAKE x \in Int
<1>1. x = x + P * 0
  BY PType
<1> QED
  BY <1>1 DEF Cong

(* and transitive.                                                          *)
LEMMA CongTrans ==
  ASSUME NEW x \in Int, NEW y \in Int, NEW z \in Int, Cong(x, y), Cong(y, z)
  PROVE  Cong(x, z)
<1>1. PICK q \in Int : x = y + P * q
  BY DEF Cong
<1>2. PICK r \in Int : y = z + P * r
  BY DEF Cong
<1>3. x = z + P * (r + q)
  BY <1>1, <1>2, PType
<1> QED
  BY <1>3 DEF Cong

(* A power set of one element more is twice as large.                       *)
LEMMA PowerSet ==
  ASSUME NEW S, IsFiniteSet(S), NEW x, x \notin S
  PROVE  Cardinality(SUBSET (S \cup {x})) = 2 * Cardinality(SUBSET S)
<1> DEFINE A == SUBSET S
           B == {T \cup {x} : T \in A}
           f == [T \in A |-> T \cup {x}]
<1>1. IsFiniteSet(A) /\ Cardinality(A) \in Nat
  BY FS_SUBSET, FS_CardinalityType
<1>2. \A T, U \in A : T \cup {x} = U \cup {x} => T = U
  BY Zenon
<1>3. f \in Bijection(A, B)
  <2>1. \A T \in A : f[T] = T \cup {x}
    OBVIOUS
  <2>2. f \in [A -> B] /\ DOMAIN f = A
    OBVIOUS
  <2>3. \A T, U \in A : f[T] = f[U] => T = U
    BY <1>2, <2>1
  <2>4. \A U \in B : \E T \in A : f[T] = U
    BY <2>1, Zenon
  <2> HIDE DEF A, B, f
  <2> QED
    BY <2>2, <2>3, <2>4, Zenon DEF Bijection, Injection, Surjection, IsInjective
<1>4. IsFiniteSet(B) /\ Cardinality(B) = Cardinality(A)
  <2> HIDE DEF A, B, f
  <2> QED
    BY <1>1, <1>3, FS_Bijection, Zenon DEF ExistsBijection
<1>5. SUBSET (S \cup {x}) = A \cup B
  <2>1. ASSUME NEW U \in SUBSET (S \cup {x}), x \in U PROVE U \in B
    <3>1. U \ {x} \in A /\ U = (U \ {x}) \cup {x}
      BY <2>1
    <3> QED
      BY <3>1, Zenon
  <2>2. ASSUME NEW U \in SUBSET (S \cup {x}), x \notin U PROVE U \in A
    BY <2>2
  <2>3. ASSUME NEW U \in A \cup B PROVE U \in SUBSET (S \cup {x})
    BY <2>3
  <2> HIDE DEF A, B
  <2> QED
    BY <2>1, <2>2, <2>3
<1>6. A \cap B = {}
  OBVIOUS
<1> HIDE DEF A, B
<1>7. Cardinality(A \cup B) = Cardinality(A) + Cardinality(B) - Cardinality(A \cap B)
  BY <1>1, <1>4, FS_Union
<1>8. Cardinality(A \cap B) = 0
  BY <1>6, FS_EmptySet
<1>9. Cardinality(A \cup B) = 2 * Cardinality(A)
  BY <1>1, <1>4, <1>7, <1>8
<1> QED
  BY <1>5, <1>9, Zenon DEF A

(* The powers of two: sizes of power sets.                                  *)
Two == [n \in Nat |-> 2^n]

(* Each power of two is twice the one before, by counting subsets.          *)
LEMMA TwoPower ==
  /\ Two \in [Nat -> Nat] /\ Two[0] = 1
  /\ \A n \in Nat : Two[n + 1] = 2 * Two[n]
<1>1. ASSUME NEW n \in Nat
      PROVE  IsFiniteSet(1 .. n) /\ Cardinality(SUBSET (1 .. n)) = Two[n] /\ Two[n] \in Nat
  <2>1. IsFiniteSet(1 .. n) /\ Cardinality(1 .. n) = n
    BY FS_Interval
  <2>2. IsFiniteSet(SUBSET (1 .. n)) /\ Cardinality(SUBSET (1 .. n)) = 2^n
    BY <2>1, FS_SUBSET, Zenon
  <2>3. Cardinality(SUBSET (1 .. n)) \in Nat
    BY <2>2, FS_CardinalityType, Zenon
  <2>4. Two[n] = 2^n
    BY Zenon DEF Two
  <2> QED
    BY <2>1, <2>2, <2>3, <2>4, Zenon
<1>2. Two \in [Nat -> Nat]
  <2>1. DOMAIN Two = Nat /\ Two = [n \in Nat |-> Two[n]]
    BY Zenon DEF Two
  <2> QED
    BY <1>1, <2>1, Zenon
<1>3. Two[0] = 1
  <2>1. SUBSET (1 .. 0) = {{}}
    OBVIOUS
  <2>2. Cardinality({{}}) = 1
    BY FS_Singleton, Zenon
  <2> QED
    BY <1>1, <2>1, <2>2
<1>4. ASSUME NEW n \in Nat PROVE Two[n + 1] = 2 * Two[n]
  <2> DEFINE S == 1 .. n
             T == 1 .. n + 1
  <2>1. T = S \cup {n + 1} /\ n + 1 \notin S /\ n + 1 \in Nat
    OBVIOUS
  <2>2. IsFiniteSet(S) /\ Cardinality(SUBSET S) = Two[n] /\ Cardinality(SUBSET T) = Two[n + 1]
    BY <1>1, <2>1, Zenon
  <2> HIDE DEF S, T
  <2> QED
    BY <2>1, <2>2, PowerSet, Zenon
<1> QED
  BY <1>2, <1>3, <1>4, Zenon

(* The modulus of a uint64.                                                 *)
LEMMA TwoW == W \in Nat /\ Two[W] = 2^W
BY DH64Assumption DEF Two

-----------------------------------------------------------------------------
(* mulModP *)

(* What Turn works on: m and a are reduced.                                 *)
MulState == [m : 0 .. P - 1, a : 0 .. P - 1, b : Nat]

(* m += a and a *= 2, reduced, although the words may overflow.             *)
LEMMA AddRight ==
  ASSUME NEW m \in 0 .. P - 1, NEW a \in 0 .. P - 1
  PROVE  AddModP(m, a) \in 0 .. P - 1 /\ AddModP(m, a) \in {m + a, m + a - P}
<1>1. \A x \in 0 .. P - 1 : Wrap(x) = x
  BY PType DEF Wrap
<1>2. CASE m >= P - a
  BY <1>2, PType DEF AddModP
<1>3. CASE ~(m >= P - a)
  BY <1>1, <1>3, PType DEF AddModP
<1> QED
  BY <1>2, <1>3

(* One doubling of mulModP's loop, with the carry out of the uint64 and     *)
(* with the subtraction of p: twice a modulo p.                             *)
LEMMA TwiceRight ==
  ASSUME NEW a \in 0 .. P - 1
  PROVE  Twice(a) \in 0 .. P - 1 /\ Twice(a) \in {2 * a, 2 * a - P}
<1> DEFINE M == 2^W
<1>0. M \in Nat /\ P < M /\ P \in Nat
  BY PType
<1>1. \A x \in Int : Wrap(x) = x % M
  BY DEF Wrap
<1> HIDE DEF M
<1>2. CASE a >= P - a
  <2>0. Twice(a) = Wrap(Wrap(a * 2) - P)
    BY <1>2 DEF Twice
  <2>1. CASE 2 * a < M
    <3>1. Wrap(a * 2) = 2 * a
      BY <1>0, <1>1, <2>1
    <3>2. Wrap(2 * a - P) = 2 * a - P
      BY <1>0, <1>1, <1>2, <2>1
    <3> QED
      BY <1>0, <1>2, <2>0, <3>1, <3>2
  <2>2. CASE 2 * a >= M
    <3>1. Wrap(a * 2) = 2 * a - M
      BY <1>0, <1>1, <2>2, SMTT(30)
    <3>2. Wrap(2 * a - M - P) = 2 * a - P
      BY <1>0, <1>1, <2>2
    <3> QED
      BY <1>0, <1>2, <2>0, <3>1, <3>2
  <2> QED
    BY <1>0, <2>1, <2>2
<1>3. CASE ~(a >= P - a)
  <2>1. Wrap(a * 2) = 2 * a
    BY <1>0, <1>1, <1>3
  <2> QED
    BY <1>0, <1>3, <2>1 DEF Twice
<1> QED
  BY <1>2, <1>3

(* A turn keeps m + a * b, modulo p, and halves b.                          *)
LEMMA TurnRight ==
  ASSUME NEW s \in MulState
  PROVE  /\ Turn(s) \in MulState
         /\ Turn(s).b = s.b \div 2
         /\ Cong(Turn(s).m + Turn(s).a * Turn(s).b, s.m + s.a * s.b)
<1>0. s.m \in 0 .. P - 1 /\ s.a \in 0 .. P - 1 /\ s.b \in Nat
  BY DEF MulState
<1>1. CASE s.b = 0
  <2>1. Turn(s) = s /\ s.b \div 2 = s.b
    BY <1>1 DEF Turn
  <2>2. s.m + s.a * s.b \in Int
    BY <1>0, PType
  <2> QED
    BY <1>0, <2>1, <2>2, CongRefl
<1>2. CASE s.b # 0
  <2> DEFINE h == s.b \div 2
             m2 == IF s.b % 2 > 0 THEN AddModP(s.m, s.a) ELSE s.m
             a2 == Twice(s.a)
  <2>1. Turn(s) = [m |-> m2, a |-> a2, b |-> h]
    BY <1>2 DEF Turn
  <2>2. h \in Nat /\ s.b \in {2 * h, 2 * h + 1} /\ (s.b % 2 > 0 <=> s.b = 2 * h + 1)
    BY <1>0
  <2>3. a2 \in 0 .. P - 1 /\ a2 \in {2 * s.a, 2 * s.a - P}
    BY <1>0, TwiceRight
  <2>4. m2 \in 0 .. P - 1 /\ m2 \in IF s.b = 2 * h + 1 THEN {s.m + s.a, s.m + s.a - P} ELSE {s.m}
    BY <1>0, <2>2, AddRight, Zenon
  <2> HIDE DEF h, m2, a2
  <2>5. a2 * h = 2 * s.a * h \/ a2 * h = 2 * s.a * h - P * h
    BY <1>0, <2>2, <2>3, PType
  <2>6. s.a * s.b = IF s.b = 2 * h + 1 THEN 2 * s.a * h + s.a ELSE 2 * s.a * h
    BY <1>0, <2>2
  <2>7. \E k \in Int : m2 + a2 * h = s.m + s.a * s.b + P * k
    <3> DEFINE j == IF a2 * h = 2 * s.a * h THEN 0 ELSE -h
               l == IF m2 = s.m + s.a - P /\ s.b = 2 * h + 1 THEN -1 ELSE 0
    <3>1. a2 * h = 2 * s.a * h + P * j /\ j \in Int
      BY <1>0, <2>2, <2>5, PType
    <3>2. m2 + 2 * s.a * h = s.m + s.a * s.b + P * l /\ l \in Int
      BY <1>0, <2>2, <2>4, <2>6, PType
    <3> HIDE DEF j, l
    <3>3. P * (j + l) = P * j + P * l
      BY <3>1, <3>2, PType
    <3> DEFINE x == a2 * h
               u == 2 * s.a * h
               v == s.a * s.b
               pj == P * j
               pl == P * l
    <3>4. x \in Int /\ u \in Int /\ v \in Int /\ pj \in Int /\ pl \in Int
      BY <1>0, <2>2, <2>3, <3>1, <3>2, PType
    <3>5. x = u + pj /\ m2 + u = s.m + v + pl /\ P * (j + l) = pj + pl
      BY <3>1, <3>2, <3>3
    <3>6. m2 + x = s.m + v + P * (j + l)
      <4> HIDE DEF x, u, v, pj, pl
      <4> QED
        BY <1>0, <2>4, <3>4, <3>5
    <3> QED
      BY <3>1, <3>2, <3>6
  <2>8. Cong(m2 + a2 * h, s.m + s.a * s.b)
    BY <2>7 DEF Cong
  <2> QED
    BY <2>1, <2>2, <2>3, <2>4, <2>8 DEF MulState, h
<1> QED
  BY <1>1, <1>2

(* The loop of mulModP.                                                     *)
LEMMA LoopDef ==
  ASSUME NEW a \in 0 .. P - 1, NEW b \in Nat
  PROVE  /\ MulLoop(a, b) \in [Nat -> MulState]
         /\ MulLoop(a, b)[0] = [m |-> 0, a |-> a, b |-> b]
         /\ \A i \in Nat : MulLoop(a, b)[i + 1] = Turn(MulLoop(a, b)[i])
<1> DEFINE s0 == [m |-> 0, a |-> a, b |-> b]
           step == [s \in MulState |-> Turn(s)]
           Def(f) == f = [i \in Nat |-> IF i = 0 THEN s0 ELSE Turn(f[i - 1])]
           L == MulLoop(a, b)
<1>1. s0 \in MulState
  BY PType DEF MulState
<1>2. step \in [MulState -> MulState]
  BY TurnRight
<1>3. PICK f \in [Nat -> MulState] : f = [i \in Nat |-> IF i = 0 THEN s0 ELSE step[f[i - 1]]]
  <2> HIDE DEF s0, step
  <2> QED
    BY <1>1, <1>2, Recursion
<1>4. Def(f)
  <2> HIDE DEF s0
  <2>1. \A i \in Nat \ {0} : f[i - 1] \in MulState
    BY <1>3, SMTT(30)
  <2>2. \A i \in Nat \ {0} : step[f[i - 1]] = Turn(f[i - 1])
    BY <2>1
  <2> HIDE DEF step
  <2> QED
    BY <1>3, <2>2, Zenon
<1>5. L = CHOOSE g : Def(g)
  BY DEF MulLoop
<1>6. Def(L)
  <2> HIDE DEF Def, L
  <2> QED
    BY <1>4, <1>5
<1> HIDE DEF L
<1>7. L[0] = s0
  BY <1>6
<1>8. ASSUME NEW i \in Nat PROVE L[i + 1] = Turn(L[i])
  <2>1. i + 1 \in Nat /\ i + 1 # 0 /\ (i + 1) - 1 = i
    OBVIOUS
  <2> HIDE DEF s0
  <2> QED
    BY <1>6, <2>1
<1>9. L \in [Nat -> MulState]
  <2> DEFINE D == {i \in Nat : L[i] \in MulState}
  <2>1. 0 \in D
    BY <1>1, <1>7
  <2>2. ASSUME NEW i \in D PROVE i + 1 \in D
    BY <1>8, <2>2, TurnRight
  <2>3. D = Nat
    <3>1. D \in SUBSET Nat
      OBVIOUS
    <3> HIDE DEF D
    <3> QED
      BY <2>1, <2>2, <3>1, NatSet
  <2>4. \A i \in Nat : L[i] \in MulState
    BY <2>3
  <2>5. \E h : L = [i \in Nat |-> h[i]]
    <3> DEFINE h == [i \in Nat |-> IF i = 0 THEN s0 ELSE Turn(L[i - 1])]
    <3>1. h = [i \in Nat |-> h[i]]
      OBVIOUS
    <3> QED
      BY <1>6, <3>1
  <2> QED
    BY <2>4, <2>5
<1> QED
  BY <1>7, <1>8, <1>9 DEF L

(* mulModP is the product modulo p: its result is reduced and no overflow   *)
(* of a word loses anything, for every word b and every reduced a.          *)
THEOREM MulRight ==
  ASSUME NEW a \in 0 .. P - 1, NEW b \in Word
  PROVE  MulModP(a, b) = (a * b) % P
<1> DEFINE L == MulLoop(a, b)
           D == {i \in Nat : /\ i <= W => L[i].b < Two[W - i]
                             /\ Cong(L[i].m + L[i].a * L[i].b, a * b)}
<1>0. b \in Nat /\ b < Two[W] /\ W \in Nat /\ a \in Int
  BY PType, TwoW DEF Word
<1>1. /\ L \in [Nat -> MulState] /\ L[0] = [m |-> 0, a |-> a, b |-> b]
      /\ \A i \in Nat : L[i + 1] = Turn(L[i])
  BY <1>0, LoopDef
<1> HIDE DEF L
<1>2. 0 \in D
  <2>1. L[0].m + L[0].a * L[0].b = a * b /\ a * b \in Int
    BY <1>0, <1>1
  <2>2. L[0].b < Two[W - 0]
    BY <1>0, <1>1
  <2> QED
    BY <2>1, <2>2, CongRefl
<1>3. ASSUME NEW i \in D PROVE i + 1 \in D
  <2> DEFINE s == L[i]
             t == L[i + 1]
  <2>1. i \in Nat /\ i + 1 \in Nat /\ s \in MulState /\ t = Turn(s)
    BY <1>1
  <2>2. /\ t \in MulState /\ t.b = s.b \div 2
        /\ Cong(t.m + t.a * t.b, s.m + s.a * s.b)
    BY <2>1, TurnRight
  <2>3. /\ Cong(s.m + s.a * s.b, a * b)
        /\ i <= W => s.b < Two[W - i]
    OBVIOUS
  <2> HIDE DEF s, t
  <2>4. s.m + s.a * s.b \in Int /\ t.m + t.a * t.b \in Int /\ a * b \in Int
    BY <1>0, <2>1, <2>2, PType DEF MulState
  <2>5. Cong(t.m + t.a * t.b, a * b)
    BY <2>2, <2>3, <2>4, CongTrans
  <2>6. ASSUME i + 1 <= W PROVE t.b < Two[W - (i + 1)]
    <3> DEFINE n == W - (i + 1)
               h == Two[n]
    <3>1. n \in Nat /\ W - i = n + 1 /\ i <= W
      BY <1>0, <2>1, <2>6
    <3>2. Two[n + 1] = 2 * h /\ h \in Nat
      <4> HIDE DEF n
      <4> QED
        BY <3>1, TwoPower
    <3>3. s.b < 2 * h
      BY <2>3, <3>1, <3>2
    <3>4. s.b \in Nat
      BY <2>1 DEF MulState
    <3> HIDE DEF h
    <3>5. t.b < h
      BY <2>2, <3>2, <3>3, <3>4
    <3> QED
      BY <3>5 DEF h
  <2> QED
    BY <2>1, <2>5, <2>6 DEF t
<1>4. D = Nat
  <2>1. D \in SUBSET Nat
    OBVIOUS
  <2> HIDE DEF D
  <2> QED
    BY <1>2, <1>3, <2>1, NatSet
<1> DEFINE e == L[W]
<1>5. e \in MulState /\ e.b < Two[W - W] /\ Cong(e.m + e.a * e.b, a * b)
  BY <1>0, <1>1, <1>4
<1> HIDE DEF e
<1>6. W - W = 0 /\ e.m \in 0 .. P - 1 /\ e.a \in 0 .. P - 1 /\ e.b \in Nat
  BY <1>0, <1>5 DEF MulState
<1>7. e.b = 0
  BY <1>5, <1>6, TwoPower
<1>8. e.m + e.a * e.b = e.m
  BY <1>6, <1>7, PType
<1>9. a * b \in Int
  BY <1>0
<1>10. e.m = (a * b) % P
  BY <1>5, <1>6, <1>8, <1>9, CongMod
<1> QED
  BY <1>10 DEF e, L, MulModP

-----------------------------------------------------------------------------
(* Powers modulo p *)

Unit == 1 .. P - 1

(* With a prime modulus a product of numbers that p does not divide is      *)
(* another.                                                                 *)
LEMMA UnitProduct ==
  ASSUME NEW x \in Unit, NEW y \in Unit
  PROVE  (x * y) % P \in Unit
<1>1. x * y \in Int
  BY PType DEF Unit
<1>2. (x * y) % P \in 0 .. P - 1
  BY <1>1, DivMod
<1>3. (x * y) % P # 0
  BY PrimeAssumption DEF Unit
<1> QED
  BY <1>2, <1>3, PType DEF Unit

(* The recursive definition of a power modulo p is one.                     *)
LEMMA PowerDef ==
  ASSUME NEW a \in Unit
  PROVE  /\ Power(a, 0) = 1
         /\ \A n \in Nat : Power(a, n) \in Unit /\ Power(a, n + 1) = (Power(a, n) * a) % P
<1> DEFINE step == [x \in Unit |-> (x * a) % P]
           Def(f) == f = [i \in Nat |-> IF i = 0 THEN 1 ELSE (f[i - 1] * a) % P]
           L == Powers(a)
<1>1. 1 \in Unit
  BY PType DEF Unit
<1>2. step \in [Unit -> Unit]
  BY UnitProduct
<1>3. PICK f \in [Nat -> Unit] : f = [i \in Nat |-> IF i = 0 THEN 1 ELSE step[f[i - 1]]]
  <2> HIDE DEF step
  <2> QED
    BY <1>1, <1>2, Recursion
<1>4. Def(f)
  <2>1. \A i \in Nat \ {0} : f[i - 1] \in Unit
    BY <1>3
  <2>2. \A i \in Nat \ {0} : step[f[i - 1]] = (f[i - 1] * a) % P
    BY <2>1
  <2> HIDE DEF step
  <2> QED
    BY <1>3, <2>2
<1>5. L = CHOOSE g : Def(g)
  BY DEF Powers
<1>6. Def(L)
  <2> HIDE DEF Def, L
  <2> QED
    BY <1>4, <1>5
<1> HIDE DEF L
<1>7. L[0] = 1
  BY <1>6
<1>8. ASSUME NEW i \in Nat PROVE L[i + 1] = (L[i] * a) % P
  <2>1. i + 1 \in Nat /\ i + 1 # 0 /\ (i + 1) - 1 = i
    OBVIOUS
  <2> QED
    BY <1>6, <2>1
<1>9. \A i \in Nat : L[i] \in Unit
  <2> DEFINE D == {i \in Nat : L[i] \in Unit}
  <2>1. 0 \in D
    BY <1>1, <1>7
  <2>2. ASSUME NEW i \in D PROVE i + 1 \in D
    BY <1>8, <2>2, UnitProduct
  <2>3. D = Nat
    <3>1. D \in SUBSET Nat
      OBVIOUS
    <3> HIDE DEF D
    <3> QED
      BY <2>1, <2>2, <3>1, NatSet
  <2> QED
    BY <2>3
<1> QED
  BY <1>7, <1>8, <1>9 DEF L, Power

(* Powers add their exponents,                                              *)
LEMMA PowerAdd ==
  ASSUME NEW a \in Unit, NEW m \in Nat
  PROVE  \A n \in Nat : Power(a, m + n) = (Power(a, m) * Power(a, n)) % P
<1> DEFINE D == {n \in Nat : Power(a, m + n) = (Power(a, m) * Power(a, n)) % P}
<1>0. Power(a, m) \in Unit /\ Unit \subseteq Int
  BY PowerDef, PType DEF Unit
<1>1. 0 \in D
  <2>1. Power(a, 0) = 1 /\ m + 0 = m
    BY PowerDef
  <2>2. Power(a, m) * 1 = P * 0 + Power(a, m) /\ Power(a, m) \in 0 .. P - 1
    BY <1>0, PType DEF Unit
  <2>3. (Power(a, m) * 1) % P = Power(a, m)
    BY <2>2, ModUnique
  <2> QED
    BY <2>1, <2>3
<1>2. ASSUME NEW n \in D PROVE n + 1 \in D
  <2> DEFINE x == Power(a, m)
             y == Power(a, n)
  <2>1. n \in Nat /\ y \in Unit /\ m + n \in Nat /\ m + (n + 1) = (m + n) + 1
    BY PowerDef
  <2>2. Power(a, m + (n + 1)) = (Power(a, m + n) * a) % P /\ Power(a, n + 1) = (y * a) % P
    BY <2>1, PowerDef
  <2>3. Power(a, m + n) = (x * y) % P
    OBVIOUS
  <2> HIDE DEF x, y
  <2>4. x \in Int /\ y \in Int /\ a \in Int /\ x * y \in Int /\ y * a \in Int
    <3>1. x \in Int /\ y \in Int /\ a \in Int
      BY <1>0, <2>1, Zenon DEF x
    <3> QED
      BY <3>1
  <2>5. (((x * y) % P) * a) % P = ((x * y) * a) % P
    BY <2>4, ModMul
  <2>6. (((y * a) % P) * x) % P = ((y * a) * x) % P
    BY <2>4, ModMul
  <2>7. (x * y) * a = (y * a) * x
    BY <2>4
  <2>8. (y * a) % P \in Int
    BY <2>4, DivMod
  <2>9. ((y * a) % P) * x = x * ((y * a) % P)
    BY <2>4, <2>8
  <2> QED
    BY <2>1, <2>2, <2>3, <2>5, <2>6, <2>7, <2>9 DEF x
<1>3. D = Nat
  <2>1. D \in SUBSET Nat
    OBVIOUS
  <2> HIDE DEF D
  <2> QED
    BY <1>1, <1>2, <2>1, NatSet
<1> QED
  BY <1>3

(* and a power of a power multiplies them.                                  *)
LEMMA PowerMul ==
  ASSUME NEW a \in Unit, NEW m \in Nat
  PROVE  \A n \in Nat : Power(Power(a, m), n) = Power(a, m * n)
<1> DEFINE x == Power(a, m)
           D == {n \in Nat : Power(x, n) = Power(a, m * n)}
<1>0. x \in Unit
  BY PowerDef
<1>1. 0 \in D
  <2>1. Power(x, 0) = 1 /\ Power(a, 0) = 1 /\ m * 0 = 0
    BY <1>0, PowerDef
  <2> QED
    BY <2>1
<1>2. ASSUME NEW n \in D PROVE n + 1 \in D
  <2>1. n \in Nat /\ m * n \in Nat /\ m * (n + 1) = m * n + m
    OBVIOUS
  <2>2. Power(x, n + 1) = (Power(x, n) * x) % P
    BY <1>0, <2>1, PowerDef
  <2>3. Power(a, m * n + m) = (Power(a, m * n) * x) % P
    BY <2>1, PowerAdd
  <2> HIDE DEF x
  <2> QED
    BY <2>1, <2>2, <2>3
<1>3. D = Nat
  <2>1. D \in SUBSET Nat
    OBVIOUS
  <2> HIDE DEF D
  <2> QED
    BY <1>1, <1>2, <2>1, NatSet
<1> QED
  BY <1>3

(* One turn of powmodp: from the power of half the exponent.                *)
LEMMA PowStepRight ==
  ASSUME NEW a \in Unit, NEW b \in Nat \ {0, 1}
  PROVE  PowStep(Power(a, b \div 2), a, b) = Power(a, b)
<1> DEFINE h == b \div 2
           t == Power(a, h)
           s == (t * t) % P
<1>1. h \in Nat /\ b \in {h + h, (h + h) + 1} /\ (b % 2 > 0 <=> b = (h + h) + 1)
  OBVIOUS
<1>2. t \in Unit
  BY <1>1, PowerDef
<1> HIDE DEF h
<1>3. Power(a, h + h) = s /\ s \in Unit
  BY <1>1, <1>2, PowerAdd, UnitProduct
<1>4. \A x, y \in Unit : MulModP(x, y) = (x * y) % P
  <2>1. Unit \subseteq 0 .. P - 1 /\ Unit \subseteq Word
    BY PType DEF Unit, Word
  <2> QED
    BY <2>1, MulRight
<1>5. Power(a, (h + h) + 1) = (Power(a, h + h) * a) % P
  BY <1>1, PowerDef
<1> HIDE DEF s, t
<1>6. MulModP(t, t) = s /\ MulModP(s, a) = (s * a) % P
  BY <1>2, <1>3, <1>4 DEF s
<1>7. CASE b = h + h
  BY <1>1, <1>3, <1>6, <1>7 DEF PowStep, t, h
<1>8. CASE b = (h + h) + 1
  BY <1>1, <1>3, <1>5, <1>6, <1>8 DEF PowStep, t, h
<1> QED
  BY <1>1, <1>7, <1>8

(* powmodp is the power modulo p, for every base that is not 0 modulo p and *)
(* every exponent that is not 0.                                            *)
THEOREM PowRight ==
  ASSUME NEW a \in Unit, NEW b \in Nat \ {0}
  PROVE  PowMod(a, b) = Power(a, b)
<1> DEFINE N == Nat \ {0}
           Def(g) == g = [n \in N |-> IF n = 1 THEN a ELSE PowStep(g[n \div 2], a, n)]
           f == [n \in N |-> Power(a, n)]
           L == PowLoop(a)
<1>0. Power(a, 1) = a
  <2>1. Power(a, 0) = 1 /\ Power(a, 0 + 1) = (Power(a, 0) * a) % P
    BY PowerDef
  <2>2. 1 * a = P * 0 + a /\ a \in 0 .. P - 1
    BY PType DEF Unit
  <2>3. (1 * a) % P = a
    BY <2>2, ModUnique
  <2> QED
    BY <2>1, <2>3
<1>1. Def(f)
  <2>1. ASSUME NEW n \in N, n # 1 PROVE f[n] = PowStep(f[n \div 2], a, n)
    <3>1. n \div 2 \in N /\ n \in Nat \ {0, 1}
      BY <2>1
    <3>2. f[n] = Power(a, n) /\ f[n \div 2] = Power(a, n \div 2)
      BY <3>1, Zenon
    <3> HIDE DEF f, N
    <3> QED
      BY <3>1, <3>2, PowStepRight, Zenon
  <2>2. f[1] = a
    BY <1>0
  <2>3. f = [n \in N |-> f[n]]
    OBVIOUS
  <2> HIDE DEF f, N
  <2> QED
    BY <2>1, <2>2, <2>3
<1>2. L = CHOOSE g : Def(g)
  BY DEF PowLoop
<1>3. Def(L)
  <2> HIDE DEF Def, L, f, N
  <2> QED
    BY <1>1, <1>2
<1> HIDE DEF L
<1>4. \A n \in N : L[n] = f[n]
  <2> DEFINE D == {n \in Nat : \A k \in 1 .. n : L[k] = f[k]}
  <2>1. 0 \in D
    OBVIOUS
  <2>2. ASSUME NEW n \in D PROVE n + 1 \in D
    <3>1. n \in Nat /\ \A k \in 1 .. n : L[k] = f[k]
      OBVIOUS
    <3>2. L[n + 1] = f[n + 1]
      <4>1. CASE n = 0
        <5>1. 1 \in N /\ n + 1 = 1
          BY <4>1
        <5> HIDE DEF f, N
        <5> QED
          BY <1>1, <1>3, <5>1
      <4>2. CASE n # 0
        <5>1. n + 1 \in N /\ n + 1 # 1 /\ (n + 1) \div 2 \in 1 .. n
          BY <3>1, <4>2
        <5> DEFINE h == (n + 1) \div 2
        <5>2. L[h] = f[h]
          BY <3>1, <5>1, Zenon
        <5> HIDE DEF f, N, h
        <5>3. L[n + 1] = PowStep(L[(n + 1) \div 2], a, n + 1)
          BY <1>3, <5>1, Zenon
        <5>4. f[n + 1] = PowStep(f[(n + 1) \div 2], a, n + 1)
          BY <1>1, <5>1, Zenon
        <5> QED
          BY <5>2, <5>3, <5>4, Zenon DEF h
      <4> QED
        BY <4>1, <4>2
    <3>3. 1 .. n + 1 = (1 .. n) \cup {n + 1} /\ n + 1 \in Nat
      BY <3>1
    <3> HIDE DEF f
    <3> QED
      BY <3>1, <3>2, <3>3
  <2>3. D = Nat
    <3>1. D \in SUBSET Nat
      OBVIOUS
    <3> HIDE DEF D
    <3> QED
      BY <2>1, <2>2, <3>1, NatSet
  <2>4. ASSUME NEW n \in N PROVE L[n] = f[n]
    <3>1. n \in Nat /\ n \in 1 .. n
      OBVIOUS
    <3>2. n \in D
      BY <2>3, <3>1, Zenon
    <3> QED
      BY <3>1, <3>2, Zenon
  <2> QED
    BY <2>4
<1>5. L[b] = Power(a, b)
  BY <1>4
<1>6. ~(a > P)
  BY PType DEF Unit
<1> QED
  BY <1>5, <1>6 DEF PowMod, PowModP, L

(* A public key is one for which powmodp neither panics nor skips the       *)
(* reduction, and both ends compute the same secret from the other's.       *)
THEOREM KeysAgree ==
  ASSUME NEW j \in PrivateKeys, NEW k \in PrivateKeys
  PROVE  /\ PublicKey(k) = Power(G, k) /\ PublicKey(k) \in Unit
         /\ Secret(j, PublicKey(k)) = Power(PublicKey(k), j)
         /\ Secret(j, PublicKey(k)) = Secret(k, PublicKey(j))
<1>1. j \in Nat \ {0} /\ k \in Nat \ {0} /\ j * k = k * j
  BY PType DEF PrivateKeys, Word
<1>2. G \in Unit
  BY DH64Assumption DEF Unit
<1>3. \A n \in Nat \ {0} : PowMod(G, n) = Power(G, n) /\ Power(G, n) \in Unit
  BY <1>2, PowRight, PowerDef
<1>4. \A m, n \in Nat \ {0} : PowMod(Power(G, m), n) = Power(Power(G, m), n)
  BY <1>3, PowRight
<1>5. \A m, n \in Nat \ {0} : Power(Power(G, m), n) = Power(G, m * n)
  BY <1>2, PowerMul
<1>6. PublicKey(k) = Power(G, k) /\ PublicKey(j) = Power(G, j) /\ PublicKey(k) \in Unit
  BY <1>1, <1>3, Zenon DEF PublicKey
<1>7. Secret(j, PublicKey(k)) = Power(PublicKey(k), j) /\ Power(PublicKey(k), j) = Power(G, k * j)
  BY <1>1, <1>4, <1>5, <1>6, Zenon DEF Secret
<1>8. Secret(k, PublicKey(j)) = Power(G, j * k)
  BY <1>1, <1>4, <1>5, <1>6, Zenon DEF Secret
<1> QED
  BY <1>1, <1>6, <1>7, <1>8, Zenon

-----------------------------------------------------------------------------
(* The keys and what the two ends know of each other *)

(* The request of the client, of which n lines were written, and what its   *)
(* conn then holds.                                                         *)
Asked(n) == SubSeq(MarshalReq(PublicKey(priKey), config), 1, n)
Known(n) == [NoConn EXCEPT !.target = IF n >= 3 THEN config.target ELSE @,
                           !.flag = IF n >= 4 THEN config.flag ELSE @]

(* A request in flight is the waiting client's; a response in flight is to  *)
(* that request, with the secret of the two keys, and the server's conn     *)
(* then differs from the client's in the id and the secret only.            *)
KeyInv ==
  /\ request # NoMsg =>
       /\ cpc = "wait" /\ priKey \in PrivateKeys /\ response = NoMsg
       /\ \E n \in 2 .. 4 : request = Asked(n) /\ cconn = Known(n)
  /\ response # NoMsg =>
       /\ cpc = "wait" /\ priKey \in PrivateKeys
       /\ \E key \in PrivateKeys :
            /\ response = MarshalResp(sconn.id, PublicKey(key))
            /\ sconn.secret = Secret(key, PublicKey(priKey))
       /\ sconn = [cconn EXCEPT !.id = sconn.id, !.secret = sconn.secret]
  /\ cpc = "done" => cconn = sconn

-----------------------------------------------------------------------------
(* The deadlines *)

Types ==
  /\ clock \in Nat /\ start \in 0 .. clock /\ deadline \in Nat \cup {Never}
  /\ HandshakeTimeout \in Nat /\ readTimeout \in Nat

(* The deadline that a Write has set and not yet cleared. *)
ByWrite == wpc = "armed" /\ HandshakeTimeout > 0 /\ deadline = clock + HandshakeTimeout

(* During the handshake the deadline is its own, where no Read of the       *)
(* transport sets another one.  A pump's Read starts without one, except one that a concurrent *)
(* Write is about to clear, and has its own, that one or none.              *)
TimeInv ==
  /\ spc # "done" => rpc = "off" /\ wpc = "off"
  /\ HandshakeTimeout = 0 /\ readTimeout = 0 => deadline = Never
  /\ spc = "accepted" => deadline = Never
  /\ spc = "reading" /\ readTimeout = 0 /\ HandshakeTimeout > 0 =>
       deadline = start + HandshakeTimeout /\ clock <= deadline
  /\ rpc = "cleared" /\ HandshakeTimeout > 0 => deadline = Never \/ ByWrite
  /\ rpc = "reading" =>
       \/ deadline = Never \/ ByWrite
       \/ readTimeout > 0 /\ deadline = start + readTimeout
  /\ NoSpuriousTimeout

-----------------------------------------------------------------------------
(* Each step of the handshake keeps the types,                              *)
LEMMA TypesStep == Types /\ [Next]_vars => Types'
<1> SUFFICES ASSUME Types, [Next]_vars PROVE Types'
  OBVIOUS
<1> USE DEF timeVars, clientVars, serverVars
<1>1. CASE Tick
  BY <1>1 DEF Types, Tick
<1>2. CASE ClientRequest \/ ClientResponse \/ Receive \/ UNCHANGED vars
  BY <1>2, SMTT(30) DEF Types, ClientRequest, ClientResponse, Receive, vars
<1>3. CASE ServerHandshake \/ ReadPiece \/ ServerNewHandshake \/ ReadTimesOut
  BY <1>3 DEF Types, ServerHandshake, ReadPiece, ServerNewHandshake, ReadTimesOut, Armed,
              Cleared, ReadDeadline
<1>4. CASE ReadArms \/ ReadClears \/ ReadBlocks \/ WriteArms \/ WriteClears
  BY <1>4, SMTT(30) DEF Types, ReadArms, ReadClears, ReadBlocks, WriteArms, WriteClears, Armed, Cleared,
              ReadDeadline
<1> QED
  BY <1>1, <1>2, <1>3, <1>4 DEF Next

(* what its deadlines say,                                                  *)
LEMMA TimeStep == Types /\ TimeInv /\ [Next]_vars => TimeInv'
<1> SUFFICES ASSUME Types, TimeInv, [Next]_vars PROVE TimeInv'
  OBVIOUS
<1> USE DEF timeVars, clientVars, serverVars, Types, TimeInv, ByWrite, NoSpuriousTimeout, Never
<1>1. CASE Tick
  BY <1>1 DEF Tick, Expired
<1>2. CASE ClientRequest \/ ClientResponse \/ Receive \/ UNCHANGED vars
  BY <1>2 DEF ClientRequest, ClientResponse, Receive, vars
<1>3. CASE ServerHandshake
  BY <1>3 DEF ServerHandshake, Armed, ReadDeadline
<1>4. CASE ReadPiece
  BY <1>4, SMTT(30) DEF ReadPiece, ReadDeadline
<1>5. CASE ServerNewHandshake
  BY <1>5 DEF ServerNewHandshake, Cleared
<1>6. CASE ReadTimesOut
  BY <1>6 DEF ReadTimesOut, Expired, Cleared
<1>7. CASE ReadArms
  BY <1>7 DEF ReadArms, Armed
<1>8. CASE ReadClears
  BY <1>8 DEF ReadClears, Cleared
<1>9. CASE ReadBlocks
  <2>1. /\ rpc = "cleared" /\ rpc' = "reading" /\ deadline' = ReadDeadline(deadline)
        /\ start' = clock /\ UNCHANGED <<timeVars, serverVars, wpc>>
    BY <1>9, Zenon DEF ReadBlocks
  <2> QED
    BY <2>1 DEF ReadDeadline
<1>10. CASE WriteArms
  <2>1. /\ wpc = "call" /\ wpc' = "armed" /\ deadline' = Armed
        /\ UNCHANGED <<timeVars, serverVars, rpc, start>>
    BY <1>10, Zenon DEF WriteArms
  <2> QED
    BY <2>1 DEF Armed
<1>11. CASE WriteClears
  BY <1>11 DEF WriteClears, Cleared
<1> QED
  BY <1>1, <1>2, <1>3, <1>4, <1>5, <1>6, <1>7, <1>8, <1>9, <1>10, <1>11, ZenonT(40) DEF Next

(* The invariant of the deadlines, for every timeout.                       *)
THEOREM TimeInvariance == Spec => [](Types /\ TimeInv)
<1>1. Init => Types /\ TimeInv
  BY TimeoutAssumption DEF Init, Types, TimeInv, ByWrite, NoSpuriousTimeout, Never
<1> QED
  BY <1>1, TypesStep, TimeStep, PTL DEF Spec

(* A handshake whose client falls silent ends in time on a transport        *)
(* without a readTimeout: the deadline stays the one Handshake has set.     *)
THEOREM HandshakeBoundedCorrect == Spec => []HandshakeBounded
<1>1. Types /\ TimeInv => HandshakeBounded
  BY DEF Types, TimeInv, HandshakeBounded
<1> QED
  BY <1>1, TimeInvariance, PTL

(* No deadline of a Handshake, its own or that of a concurrent Write, makes *)
(* a pump's Read time out.                                                  *)
THEOREM NoSpuriousTimeoutCorrect == Spec => []NoSpuriousTimeout
<1>1. TimeInv => NoSpuriousTimeout
  BY DEF TimeInv
<1> QED
  BY <1>1, TimeInvariance, PTL

-----------------------------------------------------------------------------
(* What the server reads from a request of n lines is what the client's     *)
(* conn holds.                                                              *)
LEMMA UnmarshalRight ==
  ASSUME NEW n \in 2 .. 4
  PROVE  /\ Asked(n) # NoMsg /\ Asked(n)[2] = PublicKey(priKey)
         /\ UnmarshalReq(Asked(n)) =
              [key |-> PublicKey(priKey), target |-> Known(n).target, flag |-> Known(n).flag]
<1> DEFINE pk == PublicKey(priKey)
           m == <<0, pk, config.target, config.flag>>
           S == {0, pk, config.target, config.flag}
           s == SubSeq(m, 1, n)
<1> HIDE DEF pk
<1>1. /\ m \in Seq(S) /\ Len(m) = 4
      /\ m[2] = pk /\ m[3] = config.target /\ m[4] = config.flag
  OBVIOUS
<1>2. s = Asked(n)
  BY DEF Asked, MarshalReq, pk
<1> HIDE DEF m, S
<1>3. 1 \in 1 .. Len(m) + 1 /\ n \in 0 .. Len(m) /\ n \in Nat
  BY <1>1
<1>4. s \in Seq(S) /\ Len(s) = n /\ \A i \in 1 .. n : s[i] = m[i]
  BY <1>1, <1>3, SubSeqProperties, SMTT(30)
<1>5. s # NoMsg /\ s[2] = pk /\ (n >= 3 => s[3] = config.target) /\ (n >= 4 => s[4] = config.flag)
  BY <1>1, <1>3, <1>4 DEF NoMsg
<1> HIDE DEF s
<1>6. /\ Known(n).target = IF n >= 3 THEN config.target ELSE ""
      /\ Known(n).flag = IF n >= 4 THEN config.flag ELSE 0
  BY DEF Known, NoConn
<1>7. UnmarshalReq(s) = [key |-> pk, target |-> Known(n).target, flag |-> Known(n).flag]
  BY <1>3, <1>4, <1>5, <1>6, Zenon DEF UnmarshalReq
<1> QED
  BY <1>2, <1>5, <1>7 DEF pk

(* and what its keys say.                                                   *)
LEMMA KeyStep == KeyInv /\ [Next]_vars => KeyInv'
<1> SUFFICES ASSUME KeyInv, [Next]_vars PROVE KeyInv'
  OBVIOUS
<1> USE DEF timeVars, clientVars, serverVars
<1>1. ASSUME UNCHANGED <<cpc, config, priKey, cconn, request, response, sconn>>
      PROVE  KeyInv'
  BY <1>1 DEF KeyInv, Asked, Known
<1>2. CASE ClientRequest
  <2>1. PICK n \in 2 .. 4 :
          request' = SubSeq(MarshalReq(PublicKey(priKey'), config), 1, n)
          /\ cconn' = [NoConn EXCEPT !.target = IF n >= 3 THEN config.target ELSE @,
                                     !.flag = IF n >= 4 THEN config.flag ELSE @]
    BY <1>2, Zenon DEF ClientRequest
  <2>2. cpc = "start" /\ cpc' = "wait" /\ priKey' \in PrivateKeys
        /\ config' = config /\ response' = response
    BY <1>2 DEF ClientRequest
  <2>3. request' = Asked(n)' /\ cconn' = Known(n)'
    BY <2>1, <2>2, Zenon DEF Asked, Known
  <2>4. response = NoMsg
    BY <2>2, Zenon DEF KeyInv
  <2> QED
    BY <2>2, <2>3, <2>4 DEF KeyInv, NoMsg
<1>3. CASE ClientResponse
  <2>1. /\ cpc = "wait" /\ response # NoMsg /\ cpc' = "done" /\ response' = NoMsg
        /\ cconn' = [cconn EXCEPT !.id = response[1], !.secret = Secret(priKey, response[2])]
        /\ request' = request /\ sconn' = sconn
    BY <1>3, Zenon DEF ClientResponse
  <2>2. request = NoMsg /\ priKey \in PrivateKeys
        /\ sconn = [cconn EXCEPT !.id = sconn.id, !.secret = sconn.secret]
    BY <2>1, Zenon DEF KeyInv
  <2>3. PICK key \in PrivateKeys : /\ response = MarshalResp(sconn.id, PublicKey(key))
                                   /\ sconn.secret = Secret(key, PublicKey(priKey))
    BY <2>1, Zenon DEF KeyInv
  <2>4. response[1] = sconn.id /\ response[2] = PublicKey(key)
    BY <2>3 DEF MarshalResp
  <2>5. Secret(priKey, response[2]) = sconn.secret
    BY <2>2, <2>3, <2>4, KeysAgree
  <2> QED
    BY <2>1, <2>2, <2>4, <2>5 DEF KeyInv
<1>4. CASE ServerNewHandshake
  <2>1. /\ request # NoMsg /\ request' = NoMsg
        /\ UNCHANGED <<cpc, config, priKey, cconn>>
    BY <1>4, Zenon DEF ServerNewHandshake
  <2>2. cpc = "wait" /\ priKey \in PrivateKeys /\ response = NoMsg
    BY <2>1, Zenon DEF KeyInv
  <2>3. PICK n \in 2 .. 4 : request = Asked(n) /\ cconn = Known(n)
    BY <2>1, Zenon DEF KeyInv
  <2>4. CASE UNCHANGED <<sconn, response>>
    BY <2>1, <2>2, <2>4 DEF KeyInv
  <2>5. CASE \E key \in PrivateKeys, id \in IDs :
               LET nq == UnmarshalReq(request) IN
               /\ response' = MarshalResp(id, PublicKey(key))
               /\ sconn' = [id |-> id, secret |-> Secret(key, nq.key),
                            target |-> nq.target, flag |-> nq.flag]
    <3>1. PICK key \in PrivateKeys, id \in IDs :
                 /\ response' = MarshalResp(id, PublicKey(key))
                 /\ sconn' = [id |-> id, secret |-> Secret(key, UnmarshalReq(request).key),
                              target |-> UnmarshalReq(request).target,
                              flag |-> UnmarshalReq(request).flag]
      BY <2>5, Zenon
    <3>2. /\ UnmarshalReq(request).key = PublicKey(priKey)
          /\ UnmarshalReq(request).target = cconn.target
          /\ UnmarshalReq(request).flag = cconn.flag
      BY <2>3, UnmarshalRight, SMTT(30)
    <3>3. /\ sconn'.id = id /\ sconn'.secret = Secret(key, PublicKey(priKey))
          /\ sconn' = [id |-> id, secret |-> sconn'.secret,
                       target |-> cconn.target, flag |-> cconn.flag]
      BY <3>1, <3>2, Zenon
    <3>4. sconn' = [cconn EXCEPT !.id = sconn'.id, !.secret = sconn'.secret]
      <4>1. cconn = [id |-> cconn.id, secret |-> cconn.secret, target |-> cconn.target,
                     flag |-> cconn.flag]
        BY <2>3, Zenon DEF Known, NoConn
      <4> DEFINE x == sconn'.id
                 y == sconn'.secret
                 r == [cconn EXCEPT !.id = x]
      <4> HIDE DEF x, y
      <4>2. [cconn EXCEPT !.id = x, !.secret = y] = [r EXCEPT !.secret = y]
        BY Zenon
      <4>3. r = [id |-> x, secret |-> cconn.secret, target |-> cconn.target, flag |-> cconn.flag]
        BY <4>1, SMT
      <4> HIDE DEF r
      <4>4. [r EXCEPT !.secret = y]
            = [id |-> x, secret |-> y, target |-> cconn.target, flag |-> cconn.flag]
        BY <4>3, SMT
      <4> QED
        BY <3>3, <4>2, <4>4, Zenon DEF x, y
    <3> QED
      BY <2>1, <2>2, <3>1, <3>3, <3>4, Zenon DEF KeyInv
  <2> QED
    BY <1>4, <2>4, <2>5, Zenon DEF ServerNewHandshake
<1>5. CASE Tick \/ ServerHandshake \/ ReadPiece \/ ReadTimesOut
  BY <1>1, <1>5, Zenon DEF Tick, ServerHandshake, ReadPiece, ReadTimesOut
<1>6. CASE ReadArms \/ ReadClears \/ ReadBlocks \/ Receive \/ WriteArms \/ WriteClears
  BY <1>1, <1>6, Zenon DEF ReadArms, ReadClears, ReadBlocks, Receive, WriteArms, WriteClears
<1>7. CASE UNCHANGED vars
  BY <1>1, <1>7, Zenon DEF vars
<1> QED
  BY <1>2, <1>3, <1>4, <1>5, <1>6, <1>7, Zenon DEF Next

(* The invariant of the exchange, for every prime and whatever keys are     *)
(* drawn.                                                                   *)
THEOREM KeyInvariance == Spec => []KeyInv
<1>1. Init => KeyInv
  BY DEF Init, KeyInv
<1> QED
  BY <1>1, KeyStep, PTL DEF Spec

(* The public keys in flight are ones for which powmodp neither panics nor  *)
(* skips the reduction, and the server computes the secret the client will. *)
THEOREM SecretsAgreeCorrect == Spec => []SecretsAgree
<1>1. ASSUME KeyInv PROVE SecretsAgree
  <2>1. ASSUME request # NoMsg PROVE request[2] \in 1 .. P - 1
    <3>1. priKey \in PrivateKeys
      BY <1>1, <2>1, Zenon DEF KeyInv
    <3>2. PICK n \in 2 .. 4 : request = Asked(n)
      BY <1>1, <2>1, Zenon DEF KeyInv
    <3> QED
      BY <3>1, <3>2, UnmarshalRight, KeysAgree, Zenon DEF Unit
  <2>2. ASSUME response # NoMsg
        PROVE  response[2] \in 1 .. P - 1 /\ sconn.secret = Power(response[2], priKey)
    <3>1. priKey \in PrivateKeys
      BY <1>1, <2>2, Zenon DEF KeyInv
    <3>2. PICK key \in PrivateKeys : /\ response = MarshalResp(sconn.id, PublicKey(key))
                                     /\ sconn.secret = Secret(key, PublicKey(priKey))
      BY <1>1, <2>2, Zenon DEF KeyInv
    <3>3. response[2] = PublicKey(key)
      BY <3>2 DEF MarshalResp
    <3>4. /\ PublicKey(key) \in Unit
          /\ Secret(key, PublicKey(priKey)) = Power(PublicKey(key), priKey)
      BY <3>1, KeysAgree, Zenon
    <3> QED
      BY <3>2, <3>3, <3>4, Zenon DEF Unit
  <2> QED
    BY <2>1, <2>2, Zenon DEF SecretsAgree
<1> QED
  BY <1>1, KeyInvariance, PTL

(* After the handshake both ends have the same id, secret, target and flag. *)
THEOREM HandshakeAgreesCorrect == Spec => []HandshakeAgrees
<1>1. KeyInv => HandshakeAgrees
  BY Zenon DEF KeyInv, HandshakeAgrees
<1> QED
  BY <1>1, KeyInvariance, PTL
=============================================================================

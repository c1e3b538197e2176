-------------------------- MODULE BufferPoolProofs --------------------------
(***************************************************************************)
(* Owners and contents of the reuse buffers, for any number of conns and   *)
(* buffers and any sizes.  That a buffer has one owner makes a write to it *)
(* harmless to everybody else's bytes; that needs, in turn, to know which  *)
(* conns have a buffer at all and where the writer of each points.         *)
(***************************************************************************)
EXTENDS BufferPool, SequenceTheorems, TLAPS

(* The time a leaf may take. *)
USE SMTT(30), ZenonT(20)

Owning == {"copying", "open", "frozen", "putting"}

(* Last returns the end of a sequence.                                      *)
LEMMA LastIsEnd ==
  ASSUME NEW S, NEW s \in Seq(S), NEW n \in Nat
  PROVE  /\ Last(s, n) \in Seq(S)
         /\ Len(Last(s, n)) = (IF Len(s) > n THEN n ELSE Len(s))
         /\ \A i \in 1 .. Len(Last(s, n)) : Last(s, n)[i] = s[Len(s) - Len(Last(s, n)) + i]
<1> DEFINE first == IF Len(s) > n THEN Len(s) - n + 1 ELSE 1
<1>1. Len(s) \in Nat /\ first \in Int /\ first >= 1 /\ first <= Len(s) + 1
  OBVIOUS
<1>2. Last(s, n) = SubSeq(s, first, Len(s))
  BY DEF Last
<1> HIDE DEF first
<1>3. \A i \in first .. Len(s) : s[i] \in S
  BY <1>1
<1>4. /\ Last(s, n) \in Seq(S)
      /\ Len(Last(s, n)) = (IF first <= Len(s) THEN Len(s) - first + 1 ELSE 0)
      /\ \A i \in 1 .. Len(s) - first + 1 : Last(s, n)[i] = s[first + i - 1]
  BY <1>1, <1>2, <1>3, SubSeqProperties
<1>5. Len(Last(s, n)) = Len(s) - first + 1
  BY <1>1, <1>4
<1>6. Len(Last(s, n)) = (IF Len(s) > n THEN n ELSE Len(s))
  BY <1>1, <1>5 DEF first
<1>7. \A i \in 1 .. Len(Last(s, n)) : Last(s, n)[i] = s[Len(s) - Len(Last(s, n)) + i]
  <2> TAKE i \in 1 .. Len(Last(s, n))
  <2>1. i \in 1 .. Len(s) - first + 1
    BY <1>5
  <2>2. first + i - 1 = Len(s) - Len(Last(s, n)) + i
    BY <1>1, <1>5, <2>1
  <2> QED
    BY <1>4, <2>1, <2>2
<1> QED
  BY <1>4, <1>6, <1>7

(* The last n of a sequence and one more are the last n of the longer one.  *)
LEMMA LastAppend ==
  ASSUME NEW S, NEW s \in Seq(S), NEW e \in S, NEW n \in Nat
  PROVE  Last(Append(Last(s, n), e), n) = Last(Append(s, e), n)
<1> DEFINE short == Last(s, n)
           l == Append(short, e)
           r == Append(s, e)
           ll == Last(l, n)
           lr == Last(r, n)
<1>1. /\ short \in Seq(S) /\ Len(short) = (IF Len(s) > n THEN n ELSE Len(s))
      /\ \A i \in 1 .. Len(short) : short[i] = s[Len(s) - Len(short) + i]
  BY LastIsEnd
<1>2. Len(s) \in Nat /\ Len(short) \in Nat /\ Len(short) <= Len(s)
  BY <1>1
<1> HIDE DEF short
<1>3. /\ l \in Seq(S) /\ Len(l) = Len(short) + 1 /\ l[Len(short) + 1] = e
      /\ \A i \in 1 .. Len(short) : l[i] = short[i]
  BY <1>1
<1>4. /\ r \in Seq(S) /\ Len(r) = Len(s) + 1 /\ r[Len(s) + 1] = e
      /\ \A i \in 1 .. Len(s) : r[i] = s[i]
  OBVIOUS
<1> HIDE DEF l, r
<1>5. /\ ll \in Seq(S) /\ Len(ll) = (IF Len(l) > n THEN n ELSE Len(l))
      /\ \A i \in 1 .. Len(ll) : ll[i] = l[Len(l) - Len(ll) + i]
  BY <1>3, LastIsEnd, Zenon
<1>6. /\ lr \in Seq(S) /\ Len(lr) = (IF Len(r) > n THEN n ELSE Len(r))
      /\ \A i \in 1 .. Len(lr) : lr[i] = r[Len(r) - Len(lr) + i]
  BY <1>4, LastIsEnd, Zenon
<1> HIDE DEF ll, lr
<1>7. Len(ll) = Len(lr) /\ Len(ll) \in Nat /\ Len(ll) <= Len(short) + 1
  BY <1>1, <1>2, <1>3, <1>4, <1>5, <1>6
<1>8. ASSUME NEW i \in 1 .. Len(ll) PROVE ll[i] = lr[i]
  <2> DEFINE j == Len(short) + 1 - Len(ll) + i
             k == Len(s) + 1 - Len(ll) + i
  <2>1. ll[i] = l[j] /\ lr[i] = r[k]
    <3>1. ll[i] = l[Len(l) - Len(ll) + i] /\ lr[i] = r[Len(r) - Len(lr) + i]
      BY <1>5, <1>6, <1>7, Zenon
    <3>2. Len(l) - Len(ll) + i = j /\ Len(r) - Len(lr) + i = k
      BY <1>2, <1>3, <1>4, <1>7
    <3> QED
      BY <3>1, <3>2, Zenon
  <2>2. j \in 1 .. Len(short) + 1 /\ k \in 1 .. Len(s) + 1 /\ k = j + (Len(s) - Len(short))
    BY <1>2, <1>7
  <2> HIDE DEF j, k
  <2>3. CASE j = Len(short) + 1
    <3>1. k = Len(s) + 1
      BY <1>2, <2>2, <2>3
    <3> QED
      BY <1>3, <1>4, <2>1, <2>3, <3>1
  <2>4. CASE j # Len(short) + 1
    <3>1. j \in 1 .. Len(short) /\ k \in 1 .. Len(s) /\ k = Len(s) - Len(short) + j
      BY <1>2, <2>2, <2>4
    <3> QED
      BY <1>1, <1>3, <1>4, <2>1, <3>1, Zenon
  <2> QED
    BY <2>3, <2>4
<1>9. ll = lr
  BY <1>5, <1>6, <1>7, <1>8, SeqEqual
<1> QED
  BY <1>9 DEF ll, lr, l, r, short

(* A session's stream, one byte longer.                                     *)
LEMMA StreamAppend ==
  ASSUME NEW s, NEW k \in Nat
  PROVE  /\ Stream(s, k) \in Seq({s} \X Nat)
         /\ Stream(s, k + 1) = Append(Stream(s, k), <<s, k + 1>>)
<1>1. Stream(s, k) \in Seq({s} \X Nat) /\ Len(Stream(s, k)) = k
  BY DEF Stream
<1>2. Stream(s, k + 1) \in Seq({s} \X Nat) /\ Len(Stream(s, k + 1)) = k + 1
  BY DEF Stream
<1>3. /\ Append(Stream(s, k), <<s, k + 1>>) \in Seq({s} \X Nat)
      /\ Len(Append(Stream(s, k), <<s, k + 1>>)) = k + 1
  BY <1>1
<1>4. \A i \in 1 .. k + 1 : Stream(s, k + 1)[i] = Append(Stream(s, k), <<s, k + 1>>)[i]
  BY <1>1 DEF Stream
<1> QED
  BY <1>1, <1>2, <1>3, <1>4

(* A buffer that holds the end of a stream still does after the next byte.  *)
LEMMA StreamGrows ==
  ASSUME NEW s, NEW k \in Nat, NEW n \in Nat
  PROVE  Last(Append(Last(Stream(s, k), n), <<s, k + 1>>), n) = Last(Stream(s, k + 1), n)
<1> DEFINE S == {s} \X Nat
           t == Stream(s, k)
           e == <<s, k + 1>>
<1>1. t \in Seq(S) /\ Stream(s, k + 1) = Append(t, e)
  BY StreamAppend, Zenon
<1>2. e \in S
  OBVIOUS
<1> HIDE DEF S, t, e
<1>3. Last(Append(Last(t, n), e), n) = Last(Append(t, e), n)
  BY <1>1, <1>2, LastAppend
<1> QED
  BY <1>1, <1>3, Zenon DEF t, e

-----------------------------------------------------------------------------
(* Where the pointers of conn c lead in each of its states.                 *)
Pointers(c) ==
  /\ state[c] \in Owning <=> reuseBuffer[c] # None
  /\ state[c] \in Owning => writer[c] = reuseBuffer[c]
  /\ c \in checked => writer[c] # None /\ state[c] \in {"open", "frozen", "putting", "closed"}
  /\ state[c] = "unused" => sent[c] = 0 /\ session[c] = c
  /\ state[c] # "unused" => state[session[c]] # "unused"
  /\ state[c] = "copying" => state[from[c]] = "frozen" /\ session[from[c]] = session[c]

(* The count that goes with the buffer of conn c: in the midst of spawn     *)
(* still that of the receiver.                                              *)
CountOf(c) == IF state[c] = "copying" THEN sent[from[c]] ELSE sent[c]

Bytes(c) ==
  LET b == reuseBuffer[c] IN
  state[c] \in Owning /\ b \notin tainted /\ session[c] \notin late =>
    held[b] = Last(Stream(session[c], CountOf(c)), size[b])

(* The buffer of conn c is as large as the first one of its session.        *)
Fits(c) == state[c] \in Owning => size[reuseBuffer[c]] = began[session[c]]

PoolInv ==
  /\ TypeOK /\ OneOwner
  /\ \A c \in Conns : Pointers(c) /\ Bytes(c) /\ Fits(c)

(* Nothing sent, nothing to resend.                                         *)
LEMMA NothingSent == ASSUME NEW s, NEW n \in Nat PROVE Last(Stream(s, 0), n) = <<>>
<1>1. Stream(s, 0) \in Seq({s} \X Nat) /\ Len(Stream(s, 0)) = 0
  BY DEF Stream
<1>2. Last(Stream(s, 0), n) \in Seq({s} \X Nat) /\ Len(Last(Stream(s, 0), n)) = 0
  BY <1>1, LastIsEnd
<1> QED
  BY <1>2

(* Before the first connection.                                             *)
LEMMA InitPool == Init => PoolInv
<1> SUFFICES ASSUME Init PROVE PoolInv
  OBVIOUS
<1>1. TypeOK
  BY PoolAssumption DEF Init, TypeOK, States
<1>2. OneOwner
  BY DEF Init, OneOwner
<1>3. \A c \in Conns : Pointers(c) /\ Bytes(c) /\ Fits(c)
  BY DEF Init, Pointers, Bytes, Fits, Owning
<1> QED
  BY <1>1, <1>2, <1>3 DEF PoolInv

(* What Get returns belongs to nobody.                                      *)
LEMMA GotUnowned ==
  ASSUME PoolInv, NEW b \in Buffers, Get(b)
  PROVE  \A d \in Conns : reuseBuffer[d] # b
<1>1. b \in pool \/ b \in Unused
  BY DEF Get
<1>2. b # None
  BY PoolAssumption
<1> QED
  BY <1>1, <1>2 DEF PoolInv, OneOwner, Unused

(* A conn that takes a buffer of nobody's out of the pool is its one owner. *)
LEMMA Takes ==
  ASSUME OneOwner, NEW c \in Conns, NEW b, pool' = pool \ {b},
         \A d \in Conns : reuseBuffer[d] # b, reuseBuffer'[c] = b,
         \A d \in Conns \ {c} : reuseBuffer'[d] = reuseBuffer[d]
  PROVE  OneOwner'
  BY DEF OneOwner

(* And one that puts its buffer into the pool leaves it to nobody.          *)
LEMMA Gives ==
  ASSUME OneOwner, NEW c \in Conns, reuseBuffer[c] # None, reuseBuffer'[c] = None,
         pool' = pool \cup {reuseBuffer[c]},
         \A d \in Conns \ {c} : reuseBuffer'[d] = reuseBuffer[d]
  PROVE  OneOwner'
  BY DEF OneOwner

(* What makes the pointers of a conn with a buffer right.                   *)
LEMMA Points ==
  ASSUME NEW c \in Conns, state'[c] \in {"copying", "open", "frozen"},
         reuseBuffer'[c] # None, writer'[c] = reuseBuffer'[c],
         c \in checked' => state'[c] # "copying",
         state'[session'[c]] # "unused",
         state'[c] = "copying" => /\ state'[from'[c]] = "frozen"
                                  /\ session'[from'[c]] = session'[c]
  PROVE  Pointers(c)'
  BY DEF Pointers, Owning

(* A step that leaves conn d alone, or spoils its bytes and says so.        *)
LEMMA Untouched ==
  ASSUME PoolInv, NEW d \in Conns,
         /\ reuseBuffer'[d] = reuseBuffer[d] /\ writer'[d] = writer[d]
         /\ session'[d] = session[d] /\ state'[d] = state[d]
         /\ sent'[d] = sent[d] /\ from'[d] = from[d],
         d \in checked' => d \in checked,
         late \subseteq late',
         \A e \in Conns : state[e] # "unused" => state'[e] # "unused",
         reuseBuffer[d] \in tainted => reuseBuffer[d] \in tainted',
         state[d] \in Owning => /\ size'[reuseBuffer[d]] = size[reuseBuffer[d]]
                                /\ began'[session[d]] = began[session[d]]
                                /\ \/ held'[reuseBuffer[d]] = held[reuseBuffer[d]]
                                   \/ reuseBuffer[d] \in tainted',
         state[d] = "copying" => /\ state'[from[d]] = state[from[d]]
                                 /\ session'[from[d]] = session[from[d]]
                                 /\ \/ sent'[from[d]] = sent[from[d]]
                                    \/ session[d] \in late'
  PROVE  Pointers(d)' /\ Bytes(d)' /\ Fits(d)'
<1>1. Pointers(d) /\ Bytes(d) /\ Fits(d) /\ session[d] \in Conns
  BY Zenon DEF PoolInv, TypeOK
<1>2. Pointers(d)'
  BY <1>1, Zenon DEF Pointers
<1>3. session[d] \in late' \/ CountOf(d)' = CountOf(d)
  BY Zenon DEF CountOf
<1>4. Bytes(d)'
  BY <1>1, <1>3, Zenon DEF Bytes
<1>5. Fits(d)'
  BY <1>1, Zenon DEF Fits
<1> QED
  BY <1>2, <1>4, <1>5, Zenon

(* initNewConn.                                                             *)
LEMMA InitNewConnKeeps ==
  ASSUME PoolInv, NEW c \in Conns, InitNewConn(c)
  PROVE  PoolInv'
<1>0. TypeOK /\ Pointers(c)
  BY Zenon DEF PoolInv
<1>1. PICK b \in Buffers :
        /\ Get(b)
        /\ size' = [size EXCEPT ![b] = Capacity(b)]
        /\ began' = [began EXCEPT ![c] = Capacity(b)]
        /\ Reset(b)
        /\ tainted' = tainted \ {b}
        /\ reuseBuffer' = [reuseBuffer EXCEPT ![c] = b]
        /\ writer' = [writer EXCEPT ![c] = b]
  BY Zenon DEF InitNewConn
<1>2. /\ state[c] = "unused" /\ state' = [state EXCEPT ![c] = "open"]
      /\ UNCHANGED <<ReuseBufferSize, session, sent, from, checked, late>>
  BY DEF InitNewConn
<1>3. \A d \in Conns : reuseBuffer[d] # b
  BY <1>1, GotUnowned, Zenon
<1>4. b # None /\ session[c] = c /\ sent[c] = 0
  BY <1>0, <1>2, PoolAssumption, Zenon DEF Pointers
<1>5. Capacity(b) \in Nat
  BY <1>0 DEF Capacity, TypeOK
<1>6. /\ reuseBuffer'[c] = b /\ writer'[c] = b /\ state'[c] = "open"
      /\ size'[b] \in Nat /\ held'[b] = <<>> /\ began'[c] = size'[b]
      /\ \A d \in Conns \ {c} : /\ reuseBuffer'[d] = reuseBuffer[d] /\ writer'[d] = writer[d]
                               /\ state'[d] = state[d] /\ began'[d] = began[d]
      /\ \A e \in Buffers \ {b} : size'[e] = size[e] /\ held'[e] = held[e]
  BY <1>0, <1>1, <1>2, <1>5, Zenon DEF TypeOK, Reset
<1>7. TypeOK'
  <2>1. held' \in [Buffers -> Seq(Conns \X Nat)]
    BY <1>0, <1>1 DEF TypeOK, Reset
  <2> QED
    BY <1>0, <1>1, <1>2, <1>5, <2>1, Zenon DEF TypeOK, Get, States
<1>8. OneOwner'
  <2>1. pool' = pool \ {b}
    BY <1>1, Zenon DEF Get
  <2> QED
    BY <1>3, <1>6, <2>1, Takes, Zenon DEF PoolInv
<1>9. ASSUME NEW d \in Conns PROVE Pointers(d)' /\ Bytes(d)' /\ Fits(d)'
  <2>1. CASE d = c
    <3>1. Pointers(c)'
      <4>1. session'[c] = c
        BY <1>2, <1>4
      <4> QED
        BY <1>4, <1>6, <4>1, Points
    <3>2. CountOf(c)' = 0
      BY <1>2, <1>4, <1>6, Zenon DEF CountOf
    <3>3. Bytes(c)'
      <4>1. Last(Stream(session'[c], 0), size'[b]) = <<>>
        BY <1>6, NothingSent, Zenon
      <4> QED
        BY <1>6, <3>2, <4>1 DEF Bytes
    <3>4. Fits(c)'
      BY <1>2, <1>4, <1>6, Zenon DEF Fits
    <3> QED
      BY <2>1, <3>1, <3>3, <3>4, Zenon
  <2>2. CASE d # c
    <3>1. /\ Pointers(d) /\ from[d] \in Conns /\ session[d] \in Conns
          /\ reuseBuffer[d] \in Buffers \cup {None} /\ reuseBuffer[d] # b
      BY <1>0, <1>3, Zenon DEF PoolInv, TypeOK
    <3>2. state[d] = "copying" => from[d] \in Conns \ {c}
      BY <1>2, <3>1 DEF Pointers
    <3>3. state[d] \in Owning => session[d] \in Conns \ {c}
      BY <1>2, <3>1 DEF Pointers, Owning
    <3>4. state[d] \in Owning => reuseBuffer[d] \in Buffers \ {b}
      BY <3>1, Zenon DEF Pointers
    <3>5. \A e \in Conns : state[e] # "unused" => state'[e] # "unused"
      BY <1>6
    <3>6. reuseBuffer[d] \in tainted => reuseBuffer[d] \in tainted'
      BY <1>1, <3>1
    <3>7. \A e \in Conns : session'[e] = session[e] /\ sent'[e] = sent[e] /\ from'[e] = from[e]
      BY <1>2
    <3>8. checked' = checked /\ late' = late
      BY <1>2
    <3> QED
      BY <1>6, <2>2, <3>1, <3>2, <3>3, <3>4, <3>5, <3>6, <3>7, <3>8, Untouched, ZenonT(40)
  <2> QED
    BY <2>1, <2>2
<1> QED
  BY <1>7, <1>8, <1>9, Zenon DEF PoolInv

(* spawn, up to the copy: buffer, capacity and taint come from the receiver.*)
LEMMA SpawnBufferKeeps ==
  ASSUME PoolInv, NEW c \in Conns, NEW new \in Conns, SpawnBuffer(c, new)
  PROVE  PoolInv'
<1> DEFINE old == reuseBuffer[c]
<1>0. TypeOK /\ Pointers(c) /\ Bytes(c) /\ Fits(c) /\ Pointers(new)
  BY Zenon DEF PoolInv
<1>1. PICK b \in Buffers :
        /\ Get(b)
        /\ CopyTo(old, b)
        /\ tainted' = IF old \in tainted THEN tainted \cup {b} ELSE tainted \ {b}
        /\ reuseBuffer' = [reuseBuffer EXCEPT ![new] = b]
        /\ writer' = [writer EXCEPT ![new] = b]
  BY Zenon DEF SpawnBuffer
<1>2. /\ state[c] \in {"open", "frozen"} /\ state[new] = "unused" /\ c # new
      /\ session' = [session EXCEPT ![new] = session[c]]
      /\ state' = [state EXCEPT ![c] = "frozen", ![new] = "copying"]
      /\ from' = [from EXCEPT ![new] = c]
      /\ UNCHANGED <<ReuseBufferSize, sent, checked, late, began>>
  BY DEF SpawnBuffer
<1>3. \A d \in Conns : reuseBuffer[d] # b
  BY <1>1, GotUnowned, Zenon
<1>4. /\ b # None /\ old \in Buffers \ {b} /\ writer[c] = old /\ state[c] \in Owning
      /\ session[c] \in Conns \ {new} /\ state[session[c]] # "unused"
  BY <1>0, <1>2, <1>3, PoolAssumption DEF Pointers, Owning, TypeOK
<1>5. /\ reuseBuffer'[new] = b /\ writer'[new] = b /\ session'[new] = session[c]
      /\ state'[new] = "copying" /\ state'[c] = "frozen" /\ from'[new] = c
      /\ size'[b] = size[old] /\ held'[b] = held[old]
      /\ \A d \in Conns \ {new} : /\ reuseBuffer'[d] = reuseBuffer[d]
                                 /\ writer'[d] = writer[d]
                                 /\ session'[d] = session[d] /\ from'[d] = from[d]
      /\ \A d \in Conns \ {c, new} : state'[d] = state[d]
      /\ \A e \in Buffers \ {b} : size'[e] = size[e] /\ held'[e] = held[e]
  BY <1>0, <1>1, <1>2, <1>4, ZenonT(40) DEF TypeOK, CopyTo
<1>6. TypeOK'
  BY <1>0, <1>1, <1>2, <1>4, ZenonT(40) DEF TypeOK, Get, CopyTo, States
<1>7. OneOwner'
  <2>1. pool' = pool \ {b}
    BY <1>1, Zenon DEF Get
  <2> QED
    BY <1>3, <1>5, <2>1, Takes DEF PoolInv
<1>u. \A e \in Conns : state[e] # "unused" => state'[e] # "unused"
  BY <1>5
<1>8. Pointers(c)' /\ Bytes(c)' /\ Fits(c)'
  <2>1. Pointers(c)'
    <3>1. reuseBuffer'[c] = old /\ writer'[c] = old /\ old # None /\ session'[c] = session[c]
      BY <1>0, <1>2, <1>4, <1>5 DEF Pointers
    <3>2. state'[session[c]] # "unused"
      BY <1>4, <1>u
    <3> QED
      BY <1>5, <3>1, <3>2, Points
  <2>2. CountOf(c)' = sent[c] /\ CountOf(c) = sent[c]
    BY <1>2, <1>5 DEF CountOf
  <2>3. old \in tainted => old \in tainted'
    BY <1>1, <1>4
  <2>4. Bytes(c)'
    BY <1>0, <1>2, <1>4, <1>5, <2>2, <2>3 DEF Bytes, Owning
  <2>5. Fits(c)'
    <3>1. began' = began
      BY <1>2
    <3>2. session'[c] = session[c] /\ size'[reuseBuffer'[c]] = size[old]
      BY <1>2, <1>4, <1>5
    <3>3. size[old] = began[session[c]]
      BY <1>0, <1>4 DEF Fits
    <3> QED
      BY <3>1, <3>2, <3>3 DEF Fits
  <2> QED
    BY <2>1, <2>4, <2>5, Zenon
<1>9. Pointers(new)' /\ Bytes(new)' /\ Fits(new)'
  <2>1. Pointers(new)'
    <3>1. new \notin checked' /\ session'[c] = session[c]
      BY <1>0, <1>2, <1>5 DEF Pointers
    <3>2. state'[session[c]] # "unused"
      BY <1>4, <1>u
    <3> QED
      BY <1>4, <1>5, <3>1, <3>2, Points
  <2>2. CountOf(new)' = sent[c] /\ CountOf(c) = sent[c]
    BY <1>2, <1>5 DEF CountOf
  <2>3. b \notin tainted' => old \notin tainted
    BY <1>1, <1>4
  <2>4. Bytes(new)'
    BY <1>0, <1>2, <1>4, <1>5, <2>2, <2>3 DEF Bytes, Owning
  <2>5. Fits(new)'
    <3>1. began' = began
      BY <1>2
    <3>2. session'[new] = session[c] /\ size'[reuseBuffer'[new]] = size[old]
      BY <1>2, <1>4, <1>5
    <3>3. size[old] = began[session[c]]
      BY <1>0, <1>4 DEF Fits
    <3> QED
      BY <3>1, <3>2, <3>3 DEF Fits
  <2> QED
    BY <2>1, <2>4, <2>5, Zenon
<1>10. ASSUME NEW d \in Conns \ {c, new} PROVE Pointers(d)' /\ Bytes(d)' /\ Fits(d)'
  <2>1. /\ Pointers(d) /\ from[d] \in Conns /\ reuseBuffer[d] \in Buffers \cup {None}
        /\ reuseBuffer[d] # b
    BY <1>0, <1>3, Zenon DEF PoolInv, TypeOK
  <2>2. state[d] = "copying" => from[d] \in Conns \ {c, new}
    BY <1>2, <2>1 DEF SpawnBuffer, Locked, Pointers
  <2>3. state[d] \in Owning => reuseBuffer[d] \in Buffers \ {b}
    BY <2>1, Zenon DEF Pointers
  <2>4. reuseBuffer[d] \in tainted => reuseBuffer[d] \in tainted'
    BY <1>1, <2>1
  <2>5. \A e \in Conns : sent'[e] = sent[e] /\ began'[e] = began[e]
    BY <1>2
  <2>6. checked' = checked /\ late' = late /\ session[d] \in Conns
    BY <1>0, <1>2 DEF TypeOK
  <2> QED
    BY <1>5, <1>u, <1>10, <2>1, <2>2, <2>3, <2>4, <2>5, <2>6, Untouched, ZenonT(40)
<1> QED
  BY <1>6, <1>7, <1>8, <1>9, <1>10, Zenon DEF PoolInv

(* spawn, the count: the new conn has it from now on itself.                *)
LEMMA SpawnCountKeeps ==
  ASSUME PoolInv, NEW new \in Conns, SpawnCount(new)
  PROVE  PoolInv'
<1>0. TypeOK /\ Pointers(new) /\ Bytes(new) /\ Fits(new)
  BY Zenon DEF PoolInv
<1>1. /\ state[new] = "copying"
      /\ sent' = [sent EXCEPT ![new] = sent[from[new]]]
      /\ state' = [state EXCEPT ![new] = "open"]
      /\ from' = [from EXCEPT ![new] = new]
      /\ UNCHANGED <<ReuseBufferSize, pool, size, held, reuseBuffer, writer, session,
                     checked, late, tainted, began>>
  BY DEF SpawnCount, bufVars
<1>2. /\ sent'[new] = sent[from[new]] /\ state'[new] = "open"
      /\ \A d \in Conns \ {new} : /\ sent'[d] = sent[d] /\ state'[d] = state[d]
                                 /\ from'[d] = from[d]
  BY <1>0, <1>1, Zenon DEF TypeOK
<1>3. TypeOK'
  BY <1>0, <1>1, Zenon DEF TypeOK, States
<1>4. OneOwner'
  BY <1>1 DEF PoolInv, OneOwner
<1>u. \A e \in Conns : state[e] # "unused" => state'[e] # "unused"
  BY <1>2
<1>5. Pointers(new)' /\ Bytes(new)' /\ Fits(new)'
  <2>1. session[new] \in Conns
    BY <1>0, Zenon DEF TypeOK
  <2>2. Pointers(new)'
    BY <1>0, <1>1, <1>2, <1>u, <2>1 DEF Pointers, Owning
  <2>3. CountOf(new)' = CountOf(new)
    BY <1>1, <1>2 DEF CountOf
  <2>4. Bytes(new)'
    BY <1>0, <1>1, <1>2, <2>3 DEF Bytes, Owning
  <2>5. Fits(new)'
    BY <1>0, <1>1, <1>2 DEF Fits, Owning
  <2> QED
    BY <2>2, <2>4, <2>5, Zenon
<1>6. ASSUME NEW d \in Conns \ {new} PROVE Pointers(d)' /\ Bytes(d)' /\ Fits(d)'
  <2>1. Pointers(d) /\ from[d] \in Conns
    BY <1>0, Zenon DEF PoolInv, TypeOK
  <2>2. state[d] = "copying" => from[d] \in Conns \ {new}
    BY <1>1, <2>1 DEF Pointers
  <2> QED
    BY <1>1, <1>2, <1>u, <1>6, <2>1, <2>2, Untouched
<1> QED
  BY <1>3, <1>4, <1>5, <1>6, Zenon DEF PoolInv

(* Write: into the buffer of the conn itself, or of nobody, or of a conn    *)
(* whose buffer is from then on tainted.                                    *)
LEMMA WriteKeeps ==
  ASSUME PoolInv, NEW c \in Conns, Write(c)
  PROVE  PoolInv'
<1> DEFINE b == writer[c]
           byte == <<session[c], sent[c] + 1>>
<1>0. TypeOK /\ Pointers(c) /\ Bytes(c) /\ Fits(c)
  BY Zenon DEF PoolInv
<1>1. /\ c \in checked
      /\ checked' = checked \ {c}
      /\ sent' = [sent EXCEPT ![c] = @ + 1]
      /\ held' = [held EXCEPT ![b] = Last(Append(@, byte), size[b])]
      /\ late' = IF state[c] # "open" THEN late \cup {session[c]} ELSE late
      /\ tainted' = IF reuseBuffer[c] = None THEN tainted \cup {b} ELSE tainted
      /\ UNCHANGED <<ReuseBufferSize, pool, size, reuseBuffer, writer, session, state, from,
                     began>>
  BY DEF Write
<1>2. /\ b \in Buffers /\ size[b] \in Nat /\ held[b] \in Seq(Conns \X Nat)
      /\ byte \in Conns \X Nat
  BY <1>0, <1>1 DEF TypeOK, Pointers
<1>3. Append(held[b], byte) \in Seq(Conns \X Nat)
  BY <1>2
<1>4. Last(Append(held[b], byte), size[b]) \in Seq(Conns \X Nat)
  BY <1>2, <1>3, LastIsEnd, ZenonT(40)
<1>5. /\ held'[b] = Last(Append(held[b], byte), size[b]) /\ sent'[c] = sent[c] + 1
      /\ \A d \in Conns \ {c} : sent'[d] = sent[d]
      /\ \A e \in Buffers \ {b} : held'[e] = held[e]
  BY <1>0, <1>1, <1>2 DEF TypeOK
<1>6. TypeOK'
  BY <1>0, <1>1, <1>2, <1>4, Zenon DEF TypeOK
<1>7. OneOwner'
  BY <1>1 DEF PoolInv, OneOwner
<1>8. Pointers(c)' /\ Bytes(c)' /\ Fits(c)'
  <2>1. Pointers(c)'
    BY <1>0, <1>1 DEF Pointers
  <2>f. Fits(c)'
    BY <1>0, <1>1 DEF Fits
  <2>2. CASE state[c] = "open"
    <3>1. reuseBuffer[c] = b /\ reuseBuffer[c] # None /\ CountOf(c) = sent[c]
          /\ CountOf(c)' = sent[c] + 1
      BY <1>0, <1>1, <1>5, <2>2 DEF Pointers, Owning, CountOf
    <3>2. session[c] \in Conns /\ sent[c] \in Nat
      BY <1>0 DEF TypeOK
    <3>3. Last(Append(Last(Stream(session[c], sent[c]), size[b]), byte), size[b])
          = Last(Stream(session[c], sent[c] + 1), size[b])
      BY <1>2, <3>2, StreamGrows
    <3> QED
      BY <1>0, <1>1, <1>5, <2>1, <2>f, <2>2, <3>1, <3>3 DEF Bytes, Owning
  <2>3. CASE state[c] # "open"
    <3>1. session'[c] \in late'
      BY <1>1, <2>3, Zenon
    <3> QED
      BY <2>1, <2>f, <3>1 DEF Bytes
  <2> QED
    BY <2>2, <2>3
<1>9. ASSUME NEW d \in Conns \ {c} PROVE Pointers(d)' /\ Bytes(d)' /\ Fits(d)'
  <2>1. Pointers(d) /\ from[d] \in Conns /\ reuseBuffer[d] \in Buffers \cup {None}
    BY <1>0 DEF PoolInv, TypeOK
  <2>2. state[d] = "copying" => sent'[from[d]] = sent[from[d]] \/ session[d] \in late'
    BY <1>1, <1>5, <2>1 DEF Pointers
  <2>3. reuseBuffer[c] # None => reuseBuffer[c] = b
    BY <1>0 DEF Pointers
  <2>4. reuseBuffer[d] = b => b \in tainted'
    BY <1>1, <1>2, <1>9, <2>3 DEF PoolInv, OneOwner
  <2>5. state[d] \in Owning => reuseBuffer[d] \in Buffers
    BY <2>1 DEF Pointers
  <2>6. state[d] \in Owning => \/ held'[reuseBuffer[d]] = held[reuseBuffer[d]]
                              \/ reuseBuffer[d] \in tainted'
    BY <1>5, <2>4, <2>5
  <2> HIDE DEF b, byte
  <2> QED
    BY <1>1, <1>5, <1>9, <2>2, <2>6, Untouched
<1> QED
  BY <1>6, <1>7, <1>8, <1>9 DEF PoolInv

(* Close, up to the comparison in Put.                                      *)
LEMMA CloseKeeps ==
  ASSUME PoolInv, NEW c \in Conns, Close(c)
  PROVE  PoolInv'
<1>0. TypeOK /\ Pointers(c) /\ Bytes(c) /\ Fits(c) /\ session[c] \in Conns
  BY Zenon DEF PoolInv, TypeOK
<1>1. PICK to \in {"putting", "closed"} : state' = [state EXCEPT ![c] = to]
  BY Zenon DEF Close
<1>2. /\ state[c] \in {"open", "frozen"} /\ ~Locked(c)
      /\ UNCHANGED <<ReuseBufferSize, pool, size, held, writer, session, sent, from, checked,
                     late, tainted, began>>
  BY DEF Close, bufVars
<1>3. /\ state'[c] = to
      /\ \A d \in Conns \ {c} : reuseBuffer'[d] = reuseBuffer[d] /\ state'[d] = state[d]
      /\ to = "putting" => reuseBuffer'[c] = reuseBuffer[c]
      /\ to = "closed" => reuseBuffer'[c] = None
      /\ reuseBuffer' \in [Conns -> Buffers \cup {None}]
  BY <1>0, <1>1, Zenon DEF TypeOK, Close
<1>4. TypeOK'
  BY <1>0, <1>1, <1>2, <1>3, Zenon DEF TypeOK, States
<1>5. OneOwner'
  <2>1. \A d \in Conns : reuseBuffer'[d] = reuseBuffer[d] \/ reuseBuffer'[d] = None
    BY <1>3
  <2> QED
    BY <1>2, <2>1 DEF PoolInv, OneOwner
<1>u. \A e \in Conns : state[e] # "unused" => state'[e] # "unused"
  BY <1>3
<1>6. Pointers(c)' /\ Bytes(c)' /\ Fits(c)'
  <2>1. reuseBuffer[c] # None /\ writer[c] = reuseBuffer[c]
    BY <1>0, <1>2 DEF Pointers, Owning
  <2>2. Pointers(c)'
    BY <1>0, <1>2, <1>3, <1>u, <2>1 DEF Pointers, Owning
  <2>3. CountOf(c)' = CountOf(c)
    BY <1>2, <1>3, Zenon DEF CountOf
  <2>4. Bytes(c)' /\ Fits(c)'
    BY <1>0, <1>2, <1>3, <2>3, Zenon DEF Bytes, Fits, Owning
  <2> QED
    BY <2>2, <2>4, Zenon
<1>7. ASSUME NEW d \in Conns \ {c} PROVE Pointers(d)' /\ Bytes(d)' /\ Fits(d)'
  <2>1. from[d] \in Conns
    BY <1>0, Zenon DEF TypeOK
  <2>2. state[d] = "copying" => from[d] \in Conns \ {c}
    BY <1>2, <2>1, Zenon DEF Locked
  <2> QED
    BY <1>2, <1>3, <1>u, <1>7, <2>1, <2>2, Untouched
<1> QED
  BY <1>4, <1>5, <1>6, <1>7, Zenon DEF PoolInv

(* The rest of Put and of Close: the buffer leaves its conn before anybody  *)
(* can get it.                                                              *)
LEMMA PutKeeps ==
  ASSUME PoolInv, NEW c \in Conns, Put(c)
  PROVE  PoolInv'
<1>0. TypeOK /\ Pointers(c) /\ session[c] \in Conns
  BY Zenon DEF PoolInv, TypeOK
<1>1. /\ state[c] = "putting"
      /\ pool' = pool \cup {reuseBuffer[c]}
      /\ reuseBuffer' = [reuseBuffer EXCEPT ![c] = None]
      /\ state' = [state EXCEPT ![c] = "closed"]
      /\ UNCHANGED <<ReuseBufferSize, size, held, writer, session, sent, from, checked, late,
                     tainted, began>>
  BY DEF Put
<1>2. /\ reuseBuffer'[c] = None /\ state'[c] = "closed"
      /\ \A d \in Conns \ {c} : reuseBuffer'[d] = reuseBuffer[d] /\ state'[d] = state[d]
  BY <1>0, <1>1, Zenon DEF TypeOK
<1>3. reuseBuffer[c] \in Buffers /\ reuseBuffer[c] # None
  BY <1>0, <1>1 DEF Pointers, Owning, TypeOK
<1>4. TypeOK'
  BY <1>0, <1>1, <1>3, Zenon DEF TypeOK, States
<1>5. OneOwner'
  BY <1>1, <1>2, <1>3, Gives, Zenon DEF PoolInv
<1>u. \A e \in Conns : state[e] # "unused" => state'[e] # "unused"
  BY <1>2
<1>6. Pointers(c)' /\ Bytes(c)' /\ Fits(c)'
  <2>1. Pointers(c)'
    BY <1>0, <1>1, <1>2, <1>u DEF Pointers, Owning
  <2> QED
    BY <1>2, <2>1 DEF Bytes, Fits, Owning
<1>7. ASSUME NEW d \in Conns \ {c} PROVE Pointers(d)' /\ Bytes(d)' /\ Fits(d)'
  <2>1. Pointers(d) /\ from[d] \in Conns
    BY <1>0, Zenon DEF PoolInv, TypeOK
  <2>2. state[d] = "copying" => from[d] \in Conns \ {c}
    BY <1>1, <2>1 DEF Pointers
  <2> QED
    BY <1>1, <1>2, <1>u, <1>7, <2>1, <2>2, Untouched
<1> QED
  BY <1>4, <1>5, <1>6, <1>7, Zenon DEF PoolInv

(* The steps that move no buffer to or from a conn.                         *)
LEMMA OthersKeep ==
  ASSUME PoolInv,
         \/ \E c \in Conns : CheckHandshake(c)
         \/ \E b \in Buffers : Drop(b)
         \/ SetReuseBufferSize
         \/ UNCHANGED vars
  PROVE  PoolInv'
<1>1. /\ UNCHANGED <<size, held, connVars, late, tainted, began>> /\ pool' \subseteq pool
      /\ ReuseBufferSize' \in Nat
      /\ \A c \in checked' : c \in checked \/ (c \in Conns /\ state[c] = "open")
  BY PoolAssumption, Zenon DEF PoolInv, TypeOK, CheckHandshake, Drop, SetReuseBufferSize, vars, bufVars
<1>2. TypeOK' /\ OneOwner'
  BY <1>1, Zenon DEF PoolInv, TypeOK, OneOwner, connVars
<1>3. ASSUME NEW c \in Conns PROVE Pointers(c)' /\ Bytes(c)' /\ Fits(c)'
  <2>1. Pointers(c) /\ Bytes(c) /\ Fits(c)
    BY Zenon DEF PoolInv
  <2>2. c \in checked' => writer[c] # None /\ state[c] \in {"open", "frozen", "putting", "closed"}
    <3>1. state[c] = "open" => writer[c] # None
      BY <2>1, Zenon DEF Pointers, Owning
    <3> QED
      BY <1>1, <2>1, <3>1, Zenon DEF Pointers
  <2>3. Pointers(c)'
    BY <1>1, <2>1, <2>2, Zenon DEF Pointers, connVars
  <2> QED
    BY <1>1, <2>1, <2>3, Zenon DEF Bytes, CountOf, Fits, connVars
<1> QED
  BY <1>2, <1>3, Zenon DEF PoolInv

(* Pointers, owners, sizes and bytes agree in every reachable state.        *)
THEOREM PoolInvariance == Spec => []PoolInv
<1>1. PoolInv /\ [Next]_vars => PoolInv'
  BY InitNewConnKeeps, SpawnBufferKeeps, SpawnCountKeeps, WriteKeeps, CloseKeeps, PutKeeps,
     OthersKeep
  DEF Next
<1> QED
  BY <1>1, InitPool, PTL DEF Spec

(* The state is well typed.                                                 *)
THEOREM TypeCorrect == Spec => []TypeOK
<1>1. PoolInv => TypeOK
  BY DEF PoolInv
<1> QED
  BY <1>1, PoolInvariance, PTL

(* Two conns never have the same buffer, nor one that is in the pool.       *)
THEOREM OwnersCorrect == Spec => []OneOwner
<1>1. PoolInv => OneOwner
  BY DEF PoolInv
<1> QED
  BY <1>1, PoolInvariance, PTL

(* A session keeps the capacity it began with, whatever reloads come.       *)
THEOREM CapacitiesKept == Spec => []CapacityKept
<1>1. PoolInv => CapacityKept
  BY Zenon DEF PoolInv, Pointers, Fits, CapacityKept
<1> QED
  BY <1>1, PoolInvariance, PTL

(* What a conn resends is the end of its own session's stream, a Write that *)
(* came late excepted.                                                      *)
THEOREM BytesCorrect == Spec => []OwnBytes
<1>1. PoolInv => OwnBytes
  BY DEF PoolInv, Bytes, CountOf, OwnBytes, Owning
<1> QED
  BY <1>1, PoolInvariance, PTL
=============================================================================

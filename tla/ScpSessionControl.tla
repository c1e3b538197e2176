-------------------------- MODULE ScpSessionControl --------------------------
(***************************************************************************)
(* The control of a session for every bound and buffer size.               *)
(*                                                                         *)
(* Types, for every kind of client and transport.  TypeOK alone is not     *)
(* inductive: the response to a reuse request resends the last bytes of a  *)
(* buffer, and that is a sequence of bytes only because nobody else        *)
(* touches a handler's conn between its check of the counts and the write  *)
(* (HandlerInv).                                                           *)
(*                                                                         *)
(* One handler at a time, for a client that spaces its reuse attempts: the *)
(* conn a handler copies stays the current one, frozen (Control), and the  *)
(* client uses a transport only after its handler has answered             *)
(* (ClientInv).                                                            *)
(***************************************************************************)
EXTENDS ScpSessionInv, TLAPS

(* The time a leaf may take. *)
USE SMTT(30), ZenonT(20)

-----------------------------------------------------------------------------
(* Sequences. *)

(* The empty one is the one of length 0.                                    *)
LEMMA SeqEmpty ==
  ASSUME NEW S
  PROVE  <<>> \in Seq(S) /\ Len(<<>>) = 0 /\ \A s \in Seq(S) : s # <<>> => Len(s) \in Nat \ {0}
  OBVIOUS

(* A sequence is a function on the numbers up to its length.                *)
LEMMA SeqLen ==
  ASSUME NEW S, NEW s \in Seq(S)
  PROVE  Len(s) \in Nat /\ s \in [1 .. Len(s) -> S] /\ DOMAIN s = 1 .. Len(s)
  OBVIOUS

(* The elements from the m-th to the n-th.                                  *)
LEMMA SeqSub ==
  ASSUME NEW S, NEW s, NEW m \in Int, NEW n \in Int, \A i \in m .. n : s[i] \in S
  PROVE  /\ SubSeq(s, m, n) \in Seq(S)
         /\ Len(SubSeq(s, m, n)) = IF m <= n THEN n - m + 1 ELSE 0
         /\ \A i \in 1 .. n - m + 1 : SubSeq(s, m, n)[i] = s[m + i - 1]
  OBVIOUS

(* All elements but the first.                                              *)
LEMMA SeqTail ==
  ASSUME NEW S, NEW s \in Seq(S), s # <<>>
  PROVE  /\ Head(s) \in S /\ Tail(s) \in Seq(S) /\ Len(Tail(s)) = Len(s) - 1
         /\ \A i \in 1 .. Len(Tail(s)) : Tail(s)[i] = s[i + 1]
  OBVIOUS

(* One more element.                                                        *)
LEMMA SeqAppend ==
  ASSUME NEW S, NEW s \in Seq(S), NEW e \in S
  PROVE  /\ Append(s, e) \in Seq(S) /\ Append(s, e) # <<>> /\ Len(Append(s, e)) = Len(s) + 1
         /\ \A i \in 1 .. Len(s) : Append(s, e)[i] = s[i]
         /\ Append(s, e)[Len(s) + 1] = e
  OBVIOUS


(* What ReadLastBytes returns for a count the check has accepted.           *)
LEMMA LastBytes ==
  ASSUME NEW buf \in Seq(Nat), NEW n \in Int, Acceptable(n, buf)
  PROVE  /\ ReadLastBytes(buf, n) \in Seq(Nat)
         /\ Len(ReadLastBytes(buf, n)) = n
         /\ \A i \in 1 .. n : ReadLastBytes(buf, n)[i] = buf[Len(buf) - n + i]
<1>1. n \in 0 .. Len(buf) /\ Len(buf) \in Nat
  BY SeqLen DEF Acceptable
<1>2. Len(buf) - n + 1 \in 1 .. Len(buf) + 1 /\ Len(buf) \in Len(buf) - n .. Len(buf)
  BY <1>1
<1> QED
  BY <1>1, <1>2, SeqSub DEF ReadLastBytes

(* A prefix, as the write of the resent bytes leaves when it fails.         *)
LEMMA Prefix ==
  ASSUME NEW s \in Seq(Nat), NEW k \in 0 .. Len(s)
  PROVE  /\ SubSeq(s, 1, k) \in Seq(Nat)
         /\ Len(SubSeq(s, 1, k)) = k
         /\ \A i \in 1 .. k : SubSeq(s, 1, k)[i] = s[i]
<1>1. k \in Nat /\ Len(s) \in Nat
  BY SeqLen
<1> QED
  BY <1>1, SeqSub

(* The reuse buffer after a write ends the stream one byte later.           *)
LEMMA BufWriteType ==
  ASSUME NEW buf \in Seq(Nat), NEW b \in Nat
  PROVE  BufWrite(buf, b) \in Seq(Nat)
<1>1. Append(buf, b) \in Seq(Nat) /\ Len(Append(buf, b)) = Len(buf) + 1 /\ Len(buf) \in Nat
  BY SeqAppend, SeqLen
<1>2. Append(buf, b) # <<>>
  BY <1>1, SeqEmpty
<1>3. Tail(Append(buf, b)) \in Seq(Nat)
  BY <1>1, <1>2, SeqTail
<1> QED
  BY <1>1, <1>3 DEF BufWrite

(* The typed parts of the state of one conn.                                *)
LEMMA Elements ==
  ASSUME TypeOK, NEW t \in Conns
  PROVE  /\ up[t] \in Seq(Nat) /\ down[t] \in Seq(Nat) /\ reuseBuffer[t] \in Seq(Nat)
         /\ inCount[t] \in Nat /\ outCount[t] \in Nat
         /\ req[t].received \in Nat /\ req[t].handshakes \in Nat
         /\ resp[t].received \in Nat /\ resp[t].code \in Codes
         /\ inCount[t] % Wrap \in Nat
<1>1. up[t] \in Seq(Nat) /\ down[t] \in Seq(Nat) /\ reuseBuffer[t] \in Seq(Nat)
  BY DEF TypeOK
<1>2. inCount[t] \in Nat /\ outCount[t] \in Nat
  BY DEF TypeOK
<1>3. req[t] \in [handshakes : Nat, received : Nat]
  BY DEF TypeOK
<1>4. resp[t] \in [code : Codes, received : Nat]
  BY DEF TypeOK
<1>5. Wrap \in Nat \ {0}
  BY SessionAssumption
<1>6. inCount[t] % Wrap \in Nat
  BY <1>2, <1>5
<1> QED
  BY <1>1, <1>2, <1>3, <1>4, <1>6, Zenon

(* The types, for the steps of the client.                                  *)
LEMMA ClientTypes == TypeOK /\ HandlerInv /\ Client => TypeOK'
<1> SUFFICES ASSUME TypeOK, HandlerInv, Client PROVE TypeOK'
  OBVIOUS
<1> USE SessionAssumption DEF connVars, sessVars, pumpVars, handVars, dataVars, clientVars
<1>1. CASE ClientWrite
  <2>1. cBuf' \in Seq(Nat) /\ cSent' \in Nat
    BY <1>1, BufWriteType DEF ClientWrite, Cached, TypeOK
  <2>2. up' \in [Conns -> Seq(Nat)]
    <3>1. up \in [Conns -> Seq(Nat)] /\ cConn \in Conns /\ cSent + 1 \in Nat
      BY DEF TypeOK
    <3>2. Append(up[cConn], cSent + 1) \in Seq(Nat)
      BY <3>1, SeqAppend
    <3> QED
      BY <1>1, <3>1, <3>2 DEF ClientWrite
  <2> QED
    BY <1>1, <2>1, <2>2, Zenon DEF ClientWrite, TypeOK
<1>2. CASE ClientRead
  <2>1. down[cConn] \in Seq(Nat) /\ down[cConn] # <<>>
    BY <1>2 DEF ClientRead, TypeOK
  <2>2. Head(down[cConn]) \in Nat /\ Tail(down[cConn]) \in Seq(Nat)
    BY <2>1, SeqTail
  <2>3. down' \in [Conns -> Seq(Nat)]
    BY <1>2, <2>2 DEF ClientRead, TypeOK
  <2>4. downGot' \in Seq(Nat)
    BY <1>2, <2>2, SeqAppend DEF ClientRead, TypeOK, Decrypt
  <2> QED
    BY <1>2, <2>3, <2>4, ZenonT(40) DEF ClientRead, TypeOK
<1>3. CASE ClientDrop \/ ClientGiveUp
  BY <1>3, ZenonT(40) DEF ClientDrop, ClientGiveUp, TypeOK
<1>4. CASE ClientReconnect
  <2>1. cLast + 1 \in Conns /\ Len(downGot) % Wrap \in Nat /\ NextIndex \in Nat
    BY <1>4, SeqLen DEF ClientReconnect, TypeOK, Conns, NextIndex
  <2>2. req' \in [Conns -> [handshakes : Nat, received : Nat]]
    BY <1>4, <2>1 DEF ClientReconnect, TypeOK
  <2>3. cOpen' \in [Conns -> BOOLEAN] /\ sOpen' \in [Conns -> BOOLEAN]
    BY <1>4, <2>1, Zenon DEF ClientReconnect, TypeOK
  <2> QED
    BY <1>4, <2>1, <2>2, <2>3, Zenon DEF ClientReconnect, TypeOK
<1>5. CASE ClientReuseHandshake
  <2> DEFINE diff == cSent - resp[cLast].received
             accepted == resp[cLast].code = "OK" /\ Acceptable(diff, cBuf)
             last == ReadLastBytes(cBuf, diff)
  <2>1. diff \in Int /\ (accepted => last \in Seq(Nat) /\ Len(last) = diff)
    <3>1. cSent \in Nat /\ cBuf \in Seq(Nat) /\ cLast \in Conns
      BY DEF TypeOK
    <3>2. diff \in Int
      BY <3>1, Elements
    <3> QED
      BY <3>1, <3>2, LastBytes
  <2>2. resp' \in [Conns -> [code : Codes, received : Nat]]
    BY <1>5 DEF ClientReuseHandshake, TypeOK, NoResp, Codes
  <2>3. up' \in [Conns -> Seq(Nat)]
    <3>1. CASE accepted /\ up' = [up EXCEPT ![cLast] = last]
      BY <2>1, <3>1 DEF TypeOK
    <3>2. ASSUME accepted, NEW k \in 0 .. diff - 1,
                 up' = [up EXCEPT ![cLast] = SubSeq(last, 1, k)]
          PROVE  up' \in [Conns -> Seq(Nat)]
      <4>1. k \in 0 .. Len(last)
        BY <2>1, <3>2
      <4>2. SubSeq(last, 1, k) \in Seq(Nat)
        BY <2>1, <3>2, <4>1, Prefix
      <4> QED
        BY <3>2, <4>2, ZenonT(40) DEF TypeOK
    <3>3. CASE up' = up
      BY <3>3 DEF TypeOK
    <3> QED
      BY <1>5, <3>1, <3>2, <3>3 DEF ClientReuseHandshake
  <2>4. cState' \in {"up", "trying", "down"} /\ cConn' \in Conns /\ cHandshakes' \in Nat
    <3>1. cHandshakes \in Nat /\ cHandshakes + 1 \in Nat /\ cConn \in Conns /\ cLast \in Conns
      BY DEF TypeOK
    <3> QED
      BY <1>5, <3>1 DEF ClientReuseHandshake, NextIndex
  <2>5. cOpen' \in [Conns -> BOOLEAN]
    BY <1>5, Zenon DEF ClientReuseHandshake, TypeOK
  <2> QED
    BY <1>5, <2>2, <2>3, <2>4, <2>5, ZenonT(40) DEF ClientReuseHandshake, TypeOK
<1> QED
  BY <1>1, <1>2, <1>3, <1>4, <1>5 DEF Client

(* The types, for the steps of a handler.                                   *)
LEMMA HandlerTypes ==
  ASSUME NEW t \in Conns, TypeOK, HandlerInv, Handler(t)
  PROVE  TypeOK'
<1> USE SessionAssumption DEF connVars, sessVars, pumpVars, handVars, dataVars, clientVars,
                              netVars, CloseConn, FreezeConn
<1>1. CASE QueryByID(t)
  <2>1. req[t].handshakes \in Nat /\ conn \in Conns
    BY Elements DEF TypeOK
  <2>2. code' \in [Conns -> Codes]
    <3>1. code \in [Conns -> Codes]
      BY DEF TypeOK
    <3> QED
      BY <1>1, <3>1 DEF QueryByID, Codes
  <2>3. oldConn' \in [Conns -> Conns] /\ handshakes' \in [Conns -> Nat]
    <3>1. oldConn \in [Conns -> Conns] /\ handshakes \in [Conns -> Nat]
      BY Zenon DEF TypeOK
    <3> QED
      BY <1>1, <2>1, <3>1 DEF QueryByID
  <2>4. hpc' \in [Conns -> {"none", "request", "spawn", "copy", "respond", "replace", "done"}]
    BY <1>1, Zenon DEF QueryByID, TypeOK
  <2> QED
    BY <1>1, <2>2, <2>3, <2>4, ZenonT(40) DEF QueryByID, TypeOK
<1>2. CASE RequestLost(t) \/ RespondFails(t)
  <2>1. CASE RequestLost(t)
    BY <2>1, Zenon DEF RequestLost, TypeOK
  <2>2. CASE RespondFails(t)
    BY <2>2, Zenon DEF RespondFails, TypeOK
  <2> QED
    BY <1>2, <2>1, <2>2
<1>3. CASE SpawnFreeze(t)
  <2>1. code' \in [Conns -> Codes] /\ spawned' \in [Conns -> BOOLEAN]
    <3>1. code \in [Conns -> Codes] /\ spawned \in [Conns -> BOOLEAN]
      BY Zenon DEF TypeOK
    <3> QED
      BY <1>3, <3>1, Zenon DEF SpawnFreeze, Codes
  <2>2. reuseBuffer' \in [Conns -> Seq(Nat)]
    <3>1. reuseBuffer \in [Conns -> Seq(Nat)] /\ oldConn[t] \in Conns
      BY Zenon DEF TypeOK
    <3> QED
      BY <1>3, <3>1, Zenon DEF SpawnFreeze
  <2>3. hpc' \in [Conns -> {"none", "request", "spawn", "copy", "respond", "replace", "done"}]
    BY <1>3, Zenon DEF SpawnFreeze, TypeOK
  <2> QED
    BY <1>3, <2>1, <2>2, <2>3, Zenon DEF SpawnFreeze, TypeOK
<1>4. CASE SpawnCopy(t)
  <2>1. code' \in [Conns -> Codes]
    BY <1>4 DEF SpawnCopy, TypeOK, Codes
  <2> QED
    BY <1>4, <2>1, ZenonT(40) DEF SpawnCopy, TypeOK
<1>5. CASE Respond(t)
  <2>1. code[t] = "OK" => Resent(t) \in Seq(Nat)
    <3>1. outCount[t] - req[t].received \in Int /\ reuseBuffer[t] \in Seq(Nat)
      <4>1. outCount[t] \in Nat /\ req[t].received \in Nat /\ reuseBuffer[t] \in Seq(Nat)
        BY Elements, Zenon
      <4> QED
        BY <4>1
    <3> QED
      BY <1>5, <3>1, LastBytes DEF Respond, HandlerInv, Resent
  <2>2. resp' \in [Conns -> [code : Codes, received : Nat]]
    <3>1. inCount[t] % Wrap \in Nat
      BY Elements, Zenon
    <3> QED
      BY <1>5, <3>1, Zenon DEF Respond, TypeOK
  <2>3. down' \in [Conns -> Seq(Nat)]
    <3>1. CASE code[t] = "OK" /\ down' = [down EXCEPT ![t] = Resent(t)]
      BY <2>1, <3>1 DEF TypeOK
    <3>2. ASSUME code[t] = "OK", NEW k \in 0 .. Len(Resent(t)) - 1,
                 down' = [down EXCEPT ![t] = SubSeq(Resent(t), 1, k)]
          PROVE  down' \in [Conns -> Seq(Nat)]
      <4>1. k \in 0 .. Len(Resent(t))
        BY <2>1, <3>2, SeqLen
      <4>2. SubSeq(Resent(t), 1, k) \in Seq(Nat)
        BY <2>1, <3>2, <4>1, Prefix
      <4> QED
        BY <3>2, <4>2, Zenon DEF TypeOK
    <3>3. CASE down' = down
      BY <3>3 DEF TypeOK
    <3> QED
      BY <1>5, <3>1, <3>2, <3>3, Zenon DEF Respond
  <2>4. hpc' \in [Conns -> {"none", "request", "spawn", "copy", "respond", "replace", "done"}]
    BY <1>5, Zenon DEF Respond, TypeOK
  <2>5. /\ sOpen' \in [Conns -> BOOLEAN] /\ frozen' \in [Conns -> BOOLEAN]
        /\ closed' \in [Conns -> BOOLEAN]
    BY <1>5, ZenonT(40) DEF Respond, TypeOK
  <2> QED
    BY <1>5, <2>2, <2>3, <2>4, <2>5, ZenonT(40) DEF Respond, TypeOK
<1>6. CASE ReplaceConn(t)
  <2>1. /\ sOpen' \in [Conns -> BOOLEAN] /\ frozen' \in [Conns -> BOOLEAN]
        /\ closed' \in [Conns -> BOOLEAN]
    BY <1>6, Zenon DEF ReplaceConn, TypeOK
  <2>2. /\ conn' \in Conns /\ connErr' \in {"nil", "failed", "closed"}
        /\ pair' \in {"held", "removed"}
    BY <1>6, Zenon DEF ReplaceConn, TypeOK
  <2> QED
    BY <1>6, <2>1, <2>2, Zenon DEF ReplaceConn, TypeOK
<1> QED
  BY <1>1, <1>2, <1>3, <1>4, <1>5, <1>6 DEF Handler

(* The types, for the pumps, the network and the end of the session.        *)
LEMMA ServerTypes ==
  ASSUME TypeOK, \/ \E t \in Conns : ServerDrop(t)
                 \/ \E p \in Pumps : Pump(p)
                 \/ Read \/ Write \/ CloseSession \/ RemoveConnPair
  PROVE  TypeOK'
<1> USE SessionAssumption DEF connVars, sessVars, pumpVars, handVars, dataVars, clientVars,
                              netVars, CloseConn, FreezeConn
<1>1. ASSUME NEW t \in Conns, ServerDrop(t) PROVE TypeOK'
  BY <1>1, Zenon DEF ServerDrop, TypeOK
<1>2. ASSUME NEW p \in Pumps, Acquire(p) PROVE TypeOK'
  <2>1. pc' \in [Pumps -> {"acquire", "check", "io", "freeze", "report", "done"}]
    BY <1>2, Zenon DEF Acquire, TypeOK
  <2>2. held' \in [Pumps -> Conns]
    BY <1>2, Zenon DEF Acquire, TypeOK
  <2> QED
    BY <1>2, <2>1, <2>2, Zenon DEF Acquire, TypeOK
<1>3. ASSUME NEW p \in Pumps, CheckHandshake(p) PROVE TypeOK'
  BY <1>3, Zenon DEF CheckHandshake, TypeOK
<1>4. ASSUME NEW p \in Pumps, Freeze(p) PROVE TypeOK'
  BY <1>4, Zenon DEF Freeze, TypeOK
<1>5. ASSUME NEW p \in Pumps, SetConnError(p) PROVE TypeOK'
  BY <1>5, Zenon DEF SetConnError, TypeOK
<1>6. CASE Read
  <2> DEFINE c == held["c2s"]
  <2>1. c \in Conns /\ upGot \in Seq(Nat) /\ up \in [Conns -> Seq(Nat)]
        /\ inCount \in [Conns -> Nat]
    BY ZenonT(40) DEF TypeOK, Pumps
  <2>2. up' \in [Conns -> Seq(Nat)] /\ inCount' \in [Conns -> Nat] /\ upGot' \in Seq(Nat)
    <3>1. CASE /\ up[c] # <<>> /\ inCount' = [inCount EXCEPT ![c] = @ + 1]
               /\ upGot' = Append(upGot, Decrypt(Head(up[c]), Len(upGot) + 1))
               /\ up' = [up EXCEPT ![c] = Tail(@)]
      <4>1. Head(up[c]) \in Nat /\ Tail(up[c]) \in Seq(Nat)
        BY <2>1, <3>1, SeqTail, Zenon
      <4>2. Decrypt(Head(up[c]), Len(upGot) + 1) \in Nat
        BY <4>1 DEF Decrypt
      <4>3. upGot' \in Seq(Nat)
        BY <2>1, <3>1, <4>2, SeqAppend
      <4> QED
        BY <2>1, <3>1, <4>1, <4>3, SMTT(30)
    <3>2. CASE UNCHANGED <<inCount, upGot, up>>
      BY <2>1, <3>2
    <3> QED
      BY <1>6, <3>1, <3>2, Zenon DEF Read
  <2>3. pc' \in [Pumps -> {"acquire", "check", "io", "freeze", "report", "done"}]
    BY <1>6, Zenon DEF Read, TypeOK
  <2> QED
    BY <1>6, <2>2, <2>3, Zenon DEF Read, TypeOK
<1>7. CASE Write
  <2> DEFINE c == held["s2c"]
  <2>1. /\ c \in Conns /\ down \in [Conns -> Seq(Nat)] /\ wrote + 1 \in Nat
        /\ outCount \in [Conns -> Nat] /\ reuseBuffer \in [Conns -> Seq(Nat)]
    <3>1. wrote \in Nat /\ held \in [Pumps -> Conns]
      BY DEF TypeOK
    <3>2. c \in Conns
      BY <3>1 DEF Pumps
    <3>3. /\ down \in [Conns -> Seq(Nat)] /\ outCount \in [Conns -> Nat]
          /\ reuseBuffer \in [Conns -> Seq(Nat)]
      BY Zenon DEF TypeOK
    <3> QED
      BY <3>1, <3>2, <3>3
  <2>2. Append(down[c], wrote + 1) \in Seq(Nat) /\ BufWrite(reuseBuffer[c], wrote + 1) \in Seq(Nat)
    BY <2>1, SeqAppend, BufWriteType, ZenonT(40)
  <2>3. down' \in [Conns -> Seq(Nat)] /\ reuseBuffer' \in [Conns -> Seq(Nat)]
    BY <1>7, <2>1, <2>2, Zenon DEF Write
  <2>4. outCount' \in [Conns -> Nat] /\ wrote' \in Nat
    <3>1. wrote' = wrote + 1 /\ outCount' = [outCount EXCEPT ![c] = @ + 1]
      BY <1>7, Zenon DEF Write
    <3>2. outCount[c] + 1 \in Nat
      BY <2>1
    <3> QED
      BY <2>1, <3>1, <3>2, Zenon
  <2>6. late' \subseteq Nat
    BY <1>7, <2>1, Zenon DEF Write, TypeOK
  <2>5. pc' \in [Pumps -> {"acquire", "check", "io", "freeze", "report", "done"}]
    BY <1>7, Zenon DEF Write, TypeOK
  <2> QED
    BY <1>7, <2>3, <2>4, <2>5, <2>6, ZenonT(40) DEF Write, TypeOK
<1>8. CASE CloseSession
  BY <1>8, Zenon DEF CloseSession, TypeOK
<1>9. CASE RemoveConnPair
  BY <1>9, Zenon DEF RemoveConnPair, TypeOK
<1> QED
  BY <1>1, <1>2, <1>3, <1>4, <1>5, <1>6, <1>7, <1>8, <1>9 DEF Pump

(* What handlers rely on survives every step of anyone.                     *)
LEMMA HandlerInvStep ==
  ASSUME TypeOK, HandlerInv, Next
  PROVE  HandlerInv'
<1> USE DEF connVars, sessVars, pumpVars, handVars, dataVars, clientVars, netVars,
            CloseConn, FreezeConn
<1>0. cLast \in Nat /\ conn \in Conns /\ held \in [Pumps -> Conns] /\ \A t \in Conns : t \in Nat
  BY SessionAssumption DEF TypeOK, Conns
<1>a. 0 \in Conns /\ hpc[0] = "none" /\ conn <= cLast /\ ~Active(conn)
  BY SessionAssumption, SMTT(30) DEF HandlerInv, Conns
<1>b. \A t \in Conns : t > cLast => hpc[t] = "none"
  BY Zenon DEF HandlerInv
<1>c. \A p \in Pumps : held[p] <= cLast /\ ~Active(held[p])
  BY DEF HandlerInv
<1>d. \A t \in Conns : hpc[t] = "respond" /\ code[t] = "OK" =>
        Acceptable(outCount[t] - req[t].received, reuseBuffer[t])
  BY Zenon DEF HandlerInv
<1>1. CASE ClientReconnect
  <2>1. cLast' = cLast + 1 /\ UNCHANGED <<conn, held, code, outCount, reuseBuffer>>
    BY <1>1, SMTT(30) DEF ClientReconnect
  <2>2. \A t \in Conns : t # cLast + 1 => hpc'[t] = hpc[t] /\ req'[t] = req[t]
    BY <1>1, ZenonT(40) DEF ClientReconnect, TypeOK
  <2>3. cLast + 1 \in Conns => hpc'[cLast + 1] = "request"
    BY <1>1, Zenon DEF ClientReconnect, TypeOK
  <2>4. hpc'[0] = "none"
    BY <1>0, <1>a, <2>2
  <2>5. conn' <= cLast' /\ hpc'[conn'] = hpc[conn]
    <3>1. conn \in Nat /\ conn # cLast + 1 /\ conn <= cLast + 1
      BY <1>0, <1>a
    <3>2. hpc'[conn] = hpc[conn]
      BY <1>0, <2>2, <3>1
    <3> QED
      BY <2>1, <3>1, <3>2
  <2>6. \A p \in Pumps : held'[p] <= cLast' /\ hpc'[held'[p]] = hpc[held[p]]
    <3> SUFFICES ASSUME NEW p \in Pumps
                 PROVE  held[p] <= cLast + 1 /\ hpc'[held[p]] = hpc[held[p]]
      BY <2>1
    <3>1. held[p] \in Conns /\ held[p] \in Nat /\ held[p] <= cLast
      BY <1>0, <1>c
    <3>2. held[p] # cLast + 1 /\ held[p] <= cLast + 1
      BY <1>0, <3>1, SMTT(30)
    <3> QED
      BY <2>2, <3>1, <3>2
  <2>7. \A t \in Conns : t > cLast' => hpc'[t] = "none"
    <3> SUFFICES ASSUME NEW t \in Conns, t > cLast + 1 PROVE hpc'[t] = "none"
      BY <2>1
    <3>1. t \in Nat /\ t > cLast /\ t # cLast + 1
      BY <1>0
    <3> QED
      BY <1>b, <2>2, <3>1
  <2>8. \A t \in Conns : hpc'[t] = "respond" => hpc[t] = "respond" /\ req'[t] = req[t]
    BY <2>2, <2>3
  <2>9. \A t \in Conns : hpc'[t] = "respond" /\ code'[t] = "OK" =>
          Acceptable(outCount'[t] - req'[t].received, reuseBuffer'[t])
    BY <1>d, <2>1, <2>8
  <2>10. ~Active(conn)' /\ \A p \in Pumps : ~Active(held[p])'
    BY <1>a, <1>c, <2>5, <2>6, SMTT(30) DEF Active
  <2> QED
    BY <2>4, <2>5, <2>6, <2>7, <2>9, <2>10, Zenon DEF HandlerInv, Acceptable
<1>2. CASE Client /\ ~ClientReconnect
  <2>1. UNCHANGED <<cLast, hpc, conn, held, code, outCount, reuseBuffer, req>>
    BY <1>2, Zenon DEF Client, ClientWrite, ClientRead, ClientDrop, ClientReuseHandshake, ClientGiveUp
  <2> QED
    BY <2>1 DEF HandlerInv, Active, Acceptable
<1>3. ASSUME NEW t \in Conns, Handler(t) PROVE HandlerInv'
  <2>1. Active(t) /\ UNCHANGED <<cLast, held, req>>
    BY <1>3, Zenon DEF Handler, QueryByID, RequestLost, SpawnFreeze, SpawnCopy, Respond,
                RespondFails, ReplaceConn, Active
  <2>2. /\ hpc' = [hpc EXCEPT ![t] = hpc'[t]] /\ hpc'[t] # "none"
        /\ (conn' # conn => conn' = t /\ hpc'[t] = "done")
    <3>1. hpc \in [Conns -> {"none", "request", "spawn", "copy", "respond", "replace", "done"}]
      BY DEF TypeOK
    <3> QED
      BY <1>3, <3>1, Zenon DEF Handler, QueryByID, RequestLost, SpawnFreeze, SpawnCopy, Respond,
                RespondFails, ReplaceConn
  <2>3. \A u \in Conns : u # t => hpc'[u] = hpc[u]
    BY <2>2 DEF TypeOK
  <2>4. \A u \in Conns : u # t => code'[u] = code[u] /\ outCount'[u] = outCount[u]
                                  /\ reuseBuffer'[u] = reuseBuffer[u]
    <3>1. /\ code \in [Conns -> Codes] /\ outCount \in [Conns -> Nat]
          /\ reuseBuffer \in [Conns -> Seq(Nat)]
      BY Zenon DEF TypeOK
    <3>2. CASE QueryByID(t) \/ SpawnFreeze(t)
      BY <3>1, <3>2, Zenon DEF QueryByID, SpawnFreeze
    <3>3. CASE SpawnCopy(t)
      BY <3>1, <3>3 DEF SpawnCopy
    <3>4. CASE RequestLost(t) \/ Respond(t) \/ RespondFails(t) \/ ReplaceConn(t)
      BY <3>4, Zenon DEF RequestLost, Respond, RespondFails, ReplaceConn
    <3> QED
      BY <1>3, <3>2, <3>3, <3>4, Zenon DEF Handler
  <2>5. t <= cLast /\ t # conn /\ t # 0 /\ \A p \in Pumps : t # held[p]
    <3>1. hpc[t] # "none"
      BY <2>1 DEF Active
    <3>2. t <= cLast
      BY <1>0, <1>b, <3>1
    <3>3. t # conn /\ t # 0 /\ \A p \in Pumps : t # held[p]
      BY <1>a, <1>c, <2>1, <3>1
    <3> QED
      BY <3>2, <3>3
  <2>6. hpc'[0] = "none" /\ conn' <= cLast' /\ ~Active(conn)'
    <3>1. hpc'[0] = "none"
      BY <1>a, <2>3, <2>5
    <3>2. conn' <= cLast'
      BY <1>a, <2>1, <2>2, <2>5
    <3>3. conn' = conn => ~Active(conn)'
      <4>1. hpc'[conn] = hpc[conn]
        BY <1>0, <2>3, <2>5
      <4> QED
        BY <1>a, <4>1 DEF Active
    <3>4. conn' # conn => ~Active(conn)'
      BY <2>2 DEF Active
    <3> QED
      BY <3>1, <3>2, <3>3, <3>4
  <2>7. \A u \in Conns : u > cLast' => hpc'[u] = "none"
    <3> SUFFICES ASSUME NEW u \in Conns, u > cLast PROVE hpc'[u] = "none"
      BY <2>1
    <3>1. u # t
      BY <1>0, <2>5
    <3> QED
      BY <1>b, <2>3, <3>1
  <2>8. \A p \in Pumps : held'[p] <= cLast' /\ ~Active(held[p])'
    <3> SUFFICES ASSUME NEW p \in Pumps PROVE held'[p] <= cLast' /\ ~Active(held[p])'
      OBVIOUS
    <3>1. held' = held /\ cLast' = cLast /\ held[p] \in Conns
      BY <1>0, <2>1
    <3>2. hpc'[held[p]] = hpc[held[p]]
      BY <2>3, <2>5, <3>1
    <3> QED
      BY <1>c, <3>1, <3>2 DEF Active
  <2>9. hpc'[t] = "respond" /\ code'[t] = "OK" =>
          Acceptable(outCount'[t] - req'[t].received, reuseBuffer'[t])
    <3>1. hpc'[t] = "respond" => QueryByID(t) \/ SpawnFreeze(t) \/ SpawnCopy(t)
      <4>0. t \in DOMAIN hpc
        BY Zenon DEF TypeOK
      <4>1. RequestLost(t) \/ RespondFails(t) \/ ReplaceConn(t) => hpc'[t] = "done"
        BY <4>0 DEF RequestLost, RespondFails, ReplaceConn
      <4>2. Respond(t) => hpc'[t] \in {"replace", "done"}
        BY <4>0 DEF Respond
      <4> QED
        BY <1>3, <4>1, <4>2 DEF Handler
    <3>2. CASE QueryByID(t) \/ SpawnFreeze(t)
      <4>1. hpc'[t] = "respond" => code'[t] # "OK"
        <5>0. /\ code \in [Conns -> Codes]
              /\ hpc \in [Conns -> {"none", "request", "spawn", "copy", "respond", "replace", "done"}]
          BY Zenon DEF TypeOK
        <5>1. CASE QueryByID(t)
          BY <5>0, <5>1, ZenonT(40) DEF QueryByID
        <5>2. CASE SpawnFreeze(t)
          BY <5>0, <5>2, Zenon DEF SpawnFreeze
        <5> QED
          BY <3>2, <5>1, <5>2
      <4> QED
        BY <4>1
    <3>3. CASE SpawnCopy(t)
      <4>1. outCount'[t] = outCount[oldConn[t]] /\ reuseBuffer' = reuseBuffer
        BY <3>3, SMTT(30) DEF SpawnCopy, TypeOK
      <4>2. code'[t] = "OK" => Acceptable(outCount[oldConn[t]] - req[t].received, reuseBuffer[t])
        BY <3>3 DEF SpawnCopy, TypeOK
      <4> QED
        BY <2>1, <4>1, <4>2, Zenon
    <3> QED
      BY <3>1, <3>2, <3>3
  <2>10. \A u \in Conns : u # t /\ hpc'[u] = "respond" /\ code'[u] = "OK" =>
          Acceptable(outCount'[u] - req'[u].received, reuseBuffer'[u])
    BY <1>d, <2>1, <2>3, <2>4, Zenon
  <2> QED
    BY <2>6, <2>7, <2>8, <2>9, <2>10, Zenon DEF HandlerInv, Acceptable
<1>4. ASSUME NEW t \in Conns, ServerDrop(t) PROVE HandlerInv'
  BY <1>4, Zenon DEF ServerDrop, HandlerInv, Active, Acceptable
<1>5. ASSUME NEW p \in Pumps, Pump(p) PROVE HandlerInv'
  <2>1. UNCHANGED <<cLast, hpc, conn, code, outCount, reuseBuffer, req>>
    BY <1>5, Zenon DEF Pump, Acquire, CheckHandshake, Freeze, SetConnError
  <2>2. \A q \in Pumps : held'[q] \in {held[q], conn}
    BY <1>0, <1>5, ZenonT(40) DEF Pump, Acquire, CheckHandshake, Freeze, SetConnError
  <2>3. \A q \in Pumps : held'[q] <= cLast' /\ ~Active(held[q])'
    BY <1>a, <1>c, <2>1, <2>2 DEF Active
  <2> QED
    BY <2>1, <2>3, Zenon DEF HandlerInv, Active, Acceptable
<1>6. CASE Read \/ CloseSession \/ RemoveConnPair
  <2>1. UNCHANGED <<cLast, hpc, conn, held, code, outCount, reuseBuffer, req>>
    BY <1>6, ZenonT(40) DEF Read, CloseSession, RemoveConnPair
  <2> QED
    BY <2>1 DEF HandlerInv, Active, Acceptable
<1>7. CASE Write
  <2>1. UNCHANGED <<cLast, hpc, conn, held, code, req>>
    BY <1>7, ZenonT(40) DEF Write
  <2>2. \A t \in Conns : t # held["s2c"] => outCount'[t] = outCount[t]
                                           /\ reuseBuffer'[t] = reuseBuffer[t]
    BY <1>7, Zenon DEF Write, TypeOK
  <2>3. \A t \in Conns : hpc[t] = "respond" => t # held["s2c"]
    BY <1>c DEF Active, Pumps
  <2>4. \A t \in Conns : hpc'[t] = "respond" /\ code'[t] = "OK" =>
          Acceptable(outCount'[t] - req'[t].received, reuseBuffer'[t])
    BY <1>d, <2>1, <2>2, <2>3, Zenon
  <2> QED
    BY <2>1, <2>4, Zenon DEF HandlerInv, Active, Acceptable
<1> QED
  BY <1>1, <1>2, <1>3, <1>4, <1>5, <1>6, <1>7, SMTT(30) DEF Next

(* Every reachable state is well typed, whatever breaks and however the     *)
(* client reconnects; with it, what a handler needs when it resends.        *)
THEOREM TypeCorrect == Spec => [](TypeOK /\ HandlerInv)
<1>1. Init => TypeOK
  <2> SUFFICES ASSUME Init PROVE TypeOK
    OBVIOUS
  <2>1. 0 \in Conns /\ <<>> \in Seq(Nat)
    BY SessionAssumption DEF Conns
  <2>2. /\ req \in [Conns -> [handshakes : Nat, received : Nat]]
        /\ resp \in [Conns -> [code : Codes, received : Nat]]
    BY DEF Init, NoReq, NoResp, Codes
  <2>3. cOpen \in [Conns -> BOOLEAN] /\ sOpen \in [Conns -> BOOLEAN]
    BY DEF Init
  <2>4. code \in [Conns -> Codes]
    BY DEF Init, Codes
  <2> QED
    BY <2>1, <2>2, <2>3, <2>4 DEF Init, TypeOK
<1>2. Init => HandlerInv
  BY SessionAssumption DEF Init, HandlerInv, Active, Conns
<1>3. TypeOK /\ HandlerInv /\ [Next]_vars => (TypeOK /\ HandlerInv)'
  <2>1. CASE UNCHANGED vars
    BY <2>1, Zenon DEF vars, netVars, clientVars, connVars, sessVars, pumpVars, handVars, dataVars,
                TypeOK, HandlerInv, Active, Acceptable
  <2>2. ASSUME TypeOK, HandlerInv, Next PROVE (TypeOK /\ HandlerInv)'
    <3>1. TypeOK'
      BY <2>2, ClientTypes, HandlerTypes, ServerTypes DEF Next
    <3> QED
      BY <2>2, <3>1, HandlerInvStep
  <2> QED
    BY <2>1, <2>2
<1> QED
  BY <1>1, <1>2, <1>3, PTL DEF Spec

-----------------------------------------------------------------------------
(* A receive number the check accepts has not been reduced modulo Wrap.     *)
LEMMA NoWrap ==
  ASSUME NEW n \in Nat, NEW m \in Nat, n <= m, NEW buf \in Seq(Nat), Len(buf) <= Cap,
         Acceptable(m - (n % Wrap), buf)
  PROVE  n % Wrap = n
<1>1. Wrap \in Nat /\ Wrap > 0 /\ Cap < Wrap /\ Cap \in Nat
  BY SessionAssumption
<1>2. n % Wrap \in Nat /\ Len(buf) \in Nat
  BY <1>1, SeqLen
<1>3. m - (n % Wrap) < Wrap
  BY <1>1, <1>2 DEF Acceptable
<1> QED
  BY <1>1, <1>3, SMTT(30)

(* The write of one more byte to the reuse buffer.                          *)
LEMMA EndsWrite ==
  ASSUME NEW buf \in Seq(Nat), NEW n \in Nat, Ends(buf, n)
  PROVE  Ends(BufWrite(buf, n + 1), n + 1)
<1> DEFINE all == Append(buf, n + 1)
<1>1. /\ all \in Seq(Nat) /\ Len(all) = Len(buf) + 1 /\ Len(buf) \in Nat
      /\ \A i \in 1 .. Len(buf) : all[i] = buf[i]
      /\ all[Len(buf) + 1] = n + 1
  BY SeqAppend, SeqLen
<1>2. \A i \in 1 .. Len(all) : all[i] = n + 1 - Len(all) + i
  BY <1>1, SeqLen DEF Ends
<1>3. Cap \in Nat \ {0}
  BY SessionAssumption
<1>4. CASE Len(all) > Cap
  <2>1. all # <<>>
    BY <1>1, SeqEmpty
  <2>2. /\ Tail(all) \in Seq(Nat) /\ Len(Tail(all)) = Len(all) - 1
        /\ \A i \in 1 .. Len(Tail(all)) : Tail(all)[i] = all[i + 1]
    BY <1>1, <2>1, SeqTail, Zenon
  <2>3. BufWrite(buf, n + 1) = Tail(all) /\ DOMAIN Tail(all) = 1 .. Len(buf)
    BY <1>1, <1>4, <2>2, SeqLen DEF BufWrite
  <2>4. \A i \in 1 .. Len(buf) : Tail(all)[i] = n + 1 - Len(buf) + i
    <3> TAKE i \in 1 .. Len(buf)
    <3>1. i + 1 \in 1 .. Len(all) /\ i \in 1 .. Len(Tail(all))
      BY <1>1, <2>2
    <3>2. Tail(all)[i] = n + 1 - Len(all) + (i + 1)
      BY <1>2, <2>2, <3>1, Zenon
    <3> QED
      BY <1>1, <3>2
  <2>5. Len(Tail(all)) = Len(buf) /\ Len(buf) <= Cap /\ Len(buf) <= n + 1
    BY <1>1, <2>2 DEF Ends
  <2> HIDE DEF all
  <2>6. \A i \in DOMAIN Tail(all) : Tail(all)[i] = n + 1 - Len(Tail(all)) + i
    BY <2>3, <2>4, <2>5, Zenon
  <2>7. Ends(Tail(all), n + 1)
    <3> DEFINE r == Tail(all)
    <3>1. Len(r) <= Cap /\ Len(r) <= n + 1 /\ \A i \in DOMAIN r : r[i] = n + 1 - Len(r) + i
      BY <2>5, <2>6, Zenon
    <3> HIDE DEF r
    <3>2. Ends(r, n + 1)
      BY <3>1 DEF Ends
    <3> QED
      BY <3>2 DEF r
  <2> QED
    BY <2>3, <2>7, Zenon
<1>5. CASE ~(Len(all) > Cap)
  BY <1>1, <1>2, <1>3, <1>5, SeqLen DEF BufWrite, Ends
<1> QED
  BY <1>4, <1>5

(* A byte written to a transport that holds the stream up to byte m.        *)
LEMMA FollowsAppend ==
  ASSUME NEW q \in Seq(Nat), NEW n \in Nat, NEW m \in Nat, Follows(q, n, m),
         n + Len(q) = m
  PROVE  /\ Follows(Append(q, m + 1), n, m + 1)
         /\ n + Len(Append(q, m + 1)) = m + 1
<1>1. /\ Append(q, m + 1) \in Seq(Nat) /\ Len(Append(q, m + 1)) = Len(q) + 1
      /\ \A i \in 1 .. Len(q) : Append(q, m + 1)[i] = q[i]
      /\ Append(q, m + 1)[Len(q) + 1] = m + 1 /\ Len(q) \in Nat
  BY SeqAppend, SeqLen
<1>2. \A i \in 1 .. Len(q) + 1 : Append(q, m + 1)[i] = n + i
  <2>1. \A i \in 1 .. Len(q) : q[i] = n + i
    BY SeqLen DEF Follows
  <2> SUFFICES ASSUME NEW i \in 1 .. Len(q) + 1 PROVE Append(q, m + 1)[i] = n + i
    OBVIOUS
  <2>2. CASE i \in 1 .. Len(q)
    BY <1>1, <2>1, <2>2
  <2>3. CASE i = Len(q) + 1
    BY <1>1, <2>3
  <2> QED
    BY <1>1, <2>2, <2>3
<1> QED
  BY <1>1, <1>2, SeqLen DEF Follows

(* A byte read from a transport is the next one of the stream.              *)
LEMMA FollowsTail ==
  ASSUME NEW q \in Seq(Nat), NEW n \in Nat, NEW m \in Nat, Follows(q, n, m), q # <<>>
  PROVE  /\ Head(q) = n + 1 /\ n + 1 <= m
         /\ Follows(Tail(q), n + 1, m)
         /\ n + 1 + Len(Tail(q)) = n + Len(q)
<1>1. /\ Tail(q) \in Seq(Nat) /\ Len(Tail(q)) = Len(q) - 1
      /\ \A i \in 1 .. Len(Tail(q)) : Tail(q)[i] = q[i + 1]
  BY SeqTail
<1>2. Len(q) \in Nat /\ Len(q) >= 1 /\ DOMAIN q = 1 .. Len(q) /\ Head(q) = q[1]
  BY SeqEmpty, SeqLen
<1>3. Head(q) = n + 1
  BY <1>2 DEF Follows
<1>4. \A i \in 1 .. Len(Tail(q)) : Tail(q)[i] = n + 1 + i
  <2> TAKE i \in 1 .. Len(Tail(q))
  <2>1. i + 1 \in DOMAIN q /\ i \in Nat
    BY <1>1, <1>2
  <2> QED
    BY <1>1, <2>1, SMTT(30) DEF Follows
<1>5. DOMAIN Tail(q) = 1 .. Len(Tail(q)) /\ n + Len(q) <= m
  BY <1>1, SeqLen DEF Follows
<1>6. n + 1 + Len(Tail(q)) = n + Len(q) /\ n + 1 <= m
  BY <1>1, <1>2, <1>5
<1>7. Follows(Tail(q), n + 1, m)
  BY <1>4, <1>5, <1>6, Zenon DEF Follows
<1> QED
  BY <1>3, <1>6, <1>7

(* The bytes a reuse handshake resends, all of them or the first ones.      *)
LEMMA FollowsLast ==
  ASSUME NEW buf \in Seq(Nat), NEW n \in Nat, NEW m \in Nat, Ends(buf, m),
         Acceptable(m - n, buf)
  PROVE  /\ Follows(ReadLastBytes(buf, m - n), n, m)
         /\ Len(ReadLastBytes(buf, m - n)) = m - n
         /\ \A k \in 0 .. m - n : Follows(SubSeq(ReadLastBytes(buf, m - n), 1, k), n, m)
<1> DEFINE last == ReadLastBytes(buf, m - n)
<1>1. /\ last \in Seq(Nat) /\ Len(last) = m - n
      /\ \A i \in 1 .. m - n : last[i] = buf[Len(buf) - (m - n) + i]
  <2>1. m - n \in Int
    OBVIOUS
  <2> QED
    BY <2>1, LastBytes, Zenon
<1>2. 0 <= m - n /\ m - n <= Len(buf) /\ Len(buf) \in Nat /\ DOMAIN buf = 1 .. Len(buf)
  BY SeqLen DEF Acceptable
<1>3. \A i \in 1 .. m - n : last[i] = n + i
  <2> TAKE i \in 1 .. m - n
  <2>1. Len(buf) - (m - n) + i \in 1 .. Len(buf)
    BY <1>2
  <2>2. last[i] = buf[Len(buf) - (m - n) + i]
    BY <1>1
  <2>3. buf[Len(buf) - (m - n) + i] = m - Len(buf) + (Len(buf) - (m - n) + i)
    BY <1>2, <2>1, Zenon DEF Ends
  <2> HIDE DEF last
  <2> QED
    BY <1>2, <2>2, <2>3
<1>4. Follows(last, n, m)
  BY <1>1, <1>3, SeqLen DEF Follows
<1>5. ASSUME NEW k \in 0 .. m - n PROVE Follows(SubSeq(last, 1, k), n, m)
  <2>1. k \in 0 .. Len(last)
    BY <1>1
  <2>2. /\ SubSeq(last, 1, k) \in Seq(Nat) /\ Len(SubSeq(last, 1, k)) = k
        /\ \A i \in 1 .. k : SubSeq(last, 1, k)[i] = last[i]
    BY <1>1, <2>1, Prefix
  <2> HIDE DEF last
  <2> QED
    BY <1>2, <1>3, <2>2, SeqLen, SMTT(30) DEF Follows
<1> QED
  BY <1>1, <1>4, <1>5

(* The next byte of the stream, decrypted at its own position.              *)
LEMMA IntactAppend ==
  ASSUME NEW s \in Seq(Nat), \A i \in DOMAIN s : s[i] = i
  PROVE  LET r == Append(s, Decrypt(Len(s) + 1, Len(s) + 1))
         IN  Len(r) = Len(s) + 1 /\ \A i \in DOMAIN r : r[i] = i
<1>1. Len(s) \in Nat /\ Decrypt(Len(s) + 1, Len(s) + 1) = Len(s) + 1
  BY SeqLen DEF Decrypt
<1>2. /\ Append(s, Len(s) + 1) \in Seq(Nat) /\ Len(Append(s, Len(s) + 1)) = Len(s) + 1
      /\ \A i \in 1 .. Len(s) : Append(s, Len(s) + 1)[i] = s[i]
      /\ Append(s, Len(s) + 1)[Len(s) + 1] = Len(s) + 1
  BY <1>1, SeqAppend
<1> QED
  BY <1>1, <1>2, SeqLen

-----------------------------------------------------------------------------
(* A handler step is a step of the one handler there is, and touches no     *)
(* other handler and no conn in use.                                        *)
LEMMA HandlerStep ==
  ASSUME TypeOK, HandlerInv, Control, NEW t \in Conns, Handler(t)
  PROVE  /\ Active(t) /\ t = cLast /\ t # conn /\ t # 0 /\ \A p \in Pumps : t # held[p]
         /\ \A u \in Conns : u # t => /\ ~Active(u) /\ hpc'[u] = hpc[u]
                                       /\ ~Copied(u) /\ hpc[u] \in {"none", "done"}
         /\ UNCHANGED <<up, req, cOpen, clientVars, pumpVars, dataVars>>
         /\ hpc'[t] # "none"
<1> USE DEF connVars, sessVars, pumpVars, handVars, dataVars, clientVars, netVars,
            CloseConn, FreezeConn
<1>0. hpc \in [Conns -> {"none", "request", "spawn", "copy", "respond", "replace", "done"}]
  BY Zenon DEF TypeOK
<1>1. Active(t) /\ UNCHANGED <<up, req, cOpen, clientVars, pumpVars, dataVars>>
  BY Zenon DEF Active, Handler, QueryByID, RequestLost, SpawnFreeze, SpawnCopy, Respond,
         RespondFails, ReplaceConn
<1>2. hpc'[t] # "none" /\ \A u \in Conns : u # t => hpc'[u] = hpc[u]
  BY <1>0, Zenon DEF Handler, QueryByID, RequestLost, SpawnFreeze, SpawnCopy, Respond,
              RespondFails, ReplaceConn
<1>3. t = cLast /\ t # conn /\ \A p \in Pumps : t # held[p]
  BY <1>1, Zenon DEF Control, HandlerInv
<1>4. t # 0
  BY <1>1, Zenon DEF Active, HandlerInv
<1>5. \A u \in Conns : u # t => ~Active(u) /\ ~Copied(u) /\ hpc[u] \in {"none", "done"}
  <2> SUFFICES ASSUME NEW u \in Conns, u # t
               PROVE  ~Active(u) /\ ~Copied(u) /\ hpc[u] \in {"none", "done"}
    BY ZenonT(40)
  <2>1. ~Active(u)
    BY <1>3, Zenon DEF Control
  <2> QED
    BY <1>0, <2>1 DEF Active, Copied
<1> QED
  BY <1>1, <1>2, <1>3, <1>4, <1>5

(* The pumps, the network, the client on its transport and the end of the   *)
(* session leave the control of the handlers alone.                         *)
LEMMA ControlFrame ==
  ASSUME Control, TypeOK, UNCHANGED <<hpc, oldConn, code, conn, spawned, cLast>>,
         \A t \in Conns : sOpen'[t] => sOpen[t],
         \A p \in Pumps : held'[p] \in {held[p], conn}
  PROVE  Control'
  BY Zenon DEF Control, Active, Copied, TypeOK

(* One handler at a time, as long as the client waits for its last attempt. *)
LEMMA ControlStep ==
  ASSUME Reconnects = "spaced", TypeOK, HandlerInv, Control, Next
  PROVE  Control'
<1> USE DEF connVars, sessVars, pumpVars, handVars, dataVars, clientVars, netVars,
            CloseConn, FreezeConn
<1>0. /\ sOpen \in [Conns -> BOOLEAN] /\ spawned \in [Conns -> BOOLEAN] /\ conn \in Conns
      /\ held \in [Pumps -> Conns] /\ code \in [Conns -> Codes] /\ oldConn \in [Conns -> Conns]
      /\ hpc \in [Conns -> {"none", "request", "spawn", "copy", "respond", "replace", "done"}]
  BY Zenon DEF TypeOK
<1>1. CASE ClientReconnect
  <2>1. /\ \A t \in Conns : hpc[t] \in {"none", "done"}
        /\ \A t \in Conns : t # cLast' => hpc'[t] = hpc[t] /\ sOpen'[t] = sOpen[t]
        /\ cLast + 1 \in Conns => hpc'[cLast + 1] = "request"
        /\ cLast' = cLast + 1 /\ UNCHANGED <<oldConn, code, conn, spawned, held>>
    BY <1>0, <1>1 DEF ClientReconnect
  <2>2. \A t \in Conns : Active(t)' => t = cLast'
    BY <2>1 DEF Active
  <2>3. \A t \in Conns : sOpen'[t] => t = conn' \/ Active(t)'
    BY <2>1 DEF Control, Active
  <2>4. \A t \in Conns : ~(hpc'[t] \in {"spawn", "copy"}) /\ ~Copied(t)'
    BY <2>1 DEF Copied
  <2> QED
    BY <2>1, <2>2, <2>3, <2>4, ZenonT(40) DEF Control
<1>2. CASE Client /\ ~ClientReconnect
  <2>1. UNCHANGED <<hpc, oldConn, code, conn, spawned, cLast, sOpen, held>>
    BY <1>2, Zenon DEF Client, ClientWrite, ClientRead, ClientDrop, ClientReuseHandshake, ClientGiveUp
  <2> QED
    BY <2>1, ControlFrame, Zenon
<1>3. ASSUME NEW t \in Conns, ServerDrop(t) PROVE Control'
  <2>1. /\ UNCHANGED <<hpc, oldConn, code, conn, spawned, cLast, held>>
        /\ \A u \in Conns : sOpen'[u] => sOpen[u]
    BY <1>0, <1>3, Zenon DEF ServerDrop
  <2> QED
    BY <2>1, ControlFrame
<1>4. ASSUME NEW p \in Pumps, Pump(p) PROVE Control'
  <2>1. UNCHANGED <<hpc, oldConn, code, conn, spawned, cLast>>
    BY <1>4, Zenon DEF Pump, Acquire, CheckHandshake, Freeze, SetConnError
  <2>2. \A u \in Conns : sOpen'[u] => sOpen[u]
    BY <1>0, <1>4, Zenon DEF Pump, Acquire, CheckHandshake, Freeze, SetConnError
  <2>3. \A q \in Pumps : held'[q] \in {held[q], conn}
    BY <1>0, <1>4, Zenon DEF Pump, Acquire, CheckHandshake, Freeze, SetConnError
  <2> QED
    BY <2>1, <2>2, <2>3, ControlFrame, Zenon
<1>5. CASE Read \/ Write \/ CloseSession \/ RemoveConnPair
  <2>1. UNCHANGED <<hpc, oldConn, code, conn, spawned, cLast, held>>
    BY <1>5, Zenon DEF Read, Write, CloseSession, RemoveConnPair
  <2>2. \A u \in Conns : sOpen'[u] => sOpen[u]
    BY <1>0, <1>5, Zenon DEF Read, Write, CloseSession, RemoveConnPair
  <2> QED
    BY <2>1, <2>2, ControlFrame, Zenon
<1>6. ASSUME NEW t \in Conns, Handler(t) PROVE Control'
  <2>1. /\ t = cLast /\ t # conn /\ \A p \in Pumps : t # held[p]
        /\ \A u \in Conns : u # t => ~Active(u) /\ hpc'[u] = hpc[u]
        /\ UNCHANGED <<cLast, held>>
    BY <1>6, HandlerStep
  <2>2. \A u \in Conns : u # t => ~Active(u)' /\ ~Copied(u)' /\ hpc'[u] \notin {"spawn", "copy"}
    BY <2>1, Zenon DEF Active, Copied
  <2> DEFINE Opens  == \A u \in Conns : sOpen'[u] => u = conn' \/ (u = t /\ Active(t)')
             Copies == hpc'[t] = "copy" \/ Copied(t)'
             Holds  == \A p \in Pumps : held[p] = conn' \/ spawned'[held[p]]
  <2>3. /\ Opens /\ Holds
        /\ hpc'[t] = "spawn" \/ Copies => oldConn'[t] = conn'
        /\ Copies => ~sOpen'[conn'] /\ spawned'[conn']
    <3>1. CASE QueryByID(t)
      <4>1. UNCHANGED <<sOpen, conn, spawned>>
        BY <3>1, Zenon DEF QueryByID
      <4>2. hpc[t] = "request" /\ hpc'[t] \in {"spawn", "respond"}
        BY <1>0, <3>1, ZenonT(40) DEF QueryByID
      <4>3. ~Copies /\ (hpc'[t] = "spawn" => oldConn'[t] = conn)
        BY <1>0, <3>1, Zenon DEF QueryByID, Copied
      <4> QED
        BY <2>1, <4>1, <4>2, <4>3, Zenon DEF Control, Active
    <3>2. CASE RequestLost(t) \/ RespondFails(t)
      <4>1. /\ UNCHANGED <<conn, spawned>> /\ hpc'[t] = "done" /\ ~sOpen'[t]
            /\ \A u \in Conns : sOpen'[u] => sOpen[u]
        BY <1>0, <3>2, Zenon DEF RequestLost, RespondFails
      <4> QED
        BY <2>1, <4>1, Zenon DEF Control, Active, Copied
    <3>3. CASE SpawnFreeze(t)
      <4>1. oldConn[t] = conn /\ hpc[t] = "spawn" /\ UNCHANGED <<conn, oldConn>>
        BY <3>3 DEF SpawnFreeze, Control
      <4>2. ~sOpen'[conn] /\ \A u \in Conns : sOpen'[u] => sOpen[u]
        BY <1>0, <3>3, <4>1, Zenon DEF SpawnFreeze
      <4>3. \A u \in Conns : spawned[u] => spawned'[u]
        BY <1>0, <3>3, Zenon DEF SpawnFreeze
      <4>4. \/ hpc'[t] = "copy" /\ spawned'[conn]
            \/ hpc'[t] = "respond" /\ code'[t] = "IDNotFound"
        BY <1>0, <3>3, <4>1, Zenon DEF SpawnFreeze
      <4> QED
        BY <1>0, <2>1, <4>1, <4>2, <4>3, <4>4, ZenonT(40) DEF Control, Active, Copied
    <3>4. CASE SpawnCopy(t)
      <4>1. /\ hpc[t] = "copy" /\ hpc'[t] = "respond"
            /\ UNCHANGED <<conn, oldConn, sOpen, spawned>>
        BY <1>0, <3>4, Zenon DEF SpawnCopy
      <4> QED
        BY <2>1, <4>1, Zenon DEF Control, Active, Copied
    <3>5. CASE Respond(t)
      <4>1. /\ hpc[t] = "respond" /\ UNCHANGED <<conn, oldConn, spawned>>
            /\ \A u \in Conns : sOpen'[u] => sOpen[u]
            /\ \/ hpc'[t] = "replace" /\ code[t] = "OK"
               \/ hpc'[t] = "done" /\ ~sOpen'[t]
        BY <1>0, <3>5, Zenon DEF Respond
      <4>2. Opens
        BY <2>1, <4>1, ZenonT(40) DEF Control, Active
      <4>3. Holds /\ hpc'[t] # "spawn"
        BY <4>1, Zenon DEF Control
      <4>4. Copies => code[t] = "OK"
        BY <4>1, Zenon DEF Copied
      <4>5. code[t] = "OK" => oldConn[t] = conn /\ ~sOpen[conn] /\ spawned[conn]
        BY <4>1, Zenon DEF Control, Copied
      <4> QED
        BY <1>0, <4>1, <4>2, <4>3, <4>4, <4>5, Zenon
    <3>6. CASE ReplaceConn(t)
      <4>1. hpc[t] = "replace" /\ hpc'[t] = "done" /\ UNCHANGED spawned
        BY <1>0, <3>6 DEF ReplaceConn
      <4>2. spawned[conn]
        BY <4>1, Zenon DEF Control, Copied
      <4>3. /\ \A u \in Conns : sOpen'[u] => sOpen[u]
            /\ \/ conn' = conn /\ ~sOpen'[t]
               \/ conn' = t /\ ~sOpen'[conn]
        BY <1>0, <3>6, Zenon DEF ReplaceConn
      <4>4. Opens
        BY <2>1, <4>3, ZenonT(40) DEF Control
      <4>5. Holds
        BY <4>1, <4>2, <4>3 DEF Control
      <4> QED
        BY <4>1, <4>4, <4>5, ZenonT(40) DEF Copied
    <3> QED
      BY <1>6, <3>1, <3>2, <3>3, <3>4, <3>5, <3>6, Zenon DEF Handler
  <2> QED
    BY <2>1, <2>2, <2>3, ZenonT(40) DEF Control
<1> QED
  BY <1>1, <1>2, <1>3, <1>4, <1>5, <1>6 DEF Next

(* The client uses a transport only after the handler's response.           *)
LEMMA ClientInvStep ==
  ASSUME Reconnects = "spaced", TypeOK, HandlerInv, Control, ClientInv, Next
  PROVE  ClientInv'
<1> USE DEF connVars, sessVars, pumpVars, handVars, dataVars, clientVars, netVars,
            CloseConn, FreezeConn
<1>0. /\ cLast \in Nat /\ cLast \in Conns /\ cConn \in Conns /\ cConn \in Nat
      /\ held \in [Pumps -> Conns] /\ \A t \in Conns : t \in Nat
      /\ hpc \in [Conns -> {"none", "request", "spawn", "copy", "respond", "replace", "done"}]
  <2>1. \A t \in Conns : t \in Nat
    BY SessionAssumption DEF Conns
  <2> QED
    BY <2>1, Zenon DEF TypeOK
<1>1. /\ up \in [Conns -> Seq(Nat)] /\ down \in [Conns -> Seq(Nat)]
      /\ resp \in [Conns -> [code : Codes, received : Nat]]
  BY Zenon DEF TypeOK
<1> DEFINE Early(t) == t # 0 /\ hpc[t] \notin {"replace", "done"}
           Quiet(t) == resp[t].code = "none" /\ up[t] = <<>> /\ down[t] = <<>>
<1>2. cState = "up" => ~Early(cConn)
  BY <1>0 DEF ClientInv
<1>3. \A p \in Pumps : ~Early(held[p])
  <2> SUFFICES ASSUME NEW p \in Pumps PROVE ~Early(held[p])
    OBVIOUS
  <2>1. held[p] \in Conns /\ held[p] \in Nat /\ held[p] <= cLast /\ ~Active(held[p])
    BY <1>0, Zenon DEF HandlerInv
  <2>2. hpc[held[p]] = "none" => held[p] = 0
    BY <1>0, <2>1, SMTT(30) DEF ClientInv
  <2> QED
    BY <1>0, <2>1, <2>2 DEF Active
<1>4. CASE ClientReconnect
  <2>1. /\ cLast' = cLast + 1 /\ cState' = "trying" /\ hpc'[cLast + 1] = "request"
        /\ UNCHANGED <<cConn, up, down, resp>> /\ cLast + 1 \in Conns
        /\ \A t \in Conns : t # cLast + 1 => hpc'[t] = hpc[t]
    <3>1. cLast + 1 \in Conns
      BY <1>0, <1>4, SessionAssumption, SMTT(30) DEF ClientReconnect, Conns
    <3> QED
      BY <1>0, <1>4, <3>1, ZenonT(40) DEF ClientReconnect
  <2>2. hpc[cLast + 1] = "none"
    BY <1>0, <2>1 DEF HandlerInv
  <2>3. \A t \in Conns : hpc'[t] = "none" => t = 0 \/ t > cLast'
    BY <1>0, <2>1 DEF ClientInv
  <2>4. \A t \in Conns : Early(t)' => Early(t)
    BY <2>1, <2>2, SMTT(30)
  <2> QED
    BY <1>0, <2>1, <2>3, <2>4, SMTT(30) DEF ClientInv
<1>5. CASE ClientReuseHandshake
  <2>1. UNCHANGED <<hpc, cLast, down>> /\ cConn' \in {cConn, cLast}
        /\ (cState' = "up" => cConn' = cLast) /\ resp[cLast].code # "none"
    BY <1>5 DEF ClientReuseHandshake
  <2>2. ~Early(cLast)
    BY <1>0, <2>1, Zenon DEF ClientInv
  <2>3. \A t \in Conns : t # cLast => up'[t] = up[t] /\ resp'[t] = resp[t]
    BY <1>1, <1>5, ZenonT(40) DEF ClientReuseHandshake
  <2>4. hpc[cLast] \in {"none", "replace", "done"}
    BY <2>2, Zenon DEF HandlerInv
  <2>5. \A t \in Conns : Early(t)' <=> Early(t)
    BY <2>1, Zenon
  <2>6. \A t \in Conns : Early(t)' => resp'[t].code = "none" /\ up'[t] = <<>> /\ down'[t] = <<>>
    <3>1. \A t \in Conns : Early(t) => resp[t].code = "none" /\ up[t] = <<>> /\ down[t] = <<>>
      BY Zenon DEF ClientInv
    <3> HIDE DEF Early
    <3> QED
      BY <2>1, <2>2, <2>3, <2>5, <3>1, ZenonT(40)
  <2>7. cConn' <= cLast'
    BY <1>0, <2>1 DEF ClientInv
  <2>8. cState' = "up" => cConn' = cLast' /\ hpc'[cLast'] \in {"none", "replace", "done"}
    BY <2>1, <2>4, Zenon
  <2>9. \A t \in Conns : hpc'[t] = "none" => t = 0 \/ t > cLast'
    BY <2>1 DEF ClientInv
  <2> QED
    BY <2>6, <2>7, <2>8, <2>9, ZenonT(40) DEF ClientInv
<1>6. CASE ClientWrite \/ ClientRead \/ ClientDrop \/ ClientGiveUp
  <2>1. UNCHANGED <<hpc, cLast, cConn, resp>> /\ (cState' = "up" => cState = "up")
    BY <1>6, Zenon DEF ClientWrite, ClientRead, ClientDrop, ClientGiveUp
  <2>2. \A t \in Conns : Early(t) => up'[t] = up[t] /\ down'[t] = down[t]
    <3>1. CASE ClientDrop \/ ClientGiveUp
      BY <3>1, Zenon DEF ClientDrop, ClientGiveUp
    <3>2. CASE ClientWrite
      BY <1>0, <1>1, <1>2, <3>2, Zenon DEF ClientWrite
    <3>3. CASE ClientRead
      BY <1>0, <1>1, <1>2, <3>3, ZenonT(40) DEF ClientRead
    <3> QED
      BY <1>6, <3>1, <3>2, <3>3, Zenon
  <2> QED
    BY <2>1, <2>2, Zenon DEF ClientInv
<1>7. ASSUME NEW t \in Conns, Handler(t) PROVE ClientInv'
  <2>1. /\ t = cLast /\ Active(t) /\ hpc'[t] # "none" /\ UNCHANGED <<cLast, cConn, cState, up>>
        /\ \A u \in Conns : u # t => hpc'[u] = hpc[u]
    BY <1>7, HandlerStep
  <2>2. \A u \in Conns : u # t => resp'[u] = resp[u] /\ down'[u] = down[u]
    BY <1>1, <1>7, ZenonT(40) DEF Handler, QueryByID, RequestLost, SpawnFreeze, SpawnCopy, Respond,
                      RespondFails, ReplaceConn
  <2>3. \/ hpc'[t] \in {"replace", "done"}
        \/ ~(hpc[t] \in {"replace", "done"}) /\ UNCHANGED <<resp, down>>
    BY <1>0, <1>7, ZenonT(40) DEF Handler, QueryByID, RequestLost, SpawnFreeze, SpawnCopy, Respond,
                      RespondFails, ReplaceConn
  <2>4. cState = "up" => hpc[t] = "replace"
    BY <2>1, Zenon DEF ClientInv, Active
  <2>5. cState' = "up" => cConn' = cLast' /\ hpc'[cLast'] \in {"none", "replace", "done"}
    BY <2>1, <2>3, <2>4, ZenonT(40) DEF ClientInv
  <2>6. \A u \in Conns : hpc'[u] = "none" => u = 0 \/ u > cLast'
    BY <2>1, Zenon DEF ClientInv
  <2>7. \A u \in Conns : Early(u)' => Quiet(u)'
    BY <2>1, <2>2, <2>3, ZenonT(40) DEF ClientInv
  <2> QED
    BY <2>1, <2>5, <2>6, <2>7, SMTT(30) DEF ClientInv
<1>8. CASE Read \/ Write
  <2>1. UNCHANGED <<hpc, cLast, cConn, cState, resp>>
    BY <1>8, Zenon DEF Read, Write
  <2>2. \A t \in Conns : Early(t) => up'[t] = up[t] /\ down'[t] = down[t]
    <3>1. held["c2s"] \in Conns /\ held["s2c"] \in Conns
      BY <1>0, Zenon DEF Pumps
    <3>2. CASE Read
      BY <1>0, <1>1, <1>3, <3>1, <3>2, Zenon DEF Read, Pumps
    <3>3. CASE Write
      BY <1>0, <1>1, <1>3, <3>1, <3>3, ZenonT(40) DEF Write, Pumps
    <3> QED
      BY <1>8, <3>2, <3>3, Zenon
  <2> QED
    BY <2>1, <2>2, Zenon DEF ClientInv
<1>9. ASSUME \/ \E t \in Conns : ServerDrop(t)
             \/ \E p \in Pumps : Pump(p)
             \/ CloseSession \/ RemoveConnPair
      PROVE  ClientInv'
  <2>1. UNCHANGED <<hpc, cLast, cConn, cState, resp, up, down>>
    BY <1>9, Zenon DEF ServerDrop, Pump, Acquire, CheckHandshake, Freeze, SetConnError,
                CloseSession, RemoveConnPair
  <2> QED
    BY <2>1, Zenon DEF ClientInv
<1> QED
  BY <1>4, <1>5, <1>6, <1>7, <1>8, <1>9 DEF Next, Client
=============================================================================

--------------------------- MODULE ScpSessionStreams --------------------------
(***************************************************************************)
(* Both directions of a session are intact, for every number of reuses,    *)
(* bytes and buffer sizes: UploadIntact for a client that spaces its reuse *)
(* attempts on tcp, DownloadIntact for such a client on any transport.     *)
(* Each direction is then a step-by-step implementation of ByteStream, 404 *)
(* is answered only for a session that is over, and indices of installed   *)
(* conns increase.                                                         *)
(*                                                                         *)
(* The argument.  With one handler at a time the conn it copies stays the  *)
(* current one, frozen (Control).  So the counts it copies are the counts  *)
(* of the streams, and the bytes in flight on the transport it installs    *)
(* start where reading stopped (UploadInv, DownloadInv).  The receive      *)
(* numbers travel modulo Wrap; as a buffer is shorter than Wrap, a number  *)
(* that passes the check is the exact one (NoWrap).                        *)
(***************************************************************************)
EXTENDS ScpSessionControl

(* The time a leaf may take. *)
USE SMTT(30), ZenonT(20)

-----------------------------------------------------------------------------
(* A step that moves no byte of the upload and makes no conn live.          *)
LEMMA UploadFrame ==
  ASSUME UploadInv, UNCHANGED <<upGot, inCount, up, cSent, cConn, cLast, resp, cBuf>>,
         cState' \in {cState, "down"},
         \A t \in Conns : cOpen'[t] => cOpen[t], cConn \in Conns, cLast \in Conns,
         \A t \in Conns : Live(t)' => Live(t),
         \A t \in Conns : t = conn' \/ Copied(t)' => t = conn \/ Copied(t)
  PROVE  UploadInv'
<1>1. UploadIntact' /\ Ends(cBuf, cSent)'
  BY ZenonT(40) DEF UploadInv, UploadIntact, Ends
<1>2. \A t \in Conns : t = conn' \/ Copied(t)' => inCount'[t] = Len(upGot')
  BY SMTT(30) DEF UploadInv
<1>3. \A t \in Conns : Live(t)' => Follows(up[t], inCount[t], cSent)'
  BY SMTT(30) DEF UploadInv, Follows
<1>4. cState' = "up" /\ cOpen'[cConn'] /\ Live(cConn)' => inCount'[cConn'] + Len(up'[cConn']) = cSent'
  <2>1. Live(cConn)' => Live(cConn)
    BY SMTT(30) DEF Live
  <2> QED
    BY <2>1 DEF UploadInv
<1>5. cState' = "trying" /\ resp'[cLast'].code = "OK" /\ Live(cLast)' =>
        up'[cLast'] = <<>> /\ resp'[cLast'].received = inCount'[cLast'] % Wrap
  <2>1. Live(cLast)' => Live(cLast)
    BY DEF Live
  <2> QED
    BY <2>1 DEF UploadInv
<1> QED
  BY <1>1, <1>2, <1>3, <1>4, <1>5, Zenon DEF UploadInv

(* No byte of the upload is lost, doubled or moved by any step.             *)
LEMMA UploadStep ==
  ASSUME Reconnects = "spaced", Transport = "tcp",
         TypeOK, HandlerInv, Control, ClientInv, UploadInv, Next
  PROVE  UploadInv'
<1> USE DEF connVars, sessVars, pumpVars, handVars, dataVars, clientVars, netVars,
            CloseConn, FreezeConn
<1>0. /\ up \in [Conns -> Seq(Nat)] /\ inCount \in [Conns -> Nat] /\ upGot \in Seq(Nat)
      /\ cBuf \in Seq(Nat) /\ cSent \in Nat /\ Len(upGot) \in Nat
      /\ cConn \in Conns /\ cLast \in Conns /\ conn \in Conns
      /\ \A t \in Conns : Len(up[t]) \in Nat
  <2>1. /\ up \in [Conns -> Seq(Nat)] /\ inCount \in [Conns -> Nat] /\ upGot \in Seq(Nat)
        /\ cBuf \in Seq(Nat) /\ cSent \in Nat
        /\ cConn \in Conns /\ cLast \in Conns /\ conn \in Conns
    BY Zenon DEF TypeOK
  <2> QED
    BY <2>1, SeqLen
<1>a. /\ sOpen \in [Conns -> BOOLEAN] /\ cOpen \in [Conns -> BOOLEAN] /\ code \in [Conns -> Codes]
      /\ hpc \in [Conns -> {"none", "request", "spawn", "copy", "respond", "replace", "done"}]
      /\ resp \in [Conns -> [code : Codes, received : Nat]] /\ oldConn \in [Conns -> Conns]
  BY Zenon DEF TypeOK
<1>b. Len(upGot) = inCount[conn] /\ Len(upGot) <= cSent
  <2>1. Len(upGot) = inCount[conn] /\ inCount[conn] + Len(up[conn]) <= cSent
    BY <1>0, SMTT(30) DEF UploadInv, Live, Follows
  <2> QED
    BY <1>0, <2>1, SMTT(30)
<1>1. CASE ClientWrite
  <2>1. /\ cState = "up" /\ cSent' = cSent + 1 /\ cBuf' = BufWrite(cBuf, cSent + 1)
        /\ UNCHANGED <<upGot, inCount, cConn, cLast, resp, cOpen, cState, conn, hpc, code>>
    BY <1>1, SMTT(30) DEF ClientWrite, Cached
  <2>2. \A t \in Conns : (Live(t)' <=> Live(t)) /\ (Copied(t)' <=> Copied(t))
    BY <2>1, SMTT(30) DEF Live, Copied
  <2>3. UploadIntact' /\ Ends(cBuf, cSent)'
    BY <1>0, <2>1, EndsWrite, SMTT(30) DEF UploadInv, UploadIntact
  <2>4. \A t \in Conns : t # cConn \/ ~cOpen[cConn] => up'[t] = up[t]
    BY <1>0, <1>1, Zenon DEF ClientWrite
  <2>5. cOpen[cConn] => up'[cConn] = Append(up[cConn], cSent + 1)
    BY <1>0, <1>1, SMTT(30) DEF ClientWrite
  <2>6. cOpen[cConn] /\ Live(cConn) => /\ Follows(up'[cConn], inCount[cConn], cSent + 1)
                                      /\ inCount[cConn] + Len(up'[cConn]) = cSent + 1
    <3> SUFFICES ASSUME cOpen[cConn], Live(cConn)
                 PROVE  /\ Follows(up'[cConn], inCount[cConn], cSent + 1)
                        /\ inCount[cConn] + Len(up'[cConn]) = cSent + 1
      BY SMTT(30)
    <3>1. inCount[cConn] + Len(up[cConn]) = cSent /\ Follows(up[cConn], inCount[cConn], cSent)
      BY <1>0, <2>1 DEF UploadInv
    <3>2. up[cConn] \in Seq(Nat) /\ inCount[cConn] \in Nat
      BY <1>0
    <3>3. /\ Follows(Append(up[cConn], cSent + 1), inCount[cConn], cSent + 1)
          /\ inCount[cConn] + Len(Append(up[cConn], cSent + 1)) = cSent + 1
      BY <1>0, <3>1, <3>2, FollowsAppend, ZenonT(40)
    <3>4. up'[cConn] = Append(up[cConn], cSent + 1)
      BY <2>5, SMTT(30)
    <3> QED
      BY <3>3, <3>4
  <2>7. \A t \in Conns : Live(t) => Follows(up'[t], inCount[t], cSent + 1)
    <3> SUFFICES ASSUME NEW t \in Conns, Live(t), up'[t] = up[t]
                 PROVE  Follows(up'[t], inCount[t], cSent + 1)
      BY <2>4, <2>6, SMTT(30)
    <3>1. Follows(up[t], inCount[t], cSent)
      BY DEF UploadInv
    <3>2. inCount[t] \in Nat /\ Len(up[t]) \in Nat
      BY <1>0, SMTT(30)
    <3> QED
      BY <1>0, <3>1, <3>2, SMTT(30) DEF Follows
  <2> QED
    <3>1. \A t \in Conns : t = conn' \/ Copied(t)' => inCount'[t] = Len(upGot')
      BY <2>1, <2>2, Zenon DEF UploadInv
    <3>2. \A t \in Conns : Live(t)' => Follows(up[t], inCount[t], cSent)'
      BY <2>1, <2>2, <2>7, ZenonT(40) DEF Follows
    <3>3. cState' = "up" /\ cOpen'[cConn'] /\ Live(cConn)' =>
            inCount'[cConn'] + Len(up'[cConn']) = cSent'
      BY <1>0, <2>1, <2>6, Zenon DEF Live
    <3> QED
      BY <2>1, <2>3, <3>1, <3>2, <3>3 DEF UploadInv
<1>2. CASE ClientReconnect
  <2>1. /\ UNCHANGED <<upGot, inCount, up, cSent, resp, cBuf, conn, code>>
        /\ cState' = "trying" /\ cLast' = cLast + 1
    BY <1>2, SMTT(30) DEF ClientReconnect
  <2>2. cLast' \in Conns /\ cLast' # 0 /\ hpc[cLast'] = "none"
    <3>1. cLast \in Nat /\ cLast + 1 \in Conns
      BY <1>0, <1>2, SessionAssumption, SMTT(30) DEF ClientReconnect, Conns
    <3> QED
      BY <2>1, <3>1, SMTT(30) DEF HandlerInv
  <2>3. hpc'[cLast'] = "request" /\ \A t \in Conns : t # cLast' => hpc'[t] = hpc[t]
    BY <1>a, <1>2, <2>1, <2>2, SMTT(30) DEF ClientReconnect
  <2>4. \A t \in Conns : (Live(t)' => Live(t)) /\ (Copied(t)' => Copied(t))
    BY <2>1, <2>2, <2>3, SMTT(30) DEF Live, Copied
  <2>5. resp[cLast'].code = "none"
    BY <2>2 DEF ClientInv
  <2> QED
    BY <2>1, <2>4, <2>5, SMTT(30) DEF UploadInv, UploadIntact, Ends, Follows
<1>3. CASE ClientReuseHandshake
  <2> DEFINE t == cLast
             diff == cSent - resp[t].received
             last == ReadLastBytes(cBuf, diff)
             accepted == resp[t].code = "OK" /\ Acceptable(diff, cBuf)
  <2>1. cState = "trying" /\ UNCHANGED <<upGot, inCount, cSent, cLast, cBuf, conn, hpc, code>>
    BY <1>3, SMTT(30) DEF ClientReuseHandshake
  <2>2. \A u \in Conns : (Live(u)' <=> Live(u)) /\ (Copied(u)' <=> Copied(u))
    BY <2>1, SMTT(30) DEF Live, Copied
  <2>3. UploadIntact' /\ Ends(cBuf, cSent)'
    BY <2>1, SMTT(30) DEF UploadInv, UploadIntact, Ends
  <2>4. accepted /\ Live(t) => /\ Follows(last, inCount[t], cSent)
                               /\ inCount[t] + Len(last) = cSent
                               /\ \A k \in 0 .. diff : Follows(SubSeq(last, 1, k), inCount[t], cSent)
    <3> SUFFICES ASSUME accepted, Live(t)
                 PROVE  /\ Follows(last, inCount[t], cSent)
                        /\ inCount[t] + Len(last) = cSent
                        /\ \A k \in 0 .. diff : Follows(SubSeq(last, 1, k), inCount[t], cSent)
      BY SMTT(30)
    <3>1. resp[t].received = inCount[t] % Wrap /\ Follows(up[t], inCount[t], cSent) /\ Ends(cBuf, cSent)
      BY <1>0, <2>1, SMTT(30) DEF UploadInv
    <3>2. inCount[t] \in Nat /\ Len(up[t]) \in Nat /\ inCount[t] <= cSent
      <4>1. inCount[t] \in Nat /\ Len(up[t]) \in Nat /\ inCount[t] + Len(up[t]) <= cSent
        BY <1>0, <3>1, SMTT(30) DEF Follows
      <4> QED
        BY <1>0, <4>1, SMTT(30)
    <3>3. resp[t].received = inCount[t]
      BY <1>0, <3>1, <3>2, NoWrap DEF Ends
    <3>4. /\ Follows(ReadLastBytes(cBuf, cSent - inCount[t]), inCount[t], cSent)
          /\ Len(ReadLastBytes(cBuf, cSent - inCount[t])) = cSent - inCount[t]
          /\ \A k \in 0 .. cSent - inCount[t] :
               Follows(SubSeq(ReadLastBytes(cBuf, cSent - inCount[t]), 1, k), inCount[t], cSent)
      BY <1>0, <3>1, <3>2, <3>3, FollowsLast, ZenonT(40)
    <3>5. diff = cSent - inCount[t]
      BY <3>3, SMTT(30)
    <3>6. inCount[t] + (cSent - inCount[t]) = cSent
      BY <1>0, <3>2, SMTT(30)
    <3> HIDE DEF diff
    <3> QED
      BY <3>4, <3>5, <3>6, SMTT(30)
  <2>5. \A u \in Conns : u # t => up'[u] = up[u]
    BY <1>0, <1>3, ZenonT(40) DEF ClientReuseHandshake
  <2>6. \/ accepted /\ up'[t] = last /\ cState' = "up" /\ cConn' = t
        \/ /\ accepted /\ cState' = "down"
           /\ \E k \in 0 .. diff - 1 : up'[t] = SubSeq(last, 1, k)
        \/ up'[t] = up[t] /\ cState' = "down"
    <3> HIDE DEF last
    <3> QED
      BY <1>0, <1>3, Zenon DEF ClientReuseHandshake, last
  <2>7. diff \in Int
    <3>1. cSent \in Nat /\ resp[t].received \in Nat
      BY <1>0, Elements
    <3> QED
      BY <3>1, SMTT(30)
  <2>8. Live(t) => Follows(up'[t], inCount[t], cSent)
    <3>1. \A k \in 0 .. diff - 1 : k \in 0 .. diff
      BY <2>7, SMTT(30)
    <3>2. Live(t) => Follows(up[t], inCount[t], cSent)
      BY <1>0, SMTT(30) DEF UploadInv
    <3> HIDE DEF last, diff, accepted
    <3> QED
      BY <2>4, <2>6, <3>1, <3>2, ZenonT(40)
  <2>9. \A u \in Conns : Live(u) => Follows(up'[u], inCount[u], cSent)
    BY <2>5, <2>8, SMTT(30) DEF UploadInv
  <2>10. cState' = "up" => cConn' = t /\ (Live(t) => inCount[t] + Len(up'[t]) = cSent)
    <3> HIDE DEF last, accepted
    <3> QED
      BY <2>4, <2>6, SMTT(30)
  <2> HIDE DEF last, accepted, diff
  <2>11. cState' # "trying"
    BY <2>6
  <2>12. cState' = "up" /\ Live(cConn)' => inCount'[cConn'] + Len(up'[cConn']) = cSent'
    BY <1>0, <2>1, <2>2, <2>10, SMTT(30) DEF Live
  <2> QED
    BY <2>1, <2>2, <2>3, <2>9, <2>11, <2>12, ZenonT(40) DEF UploadInv
<1>4. CASE ClientRead \/ ClientDrop \/ ClientGiveUp
  <2>1. UNCHANGED <<upGot, inCount, up, cSent, cConn, cLast, resp, cBuf, conn, hpc, code>>
        /\ cState' \in {cState, "down"}
    BY <1>4 DEF ClientRead, ClientDrop, ClientGiveUp
  <2>2. \A t \in Conns : cOpen'[t] => cOpen[t]
    BY <1>a, <1>4, Zenon DEF ClientRead, ClientDrop, ClientGiveUp
  <2> QED
    BY <1>0, <2>1, <2>2, UploadFrame, ZenonT(40) DEF Live, Copied
<1>5. ASSUME NEW t \in Conns, Handler(t) PROVE UploadInv'
  <2>0. /\ Active(t) /\ t = cLast /\ t # conn /\ t # 0
        /\ \A u \in Conns : u # t => ~Copied(u) /\ hpc'[u] = hpc[u] /\ hpc[u] \in {"none", "done"}
        /\ UNCHANGED <<up, cOpen, cSent, cState, cConn, cLast, cBuf, upGot>>
    BY <1>5, HandlerStep, SMTT(30)
  <2>1. CASE QueryByID(t) \/ RequestLost(t) \/ SpawnFreeze(t) \/ RespondFails(t)
    <3>1. UNCHANGED <<inCount, resp, conn>>
      BY <2>1, ZenonT(40) DEF QueryByID, RequestLost, SpawnFreeze, RespondFails
    <3>2. \/ hpc'[t] \in {"spawn", "copy", "done"}
          \/ hpc'[t] = "respond" /\ code'[t] \in {"IDNotFound", "Expired"}
      BY <1>a, <2>1, ZenonT(40) DEF QueryByID, RequestLost, SpawnFreeze, RespondFails
    <3>3. \A u \in Conns : ~Copied(u)' /\ (Live(u)' => Live(u))
      BY <2>0, <3>1, <3>2 DEF Copied, Live
    <3> QED
      BY <1>0, <2>0, <3>1, <3>3, UploadFrame, SMTT(30)
  <2>2. CASE SpawnCopy(t)
    <3>1. /\ UNCHANGED <<resp, conn>> /\ hpc'[t] = "respond" /\ hpc[t] = "copy"
          /\ inCount'[t] = inCount[oldConn[t]]
          /\ \A u \in Conns : u # t => inCount'[u] = inCount[u]
      BY <1>0, <1>a, <2>2 DEF SpawnCopy
    <3>2. inCount'[t] = Len(upGot)
      BY <1>b, <3>1, ZenonT(40) DEF Control
    <3>3. \A u \in Conns : Live(u)' => Live(u) /\ u # t
      BY <2>0, <3>1, ZenonT(40) DEF Live
    <3>4. \A u \in Conns : u = conn' \/ Copied(u)' => inCount'[u] = Len(upGot')
      BY <1>b, <2>0, <3>1, <3>2, ZenonT(40) DEF Copied
    <3>5. \A u \in Conns : Live(u)' => Follows(up[u], inCount[u], cSent)'
      <4> SUFFICES ASSUME NEW u \in Conns, Live(u)'
                   PROVE  Follows(up[u], inCount[u], cSent)'
        BY SMTT(30)
      <4>1. Follows(up[u], inCount[u], cSent)
        BY <3>3, SMTT(30) DEF UploadInv
      <4>2. up'[u] = up[u] /\ inCount'[u] = inCount[u] /\ cSent' = cSent
        BY <2>0, <3>1, <3>3, ZenonT(40)
      <4> QED
        BY <4>1, <4>2, SMTT(30) DEF Follows
    <3>6. UploadIntact' /\ Ends(cBuf, cSent)'
      BY <2>0 DEF UploadInv, UploadIntact, Ends
    <3>7. ~Live(cLast)'
      BY <2>0, <3>1, Zenon DEF Live
    <3>8. cState' = "up" /\ cOpen'[cConn'] /\ Live(cConn)' =>
            inCount'[cConn'] + Len(up'[cConn']) = cSent'
      BY <2>0, <3>1, Zenon DEF ClientInv
    <3> QED
      BY <3>4, <3>5, <3>6, <3>7, <3>8, ZenonT(40) DEF UploadInv
  <2>3. CASE Respond(t)
    <3>1. UNCHANGED <<inCount, conn, code>> /\ hpc[t] = "respond"
          /\ resp'[t].code = code[t]
          /\ (code[t] = "OK" => resp'[t].received = inCount[t] % Wrap)
      BY <1>a, <2>3, Zenon DEF Respond
    <3>2. (code[t] = "OK" /\ hpc'[t] = "replace") \/ hpc'[t] = "done"
      BY <1>a, <2>3, SMTT(30) DEF Respond
    <3>3. up[t] = <<>> /\ cState # "up"
      BY <2>0, <3>1, SMTT(30) DEF ClientInv
    <3>4. hpc'[t] = "replace" => inCount[t] = Len(upGot)
      BY <3>1, <3>2, ZenonT(40) DEF UploadInv, Copied
    <3>5. \A u \in Conns : u = conn' \/ Copied(u)' => inCount'[u] = Len(upGot')
      BY <1>b, <2>0, <3>1, <3>2, <3>4, SMTT(30) DEF Copied
    <3>6. hpc'[t] = "replace" => Follows(up[t], inCount[t], cSent)
      <4>1. DOMAIN up[t] = {} /\ Len(up[t]) = 0
        BY <3>3
      <4> QED
        BY <1>0, <1>b, <3>4, <4>1, SMTT(30) DEF Follows
    <3>7. \A u \in Conns : Live(u)' => Follows(up[u], inCount[u], cSent)'
      BY <2>0, <3>1, <3>6, ZenonT(40) DEF UploadInv, Live, Follows
    <3>8. UploadIntact' /\ Ends(cBuf, cSent)'
      BY <2>0 DEF UploadInv, UploadIntact, Ends
    <3> QED
      BY <2>0, <3>1, <3>3, <3>5, <3>7, <3>8, ZenonT(40) DEF UploadInv
  <2>4. CASE ReplaceConn(t)
    <3>1. UNCHANGED <<inCount, resp, code>> /\ hpc[t] = "replace" /\ hpc'[t] = "done"
          /\ conn' \in {conn, t}
      BY <1>a, <2>4, SMTT(30) DEF ReplaceConn
    <3>2. \A u \in Conns : /\ Live(u)' => Live(u)
                          /\ (u = conn' \/ Copied(u)' => u = conn \/ Copied(u))
      BY <2>0, <3>1, SMTT(30) DEF Copied, Live
    <3> QED
      BY <1>0, <2>0, <3>1, <3>2, UploadFrame, Zenon
  <2> QED
    BY <1>5, <2>1, <2>2, <2>3, <2>4, SMTT(30) DEF Handler
<1>6. CASE Read
  <2> DEFINE c == held["c2s"]
  <2>0. UNCHANGED <<cSent, cConn, cLast, cState, resp, cBuf, conn, hpc, code, cOpen>>
    BY <1>6, SMTT(30) DEF Read
  <2>1. \A u \in Conns : (Live(u)' <=> Live(u)) /\ (Copied(u)' <=> Copied(u))
    BY <2>0, SMTT(30) DEF Live, Copied
  <2>2. CASE UNCHANGED <<inCount, upGot, up>>
    BY <1>0, <2>0, <2>1, <2>2, UploadFrame, Zenon
  <2>3. CASE /\ sOpen[c] /\ up[c] # <<>>
             /\ inCount' = [inCount EXCEPT ![c] = @ + 1]
             /\ upGot' = Append(upGot, Decrypt(Head(up[c]), Len(upGot) + 1))
             /\ up' = [up EXCEPT ![c] = Tail(@)]
    <3>1. c = conn
      BY <2>3, ZenonT(40) DEF Control, HandlerInv, Pumps, TypeOK
    <3>2. \A u \in Conns : ~Copied(u) /\ (Live(u) => u = conn)
      BY <2>3, <3>1, Zenon DEF Control, Copied, Live
    <3>3. Follows(up[conn], Len(upGot), cSent)
      BY <1>0, <1>b, SMTT(30) DEF UploadInv, Live
    <3>4. /\ Head(up[conn]) = Len(upGot) + 1 /\ Follows(Tail(up[conn]), Len(upGot) + 1, cSent)
          /\ Len(upGot) + 1 + Len(Tail(up[conn])) = Len(upGot) + Len(up[conn])
      BY <1>0, <2>3, <3>1, <3>3, FollowsTail
    <3>5. Len(upGot') = Len(upGot) + 1 /\ UploadIntact'
      BY <1>0, <2>3, <3>1, <3>4, IntactAppend, ZenonT(40) DEF UploadInv, UploadIntact
    <3>6. inCount'[conn] = Len(upGot) + 1 /\ up'[conn] = Tail(up[conn])
      BY <1>0, <1>b, <2>3, <3>1, SMTT(30)
    <3>7. Ends(cBuf, cSent)'
      BY <2>0 DEF UploadInv, Ends
    <3>8. \A u \in Conns : Live(u)' => Follows(up[u], inCount[u], cSent)'
      BY <2>0, <2>1, <3>2, <3>4, <3>6, Zenon DEF Follows
    <3>9. cState' = "up" /\ cOpen'[cConn'] /\ Live(cConn)' =>
            inCount'[cConn'] + Len(up'[cConn']) = cSent'
      <4> SUFFICES ASSUME cState = "up", cOpen[cConn], Live(cConn)
                   PROVE  inCount'[cConn] + Len(up'[cConn]) = cSent
        BY <1>0, <2>0, <2>1, Zenon DEF Live
      <4>1. cConn = conn /\ inCount[conn] + Len(up[conn]) = cSent
        BY <1>0, <3>2, ZenonT(40) DEF UploadInv
      <4> QED
        BY <1>b, <3>4, <3>6, <4>1, ZenonT(40)
    <3>10. ~(cState = "trying" /\ resp[cLast].code = "OK" /\ Live(cLast))
      BY <1>0, <2>3, <3>1, <3>2, SMTT(30) DEF UploadInv
    <3>11. ~(cState' = "trying" /\ resp'[cLast'].code = "OK" /\ Live(cLast)')
      BY <2>0, <3>10, Zenon DEF Live
    <3>12. \A u \in Conns : u = conn' \/ Copied(u)' => inCount'[u] = Len(upGot')
      BY <2>0, <2>1, <3>2, <3>5, <3>6, SMTT(30)
    <3> QED
      BY <3>5, <3>7, <3>8, <3>9, <3>11, <3>12, ZenonT(40) DEF UploadInv
  <2> QED
    BY <1>6, <2>2, <2>3, ZenonT(40) DEF Read
<1>7. ASSUME \/ \E t \in Conns : ServerDrop(t)
             \/ \E p \in Pumps : Pump(p)
             \/ Write \/ CloseSession \/ RemoveConnPair
      PROVE  UploadInv'
  <2>1. UNCHANGED <<upGot, inCount, up, cSent, cConn, cLast, resp, cBuf, cState, cOpen,
                    conn, hpc, code>>
    BY <1>7, ZenonT(40) DEF ServerDrop, Pump, Acquire, CheckHandshake, Freeze, SetConnError, Write,
                CloseSession, RemoveConnPair
  <2>2. \A t \in Conns : (Live(t)' <=> Live(t)) /\ (Copied(t)' <=> Copied(t))
    BY <2>1 DEF Live, Copied
  <2> QED
    BY <1>0, <2>1, <2>2, UploadFrame, Zenon
<1> QED
  BY <1>1, <1>2, <1>3, <1>4, <1>5, <1>6, <1>7, SMTT(30) DEF Next, Client

-----------------------------------------------------------------------------
(* A step that moves no byte of the download.                               *)
LEMMA DownloadFrame ==
  ASSUME DownloadInv, UNCHANGED <<downGot, wrote, outCount, reuseBuffer, down, late>>,
         late = {} => reuseBuffer[conn'] = reuseBuffer[conn],
         \A t \in Conns : t = conn' \/ Copied(t)' => t = conn \/ Copied(t),
         \A t \in Conns : hpc'[t] = "copy" \/ Copied(t)' => hpc[t] = "copy" \/ Copied(t),
         \A t \in Conns : hpc'[t] \in {"request", "spawn", "copy", "respond"} =>
           hpc[t] \in {"request", "spawn", "copy", "respond"} /\ req'[t] = req[t],
         \A t \in Conns : Reading(t)' => Reading(t),
         \A t \in Conns : Live(t)' /\ sOpen'[t] => Live(t) /\ sOpen[t]
  PROVE  DownloadInv'
<1> SUFFICES ASSUME late' = {} PROVE DownloadInv'
  BY Zenon DEF DownloadInv
<1>0. late = {}
  BY Zenon
<1>1. DownloadSeamless' /\ Len(downGot') <= wrote'
  BY <1>0, Zenon DEF DownloadInv, DownloadSeamless
<1>2. Ends(reuseBuffer[conn], wrote)'
  BY <1>0, Zenon DEF DownloadInv, Ends
<1>3. \A t \in Conns : t = conn' \/ Copied(t)' => outCount'[t] = wrote'
  BY <1>0, Zenon DEF DownloadInv
<1>4. \A t \in Conns : hpc'[t] = "copy" \/ Copied(t)' => reuseBuffer'[t] = reuseBuffer'[conn']
  BY <1>0, Zenon DEF DownloadInv
<1>5. \A t \in Conns : hpc'[t] \in {"request", "spawn", "copy", "respond"} =>
        req'[t].received = Len(downGot') % Wrap
  BY <1>0, Zenon DEF DownloadInv
<1>6. \A t \in Conns : Reading(t)' => Follows(down[t], Len(downGot), wrote)'
  BY <1>0, ZenonT(40) DEF DownloadInv, Follows
<1>7. \A t \in Conns : Reading(t)' /\ Live(t)' /\ sOpen'[t] =>
        Len(downGot') + Len(down'[t]) = wrote'
  BY <1>0, Zenon DEF DownloadInv
<1> QED
  BY <1>1, <1>2, <1>3, <1>4, <1>5, <1>6, <1>7, Zenon DEF DownloadInv

(* The same for a step of the client, the pumps, the network or the end of  *)
(* the session, which leave the handlers alone.                             *)
LEMMA DownloadQuiet ==
  ASSUME DownloadInv, UNCHANGED <<downGot, wrote, outCount, reuseBuffer, down, late>>,
         UNCHANGED <<conn, hpc, code, req>>,
         \A t \in Conns : Reading(t)' => Reading(t),
         \A t \in Conns : sOpen'[t] => sOpen[t]
  PROVE  DownloadInv'
<1>1. \A t \in Conns : (Live(t)' <=> Live(t)) /\ (Copied(t)' <=> Copied(t))
  BY Zenon DEF Live, Copied
<1> QED
  BY <1>1, DownloadFrame, Zenon

(* No byte of the download is lost, doubled or moved by a step that is not  *)
(* a late Write.                                                            *)
LEMMA DownloadStep ==
  ASSUME Reconnects = "spaced", TypeOK, HandlerInv, Control, ClientInv, DownloadInv, Next
  PROVE  DownloadInv'
<1> USE DEF connVars, sessVars, pumpVars, handVars, dataVars, clientVars, netVars,
            CloseConn, FreezeConn
<1>0. /\ down \in [Conns -> Seq(Nat)] /\ outCount \in [Conns -> Nat] /\ downGot \in Seq(Nat)
      /\ reuseBuffer \in [Conns -> Seq(Nat)] /\ wrote \in Nat /\ Len(downGot) \in Nat
      /\ cConn \in Conns /\ cLast \in Conns /\ conn \in Conns
  <2>1. /\ down \in [Conns -> Seq(Nat)] /\ outCount \in [Conns -> Nat] /\ downGot \in Seq(Nat)
        /\ reuseBuffer \in [Conns -> Seq(Nat)] /\ wrote \in Nat
        /\ cConn \in Conns /\ cLast \in Conns /\ conn \in Conns
    BY Zenon DEF TypeOK
  <2> QED
    BY <2>1, SeqLen
<1>a. /\ sOpen \in [Conns -> BOOLEAN] /\ spawned \in [Conns -> BOOLEAN] /\ code \in [Conns -> Codes]
      /\ hpc \in [Conns -> {"none", "request", "spawn", "copy", "respond", "replace", "done"}]
      /\ resp \in [Conns -> [code : Codes, received : Nat]] /\ oldConn \in [Conns -> Conns]
  BY Zenon DEF TypeOK
<1>1. CASE ClientWrite \/ ClientDrop \/ ClientGiveUp
  <2>1. /\ UNCHANGED <<downGot, wrote, outCount, reuseBuffer, down, late, conn, hpc, code, req, sOpen>>
        /\ UNCHANGED <<cConn, cLast, resp>> /\ cState' \in {cState, "down"}
    BY <1>1, SMTT(30) DEF ClientWrite, ClientDrop, ClientGiveUp
  <2>2. \A t \in Conns : Reading(t)' => Reading(t)
    BY <2>1 DEF Reading
  <2> QED
    BY <2>1, <2>2, DownloadQuiet, ZenonT(40)
<1>2. CASE ClientReuseHandshake
  <2>1. /\ UNCHANGED <<downGot, wrote, outCount, reuseBuffer, down, late, conn, hpc, code, req, sOpen>>
        /\ cState = "trying" /\ UNCHANGED cLast
    BY <1>2, SMTT(30) DEF ClientReuseHandshake
  <2>2. cState' = "down" \/ (cState' = "up" /\ cConn' = cLast /\ resp[cLast].code = "OK")
    BY <1>2, ZenonT(40) DEF ClientReuseHandshake
  <2>3. \A t \in Conns : Reading(t)' => Reading(t)
    BY <2>1, <2>2 DEF Reading
  <2> QED
    BY <2>1, <2>3, DownloadQuiet, ZenonT(40)
<1>3. CASE ClientReconnect
  <2>1. /\ UNCHANGED <<downGot, wrote, outCount, reuseBuffer, down, late, conn, code, resp>>
        /\ cState' = "trying" /\ cLast' = cLast + 1
    BY <1>3, SMTT(30) DEF ClientReconnect
  <2>2. cLast' \in Conns /\ cLast' # 0 /\ hpc[cLast'] = "none"
    <3>1. cLast \in Nat /\ cLast + 1 \in Conns
      BY <1>0, <1>3, SessionAssumption, SMTT(30) DEF ClientReconnect, Conns
    <3> QED
      BY <2>1, <3>1, SMTT(30) DEF HandlerInv
  <2>3. /\ hpc'[cLast'] = "request"
        /\ \A t \in Conns : t # cLast' => hpc'[t] = hpc[t]
        /\ \A t \in Conns : hpc[t] \in {"none", "done"}
    BY <1>a, <1>3, <2>1, <2>2 DEF ClientReconnect
  <2>4. req'[cLast'].received = Len(downGot) % Wrap
    BY <1>3, <2>1, <2>2, ZenonT(40) DEF ClientReconnect, TypeOK
  <2>5. \A t \in Conns : ~Copied(t)' /\ hpc'[t] # "copy"
    BY <2>1, <2>2, <2>3, SMTT(30) DEF Copied
  <2>6. \A t \in Conns : ~Reading(t)'
    BY <2>1, <2>2, Zenon DEF Reading, ClientInv
  <2>7. \A t \in Conns : hpc'[t] \in {"request", "spawn", "copy", "respond"} => t = cLast'
    BY <2>3
  <2> SUFFICES ASSUME late' = {} PROVE DownloadInv'
    BY Zenon DEF DownloadInv
  <2>8. late = {}
    BY <2>1
  <2>9. DownloadSeamless' /\ Len(downGot') <= wrote' /\ Ends(reuseBuffer[conn], wrote)'
        /\ outCount'[conn'] = wrote'
    BY <1>0, <2>1, <2>8, ZenonT(40) DEF DownloadInv, DownloadSeamless, Ends
  <2>10. \A t \in Conns : hpc'[t] \in {"request", "spawn", "copy", "respond"} =>
           req'[t].received = Len(downGot') % Wrap
    BY <2>1, <2>4, <2>7
  <2> QED
    BY <2>5, <2>6, <2>9, <2>10, ZenonT(40) DEF DownloadInv
<1>4. CASE ClientRead
  <2>1. /\ cState = "up" /\ down[cConn] # <<>>
        /\ downGot' = Append(downGot, Decrypt(Head(down[cConn]), Len(downGot) + 1))
        /\ down'[cConn] = Tail(down[cConn])
        /\ UNCHANGED <<wrote, outCount, reuseBuffer, late, conn, hpc, code, req, sOpen,
                       cState, cConn, cLast, resp>>
    BY <1>0, <1>4 DEF ClientRead
  <2> SUFFICES ASSUME late = {} PROVE DownloadInv'
    BY <2>1, Zenon DEF DownloadInv
  <2>2. Follows(down[cConn], Len(downGot), wrote)
    BY <1>0, <2>1, Zenon DEF DownloadInv, Reading
  <2>3. /\ Head(down[cConn]) = Len(downGot) + 1 /\ Len(downGot) + 1 <= wrote
        /\ Follows(Tail(down[cConn]), Len(downGot) + 1, wrote)
        /\ Len(downGot) + 1 + Len(Tail(down[cConn])) = Len(downGot) + Len(down[cConn])
    BY <1>0, <2>1, <2>2, FollowsTail, Zenon
  <2>4. Len(downGot') = Len(downGot) + 1 /\ DownloadSeamless'
    BY <1>0, <2>1, <2>3, IntactAppend, Zenon DEF DownloadInv, DownloadSeamless
  <2>5. \A t \in Conns : (Live(t)' <=> Live(t)) /\ (Copied(t)' <=> Copied(t))
    BY <2>1, Zenon DEF Live, Copied
  <2>6. \A t \in Conns : Reading(t)' => t = cConn
    BY <2>1, Zenon DEF Reading
  <2>7. \A t \in Conns : hpc'[t] \notin {"request", "spawn", "copy", "respond"}
    BY <1>0, <2>1, Zenon DEF ClientInv, Control, Active
  <2>8. Ends(reuseBuffer[conn], wrote)'
    BY <2>1, Zenon DEF DownloadInv, Ends
  <2>9. \A t \in Conns : Reading(t)' => Follows(down[t], Len(downGot), wrote)'
    BY <2>1, <2>3, <2>4, <2>6, Zenon DEF Follows
  <2>10. \A t \in Conns : Reading(t)' /\ Live(t)' /\ sOpen'[t] =>
           Len(downGot') + Len(down'[t]) = wrote'
    <3> SUFFICES ASSUME Live(cConn), sOpen[cConn]
                 PROVE  Len(downGot) + 1 + Len(Tail(down[cConn])) = wrote
      BY <1>0, <2>1, <2>4, <2>5, <2>6, Zenon
    <3>1. Len(downGot) + Len(down[cConn]) = wrote
      BY <1>0, <2>1, Zenon DEF DownloadInv, Reading
    <3> QED
      BY <2>3, <3>1, Zenon
  <2>11. /\ \A t \in Conns : t = conn' \/ Copied(t)' => outCount'[t] = wrote'
         /\ \A t \in Conns : hpc'[t] = "copy" \/ Copied(t)' => reuseBuffer'[t] = reuseBuffer'[conn']
    BY <2>1, <2>5, Zenon DEF DownloadInv
  <2> QED
    BY <2>1, <2>3, <2>4, <2>7, <2>8, <2>9, <2>10, <2>11, ZenonT(40) DEF DownloadInv
<1>5. ASSUME NEW t \in Conns, Handler(t) PROVE DownloadInv'
  <2>0. /\ Active(t) /\ t = cLast /\ t # conn /\ t # 0
        /\ \A u \in Conns : u # t => ~Copied(u) /\ hpc'[u] = hpc[u] /\ hpc[u] \in {"none", "done"}
        /\ UNCHANGED <<req, cState, cConn, cLast, downGot, wrote, late>>
    BY <1>5, HandlerStep, SMTT(30)
  <2>a. \A u \in Conns : u # t => /\ hpc'[u] \notin {"request", "spawn", "copy", "respond", "replace"}
                                  /\ ~Copied(u)'
    BY <2>0, SMTT(30) DEF Copied
  <2>1. CASE QueryByID(t) \/ RequestLost(t) \/ RespondFails(t)
    <3>1. UNCHANGED <<outCount, reuseBuffer, down, resp, conn>>
      BY <2>1, Zenon DEF QueryByID, RequestLost, RespondFails
    <3>2. \/ hpc'[t] = "done"
          \/ hpc[t] = "request" /\ hpc'[t] = "spawn"
          \/ hpc[t] = "request" /\ hpc'[t] = "respond" /\ code'[t] \in {"IDNotFound", "Expired"}
      BY <1>a, <2>1, Zenon DEF QueryByID, RequestLost, RespondFails
    <3>3. \A u \in Conns : sOpen'[u] => sOpen[u]
      BY <1>a, <2>1, Zenon DEF QueryByID, RequestLost, RespondFails
    <3>4. \A u \in Conns : ~Copied(u)' /\ hpc'[u] # "copy" /\ (Live(u)' => Live(u))
      BY <2>a, <3>1, <3>2, ZenonT(40) DEF Copied, Live
    <3>5. \A u \in Conns : hpc'[u] \in {"request", "spawn", "copy", "respond"} =>
            hpc[u] \in {"request", "spawn", "copy", "respond"}
      BY <2>a, <3>2, Zenon
    <3>6. \A u \in Conns : Reading(u)' => Reading(u)
      BY <2>0, <3>1, Zenon DEF Reading
    <3> QED
      BY <2>0, <3>1, <3>3, <3>4, <3>5, <3>6, DownloadFrame, SMTT(30)
  <2>2. CASE SpawnFreeze(t)
    <3>1. /\ UNCHANGED <<outCount, down, resp, conn>> /\ hpc[t] = "spawn" /\ oldConn[t] = conn
      BY <2>2, SMTT(30) DEF SpawnFreeze, Control
    <3>2. \/ hpc'[t] = "copy" /\ reuseBuffer'[t] = reuseBuffer[conn]
          \/ hpc'[t] = "respond" /\ code'[t] = "IDNotFound"
      BY <1>0, <1>a, <2>2, <3>1, ZenonT(40) DEF SpawnFreeze
    <3>3. \A u \in Conns : u # t => reuseBuffer'[u] = reuseBuffer[u]
      BY <1>0, <2>2, Zenon DEF SpawnFreeze
    <3>4. \A u \in Conns : sOpen'[u] => sOpen[u]
      BY <1>a, <2>2 DEF SpawnFreeze
    <3>5. \A u \in Conns : /\ ~Copied(u)' /\ (Live(u)' => Live(u))
                          /\ (hpc'[u] = "copy" => u = t /\ reuseBuffer'[u] = reuseBuffer[conn])
      BY <2>a, <3>1, <3>2, Zenon DEF Copied, Live
    <3>6. \A u \in Conns : Reading(u)' <=> Reading(u)
      BY <2>0, <3>1, Zenon DEF Reading
    <3> SUFFICES ASSUME late = {} PROVE DownloadInv'
      BY <2>0, Zenon DEF DownloadInv
    <3>7. reuseBuffer'[conn'] = reuseBuffer[conn]
      BY <1>0, <2>0, <3>1, <3>3
    <3>8. DownloadSeamless' /\ Len(downGot') <= wrote' /\ Ends(reuseBuffer[conn], wrote)'
      BY <2>0, <3>7, Zenon DEF DownloadInv, DownloadSeamless, Ends
    <3>9. \A u \in Conns : hpc'[u] \in {"request", "spawn", "copy", "respond"} =>
            req'[u].received = Len(downGot') % Wrap
      BY <2>0, <2>a, <3>1, Zenon DEF DownloadInv
    <3>10. \A u \in Conns : Reading(u)' =>
             /\ Follows(down[u], Len(downGot), wrote)'
             /\ Live(u)' /\ sOpen'[u] => Len(downGot') + Len(down'[u]) = wrote'
      BY <2>0, <3>1, <3>4, <3>5, <3>6, Zenon DEF DownloadInv, Follows
    <3>11. outCount'[conn'] = wrote'
      BY <1>0, <2>0, <3>1, Zenon DEF DownloadInv
    <3> QED
      BY <3>5, <3>7, <3>8, <3>9, <3>10, <3>11, ZenonT(40) DEF DownloadInv
  <2>3. CASE SpawnCopy(t)
    <3>1. /\ UNCHANGED <<reuseBuffer, down, resp, conn, sOpen>>
          /\ hpc[t] = "copy" /\ oldConn[t] = conn /\ hpc'[t] = "respond"
      BY <1>a, <2>3, ZenonT(40) DEF SpawnCopy, Control
    <3>2. outCount'[t] = outCount[conn] /\ \A u \in Conns : u # t => outCount'[u] = outCount[u]
      BY <1>0, <2>3, <3>1 DEF SpawnCopy
    <3>3. \A u \in Conns : (Live(u)' => Live(u)) /\ (Copied(u)' => u = t) /\ hpc'[u] # "copy"
      BY <2>a, <3>1, ZenonT(40) DEF Copied, Live
    <3>4. \A u \in Conns : Reading(u)' <=> Reading(u)
      BY <2>0, <3>1, Zenon DEF Reading
    <3> SUFFICES ASSUME late = {} PROVE DownloadInv'
      BY <2>0, Zenon DEF DownloadInv
    <3>5. outCount[conn] = wrote /\ reuseBuffer[t] = reuseBuffer[conn]
      BY <1>0, <3>1, ZenonT(40) DEF DownloadInv
    <3>6. \A u \in Conns : u = conn' \/ Copied(u)' => outCount'[u] = wrote'
      BY <1>0, <2>0, <3>1, <3>2, <3>3, <3>5, Zenon
    <3>7. \A u \in Conns : hpc'[u] = "copy" \/ Copied(u)' => reuseBuffer'[u] = reuseBuffer'[conn']
      BY <3>1, <3>3, <3>5, Zenon
    <3>8. DownloadSeamless' /\ Len(downGot') <= wrote' /\ Ends(reuseBuffer[conn], wrote)'
      BY <2>0, <3>1, Zenon DEF DownloadInv, DownloadSeamless, Ends
    <3>9. \A u \in Conns : hpc'[u] \in {"request", "spawn", "copy", "respond"} =>
            req'[u].received = Len(downGot') % Wrap
      BY <2>0, <2>a, <3>1, Zenon DEF DownloadInv
    <3>10. \A u \in Conns : Reading(u)' =>
             /\ Follows(down[u], Len(downGot), wrote)'
             /\ Live(u)' /\ sOpen'[u] => Len(downGot') + Len(down'[u]) = wrote'
      BY <2>0, <3>1, <3>3, <3>4, Zenon DEF DownloadInv, Follows
    <3> QED
      BY <3>6, <3>7, <3>8, <3>9, <3>10, ZenonT(40) DEF DownloadInv
  <2>4. CASE Respond(t)
    <3>1. /\ UNCHANGED <<outCount, reuseBuffer, conn, code>> /\ hpc[t] = "respond"
          /\ \A u \in Conns : sOpen'[u] => sOpen[u]
      BY <1>a, <2>4, Zenon DEF Respond
    <3>2. /\ resp'[t].code = code[t]
          /\ \A u \in Conns : u # t => resp'[u] = resp[u] /\ down'[u] = down[u]
      BY <1>0, <1>a, <2>4, ZenonT(40) DEF Respond
    <3>3. (code[t] = "OK" /\ hpc'[t] = "replace") \/ hpc'[t] = "done"
      BY <1>a, <2>4 DEF Respond
    <3>4. \A u \in Conns : /\ hpc'[u] \notin {"request", "spawn", "copy", "respond"}
                          /\ (Copied(u)' => u = t /\ Copied(t))
                          /\ (Live(u)' => Live(u) \/ u = t)
      BY <2>a, <3>1, <3>3, Zenon DEF Copied, Live
    <3>5. \A u \in Conns : Reading(u)' => u = t /\ code[t] = "OK"
      <4>1. cState # "up"
        BY <2>0, <3>1, Zenon DEF ClientInv
      <4> QED
        BY <2>0, <3>2, <4>1, Zenon DEF Reading
    <3> SUFFICES ASSUME late = {} PROVE DownloadInv'
      BY <2>0, Zenon DEF DownloadInv
    <3>6. DownloadSeamless' /\ Len(downGot') <= wrote' /\ Ends(reuseBuffer[conn], wrote)'
      BY <2>0, <3>1, Zenon DEF DownloadInv, DownloadSeamless, Ends
    <3>7. /\ \A u \in Conns : u = conn' \/ Copied(u)' => outCount'[u] = wrote'
          /\ \A u \in Conns : hpc'[u] = "copy" \/ Copied(u)' => reuseBuffer'[u] = reuseBuffer'[conn']
      BY <1>0, <2>0, <3>1, <3>4, ZenonT(40) DEF DownloadInv
    <3>8. ASSUME code[t] = "OK"
          PROVE  /\ Follows(down'[t], Len(downGot), wrote)
                 /\ Live(t)' /\ sOpen'[t] => Len(downGot) + Len(down'[t]) = wrote
      <4>1. /\ outCount[t] = wrote /\ reuseBuffer[t] = reuseBuffer[conn]
            /\ req[t].received = Len(downGot) % Wrap
        BY <3>1, <3>8, Zenon DEF DownloadInv, Copied
      <4>2. Acceptable(wrote - (Len(downGot) % Wrap), reuseBuffer[conn])
        BY <3>1, <3>8, <4>1, Zenon DEF HandlerInv
      <4>3. Ends(reuseBuffer[conn], wrote) /\ reuseBuffer[conn] \in Seq(Nat) /\ Len(downGot) <= wrote
        BY <1>0, Zenon DEF DownloadInv
      <4>4. Len(downGot) % Wrap = Len(downGot)
        BY <1>0, <4>2, <4>3, NoWrap, Zenon DEF Ends
      <4> DEFINE last == ReadLastBytes(reuseBuffer[conn], wrote - Len(downGot))
      <4>5. Resent(t) = last
        BY <4>1, <4>4, Zenon DEF Resent
      <4>6. /\ Follows(last, Len(downGot), wrote) /\ Len(last) = wrote - Len(downGot)
            /\ \A k \in 0 .. wrote - Len(downGot) : Follows(SubSeq(last, 1, k), Len(downGot), wrote)
        BY <1>0, <4>2, <4>3, <4>4, FollowsLast, Zenon
      <4> HIDE DEF last
      <4>7. \/ down'[t] = last
            \/ \E k \in 0 .. Len(last) - 1 : down'[t] = SubSeq(last, 1, k) /\ ~sOpen'[t]
        <5>1. CASE down' = [down EXCEPT ![t] = Resent(t)]
          BY <1>0, <4>5, <5>1, Zenon
        <5>2. ASSUME NEW k \in 0 .. Len(last) - 1, down' = [down EXCEPT ![t] = SubSeq(last, 1, k)],
                     sOpen' = [sOpen EXCEPT ![t] = FALSE]
              PROVE  down'[t] = SubSeq(last, 1, k) /\ ~sOpen'[t]
          BY <1>0, <1>a, <5>2, Zenon
        <5> QED
          BY <2>4, <3>8, <4>5, <5>1, <5>2, ZenonT(40) DEF Respond
      <4>8. \A k \in 0 .. Len(last) - 1 : k \in 0 .. wrote - Len(downGot)
        BY <1>0, <4>3, <4>6
      <4>9. Follows(down'[t], Len(downGot), wrote)
        BY <4>6, <4>7, <4>8, ZenonT(40)
      <4>10. sOpen'[t] => down'[t] = last
        BY <4>7
      <4>11. Len(downGot) + Len(last) = wrote
        BY <1>0, <4>6, SMTT(30)
      <4> QED
        BY <4>9, <4>10, <4>11, ZenonT(40)
    <3>9. \A u \in Conns : Reading(u)' =>
             /\ Follows(down[u], Len(downGot), wrote)'
             /\ Live(u)' /\ sOpen'[u] => Len(downGot') + Len(down'[u]) = wrote'
      BY <2>0, <3>5, <3>8, Zenon DEF Follows
    <3> QED
      BY <3>4, <3>6, <3>7, <3>9, ZenonT(40) DEF DownloadInv
  <2>5. CASE ReplaceConn(t)
    <3>1. /\ UNCHANGED <<outCount, reuseBuffer, down, resp, code>>
          /\ hpc[t] = "replace" /\ hpc'[t] = "done" /\ conn' \in {conn, t}
      BY <1>a, <2>5 DEF ReplaceConn
    <3>2. \A u \in Conns : sOpen'[u] => sOpen[u]
      BY <1>a, <2>5, ZenonT(40) DEF ReplaceConn
    <3>3. \A u \in Conns : /\ Live(u)' => Live(u)
                          /\ (u = conn' \/ Copied(u)' => u = conn \/ Copied(u))
                          /\ hpc'[u] \notin {"request", "spawn", "copy", "respond"} /\ ~Copied(u)'
      BY <2>a, <3>1 DEF Copied, Live
    <3>4. \A u \in Conns : Reading(u)' => Reading(u)
      BY <2>0, <3>1, Zenon DEF Reading
    <3>5. late = {} => reuseBuffer[conn'] = reuseBuffer[conn]
      BY <3>1, Zenon DEF DownloadInv, Copied
    <3> QED
      BY <2>0, <3>1, <3>2, <3>3, <3>4, <3>5, DownloadFrame, ZenonT(40)
  <2> QED
    BY <1>5, <2>1, <2>2, <2>3, <2>4, <2>5, ZenonT(40) DEF Handler
<1>6. CASE Write
  <2> DEFINE c == held["s2c"]
  <2>1. /\ wrote' = wrote + 1 /\ c \in Conns
        /\ UNCHANGED <<downGot, conn, hpc, code, req, sOpen, cState, cConn, cLast, resp>>
    BY <1>6 DEF Write, TypeOK, Pumps
  <2> SUFFICES ASSUME late' = {} PROVE DownloadInv'
    BY Zenon DEF DownloadInv
  <2>2. late = {} /\ ~spawned[c]
    BY <1>6, ZenonT(40) DEF Write
  <2>3. c = conn
    BY <2>2, ZenonT(40) DEF Control, Pumps
  <2>4. \A t \in Conns : ~Copied(t) /\ hpc[t] # "copy" /\ (Live(t) => t = conn)
    BY <2>2, <2>3, Zenon DEF Control, Copied, Live
  <2>5. /\ outCount'[conn] = outCount[conn] + 1
        /\ reuseBuffer'[conn] = BufWrite(reuseBuffer[conn], wrote + 1)
        /\ down'[conn] = IF sOpen[conn] THEN Append(down[conn], wrote + 1) ELSE down[conn]
        /\ \A t \in Conns : t # conn => down'[t] = down[t]
    BY <1>0, <1>6, <2>3, Zenon DEF Write
  <2>6. /\ outCount[conn] = wrote /\ Ends(reuseBuffer[conn], wrote) /\ reuseBuffer[conn] \in Seq(Nat)
        /\ Len(downGot) <= wrote /\ down[conn] \in Seq(Nat)
    BY <1>0, <2>2, ZenonT(40) DEF DownloadInv
  <2>7. Ends(reuseBuffer[conn], wrote)' /\ outCount'[conn'] = wrote'
    <3>1. Ends(BufWrite(reuseBuffer[conn], wrote + 1), wrote + 1)
      BY <1>0, <2>6, EndsWrite
    <3>2. Ends(reuseBuffer'[conn'], wrote')
      BY <2>1, <2>5, <3>1, Zenon
    <3>3. outCount'[conn'] = wrote'
      BY <2>1, <2>5, <2>6, Zenon
    <3> QED
      BY <3>2, <3>3, Zenon
  <2>8. DownloadSeamless' /\ Len(downGot') <= wrote'
    <3>1. DownloadSeamless
      BY <2>2, ZenonT(40) DEF DownloadInv
    <3>2. DownloadSeamless'
      BY <2>1, <3>1, SMTT(30) DEF DownloadSeamless
    <3>3. wrote \in Nat /\ Len(downGot) \in Nat /\ Len(downGot) <= wrote
      BY <1>0, <2>6
    <3>4. Len(downGot) <= wrote + 1
      BY <3>3
    <3>5. Len(downGot') <= wrote'
      BY <2>1, <3>4, Zenon
    <3> QED
      BY <3>2, <3>5
  <2>9. \A t \in Conns : ~Copied(t)' /\ hpc'[t] # "copy" /\ (Live(t)' <=> Live(t))
                        /\ (Reading(t)' <=> Reading(t))
    BY <2>1, <2>4, SMTT(30) DEF Copied, Live, Reading
  <2>10. \A t \in Conns : hpc'[t] \in {"request", "spawn", "copy", "respond"} =>
           req'[t].received = Len(downGot') % Wrap
    BY <2>1, <2>2, ZenonT(40) DEF DownloadInv
  <2>11. ASSUME NEW t \in Conns, Reading(t)
         PROVE  /\ Follows(down'[t], Len(downGot), wrote + 1)
                /\ Live(t) /\ sOpen[t] => Len(downGot) + Len(down'[t]) = wrote + 1
    <3>1. Follows(down[t], Len(downGot), wrote) /\ down[t] \in Seq(Nat) /\ Len(down[t]) \in Nat
      BY <1>0, <2>2, <2>11, SeqLen, ZenonT(40) DEF DownloadInv
    <3>2. CASE t = conn /\ sOpen[conn]
      <4>1. Len(downGot) + Len(down[t]) = wrote
        BY <2>2, <2>11, <3>2, ZenonT(40) DEF DownloadInv, Live
      <4>2. /\ Follows(Append(down[t], wrote + 1), Len(downGot), wrote + 1)
            /\ Len(downGot) + Len(Append(down[t], wrote + 1)) = wrote + 1
        BY <1>0, <3>1, <4>1, FollowsAppend, Zenon
      <4>3. down'[t] = Append(down[t], wrote + 1)
        BY <2>5, <3>2, SMTT(30)
      <4> QED
        BY <4>2, <4>3
    <3>3. CASE ~(t = conn /\ sOpen[conn])
      <4>1. down'[t] = down[t] /\ ~(Live(t) /\ sOpen[t])
        BY <2>4, <2>5, <3>3, SMTT(30)
      <4>2. Follows(down[t], Len(downGot), wrote + 1)
        BY <1>0, <3>1, SMTT(30) DEF Follows
      <4> QED
        BY <4>1, <4>2, ZenonT(40)
    <3> QED
      BY <3>2, <3>3
  <2>12. \A t \in Conns : Reading(t)' =>
           /\ Follows(down[t], Len(downGot), wrote)'
           /\ Live(t)' /\ sOpen'[t] => Len(downGot') + Len(down'[t]) = wrote'
    <3> SUFFICES ASSUME NEW t \in Conns, Reading(t)
                 PROVE  /\ Follows(down[t], Len(downGot), wrote)'
                        /\ Live(t) /\ sOpen[t] => Len(downGot') + Len(down'[t]) = wrote'
      BY <2>1, <2>9, ZenonT(40)
    <3>1. /\ Follows(down'[t], Len(downGot), wrote + 1)
          /\ Live(t) /\ sOpen[t] => Len(downGot) + Len(down'[t]) = wrote + 1
      BY <2>11, Zenon
    <3> QED
      BY <2>1, <3>1 DEF Follows
  <2> QED
    BY <2>7, <2>8, <2>9, <2>10, <2>12, ZenonT(40) DEF DownloadInv
<1>7. ASSUME \/ \E t \in Conns : ServerDrop(t)
             \/ \E p \in Pumps : Pump(p)
             \/ Read \/ CloseSession \/ RemoveConnPair
      PROVE  DownloadInv'
  <2>1. UNCHANGED <<downGot, wrote, outCount, reuseBuffer, down, late, conn, hpc, code, req,
                    cState, cConn, cLast, resp>>
    BY <1>7, Zenon DEF ServerDrop, Pump, Acquire, CheckHandshake, Freeze, SetConnError, Read,
                CloseSession, RemoveConnPair
  <2>2. \A t \in Conns : sOpen'[t] => sOpen[t]
    BY <1>a, <1>7, ZenonT(40) DEF ServerDrop, Pump, Acquire, CheckHandshake, Freeze, SetConnError, Read,
                CloseSession, RemoveConnPair
  <2>3. \A t \in Conns : Reading(t)' => Reading(t)
    BY <2>1 DEF Reading
  <2> QED
    BY <2>1, <2>2, <2>3, DownloadQuiet, Zenon
<1> QED
  BY <1>1, <1>2, <1>3, <1>4, <1>5, <1>6, <1>7, ZenonT(40) DEF Next, Client

-----------------------------------------------------------------------------
(* The first handshake leaves a session with nothing sent and no handler.   *)
LEMMA InitInv == Init => Control /\ ClientInv /\ UploadInv /\ DownloadInv
<1> SUFFICES ASSUME Init PROVE Control /\ ClientInv /\ UploadInv /\ DownloadInv
  OBVIOUS
<1>0. 0 \in Conns /\ 0 \in Nat /\ Cap \in Nat /\ \A t \in Conns : t \in Nat
  BY SessionAssumption DEF Conns
<1>1. Control
  BY Zenon DEF Init, Control, Active, Copied
<1>2. ClientInv
  <2>1. /\ cConn = 0 /\ cLast = 0
        /\ \A t \in Conns : /\ hpc[t] = "none" /\ resp[t].code = "none"
                           /\ up[t] = <<>> /\ down[t] = <<>>
    BY SMTT(30) DEF Init, NoResp
  <2>2. \A t \in Conns : t = 0 \/ t > cLast
    BY <1>0, <2>1
  <2> QED
    BY <1>0, <2>1, <2>2, SMTT(30) DEF ClientInv
<1>3. \A n \in Nat : Ends(<<>>, n) /\ Follows(<<>>, 0, n)
  BY <1>0 DEF Ends, Follows
<1>4. UploadInv
  <2>1. /\ cState = "up" /\ cSent = 0 /\ cBuf = <<>> /\ upGot = <<>> /\ cConn = 0
        /\ \A t \in Conns : up[t] = <<>> /\ inCount[t] = 0 /\ hpc[t] = "none"
    BY DEF Init
  <2>2. Len(upGot) = 0 /\ UploadIntact
    BY <2>1, SMTT(30) DEF UploadIntact
  <2>3. Ends(cBuf, cSent) /\ \A t \in Conns : Follows(up[t], inCount[t], cSent)
    BY <1>3, <2>1, SMTT(30)
  <2>4. inCount[cConn] + Len(up[cConn]) = cSent
    BY <1>0, <2>1
  <2> QED
    BY <2>1, <2>2, <2>3, <2>4, ZenonT(40) DEF UploadInv
<1>5. DownloadInv
  <2>1. /\ cState = "up" /\ wrote = 0 /\ downGot = <<>> /\ conn = 0
        /\ \A t \in Conns : /\ down[t] = <<>> /\ outCount[t] = 0 /\ hpc[t] = "none"
                           /\ reuseBuffer[t] = <<>>
    BY SMTT(30) DEF Init
  <2>2. Len(downGot) = 0 /\ DownloadSeamless
    BY <2>1, SMTT(30) DEF DownloadSeamless
  <2>3. Ends(reuseBuffer[conn], wrote)
    BY <1>0, <1>3, <2>1, SMTT(30)
  <2>4. \A t \in Conns : Follows(down[t], Len(downGot), wrote) /\ Len(downGot) + Len(down[t]) = wrote
    BY <1>3, <2>1, <2>2, SMTT(30)
  <2>5. \A t \in Conns : ~Copied(t)
    BY <2>1, SMTT(30) DEF Copied
  <2>6. Len(downGot) <= wrote
    BY <2>1, <2>2, SMTT(30)
  <2>7. \A t \in Conns : outCount[t] = wrote
    BY <2>1, SMTT(30)
  <2> QED
    BY <2>1, <2>2, <2>3, <2>4, <2>5, <2>6, <2>7, ZenonT(40) DEF DownloadInv
<1> QED
  BY <1>1, <1>2, <1>4, <1>5

(* Steps that change nothing change no invariant.                           *)
LEMMA StutterInv ==
  ASSUME UNCHANGED vars
  PROVE  /\ Control => Control'
         /\ ClientInv => ClientInv'
         /\ UploadInv => UploadInv'
         /\ DownloadInv => DownloadInv'
<1> USE DEF vars, netVars, clientVars, connVars, sessVars, pumpVars, handVars, dataVars
<1>1. Control => Control'
  BY Zenon DEF Control, Active, Copied
<1>2. ClientInv => ClientInv'
  BY Zenon DEF ClientInv
<1>3. UploadInv => UploadInv'
  BY Zenon DEF UploadInv, UploadIntact, Ends, Follows, Copied, Live
<1>4. DownloadInv => DownloadInv'
  BY Zenon DEF DownloadInv, DownloadSeamless, Ends, Follows, Copied, Live, Reading
<1> QED
  BY <1>1, <1>2, <1>3, <1>4

(* The invariants of the two directions hold in every reachable state.      *)
THEOREM DownloadInvariance ==
  ASSUME Reconnects = "spaced"
  PROVE  Spec => [](TypeOK /\ HandlerInv /\ Control /\ ClientInv /\ DownloadInv)
<1> DEFINE Inv == Control /\ ClientInv /\ DownloadInv
<1>1. Init => Inv
  BY InitInv
<1>2. TypeOK /\ HandlerInv /\ Inv /\ [Next]_vars => Inv'
  BY ControlStep, ClientInvStep, DownloadStep, StutterInv
<1> QED
  BY <1>1, <1>2, TypeCorrect, PTL DEF Spec

(* The one of the upload needs a transport whose reads fail once closed.    *)
THEOREM UploadInvariance ==
  ASSUME Reconnects = "spaced", Transport = "tcp"
  PROVE  Spec => [](TypeOK /\ HandlerInv /\ Control /\ ClientInv /\ UploadInv)
<1> DEFINE Inv == Control /\ ClientInv /\ UploadInv
<1>1. Init => Inv
  BY InitInv
<1>2. TypeOK /\ HandlerInv /\ Inv /\ [Next]_vars => Inv'
  BY ControlStep, ClientInvStep, UploadStep, StutterInv
<1> QED
  BY <1>1, <1>2, TypeCorrect, PTL DEF Spec

(* Whatever breaks and however often the client reuses the session, what    *)
(* the client reads is the stream goscon wrote, up to a late Write: the     *)
(* resend of serverReuseHandshake starts exactly at the first missing byte. *)
THEOREM DownloadCorrect ==
  ASSUME Reconnects = "spaced"
  PROVE  Spec => []DownloadIntact
<1>1. DownloadInv => DownloadIntact
  BY Zenon DEF DownloadInv, DownloadIntact
<1> QED
  BY <1>1, DownloadInvariance, PTL

(* What goscon reads from the client, and passes upstream, is the stream    *)
(* the client wrote: the resend of clientReuseHandshake neither leaves a    *)
(* hole nor repeats a byte, over any number of broken transports.           *)
THEOREM UploadCorrect ==
  ASSUME Reconnects = "spaced", Transport = "tcp"
  PROVE  Spec => []UploadIntact
<1>1. UploadInv => UploadIntact
  BY Zenon DEF UploadInv
<1> QED
  BY <1>1, UploadInvariance, PTL

-----------------------------------------------------------------------------
(* What is read next is the byte that the stream is to deliver next.        *)
LEMMA NextByte ==
  ASSUME NEW q \in Seq(Nat), NEW got \in Seq(Nat), NEW m \in Nat, q # <<>>,
         Follows(q, Len(got), m)
  PROVE  Decrypt(Head(q), Len(got) + 1) = Len(got) + 1 /\ Len(got) < m
<1>1. Len(got) \in Nat
  BY SeqLen
<1>2. Head(q) = Len(got) + 1 /\ Len(got) + 1 <= m
  BY <1>1, FollowsTail
<1> QED
  BY <1>1, <1>2 DEF Decrypt

(* The upload implements the abstract byte stream: what Read returns is the *)
(* next byte of the client, and one it has written.                         *)
THEOREM UploadImplements ==
  ASSUME Reconnects = "spaced", Transport = "tcp"
  PROVE  Spec => UploadStream
<1> USE DEF connVars, sessVars, pumpVars, handVars, dataVars, clientVars, netVars
<1>1. Init => Upload!Init
  BY DEF Init, Upload!Init
<1>2. ASSUME TypeOK, HandlerInv, Control, UploadInv, [Next]_vars
      PROVE  [Upload!Next]_<<cSent, upGot, FALSE>>
  <2>1. CASE ClientWrite
    BY <2>1 DEF ClientWrite, Upload!Next, Upload!Accept
  <2>2. CASE Read /\ upGot' # upGot
    <3> DEFINE c == held["c2s"]
    <3>1. /\ sOpen[c] /\ up[c] # <<>> /\ UNCHANGED cSent
          /\ upGot' = Append(upGot, Decrypt(Head(up[c]), Len(upGot) + 1))
      BY <2>2, Zenon DEF Read
    <3>2. c \in Conns /\ ~Active(c)
      BY <1>2, Zenon DEF TypeOK, HandlerInv, Pumps
    <3>3. c = conn
      BY <1>2, <3>1, <3>2, ZenonT(40) DEF Control
    <3>4. inCount[c] = Len(upGot) /\ Follows(up[c], inCount[c], cSent)
      BY <1>2, <3>2, <3>3 DEF UploadInv, Live
    <3>5. up[c] \in Seq(Nat) /\ upGot \in Seq(Nat) /\ cSent \in Nat
      BY <1>2, <3>2, ZenonT(40) DEF TypeOK
    <3> HIDE DEF c
    <3>6. Follows(up[c], Len(upGot), cSent)
      BY <3>4
    <3>7. Len(upGot) < cSent /\ upGot' = Append(upGot, Len(upGot) + 1)
      BY <3>1, <3>5, <3>6, NextByte
    <3> QED
      BY <3>1, <3>7, Zenon DEF Upload!Next, Upload!Deliver
  <2>3. CASE UNCHANGED <<cSent, upGot>>
    BY <2>3
  <2>4. ClientWrite \/ (Read /\ upGot' # upGot) \/ UNCHANGED <<cSent, upGot>>
    <3>1. \A t \in Conns : Handler(t) => UNCHANGED <<cSent, upGot>>
      BY <1>2, HandlerStep, Zenon
    <3>2. Read => upGot' # upGot \/ UNCHANGED <<cSent, upGot>>
      BY Zenon DEF Read
    <3>3. Client => ClientWrite \/ UNCHANGED <<cSent, upGot>>
      BY ZenonT(40) DEF Client, ClientRead, ClientDrop, ClientReconnect, ClientGiveUp, ClientReuseHandshake
    <3>4. \A p \in Pumps : Pump(p) => UNCHANGED <<cSent, upGot>>
      BY Zenon DEF Pump, Acquire, CheckHandshake, Freeze, SetConnError
    <3>5. \A t \in Conns : ServerDrop(t) => UNCHANGED <<cSent, upGot>>
      BY Zenon DEF ServerDrop
    <3>6. Write \/ CloseSession \/ RemoveConnPair \/ UNCHANGED vars => UNCHANGED <<cSent, upGot>>
      BY Zenon DEF Write, CloseSession, RemoveConnPair, vars
    <3> QED
      BY <1>2, <3>1, <3>2, <3>3, <3>4, <3>5, <3>6, Zenon DEF Next
  <2> QED
    BY <2>1, <2>2, <2>3, <2>4
<1> QED
  BY <1>1, <1>2, UploadInvariance, PTL DEF Spec, UploadStream, Upload!Spec

(* So does the download, as a stream that turns faulty with a late Write.   *)
THEOREM DownloadImplements ==
  ASSUME Reconnects = "spaced"
  PROVE  Spec => DownloadStream
<1> USE DEF connVars, sessVars, pumpVars, handVars, dataVars, clientVars, netVars
<1>1. Init => Download!Init
  BY DEF Init, Download!Init
<1>2. ASSUME TypeOK, HandlerInv, Control, DownloadInv, [Next]_vars
      PROVE  [Download!Next]_<<wrote, downGot, late # {}>>
  <2>1. CASE Write
    <3>1. wrote' = wrote + 1 /\ UNCHANGED downGot /\ (late # {} => late' # {})
      BY <2>1, Zenon DEF Write
    <3>2. (late' # {}) \in {late # {}, TRUE}
      BY <3>1, Zenon
    <3> QED
      BY <3>1, <3>2, Zenon DEF Download!Next, Download!Accept
  <2>2. CASE ClientRead
    <3>1. /\ cState = "up" /\ down[cConn] # <<>> /\ UNCHANGED <<wrote, late>>
          /\ downGot' = Append(downGot, Decrypt(Head(down[cConn]), Len(downGot) + 1))
      BY <2>2 DEF ClientRead
    <3>2. CASE late = {}
      <4>1. /\ down[cConn] \in Seq(Nat) /\ downGot \in Seq(Nat) /\ wrote \in Nat
            /\ cConn \in Conns
        BY <1>2, Zenon DEF TypeOK
      <4>2. Follows(down[cConn], Len(downGot), wrote)
        BY <1>2, <3>1, <3>2, <4>1, Zenon DEF DownloadInv, Reading
      <4>3. Len(downGot) < wrote /\ downGot' = Append(downGot, Len(downGot) + 1)
        BY <3>1, <4>1, <4>2, NextByte, ZenonT(40)
      <4> QED
        BY <3>1, <4>3 DEF Download!Next, Download!Deliver
    <3>3. CASE late # {}
      <4>1. downGot' \in {Append(downGot, 0), Append(downGot, Len(downGot) + 1)}
        BY <3>1 DEF Decrypt
      <4> QED
        BY <3>1, <3>3, <4>1 DEF Download!Next, Download!Garble
    <3> QED
      BY <3>2, <3>3
  <2>3. CASE UNCHANGED <<wrote, downGot, late>>
    BY <2>3, Zenon
  <2>4. Write \/ ClientRead \/ UNCHANGED <<wrote, downGot, late>>
    <3>1. \A t \in Conns : Handler(t) => UNCHANGED <<wrote, downGot, late>>
      BY <1>2, HandlerStep, Zenon
    <3>2. Client => ClientRead \/ UNCHANGED <<wrote, downGot, late>>
      BY ZenonT(40) DEF Client, ClientWrite, ClientDrop, ClientReconnect, ClientGiveUp, ClientReuseHandshake
    <3>3. \A p \in Pumps : Pump(p) => UNCHANGED <<wrote, downGot, late>>
      BY Zenon DEF Pump, Acquire, CheckHandshake, Freeze, SetConnError
    <3>4. \A t \in Conns : ServerDrop(t) => UNCHANGED <<wrote, downGot, late>>
      BY DEF ServerDrop
    <3>5. Read \/ CloseSession \/ RemoveConnPair \/ UNCHANGED vars =>
            UNCHANGED <<wrote, downGot, late>>
      BY Zenon DEF Read, CloseSession, RemoveConnPair, vars
    <3> QED
      BY <1>2, <3>1, <3>2, <3>3, <3>4, <3>5, Zenon DEF Next
  <2> QED
    BY <2>1, <2>2, <2>3, <2>4
<1> QED
  BY <1>1, <1>2, DownloadInvariance, PTL DEF Spec, DownloadStream, Download!Spec

-----------------------------------------------------------------------------
(* Who is told that the session is gone, and what a request's index is      *)
(* compared with.                                                           *)
GoneInv ==
  /\ pair = "removed" => connErr = "closed"
  /\ \A p \in Pumps : pc[p] = "done" => connErr = "closed"
  /\ closed[conn] => connErr = "closed"
  /\ \A t \in Conns : Active(t) \/ (hpc[t] = "none" /\ t # 0) => ~closed[t]
  /\ \A t \in Conns : hpc[t] = "respond" /\ code[t] = "IDNotFound" => connErr = "closed"
  /\ \A t \in Conns : hpc[t] \in {"spawn", "copy"} \/ Copied(t) =>
       handshakes[t] > handshakes[conn]

(* The steps that neither close a conn nor end or answer anything.          *)
LEMMA GoneFrame ==
  ASSUME GoneInv, UNCHANGED <<pair, conn, connErr, closed, handshakes, code>>,
         \A p \in Pumps : pc'[p] = "done" => pc[p] = "done",
         \A t \in Conns : \/ hpc'[t] = hpc[t]
                         \/ (hpc[t] = "none" /\ t # 0 /\ hpc'[t] = "request")
  PROVE  GoneInv'
  BY Zenon DEF GoneInv, Active, Copied

(* A request whose index is not expired has a greater one.                  *)
LEMMA Below ==
  ASSUME NEW n \in Nat, NEW h \in Nat, ~(h >= n)
  PROVE  n > h
  OBVIOUS

(* Each step of a handler.                                                  *)
LEMMA GoneHandler ==
  ASSUME TypeOK, HandlerInv, Control, ClientInv, GoneInv, NEW t \in Conns, Handler(t)
  PROVE  GoneInv'
<1> USE DEF connVars, sessVars, pumpVars, handVars, dataVars, clientVars, netVars
<1>0. /\ hpc \in [Conns -> {"none", "request", "spawn", "copy", "respond", "replace", "done"}]
      /\ code \in [Conns -> Codes] /\ handshakes \in [Conns -> Nat]
      /\ closed \in [Conns -> BOOLEAN] /\ conn \in Conns /\ pair \in {"held", "removed"}
      /\ cLast \in Conns
  BY Zenon DEF TypeOK
<1>1. /\ Active(t) /\ t # conn /\ t # 0 /\ UNCHANGED pumpVars
      /\ \A u \in Conns : u # t => /\ ~Active(u) /\ hpc'[u] = hpc[u] /\ ~Copied(u)
                                  /\ hpc[u] \in {"none", "done"}
  BY HandlerStep, Zenon
<1>2. hpc[conn] = "none" => conn = 0
  <2>1. conn <= cLast
    BY Zenon DEF HandlerInv
  <2>2. hpc[conn] = "none" => conn = 0 \/ conn > cLast
    BY <1>0, Zenon DEF ClientInv
  <2>3. conn \in Int /\ cLast \in Int
    BY <1>0 DEF Conns
  <2> QED
    BY <2>1, <2>2, <2>3
<1>3. CASE QueryByID(t)
  <2>1. /\ hpc[t] = "request" /\ UNCHANGED <<pair, conn, connErr, closed>>
        /\ \A u \in Conns : u # t => code'[u] = code[u] /\ handshakes'[u] = handshakes[u]
        /\ \/ hpc'[t] = "respond" /\ code'[t] = "IDNotFound" /\ pair = "removed"
           \/ hpc'[t] = "respond" /\ code'[t] = "Expired"
           \/ hpc'[t] = "spawn" /\ handshakes'[t] > handshakes[conn]
    <3>1. PICK n \in Nat : n = req[t].handshakes
      BY Zenon DEF TypeOK
    <3>2. PICK h \in Nat : h = handshakes[conn]
      BY <1>0, Zenon
    <3>3. ~IndexExpired(t) => n > h
      <4>1. ~IndexExpired(t) => ~(h >= n)
        BY <3>1, <3>2, Zenon DEF IndexExpired
      <4> QED
        BY <4>1, Below, Zenon
    <3>4. ~registered => pair = "removed"
      BY <1>0, ZenonT(40) DEF registered
    <3> QED
      BY <1>0, <1>3, <3>1, <3>2, <3>3, <3>4, ZenonT(40) DEF QueryByID
  <2> QED
    BY <1>0, <1>1, <2>1, SMTT(30) DEF GoneInv, Active, Copied, Codes
<1>4. CASE RequestLost(t) \/ RespondFails(t) \/ (Respond(t) /\ hpc'[t] = "done")
  <2>1. /\ hpc'[t] = "done" /\ UNCHANGED <<pair, conn, connErr, handshakes, code>>
        /\ \A u \in Conns : u # t => closed'[u] = closed[u]
    BY <1>0, <1>4, Zenon DEF RequestLost, RespondFails, Respond, CloseConn
  <2> QED
    BY <1>0, <1>1, <2>1, SMTT(30) DEF GoneInv, Active, Copied
<1>5. CASE SpawnFreeze(t)
  <2>1. /\ hpc[t] = "spawn" /\ UNCHANGED <<pair, conn, connErr, closed, handshakes>>
        /\ \A u \in Conns : u # t => code'[u] = code[u]
        /\ \/ hpc'[t] = "respond" /\ code'[t] = "IDNotFound" /\ closed[oldConn[t]]
           \/ hpc'[t] = "copy" /\ UNCHANGED code
    BY <1>0, <1>5, SMTT(30) DEF SpawnFreeze, FreezeConn
  <2>2. oldConn[t] = conn
    BY <2>1, Zenon DEF Control
  <2> QED
    BY <1>0, <1>1, <2>1, <2>2, ZenonT(40) DEF GoneInv, Active, Copied
<1>6. CASE SpawnCopy(t)
  <2>1. /\ hpc[t] = "copy" /\ UNCHANGED <<pair, conn, connErr, closed, handshakes>>
        /\ \A u \in Conns : u # t => code'[u] = code[u]
        /\ hpc'[t] = "respond" /\ code'[t] \in {"OK", "NotAcceptable"}
    BY <1>0, <1>6, Zenon DEF SpawnCopy
  <2> QED
    BY <1>0, <1>1, <2>1, Zenon DEF GoneInv, Active, Copied
<1>7. CASE Respond(t) /\ hpc'[t] # "done"
  <2>1. /\ hpc[t] = "respond" /\ hpc'[t] = "replace" /\ code[t] = "OK"
        /\ UNCHANGED <<pair, conn, connErr, closed, handshakes, code>>
    BY <1>0, <1>7, Zenon DEF Respond
  <2> QED
    BY <1>0, <1>1, <2>1, Zenon DEF GoneInv, Active, Copied
<1>8. CASE ReplaceConn(t)
  <2>1. /\ hpc[t] = "replace" /\ hpc'[t] = "done" /\ UNCHANGED <<handshakes, code, pair>>
        /\ \/ /\ UNCHANGED <<conn, connErr>>
              /\ \A u \in Conns : u # t => closed'[u] = closed[u]
           \/ /\ pair = "held" /\ connErr # "closed" /\ conn' = t /\ connErr' = "nil"
              /\ \A u \in Conns : u # conn => closed'[u] = closed[u]
    BY <1>0, <1>8, Zenon DEF ReplaceConn, CloseConn, registered, connClosed
  <2>2. CASE UNCHANGED <<conn, connErr>> /\ \A u \in Conns : u # t => closed'[u] = closed[u]
    BY <1>0, <1>1, <2>1, <2>2, Zenon DEF GoneInv, Active, Copied
  <2>3. CASE /\ pair = "held" /\ connErr # "closed" /\ conn' = t /\ connErr' = "nil"
             /\ \A u \in Conns : u # conn => closed'[u] = closed[u]
    <3>1. \A u \in Conns : ~Active(u)' /\ ~Copied(u)' /\ hpc'[u] \notin {"spawn", "copy", "respond"}
      BY <1>1, <2>1, Zenon DEF Active, Copied
    <3>2. ~closed'[t] /\ \A u \in Conns : hpc'[u] = "none" /\ u # 0 => ~closed'[u]
      BY <1>0, <1>1, <1>2, <2>1, <2>3, Zenon DEF GoneInv
    <3>3. \A p \in Pumps : pc'[p] # "done"
      BY <1>1, <2>3, Zenon DEF GoneInv
    <3> QED
      BY <2>1, <2>3, <3>1, <3>2, <3>3, Zenon DEF GoneInv
  <2> QED
    BY <2>1, <2>2, <2>3, Zenon
<1> QED
  BY <1>3, <1>4, <1>5, <1>6, <1>7, <1>8 DEF Handler

(* The other steps.                                                         *)
LEMMA GoneStep ==
  ASSUME TypeOK, HandlerInv, Control, ClientInv, GoneInv, [Next]_vars
  PROVE  GoneInv'
<1> USE DEF connVars, sessVars, pumpVars, handVars, dataVars, clientVars, netVars
<1>0. /\ hpc \in [Conns -> {"none", "request", "spawn", "copy", "respond", "replace", "done"}]
      /\ pc \in [Pumps -> {"acquire", "check", "io", "freeze", "report", "done"}]
      /\ closed \in [Conns -> BOOLEAN] /\ conn \in Conns /\ cLast \in Conns
  BY Zenon DEF TypeOK
<1>1. CASE Client
  <2>1. UNCHANGED <<pair, conn, connErr, closed, handshakes, code, pc>>
    BY <1>1, Zenon DEF Client, ClientWrite, ClientRead, ClientDrop, ClientReconnect, ClientGiveUp,
                ClientReuseHandshake
  <2>2. \A t \in Conns : hpc'[t] = hpc[t] \/ (hpc[t] = "none" /\ t # 0 /\ hpc'[t] = "request")
    <3>1. CASE ClientReconnect
      <4>1. (cLast + 1 \in Conns => hpc[cLast + 1] = "none") /\ cLast + 1 # 0
        BY <1>0 DEF HandlerInv, Conns
      <4> QED
        BY <1>0, <3>1, <4>1, ZenonT(40) DEF ClientReconnect
    <3>2. CASE ~ClientReconnect
      BY <1>1, <3>2, ZenonT(40) DEF Client, ClientWrite, ClientRead, ClientDrop, ClientGiveUp,
                        ClientReuseHandshake
    <3> QED
      BY <3>1, <3>2, Zenon
  <2> QED
    BY <2>1, <2>2, GoneFrame, Zenon
<1>2. ASSUME NEW t \in Conns, ServerDrop(t) PROVE GoneInv'
  BY <1>2, GoneFrame DEF ServerDrop
<1>3. CASE Read \/ Write \/ UNCHANGED vars
  BY <1>0, <1>3, GoneFrame, ZenonT(40) DEF Read, Write, vars
<1>4. ASSUME NEW p \in Pumps, Pump(p) PROVE GoneInv'
  <2>1. CASE Acquire(p)
    <3>1. /\ UNCHANGED <<pair, conn, connErr, closed, handshakes, code, hpc>>
          /\ \A q \in Pumps : pc'[q] = "done" => pc[q] = "done" \/ connErr = "closed"
      BY <1>0, <2>1, Zenon DEF Acquire, connClosed
    <3> QED
      BY <3>1, Zenon DEF GoneInv, Active, Copied
  <2>2. CASE CheckHandshake(p) \/ Freeze(p)
    BY <1>0, <2>2, GoneFrame, Zenon DEF CheckHandshake, Freeze, FreezeConn
  <2>3. CASE SetConnError(p)
    <3>1. /\ UNCHANGED <<pair, conn, closed, handshakes, code, hpc>>
          /\ connErr = "closed" => connErr' = "closed"
          /\ \A q \in Pumps : pc'[q] = "done" => pc[q] = "done"
      BY <1>0, <2>3, Zenon DEF SetConnError, Failed, connClosed
    <3> QED
      BY <3>1, Zenon DEF GoneInv, Active, Copied
  <2> QED
    BY <1>4, <2>1, <2>2, <2>3, Zenon DEF Pump
<1>5. CASE CloseSession
  <2>1. /\ connErr' = "closed" /\ UNCHANGED <<pair, conn, handshakes, code, hpc, pc>>
        /\ \A u \in Conns : u # conn => closed'[u] = closed[u]
    BY <1>0, <1>5, ZenonT(40) DEF CloseSession, CloseConn
  <2>2. ~Active(conn) /\ (hpc[conn] = "none" => conn = 0)
    BY <1>0 DEF HandlerInv, ClientInv, Conns
  <2> QED
    BY <1>0, <2>1, <2>2, Zenon DEF GoneInv, Active, Copied
<1>6. CASE RemoveConnPair
  <2>1. /\ UNCHANGED <<conn, connErr, closed, handshakes, code, hpc, pc>>
        /\ \A p \in Pumps : pc[p] = "done"
    BY <1>6 DEF RemoveConnPair
  <2>2. connErr = "closed"
    BY <2>1 DEF GoneInv, Pumps
  <2> QED
    BY <2>1, <2>2 DEF GoneInv, Active, Copied
<1> QED
  BY <1>1, <1>2, <1>3, <1>4, <1>5, <1>6, GoneHandler, SMTT(30) DEF Next

(* Every answer and every index rests on the session's state at the time.   *)
THEOREM GoneInvariance ==
  ASSUME Reconnects = "spaced"
  PROVE  Spec => []GoneInv
<1>1. Init => GoneInv
  <2>1. 0 \in Conns
    BY SessionAssumption DEF Conns
  <2> QED
    BY <2>1 DEF Init, GoneInv, Active, Copied
<1>2. TypeOK /\ HandlerInv /\ Control /\ ClientInv /\ GoneInv /\ [Next]_vars => GoneInv'
  BY GoneStep
<1> QED
  BY <1>1, <1>2, DownloadInvariance, PTL DEF Spec

(* 404 is answered only when the session is over.                           *)
THEOREM NotFoundCorrect ==
  ASSUME Reconnects = "spaced"
  PROVE  Spec => []NotFoundOnlyWhenGone
<1>1. GoneInv => NotFoundOnlyWhenGone
  BY DEF GoneInv, NotFoundOnlyWhenGone, connClosed
<1> QED
  BY <1>1, GoneInvariance, PTL

(* ReplaceConn installs conns of increasing index.                          *)
THEOREM IndexCorrect ==
  ASSUME Reconnects = "spaced"
  PROVE  Spec => IndexIncreases
<1>1. ASSUME TypeOK, GoneInv, [Next]_vars
      PROVE  [conn' # conn => handshakes[conn'] > handshakes[conn]]_vars
  <2> SUFFICES ASSUME conn' # conn PROVE handshakes[conn'] > handshakes[conn]
    BY Zenon
  <2>1. PICK t \in Conns : ReplaceConn(t)
    BY <1>1, ZenonT(40) DEF vars, Next, Client, ClientWrite, ClientRead, ClientDrop, ClientReconnect,
      ClientGiveUp, ClientReuseHandshake, ServerDrop, Handler, QueryByID, RequestLost,
      SpawnFreeze, SpawnCopy, Respond, RespondFails, Pump, Acquire, CheckHandshake, Freeze,
      SetConnError, Read, Write, CloseSession, RemoveConnPair, sessVars
  <2> QED
    BY <1>1, <2>1 DEF ReplaceConn, sessVars, GoneInv, Copied
<1> QED
  BY <1>1, GoneInvariance, DownloadInvariance, PTL DEF Spec, IndexIncreases

-----------------------------------------------------------------------------
(* The whole of the invariant, for a client that spaces its reuse attempts  *)
(* on tcp.                                                                  *)
THEOREM IInvCorrect ==
  ASSUME Reconnects = "spaced", Transport = "tcp"
  PROVE  Spec => []IInv
BY UploadInvariance, DownloadInvariance, PTL DEF IInv

(* The current conn's buffer holds all that was written, or is full; so     *)
(* what a handler refuses it really cannot resend, as long as a receive     *)
(* number is not reduced.                                                   *)
RefusedInv ==
  /\ late = {} => Len(reuseBuffer[conn]) \in {wrote, Cap}
  /\ wrote < Wrap => RefusedOnlyOnOverflow

(* LoopBuffer.Write of one byte: one more is held, until the buffer is      *)
(* full.                                                                    *)
LEMMA BufWriteLen ==
  ASSUME NEW buf \in Seq(Nat), NEW b \in Nat, Len(buf) <= Cap
  PROVE  Len(BufWrite(buf, b)) = IF Len(buf) < Cap THEN Len(buf) + 1 ELSE Cap
<1>1. /\ Append(buf, b) \in Seq(Nat) /\ Len(Append(buf, b)) = Len(buf) + 1 /\ Len(buf) \in Nat
      /\ Cap \in Nat
  BY SeqAppend, SeqLen, SessionAssumption, Zenon
<1>2. Append(buf, b) # <<>>
  BY SeqAppend
<1>3. Len(Tail(Append(buf, b))) = Len(buf)
  BY <1>1, <1>2, SeqTail
<1>4. CASE Len(buf) < Cap
  <2>1. BufWrite(buf, b) = Append(buf, b)
    BY <1>1, <1>4 DEF BufWrite
  <2> QED
    BY <1>1, <1>4, <2>1
<1>5. CASE Len(buf) = Cap
  <2>1. BufWrite(buf, b) = Tail(Append(buf, b))
    BY <1>1, <1>5 DEF BufWrite
  <2> QED
    BY <1>1, <1>3, <1>5, <2>1
<1> QED
  BY <1>1, <1>4, <1>5

(* The steps that neither write nor read downward nor refuse anything.      *)
LEMMA RefusedFrame ==
  ASSUME RefusedInv, UNCHANGED <<conn, reuseBuffer, wrote, late, downGot, code>>,
         \A t \in Conns : hpc'[t] = "respond" => hpc[t] = "respond"
  PROVE  RefusedInv'
BY Zenon DEF RefusedInv, RefusedOnlyOnOverflow

(* A handler refuses only what the buffer of its conn does not hold.        *)
LEMMA RefusedHandler ==
  ASSUME TypeOK, HandlerInv, Control, DownloadInv, RefusedInv, NEW t \in Conns, Handler(t)
  PROVE  RefusedInv'
<1> USE DEF connVars, sessVars, pumpVars, handVars, dataVars, clientVars, netVars
<1>0. /\ hpc \in [Conns -> {"none", "request", "spawn", "copy", "respond", "replace", "done"}]
      /\ code \in [Conns -> Codes] /\ conn \in Conns /\ reuseBuffer \in [Conns -> Seq(Nat)]
      /\ outCount \in [Conns -> Nat] /\ wrote \in Nat /\ downGot \in Seq(Nat)
  BY Zenon DEF TypeOK
<1>1. /\ t # conn /\ UNCHANGED <<wrote, late, downGot>>
      /\ \A u \in Conns : u # t => hpc'[u] = hpc[u] /\ hpc[u] \in {"none", "done"}
  BY HandlerStep, Zenon
<1>2. ASSUME UNCHANGED <<conn, reuseBuffer>>, hpc'[t] = "respond" => code'[t] # "NotAcceptable"
      PROVE  RefusedInv'
  BY <1>1, <1>2, Zenon DEF RefusedInv, RefusedOnlyOnOverflow
<1>3. CASE QueryByID(t)
  <2>1. UNCHANGED <<conn, reuseBuffer>> /\ (hpc'[t] = "respond" => code'[t] # "NotAcceptable")
    BY <1>0, <1>3, Zenon DEF QueryByID
  <2> QED
    BY <1>2, <2>1, Zenon
<1>4. CASE RequestLost(t) \/ Respond(t) \/ RespondFails(t)
  <2>1. UNCHANGED <<conn, reuseBuffer>> /\ hpc'[t] # "respond"
    BY <1>0, <1>4, Zenon DEF RequestLost, Respond, RespondFails
  <2> QED
    BY <1>2, <2>1, Zenon
<1>5. CASE SpawnFreeze(t)
  <2>1. /\ conn' = conn /\ reuseBuffer'[conn] = reuseBuffer[conn]
        /\ hpc'[t] = "respond" => code'[t] = "IDNotFound"
    BY <1>0, <1>1, <1>5, Zenon DEF SpawnFreeze
  <2> QED
    BY <1>1, <2>1, Zenon DEF RefusedInv, RefusedOnlyOnOverflow
<1>6. CASE SpawnCopy(t)
  <2> DEFINE buf == reuseBuffer[conn]
             got == Len(downGot)
  <2>1. /\ hpc[t] = "copy" /\ UNCHANGED <<conn, reuseBuffer>>
        /\ code'[t] = "NotAcceptable" =>
             ~Acceptable(outCount[oldConn[t]] - req[t].received, reuseBuffer[t])
    BY <1>0, <1>6 DEF SpawnCopy
  <2>2. oldConn[t] = conn
    BY <2>1, ZenonT(40) DEF Control
  <2>3. ASSUME late = {}, wrote < Wrap, code'[t] = "NotAcceptable" PROVE wrote - got > Cap
    <3>1. /\ got <= wrote /\ outCount[conn] = wrote /\ reuseBuffer[t] = buf
          /\ req[t].received = got % Wrap /\ Len(buf) \in {wrote, Cap}
      BY <1>0, <2>1, <2>3, Zenon DEF DownloadInv, RefusedInv
    <3>2. got \in Nat /\ Wrap \in Nat /\ Cap \in Nat /\ Len(buf) \in Nat
      BY <1>0, SeqLen, SessionAssumption
    <3>3. got % Wrap = got
      <4>1. \A n, m \in Nat : n < m => n % m = n
        OBVIOUS
      <4>2. got < Wrap
        BY <1>0, <2>3, <3>1, <3>2
      <4> QED
        BY <3>2, <4>1, <4>2, Zenon
    <3>4. ~(0 <= wrote - got /\ wrote - got <= Len(buf))
      BY <2>1, <2>2, <2>3, <3>1, <3>3, Zenon DEF Acceptable
    <3> HIDE DEF got, buf
    <3> QED
      BY <1>0, <3>1, <3>2, <3>4
  <2> QED
    BY <1>1, <2>1, <2>3, ZenonT(40) DEF RefusedInv, RefusedOnlyOnOverflow
<1>7. CASE ReplaceConn(t)
  <2>1. /\ hpc[t] = "replace" /\ hpc'[t] = "done" /\ conn' \in {conn, t} /\ UNCHANGED reuseBuffer
    BY <1>0, <1>7 DEF ReplaceConn
  <2>2. late = {} => reuseBuffer[t] = reuseBuffer[conn]
    BY <2>1, Zenon DEF DownloadInv, Copied
  <2> QED
    BY <1>1, <2>1, <2>2, ZenonT(40) DEF RefusedInv, RefusedOnlyOnOverflow
<1> QED
  BY <1>3, <1>4, <1>5, <1>6, <1>7, Zenon DEF Handler

(* The other steps.                                                         *)
LEMMA RefusedStep ==
  ASSUME TypeOK, HandlerInv, Control, ClientInv, DownloadInv, RefusedInv, [Next]_vars
  PROVE  RefusedInv'
<1> USE DEF connVars, sessVars, pumpVars, handVars, dataVars, clientVars, netVars
<1>0. /\ hpc \in [Conns -> {"none", "request", "spawn", "copy", "respond", "replace", "done"}]
      /\ conn \in Conns /\ reuseBuffer \in [Conns -> Seq(Nat)] /\ wrote \in Nat
      /\ downGot \in Seq(Nat) /\ held \in [Pumps -> Conns]
  BY ZenonT(40) DEF TypeOK
<1>1. CASE ClientRead
  <2>1. cState = "up" /\ UNCHANGED <<conn, reuseBuffer, wrote, late, hpc>>
    BY <1>1, Zenon DEF ClientRead
  <2>2. \A t \in Conns : hpc[t] # "respond"
    BY <2>1, Zenon DEF ClientInv, Control, Active
  <2> QED
    BY <2>1, <2>2 DEF RefusedInv, RefusedOnlyOnOverflow
<1>2. CASE Client /\ ~ClientRead
  <2>1. UNCHANGED <<conn, reuseBuffer, wrote, late, downGot, code>>
    BY <1>2, Zenon DEF Client, ClientWrite, ClientDrop, ClientReconnect, ClientGiveUp,
                       ClientReuseHandshake
  <2>2. \A t \in Conns : hpc'[t] = "respond" => hpc[t] = "respond"
    <3>1. CASE ClientReconnect
      BY <1>0, <3>1 DEF ClientReconnect
    <3>2. CASE ~ClientReconnect
      BY <1>2, <3>2, Zenon DEF Client, ClientWrite, ClientDrop, ClientGiveUp,
                               ClientReuseHandshake
    <3> QED
      BY <3>1, <3>2, ZenonT(40)
  <2> QED
    BY <2>1, <2>2, RefusedFrame, Zenon
<1>3. CASE Write
  <2> DEFINE c == held["s2c"]
  <2>1. /\ UNCHANGED <<conn, downGot, hpc, code>> /\ wrote' = wrote + 1
        /\ reuseBuffer' = [reuseBuffer EXCEPT ![c] = BufWrite(@, wrote + 1)]
        /\ late' = {} => late = {} /\ ~spawned[c]
    BY <1>3, Zenon DEF Write
  <2>2. ASSUME late' = {} PROVE Len(reuseBuffer'[conn]) \in {wrote + 1, Cap}
    <3>1. c = conn
      BY <2>1, <2>2, Zenon DEF Control, Pumps
    <3>2. reuseBuffer'[conn] = BufWrite(reuseBuffer[conn], wrote + 1)
      BY <1>0, <2>1, <3>1, Zenon
    <3>3. Len(reuseBuffer[conn]) \in {wrote, Cap} /\ Len(reuseBuffer[conn]) <= Cap
      BY <2>1, <2>2, Zenon DEF RefusedInv, DownloadInv, Ends
    <3>4. reuseBuffer[conn] \in Seq(Nat) /\ wrote + 1 \in Nat
      BY <1>0
    <3>5. Len(BufWrite(reuseBuffer[conn], wrote + 1))
          = IF Len(reuseBuffer[conn]) < Cap THEN Len(reuseBuffer[conn]) + 1 ELSE Cap
      BY <3>3, <3>4, BufWriteLen
    <3> QED
      BY <3>2, <3>3, <3>5
  <2>3. Len(downGot) \in Nat /\ Wrap \in Nat /\ Cap \in Nat
    BY <1>0, SeqLen, SessionAssumption
  <2>4. wrote' < Wrap => RefusedOnlyOnOverflow'
    <3>1. ASSUME wrote' < Wrap, NEW t \in Conns, hpc'[t] = "respond",
                 code'[t] = "NotAcceptable", late' = {}
          PROVE  wrote' - Len(downGot') > Cap
      <4>1. wrote < Wrap
        BY <1>0, <2>1, <2>3, <3>1
      <4>2. wrote - Len(downGot) > Cap
        BY <2>1, <3>1, <4>1, Zenon DEF RefusedInv, RefusedOnlyOnOverflow
      <4> QED
        BY <1>0, <2>1, <2>3, <4>2
    <3> QED
      BY <3>1, Zenon DEF RefusedOnlyOnOverflow
  <2> QED
    BY <2>1, <2>2, <2>4, Zenon DEF RefusedInv
<1>4. ASSUME NEW t \in Conns, ServerDrop(t) PROVE RefusedInv'
  BY <1>4, RefusedFrame, Zenon DEF ServerDrop
<1>5. ASSUME NEW p \in Pumps, Pump(p) PROVE RefusedInv'
  BY <1>5, RefusedFrame, Zenon DEF Pump, Acquire, CheckHandshake, Freeze, SetConnError
<1>6. CASE Read \/ CloseSession \/ RemoveConnPair \/ UNCHANGED vars
  BY <1>6, RefusedFrame, Zenon DEF Read, CloseSession, RemoveConnPair, vars
<1> QED
  BY <1>1, <1>2, <1>3, <1>4, <1>5, <1>6, RefusedHandler, Zenon DEF Next

(* 406 is answered only when the buffer no longer holds what the client     *)
(* lacks, while goscon has written less than the modulus of recvnumber.     *)
THEOREM RefusedCorrect ==
  ASSUME Reconnects = "spaced"
  PROVE  Spec => [](wrote < Wrap => RefusedOnlyOnOverflow)
<1>1. Init => RefusedInv
  <2>1. 0 \in Conns
    BY SessionAssumption DEF Conns
  <2> QED
    BY <2>1 DEF Init, RefusedInv, RefusedOnlyOnOverflow
<1>2. /\ TypeOK /\ HandlerInv /\ Control /\ ClientInv /\ DownloadInv /\ RefusedInv
      /\ [Next]_vars
      => RefusedInv'
  BY RefusedStep, Zenon
<1>3. RefusedInv => (wrote < Wrap => RefusedOnlyOnOverflow)
  BY Zenon DEF RefusedInv
<1> QED
  BY <1>1, <1>2, <1>3, DownloadInvariance, PTL DEF Spec
=============================================================================

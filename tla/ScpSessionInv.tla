---------------------------- MODULE ScpSessionInv ----------------------------
(***************************************************************************)
(* The inductive invariant behind the properties of ScpSession.  TypeOK    *)
(* and HandlerInv hold for every client and transport; the rest is for a   *)
(* client that spaces its reuse attempts (Reconnects = "spaced"), the      *)
(* upload part also for a transport whose reads fail once it is closed     *)
(* (Transport = "tcp").  ScpSessionControl and ScpSessionStreams prove it. *)
(***************************************************************************)
EXTENDS ScpSession

(* A handler that has not returned; one that has copied the old conn. *)
Active(t) == hpc[t] \in {"request", "spawn", "copy", "respond", "replace"}
Copied(t) == \/ hpc[t] = "respond" /\ code[t] \in {"OK", "NotAcceptable"}
             \/ hpc[t] = "replace"

(* Transports the server may still read from. *)
Live(t) == t = conn \/ hpc[t] = "replace"

(* Transports the client reads, or will once it has read the response. *)
Reading(t) == \/ cState = "up" /\ t = cConn
              \/ cState = "trying" /\ t = cLast /\ resp[t].code = "OK"

(* buf holds the last bytes of a stream of n. *)
Ends(buf, n) ==
  /\ Len(buf) <= Cap /\ Len(buf) <= n
  /\ \A i \in DOMAIN buf : buf[i] = n - Len(buf) + i

(* Whatever the client does: no handler owns a conn that is installed or    *)
(* held by a pump, and a handler about to answer OK has the bytes it will   *)
(* resend.                                                                  *)
HandlerInv ==
  /\ hpc[0] = "none" /\ conn <= cLast /\ ~Active(conn)
  /\ \A t \in Conns : t > cLast => hpc[t] = "none"
  /\ \A p \in Pumps : held[p] <= cLast /\ ~Active(held[p])
  /\ \A t \in Conns : hpc[t] = "respond" /\ code[t] = "OK" =>
       Acceptable(outCount[t] - req[t].received, reuseBuffer[t])

(* One handler at a time: the conn it copies stays the current one and      *)
(* stays frozen, and only the current conn and the handler's own are open.  *)
Control ==
  /\ \A t \in Conns : Active(t) => t = cLast
  /\ \A t \in Conns : sOpen[t] => t = conn \/ Active(t)
  /\ \A t \in Conns : hpc[t] \in {"spawn", "copy"} \/ Copied(t) => oldConn[t] = conn
  /\ \A t \in Conns : hpc[t] = "copy" \/ Copied(t) => ~sOpen[conn] /\ spawned[conn]
  /\ \A p \in Pumps : held[p] = conn \/ spawned[held[p]]

(* The client is up on its last transport only, and nothing travels on a    *)
(* transport before the handler's response.                                 *)
ClientInv ==
  /\ cConn <= cLast
  /\ cState = "up" => cConn = cLast /\ hpc[cLast] \in {"none", "replace", "done"}
  /\ \A t \in Conns : hpc[t] = "none" => t = 0 \/ t > cLast
  /\ \A t \in Conns : t # 0 /\ hpc[t] \notin {"replace", "done"} =>
       resp[t].code = "none" /\ up[t] = <<>> /\ down[t] = <<>>

(* The bytes q in flight continue a stream read up to byte n and written    *)
(* up to byte m.                                                            *)
Follows(q, n, m) ==
  /\ \A i \in DOMAIN q : q[i] = n + i
  /\ n + Len(q) <= m

(* The client-to-server stream: what is in flight on a live transport       *)
(* continues what has been read, and the client's buffer ends the stream.   *)
UploadInv ==
  /\ UploadIntact /\ Ends(cBuf, cSent)
  /\ \A t \in Conns : t = conn \/ Copied(t) => inCount[t] = Len(upGot)
  /\ \A t \in Conns : Live(t) => Follows(up[t], inCount[t], cSent)
  /\ cState = "up" /\ cOpen[cConn] /\ Live(cConn) =>
       inCount[cConn] + Len(up[cConn]) = cSent
  /\ cState = "trying" /\ resp[cLast].code = "OK" /\ Live(cLast) =>
       up[cLast] = <<>> /\ resp[cLast].received = inCount[cLast] % Wrap

(* The other direction, until a Write is late.                              *)
DownloadInv ==
  late = {} =>
    /\ DownloadSeamless /\ Len(downGot) <= wrote
    /\ Ends(reuseBuffer[conn], wrote)
    /\ \A t \in Conns : t = conn \/ Copied(t) => outCount[t] = wrote
    /\ \A t \in Conns : hpc[t] = "copy" \/ Copied(t) => reuseBuffer[t] = reuseBuffer[conn]
    /\ \A t \in Conns : hpc[t] \in {"request", "spawn", "copy", "respond"} =>
         req[t].received = Len(downGot) % Wrap
    /\ \A t \in Conns : Reading(t) =>
         /\ Follows(down[t], Len(downGot), wrote)
         /\ Live(t) /\ sOpen[t] => Len(downGot) + Len(down[t]) = wrote

IInv == TypeOK /\ HandlerInv /\ Control /\ ClientInv /\ UploadInv /\ DownloadInv
=============================================================================

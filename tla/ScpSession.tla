------------------------------ MODULE ScpSession ------------------------------
(***************************************************************************)
(* One SCP session between a client and goscon, from the first handshake   *)
(* on: the client writes, reads and reconnects; the server side is the     *)
(* SCPConn with its two pump goroutines and one handler goroutine per      *)
(* reuse request (scp/conn.go, scp/scp.go, remoteconn.go, server.go).      *)
(*                                                                         *)
(* Bytes.  Every application byte is encrypted once, by the stream cipher  *)
(* all scp.Conn of a session share (deepCopyCipherConn* copy a pointer),   *)
(* so byte number i is the i-th byte through the cipher, and a ciphertext  *)
(* byte is its number.  Decrypting at position n is right for byte n only. *)
(*                                                                         *)
(* Transports.  Conn t runs over transport t; conn 0 is the one of the     *)
(* first handshake.  up[t] and down[t] are the bytes in flight, req[t] and *)
(* resp[t] the handshake records, which precede them.  cOpen and sOpen say *)
(* whether the end in question can still use its socket: losing what is in *)
(* flight is the reader losing its socket before it has read it.           *)
(***************************************************************************)
EXTENDS Integers, Sequences

CONSTANTS
  MaxReuse,  \* bound: how many reuse handshakes the client starts
  MaxUp,     \* bound: bytes the client writes
  MaxDown,   \* bound: bytes the upstream server sends
  Cap,       \* ReuseBufferSize
  Wrap,      \* recvnumber is sent modulo Wrap (2^32 in the code)
  Transport, \* "kcp": a read of a closed transport returns what is buffered
  Reconnects \* "overlapping": the client may reconnect while goscon still
             \* handles an earlier reuse request of it

ASSUME SessionAssumption ==
  /\ MaxReuse \in Nat /\ MaxUp \in Nat /\ MaxDown \in Nat
  /\ Cap \in Nat \ {0} /\ Wrap \in Nat /\ Cap < Wrap
  /\ Transport \in {"tcp", "kcp"} /\ Reconnects \in {"spaced", "overlapping"}

Conns == 0 .. MaxReuse
Pumps == {"c2s", "s2c"}
Codes == {"none", "OK", "Expired", "IDNotFound", "NotAcceptable"}

VARIABLES
  up, down, req, resp, cOpen, sOpen,                        \* transports
  cState, cConn, cLast, cSent, cBuf, cHandshakes, downGot,  \* client
  inCount, outCount, reuseBuffer, handshakes, frozen, closed, spawned,
                                                            \* scp.Conn, server
  conn, connErr, pair,                     \* SCPConn, its entry in connPairs
  pc, held,                                                 \* pumps
  hpc, oldConn, code,                                       \* handlers
  upGot, wrote,     \* bytes read from the client, number read from upstream
  late              \* bytes written to a conn behind a spawn of it

netVars    == <<up, down, req, resp, cOpen, sOpen>>
clientVars == <<cState, cConn, cLast, cSent, cBuf, cHandshakes, downGot>>
connVars   == <<inCount, outCount, reuseBuffer, handshakes, frozen, closed, spawned>>
sessVars   == <<conn, connErr, pair>>
pumpVars   == <<pc, held>>
handVars   == <<hpc, oldConn, code>>
dataVars   == <<upGot, wrote, late>>
vars == <<netVars, clientVars, connVars, sessVars, pumpVars, handVars, dataVars>>

-----------------------------------------------------------------------------
(* The reuse buffer keeps the last Cap bytes written to it. *)
BufWrite(buf, b) ==
  LET all == Append(buf, b) IN IF Len(all) > Cap THEN Tail(all) ELSE all

ReadLastBytes(buf, n) == SubSeq(buf, Len(buf) - n + 1, Len(buf))

(* What the n-th byte through the cipher decrypts to; 0 stands for garbage. *)
Decrypt(b, n) == IF b = n THEN b ELSE 0

(* The check both sides make before they resend diff bytes. *)
Acceptable_Less(diff, buf) == 0 <= diff /\ diff < Len(buf)
Acceptable(diff, buf) == 0 <= diff /\ diff <= Len(buf)

(* A spawn in progress holds the connMutex of the conn it copies. *)
Locked(o) == \E t \in Conns : hpc[t] = "copy" /\ oldConn[t] = o

(* connClosed is set together with connErr = errConnClosed, which is final. *)
connClosed == connErr = "closed"
registered == pair = "held"

NoReq  == [handshakes |-> 0, received |-> 0]
NoResp == [code |-> "none", received |-> 0]

Init ==
  /\ up = [t \in Conns |-> <<>>] /\ down = [t \in Conns |-> <<>>]
  /\ req = [t \in Conns |-> NoReq] /\ resp = [t \in Conns |-> NoResp]
  /\ cOpen = [t \in Conns |-> t = 0] /\ sOpen = [t \in Conns |-> t = 0]
  /\ cState = "up" /\ cConn = 0 /\ cLast = 0
  /\ cSent = 0 /\ cBuf = <<>> /\ cHandshakes = 0 /\ downGot = <<>>
  /\ inCount = [t \in Conns |-> 0] /\ outCount = [t \in Conns |-> 0]
  /\ reuseBuffer = [t \in Conns |-> <<>>] /\ handshakes = [t \in Conns |-> 0]
  /\ frozen = [t \in Conns |-> FALSE] /\ closed = [t \in Conns |-> FALSE]
  /\ spawned = [t \in Conns |-> FALSE]
  /\ conn = 0 /\ connErr = "nil" /\ pair = "held"
  /\ pc = [p \in Pumps |-> "acquire"] /\ held = [p \in Pumps |-> 0]
  /\ hpc = [t \in Conns |-> "none"] /\ oldConn = [t \in Conns |-> 0]
  /\ code = [t \in Conns |-> "none"]
  /\ upGot = <<>> /\ wrote = 0 /\ late = {}

-----------------------------------------------------------------------------
(* The client.  Conn.Write caches the byte even when the transport fails. *)
Cached_WhenSent == IF cOpen[cConn] THEN BufWrite(cBuf, cSent + 1) ELSE cBuf
Cached == BufWrite(cBuf, cSent + 1)

ClientWrite ==
  /\ cState = "up" /\ cSent < MaxUp
  /\ cSent' = cSent + 1
  /\ cBuf' = Cached
  /\ up' = IF cOpen[cConn] THEN [up EXCEPT ![cConn] = Append(@, cSent + 1)] ELSE up
  /\ UNCHANGED <<down, req, resp, cOpen, sOpen, cState, cConn, cLast, cHandshakes,
                 downGot, connVars, sessVars, pumpVars, handVars, dataVars>>

ClientRead ==
  /\ cState = "up" /\ cOpen[cConn] /\ down[cConn] # <<>>
  /\ downGot' = Append(downGot, Decrypt(Head(down[cConn]), Len(downGot) + 1))
  /\ down' = [down EXCEPT ![cConn] = Tail(@)]
  /\ UNCHANGED <<up, req, resp, cOpen, sOpen, cState, cConn, cLast, cSent, cBuf,
                 cHandshakes, connVars, sessVars, pumpVars, handVars, dataVars>>

(* The client's socket fails; the client may keep writing into its cache. *)
ClientDrop ==
  /\ cState = "up" /\ cOpen[cConn]
  /\ cOpen' = [cOpen EXCEPT ![cConn] = FALSE]
  /\ UNCHANGED <<up, down, req, resp, sOpen, clientVars, connVars, sessVars,
                 pumpVars, handVars, dataVars>>

(* The index a reuse handshake carries: one more than the conn it reuses. *)
NextIndex_Less == cHandshakes - 1
NextIndex == cHandshakes + 1

(* scp.Client with ConnForReused on a new transport, and the request. *)
ClientReconnect ==
  /\ cState \in {"up", "down"} /\ cLast < MaxReuse
  /\ Reconnects = "overlapping" \/ \A t \in Conns : hpc[t] \in {"none", "done"}
  /\ cState' = "trying"
  /\ cLast' = cLast + 1
  /\ cOpen' = [cOpen EXCEPT ![cConn] = FALSE, ![cLast + 1] = TRUE]
  /\ sOpen' = [sOpen EXCEPT ![cLast + 1] = TRUE]
  /\ req' = [req EXCEPT ![cLast + 1] = [handshakes |-> NextIndex,
                                        received |-> Len(downGot) % Wrap]]
  /\ hpc' = [hpc EXCEPT ![cLast + 1] = "request"]
  /\ UNCHANGED <<up, down, resp, cConn, cSent, cBuf, cHandshakes, downGot, connVars,
                 sessVars, pumpVars, oldConn, code, dataVars>>

(* clientReuseHandshake reads the response and resends what goscon lacks; *)
(* the write of the resent bytes may fail after some of them.             *)
ClientReuseHandshake ==
  LET t == cLast
      diff == cSent - resp[t].received
      accepted == resp[t].code = "OK" /\ Acceptable(diff, cBuf)
  IN
  /\ cState = "trying" /\ resp[t].code # "none"
  /\ resp' = [resp EXCEPT ![t] = NoResp]
  /\ \/ /\ accepted
        /\ up' = [up EXCEPT ![t] = ReadLastBytes(cBuf, diff)]
        /\ cState' = "up" /\ cConn' = t /\ cHandshakes' = NextIndex
        /\ UNCHANGED cOpen
     \/ /\ accepted
        /\ \E k \in 0 .. diff - 1 :
             up' = [up EXCEPT ![t] = SubSeq(ReadLastBytes(cBuf, diff), 1, k)]
        /\ cState' = "down" /\ cOpen' = [cOpen EXCEPT ![t] = FALSE]
        /\ UNCHANGED <<cConn, cHandshakes>>
     \/ /\ ~accepted
        /\ cState' = "down" /\ cOpen' = [cOpen EXCEPT ![t] = FALSE]
        /\ UNCHANGED <<up, cConn, cHandshakes>>
  /\ UNCHANGED <<down, req, sOpen, cLast, cSent, cBuf, downGot, connVars, sessVars,
                 pumpVars, handVars, dataVars>>

(* The attempt times out or its transport fails. *)
ClientGiveUp ==
  /\ cState = "trying"
  /\ cState' = "down" /\ cOpen' = [cOpen EXCEPT ![cLast] = FALSE]
  /\ UNCHANGED <<up, down, req, resp, sOpen, cConn, cLast, cSent, cBuf, cHandshakes,
                 downGot, connVars, sessVars, pumpVars, handVars, dataVars>>

-----------------------------------------------------------------------------
(* The network fails under the server's end of transport t. *)
ServerDrop(t) ==
  /\ sOpen[t]
  /\ sOpen' = [sOpen EXCEPT ![t] = FALSE]
  /\ UNCHANGED <<up, down, req, resp, cOpen, clientVars, connVars, sessVars,
                 pumpVars, handVars, dataVars>>

(* Conn.Close: freeze, and give up the reuse buffer. *)
CloseConn(c) ==
  /\ sOpen' = [sOpen EXCEPT ![c] = FALSE]
  /\ frozen' = [frozen EXCEPT ![c] = TRUE]
  /\ closed' = [closed EXCEPT ![c] = TRUE]

(* Conn.Freeze keeps the reuse buffer. *)
FreezeConn_Closes(c) == CloseConn(c)
FreezeConn(c) ==
  /\ sOpen' = [sOpen EXCEPT ![c] = FALSE]
  /\ frozen' = [frozen EXCEPT ![c] = TRUE]
  /\ UNCHANGED closed

(* serverReuseHandshake up to the index check.  QueryByID returns s.Conn as *)
(* it is now; the conn is used in later steps.                              *)
IndexExpired_Greater(t) == handshakes[conn] > req[t].handshakes
IndexExpired(t) == handshakes[conn] >= req[t].handshakes

QueryByID(t) ==
  /\ hpc[t] = "request" /\ sOpen[t]
  /\ \/ /\ ~registered
        /\ code' = [code EXCEPT ![t] = "IDNotFound"]
        /\ hpc' = [hpc EXCEPT ![t] = "respond"]
        /\ UNCHANGED <<oldConn, handshakes>>
     \/ /\ registered /\ IndexExpired(t)
        /\ code' = [code EXCEPT ![t] = "Expired"]
        /\ hpc' = [hpc EXCEPT ![t] = "respond"]
        /\ UNCHANGED <<oldConn, handshakes>>
     \/ /\ registered /\ ~IndexExpired(t)
        /\ oldConn' = [oldConn EXCEPT ![t] = conn]
        /\ handshakes' = [handshakes EXCEPT ![t] = req[t].handshakes]
        /\ hpc' = [hpc EXCEPT ![t] = "spawn"]
        /\ UNCHANGED code
  /\ UNCHANGED <<netVars, clientVars, inCount, outCount, reuseBuffer, frozen, closed,
                 spawned, sessVars, pumpVars, dataVars>>

(* readRecord fails: the request never arrives whole. *)
RequestLost(t) ==
  /\ hpc[t] = "request" /\ ~(sOpen[t] /\ cOpen[t])
  /\ hpc' = [hpc EXCEPT ![t] = "done"]
  /\ CloseConn(t)
  /\ UNCHANGED <<up, down, req, resp, cOpen, clientVars, inCount, outCount, reuseBuffer,
                 handshakes, spawned, sessVars, pumpVars, oldConn, code, dataVars>>

(* spawn: freeze the old conn, pass the "not reading" and "not writing"   *)
(* barriers, copy the reuse buffer ...                                    *)
SpawnFreeze(t) ==
  LET o == oldConn[t] IN
  /\ hpc[t] = "spawn" /\ ~Locked(o)
  /\ FreezeConn(o)
  /\ \/ /\ closed[o]
        /\ code' = [code EXCEPT ![t] = "IDNotFound"]
        /\ hpc' = [hpc EXCEPT ![t] = "respond"]
        /\ UNCHANGED <<reuseBuffer, spawned>>
     \/ /\ ~closed[o]
        /\ reuseBuffer' = [reuseBuffer EXCEPT ![t] = reuseBuffer[o]]
        /\ spawned' = [spawned EXCEPT ![o] = TRUE]
        /\ hpc' = [hpc EXCEPT ![t] = "copy"]
        /\ UNCHANGED code
  /\ UNCHANGED <<up, down, req, resp, cOpen, clientVars, inCount, outCount, handshakes,
                 sessVars, pumpVars, oldConn, dataVars>>

(* ... then the counts, without the in and out locks; and what the handler *)
(* makes of them.                                                          *)
SpawnCopy(t) ==
  LET o == oldConn[t]
      diff == outCount[o] - req[t].received
  IN
  /\ hpc[t] = "copy"
  /\ inCount' = [inCount EXCEPT ![t] = inCount[o]]
  /\ outCount' = [outCount EXCEPT ![t] = outCount[o]]
  /\ code' = [code EXCEPT ![t] = IF Acceptable(diff, reuseBuffer[t])
                                 THEN "OK" ELSE "NotAcceptable"]
  /\ hpc' = [hpc EXCEPT ![t] = "respond"]
  /\ UNCHANGED <<netVars, clientVars, reuseBuffer, handshakes, frozen, closed, spawned,
                 sessVars, pumpVars, oldConn, dataVars>>

(* The response and, when it is OK, the bytes the client lacks. *)
Resent_OneLess(t) ==
  LET diff == outCount[t] - req[t].received
  IN IF diff = 0 THEN <<>> ELSE ReadLastBytes(reuseBuffer[t], diff - 1)
Resent(t) == ReadLastBytes(reuseBuffer[t], outCount[t] - req[t].received)

Respond(t) ==
  /\ hpc[t] = "respond" /\ sOpen[t]
  /\ resp' = [resp EXCEPT ![t] =
       [code |-> code[t], received |-> IF code[t] = "OK" THEN inCount[t] % Wrap ELSE 0]]
  /\ \/ /\ code[t] = "OK"
        /\ down' = [down EXCEPT ![t] = Resent(t)]
        /\ hpc' = [hpc EXCEPT ![t] = "replace"]
        /\ UNCHANGED <<sOpen, frozen, closed>>
     \/ /\ code[t] = "OK"               \* the write of the resent bytes fails
        /\ \E k \in 0 .. Len(Resent(t)) - 1 :
             down' = [down EXCEPT ![t] = SubSeq(Resent(t), 1, k)]
        /\ hpc' = [hpc EXCEPT ![t] = "done"]
        /\ CloseConn(t)
     \/ /\ code[t] # "OK"
        /\ hpc' = [hpc EXCEPT ![t] = "done"]
        /\ CloseConn(t)
        /\ UNCHANGED down
  /\ UNCHANGED <<up, req, cOpen, clientVars, inCount, outCount, reuseBuffer, handshakes,
                 spawned, sessVars, pumpVars, oldConn, code, dataVars>>

(* writeRecord fails. *)
RespondFails(t) ==
  /\ hpc[t] = "respond" /\ ~sOpen[t]
  /\ hpc' = [hpc EXCEPT ![t] = "done"]
  /\ CloseConn(t)
  /\ UNCHANGED <<up, down, req, resp, cOpen, clientVars, inCount, outCount, reuseBuffer,
                 handshakes, spawned, sessVars, pumpVars, oldConn, code, dataVars>>

(* onReuseConn: the new conn takes the old one's place, or is closed. *)
ReplaceConn(t) ==
  /\ hpc[t] = "replace"
  /\ hpc' = [hpc EXCEPT ![t] = "done"]
  /\ \/ /\ ~registered \/ connClosed
        /\ CloseConn(t)
        /\ UNCHANGED sessVars
     \/ /\ registered /\ ~connClosed /\ ~Locked(conn)
        /\ CloseConn(conn)
        /\ conn' = t /\ connErr' = "nil"
        /\ UNCHANGED pair
  /\ UNCHANGED <<up, down, req, resp, cOpen, clientVars, inCount, outCount, reuseBuffer,
                 handshakes, spawned, pumpVars, oldConn, code, dataVars>>

-----------------------------------------------------------------------------
(* The pumps.  acquireConn blocks while the conn is broken (SCPConn's wait  *)
(* and timer are module RemoteConn); the s2c pump first reads upstream.     *)
Acquire(p) ==
  /\ pc[p] = "acquire"
  /\ \/ /\ connClosed
        /\ pc' = [pc EXCEPT ![p] = "done"]
        /\ UNCHANGED held
     \/ /\ connErr = "nil"
        /\ p = "s2c" => wrote < MaxDown
        /\ pc' = [pc EXCEPT ![p] = "check"]
        /\ held' = [held EXCEPT ![p] = conn]
  /\ UNCHANGED <<netVars, clientVars, connVars, sessVars, handVars, dataVars>>

(* Read and Write call Handshake first, under the conn's connMutex ... *)
CheckHandshake(p) ==
  /\ pc[p] = "check" /\ ~Locked(held[p])
  /\ pc' = [pc EXCEPT ![p] = IF frozen[held[p]] THEN "freeze" ELSE "io"]
  /\ UNCHANGED <<netVars, clientVars, connVars, sessVars, held, handVars, dataVars>>

(* ... and then the half conn, under its own lock. *)
Read ==
  LET c == held["c2s"]
      readable == (sOpen[c] \/ Transport = "kcp") /\ up[c] # <<>>
  IN
  /\ pc["c2s"] = "io"
  /\ \/ /\ readable
        /\ inCount' = [inCount EXCEPT ![c] = @ + 1]
        /\ upGot' = Append(upGot, Decrypt(Head(up[c]), Len(upGot) + 1))
        /\ up' = [up EXCEPT ![c] = Tail(@)]
        /\ pc' = [pc EXCEPT !["c2s"] = "acquire"]
     \/ /\ ~readable /\ ~(sOpen[c] /\ cOpen[c])
        /\ pc' = [pc EXCEPT !["c2s"] = "freeze"]
        /\ UNCHANGED <<inCount, upGot, up>>
  /\ UNCHANGED <<down, req, resp, cOpen, sOpen, clientVars, outCount, reuseBuffer,
                 handshakes, frozen, closed, spawned, sessVars, held, handVars, wrote, late>>

Write ==
  LET c == held["s2c"] IN
  /\ pc["s2c"] = "io"
  /\ wrote' = wrote + 1
  /\ outCount' = [outCount EXCEPT ![c] = @ + 1]
  /\ reuseBuffer' = [reuseBuffer EXCEPT ![c] = BufWrite(@, wrote + 1)]
  /\ down' = IF sOpen[c] THEN [down EXCEPT ![c] = Append(@, wrote + 1)] ELSE down
  /\ pc' = [pc EXCEPT !["s2c"] = IF sOpen[c] THEN "acquire" ELSE "freeze"]
  /\ late' = IF spawned[c] THEN late \cup {wrote + 1} ELSE late
  /\ UNCHANGED <<up, req, resp, cOpen, sOpen, clientVars, inCount, handshakes, frozen,
                 closed, spawned, sessVars, held, handVars, upGot>>

(* After an error: Freeze, then setConnError. *)
Freeze(p) ==
  /\ pc[p] = "freeze" /\ ~Locked(held[p])
  /\ FreezeConn(held[p])
  /\ pc' = [pc EXCEPT ![p] = "report"]
  /\ UNCHANGED <<up, down, req, resp, cOpen, clientVars, inCount, outCount, reuseBuffer,
                 handshakes, spawned, sessVars, held, handVars, dataVars>>

Failed_AnyConn(p) == ~connClosed
Failed(p) == held[p] = conn /\ ~connClosed

SetConnError(p) ==
  /\ pc[p] = "report"
  /\ connErr' = IF Failed(p) THEN "failed" ELSE connErr
  /\ pc' = [pc EXCEPT ![p] = "acquire"]
  /\ UNCHANGED <<netVars, clientVars, connVars, conn, pair, held, handVars, dataVars>>

(* SCPConn.Close: the upstream side ended, or the reuse timer fired. *)
CloseSession ==
  /\ ~connClosed /\ ~Locked(conn)
  /\ connErr' = "closed"
  /\ CloseConn(conn)
  /\ UNCHANGED <<up, down, req, resp, cOpen, clientVars, inCount, outCount, reuseBuffer,
                 handshakes, spawned, conn, pair, pumpVars, handVars, dataVars>>

(* Both pumps have ended: onNewConn's deferred removeConnPair. *)
RemoveConnPair ==
  /\ registered /\ \A p \in Pumps : pc[p] = "done"
  /\ pair' = "removed"
  /\ UNCHANGED <<netVars, clientVars, connVars, conn, connErr, pumpVars,
                 handVars, dataVars>>

Handler(t) == \/ QueryByID(t) \/ RequestLost(t) \/ SpawnFreeze(t) \/ SpawnCopy(t)
              \/ Respond(t) \/ RespondFails(t) \/ ReplaceConn(t)
Pump(p) == Acquire(p) \/ CheckHandshake(p) \/ Freeze(p) \/ SetConnError(p)
Client == \/ ClientWrite \/ ClientRead \/ ClientDrop \/ ClientReconnect
          \/ ClientReuseHandshake \/ ClientGiveUp

Next == \/ Client
        \/ \E t \in Conns : ServerDrop(t) \/ Handler(t)
        \/ \E p \in Pumps : Pump(p)
        \/ Read \/ Write \/ CloseSession \/ RemoveConnPair

Spec == Init /\ [][Next]_vars

-----------------------------------------------------------------------------
TypeOK ==
  /\ up \in [Conns -> Seq(Nat)] /\ down \in [Conns -> Seq(Nat)]
  /\ req \in [Conns -> [handshakes : Nat, received : Nat]]
  /\ resp \in [Conns -> [code : Codes, received : Nat]]
  /\ cOpen \in [Conns -> BOOLEAN] /\ sOpen \in [Conns -> BOOLEAN]
  /\ cState \in {"up", "trying", "down"} /\ cConn \in Conns /\ cLast \in Conns
  /\ cSent \in Nat /\ cBuf \in Seq(Nat) /\ cHandshakes \in Nat /\ downGot \in Seq(Nat)
  /\ inCount \in [Conns -> Nat] /\ outCount \in [Conns -> Nat]
  /\ reuseBuffer \in [Conns -> Seq(Nat)] /\ handshakes \in [Conns -> Nat]
  /\ frozen \in [Conns -> BOOLEAN] /\ closed \in [Conns -> BOOLEAN]
  /\ spawned \in [Conns -> BOOLEAN]
  /\ conn \in Conns /\ connErr \in {"nil", "failed", "closed"}
  /\ pair \in {"held", "removed"}
  /\ pc \in [Pumps -> {"acquire", "check", "io", "freeze", "report", "done"}]
  /\ held \in [Pumps -> Conns]
  /\ hpc \in [Conns -> {"none", "request", "spawn", "copy", "respond", "replace", "done"}]
  /\ oldConn \in [Conns -> Conns] /\ code \in [Conns -> Codes]
  /\ upGot \in Seq(Nat) /\ wrote \in Nat /\ late \subseteq Nat

(* What goscon has read from the client is the client's byte stream: each  *)
(* byte once, in order, decrypted at the right cipher position, whatever   *)
(* breaks and however often the client reuses the session.                 *)
UploadIntact == \A i \in DOMAIN upGot : upGot[i] = i

(* The same for what the client has read from goscon.                      *)
DownloadSeamless == \A i \in DOMAIN downGot : downGot[i] = i

(* It holds as long as no Write got a conn's out lock after a spawn had    *)
(* passed its "not writing" barrier on that conn.                          *)
DownloadIntact == late = {} => DownloadSeamless

(* Each conn that ReplaceConn installs carries a greater index than the    *)
(* one it replaces: no index is used twice (protocol.md).                  *)
IndexIncreases == [][conn' # conn => handshakes[conn'] > handshakes[conn]]_vars

(* 406 means what protocol.md says: the reuse buffer no longer holds what  *)
(* the client lacks.                                                       *)
RefusedOnlyOnOverflow ==
  \A t \in Conns : hpc[t] = "respond" /\ code[t] = "NotAcceptable" /\ late = {}
                     => wrote - Len(downGot) > Cap

(* 404 means what protocol.md says: the session is gone.                   *)
NotFoundOnlyWhenGone ==
  \A t \in Conns : hpc[t] = "respond" /\ code[t] = "IDNotFound" => connClosed

(* While goscon keeps the session, the session's own client is not turned  *)
(* away: its index is never one that was used before.                      *)
NeverExpired == \A t \in Conns : code[t] # "Expired"

(* The abstract streams the two directions implement. *)
Upload   == INSTANCE ByteStream WITH sent <- cSent, got <- upGot, faulty <- FALSE
Download == INSTANCE ByteStream WITH sent <- wrote, got <- downGot, faulty <- late # {}

(* The client-to-server direction implements the reliable byte stream.     *)
UploadStream == Upload!Spec

(* So does the other one, until a late Write.                              *)
DownloadStream == Download!Spec

-----------------------------------------------------------------------------
(* Goroutines run and a client reads what arrives; nothing is assumed of   *)
(* failures, of the upstream server or of the client reconnecting.         *)
Fairness ==
  /\ \A t \in Conns : WF_vars(Handler(t))
  /\ \A p \in Pumps : WF_vars(Pump(p))
  /\ WF_vars(Read) /\ WF_vars(Write)
  /\ WF_vars(ClientRead) /\ WF_vars(ClientReuseHandshake)

FairSpec == Spec /\ Fairness

(* Client and server end of the client's transport work, and no Write was  *)
(* late.                                                                   *)
Healthy == /\ cState = "up" /\ cOpen[cConn] /\ sOpen[cConn]
           /\ ~connClosed /\ late = {}

(* Once the client's transport stays healthy, all that was written to it   *)
(* and to the transports before it arrives, in both directions: the resend *)
(* of the reuse handshake leaves no hole, and no pump stays blocked on a   *)
(* conn that has been replaced.                                            *)
EventuallyDelivered ==
  <>[]Healthy => <>[](Len(downGot) = wrote /\ Len(upGot) = cSent)
=============================================================================

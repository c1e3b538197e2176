------------------------------ MODULE Handshake -------------------------------
(***************************************************************************)
(* A new session's handshake under its deadline, and the deadlines of the  *)
(* conn in use afterwards (scp/conn.go, scp/messages.go, tcp.go, kcp.go).  *)
(*                                                                         *)
(* Every Read and Write of a scp.Conn calls Handshake, which sets and then *)
(* clears both deadlines of the transport; the Read of tcpConn and kcpConn *)
(* sets the read deadline again.  The two pumps do so concurrently.  Time  *)
(* passes only while all goroutines are blocked on the network: the steps  *)
(* between are short, and a deadline that has come is noticed at once.     *)
(*                                                                         *)
(* A message is the sequence of its lines.                                 *)
(***************************************************************************)
EXTENDS DH64, Sequences

CONSTANTS
  Timeouts, ReadTimeouts,  \* values of HandshakeTimeout and readTimeout; 0 is none
  Targets, Flags, IDs,     \* what a client asks for, and ids to acquire
  MaxTime, Chunks          \* bounds: clock; pieces in which the request arrives

ASSUME TimeoutAssumption == Timeouts \subseteq Nat /\ ReadTimeouts \subseteq Nat

Never == -1     \* the zero time.Time: no deadline
NoMsg == <<>>

VARIABLES
  clock, HandshakeTimeout, readTimeout,
  deadline,                    \* read deadline of the transport
  cpc, config, priKey, cconn,  \* client: control, what it asks for, its key, its conn
  request, pieces, response,   \* messages, and pieces of the request arrived
  spc, sconn,                  \* the handler in Handshake, and its conn
  rpc, wpc,                    \* the pump in Read and the one in Write
  start                        \* when the current Read (or Handshake) began

timeVars   == <<clock, HandshakeTimeout, readTimeout>>
clientVars == <<cpc, config, priKey, cconn, request>>
serverVars == <<spc, sconn, response>>
vars == <<timeVars, deadline, clientVars, pieces, serverVars, rpc, wpc, start>>

NoConn == [id |-> 0, secret |-> 0, target |-> "", flag |-> 0]

Init ==
  /\ clock = 0 /\ HandshakeTimeout \in Timeouts /\ readTimeout \in ReadTimeouts
  /\ deadline = Never /\ cpc = "start" /\ priKey = 0
  /\ config \in [target : Targets, flag : Flags]
  /\ cconn = NoConn /\ sconn = NoConn /\ request = NoMsg /\ response = NoMsg
  /\ pieces = 0 /\ spc = "accepted" /\ rpc = "off" /\ wpc = "off"
  /\ start = 0

-----------------------------------------------------------------------------
(* messages.go *)
MarshalReq(key, c) == <<0, key, c.target, c.flag>>
UnmarshalReq_Shift(s) ==
  [key |-> s[2], target |-> IF Len(s) > 3 THEN s[3] ELSE "",
   flag |-> IF Len(s) >= 4 THEN s[4] ELSE 0]
UnmarshalReq(s) ==
  [key |-> s[2], target |-> IF Len(s) >= 3 THEN s[3] ELSE "",
   flag |-> IF Len(s) >= 4 THEN s[4] ELSE 0]
IsNewConnReq(s) == s[1] = 0      \* serverReq: the prefix "0\n"
MarshalResp(id, key) == <<id, key>>

(* SetDeadline at the start of Handshake, and its deferred counterpart. *)
Armed_Not == deadline
Armed == IF HandshakeTimeout > 0 THEN clock + HandshakeTimeout ELSE deadline
Cleared_Kept == deadline
Cleared == IF HandshakeTimeout > 0 THEN Never ELSE deadline

(* tcpConn.Read and kcpConn.Read, before they block. *)
ReadDeadline(d) == IF readTimeout > 0 THEN clock + readTimeout ELSE d

Expired == deadline # Never /\ clock >= deadline

-----------------------------------------------------------------------------
(* clientNewHandshake; a client of another version may leave out the last   *)
(* lines.                                                                   *)
ClientRequest ==
  /\ cpc = "start"
  /\ priKey' \in PrivateKeys
  /\ \E n \in 2 .. 4 :
       /\ request' = SubSeq(MarshalReq(PublicKey(priKey'), config), 1, n)
       /\ cconn' = [NoConn EXCEPT !.target = IF n >= 3 THEN config.target ELSE @,
                                  !.flag = IF n >= 4 THEN config.flag ELSE @]
  /\ cpc' = "wait"
  /\ UNCHANGED <<timeVars, deadline, config, pieces, serverVars, rpc, wpc, start>>

ClientResponse ==
  /\ cpc = "wait" /\ response # NoMsg
  /\ cconn' = [cconn EXCEPT !.id = response[1], !.secret = Secret(priKey, response[2])]
  /\ cpc' = "done" /\ priKey' = 0 /\ response' = NoMsg
  /\ UNCHANGED <<timeVars, deadline, config, request, pieces, spc, sconn, rpc, wpc, start>>

(* Handshake of the accepted conn: readRecord, one transport Read a piece. *)
ServerHandshake ==
  /\ spc = "accepted"
  /\ deadline' = ReadDeadline(Armed)
  /\ spc' = "reading" /\ start' = clock
  /\ UNCHANGED <<timeVars, clientVars, pieces, sconn, response, rpc, wpc>>

ReadPiece ==
  /\ spc = "reading" /\ request # NoMsg /\ pieces < Chunks - 1 /\ ~Expired
  /\ pieces' = pieces + 1
  /\ deadline' = ReadDeadline(deadline)
  /\ UNCHANGED <<timeVars, clientVars, serverVars, rpc, wpc, start>>

(* The last piece: serverNewHandshake, and the deferred SetDeadline.  The   *)
(* write of the response succeeds, or Handshake fails and handleConn closes *)
(* the conn.                                                                *)
ServerNewHandshake ==
  /\ spc = "reading" /\ request # NoMsg /\ pieces = Chunks - 1 /\ ~Expired
  /\ request' = NoMsg
  /\ deadline' = Cleared
  /\ \/ /\ spc' = "closed"
        /\ UNCHANGED <<sconn, response, rpc, wpc>>
     \/ /\ IsNewConnReq(request)
        /\ \E key \in PrivateKeys, id \in IDs :
             LET nq == UnmarshalReq(request) IN
             /\ response' = MarshalResp(id, PublicKey(key))
             /\ sconn' = [id |-> id, secret |-> Secret(key, nq.key),
                          target |-> nq.target, flag |-> nq.flag]
        /\ spc' = "done" /\ rpc' = "call" /\ wpc' = "call"
  /\ UNCHANGED <<timeVars, cpc, config, priKey, cconn, pieces, start>>

ReadTimesOut ==
  /\ Expired
  /\ \/ spc = "reading" /\ spc' = "closed" /\ deadline' = Cleared /\ UNCHANGED rpc
     \/ rpc = "reading" /\ rpc' = "timeout" /\ UNCHANGED <<spc, deadline>>
  /\ UNCHANGED <<timeVars, clientVars, pieces, sconn, response, wpc, start>>

-----------------------------------------------------------------------------
(* Conn.Read: Handshake returns at once, then the transport's Read. *)
ReadArms ==
  /\ rpc = "call"
  /\ deadline' = Armed /\ rpc' = "armed"
  /\ UNCHANGED <<timeVars, clientVars, pieces, serverVars, wpc, start>>

ReadClears ==
  /\ rpc = "armed"
  /\ deadline' = Cleared /\ rpc' = "cleared"
  /\ UNCHANGED <<timeVars, clientVars, pieces, serverVars, wpc, start>>

ReadBlocks ==
  /\ rpc = "cleared"
  /\ deadline' = ReadDeadline(deadline) /\ rpc' = "reading"
  /\ start' = clock
  /\ UNCHANGED <<timeVars, clientVars, pieces, serverVars, wpc>>

Receive ==
  /\ rpc = "reading" /\ ~Expired
  /\ rpc' = "call"
  /\ UNCHANGED <<timeVars, deadline, clientVars, pieces, serverVars, wpc, start>>

(* Conn.Write. *)
WriteArms ==
  /\ wpc = "call" /\ rpc # "timeout"
  /\ deadline' = Armed /\ wpc' = "armed"
  /\ UNCHANGED <<timeVars, clientVars, pieces, serverVars, rpc, start>>

WriteClears ==
  /\ wpc = "armed"
  /\ deadline' = Cleared /\ wpc' = "call"
  /\ UNCHANGED <<timeVars, clientVars, pieces, serverVars, rpc, start>>

Tick ==
  /\ clock < MaxTime /\ ~Expired
  /\ spc # "accepted" /\ rpc \in {"off", "reading"} /\ wpc # "armed"
  /\ clock' = clock + 1
  /\ UNCHANGED <<HandshakeTimeout, readTimeout, deadline, clientVars, pieces, serverVars, rpc,
                 wpc, start>>

Next == \/ ClientRequest \/ ClientResponse \/ Tick
        \/ ServerHandshake \/ ReadPiece \/ ServerNewHandshake \/ ReadTimesOut
        \/ ReadArms \/ ReadClears \/ ReadBlocks \/ Receive \/ WriteArms \/ WriteClears

Spec == Init /\ [][Next]_vars

-----------------------------------------------------------------------------
(* Whatever private keys they draw, the public keys are ones for which      *)
(* powmodp neither panics nor skips the reduction (not 0, and less than p), *)
(* and the server computes the secret the client is after.                  *)
SecretsAgree ==
  /\ request # NoMsg => request[2] \in 1 .. P - 1
  /\ cpc = "wait" /\ response # NoMsg =>
       /\ response[2] \in 1 .. P - 1
       /\ sconn.secret = Power(response[2], priKey)

(* After the handshake both ends have the same id and secret, and the       *)
(* server knows the target and the flag the client asked for, if it did.    *)
HandshakeAgrees == cpc = "done" => cconn = sconn

(* On a transport without a readTimeout (tcp by default) a handshake is     *)
(* over HandshakeTimeout after its beginning, in however many pieces its    *)
(* client sends the request.  With one the promise does not hold: the Read  *)
(* for each piece replaces the deadline of the handshake by its own.        *)
HandshakeBounded ==
  spc = "reading" /\ readTimeout = 0 /\ HandshakeTimeout > 0 =>
    clock <= start + HandshakeTimeout

(* A pump's Read times out only where there is a readTimeout and nothing    *)
(* came for that long: no deadline of a Handshake, its own or that of a     *)
(* concurrent Write, outlives its call.                                     *)
NoSpuriousTimeout == rpc = "timeout" => readTimeout > 0 /\ clock >= start + readTimeout

(* A silent client is noticed readTimeout after the pump's Read began:      *)
(* config.go says of kcp's read_timeout, in Chinese, that a timeout closes  *)
(* the client's connection.  A Write meanwhile erases the deadline.         *)
SilenceNoticed == rpc = "reading" /\ readTimeout > 0 => clock <= start + readTimeout
=============================================================================

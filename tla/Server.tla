-------------------------------- MODULE Server --------------------------------
(***************************************************************************)
(* The life of sessions in the server (server.go): one goroutine per       *)
(* accepted connection (handleConn).  A goroutine in New serves a          *)
(* connection that asks for a new session and then is that session         *)
(* (onNewConn); one in Reuse serves a connection that reuses a session     *)
(* (onReuseConn).  The goroutines share the id allocator and connPairs,    *)
(* each under its mutex; every critical section is a step.                 *)
(*                                                                         *)
(* A scp.Conn is named by the goroutine that accepted it, and its secret   *)
(* by the session it was agreed for: a spawned conn copies the secret, and *)
(* a request verifies against a conn when their secrets are the same.  The *)
(* index check and the streams are module ScpSession; here the check may   *)
(* have either outcome.                                                    *)
(***************************************************************************)
EXTENDS IDAllocator

CONSTANTS New, Reuse

ASSUME ServerAssumption == Start > 0 /\ New \cap Reuse = {}

None == 0   \* no id

VARIABLES
  connPairs,      \* id -> the session whose pair it is: a set of <<id, session>>
  npc, id,        \* New: control state and ID() of its conn
  remote, closed, \* New: RemoteConn.Conn and RemoteConn.connClosed
  upstream,       \* New: "none" before the dial, then its outcome: "open" and
                  \* later "closed", "failed" or "panic"
  rpc, client, reqId, oldConn, pair,
                  \* Reuse: control state, session of the client, id in the
                  \* request, QueryByID's conn, getConnPair's pair
  open, usable    \* conns whose socket is open; conns with a reuse buffer

newVars   == <<npc, id, remote, closed, upstream>>
reuseVars == <<rpc, client, reqId, oldConn, pair>>
connVars  == <<open, usable>>
vars == <<allocVars, connPairs, newVars, reuseVars, connVars>>

(* A goroutine that panicked in its handshake holds its id for ever. *)
Holds(n) ==
  npc[n] \in {"respond", "add", "dial", "pump", "remove", "release", "panicked"}

Ended(n) == npc[n] \in {"done", "panicked"}

Owners(i) == {n \in New : <<i, n>> \in connPairs}

Init ==
  /\ AllocInit /\ connPairs = {}
  /\ npc = [n \in New |-> "accept"] /\ id = [n \in New |-> None]
  /\ remote = [n \in New |-> n] /\ closed = [n \in New |-> FALSE]
  /\ upstream = [n \in New |-> "none"]
  /\ rpc = [r \in Reuse |-> "accept"] /\ reqId = [r \in Reuse |-> None]
  /\ client \in [Reuse -> New]
  /\ oldConn = [r \in Reuse |-> r] /\ pair = client
  /\ open = New \cup Reuse /\ usable = New

(* What onNewConn does after the pumps: its deferred calls, last one first. *)
After_ReleaseFirst(step) ==
  CASE step = "pump" -> "release" [] step = "release" -> "remove" [] OTHER -> "done"
After(step) ==
  CASE step = "pump" -> "remove" [] step = "remove" -> "release" [] OTHER -> "done"

Step(n, to) == npc' = [npc EXCEPT ![n] = to]
Go(r, to)   == rpc' = [rpc EXCEPT ![r] = to]

(* Conn.Close, and spawn's freeze. *)
CloseConns(cs) == open' = open \ cs /\ usable' = usable \ cs

-----------------------------------------------------------------------------
(* handleConn for a new session.  serverNewHandshake: *)
ServerNewHandshake(n) ==
  /\ npc[n] = "accept"
  /\ \/ /\ Acquire
        /\ id' = [id EXCEPT ![n] = NextID]
        /\ Step(n, "respond")
        /\ UNCHANGED connVars
     \/ /\ Step(n, "done")                  \* the request does not arrive
        /\ CloseConns({n})
        /\ UNCHANGED <<allocVars, id>>
  /\ UNCHANGED <<connPairs, remote, closed, upstream, reuseVars>>

(* writeRecord fails: the id goes back at once, and only once. *)
NewResponseFails_Keeps(n) ==
  /\ npc[n] = "respond"
  /\ Step(n, "done")
  /\ CloseConns({n})
  /\ UNCHANGED <<allocVars, connPairs, id, remote, closed, upstream, reuseVars>>
NewResponseFails_Twice(n) ==
  /\ npc[n] = "respond"
  /\ Release(id[n])
  /\ Step(n, "release")
  /\ CloseConns({n})
  /\ UNCHANGED <<connPairs, id, remote, closed, upstream, reuseVars>>
NewResponseFails(n) ==
  /\ npc[n] = "respond"
  /\ Release(id[n])
  /\ Step(n, "done")
  /\ CloseConns({n})
  /\ UNCHANGED <<connPairs, id, remote, closed, upstream, reuseVars>>

(* The response is written.  Then dh64.Secret computes the secret, or       *)
(* panics on a public key of 0: handleConn recovers, and neither gives the  *)
(* id back nor closes the conn.                                             *)
NewResponse(n) ==
  /\ npc[n] = "respond"
  /\ \/ Step(n, "add")
     \/ Step(n, "panicked")
  /\ UNCHANGED <<allocVars, connPairs, id, remote, closed, upstream, reuseVars, connVars>>

(* addConnPair panics on a conflict; NoConflict says there is never one. *)
AddConnPair(n) ==
  /\ npc[n] = "add" /\ Owners(id[n]) = {}
  /\ connPairs' = connPairs \cup {<<id[n], n>>}
  /\ Step(n, "dial")
  /\ UNCHANGED <<allocVars, id, remote, closed, upstream, reuseVars, connVars>>

(* newUpstreamConn: it connects; or no server can be reached or the hook   *)
(* fails, and onNewConn closes the first conn; or the upgrade to scp fails *)
(* and panics, and handleConn's recover closes nothing.                    *)
NewUpstreamConn_Open(n) ==
  /\ npc[n] = "dial"
  /\ \E outcome \in {"open", "failed", "panic"} :
       /\ upstream' = [upstream EXCEPT ![n] = outcome]
       /\ Step(n, IF outcome = "open" THEN "pump" ELSE After("pump"))
       /\ UNCHANGED connVars
  /\ UNCHANGED <<allocVars, connPairs, id, remote, closed, reuseVars>>
NewUpstreamConn(n) ==
  /\ npc[n] = "dial"
  /\ \E outcome \in {"open", "failed", "panic"} :
       /\ upstream' = [upstream EXCEPT ![n] = outcome]
       /\ Step(n, IF outcome = "open" THEN "pump" ELSE After("pump"))
       /\ \/ outcome = "failed" /\ CloseConns({n})
          \/ outcome \in {"open", "panic"} /\ UNCHANGED connVars
  /\ UNCHANGED <<allocVars, connPairs, id, remote, closed, reuseVars>>

(* SCPConn.Close: the reuse timer, or a pump that ended and closed both    *)
(* its connections.                                                        *)
CloseSession(n) ==
  /\ npc[n] = "pump" /\ ~closed[n]
  /\ closed' = [closed EXCEPT ![n] = TRUE]
  /\ CloseConns({remote[n]})
  /\ UNCHANGED <<allocVars, connPairs, npc, id, remote, upstream, reuseVars>>

(* Both pumps have ended: Pump returns. *)
PumpsEnd(n) ==
  /\ npc[n] = "pump" /\ closed[n]
  /\ upstream' = [upstream EXCEPT ![n] = "closed"]
  /\ Step(n, After("pump"))
  /\ UNCHANGED <<allocVars, connPairs, id, remote, closed, reuseVars, connVars>>

RemoveConnPair_Keeps(n) ==
  /\ npc[n] = "remove"
  /\ Step(n, After("remove"))
  /\ UNCHANGED <<allocVars, connPairs, id, remote, closed, upstream, reuseVars, connVars>>
RemoveConnPair(n) ==
  /\ npc[n] = "remove"
  /\ connPairs' = {e \in connPairs : e[1] # id[n]}
  /\ Step(n, After("remove"))
  /\ UNCHANGED <<allocVars, id, remote, closed, upstream, reuseVars, connVars>>

DeferReleaseID(n) ==
  /\ npc[n] = "release"
  /\ Release(id[n])
  /\ Step(n, After("release"))
  /\ UNCHANGED <<connPairs, id, remote, closed, upstream, reuseVars, connVars>>

-----------------------------------------------------------------------------
(* handleConn for a reuse.  The client knows its id once it has the answer. *)
ReadReuseRequest(r) ==
  /\ rpc[r] = "accept" /\ npc[client[r]] \notin {"accept", "respond"}
  /\ id[client[r]] # None
  /\ reqId' = [reqId EXCEPT ![r] = id[client[r]]]
  /\ Go(r, "query")
  /\ UNCHANGED <<allocVars, connPairs, newVars, client, oldConn, pair, connVars>>

(* The secret of conn c: agreed in c's handshake or copied by spawn from a  *)
(* conn against which the request of c verified.                            *)
SecretOf(c) == IF c \in New THEN c ELSE client[c]

(* oldConn is a local of serverReuseHandshake. *)
Forget(r) == oldConn' = [oldConn EXCEPT ![r] = r]

Refuse(r) == Go(r, "done") /\ CloseConns({r}) /\ Forget(r) /\ UNCHANGED pair

(* QueryByID, verifySum and the index check. *)
QueryByID(r) ==
  /\ rpc[r] = "query"
  /\ \/ Refuse(r)
     \/ \E m \in Owners(reqId[r]) :
          /\ SecretOf(remote[m]) = client[r]
          /\ oldConn' = [oldConn EXCEPT ![r] = remote[m]]
          /\ Go(r, "spawn")
          /\ UNCHANGED <<pair, connVars>>
  /\ UNCHANGED <<allocVars, connPairs, newVars, client, reqId>>

Spawn(r) ==
  /\ rpc[r] = "spawn"
  /\ \/ oldConn[r] \notin usable /\ Refuse(r)
     \/ /\ oldConn[r] \in usable
        /\ open' = open \ {oldConn[r]} /\ usable' = usable \cup {r}
        /\ Go(r, "respond") /\ Forget(r)
        /\ UNCHANGED pair
  /\ UNCHANGED <<allocVars, connPairs, newVars, client, reqId>>

(* The response and the resent bytes: written, or the handshake fails. *)
Respond(r) ==
  /\ rpc[r] = "respond"
  /\ \/ Refuse(r)
     \/ Go(r, "get") /\ UNCHANGED <<oldConn, pair, connVars>>
  /\ UNCHANGED <<allocVars, connPairs, newVars, client, reqId>>

GetConnPair_AnyID(r) ==
  /\ rpc[r] = "get"
  /\ \E e \in connPairs :
       /\ pair' = [pair EXCEPT ![r] = e[2]]
       /\ Go(r, "replace")
       /\ UNCHANGED <<oldConn, connVars>>
  /\ UNCHANGED <<allocVars, connPairs, newVars, client, reqId>>
GetConnPair_Conn(r) ==
  /\ rpc[r] = "get"
  /\ \/ Owners(reqId[r]) = {} /\ Refuse(r)
     \/ \E m \in Owners(reqId[r]) :
          /\ pair' = [pair EXCEPT ![r] = remote[m]]
          /\ Go(r, "replace")
          /\ UNCHANGED <<oldConn, connVars>>
  /\ UNCHANGED <<allocVars, connPairs, newVars, client, reqId>>
GetConnPair(r) ==
  /\ rpc[r] = "get"
  /\ \/ Owners(reqId[r]) = {} /\ Refuse(r)
     \/ \E m \in Owners(reqId[r]) :
          /\ pair' = [pair EXCEPT ![r] = m]
          /\ Go(r, "replace")
          /\ UNCHANGED <<oldConn, connVars>>
  /\ UNCHANGED <<allocVars, connPairs, newVars, client, reqId>>

ReplaceRefused(m) == closed[m]

ReplaceConn(r) ==
  LET m == pair[r] IN
  /\ rpc[r] = "replace"
  /\ \/ ReplaceRefused(m) /\ Refuse(r) /\ UNCHANGED remote
     \/ /\ ~ReplaceRefused(m)
        /\ CloseConns({remote[m]})
        /\ remote' = [remote EXCEPT ![m] = r]
        /\ Go(r, "done")
        /\ UNCHANGED <<oldConn, pair>>
  /\ UNCHANGED <<allocVars, connPairs, npc, id, closed, upstream, client, reqId>>

OnNewConn(n) == \/ ServerNewHandshake(n) \/ NewResponseFails(n) \/ NewResponse(n)
                \/ AddConnPair(n) \/ NewUpstreamConn(n) \/ PumpsEnd(n)
                \/ RemoveConnPair(n) \/ DeferReleaseID(n)
OnReuseConn(r) == \/ ReadReuseRequest(r) \/ QueryByID(r) \/ Spawn(r) \/ Respond(r)
                  \/ GetConnPair(r) \/ ReplaceConn(r)

Next == \/ \E n \in New : OnNewConn(n) \/ CloseSession(n)
        \/ \E r \in Reuse : OnReuseConn(r)

Spec == Init /\ [][Next]_vars

-----------------------------------------------------------------------------
TypeOK ==
  /\ AllocTypeOK /\ connPairs \subseteq Nat \X New
  /\ npc \in [New -> {"accept", "respond", "add", "dial", "pump", "remove", "release",
                      "panicked", "done"}]
  /\ id \in [New -> Nat] /\ remote \in [New -> New \cup Reuse]
  /\ closed \in [New -> BOOLEAN]
  /\ upstream \in [New -> {"none", "open", "closed", "failed", "panic"}]
  /\ rpc \in [Reuse -> {"accept", "query", "spawn", "respond", "get", "replace", "done"}]
  /\ client \in [Reuse -> New] /\ reqId \in [Reuse -> Nat]
  /\ oldConn \in [Reuse -> New \cup Reuse] /\ pair \in [Reuse -> New]
  /\ open \subseteq New \cup Reuse /\ usable \subseteq New \cup Reuse

(* addConnPair never meets another pair under its id (it would panic): an   *)
(* id is given back only after its pair has left connPairs.                 *)
NoConflict == \A n \in New : npc[n] = "add" => Owners(id[n]) = {}

(* Two goroutines never own the same id at the same time, whichever of the  *)
(* two paths, the failed handshake or the end of the session, returned it.  *)
IDsUnique == \A m, n \in New : Holds(m) /\ Holds(n) /\ id[m] = id[n] => m = n

(* connPairs holds exactly the sessions between addConnPair and             *)
(* removeConnPair, each under its own id: no session removes another's pair *)
(* and a live session can always be found for reuse.                        *)
PairsExact ==
  connPairs = {<<id[n], n>> : n \in {m \in New : npc[m] \in {"dial", "pump", "remove"}}}

(* Only the panic in the handshake loses an id (scp.go says of ReleaseID:   *)
(* "release a id if handshake failed"): when every goroutine has ended, the *)
(* ids that the allocator will not hand out again are exactly those of the  *)
(* goroutines that panicked, and without a panic it is back in its initial  *)
(* state.                                                                   *)
OnlyPanicLeaks ==
  (\A n \in New : Ended(n)) =>
    /\ \A i \in Start .. off - 1 :
         (\A j \in DOMAIN free : free[j] # i) <=> \E n \in New : npc[n] = "panicked" /\ id[n] = i
    /\ (\A n \in New : npc[n] = "done") => off = Start /\ free = <<>>

(* When a session is over none of its client connections is left open,      *)
(* whatever reuses were under way, except one that the code leaves open:    *)
(* the first one after a panic in the handshake, when nothing closes it;    *)
(* the one in RemoteConn after a panic in the dial; and one installed while *)
(* the dial failed, since onNewConn closes the conn it was called with and  *)
(* not the one in RemoteConn.                                               *)
NothingLeftOpen ==
  \A n \in New : Ended(n) =>
    \A c \in open \cap ({n} \cup {r \in Reuse : pair[r] = n /\ rpc[r] = "done"}) :
      /\ c = remote[n]
      /\ \/ npc[n] = "panicked" /\ c = n
         \/ upstream[n] = "panic"
         \/ upstream[n] = "failed" /\ c # n

(* The conn that ReplaceConn installs belongs to the session it joins (the  *)
(* TODO in remoteconn.go: "check s.Conn and conn is match"), or to one that *)
(* is over: its id was given away between QueryByID and getConnPair.        *)
InstalledMatches ==
  \A n \in New : SecretOf(remote[n]) # n => npc[SecretOf(remote[n])] = "done"

(* The server uses the allocator as the allocator expects: it gives back    *)
(* only ids it holds, each once.                                            *)
AllocatorUse == AllocSpec
=============================================================================

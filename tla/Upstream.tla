------------------------------- MODULE Upstream -------------------------------
(***************************************************************************)
(* The choice of a server and the connection to it (upstream/upstream.go)  *)
(* while the configuration is reloaded.  Every new session runs NewConn in *)
(* its own goroutine; each load of an atomic.Value, each access to the     *)
(* addresses of a shared Host and each dial is a step.                     *)
(***************************************************************************)
EXTENDS Config, FiniteSets

CONSTANTS
  Dialers,  \* goroutines in NewConn
  Names     \* what a client can ask for; "" is no preference

Nil     == <<>>        \* no Host
Private == <<0, 0>>    \* the Host that chooseByResolver makes for one dial

VARIABLES
  dial,  \* NewConn: control, TargetServer, the Host (number of UpdateHosts and
         \* index), loop variables, addresses dialled, numbers of the
         \* UpdateHosts it has seen, whether it asked the resolver
  raced  \* Hosts that two dials used at the same time

vars == <<configVars, dial, raced>>

Init ==
  /\ ConfigInit
  /\ dial \in [Dialers ->
       {[pc |-> IF n = "" THEN "random" ELSE "prefer", name |-> n, host |-> Nil, pos |-> 0,
         swap |-> <<>>, tried |-> {}, seen |-> {}, asked |-> FALSE] : n \in Names}]
  /\ raced = {}

-----------------------------------------------------------------------------
(* A hostGroup, the one under a name or the one of all hosts: the indices  *)
(* of its hosts, their weight up to each index, and its weight.             *)
Group(n, who) == {i \in DOMAIN heap[n] : who = "" \/ heap[n][i].name = who}
WeightTo(n, g) ==
  LET sum[i \in 0 .. Len(heap[n])] ==
        IF i = 0 THEN 0 ELSE sum[i - 1] + (IF i \in g THEN heap[n][i].weight ELSE 0)
  IN sum
GroupWeight(n, g) == WeightTo(n, g)[Len(heap[n])]

(* chooseByLocalHosts with the random number v: an index, or 0 for nil. *)
ChooseByLocalHosts_NoMinus(n, g, v) ==
  LET fits == {i \in g : heap[n][i].weight >= v} IN
  IF fits = {} THEN 0 ELSE CHOOSE i \in fits : \A j \in fits : i <= j
ChooseByLocalHosts(n, g, v) ==
  LET fits == {i \in g : heap[n][i].weight >= v - WeightTo(n, g)[i - 1]} IN
  IF fits = {} THEN 0 ELSE CHOOSE i \in fits : \A j \in fits : i <= j

Choices(n, who) ==
  LET g == Group(n, who)
      pick(v) == ChooseByLocalHosts(n, g, v)
  IN IF g = {} THEN {Nil}
     ELSE {IF pick(v) = 0 THEN Nil ELSE <<n, pick(v)>> : v \in 0 .. GroupWeight(n, g) - 1}

-----------------------------------------------------------------------------
Addrs(h) == heap[h[1]][h[2]].addrs
Working(d) == dial[d].pc \in {"shuffle", "write", "dial"}
Set(d, st) == dial' = [dial EXCEPT ![d] = st]

(* GetHost: st goes on with h, or looks further. *)
Take(d, st, h, else) ==
  \/ /\ h = Nil
     /\ Set(d, [st EXCEPT !.pc = else]) /\ UNCHANGED raced
  \/ /\ h = Private
     /\ Set(d, [st EXCEPT !.pc = "dial", !.host = h]) /\ UNCHANGED raced
  \/ /\ h \notin {Nil, Private}
     /\ Set(d, [st EXCEPT !.pc = "shuffle", !.host = h, !.pos = Len(Addrs(h))])
     /\ raced' = raced \cup {g \in {h} : \E e \in Dialers : Working(e) /\ dial[e].host = g}

(* First with the hosts of that name, *)
GetPreferredHost(d) ==
  /\ dial[d].pc = "prefer"
  /\ \E h \in Choices(byNameHosts, dial[d].name) :
       Take(d, [dial[d] EXCEPT !.seen = {byNameHosts}], h, "resolve")
  /\ UNCHANGED configVars

(* then with the resolver, whose answer is for this dial alone, *)
ChooseByResolver(d) ==
  LET rule == optionOf[option].resolv = "rule" IN
  /\ dial[d].pc = "resolve"
  /\ \E h \in IF rule THEN {Nil, Private} ELSE {Nil} :
       Take(d, [dial[d] EXCEPT !.seen = @ \cup {option}, !.asked = rule], h, "random")
  /\ UNCHANGED configVars

(* and from all hosts. *)
GetRandomHost(d) ==
  /\ dial[d].pc = "random"
  /\ \E h \in Choices(allHosts, "") :
       Take(d, [dial[d] EXCEPT !.seen = @ \cup {allHosts}], h, "nohost")
  /\ UNCHANGED configVars

(* rand.Shuffle on the shared slice: for each i from the last, the elements *)
(* at i and at some j <= i are read, and then written one after the other.  *)
SwapRead(d) ==
  LET i == dial[d].pos
      a == Addrs(dial[d].host)
  IN
  /\ dial[d].pc = "shuffle"
  /\ \/ i <= 1 /\ Set(d, [dial[d] EXCEPT !.pc = "dial", !.pos = 1])
     \/ i > 1 /\ \E j \in 1 .. i :
          Set(d, [dial[d] EXCEPT !.pc = "write", !.swap = << <<i, a[j]>>, <<j, a[i]>> >>])
  /\ UNCHANGED <<configVars, raced>>

Store(h, w) == heap' = [heap EXCEPT ![h[1]][h[2]].addrs[w[1]] = w[2]]

SwapWrite(d) ==
  /\ dial[d].pc = "write"
  /\ Store(dial[d].host, Head(dial[d].swap))
  /\ \/ /\ Len(dial[d].swap) > 1
        /\ Set(d, [dial[d] EXCEPT !.swap = Tail(@)])
     \/ /\ Len(dial[d].swap) = 1
        /\ Set(d, [dial[d] EXCEPT !.swap = <<>>, !.pc = "shuffle", !.pos = @ - 1])
  /\ UNCHANGED <<confVars, optionOf, allHosts, byNameHosts, option, reloadVars, raced>>

(* The loop over host.addrs: net.DialTCP connects, or the next one is tried. *)
LastAddr_Early(d) == dial[d].pos >= Len(Addrs(dial[d].host)) - 1
LastAddr(d) == dial[d].pos >= Len(Addrs(dial[d].host))

DialTCP(d) ==
  LET st == [dial[d] EXCEPT !.tried = @ \cup {Addrs(dial[d].host)[dial[d].pos]}] IN
  /\ dial[d].pc = "dial"
  /\ \/ Set(d, [dial[d] EXCEPT !.pc = "upgrade", !.host = Nil, !.pos = 0, !.tried = {}])
     \/ dial[d].host = Private /\ Set(d, [dial[d] EXCEPT !.pc = "refused"])
     \/ dial[d].host # Private /\ LastAddr(d) /\ Set(d, [st EXCEPT !.pc = "refused"])
     \/ dial[d].host # Private /\ ~LastAddr(d) /\ Set(d, [st EXCEPT !.pos = @ + 1])
  /\ UNCHANGED <<configVars, raced>>

(* upgradeConn with the option of now, and OnAfterConnected.  Close on the  *)
(* nil conn of a failed upgrade panics; the error of a failed hook comes    *)
(* with a conn that nobody closes.                                          *)
UpgradeConn(d) ==
  /\ dial[d].pc = "upgrade"
  /\ \E to \in {"conn", "hookfailed", "panic"} :
       /\ to = "panic" => optionOf[option].net = "scp"
       /\ Set(d, [dial[d] EXCEPT !.pc = to])
  /\ UNCHANGED <<configVars, raced>>

NewConn(d) == \/ GetPreferredHost(d) \/ ChooseByResolver(d) \/ GetRandomHost(d)
              \/ SwapRead(d) \/ SwapWrite(d) \/ DialTCP(d) \/ UpgradeConn(d)

Next == \/ ConfigNext /\ UNCHANGED <<dial, raced>>
        \/ \E d \in Dialers : NewConn(d)

Spec == Init /\ [][Next]_vars

-----------------------------------------------------------------------------
TypeOK ==
  /\ ConfigTypeOK
  /\ \A d \in Dialers :
       /\ dial[d].pc \in {"prefer", "resolve", "random", "shuffle", "write", "dial",
                          "upgrade", "conn", "hookfailed", "panic", "nohost", "refused"}
       /\ dial[d].seen \subseteq DOMAIN heap

(* A dial that was given a name ends with ErrNoHost only after asking the   *)
(* resolver: UpdateHosts admits no configuration with neither.  A dial that *)
(* straddles a reload may see the hosts of one and the option of another.   *)
ResolverAsked ==
  \A d \in Dialers :
    dial[d].pc = "nohost" /\ dial[d].name # "" /\ Cardinality(dial[d].seen) = 1 =>
      dial[d].asked

(* chooseByLocalHosts always finds a host in a group that has one, and the  *)
(* share of each host is its weight to within one.                          *)
ShareWithinOne ==
  \A who \in Names :
    LET n == IF who = "" THEN allHosts ELSE byNameHosts
        g == Group(n, who)
        share(i) == Cardinality({v \in 0 .. GroupWeight(n, g) - 1 :
                                   ChooseByLocalHosts(n, g, v) = i})
    IN /\ share(0) = 0
       /\ \A i \in g : share(i) \in heap[n][i].weight - 1 .. heap[n][i].weight + 1

(* NewConn reports a refused connection only after trying every address of  *)
(* the Host, as long as no two dials of that Host overlap.                  *)
AllTried ==
  \A d \in Dialers :
    LET h == dial[d].host IN
    dial[d].pc = "refused" /\ h # Private /\ h \notin raced =>
      Cardinality(dial[d].tried) = Len(Addrs(h))
=============================================================================

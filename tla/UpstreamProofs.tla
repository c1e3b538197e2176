--------------------------- MODULE UpstreamProofs ---------------------------
(***************************************************************************)
(* Reloads of the configuration and dials of NewConn, for any number of    *)
(* each and any configuration files: what a reload that nobody overlapped  *)
(* has achieved at each of its steps, the share that chooseByLocalHosts    *)
(* gives each host, when the resolver was asked, and which addresses were  *)
(* tried.                                                                  *)
(***************************************************************************)
EXTENDS Upstream, TLAPS

(* The time a leaf may take. *)
USE SMTT(30), ZenonT(20)

Control == {"idle", "clear", "option", "hosts", "update", "byname", "set", "scp", "ok",
            "failed"}

(* heap and optionOf are sequences of the same length.                      *)
Loads ==
  /\ \E S : heap \in Seq(S)
  /\ \E S : optionOf \in Seq(S)
  /\ Len(optionOf) = Len(heap)

Locals ==
  /\ configCache \in [Keys -> SUBSET Files] /\ viper \in Files
  /\ rpc \in [Reloaders -> Control] /\ rload \in [Reloaders -> Nat]
  /\ ropt \in [Reloaders -> Files \cup {NoFile}]
  /\ rhosts \in [Reloaders -> Files \cup {NoFile}]

(* What reload r has brought into force when it is the only one.            *)
Progress(r) ==
  /\ rpc[r] \in {"hosts", "update", "byname", "set", "scp"} => ropt[r] = viper
  /\ rpc[r] \in {"update", "byname", "set", "scp"} => rhosts[r] = viper
  /\ rpc[r] \in {"byname", "set", "scp"} =>
       /\ rload[r] = allHosts /\ allHosts \in 1 .. Len(heap)
       /\ optionOf[allHosts] = viper /\ DOMAIN heap[allHosts] = DOMAIN viper.hosts
  /\ rpc[r] \in {"set", "scp"} => byNameHosts = allHosts
  /\ rpc[r] = "scp" => option = allHosts

Alone ==
  /\ alone \subseteq Reloaders
  /\ \A r \in alone : /\ Running(r) /\ Progress(r)
                     /\ \A q \in Reloaders \ {r} : ~Running(q)

ReloadInv == Loads /\ Locals /\ CacheFresh /\ Alone

(* After main's reloadConfig.                                               *)
LEMMA InitReload == Init => ReloadInv
<1> SUFFICES ASSUME Init PROVE ReloadInv
  OBVIOUS
<1>1. PICK f \in Files :
        /\ viper = f /\ configCache = [k \in Keys |-> {}]
        /\ heap = <<Hosts(f)>> /\ optionOf = <<f>>
        /\ rpc = [r \in Reloaders |-> "idle"] /\ ropt = [r \in Reloaders |-> NoFile]
        /\ rhosts = [r \in Reloaders |-> NoFile] /\ rload = [r \in Reloaders |-> 0]
        /\ alone = {}
  BY Zenon DEF Init, ConfigInit
<1>2. Loads
  <2>1. heap \in Seq({Hosts(f)}) /\ optionOf \in Seq({f}) /\ Len(heap) = 1 /\ Len(optionOf) = 1
    BY <1>1
  <2> QED
    BY <2>1 DEF Loads
<1>3. Locals
  BY <1>1 DEF Locals, Control
<1>4. CacheFresh /\ Alone
  BY <1>1 DEF CacheFresh, Alone
<1> QED
  BY <1>2, <1>3, <1>4 DEF ReloadInv

(* While r runs nobody else is alone, so only its own progress matters.     *)
LEMMA AloneStep ==
  ASSUME ReloadInv, NEW r \in Reloaders, Running(r), alone' \subseteq alone,
         \A q \in Reloaders \ {r} : rpc'[q] = rpc[q],
         r \in alone' => Running(r)' /\ Progress(r)'
  PROVE  Alone'
<1>1. alone \subseteq {r} /\ (r \in alone => \A q \in Reloaders \ {r} : ~Running(q))
  BY DEF ReloadInv, Alone
<1>2. \A q \in Reloaders \ {r} : Running(q)' => Running(q)
  BY DEF Running
<1> QED
  BY <1>1, <1>2 DEF Alone

(* Return ends the loneliness of r with its run.                            *)
LEMMA ReturnStep ==
  ASSUME ReloadInv, NEW r \in Reloaders, Running(r), NEW result \in {"ok", "failed"},
         Return(r, result), UNCHANGED <<viper, configCache, hostVars>>, rpc[r] # "clear"
  PROVE  ReloadInv'
<1>0. Locals
  BY DEF ReloadInv
<1>1. /\ rpc'[r] = result /\ (\A q \in Reloaders \ {r} : rpc'[q] = rpc[q])
      /\ alone' = alone \ {r}
  BY <1>0 DEF Return, Go, Locals
<1>2. Locals'
  BY <1>0 DEF Locals, Return, Go, Control
<1>3. Loads'
  BY DEF ReloadInv, Loads, hostVars
<1>4. CacheFresh'
  BY <1>1 DEF ReloadInv, CacheFresh
<1>5. Alone'
  BY <1>1, AloneStep
<1> QED
  BY <1>2, <1>3, <1>4, <1>5 DEF ReloadInv

(* Each step of reloadConfig.                                               *)
LEMMA ReloadStep ==
  ASSUME ReloadInv, NEW r \in Reloaders, ReloadConfig(r)
  PROVE  ReloadInv'
<1> USE DEF Go
<1>0. Locals /\ rpc[r] \in Control
  BY DEF ReloadInv, Locals
<1>1. CASE ReadInConfig(r)
  <2>1. /\ rpc[r] = "idle" /\ rpc'[r] = "clear" /\ (\A q \in Reloaders \ {r} : rpc'[q] = rpc[q])
        /\ alone' \subseteq {r} /\ (r \in alone' => \A q \in Reloaders : ~Running(q))
        /\ UNCHANGED <<configCache, hostVars, ropt, rhosts, rload>>
    BY <1>0, <1>1 DEF ReadInConfig, Locals
  <2>2. Locals'
    BY <1>0, <1>1 DEF ReadInConfig, Locals, Control
  <2>3. Loads' /\ CacheFresh'
    BY <2>1 DEF ReloadInv, Loads, CacheFresh, hostVars
  <2>4. Alone'
    BY <2>1 DEF Alone, Running, Progress
  <2> QED
    BY <2>2, <2>3, <2>4 DEF ReloadInv
<1>2. CASE ClearCache(r)
  <2>1. /\ rpc[r] = "clear" /\ rpc'[r] = "option"
        /\ (\A q \in Reloaders \ {r} : rpc'[q] = rpc[q])
        /\ configCache' = [k \in Keys |-> {}]
        /\ UNCHANGED <<viper, hostVars, ropt, rhosts, rload, alone>>
    BY <1>0, <1>2 DEF ClearCache, Locals
  <2>2. Locals'
    BY <1>0, <1>2 DEF ClearCache, Locals, Control
  <2>3. Loads' /\ CacheFresh'
    BY <2>1 DEF ReloadInv, Loads, CacheFresh, hostVars
  <2>4. Running(r) /\ Running(r)' /\ Progress(r)'
    BY <2>1 DEF Running, Progress
  <2>5. Alone'
    BY <2>1, <2>4, AloneStep
  <2> QED
    BY <2>2, <2>3, <2>5 DEF ReloadInv
<1>3. CASE UnmarshalOption(r) \/ UnmarshalHosts(r)
  <2>1. CASE Return(r, "failed")
    BY <1>3, <2>1, ReturnStep DEF UnmarshalOption, UnmarshalHosts, Running, confVars
  <2>2. CASE ~Return(r, "failed")
    <3>1. /\ \/ /\ rpc[r] = "option" /\ rpc'[r] = "hosts" /\ ropt'[r] = viper
             \/ /\ rpc[r] = "hosts" /\ rpc'[r] = "update" /\ rhosts'[r] = viper
                /\ ropt' = ropt
          /\ (\A q \in Reloaders \ {r} : rpc'[q] = rpc[q])
          /\ UNCHANGED <<viper, configCache, hostVars, rload, alone>>
          /\ Locals'
      BY <1>0, <1>3, <2>2 DEF UnmarshalOption, UnmarshalHosts, Locals, Control, confVars
    <3>2. Loads' /\ CacheFresh'
      BY <3>1 DEF ReloadInv, Loads, CacheFresh, hostVars
    <3>3. Running(r) /\ Running(r)' /\ (r \in alone' => Progress(r)')
      BY <3>1 DEF Running, Progress, ReloadInv, Alone
    <3>4. Alone'
      BY <3>1, <3>3, AloneStep
    <3> QED
      BY <3>1, <3>2, <3>4 DEF ReloadInv
  <2> QED
    BY <2>1, <2>2
<1>4. CASE StoreAllHosts(r)
  <2>1. CASE Return(r, "failed") /\ UNCHANGED hostVars
    BY <1>4, <2>1, ReturnStep DEF StoreAllHosts, Running, confVars
  <2>2. CASE ~(Return(r, "failed") /\ UNCHANGED hostVars)
    <3>1. /\ rpc[r] = "update" /\ rpc'[r] = "byname" /\ rload'[r] = Len(heap) + 1
          /\ heap' = Append(heap, Hosts(rhosts[r])) /\ optionOf' = Append(optionOf, ropt[r])
          /\ allHosts' = Len(heap) + 1
          /\ (\A q \in Reloaders \ {r} : rpc'[q] = rpc[q])
          /\ UNCHANGED <<viper, configCache, ropt, rhosts, alone>>
      BY <1>0, <1>4, <2>2 DEF StoreAllHosts, Locals, confVars
    <3>2. PICK S, T : heap \in Seq(S) /\ optionOf \in Seq(T)
      BY DEF ReloadInv, Loads
    <3>3. Len(heap) \in Nat /\ Len(optionOf) = Len(heap)
      BY <3>2 DEF ReloadInv, Loads
    <3>4. /\ heap' \in Seq(S \cup {Hosts(rhosts[r])}) /\ Len(heap') = Len(heap) + 1
          /\ heap'[Len(heap) + 1] = Hosts(rhosts[r])
      BY <3>1, <3>2
    <3>5. /\ optionOf' \in Seq(T \cup {ropt[r]}) /\ Len(optionOf') = Len(heap) + 1
          /\ optionOf'[Len(heap) + 1] = ropt[r]
      BY <3>1, <3>2, <3>3
    <3>6. Loads'
      BY <3>4, <3>5 DEF Loads
    <3>7. Locals'
      <4>1. /\ rpc' = [rpc EXCEPT ![r] = "byname"]
            /\ rload' = [rload EXCEPT ![r] = Len(heap) + 1]
        BY <1>4, <2>2 DEF StoreAllHosts
      <4> QED
        BY <1>0, <3>1, <3>3, <4>1 DEF Locals, Control
    <3>8. CacheFresh'
      BY <3>1 DEF ReloadInv, CacheFresh
    <3>9. DOMAIN Hosts(rhosts[r]) = DOMAIN rhosts[r].hosts
      BY DEF Hosts
    <3>10. Running(r) /\ Running(r)' /\ (r \in alone' => Progress(r)')
      <4>1. r \in alone => ropt[r] = viper /\ rhosts[r] = viper
        BY <3>1 DEF ReloadInv, Alone, Progress
      <4>2. Len(heap) + 1 \in 1 .. Len(heap')
        BY <3>3, <3>4
      <4> QED
        BY <3>1, <3>4, <3>5, <3>9, <4>1, <4>2 DEF Running, Progress
    <3>11. Alone'
      BY <3>1, <3>10, AloneStep
    <3> QED
      BY <3>6, <3>7, <3>8, <3>11 DEF ReloadInv
  <2> QED
    BY <2>1, <2>2
<1>5. CASE StoreByNameHosts(r) \/ SetOption(r)
  <2>1. /\ \/ rpc[r] = "byname" /\ rpc'[r] = "set" /\ byNameHosts' = rload[r]
           \/ /\ rpc[r] = "set" /\ rpc'[r] = "scp" /\ option' = rload[r]
              /\ byNameHosts' = byNameHosts
        /\ (\A q \in Reloaders \ {r} : rpc'[q] = rpc[q])
        /\ UNCHANGED <<viper, configCache, heap, optionOf, allHosts, ropt, rhosts, rload,
                       alone>>
        /\ Locals'
    BY <1>0, <1>5, Zenon DEF StoreByNameHosts, SetOption, Locals, Control, confVars
  <2>2. Loads' /\ CacheFresh'
    BY <2>1 DEF ReloadInv, Loads, CacheFresh
  <2>3. Running(r) /\ Running(r)' /\ (r \in alone' => Progress(r)')
    BY <2>1 DEF Running, Progress, ReloadInv, Alone
  <2>4. Alone'
    BY <2>1, <2>3, AloneStep
  <2> QED
    BY <2>1, <2>2, <2>4 DEF ReloadInv
<1>6. CASE UpdateScp(r)
  BY <1>6, ReturnStep DEF UpdateScp, Running
<1> QED
  BY <1>1, <1>2, <1>3, <1>4, <1>5, <1>6 DEF ReloadConfig

(* Dials only permute addresses, and the cache is filled from viper.        *)
LEMMA OtherStep ==
  ASSUME ReloadInv,
         \/ \E k \in Keys : ConfigItem(k)
         \/ \E d \in Dialers : NewConn(d)
         \/ UNCHANGED vars
  PROVE  ReloadInv' /\ UNCHANGED rpc
<1>1. ASSUME NEW k \in Keys, ConfigItem(k) PROVE ReloadInv' /\ UNCHANGED rpc
  <2>1. /\ configCache' = [configCache EXCEPT ![k] = {viper}]
        /\ UNCHANGED <<viper, hostVars, reloadVars>>
    BY <1>1 DEF ConfigItem
  <2>2. Loads' /\ Locals' /\ CacheFresh'
    BY <2>1 DEF ReloadInv, Loads, Locals, CacheFresh, hostVars, reloadVars
  <2>3. Alone' /\ UNCHANGED rpc
    BY <2>1 DEF ReloadInv, Alone, Running, Progress, hostVars, reloadVars
  <2> QED
    BY <2>2, <2>3 DEF ReloadInv
<1>2. ASSUME UNCHANGED configVars PROVE ReloadInv' /\ UNCHANGED rpc
  <2>1. UNCHANGED <<viper, configCache, hostVars, reloadVars>>
    BY <1>2 DEF configVars, confVars
  <2>2. Loads' /\ Locals' /\ CacheFresh'
    BY <2>1 DEF ReloadInv, Loads, Locals, CacheFresh, hostVars, reloadVars
  <2>3. Alone' /\ UNCHANGED rpc
    BY <2>1 DEF ReloadInv, Alone, Running, Progress, hostVars, reloadVars
  <2> QED
    BY <2>2, <2>3 DEF ReloadInv
<1>3. ASSUME NEW d \in Dialers, SwapWrite(d) PROVE ReloadInv' /\ UNCHANGED rpc
  <2> DEFINE h == dial[d].host
  <2>1. UNCHANGED <<viper, configCache, optionOf, allHosts, byNameHosts, option, reloadVars>>
    BY <1>3 DEF SwapWrite, confVars
  <2>2. PICK hosts : /\ heap' = [heap EXCEPT ![h[1]] = hosts]
                     /\ DOMAIN hosts = DOMAIN heap[h[1]]
    <3> DEFINE w == Head(dial[d].swap)
               new == [heap[h[1]] EXCEPT ![h[2]].addrs[w[1]] = w[2]]
    <3>1. heap' = [heap EXCEPT ![h[1]][h[2]].addrs[w[1]] = w[2]]
      BY <1>3, Zenon DEF SwapWrite, Store
    <3>2. heap' = [heap EXCEPT ![h[1]] = new]
      BY <3>1, Zenon
    <3>3. DOMAIN new = DOMAIN heap[h[1]]
      OBVIOUS
    <3> HIDE DEF new, h
    <3> QED
      BY <3>2, <3>3, ZenonT(40)
  <2>3. PICK S : heap \in Seq(S)
    BY DEF ReloadInv, Loads
  <2>4. /\ heap' \in Seq(S \cup {hosts}) /\ Len(heap') = Len(heap)
        /\ \A n \in 1 .. Len(heap) : DOMAIN heap'[n] = DOMAIN heap[n]
    <3>1. PICK p : heap' = [heap EXCEPT ![p] = hosts] /\ DOMAIN hosts = DOMAIN heap[p]
      BY <2>2, Zenon
    <3>2. Len(heap) \in Nat /\ DOMAIN heap = 1 .. Len(heap)
          /\ \A n \in 1 .. Len(heap) : heap[n] \in S
      BY <2>3
    <3>3. heap' = [n \in 1 .. Len(heap) |-> IF n = p THEN hosts ELSE heap[n]]
      BY <3>1, <3>2, Zenon
    <3>4. heap' \in [1 .. Len(heap) -> S \cup {hosts}]
      BY <3>2, <3>3
    <3>5. heap' \in Seq(S \cup {hosts}) /\ Len(heap') = Len(heap)
      BY <3>2, <3>4
    <3>6. \A n \in 1 .. Len(heap) : DOMAIN heap'[n] = DOMAIN heap[n]
      BY <3>1, <3>3
    <3> QED
      BY <3>5, <3>6
  <2>5. Loads' /\ Locals' /\ CacheFresh'
    BY <2>1, <2>4 DEF ReloadInv, Loads, Locals, CacheFresh, reloadVars
  <2>6. Alone' /\ UNCHANGED rpc
    BY <2>1, <2>4, SMTT(30) DEF ReloadInv, Alone, Running, Progress, reloadVars
  <2> QED
    BY <2>5, <2>6 DEF ReloadInv
<1>4. ASSUME NEW d \in Dialers, NewConn(d) PROVE UNCHANGED configVars \/ SwapWrite(d)
  BY <1>4, Zenon DEF NewConn, GetPreferredHost, ChooseByResolver, GetRandomHost, SwapRead, DialTCP,
              UpgradeConn
<1> QED
  BY <1>1, <1>2, <1>3, <1>4 DEF vars

(* What reloads have read, cached and stored, in every reachable state.     *)
THEOREM ReloadInvariance == Spec => []ReloadInv
<1>1. ReloadInv /\ [Next]_vars => ReloadInv'
  BY ReloadStep, OtherStep DEF Next, ConfigNext
<1> QED
  BY <1>1, InitReload, PTL DEF Spec

(* No setting of an older file stays in the cache, whatever reloads and     *)
(* readers of settings overlap.                                             *)
THEOREM CacheIsFresh == Spec => []CacheFresh
<1>1. ReloadInv => CacheFresh
  BY DEF ReloadInv
<1> QED
  BY <1>1, ReloadInvariance, PTL

(* A reload that nobody overlapped and that succeeds has put its one file   *)
(* into force, for all the dials that go on meanwhile.                      *)
THEOREM ReloadsTakeEffect == Spec => ReloadTakesEffect
<1> DEFINE Effect ==
      \A r \in alone : rpc[r] # rpc'[r] /\ rpc'[r] = "ok" =>
        /\ allHosts' = byNameHosts' /\ byNameHosts' = option'
        /\ optionOf'[option'] = viper'
        /\ viper'.buf > 0 => reuseBufferSize' = viper'.buf
        /\ DOMAIN heap'[allHosts'] = DOMAIN viper'.hosts
<1>1. ReloadInv /\ [Next]_vars => [Effect]_configVars
  <2> SUFFICES ASSUME ReloadInv, [Next]_vars, NEW r \in alone, rpc[r] # rpc'[r], rpc'[r] = "ok"
               PROVE  /\ allHosts' = byNameHosts' /\ byNameHosts' = option'
                      /\ optionOf'[option'] = viper'
                      /\ viper'.buf > 0 => reuseBufferSize' = viper'.buf
                      /\ DOMAIN heap'[allHosts'] = DOMAIN viper'.hosts
    OBVIOUS
  <2>1. PICK q \in Reloaders : ReloadConfig(q)
    BY OtherStep DEF Next, ConfigNext
  <2>2. r \in Reloaders /\ rpc \in [Reloaders -> Control] /\ Progress(r)
    BY Zenon DEF ReloadInv, Alone, Locals
  <2>3. q = r
    BY <2>1, <2>2, Zenon DEF ReloadConfig, ReadInConfig, ClearCache, UnmarshalOption, UnmarshalHosts,
      StoreAllHosts, StoreByNameHosts, SetOption, UpdateScp, Return, Go
  <2>4. UpdateScp(r)
    BY <2>1, <2>2, <2>3, Zenon DEF ReloadConfig, ReadInConfig, ClearCache, UnmarshalOption,
      UnmarshalHosts, StoreAllHosts, StoreByNameHosts, SetOption, Return, Go
  <2> QED
    BY <2>2, <2>4, Zenon DEF UpdateScp, Progress, hostVars
<1> QED
  BY <1>1, ReloadInvariance, PTL DEF Spec, ReloadTakesEffect

-----------------------------------------------------------------------------
(* The hosts that dials find. *)

HostObject == [name : STRING, weight : Nat \ {0}, addrs : Seq(STRING)]

(* What UpdateHosts has stored can be used, and is something to choose from. *)
HeapTypes ==
  /\ heap \in Seq(Seq(HostObject)) /\ optionOf \in Seq(Files) /\ Len(optionOf) = Len(heap)
  /\ \A n \in DOMAIN heap :
       /\ optionOf[n].resolv # "none" \/ heap[n] # <<>>
       /\ \A i \in DOMAIN heap[n] : heap[n][i].addrs # <<>>
  /\ {allHosts, byNameHosts, option} \subseteq DOMAIN heap /\ reuseBufferSize > 0

Loading ==
  \A r \in Reloaders :
    /\ rpc[r] \in {"hosts", "update"} => ropt[r] \in Files
    /\ rpc[r] = "update" => rhosts[r] \in Files
    /\ rpc[r] \in {"byname", "set"} => rload[r] \in DOMAIN heap

HeapInv == HeapTypes /\ Loading

(* A step of a reload leaves the hosts of earlier ones as they are.         *)
Grown ==
  /\ DOMAIN heap \subseteq DOMAIN heap'
  /\ \A n \in DOMAIN heap : heap'[n] = heap[n] /\ optionOf'[n] = optionOf[n]
  /\ \A n \in DOMAIN heap' \ DOMAIN heap : \A i \in DOMAIN heap'[n] : Distinct(heap'[n][i].addrs)

(* The hosts that UpdateHosts makes.                                        *)
LEMMA HostsMade ==
  ASSUME NEW f \in Files
  PROVE  /\ Hosts(f) \in Seq(HostObject) /\ DOMAIN Hosts(f) = DOMAIN f.hosts
         /\ \A i \in DOMAIN f.hosts : Hosts(f)[i].addrs = f.hosts[i].addrs
         /\ \A i \in DOMAIN f.hosts : Distinct(f.hosts[i].addrs)
         /\ Hosts(f) = <<>> <=> f.hosts = <<>>
<1> DEFINE H == [name : STRING, weight : Int, addrs : Seq(STRING)]
           made(x) == [x EXCEPT !.weight = IF @ <= 0 THEN DefaultWeight ELSE @]
<1>1. f.hosts \in Seq(H) /\ DefaultWeight \in Nat \ {0}
      /\ \A i \in DOMAIN f.hosts : Distinct(f.hosts[i].addrs)
  BY FilesAssumption, Zenon
<1>2. ASSUME NEW x \in H PROVE made(x) \in HostObject /\ made(x).addrs = x.addrs
  BY <1>1 DEF HostObject
<1>3. Hosts(f) = [i \in DOMAIN f.hosts |-> made(f.hosts[i])]
  BY DEF Hosts
<1> HIDE DEF made, H
<1>4. /\ Len(f.hosts) \in Nat /\ DOMAIN f.hosts = 1 .. Len(f.hosts)
      /\ \A i \in DOMAIN f.hosts : f.hosts[i] \in H
  BY <1>1
<1>5. Hosts(f) \in [1 .. Len(f.hosts) -> HostObject]
  BY <1>2, <1>3, <1>4, Zenon
<1>6. Hosts(f) \in Seq(HostObject) /\ Len(Hosts(f)) = Len(f.hosts)
  BY <1>4, <1>5
<1>7. Hosts(f) = <<>> <=> f.hosts = <<>>
  BY <1>1, <1>6
<1> QED
  BY <1>1, <1>2, <1>3, <1>4, <1>6, <1>7

(* main's reloadConfig stores hosts that can be used.                       *)
LEMMA InitHeap == Init => HeapInv
<1> SUFFICES ASSUME Init PROVE HeapInv
  OBVIOUS
<1>1. PICK f \in Files :
        /\ Loadable(f, f) /\ reuseBufferSize = (IF f.buf > 0 THEN f.buf ELSE DefaultReuse)
        /\ heap = <<Hosts(f)>> /\ optionOf = <<f>>
        /\ allHosts = 1 /\ byNameHosts = 1 /\ option = 1
        /\ rpc = [r \in Reloaders |-> "idle"]
  BY Zenon DEF Init, ConfigInit
<1>2. /\ Hosts(f) \in Seq(HostObject) /\ (Hosts(f) = <<>> <=> f.hosts = <<>>)
      /\ DOMAIN Hosts(f) = DOMAIN f.hosts
      /\ \A i \in DOMAIN f.hosts : Hosts(f)[i].addrs = f.hosts[i].addrs
  BY HostsMade, Zenon
<1>3. /\ f.resolv # "none" \/ Hosts(f) # <<>>
      /\ \A i \in DOMAIN Hosts(f) : Hosts(f)[i].addrs # <<>>
  BY <1>1, <1>2, Zenon DEF Loadable
<1>4. /\ heap \in Seq(Seq(HostObject)) /\ optionOf \in Seq(Files)
      /\ Len(optionOf) = 1 /\ Len(heap) = 1 /\ DOMAIN heap = {1} /\ heap[1] = Hosts(f)
      /\ optionOf[1] = f
  BY <1>1, <1>2
<1>5. reuseBufferSize > 0
  BY <1>1, FilesAssumption
<1>6. HeapTypes
  BY <1>1, <1>3, <1>4, <1>5, ZenonT(40) DEF HeapTypes
<1>7. Loading
  BY <1>1 DEF Loading
<1> QED
  BY <1>6, <1>7 DEF HeapInv

(* The steps of reloadConfig.                                               *)
LEMMA HeapReload ==
  ASSUME ReloadInv, HeapInv, NEW r \in Reloaders, ReloadConfig(r)
  PROVE  HeapInv' /\ Grown
<1> USE DEF Go
<1>0. /\ viper \in Files /\ rpc \in [Reloaders -> Control] /\ rload \in [Reloaders -> Nat]
      /\ ropt \in [Reloaders -> Files \cup {NoFile}]
      /\ rhosts \in [Reloaders -> Files \cup {NoFile}]
  BY DEF ReloadInv, Locals
<1>1. ASSUME UNCHANGED <<heap, optionOf>>, reuseBufferSize' > 0,
             {allHosts', byNameHosts', option'} \subseteq DOMAIN heap, Loading'
      PROVE  HeapInv' /\ Grown
  BY <1>1 DEF HeapInv, HeapTypes, Grown
<1>2. CASE ReadInConfig(r) \/ ClearCache(r)
  <2>1. Loading'
    BY <1>0, <1>2, ZenonT(40) DEF HeapInv, Loading, ReadInConfig, ClearCache, hostVars
  <2> QED
    BY <1>1, <1>2, <2>1, Zenon DEF ReadInConfig, ClearCache, hostVars, HeapInv, HeapTypes
<1>3. CASE UnmarshalOption(r) \/ UnmarshalHosts(r)
  <2>1. Loading'
    BY <1>0, <1>3 DEF HeapInv, Loading, UnmarshalOption, UnmarshalHosts, hostVars, Return
  <2> QED
    BY <1>1, <1>3, <2>1, Zenon DEF UnmarshalOption, UnmarshalHosts, hostVars, confVars, HeapInv, HeapTypes
<1>4. CASE StoreByNameHosts(r) \/ SetOption(r)
  <2>1. Loading'
    BY <1>0, <1>4 DEF HeapInv, Loading, StoreByNameHosts, SetOption
  <2>2. rload[r] \in DOMAIN heap
    BY <1>4, Zenon DEF HeapInv, Loading, StoreByNameHosts, SetOption
  <2> QED
    BY <1>1, <1>4, <2>1, <2>2, Zenon DEF StoreByNameHosts, SetOption, confVars, HeapInv, HeapTypes
<1>5. CASE UpdateScp(r)
  <2>1. Loading'
    BY <1>0, <1>5 DEF HeapInv, Loading, UpdateScp, Return, hostVars
  <2>2. reuseBufferSize' > 0
    BY <1>5 DEF UpdateScp, HeapInv, HeapTypes
  <2> QED
    BY <1>1, <1>5, <2>1, <2>2, Zenon DEF UpdateScp, hostVars, HeapInv, HeapTypes
<1>6. CASE StoreAllHosts(r)
  <2>1. CASE Return(r, "failed") /\ UNCHANGED hostVars
    <3>1. Loading'
      BY <1>0, <2>1 DEF HeapInv, Loading, Return, hostVars
    <3> QED
      BY <1>1, <1>6, <2>1, <3>1, Zenon DEF StoreAllHosts, hostVars, confVars, HeapInv, HeapTypes
  <2>2. CASE ~(Return(r, "failed") /\ UNCHANGED hostVars)
    <3> DEFINE f == rhosts[r]
               o == ropt[r]
               N == Len(heap)
    <3>1. /\ Loadable(o, f) /\ heap' = Append(heap, Hosts(f)) /\ optionOf' = Append(optionOf, o)
          /\ allHosts' = N + 1 /\ rload' = [rload EXCEPT ![r] = N + 1]
          /\ rpc' = [rpc EXCEPT ![r] = "byname"]
          /\ UNCHANGED <<byNameHosts, option, ropt, rhosts, reuseBufferSize>>
      BY <1>6, <2>2, Zenon DEF StoreAllHosts, confVars
    <3>2. f \in Files /\ o \in Files
      BY <1>6, Zenon DEF StoreAllHosts, HeapInv, Loading
    <3>3. /\ Hosts(f) \in Seq(HostObject) /\ (Hosts(f) = <<>> <=> f.hosts = <<>>)
          /\ DOMAIN Hosts(f) = DOMAIN f.hosts
          /\ \A i \in DOMAIN f.hosts : Hosts(f)[i].addrs = f.hosts[i].addrs
          /\ \A i \in DOMAIN f.hosts : Distinct(f.hosts[i].addrs)
      BY <3>2, HostsMade, Zenon
    <3>4. /\ o.resolv # "none" \/ Hosts(f) # <<>>
          /\ \A i \in DOMAIN Hosts(f) : Hosts(f)[i].addrs # <<>> /\ Distinct(Hosts(f)[i].addrs)
      BY <3>1, <3>3, Zenon DEF Loadable
    <3> HIDE DEF f, o
    <3>5. /\ heap \in Seq(Seq(HostObject)) /\ optionOf \in Seq(Files) /\ Len(optionOf) = N
          /\ N \in Nat
      BY DEF HeapInv, HeapTypes
    <3>6. /\ heap' \in Seq(Seq(HostObject)) /\ optionOf' \in Seq(Files)
          /\ Len(heap') = N + 1 /\ Len(optionOf') = N + 1
          /\ heap'[N + 1] = Hosts(f) /\ optionOf'[N + 1] = o
          /\ \A n \in 1 .. N : heap'[n] = heap[n] /\ optionOf'[n] = optionOf[n]
      BY <3>1, <3>2, <3>3, <3>5
    <3>7. /\ DOMAIN heap = 1 .. N /\ DOMAIN heap' = 1 .. N + 1
          /\ DOMAIN heap' = DOMAIN heap \cup {N + 1} /\ N + 1 \notin DOMAIN heap
      BY <3>5, <3>6
    <3> HIDE DEF N
    <3>8. Grown
      BY <3>4, <3>6, <3>7, Zenon DEF Grown
    <3>9. HeapTypes'
      <4>1. {allHosts', byNameHosts', option'} \subseteq DOMAIN heap'
        BY <3>1, <3>7, Zenon DEF HeapInv, HeapTypes
      <4>2. \A n \in DOMAIN heap' :
              /\ optionOf'[n].resolv # "none" \/ heap'[n] # <<>>
              /\ \A i \in DOMAIN heap'[n] : heap'[n][i].addrs # <<>>
        <5> DEFINE Usable(hs, opt) == /\ opt.resolv # "none" \/ hs # <<>>
                                      /\ \A i \in DOMAIN hs : hs[i].addrs # <<>>
        <5>1. \A n \in 1 .. N : Usable(heap[n], optionOf[n])
          BY <3>7, Zenon DEF HeapInv, HeapTypes
        <5>2. Usable(Hosts(f), o)
          BY <3>4, Zenon
        <5> HIDE DEF Usable
        <5>3. \A n \in DOMAIN heap' : Usable(heap'[n], optionOf'[n])
          BY <3>6, <3>7, <5>1, <5>2, Zenon
        <5> QED
          BY <5>3, Zenon DEF Usable
      <4>3. reuseBufferSize' > 0
        BY <3>1, Zenon DEF HeapInv, HeapTypes
      <4> QED
        BY <3>6, <4>1, <4>2, <4>3, ZenonT(40) DEF HeapTypes
    <3>10. Loading'
      BY <1>0, <3>1, <3>7 DEF HeapInv, Loading
    <3> QED
      BY <3>8, <3>9, <3>10 DEF HeapInv
  <2> QED
    BY <2>1, <2>2
<1> QED
  BY <1>2, <1>3, <1>4, <1>5, <1>6, Zenon DEF ReloadConfig

-----------------------------------------------------------------------------
(* The locals of NewConn. *)

Object(h) == h \in (DOMAIN heap) \X Nat /\ h[2] \in DOMAIN heap[h[1]]

Steps == {"prefer", "resolve", "random", "shuffle", "write", "dial", "upgrade", "conn",
          "hookfailed", "panic", "nohost", "refused"}
HostIds == {Nil} \cup (Nat \X Nat)
Swaps == Seq(Nat \X STRING)
AddrSets == SUBSET STRING
LoadSets == SUBSET Nat
DialRecord == [pc : Steps, name : Names, host : HostIds, pos : Int, swap : Swaps,
               tried : AddrSets, seen : LoadSets, asked : BOOLEAN]

DialOK(st) ==
  /\ st.seen \subseteq DOMAIN heap
  /\ st.pc \in {"shuffle", "write"} => Object(st.host)
  /\ st.pc \in {"dial", "refused"} => st.host = Private \/ Object(st.host)
  /\ st.pc = "shuffle" => st.pos \in 0 .. Len(Addrs(st.host))
  /\ st.pc = "write" =>
       /\ Len(st.swap) \in 1 .. 2 /\ st.pos \in 2 .. Len(Addrs(st.host))
       /\ \A k \in DOMAIN st.swap : st.swap[k][1] \in 1 .. Len(Addrs(st.host))
  /\ st.pc = "dial" /\ st.host # Private => st.pos \in 1 .. Len(Addrs(st.host))

DialTypes == dial \in [Dialers -> DialRecord] /\ \A d \in Dialers : DialOK(dial[d])

(* A write of the shuffle changes one element of the addresses of a Host.   *)
Rewritten(h, w) ==
  /\ DOMAIN heap' = DOMAIN heap /\ Len(heap') = Len(heap)
  /\ \A n \in DOMAIN heap :
       /\ DOMAIN heap'[n] = DOMAIN heap[n]
       /\ \A i \in DOMAIN heap[n] :
            heap'[n][i].addrs = IF <<n, i>> = h THEN [heap[n][i].addrs EXCEPT ![w[1]] = w[2]]
                                ELSE heap[n][i].addrs

(* An assignment to an element of a slice.                                  *)
LEMMA ReplaceAt ==
  ASSUME NEW S, NEW a \in Seq(S), NEW k \in 1 .. Len(a), NEW x \in S
  PROVE  [a EXCEPT ![k] = x] \in Seq(S) /\ Len([a EXCEPT ![k] = x]) = Len(a)
  OBVIOUS

(* The write of one element of host.addrs, in the heap.                     *)
LEMMA StoreEffect ==
  ASSUME HeapTypes, NEW h, Object(h), NEW w \in Nat \X STRING, w[1] \in 1 .. Len(Addrs(h)),
         Store(h, w)
  PROVE  heap' \in Seq(Seq(HostObject)) /\ Rewritten(h, w)
<1> DEFINE n == h[1]
           i == h[2]
           o == heap[n][i]
           a == [o.addrs EXCEPT ![w[1]] = w[2]]
           new == [o EXCEPT !.addrs = a]
           hosts == [heap[n] EXCEPT ![i] = new]
<1>1. heap' = [heap EXCEPT ![n] = hosts]
  BY Zenon DEF Store
<1>2. /\ h = <<n, i>> /\ n \in DOMAIN heap /\ i \in DOMAIN heap[n]
      /\ heap \in Seq(Seq(HostObject)) /\ w[1] \in 1 .. Len(o.addrs) /\ w[2] \in STRING
  BY DEF Object, HeapTypes, Addrs
<1>3. heap[n] \in Seq(HostObject) /\ o \in HostObject
  BY <1>2
<1>4. o.addrs \in Seq(STRING) /\ new \in HostObject /\ new.addrs = a
  <2>1. o.addrs \in Seq(STRING)
    BY <1>3 DEF HostObject
  <2> HIDE DEF o
  <2>2. a \in Seq(STRING)
    BY <1>2, <2>1
  <2> HIDE DEF a
  <2> QED
    BY <1>3, <2>1, <2>2 DEF HostObject
<1> HIDE DEF o, a, new
<1>5. hosts \in Seq(HostObject) /\ DOMAIN hosts = DOMAIN heap[n]
      /\ \A j \in DOMAIN heap[n] : hosts[j] = IF j = i THEN new ELSE heap[n][j]
  BY <1>2, <1>3, <1>4
<1> HIDE DEF hosts
<1>6. /\ heap' \in Seq(Seq(HostObject)) /\ DOMAIN heap' = DOMAIN heap /\ Len(heap') = Len(heap)
      /\ \A m \in DOMAIN heap : heap'[m] = IF m = n THEN hosts ELSE heap[m]
  BY <1>1, <1>2, <1>5
<1>7. ASSUME NEW m \in DOMAIN heap
      PROVE  /\ DOMAIN heap'[m] = DOMAIN heap[m]
             /\ \A j \in DOMAIN heap[m] :
                  heap'[m][j].addrs = IF <<m, j>> = h THEN [heap[m][j].addrs EXCEPT ![w[1]] = w[2]]
                                      ELSE heap[m][j].addrs
  <2>1. CASE m # n
    <3>1. \A j : <<m, j>> # h
      BY <1>2, <2>1
    <3> QED
      BY <1>6, <2>1, <3>1, Zenon
  <2>2. CASE m = n
    <3>1. \A j : <<m, j>> = h <=> j = i
      BY <1>2, <2>2
    <3>2. heap'[m] = hosts
      BY <1>6, <2>2, Zenon
    <3>3. new.addrs = [heap[m][i].addrs EXCEPT ![w[1]] = w[2]]
      BY <1>4, <2>2, Zenon DEF a, o
    <3> QED
      BY <1>5, <2>2, <3>1, <3>2, <3>3, ZenonT(40)
  <2> QED
    BY <2>1, <2>2
<1> QED
  BY <1>6, <1>7, Zenon DEF Rewritten

(* An entry of a sequence.                                                  *)
LEMMA EntryOf ==
  ASSUME NEW S, NEW s \in Seq(S), NEW i \in DOMAIN s
  PROVE  s[i] \in S
  OBVIOUS

(* Which leaves lengths as they are.                                        *)
LEMMA SameLengths ==
  ASSUME HeapTypes, NEW h, Object(h), NEW w \in Nat \X STRING, w[1] \in 1 .. Len(Addrs(h)),
         heap' \in Seq(Seq(HostObject)), Rewritten(h, w)
  PROVE  /\ \A g : Object(g)' <=> Object(g)
         /\ \A g : Object(g) =>
              /\ Addrs(g) \in Seq(STRING) /\ Addrs(g)' \in Seq(STRING)
              /\ Len(Addrs(g)') = Len(Addrs(g))
              /\ Addrs(g)' = IF g = h THEN [Addrs(g) EXCEPT ![w[1]] = w[2]] ELSE Addrs(g)
<1>1. ASSUME NEW g PROVE Object(g)' <=> Object(g)
  BY Zenon DEF Object, Rewritten
<1>2. ASSUME NEW g, Object(g)
      PROVE  /\ Addrs(g) \in Seq(STRING) /\ Addrs(g)' \in Seq(STRING)
             /\ Len(Addrs(g)') = Len(Addrs(g))
             /\ Addrs(g)' = IF g = h THEN [Addrs(g) EXCEPT ![w[1]] = w[2]] ELSE Addrs(g)
  <2> DEFINE a == heap[g[1]][g[2]].addrs
             b == heap'[g[1]][g[2]].addrs
  <2>1. g = <<g[1], g[2]>> /\ g[1] \in DOMAIN heap /\ g[2] \in DOMAIN heap[g[1]]
    BY <1>2 DEF Object
  <2>2. a \in Seq(STRING)
    <3>1. heap[g[1]] \in Seq(HostObject)
      BY <2>1, EntryOf, Zenon DEF HeapTypes
    <3>2. heap[g[1]][g[2]] \in HostObject
      BY <2>1, <3>1, EntryOf, Zenon
    <3> QED
      BY <3>2 DEF HostObject
  <2>3. b = IF g = h THEN [a EXCEPT ![w[1]] = w[2]] ELSE a
    BY <2>1, Zenon DEF Rewritten
  <2>4. g = h => w[1] \in 1 .. Len(a)
    BY Zenon DEF Addrs
  <2>5. w[2] \in STRING
    OBVIOUS
  <2> HIDE DEF a, b
  <2>6. b \in Seq(STRING) /\ Len(b) = Len(a)
    <3>1. CASE g = h
      <4>1. w[1] \in 1 .. Len(a)
        BY <2>4, <3>1
      <4>2. [a EXCEPT ![w[1]] = w[2]] \in Seq(STRING) /\ Len([a EXCEPT ![w[1]] = w[2]]) = Len(a)
        BY <2>2, <2>5, <4>1, ReplaceAt
      <4> QED
        BY <2>3, <3>1, <4>2, Zenon
    <3>2. CASE g # h
      BY <2>2, <2>3, <3>2, Zenon
    <3> QED
      BY <3>1, <3>2
  <2> QED
    BY <2>2, <2>3, <2>6, Zenon DEF a, b, Addrs
<1> QED
  BY <1>1, <1>2, Zenon

(* A Host stays one, with as many addresses, whatever reloads and shuffles  *)
(* do.                                                                      *)
HostsStay ==
  /\ DOMAIN heap \subseteq DOMAIN heap'
  /\ \A g : Object(g) => Object(g)' /\ Len(Addrs(g)') = Len(Addrs(g))

(* Reloads leave them so,                                                   *)
LEMMA GrownStay == Grown => HostsStay
  BY Zenon DEF Grown, HostsStay, Object, Addrs

(* steps that leave the heap alone,                                         *)
LEMMA SameStay == UNCHANGED heap => HostsStay
  BY Zenon DEF HostsStay, Object, Addrs

(* and then the locals of a dial keep their types.                          *)
LEMMA LocalsStay ==
  ASSUME HostsStay, NEW st, DialOK(st)
  PROVE  DialOK(st)'
  BY Zenon DEF HostsStay, DialOK

(* A Host of a load is neither nil nor a private copy.                      *)
LEMMA ObjectIs == ASSUME HeapTypes, NEW h, Object(h) PROVE h \in Nat \X Nat /\ h \notin {Nil, Private}
<1>1. DOMAIN heap = 1 .. Len(heap) /\ Len(heap) \in Nat
  BY DEF HeapTypes
<1>2. h = <<h[1], h[2]>> /\ h[1] \in DOMAIN heap /\ h[2] \in Nat
  BY DEF Object
<1> QED
  BY <1>1, <1>2 DEF Nil, Private

(* What chooseByLocalHosts may return: a Host of the group, and nil for an  *)
(* empty one only.  It is, by ChoicesAre below.                             *)
ChoicesOK ==
  \A n \in DOMAIN heap : \A who : \A h \in Choices(n, who) :
    \/ h = Nil /\ Group(n, who) = {}
    \/ Object(h) /\ h[1] = n

(* Set, and the three ways of Take.                                         *)
LEMMA SetTypes ==
  ASSUME DialTypes, HostsStay, NEW d \in Dialers, NEW st \in DialRecord, Set(d, st), DialOK(st)'
  PROVE  DialTypes' /\ dial'[d] = st /\ \A e \in Dialers \ {d} : dial'[e] = dial[e]
<1>1. dial' \in [Dialers -> DialRecord] /\ dial'[d] = st
      /\ \A e \in Dialers \ {d} : dial'[e] = dial[e]
  BY DEF DialTypes, Set
<1>2. ASSUME NEW e \in Dialers PROVE DialOK(dial[e])'
  <2>1. CASE e = d
    BY <1>1, <2>1, Zenon
  <2>2. CASE e # d
    <3>1. PICK c : c = dial[e]
      OBVIOUS
    <3>2. DialOK(c)'
      BY <3>1, LocalsStay, Zenon DEF DialTypes
    <3>3. dial'[e] = c
      BY <1>1, <2>2, <3>1, Zenon
    <3> QED
      BY <3>2, <3>3, Zenon
  <2> QED
    BY <2>1, <2>2
<1> QED
  BY <1>1, <1>2, Zenon DEF DialTypes

AtShuffle(st, h, k) == [st EXCEPT !.pc = "shuffle", !.host = h, !.pos = k]

(* The locals of a dial that took a shared Host.                            *)
LEMMA HostTaken ==
  ASSUME NEW st \in DialRecord, NEW h \in Nat \X Nat, NEW k \in Nat
  PROVE  LET new == AtShuffle(st, h, k) IN
         /\ new \in DialRecord /\ new.pc = "shuffle" /\ new.host = h /\ new.pos = k
         /\ new.seen = st.seen /\ new.name = st.name /\ new.tried = st.tried
<1>1. "shuffle" \in Steps /\ h \in HostIds /\ k \in Int
  BY DEF Steps, HostIds
<1> QED
  BY <1>1, Zenon DEF DialRecord, AtShuffle

(* GetHost goes on without a Host, with one of its own, or with a shared    *)
(* one.                                                                     *)
Moved(d) == DialTypes' /\ \A e \in Dialers \ {d} : dial'[e] = dial[e]

TookHost(d, h, st) ==
  LET new == dial'[d] IN
  /\ new.pc = IF h = Private THEN "dial" ELSE "shuffle"
  /\ new.host = h
  /\ new.name = st.name /\ new.tried = st.tried
  /\ raced' = raced \cup {g \in {h} \ {Private} : \E e \in Dialers : Working(e) /\ dial[e].host = g}

(* The three ways of Take keep the types.                                   *)
LEMMA TakeEffect ==
  ASSUME HeapTypes, DialTypes, UNCHANGED heap, NEW d \in Dialers,
         NEW st \in DialRecord, st.seen \subseteq DOMAIN heap,
         NEW h, h \in {Nil, Private} \/ Object(h), NEW else \in {"resolve", "random", "nohost"},
         Take(d, st, h, else)
  PROVE  /\ Moved(d)
         /\ \/ h = Nil /\ dial'[d] = [st EXCEPT !.pc = else] /\ UNCHANGED raced
            \/ h # Nil /\ TookHost(d, h, st)
<1>0. HostsStay
  BY SameStay
<1>1. CASE h = Nil
  <2> DEFINE new == [st EXCEPT !.pc = else]
  <2>1. Set(d, new) /\ UNCHANGED raced
    BY <1>1, Zenon DEF Take, Nil, Private
  <2>2. new \in DialRecord /\ new.pc = else /\ new.seen = st.seen
    BY DEF DialRecord, Steps
  <2> HIDE DEF new
  <2>3. DialOK(new)'
    BY <2>2 DEF DialOK
  <2> QED
    BY <1>0, <1>1, <2>1, <2>2, <2>3, SetTypes, Zenon DEF Moved, new
<1>2. CASE h = Private
  <2> DEFINE new == [st EXCEPT !.pc = "dial", !.host = h]
  <2>1. Set(d, new) /\ UNCHANGED raced
    BY <1>2, Zenon DEF Take, Nil, Private
  <2>2. /\ new \in DialRecord /\ new.pc = "dial" /\ new.host = Private /\ new.seen = st.seen
        /\ new.name = st.name /\ new.tried = st.tried
    BY <1>2, ZenonT(40) DEF DialRecord, Private, Steps, HostIds
  <2> HIDE DEF new
  <2>3. DialOK(new)'
    BY <2>2 DEF DialOK
  <2>4. Moved(d) /\ dial'[d] = new
    BY <1>0, <2>1, <2>2, <2>3, SetTypes, Zenon DEF Moved
  <2> QED
    BY <1>2, <2>1, <2>2, <2>4, Zenon DEF TookHost, Nil, Private
<1>3. CASE Object(h)
  <2>1. h \in Nat \X Nat /\ h \notin {Nil, Private}
    BY <1>3, ObjectIs, Zenon
  <2>2. Len(Addrs(h)) \in Nat
    <3>1. heap[h[1]] \in Seq(HostObject) /\ h[2] \in DOMAIN heap[h[1]]
      BY <1>3 DEF Object, HeapTypes
    <3>2. heap[h[1]][h[2]] \in HostObject
      BY <3>1
    <3> QED
      BY <3>2 DEF Addrs, HostObject
  <2>3. PICK k \in Nat : k = Len(Addrs(h))
    BY <2>2, Zenon
  <2> DEFINE new == AtShuffle(st, h, k)
  <2>4. /\ Set(d, new)
        /\ raced' = raced \cup {g \in {h} : \E e \in Dialers : Working(e) /\ dial[e].host = g}
    BY <2>3, <2>1, ZenonT(40) DEF Take, AtShuffle
  <2>5. /\ new \in DialRecord /\ new.pc = "shuffle" /\ new.host = h /\ new.pos = k
        /\ new.seen = st.seen /\ new.name = st.name /\ new.tried = st.tried
    BY <2>1, HostTaken
  <2> HIDE DEF new
  <2>6. DialOK(new)'
    <3>1. Object(h)' /\ Addrs(h) = Addrs(h)'
      BY <1>3 DEF Object, Addrs
    <3>2. k = Len(Addrs(h))'
      BY <2>3, <3>1, ZenonT(40)
    <3>3. new.pos \in (0 .. Len(Addrs(h)))'
      BY <2>5, <3>2
    <3>4. new.seen \subseteq DOMAIN heap'
      BY <2>5
    <3> QED
      BY <2>5, <3>1, <3>3, <3>4, Zenon DEF DialOK
  <2>7. Moved(d) /\ dial'[d] = new
    BY <1>0, <2>4, <2>5, <2>6, SetTypes, Zenon DEF Moved
  <2>8. {h} \ {Private} = {h}
    BY <2>1
  <2> QED
    BY <2>1, <2>4, <2>5, <2>7, <2>8, Zenon DEF TookHost
<1> QED
  BY <1>1, <1>2, <1>3

(* The three places GetHost looks in.                                       *)
Sought(d, st, h, else) ==
  /\ h \in {Nil, Private} \/ Object(h)
  /\ \/ h = Nil /\ dial'[d] = [st EXCEPT !.pc = else] /\ UNCHANGED raced
     \/ h # Nil /\ TookHost(d, h, st)
  /\ st.name = dial[d].name /\ st.tried = dial[d].tried
  /\ \/ /\ dial[d].pc = "prefer" /\ else = "resolve" /\ st.seen = {byNameHosts}
     \/ /\ dial[d].pc = "resolve" /\ else = "random" /\ st.seen = dial[d].seen \cup {option}
        /\ st.asked = (optionOf[option].resolv = "rule")
     \/ /\ dial[d].pc = "random" /\ else = "nohost" /\ st.seen = dial[d].seen \cup {allHosts}
        /\ st.asked = dial[d].asked /\ (h = Nil => Group(allHosts, "") = {})

AtSeen(st, S) == [st EXCEPT !.seen = S]
AtAsked(st, S, b) == [st EXCEPT !.seen = S, !.asked = b]

(* The locals of a dial that has read byNameHosts or allHosts,              *)
LEMMA SeenMore ==
  ASSUME NEW st \in DialRecord, NEW S \in LoadSets
  PROVE  LET new == AtSeen(st, S)
         IN new \in DialRecord /\ new.seen = S /\ new.name = st.name /\ new.tried = st.tried
            /\ new.asked = st.asked
  BY DEF DialRecord, AtSeen

(* and of one that has read the option.                                     *)
LEMMA AskedMore ==
  ASSUME NEW st \in DialRecord, NEW S \in LoadSets, NEW b \in BOOLEAN
  PROVE  LET new == AtAsked(st, S, b)
         IN new \in DialRecord /\ new.seen = S /\ new.name = st.name /\ new.tried = st.tried
            /\ new.asked = b
  BY Zenon DEF DialRecord, AtAsked

(* Each part of GetHost looks where it should, and keeps the types.         *)
LEMMA GetHostEffect ==
  ASSUME HeapTypes, DialTypes, ChoicesOK, NEW d \in Dialers,
         GetPreferredHost(d) \/ ChooseByResolver(d) \/ GetRandomHost(d)
  PROVE  /\ Moved(d) /\ UNCHANGED configVars
         /\ \E st \in DialRecord : \E h, else : Sought(d, st, h, else)
<1>0. UNCHANGED configVars /\ UNCHANGED heap
  BY Zenon DEF GetPreferredHost, ChooseByResolver, GetRandomHost, configVars, hostVars
<1>1. /\ dial[d] \in DialRecord /\ dial[d].seen \subseteq DOMAIN heap
      /\ {allHosts, byNameHosts, option} \subseteq DOMAIN heap
  BY Zenon DEF DialTypes, DialOK, HeapTypes
<1>2. DOMAIN heap \subseteq Nat
  BY DEF HeapTypes
<1>3. ASSUME NEW st \in DialRecord, NEW h, NEW else \in {"resolve", "random", "nohost"},
             st.seen \subseteq DOMAIN heap, h \in {Nil, Private} \/ Object(h), Take(d, st, h, else)
      PROVE  /\ Moved(d)
             /\ \/ h = Nil /\ dial'[d] = [st EXCEPT !.pc = else] /\ UNCHANGED raced
                \/ h # Nil /\ TookHost(d, h, st)
  BY <1>0, <1>3, TakeEffect, Zenon
<1>4. CASE GetPreferredHost(d)
  <2>1. PICK h \in Choices(byNameHosts, dial[d].name) :
          Take(d, [dial[d] EXCEPT !.seen = {byNameHosts}], h, "resolve")
    BY <1>4, Zenon DEF GetPreferredHost
  <2>2. h \in {Nil, Private} \/ Object(h)
    BY <1>1, Zenon DEF ChoicesOK
  <2>3. {byNameHosts} \in LoadSets /\ {byNameHosts} \subseteq DOMAIN heap
    BY <1>1, <1>2 DEF LoadSets
  <2>4. PICK st : st = AtSeen(dial[d], {byNameHosts})
    OBVIOUS
  <2>5. /\ st \in DialRecord /\ st.seen = {byNameHosts}
        /\ st.name = dial[d].name /\ st.tried = dial[d].tried
    BY <1>1, <2>3, <2>4, SeenMore, Zenon
  <2>6. /\ Moved(d)
        /\ \/ h = Nil /\ dial'[d] = [st EXCEPT !.pc = "resolve"] /\ UNCHANGED raced
           \/ h # Nil /\ TookHost(d, h, st)
    BY <1>3, <2>1, <2>2, <2>3, <2>4, <2>5, Zenon DEF AtSeen
  <2>7. Sought(d, st, h, "resolve")
    BY <1>4, <2>2, <2>5, <2>6, Zenon DEF Sought, GetPreferredHost
  <2> QED
    BY <1>0, <2>5, <2>6, <2>7, Zenon
<1>5. CASE ChooseByResolver(d)
  <2> DEFINE S == dial[d].seen \cup {option}
  <2>0. PICK rule \in BOOLEAN : rule = (optionOf[option].resolv = "rule")
    BY Zenon
  <2>1. PICK h \in {Nil, Private} : Take(d, [dial[d] EXCEPT !.seen = S, !.asked = rule], h, "random")
    BY <1>5, <2>0, Zenon DEF ChooseByResolver
  <2>3. S \in LoadSets /\ S \subseteq DOMAIN heap
    BY <1>1, <1>2, Zenon DEF LoadSets
  <2> HIDE DEF S
  <2>4. PICK st : st = AtAsked(dial[d], S, rule)
    OBVIOUS
  <2>5. /\ st \in DialRecord /\ st.seen = S /\ st.asked = rule
        /\ st.name = dial[d].name /\ st.tried = dial[d].tried
    <3>1. dial[d] \in DialRecord /\ S \in LoadSets
      BY <1>1, <2>3
    <3>2. /\ AtAsked(dial[d], S, rule) \in DialRecord /\ AtAsked(dial[d], S, rule).seen = S
          /\ AtAsked(dial[d], S, rule).asked = rule /\ AtAsked(dial[d], S, rule).name = dial[d].name
          /\ AtAsked(dial[d], S, rule).tried = dial[d].tried
      BY <3>1, AskedMore
    <3> QED
      BY <2>4, <3>2, ZenonT(40)
  <2>6. /\ Moved(d)
        /\ \/ h = Nil /\ dial'[d] = [st EXCEPT !.pc = "random"] /\ UNCHANGED raced
           \/ h # Nil /\ TookHost(d, h, st)
    BY <1>3, <2>1, <2>3, <2>4, <2>5, Zenon DEF AtAsked
  <2>7. Sought(d, st, h, "random")
    BY <1>5, <2>0, <2>1, <2>5, <2>6, Zenon DEF Sought, ChooseByResolver, S
  <2> QED
    BY <1>0, <2>5, <2>6, <2>7, Zenon
<1>6. CASE GetRandomHost(d)
  <2> DEFINE S == dial[d].seen \cup {allHosts}
  <2>1. PICK h \in Choices(allHosts, "") : Take(d, [dial[d] EXCEPT !.seen = S], h, "nohost")
    BY <1>6, Zenon DEF GetRandomHost
  <2>2. (h \in {Nil, Private} \/ Object(h)) /\ (h = Nil => Group(allHosts, "") = {})
    BY <1>1, ObjectIs, Zenon DEF ChoicesOK
  <2>3. S \in LoadSets /\ S \subseteq DOMAIN heap
    BY <1>1, <1>2, Zenon DEF LoadSets
  <2> HIDE DEF S
  <2>4. PICK st : st = AtSeen(dial[d], S)
    BY Zenon
  <2>5. /\ st \in DialRecord /\ st.seen = S /\ st.asked = dial[d].asked
        /\ st.name = dial[d].name /\ st.tried = dial[d].tried
    BY <1>1, <2>3, <2>4, SeenMore, Zenon
  <2>6. /\ Moved(d)
        /\ \/ h = Nil /\ dial'[d] = [st EXCEPT !.pc = "nohost"] /\ UNCHANGED raced
           \/ h # Nil /\ TookHost(d, h, st)
    BY <1>3, <2>1, <2>2, <2>3, <2>4, <2>5, Zenon DEF AtSeen
  <2>7. Sought(d, st, h, "nohost")
    BY <1>6, <2>2, <2>5, <2>6, Zenon DEF Sought, GetRandomHost, S
  <2> QED
    BY <1>0, <2>5, <2>6, <2>7, Zenon
<1> QED
  BY <1>4, <1>5, <1>6

(* What a Host holds, and a read of the shuffle.                            *)
LEMMA AddrsType ==
  ASSUME HeapTypes, NEW h, Object(h)
  PROVE  Addrs(h) \in Seq(STRING) /\ Len(Addrs(h)) \in Nat \ {0}
<1>1. heap[h[1]] \in Seq(HostObject) /\ h[1] \in DOMAIN heap /\ h[2] \in DOMAIN heap[h[1]]
  BY DEF Object, HeapTypes
<1>2. heap[h[1]][h[2]] \in HostObject
  BY <1>1
<1>3. Addrs(h) \in Seq(STRING)
  BY <1>2 DEF Addrs, HostObject
<1>4. Addrs(h) # <<>>
  BY <1>1, Zenon DEF HeapTypes, Addrs
<1> QED
  BY <1>3, <1>4

AtDial(st) == [st EXCEPT !.pc = "dial", !.pos = 1]
AtWrite(st, w) == [st EXCEPT !.pc = "write", !.swap = w]

Read(d) ==
  LET st == dial[d]
      a == Addrs(st.host)
      new == dial'[d]
  IN
  /\ st.pc = "shuffle" /\ new.host = st.host /\ new.tried = st.tried
  /\ \/ new.pc = "dial" /\ new.pos = 1
     \/ new.pc = "write" /\ \E i, j \in DOMAIN a : new.swap = << <<i, a[j]>>, <<j, a[i]>> >>

(* A read of the shuffle keeps the types: both indices are of the slice.    *)
LEMMA SwapReadEffect ==
  ASSUME HeapTypes, DialTypes, NEW d \in Dialers, SwapRead(d)
  PROVE  Moved(d) /\ Read(d) /\ UNCHANGED <<configVars, raced>>
<1>0. UNCHANGED <<configVars, raced>> /\ UNCHANGED heap
  BY Zenon DEF SwapRead, configVars, hostVars
<1>1. HostsStay
  BY <1>0, SameStay
<1>2. PICK st \in DialRecord : st = dial[d]
  BY Zenon DEF DialTypes
<1>3. DialOK(st) /\ st.pc = "shuffle"
  BY <1>2, ZenonT(40) DEF DialTypes, SwapRead
<1>4. st.pos \in 0 .. Len(Addrs(st.host)) /\ Object(st.host) /\ st.seen \subseteq DOMAIN heap
  BY <1>3, Zenon DEF DialOK
<1>5. PICK a : a = Addrs(st.host)
  BY Zenon
<1>6. a \in Seq(STRING) /\ Len(a) \in Nat \ {0} /\ DOMAIN a = 1 .. Len(a)
  BY <1>4, <1>5, AddrsType
<1>7. Object(st.host)' /\ Addrs(st.host)' = a
  BY <1>0, <1>4, <1>5, Zenon DEF Object, Addrs
<1>8. CASE Set(d, AtDial(st))
  <2>1. PICK new : new = AtDial(st)
    OBVIOUS
  <2>2. /\ new \in DialRecord /\ new.pc = "dial" /\ new.pos = 1 /\ new.host = st.host
        /\ new.tried = st.tried /\ new.seen = st.seen
    <3>1. "dial" \in Steps /\ 1 \in Int
      BY DEF Steps
    <3> QED
      BY <2>1, <3>1, Zenon DEF DialRecord, AtDial
  <2>3. new.pos \in 1 .. Len(a)
    BY <1>6, <2>2
  <2>4. DialOK(new)'
    BY <1>0, <1>4, <1>7, <2>2, <2>3 DEF DialOK
  <2>5. Moved(d) /\ dial'[d] = new
    BY <1>1, <1>8, <2>1, <2>2, <2>4, SetTypes, Zenon DEF Moved
  <2> QED
    BY <1>0, <1>2, <1>3, <2>2, <2>5, Zenon DEF Read
<1>9. ASSUME NEW j \in 1 .. st.pos, st.pos > 1,
             Set(d, AtWrite(st, << <<st.pos, a[j]>>, <<j, a[st.pos]>> >>))
      PROVE  Moved(d) /\ Read(d)
  <2>1. PICK w : w = << <<st.pos, a[j]>>, <<j, a[st.pos]>> >>
    BY ZenonT(40)
  <2>2. st.pos \in 2 .. Len(a) /\ j \in DOMAIN a /\ st.pos \in DOMAIN a /\ j \in Nat /\ st.pos \in Nat
    BY <1>4, <1>5, <1>6, <1>9
  <2>3. a[j] \in STRING /\ a[st.pos] \in STRING
    BY <1>6, <2>2
  <2>4. w \in Swaps /\ Len(w) = 2 /\ \A k \in DOMAIN w : w[k][1] \in 1 .. Len(a)
    <3>1. w \in Swaps /\ Len(w) = 2 /\ DOMAIN w = {1, 2} /\ w[1][1] = st.pos /\ w[2][1] = j
      BY <2>1, <2>2, <2>3 DEF Swaps
    <3> QED
      BY <1>6, <2>2, <3>1
  <2>5. PICK new : new = AtWrite(st, w)
    OBVIOUS
  <2>6. /\ new \in DialRecord /\ new.pc = "write" /\ new.pos = st.pos /\ new.host = st.host
        /\ new.tried = st.tried /\ new.seen = st.seen /\ new.swap = w
    <3>1. "write" \in Steps
      BY DEF Steps
    <3> QED
      BY <2>4, <2>5, <3>1, Zenon DEF DialRecord, AtWrite
  <2>7. DialOK(new)'
    <3>1. Len(new.swap) \in 1 .. 2 /\ new.pos \in 2 .. Len(a)
      BY <2>2, <2>4, <2>6
    <3>2. \A k \in DOMAIN new.swap : new.swap[k][1] \in 1 .. Len(a)
      BY <2>4, <2>6, Zenon
    <3>3. new.seen \subseteq DOMAIN heap'
      BY <1>0, <1>4, <2>6, Zenon
    <3>4. new.pc = "write" /\ new.pc \notin {"dial", "refused"} /\ new.pc # "shuffle"
      BY <2>6
    <3> QED
      BY <1>7, <2>6, <3>1, <3>2, <3>3, <3>4, Zenon DEF DialOK
  <2>8. Moved(d) /\ dial'[d] = new
    BY <1>1, <1>9, <2>1, <2>5, <2>6, <2>7, SetTypes, Zenon DEF Moved
  <2> QED
    BY <1>2, <1>3, <1>5, <2>1, <2>2, <2>6, <2>8, Zenon DEF Read
<1> QED
  BY <1>0, <1>2, <1>5, <1>8, <1>9, Zenon DEF SwapRead, AtDial, AtWrite

(* A write of the shuffle: one of two is done.                              *)
AtSecond(st, w) == [st EXCEPT !.swap = w]
AtSwapped(st, k) == [st EXCEPT !.swap = <<>>, !.pc = "shuffle", !.pos = k]

Rewrote(d) ==
  LET h == dial[d].host
      w == dial[d].swap
  IN
  /\ dial[d].pc = "write" /\ Object(h) /\ w \in Swaps
  /\ Head(w)[1] \in DOMAIN Addrs(h) /\ Head(w)[2] \in STRING
  /\ \A g : Object(g)' <=> Object(g)
  /\ \A g : Object(g) => Addrs(g)' = IF g = h THEN [Addrs(g) EXCEPT ![Head(w)[1]] = Head(w)[2]]
                                     ELSE Addrs(g)

Wrote(d) ==
  LET st == dial[d]
      new == dial'[d]
  IN
  /\ Rewrote(d) /\ new.host = st.host /\ new.tried = st.tried
  /\ \/ Len(st.swap) = 2 /\ new.pc = "write" /\ new.swap = Tail(st.swap)
     \/ Len(st.swap) = 1 /\ new.pc = "shuffle"

(* The writes of a swap, and the second of them.                            *)
LEMMA HeadTail ==
  ASSUME NEW w \in Swaps, Len(w) \in 1 .. 2
  PROVE  /\ Head(w) = w[1] /\ w[1] \in Nat \X STRING /\ 1 \in DOMAIN w
         /\ Len(w) > 1 => Len(w) = 2 /\ 2 \in DOMAIN w
         /\ Len(w) = 2 => Tail(w) \in Swaps /\ Len(Tail(w)) = 1 /\ DOMAIN Tail(w) = {1} /\ Tail(w)[1] = w[2]
<1> DEFINE S == Nat \X STRING
<1>1. w \in Seq(S)
  BY DEF Swaps
<1> HIDE DEF S
<1>2. Head(w) = w[1] /\ w[1] \in S /\ 1 \in DOMAIN w /\ (Len(w) > 1 => Len(w) = 2 /\ 2 \in DOMAIN w)
  BY <1>1
<1>3. ASSUME Len(w) = 2
      PROVE  Tail(w) \in Seq(S) /\ Len(Tail(w)) = 1 /\ DOMAIN Tail(w) = {1} /\ Tail(w)[1] = w[2]
  <2>1. w # <<>>
    BY <1>1, <1>3
  <2>2. /\ Tail(w) \in Seq(S) /\ Len(Tail(w)) = Len(w) - 1
        /\ \A i \in 1 .. Len(Tail(w)) : Tail(w)[i] = w[i + 1]
    BY <1>1, <2>1
  <2>3. Len(Tail(w)) = 1
    BY <1>3, <2>2
  <2>4. Tail(w)[1] = w[1 + 1]
    BY <2>2, <2>3
  <2>5. DOMAIN Tail(w) = 1 .. 1
    <3>1. ASSUME NEW t \in Seq(S), Len(t) = 1 PROVE DOMAIN t = 1 .. 1
      BY <3>1
    <3> QED
      BY <2>2, <2>3, <3>1, Zenon
  <2> QED
    BY <2>2, <2>3, <2>4, <2>5
<1> QED
  BY <1>2, <1>3, Zenon DEF S, Swaps

(* A write of the shuffle keeps the types, and changes its one element.     *)
LEMMA SwapWriteEffect ==
  ASSUME HeapTypes, DialTypes, NEW d \in Dialers, SwapWrite(d)
  PROVE  /\ HeapTypes' /\ HostsStay /\ Moved(d) /\ Wrote(d)
         /\ UNCHANGED <<confVars, optionOf, allHosts, byNameHosts, option, reloadVars, raced>>
<1>0. UNCHANGED <<confVars, optionOf, allHosts, byNameHosts, option, reloadVars, raced>>
  BY Zenon DEF SwapWrite
<1>1. PICK st \in DialRecord : st = dial[d]
  BY Zenon DEF DialTypes
<1>2. DialOK(st) /\ st.pc = "write"
  BY <1>1, Zenon DEF DialTypes, SwapWrite
<1>3. /\ Object(st.host) /\ st.seen \subseteq DOMAIN heap
      /\ Len(st.swap) \in 1 .. 2 /\ st.pos \in 2 .. Len(Addrs(st.host))
      /\ \A k \in DOMAIN st.swap : st.swap[k][1] \in 1 .. Len(Addrs(st.host))
  BY <1>2 DEF DialOK
<1>4. PICK h : h = st.host
  OBVIOUS
<1>5. PICK w \in Swaps : w = st.swap
  BY DEF DialRecord
<1>6. /\ Head(w) = w[1] /\ w[1] \in Nat \X STRING /\ 1 \in DOMAIN w
      /\ Len(w) > 1 => Len(w) = 2 /\ 2 \in DOMAIN w
      /\ Len(w) = 2 => Tail(w) \in Swaps /\ Len(Tail(w)) = 1 /\ DOMAIN Tail(w) = {1} /\ Tail(w)[1] = w[2]
  BY <1>3, <1>5, HeadTail, Zenon
<1>7. PICK x \in Nat \X STRING : x = Head(w)
  BY <1>6, Zenon
<1>8. Object(h) /\ x[1] \in 1 .. Len(Addrs(h)) /\ Store(h, x)
  BY <1>1, <1>3, <1>4, <1>5, <1>6, <1>7, Zenon DEF SwapWrite
<1>9. heap' \in Seq(Seq(HostObject)) /\ Rewritten(h, x)
  BY <1>8, StoreEffect, Zenon
<1>10. /\ \A g : Object(g)' <=> Object(g)
       /\ \A g : Object(g) =>
            /\ Addrs(g) \in Seq(STRING) /\ Addrs(g)' \in Seq(STRING)
            /\ Len(Addrs(g)') = Len(Addrs(g))
            /\ Addrs(g)' = IF g = h THEN [Addrs(g) EXCEPT ![x[1]] = x[2]] ELSE Addrs(g)
  BY <1>8, <1>9, SameLengths, Zenon
<1>11. HostsStay
  BY <1>9, <1>10, Zenon DEF HostsStay, Rewritten
<1>12. HeapTypes'
  <2>1. ASSUME NEW n \in DOMAIN heap'
        PROVE  /\ optionOf'[n].resolv # "none" \/ heap'[n] # <<>>
               /\ \A i \in DOMAIN heap'[n] : heap'[n][i].addrs # <<>>
    <3>1. /\ n \in DOMAIN heap /\ DOMAIN heap'[n] = DOMAIN heap[n] /\ optionOf' = optionOf
          /\ heap[n] \in Seq(HostObject) /\ heap'[n] \in Seq(HostObject)
      BY <1>0, <1>9 DEF Rewritten, HeapTypes
    <3>2. optionOf[n].resolv # "none" \/ heap[n] # <<>>
      BY <3>1, Zenon DEF HeapTypes
    <3>3. heap[n] # <<>> => heap'[n] # <<>>
      BY <3>1
    <3>4. ASSUME NEW i \in DOMAIN heap'[n] PROVE heap'[n][i].addrs # <<>>
      <4>1. PICK g : g = <<n, i>>
        BY ZenonT(40)
      <4>2. Object(g) /\ Addrs(g) = heap[n][i].addrs /\ Addrs(g)' = heap'[n][i].addrs
        BY <3>1, <4>1 DEF Object, Addrs
      <4>3. Len(Addrs(g)) \in Nat \ {0}
        BY <4>2, AddrsType
      <4>4. Len(Addrs(g)') # 0
        BY <1>10, <4>2, <4>3
      <4> QED
        BY <4>2, <4>4
    <3> QED
      BY <3>1, <3>2, <3>3, <3>4, ZenonT(40)
  <2>2. /\ optionOf' \in Seq(Files) /\ Len(optionOf') = Len(heap')
        /\ {allHosts', byNameHosts', option'} \subseteq DOMAIN heap' /\ reuseBufferSize' > 0
    BY <1>0, <1>9, Zenon DEF HeapTypes, Rewritten, confVars
  <2> QED
    BY <1>9, <2>1, <2>2, Zenon DEF HeapTypes
<1>13. PICK n \in Nat : n = Len(Addrs(h))
  BY <1>8, AddrsType
<1>14. Object(h)' /\ n = Len(Addrs(h))' /\ st.seen \subseteq DOMAIN heap'
  BY <1>3, <1>8, <1>9, <1>10, <1>13, Zenon DEF Rewritten
<1>15. Rewrote(d)
  <2>1. Head(w)[1] \in DOMAIN Addrs(h) /\ Head(w)[2] \in STRING
    BY <1>7, <1>8, <1>10
  <2> QED
    BY <1>1, <1>2, <1>4, <1>5, <1>7, <1>8, <1>10, <2>1, ZenonT(40) DEF Rewrote
<1>16. ASSUME Len(w) > 1, Set(d, AtSecond(st, Tail(w)))
       PROVE  Moved(d) /\ Wrote(d)
  <2>1. PICK new : new = AtSecond(st, Tail(w))
    OBVIOUS
  <2>2. /\ new \in DialRecord /\ new.pc = "write" /\ new.pos = st.pos /\ new.host = h
        /\ new.tried = st.tried /\ new.seen = st.seen /\ new.swap = Tail(w)
    <3>1. Tail(w) \in Swaps
      BY <1>6, <1>16, Zenon
    <3> QED
      BY <1>2, <1>4, <2>1, <3>1, Zenon DEF DialRecord, AtSecond
  <2>3. DialOK(new)'
    <3>1. Len(new.swap) \in 1 .. 2 /\ new.pos \in 2 .. n
      BY <1>3, <1>4, <1>6, <1>13, <1>16, <2>2
    <3>2. \A k \in DOMAIN new.swap : new.swap[k][1] \in 1 .. n
      <4>1. w[2][1] \in 1 .. n
        BY <1>3, <1>4, <1>5, <1>6, <1>13, <1>16, Zenon
      <4>2. DOMAIN new.swap = {1} /\ new.swap[1] = w[2]
        BY <1>6, <1>16, <2>2, ZenonT(40)
      <4> QED
        BY <4>1, <4>2
    <3>3. new.pc = "write" /\ new.pc \notin {"dial", "refused"} /\ new.pc # "shuffle"
      BY <2>2
    <3> QED
      BY <1>14, <2>2, <3>1, <3>2, <3>3, ZenonT(40) DEF DialOK
  <2>4. Moved(d) /\ dial'[d] = new
    BY <1>11, <1>16, <2>1, <2>2, <2>3, SetTypes, Zenon DEF Moved
  <2> QED
    <3>1. Len(w) = 2
      BY <1>6, <1>16, Zenon
    <3> QED
      BY <1>1, <1>4, <1>5, <1>15, <2>2, <2>4, <3>1, Zenon DEF Wrote
<1>17. ASSUME Len(w) = 1, Set(d, AtSwapped(st, st.pos - 1))
       PROVE  Moved(d) /\ Wrote(d)
  <2>0. PICK k \in Int : k = st.pos - 1
    BY <1>3
  <2>1. PICK new : new = AtSwapped(st, k)
    OBVIOUS
  <2>2. /\ new \in DialRecord /\ new.pc = "shuffle" /\ new.pos = k /\ new.host = h
        /\ new.tried = st.tried /\ new.seen = st.seen
    <3>1. "shuffle" \in Steps /\ <<>> \in Swaps
      BY DEF Steps, Swaps
    <3> QED
      BY <1>2, <1>4, <2>1, <3>1, Zenon DEF DialRecord, AtSwapped
  <2>3. DialOK(new)'
    <3>1. new.pos \in 0 .. n
      BY <1>3, <1>4, <1>13, <2>0, <2>2
    <3>2. new.pc = "shuffle" /\ new.pc \notin {"dial", "refused"} /\ new.pc # "write"
      BY <2>2
    <3> QED
      BY <1>14, <2>2, <3>1, <3>2, Zenon DEF DialOK
  <2>4. Moved(d) /\ dial'[d] = new
    BY <1>11, <1>17, <2>0, <2>1, <2>2, <2>3, SetTypes, Zenon DEF Moved
  <2> QED
    <3>1. Len(w) = 1
      BY <1>17
    <3> QED
      BY <1>1, <1>4, <1>5, <1>15, <2>2, <2>4, <3>1, ZenonT(40) DEF Wrote
<1> QED
  BY <1>0, <1>1, <1>5, <1>11, <1>12, <1>16, <1>17, Zenon DEF SwapWrite, AtSecond, AtSwapped

(* The loop over the addresses.                                             *)
AtUpgrade(st) == [st EXCEPT !.pc = "upgrade", !.host = Nil, !.pos = 0, !.tried = {}]
AtEnd(st, to) == [st EXCEPT !.pc = to]
AtLast(st, T) == [[st EXCEPT !.tried = T] EXCEPT !.pc = "refused"]
AtNext(st, T, k) == [[st EXCEPT !.tried = T] EXCEPT !.pos = k]

Dialled(d) ==
  LET st == dial[d]
      a == Addrs(st.host)
      new == dial'[d]
  IN
  /\ st.pc = "dial"
  /\ \/ new.pc = "upgrade"
     \/ new.pc = "refused" /\ new.host = Private
     \/ /\ Object(st.host) /\ new.host = st.host /\ st.pos \in DOMAIN a
        /\ new.tried = st.tried \cup {a[st.pos]}
        /\ \/ new.pc = "refused" /\ st.pos = Len(a)
           \/ new.pc = "dial" /\ new.pos = st.pos + 1

(* The place after one that is not the last.                                *)
LEMMA NextPlace ==
  ASSUME NEW m \in Nat, NEW p \in 1 .. m, ~(p >= m)
  PROVE  p + 1 \in Int /\ p + 1 \in 1 .. m
  OBVIOUS

(* A dial of the loop never leaves the slice.                               *)
LEMMA DialTCPEffect ==
  ASSUME HeapTypes, DialTypes, NEW d \in Dialers, DialTCP(d)
  PROVE  Moved(d) /\ Dialled(d) /\ UNCHANGED <<configVars, raced>>
<1>0. UNCHANGED <<configVars, raced>> /\ UNCHANGED heap
  BY Zenon DEF DialTCP, configVars, hostVars
<1>1. HostsStay
  BY <1>0, SameStay
<1>2. PICK st \in DialRecord : st = dial[d]
  BY Zenon DEF DialTypes
<1>3. DialOK(st) /\ st.pc = "dial"
  BY <1>2, ZenonT(40) DEF DialTypes, DialTCP
<1>4. /\ st.seen \subseteq DOMAIN heap /\ (st.host = Private \/ Object(st.host))
      /\ st.host # Private => st.pos \in 1 .. Len(Addrs(st.host))
  BY <1>3 DEF DialOK
<1>5. CASE Set(d, AtUpgrade(st))
  <2>1. PICK new : new = AtUpgrade(st)
    OBVIOUS
  <2>2. new \in DialRecord /\ new.pc = "upgrade" /\ new.seen = st.seen
    <3>1. "upgrade" \in Steps /\ Nil \in HostIds /\ {} \in AddrSets
      BY DEF Steps, HostIds, AddrSets
    <3>2. PICK half : half = [st EXCEPT !.pc = "upgrade", !.host = Nil]
      OBVIOUS
    <3>3. half \in DialRecord /\ half.pc = "upgrade" /\ half.seen = st.seen
      BY <3>1, <3>2, Zenon DEF DialRecord
    <3>4. PICK more : more = [half EXCEPT !.pos = 0]
      BY Zenon
    <3>5. more \in DialRecord /\ more.pc = "upgrade" /\ more.seen = st.seen
      BY <3>3, <3>4 DEF DialRecord
    <3>6. PICK none \in AddrSets : none = {}
      BY <3>1
    <3>7. new = [more EXCEPT !.tried = none]
      BY <2>1, <3>2, <3>4, <3>6 DEF AtUpgrade
    <3> QED
      BY <3>5, <3>7 DEF DialRecord
  <2>3. DialOK(new)'
    BY <1>0, <1>4, <2>2 DEF DialOK
  <2>4. Moved(d) /\ dial'[d] = new
    BY <1>1, <1>5, <2>1, <2>2, <2>3, SetTypes, Zenon DEF Moved
  <2> QED
    BY <1>0, <1>2, <1>3, <2>2, <2>4, Zenon DEF Dialled
<1>6. ASSUME st.host = Private, Set(d, AtEnd(st, "refused"))
      PROVE  Moved(d) /\ Dialled(d)
  <2>1. PICK new : new = AtEnd(st, "refused")
    OBVIOUS
  <2>2. new \in DialRecord /\ new.pc = "refused" /\ new.host = Private /\ new.seen = st.seen
    <3>1. "refused" \in Steps
      BY DEF Steps
    <3> QED
      BY <1>6, <2>1, <3>1 DEF DialRecord, AtEnd
  <2>3. DialOK(new)'
    BY <1>0, <1>4, <2>2 DEF DialOK
  <2>4. Moved(d) /\ dial'[d] = new
    BY <1>1, <1>6, <2>1, <2>2, <2>3, SetTypes, ZenonT(40) DEF Moved
  <2> QED
    BY <1>2, <1>3, <2>2, <2>4, Zenon DEF Dialled
<1>7. ASSUME st.host # Private
      PROVE  /\ Object(st.host) /\ Object(st.host)' /\ Addrs(st.host)' = Addrs(st.host)
             /\ st.pos \in DOMAIN Addrs(st.host) /\ st.pos \in Int
             /\ Len(Addrs(st.host)) \in Nat
             /\ st.tried \cup {Addrs(st.host)[st.pos]} \in AddrSets
  <2>1. Object(st.host) /\ st.pos \in 1 .. Len(Addrs(st.host))
    BY <1>4, <1>7, Zenon
  <2>2. Addrs(st.host) \in Seq(STRING)
    BY <2>1, AddrsType, Zenon
  <2>3. st.tried \subseteq STRING
    BY DEF DialRecord, AddrSets
  <2>4. Object(st.host)' /\ Addrs(st.host)' = Addrs(st.host)
    BY <1>0, <2>1, Zenon DEF Object, Addrs
  <2>5. st.pos \in DOMAIN Addrs(st.host) /\ Addrs(st.host)[st.pos] \in STRING
    BY <2>1, <2>2
  <2> QED
    BY <2>1, <2>2, <2>3, <2>4, <2>5 DEF AddrSets
<1>8. ASSUME st.host # Private, LastAddr(d),
             Set(d, AtLast(st, st.tried \cup {Addrs(st.host)[st.pos]}))
      PROVE  Moved(d) /\ Dialled(d)
  <2>1. PICK T \in AddrSets : T = st.tried \cup {Addrs(st.host)[st.pos]}
    BY <1>7, <1>8, Zenon
  <2>2. PICK new : new = AtLast(st, T)
    OBVIOUS
  <2>3. /\ new \in DialRecord /\ new.pc = "refused" /\ new.host = st.host /\ new.seen = st.seen
        /\ new.tried = T
    <3>1. "refused" \in Steps
      BY Zenon DEF Steps
    <3> QED
      BY <2>2, <3>1, Zenon DEF DialRecord, AtLast
  <2>4. DialOK(new)'
    <3>1. new.pc = "refused" /\ new.pc \notin {"shuffle", "write", "dial"}
      BY <2>3
    <3> QED
      BY <1>0, <1>4, <1>7, <1>8, <2>3, <3>1, Zenon DEF DialOK
  <2>5. Moved(d) /\ dial'[d] = new
    BY <1>1, <1>8, <2>1, <2>2, <2>3, <2>4, SetTypes, Zenon DEF Moved
  <2>6. st.pos = Len(Addrs(st.host))
    <3>1. st.pos >= Len(Addrs(st.host))
      BY <1>2, <1>8, Zenon DEF LastAddr
    <3>2. PICK k \in Nat : k = Len(Addrs(st.host))
      BY <1>7, <1>8, Zenon
    <3>3. st.pos \in 1 .. k
      BY <1>4, <1>8, <3>2, Zenon
    <3>4. st.pos = k
      BY <3>1, <3>2, <3>3
    <3> QED
      BY <3>2, <3>4, Zenon
  <2> QED
    BY <1>2, <1>3, <1>7, <1>8, <2>1, <2>3, <2>5, <2>6, Zenon DEF Dialled
<1>9. ASSUME st.host # Private, ~LastAddr(d),
             Set(d, AtNext(st, st.tried \cup {Addrs(st.host)[st.pos]}, st.pos + 1))
      PROVE  Moved(d) /\ Dialled(d)
  <2>1. PICK T \in AddrSets : T = st.tried \cup {Addrs(st.host)[st.pos]}
    BY <1>7, <1>9, Zenon
  <2>2. st.pos + 1 \in Int /\ st.pos + 1 \in 1 .. Len(Addrs(st.host))
    <3>1. ~(st.pos >= Len(Addrs(st.host)))
      BY <1>2, <1>9, Zenon DEF LastAddr
    <3>2. PICK m \in Nat : m = Len(Addrs(st.host))
      BY <1>7, <1>9, Zenon
    <3>3. st.pos \in 1 .. m
      BY <1>4, <1>9, <3>2, Zenon
    <3> QED
      BY <3>1, <3>2, <3>3, NextPlace, Zenon
  <2>3. PICK k \in Int : k = st.pos + 1 /\ k \in 1 .. Len(Addrs(st.host))
    BY <2>2, Zenon
  <2>4. PICK new : new = AtNext(st, T, k)
    OBVIOUS
  <2>5. /\ new \in DialRecord /\ new.pc = "dial" /\ new.host = st.host /\ new.seen = st.seen
        /\ new.tried = T /\ new.pos = k
    BY <1>3, <2>4, Zenon DEF DialRecord, AtNext
  <2>6. DialOK(new)'
    <3>1. new.pc = "dial" /\ new.pc \notin {"shuffle", "write"}
      BY <2>5
    <3> QED
      BY <1>0, <1>4, <1>7, <1>9, <2>3, <2>5, <3>1, Zenon DEF DialOK
  <2>7. Moved(d) /\ dial'[d] = new
    BY <1>1, <1>9, <2>1, <2>3, <2>4, <2>5, <2>6, SetTypes, Zenon DEF Moved
  <2> QED
    BY <1>2, <1>3, <1>7, <1>9, <2>1, <2>3, <2>5, <2>7, Zenon DEF Dialled
<1> QED
  <2>1. \/ Set(d, AtUpgrade(st))
        \/ st.host = Private /\ Set(d, AtEnd(st, "refused"))
        \/ /\ st.host # Private /\ LastAddr(d)
           /\ Set(d, AtLast(st, st.tried \cup {Addrs(st.host)[st.pos]}))
        \/ /\ st.host # Private /\ ~LastAddr(d)
           /\ Set(d, AtNext(st, st.tried \cup {Addrs(st.host)[st.pos]}, st.pos + 1))
    BY <1>2 DEF DialTCP, AtUpgrade, AtEnd, AtLast, AtNext, DialRecord
  <2> QED
    BY <1>0, <1>5, <1>6, <1>8, <1>9, <2>1, Zenon

(* UpgradeConn.                                                             *)
LEMMA UpgradeConnEffect ==
  ASSUME HeapTypes, DialTypes, NEW d \in Dialers, UpgradeConn(d)
  PROVE  /\ Moved(d) /\ dial'[d].pc \in {"conn", "hookfailed", "panic"}
         /\ UNCHANGED <<configVars, raced>>
<1>0. UNCHANGED <<configVars, raced>> /\ UNCHANGED heap
  BY Zenon DEF UpgradeConn, configVars, hostVars
<1>1. HostsStay
  BY <1>0, SameStay
<1>2. PICK st \in DialRecord : st = dial[d]
  BY Zenon DEF DialTypes
<1>3. st.seen \subseteq DOMAIN heap
  BY <1>2, Zenon DEF DialTypes, DialOK
<1>4. PICK to \in {"conn", "hookfailed", "panic"} : Set(d, AtEnd(st, to))
  BY <1>2, Zenon DEF UpgradeConn, AtEnd
<1>5. PICK new : new = AtEnd(st, to)
  OBVIOUS
<1>6. new \in DialRecord /\ new.pc = to /\ new.seen = st.seen
  <2>1. to \in Steps
    BY DEF Steps
  <2> QED
    BY <1>5, <2>1 DEF DialRecord, AtEnd
<1>7. DialOK(new)'
  BY <1>0, <1>3, <1>6 DEF DialOK
<1> QED
  BY <1>0, <1>1, <1>4, <1>5, <1>6, <1>7, SetTypes, Zenon DEF Moved

(* Init, the steps of reloads and of readers of settings, and a dial.       *)
LEMMA InitDials == Init => DialTypes
<1> SUFFICES ASSUME Init PROVE DialTypes
  OBVIOUS
<1>1. ASSUME NEW n \in Names, NEW pc \in {"random", "prefer"}, NEW st,
             st = [pc |-> pc, name |-> n, host |-> Nil, pos |-> 0,
                   swap |-> <<>>, tried |-> {}, seen |-> {}, asked |-> FALSE]
      PROVE  st \in DialRecord /\ DialOK(st)
  <2>1. Nil \in HostIds /\ <<>> \in Swaps /\ {} \in AddrSets /\ {} \in LoadSets /\ 0 \in Int
    BY DEF HostIds, Swaps, AddrSets, LoadSets
  <2>2. pc \in Steps
    BY DEF Steps
  <2>3. st \in DialRecord
    BY <1>1, <2>1, <2>2, Zenon DEF DialRecord
  <2>4. st.pc = pc /\ st.seen = {}
    BY <1>1
  <2> QED
    BY <2>3, <2>4 DEF DialOK
<1>2. \A d \in Dialers : dial[d] \in DialRecord /\ DialOK(dial[d])
  <2> SUFFICES ASSUME NEW d \in Dialers PROVE dial[d] \in DialRecord /\ DialOK(dial[d])
    OBVIOUS
  <2>1. PICK n \in Names :
          dial[d] = [pc |-> IF n = "" THEN "random" ELSE "prefer", name |-> n, host |-> Nil, pos |-> 0,
                     swap |-> <<>>, tried |-> {}, seen |-> {}, asked |-> FALSE]
    BY Zenon DEF Init
  <2>2. (IF n = "" THEN "random" ELSE "prefer") \in {"random", "prefer"}
    BY Zenon
  <2> QED
    BY <1>1, <2>1, <2>2, Zenon
<1>3. dial \in [Dialers -> DialRecord]
  BY <1>2, Zenon DEF Init
<1> QED
  BY <1>2, <1>3 DEF DialTypes

(* A step that leaves hosts and reloads alone,                              *)
LEMMA SameHeap ==
  ASSUME HeapInv, UNCHANGED <<reuseBufferSize, hostVars, reloadVars>>
  PROVE  HeapInv' /\ Grown
<1>1. UNCHANGED <<heap, optionOf, allHosts, byNameHosts, option, rpc, ropt, rhosts, rload>>
  BY Zenon DEF hostVars, reloadVars
<1>2. HeapTypes' /\ Loading'
  BY <1>1, Zenon DEF HeapInv, HeapTypes, Loading
<1>3. Grown
  BY <1>1, Zenon DEF Grown
<1> QED
  BY <1>2, <1>3 DEF HeapInv

(* a step of a reload or of a reader of settings,                           *)
LEMMA QuietStep ==
  ASSUME ReloadInv, HeapInv, DialTypes, (ConfigNext /\ UNCHANGED <<dial, raced>>) \/ UNCHANGED vars
  PROVE  HeapInv' /\ DialTypes' /\ Grown /\ UNCHANGED <<dial, raced>>
<1>1. UNCHANGED dial /\ UNCHANGED raced
  BY Zenon DEF vars
<1>2. HeapInv' /\ Grown
  <2>1. ASSUME NEW r \in Reloaders, ReloadConfig(r) PROVE HeapInv' /\ Grown
    BY <2>1, HeapReload
  <2>2. ASSUME NEW k \in Keys, ConfigItem(k) PROVE HeapInv' /\ Grown
    BY <2>2, SameHeap, Zenon DEF ConfigItem
  <2>3. CASE UNCHANGED vars
    BY <2>3, SameHeap, Zenon DEF vars, configVars, confVars
  <2> QED
    BY <2>1, <2>2, <2>3, Zenon DEF ConfigNext
<1>3. HostsStay
  BY <1>2, GrownStay
<1>4. ASSUME NEW d \in Dialers PROVE DialOK(dial[d])'
  <2>1. PICK c : c = dial[d]
    OBVIOUS
  <2>2. DialOK(c)'
    BY <1>3, <2>1, LocalsStay, Zenon DEF DialTypes
  <2> QED
    BY <1>1, <2>1, <2>2, Zenon
<1>5. DialTypes'
  BY <1>1, <1>4, Zenon DEF DialTypes
<1> QED
  BY <1>1, <1>2, <1>5

(* and a step of a dial keep the types.                                     *)
LEMMA NewConnStep ==
  ASSUME HeapInv, DialTypes, ChoicesOK, NEW d \in Dialers, NewConn(d)
  PROVE  HeapInv' /\ DialTypes'
<1>0. HeapTypes
  BY DEF HeapInv
<1>1. ASSUME Moved(d), UNCHANGED configVars PROVE HeapInv' /\ DialTypes'
  BY <1>1, SameHeap, Zenon DEF Moved, configVars, confVars
<1>2. CASE GetPreferredHost(d) \/ ChooseByResolver(d) \/ GetRandomHost(d)
  BY <1>0, <1>1, <1>2, GetHostEffect, Zenon
<1>3. CASE SwapRead(d)
  BY <1>0, <1>1, <1>3, SwapReadEffect, Zenon
<1>4. CASE SwapWrite(d)
  <2>1. HeapTypes' /\ Moved(d) /\ HostsStay /\ UNCHANGED reloadVars
    BY <1>0, <1>4, SwapWriteEffect, Zenon
  <2>2. Loading'
    BY <2>1, Zenon DEF HeapInv, Loading, reloadVars, HostsStay
  <2> QED
    BY <2>1, <2>2, Zenon DEF HeapInv, Moved
<1>5. CASE DialTCP(d)
  BY <1>0, <1>1, <1>5, DialTCPEffect, Zenon
<1>6. CASE UpgradeConn(d)
  BY <1>0, <1>1, <1>6, UpgradeConnEffect, Zenon
<1> QED
  BY <1>2, <1>3, <1>4, <1>5, <1>6, Zenon DEF NewConn

DialInv == ReloadInv /\ HeapInv /\ DialTypes

-----------------------------------------------------------------------------
(* Whether the resolver was asked. *)

(* A dial that was given a name and saw one configuration only: it knows    *)
(* whether there is a resolver, and has no host only when there are none.   *)
AskedOK(st) ==
  st.pc \in {"random", "nohost"} /\ st.name # "" =>
    /\ st.seen # {}
    /\ \A n : st.seen = {n} =>
         /\ optionOf[n].resolv = "rule" => st.asked
         /\ st.pc = "nohost" => heap[n] = <<>>

Asked == \A d \in Dialers : AskedOK(dial[d])

(* What a step leaves of a configuration that a dial saw.                   *)
OptionsStay ==
  \A n \in DOMAIN heap : optionOf'[n] = optionOf[n] /\ (heap[n] = <<>> => heap'[n] = <<>>)

(* A dial that does not move keeps what it knows,                           *)
LEMMA AskedStays ==
  ASSUME OptionsStay, NEW st, st.seen \subseteq DOMAIN heap, AskedOK(st)
  PROVE  AskedOK(st)'
<1>1. \A n : st.seen = {n} => n \in DOMAIN heap
  BY Zenon
<1> QED
  BY <1>1, Zenon DEF AskedOK, OptionsStay

(* so only the one that moves has to be looked at.                          *)
LEMMA OthersAsked ==
  ASSUME DialTypes, Asked, OptionsStay, NEW d, \A e \in Dialers \ {d} : dial'[e] = dial[e],
         d \in Dialers => AskedOK(dial[d])'
  PROVE  Asked'
<1> SUFFICES ASSUME NEW e \in Dialers, e # d PROVE AskedOK(dial[e])'
  BY Zenon DEF Asked
<1>1. PICK c : c = dial[e]
  OBVIOUS
<1>2. AskedOK(c)'
  BY <1>1, AskedStays, Zenon DEF Asked, DialTypes, DialOK
<1>3. dial'[e] = c
  BY <1>1, Zenon
<1> QED
  BY <1>2, <1>3, Zenon

(* The locals of a dial that goes on without a Host.                        *)
LEMMA EndFields ==
  ASSUME NEW st \in DialRecord, NEW to \in Steps
  PROVE  LET new == AtEnd(st, to) IN
         /\ new.pc = to /\ new.name = st.name /\ new.seen = st.seen /\ new.asked = st.asked
         /\ new.tried = st.tried /\ new.host = st.host
  BY DEF DialRecord, AtEnd

(* GetHost.                                                                 *)
LEMMA AskedGetHost ==
  ASSUME HeapTypes, DialTypes, Asked, NEW d \in Dialers, UNCHANGED configVars,
         NEW st \in DialRecord, NEW h, NEW else, Sought(d, st, h, else)
  PROVE  AskedOK(dial[d])'
<1>1. UNCHANGED heap /\ UNCHANGED optionOf
  BY Zenon DEF configVars, hostVars
<1>2. CASE h # Nil
  <2>1. dial'[d].pc \in {"dial", "shuffle"}
    BY <1>2, Zenon DEF Sought, TookHost
  <2>2. dial'[d].pc \notin {"random", "nohost"}
    BY <2>1
  <2> QED
    BY <2>2, Zenon DEF AskedOK
<1>3. CASE h = Nil
  <2>1. dial'[d] = AtEnd(st, else)
    BY <1>3, Zenon DEF Sought, AtEnd
  <2>2. else \in {"resolve", "random", "nohost"}
    BY Zenon DEF Sought
  <2>3. else \in Steps
    BY <2>2, Zenon DEF Steps
  <2>4. /\ dial'[d].pc = else /\ dial'[d].name = st.name /\ dial'[d].seen = st.seen
        /\ dial'[d].asked = st.asked
    BY <2>1, <2>3, EndFields
  <2>5. CASE else = "resolve"
    <3>1. dial'[d].pc \notin {"random", "nohost"}
      BY <2>4, <2>5
    <3> QED
      BY <3>1, Zenon DEF AskedOK
  <2>6. CASE else = "random"
    <3>1. st.seen = dial[d].seen \cup {option} /\ (optionOf[option].resolv = "rule" => st.asked)
      BY <2>6, Zenon DEF Sought
    <3>2. \A n : st.seen = {n} => n = option
      <4>1. option \in st.seen
        BY <3>1
      <4> QED
        BY <4>1
    <3>3. dial'[d].pc # "nohost"
      BY <2>4, <2>6
    <3>4. \A n : st.seen = {n} => (optionOf[n].resolv = "rule" => st.asked)
      BY <3>1, <3>2, ZenonT(40)
    <3>5. st.seen # {}
      BY <3>1
    <3> QED
      BY <1>1, <2>4, <3>3, <3>4, <3>5, Zenon DEF AskedOK
  <2>7. CASE else = "nohost"
    <3>1. /\ st.seen = dial[d].seen \cup {allHosts} /\ st.asked = dial[d].asked
          /\ dial[d].pc = "random" /\ st.name = dial[d].name /\ Group(allHosts, "") = {}
      BY <1>3, <2>7, Zenon DEF Sought
    <3>2. heap[allHosts] = <<>>
      <4>1. heap[allHosts] \in Seq(HostObject)
        BY DEF HeapTypes
      <4>2. DOMAIN heap[allHosts] = {}
        BY <3>1, Zenon DEF Group
      <4> QED
        BY <4>1, <4>2
    <3>3. ASSUME st.name # ""
          PROVE  /\ st.seen # {}
                 /\ \A n : st.seen = {n} => (optionOf[n].resolv = "rule" => st.asked) /\ heap[n] = <<>>
      <4>1. AskedOK(dial[d])
        BY Zenon DEF Asked
      <4>2. /\ dial[d].seen # {}
            /\ \A n : dial[d].seen = {n} /\ optionOf[n].resolv = "rule" => dial[d].asked
        BY <3>1, <3>3, <4>1, Zenon DEF AskedOK
      <4>3. \A n : st.seen = {n} => n = allHosts /\ dial[d].seen = {n}
        BY <3>1, <4>2, Zenon
      <4> QED
        BY <3>1, <3>2, <4>2, <4>3, Zenon
    <3> QED
      BY <1>1, <2>4, <3>3, Zenon DEF AskedOK
  <2> QED
    BY <2>2, <2>5, <2>6, <2>7, Zenon
<1> QED
  BY <1>2, <1>3

(* All steps keep Asked.                                                    *)
LEMMA AskedStep ==
  ASSUME DialInv, ChoicesOK, Asked, [Next]_vars
  PROVE  Asked'
<1>0. HeapTypes /\ HeapInv /\ DialTypes /\ ReloadInv
  BY DEF DialInv, HeapInv
<1>1. UNCHANGED configVars => OptionsStay
  BY Zenon DEF configVars, hostVars, OptionsStay
<1>2. CASE (ConfigNext /\ UNCHANGED <<dial, raced>>) \/ UNCHANGED vars
  <2>1. Grown /\ UNCHANGED dial
    BY <1>0, <1>2, QuietStep
  <2>2. OptionsStay
    BY <2>1, Zenon DEF Grown, OptionsStay
  <2>3. ASSUME NEW d \in Dialers PROVE AskedOK(dial[d])'
    <3>1. PICK c : c = dial[d]
      OBVIOUS
    <3>2. AskedOK(c)'
      BY <1>0, <2>2, <3>1, AskedStays, Zenon DEF Asked, DialTypes, DialOK
    <3> QED
      BY <2>1, <3>1, <3>2, Zenon
  <2> QED
    BY <2>3, Zenon DEF Asked
<1>3. ASSUME NEW d \in Dialers, NewConn(d) PROVE Asked'
  <2>1. ASSUME Moved(d), OptionsStay, dial'[d].pc \notin {"random", "nohost"} PROVE Asked'
    <3>1. AskedOK(dial[d])'
      BY <2>1, Zenon DEF AskedOK
    <3> QED
      BY <1>0, <2>1, <3>1, OthersAsked, Zenon DEF Moved
  <2>2. CASE GetPreferredHost(d) \/ ChooseByResolver(d) \/ GetRandomHost(d)
    <3>1. Moved(d) /\ UNCHANGED configVars
      BY <1>0, <2>2, GetHostEffect, Zenon
    <3>2. PICK st \in DialRecord : \E h, else : Sought(d, st, h, else)
      BY <1>0, <2>2, GetHostEffect, Zenon
    <3>3. AskedOK(dial[d])'
      BY <1>0, <3>1, <3>2, AskedGetHost, Zenon
    <3> QED
      BY <1>0, <1>1, <3>1, <3>3, OthersAsked, Zenon DEF Moved
  <2>3. CASE SwapRead(d)
    <3>1. Moved(d) /\ Read(d) /\ UNCHANGED configVars
      BY <1>0, <2>3, SwapReadEffect, ZenonT(40)
    <3>2. dial'[d].pc \notin {"random", "nohost"}
      BY <3>1 DEF Read
    <3> QED
      BY <1>1, <2>1, <3>1, <3>2, Zenon
  <2>4. CASE SwapWrite(d)
    <3>1. HeapTypes' /\ HostsStay /\ Moved(d) /\ Wrote(d) /\ UNCHANGED optionOf
      BY <1>0, <2>4, SwapWriteEffect, Zenon
    <3>2. dial'[d].pc \notin {"random", "nohost"}
      BY <3>1 DEF Wrote
    <3>3. ASSUME NEW n \in DOMAIN heap, heap[n] = <<>> PROVE heap'[n] = <<>>
      <4>1. n \in DOMAIN heap'
        BY <3>1, Zenon DEF HostsStay
      <4>2. heap'[n] \in Seq(HostObject)
        BY <3>1, <4>1 DEF HeapTypes
      <4>3. ASSUME heap'[n] # <<>> PROVE FALSE
        <5>1. 1 \in DOMAIN heap'[n]
          BY <4>2, <4>3
        <5>2. Object(<<n, 1>>)'
          BY <4>1, <5>1 DEF Object
        <5>3. Object(<<n, 1>>)
          BY <3>1, <5>2, Zenon DEF Wrote, Rewrote
        <5> QED
          BY <3>3, <5>3 DEF Object
      <4> QED
        BY <4>3
    <3>4. OptionsStay
      BY <3>1, <3>3, ZenonT(40) DEF OptionsStay
    <3> QED
      BY <2>1, <3>1, <3>2, <3>4, Zenon
  <2>5. CASE DialTCP(d)
    <3>1. Moved(d) /\ Dialled(d) /\ UNCHANGED configVars
      BY <1>0, <2>5, DialTCPEffect, Zenon
    <3>2. dial'[d].pc \notin {"random", "nohost"}
      BY <3>1 DEF Dialled
    <3> QED
      BY <1>1, <2>1, <3>1, <3>2, Zenon
  <2>6. CASE UpgradeConn(d)
    <3>1. Moved(d) /\ dial'[d].pc \in {"conn", "hookfailed", "panic"} /\ UNCHANGED configVars
      BY <1>0, <2>6, UpgradeConnEffect, Zenon
    <3>2. dial'[d].pc \notin {"random", "nohost"}
      BY <3>1
    <3> QED
      BY <1>1, <2>1, <3>1, <3>2, Zenon
  <2> QED
    BY <1>3, <2>2, <2>3, <2>4, <2>5, <2>6, Zenon DEF NewConn
<1> QED
  BY <1>2, <1>3, Zenon DEF Next

-----------------------------------------------------------------------------
(* Whether every address was tried. *)

(* Exchanging two addresses keeps them distinct, and as many distinct       *)
(* addresses as a Host has are all of them.                                 *)
LEMMA SwapDistinct ==
  ASSUME NEW S, NEW a \in Seq(S), NEW i \in DOMAIN a, NEW j \in DOMAIN a, Distinct(a),
         NEW b, b = [a EXCEPT ![i] = a[j]], NEW c, c = [b EXCEPT ![j] = a[i]]
  PROVE  Distinct(c)
<1>1. DOMAIN c = DOMAIN a /\ \A k \in DOMAIN a : c[k] = IF k = j THEN a[i] ELSE IF k = i THEN a[j] ELSE a[k]
  OBVIOUS
<1> QED
  BY <1>1 DEF Distinct

(* A Host that no two dials shared has one user at most.                    *)
Exclusive ==
  \A d, e \in Dialers :
    /\ Working(d) /\ Working(e) /\ dial[d].host = dial[e].host
    /\ dial[d].host # Private /\ dial[d].host \notin raced
    => d = e

(* A step that takes no Host keeps Exclusive,                               *)
LEMMA ExclusiveKept ==
  ASSUME Exclusive, NEW d \in Dialers, \A e \in Dialers \ {d} : dial'[e] = dial[e], UNCHANGED raced,
         Working(d)' => Working(d) /\ dial'[d].host = dial[d].host
  PROVE  Exclusive'
<1>1. ASSUME NEW e \in Dialers, Working(e)' PROVE Working(e) /\ dial'[e].host = dial[e].host
  BY <1>1, ZenonT(40) DEF Working
<1> QED
  BY <1>1, Zenon DEF Exclusive

(* and so does Take: a Host in use becomes raced.                           *)
LEMMA ExclusiveTook ==
  ASSUME Exclusive, NEW d \in Dialers, \A e \in Dialers \ {d} : dial'[e] = dial[e],
         NEW h, NEW st, TookHost(d, h, st)
  PROVE  Exclusive' /\ raced \subseteq raced'
<1>1. dial'[d].host = h /\ raced \subseteq raced'
  BY Zenon DEF TookHost
<1>2. ASSUME NEW e \in Dialers \ {d}, Working(e)', dial'[e].host = h, h # Private
      PROVE  h \in raced'
  <2>1. Working(e) /\ dial[e].host = h
    BY <1>2, Zenon DEF Working
  <2>2. h \in {h} \ {Private}
    BY <1>2
  <2> QED
    BY <2>1, <2>2, Zenon DEF TookHost
<1>3. ASSUME NEW e \in Dialers \ {d}, Working(e)' PROVE Working(e) /\ dial'[e].host = dial[e].host
  BY <1>3, Zenon DEF Working
<1> SUFFICES ASSUME NEW e \in Dialers, NEW f \in Dialers,
                    Working(e)', Working(f)', dial'[e].host = dial'[f].host,
                    dial'[e].host # Private, dial'[e].host \notin raced'
             PROVE  e = f
  BY <1>1, Zenon DEF Exclusive
<1>4. CASE e = d
  BY <1>1, <1>2, <1>4, Zenon
<1>5. CASE f = d
  BY <1>1, <1>2, <1>5, Zenon
<1>6. CASE e # d /\ f # d
  <2>1. /\ Working(e) /\ Working(f) /\ dial'[e].host = dial[e].host /\ dial'[f].host = dial[f].host
    BY <1>3, <1>6, Zenon
  <2>2. dial[e].host \notin raced
    BY <1>1, <2>1, Zenon
  <2> QED
    BY <2>1, <2>2, Zenon DEF Exclusive
<1> QED
  BY <1>4, <1>5, <1>6

(* T has n addresses.                                                       *)
AsMany(T, n) ==
  \E b \in Seq(STRING) : Distinct(b) /\ Len(b) = n /\ T = {b[k] : k \in 1 .. Len(b)}

(* What a dial has tried of the addresses a of its Host, and the writes of  *)
(* its shuffle that are still to come.                                      *)
TriedOK(st, a) ==
  /\ st.pc = "write" =>
       \/ /\ Len(st.swap) = 2 /\ Distinct(a)
          /\ \E i, j \in DOMAIN a : st.swap = << <<i, a[j]>>, <<j, a[i]>> >>
       \/ Len(st.swap) = 1 /\ Distinct([a EXCEPT ![st.swap[1][1]] = st.swap[1][2]])
  /\ st.pc \in {"shuffle", "write"} => st.tried = {}
  /\ st.pc = "dial" => st.tried = {a[k] : k \in 1 .. st.pos - 1}
  /\ st.pc = "refused" => AsMany(st.tried, Len(a))

Writing(h) == \E d \in Dialers : dial[d].pc = "write" /\ dial[d].host = h

Held(d) ==
  /\ dial[d].pc \in {"shuffle", "write", "dial", "refused"}
  /\ dial[d].host # Private /\ dial[d].host \notin raced

Whole == \A h : Object(h) /\ h \notin raced /\ ~Writing(h) => Distinct(Addrs(h))

Fresh == \A d \in Dialers : dial[d].pc \in {"prefer", "resolve", "random"} => dial[d].tried = {}

Tries(d) == TriedOK(dial[d], Addrs(dial[d].host))
Tried == \A d \in Dialers : Held(d) => Tries(d)

Complete == Exclusive /\ Whole /\ Fresh /\ Tried

(* The Host of a dial that holds it is whole unless the dial is writing.    *)
LEMMA HeldObject ==
  ASSUME DialTypes, NEW d \in Dialers, Held(d)
  PROVE  Object(dial[d].host)
  BY Zenon DEF DialTypes, DialOK, Held

(* Between shuffles the addresses of a Host that nobody else uses are all   *)
(* there.                                                                   *)
LEMMA HeldWhole ==
  ASSUME DialTypes, Complete, NEW d \in Dialers, Held(d), dial[d].pc \in {"shuffle", "dial"}
  PROVE  Distinct(Addrs(dial[d].host))
<1>1. ASSUME Writing(dial[d].host) PROVE FALSE
  <2>1. PICK e \in Dialers : dial[e].pc = "write" /\ dial[e].host = dial[d].host
    BY <1>1, Zenon DEF Writing
  <2>2. Working(d) /\ Working(e)
    BY <2>1 DEF Working
  <2>3. e = d
    BY <2>1, <2>2, Zenon DEF Complete, Exclusive, Held
  <2>4. dial[d].pc # "write"
    OBVIOUS
  <2> QED
    BY <2>1, <2>3, <2>4, Zenon
<1> QED
  BY <1>1, HeldObject, Zenon DEF Complete, Whole, Held

(* A step of a dial that leaves the addresses alone.                        *)
LEMMA CompleteKept ==
  ASSUME DialTypes, Complete, NEW d \in Dialers, Moved(d), UNCHANGED heap, raced \subseteq raced',
         Exclusive', dial[d].pc # "write",
         dial'[d].pc \in {"prefer", "resolve", "random"} => dial'[d].tried = {},
         Held(d)' => Tries(d)'
  PROVE  Complete'
<1>0. \A h : Object(h)' = Object(h) /\ Addrs(h)' = Addrs(h)
  BY Zenon DEF Object, Addrs
<1>1. \A e \in Dialers \ {d} : dial'[e] = dial[e]
  BY Zenon DEF Moved
<1>2. Whole'
  <2> SUFFICES ASSUME NEW h, Object(h)', h \notin raced', ~Writing(h)' PROVE Distinct(Addrs(h)')
    BY Zenon DEF Whole, Distinct
  <2>1. ~Writing(h)
    BY <1>1, Zenon DEF Writing
  <2>2. Object(h) /\ h \notin raced
    BY <1>0, Zenon
  <2>3. Distinct(Addrs(h))
    BY <2>1, <2>2, Zenon DEF Complete, Whole
  <2> QED
    BY <1>0, <2>3, Zenon DEF Distinct
<1>3. Fresh'
  BY <1>1, Zenon DEF Complete, Fresh
<1>4. Tried'
  <2> SUFFICES ASSUME NEW e \in Dialers, e # d, Held(e)' PROVE Tries(e)'
    BY Zenon DEF Tried
  <2>1. dial'[e] = dial[e] /\ Held(e)
    BY <1>1, Zenon DEF Held
  <2>2. Tries(e)
    BY <2>1, Zenon DEF Complete, Tried
  <2> QED
    BY <2>1, <2>2, Zenon DEF Tries, Addrs
<1> QED
  BY <1>2, <1>3, <1>4, Zenon DEF Complete

(* GetHost,                                                                 *)
LEMMA CompleteGetHost ==
  ASSUME DialTypes, Complete, NEW d \in Dialers, Moved(d), UNCHANGED configVars,
         NEW st \in DialRecord, NEW h, NEW else, Sought(d, st, h, else)
  PROVE  Complete'
<1>0. UNCHANGED heap
  BY Zenon DEF configVars, hostVars
<1>1. /\ dial[d].pc \in {"prefer", "resolve", "random"} /\ st.tried = dial[d].tried
      /\ else \in {"resolve", "random", "nohost"}
  BY Zenon DEF Sought
<1>2. dial[d].pc # "write" /\ st.tried = {}
  BY <1>1 DEF Complete, Fresh
<1>3. \A e \in Dialers \ {d} : dial'[e] = dial[e]
  BY Zenon DEF Moved
<1>4. CASE h = Nil
  <2>1. dial'[d] = AtEnd(st, else) /\ UNCHANGED raced
    BY <1>4, Zenon DEF Sought, AtEnd
  <2>2. else \in Steps
    BY <1>1, ZenonT(40) DEF Steps
  <2>3. dial'[d].pc = else /\ dial'[d].tried = {}
    BY <1>2, <2>1, <2>2, EndFields
  <2>4. ~Working(d)' /\ ~Held(d)'
    BY <1>1, <2>3 DEF Working, Held
  <2>5. Exclusive'
    BY <1>3, <2>1, <2>4, ExclusiveKept, Zenon DEF Complete
  <2> QED
    BY <1>0, <1>2, <2>1, <2>3, <2>4, <2>5, CompleteKept, Zenon
<1>5. CASE h # Nil
  <2>1. TookHost(d, h, st)
    BY <1>5, Zenon DEF Sought
  <2>2. Exclusive' /\ raced \subseteq raced'
    BY <1>3, <2>1, ExclusiveTook, Zenon DEF Complete
  <2>3. /\ dial'[d].pc \in {"dial", "shuffle"} /\ dial'[d].tried = {} /\ dial'[d].host = h
        /\ h # Private => dial'[d].pc = "shuffle"
    BY <1>2, <2>1, Zenon DEF TookHost
  <2>4. dial'[d].pc \notin {"prefer", "resolve", "random"}
    BY <2>3
  <2>5. ASSUME Held(d)' PROVE Tries(d)'
    <3>1. dial'[d].pc = "shuffle"
      BY <2>3, <2>5, Zenon DEF Held
    <3>2. dial'[d].pc \notin {"write", "dial", "refused"}
      BY <3>1
    <3> QED
      BY <2>3, <3>2, Zenon DEF Tries, TriedOK
  <2> QED
    BY <1>0, <1>2, <2>2, <2>4, <2>5, CompleteKept, Zenon
<1> QED
  BY <1>4, <1>5

(* a read of the shuffle: nothing is tried yet;                             *)
LEMMA CompleteSwapRead ==
  ASSUME HeapTypes, DialTypes, Complete, NEW d \in Dialers, Moved(d), UNCHANGED <<configVars, raced>>, Read(d)
  PROVE  Complete'
<1>0. UNCHANGED heap /\ UNCHANGED raced
  BY Zenon DEF configVars, hostVars
<1>1. /\ dial[d].pc = "shuffle" /\ dial'[d].host = dial[d].host /\ dial'[d].tried = dial[d].tried
      /\ dial'[d].pc \in {"dial", "write"}
  BY Zenon DEF Read
<1>2. Exclusive'
  <2>1. Working(d) /\ \A e \in Dialers \ {d} : dial'[e] = dial[e]
    BY <1>1, Zenon DEF Working, Moved
  <2> QED
    BY <1>0, <1>1, <2>1, ExclusiveKept, Zenon DEF Complete
<1>3. dial[d].pc # "write" /\ dial'[d].pc \notin {"prefer", "resolve", "random", "shuffle", "refused"}
  BY <1>1
<1>4. ASSUME Held(d)' PROVE Tries(d)'
  <2>1. Held(d)
    BY <1>0, <1>1, <1>4, Zenon DEF Held
  <2>2. PICK a : a = Addrs(dial[d].host)
    OBVIOUS
  <2>3. Distinct(a)
    BY <1>1, <2>1, <2>2, HeldWhole, Zenon
  <2>4. dial'[d].tried = {}
    BY <1>1, <2>1, Zenon DEF Complete, Tried, Tries, TriedOK
  <2>5. TriedOK(dial'[d], a)
    <3>1. CASE dial'[d].pc = "dial" /\ dial'[d].pos = 1
      <4>1. {a[k] : k \in 1 .. dial'[d].pos - 1} = {}
        BY <3>1
      <4>2. dial'[d].pc # "write"
        BY <3>1
      <4> QED
        BY <1>3, <2>4, <4>1, <4>2, Zenon DEF TriedOK
    <3>2. CASE /\ dial'[d].pc = "write"
               /\ \E i, j \in DOMAIN a : dial'[d].swap = << <<i, a[j]>>, <<j, a[i]>> >>
      <4>1. Len(dial'[d].swap) = 2 /\ dial'[d].pc # "dial"
        BY <3>2
      <4> QED
        BY <1>3, <2>3, <2>4, <3>2, <4>1, Zenon DEF TriedOK
    <3> QED
      BY <2>2, <3>1, <3>2, Zenon DEF Read
  <2>6. a = heap'[dial'[d].host[1]][dial'[d].host[2]].addrs
    BY <1>0, <1>1, <2>2, Zenon DEF Addrs
  <2> QED
    BY <2>5, <2>6, Zenon DEF Tries, Addrs
<1> QED
  BY <1>0, <1>2, <1>3, <1>4, CompleteKept, Zenon

(* a dial: one address more was tried, and after the last one all;          *)
LEMMA CompleteDialTCP ==
  ASSUME HeapTypes, DialTypes, Complete, NEW d \in Dialers, Moved(d), UNCHANGED <<configVars, raced>>, Dialled(d)
  PROVE  Complete'
<1>0. UNCHANGED heap /\ UNCHANGED raced
  BY Zenon DEF configVars, hostVars
<1>1. dial[d].pc = "dial" /\ dial'[d].pc \in {"upgrade", "refused", "dial"}
  BY Zenon DEF Dialled
<1>2. Exclusive'
  <2>1. Working(d) /\ \A e \in Dialers \ {d} : dial'[e] = dial[e]
    BY <1>1, Zenon DEF Working, Moved
  <2>2. Working(d)' => dial'[d].host = dial[d].host
    <3>1. Working(d)' => dial'[d].pc \notin {"upgrade", "refused"}
      BY DEF Working
    <3> QED
      BY <3>1, Zenon DEF Dialled
  <2> QED
    BY <1>0, <2>1, <2>2, ExclusiveKept, Zenon DEF Complete
<1>3. dial[d].pc # "write" /\ dial'[d].pc \notin {"prefer", "resolve", "random", "shuffle", "write"}
  BY <1>1
<1>4. ASSUME Held(d)' PROVE Tries(d)'
  <2>1. PICK a : a = Addrs(dial[d].host)
    OBVIOUS
  <2>2. /\ Object(dial[d].host) /\ dial'[d].host = dial[d].host /\ dial[d].pos \in DOMAIN a
        /\ dial'[d].tried = dial[d].tried \cup {a[dial[d].pos]}
        /\ \/ dial'[d].pc = "refused" /\ dial[d].pos = Len(a)
           \/ dial'[d].pc = "dial" /\ dial'[d].pos = dial[d].pos + 1
    <3>1. dial'[d].pc # "upgrade" /\ dial'[d].host # Private
      BY <1>4 DEF Held
    <3> QED
      BY <2>1, <3>1, Zenon DEF Dialled
  <2>3. Held(d)
    BY <1>0, <1>1, <1>4, <2>2, Zenon DEF Held
  <2>4. Distinct(a) /\ a \in Seq(STRING)
    BY <1>1, <2>1, <2>2, <2>3, HeldWhole, AddrsType, Zenon
  <2>5. PICK p : p = dial[d].pos
    OBVIOUS
  <2>6. p \in 1 .. Len(a) /\ Len(a) \in Nat
    BY <2>2, <2>4, <2>5
  <2>7. dial[d].tried = {a[k] : k \in 1 .. p - 1}
    BY <1>1, <2>1, <2>3, <2>5, Zenon DEF Complete, Tried, Tries, TriedOK
  <2>8. dial'[d].tried = {a[k] : k \in 1 .. p}
    <3>1. 1 .. p = (1 .. p - 1) \cup {p}
      BY <2>6
    <3>2. dial'[d].tried = {a[k] : k \in 1 .. p - 1} \cup {a[p]}
      BY <2>2, <2>5, <2>7, Zenon
    <3> QED
      BY <3>1, <3>2, Zenon
  <2>9. TriedOK(dial'[d], a)
    <3>1. CASE dial'[d].pc = "refused" /\ p = Len(a)
      <4>1. AsMany(dial'[d].tried, Len(a))
        BY <2>4, <2>8, <3>1, ZenonT(40) DEF AsMany
      <4>2. dial'[d].pc # "dial"
        BY <3>1
      <4> QED
        BY <1>3, <4>1, <4>2, Zenon DEF TriedOK
    <3>2. CASE dial'[d].pc = "dial" /\ dial'[d].pos = p + 1
      <4>1. dial'[d].pos - 1 = p
        BY <2>6, <3>2
      <4>2. dial'[d].pc # "refused"
        BY <3>2
      <4> QED
        BY <1>3, <2>8, <4>1, <4>2, ZenonT(40) DEF TriedOK
    <3> QED
      BY <2>2, <2>5, <3>1, <3>2, Zenon
  <2>10. a = heap'[dial'[d].host[1]][dial'[d].host[2]].addrs
    BY <1>0, <2>1, <2>2, Zenon DEF Addrs
  <2> QED
    BY <2>9, <2>10, Zenon DEF Tries, Addrs
<1> QED
  BY <1>0, <1>2, <1>3, <1>4, CompleteKept, Zenon

(* a write of the shuffle: after the second the addresses are all there     *)
(* again.                                                                   *)
LEMMA CompleteSwapWrite ==
  ASSUME HeapTypes, HeapTypes', HostsStay, DialTypes, Complete, NEW d \in Dialers, Moved(d), UNCHANGED raced, Wrote(d)
  PROVE  Complete'
<1>0. PICK h : h = dial[d].host
  OBVIOUS
<1>1. PICK x : x = Head(dial[d].swap)
  OBVIOUS
<1>2. /\ dial[d].pc = "write" /\ Object(h) /\ dial[d].swap \in Swaps
      /\ x[1] \in DOMAIN Addrs(h) /\ \A g : Object(g)' <=> Object(g)
      /\ \A g : Object(g) => Addrs(g)' = IF g = h THEN [Addrs(g) EXCEPT ![x[1]] = x[2]] ELSE Addrs(g)
  BY <1>0, <1>1, Zenon DEF Wrote, Rewrote
<1>3. /\ dial'[d].host = h /\ dial'[d].tried = dial[d].tried
      /\ \/ Len(dial[d].swap) = 2 /\ dial'[d].pc = "write" /\ dial'[d].swap = Tail(dial[d].swap)
         \/ Len(dial[d].swap) = 1 /\ dial'[d].pc = "shuffle"
  BY <1>0, Zenon DEF Wrote
<1>4. \A e \in Dialers \ {d} : dial'[e] = dial[e]
  BY ZenonT(40) DEF Moved
<1>5. Working(d) /\ dial'[d].pc \in {"write", "shuffle"}
  BY <1>2, <1>3 DEF Working
<1>6. Exclusive'
  BY <1>0, <1>3, <1>4, <1>5, ExclusiveKept, Zenon DEF Complete
<1>7. Fresh'
  <2>1. dial'[d].pc \notin {"prefer", "resolve", "random"}
    BY <1>5, ZenonT(40)
  <2> QED
    BY <1>4, <2>1, Zenon DEF Complete, Fresh
<1>8. Private # h /\ Addrs(h) \in Seq(STRING)
  BY <1>2, ObjectIs, AddrsType
<1>9. ASSUME h \notin raced
      PROVE  /\ dial[d].tried = {}
             /\ dial'[d].pc = "shuffle" => Distinct(Addrs(h)')
             /\ dial'[d].pc = "write" =>
                  /\ Len(dial'[d].swap) = 1
                  /\ LET y == dial'[d].swap[1] IN Distinct([Addrs(h)' EXCEPT ![y[1]] = y[2]])
  <2>1. Held(d)
    BY <1>0, <1>2, <1>8, <1>9, Zenon DEF Held
  <2>2. PICK a : a = Addrs(h)
    OBVIOUS
  <2>3. PICK st : st = dial[d]
    OBVIOUS
  <2>4. TriedOK(st, a)
    BY <1>0, <2>1, <2>2, <2>3, Zenon DEF Complete, Tried, Tries
  <2>5. PICK b : b = [a EXCEPT ![x[1]] = x[2]]
    BY Zenon
  <2>6. Addrs(h)' = b
    BY <1>2, <2>2, <2>5, Zenon
  <2>7. st.tried = {}
    BY <1>2, <2>3, <2>4, Zenon DEF TriedOK
  <2>8. st.swap \in Swaps /\ x = Head(st.swap) /\ st.pc = "write" /\ a \in Seq(STRING)
    BY <1>1, <1>2, <1>8, <2>2, <2>3, Zenon
  <2>9. CASE Len(st.swap) = 2 /\ dial'[d].pc = "write" /\ dial'[d].swap = Tail(st.swap)
    <3>1. Distinct(a) /\ \E i, j \in DOMAIN a : st.swap = << <<i, a[j]>>, <<j, a[i]>> >>
      <4>1. Len(st.swap) # 1
        BY <2>9
      <4> QED
        BY <2>4, <2>8, <4>1, Zenon DEF TriedOK
    <3>2. PICK i, j \in DOMAIN a : st.swap = << <<i, a[j]>>, <<j, a[i]>> >>
      BY <3>1, Zenon
    <3>3. Len(st.swap) \in 1 .. 2
      BY <2>9
    <3>4. Head(st.swap) = st.swap[1] /\ Len(Tail(st.swap)) = 1 /\ Tail(st.swap)[1] = st.swap[2]
      BY <2>8, <2>9, <3>3, HeadTail, ZenonT(40)
    <3>5. x = <<i, a[j]>> /\ Tail(st.swap)[1] = <<j, a[i]>>
      BY <2>8, <3>2, <3>4
    <3>6. PICK y : y = dial'[d].swap[1]
      OBVIOUS
    <3>7. y = <<j, a[i]>> /\ Len(dial'[d].swap) = 1
      BY <2>9, <3>4, <3>5, <3>6, ZenonT(40)
    <3>8. x[1] = i /\ x[2] = a[j] /\ y[1] = j /\ y[2] = a[i]
      BY <3>5, <3>7
    <3>9. b = [a EXCEPT ![i] = a[j]]
      BY <2>5, <3>8, Zenon
    <3>10. PICK c : c = [b EXCEPT ![j] = a[i]]
      BY Zenon
    <3>11. Distinct(c)
      BY <2>8, <3>1, <3>9, <3>10, SwapDistinct, Zenon
    <3>12. Distinct([b EXCEPT ![y[1]] = y[2]])
      BY <3>8, <3>10, <3>11, ZenonT(40)
    <3>13. dial'[d].pc # "shuffle"
      BY <2>9
    <3> QED
      BY <2>3, <2>6, <2>7, <3>6, <3>7, <3>12, <3>13, Zenon
  <2>10. CASE Len(st.swap) = 1 /\ dial'[d].pc = "shuffle"
    <3>1. Len(st.swap) \in 1 .. 2 /\ Len(st.swap) # 2 /\ dial'[d].pc # "write"
      BY <2>10
    <3>2. Head(st.swap) = st.swap[1]
      BY <2>8, <3>1, HeadTail, Zenon
    <3>3. Distinct([a EXCEPT ![st.swap[1][1]] = st.swap[1][2]])
      BY <2>4, <2>8, <3>1, Zenon DEF TriedOK
    <3>4. Distinct(b)
      BY <2>5, <2>8, <3>2, <3>3, Zenon
    <3> QED
      BY <2>3, <2>6, <2>7, <3>1, <3>4, ZenonT(40)
  <2> QED
    BY <1>3, <2>3, <2>9, <2>10, Zenon
<1>10. Whole'
  <2> SUFFICES ASSUME NEW g, Object(g)', g \notin raced, ~Writing(g)' PROVE Distinct(Addrs(g)')
    BY Zenon DEF Whole, Distinct
  <2>1. Object(g)
    BY <1>2, Zenon
  <2>2. CASE g = h
    <3>1. dial'[d].pc # "write"
      BY <1>3, <2>2, Zenon DEF Writing
    <3> QED
      BY <1>5, <1>9, <2>2, <3>1, Zenon
  <2>3. CASE g # h
    <3>1. ~Writing(g)
      BY <1>0, <1>4, <2>3, Zenon DEF Writing
    <3>2. Distinct(Addrs(g))
      BY <2>1, <3>1, Zenon DEF Complete, Whole
    <3>3. Addrs(g)' = Addrs(g)
      BY <1>2, <2>1, <2>3, Zenon
    <3> QED
      BY <3>2, <3>3, Zenon
  <2> QED
    BY <2>2, <2>3
<1>11. Tried'
  <2> SUFFICES ASSUME NEW e \in Dialers, Held(e)' PROVE Tries(e)'
    BY Zenon DEF Tried
  <2>1. CASE e = d
    <3>1. h \notin raced
      BY <1>3, <2>1, Zenon DEF Held
    <3>2. PICK b : b = Addrs(h)'
      OBVIOUS
    <3>3. dial'[d].pc \notin {"dial", "refused"}
      BY <1>5
    <3>4. TriedOK(dial'[d], b)
      BY <1>3, <1>9, <3>1, <3>2, <3>3, Zenon DEF TriedOK
    <3>5. b = heap'[dial'[d].host[1]][dial'[d].host[2]].addrs
      BY <1>3, <3>2, Zenon DEF Addrs
    <3> QED
      BY <2>1, <3>4, <3>5, Zenon DEF Tries, Addrs
  <2>2. CASE e # d
    <3>1. dial'[e] = dial[e] /\ Held(e)
      BY <1>4, <2>2, Zenon DEF Held
    <3>2. PICK g : g = dial[e].host
      OBVIOUS
    <3>3. Object(g) /\ g \notin raced /\ g # Private
      BY <3>1, <3>2, HeldObject, Zenon DEF Held
    <3>4. TriedOK(dial[e], Addrs(g))
      BY <3>1, <3>2, Zenon DEF Complete, Tried, Tries
    <3>5. TriedOK(dial[e], Addrs(g)')
      <4>1. CASE g # h
        <5>1. Addrs(g)' = Addrs(g)
          BY <1>2, <3>3, <4>1, Zenon
        <5> QED
          BY <3>4, <5>1, Zenon
      <4>2. CASE g = h
        <5>1. ~Working(e)
          BY <1>0, <1>5, <2>2, <3>2, <3>3, <4>2, Zenon DEF Complete, Exclusive
        <5>2. dial[e].pc \notin {"write", "shuffle", "dial"}
          BY <5>1, Zenon DEF Working
        <5>3. Len(Addrs(g)') = Len(Addrs(g))
          BY <3>3, Zenon DEF HostsStay
        <5> QED
          BY <3>4, <5>2, <5>3, Zenon DEF TriedOK
      <4> QED
        BY <4>1, <4>2
    <3>6. PICK b : b = Addrs(g)'
      OBVIOUS
    <3>7. b = heap'[dial'[e].host[1]][dial'[e].host[2]].addrs
      BY <3>1, <3>2, <3>6, Zenon DEF Addrs
    <3> QED
      BY <3>1, <3>5, <3>6, <3>7, Zenon DEF Tries, Addrs
  <2> QED
    BY <2>1, <2>2
<1> QED
  BY <1>6, <1>7, <1>10, <1>11, Zenon DEF Complete

(* A reload adds hosts with distinct addresses.                             *)
LEMMA CompleteQuiet ==
  ASSUME HeapTypes, DialTypes, Complete, Grown, UNCHANGED <<dial, raced>>
  PROVE  Complete'
<1>1. UNCHANGED dial /\ UNCHANGED raced
  OBVIOUS
<1>2. \A h : Object(h) => Object(h)' /\ Addrs(h)' = Addrs(h)
  BY Zenon DEF Grown, Object, Addrs
<1>3. Exclusive' /\ Fresh'
  BY <1>1, Zenon DEF Complete, Exclusive, Fresh, Working
<1>4. Whole'
  <2> SUFFICES ASSUME NEW h, Object(h)', h \notin raced, ~Writing(h)' PROVE Distinct(Addrs(h)')
    BY <1>1, Zenon DEF Whole, Distinct
  <2>1. CASE Object(h)
    <3>1. ~Writing(h)
      BY <1>1, Zenon DEF Writing
    <3>2. Distinct(Addrs(h))
      BY <2>1, <3>1, Zenon DEF Complete, Whole
    <3> QED
      BY <1>2, <2>1, <3>2, Zenon
  <2>2. CASE ~Object(h)
    <3>1. h[1] \in DOMAIN heap' /\ h[2] \in DOMAIN heap'[h[1]] /\ h = <<h[1], h[2]>> /\ h[2] \in Nat
      BY DEF Object
    <3>2. h[1] \notin DOMAIN heap
      <4>1. ASSUME h[1] \in DOMAIN heap PROVE FALSE
        <5>1. h[2] \in DOMAIN heap[h[1]]
          BY <3>1, <4>1, Zenon DEF Grown
        <5>2. Object(h)
          BY <3>1, <4>1, <5>1 DEF Object
        <5> QED
          BY <2>2, <5>2
      <4> QED
        BY <4>1
    <3> QED
      BY <3>1, <3>2, Zenon DEF Grown, Addrs
  <2> QED
    BY <2>1, <2>2
<1>5. Tried'
  <2> SUFFICES ASSUME NEW e \in Dialers, Held(e)' PROVE Tries(e)'
    BY Zenon DEF Tried
  <2>1. Held(e) /\ Object(dial[e].host)
    <3>1. Held(e)
      BY <1>1, Zenon DEF Held
    <3> QED
      BY <3>1, HeldObject, Zenon
  <2>2. PICK g : g = dial[e].host
    OBVIOUS
  <2>3. PICK a : a = Addrs(g)
    OBVIOUS
  <2>4. TriedOK(dial[e], a)
    BY <2>1, <2>2, <2>3, Zenon DEF Complete, Tried, Tries
  <2>5. a = heap'[dial'[e].host[1]][dial'[e].host[2]].addrs
    BY <1>1, <1>2, <2>1, <2>2, <2>3, ZenonT(40) DEF Addrs
  <2> QED
    BY <1>1, <2>4, <2>5, Zenon DEF Tries, Addrs
<1> QED
  BY <1>3, <1>4, <1>5, Zenon DEF Complete

(* All steps keep Complete.                                                 *)
LEMMA CompleteStep ==
  ASSUME DialInv, ChoicesOK, Complete, [Next]_vars
  PROVE  Complete'
<1>0. HeapTypes /\ HeapInv /\ DialTypes /\ ReloadInv
  BY DEF DialInv, HeapInv
<1>1. CASE (ConfigNext /\ UNCHANGED <<dial, raced>>) \/ UNCHANGED vars
  BY <1>0, <1>1, QuietStep, CompleteQuiet, ZenonT(40)
<1>2. ASSUME NEW d \in Dialers, NewConn(d) PROVE Complete'
  <2>1. CASE GetPreferredHost(d) \/ ChooseByResolver(d) \/ GetRandomHost(d)
    <3>1. Moved(d) /\ UNCHANGED configVars
      BY <1>0, <2>1, GetHostEffect, Zenon
    <3>2. PICK st \in DialRecord : \E h, else : Sought(d, st, h, else)
      BY <1>0, <2>1, GetHostEffect, Zenon
    <3> QED
      BY <1>0, <3>1, <3>2, CompleteGetHost, ZenonT(40)
  <2>2. CASE SwapRead(d)
    BY <1>0, <2>2, SwapReadEffect, CompleteSwapRead, Zenon
  <2>3. CASE SwapWrite(d)
    BY <1>0, <2>3, SwapWriteEffect, CompleteSwapWrite, Zenon
  <2>4. CASE DialTCP(d)
    BY <1>0, <2>4, DialTCPEffect, CompleteDialTCP, Zenon
  <2>5. CASE UpgradeConn(d)
    <3>1. /\ Moved(d) /\ dial'[d].pc \in {"conn", "hookfailed", "panic"}
          /\ UNCHANGED configVars /\ UNCHANGED raced
      BY <1>0, <2>5, UpgradeConnEffect, Zenon
    <3>2. UNCHANGED heap /\ raced \subseteq raced' /\ \A e \in Dialers \ {d} : dial'[e] = dial[e]
      BY <3>1, Zenon DEF configVars, hostVars, Moved
    <3>3. ~Working(d)' /\ ~Held(d)' /\ dial'[d].pc \notin {"prefer", "resolve", "random"}
      BY <3>1 DEF Working, Held
    <3>4. Exclusive'
      BY <3>1, <3>2, <3>3, ExclusiveKept, Zenon DEF Complete
    <3>5. dial[d].pc # "write"
      BY <2>5 DEF UpgradeConn
    <3> QED
      BY <1>0, <3>1, <3>2, <3>3, <3>4, <3>5, CompleteKept, Zenon
  <2> QED
    BY <1>2, <2>1, <2>2, <2>3, <2>4, <2>5, Zenon DEF NewConn
<1> QED
  BY <1>1, <1>2, Zenon DEF Next

(* No dial has started.                                                     *)
LEMMA InitComplete == Init => Complete
<1> SUFFICES ASSUME Init PROVE Complete
  OBVIOUS
<1>1. \A d \in Dialers : dial[d].pc \in {"random", "prefer"} /\ dial[d].tried = {}
  <2> SUFFICES ASSUME NEW d \in Dialers
               PROVE  dial[d].pc \in {"random", "prefer"} /\ dial[d].tried = {}
    OBVIOUS
  <2>1. PICK n \in Names :
          dial[d] = [pc |-> IF n = "" THEN "random" ELSE "prefer", name |-> n, host |-> Nil, pos |-> 0,
                     swap |-> <<>>, tried |-> {}, seen |-> {}, asked |-> FALSE]
    BY Zenon DEF Init
  <2>2. PICK pc \in {"random", "prefer"} : pc = IF n = "" THEN "random" ELSE "prefer"
    BY Zenon
  <2>3. dial[d] = [pc |-> pc, name |-> n, host |-> Nil, pos |-> 0,
                   swap |-> <<>>, tried |-> {}, seen |-> {}, asked |-> FALSE]
    BY <2>1, <2>2, ZenonT(40)
  <2>4. dial[d].pc = pc /\ dial[d].tried = {}
    BY <2>3
  <2> QED
    BY <2>4, Zenon
<1>2. \A d \in Dialers : ~Working(d) /\ ~Held(d)
  BY <1>1 DEF Working, Held
<1>3. Exclusive /\ Fresh /\ Tried
  BY <1>1, <1>2, Zenon DEF Exclusive, Fresh, Tried
<1>4. Whole
  <2> SUFFICES ASSUME NEW h, Object(h) PROVE Distinct(Addrs(h))
    BY Zenon DEF Whole
  <2>1. PICK f \in Files : heap = <<Hosts(f)>>
    BY Zenon DEF Init, ConfigInit
  <2>2. DOMAIN heap = {1} /\ heap[1] = Hosts(f)
    BY <2>1
  <2>3. h[1] \in DOMAIN heap /\ h[2] \in DOMAIN heap[h[1]]
    BY DEF Object
  <2>4. h[1] = 1
    BY <2>2, <2>3, Zenon
  <2>5. heap[h[1]] = Hosts(f)
    BY <2>2, <2>4, Zenon
  <2>6. \A i \in DOMAIN Hosts(f) : Distinct(Hosts(f)[i].addrs)
    BY HostsMade, Zenon
  <2> QED
    BY <2>3, <2>5, <2>6, Zenon DEF Addrs
<1> QED
  BY <1>3, <1>4 DEF Complete

-----------------------------------------------------------------------------
(* What follows counts, and reasons by induction. *)
INSTANCE FiniteSetTheorems

-----------------------------------------------------------------------------
(* The choice of a host by weight. *)

(* A set of numbers has a least one, and one with 0 and the successors of   *)
(* its members holds them all.                                              *)
LEMMA Least ==
  ASSUME NEW S \in SUBSET Nat, S # {}
  PROVE  \E x \in S : \A y \in S : x <= y
<1> DEFINE R == {ss \in Nat \X Nat : ss[1] < ss[2]}
<1>1. IsWellFoundedOn(R, Nat)
  BY NatLessThanWellFounded DEF OpToRel
<1>2. PICK x \in S : \A y \in S : ~ (<<y, x>> \in R)
  <2> HIDE DEF R
  <2> QED
    BY <1>1, WFMin, Zenon
<1>3. \A y \in Nat : y < x => <<y, x>> \in R
  OBVIOUS
<1> HIDE DEF R
<1>4. \A y \in S : ~ (y < x)
  BY <1>2, <1>3, Zenon
<1> QED
  BY <1>4

(* A set of numbers with 0 and with the successor of each of its members    *)
(* is all of Nat.                                                           *)
LEMMA NatSet ==
  ASSUME NEW S \in SUBSET Nat, 0 \in S, \A n \in S : n + 1 \in S
  PROVE  S = Nat
<1> SUFFICES ASSUME Nat \ S # {} PROVE FALSE
  BY Zenon
<1> DEFINE T == Nat \ S
<1>1. PICK x \in T : \A y \in T : x <= y
  BY Least, Zenon
<1>2. x \in Nat \ {0} /\ x - 1 \in Nat
  OBVIOUS
<1>3. x - 1 \in S
  BY <1>1, <1>2
<1> QED
  BY <1>2, <1>3

(* A sum that is defined by recursion exists, and adds up.                  *)
IsSum(f, w, n) ==
  f = [i \in 0 .. n |-> f[i]] /\ f[0] = 0 /\ \A i \in 1 .. n : f[i] = f[i - 1] + w[i]

(* There are partial sums of any numbers.                                   *)
LEMMA SumExists ==
  ASSUME NEW w \in [Nat -> Nat]
  PROVE  \A n \in Nat : \E f : IsSum(f, w, n)
<1> DEFINE D == {n \in Nat : \E f : IsSum(f, w, n)}
<1>1. 0 \in D /\ D \in SUBSET Nat
  <2>1. IsSum([i \in 0 .. 0 |-> 0], w, 0)
    BY DEF IsSum
  <2> QED
    BY <2>1, Zenon
<1>2. ASSUME NEW n \in D PROVE n + 1 \in D
  <2>1. n \in Nat /\ \E f : IsSum(f, w, n)
    BY Zenon
  <2>2. PICK f : IsSum(f, w, n)
    BY <2>1, Zenon
  <2> DEFINE h == [i \in 0 .. n + 1 |-> IF i = n + 1 THEN f[n] + w[n + 1] ELSE f[i]]
  <2> HIDE DEF D
  <2>3. h = [i \in 0 .. n + 1 |-> h[i]]
    BY Zenon
  <2>4. h[n + 1] = f[n] + w[n + 1] /\ \A i \in 0 .. n : h[i] = f[i]
    BY <2>1
  <2> HIDE DEF h
  <2>5. h[0] = 0 /\ \A i \in 1 .. n : h[i] = h[i - 1] + w[i]
    <3>1. 0 \in 0 .. n /\ \A i \in 1 .. n : i \in 0 .. n /\ i - 1 \in 0 .. n
      BY <2>1
    <3> QED
      BY <2>2, <2>4, <3>1, Zenon DEF IsSum
  <2>6. IsSum(h, w, n + 1)
    <3>1. \A i \in 1 .. n + 1 : i \in 1 .. n \/ (i = n + 1 /\ i - 1 = n)
      BY <2>1
    <3>2. n \in 0 .. n
      BY <2>1
    <3> QED
      BY <2>3, <2>4, <2>5, <3>1, <3>2, ZenonT(40) DEF IsSum
  <2> QED
    BY <2>1, <2>6 DEF D
<1>3. D = Nat
  <2> HIDE DEF D
  <2> QED
    BY <1>1, <1>2, NatSet
<1> QED
  BY <1>3, Zenon

(* Each is the one before and one number more;                              *)
LEMMA SumNext ==
  ASSUME NEW w \in [Nat -> Nat], NEW N \in Nat, NEW f, IsSum(f, w, N)
  PROVE  \A n \in Nat : w[n + 1] \in Nat /\ (n + 1 <= N => f[n + 1] = f[n] + w[n + 1])
<1>1. \A n \in Nat : w[n + 1] \in Nat
  OBVIOUS
<1>2. \A n \in Nat : n + 1 <= N => n + 1 \in 1 .. N /\ (n + 1) - 1 = n
  OBVIOUS
<1> QED
  BY <1>1, <1>2, Zenon DEF IsSum

(* they are numbers,                                                        *)
LEMMA SumType ==
  ASSUME NEW w \in [Nat -> Nat], NEW N \in Nat, NEW f, IsSum(f, w, N)
  PROVE  f \in [0 .. N -> Nat]
<1>0. \A n \in Nat : w[n + 1] \in Nat /\ (n + 1 <= N => f[n + 1] = f[n] + w[n + 1])
  BY SumNext
<1> DEFINE D == {n \in Nat : n <= N => f[n] \in Nat}
<1>1. 0 \in D /\ D \in SUBSET Nat
  BY DEF IsSum
<1>2. ASSUME NEW n \in D PROVE n + 1 \in D
  <2>1. n \in Nat /\ (n <= N => f[n] \in Nat)
    BY Zenon
  <2> HIDE DEF D
  <2>2. w[n + 1] \in Nat /\ (n + 1 <= N => f[n + 1] = f[n] + w[n + 1])
    BY <2>1, <1>0, Zenon
  <2> QED
    BY <2>1, <2>2 DEF D
<1>3. D = Nat
  <2> HIDE DEF D
  <2> QED
    BY <1>1, <1>2, NatSet, Zenon
<1>4. \A i \in 0 .. N : f[i] \in Nat
  <2>1. \A n \in Nat : n <= N => f[n] \in Nat
    BY <1>3, Zenon
  <2> QED
    BY <2>1
<1>5. f = [i \in 0 .. N |-> f[i]]
  BY Zenon DEF IsSum
<1> QED
  BY <1>4, <1>5, Zenon

(* they grow,                                                               *)
LEMMA SumGrows ==
  ASSUME NEW w \in [Nat -> Nat], NEW N \in Nat, NEW f, IsSum(f, w, N),
         NEW i \in 0 .. N
  PROVE  \A j \in 0 .. N : i <= j => f[i] <= f[j]
<1>a. \A n \in Nat : w[n + 1] \in Nat /\ (n + 1 <= N => f[n + 1] = f[n] + w[n + 1])
  BY SumNext
<1>b. f \in [0 .. N -> Nat]
  BY SumType, Zenon
<1> DEFINE D == {j \in Nat : i <= j /\ j <= N => f[i] <= f[j]}
<1>1. 0 \in D /\ D \in SUBSET Nat
  BY <1>b
<1>2. ASSUME NEW j \in D PROVE j + 1 \in D
  <2>1. j \in Nat /\ (i <= j /\ j <= N => f[i] <= f[j])
    BY Zenon
  <2> HIDE DEF D
  <2>2. w[j + 1] \in Nat /\ (j + 1 <= N => f[j + 1] = f[j] + w[j + 1])
    BY <2>1, <1>a, Zenon
  <2>3. j + 1 <= N => f[j] \in Nat
    BY <2>1, <1>b
  <2>4. CASE j + 1 = i
    BY <1>b, <2>1, <2>4 DEF D
  <2>5. CASE j + 1 # i
    BY <1>b, <2>1, <2>2, <2>3, <2>5 DEF D
  <2> QED
    BY <2>4, <2>5
<1>3. D = Nat
  <2> HIDE DEF D
  <2> QED
    BY <1>1, <1>2, NatSet, ZenonT(40)
<1>4. \A j \in Nat : i <= j /\ j <= N => f[i] <= f[j]
  BY <1>3, Zenon
<1> QED
  BY <1>4

(* A sum that is not 0 is the one up to its last positive number.           *)
Reaches(f, w, n) == \E i \in 1 .. n : w[i] > 0 /\ f[i] = f[n]

(* And the last that is not 0 is reached at an index with a weight.         *)
LEMMA SumLast ==
  ASSUME NEW w \in [Nat -> Nat], NEW N \in Nat, NEW f, IsSum(f, w, N)
  PROVE  \A n \in 0 .. N : f[n] # 0 => Reaches(f, w, n)
<1>a. \A n \in Nat : w[n + 1] \in Nat /\ (n + 1 <= N => f[n + 1] = f[n] + w[n + 1])
  BY SumNext
<1>b. f \in [0 .. N -> Nat]
  BY SumType, Zenon
<1> DEFINE Last(n) == \E i \in 1 .. n : w[i] > 0 /\ f[i] = f[n]
           D == {n \in Nat : n <= N /\ f[n] # 0 => Last(n)}
<1>1. 0 \in D /\ D \in SUBSET Nat
  <2>1. f[0] = 0
    BY Zenon DEF IsSum
  <2> QED
    BY <2>1, Zenon
<1>2. ASSUME NEW n \in D PROVE n + 1 \in D
  <2>1. n \in Nat /\ (n <= N /\ f[n] # 0 => Last(n))
    BY Zenon
  <2> SUFFICES ASSUME n + 1 <= N, f[n + 1] # 0 PROVE Last(n + 1)
    BY <2>1
  <2> HIDE DEF D
  <2>0. w[n + 1] \in Nat /\ f[n + 1] = f[n] + w[n + 1]
    BY <2>1, <1>a, Zenon
  <2>2. f[n] \in Nat
    BY <2>1, <1>b
  <2>3. CASE w[n + 1] > 0
    <3>1. n + 1 \in 1 .. n + 1
      BY <2>1
    <3> QED
      BY <2>3, <3>1, ZenonT(40)
  <2>4. CASE w[n + 1] = 0
    <3>1. f[n + 1] = f[n] /\ n <= N
      BY <2>0, <2>1, <2>2, <2>4
    <3>2. PICK i \in 1 .. n : w[i] > 0 /\ f[i] = f[n]
      BY <2>1, <3>1, Zenon
    <3>3. i \in 1 .. n + 1
      BY <2>1
    <3> QED
      BY <3>1, <3>2, <3>3, ZenonT(40)
  <2>5. w[n + 1] > 0 \/ w[n + 1] = 0
    BY <2>0, <2>1
  <2> QED
    BY <2>3, <2>4, <2>5, Zenon
<1>3. D = Nat
  <2> HIDE DEF D
  <2> QED
    BY <1>1, <1>2, NatSet
<1>4. \A n \in Nat : n <= N /\ f[n] # 0 => Last(n)
  BY <1>3, Zenon
<1>5. \A n \in 0 .. N : n \in Nat /\ n <= N
  OBVIOUS
<1> QED
  BY <1>4, <1>5, Zenon DEF Reaches

(* WeightTo adds the weights of the group up.                               *)
Weight(n, g) == [i \in Nat |-> IF i \in g THEN heap[n][i].weight ELSE 0]

(* WeightTo holds the partial sums of the weights of a group.               *)
LEMMA WeightToDef ==
  ASSUME NEW n, heap[n] \in Seq(HostObject), NEW g \in SUBSET DOMAIN heap[n]
  PROVE  /\ Weight(n, g) \in [Nat -> Nat]
         /\ WeightTo(n, g) \in [0 .. Len(heap[n]) -> Nat]
         /\ IsSum(WeightTo(n, g), Weight(n, g), Len(heap[n]))
<1> DEFINE N == Len(heap[n])
           w == Weight(n, g)
           Sum(f) == f = [i \in 0 .. N |-> IF i = 0 THEN 0 ELSE f[i - 1] + w[i]]
           W == WeightTo(n, g)
<1>1. N \in Nat /\ w \in [Nat -> Nat]
  <2>1. N \in Nat /\ \A i \in DOMAIN heap[n] : heap[n][i] \in HostObject
    OBVIOUS
  <2>2. \A x \in HostObject : x.weight \in Nat
    BY DEF HostObject
  <2>3. \A i \in g : heap[n][i].weight \in Nat
    BY <2>1, <2>2, Zenon
  <2> QED
    BY <2>1, <2>3, Zenon DEF Weight
<1>2. \A i \in 0 .. N : w[i] = IF i \in g THEN heap[n][i].weight ELSE 0
  BY <1>1 DEF Weight
<1>3. W = CHOOSE f : Sum(f)
  <2> DEFINE Sum2(f) == f = [i \in 0 .. N |-> IF i = 0 THEN 0
                               ELSE f[i - 1] + (IF i \in g THEN heap[n][i].weight ELSE 0)]
  <2>1. \A f : Sum(f) <=> Sum2(f)
    BY <1>2, Zenon
  <2>2. W = CHOOSE f : Sum2(f)
    BY DEF WeightTo
  <2> HIDE DEF Sum, Sum2, W
  <2> QED
    BY <2>1, <2>2
<1> HIDE DEF w, N, W
<1>4. IsSum(W, w, N)
  <2>1. PICK f : IsSum(f, w, N)
    BY <1>1, SumExists, Zenon
  <2>2. \A i \in 0 .. N : f[i] = IF i = 0 THEN 0 ELSE f[i - 1] + w[i]
    <3>1. \A i \in 0 .. N : i # 0 => i \in 1 .. N
      BY <1>1
    <3> QED
      BY <2>1, <3>1, Zenon DEF IsSum
  <2>3. Sum(f)
    BY <2>1, <2>2, Zenon DEF IsSum
  <2>4. Sum(W)
    <3> HIDE DEF Sum
    <3> QED
      BY <1>3, <2>3
  <2>5. W = [i \in 0 .. N |-> W[i]] /\ \A i \in 0 .. N : W[i] = IF i = 0 THEN 0 ELSE W[i - 1] + w[i]
    BY <2>4, Zenon
  <2>6. 0 \in 0 .. N /\ \A i \in 1 .. N : i \in 0 .. N /\ i # 0
    BY <1>1
  <2> QED
    BY <2>5, <2>6, Zenon DEF IsSum
<1> QED
  BY <1>1, <1>4, SumType, Zenon DEF w, N, W

(* What is known of the weights of a group.                                 *)
LEMMA GroupWeights ==
  ASSUME NEW n, heap[n] \in Seq(HostObject), NEW g \in SUBSET DOMAIN heap[n]
  PROVE  LET N == Len(heap[n])
             W == WeightTo(n, g)
         IN /\ N \in Nat /\ g \subseteq 1 .. N /\ W \in [0 .. N -> Nat]
            /\ \A i \in g : heap[n][i].weight \in Nat \ {0} /\ W[i] = W[i - 1] + heap[n][i].weight
            /\ \A i, j \in 0 .. N : i <= j => W[i] <= W[j]
            /\ \A k \in 0 .. N : W[k] # 0 => \E i \in g : i <= k /\ W[i] = W[k]
<1> DEFINE N == Len(heap[n])
           W == WeightTo(n, g)
           w == Weight(n, g)
<1>1. N \in Nat /\ g \subseteq 1 .. N /\ \A i \in g : heap[n][i].weight \in Nat \ {0}
  <2>1. N \in Nat /\ DOMAIN heap[n] = 1 .. N /\ \A i \in DOMAIN heap[n] : heap[n][i] \in HostObject
    OBVIOUS
  <2>2. \A x \in HostObject : x.weight \in Nat \ {0}
    BY DEF HostObject
  <2> QED
    BY <2>1, <2>2, Zenon
<1>2. w \in [Nat -> Nat] /\ W \in [0 .. N -> Nat] /\ IsSum(W, w, N)
  BY WeightToDef, Zenon
<1>3. \A i \in Nat : w[i] = IF i \in g THEN heap[n][i].weight ELSE 0
  BY DEF Weight
<1> HIDE DEF N, W, w
<1>4. \A i \in g : W[i] = W[i - 1] + heap[n][i].weight
  <2>1. \A i \in g : i \in Nat /\ i \in 1 .. N
    BY <1>1
  <2> QED
    BY <1>2, <1>3, <2>1, ZenonT(40) DEF IsSum
<1>5. \A i, j \in 0 .. N : i <= j => W[i] <= W[j]
  BY <1>1, <1>2, SumGrows, ZenonT(40)
<1>6. ASSUME NEW k \in 0 .. N, W[k] # 0 PROVE \E i \in g : i <= k /\ W[i] = W[k]
  <2>1. PICK i \in 1 .. k : w[i] > 0 /\ W[i] = W[k]
    <3>1. Reaches(W, w, k)
      BY <1>1, <1>2, <1>6, SumLast, ZenonT(40)
    <3> QED
      BY <3>1, Zenon DEF Reaches
  <2>2. i \in Nat /\ i <= k
    BY <1>1
  <2>3. i \in g
    BY <1>3, <2>1, <2>2
  <2> QED
    BY <2>1, <2>2, <2>3, Zenon
<1> QED
  BY <1>1, <1>2, <1>4, <1>5, <1>6, ZenonT(40) DEF N, W

(* It compares a weight y with what is left of v.                           *)
LEMMA Subtracted ==
  ASSUME NEW x \in Nat, NEW y \in Nat, NEW v \in Nat
  PROVE  v <= x + y <=> y >= v - x
  OBVIOUS

(* chooseByLocalHosts finds a host, the first one whose weight, added to    *)
(* those before it, reaches the random number.                              *)
LEMMA Chosen ==
  ASSUME NEW n, heap[n] \in Seq(HostObject), NEW g \in SUBSET DOMAIN heap[n],
         NEW v \in 0 .. GroupWeight(n, g) - 1
  PROVE  LET c == ChooseByLocalHosts(n, g, v)
             W == WeightTo(n, g)
         IN c \in g /\ v <= W[c] /\ \A j \in g : j < c => v > W[j]
<1> DEFINE N == Len(heap[n])
           W == WeightTo(n, g)
           fits == {i \in g : heap[n][i].weight >= v - W[i - 1]}
           First(i) == \A j \in fits : i <= j
<1>1. /\ N \in Nat /\ g \subseteq 1 .. N /\ W \in [0 .. N -> Nat]
      /\ \A i \in g : heap[n][i].weight \in Nat \ {0} /\ W[i] = W[i - 1] + heap[n][i].weight
      /\ \A k \in 0 .. N : W[k] # 0 => \E i \in g : i <= k /\ W[i] = W[k]
  BY GroupWeights, ZenonT(40)
<1>2. v \in 0 .. W[N] - 1
  BY DEF GroupWeight
<1>3. ChooseByLocalHosts(n, g, v) = IF fits = {} THEN 0 ELSE CHOOSE i \in fits : First(i)
  BY DEF ChooseByLocalHosts
<1> HIDE DEF N, W
<1>4. W[N] \in Nat /\ v \in Nat /\ v < W[N]
  BY <1>1, <1>2
<1>5. \A i \in g : i \in Nat /\ W[i] \in Nat /\ W[i - 1] \in Nat
  BY <1>1
<1>6. ASSUME NEW i \in g PROVE i \in fits <=> v <= W[i]
  <2>1. W[i - 1] \in Nat /\ heap[n][i].weight \in Nat /\ v \in Nat
    BY <1>1, <1>4, <1>5, Zenon
  <2>2. W[i] = W[i - 1] + heap[n][i].weight
    BY <1>1, Zenon
  <2>3. v <= W[i] <=> heap[n][i].weight >= v - W[i - 1]
    BY <2>1, <2>2, Subtracted, ZenonT(40)
  <2> QED
    BY <2>3, Zenon
<1> HIDE DEF fits
<1>7. fits \subseteq g /\ fits \in SUBSET Nat
  BY <1>5 DEF fits
<1>8. fits # {}
  <2>1. PICK i \in g : W[i] = W[N]
    BY <1>1, <1>4
  <2> QED
    BY <1>4, <1>6, <2>1
<1>9. \E i \in fits : First(i)
  BY <1>7, <1>8, Least, Zenon
<1> DEFINE c == ChooseByLocalHosts(n, g, v)
<1> HIDE DEF First
<1>10. c \in fits /\ First(c)
  BY <1>3, <1>8, <1>9, Zenon
<1> HIDE DEF c
<1>11. ASSUME NEW j \in g, j < c PROVE v > W[j]
  <2>1. j \notin fits
    BY <1>5, <1>7, <1>10, <1>11 DEF First
  <2> QED
    BY <1>4, <1>5, <1>6, <2>1
<1> QED
  BY <1>6, <1>7, <1>10, <1>11, ZenonT(40) DEF W, c

(* What the ends of a host's interval mean: a is the weight of the hosts    *)
(* before it, b with its own, G that of all.                                *)
LEMMA Within ==
  ASSUME NEW a \in Nat, NEW b \in Nat, NEW G \in Nat, b <= G, b > 0,
         NEW v \in (IF a = 0 THEN 0 ELSE a + 1) .. (IF b < G THEN b ELSE G - 1)
  PROVE  v \in 0 .. G - 1 /\ v <= b /\ (v > a \/ a = 0)
  OBVIOUS

(* The numbers that choose a host are an interval.                          *)
LEMMA ShareIs ==
  ASSUME NEW n, heap[n] \in Seq(HostObject), NEW g \in SUBSET DOMAIN heap[n], NEW i \in g
  PROVE  LET w == heap[n][i].weight
             share == {v \in 0 .. GroupWeight(n, g) - 1 : ChooseByLocalHosts(n, g, v) = i}
         IN Cardinality(share) \in w - 1 .. w + 1
<1> DEFINE N == Len(heap[n])
           W == WeightTo(n, g)
           w == heap[n][i].weight
           G == GroupWeight(n, g)
           pick(v) == ChooseByLocalHosts(n, g, v)
           share == {v \in 0 .. G - 1 : pick(v) = i}
           lo == IF W[i - 1] = 0 THEN 0 ELSE W[i - 1] + 1
           hi == IF W[i] < G THEN W[i] ELSE G - 1
<1>1. /\ N \in Nat /\ g \subseteq 1 .. N /\ W \in [0 .. N -> Nat]
      /\ \A j \in g : heap[n][j].weight \in Nat \ {0} /\ W[j] = W[j - 1] + heap[n][j].weight
      /\ \A j, k \in 0 .. N : j <= k => W[j] <= W[k]
      /\ \A k \in 0 .. N : W[k] # 0 => \E j \in g : j <= k /\ W[j] = W[k]
  BY GroupWeights, ZenonT(40)
<1>2. \A v \in 0 .. G - 1 : pick(v) \in g /\ v <= W[pick(v)] /\ \A j \in g : j < pick(v) => v > W[j]
  BY Chosen, Zenon
<1>3. G = W[N]
  BY Zenon DEF GroupWeight
<1> HIDE DEF N, W, G, pick
<1>4. /\ w \in Nat \ {0} /\ i \in 1 .. N /\ W[i] = W[i - 1] + w
      /\ G \in Nat /\ W[i] \in Nat /\ W[i - 1] \in Nat /\ W[i] <= G
  BY <1>1, <1>3
<1> HIDE DEF w
<1>5. ASSUME NEW v \in 0 .. G - 1, pick(v) = i PROVE v \in lo .. hi
  <2>1. v \in Nat /\ v <= W[i] /\ v <= G - 1
    BY <1>2, <1>4, <1>5
  <2>2. W[i - 1] # 0 => v > W[i - 1]
    <3> SUFFICES ASSUME W[i - 1] # 0 PROVE v > W[i - 1]
      BY ZenonT(40)
    <3>1. i - 1 \in 0 .. N
      BY <1>1, <1>4
    <3>2. PICK j \in g : j <= i - 1 /\ W[j] = W[i - 1]
      BY <1>1, <3>1, ZenonT(40)
    <3>3. j < i
      BY <1>1, <1>4, <3>2
    <3> QED
      BY <1>2, <1>5, <3>2, <3>3, ZenonT(40)
  <2> QED
    BY <1>4, <2>1, <2>2
<1>6. ASSUME NEW v \in lo .. hi PROVE v \in 0 .. G - 1 /\ pick(v) = i
  <2>1. W[i] > 0
    BY <1>4
  <2>2. v \in 0 .. G - 1 /\ v <= W[i] /\ (v > W[i - 1] \/ W[i - 1] = 0)
    BY <1>4, <1>6, <2>1, Within, ZenonT(40)
  <2> DEFINE c == pick(v)
  <2>3. c \in g /\ v <= W[c] /\ \A j \in g : j < c => v > W[j]
    BY <1>2, <2>2, ZenonT(40)
  <2> HIDE DEF c
  <2>4. ~ (i < c)
    BY <1>4, <2>2, <2>3
  <2>5. ~ (c < i)
    <3> SUFFICES ASSUME c < i PROVE FALSE
      BY ZenonT(40)
    <3>1. c \in 1 .. N /\ W[c] \in Nat /\ W[c] <= W[i - 1]
      BY <1>1, <1>4, <2>3
    <3>2. W[c] # 0
      <4>1. heap[n][c].weight \in Nat \ {0} /\ W[c] = W[c - 1] + heap[n][c].weight
        BY <1>1, <2>3, Zenon
      <4>2. W[c - 1] \in Nat
        BY <1>1, <3>1
      <4> QED
        BY <4>1, <4>2
    <3> QED
      BY <1>4, <2>2, <2>3, <3>1, <3>2
  <2>6. c \in Int /\ i \in Int
    BY <1>1, <2>3
  <2> QED
    BY <2>2, <2>4, <2>5, <2>6 DEF c
<1>7. share = lo .. hi
  <2> HIDE DEF lo, hi
  <2> QED
    BY <1>5, <1>6, ZenonT(40)
<1>8. lo \in Int /\ hi \in Int /\ (IF lo > hi THEN 0 ELSE hi - lo + 1) \in w - 1 .. w + 1
  <2> DEFINE a == W[i - 1]
             b == W[i]
  <2>1. /\ lo = (IF a = 0 THEN 0 ELSE a + 1) /\ hi = (IF b < G THEN b ELSE G - 1)
        /\ w \in Nat \ {0} /\ b = a + w /\ G \in Nat /\ a \in Nat /\ b <= G
    BY <1>4, Zenon
  <2> HIDE DEF a, b, lo, hi
  <2> QED
    BY <2>1
<1>9. Cardinality(lo .. hi) = IF lo > hi THEN 0 ELSE hi - lo + 1
  <2> HIDE DEF lo, hi
  <2> QED
    BY <1>8, FS_Interval, ZenonT(40)
<1> QED
  <2> HIDE DEF lo, hi, share
  <2>1. Cardinality(share) \in w - 1 .. w + 1
    BY <1>7, <1>8, <1>9, ZenonT(40)
  <2> QED
    BY <2>1, Zenon DEF share, w, G, pick

(* chooseByLocalHosts returns a Host of the group, and nil for an empty     *)
(* one only.                                                                *)
LEMMA ChoicesAre == ASSUME HeapTypes PROVE ChoicesOK
<1> SUFFICES ASSUME NEW n \in DOMAIN heap, NEW who, NEW h \in Choices(n, who)
             PROVE  \/ h = Nil /\ Group(n, who) = {}
                    \/ Object(h) /\ h[1] = n
  BY Zenon DEF ChoicesOK
<1> DEFINE g == Group(n, who)
           pick(v) == ChooseByLocalHosts(n, g, v)
<1>1. heap[n] \in Seq(HostObject) /\ g \in SUBSET DOMAIN heap[n]
  <2>1. heap[n] \in Seq(HostObject)
    BY DEF HeapTypes
  <2>2. g \in SUBSET DOMAIN heap[n]
    BY Zenon DEF Group
  <2> QED
    BY <2>1, <2>2, ZenonT(40)
<1>2. CASE g = {}
  BY <1>2, ZenonT(40) DEF Choices
<1>3. CASE g # {}
  <2>1. PICK v \in 0 .. GroupWeight(n, g) - 1 : h = IF pick(v) = 0 THEN Nil ELSE <<n, pick(v)>>
    BY <1>3, Zenon DEF Choices
  <2>2. pick(v) \in g
    BY <1>1, Chosen, ZenonT(40)
  <2>3. DOMAIN heap[n] \subseteq Nat \ {0}
    BY <1>1
  <2> HIDE DEF g, pick
  <2>4. pick(v) \in DOMAIN heap[n] /\ pick(v) \in Nat \ {0}
    BY <1>1, <2>2, <2>3, ZenonT(40)
  <2>5. h = <<n, pick(v)>>
    BY <2>1, <2>4, Zenon
  <2> QED
    BY <2>4, <2>5 DEF Object
<1> QED
  BY <1>2, <1>3

(* The hosts that UpdateHosts has stored and the locals of NewConn have     *)
(* their types, for every configuration file, reload and dial.              *)
THEOREM DialInvariance == Spec => []DialInv
<1>1. Init => DialInv
  BY InitReload, InitHeap, InitDials, ZenonT(40) DEF DialInv
<1>2. DialInv /\ [Next]_vars => DialInv'
  <2> SUFFICES ASSUME DialInv, [Next]_vars PROVE DialInv'
    OBVIOUS
  <2>0. ChoicesOK
    BY ChoicesAre, Zenon DEF DialInv, HeapInv
  <2>1. ReloadInv'
    BY ReloadStep, OtherStep DEF DialInv, Next, ConfigNext
  <2>2. HeapInv' /\ DialTypes'
    BY <2>0, QuietStep, NewConnStep, ZenonT(40) DEF DialInv, Next
  <2> QED
    BY <2>1, <2>2 DEF DialInv
<1> QED
  BY <1>1, <1>2, PTL DEF Spec

(* Every reload leaves hosts that a dial can use, positive weights and an   *)
(* address each, and every dial is at a step of NewConn.                    *)
THEOREM UpstreamTypes == Spec => []TypeOK
<1>1. DialInv => TypeOK
  <2> SUFFICES ASSUME DialInv PROVE TypeOK
    OBVIOUS
  <2>1. ASSUME NEW n \in DOMAIN heap
        PROVE  /\ optionOf[n] \in Files
               /\ \A i \in DOMAIN heap[n] : heap[n][i].weight > 0 /\ heap[n][i].addrs # <<>>
    <3>1. heap[n] \in Seq(HostObject) /\ optionOf[n] \in Files
      BY DEF DialInv, HeapInv, HeapTypes
    <3>2. \A i \in DOMAIN heap[n] : heap[n][i] \in HostObject
      BY <3>1
    <3>3. \A i \in DOMAIN heap[n] : heap[n][i].weight > 0
      BY <3>2 DEF HostObject
    <3>4. \A i \in DOMAIN heap[n] : heap[n][i].addrs # <<>>
      BY Zenon DEF DialInv, HeapInv, HeapTypes
    <3> QED
      BY <3>1, <3>3, <3>4, ZenonT(40)
  <2>2. ConfigTypeOK
    BY <2>1, ZenonT(40) DEF DialInv, HeapInv, HeapTypes, ReloadInv, Locals, Alone, Control, ConfigTypeOK
  <2>3. ASSUME NEW d \in Dialers PROVE dial[d].pc \in Steps /\ dial[d].seen \subseteq DOMAIN heap
    <3>1. dial[d] \in DialRecord /\ DialOK(dial[d])
      BY Zenon DEF DialInv, DialTypes
    <3> QED
      BY <3>1, Zenon DEF DialRecord, DialOK
  <2> QED
    BY <2>2, <2>3, Zenon DEF TypeOK, Steps
<1> QED
  BY <1>1, DialInvariance, PTL

(* The shares of the hosts of a group.                                      *)
LEMMA GroupShares ==
  ASSUME HeapTypes, NEW n \in DOMAIN heap, NEW g \in SUBSET DOMAIN heap[n]
  PROVE  LET share(i) == Cardinality({v \in 0 .. GroupWeight(n, g) - 1 :
                                        ChooseByLocalHosts(n, g, v) = i})
         IN /\ share(0) = 0
            /\ \A i \in g : share(i) \in heap[n][i].weight - 1 .. heap[n][i].weight + 1
<1>1. heap[n] \in Seq(HostObject)
  BY DEF HeapTypes
<1>2. ASSUME NEW i \in g
      PROVE  Cardinality({v \in 0 .. GroupWeight(n, g) - 1 : ChooseByLocalHosts(n, g, v) = i})
               \in heap[n][i].weight - 1 .. heap[n][i].weight + 1
  BY <1>1, ShareIs, Zenon
<1>3. Cardinality({v \in 0 .. GroupWeight(n, g) - 1 : ChooseByLocalHosts(n, g, v) = 0}) = 0
  <2>1. \A v \in 0 .. GroupWeight(n, g) - 1 : ChooseByLocalHosts(n, g, v) \in g
    BY <1>1, Chosen, Zenon
  <2>2. 0 \notin DOMAIN heap[n]
    <3>1. \A s \in Seq(HostObject) : 0 \notin DOMAIN s
      OBVIOUS
    <3> QED
      BY <1>1, <3>1, ZenonT(40)
  <2>3. 0 \notin g
    BY <2>2, Zenon
  <2>4. {v \in 0 .. GroupWeight(n, g) - 1 : ChooseByLocalHosts(n, g, v) = 0} = {}
    BY <2>1, <2>3, ZenonT(40)
  <2> QED
    BY <2>4, FS_EmptySet, Zenon
<1> QED
  BY <1>2, <1>3, ZenonT(40)

(* chooseByLocalHosts finds a host in every group that has one, and over    *)
(* the numbers that rand.Intn can return the share of a host is its weight  *)
(* to within one, whatever the weights.                                     *)
THEOREM Shares == Spec => []ShareWithinOne
<1>1. DialInv => ShareWithinOne
  <2> SUFFICES ASSUME DialInv PROVE ShareWithinOne
    OBVIOUS
  <2> DEFINE Share(n, g, i) == Cardinality({v \in 0 .. GroupWeight(n, g) - 1 :
                                              ChooseByLocalHosts(n, g, v) = i})
             Fair(n, g) == /\ Share(n, g, 0) = 0
                           /\ \A i \in g : Share(n, g, i) \in heap[n][i].weight - 1 .. heap[n][i].weight + 1
  <2>1. ASSUME NEW n \in DOMAIN heap, NEW g \in SUBSET DOMAIN heap[n] PROVE Fair(n, g)
    BY GroupShares, Zenon DEF DialInv, HeapInv
  <2>2. ASSUME NEW n \in DOMAIN heap, NEW who PROVE Group(n, who) \in SUBSET DOMAIN heap[n]
    BY Zenon DEF Group
  <2>3. allHosts \in DOMAIN heap /\ byNameHosts \in DOMAIN heap
    BY Zenon DEF DialInv, HeapInv, HeapTypes
  <2> HIDE DEF Fair
  <2>4. \A who \in Names : LET n == IF who = "" THEN allHosts ELSE byNameHosts IN Fair(n, Group(n, who))
    BY <2>1, <2>2, <2>3, ZenonT(40)
  <2> QED
    BY <2>4, Zenon DEF ShareWithinOne, Fair
<1> QED
  BY <1>1, DialInvariance, PTL

(* There are finitely many loads, each of a file.                           *)
LEMMA HeapFacts ==
  ASSUME HeapTypes
  PROVE  IsFiniteSet(DOMAIN heap) /\ \A n \in DOMAIN heap : optionOf[n] \in Files
<1>1. /\ DOMAIN heap = 1 .. Len(heap) /\ Len(heap) = Len(optionOf) /\ optionOf \in Seq(Files)
      /\ Len(heap) \in Int /\ 1 \in Int
  BY DEF HeapTypes
<1>2. IsFiniteSet(DOMAIN heap)
  BY <1>1, FS_Interval, ZenonT(40)
<1>3. \A n \in DOMAIN heap : optionOf[n] \in Files
  BY <1>1
<1> QED
  BY <1>2, <1>3, ZenonT(40)

(* A dial that was given a name, and that saw the hosts and the option of   *)
(* one UpdateHosts, reports ErrNoHost only after asking the resolver.       *)
THEOREM ResolverAskedCorrect == Spec => []ResolverAsked
<1>1. Init => Asked
  <2> SUFFICES ASSUME Init, NEW d \in Dialers PROVE AskedOK(dial[d])
    BY Zenon DEF Asked
  <2>1. PICK n \in Names :
          dial[d] = [pc |-> IF n = "" THEN "random" ELSE "prefer", name |-> n, host |-> Nil, pos |-> 0,
                     swap |-> <<>>, tried |-> {}, seen |-> {}, asked |-> FALSE]
    BY Zenon DEF Init
  <2>2. dial[d].name = n /\ dial[d].pc = IF n = "" THEN "random" ELSE "prefer"
    <3>1. PICK pc : pc = IF n = "" THEN "random" ELSE "prefer"
      BY Zenon
    <3>2. dial[d] = [pc |-> pc, name |-> n, host |-> Nil, pos |-> 0,
                     swap |-> <<>>, tried |-> {}, seen |-> {}, asked |-> FALSE]
      BY <2>1, <3>1, ZenonT(40)
    <3>3. dial[d].name = n /\ dial[d].pc = pc
      BY <3>2
    <3> QED
      BY <3>1, <3>3, ZenonT(40)
  <2>3. n # "" => dial[d].pc \notin {"random", "nohost"}
    BY <2>2, Zenon
  <2> QED
    BY <2>2, <2>3, ZenonT(40) DEF AskedOK
<1>2. DialInv /\ Asked => ResolverAsked
  <2> SUFFICES ASSUME DialInv, Asked, NEW d \in Dialers, dial[d].pc = "nohost", dial[d].name # "",
                      Cardinality(dial[d].seen) = 1
               PROVE  dial[d].asked
    BY Zenon DEF ResolverAsked
  <2>0. HeapTypes /\ DialTypes
    BY Zenon DEF DialInv, HeapInv
  <2>1. dial[d].seen \subseteq DOMAIN heap
    BY <2>0, Zenon DEF DialTypes, DialOK
  <2>2. IsFiniteSet(dial[d].seen)
    BY <2>0, <2>1, HeapFacts, FS_Subset, ZenonT(40)
  <2>3. PICK n : dial[d].seen = {n}
    BY <2>2, FS_Singleton, ZenonT(40)
  <2>4. n \in DOMAIN heap
    BY <2>1, <2>3, Zenon
  <2>5. heap[n] = <<>> /\ (optionOf[n].resolv = "rule" => dial[d].asked)
    BY <2>3, Zenon DEF Asked, AskedOK
  <2>6. optionOf[n].resolv # "none"
    BY <2>0, <2>4, <2>5, ZenonT(40) DEF HeapTypes
  <2>7. optionOf[n] \in Files
    BY <2>0, <2>4, HeapFacts, ZenonT(40)
  <2>8. optionOf[n].resolv \in {"none", "rule"}
    BY <2>7, FilesAssumption, Zenon
  <2>9. optionOf[n].resolv = "rule"
    BY <2>6, <2>8, Zenon
  <2> QED
    BY <2>5, <2>9, Zenon
<1>3. DialInv /\ Asked /\ [Next]_vars => Asked'
  BY ChoicesAre, AskedStep, Zenon DEF DialInv, HeapInv
<1> QED
  BY <1>1, <1>2, <1>3, DialInvariance, PTL DEF Spec

(* Distinct addresses are as many as the slice is long.                     *)
LEMMA AllOfThem ==
  ASSUME NEW S, NEW a \in Seq(S), Distinct(a)
  PROVE  Cardinality({a[k] : k \in 1 .. Len(a)}) = Len(a)
<1> DEFINE n == Len(a)
           T == {a[k] : k \in 1 .. n}
<1>1. n \in Nat /\ DOMAIN a = 1 .. n
  OBVIOUS
<1>2. IsFiniteSet(1 .. n) /\ Cardinality(1 .. n) = n
  <2>1. /\ IsFiniteSet(1 .. n)
        /\ Cardinality(1 .. n) = IF 1 > n THEN 0 ELSE n - 1 + 1
    <3>1. 1 \in Int /\ n \in Int
      BY <1>1
    <3> QED
      BY <3>1, FS_Interval, ZenonT(40)
  <2> QED
    BY <1>1, <2>1
<1>3. a \in [1 .. n -> T]
  <2>1. \A k \in 1 .. n : a[k] \in T
    OBVIOUS
  <2>2. a = [k \in 1 .. n |-> a[k]]
    BY <1>1
  <2> HIDE DEF T
  <2> QED
    BY <2>1, <2>2, ZenonT(40)
<1>4. a \in Surjection(1 .. n, T)
  BY <1>3, Zenon DEF Surjection
<1>5. a \in Injection(1 .. n, T)
  <2>1. \A k, m \in 1 .. n : a[k] = a[m] => k = m
    BY <1>1 DEF Distinct
  <2> HIDE DEF T, n
  <2> QED
    BY <1>3, <2>1, ZenonT(40) DEF Injection, IsInjective
<1> HIDE DEF T, n
<1>6. Cardinality(T) = Cardinality(1 .. n)
  <2>1. ExistsBijection(1 .. n, T)
    BY <1>4, <1>5, Zenon DEF ExistsBijection, Bijection
  <2> QED
    BY <1>2, <2>1, FS_Bijection, ZenonT(40)
<1> QED
  BY <1>2, <1>6, ZenonT(40) DEF T, n

(* NewConn reports a refused connection only after trying every address of  *)
(* the Host, whatever it is shuffled to, unless another dial used that Host *)
(* at the same time.                                                        *)
THEOREM AllTriedCorrect == Spec => []AllTried
<1>1. DialInv /\ Complete => AllTried
  <2>1. ASSUME NEW T, NEW n, AsMany(T, n) PROVE Cardinality(T) = n
    BY <2>1, AllOfThem, ZenonT(40) DEF AsMany
  <2> QED
    BY <2>1, Zenon DEF Complete, Tried, Tries, TriedOK, Held, AllTried
<1>2. DialInv /\ Complete /\ [Next]_vars => Complete'
  BY ChoicesAre, CompleteStep, Zenon DEF DialInv, HeapInv
<1> QED
  BY <1>1, <1>2, InitComplete, DialInvariance, PTL DEF Spec
=============================================================================

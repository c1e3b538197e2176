-------------------------------- MODULE Config --------------------------------
(***************************************************************************)
(* The configuration (config.go, manager.go) and the part of it that       *)
(* upstream.UpdateHosts and SetOption put into force.  Requests for        *)
(* /reload run reloadConfig, each in a goroutine of its own and without a  *)
(* common lock, while everybody reads settings through configCache.  Every *)
(* atomic store and every critical section is a step.                      *)
(*                                                                         *)
(* A file stands for its settings: bad is the section, if any, that does   *)
(* not unmarshal or Normalize, resolv and net are upstream_option's, buf   *)
(* is scp.reuse_buffer, and hosts lists name, weight and the addresses     *)
(* that lookupTCPAddrs finds, <<>> being an error.                         *)
(***************************************************************************)
EXTENDS Integers, Sequences

CONSTANTS
  Files,         \* contents the file can have
  Keys,          \* names of settings
  Reloaders,     \* goroutines that run reloadConfig
  DefaultWeight, DefaultReuse  \* defaultWeight, and ReuseBufferSize at the start

Distinct(s) == \A i, j \in DOMAIN s : s[i] = s[j] => i = j

(* lookupTCPAddrs makes a new object for each address. *)
ASSUME FilesAssumption ==
  /\ DefaultWeight \in Nat \ {0} /\ DefaultReuse \in Nat \ {0}
  /\ \A f \in Files :
       /\ f.resolv \in {"none", "rule"}
       /\ f.hosts \in Seq([name : STRING, weight : Int, addrs : Seq(STRING)])
       /\ \A i \in DOMAIN f.hosts : Distinct(f.hosts[i].addrs)

NoFile == <<>>   \* a local of reloadConfig without a value

VARIABLES
  viper, configCache,  \* the file viper has read; Keys -> {} or {file it is from}
  reuseBufferSize,     \* scp.ReuseBufferSize
  heap,                \* heap[n]: the Host objects that the n-th UpdateHosts made
  optionOf,            \* n -> the file of the option given to that UpdateHosts
  allHosts, byNameHosts, option,
                       \* number of the UpdateHosts each was stored for
  rpc, ropt, rhosts, rload,
                       \* reloadConfig: control, files its option and hosts are
                       \* from, number of its UpdateHosts
  alone                \* reloads that no other has overlapped

confVars   == <<viper, configCache, reuseBufferSize>>
hostVars   == <<heap, optionOf, allHosts, byNameHosts, option>>
reloadVars == <<rpc, ropt, rhosts, rload, alone>>
configVars == <<confVars, hostVars, reloadVars>>

(* UpdateHosts: what it checks, and the hosts it makes. *)
Loadable_AnyCount(opt, f) == \A i \in DOMAIN f.hosts : f.hosts[i].addrs # <<>>
Loadable(opt, f) ==
  /\ opt.resolv # "none" \/ f.hosts # <<>>
  /\ \A i \in DOMAIN f.hosts : f.hosts[i].addrs # <<>>

Hosts_AnyWeight(f) == f.hosts
Hosts(f) == [i \in DOMAIN f.hosts |->
  [f.hosts[i] EXCEPT !.weight = IF @ <= 0 THEN DefaultWeight ELSE @]]

(* After main's reloadConfig. *)
ConfigInit ==
  \E f \in Files :
    /\ f.bad = "" /\ Loadable(f, f)
    /\ viper = f /\ reuseBufferSize = (IF f.buf > 0 THEN f.buf ELSE DefaultReuse)
    /\ configCache = [k \in Keys |-> {}]
    /\ heap = <<Hosts(f)>> /\ optionOf = <<f>>
    /\ allHosts = 1 /\ byNameHosts = 1 /\ option = 1
    /\ rpc = [r \in Reloaders |-> "idle"] /\ ropt = [r \in Reloaders |-> NoFile]
    /\ rhosts = [r \in Reloaders |-> NoFile] /\ rload = [r \in Reloaders |-> 0]
    /\ alone = {}

(* configItemInt, configItemBool and configItemTime. *)
ConfigItem(k) ==
  /\ configCache[k] = {}
  /\ configCache' = [configCache EXCEPT ![k] = {viper}]
  /\ UNCHANGED <<viper, reuseBufferSize, hostVars, reloadVars>>

-----------------------------------------------------------------------------
(* reloadConfig: r goes on to step to; when it returns its locals are gone. *)
Go(r, to) == rpc' = [rpc EXCEPT ![r] = to]

Return(r, result) ==
  /\ Go(r, result)
  /\ ropt' = [ropt EXCEPT ![r] = NoFile] /\ rhosts' = [rhosts EXCEPT ![r] = NoFile]
  /\ rload' = [rload EXCEPT ![r] = 0] /\ alone' = alone \ {r}

Running(r) == rpc[r] \notin {"idle", "ok", "failed"}

(* A file that cannot be read or parsed leaves viper as it is. *)
ReadInConfig(r) ==
  /\ rpc[r] = "idle"
  /\ viper' \in Files
  /\ Go(r, "clear")
  /\ alone' = IF \E q \in Reloaders : Running(q) THEN {} ELSE {r}
  /\ UNCHANGED <<configCache, reuseBufferSize, hostVars, ropt, rhosts, rload>>

ClearCache_Forgotten(r) ==
  /\ rpc[r] = "clear"
  /\ Go(r, "option")
  /\ UNCHANGED <<confVars, hostVars, ropt, rhosts, rload, alone>>
ClearCache(r) ==
  /\ rpc[r] = "clear"
  /\ configCache' = [k \in Keys |-> {}]
  /\ Go(r, "option")
  /\ UNCHANGED <<viper, reuseBufferSize, hostVars, ropt, rhosts, rload, alone>>

UnmarshalOption(r) ==
  /\ rpc[r] = "option"
  /\ \/ /\ viper.bad = "option"
        /\ Return(r, "failed")
     \/ /\ viper.bad # "option"
        /\ ropt' = [ropt EXCEPT ![r] = viper]
        /\ Go(r, "hosts")
        /\ UNCHANGED <<rhosts, rload, alone>>
  /\ UNCHANGED <<confVars, hostVars>>

UnmarshalHosts(r) ==
  /\ rpc[r] = "hosts"
  /\ \/ /\ viper.bad = "hosts"
        /\ Return(r, "failed")
     \/ /\ viper.bad # "hosts"
        /\ rhosts' = [rhosts EXCEPT ![r] = viper]
        /\ Go(r, "update")
        /\ UNCHANGED <<ropt, rload, alone>>
  /\ UNCHANGED <<confVars, hostVars>>

(* UpdateHosts up to its first store, *)
StoreAllHosts(r) ==
  /\ rpc[r] = "update"
  /\ \/ /\ ~Loadable(ropt[r], rhosts[r])
        /\ Return(r, "failed")
        /\ UNCHANGED hostVars
     \/ /\ Loadable(ropt[r], rhosts[r])
        /\ heap' = Append(heap, Hosts(rhosts[r]))
        /\ optionOf' = Append(optionOf, ropt[r])
        /\ allHosts' = Len(heap) + 1
        /\ rload' = [rload EXCEPT ![r] = Len(heap) + 1]
        /\ Go(r, "byname")
        /\ UNCHANGED <<byNameHosts, option, ropt, rhosts, alone>>
  /\ UNCHANGED confVars

(* and its second. *)
StoreByNameHosts(r) ==
  /\ rpc[r] = "byname"
  /\ byNameHosts' = rload[r]
  /\ Go(r, "set")
  /\ UNCHANGED <<confVars, heap, optionOf, allHosts, option, ropt, rhosts, rload, alone>>

SetOption_Forgotten(r) ==
  /\ rpc[r] = "set"
  /\ Go(r, "scp")
  /\ UNCHANGED <<confVars, hostVars, ropt, rhosts, rload, alone>>
SetOption(r) ==
  /\ rpc[r] = "set"
  /\ option' = rload[r]
  /\ Go(r, "scp")
  /\ UNCHANGED <<confVars, heap, optionOf, allHosts, byNameHosts, ropt, rhosts, rload,
                 alone>>

(* ReuseBufferSize, and HandshakeTimeout, from what viper has read by now. *)
UpdateScp(r) ==
  /\ rpc[r] = "scp"
  /\ reuseBufferSize' = IF viper.buf > 0 THEN viper.buf ELSE reuseBufferSize
  /\ Return(r, "ok")
  /\ UNCHANGED <<viper, configCache, hostVars>>

ReloadConfig(r) ==
  \/ ReadInConfig(r) \/ ClearCache(r) \/ UnmarshalOption(r) \/ UnmarshalHosts(r)
  \/ StoreAllHosts(r) \/ StoreByNameHosts(r) \/ SetOption(r) \/ UpdateScp(r)

ConfigNext == \/ \E r \in Reloaders : ReloadConfig(r)
              \/ \E k \in Keys : ConfigItem(k)

-----------------------------------------------------------------------------
ConfigTypeOK ==
  /\ viper \in Files /\ reuseBufferSize > 0
  /\ configCache \in [Keys -> SUBSET Files]
  /\ Len(optionOf) = Len(heap)
  /\ \A n \in DOMAIN heap :
       /\ optionOf[n] \in Files
       /\ \A i \in DOMAIN heap[n] : heap[n][i].weight > 0 /\ heap[n][i].addrs # <<>>
  /\ {allHosts, byNameHosts, option} \subseteq DOMAIN heap
  /\ rpc \in [Reloaders -> {"idle", "clear", "option", "hosts", "update", "byname",
                            "set", "scp", "ok", "failed"}]
  /\ ropt \in [Reloaders -> Files \cup {NoFile}]
  /\ rhosts \in [Reloaders -> Files \cup {NoFile}]
  /\ rload \in [Reloaders -> Nat] /\ alone \subseteq Reloaders

(* A setting that stays in the cache is the one of the file viper has read, *)
(* however reloads and configItemInt, configItemBool interleave: it can be  *)
(* an older one only between ReadInConfig and the clearing of the cache.    *)
CacheFresh ==
  \/ \E r \in Reloaders : rpc[r] = "clear"
  \/ \A k \in Keys : configCache[k] \subseteq {viper}

(* A reload that no other overlapped and that reports success has brought   *)
(* hosts, option and buffer size of its one file into force.                *)
ReloadTakesEffect ==
  [][\A r \in alone : rpc[r] # rpc'[r] /\ rpc'[r] = "ok" =>
       /\ allHosts' = byNameHosts' /\ byNameHosts' = option'
       /\ optionOf'[option'] = viper'
       /\ viper'.buf > 0 => reuseBufferSize' = viper'.buf
       /\ DOMAIN heap'[allHosts'] = DOMAIN viper'.hosts]_configVars
=============================================================================

# goscon in TLA+

goscon is a proxy that hides broken client connections from a server:
`client <-SCP-> goscon <-tcp or scp-> server`. This directory holds TLA+ models
of its core, the TLC runs that check them on small instances, and TLAPS proofs
of the main properties for every size.

## The system

| Part | Source | State | Operations | What is hard |
|---|---|---|---|---|
| SCP session | `scp/conn.go`, `scp/scp.go` | byte counts and ciphers of both halves, reuse buffer, index, frozen/closed | handshakes, spawn, Read, Write, Freeze, Close | pumps use a conn while a handler copies it; resend exactly what is missing |
| SCPConn | `remoteconn.go` | current conn, connErr, connClosed, reuseCh | acquireConn, setConnError, startWait, stopWait, ReplaceConn, Close | condition variable, timer racing a reuse |
| SCPServer | `server.go` | connPairs, ids | handleConn, onNewConn, onReuseConn, Pump | look-ups by id that are stale when used, clean-up on every path |
| IDAllocator | `scp/idallocator.go` | off, free | AcquireID, ReleaseID | restart of the numbering |
| loopBuffer | `scp/loopbuffer.go` | buf, off, looped | Write, ReadLastBytes, Reset, CopyTo | wrap-around; reuse through a pool |
| Messages | `scp/messages.go` | none | marshal, unmarshal | counts of 32 bits |
| Upstream | `upstream/upstream.go` | host groups, option | UpdateHosts, GetHost, NewConn | weighted choice; concurrent reload |
| LocalSCPConn | `localconn.go` | a SCPConn | startWait, reuseConn | overriding of an embedded method |
| Configuration | `config.go`, `manager.go` | cache, sizes | reloadConfig | several stores, partial failure |
| Transports | `tcp.go`, `kcp.go` | deadlines | Accept, Read | deadlines shared with Handshake |
| Key exchange | `dh64/dh64.go` | none | powmodp | 64-bit boundaries |

The rest (`main.go`, metrics, profiling, the sproto hook, `examples/`) is
start-up code and I/O.

An accepted connection gets a goroutine (`handleConn`). For a new session it
takes an id, answers, registers a pair, dials the server and runs two pumps until
both end; the deferred calls then remove the pair and release the id. For a reuse
it finds the session by id, checks the index, freezes and copies ("spawns") the
old `scp.Conn`, answers, resends what the client lacks, and installs the copy in
the session's SCPConn, which wakes the pumps that wait there.

## The modules

| Module | Models |
|---|---|
| `ScpSession` | one session end to end: the client, the transports, reuse handlers, the two pumps |
| `ByteStream` | what SCP promises of one direction; `ScpSession` implements it twice |
| `MCScpSession` | the instance of `ScpSession` with bytes in one direction at a time |
| `ScpSessionInv` | the inductive invariant of `ScpSession` |
| `ScpSessionControl`, `ScpSessionStreams` | theorems about `ScpSession`: types and control; the streams |
| `RemoteConn`, `RemoteConnProofs` | SCPConn: waiting for a reuse and its timer |
| `Server`, `MCServer`, `ServerProofs` | many sessions: ids, connPairs, reuse by id, dials, clean-up; extends `IDAllocator` |
| `IDAllocator` | the allocator; its theorems are in `ServerProofs` |
| `LoopBuffer`, `LoopBufferProofs` | the ring buffer |
| `BufferPool`, `MCBufferPool`, `BufferPoolProofs` | the pool of ring buffers and the conns of several sessions that use it |
| `Config` | settings, their cache, and `reloadConfig` |
| `Upstream`, `MCUpstream`, `UpstreamProofs` | choice of a server and dial, during reloads; extends `Config` |
| `DH64` | the key exchange as functions on words of `W` bits |
| `Handshake`, `HandshakeProofs` | the first handshake and the deadlines of a conn; extends `DH64` |

Definitions whose name has a suffix after an underscore (`Resent_OneLess`) are
deliberately wrong variants of the definition that follows. Putting one in
place of the right definition breaks a property; no specification uses them.

### ScpSession

Variables keep the names of the code's fields; `t` numbers the transports and the
conns on them, 0 being that of the first handshake. The initial state is the
one after that handshake, with the pair registered. A reuse that comes between
the response and `addConnPair` (`server.go:190`) is not in this module but in
`Server`, where it finds no pair and is refused.

*Bytes.* Both ends of a session encrypt each byte once and cache the ciphertext.
`deepCopyCipherConnReader/Writer` copy the pointer to the cipher, so all conns
of a session share one cipher per direction. Byte number i is thus the i-th
byte through the writer's cipher. It decrypts correctly only as the i-th byte
through the reader's; anything else is garbage (0).

*Steps.* Each goroutine moves from lock to lock. A handler goes through
`QueryByID` (look-up and index check), `SpawnFreeze` (freeze, barriers, buffer
copy), `SpawnCopy` (counts, and the check of the missing bytes), `Respond` and
`ReplaceConn`. A pump goes through `Acquire`, `CheckHandshake`, `Read` or
`Write`, and after an error `Freeze` and `SetConnError`. `Locked` is the
`connMutex` that `spawn` holds between its two steps. Read and write move one
byte; the s2c pump's read of the server is part of `Acquire`.

*Failures.* Either end of a transport may fail at any time (`ClientDrop`,
`ServerDrop`), which loses what is in flight. A resend may fail after any prefix. A
request or a response may be lost, the client may give up at any time, and the
session may be closed at any time (`CloseSession`: the server went away or the
timer fired).

*The client* is the `scp` package's own client (`scp.Client` with
`ConnForReused`). It always has the right secret, so status 401 does not occur
here; in `Server` it is one of the reasons of a refusal.

*Two constants choose the environment.* `Transport` is `"tcp"` or `"kcp"`: a read
of a closed KCP session still returns what it has buffered. `Reconnects` is
`"spaced"` when the client starts an attempt only after goscon has finished the
previous one, `"overlapping"` when it need not.

### RemoteConn

A step is a critical section of `connMutex`. A caller is `waiting` on the
condition variable until a Broadcast makes it `woken`. Timers are numbered; the
select of a timer goroutine whose time is over and whose channel is closed may
take either branch. A pump is `away` while it is at its other connection.

`SCPConn` is also what `LocalSCPConn` embeds. `acquireConn` is a method of
`*SCPConn` and calls that type's `startWait`, so `LocalSCPConn.startWait` and its
`reuseConn` are never reached. A `LocalSCPConn` is an `SCPConn` that nobody
replaces: this module without `ReplaceConn`.

### Server

A goroutine of `New` or `Reuse` is one accepted connection. The secret stands
for the key agreed in the first handshake: a reuse request verifies against a
conn with the same secret. The streams are left to `ScpSession`, the wait to
`RemoteConn`; here a session may close at any time while it pumps. A dial
succeeds, fails, or panics (`NewConn` calls `Close` on the nil conn of a failed
upgrade), and `handleConn` recovers. The key exchange panics for a public key of
0 (`conn.go:405`), after the id was taken and the response sent; `handleConn`
recovers from this too, and the goroutine ends as `panicked`.

### BufferPool

A conn has a field `reuseBuffer`, which `Close` sets to nil, and a `writer`, the
pointer in its MultiWriter, which stays. Buffers are model values; what one
holds is the sequence of the last bytes written, which is what `LoopBuffer` shows
of the ring. `Unused` are the buffers nobody points to any more: a new one is one
of these. `Close` and `Put` are the two halves of `loopBufferPool.Put`, its
comparison with `ReuseBufferSize` and the put itself, between which a reload may
change the size. The variables `late` and `tainted` record the events after which
a property is not claimed, `began` the capacity a session began with; they change
nothing.

### Config and Upstream

A file is a record of the settings that matter. `viper` and the cache hold files;
`heap[n]` are the Host objects that the n-th successful `UpdateHosts` made, and
`allHosts`, `byNameHosts` and `option` say for which of these each atomic value
was stored last. `reloadConfig` is one step per store or critical section; the
goroutines of `/reload` share `viper` and take no common lock. A dial is one step
per load of an atomic value, per read and write of the address slice that
`rand.Shuffle` permutes in place, and per attempt to connect. A host group is the
set of the indices of its hosts (`Group`), and what `chooseByLocalHosts` has
subtracted from its random number when it comes to a host is the weight of the
group before it (`WeightTo`). The random number is an `\E`; its distribution is
the number of values that choose a host (`ShareWithinOne`).

### DH64 and Handshake

`DH64` computes on words of `W` bits with the wrap-around of `uint64`; `P` is a prime
just below `2^W`. The loop of `mulModP` is a function of the number of turns; it
is over after `W` turns at the latest, and a turn with b = 0 changes nothing.
`Power` is the reference. A message is the tuple of its lines, of
which a client of another version leaves out the last ones. `deadline` is the
read deadline of the transport: `Handshake` sets and clears it, on every Read
and Write too, and the `Read` of `tcpConn` and `kcpConn` sets it again. Time passes
(`Tick`) only while the goroutines are blocked on the network.

## The runs

Runs that pass:

| Run | Instance | Shows |
|---|---|---|
| `session` | 1 reuse, 2 bytes each way, buffer 1, modulus 2 | `TypeOK`, the inductive invariant `IInv`; `EventuallyDelivered` under `FairSpec` |
| `session_streams` | 2 reuses, 2 bytes up or 3 bytes down, buffer 2 | each direction implements `ByteStream` (`UploadStream`, `DownloadStream`); 406 only for an overflow (`RefusedOnlyOnOverflow`); 404 only for a closed session (`NotFoundOnlyWhenGone`); each installed index is greater than the last (`IndexIncreases`) |
| `remote` | 2 reuses | `WaiterHasTimer`, `OneTimer`, `ErrorIsCurrent`; `WaitEnds`, `BrokenResolved`, `ClosedEnds` under `FairSpec` |
| `loop_buffer` | ring of 4, writes of 0..6, 14 bytes in all | `LenIsRight`, `LastBytesKept` |
| `server` | 3 sessions, 2 reuses | `NoConflict`, `IDsUnique`, `PairsExact`, `OnlyPanicLeaks`, `NothingLeftOpen`, `InstalledMatches`; the allocator's `Accounting`; the server refines the allocator's specification (`AllocatorUse`) |
| `upstream` | 2 dials, 1 reload, 5 files | `CacheFresh`, `ReloadTakesEffect`; `ResolverAsked`, `ShareWithinOne`, `AllTried` |
| `buffer_pool` | 3 conns, 4 buffers, 2 sizes, 2 bytes | `OneOwner`, `OwnBytes`, `CapacityKept` |
| `handshake` | words of 4 bits, p = 13, all keys; timeouts on and off; 6 ticks | `SecretsAgree`, `HandshakeAgrees`, `HandshakeBounded`, `NoSpuriousTimeout` |

`session`, `remote`, `server` and `upstream` also check `TypeOK`; for the ring and
the pool it is proved.

Runs in which TLC finds what the code does to disagree with what it or its
documents say:

| Run | What happens |
|---|---|
| `late_write` | a Write takes the out lock after spawn's barrier; its byte is lost to the reused session |
| `overlapping_upload` | two reuse handlers of one session corrupt the upload stream |
| `timer_after_reuse` | the timer closes a session that was just reused |
| `silent_client` | a Write clears the deadline of the Read in progress (`conn.go:440`), and a silent client outlasts the read timeout of `config.go:41` |

`DownloadIntact`, `RefusedOnlyOnOverflow` and `DownloadStream` are therefore
stated up to a late Write: the variable `late` holds the bytes written to a conn
after a spawn of it, and changes nothing in the behaviour. Other properties name
their exception in the same way; without it they do not hold, and TLC finds a
violation in the instance of the run (for `ReloadTakesEffect`
with a second reload):

| Property and its exception | What happens otherwise |
|---|---|
| `InstalledMatches`, unless the conn's session is over | `onReuseConn` looks the pair up again by id (`server.go:142`); the id may have been given to another session since the handshake |
| `NothingLeftOpen`, except the last conn after a failed dial, and the conn whose key exchange panicked | `onNewConn` closes the conn it was called with (`server.go:195`), not one a reuse installed meanwhile; the panics of `upstream.go:275` and `conn.go:405` close nothing |
| `OnlyPanicLeaks`, except ids of goroutines that panicked in the key exchange | the panic of `conn.go:405` leaves the id taken; `scp.go:12` says it is released "if handshake failed" |
| `OwnBytes`, without `tainted` and `late` | a Write of a closed conn goes to a buffer that another session has by now (`conn.go:539`) |
| `AllTried`, without `raced` | two shuffles of one slice lose an address and duplicate another (`upstream.go:259`) |
| `ResolverAsked`, for a dial that saw one configuration | hosts of one reload and the option of another (`upstream.go:193-228`) |
| `ReloadTakesEffect`, for a reload no other overlapped | with two reloads, the hosts of one and the option of the other are left in force |
| `HandshakeBounded`, for a transport without read timeout | `tcpConn.Read` and `kcpConn.Read` replace the handshake's deadline for each piece of the request (`tcp.go:17`, `kcp.go:20`). By default a silent KCP client holds the handshake 60 seconds; `config.go:32` says 30 ("scp握手超时时间") |
| `BrokenResolved` and `ClosedEnds`, unless the c2s pump stays in its write to the server | only a caller of `acquireConn` starts the timer (`remoteconn.go:77`) and the write has no deadline (`server.go:36`), so a session that breaks while both pumps are at the server is not closed; `README.md:25` says it is, after `scp.reuse_time` |

Five statements one might expect have no useful exception and are not properties
here.

* Every host of a group can be chosen: the last host of weight 1 is not
  (`upstream.go:164`).
* A reload that fails leaves the settings as they were: the cache is cleared and
  `viper` changed before the checks.
* The pool has no buffer of an old size, as the comment at `loopbuffer.go:106` says
  ("invalidate all old buffer"): those that are in the pool when the size changes
  stay there, and `Put` may add one when a reload comes after its comparison. New
  sessions get them. What holds is `CapacityKept`: a session does not change its
  capacity in mid-course, because `CopyTo` replaces the buffer of the copy.
* A broken scp connection to the server is re-established (`config.go:58`:
  "可以指定使用 scp 协议保证连接自动重连"): `LocalSCPConn.reuseConn` is never reached, see
  RemoteConn above.
* 404 is only sent for an id that is not valid any more (`protocol.md:88`): a client
  may use its id before `addConnPair` has registered it. `NotFoundOnlyWhenGone` is
  about the time after.

The passing session runs use `"tcp"` and `"spaced"`, and in the larger one
the modulus is out of reach. These restrictions are needed. With `Spec` and the
following constants TLC finds a violation within seconds; they are not kept as
runs. Unless the row changes them, `MaxReuse = 2`, `MaxUp = MaxDown = 0`,
`Cap = 1`, `Wrap = 100`, `Transport = "tcp"` and `Reconnects = "spaced"`.

The first four are against `protocol.md`: line 81 (`recvnumber` is what goscon has
received), 89 (406 means that the cache is too small), 88 (404 means that the id
is not valid any more) and 66 (an index that was used is refused).

| Changed constants | Violated | Why |
|---|---|---|
| `Transport = "kcp"`, `MaxUp = 1` | `UploadIntact` | bytes read from a frozen KCP session after spawn copied the count are resent as well |
| `Wrap = 3`, `MaxReuse = 1`, `MaxDown = 3`, `Cap = 2` | `RefusedOnlyOnOverflow` | past 2^32 bytes `conn.go:354` subtracts a reduced count from a full one |
| `Reconnects = "overlapping"` | `NotFoundOnlyWhenGone` | the conn `QueryByID` returned was replaced and closed meanwhile |
| `Reconnects = "overlapping"` | `IndexIncreases` | the index is not checked again when the conn is installed |
| none | `NeverExpired` | after a lost response the retry (`scp.go:74`) carries the index just used and gets 403 |

### Bounds

Two reuses give a reuse of a reused conn, one that failed half way included, and
a late step of the first conn while the second is in use. Three bytes through a
buffer of two make the buffer overflow, be exactly full, and be partly resent.
In `session_streams` a behaviour moves bytes in one direction only, either one
(`OneWay`); `session` has both at once. The modulus stands for 2^32; in `session`
the counts reach it, elsewhere it is out of reach (100). For `RemoteConn`, two reuses allow a caller to be two conns behind. The
ring is checked with writes shorter than, equal to and longer than the ring, and
of total length beyond three turns. Three sessions and two reuses suffice for
an id that is given away twice and for a reuse that meets a stranger.

For the pool, three conns are a session, its reused conn and a conn of another
session; a fourth buffer makes one left over. The five files of `MCUpstream` take
every path of `reloadConfig`; two reloads with one dial pass as well (377,365
states), and the theorems about reloads hold for any number. Four bits are enough
for doubling to overflow; with `P = 13` all 15 private keys occur on both sides.
Six ticks are twice the longest timeout, in two pieces of a request.

`MaxReuse`, `MaxUp`, `MaxDown`, `MaxConn`, `MaxWrite`, `MaxTotal`, `MaxSent`,
`MaxTime` and `Chunks` are bounds of the models, as are the sizes of the sets of
goroutines, conns and buffers; the program has none of them.

Deadlock is not checked where the system may stop: a session that was closed,
a client that has used up its bytes and attempts, servers without connections.

### Fairness

`ScpSession!FairSpec`: handlers, pumps, and the client's reading of what has
arrived are weakly fair, because they are runnable goroutines whose locks are
held briefly. Nothing is assumed of failures, of reconnects, or of what the server
sends.

`RemoteConn!FairSpec`: the callers are weakly fair and time passes for a timer
that has not been stopped (`GoFairness`). A pump that has ended has closed the
server connection, so the other one returns from it (`UpstreamFairness`). The
server may otherwise be silent for ever and may stop reading, which holds the c2s
pump in a write without deadline: `BrokenResolved` and `ClosedEnds` name this as
their alternative. `ScpSession` does not model that write, so
`EventuallyDelivered` supposes a server that reads.

## The proofs

All theorems are proved for every value of the constants that the modules'
assumptions admit: any buffer size below the modulus, any number of bytes,
reuses, ids or slots.

* `ScpSessionControl!TypeCorrect`: type correctness for either transport and
  either kind of client. It needs `HandlerInv`: a handler about to answer OK has as
  many bytes in its buffer as it will resend, and no pump holds the conn a
  handler is still building.
* `ScpSessionStreams!UploadCorrect` (`UploadIntact`; assumes TCP and spaced
  attempts), `DownloadCorrect` (`DownloadIntact`; assumes spaced attempts) and
  `IInvCorrect` (`IInv`; assumes both).
  `UploadIntact` alone is not inductive. `IInv` adds:
  * `Control`: only the last handler is active, the conn it copies stays the
    current one and stays frozen, and a pump that holds another conn holds one
    that was spawned from;
  * `ClientInv`: nothing travels on a transport before its response;
  * `UploadInv`, `DownloadInv`: the bytes in flight on a live transport continue
    what has been read, the buffer is the end of the stream, and the counts of the
    current conn and of its copy are the true ones.

  A resend is right because an accepted difference is less than the modulus, so
  the count reduced modulo it is the true count (`NoWrap`). `FollowsLast`
  then says that the last bytes of the buffer continue the stream.
* `RemoteConnProofs`: `TypeCorrect`, `NoLostTimer`, `SingleTimer`, `NoStaleError`. The
  invariant adds that the channel in `reuseCh` belongs to a timer nobody has
  stopped, and that a caller about to report an error holds a conn that is dead.
* `ServerProofs`, the allocator alone: `AllocTypeCorrect`, `UniqueIDs`, `AccountingCorrect`, `RestartsCorrect`.
  The accounting is inductive together with a count (`Counted`: as many ids are
  held or free as were numbered), which turns the comparison in `ReleaseID` into
  "nobody holds an id".
* `LoopBufferProofs`: `TypeCorrect`, `LenCorrect`, `LastBytesCorrect`, from an invariant
  that says what each slot of the ring holds.
* `ScpSessionStreams!UploadImplements` and `DownloadImplements`: every step of a
  session is a step of `ByteStream` or leaves the stream alone, from the same
  invariants and under the same assumptions.
* `ScpSessionStreams!NotFoundCorrect` and `IndexCorrect` (assume spaced attempts).
  `GoneInv` adds that a pump ends only after the session was closed, that the
  current conn is closed only together with the session, and that a handler past
  its index check has a greater index than the current conn.
* `ScpSessionStreams!RefusedCorrect` (assumes spaced attempts): while fewer bytes
  were written than the modulus, `RefusedOnlyOnOverflow`. The condition on the
  bytes is part of the statement because the property fails without it (the table
  of violations above). `RefusedInv` adds that the buffer of the current conn holds
  all that was written or is full.
* `ServerProofs`, the server: `UsesAllocator`, `SessionIDsUnique`, `PairsCorrect`, `NeverConflicts`,
  `IDsComeBack` (`OnlyPanicLeaks`), `InstallsOwn`, `LeavesNothingOpen`, for any number of goroutines. The
  key is `HoldersInv`: the ids the allocator has given out are those of the
  goroutines that will give them back or have panicked. `ConnInv` then follows each conn through
  its life: what is open, what is installed where, and which session's client
  asked. `ServerTypes` is the type invariant of the server.
* `BufferPoolProofs`: `TypeCorrect`, `OwnersCorrect`, `CapacitiesKept`, `BytesCorrect`.
  `PoolInv` adds that the writer of a live conn is its own buffer and that the copy in
  the midst of a spawn holds what its receiver had sent; `Fits` that each conn's buffer
has the capacity its session began with.
* `UpstreamProofs`, reloads: `CacheIsFresh`, `ReloadsTakeEffect`. `ReloadInv` adds that
  a reload nobody overlapped has only seen the file that `viper` still has, and how
  far it has come.
* `UpstreamProofs`, dials: `UpstreamTypes`, `Shares`, `ResolverAskedCorrect`,
  `AllTriedCorrect`, for any files, hosts, weights, reloads and dials.
  * `DialInv` adds to the types that a dial keeps to the slice of its Host while
    other dials shuffle it and reloads store new hosts: Hosts of earlier loads
    stay, with as many addresses (`HostsStay`).
  * `Shares` rests on the partial sums of the weights (`IsSum`): the numbers that
    choose a host are an interval as long as its weight, but one longer for the
    first host and one shorter for the last. The greatest number is below the
    weight of the group, so nil is never returned.
  * `Asked` follows a dial through `GetHost`: if it saw one configuration only, it
    has asked the resolver when that configuration has one, and is without a host
    only when there are none.
  * `Complete` says that a Host in `raced` apart, one dial at most uses a Host, its
    addresses are distinct except between the two writes of a swap, where the
    second write restores them, and that a dial has tried exactly the addresses
    before its position. As many distinct addresses as the slice is long are all
    of them.
* `HandshakeProofs`, the arithmetic: `MulRight`, `PowRight`, `KeysAgree`, for every word
  size and every prime below `2^W`. In each turn of `mulModP` the sum
  `m + a * b` is the product of the arguments modulo p, with m and a below p
  (`MulState`); the tests `m >= p - a` and `a >= p - a` are what keeps the wrap-around of the
  word from being seen. `powModP` is right by induction on the exponent, and powers
  commute because exponents multiply. That p is prime is used only for powers of
  g not being 0.
* `HandshakeProofs`, the handshake: `SecretsAgreeCorrect` and `HandshakeAgreesCorrect`
  from `KeyInv`, which relates each message in flight to the keys and the locals it
  was made from; `HandshakeBoundedCorrect` and
  `NoSpuriousTimeoutCorrect` from `TimeInv`, which says whose deadline the transport has
  at each moment: that of the handshake, of a Read, or one that a concurrent Write
  has set and is about to clear.

What the recursive definitions (`Powers`, `PowLoop`, `MulLoop`, `WeightTo`) compute
is proved by induction over the naturals, in a first-order form: `NatSet` says that
a set of numbers with 0 and with the successor of each of its members is `Nat`,
which follows from the order being well-founded. No induction theorem with an
operator as parameter is used, and no module of the project declares an operator
RECURSIVE.

The assumptions on the constants are `SessionAssumption` and its like (sizes are
numbers, a buffer is smaller than the modulus), `DH64Assumption` and
`PrimeAssumption` (p is a prime below `2^W`, as the constants of `dh64.go` are for
W = 64), `TimeoutAssumption` (timeouts are numbers), and `FilesAssumption`
(a file's hosts have names, weights, which may be negative, and addresses; these
are distinct because `lookupTCPAddrs` makes an object for each).

Only model-checked: the liveness properties `EventuallyDelivered`, `WaitEnds`,
`BrokenResolved` and `ClosedEnds`, since fairness is outside what the proof system
handles. Every other property of a passing run is a theorem.

## Not modelled

* `Serve`: its only state is the sleep after a failed Accept, doubled up to a second.
* `Accept` of `tcp.go` and `kcp.go`: socket options.
* `LocalSCPConn.startWait` and `reuseConn`: never reached, see RemoteConn above.
* The text of messages (base64, separators) and the checksum of `hash.go`: a request
  verifies if and only if the secrets are the same.
* `scp/pool.go`: scratch buffers that do not leave the call that took them.
* `sproto_hook.go`: one message written once; its failure is an outcome in `Upstream`.
* `main.go`, `metric.go`, `pprof.go`, `util.go`, `examples/`: start-up, counters, stack
  dumps and command line tools.

------------------------------ MODULE BufferPool ------------------------------
(***************************************************************************)
(* Who owns a reuse buffer (scp/loopbuffer.go, scp/conn.go): the conns of  *)
(* several sessions take loopBuffers from one sync.Pool and give them back *)
(* while ReuseBufferSize may change.  The MultiWriter of a conn keeps its  *)
(* pointer to the buffer after Close has put it into the pool, and a Write *)
(* that passed its Handshake check before can still come.                  *)
(*                                                                         *)
(* What a buffer holds is the sequence module LoopBuffer shows it to keep: *)
(* the last bytes written, here <<session, number>>.                       *)
(***************************************************************************)
EXTENDS Integers, Sequences, FiniteSets

CONSTANTS
  Conns, Buffers,  \* bounds: scp.Conns ever made, buffers allocated at a time
  Sizes, MaxSent   \* values of ReuseBufferSize; bound: bytes of a session

None == "none"   \* no buffer

ASSUME PoolAssumption ==
  Sizes \subseteq Nat \ {0} /\ MaxSent \in Nat /\ None \notin Buffers

VARIABLES
  ReuseBufferSize,
  pool,                  \* buffers in defaultLoopBufferPool
  size, held,            \* of a buffer: Cap, and the bytes it holds
  reuseBuffer, writer,   \* of a conn: the field, and where out.wr writes to
  session, sent, state,  \* the conn that began its session; out.count;
                         \* "unused", "open", "frozen" or "closed", "copying"
                         \* in the midst of spawn, "putting" in that of Put
  from,                  \* a conn in state "copying": spawn's receiver
  checked,               \* conns with a Write between Handshake and out.Lock
  late,                  \* sessions with a Write to a conn already frozen
  tainted, began         \* buffers written to by a conn that had given them
                         \* back; of a session: the capacity it began with

bufVars  == <<pool, size, held>>
connVars == <<reuseBuffer, writer, session, sent, state, from>>
vars == <<ReuseBufferSize, bufVars, connVars, checked, late, tainted, began>>

Init ==
  /\ ReuseBufferSize \in Sizes
  /\ pool = {} /\ size = [b \in Buffers |-> 0] /\ held = [b \in Buffers |-> <<>>]
  /\ reuseBuffer = [c \in Conns |-> None] /\ writer = [c \in Conns |-> None]
  /\ session = [c \in Conns |-> c] /\ sent = [c \in Conns |-> 0]
  /\ state = [c \in Conns |-> "unused"] /\ from = [c \in Conns |-> c] /\ checked = {}
  /\ late = {} /\ tainted = {} /\ began = [c \in Conns |-> 0]

(* The last n elements, at most. *)
Last(s, n) == SubSeq(s, IF Len(s) > n THEN Len(s) - n + 1 ELSE 1, Len(s))
Stream(s, n) == [i \in 1 .. n |-> <<s, i>>]

(* Buffers that nobody will use any more, whose memory is free. *)
Unused == Buffers \ (pool \cup {reuseBuffer[c] : c \in Conns}
                          \cup {writer[c] : c \in checked})

(* spawn holds the connMutex of the conn it copies. *)
Locked(c) == \E d \in Conns : state[d] = "copying" /\ from[d] = c

(* loopBufferPool.Get: one from the pool, of any size, or a new one. *)
Get(b) == b \in pool \cup Unused /\ pool' = pool \ {b}
Capacity(b) == IF b \in pool THEN size[b] ELSE ReuseBufferSize

Reset_Forgotten(b) == UNCHANGED held
Reset(b) == held' = [held EXCEPT ![b] = <<>>]

(* CopyTo gives the copy the capacity of the original. *)
CopyTo_OwnSize(b, dst) ==
  /\ size' = [size EXCEPT ![dst] = Capacity(dst)]
  /\ held' = [held EXCEPT ![dst] = Last(held[b], Capacity(dst))]
CopyTo(b, dst) ==
  /\ size' = [size EXCEPT ![dst] = size[b]]
  /\ held' = [held EXCEPT ![dst] = held[b]]

-----------------------------------------------------------------------------
(* initNewConn. *)
InitNewConn(c) ==
  /\ state[c] = "unused"
  /\ \E b \in Buffers :
       /\ Get(b)
       /\ size' = [size EXCEPT ![b] = Capacity(b)]
       /\ began' = [began EXCEPT ![c] = Capacity(b)]
       /\ Reset(b)
       /\ tainted' = tainted \ {b}
       /\ reuseBuffer' = [reuseBuffer EXCEPT ![c] = b]
       /\ writer' = [writer EXCEPT ![c] = b]
  /\ state' = [state EXCEPT ![c] = "open"]
  /\ UNCHANGED <<ReuseBufferSize, session, sent, from, checked, late>>

(* spawn: freeze and the barriers, and the copy; then the count. *)
SpawnBuffer(c, new) ==
  /\ state[c] \in {"open", "frozen"} /\ ~Locked(c) /\ state[new] = "unused"
  /\ LET old == reuseBuffer[c] IN \E b \in Buffers :
       /\ Get(b)
       /\ CopyTo(old, b)
       /\ tainted' = IF old \in tainted THEN tainted \cup {b} ELSE tainted \ {b}
       /\ reuseBuffer' = [reuseBuffer EXCEPT ![new] = b]
       /\ writer' = [writer EXCEPT ![new] = b]
  /\ session' = [session EXCEPT ![new] = session[c]]
  /\ state' = [state EXCEPT ![c] = "frozen", ![new] = "copying"]
  /\ from' = [from EXCEPT ![new] = c]
  /\ UNCHANGED <<ReuseBufferSize, sent, checked, late, began>>

SpawnCount(new) ==
  /\ state[new] = "copying"
  /\ sent' = [sent EXCEPT ![new] = sent[from[new]]]
  /\ state' = [state EXCEPT ![new] = "open"]
  /\ from' = [from EXCEPT ![new] = new]
  /\ UNCHANGED <<ReuseBufferSize, bufVars, reuseBuffer, writer, session, checked, late,
                 tainted, began>>

(* Write, up to and after its Handshake check. *)
CheckHandshake(c) ==
  /\ state[c] = "open"
  /\ checked' = checked \cup {c}
  /\ UNCHANGED <<ReuseBufferSize, bufVars, connVars, late, tainted, began>>

Write(c) ==
  LET b == writer[c] IN
  /\ c \in checked /\ sent[c] < MaxSent
  /\ checked' = checked \ {c}
  /\ sent' = [sent EXCEPT ![c] = @ + 1]
  /\ held' = [held EXCEPT ![b] = Last(Append(@, <<session[c], sent[c] + 1>>), size[b])]
  /\ late' = IF state[c] # "open" THEN late \cup {session[c]} ELSE late
  /\ tainted' = IF reuseBuffer[c] = None THEN tainted \cup {b} ELSE tainted
  /\ UNCHANGED <<ReuseBufferSize, pool, size, reuseBuffer, writer, session, state, from,
                 began>>

(* Close, under connMutex.  Put compares the capacity with ReuseBufferSize, *)
(* which nothing guards, and returns, or puts the buffer into the pool; the *)
(* size may change in between.                                              *)
Close(c) ==
  /\ state[c] \in {"open", "frozen"} /\ ~Locked(c)
  /\ \/ /\ size[reuseBuffer[c]] = ReuseBufferSize
        /\ state' = [state EXCEPT ![c] = "putting"]
        /\ UNCHANGED reuseBuffer
     \/ /\ size[reuseBuffer[c]] # ReuseBufferSize
        /\ state' = [state EXCEPT ![c] = "closed"]
        /\ reuseBuffer' = [reuseBuffer EXCEPT ![c] = None]
  /\ UNCHANGED <<ReuseBufferSize, bufVars, writer, session, sent, from, checked, late,
                 tainted, began>>

Put_KeepsField(c) ==
  /\ state[c] = "putting"
  /\ pool' = pool \cup {reuseBuffer[c]}
  /\ state' = [state EXCEPT ![c] = "closed"]
  /\ UNCHANGED <<ReuseBufferSize, size, held, reuseBuffer, writer, session, sent, from,
                 checked, late, tainted, began>>
Put(c) ==
  /\ state[c] = "putting"
  /\ pool' = pool \cup {reuseBuffer[c]}
  /\ reuseBuffer' = [reuseBuffer EXCEPT ![c] = None]
  /\ state' = [state EXCEPT ![c] = "closed"]
  /\ UNCHANGED <<ReuseBufferSize, size, held, writer, session, sent, from, checked, late,
                 tainted, began>>

(* The garbage collector empties a sync.Pool when it likes. *)
Drop(b) ==
  /\ b \in pool
  /\ pool' = pool \ {b}
  /\ UNCHANGED <<ReuseBufferSize, size, held, connVars, checked, late, tainted, began>>

(* reloadConfig. *)
SetReuseBufferSize ==
  /\ ReuseBufferSize' \in Sizes \ {ReuseBufferSize}
  /\ UNCHANGED <<bufVars, connVars, checked, late, tainted, began>>

Next == \/ \E c \in Conns : \/ InitNewConn(c) \/ CheckHandshake(c) \/ Write(c) \/ Close(c) \/ Put(c)
                            \/ SpawnCount(c) \/ \E d \in Conns : SpawnBuffer(c, d)
        \/ \E b \in Buffers : Drop(b)
        \/ SetReuseBufferSize

Spec == Init /\ [][Next]_vars

-----------------------------------------------------------------------------
States == {"unused", "copying", "open", "frozen", "putting", "closed"}

TypeOK ==
  /\ ReuseBufferSize \in Nat /\ pool \subseteq Buffers
  /\ size \in [Buffers -> Nat] /\ held \in [Buffers -> Seq(Conns \X Nat)]
  /\ reuseBuffer \in [Conns -> Buffers \cup {None}]
  /\ writer \in [Conns -> Buffers \cup {None}]
  /\ session \in [Conns -> Conns] /\ from \in [Conns -> Conns]
  /\ sent \in [Conns -> Nat] /\ state \in [Conns -> States]
  /\ began \in [Conns -> Nat]

(* Two conns never have the same reuse buffer, and none has one that is in  *)
(* the pool, through any number of Close, spawn and Get.                    *)
OneOwner ==
  \A c, d \in Conns : reuseBuffer[c] # None =>
    reuseBuffer[c] \notin pool /\ (reuseBuffer[c] = reuseBuffer[d] => c = d)

(* What a conn can resend is the end of its own session's stream, up to its *)
(* own count, although buffers wander between sessions: except after a      *)
(* Write that came late, to the conn itself or, after its buffer was given  *)
(* back, to a conn of any session.                                          *)
OwnBytes ==
  \A c \in Conns :
    LET b == reuseBuffer[c] IN
    state[c] \in {"open", "frozen"} /\ b \notin tainted /\ session[c] \notin late =>
      held[b] = Last(Stream(session[c], sent[c]), size[b])

(* A session keeps the capacity it began with through every reuse, whatever *)
(* reloads of ReuseBufferSize came between and whatever the sizes of the    *)
(* buffers that Get returned (pooled buffers of an old size included): what *)
(* a client may still ask for after a reload does not shrink.               *)
CapacityKept ==
  \A c \in Conns :
    reuseBuffer[c] # None => size[reuseBuffer[c]] = began[session[c]]
=============================================================================

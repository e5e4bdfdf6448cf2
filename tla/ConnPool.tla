------------------------------ MODULE ConnPool ------------------------------
(***************************************************************************)
(* The websocket connection pool (socket/socketMain.go) with the goroutines *)
(* that use it: per connection the reader (WebSocketConnect, connect.go)   *)
(* and the consumer (ConsumeMessage), and the push goroutines of the        *)
(* services, each one call of SendAllConnOfUid.                            *)
(*                                                                         *)
(* A shard's mutex protects connMap only.  The flag `closed`, the context  *)
(* and the channel of a ConnectItem are used after the mutex is released,  *)
(* so every access to them is a step of its own.  A critical section that  *)
(* touches nothing but connMap is one step, enabled when the mutex is free. *)
(***************************************************************************)
EXTENDS Naturals, Sequences, FiniteSets

CONSTANTS Uid,        \* users
          Conn,       \* connections; a reconnecting device is a new one
          Task,       \* broadcasts: calls of SendAllConnOfUid
          Shard,      \* shards of the pool (16 in the code)
          Owner,      \* Owner[c]: the user connection c authenticated as
          Target,     \* Target[t]: the user broadcast t is addressed to
          getShard,   \* getShard[u]: the hash of u modulo ShardCount
          BufCap,     \* capacity of MsgChan (100 in the code)
          MaxFrames,  \* bound: MaxFrames[c] answered frames come from c
          Ready, Reply, \* the ready message; an answer to a frame
          NoConn      \* no connection

ASSUME PoolAssumption ==
  /\ Owner \in [Conn -> Uid]
  /\ Target \in [Task -> Uid]
  /\ getShard \in [Uid -> Shard]
  /\ BufCap \in Nat \ {0}
  /\ MaxFrames \in [Conn -> Nat]
  /\ Ready \notin Task /\ Reply \notin Task /\ Ready # Reply
  /\ NoConn \notin Conn

Msg  == Task \cup {Ready, Reply}
Role == {"reader", "consumer"}

VARIABLES
  mu,        \* mu[s]: the mutex of shard s is held
  users,     \* outer keys of connMap
  subMap,    \* inner maps of connMap: registered connections of a user
  MsgChan,   \* buffered channel of a connection
  closed,    \* ConnectItem.closed
  ctxDone,   \* ConnectItem.Cancel was called
  pc,        \* pc[r][c]: where the goroutine r of connection c is
  hand,      \* message the consumer received and has not written yet
  wire,      \* messages written to the connection, in order
  gone,      \* the peer is gone
  frames,    \* answered frames received from the connection
  tpc,       \* where broadcast t is
  snap,      \* connections of its snapshot it still has to visit
  item,      \* connection it is about to send to
  accepted,  \* connections whose channel took the message (hasOnlineDevice)
  result     \* what SendAllConnOfUid returned

connVars == <<MsgChan, closed, ctxDone, pc, hand, wire, gone, frames>>
taskVars == <<tpc, snap, item, accepted, result>>
mapVars  == <<users, subMap>>
vars     == <<mu, mapVars, connVars, taskVars>>

\* Labels at which a goroutine holds the mutex of its shard.
Critical == {"ready", "adding", "cancel", "mark", "delete"}
Removing == {"cancel", "mark", "delete"}
Label == Critical \cup {"none", "read", "reply", "check", "send", "panic",
                        "select", "write", "rm", "done"}

ShardOf(c) == getShard[Owner[c]]
IsUserOnline(u) == u \in users
Registered(c) == c \in subMap[Owner[c]]
\* A write may fail: the peer is gone, or the reader met an error, on which
\* the websocket library sends its close frame and refuses later writes.
Broken(c) == gone[c] \/ pc["reader"][c] \in {"rm", "done"} \cup Removing

Init ==
  /\ mu = [s \in Shard |-> FALSE]
  /\ users = {}
  /\ subMap = [u \in Uid |-> {}]
  /\ MsgChan = [c \in Conn |-> <<>>]
  /\ closed = [c \in Conn |-> FALSE]
  /\ ctxDone = [c \in Conn |-> FALSE]
  /\ pc = [r \in Role |-> [c \in Conn |-> "none"]]
  /\ hand = [c \in Conn |-> <<>>]
  /\ wire = [c \in Conn |-> <<>>]
  /\ gone = [c \in Conn |-> FALSE]
  /\ frames = [c \in Conn |-> 0]
  /\ tpc = [t \in Task |-> "idle"]
  /\ snap = [t \in Task |-> {}]
  /\ item = [t \in Task |-> NoConn]
  /\ accepted = [t \in Task |-> {}]
  /\ result = [t \in Task |-> "none"]

Goto(r, c, l) == pc' = [pc EXCEPT ![r][c] = l]
Lock(s)   == mu[s] = FALSE /\ mu' = [mu EXCEPT ![s] = TRUE]
Unlock(s) == mu' = [mu EXCEPT ![s] = FALSE]

\* safeSendChan: the message is queued when the buffer has room, else dropped.
HasRoom(c) == Len(MsgChan[c]) < BufCap
Enqueue(c, m) == MsgChan' = [MsgChan EXCEPT ![c] = Append(@, m)]

\* The devices SendAllConnOfUid finds for a user.
Devices(u) == IF u \in users THEN subMap[u] ELSE {}

-----------------------------------------------------------------------------
(* Seeded defects: each replaces the operator it is named after, to show    *)
(* that a property below notices it.  Next uses none of them.              *)

\* The outer key and the inner key swapped.
AddConnRegister_WrongKey(c) ==
  /\ pc["reader"][c] = "adding"
  /\ users' = users \cup {c}
  /\ subMap' = [subMap EXCEPT ![Owner[c]] = @ \cup {c}]
  /\ pc' = [pc EXCEPT !["reader"][c] = "read", !["consumer"][c] = "select"]
  /\ Unlock(ShardOf(c))
  /\ UNCHANGED <<MsgChan, closed, ctxDone, hand, wire, gone, frames, taskVars>>

\* No ready message.
AddConnReady_NoReady(c) ==
  /\ pc["reader"][c] = "ready"
  /\ Goto("reader", c, "adding")
  /\ UNCHANGED <<mu, mapVars, MsgChan, closed, ctxDone, hand, wire, gone, frames, taskVars>>

\* The early return of RemoveConn keeps the mutex.
RemoveConnLock_KeepsLock(r, c) ==
  /\ pc[r][c] = "rm" /\ Lock(ShardOf(c))
  /\ Goto(r, c, IF Registered(c) THEN "cancel" ELSE "done")
  /\ UNCHANGED <<mapVars, MsgChan, closed, ctxDone, hand, wire, gone, frames, taskVars>>

\* The outer key is never deleted.
RemoveConnDelete_KeepsUser(r, c) ==
  /\ pc[r][c] = "delete"
  /\ subMap' = [subMap EXCEPT ![Owner[c]] = @ \ {c}]
  /\ Goto(r, c, "done")
  /\ Unlock(ShardOf(c))
  /\ UNCHANGED <<users, MsgChan, closed, ctxDone, hand, wire, gone, frames, taskVars>>

\* A failed read ends the reader without RemoveConn.
ReadError_NoRemove(c) ==
  /\ pc["reader"][c] = "read"
  /\ Goto("reader", c, "done")
  /\ UNCHANGED <<mu, mapVars, MsgChan, closed, ctxDone, hand, wire, gone, frames, taskVars>>

\* The consumer forgets the message it received.
WriteMessage_Forgets(c) ==
  /\ pc["consumer"][c] = "write"
  /\ hand' = [hand EXCEPT ![c] = <<>>]
  /\ Goto("consumer", c, "select")
  /\ UNCHANGED <<mu, mapVars, MsgChan, closed, ctxDone, wire, gone, frames, taskVars>>

\* The offline branch returns without unlocking.
SendAllSnapshot_KeepsLock(t) ==
  /\ tpc[t] = "idle" /\ ~mu[getShard[Target[t]]]
  /\ snap' = [snap EXCEPT ![t] = Devices(Target[t])]
  /\ IF Devices(Target[t]) = {}
       THEN /\ Lock(getShard[Target[t]])
            /\ tpc' = [tpc EXCEPT ![t] = "done"]
            /\ result' = [result EXCEPT ![t] = "ErrUserOffline"]
       ELSE tpc' = [tpc EXCEPT ![t] = "loop"] /\ UNCHANGED <<mu, result>>
  /\ UNCHANGED <<mapVars, connVars, item, accepted>>

\* The first full device ends the broadcast (the return the code comments out).
SendAllSend_ReturnsOnFull(t) ==
  /\ tpc[t] = "send"
  /\ IF HasRoom(item[t])
       THEN /\ Enqueue(item[t], t)
            /\ accepted' = [accepted EXCEPT ![t] = @ \cup {item[t]}]
            /\ tpc' = [tpc EXCEPT ![t] = "loop"] /\ UNCHANGED result
       ELSE /\ tpc' = [tpc EXCEPT ![t] = "done"]
            /\ result' = [result EXCEPT ![t] = "ErrUserOffline"]
            /\ UNCHANGED <<MsgChan, accepted>>
  /\ item' = [item EXCEPT ![t] = NoConn]
  /\ UNCHANGED <<mu, mapVars, closed, ctxDone, pc, hand, wire, gone, frames, snap>>

\* A full device counts as reached.
SendAllSend_CountsFull(t) ==
  /\ tpc[t] = "send"
  /\ IF HasRoom(item[t]) THEN Enqueue(item[t], t) ELSE UNCHANGED MsgChan
  /\ accepted' = [accepted EXCEPT ![t] = @ \cup {item[t]}]
  /\ tpc' = [tpc EXCEPT ![t] = "loop"]
  /\ item' = [item EXCEPT ![t] = NoConn]
  /\ UNCHANGED <<mu, mapVars, closed, ctxDone, pc, hand, wire, gone, frames, snap, result>>

\* The loop does not move on past a device it has reached.
SendAllCheck_KeepsDevice(t) ==
  /\ tpc[t] = "loop"
  /\ \E c \in snap[t] :
       /\ snap' = [snap EXCEPT ![t] = IF closed[c] THEN @ \ {c} ELSE @]
       /\ IF closed[c]
            THEN UNCHANGED <<tpc, item>>
            ELSE /\ tpc' = [tpc EXCEPT ![t] = "send"]
                 /\ item' = [item EXCEPT ![t] = c]
  /\ UNCHANGED <<mu, mapVars, connVars, accepted, result>>

\* The snapshot ranges over the shard instead of the user's inner map.
SendAllSnapshot_OfShard(t) ==
  LET found == UNION {subMap[u] : u \in {v \in users : getShard[v] = getShard[Target[t]]}}
  IN /\ tpc[t] = "idle" /\ ~mu[getShard[Target[t]]]
     /\ snap' = [snap EXCEPT ![t] = found]
     /\ IF found = {}
          THEN /\ tpc' = [tpc EXCEPT ![t] = "done"]
               /\ result' = [result EXCEPT ![t] = "ErrUserOffline"]
          ELSE tpc' = [tpc EXCEPT ![t] = "loop"] /\ UNCHANGED result
     /\ UNCHANGED <<mu, mapVars, connVars, item, accepted>>

-----------------------------------------------------------------------------
(* The reader goroutine: AddConn, the read loop, SendSingleConn. *)

\* AddConn takes the mutex of the user's shard.
AddConnLock(c) ==
  /\ pc["reader"][c] = "none"
  /\ Lock(ShardOf(c))
  /\ Goto("reader", c, "ready")
  /\ UNCHANGED <<mapVars, MsgChan, closed, ctxDone, hand, wire, gone, frames, taskVars>>

\* The ready message is sent under the mutex and without a default case: on a
\* full channel AddConn would wait here and keep the shard locked.  The channel
\* is new and nobody else knows it, so it has room.
AddConnReady(c) ==
  /\ pc["reader"][c] = "ready"
  /\ HasRoom(c) /\ Enqueue(c, Ready)
  /\ Goto("reader", c, "adding")
  /\ UNCHANGED <<mu, mapVars, closed, ctxDone, hand, wire, gone, frames, taskVars>>

\* AddConn registers the item, starts the consumer and unlocks.
AddConnRegister(c) ==
  /\ pc["reader"][c] = "adding"
  /\ users' = users \cup {Owner[c]}
  /\ subMap' = [subMap EXCEPT ![Owner[c]] = @ \cup {c}]
  /\ pc' = [pc EXCEPT !["reader"][c] = "read", !["consumer"][c] = "select"]
  /\ Unlock(ShardOf(c))
  /\ UNCHANGED <<MsgChan, closed, ctxDone, hand, wire, gone, frames, taskVars>>

\* A frame that is answered to the device: a ping, or an acknowledged request.
ReadFrame(c) ==
  /\ pc["reader"][c] = "read" /\ frames[c] < MaxFrames[c]
  /\ frames' = [frames EXCEPT ![c] = @ + 1]
  /\ Goto("reader", c, "reply")
  /\ UNCHANGED <<mu, mapVars, MsgChan, closed, ctxDone, hand, wire, gone, taskVars>>

\* A chat frame for which CreateMessage dereferences a nil message: the panic
\* leaves the read loop, gin recovers it, and RemoveConn is not called.
ReadFramePanic(c) ==
  /\ pc["reader"][c] = "read" /\ frames[c] < MaxFrames[c]
  /\ frames' = [frames EXCEPT ![c] = @ + 1]
  /\ Goto("reader", c, "panic")
  /\ UNCHANGED <<mu, mapVars, MsgChan, closed, ctxDone, hand, wire, gone, taskVars>>

\* ReadMessage fails: peer gone, read deadline, protocol error, read limit.
ReadError(c) ==
  /\ pc["reader"][c] = "read"
  /\ Goto("reader", c, "rm")
  /\ UNCHANGED <<mu, mapVars, MsgChan, closed, ctxDone, hand, wire, gone, frames, taskVars>>

\* SendSingleConn looks the item up under the mutex.
SingleLookup(c) ==
  /\ pc["reader"][c] = "reply" /\ ~mu[ShardOf(c)]
  /\ Goto("reader", c, IF Owner[c] \in users /\ Registered(c) THEN "check" ELSE "read")
  /\ UNCHANGED <<mu, mapVars, MsgChan, closed, ctxDone, hand, wire, gone, frames, taskVars>>

SingleCheck(c) ==
  /\ pc["reader"][c] = "check"
  /\ Goto("reader", c, IF closed[c] THEN "read" ELSE "send")
  /\ UNCHANGED <<mu, mapVars, MsgChan, closed, ctxDone, hand, wire, gone, frames, taskVars>>

SingleSend(c) ==
  /\ pc["reader"][c] = "send"
  /\ IF HasRoom(c) THEN Enqueue(c, Reply) ELSE UNCHANGED MsgChan
  /\ Goto("reader", c, "read")
  /\ UNCHANGED <<mu, mapVars, closed, ctxDone, hand, wire, gone, frames, taskVars>>

-----------------------------------------------------------------------------
(* RemoveConn, called by the reader and by the consumer of a connection. *)

\* Locks; returns at once when the other goroutine removed the item before.
RemoveConnLock(r, c) ==
  /\ pc[r][c] = "rm" /\ ~mu[ShardOf(c)]
  /\ IF Owner[c] \in users /\ Registered(c)
       THEN Lock(ShardOf(c)) /\ Goto(r, c, "cancel")
       ELSE Goto(r, c, "done") /\ UNCHANGED mu
  /\ UNCHANGED <<mapVars, MsgChan, closed, ctxDone, hand, wire, gone, frames, taskVars>>

RemoveConnCancel(r, c) ==
  /\ pc[r][c] = "cancel"
  /\ ctxDone' = [ctxDone EXCEPT ![c] = TRUE]
  /\ Goto(r, c, "mark")
  /\ UNCHANGED <<mu, mapVars, MsgChan, closed, hand, wire, gone, frames, taskVars>>

RemoveConnMark(r, c) ==
  /\ pc[r][c] = "mark"
  /\ closed' = [closed EXCEPT ![c] = TRUE]
  /\ Goto(r, c, "delete")
  /\ UNCHANGED <<mu, mapVars, MsgChan, ctxDone, hand, wire, gone, frames, taskVars>>

\* Deletes the entry, and the user's key with the last entry; unlocks.
RemoveConnDelete(r, c) ==
  /\ pc[r][c] = "delete"
  /\ subMap' = [subMap EXCEPT ![Owner[c]] = @ \ {c}]
  /\ users' = IF subMap[Owner[c]] = {c} THEN users \ {Owner[c]} ELSE users
  /\ Goto(r, c, "done")
  /\ Unlock(ShardOf(c))
  /\ UNCHANGED <<MsgChan, closed, ctxDone, hand, wire, gone, frames, taskVars>>

-----------------------------------------------------------------------------
(* The consumer goroutine: ConsumeMessage. *)

\* select picks any ready case: a cancelled context and a pending message race.
ConsumeMessageDone(c) ==
  /\ pc["consumer"][c] = "select" /\ ctxDone[c]
  /\ Goto("consumer", c, "done")
  /\ UNCHANGED <<mu, mapVars, MsgChan, closed, ctxDone, hand, wire, gone, frames, taskVars>>

ConsumeMessageTake(c) ==
  /\ pc["consumer"][c] = "select" /\ MsgChan[c] # <<>>
  /\ hand' = [hand EXCEPT ![c] = <<Head(MsgChan[c])>>]
  /\ MsgChan' = [MsgChan EXCEPT ![c] = Tail(@)]
  /\ Goto("consumer", c, "write")
  /\ UNCHANGED <<mu, mapVars, closed, ctxDone, wire, gone, frames, taskVars>>

WriteMessage(c) ==
  /\ pc["consumer"][c] = "write"
  /\ wire' = [wire EXCEPT ![c] = @ \o hand[c]]
  /\ hand' = [hand EXCEPT ![c] = <<>>]
  /\ Goto("consumer", c, "select")
  /\ UNCHANGED <<mu, mapVars, MsgChan, closed, ctxDone, gone, frames, taskVars>>

WriteError(c) ==
  /\ pc["consumer"][c] = "write" /\ Broken(c)
  /\ hand' = [hand EXCEPT ![c] = <<>>]
  /\ Goto("consumer", c, "rm")
  /\ UNCHANGED <<mu, mapVars, MsgChan, closed, ctxDone, wire, gone, frames, taskVars>>

\* The environment: the peer of an upgraded connection goes away.  Once the
\* connection is broken it makes no difference to the program any more.
PeerGone(c) ==
  /\ pc["reader"][c] # "none" /\ ~Broken(c)
  /\ gone' = [gone EXCEPT ![c] = TRUE]
  /\ UNCHANGED <<mu, mapVars, MsgChan, closed, ctxDone, pc, hand, wire, frames, taskVars>>

-----------------------------------------------------------------------------
(* SendAllConnOfUid, run by a push goroutine of a service. *)

\* The snapshot of the user's connections, taken under the mutex.
SendAllSnapshot(t) ==
  /\ tpc[t] = "idle" /\ ~mu[getShard[Target[t]]]
  /\ snap' = [snap EXCEPT ![t] = Devices(Target[t])]
  /\ IF Devices(Target[t]) = {}
       THEN /\ tpc' = [tpc EXCEPT ![t] = "done"]
            /\ result' = [result EXCEPT ![t] = "ErrUserOffline"]
       ELSE /\ tpc' = [tpc EXCEPT ![t] = "loop"]
            /\ UNCHANGED result
  /\ UNCHANGED <<mu, mapVars, connVars, item, accepted>>

\* The loop visits the snapshot in any order and skips a closed item.
SendAllCheck(t) ==
  /\ tpc[t] = "loop"
  /\ \E c \in snap[t] :
       /\ snap' = [snap EXCEPT ![t] = @ \ {c}]
       /\ IF closed[c]
            THEN UNCHANGED <<tpc, item>>
            ELSE /\ tpc' = [tpc EXCEPT ![t] = "send"]
                 /\ item' = [item EXCEPT ![t] = c]
  /\ UNCHANGED <<mu, mapVars, connVars, accepted, result>>

\* A full channel drops the message for this device only.
SendAllSend(t) ==
  /\ tpc[t] = "send"
  /\ IF HasRoom(item[t])
       THEN /\ Enqueue(item[t], t)
            /\ accepted' = [accepted EXCEPT ![t] = @ \cup {item[t]}]
       ELSE UNCHANGED <<MsgChan, accepted>>
  /\ tpc' = [tpc EXCEPT ![t] = "loop"]
  /\ item' = [item EXCEPT ![t] = NoConn]
  /\ UNCHANGED <<mu, mapVars, closed, ctxDone, pc, hand, wire, gone, frames, snap, result>>

SendAllReturn(t) ==
  /\ tpc[t] = "loop" /\ snap[t] = {}
  /\ tpc' = [tpc EXCEPT ![t] = "done"]
  /\ result' = [result EXCEPT ![t] = IF accepted[t] # {} THEN "nil" ELSE "ErrUserOffline"]
  /\ UNCHANGED <<mu, mapVars, connVars, snap, item, accepted>>

-----------------------------------------------------------------------------
Reader(c)   == \/ AddConnLock(c) \/ AddConnReady(c) \/ AddConnRegister(c)
               \/ ReadFrame(c) \/ ReadFramePanic(c) \/ ReadError(c)
               \/ SingleLookup(c) \/ SingleCheck(c) \/ SingleSend(c)
Remove(r, c) == \/ RemoveConnLock(r, c) \/ RemoveConnCancel(r, c)
                \/ RemoveConnMark(r, c) \/ RemoveConnDelete(r, c)
Consumer(c) == \/ ConsumeMessageDone(c) \/ ConsumeMessageTake(c)
               \/ WriteMessage(c) \/ WriteError(c)
SendAll(t)  == \/ SendAllSnapshot(t) \/ SendAllCheck(t)
               \/ SendAllSend(t) \/ SendAllReturn(t)

Next == \/ \E c \in Conn : \/ Reader(c) \/ Consumer(c) \/ PeerGone(c)
                           \/ \E r \in Role : Remove(r, c)
        \/ \E t \in Task : SendAll(t)

(* Fairness.  The Go scheduler runs every runnable goroutine (weak          *)
(* fairness), sync.Mutex hands a starving waiter the lock (strong fairness *)
(* of the lock steps), a write to a socket ends, and a read of a vanished  *)
(* peer fails within the 30 second deadline.  No client has to send, and   *)
(* no connection has to be made.                                           *)
Fairness ==
  /\ \A c \in Conn :
       /\ WF_vars(AddConnReady(c) \/ AddConnRegister(c))
       /\ SF_vars(SingleLookup(c))
       /\ WF_vars(SingleCheck(c) \/ SingleSend(c))
       /\ WF_vars(gone[c] /\ ReadError(c))
       /\ WF_vars(Consumer(c))
       /\ \A r \in Role : /\ SF_vars(RemoveConnLock(r, c))
                          /\ WF_vars(RemoveConnCancel(r, c) \/ RemoveConnMark(r, c)
                                      \/ RemoveConnDelete(r, c))
  /\ \A t \in Task : SF_vars(SendAllSnapshot(t)) /\ WF_vars(SendAll(t))

Spec == Init /\ [][Next]_vars
FairSpec == Spec /\ Fairness

-----------------------------------------------------------------------------
(* Properties. *)

Held(c) == hand[c] \o MsgChan[c]
Carries(q, m) == \E i \in DOMAIN q : q[i] = m

\* Every variable has the type the Go declarations give it.
TypeOK ==
  /\ mu \in [Shard -> BOOLEAN]
  /\ users \subseteq Uid
  /\ subMap \in [Uid -> SUBSET Conn]
  /\ MsgChan \in [Conn -> Seq(Msg)]
  /\ closed \in [Conn -> BOOLEAN] /\ ctxDone \in [Conn -> BOOLEAN]
  /\ pc \in [Role -> [Conn -> Label]]
  /\ hand \in [Conn -> Seq(Msg)] /\ wire \in [Conn -> Seq(Msg)]
  /\ gone \in [Conn -> BOOLEAN]
  /\ frames \in [Conn -> Nat] /\ \A c \in Conn : frames[c] <= MaxFrames[c]
  /\ tpc \in [Task -> {"idle", "loop", "send", "done"}]
  /\ snap \in [Task -> SUBSET Conn]
  /\ item \in [Task -> Conn \cup {NoConn}]
  /\ accepted \in [Task -> SUBSET Conn]
  /\ result \in [Task -> {"none", "nil", "ErrUserOffline"}]

InCritical(r, c) == pc[r][c] \in Critical

Excluded ==
  \A r, q \in Role, c, d \in Conn :
    InCritical(r, c) /\ InCritical(q, d) /\ ShardOf(c) = ShardOf(d)
      => r = q /\ c = d
Guarded ==
  \A s \in Shard :
    mu[s] <=> \E r \in Role, c \in Conn : InCritical(r, c) /\ ShardOf(c) = s

\* At most one goroutine is inside a critical section of a shard, and the
\* mutex is held exactly while one is: no return forgets to unlock.
MutualExclusion == Excluded /\ Guarded

\* While a shard is unlocked, its maps tell the truth: a user has an outer key
\* exactly when a device of his is registered, and a connection that went
\* through AddConn is registered exactly as long as it is neither marked nor
\* cancelled; a registered one has a consumer that still runs.
PoolIsTruthful ==
  \A u \in Uid : ~mu[getShard[u]] =>
    /\ IsUserOnline(u) <=> subMap[u] # {}
    /\ \A c \in Conn : Owner[c] = u /\ pc["reader"][c] # "none" =>
         /\ Registered(c) <=> ~closed[c]
         /\ Registered(c) <=> ~ctxDone[c]
         /\ Registered(c) => pc["consumer"][c] \in {"select", "write", "rm"}

\* A broadcast that reported its user offline reached no device: the caller
\* may act on the error (createMessage gives up the receiver's push on it).
OfflineReachedNobody ==
  \A t \in Task : result[t] = "ErrUserOffline" =>
    \A c \in Conn : ~Carries(wire[c] \o Held(c), t)

\* A broadcast that reported success is on some device's way or lost with a
\* device whose consumer ended: nothing drops a queued message of a live one.
NilIsHeldOrDeviceEnded ==
  \A t \in Task : result[t] = "nil" =>
    \E c \in accepted[t] : \/ Carries(wire[c] \o Held(c), t)
                           \/ pc["consumer"][c] \notin {"select", "write"}

\* What a device is written begins with the ready message, on which a client
\* starts its pulls, and nothing but answers is written twice: neither the race
\* of AddConn with a broadcast nor the visit of a snapshot that is out of date
\* puts a message before it or a second time.
InOrder(s) ==
  /\ s # <<>> => Head(s) = Ready
  /\ \A i, j \in DOMAIN s : s[i] = s[j] => i = j \/ s[i] = Reply
WireIsInOrder == \A c \in Conn : InOrder(wire[c])

\* A broadcast reaches nobody but its target, although users share a shard and
\* connections come and go while it works on its snapshot.
OnlyTargetIsReached ==
  \A t \in Task, c \in Conn : Carries(wire[c] \o Held(c), t) => Owner[c] = Target[t]

\* Each device is a bounded first-in first-out outbox (DeviceOutbox): ready
\* first, order kept, no broadcast twice, nothing written that was not queued.
Serving(c) == pc["consumer"][c] \in {"select", "write"}
Outbox == INSTANCE DeviceOutbox WITH
  Device <- Conn, Broadcast <- Task, Capacity <- BufCap + 1,
  status <- [c \in Conn |-> IF pc["consumer"][c] = "none" THEN "new"
                            ELSE IF Serving(c) THEN "open" ELSE "closed"],
  outbox <- [c \in Conn |-> IF Serving(c) THEN Held(c) ELSE <<>>],
  taken  <- [c \in Conn |-> {t \in Task : c \in accepted[t]}]
ImplementsOutbox == Outbox!Init /\ [][Outbox!Next]_(Outbox!vars)

\* What a device's channel took is written to it, unless the device ends first.
QueuedIsWritten ==
  \A c \in Conn, t \in Task :
    (c \in accepted[t] /\ Serving(c)) ~> (Carries(wire[c], t) \/ ~Serving(c))

\* A connection whose peer is gone is taken out of the pool, unless its reader
\* was lost in a panic.
GoneIsRemoved ==
  \A c \in Conn : (gone[c] /\ Registered(c)) ~> (~Registered(c) \/ pc["reader"][c] = "panic")

\* Every broadcast returns, whatever the devices of its target do.
BroadcastReturns == \A t \in Task : <>(tpc[t] = "done")

-----------------------------------------------------------------------------
(* What the comments promise and the code does not keep. *)

\* socketMain.go:211: success means a device gets the message.
NilIsDelivered ==
  \A t \in Task : (result[t] = "nil") ~> (\E c \in Conn : Carries(wire[c], t))

\* A connection whose peer is gone leaves the pool.
EveryGoneIsRemoved == \A c \in Conn : (gone[c] /\ Registered(c)) ~> ~Registered(c)
=============================================================================

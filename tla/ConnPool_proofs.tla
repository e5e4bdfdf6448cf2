-------------------------- MODULE ConnPool_proofs --------------------------
(***************************************************************************)
(* Proofs about ConnPool for any number of users, connections, broadcasts  *)
(* and shards: type correctness, mutual exclusion in a shard, and that the *)
(* maps of an unlocked shard tell the truth.                               *)
(***************************************************************************)
EXTENDS ConnPool, TLAPS

\* A broadcast about to send has a connection to send to.
SendHasItem == \A t \in Task : tpc[t] = "send" => item[t] \in Conn

TypeInv == TypeOK /\ SendHasItem

\* The labels each of the two goroutines of a connection can be at.
ReaderLabel   == {"none", "ready", "adding", "read", "reply", "check", "send", "panic",
                  "rm", "done"} \cup Removing
ConsumerLabel == {"none", "select", "write", "rm", "done"} \cup Removing

Labels == \A c \in Conn : /\ pc["reader"][c] \in ReaderLabel
                          /\ pc["consumer"][c] \in ConsumerLabel
                          /\ pc["consumer"][c] = "none"
                               <=> pc["reader"][c] \in {"none", "ready", "adding"}

\* Outer keys are the users with a device, inner maps hold their own devices.
MapsAgree == \A u \in Uid : /\ u \in users <=> subMap[u] # {}
                            /\ \A c \in subMap[u] : Owner[c] = u

\* What the flags of a connection say at each point of its life.
NotYetAdded(c) == pc["reader"][c] \in {"none", "ready", "adding"}
                    => ~Registered(c) /\ ~closed[c] /\ ~ctxDone[c]
Removed(c) == pc["reader"][c] \notin {"none", "ready", "adding"} /\ ~Registered(c)
                    => closed[c] /\ ctxDone[c]
Alive(c) == Registered(c) /\ (\A r \in Role : pc[r][c] \notin Removing)
                    => ~closed[c] /\ ~ctxDone[c]
BeingRemoved(c) == \A r \in Role :
                    /\ pc[r][c] \in Removing => Registered(c)
                    /\ pc[r][c] = "cancel" => ~closed[c] /\ ~ctxDone[c]
                    /\ pc[r][c] = "mark" => ~closed[c] /\ ctxDone[c]
                    /\ pc[r][c] = "delete" => closed[c] /\ ctxDone[c]
ConsumerEnded(c) == pc["consumer"][c] = "done" => ctxDone[c]

Life == \A c \in Conn : /\ NotYetAdded(c) /\ Removed(c) /\ Alive(c)
                        /\ BeingRemoved(c) /\ ConsumerEnded(c)

IInv == TypeInv /\ Labels /\ MutualExclusion /\ MapsAgree /\ Life

-----------------------------------------------------------------------------
(* Type correctness. *)

LEMMA TypeInit == Init => TypeInv
<1> SUFFICES ASSUME Init PROVE TypeInv
  OBVIOUS
<1>1. TypeOK
  BY PoolAssumption DEF Init, TypeOK, Label, Critical, Role
<1>2. SendHasItem
  BY DEF Init, SendHasItem
<1> QED
  BY <1>1, <1>2 DEF TypeInv

\* Queueing a message keeps the type of the channels.
LEMMA EnqueueType ==
  ASSUME TypeOK, NEW c \in Conn, NEW m \in Msg, Enqueue(c, m)
  PROVE  MsgChan' \in [Conn -> Seq(Msg)]
BY DEF TypeOK, Enqueue

LEMMA TypeReader ==
  ASSUME TypeInv, NEW c \in Conn, Reader(c)
  PROVE  TypeInv'
<1>0. Ready \in Msg /\ Reply \in Msg
  BY DEF Msg
<1> USE DEF TypeInv, SendHasItem, Goto, Label, Critical, Removing, Role, mapVars, connVars, taskVars
<1>1. CASE AddConnLock(c)
  BY <1>1, PoolAssumption DEF AddConnLock, TypeOK, Lock, ShardOf
<1>2. CASE AddConnRegister(c)
  BY <1>2, PoolAssumption DEF AddConnRegister, TypeOK, Unlock, ShardOf
<1>3. CASE ReadFrame(c)
  <2>1. frames' \in [Conn -> Nat]
    BY <1>3 DEF ReadFrame, TypeOK
  <2>2. \A d \in Conn : frames'[d] <= MaxFrames[d]
    <3>1. frames[c] \in Nat /\ MaxFrames[c] \in Nat /\ frames[c] < MaxFrames[c]
      BY <1>3, PoolAssumption DEF ReadFrame, TypeOK
    <3>2. frames[c] + 1 <= MaxFrames[c]
      BY <3>1
    <3>3. frames' = [frames EXCEPT ![c] = frames[c] + 1]
      BY <1>3 DEF ReadFrame
    <3> QED
      BY <3>2, <3>3 DEF TypeOK
  <2>3. pc' \in [Role -> [Conn -> Label]]
    BY <1>3 DEF ReadFrame, TypeOK
  <2> QED
    BY <1>3, <2>1, <2>2, <2>3 DEF ReadFrame, TypeOK
<1>4. CASE ReadFramePanic(c)
  <2>1. frames' \in [Conn -> Nat]
    BY <1>4 DEF ReadFramePanic, TypeOK
  <2>2. \A d \in Conn : frames'[d] <= MaxFrames[d]
    <3>1. frames[c] \in Nat /\ MaxFrames[c] \in Nat /\ frames[c] < MaxFrames[c]
      BY <1>4, PoolAssumption DEF ReadFramePanic, TypeOK
    <3>2. frames[c] + 1 <= MaxFrames[c]
      BY <3>1
    <3>3. frames' = [frames EXCEPT ![c] = frames[c] + 1]
      BY <1>4 DEF ReadFramePanic
    <3> QED
      BY <3>2, <3>3 DEF TypeOK
  <2>3. pc' \in [Role -> [Conn -> Label]]
    BY <1>4 DEF ReadFramePanic, TypeOK
  <2> QED
    BY <1>4, <2>1, <2>2, <2>3 DEF ReadFramePanic, TypeOK
<1>5. CASE ReadError(c)
  BY <1>5 DEF ReadError, TypeOK
<1>6. CASE SingleLookup(c)
  BY <1>6 DEF SingleLookup, TypeOK
<1>7. CASE SingleCheck(c)
  BY <1>7 DEF SingleCheck, TypeOK
<1>8. CASE SingleSend(c)
  <2>1. MsgChan' \in [Conn -> Seq(Msg)]
    BY <1>0, <1>8, EnqueueType DEF SingleSend, TypeOK
  <2> QED
    BY <1>8, <2>1 DEF SingleSend, TypeOK
<1>9. CASE AddConnReady(c)
  <2>1. MsgChan' \in [Conn -> Seq(Msg)]
    BY <1>0, <1>9, EnqueueType DEF AddConnReady
  <2> QED
    BY <1>9, <2>1 DEF AddConnReady, TypeOK
<1> QED
  BY <1>1, <1>2, <1>3, <1>4, <1>5, <1>6, <1>7, <1>8, <1>9 DEF Reader

LEMMA TypeRemove ==
  ASSUME TypeInv, NEW r \in Role, NEW c \in Conn, Remove(r, c)
  PROVE  TypeInv'
<1> USE DEF TypeInv, TypeOK, SendHasItem, Goto, Label, Critical, Removing, mapVars, connVars, taskVars
<1>1. CASE RemoveConnLock(r, c)
  <2>1. CASE Owner[c] \in users /\ Registered(c)
    <3>1. /\ mu' = [mu EXCEPT ![ShardOf(c)] = TRUE]
          /\ pc' = [pc EXCEPT ![r][c] = "cancel"]
      BY <1>1, <2>1 DEF RemoveConnLock, Lock
    <3> QED
      BY <1>1, <3>1 DEF RemoveConnLock
  <2>2. CASE ~(Owner[c] \in users /\ Registered(c))
    <3>1. mu' = mu /\ pc' = [pc EXCEPT ![r][c] = "done"]
      BY <1>1, <2>2 DEF RemoveConnLock
    <3> QED
      BY <1>1, <3>1 DEF RemoveConnLock
  <2> QED
    BY <2>1, <2>2
<1>2. CASE RemoveConnCancel(r, c)
  BY <1>2 DEF RemoveConnCancel
<1>3. CASE RemoveConnMark(r, c)
  BY <1>3 DEF RemoveConnMark
<1>4. CASE RemoveConnDelete(r, c)
  BY <1>4, PoolAssumption DEF RemoveConnDelete, Unlock, ShardOf
<1> QED
  BY <1>1, <1>2, <1>3, <1>4 DEF Remove

LEMMA TypeConsumer ==
  ASSUME TypeInv, NEW c \in Conn, Consumer(c) \/ PeerGone(c)
  PROVE  TypeInv'
<1> USE DEF TypeInv, TypeOK, SendHasItem, Goto, Label, Critical, Removing, Role, mapVars, connVars, taskVars
<1>1. CASE ConsumeMessageDone(c)
  BY <1>1 DEF ConsumeMessageDone
<1>2. CASE ConsumeMessageTake(c)
  <2>1. MsgChan[c] \in Seq(Msg) /\ MsgChan[c] # <<>>
    BY <1>2 DEF ConsumeMessageTake
  <2>2. Head(MsgChan[c]) \in Msg /\ Tail(MsgChan[c]) \in Seq(Msg)
    BY <2>1
  <2> QED
    BY <1>2, <2>2 DEF ConsumeMessageTake
<1>3. CASE WriteMessage(c)
  <2>1. wire[c] \o hand[c] \in Seq(Msg)
    OBVIOUS
  <2> QED
    BY <1>3, <2>1 DEF WriteMessage
<1>4. CASE WriteError(c)
  BY <1>4 DEF WriteError
<1>5. CASE PeerGone(c)
  BY <1>5 DEF PeerGone
<1> QED
  BY <1>1, <1>2, <1>3, <1>4, <1>5 DEF Consumer

LEMMA TypeSendAll ==
  ASSUME TypeInv, NEW t \in Task, SendAll(t)
  PROVE  TypeInv'
<1> USE DEF TypeInv, SendHasItem, mapVars, connVars
<1>1. CASE SendAllSnapshot(t)
  <2>1. /\ UNCHANGED <<mu, mapVars, connVars, item, accepted>>
        /\ snap' = [snap EXCEPT ![t] = Devices(Target[t])]
        /\ \/ /\ tpc' = [tpc EXCEPT ![t] = "done"]
              /\ result' = [result EXCEPT ![t] = "ErrUserOffline"]
           \/ tpc' = [tpc EXCEPT ![t] = "loop"] /\ result' = result
    BY <1>1 DEF SendAllSnapshot
  <2>2. Devices(Target[t]) \in SUBSET Conn
    BY PoolAssumption DEF Devices, TypeOK
  <2>3. /\ snap' \in [Task -> SUBSET Conn]
        /\ tpc' \in [Task -> {"idle", "loop", "send", "done"}]
        /\ result' \in [Task -> {"none", "nil", "ErrUserOffline"}]
        /\ \A q \in Task : tpc'[q] = "send" => tpc[q] = "send"
    BY <2>1, <2>2 DEF TypeOK
  <2> QED
    BY <2>1, <2>3 DEF TypeOK
<1>2. CASE SendAllCheck(t)
  <2>1. PICK c \in snap[t] :
          /\ snap' = [snap EXCEPT ![t] = @ \ {c}]
          /\ IF closed[c]
               THEN UNCHANGED <<tpc, item>>
               ELSE /\ tpc' = [tpc EXCEPT ![t] = "send"]
                    /\ item' = [item EXCEPT ![t] = c]
    BY <1>2 DEF SendAllCheck
  <2>2. c \in Conn
    BY DEF TypeOK
  <2>3. CASE closed[c]
    BY <1>2, <2>1, <2>3 DEF SendAllCheck, TypeOK
  <2>4. CASE ~closed[c]
    <3>1. /\ snap' = [snap EXCEPT ![t] = @ \ {c}]
          /\ tpc' = [tpc EXCEPT ![t] = "send"]
          /\ item' = [item EXCEPT ![t] = c]
      BY <2>1, <2>4
    <3> QED
      BY <1>2, <2>2, <3>1 DEF SendAllCheck, TypeOK
  <2> QED
    BY <2>3, <2>4
<1>3. CASE SendAllSend(t)
  <2>1. item[t] \in Conn /\ t \in Msg
    BY <1>3 DEF SendAllSend, Msg
  <2>2. MsgChan' \in [Conn -> Seq(Msg)]
    BY <1>3, <2>1, EnqueueType DEF SendAllSend, TypeOK
  <2>3. accepted' \in [Task -> SUBSET Conn]
    <3>1. CASE HasRoom(item[t])
      <4>1. accepted' = [accepted EXCEPT ![t] = @ \cup {item[t]}]
        BY <1>3, <3>1 DEF SendAllSend
      <4> QED
        BY <2>1, <4>1 DEF TypeOK
    <3>2. CASE ~HasRoom(item[t])
      BY <1>3, <3>2 DEF SendAllSend, TypeOK
    <3> QED
      BY <3>1, <3>2
  <2>4. tpc' \in [Task -> {"idle", "loop", "send", "done"}] /\ tpc'[t] = "loop"
    BY <1>3 DEF SendAllSend, TypeOK
  <2> QED
    BY <1>3, <2>1, <2>2, <2>3, <2>4 DEF SendAllSend, TypeOK
<1>4. CASE SendAllReturn(t)
  BY <1>4 DEF SendAllReturn, TypeOK
<1> QED
  BY <1>1, <1>2, <1>3, <1>4 DEF SendAll

LEMMA TypeStep == TypeInv /\ [Next]_vars => TypeInv'
<1> SUFFICES ASSUME TypeInv, [Next]_vars PROVE TypeInv'
  OBVIOUS
<1>1. CASE UNCHANGED vars
  BY <1>1 DEF vars, mapVars, connVars, taskVars, TypeInv, TypeOK, SendHasItem
<1>2. ASSUME NEW c \in Conn, Reader(c) PROVE TypeInv'
  BY <1>2, TypeReader
<1>3. ASSUME NEW c \in Conn, Consumer(c) \/ PeerGone(c) PROVE TypeInv'
  BY <1>3, TypeConsumer
<1>4. ASSUME NEW r \in Role, NEW c \in Conn, Remove(r, c) PROVE TypeInv'
  BY <1>4, TypeRemove
<1>5. ASSUME NEW t \in Task, SendAll(t) PROVE TypeInv'
  BY <1>5, TypeSendAll
<1> QED
  BY <1>1, <1>2, <1>3, <1>4, <1>5 DEF Next

\* The pool's variables keep their types, for every number of users,
\* connections and broadcasts (socketMain.go, connect.go).
THEOREM TypeCorrect == Spec => []TypeOK
<1>1. TypeInv => TypeOK
  BY DEF TypeInv
<1> QED
  BY <1>1, TypeInit, TypeStep, PTL DEF Spec

-----------------------------------------------------------------------------
(* Mutual exclusion and truthful maps. *)

LEMMA SafetyInit == Init => IInv
<1> SUFFICES ASSUME Init PROVE IInv
  OBVIOUS
<1>1. TypeInv
  BY TypeInit
<1>2. Labels /\ MutualExclusion
  BY PoolAssumption DEF Init, Labels, ReaderLabel, ConsumerLabel, MutualExclusion,
     Excluded, Guarded, InCritical, Critical, Role
<1>3. MapsAgree /\ Life
  BY PoolAssumption DEF Init, MapsAgree, Life, NotYetAdded, Removed, Alive,
     BeingRemoved, ConsumerEnded, Registered, Removing, Role
<1> QED
  BY <1>1, <1>2, <1>3 DEF IInv

\* A goroutine that moves between labels outside of the critical sections, and
\* touches neither the maps nor the flags, disturbs nothing.
LEMMA QuietStep ==
  ASSUME IInv, TypeInv', UNCHANGED <<mu, users, subMap, closed, ctxDone>>,
         NEW r \in Role, NEW c \in Conn, NEW l, Goto(r, c, l),
         pc[r][c] \notin Critical \cup {"none"}, l \notin Critical \cup {"none"},
         r = "reader" => l \in ReaderLabel,
         r = "consumer" => l \in ConsumerLabel /\ (l = "done" => ctxDone[c])
  PROVE  IInv'
<1>0. Labels /\ Excluded /\ Guarded /\ MapsAgree /\ Life
  BY DEF IInv, MutualExclusion
<1>1. \A q \in Role, d \in Conn :
        pc'[q][d] = IF q = r /\ d = c THEN l ELSE pc[q][d]
  BY DEF IInv, TypeInv, TypeOK, Goto
<1>2. \A q \in Role, d \in Conn :
        /\ InCritical(q, d)' <=> InCritical(q, d)
        /\ pc'[q][d] \in Critical \/ pc[q][d] \in Critical => pc'[q][d] = pc[q][d]
  BY <1>1 DEF InCritical
<1>3. Labels'
  BY <1>0, <1>1 DEF Labels, Critical, Role
<1>4. MutualExclusion'
  <2>1. Excluded'
    BY <1>0, <1>2 DEF Excluded, InCritical, ShardOf
  <2>2. Guarded'
    BY <1>0, <1>2 DEF Guarded, InCritical, ShardOf
  <2> QED
    BY <2>1, <2>2 DEF MutualExclusion
<1>5. MapsAgree'
  BY <1>0 DEF MapsAgree
<1>6. Life'
  <2> SUFFICES ASSUME NEW d \in Conn
               PROVE  (NotYetAdded(d) /\ Removed(d) /\ Alive(d) /\ BeingRemoved(d) /\ ConsumerEnded(d))'
    BY DEF Life
  <2>1. NotYetAdded(d) /\ Removed(d) /\ Alive(d) /\ BeingRemoved(d) /\ ConsumerEnded(d)
    BY <1>0 DEF Life
  <2>2. Registered(d)' <=> Registered(d)
    BY DEF Registered
  <2>3. NotYetAdded(d)' /\ Removed(d)'
    BY <1>0, <1>1, <2>1, <2>2 DEF NotYetAdded, Removed, Critical, Role, Labels
  <2>4. Alive(d)' /\ BeingRemoved(d)'
    BY <1>2, <2>1, <2>2 DEF Alive, BeingRemoved, Critical, Removing
  <2>5. ConsumerEnded(d)'
    BY <1>1, <2>1 DEF ConsumerEnded, Role
  <2> QED
    BY <2>3, <2>4, <2>5
<1> QED
  BY <1>3, <1>4, <1>5, <1>6 DEF IInv

\* Taking the mutex of a shard, and giving it back.
LEMMA EnterStep ==
  ASSUME Excluded, Guarded, mu \in [Shard -> BOOLEAN], NEW r \in Role, NEW c \in Conn,
         Lock(ShardOf(c)),
         \A q \in Role, d \in Conn : InCritical(q, d)' <=> InCritical(q, d) \/ (q = r /\ d = c)
  PROVE  MutualExclusion'
<1>1. ShardOf(c) \in Shard
  BY PoolAssumption DEF ShardOf
<1>2. \A q \in Role, d \in Conn : InCritical(q, d) => ShardOf(d) # ShardOf(c)
  BY <1>1 DEF Guarded, Lock
<1>3. Excluded'
  BY <1>2 DEF Excluded, InCritical, ShardOf
<1>4. \A s \in Shard : mu'[s] <=> mu[s] \/ s = ShardOf(c)
  BY <1>1 DEF Lock
<1>5. Guarded'
  BY <1>1, <1>4 DEF Guarded, InCritical, ShardOf
<1> QED
  BY <1>3, <1>5 DEF MutualExclusion

LEMMA LeaveStep ==
  ASSUME Excluded, Guarded, mu \in [Shard -> BOOLEAN], NEW r \in Role, NEW c \in Conn,
         InCritical(r, c), Unlock(ShardOf(c)),
         \A q \in Role, d \in Conn : InCritical(q, d)' <=> InCritical(q, d) /\ ~(q = r /\ d = c)
  PROVE  MutualExclusion'
<1>1. ShardOf(c) \in Shard
  BY PoolAssumption DEF ShardOf
<1>2. \A q \in Role, d \in Conn : InCritical(q, d)' => ShardOf(d) # ShardOf(c)
  BY DEF Excluded, InCritical, ShardOf
<1>3. Excluded'
  BY DEF Excluded, InCritical, ShardOf
<1>4. \A s \in Shard : mu'[s] <=> mu[s] /\ s # ShardOf(c)
  BY <1>1 DEF Unlock
<1>5. Guarded'
  BY <1>1, <1>2, <1>4 DEF Guarded, InCritical, ShardOf
<1> QED
  BY <1>3, <1>5 DEF MutualExclusion

LEMMA AddConnLockSafe ==
  ASSUME IInv, TypeInv', NEW c \in Conn, AddConnLock(c)
  PROVE  IInv'
<1>0. Labels /\ Excluded /\ Guarded /\ MapsAgree /\ Life
  BY DEF IInv, MutualExclusion
<1>1. \A q \in Role, d \in Conn :
        pc'[q][d] = IF q = "reader" /\ d = c THEN "ready" ELSE pc[q][d]
  BY DEF IInv, TypeInv, TypeOK, Goto, AddConnLock, Role
<1>2. /\ pc["reader"][c] = "none" /\ Lock(ShardOf(c))
      /\ UNCHANGED <<users, subMap, closed, ctxDone>>
  BY DEF AddConnLock, mapVars
<1>3. Labels'
  BY <1>0, <1>1, <1>2 DEF Labels, Role, ReaderLabel
<1>4. MutualExclusion'
  <2>1. \A q \in Role, d \in Conn :
          InCritical(q, d)' <=> InCritical(q, d) \/ (q = "reader" /\ d = c)
    BY <1>1, <1>2 DEF InCritical, Critical
  <2>2. mu \in [Shard -> BOOLEAN] /\ "reader" \in Role
    BY DEF IInv, TypeInv, TypeOK, Role
  <2> QED
    BY <1>0, <1>2, <2>1, <2>2, EnterStep
<1>5. MapsAgree'
  BY <1>0, <1>2 DEF MapsAgree
<1>6. Life'
  <2> SUFFICES ASSUME NEW d \in Conn
               PROVE  (NotYetAdded(d) /\ Removed(d) /\ Alive(d) /\ BeingRemoved(d) /\ ConsumerEnded(d))'
    BY DEF Life
  <2>1. NotYetAdded(d) /\ Removed(d) /\ Alive(d) /\ BeingRemoved(d) /\ ConsumerEnded(d)
    BY <1>0 DEF Life
  <2>2. Registered(d)' <=> Registered(d)
    BY <1>2 DEF Registered
  <2>3. NotYetAdded(d)' /\ Removed(d)' /\ ConsumerEnded(d)'
    BY <1>1, <1>2, <2>1, <2>2 DEF NotYetAdded, Removed, ConsumerEnded, Role
  <2>4. Alive(d)' /\ BeingRemoved(d)'
    BY <1>1, <1>2, <2>1, <2>2 DEF Alive, BeingRemoved, Removing
  <2> QED
    BY <2>3, <2>4
<1> QED
  BY <1>3, <1>4, <1>5, <1>6 DEF IInv

\* AddConn stays inside the critical section and touches neither map nor flag.
LEMMA AddConnReadySafe ==
  ASSUME IInv, TypeInv', NEW c \in Conn, AddConnReady(c)
  PROVE  IInv'
<1>0. Labels /\ MutualExclusion /\ MapsAgree /\ Life
  BY DEF IInv
<1>1. \A q \in Role, d \in Conn :
        pc'[q][d] = IF q = "reader" /\ d = c THEN "adding" ELSE pc[q][d]
  BY DEF IInv, TypeInv, TypeOK, Goto, AddConnReady, Role
<1>2. pc["reader"][c] = "ready" /\ UNCHANGED <<mu, users, subMap, closed, ctxDone>>
  BY DEF AddConnReady, mapVars
<1>3. Labels'
  BY <1>0, <1>1, <1>2 DEF Labels, Role, ReaderLabel
<1>4. MutualExclusion'
  <2>1. \A q \in Role, d \in Conn : InCritical(q, d)' <=> InCritical(q, d)
    BY <1>1, <1>2 DEF InCritical, Critical
  <2> QED
    BY <1>0, <1>2, <2>1 DEF MutualExclusion, Excluded, Guarded, ShardOf
<1>5. MapsAgree'
  BY <1>0, <1>2 DEF MapsAgree
<1>6. Life'
  <2> SUFFICES ASSUME NEW d \in Conn
               PROVE  (NotYetAdded(d) /\ Removed(d) /\ Alive(d) /\ BeingRemoved(d) /\ ConsumerEnded(d))'
    BY DEF Life
  <2>1. NotYetAdded(d) /\ Removed(d) /\ Alive(d) /\ BeingRemoved(d) /\ ConsumerEnded(d)
    BY <1>0 DEF Life
  <2>2. Registered(d)' <=> Registered(d)
    BY <1>2 DEF Registered
  <2>3. NotYetAdded(d)' /\ Removed(d)' /\ ConsumerEnded(d)'
    BY <1>1, <1>2, <2>1, <2>2 DEF NotYetAdded, Removed, ConsumerEnded, Role
  <2>4. Alive(d)' /\ BeingRemoved(d)'
    BY <1>1, <1>2, <2>1, <2>2 DEF Alive, BeingRemoved, Removing
  <2> QED
    BY <2>3, <2>4
<1> QED
  BY <1>3, <1>4, <1>5, <1>6 DEF IInv

LEMMA AddConnRegisterSafe ==
  ASSUME IInv, TypeInv', NEW c \in Conn, AddConnRegister(c)
  PROVE  IInv'
<1>0. Labels /\ Excluded /\ Guarded /\ MapsAgree /\ Life
  BY DEF IInv, MutualExclusion
<1>1. \A q \in Role, d \in Conn :
        pc'[q][d] = IF d = c THEN (IF q = "reader" THEN "read" ELSE "select") ELSE pc[q][d]
  BY DEF IInv, TypeInv, TypeOK, AddConnRegister, Role
<1>2. /\ pc["reader"][c] = "adding" /\ pc["consumer"][c] = "none"
      /\ Unlock(ShardOf(c)) /\ UNCHANGED <<closed, ctxDone>>
  BY <1>0 DEF AddConnRegister, Labels
<1>3. Labels'
  BY <1>0, <1>1, <1>2 DEF Labels, Role, ReaderLabel, ConsumerLabel
<1>4. MutualExclusion'
  <2>1. \A q \in Role, d \in Conn :
          InCritical(q, d)' <=> InCritical(q, d) /\ ~(q = "reader" /\ d = c)
    BY <1>1, <1>2 DEF InCritical, Critical, Role
  <2>2. mu \in [Shard -> BOOLEAN] /\ "reader" \in Role /\ InCritical("reader", c)
    BY <1>2 DEF IInv, TypeInv, TypeOK, Role, InCritical, Critical
  <2> QED
    BY <1>0, <1>2, <2>1, <2>2, LeaveStep
<1>5. /\ Owner[c] \in Uid
      /\ \A u \in Uid : subMap'[u] = IF u = Owner[c] THEN subMap[u] \cup {c} ELSE subMap[u]
      /\ \A u \in Uid : u \in users' <=> u \in users \/ u = Owner[c]
  BY PoolAssumption DEF AddConnRegister, IInv, TypeInv, TypeOK
<1>6. MapsAgree'
  <2> SUFFICES ASSUME NEW u \in Uid
               PROVE  /\ u \in users' <=> subMap'[u] # {}
                      /\ \A d \in subMap'[u] : Owner[d] = u
    BY DEF MapsAgree
  <2>1. CASE u = Owner[c]
    <3>1. c \in subMap'[u] /\ u \in users'
      BY <1>5, <2>1
    <3>2. \A d \in subMap[u] \cup {c} : Owner[d] = u
      BY <1>0, <2>1 DEF MapsAgree
    <3>3. subMap'[u] = subMap[u] \cup {c}
      BY <1>5, <2>1
    <3> QED
      BY <3>1, <3>2, <3>3
  <2>2. CASE u # Owner[c]
    BY <1>0, <1>5, <2>2 DEF MapsAgree
  <2> QED
    BY <2>1, <2>2
<1>7. Life'
  <2> SUFFICES ASSUME NEW d \in Conn
               PROVE  (NotYetAdded(d) /\ Removed(d) /\ Alive(d) /\ BeingRemoved(d) /\ ConsumerEnded(d))'
    BY DEF Life
  <2>1. NotYetAdded(d) /\ Removed(d) /\ Alive(d) /\ BeingRemoved(d) /\ ConsumerEnded(d)
    BY <1>0 DEF Life
  <2>2. Registered(d)' <=> Registered(d) \/ d = c
    BY <1>5, PoolAssumption DEF Registered
  <2>3. NotYetAdded(d)' /\ Removed(d)' /\ ConsumerEnded(d)'
    BY <1>1, <1>2, <2>1, <2>2 DEF NotYetAdded, Removed, ConsumerEnded, Role
  <2>4. Alive(d)' /\ BeingRemoved(d)'
    <3>1. CASE d = c
      BY <1>1, <1>2, <2>1, <2>2, <3>1 DEF Alive, BeingRemoved, Removing, NotYetAdded, Role
    <3>2. CASE d # c
      BY <1>1, <1>2, <2>1, <2>2, <3>2 DEF Alive, BeingRemoved, Removing
    <3> QED
      BY <3>1, <3>2
  <2> QED
    BY <2>3, <2>4
<1> QED
  BY <1>3, <1>4, <1>6, <1>7 DEF IInv

LEMMA RemoveConnLockSafe ==
  ASSUME IInv, TypeInv', NEW r \in Role, NEW c \in Conn, RemoveConnLock(r, c)
  PROVE  IInv'
<1>0. Labels /\ Excluded /\ Guarded /\ MapsAgree /\ Life
  BY DEF IInv, MutualExclusion
<1>1. /\ pc[r][c] = "rm" /\ UNCHANGED <<users, subMap, closed, ctxDone>>
      /\ Owner[c] \in Uid
  BY PoolAssumption DEF RemoveConnLock, mapVars
<1>2. Registered(c) => Owner[c] \in users
  BY <1>0, <1>1 DEF MapsAgree, Registered
<1>3. pc["reader"][c] \notin {"none", "ready", "adding"}
  BY <1>0, <1>1 DEF Labels, Role
<1>4. CASE ~Registered(c)
  <2>1. Goto(r, c, "done") /\ UNCHANGED mu
    BY <1>4 DEF RemoveConnLock
  <2>2. ctxDone[c]
    BY <1>0, <1>3, <1>4 DEF Life, Removed
  <2> QED
    BY <1>1, <2>1, <2>2, QuietStep DEF ReaderLabel, ConsumerLabel, Critical
<1>5. CASE Registered(c)
  <2>1. Lock(ShardOf(c)) /\ Goto(r, c, "cancel")
    BY <1>2, <1>5 DEF RemoveConnLock
  <2>2. \A q \in Role, d \in Conn :
          pc'[q][d] = IF q = r /\ d = c THEN "cancel" ELSE pc[q][d]
    BY <2>1 DEF IInv, TypeInv, TypeOK, Goto
  <2>3. Labels'
    BY <1>0, <1>1, <2>2 DEF Labels, Role, ReaderLabel, ConsumerLabel, Removing
  <2>4. MutualExclusion'
    <3>1. \A q \in Role, d \in Conn :
            InCritical(q, d)' <=> InCritical(q, d) \/ (q = r /\ d = c)
      BY <1>1, <2>2 DEF InCritical, Critical
    <3>2. mu \in [Shard -> BOOLEAN]
      BY DEF IInv, TypeInv, TypeOK
    <3> QED
      BY <1>0, <2>1, <3>1, <3>2, EnterStep
  <2>5. MapsAgree'
    BY <1>0, <1>1 DEF MapsAgree
  <2>6. \A q \in Role : pc[q][c] \notin Removing
    <3>1. mu[ShardOf(c)] = FALSE /\ ShardOf(c) \in Shard
      BY <2>1, PoolAssumption DEF Lock, ShardOf
    <3> QED
      BY <1>0, <3>1 DEF Guarded, InCritical, Critical, Removing
  <2>7. Life'
    <3> SUFFICES ASSUME NEW d \in Conn
                 PROVE  (NotYetAdded(d) /\ Removed(d) /\ Alive(d) /\ BeingRemoved(d) /\ ConsumerEnded(d))'
      BY DEF Life
    <3>1. NotYetAdded(d) /\ Removed(d) /\ Alive(d) /\ BeingRemoved(d) /\ ConsumerEnded(d)
      BY <1>0 DEF Life
    <3>2. Registered(d)' <=> Registered(d)
      BY <1>1 DEF Registered
    <3>3. NotYetAdded(d)' /\ Removed(d)' /\ ConsumerEnded(d)'
      BY <1>1, <1>3, <2>2, <3>1, <3>2 DEF NotYetAdded, Removed, ConsumerEnded, Role
    <3>4. Alive(d)' /\ BeingRemoved(d)'
      <4>1. CASE d = c
        BY <1>1, <1>5, <2>2, <2>6, <3>1, <3>2, <4>1 DEF Alive, BeingRemoved, Removing
      <4>2. CASE d # c
        BY <1>1, <2>2, <3>1, <3>2, <4>2 DEF Alive, BeingRemoved, Removing
      <4> QED
        BY <4>1, <4>2
    <3> QED
      BY <3>3, <3>4
  <2> QED
    BY <2>3, <2>4, <2>5, <2>7 DEF IInv
<1> QED
  BY <1>4, <1>5

\* The two steps of a removal under the mutex, before the entry is deleted.
LEMMA RemoveConnInside ==
  ASSUME IInv, TypeInv', NEW r \in Role, NEW c \in Conn,
         RemoveConnCancel(r, c) \/ RemoveConnMark(r, c)
  PROVE  IInv'
<1>0. Labels /\ Excluded /\ Guarded /\ MapsAgree /\ Life
  BY DEF IInv, MutualExclusion
<1> DEFINE l == IF pc[r][c] = "cancel" THEN "mark" ELSE "delete"
<1>1. pc[r][c] \in {"cancel", "mark"} /\ UNCHANGED <<mu, users, subMap>>
  BY DEF RemoveConnCancel, RemoveConnMark, mapVars
<1>2. \A q \in Role, d \in Conn : pc'[q][d] = IF q = r /\ d = c THEN l ELSE pc[q][d]
  BY DEF IInv, TypeInv, TypeOK, Goto, RemoveConnCancel, RemoveConnMark
<1>3. Labels'
  BY <1>0, <1>1, <1>2 DEF Labels, Role, ReaderLabel, ConsumerLabel, Removing
<1>4. MutualExclusion'
  <2>1. \A q \in Role, d \in Conn : InCritical(q, d)' <=> InCritical(q, d)
    BY <1>1, <1>2 DEF InCritical, Critical
  <2>2. Excluded'
    BY <1>0, <2>1 DEF Excluded, InCritical, ShardOf
  <2>3. Guarded'
    BY <1>0, <1>1, <2>1 DEF Guarded, InCritical, ShardOf
  <2> QED
    BY <2>2, <2>3 DEF MutualExclusion
<1>5. MapsAgree'
  BY <1>0, <1>1 DEF MapsAgree
<1>6. \A q \in Role : q # r => pc[q][c] \notin Removing
  BY <1>0, <1>1 DEF Excluded, InCritical, Critical, Removing
<1>7. \A d \in Conn : /\ ctxDone'[d] <=> ctxDone[d] \/ (d = c /\ l = "mark")
                      /\ closed'[d] <=> closed[d] \/ (d = c /\ l = "delete")
  BY <1>1 DEF IInv, TypeInv, TypeOK, RemoveConnCancel, RemoveConnMark
<1>8. Life'
  <2> SUFFICES ASSUME NEW d \in Conn
               PROVE  (NotYetAdded(d) /\ Removed(d) /\ Alive(d) /\ BeingRemoved(d) /\ ConsumerEnded(d))'
    BY DEF Life
  <2>1. NotYetAdded(d) /\ Removed(d) /\ Alive(d) /\ BeingRemoved(d) /\ ConsumerEnded(d)
    BY <1>0 DEF Life
  <2>2. Registered(d)' <=> Registered(d)
    BY <1>1 DEF Registered
  <2>3. pc["reader"][c] \notin {"none", "ready", "adding"}
    BY <1>0, <1>1 DEF Labels, Role
  <2>4. NotYetAdded(d)' /\ Removed(d)' /\ ConsumerEnded(d)'
    BY <1>1, <1>2, <1>7, <2>1, <2>2, <2>3 DEF NotYetAdded, Removed, ConsumerEnded, Role
  <2>5. Alive(d)' /\ BeingRemoved(d)'
    <3>1. CASE d = c
      BY <1>1, <1>2, <1>6, <1>7, <2>1, <2>2, <3>1 DEF Alive, BeingRemoved, Removing
    <3>2. CASE d # c
      BY <1>1, <1>2, <1>7, <2>1, <2>2, <3>2 DEF Alive, BeingRemoved, Removing
    <3> QED
      BY <3>1, <3>2
  <2> QED
    BY <2>4, <2>5
<1> QED
  BY <1>3, <1>4, <1>5, <1>8 DEF IInv

LEMMA RemoveConnDeleteSafe ==
  ASSUME IInv, TypeInv', NEW r \in Role, NEW c \in Conn, RemoveConnDelete(r, c)
  PROVE  IInv'
<1>0. Labels /\ Excluded /\ Guarded /\ MapsAgree /\ Life
  BY DEF IInv, MutualExclusion
<1>1. pc[r][c] = "delete" /\ Unlock(ShardOf(c)) /\ UNCHANGED <<closed, ctxDone>>
  BY DEF RemoveConnDelete
<1>2. \A q \in Role, d \in Conn : pc'[q][d] = IF q = r /\ d = c THEN "done" ELSE pc[q][d]
  BY DEF IInv, TypeInv, TypeOK, Goto, RemoveConnDelete
<1>3. Labels'
  BY <1>0, <1>1, <1>2 DEF Labels, Role, ReaderLabel, ConsumerLabel, Removing
<1>4. MutualExclusion'
  <2>1. \A q \in Role, d \in Conn :
          InCritical(q, d)' <=> InCritical(q, d) /\ ~(q = r /\ d = c)
    BY <1>1, <1>2 DEF InCritical, Critical
  <2>2. mu \in [Shard -> BOOLEAN] /\ InCritical(r, c)
    BY <1>1 DEF IInv, TypeInv, TypeOK, InCritical, Critical
  <2> QED
    BY <1>0, <1>1, <2>1, <2>2, LeaveStep
<1>5. closed[c] /\ ctxDone[c] /\ Registered(c)
  BY <1>0, <1>1 DEF Life, BeingRemoved, Removing
<1>6. /\ Owner[c] \in Uid
      /\ \A u \in Uid : subMap'[u] = IF u = Owner[c] THEN subMap[u] \ {c} ELSE subMap[u]
      /\ users' = IF subMap[Owner[c]] = {c} THEN users \ {Owner[c]} ELSE users
  BY PoolAssumption DEF RemoveConnDelete, IInv, TypeInv, TypeOK
<1>7. MapsAgree'
  <2> SUFFICES ASSUME NEW u \in Uid
               PROVE  /\ u \in users' <=> subMap'[u] # {}
                      /\ \A d \in subMap'[u] : Owner[d] = u
    BY DEF MapsAgree
  <2>1. CASE u = Owner[c]
    <3>1. subMap'[u] = subMap[u] \ {c} /\ c \in subMap[u]
      BY <1>5, <1>6, <2>1 DEF Registered
    <3>2. u \in users /\ \A d \in subMap[u] : Owner[d] = u
      BY <1>0, <1>6, <2>1, <3>1 DEF MapsAgree
    <3>3. u \in users' <=> subMap[u] # {c}
      BY <1>6, <2>1, <3>2
    <3>4. subMap'[u] # {} <=> subMap[u] # {c}
      BY <3>1
    <3> QED
      BY <3>1, <3>2, <3>3, <3>4
  <2>2. CASE u # Owner[c]
    BY <1>0, <1>6, <2>2 DEF MapsAgree
  <2> QED
    BY <2>1, <2>2
<1>8. \A q \in Role : q # r => pc[q][c] \notin Removing
  BY <1>0, <1>1 DEF Excluded, InCritical, Critical, Removing
<1>9. Life'
  <2> SUFFICES ASSUME NEW d \in Conn
               PROVE  (NotYetAdded(d) /\ Removed(d) /\ Alive(d) /\ BeingRemoved(d) /\ ConsumerEnded(d))'
    BY DEF Life
  <2>1. NotYetAdded(d) /\ Removed(d) /\ Alive(d) /\ BeingRemoved(d) /\ ConsumerEnded(d)
    BY <1>0 DEF Life
  <2>2. Registered(d)' <=> Registered(d) /\ d # c
    BY <1>6, PoolAssumption DEF Registered
  <2>3. NotYetAdded(d)' /\ Removed(d)' /\ ConsumerEnded(d)'
    BY <1>1, <1>2, <1>5, <2>1, <2>2 DEF NotYetAdded, Removed, ConsumerEnded, Role
  <2>4. Alive(d)' /\ BeingRemoved(d)'
    <3>1. CASE d = c
      BY <1>2, <1>8, <2>2, <3>1 DEF Alive, BeingRemoved, Removing
    <3>2. CASE d # c
      BY <1>1, <1>2, <2>1, <2>2, <3>2 DEF Alive, BeingRemoved, Removing
    <3> QED
      BY <3>1, <3>2
  <2> QED
    BY <2>3, <2>4
<1> QED
  BY <1>3, <1>4, <1>7, <1>9 DEF IInv

\* A step that leaves the maps, the flags and every program counter alone.
LEMMA IdleStep ==
  ASSUME IInv, TypeInv', UNCHANGED <<mu, users, subMap, closed, ctxDone, pc>>
  PROVE  IInv'
<1>1. Labels' /\ MapsAgree'
  BY DEF IInv, Labels, MapsAgree
<1>2. MutualExclusion'
  BY DEF IInv, MutualExclusion, Excluded, Guarded, InCritical, ShardOf
<1>3. Life'
  BY DEF IInv, Life, NotYetAdded, Removed, Alive, BeingRemoved, ConsumerEnded, Registered
<1> QED
  BY <1>1, <1>2, <1>3 DEF IInv

LEMMA SafetyReader ==
  ASSUME IInv, TypeInv', NEW c \in Conn, Reader(c)
  PROVE  IInv'
<1> USE DEF Critical, ReaderLabel, mapVars
<1>0. "reader" \in Role
  BY DEF Role
<1>1. CASE AddConnLock(c)
  BY <1>1, AddConnLockSafe
<1>2. CASE AddConnRegister(c)
  BY <1>2, AddConnRegisterSafe
<1>3. CASE ReadFrame(c)
  BY <1>0, <1>3, QuietStep DEF ReadFrame
<1>4. CASE ReadFramePanic(c)
  BY <1>0, <1>4, QuietStep DEF ReadFramePanic
<1>5. CASE ReadError(c)
  BY <1>0, <1>5, QuietStep DEF ReadError
<1>6. CASE SingleLookup(c)
  <2>1. Goto("reader", c, "check") \/ Goto("reader", c, "read")
    BY <1>6 DEF SingleLookup
  <2> QED
    BY <1>0, <1>6, <2>1, QuietStep DEF SingleLookup
<1>7. CASE SingleCheck(c)
  <2>1. Goto("reader", c, "send") \/ Goto("reader", c, "read")
    BY <1>7 DEF SingleCheck
  <2> QED
    BY <1>0, <1>7, <2>1, QuietStep DEF SingleCheck
<1>8. CASE SingleSend(c)
  BY <1>0, <1>8, QuietStep DEF SingleSend
<1>9. CASE AddConnReady(c)
  BY <1>9, AddConnReadySafe
<1> QED
  BY <1>1, <1>2, <1>3, <1>4, <1>5, <1>6, <1>7, <1>8, <1>9 DEF Reader

LEMMA SafetyConsumer ==
  ASSUME IInv, TypeInv', NEW c \in Conn, Consumer(c)
  PROVE  IInv'
<1> USE DEF Critical, ConsumerLabel, mapVars
<1>0. "consumer" \in Role
  BY DEF Role
<1>1. CASE ConsumeMessageDone(c)
  BY <1>0, <1>1, QuietStep DEF ConsumeMessageDone
<1>2. CASE ConsumeMessageTake(c)
  BY <1>0, <1>2, QuietStep DEF ConsumeMessageTake
<1>3. CASE WriteMessage(c)
  BY <1>0, <1>3, QuietStep DEF WriteMessage
<1>4. CASE WriteError(c)
  BY <1>0, <1>4, QuietStep DEF WriteError
<1> QED
  BY <1>1, <1>2, <1>3, <1>4 DEF Consumer

LEMMA SafetyStep == IInv /\ [Next]_vars => IInv'
<1> SUFFICES ASSUME IInv, [Next]_vars PROVE IInv'
  OBVIOUS
<1>0. TypeInv'
  BY TypeStep DEF IInv
<1>1. CASE UNCHANGED vars
  BY <1>0, <1>1, IdleStep DEF vars, mapVars, connVars
<1>2. ASSUME NEW c \in Conn, Reader(c) PROVE IInv'
  BY <1>0, <1>2, SafetyReader
<1>3. ASSUME NEW c \in Conn, Consumer(c) PROVE IInv'
  BY <1>0, <1>3, SafetyConsumer
<1>4. ASSUME NEW c \in Conn, PeerGone(c) PROVE IInv'
  BY <1>0, <1>4, IdleStep DEF PeerGone, mapVars
<1>5. ASSUME NEW r \in Role, NEW c \in Conn, Remove(r, c) PROVE IInv'
  BY <1>0, <1>5, RemoveConnLockSafe, RemoveConnInside, RemoveConnDeleteSafe DEF Remove
<1>6. ASSUME NEW t \in Task, SendAll(t) PROVE IInv'
  <2>1. UNCHANGED <<mu, users, subMap, closed, ctxDone, pc>>
    BY <1>6 DEF SendAll, SendAllSnapshot, SendAllCheck, SendAllSend, SendAllReturn,
       mapVars, connVars
  <2> QED
    BY <1>0, <2>1, IdleStep
<1> QED
  BY <1>1, <1>2, <1>3, <1>4, <1>5, <1>6 DEF Next

\* No two goroutines are ever inside the critical sections of one shard, and
\* the mutex is held exactly while one is (AddConn, RemoveConn).
THEOREM MutexHolds == Spec => []MutualExclusion
<1>1. IInv => MutualExclusion
  BY DEF IInv
<1> QED
  BY <1>1, SafetyInit, SafetyStep, PTL DEF Spec

\* What an unlocked shard's maps say of a user and of his devices is true:
\* online exactly with a device, registered exactly while usable and served.
THEOREM PoolStaysTruthful == Spec => []PoolIsTruthful
<1>1. IInv => PoolIsTruthful
  <2> SUFFICES ASSUME IInv, NEW u \in Uid, ~mu[getShard[u]]
               PROVE  /\ IsUserOnline(u) <=> subMap[u] # {}
                      /\ \A c \in Conn : Owner[c] = u /\ pc["reader"][c] # "none" =>
                           /\ Registered(c) <=> ~closed[c]
                           /\ Registered(c) <=> ~ctxDone[c]
                           /\ Registered(c) => pc["consumer"][c] \in {"select", "write", "rm"}
    BY DEF PoolIsTruthful
  <2>1. IsUserOnline(u) <=> subMap[u] # {}
    BY DEF IInv, MapsAgree, IsUserOnline
  <2>2. ASSUME NEW c \in Conn, Owner[c] = u, pc["reader"][c] # "none"
        PROVE  /\ Registered(c) <=> ~closed[c]
               /\ Registered(c) <=> ~ctxDone[c]
               /\ Registered(c) => pc["consumer"][c] \in {"select", "write", "rm"}
    <3>1. ShardOf(c) \in Shard /\ ~mu[ShardOf(c)]
      BY <2>2, PoolAssumption DEF ShardOf
    <3>2. \A r \in Role : pc[r][c] \notin Critical
      BY <3>1 DEF IInv, MutualExclusion, Guarded, InCritical
    <3>3. pc["reader"][c] \notin {"none", "ready", "adding"} /\ pc["consumer"][c] # "none"
      BY <2>2, <3>2 DEF IInv, Labels, Critical, Role
    <3>4. Registered(c) => ~closed[c] /\ ~ctxDone[c]
      BY <3>2 DEF IInv, Life, Alive, Critical, Removing
    <3>5. ~Registered(c) => closed[c] /\ ctxDone[c]
      BY <3>3 DEF IInv, Life, Removed
    <3>6. Registered(c) => pc["consumer"][c] \in {"select", "write", "rm"}
      BY <3>2, <3>3, <3>4 DEF IInv, Labels, ConsumerLabel, Life, ConsumerEnded, Critical,
         Removing, Role
    <3> QED
      BY <3>4, <3>5, <3>6
  <2> QED
    BY <2>1, <2>2
<1> QED
  BY <1>1, SafetyInit, SafetyStep, PTL DEF Spec
=============================================================================

-------------------------- MODULE FriendSync_proofs --------------------------
(***************************************************************************)
(* Theorem about FriendSync, for all users, applications, answers and       *)
(* devices: what a device shows after a pull.                              *)
(***************************************************************************)
EXTENDS FriendSync, SequenceTheorems, TLAPS

\* The part of TypeOK that the pushes and the pull need.
SyncTypes ==
  /\ status \in [Apply -> Verdict \cup {"none"}]
  /\ apc \in [Answer -> {"idle", "checked", "inserted", "done"}]
  /\ record \in [Answer -> Apply \cup {None}]
  /\ verdict \in [Answer -> {None, "agreed", "refused"}]
  /\ \A q \in Answer : apc[q] \in {"checked", "inserted"} =>
       record[q] \in Apply /\ verdict[q] \in {"agreed", "refused"}
  /\ jobs \subseteq [apply : Apply, verdict : Verdict, to : Seq(Uid) \ {<<>>}]
  /\ dpc \in [Device -> {"off", "ready", "pulling", "synced"}]
  /\ first \in [Device -> SUBSET (Apply \X Verdict)]
  /\ view \in [Device -> SUBSET (Apply \X Verdict)]
  /\ stale \in [Device -> BOOLEAN]

\* A push of application a with verdict v is on its way to user u.
Coming(a, v, u) ==
  \E j \in jobs : j.apply = a /\ j.verdict = v /\ \E i \in DOMAIN j.to : j.to[i] = u

RefusalIsDue(d, a) == From[a] = Owner[d] /\ status[a] = "refused" /\ a \notin applyRead
AnswerIsDue(d, a)  == To[a] = Owner[d] /\ Pending(a)

\* Between the two queries of a pull the refusals are in the first one's result,
\* already shown, or on their way.
PullHasRefusals ==
  \A d \in Device : dpc[d] = "pulling" /\ ~stale[d] =>
    \A a \in Apply : RefusalIsDue(d, a) =>
      <<a, "refused">> \in first[d] \cup view[d] \/ Coming(a, "refused", Owner[d])

SyncedHas ==
  \A d \in Device : dpc[d] = "synced" /\ ~stale[d] =>
    \A a \in Apply :
      /\ RefusalIsDue(d, a) => <<a, "refused">> \in view[d] \/ Coming(a, "refused", Owner[d])
      /\ AnswerIsDue(d, a) => <<a, "pending">> \in view[d] \/ Coming(a, "pending", Owner[d])

SyncInv == SyncTypes /\ PullHasRefusals /\ SyncedHas

-----------------------------------------------------------------------------
LEMMA SyncInit == Init => SyncInv
<1> SUFFICES ASSUME Init PROVE SyncInv
  OBVIOUS
<1> USE SyncAssumption DEF Init
<1>1. SyncTypes
  BY DEF SyncTypes, Verdict
<1>2. PullHasRefusals /\ SyncedHas
  BY DEF PullHasRefusals, SyncedHas
<1> QED
  BY <1>1, <1>2 DEF SyncInv

-----------------------------------------------------------------------------
(* Steps that change no application and no push, and pushes. *)

\* Marks of applications as read, answers before their commit, the friend list.
LEMMA QuietStep ==
  ASSUME PullHasRefusals, SyncedHas, UNCHANGED <<status, jobs, devices>>,
         applyRead \subseteq applyRead'
  PROVE  PullHasRefusals' /\ SyncedHas'
BY DEF devices, PullHasRefusals, SyncedHas, RefusalIsDue, AnswerIsDue, Pending, Coming

\* The announcement of a change of application b: a push to both of its users,
\* or devices of both that have missed it.
LEMMA AnnounceTypes ==
  ASSUME SyncTypes, NEW b \in Apply, NEW v \in Verdict, NEW to \in Seq(Uid) \ {<<>>},
         Announce(b, v, to)
  PROVE  /\ jobs' \subseteq [apply : Apply, verdict : Verdict, to : Seq(Uid) \ {<<>>}]
         /\ dpc' = dpc /\ first' = first /\ view' = view
         /\ stale' \in [Device -> BOOLEAN] /\ \A d \in Device : stale[d] => stale'[d]
         /\ jobs \subseteq jobs'
         /\ \/ [apply |-> b, verdict |-> v, to |-> to] \in jobs'
            \/ \A d \in Device : dpc[d] # "off" /\ Owner[d] \in {From[b], To[b]} => stale'[d]
<1>1. CASE /\ jobs' = jobs \cup {[apply |-> b, verdict |-> v, to |-> to]}
           /\ UNCHANGED devices
  BY <1>1 DEF SyncTypes, devices
<1>2. CASE Missed({From[b], To[b]}) /\ UNCHANGED <<jobs, dpc, first, view>>
  BY <1>2 DEF SyncTypes, Missed, Connected
<1> QED
  BY <1>1, <1>2 DEF Announce

LEMMA AnnounceStep ==
  ASSUME SyncTypes, PullHasRefusals, SyncedHas,
         NEW b \in Apply, NEW v \in Verdict, NEW to \in Seq(Uid) \ {<<>>},
         Announce(b, v, to),
         {to[i] : i \in DOMAIN to} = {From[b], To[b]},
         \A a \in Apply \ {b} : status'[a] = status[a],
         applyRead \subseteq applyRead',
         status'[b] \in {"pending", "refused"} => status'[b] \in {v, status[b]}
  PROVE  PullHasRefusals' /\ SyncedHas'
<1>1. /\ dpc' = dpc /\ first' = first /\ view' = view
      /\ \A d \in Device : stale[d] \in BOOLEAN /\ stale'[d] \in BOOLEAN /\ (stale[d] => stale'[d])
  BY AnnounceTypes DEF SyncTypes
<1>2. ASSUME NEW a, NEW w, NEW u, Coming(a, w, u) PROVE Coming(a, w, u)'
  BY <1>2, AnnounceTypes DEF Coming
<1>3. ASSUME NEW d \in Device, dpc[d] # "off", ~stale'[d], Owner[d] \in {From[b], To[b]}
      PROVE  Coming(b, v, Owner[d])'
  <2>1. [apply |-> b, verdict |-> v, to |-> to] \in jobs'
    BY <1>3, AnnounceTypes
  <2>2. \E i \in DOMAIN to : to[i] = Owner[d]
    BY <1>3
  <2> QED
    BY <2>1, <2>2 DEF Coming
<1>4. PullHasRefusals'
  <2> SUFFICES ASSUME NEW d \in Device, dpc'[d] = "pulling", ~stale'[d],
                      NEW a \in Apply, RefusalIsDue(d, a)'
               PROVE  <<a, "refused">> \in first[d] \cup view[d] \/ Coming(a, "refused", Owner[d])'
    BY <1>1 DEF PullHasRefusals
  <2>1. dpc[d] = "pulling" /\ ~stale[d]
    BY <1>1
  <2>2. CASE RefusalIsDue(d, a)
    BY <1>2, <2>1, <2>2 DEF PullHasRefusals
  <2>3. CASE ~RefusalIsDue(d, a)
    <3>1. a = b /\ status'[b] = "refused" /\ status[b] # "refused" /\ From[b] = Owner[d]
      BY <2>3 DEF RefusalIsDue
    <3>2. v = "refused"
      BY <3>1
    <3> QED
      BY <1>3, <2>1, <3>1, <3>2
  <2> QED
    BY <2>2, <2>3
<1>5. SyncedHas'
  <2> SUFFICES ASSUME NEW d \in Device, dpc'[d] = "synced", ~stale'[d], NEW a \in Apply
               PROVE  /\ RefusalIsDue(d, a)' =>
                           <<a, "refused">> \in view[d] \/ Coming(a, "refused", Owner[d])'
                      /\ AnswerIsDue(d, a)' =>
                           <<a, "pending">> \in view[d] \/ Coming(a, "pending", Owner[d])'
    BY <1>1 DEF SyncedHas
  <2>1. dpc[d] = "synced" /\ ~stale[d]
    BY <1>1
  <2>2. ASSUME RefusalIsDue(d, a)'
        PROVE  <<a, "refused">> \in view[d] \/ Coming(a, "refused", Owner[d])'
    <3>1. CASE RefusalIsDue(d, a)
      BY <1>2, <2>1, <3>1 DEF SyncedHas
    <3>2. CASE ~RefusalIsDue(d, a)
      <4>1. a = b /\ v = "refused" /\ From[b] = Owner[d]
        BY <2>2, <3>2 DEF RefusalIsDue
      <4> QED
        BY <1>3, <2>1, <4>1
    <3> QED
      BY <3>1, <3>2
  <2>3. ASSUME AnswerIsDue(d, a)'
        PROVE  <<a, "pending">> \in view[d] \/ Coming(a, "pending", Owner[d])'
    <3>1. CASE AnswerIsDue(d, a)
      BY <1>2, <2>1, <3>1 DEF SyncedHas
    <3>2. CASE ~AnswerIsDue(d, a)
      <4>1. a = b /\ status'[b] = "pending" /\ status[b] # "pending" /\ To[b] = Owner[d]
        BY <2>3, <3>2 DEF AnswerIsDue, Pending
      <4> QED
        BY <1>3, <2>1, <4>1
    <3> QED
      BY <3>1, <3>2
  <2> QED
    BY <2>2, <2>3
<1> QED
  BY <1>4, <1>5

\* A push that a device of its user takes is shown there; one that it loses makes
\* the device stale; the other user is still to come.
LEMMA PushStep ==
  ASSUME SyncTypes, PullHasRefusals, SyncedHas, NEW j \in jobs, Push(j)
  PROVE  SyncTypes' /\ PullHasRefusals' /\ SyncedHas'
<1> DEFINE user == Head(j.to)
           reached == {d \in Device : Connected(d) /\ Owner[d] = user}
<1>1. PICK lost \in SUBSET reached :
        /\ view' = [d \in Device |-> IF d \in reached \ lost
                                       THEN view[d] \cup {<<j.apply, j.verdict>>} ELSE view[d]]
        /\ stale' = [d \in Device |-> stale[d] \/ d \in lost]
  BY DEF Push
<1>2. /\ UNCHANGED <<status, applyRead, apc, record, verdict, dpc, first>>
      /\ jobs' = (jobs \ {j}) \cup (IF Len(j.to) = 1 THEN {} ELSE {[j EXCEPT !.to = Tail(@)]})
  BY DEF Push, tables, answers
<1>3. /\ j \in [apply : Apply, verdict : Verdict, to : Seq(Uid) \ {<<>>}]
      /\ j.apply \in Apply /\ j.verdict \in Verdict /\ j.to \in Seq(Uid) /\ j.to # <<>>
  BY DEF SyncTypes
<1>4. ASSUME Len(j.to) # 1
      PROVE  /\ [j EXCEPT !.to = Tail(@)] \in
                  [apply : Apply, verdict : Verdict, to : Seq(Uid) \ {<<>>}]
             /\ \A i \in DOMAIN j.to : i # 1 =>
                  i - 1 \in DOMAIN Tail(j.to) /\ Tail(j.to)[i - 1] = j.to[i]
  <2> DEFINE t == j.to
  <2>1. t \in Seq(Uid) /\ t # <<>> /\ Len(t) # 1
    BY <1>3, <1>4
  <2> HIDE DEF t
  <2>2. Tail(t) \in Seq(Uid) /\ Len(Tail(t)) = Len(t) - 1 /\ Len(Tail(t)) > 0
    <3>1. Len(t) \in Nat \ {0}
      BY <2>1, EmptySeq
    <3>2. Tail(t) \in Seq(Uid) /\ Len(Tail(t)) = Len(t) - 1
      BY <2>1, HeadTailProperties
    <3> QED
      BY <2>1, <3>1, <3>2
  <2>3. \A i \in DOMAIN t : i # 1 => i - 1 \in DOMAIN Tail(t) /\ Tail(t)[i - 1] = t[i]
    BY <2>1, <2>2
  <2>4. Tail(t) # <<>>
    <3>1. Len(<<>>) = 0
      BY EmptySeq
    <3>2. Len(Tail(t)) # 0
      BY <2>2
    <3> QED
      BY <3>1, <3>2, Zenon
  <2>5. [j EXCEPT !.to = Tail(@)] \in [apply : Apply, verdict : Verdict, to : Seq(Uid) \ {<<>>}]
    BY <1>3, <2>2, <2>4 DEF t
  <2> QED
    BY <2>3, <2>5 DEF t
<1>5. SyncTypes'
  <2>1. jobs' \subseteq [apply : Apply, verdict : Verdict, to : Seq(Uid) \ {<<>>}]
    BY <1>2, <1>4 DEF SyncTypes
  <2>2. view' \in [Device -> SUBSET (Apply \X Verdict)] /\ stale' \in [Device -> BOOLEAN]
    BY <1>1, <1>3 DEF SyncTypes
  <2> QED
    BY <1>2, <2>1, <2>2 DEF SyncTypes
<1>6. ASSUME NEW a, NEW w, NEW u, Coming(a, w, u)
      PROVE  Coming(a, w, u)' \/ (a = j.apply /\ w = j.verdict /\ u = user)
  <2>1. PICK k \in jobs : k.apply = a /\ k.verdict = w /\ \E i \in DOMAIN k.to : k.to[i] = u
    BY <1>6 DEF Coming
  <2>2. CASE k # j
    BY <1>2, <2>1, <2>2 DEF Coming
  <2>3. CASE k = j
    <3>1. PICK i \in DOMAIN j.to : j.to[i] = u
      BY <2>1, <2>3
    <3>2. CASE i = 1
      BY <1>3, <2>1, <2>3, <3>1, <3>2
    <3>3. CASE i # 1
      <4>1. Len(j.to) # 1
        BY <1>3, <3>1, <3>3
      <4> DEFINE rest == [j EXCEPT !.to = Tail(@)]
      <4>2. rest \in jobs' /\ rest.apply = a /\ rest.verdict = w /\ rest.to = Tail(j.to)
        BY <1>2, <1>3, <2>1, <2>3, <4>1
      <4>3. i - 1 \in DOMAIN rest.to /\ rest.to[i - 1] = u
        BY <1>4, <3>1, <3>3, <4>1, <4>2
      <4> HIDE DEF rest
      <4> QED
        BY <4>2, <4>3 DEF Coming
    <3> QED
      BY <3>2, <3>3
  <2> QED
    BY <2>2, <2>3
<1>7. ASSUME NEW d \in Device, dpc[d] # "off", ~stale'[d]
      PROVE  /\ ~stale[d] /\ view[d] \subseteq view'[d]
             /\ Owner[d] = user => <<j.apply, j.verdict>> \in view'[d]
  BY <1>1, <1>7 DEF Connected
<1> HIDE DEF user, reached
<1>8. PullHasRefusals'
  <2> SUFFICES ASSUME NEW d \in Device, dpc[d] = "pulling", ~stale'[d],
                      NEW a \in Apply, RefusalIsDue(d, a)
               PROVE  <<a, "refused">> \in first[d] \cup view'[d] \/ Coming(a, "refused", Owner[d])'
    BY <1>2 DEF PullHasRefusals, RefusalIsDue
  <2>1. <<a, "refused">> \in first[d] \cup view[d] \/ Coming(a, "refused", Owner[d])
    BY <1>7 DEF PullHasRefusals
  <2> QED
    BY <1>6, <1>7, <2>1
<1>9. SyncedHas'
  <2> SUFFICES ASSUME NEW d \in Device, dpc[d] = "synced", ~stale'[d], NEW a \in Apply
               PROVE  /\ RefusalIsDue(d, a) =>
                           <<a, "refused">> \in view'[d] \/ Coming(a, "refused", Owner[d])'
                      /\ AnswerIsDue(d, a) =>
                           <<a, "pending">> \in view'[d] \/ Coming(a, "pending", Owner[d])'
    BY <1>2 DEF SyncedHas, RefusalIsDue, AnswerIsDue, Pending
  <2>1. /\ RefusalIsDue(d, a) => <<a, "refused">> \in view[d] \/ Coming(a, "refused", Owner[d])
        /\ AnswerIsDue(d, a) => <<a, "pending">> \in view[d] \/ Coming(a, "pending", Owner[d])
    BY <1>7 DEF SyncedHas
  <2> QED
    BY <1>6, <1>7, <2>1
<1> QED
  BY <1>5, <1>8, <1>9

-----------------------------------------------------------------------------
(* Requests. *)

LEMMA AddFriendStep ==
  ASSUME SyncInv, NEW a \in Apply, AddFriend(a)
  PROVE  SyncInv'
<1> USE SyncAssumption DEF SyncInv
<1>1. /\ Announce(a, "pending", <<To[a], From[a]>>)
      /\ <<To[a], From[a]>> \in Seq(Uid) \ {<<>>}
      /\ {<<To[a], From[a]>>[i] : i \in DOMAIN <<To[a], From[a]>>} = {From[a], To[a]}
  BY DEF AddFriend
<1>2. /\ status' = [status EXCEPT ![a] = "pending"] /\ applyRead' = applyRead
      /\ UNCHANGED answers
  BY DEF AddFriend, Submit
<1>3. SyncTypes'
  <2>1. /\ jobs' \subseteq [apply : Apply, verdict : Verdict, to : Seq(Uid) \ {<<>>}]
        /\ dpc' = dpc /\ first' = first /\ view' = view /\ stale' \in [Device -> BOOLEAN]
    BY <1>1, AnnounceTypes DEF Verdict
  <2>2. status' \in [Apply -> Verdict \cup {"none"}]
    BY <1>2 DEF SyncTypes, Verdict
  <2> QED
    BY <1>2, <2>1, <2>2 DEF SyncTypes, answers
<1>4. PullHasRefusals' /\ SyncedHas'
  BY <1>1, <1>2, AnnounceStep DEF Verdict, SyncTypes
<1> QED
  BY <1>3, <1>4

LEMMA UpdateStep ==
  ASSUME SyncInv, NEW q \in Answer, UpdateCheck(q) \/ CreateFriend(q) \/ UpdateFails(q)
  PROVE  SyncInv'
<1> USE SyncAssumption DEF SyncInv
<1>1. UNCHANGED <<status, applyRead, jobs, devices>>
  BY DEF UpdateCheck, CreateFriend, UpdateFails, tables
<1>2. SyncTypes'
  <2>1. CASE UpdateCheck(q)
    BY <1>1, <2>1 DEF SyncTypes, UpdateCheck, Goto, devices
  <2>2. CASE CreateFriend(q)
    BY <1>1, <2>2 DEF SyncTypes, CreateFriend, Goto, devices
  <2>3. CASE UpdateFails(q)
    BY <1>1, <2>3 DEF SyncTypes, UpdateFails, Goto, devices
  <2> QED
    BY <2>1, <2>2, <2>3
<1>3. PullHasRefusals' /\ SyncedHas'
  BY <1>1, QuietStep
<1> QED
  BY <1>2, <1>3

LEMMA UpdateCommitStep ==
  ASSUME SyncInv, NEW q \in Answer, UpdateCommit(q)
  PROVE  SyncInv'
<1> USE SyncAssumption DEF SyncInv
<1> DEFINE b == record[q]
<1>1. b \in Apply /\ verdict[q] \in Verdict /\ apc' = [apc EXCEPT ![q] = "done"]
  BY DEF UpdateCommit, SyncTypes, Verdict, Goto
<1>2. /\ Announce(b, verdict[q], <<From[b], To[b]>>)
      /\ <<From[b], To[b]>> \in Seq(Uid) \ {<<>>}
      /\ {<<From[b], To[b]>>[i] : i \in DOMAIN <<From[b], To[b]>>} = {From[b], To[b]}
  BY <1>1 DEF UpdateCommit
<1>3. /\ applyRead \subseteq applyRead'
      /\ \/ status' = status
         \/ status' = [status EXCEPT ![b] = "agreed"]
         \/ status' = [status EXCEPT ![b] = "refused"] /\ verdict[q] = "refused"
  BY DEF UpdateCommit, Agree, Refuse, tables
<1>4. record' = record /\ verdict' = verdict
  BY DEF UpdateCommit
<1> HIDE DEF b
<1>5. status' \in [Apply -> Verdict \cup {"none"}]
  BY <1>3 DEF SyncTypes, Verdict
<1>6. SyncTypes'
  <2>1. /\ jobs' \subseteq [apply : Apply, verdict : Verdict, to : Seq(Uid) \ {<<>>}]
        /\ dpc' = dpc /\ first' = first /\ view' = view /\ stale' \in [Device -> BOOLEAN]
    BY <1>1, <1>2, AnnounceTypes
  <2>2. /\ apc' \in [Answer -> {"idle", "checked", "inserted", "done"}]
        /\ \A p \in Answer : apc'[p] \in {"checked", "inserted"} => apc[p] = apc'[p]
    BY <1>1 DEF SyncTypes
  <2> QED
    BY <1>4, <1>5, <2>1, <2>2 DEF SyncTypes
<1>7. /\ \A a \in Apply \ {b} : status'[a] = status[a]
      /\ status'[b] \in {"pending", "refused"} => status'[b] \in {verdict[q], status[b]}
  BY <1>1, <1>3 DEF SyncTypes
<1>8. PullHasRefusals' /\ SyncedHas'
  BY <1>1, <1>2, <1>3, <1>7, AnnounceStep
<1> QED
  BY <1>6, <1>8

-----------------------------------------------------------------------------
(* Devices. *)

LEMMA DeviceStep ==
  ASSUME SyncInv, NEW d \in Device,
         \/ Connect(d) \/ GetUnReadApplyByUid(d) \/ GetPendingApplyByUid(d)
         \/ PullFails(d) \/ Disconnect(d)
  PROVE  SyncInv'
<1> USE SyncAssumption DEF SyncInv
<1>1. UNCHANGED <<status, applyRead, jobs, apc, record, verdict>>
  BY DEF Connect, GetUnReadApplyByUid, GetPendingApplyByUid, PullFails, Disconnect, tables, answers
<1>2. /\ \A a, v, u : Coming(a, v, u)' = Coming(a, v, u)
      /\ \A e, a : /\ RefusalIsDue(e, a)' = RefusalIsDue(e, a)
                   /\ AnswerIsDue(e, a)' = AnswerIsDue(e, a)
  BY <1>1 DEF Coming, RefusalIsDue, AnswerIsDue, Pending
<1>3. SyncTypes'
  <2>1. \A a \in Apply : status[a] \in {"agreed", "refused"} => <<a, status[a]>> \in Apply \X Verdict
    BY DEF Verdict
  <2>2. CASE GetUnReadApplyByUid(d)
    BY <1>1, <2>1, <2>2 DEF SyncTypes, GetUnReadApplyByUid
  <2>3. CASE GetPendingApplyByUid(d)
    <3>1. /\ \A a \in Apply : <<a, "pending">> \in Apply \X Verdict
      BY DEF Verdict
    <3> QED
      BY <1>1, <2>3, <3>1 DEF SyncTypes, GetPendingApplyByUid
  <2>4. CASE Connect(d) \/ PullFails(d) \/ Disconnect(d)
    BY <1>1, <2>4 DEF SyncTypes, Connect, PullFails, Disconnect
  <2> QED
    BY <2>2, <2>3, <2>4
<1>4. \A e \in Device \ {d} :
        dpc'[e] = dpc[e] /\ first'[e] = first[e] /\ view'[e] = view[e] /\ stale'[e] = stale[e]
  BY DEF SyncTypes, Connect, GetUnReadApplyByUid, GetPendingApplyByUid, PullFails, Disconnect
<1>5. PullHasRefusals'
  <2>1. ASSUME dpc'[d] = "pulling", NEW a \in Apply, RefusalIsDue(d, a)
        PROVE  <<a, "refused">> \in first'[d]
    <3>1. GetUnReadApplyByUid(d)
      BY <2>1 DEF SyncTypes, Connect, GetPendingApplyByUid, PullFails, Disconnect
    <3> QED
      BY <2>1, <3>1 DEF GetUnReadApplyByUid, RefusalIsDue, SyncTypes
  <2> QED
    BY <1>2, <1>4, <2>1 DEF PullHasRefusals
<1>6. SyncedHas'
  <2>1. ASSUME dpc'[d] = "synced", ~stale'[d], NEW a \in Apply
        PROVE  /\ RefusalIsDue(d, a) =>
                    <<a, "refused">> \in view'[d] \/ Coming(a, "refused", Owner[d])
               /\ AnswerIsDue(d, a) => <<a, "pending">> \in view'[d]
    <3>1. GetPendingApplyByUid(d) /\ dpc[d] = "pulling" /\ ~stale[d]
      BY <2>1 DEF SyncTypes, Connect, GetUnReadApplyByUid, GetPendingApplyByUid, PullFails,
                  Disconnect
    <3>2. view'[d] = view[d] \cup first[d] \cup
            {<<b, "pending">> : b \in {c \in Apply : To[c] = Owner[d] /\ Pending(c)}}
      BY <3>1 DEF GetPendingApplyByUid, SyncTypes
    <3>3. RefusalIsDue(d, a) => <<a, "refused">> \in view'[d] \/ Coming(a, "refused", Owner[d])
      BY <3>1, <3>2 DEF PullHasRefusals
    <3>4. AnswerIsDue(d, a) => <<a, "pending">> \in view'[d]
      BY <3>2 DEF AnswerIsDue
    <3> QED
      BY <3>3, <3>4
  <2> QED
    BY <1>2, <1>4, <2>1 DEF SyncedHas
<1> QED
  BY <1>3, <1>5, <1>6

LEMMA SyncStep == SyncInv /\ [Next]_vars => SyncInv'
<1> SUFFICES ASSUME SyncInv, [Next]_vars PROVE SyncInv'
  OBVIOUS
<1>1. ASSUME NEW d \in Device, NEW a \in Apply, MarkFriendApplyRead(d, a)
      PROVE  SyncInv'
  <2>1. UNCHANGED <<status, jobs, devices, answers>> /\ applyRead \subseteq applyRead'
    BY <1>1 DEF MarkFriendApplyRead, MarkRead
  <2>2. SyncTypes'
    BY <2>1 DEF SyncInv, SyncTypes, devices, answers
  <2> QED
    BY <2>1, <2>2, QuietStep DEF SyncInv
<1>2. ASSUME PullFriends \/ UNCHANGED vars
      PROVE  SyncInv'
  <2>1. UNCHANGED <<status, jobs, devices, answers>> /\ applyRead \subseteq applyRead'
    BY <1>2 DEF PullFriends, vars, tables
  <2>2. SyncTypes'
    BY <2>1 DEF SyncInv, SyncTypes, devices, answers
  <2> QED
    BY <2>1, <2>2, QuietStep DEF SyncInv
<1>3. ASSUME NEW j \in jobs, Push(j)
      PROVE  SyncInv'
  BY <1>3, PushStep DEF SyncInv
<1> QED
  BY <1>1, <1>2, <1>3, AddFriendStep, UpdateStep, UpdateCommitStep, DeviceStep DEF Next

\* A device that pulled and missed no push since shows every verdict of refusal
\* and every waiting application it should, whatever commits between the two
\* queries of PullOfflineApply and whenever pushes arrive.
THEOREM SyncedDevicesAreCurrent == Spec => []SyncedIsCurrent
<1>1. SyncInv => SyncedIsCurrent
  <2> SUFFICES ASSUME SyncInv, NEW d \in Device, dpc[d] = "synced", ~stale[d], NEW a \in Apply,
                      RefusalIsDue(d, a) \/ AnswerIsDue(d, a)
               PROVE  Shown(d, a)
    BY DEF SyncedIsCurrent, RefusalIsDue, AnswerIsDue
  <2>1. CASE RefusalIsDue(d, a)
    <3>1. <<a, "refused">> \in view[d] \/ Coming(a, "refused", Owner[d])
      BY <2>1 DEF SyncInv, SyncedHas
    <3>2. status[a] = "refused"
      BY <2>1 DEF RefusalIsDue
    <3> QED
      BY <3>1, <3>2 DEF Coming, Shown
  <2>2. CASE AnswerIsDue(d, a)
    <3>1. <<a, "pending">> \in view[d] \/ Coming(a, "pending", Owner[d])
      BY <2>2 DEF SyncInv, SyncedHas
    <3>2. status[a] = "pending"
      BY <2>2 DEF AnswerIsDue, Pending
    <3> QED
      BY <3>1, <3>2 DEF Coming, Shown
  <2> QED
    BY <2>1, <2>2
<1> QED
  BY <1>1, SyncInit, SyncStep, PTL DEF Spec
=============================================================================

--------------------------- MODULE Outbox_proofs ---------------------------
(***************************************************************************)
(* What the pool of ConnPool delivers, for any number of users, devices and *)
(* broadcasts and any buffer: the result of a broadcast tells the truth,    *)
(* every connection is an outbox in the sense of DeviceOutbox, only the      *)
(* target of a broadcast gets it, and a device gets it once, after ready.   *)
(***************************************************************************)
EXTENDS ConnPool_proofs, SequenceTheorems

\* A message is somewhere between the pool and the device, or was written.
Somewhere(c, m) == Carries(wire[c], m) \/ Carries(hand[c], m) \/ Carries(MsgChan[c], m)

\* The consumer holds one message while it writes, and none otherwise.
HandInv ==
  \A c \in Conn : IF pc["consumer"][c] = "write" THEN \E m \in Msg : hand[c] = <<m>>
                                                 ELSE hand[c] = <<>>

\* Nobody but AddConn queues for a connection that is not registered yet.
FreshInv ==
  \A c \in Conn : /\ pc["reader"][c] \in {"none", "ready"} => MsgChan[c] = <<>>
                  /\ pc["reader"][c] = "adding" => MsgChan[c] = <<Ready>>

\* A broadcast visits each connection of its snapshot once, and those only
\* that AddConn has given a consumer.
Visit(t) ==
  /\ \A c \in snap[t] : c \notin accepted[t] /\ c # item[t] /\ pc["consumer"][c] # "none"
  /\ item[t] \in Conn => item[t] \notin accepted[t] /\ pc["consumer"][item[t]] # "none"
  /\ \A c \in accepted[t] : pc["consumer"][c] # "none"
  /\ tpc[t] # "send" => item[t] = NoConn
  /\ tpc[t] = "idle" => accepted[t] = {}
VisitInv == \A t \in Task : Visit(t)

\* The result of a broadcast says whether some channel took the message.
ResultInv ==
  \A t \in Task : /\ tpc[t] # "done" => result[t] = "none"
                  /\ result[t] = "ErrUserOffline" => accepted[t] = {}
                  /\ result[t] = "nil" => accepted[t] # {}

\* What a channel took is on its way while the device is served, and nothing
\* else is.
TakenInv ==
  \A t \in Task, c \in Conn : /\ Somewhere(c, t) => c \in accepted[t]
                              /\ c \in accepted[t] /\ Serving(c) => Somewhere(c, t)

OutInv == HandInv /\ FreshInv /\ VisitInv /\ ResultInv /\ TakenInv

-----------------------------------------------------------------------------
(* Sequences. *)

LEMMA CarriesAppend ==
  ASSUME NEW q \in Seq(Msg), NEW x \in Msg, NEW m
  PROVE  Carries(Append(q, x), m) <=> Carries(q, m) \/ m = x
<1>1. /\ DOMAIN Append(q, x) = 1 .. Len(q) + 1 /\ DOMAIN q = 1 .. Len(q) /\ Len(q) \in Nat
      /\ \A i \in 1 .. Len(q) : Append(q, x)[i] = q[i]
      /\ Append(q, x)[Len(q) + 1] = x
  OBVIOUS
<1>2. \A i : i \in 1 .. Len(q) + 1 <=> i \in 1 .. Len(q) \/ i = Len(q) + 1
  BY <1>1
<1> QED
  BY <1>1, <1>2 DEF Carries

LEMMA CarriesConcat ==
  ASSUME NEW p \in Seq(Msg), NEW q \in Seq(Msg), NEW m
  PROVE  Carries(p \o q, m) <=> Carries(p, m) \/ Carries(q, m)
<1>1. /\ p \o q \in Seq(Msg) /\ Len(p \o q) = Len(p) + Len(q) /\ Len(p) \in Nat /\ Len(q) \in Nat
      /\ DOMAIN (p \o q) = 1 .. Len(p) + Len(q) /\ DOMAIN p = 1 .. Len(p) /\ DOMAIN q = 1 .. Len(q)
      /\ \A i \in 1 .. Len(p) + Len(q) : (p \o q)[i] = IF i <= Len(p) THEN p[i] ELSE q[i - Len(p)]
  BY ConcatProperties, LenProperties
<1>2. ASSUME NEW i \in 1 .. Len(p) + Len(q), (p \o q)[i] = m
      PROVE  Carries(p, m) \/ Carries(q, m)
  <2>1. CASE i <= Len(p)
    BY <1>1, <1>2, <2>1 DEF Carries
  <2>2. CASE ~(i <= Len(p))
    <3>1. i - Len(p) \in 1 .. Len(q) /\ q[i - Len(p)] = m
      BY <1>1, <1>2, <2>2
    <3> QED
      BY <1>1, <3>1 DEF Carries
  <2> QED
    BY <2>1, <2>2
<1>3. ASSUME NEW i \in 1 .. Len(p), p[i] = m
      PROVE  Carries(p \o q, m)
  <2>1. i \in 1 .. Len(p) + Len(q) /\ (p \o q)[i] = m
    BY <1>1, <1>3
  <2> QED
    BY <1>1, <2>1 DEF Carries
<1>4. ASSUME NEW i \in 1 .. Len(q), q[i] = m
      PROVE  Carries(p \o q, m)
  <2>1. i + Len(p) \in 1 .. Len(p) + Len(q) /\ (p \o q)[i + Len(p)] = m
    BY <1>1, <1>4
  <2> QED
    BY <1>1, <2>1 DEF Carries
<1> QED
  BY <1>1, <1>2, <1>3, <1>4 DEF Carries

LEMMA HeadTail ==
  ASSUME NEW q \in Seq(Msg), q # <<>>
  PROVE  /\ Head(q) \in Msg /\ Tail(q) \in Seq(Msg)
         /\ <<Head(q)>> \o Tail(q) = q
<1>1. /\ Head(q) \in Msg /\ Tail(q) \in Seq(Msg) /\ Len(Tail(q)) = Len(q) - 1 /\ Len(q) \in Nat
      /\ \A i \in 1 .. Len(Tail(q)) : Tail(q)[i] = q[i + 1]
      /\ Len(q) > 0
  BY HeadTailProperties, LenProperties, EmptySeq
<1>2. /\ <<Head(q)>> \o Tail(q) \in Seq(Msg) /\ Len(<<Head(q)>> \o Tail(q)) = Len(q)
      /\ \A i \in 1 .. Len(q) :
           (<<Head(q)>> \o Tail(q))[i] = IF i <= 1 THEN Head(q) ELSE Tail(q)[i - 1]
  <2>1. <<Head(q)>> \in Seq(Msg) /\ Len(<<Head(q)>>) = 1 /\ <<Head(q)>>[1] = Head(q)
    BY <1>1
  <2>2. \A i \in 1 .. 1 + Len(Tail(q)) :
          (<<Head(q)>> \o Tail(q))[i] = IF i <= 1 THEN <<Head(q)>>[i] ELSE Tail(q)[i - 1]
    BY <1>1, <2>1, ConcatProperties
  <2>3. <<Head(q)>> \o Tail(q) \in Seq(Msg) /\ Len(<<Head(q)>> \o Tail(q)) = 1 + Len(Tail(q))
    BY <1>1, <2>1, ConcatProperties
  <2> QED
    BY <1>1, <2>1, <2>2, <2>3
<1>3. ASSUME NEW i \in 1 .. Len(q) PROVE (<<Head(q)>> \o Tail(q))[i] = q[i]
  <2>1. CASE i = 1
    BY <1>1, <1>2, <2>1
  <2>2. CASE i # 1
    <3>1. i - 1 \in 1 .. Len(Tail(q)) /\ ~(i <= 1) /\ (i - 1) + 1 = i
      BY <1>1, <2>2
    <3> QED
      BY <1>1, <1>2, <3>1
  <2> QED
    BY <2>1, <2>2
<1> QED
  BY <1>1, <1>2, <1>3, SeqEqual

LEMMA ConcatAppend ==
  ASSUME NEW p \in Seq(Msg), NEW q \in Seq(Msg), NEW m \in Msg
  PROVE  p \o Append(q, m) = Append(p \o q, m)
<1>1. \A s \in Seq(Msg) : Append(s, m) = s \o <<m>>
  BY AppendIsConcat
<1>2. <<m>> \in Seq(Msg) /\ p \o q \in Seq(Msg)
  BY ConcatProperties
<1> QED
  BY <1>1, <1>2, ConcatAssociative

LEMMA OneThenRest ==
  ASSUME NEW m \in Msg, NEW q \in Seq(Msg)
  PROVE  /\ <<m>> \o q # <<>> /\ Head(<<m>> \o q) = m /\ Tail(<<m>> \o q) = q
<1>1. <<m>> \in Seq(Msg) /\ Len(<<m>>) = 1 /\ <<m>>[1] = m
  OBVIOUS
<1>2. /\ <<m>> \o q \in Seq(Msg) /\ Len(<<m>> \o q) = 1 + Len(q) /\ Len(q) \in Nat
      /\ \A i \in 1 .. 1 + Len(q) : (<<m>> \o q)[i] = IF i <= 1 THEN <<m>>[i] ELSE q[i - 1]
  BY <1>1, ConcatProperties, LenProperties
<1>3. <<m>> \o q # <<>> /\ Head(<<m>> \o q) = m
  BY <1>1, <1>2
<1>4. /\ Tail(<<m>> \o q) \in Seq(Msg) /\ Len(Tail(<<m>> \o q)) = Len(q)
      /\ \A i \in 1 .. Len(q) : Tail(<<m>> \o q)[i] = (<<m>> \o q)[i + 1]
  BY <1>2, <1>3, HeadTailProperties
<1>5. \A i \in 1 .. Len(q) : Tail(<<m>> \o q)[i] = q[i]
  <2> TAKE i \in 1 .. Len(q)
  <2>1. i + 1 \in 1 .. 1 + Len(q) /\ ~(i + 1 <= 1) /\ (i + 1) - 1 = i
    BY <1>2
  <2> QED
    BY <1>2, <1>4, <2>1
<1> QED
  BY <1>3, <1>4, <1>5, SeqEqual

-----------------------------------------------------------------------------
(* Steps that deliver nothing. *)

\* Neither messages nor broadcasts move, and no connection is added, loses its
\* consumer or gets its message written.
Calm ==
  /\ UNCHANGED <<MsgChan, hand, wire, taskVars>>
  /\ \A c \in Conn :
       /\ \/ pc'["reader"][c] = pc["reader"][c]
          \/ /\ pc["reader"][c] \notin {"none", "ready", "adding"}
             /\ pc'["reader"][c] \notin {"none", "ready", "adding"}
          \/ pc["reader"][c] = "none" /\ pc'["reader"][c] = "ready"
       /\ \/ pc'["consumer"][c] = pc["consumer"][c]
          \/ /\ pc["consumer"][c] \notin {"none", "select", "write"}
             /\ pc'["consumer"][c] \notin {"none", "select", "write"}

LEMMA CalmReader ==
  ASSUME TypeOK, NEW c \in Conn,
         \/ AddConnLock(c) \/ ReadFrame(c) \/ ReadFramePanic(c) \/ ReadError(c)
         \/ SingleLookup(c) \/ SingleCheck(c) \/ (SingleSend(c) /\ ~HasRoom(c)) \/ PeerGone(c)
  PROVE  Calm
<1> USE DEF Calm, TypeOK, Goto, Role
<1>1. CASE ReadFrame(c) \/ ReadFramePanic(c) \/ ReadError(c)
  BY <1>1 DEF ReadFrame, ReadFramePanic, ReadError
<1>2. CASE SingleLookup(c) \/ SingleCheck(c)
  <2>1. /\ UNCHANGED <<MsgChan, hand, wire, taskVars>> /\ pc["reader"][c] \in {"reply", "check"}
        /\ \E l \in {"check", "send", "read"} : pc' = [pc EXCEPT !["reader"][c] = l]
    BY <1>2 DEF SingleLookup, SingleCheck
  <2> QED
    BY <2>1
<1>3. CASE SingleSend(c) /\ ~HasRoom(c)
  BY <1>3 DEF SingleSend, taskVars
<1>4. CASE PeerGone(c)
  BY <1>4 DEF PeerGone
<1>5. CASE AddConnLock(c)
  BY <1>5 DEF AddConnLock
<1> QED
  BY <1>1, <1>2, <1>3, <1>4, <1>5

LEMMA CalmRemove ==
  ASSUME TypeOK, NEW r \in Role, NEW c \in Conn, Remove(r, c)
  PROVE  Calm
<1>1. /\ UNCHANGED <<MsgChan, hand, wire, taskVars>>
      /\ pc[r][c] \in {"rm", "cancel", "mark", "delete"}
      /\ \E l \in {"cancel", "mark", "delete", "done"} : pc' = [pc EXCEPT ![r][c] = l]
  <2>1. CASE RemoveConnLock(r, c)
    BY <2>1 DEF RemoveConnLock, Goto
  <2>2. CASE RemoveConnCancel(r, c) \/ RemoveConnMark(r, c) \/ RemoveConnDelete(r, c)
    BY <2>2 DEF RemoveConnCancel, RemoveConnMark, RemoveConnDelete, Goto
  <2> QED
    BY <2>1, <2>2 DEF Remove
<1>2. PICK l \in {"cancel", "mark", "delete", "done"} : pc' = [pc EXCEPT ![r][c] = l]
  BY <1>1
<1>3. CASE r = "reader"
  BY <1>1, <1>2, <1>3 DEF Calm, TypeOK, Role
<1>4. CASE r = "consumer"
  BY <1>1, <1>2, <1>4 DEF Calm, TypeOK, Role
<1> QED
  BY <1>3, <1>4 DEF Role

LEMMA CalmStep ==
  ASSUME TypeOK, OutInv, Calm
  PROVE  OutInv'
<1> USE DEF OutInv, Calm, taskVars
<1>1. HandInv' /\ FreshInv'
  BY DEF HandInv, FreshInv
<1>2. VisitInv'
  BY DEF VisitInv, Visit, TypeOK
<1>3. ResultInv'
  BY DEF ResultInv
<1>4. TakenInv'
  BY DEF TakenInv, Somewhere, Serving
<1> QED
  BY <1>1, <1>2, <1>3, <1>4

-----------------------------------------------------------------------------
(* Steps of a connection that deliver. *)

\* Only the broadcasts' variables stay; nothing is forgotten or invented.
LEMMA TakenStays ==
  ASSUME TypeOK, OutInv, UNCHANGED taskVars,
         \A c \in Conn : pc["consumer"][c] # "none" => pc'["consumer"][c] # "none"
  PROVE  VisitInv' /\ ResultInv'
BY DEF OutInv, VisitInv, Visit, ResultInv, taskVars, TypeOK

LEMMA AddReadyOut ==
  ASSUME TypeInv, Labels, OutInv, NEW c \in Conn, AddConnReady(c)
  PROVE  OutInv'
<1>1. /\ UNCHANGED <<hand, wire, taskVars>> /\ pc["reader"][c] = "ready"
      /\ pc' = [pc EXCEPT !["reader"][c] = "adding"]
      /\ MsgChan' = [MsgChan EXCEPT ![c] = Append(MsgChan[c], Ready)]
  BY DEF AddConnReady, Goto, Enqueue
<1>2. /\ MsgChan'[c] = <<Ready>> /\ \A d \in Conn \ {c} : MsgChan'[d] = MsgChan[d]
  <2>1. MsgChan[c] = <<>> /\ Append(<<>>, Ready) = <<Ready>>
    BY <1>1 DEF OutInv, FreshInv
  <2> QED
    BY <1>1, <2>1 DEF TypeInv, TypeOK
<1>3. \A d \in Conn : /\ pc'["consumer"][d] = pc["consumer"][d]
                      /\ d # c => pc'["reader"][d] = pc["reader"][d]
  BY <1>1 DEF TypeInv, TypeOK, Role
<1>4. HandInv' /\ FreshInv'
  BY <1>1, <1>2, <1>3 DEF OutInv, HandInv, FreshInv, TypeInv, TypeOK, Role
<1>5. TakenInv'
  <2>1. \A t \in Task : ~Carries(MsgChan'[c], t)
    BY <1>2, PoolAssumption DEF Carries
  <2>2. pc["consumer"][c] = "none"
    BY <1>1 DEF Labels
  <2> QED
    BY <1>1, <1>2, <1>3, <2>1, <2>2 DEF OutInv, TakenInv, Somewhere, Serving, taskVars
<1> QED
  BY <1>1, <1>3, <1>4, <1>5, TakenStays DEF OutInv, TypeInv

LEMMA AddRegisterOut ==
  ASSUME TypeInv, Labels, OutInv, NEW c \in Conn, AddConnRegister(c)
  PROVE  OutInv'
<1>1. /\ UNCHANGED <<MsgChan, hand, wire, taskVars>> /\ pc["reader"][c] = "adding"
      /\ pc' = [pc EXCEPT !["reader"][c] = "read", !["consumer"][c] = "select"]
  BY DEF AddConnRegister
<1>2. /\ \A d \in Conn \ {c} : /\ pc'["consumer"][d] = pc["consumer"][d]
                               /\ pc'["reader"][d] = pc["reader"][d]
      /\ pc'["consumer"][c] = "select" /\ pc'["reader"][c] = "read"
  BY <1>1 DEF TypeInv, TypeOK, Role
<1>3. pc["consumer"][c] = "none"
  BY <1>1 DEF Labels
<1>4. HandInv' /\ FreshInv'
  BY <1>1, <1>2, <1>3 DEF OutInv, HandInv, FreshInv
<1>5. TakenInv'
  <2>1. \A t \in Task : c \notin accepted[t]
    BY <1>3 DEF OutInv, VisitInv, Visit
  <2> QED
    BY <1>1, <1>2, <2>1 DEF OutInv, TakenInv, Somewhere, Serving, taskVars
<1> QED
  BY <1>1, <1>2, <1>4, <1>5, TakenStays DEF OutInv, TypeInv

LEMMA SingleSendOut ==
  ASSUME TypeInv, Labels, OutInv, NEW c \in Conn, SingleSend(c), HasRoom(c)
  PROVE  OutInv'
<1>1. /\ UNCHANGED <<hand, wire, taskVars>> /\ pc["reader"][c] = "send"
      /\ pc' = [pc EXCEPT !["reader"][c] = "read"]
      /\ MsgChan' = [MsgChan EXCEPT ![c] = Append(MsgChan[c], Reply)]
  BY DEF SingleSend, Goto, Enqueue
<1>2. \A d \in Conn : /\ pc'["consumer"][d] = pc["consumer"][d]
                      /\ d # c => pc'["reader"][d] = pc["reader"][d] /\ MsgChan'[d] = MsgChan[d]
  BY <1>1 DEF TypeInv, TypeOK, Role
<1>3. HandInv' /\ FreshInv'
  BY <1>1, <1>2 DEF OutInv, HandInv, FreshInv, TypeInv, TypeOK, Role
<1>4. TakenInv'
  <2>1. \A t \in Task : Carries(MsgChan'[c], t) <=> Carries(MsgChan[c], t)
    <3>1. MsgChan[c] \in Seq(Msg) /\ Reply \in Msg /\ MsgChan'[c] = Append(MsgChan[c], Reply)
      BY <1>1 DEF TypeInv, TypeOK, Msg
    <3> QED
      BY <3>1, CarriesAppend, PoolAssumption
  <2> QED
    BY <1>1, <1>2, <2>1 DEF OutInv, TakenInv, Somewhere, Serving, taskVars
<1> QED
  BY <1>1, <1>2, <1>3, <1>4, TakenStays DEF OutInv, TypeInv

LEMMA TakeOut ==
  ASSUME TypeInv, Labels, OutInv, NEW c \in Conn, ConsumeMessageTake(c)
  PROVE  OutInv'
<1>1. /\ UNCHANGED <<wire, taskVars>> /\ pc["consumer"][c] = "select" /\ MsgChan[c] # <<>>
      /\ pc' = [pc EXCEPT !["consumer"][c] = "write"]
      /\ hand' = [hand EXCEPT ![c] = <<Head(MsgChan[c])>>]
      /\ MsgChan' = [MsgChan EXCEPT ![c] = Tail(MsgChan[c])]
  BY DEF ConsumeMessageTake, Goto
<1>2. /\ \A d \in Conn : /\ pc'["reader"][d] = pc["reader"][d]
                         /\ d # c => /\ pc'["consumer"][d] = pc["consumer"][d]
                                     /\ hand'[d] = hand[d] /\ MsgChan'[d] = MsgChan[d]
      /\ pc'["consumer"][c] = "write" /\ hand'[c] = <<Head(MsgChan[c])>>
      /\ MsgChan'[c] = Tail(MsgChan[c]) /\ MsgChan[c] \in Seq(Msg)
  BY <1>1 DEF TypeInv, TypeOK, Role
<1>3. /\ Head(MsgChan[c]) \in Msg /\ Tail(MsgChan[c]) \in Seq(Msg)
      /\ <<Head(MsgChan[c])>> \o Tail(MsgChan[c]) = MsgChan[c]
  BY <1>1, <1>2, HeadTail
<1>4. HandInv'
  BY <1>2, <1>3 DEF OutInv, HandInv
<1>5. FreshInv'
  <2>1. pc["reader"][c] \notin {"none", "ready", "adding"}
    BY <1>1 DEF Labels
  <2> QED
    BY <1>2, <2>1 DEF OutInv, FreshInv
<1>6. TakenInv'
  <2>1. hand[c] = <<>>
    BY <1>1 DEF OutInv, HandInv
  <2>2. <<Head(MsgChan[c])>> \in Seq(Msg)
    BY <1>3
  <2>3. \A t : Carries(MsgChan[c], t) <=> Carries(hand'[c], t) \/ Carries(MsgChan'[c], t)
    <3>1. \A t : Carries(<<Head(MsgChan[c])>> \o Tail(MsgChan[c]), t)
                  <=> Carries(<<Head(MsgChan[c])>>, t) \/ Carries(Tail(MsgChan[c]), t)
      BY <1>3, <2>2, CarriesConcat
    <3> QED
      BY <1>2, <1>3, <3>1
  <2>4. \A t : ~Carries(hand[c], t)
    BY <2>1 DEF Carries
  <2> QED
    BY <1>1, <1>2, <2>3, <2>4 DEF OutInv, TakenInv, Somewhere, Serving, taskVars
<1> QED
  BY <1>1, <1>2, <1>4, <1>5, <1>6, TakenStays DEF OutInv, TypeInv

LEMMA WriteOut ==
  ASSUME TypeInv, Labels, OutInv, NEW c \in Conn, WriteMessage(c)
  PROVE  OutInv'
<1>1. /\ UNCHANGED <<MsgChan, taskVars>> /\ pc["consumer"][c] = "write"
      /\ pc' = [pc EXCEPT !["consumer"][c] = "select"]
      /\ hand' = [hand EXCEPT ![c] = <<>>]
      /\ wire' = [wire EXCEPT ![c] = wire[c] \o hand[c]]
  BY DEF WriteMessage, Goto
<1>2. /\ \A d \in Conn : /\ pc'["reader"][d] = pc["reader"][d]
                         /\ d # c => /\ pc'["consumer"][d] = pc["consumer"][d]
                                     /\ hand'[d] = hand[d] /\ wire'[d] = wire[d]
      /\ pc'["consumer"][c] = "select" /\ hand'[c] = <<>> /\ wire'[c] = wire[c] \o hand[c]
      /\ wire[c] \in Seq(Msg) /\ hand[c] \in Seq(Msg)
  BY <1>1 DEF TypeInv, TypeOK, Role
<1>3. HandInv' /\ FreshInv'
  BY <1>1, <1>2 DEF OutInv, HandInv, FreshInv
<1>4. TakenInv'
  <2>1. \A t : Carries(wire'[c], t) <=> Carries(wire[c], t) \/ Carries(hand[c], t)
    BY <1>2, CarriesConcat
  <2>2. \A t : ~Carries(hand'[c], t)
    BY <1>2 DEF Carries
  <2> QED
    BY <1>1, <1>2, <2>1, <2>2 DEF OutInv, TakenInv, Somewhere, Serving, taskVars
<1> QED
  BY <1>1, <1>2, <1>3, <1>4, TakenStays DEF OutInv, TypeInv

LEMMA EndOut ==
  ASSUME TypeInv, Labels, OutInv, NEW c \in Conn, WriteError(c) \/ ConsumeMessageDone(c)
  PROVE  OutInv'
<1>1. /\ UNCHANGED <<MsgChan, wire, taskVars>>
      /\ \E l \in {"rm", "done"} : pc' = [pc EXCEPT !["consumer"][c] = l]
      /\ hand' = [hand EXCEPT ![c] = <<>>]
  <2>1. CASE WriteError(c)
    BY <2>1 DEF WriteError, Goto
  <2>2. CASE ConsumeMessageDone(c)
    <3>1. hand[c] = <<>>
      BY <2>2 DEF ConsumeMessageDone, OutInv, HandInv
    <3>2. hand' = hand
      BY <2>2 DEF ConsumeMessageDone
    <3>3. hand' = [hand EXCEPT ![c] = <<>>]
      BY <3>1, <3>2 DEF TypeInv, TypeOK
    <3> QED
      BY <2>2, <3>3 DEF ConsumeMessageDone, Goto
  <2> QED
    BY <2>1, <2>2
<1>2. /\ \A d \in Conn : /\ pc'["reader"][d] = pc["reader"][d]
                         /\ d # c => /\ pc'["consumer"][d] = pc["consumer"][d]
                                     /\ hand'[d] = hand[d]
      /\ pc'["consumer"][c] \in {"rm", "done"} /\ hand'[c] = <<>>
  BY <1>1 DEF TypeInv, TypeOK, Role
<1>3. HandInv' /\ FreshInv'
  BY <1>1, <1>2 DEF OutInv, HandInv, FreshInv
<1>4. TakenInv'
  <2>1. \A t : ~Carries(hand'[c], t)
    BY <1>2 DEF Carries
  <2> QED
    BY <1>1, <1>2, <2>1 DEF OutInv, TakenInv, Somewhere, Serving, taskVars
<1> QED
  BY <1>1, <1>2, <1>3, <1>4, TakenStays DEF OutInv, TypeInv

-----------------------------------------------------------------------------
(* Steps of a broadcast. *)

LEMMA SnapshotOut ==
  ASSUME IInv, OutInv, NEW t \in Task, SendAllSnapshot(t)
  PROVE  OutInv'
<1>1. /\ UNCHANGED <<pc, MsgChan, hand, wire, item, accepted>> /\ tpc[t] = "idle"
      /\ snap' = [snap EXCEPT ![t] = Devices(Target[t])]
      /\ \/ /\ tpc' = [tpc EXCEPT ![t] = "done"]
            /\ result' = [result EXCEPT ![t] = "ErrUserOffline"]
         \/ tpc' = [tpc EXCEPT ![t] = "loop"] /\ result' = result
  BY DEF SendAllSnapshot, connVars
<1>2. \A c \in Devices(Target[t]) : c \in Conn /\ pc["consumer"][c] # "none"
  <2>1. Target[t] \in Uid
    BY PoolAssumption
  <2>2. ASSUME NEW c \in subMap[Target[t]] PROVE c \in Conn /\ pc["consumer"][c] # "none"
    <3>1. c \in Conn /\ Registered(c)
      BY <2>1, <2>2 DEF IInv, TypeInv, TypeOK, MapsAgree, Registered
    <3> QED
      BY <3>1 DEF IInv, Labels, Life, NotYetAdded
  <2> QED
    BY <2>2 DEF Devices
<1>3. \A q \in Task : q # t => snap'[q] = snap[q] /\ tpc'[q] = tpc[q] /\ result'[q] = result[q]
  BY <1>1 DEF IInv, TypeInv, TypeOK
<1>4. VisitInv'
  <2>1. \A q \in Task : q # t => Visit(q)'
    BY <1>1, <1>3 DEF OutInv, VisitInv, Visit
  <2>2. /\ snap'[t] = Devices(Target[t]) /\ accepted[t] = {} /\ item[t] = NoConn
        /\ tpc'[t] \in {"loop", "done"}
    BY <1>1 DEF OutInv, VisitInv, Visit, IInv, TypeInv, TypeOK
  <2>3. Visit(t)'
    BY <1>1, <1>2, <2>2, PoolAssumption DEF Visit
  <2> QED
    BY <2>1, <2>3 DEF VisitInv
<1>5. ResultInv'
  <2>1. accepted[t] = {} /\ result[t] = "none"
    BY <1>1 DEF OutInv, VisitInv, Visit, ResultInv
  <2> QED
    BY <1>1, <1>3, <2>1 DEF OutInv, ResultInv, IInv, TypeInv, TypeOK
<1>6. HandInv' /\ FreshInv' /\ TakenInv'
  BY <1>1 DEF OutInv, HandInv, FreshInv, TakenInv, Somewhere, Serving
<1> QED
  BY <1>4, <1>5, <1>6 DEF OutInv

LEMMA CheckOut ==
  ASSUME TypeInv, OutInv, NEW t \in Task, SendAllCheck(t)
  PROVE  OutInv'
<1>1. PICK c \in snap[t] :
        /\ UNCHANGED <<pc, MsgChan, hand, wire, accepted, result>> /\ tpc[t] = "loop"
        /\ snap' = [snap EXCEPT ![t] = snap[t] \ {c}]
        /\ \/ tpc' = tpc /\ item' = item
           \/ tpc' = [tpc EXCEPT ![t] = "send"] /\ item' = [item EXCEPT ![t] = c]
  BY DEF SendAllCheck, connVars
<1>2. \A q \in Task : q # t => snap'[q] = snap[q] /\ tpc'[q] = tpc[q] /\ item'[q] = item[q]
  BY <1>1 DEF TypeInv, TypeOK
<1>3. /\ snap'[t] = snap[t] \ {c}
      /\ \/ tpc'[t] = "loop" /\ item'[t] = item[t]
         \/ tpc'[t] = "send" /\ item'[t] = c
  BY <1>1 DEF TypeInv, TypeOK
<1>4. VisitInv'
  <2>1. \A q \in Task : q # t => Visit(q)'
    BY <1>1, <1>2 DEF OutInv, VisitInv, Visit
  <2>2. Visit(t)'
    BY <1>1, <1>3 DEF OutInv, VisitInv, Visit
  <2> QED
    BY <2>1, <2>2 DEF VisitInv
<1>5. ResultInv'
  BY <1>1, <1>2, <1>3 DEF OutInv, ResultInv
<1>6. HandInv' /\ FreshInv' /\ TakenInv'
  BY <1>1 DEF OutInv, HandInv, FreshInv, TakenInv, Somewhere, Serving
<1> QED
  BY <1>4, <1>5, <1>6 DEF OutInv

LEMMA ReturnOut ==
  ASSUME TypeInv, OutInv, NEW t \in Task, SendAllReturn(t)
  PROVE  OutInv'
<1>1. /\ UNCHANGED <<pc, MsgChan, hand, wire, snap, item, accepted>> /\ tpc[t] = "loop"
      /\ tpc' = [tpc EXCEPT ![t] = "done"]
      /\ result' = [result EXCEPT ![t] = IF accepted[t] # {} THEN "nil" ELSE "ErrUserOffline"]
  BY DEF SendAllReturn, connVars
<1>2. VisitInv'
  BY <1>1 DEF OutInv, VisitInv, Visit, TypeInv, TypeOK
<1>3. ResultInv'
  BY <1>1 DEF OutInv, ResultInv, TypeInv, TypeOK
<1>4. HandInv' /\ FreshInv' /\ TakenInv'
  BY <1>1 DEF OutInv, HandInv, FreshInv, TakenInv, Somewhere, Serving
<1> QED
  BY <1>2, <1>3, <1>4 DEF OutInv

\* What a send does: the device takes the broadcast, or its channel is full.
LEMMA SendIs ==
  ASSUME TypeInv, OutInv, NEW t \in Task, SendAllSend(t)
  PROVE  /\ item[t] \in Conn /\ pc["consumer"][item[t]] # "none" /\ item[t] \notin accepted[t]
         /\ UNCHANGED <<pc, hand, wire, snap, result>> /\ tpc[t] = "send"
         /\ tpc' = [tpc EXCEPT ![t] = "loop"] /\ item' = [item EXCEPT ![t] = NoConn]
         /\ IF HasRoom(item[t])
              THEN /\ MsgChan' = [MsgChan EXCEPT ![item[t]] = Append(MsgChan[item[t]], t)]
                   /\ accepted' = [accepted EXCEPT ![t] = accepted[t] \cup {item[t]}]
              ELSE UNCHANGED <<MsgChan, accepted>>
<1>1. tpc[t] = "send" /\ item[t] \in Conn
  BY DEF SendAllSend, TypeInv, SendHasItem
<1>2. pc["consumer"][item[t]] # "none" /\ item[t] \notin accepted[t]
  BY <1>1 DEF OutInv, VisitInv, Visit
<1> QED
  BY <1>1, <1>2 DEF SendAllSend, Enqueue

LEMMA SendOut ==
  ASSUME TypeInv, Labels, OutInv, NEW t \in Task, SendAllSend(t)
  PROVE  OutInv'
<1> DEFINE c == item[t]
<1>1. /\ c \in Conn /\ pc["consumer"][c] # "none" /\ c \notin accepted[t]
      /\ UNCHANGED <<pc, hand, wire, snap, result>> /\ tpc[t] = "send"
      /\ tpc' = [tpc EXCEPT ![t] = "loop"] /\ item' = [item EXCEPT ![t] = NoConn]
      /\ IF HasRoom(c) THEN /\ MsgChan' = [MsgChan EXCEPT ![c] = Append(MsgChan[c], t)]
                            /\ accepted' = [accepted EXCEPT ![t] = accepted[t] \cup {c}]
                       ELSE UNCHANGED <<MsgChan, accepted>>
  BY SendIs
<1>2. /\ \A q \in Task : q # t => item'[q] = item[q] /\ tpc'[q] = tpc[q] /\ accepted'[q] = accepted[q]
      /\ tpc'[t] = "loop" /\ item'[t] = NoConn /\ accepted'[t] \subseteq accepted[t] \cup {c}
      /\ accepted[t] \subseteq accepted'[t]
      /\ \A d \in Conn \ {c} : MsgChan'[d] = MsgChan[d]
  BY <1>1 DEF TypeInv, TypeOK
<1>3. VisitInv'
  <2>1. \A q \in Task : q # t => Visit(q)'
    BY <1>1, <1>2 DEF OutInv, VisitInv, Visit
  <2>2. \A d \in snap[t] : d \in Conn /\ d # c /\ d \notin accepted[t]
    BY DEF OutInv, VisitInv, Visit, TypeInv, TypeOK
  <2>3. Visit(t)'
    <3> HIDE DEF c
    <3> QED
      BY <1>1, <1>2, <2>2, PoolAssumption DEF OutInv, VisitInv, Visit
  <2> QED
    BY <2>1, <2>3 DEF VisitInv
<1>4. ResultInv'
  <2>1. result[t] = "none"
    BY <1>1 DEF OutInv, ResultInv
  <2> QED
    BY <1>1, <1>2, <2>1 DEF OutInv, ResultInv
<1>5. HandInv' /\ FreshInv'
  <2>1. pc["reader"][c] \notin {"none", "ready", "adding"}
    BY <1>1 DEF Labels
  <2> QED
    BY <1>1, <1>2, <2>1 DEF OutInv, HandInv, FreshInv
<1>6. TakenInv'
  <2>1. CASE ~HasRoom(c)
    BY <1>1, <2>1 DEF OutInv, TakenInv, Somewhere, Serving
  <2>2. CASE HasRoom(c)
    <3>1. MsgChan[c] \in Seq(Msg) /\ t \in Msg /\ MsgChan'[c] = Append(MsgChan[c], t)
      BY <1>1, <2>2 DEF TypeInv, TypeOK, Msg
    <3>2. \A m : Carries(MsgChan'[c], m) <=> Carries(MsgChan[c], m) \/ m = t
      BY <3>1, CarriesAppend
    <3>3. accepted'[t] = accepted[t] \cup {c}
      BY <1>1, <2>2 DEF TypeInv, TypeOK
    <3> HIDE DEF c
    <3> QED
      BY <1>1, <1>2, <3>2, <3>3 DEF OutInv, TakenInv, Somewhere, Serving
  <2> QED
    BY <2>1, <2>2
<1> QED
  BY <1>3, <1>4, <1>5, <1>6 DEF OutInv

-----------------------------------------------------------------------------
LEMMA OutInit == Init => OutInv
<1> SUFFICES ASSUME Init PROVE OutInv
  OBVIOUS
<1>1. \A c \in Conn : /\ MsgChan[c] = <<>> /\ hand[c] = <<>> /\ wire[c] = <<>>
                      /\ pc["consumer"][c] = "none" /\ pc["reader"][c] = "none"
  BY DEF Init, Role
<1>2. \A t \in Task : /\ tpc[t] = "idle" /\ snap[t] = {} /\ item[t] = NoConn
                      /\ accepted[t] = {} /\ result[t] = "none"
  BY DEF Init
<1>3. \A m : ~Carries(<<>>, m)
  BY DEF Carries
<1> QED
  BY <1>1, <1>2, <1>3, PoolAssumption
  DEF OutInv, HandInv, FreshInv, VisitInv, Visit, ResultInv, TakenInv, Somewhere, Serving

LEMMA OutStep == IInv /\ OutInv /\ [Next]_vars => OutInv'
<1> SUFFICES ASSUME IInv, OutInv, [Next]_vars PROVE OutInv'
  OBVIOUS
<1>0. TypeInv /\ TypeOK /\ Labels
  BY DEF IInv, TypeInv
<1>1. ASSUME NEW c \in Conn, Reader(c) \/ PeerGone(c) PROVE OutInv'
  <2>1. CASE AddConnReady(c) \/ AddConnRegister(c)
    BY <1>0, <2>1, AddReadyOut, AddRegisterOut
  <2>2. CASE SingleSend(c) /\ HasRoom(c)
    BY <1>0, <2>2, SingleSendOut
  <2>3. CASE \/ AddConnLock(c) \/ ReadFrame(c) \/ ReadFramePanic(c) \/ ReadError(c)
             \/ SingleLookup(c) \/ SingleCheck(c) \/ (SingleSend(c) /\ ~HasRoom(c)) \/ PeerGone(c)
    BY <1>0, <2>3, CalmReader, CalmStep
  <2> QED
    BY <1>1, <2>1, <2>2, <2>3 DEF Reader
<1>2. ASSUME NEW c \in Conn, Consumer(c) PROVE OutInv'
  BY <1>0, <1>2, TakeOut, WriteOut, EndOut DEF Consumer
<1>3. ASSUME NEW c \in Conn, NEW r \in Role, Remove(r, c) PROVE OutInv'
  BY <1>0, <1>3, CalmRemove, CalmStep
<1>4. ASSUME NEW t \in Task, SendAll(t) PROVE OutInv'
  BY <1>0, <1>4, SnapshotOut, CheckOut, SendOut, ReturnOut DEF SendAll
<1>5. CASE UNCHANGED vars
  <2>1. Calm
    BY <1>5 DEF Calm, vars, connVars
  <2> QED
    BY <1>0, <2>1, CalmStep
<1> QED
  BY <1>1, <1>2, <1>3, <1>4, <1>5 DEF Next

\* The messages of a device, as the properties name them.
LEMMA SomewhereIs ==
  ASSUME TypeOK, NEW c \in Conn, NEW m
  PROVE  Carries(wire[c] \o Held(c), m) <=> Somewhere(c, m)
<1>1. wire[c] \in Seq(Msg) /\ hand[c] \in Seq(Msg) /\ MsgChan[c] \in Seq(Msg)
  BY DEF TypeOK
<1>2. hand[c] \o MsgChan[c] \in Seq(Msg)
  BY <1>1, ConcatProperties
<1>3. /\ Carries(wire[c] \o (hand[c] \o MsgChan[c]), m)
           <=> Carries(wire[c], m) \/ Carries(hand[c] \o MsgChan[c], m)
      /\ Carries(hand[c] \o MsgChan[c], m) <=> Carries(hand[c], m) \/ Carries(MsgChan[c], m)
  BY <1>1, <1>2, CarriesConcat
<1> QED
  BY <1>3 DEF Somewhere, Held

\* A broadcast that reported its user offline reached no device, whatever the
\* devices did meanwhile (SendAllConnOfUid, createMessage's early return).
THEOREM OfflineIsTrue == Spec => []OfflineReachedNobody
<1>1. IInv /\ OutInv => OfflineReachedNobody
  <2> SUFFICES ASSUME IInv, OutInv, NEW t \in Task, result[t] = "ErrUserOffline", NEW c \in Conn
               PROVE  ~Carries(wire[c] \o Held(c), t)
    BY DEF OfflineReachedNobody
  <2>1. accepted[t] = {}
    BY DEF OutInv, ResultInv
  <2>2. ~Somewhere(c, t)
    BY <2>1 DEF OutInv, TakenInv
  <2> QED
    BY <2>2, SomewhereIs DEF IInv, TypeInv
<1> QED
  BY <1>1, SafetyInit, SafetyStep, OutInit, OutStep, PTL DEF Spec

\* A broadcast that reported success is written to or on its way to a device,
\* or some device that took it has ended.
THEOREM SuccessIsHeld == Spec => []NilIsHeldOrDeviceEnded
<1>1. IInv /\ OutInv => NilIsHeldOrDeviceEnded
  <2> SUFFICES ASSUME IInv, OutInv, NEW t \in Task, result[t] = "nil"
               PROVE  \E c \in accepted[t] : \/ Carries(wire[c] \o Held(c), t)
                                             \/ pc["consumer"][c] \notin {"select", "write"}
    BY DEF NilIsHeldOrDeviceEnded
  <2>1. PICK c \in accepted[t] : c \in Conn
    BY DEF OutInv, ResultInv, IInv, TypeInv, TypeOK
  <2>2. Serving(c) => Somewhere(c, t)
    BY <2>1 DEF OutInv, TakenInv
  <2> QED
    BY <2>1, <2>2, SomewhereIs DEF IInv, TypeInv, Serving
<1> QED
  BY <1>1, SafetyInit, SafetyStep, OutInit, OutStep, PTL DEF Spec

-----------------------------------------------------------------------------
(* Every connection is an outbox: DeviceOutbox is implemented. *)

\* The state of DeviceOutbox that a state of the pool stands for.
Status(c)  == IF pc["consumer"][c] = "none" THEN "new" ELSE IF Serving(c) THEN "open" ELSE "closed"
Holding(c) == IF Serving(c) THEN Held(c) ELSE <<>>
TakenBy(c) == {t \in Task : c \in accepted[t]}
StatusMap  == [c \in Conn |-> Status(c)]
HoldingMap == [c \in Conn |-> Holding(c)]
TakenMap   == [c \in Conn |-> TakenBy(c)]

Same == UNCHANGED <<StatusMap, HoldingMap, TakenMap, wire>>

LEMMA SameIsStutter == Same => UNCHANGED Outbox!vars
BY DEF Same, Outbox!vars, StatusMap, HoldingMap, TakenMap, Status, Holding, TakenBy

\* Steps that change neither what a device holds nor who serves it.
LEMMA SameIf ==
  ASSUME UNCHANGED <<accepted, wire>>,
         \A c \in Conn : Status(c)' = Status(c) /\ Holding(c)' = Holding(c)
  PROVE  Same
BY DEF Same, StatusMap, HoldingMap, TakenMap, TakenBy

LEMMA CalmSame ==
  ASSUME Calm
  PROVE  Same
<1>1. \A c \in Conn : Status(c)' = Status(c) /\ Holding(c)' = Holding(c)
  BY DEF Calm, Status, Holding, Serving, Held
<1> QED
  BY <1>1, SameIf DEF Calm, taskVars

LEMMA AddReadySame ==
  ASSUME TypeInv, Labels, NEW c \in Conn, AddConnReady(c)
  PROVE  Same
<1>1. /\ UNCHANGED <<hand, wire, accepted>> /\ pc["reader"][c] = "ready"
      /\ pc' = [pc EXCEPT !["reader"][c] = "adding"]
      /\ MsgChan' = [MsgChan EXCEPT ![c] = Append(MsgChan[c], Ready)]
  BY DEF AddConnReady, Goto, Enqueue, taskVars
<1>2. \A d \in Conn : /\ pc'["consumer"][d] = pc["consumer"][d]
                      /\ d # c => MsgChan'[d] = MsgChan[d]
  BY <1>1 DEF TypeInv, TypeOK, Role
<1>3. pc["consumer"][c] = "none"
  BY <1>1 DEF Labels
<1>4. \A d \in Conn : Status(d)' = Status(d) /\ Holding(d)' = Holding(d)
  BY <1>1, <1>2, <1>3 DEF Status, Holding, Serving, Held
<1> QED
  BY <1>1, <1>4, SameIf

LEMMA TakeSame ==
  ASSUME TypeInv, OutInv, NEW c \in Conn, ConsumeMessageTake(c)
  PROVE  Same
<1>1. /\ UNCHANGED <<wire, accepted>> /\ pc["consumer"][c] = "select" /\ MsgChan[c] # <<>>
      /\ pc' = [pc EXCEPT !["consumer"][c] = "write"]
      /\ hand' = [hand EXCEPT ![c] = <<Head(MsgChan[c])>>]
      /\ MsgChan' = [MsgChan EXCEPT ![c] = Tail(MsgChan[c])]
  BY DEF ConsumeMessageTake, Goto, taskVars
<1>2. /\ \A d \in Conn : d # c => /\ pc'["consumer"][d] = pc["consumer"][d]
                                  /\ hand'[d] = hand[d] /\ MsgChan'[d] = MsgChan[d]
      /\ pc'["consumer"][c] = "write" /\ hand'[c] = <<Head(MsgChan[c])>>
      /\ MsgChan'[c] = Tail(MsgChan[c]) /\ MsgChan[c] \in Seq(Msg)
  BY <1>1 DEF TypeInv, TypeOK, Role
<1>3. Held(c)' = Held(c)
  <2>1. hand[c] = <<>>
    BY <1>1 DEF OutInv, HandInv
  <2>2. <<>> \o MsgChan[c] = MsgChan[c]
    BY <1>2, ConcatEmptySeq
  <2>3. <<Head(MsgChan[c])>> \o Tail(MsgChan[c]) = MsgChan[c]
    BY <1>1, <1>2, HeadTail
  <2> QED
    BY <1>2, <2>1, <2>2, <2>3 DEF Held
<1>4. \A d \in Conn : Status(d)' = Status(d) /\ Holding(d)' = Holding(d)
  <2>1. \A d \in Conn \ {c} : Status(d)' = Status(d) /\ Holding(d)' = Holding(d)
    BY <1>2 DEF Status, Holding, Serving, Held
  <2>2. Status(c)' = Status(c) /\ Holding(c)' = Holding(c)
    BY <1>1, <1>2, <1>3 DEF Status, Holding, Serving
  <2> QED
    BY <2>1, <2>2
<1> QED
  BY <1>1, <1>4, SameIf

\* AddConn opens the outbox with the ready message.
LEMMA RegisterOpensIt ==
  ASSUME TypeInv, Labels, OutInv, NEW c \in Conn, AddConnRegister(c)
  PROVE  Outbox!Open(c)
<1>1. /\ UNCHANGED <<MsgChan, hand, wire, accepted>> /\ pc["reader"][c] = "adding"
      /\ pc' = [pc EXCEPT !["reader"][c] = "read", !["consumer"][c] = "select"]
  BY DEF AddConnRegister, taskVars
<1>2. /\ \A d \in Conn \ {c} : pc'["consumer"][d] = pc["consumer"][d]
      /\ pc'["consumer"][c] = "select" /\ pc["consumer"][c] = "none"
  BY <1>1 DEF TypeInv, TypeOK, Role, Labels
<1>3. Held(c)' = <<Ready>>
  <2>1. hand[c] = <<>> /\ MsgChan[c] = <<Ready>>
    BY <1>1, <1>2 DEF OutInv, HandInv, FreshInv
  <2>2. <<>> \o <<Ready>> = <<Ready>>
    OBVIOUS
  <2> QED
    BY <1>1, <2>1, <2>2 DEF Held
<1>4. Status(c) = "new" /\ StatusMap' = [StatusMap EXCEPT ![c] = "open"]
  BY <1>2 DEF StatusMap, Status, Serving
<1>5. HoldingMap' = [HoldingMap EXCEPT ![c] = <<Ready>>]
  <2>1. Holding(c)' = <<Ready>>
    BY <1>2, <1>3 DEF Holding, Serving
  <2>2. \A d \in Conn \ {c} : Holding(d)' = Holding(d)
    BY <1>1, <1>2 DEF Holding, Serving, Held
  <2> QED
    BY <2>1, <2>2 DEF HoldingMap
<1>6. TakenMap' = TakenMap /\ wire' = wire
  BY <1>1 DEF TakenMap, TakenBy
<1>7. StatusMap[c] = "new"
  BY <1>4 DEF StatusMap
<1> QED
  BY <1>4, <1>5, <1>6, <1>7
  DEF Outbox!Open, StatusMap, HoldingMap, TakenMap, Status, Holding, TakenBy

\* Appending to a channel with room appends to the outbox of a served device.
LEMMA AppendHolds ==
  ASSUME TypeInv, OutInv, NEW c \in Conn, NEW m \in Msg, HasRoom(c), Serving(c),
         UNCHANGED <<hand, wire>>, \A d \in Conn : pc'["consumer"][d] = pc["consumer"][d],
         MsgChan' = [MsgChan EXCEPT ![c] = Append(MsgChan[c], m)]
  PROVE  /\ StatusMap[c] = "open" /\ StatusMap' = StatusMap
         /\ Len(HoldingMap[c]) < BufCap + 1
         /\ HoldingMap' = [HoldingMap EXCEPT ![c] = Append(HoldingMap[c], m)]
<1>1. /\ MsgChan[c] \in Seq(Msg) /\ hand[c] \in Seq(Msg)
      /\ MsgChan'[c] = Append(MsgChan[c], m) /\ \A d \in Conn \ {c} : MsgChan'[d] = MsgChan[d]
  BY DEF TypeInv, TypeOK
<1>2. StatusMap[c] = "open" /\ StatusMap' = StatusMap
  BY DEF StatusMap, Status, Serving
<1>3. HoldingMap[c] = hand[c] \o MsgChan[c]
  BY DEF HoldingMap, Holding, Held
<1>4. Len(HoldingMap[c]) < BufCap + 1
  <2>1. Len(hand[c] \o MsgChan[c]) = Len(hand[c]) + Len(MsgChan[c])
    BY <1>1, ConcatProperties
  <2>2. Len(hand[c]) \in {0, 1}
    <3>1. CASE pc["consumer"][c] = "write"
      <4>1. PICK n \in Msg : hand[c] = <<n>>
        BY <3>1 DEF OutInv, HandInv
      <4>2. Len(<<n>>) = 1
        OBVIOUS
      <4> QED
        BY <4>1, <4>2
    <3>2. CASE pc["consumer"][c] # "write"
      <4>1. hand[c] = <<>>
        BY <3>2 DEF OutInv, HandInv
      <4> QED
        BY <4>1
    <3> QED
      BY <3>1, <3>2
  <2>3. Len(MsgChan[c]) \in Nat /\ BufCap \in Nat /\ Len(MsgChan[c]) < BufCap
    BY <1>1, PoolAssumption DEF HasRoom
  <2>4. Len(hand[c]) + Len(MsgChan[c]) < BufCap + 1
    <3>1. \A a \in {0, 1}, b \in Nat, k \in Nat : b < k => a + b < k + 1
      OBVIOUS
    <3> QED
      BY <2>2, <2>3, <3>1
  <2> QED
    BY <1>3, <2>1, <2>4
<1>5. Holding(c)' = Append(hand[c] \o MsgChan[c], m)
  <2>1. Serving(c)' /\ Held(c)' = hand[c] \o Append(MsgChan[c], m)
    BY <1>1 DEF Serving, Held
  <2>2. hand[c] \o Append(MsgChan[c], m) = Append(hand[c] \o MsgChan[c], m)
    BY <1>1, ConcatAppend
  <2> QED
    BY <2>1, <2>2 DEF Holding
<1>6. \A d \in Conn \ {c} : Holding(d)' = Holding(d)
  BY <1>1 DEF Holding, Serving, Held
<1>7. HoldingMap' = [HoldingMap EXCEPT ![c] = Append(HoldingMap[c], m)]
  BY <1>3, <1>5, <1>6 DEF HoldingMap
<1> QED
  BY <1>2, <1>4, <1>7

LEMMA SingleSendAnswers ==
  ASSUME TypeInv, Labels, OutInv, NEW c \in Conn, SingleSend(c), HasRoom(c)
  PROVE  Same \/ Outbox!Answer(c)
<1>1. /\ UNCHANGED <<hand, wire, accepted>> /\ pc' = [pc EXCEPT !["reader"][c] = "read"]
      /\ MsgChan' = [MsgChan EXCEPT ![c] = Append(MsgChan[c], Reply)]
  BY DEF SingleSend, Goto, Enqueue, taskVars
<1>2. \A d \in Conn : pc'["consumer"][d] = pc["consumer"][d]
  BY <1>1 DEF TypeInv, TypeOK, Role
<1>3. CASE Serving(c)
  <2>1. /\ StatusMap[c] = "open" /\ StatusMap' = StatusMap
        /\ Len(HoldingMap[c]) < BufCap + 1
        /\ HoldingMap' = [HoldingMap EXCEPT ![c] = Append(HoldingMap[c], Reply)]
    <3>1. Reply \in Msg
      BY DEF Msg
    <3> QED
      BY <1>1, <1>2, <1>3, <3>1, AppendHolds
  <2>2. TakenMap' = TakenMap
    BY <1>1 DEF TakenMap, TakenBy
  <2> QED
    BY <1>1, <2>1, <2>2
    DEF Outbox!Answer, Outbox!HasRoom, StatusMap, HoldingMap, TakenMap, Status, Holding, TakenBy
<1>4. CASE ~Serving(c)
  <2>1. \A d \in Conn \ {c} : MsgChan'[d] = MsgChan[d]
    BY <1>1 DEF TypeInv, TypeOK
  <2>2. \A d \in Conn : Status(d)' = Status(d) /\ Holding(d)' = Holding(d)
    BY <1>1, <1>2, <1>4, <2>1 DEF Status, Holding, Serving, Held
  <2> QED
    BY <1>1, <2>2, SameIf
<1> QED
  BY <1>3, <1>4

LEMMA SendTakes ==
  ASSUME TypeInv, Labels, OutInv, NEW t \in Task, SendAllSend(t)
  PROVE  Same \/ \E c \in Conn : Outbox!Take(c, t) \/ Outbox!Lose(c, t)
<1>1. PICK c \in Conn :
        /\ pc["consumer"][c] # "none" /\ c \notin accepted[t]
        /\ UNCHANGED <<pc, hand, wire>>
        /\ IF HasRoom(c) THEN /\ MsgChan' = [MsgChan EXCEPT ![c] = Append(MsgChan[c], t)]
                              /\ accepted' = [accepted EXCEPT ![t] = accepted[t] \cup {c}]
                         ELSE UNCHANGED <<MsgChan, accepted>>
  BY SendIs
<1>2. CASE ~HasRoom(c)
  <2>1. \A d \in Conn : Status(d)' = Status(d) /\ Holding(d)' = Holding(d)
    BY <1>1, <1>2 DEF Status, Holding, Serving, Held
  <2> QED
    BY <1>1, <1>2, <2>1, SameIf
<1>3. CASE HasRoom(c)
  <2>1. t \notin TakenBy(c) /\ TakenMap' = [TakenMap EXCEPT ![c] = TakenMap[c] \cup {t}]
    <3>1. /\ \A q \in Task : q # t => accepted'[q] = accepted[q]
          /\ accepted'[t] = accepted[t] \cup {c}
      BY <1>1, <1>3 DEF TypeInv, TypeOK
    <3>2. \A d \in Conn : TakenBy(d)' = IF d = c THEN TakenBy(d) \cup {t} ELSE TakenBy(d)
      BY <3>1 DEF TakenBy
    <3>3. t \notin TakenBy(c)
      BY <1>1 DEF TakenBy
    <3>4. TakenMap' = [TakenMap EXCEPT ![c] = TakenMap[c] \cup {t}]
      BY <3>2 DEF TakenMap
    <3> QED
      BY <3>3, <3>4
  <2>2. t \notin TakenMap[c]
    BY <2>1 DEF TakenMap
  <2>3. CASE Serving(c)
    <3>1. /\ StatusMap[c] = "open" /\ StatusMap' = StatusMap
          /\ Len(HoldingMap[c]) < BufCap + 1
          /\ HoldingMap' = [HoldingMap EXCEPT ![c] = Append(HoldingMap[c], t)]
      <4>1. t \in Msg
        BY DEF Msg
      <4> QED
        BY <1>1, <1>3, <2>3, <4>1, AppendHolds
    <3>2. Outbox!Take(c, t)
      BY <1>1, <2>1, <2>2, <3>1
      DEF Outbox!Take, Outbox!HasRoom, StatusMap, HoldingMap, TakenMap, Status, Holding, TakenBy
    <3> QED
      BY <3>2
  <2>4. CASE ~Serving(c)
    <3>1. StatusMap[c] = "closed" /\ StatusMap' = StatusMap
      BY <1>1, <2>4 DEF StatusMap, Status, Serving
    <3>2. HoldingMap' = HoldingMap
      <4>1. \A d \in Conn \ {c} : MsgChan'[d] = MsgChan[d]
        BY <1>1, <1>3 DEF TypeInv, TypeOK
      <4>2. \A d \in Conn : Holding(d)' = Holding(d)
        BY <1>1, <2>4, <4>1 DEF Holding, Serving, Held
      <4> QED
        BY <4>2 DEF HoldingMap
    <3>3. Outbox!Lose(c, t)
      BY <1>1, <2>1, <2>2, <3>1, <3>2
      DEF Outbox!Lose, StatusMap, HoldingMap, TakenMap, Status, Holding, TakenBy
    <3> QED
      BY <3>3
  <2> QED
    BY <2>3, <2>4
<1> QED
  BY <1>2, <1>3

LEMMA WriteWrites ==
  ASSUME TypeInv, OutInv, NEW c \in Conn, WriteMessage(c)
  PROVE  Outbox!Write(c)
<1>1. /\ UNCHANGED <<MsgChan, accepted>> /\ pc["consumer"][c] = "write"
      /\ pc' = [pc EXCEPT !["consumer"][c] = "select"]
      /\ hand' = [hand EXCEPT ![c] = <<>>]
      /\ wire' = [wire EXCEPT ![c] = wire[c] \o hand[c]]
  BY DEF WriteMessage, Goto, taskVars
<1>2. PICK m \in Msg : hand[c] = <<m>>
  BY <1>1 DEF OutInv, HandInv
<1>3. /\ \A d \in Conn \ {c} : pc'["consumer"][d] = pc["consumer"][d] /\ hand'[d] = hand[d]
      /\ pc'["consumer"][c] = "select" /\ hand'[c] = <<>>
      /\ MsgChan[c] \in Seq(Msg) /\ wire[c] \in Seq(Msg)
  BY <1>1 DEF TypeInv, TypeOK, Role
<1>4. HoldingMap[c] = <<m>> \o MsgChan[c]
  BY <1>1, <1>2 DEF HoldingMap, Holding, Serving, Held
<1>5. HoldingMap[c] # <<>> /\ Head(HoldingMap[c]) = m /\ Tail(HoldingMap[c]) = MsgChan[c]
  BY <1>3, <1>4, OneThenRest
<1>6. HoldingMap' = [HoldingMap EXCEPT ![c] = Tail(HoldingMap[c])]
  <2>1. Holding(c)' = MsgChan[c]
    <3>1. <<>> \o MsgChan[c] = MsgChan[c]
      BY <1>3, ConcatEmptySeq
    <3> QED
      BY <1>1, <1>3, <3>1 DEF Holding, Serving, Held
  <2>2. \A d \in Conn \ {c} : Holding(d)' = Holding(d)
    BY <1>1, <1>3 DEF Holding, Serving, Held
  <2> QED
    BY <1>5, <2>1, <2>2 DEF HoldingMap
<1>7. wire' = [wire EXCEPT ![c] = Append(wire[c], m)]
  <2>1. Append(wire[c], m) = wire[c] \o <<m>>
    BY <1>3, AppendIsConcat
  <2> QED
    BY <1>1, <1>2, <2>1
<1>8. StatusMap' = StatusMap /\ TakenMap' = TakenMap
  BY <1>1, <1>3 DEF StatusMap, TakenMap, Status, Serving, TakenBy
<1> QED
  BY <1>5, <1>6, <1>7, <1>8
  DEF Outbox!Write, StatusMap, HoldingMap, TakenMap, Status, Holding, TakenBy

LEMMA EndCloses ==
  ASSUME TypeInv, OutInv, NEW c \in Conn, WriteError(c) \/ ConsumeMessageDone(c)
  PROVE  Outbox!Close(c)
<1>1. /\ UNCHANGED <<MsgChan, wire, accepted>> /\ Serving(c)
      /\ \E l \in {"rm", "done"} : pc' = [pc EXCEPT !["consumer"][c] = l]
      /\ \A d \in Conn \ {c} : hand'[d] = hand[d]
  BY DEF WriteError, ConsumeMessageDone, Goto, taskVars, Serving, TypeInv, TypeOK
<1>2. /\ \A d \in Conn \ {c} : pc'["consumer"][d] = pc["consumer"][d]
      /\ pc'["consumer"][c] \in {"rm", "done"}
  BY <1>1 DEF TypeInv, TypeOK, Role
<1>3. StatusMap[c] = "open" /\ StatusMap' = [StatusMap EXCEPT ![c] = "closed"]
  BY <1>1, <1>2 DEF StatusMap, Status, Serving
<1>4. HoldingMap' = [HoldingMap EXCEPT ![c] = <<>>]
  <2>1. Holding(c)' = <<>>
    BY <1>2 DEF Holding, Serving
  <2>2. \A d \in Conn \ {c} : Holding(d)' = Holding(d)
    BY <1>1, <1>2 DEF Holding, Serving, Held
  <2> QED
    BY <2>1, <2>2 DEF HoldingMap
<1>5. TakenMap' = TakenMap
  BY <1>1 DEF TakenMap, TakenBy
<1> QED
  BY <1>1, <1>3, <1>4, <1>5
  DEF Outbox!Close, StatusMap, HoldingMap, TakenMap, Status, Holding, TakenBy

LEMMA BroadcastSame ==
  ASSUME NEW t \in Task, SendAllSnapshot(t) \/ SendAllCheck(t) \/ SendAllReturn(t)
  PROVE  Same
<1>1. UNCHANGED <<pc, hand, MsgChan, wire, accepted>>
  BY DEF SendAllSnapshot, SendAllCheck, SendAllReturn, connVars
<1>2. \A d \in Conn : Status(d)' = Status(d) /\ Holding(d)' = Holding(d)
  BY <1>1 DEF Status, Holding, Serving, Held
<1> QED
  BY <1>1, <1>2, SameIf

LEMMA StepIsSameOrOutbox ==
  ASSUME IInv, OutInv, [Next]_vars
  PROVE  Same \/ Outbox!Next
<1>0. TypeInv /\ TypeOK /\ Labels
  BY DEF IInv, TypeInv
<1>1. ASSUME NEW c \in Conn, Reader(c) \/ PeerGone(c) PROVE Same \/ Outbox!Open(c) \/ Outbox!Answer(c)
  <2>1. CASE AddConnReady(c) \/ AddConnRegister(c)
    BY <1>0, <2>1, AddReadySame, RegisterOpensIt
  <2>2. CASE SingleSend(c) /\ HasRoom(c)
    BY <1>0, <2>2, SingleSendAnswers
  <2>3. CASE \/ AddConnLock(c) \/ ReadFrame(c) \/ ReadFramePanic(c) \/ ReadError(c)
             \/ SingleLookup(c) \/ SingleCheck(c) \/ (SingleSend(c) /\ ~HasRoom(c)) \/ PeerGone(c)
    BY <1>0, <2>3, CalmReader, CalmSame
  <2> QED
    BY <1>1, <2>1, <2>2, <2>3 DEF Reader
<1>2. ASSUME NEW c \in Conn, Consumer(c) PROVE Same \/ Outbox!Write(c) \/ Outbox!Close(c)
  BY <1>0, <1>2, TakeSame, WriteWrites, EndCloses DEF Consumer
<1>3. ASSUME NEW c \in Conn, NEW r \in Role, Remove(r, c) PROVE Same
  BY <1>0, <1>3, CalmRemove, CalmSame
<1>4. ASSUME NEW t \in Task, SendAll(t)
      PROVE  Same \/ \E c \in Conn : Outbox!Take(c, t) \/ Outbox!Lose(c, t)
  BY <1>0, <1>4, BroadcastSame, SendTakes DEF SendAll
<1>5. UNCHANGED vars => Same
  <2>1. UNCHANGED vars => Calm
    BY DEF Calm, vars, connVars
  <2> QED
    BY <2>1, CalmSame
<1> QED
  BY <1>1, <1>2, <1>3, <1>4, <1>5 DEF Next, Outbox!Next

\* Every connection behaves like the outbox of DeviceOutbox: each step of the
\* pool, of a goroutine or of a broadcast is a step of one device or none.
THEOREM PoolIsOutbox == Spec => ImplementsOutbox
<1>1. Init => Outbox!Init
  <2> SUFFICES ASSUME Init PROVE Outbox!Init
    OBVIOUS
  <2>1. \A c \in Conn : pc["consumer"][c] = "none" /\ wire[c] = <<>>
    BY DEF Init, Role
  <2>2. \A t \in Task : accepted[t] = {}
    BY DEF Init
  <2>3. wire = [c \in Conn |-> <<>>]
    BY DEF Init
  <2> QED
    BY <2>1, <2>2, <2>3 DEF Outbox!Init, Serving
<1>2. IInv /\ OutInv /\ [Next]_vars => [Outbox!Next]_(Outbox!vars)
  BY StepIsSameOrOutbox, SameIsStutter
<1> QED
  BY <1>1, <1>2, SafetyInit, SafetyStep, OutInit, OutStep, PTL DEF Spec, ImplementsOutbox

-----------------------------------------------------------------------------
(* Whom a broadcast reaches. *)

\* The snapshot of a broadcast, and what it does with it, is its target's.
AddressInv ==
  \A t \in Task : /\ \A c \in snap[t] \cup accepted[t] : Owner[c] = Target[t]
                  /\ item[t] \in Conn => Owner[item[t]] = Target[t]

\* Connections leave the variables of the broadcasts alone.
LEMMA TasksRest ==
  ASSUME NEW c \in Conn, NEW r \in Role,
         Reader(c) \/ Consumer(c) \/ PeerGone(c) \/ Remove(r, c)
  PROVE  UNCHANGED taskVars
<1>1. CASE Reader(c)
  BY <1>1 DEF Reader, AddConnLock, AddConnReady, AddConnRegister, ReadFrame, ReadFramePanic,
              ReadError, SingleLookup, SingleCheck, SingleSend
<1>2. CASE Consumer(c) \/ PeerGone(c)
  BY <1>2 DEF Consumer, ConsumeMessageDone, ConsumeMessageTake, WriteMessage, WriteError, PeerGone
<1>3. CASE Remove(r, c)
  BY <1>3 DEF Remove, RemoveConnLock, RemoveConnCancel, RemoveConnMark, RemoveConnDelete
<1> QED
  BY <1>1, <1>2, <1>3

LEMMA AddressStep == IInv /\ OutInv /\ AddressInv /\ [Next]_vars => AddressInv'
<1> SUFFICES ASSUME IInv, OutInv, AddressInv, [Next]_vars PROVE AddressInv'
  OBVIOUS
<1>0. TypeInv /\ TypeOK
  BY DEF IInv, TypeInv
<1>1. CASE UNCHANGED taskVars
  BY <1>1 DEF AddressInv, taskVars
<1>2. ASSUME NEW t \in Task, SendAllSnapshot(t) PROVE AddressInv'
  <2>1. /\ UNCHANGED <<item, accepted>> /\ snap' = [snap EXCEPT ![t] = Devices(Target[t])]
    BY <1>2 DEF SendAllSnapshot
  <2>2. \A c \in Devices(Target[t]) : Owner[c] = Target[t]
    BY PoolAssumption DEF Devices, IInv, MapsAgree
  <2> QED
    BY <1>0, <2>1, <2>2 DEF AddressInv, TypeOK
<1>3. ASSUME NEW t \in Task, SendAllCheck(t) PROVE AddressInv'
  <2>1. PICK c \in snap[t] :
          /\ accepted' = accepted /\ snap' = [snap EXCEPT ![t] = snap[t] \ {c}]
          /\ item' = item \/ item' = [item EXCEPT ![t] = c]
    BY <1>3 DEF SendAllCheck
  <2> QED
    BY <1>0, <2>1 DEF AddressInv, TypeOK
<1>4. ASSUME NEW t \in Task, SendAllSend(t) PROVE AddressInv'
  <2>1. /\ item[t] \in Conn /\ snap' = snap /\ item' = [item EXCEPT ![t] = NoConn]
        /\ \/ accepted' = [accepted EXCEPT ![t] = accepted[t] \cup {item[t]}]
           \/ accepted' = accepted
    BY <1>0, <1>4, SendIs
  <2> QED
    BY <1>0, <2>1, PoolAssumption DEF AddressInv, TypeOK
<1>5. ASSUME NEW t \in Task, SendAllReturn(t) PROVE AddressInv'
  BY <1>5 DEF SendAllReturn, AddressInv
<1>6. CASE UNCHANGED vars
  BY <1>1, <1>6 DEF vars
<1> QED
  BY <1>1, <1>2, <1>3, <1>4, <1>5, <1>6, TasksRest DEF Next, SendAll, Role

\* A broadcast is queued for, held by or written to connections of its target
\* only (SendAllConnOfUid takes its snapshot from the inner map of the user).
THEOREM BroadcastsReachTheirTarget == Spec => []OnlyTargetIsReached
<1>1. Init => AddressInv
  BY PoolAssumption DEF Init, AddressInv
<1>2. IInv /\ OutInv /\ AddressInv => OnlyTargetIsReached
  <2> SUFFICES ASSUME IInv, OutInv, AddressInv, NEW t \in Task, NEW c \in Conn,
                      Carries(wire[c] \o Held(c), t)
               PROVE  Owner[c] = Target[t]
    BY DEF OnlyTargetIsReached
  <2>1. Somewhere(c, t)
    BY SomewhereIs DEF IInv, TypeInv
  <2>2. c \in accepted[t]
    BY <2>1 DEF OutInv, TakenInv
  <2> QED
    BY <2>2 DEF AddressInv
<1> QED
  BY <1>1, <1>2, SafetyInit, SafetyStep, OutInit, OutStep, AddressStep, PTL DEF Spec

-----------------------------------------------------------------------------
(* What is written to a device. *)

LEMMA OrderAppend ==
  ASSUME NEW s \in Seq(Msg), NEW m \in Msg, InOrder(s),
         s = <<>> => m = Ready, s # <<>> => m = Reply \/ ~Carries(s, m)
  PROVE  InOrder(Append(s, m)) /\ Append(s, m) # <<>>
<1> DEFINE a == Append(s, m)
           n == Len(s)
<1>1. /\ DOMAIN a = 1 .. n + 1 /\ DOMAIN s = 1 .. n /\ n \in Nat
      /\ \A i \in 1 .. n : a[i] = s[i]
      /\ a[n + 1] = m /\ a # <<>> /\ Head(a) = a[1]
  OBVIOUS
<1>2. Head(a) = Ready
  <2>1. CASE s = <<>>
    BY <1>1, <2>1
  <2>2. CASE s # <<>>
    BY <1>1, <2>2 DEF InOrder
  <2> QED
    BY <2>1, <2>2
<1>3. ASSUME NEW i \in 1 .. n PROVE m = Reply \/ s[i] # m
  BY <1>1, <1>3 DEF Carries
<1>4. ASSUME NEW i \in DOMAIN a, NEW j \in DOMAIN a, a[i] = a[j], i # j
      PROVE  a[i] = Reply
  <2> HIDE DEF a, n
  <2>1. (i \in 1 .. n \/ i = n + 1) /\ (j \in 1 .. n \/ j = n + 1)
    BY <1>1
  <2>2. CASE i \in 1 .. n /\ j \in 1 .. n
    BY <1>1, <1>4, <2>2 DEF InOrder
  <2>3. CASE i = n + 1 /\ j \in 1 .. n
    BY <1>1, <1>3, <1>4, <2>3
  <2>4. CASE j = n + 1 /\ i \in 1 .. n
    BY <1>1, <1>3, <1>4, <2>4
  <2> QED
    BY <1>4, <2>1, <2>2, <2>3, <2>4
<1> QED
  BY <1>1, <1>2, <1>4 DEF InOrder

LEMMA OrderPrefix ==
  ASSUME NEW p \in Seq(Msg), NEW q \in Seq(Msg), InOrder(p \o q)
  PROVE  InOrder(p)
<1>1. /\ Len(p) \in Nat /\ Len(q) \in Nat /\ DOMAIN p = 1 .. Len(p)
      /\ DOMAIN (p \o q) = 1 .. Len(p) + Len(q)
      /\ \A i \in 1 .. Len(p) : i \in DOMAIN (p \o q) /\ (p \o q)[i] = p[i]
  BY ConcatProperties, LenProperties
<1>2. p # <<>> => p \o q # <<>> /\ Head(p) = Head(p \o q)
  <2> SUFFICES ASSUME p # <<>> PROVE p \o q # <<>> /\ Head(p) = Head(p \o q)
    OBVIOUS
  <2>1. 1 \in 1 .. Len(p)
    BY <1>1, EmptySeq
  <2>2. p \o q \in Seq(Msg) /\ p \o q # <<>>
    BY <1>1, <2>1, ConcatProperties
  <2>3. Head(p) = p[1] /\ Head(p \o q) = (p \o q)[1]
    BY <2>2, HeadTailProperties
  <2> QED
    BY <1>1, <2>1, <2>2, <2>3
<1> QED
  BY <1>1, <1>2 DEF InOrder

LEMMA WriteOne ==
  ASSUME NEW w \in Seq(Msg), NEW h \in Seq(Msg), h # <<>>
  PROVE  Append(w, Head(h)) \o Tail(h) = w \o h
<1>1. Head(h) \in Msg /\ Tail(h) \in Seq(Msg) /\ <<Head(h)>> \o Tail(h) = h
  BY HeadTail
<1>2. PICK m \in Msg, r \in Seq(Msg) : m = Head(h) /\ r = Tail(h)
  BY <1>1
<1>3. Append(w, m) = w \o <<m>> /\ <<m>> \in Seq(Msg)
  BY AppendIsConcat
<1>4. (w \o <<m>>) \o r = w \o (<<m>> \o r)
  BY <1>3, ConcatAssociative
<1> QED
  BY <1>1, <1>2, <1>3, <1>4

\* What a served device was written or will be, in order.
Stream(c) == wire[c] \o Holding(c)

OrderInv ==
  \A c \in Conn : /\ InOrder(Stream(c))
                  /\ Status(c) = "new" => wire[c] = <<>>
                  /\ Status(c) = "open" => Stream(c) # <<>>

LEMMA StreamType ==
  ASSUME TypeOK, NEW c \in Conn
  PROVE  wire[c] \in Seq(Msg) /\ Holding(c) \in Seq(Msg) /\ Stream(c) \in Seq(Msg)
<1>1. wire[c] \in Seq(Msg) /\ hand[c] \o MsgChan[c] \in Seq(Msg) /\ <<>> \in Seq(Msg)
  BY ConcatProperties DEF TypeOK
<1>2. Holding(c) \in Seq(Msg)
  BY <1>1 DEF Holding, Held
<1> QED
  BY <1>1, <1>2, ConcatProperties DEF Stream

\* A broadcast in the stream was taken by the device.
LEMMA StreamIsTaken ==
  ASSUME TypeOK, OutInv, NEW c \in Conn, NEW t \in Task, Carries(Stream(c), t)
  PROVE  t \in TakenBy(c)
<1>1. Carries(wire[c], t) \/ Carries(Holding(c), t)
  BY StreamType, CarriesConcat DEF Stream
<1>2. Carries(Holding(c), t) => Carries(hand[c], t) \/ Carries(MsgChan[c], t)
  <2>1. hand[c] \in Seq(Msg) /\ MsgChan[c] \in Seq(Msg) /\ ~Carries(<<>>, t)
    BY DEF TypeOK, Carries
  <2> QED
    BY <2>1, CarriesConcat DEF Holding, Held
<1> QED
  BY <1>1, <1>2 DEF OutInv, TakenInv, Somewhere, TakenBy

\* One lemma for each kind of step of an outbox, for the device that takes it.
Keeps(c)  == Status(c)' = Status(c) /\ wire'[c] = wire[c] /\ Holding(c)' = Holding(c)
Opens(c)  == /\ Status(c) = "new" /\ wire'[c] = wire[c]
             /\ Status(c)' = "open" /\ Holding(c)' = <<Ready>>
Adds(c)   == /\ Status(c) = "open" /\ Status(c)' = "open" /\ wire'[c] = wire[c]
             /\ \E m \in Msg : /\ m = Reply \/ m \in Task \ TakenBy(c)
                               /\ Holding(c)' = Append(Holding(c), m)
Writes(c) == /\ Status(c)' = Status(c) /\ Holding(c) # <<>>
             /\ wire'[c] = Append(wire[c], Head(Holding(c))) /\ Holding(c)' = Tail(Holding(c))
Closes(c) == Status(c)' = "closed" /\ wire'[c] = wire[c] /\ Holding(c)' = <<>>

LEMMA OrderKept ==
  ASSUME TypeOK, TypeOK', OutInv, OrderInv, NEW c \in Conn,
         Keeps(c) \/ Opens(c) \/ Adds(c) \/ Writes(c) \/ Closes(c)
  PROVE  /\ InOrder(Stream(c)')
         /\ Status(c)' = "new" => wire'[c] = <<>>
         /\ Status(c)' = "open" => Stream(c)' # <<>>
<1>0. /\ wire[c] \in Seq(Msg) /\ Holding(c) \in Seq(Msg) /\ Stream(c) \in Seq(Msg)
      /\ InOrder(Stream(c)) /\ Stream(c)' = wire'[c] \o Holding(c)'
  BY StreamType DEF OrderInv, Stream
<1>1. CASE Keeps(c)
  BY <1>0, <1>1 DEF Keeps, OrderInv, Stream
<1>2. CASE Opens(c)
  <2>1. wire'[c] = <<>> /\ Holding(c)' = <<Ready>>
    BY <1>2 DEF Opens, OrderInv
  <2>2. <<>> \o <<Ready>> = <<Ready>> /\ <<Ready>> # <<>>
    OBVIOUS
  <2>3. InOrder(<<Ready>>)
    BY DEF InOrder
  <2> QED
    BY <1>0, <2>1, <2>2, <2>3
<1>3. CASE Adds(c)
  <2>1. PICK m \in Msg : /\ m = Reply \/ m \in Task \ TakenBy(c)
                         /\ Holding(c)' = Append(Holding(c), m)
    BY <1>3 DEF Adds
  <2>2. Stream(c)' = Append(Stream(c), m)
    <3>1. Stream(c)' = wire[c] \o Append(Holding(c), m)
      BY <1>0, <1>3, <2>1 DEF Adds
    <3>2. wire[c] \o Append(Holding(c), m) = Append(wire[c] \o Holding(c), m)
      BY <1>0, ConcatAppend
    <3> QED
      BY <3>1, <3>2 DEF Stream
  <2>3. Stream(c) # <<>> /\ (m = Reply \/ ~Carries(Stream(c), m))
    BY <1>3, <2>1, StreamIsTaken DEF Adds, OrderInv
  <2>4. InOrder(Append(Stream(c), m)) /\ Append(Stream(c), m) # <<>>
    BY <1>0, <2>3, OrderAppend
  <2> QED
    BY <1>3, <2>2, <2>4 DEF Adds
<1>4. CASE Writes(c)
  <2>1. Append(wire[c], Head(Holding(c))) \o Tail(Holding(c)) = wire[c] \o Holding(c)
    BY <1>0, <1>4, WriteOne DEF Writes
  <2>2. Stream(c)' = Stream(c)
    BY <1>0, <1>4, <2>1 DEF Writes, Stream
  <2>3. Status(c) # "new"
    BY <1>4 DEF Writes, Status, Holding, Serving
  <2> QED
    BY <1>0, <1>4, <2>2, <2>3 DEF Writes, OrderInv
<1>5. CASE Closes(c)
  <2>1. Stream(c)' = wire[c]
    BY <1>0, <1>5, ConcatEmptySeq DEF Closes
  <2>2. InOrder(wire[c])
    BY <1>0, OrderPrefix DEF Stream
  <2> QED
    BY <1>5, <2>1, <2>2 DEF Closes
<1> QED
  BY <1>1, <1>2, <1>3, <1>4, <1>5

LEMMA OutboxStepIs ==
  ASSUME TypeOK, Same \/ Outbox!Next, NEW c \in Conn
  PROVE  Keeps(c) \/ Opens(c) \/ Adds(c) \/ Writes(c) \/ Closes(c)
<1>0. /\ StatusMap[c] = Status(c) /\ StatusMap'[c] = Status(c)'
      /\ HoldingMap[c] = Holding(c) /\ HoldingMap'[c] = Holding(c)'
      /\ TakenMap[c] = TakenBy(c)
  BY DEF StatusMap, HoldingMap, TakenMap
<1>1. CASE Same
  BY <1>0, <1>1 DEF Same, Keeps
<1>2. ASSUME NEW d \in Conn, Outbox!Open(d) PROVE Keeps(c) \/ Opens(c)
  BY <1>2 DEF Outbox!Open, Keeps, Opens, StatusMap, HoldingMap, TakenMap, Status, Holding, TakenBy
<1>3. ASSUME NEW d \in Conn, Outbox!Answer(d) PROVE Keeps(c) \/ Adds(c)
  <2>1. Reply \in Msg
    BY DEF Msg
  <2> QED
    BY <1>3, <2>1 DEF Outbox!Answer, Keeps, Adds,
                         StatusMap, HoldingMap, TakenMap, Status, Holding, TakenBy
<1>4. ASSUME NEW d \in Conn, NEW t \in Task, Outbox!Take(d, t) PROVE Keeps(c) \/ Adds(c)
  <2>1. /\ StatusMap[d] = "open" /\ StatusMap' = StatusMap /\ t \notin TakenMap[d]
        /\ HoldingMap' = [HoldingMap EXCEPT ![d] = Append(HoldingMap[d], t)] /\ wire' = wire
    BY <1>4 DEF Outbox!Take, StatusMap, HoldingMap, TakenMap, Status, Holding, TakenBy
  <2>2. t \in Msg /\ t \in Task
    BY DEF Msg
  <2>3. \A e \in Conn : Status(e)' = Status(e) /\ wire'[e] = wire[e]
    BY <2>1 DEF StatusMap
  <2>4. CASE c = d
    <3>1. Holding(c)' = Append(Holding(c), t)
      BY <2>1, <2>4 DEF HoldingMap
    <3>2. t \in Task \ TakenBy(c) /\ Status(c) = "open"
      BY <1>0, <2>1, <2>2, <2>4
    <3> QED
      BY <2>2, <2>3, <3>1, <3>2 DEF Adds
  <2>5. CASE c # d
    <3>1. Holding(c)' = Holding(c)
      BY <2>1, <2>5 DEF HoldingMap
    <3> QED
      BY <2>3, <3>1 DEF Keeps
  <2> QED
    BY <2>4, <2>5
<1>5. ASSUME NEW d \in Conn, NEW t \in Task, Outbox!Lose(d, t) PROVE Keeps(c)
  BY <1>5 DEF Outbox!Lose, Keeps, StatusMap, HoldingMap, TakenMap, Status, Holding, TakenBy
<1>6. ASSUME wire \in [Conn -> Seq(Msg)], NEW d \in Conn, Outbox!Write(d)
      PROVE  Keeps(c) \/ Writes(c)
  <2>1. /\ HoldingMap[d] # <<>> /\ StatusMap' = StatusMap
        /\ HoldingMap' = [HoldingMap EXCEPT ![d] = Tail(HoldingMap[d])]
        /\ wire' = [wire EXCEPT ![d] = Append(wire[d], Head(HoldingMap[d]))]
    BY <1>6 DEF Outbox!Write, StatusMap, HoldingMap, TakenMap, Status, Holding, TakenBy
  <2>2. \A e \in Conn : Status(e)' = Status(e)
    BY <2>1 DEF StatusMap
  <2>3. CASE c = d
    <3>1. Holding(c)' = Tail(Holding(c)) /\ Holding(c) # <<>>
      BY <2>1, <2>3 DEF HoldingMap
    <3>2. wire'[c] = Append(wire[c], Head(Holding(c)))
      BY <1>0, <1>6, <2>1, <2>3
    <3> QED
      BY <2>2, <3>1, <3>2 DEF Writes
  <2>4. CASE c # d
    <3>1. Holding(c)' = Holding(c)
      BY <2>1, <2>4 DEF HoldingMap
    <3>2. wire'[c] = wire[c]
      BY <1>6, <2>1, <2>4
    <3> QED
      BY <2>2, <3>1, <3>2 DEF Keeps
  <2> QED
    BY <2>3, <2>4
<1>7. ASSUME NEW d \in Conn, Outbox!Close(d) PROVE Keeps(c) \/ Closes(c)
  BY <1>7 DEF Outbox!Close, Keeps, Closes, StatusMap, HoldingMap, TakenMap, Status, Holding, TakenBy
<1> QED
  BY <1>1, <1>2, <1>3, <1>4, <1>5, <1>6, <1>7 DEF Outbox!Next, TypeOK

LEMMA OrderStep == IInv /\ OutInv /\ OrderInv /\ [Next]_vars => OrderInv'
<1> SUFFICES ASSUME IInv, OutInv, OrderInv, [Next]_vars, NEW c \in Conn
             PROVE  /\ InOrder(Stream(c)')
                    /\ Status(c)' = "new" => wire'[c] = <<>>
                    /\ Status(c)' = "open" => Stream(c)' # <<>>
  BY DEF OrderInv
<1>1. TypeOK /\ TypeOK'
  BY TypeStep DEF IInv, TypeInv
<1>2. Keeps(c) \/ Opens(c) \/ Adds(c) \/ Writes(c) \/ Closes(c)
  BY <1>1, StepIsSameOrOutbox, OutboxStepIs
<1> QED
  BY <1>1, <1>2, OrderKept

\* A device is written the ready message first, and no broadcast twice.
THEOREM WiresStayInOrder == Spec => []WireIsInOrder
<1>1. Init => OrderInv
  <2> SUFFICES ASSUME Init, NEW c \in Conn
               PROVE  Stream(c) = <<>> /\ Status(c) = "new" /\ wire[c] = <<>>
    BY DEF OrderInv, InOrder
  <2>1. pc["consumer"][c] = "none" /\ wire[c] = <<>>
    BY DEF Init, Role
  <2>2. Holding(c) = <<>> /\ Status(c) = "new"
    BY <2>1 DEF Holding, Status, Serving
  <2> QED
    BY <2>1, <2>2 DEF Stream
<1>2. IInv /\ OrderInv => WireIsInOrder
  <2> SUFFICES ASSUME IInv, OrderInv, NEW c \in Conn PROVE InOrder(wire[c])
    BY DEF WireIsInOrder
  <2>1. wire[c] \in Seq(Msg) /\ Holding(c) \in Seq(Msg) /\ InOrder(wire[c] \o Holding(c))
    BY StreamType DEF IInv, TypeInv, OrderInv, Stream
  <2> QED
    BY <2>1, OrderPrefix
<1> QED
  BY <1>1, <1>2, SafetyInit, SafetyStep, OutInit, OutStep, OrderStep, PTL DEF Spec
=============================================================================

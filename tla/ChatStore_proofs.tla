-------------------------- MODULE ChatStore_proofs --------------------------
(***************************************************************************)
(* Theorems about ChatStore, for all users, conversations, frames, marks    *)
(* and clients.                                                            *)
(***************************************************************************)
EXTENDS ChatStore, FiniteSetTheorems, WellFoundedInduction, TLAPS

\* A frame that carries no conversation, of users who had none when it came.
Stray(s) == Carried[s] = NoConv /\ \A c \in met[s] : Member[c] # {From[s], To[s]}

\* Where a frame's message is a row, and where it is about to become one.
FrameIsStored ==
  \A s \in Frame :
    /\ spc[s] \in {"commit", "ack", "ended"} => Row(s) \in message
    /\ ppc[s] # "none" => spc[s] \in {"ack", "ended"}
    /\ s \in acked => spc[s] = "ended"
    /\ spc[s] # "idle" => id[s] > 0
    /\ met[s] \subseteq conv
    /\ spc[s] = "insert" => IF into[s] = NoConv THEN Stray(s)
                            ELSE into[s] \in conv /\ Member[into[s]] = {From[s], To[s]}

\* Where every message is, and the frame that put it into no conversation.
RowIsPlaced ==
  \A m \in message :
    IF m.conv = NoConv
      THEN \E s \in Frame : /\ m = Row(s) /\ spc[s] \in {"commit", "ack", "failed", "ended"}
                            /\ Stray(s)
      ELSE m.conv \in conv /\ Member[m.conv] = {m.from, m.to}

\* Rows have ids above 0, and a conversation with rows has a newest one.
NewestExists ==
  /\ \A m \in message : m.id > 0
  /\ \A c \in Conv : Ids(c) # {} => \E x \in Ids(c) : \A y \in Ids(c) : y <= x

\* A watermark, and one that is about to be written, was counted by a mark.
WatermarkIsSeen ==
  /\ \A u \in Uid, c \in Conv :
       lastRead[u][c] = 0 \/ \E x \in seen[u] \cap Ids(c) : lastRead[u][c] <= x
  /\ \A m \in Mark :
       mpc[m] \in {"row", "update"} => maxId[m] \in seen[Marker[m]] \cap Ids(Marked[m])

\* A mark has counted nothing before it begins.  When it has ended the watermark
\* is at its maximum, or back at an older one that another mark wrote.
MarkIsKept ==
  \A m \in Mark :
    /\ mpc[m] = "start" => maxId[m] = 0
    /\ mpc[m] = "done" =>
         \/ lastRead[Marker[m]][Marked[m]] >= maxId[m]
         \/ \E n \in Mark : /\ Marker[n] = Marker[m] /\ Marked[n] = Marked[m]
                           /\ mpc[n] = "done" /\ maxId[n] < maxId[m]
                           /\ lastRead[Marker[m]][Marked[m]] = maxId[n]

\* A client that goes on paging finds what it has not received below its cursor.
PagesCover ==
  \A h \in Reader :
    /\ hpc[h] = "start" => pages[h] = <<>>
    /\ hpc[h] \in {"more", "end"} => had[h] \subseteq Shown(h) \cup Older(h)

StoreInv == /\ TypeOK /\ FrameIsStored /\ NewestExists /\ WatermarkIsSeen
            /\ ToldIsStored /\ RowIsPlaced /\ MarkIsKept
            /\ PagesCover /\ HistoryInOrder /\ HistoryComplete

-----------------------------------------------------------------------------
LEMMA CardNat == Cardinality(Conv) \in Nat
BY FS_CardinalityType, ChatAssumption

LEMMA StoreInit == Init => StoreInv
<1> SUFFICES ASSUME Init PROVE StoreInv
  OBVIOUS
<1> USE DEF Init
<1>1. TypeOK
  BY CardNat, ChatAssumption DEF TypeOK
<1>2. FrameIsStored /\ NewestExists /\ WatermarkIsSeen
  BY DEF FrameIsStored, NewestExists, WatermarkIsSeen, Ids
<1>3. ToldIsStored /\ RowIsPlaced /\ MarkIsKept
  BY DEF ToldIsStored, RowIsPlaced, MarkIsKept
<1>4. PagesCover /\ HistoryInOrder /\ HistoryComplete
  BY DEF PagesCover, HistoryInOrder, HistoryComplete
<1> QED
  BY <1>1, <1>2, <1>3, <1>4 DEF StoreInv

-----------------------------------------------------------------------------
(* Types. *)

\* The maximum that a mark reads.
LEMMA NewestIsId ==
  ASSUME TypeOK, NewestExists, NEW c \in Conv, Ids(c) # {}
  PROVE  Newest(Ids(c)) \in Ids(c) /\ Ids(c) \subseteq Nat
<1>1. \E x \in Ids(c) : \A y \in Ids(c) : y <= x
  BY DEF NewestExists
<1>2. Newest(Ids(c)) \in Ids(c)
  BY <1>1 DEF Newest
<1>3. Ids(c) \subseteq Nat
  BY DEF Ids, TypeOK
<1> QED
  BY <1>2, <1>3

LEMMA TypeFrame ==
  ASSUME TypeOK, NEW s \in Frame,
         \/ GenAutoSnowId(s) \/ GetPrivateConversation(s) \/ CreateMessage(s) \/ StartPush(s)
         \/ ReplayAck(s) \/ SendError(s) \/ PushSelf(s) \/ PushPeer(s)
  PROVE  TypeOK'
<1> USE ChatAssumption DEF TypeOK, SGoto, PGoto, frameVars, pushVars, markVars, pageVars
<1>1. CASE GenAutoSnowId(s)
  BY <1>1 DEF GenAutoSnowId
<1>2. CASE GetPrivateConversation(s)
  <2>1. into' \in [Frame -> Conv \cup {NoConv}]
    <3>1. into' = into \/ \E c \in Conv \cup {NoConv} : into' = [into EXCEPT ![s] = c]
      BY <1>2 DEF GetPrivateConversation
    <3> QED
      BY <3>1
  <2>2. spc' \in [Frame -> {"idle", "find", "insert", "commit", "ack", "panic", "failed", "ended"}]
    <3>1. spc' = [spc EXCEPT ![s] = "insert"] \/ spc' = [spc EXCEPT ![s] = "panic"]
      BY <1>2 DEF GetPrivateConversation
    <3> QED
      BY <3>1
  <2> QED
    BY <1>2, <2>1, <2>2 DEF GetPrivateConversation
<1>3. CASE CreateMessage(s)
  BY <1>3 DEF CreateMessage, Row
<1>4. CASE StartPush(s)
  BY <1>4 DEF StartPush
<1>5. CASE ReplayAck(s)
  BY <1>5 DEF ReplayAck
<1>6. CASE SendError(s)
  BY <1>6 DEF SendError
<1>7. CASE PushSelf(s)
  <2>1. told' \in [Uid -> SUBSET Nat]
    <3>1. told[From[s]] \cup {id[s]} \in SUBSET Nat
      OBVIOUS
    <3> QED
      BY <1>7, <3>1 DEF PushSelf
  <2> QED
    BY <1>7, <2>1 DEF PushSelf
<1>8. CASE PushPeer(s)
  <2>1. told' \in [Uid -> SUBSET Nat]
    <3>1. told[To[s]] \cup {id[s]} \in SUBSET Nat
      OBVIOUS
    <3> QED
      <4>1. CASE told' = told
        BY <4>1
      <4>2. CASE told' = [told EXCEPT ![To[s]] = told[To[s]] \cup {id[s]}]
        BY <3>1, <4>2
      <4> QED
        BY <1>8, <4>1, <4>2 DEF PushPeer
  <2> QED
    BY <1>8, <2>1 DEF PushPeer
<1> QED
  BY <1>1, <1>2, <1>3, <1>4, <1>5, <1>6, <1>7, <1>8

LEMMA TypeMark ==
  ASSUME TypeOK, NewestExists, NEW m \in Mark,
         SelectMax(m) \/ FirstOrCreate(m) \/ UpdateLastRead(m) \/ MarkError(m)
  PROVE  TypeOK'
<1> USE ChatAssumption DEF TypeOK, MGoto, frameVars, pushVars, markVars, pageVars
<1>1. CASE SelectMax(m)
  <2>1. CASE IsConversationMember(Marked[m], Marker[m]) /\ Ids(Marked[m]) # {}
    <3>1. Newest(Ids(Marked[m])) \in Nat /\ Ids(Marked[m]) \subseteq Nat
      BY <2>1, NewestIsId
    <3>2. maxId' \in [Mark -> Nat]
      <4>1. maxId' = [maxId EXCEPT ![m] = Newest(Ids(Marked[m]))]
        BY <1>1, <2>1 DEF SelectMax
      <4> QED
        BY <3>1, <4>1
    <3>3. seen[Marker[m]] \cup Ids(Marked[m]) \in SUBSET Nat
      BY <3>1
    <3>4. seen' \in [Uid -> SUBSET Nat]
      <4>1. seen' = [seen EXCEPT ![Marker[m]] = seen[Marker[m]] \cup Ids(Marked[m])]
        BY <1>1, <2>1 DEF SelectMax
      <4> QED
        BY <3>3, <4>1
    <3> QED
      BY <1>1, <2>1, <3>2, <3>4 DEF SelectMax
  <2>2. CASE ~(IsConversationMember(Marked[m], Marker[m]) /\ Ids(Marked[m]) # {})
    BY <1>1, <2>2 DEF SelectMax
  <2> QED
    BY <2>1, <2>2
<1>2. CASE FirstOrCreate(m)
  BY <1>2 DEF FirstOrCreate
<1>3. CASE UpdateLastRead(m)
  BY <1>3 DEF UpdateLastRead
<1>4. CASE MarkError(m)
  BY <1>4 DEF MarkError
<1> QED
  BY <1>1, <1>2, <1>3, <1>4

LEMMA TypePage ==
  ASSUME TypeOK, NEW h \in Reader, PullHistoryMessage(h)
  PROVE  TypeOK'
<1> USE ChatAssumption DEF TypeOK, HGoto, frameVars, pushVars, markVars, pageVars
<1>1. Ids(Paged[h]) \in SUBSET Nat /\ Limit(Older(h), PageSize) \in SUBSET Nat
  BY DEF Ids, Limit, Older
<1>2. Append(pages[h], Limit(Older(h), PageSize)) \in Seq(SUBSET Nat)
  BY <1>1
<1>3. hpc' \in [Reader -> {"start", "more", "end", "refused"}]
  BY DEF PullHistoryMessage
<1>4. pages' \in [Reader -> Seq(SUBSET Nat)]
  BY <1>2 DEF PullHistoryMessage
<1>5. had' \in [Reader -> SUBSET Nat]
  BY <1>1 DEF PullHistoryMessage
<1> QED
  BY <1>3, <1>4, <1>5 DEF PullHistoryMessage

LEMMA TypeAgree ==
  ASSUME TypeOK, NEW c \in Conv, UpdateApply(c)
  PROVE  TypeOK'
<1> USE ChatAssumption, CardNat DEF TypeOK, pushVars, markVars, pageVars
<1>1. ApplyMsg[c] \in Nat /\ Applicant[c] \in Uid /\ Member[c] \subseteq Uid
  OBVIOUS
<1> QED
  BY <1>1 DEF UpdateApply
LEMMA FrameStep ==
  ASSUME TypeOK, FrameIsStored, NEW s \in Frame,
         \/ GenAutoSnowId(s) \/ GetPrivateConversation(s) \/ CreateMessage(s) \/ StartPush(s)
         \/ ReplayAck(s) \/ SendError(s) \/ PushSelf(s) \/ PushPeer(s)
  PROVE  FrameIsStored'
<1> USE ChatAssumption DEF TypeOK, FrameIsStored, Stray, Row, SGoto, PGoto,
                          frameVars, pushVars, markVars, pageVars
<1>1. CASE GenAutoSnowId(s)
  BY <1>1 DEF GenAutoSnowId
<1>2. CASE GetPrivateConversation(s)
  <2>1. PICK c \in Conv \cup {NoConv} :
          /\ \/ c \in conv /\ Member[c] = {From[s], To[s]}
             \/ c = NoConv /\ \A d \in conv : Member[d] # {From[s], To[s]}
          /\ \/ /\ into' = [into EXCEPT ![s] = c] /\ spc' = [spc EXCEPT ![s] = "insert"]
                /\ Carried[s] \in {NoConv, c}
             \/ into' = into /\ spc' = [spc EXCEPT ![s] = "panic"]
    BY <1>2 DEF GetPrivateConversation
  <2>2. CASE /\ into' = [into EXCEPT ![s] = c] /\ spc' = [spc EXCEPT ![s] = "insert"]
             /\ Carried[s] \in {NoConv, c}
    <3> DEFINE At(f) ==
          /\ spc[f] \in {"commit", "ack", "ended"} => Row(f) \in message
          /\ ppc[f] # "none" => spc[f] \in {"ack", "ended"}
          /\ f \in acked => spc[f] = "ended"
          /\ spc[f] # "idle" => id[f] > 0
          /\ met[f] \subseteq conv
          /\ spc[f] = "insert" => IF into[f] = NoConv THEN Stray(f)
                            ELSE into[f] \in conv /\ Member[into[f]] = {From[f], To[f]}
    <3>1. /\ message' = message /\ conv' = conv /\ id' = id /\ acked' = acked
          /\ met' = met /\ ppc' = ppc /\ spc[s] = "find"
      BY <1>2 DEF GetPrivateConversation
    <3>2. into'[s] = c /\ spc'[s] = "insert"
      BY <2>2
    <3>3. \A f \in Frame \ {s} : into'[f] = into[f] /\ spc'[f] = spc[f]
      BY <2>2
    <3>4. met[s] \subseteq conv /\ conv \subseteq Conv
      OBVIOUS
    <3>5. IF c = NoConv THEN Stray(s)
          ELSE c \in conv /\ Member[c] = {From[s], To[s]}
      <4>1. CASE c = NoConv
        BY <2>1, <2>2, <3>4, <4>1
      <4>2. CASE c # NoConv
        BY <2>1, <4>2
      <4> QED
        BY <4>1, <4>2
    <3>6. \A f \in Frame : Stray(f)' = Stray(f)
      BY <3>1
    <3>7. ASSUME NEW f \in Frame, f # s
          PROVE  At(f)'
      BY <3>1, <3>3, <3>6, <3>7
    <3>8. At(s)'
      BY <3>1, <3>2, <3>5, <3>6
    <3> QED
      BY <3>7, <3>8
  <2>3. CASE into' = into /\ spc' = [spc EXCEPT ![s] = "panic"]
    BY <1>2, <2>1, <2>3 DEF GetPrivateConversation
  <2> QED
    BY <2>1, <2>2, <2>3
<1>3. CASE CreateMessage(s)
  BY <1>3 DEF CreateMessage
<1>4. CASE StartPush(s)
  BY <1>4 DEF StartPush
<1>5. CASE ReplayAck(s)
  BY <1>5 DEF ReplayAck
<1>6. CASE SendError(s)
  BY <1>6 DEF SendError
<1>7. CASE PushSelf(s)
  BY <1>7 DEF PushSelf
<1>8. CASE PushPeer(s)
  BY <1>8 DEF PushPeer
<1> QED
  BY <1>1, <1>2, <1>3, <1>4, <1>5, <1>6, <1>7, <1>8

LEMMA FrameAgree ==
  ASSUME TypeOK, FrameIsStored, NEW c \in Conv, UpdateApply(c)
  PROVE  FrameIsStored'
BY DEF TypeOK, FrameIsStored, Stray, Row, UpdateApply, pushVars, markVars, pageVars

-----------------------------------------------------------------------------
(* The newest row of a conversation. *)

LEMMA NewestGrows ==
  ASSUME NEW S \in SUBSET Nat, NEW x \in Nat,
         S # {} => \E y \in S : \A z \in S : z <= y
  PROVE  \E y \in S \cup {x} : \A z \in S \cup {x} : z <= y
<1>1. CASE S = {}
  BY <1>1
<1>2. CASE S # {}
  <2>1. PICK y \in S : \A z \in S : z <= y
    BY <1>2
  <2>2. CASE x <= y
    BY <2>1, <2>2
  <2>3. CASE y < x
    BY <2>1, <2>3
  <2> QED
    BY <2>2, <2>3
<1> QED
  BY <1>1, <1>2

\* Ids of rows that are not, or not only, the stored ones.
IdsOf(M, c) == {m.id : m \in {n \in M : n.conv = c}}

LEMMA IdsAdd ==
  ASSUME NEW M, NEW r, NEW c
  PROVE  /\ r.conv = c => IdsOf(M \cup {r}, c) = IdsOf(M, c) \cup {r.id}
         /\ r.conv # c => IdsOf(M \cup {r}, c) = IdsOf(M, c)
<1>1. \A N, x : x \in IdsOf(N, c) <=> \E m \in N : m.conv = c /\ m.id = x
  BY DEF IdsOf
<1>2. \A x : x \in IdsOf(M \cup {r}, c) <=> x \in IdsOf(M, c) \/ (r.conv = c /\ r.id = x)
  BY <1>1
<1> QED
  BY <1>2

LEMMA NewestStep ==
  ASSUME TypeOK, FrameIsStored, NewestExists, NEW s \in Frame, CreateMessage(s)
  PROVE  NewestExists'
<1>1. message' = message \cup {Row(s)} /\ id[s] > 0 /\ id[s] \in Nat
  BY DEF TypeOK, FrameIsStored, CreateMessage
<1>2. \A m \in message' : m.id > 0
  BY <1>1 DEF NewestExists, Row
<1>3. ASSUME NEW c \in Conv, Ids(c)' # {}
      PROVE  \E x \in Ids(c)' : \A y \in Ids(c)' : y <= x
  <2>1. Ids(c) \in SUBSET Nat /\ (Ids(c) # {} => \E x \in Ids(c) : \A y \in Ids(c) : y <= x)
    <3>1. Ids(c) \in SUBSET Nat
      BY DEF Ids, TypeOK
    <3>2. Ids(c) # {} => \E x \in Ids(c) : \A y \in Ids(c) : y <= x
      BY DEF NewestExists
    <3> QED
      BY <3>1, <3>2
  <2>2. CASE c = into[s]
    <3>1. Ids(c)' = Ids(c) \cup {id[s]}
      <4>1. Row(s).conv = c /\ Row(s).id = id[s]
        BY <2>2 DEF Row
      <4>2. IdsOf(message \cup {Row(s)}, c) = IdsOf(message, c) \cup {Row(s).id}
        BY <4>1, IdsAdd
      <4> QED
        BY <1>1, <4>1, <4>2 DEF Ids, IdsOf
    <3> QED
      BY <1>1, <2>1, <3>1, NewestGrows
  <2>3. CASE c # into[s]
    <3>1. Ids(c)' = Ids(c)
      BY <1>1, <2>3, IdsAdd DEF Ids, IdsOf, Row
    <3> QED
      BY <1>3, <2>1, <3>1
  <2> QED
    BY <2>2, <2>3
<1> QED
  BY <1>2, <1>3 DEF NewestExists

LEMMA NewestAgree ==
  ASSUME TypeOK, NewestExists, NEW d \in Conv, UpdateApply(d)
  PROVE  NewestExists'
<1>1. ApplyMsg[d] \in Nat /\ ApplyMsg[d] > 0 /\ lastId + 1 \in Nat /\ lastId + 1 > 0
  BY ChatAssumption, CardNat DEF TypeOK
<1>2. PICK u \in Member[d] \ {Applicant[d]} :
        message' = message \cup
          {[id |-> ApplyMsg[d], from |-> Applicant[d], to |-> u, conv |-> d],
           [id |-> lastId + 1, from |-> u, to |-> Applicant[d], conv |-> d]}
  BY DEF UpdateApply
<1>3. \A m \in message' : m.id > 0
  BY <1>1, <1>2 DEF NewestExists
<1>4. ASSUME NEW c \in Conv, Ids(c)' # {}
      PROVE  \E x \in Ids(c)' : \A y \in Ids(c)' : y <= x
  <2>1. Ids(c) \in SUBSET Nat /\ (Ids(c) # {} => \E x \in Ids(c) : \A y \in Ids(c) : y <= x)
    <3>1. Ids(c) \in SUBSET Nat
      BY DEF Ids, TypeOK
    <3>2. Ids(c) # {} => \E x \in Ids(c) : \A y \in Ids(c) : y <= x
      BY DEF NewestExists
    <3> QED
      BY <3>1, <3>2
  <2>2. CASE c = d
    <3>1. Ids(c)' = (Ids(c) \cup {ApplyMsg[d]}) \cup {lastId + 1}
      <4> DEFINE r1 == [id |-> ApplyMsg[d], from |-> Applicant[d], to |-> u, conv |-> d]
                 r2 == [id |-> lastId + 1, from |-> u, to |-> Applicant[d], conv |-> d]
      <4>0. r1.conv = c /\ r1.id = ApplyMsg[d] /\ r2.conv = c /\ r2.id = lastId + 1
        BY <2>2
      <4> DEFINE M == message \cup {r1}
      <4> HIDE DEF r1, r2, M
      <4>1. IdsOf(message \cup {r1}, c) = IdsOf(message, c) \cup {r1.id}
        BY <4>0, IdsAdd
      <4>2. IdsOf(M \cup {r2}, c) = IdsOf(M, c) \cup {r2.id}
        BY <4>0, IdsAdd
      <4>3. message' = M \cup {r2}
        BY <1>2 DEF r1, r2, M
      <4>4. Ids(c) = IdsOf(message, c) /\ Ids(c)' = IdsOf(message', c)
        BY DEF Ids, IdsOf
      <4> QED
        BY <4>0, <4>1, <4>2, <4>3, <4>4 DEF M
    <3>2. \E x \in Ids(c) \cup {ApplyMsg[d]} : \A y \in Ids(c) \cup {ApplyMsg[d]} : y <= x
      <4> DEFINE S == Ids(c)
                 z == ApplyMsg[d]
      <4>1. S \in SUBSET Nat /\ (S # {} => \E x \in S : \A y \in S : y <= x) /\ z \in Nat
        BY <1>1, <2>1
      <4> HIDE DEF S, z
      <4>2. \E x \in S \cup {z} : \A y \in S \cup {z} : y <= x
        BY <4>1, NewestGrows
      <4> QED
        BY <4>2 DEF S, z
    <3>3. Ids(c) \cup {ApplyMsg[d]} \in SUBSET Nat
      BY <1>1, <2>1
    <3> QED
      BY <1>1, <3>1, <3>2, <3>3, NewestGrows
  <2>3. CASE c # d
    <3>1. Ids(c)' = Ids(c)
      BY <1>2, <2>3 DEF Ids
    <3> QED
      BY <1>4, <2>1, <3>1
  <2> QED
    BY <2>2, <2>3
<1> QED
  BY <1>3, <1>4 DEF NewestExists

-----------------------------------------------------------------------------
(* Watermarks. *)

LEMMA IdsGrow ==
  ASSUME message \subseteq message', NEW c
  PROVE  Ids(c) \subseteq Ids(c)'
BY DEF Ids

LEMMA WatermarkGrows ==
  ASSUME WatermarkIsSeen, message \subseteq message', UNCHANGED markVars
  PROVE  WatermarkIsSeen'
<1>1. lastRead' = lastRead /\ mpc' = mpc /\ maxId' = maxId /\ seen' = seen
  BY DEF markVars
<1>2. \A c : Ids(c) \subseteq Ids(c)'
  BY IdsGrow
<1> QED
  BY <1>1, <1>2 DEF WatermarkIsSeen

LEMMA WatermarkMark ==
  ASSUME TypeOK, NewestExists, WatermarkIsSeen, NEW m \in Mark,
         SelectMax(m) \/ FirstOrCreate(m) \/ UpdateLastRead(m) \/ MarkError(m)
  PROVE  WatermarkIsSeen'
<1> USE ChatAssumption DEF TypeOK, WatermarkIsSeen, MGoto
<1>0. \A c : Ids(c)' = Ids(c)
  BY DEF SelectMax, FirstOrCreate, UpdateLastRead, MarkError, Ids
<1>1. CASE SelectMax(m)
  <2>1. CASE IsConversationMember(Marked[m], Marker[m]) /\ Ids(Marked[m]) # {}
    <3>1. Newest(Ids(Marked[m])) \in Ids(Marked[m])
      BY <2>1, NewestIsId
    <3>2. /\ maxId' = [maxId EXCEPT ![m] = Newest(Ids(Marked[m]))]
          /\ seen' = [seen EXCEPT ![Marker[m]] = seen[Marker[m]] \cup Ids(Marked[m])]
          /\ mpc' = [mpc EXCEPT ![m] = "row"] /\ lastRead' = lastRead
      BY <1>1, <2>1 DEF SelectMax
    <3>3. \A u \in Uid : seen[u] \subseteq seen'[u]
      BY <3>2
    <3>4. Ids(Marked[m]) \subseteq seen'[Marker[m]]
      BY <3>2
    <3>5. ASSUME NEW u \in Uid, NEW c \in Conv
          PROVE  lastRead[u][c] = 0 \/ \E x \in seen'[u] \cap Ids(c) : lastRead[u][c] <= x
      BY <3>3
    <3>6. ASSUME NEW n \in Mark, mpc'[n] \in {"row", "update"}
          PROVE  maxId'[n] \in seen'[Marker[n]] \cap Ids(Marked[n])
      <4>1. CASE n = m
        BY <3>1, <3>2, <3>4, <4>1
      <4>2. CASE n # m
        <5>1. maxId'[n] = maxId[n] /\ mpc'[n] = mpc[n]
          BY <3>2, <4>2
        <5> QED
          BY <3>3, <3>6, <5>1
      <4> QED
        BY <4>1, <4>2
    <3> QED
      BY <1>0, <3>2, <3>5, <3>6
  <2>2. CASE ~(IsConversationMember(Marked[m], Marker[m]) /\ Ids(Marked[m]) # {})
    BY <1>0, <1>1, <2>2 DEF SelectMax
  <2> QED
    BY <2>1, <2>2
<1>2. CASE FirstOrCreate(m)
  BY <1>0, <1>2 DEF FirstOrCreate
<1>3. CASE UpdateLastRead(m)
  <2>1. /\ lastRead' = [lastRead EXCEPT ![Marker[m]][Marked[m]] = maxId[m]]
        /\ mpc' = [mpc EXCEPT ![m] = "done"] /\ maxId' = maxId /\ seen' = seen
    BY <1>3 DEF UpdateLastRead
  <2>2. maxId[m] \in seen[Marker[m]] \cap Ids(Marked[m]) /\ maxId[m] \in Nat
    BY <1>3 DEF UpdateLastRead
  <2>3. ASSUME NEW u \in Uid, NEW c \in Conv
        PROVE  lastRead'[u][c] = 0 \/ \E x \in seen[u] \cap Ids(c) : lastRead'[u][c] <= x
    <3>1. CASE u = Marker[m] /\ c = Marked[m]
      BY <2>1, <2>2, <3>1
    <3>2. CASE ~(u = Marker[m] /\ c = Marked[m])
      <4>1. lastRead'[u][c] = lastRead[u][c]
        BY <2>1, <3>2
      <4> QED
        BY <4>1
    <3> QED
      BY <3>1, <3>2
  <2> QED
    BY <1>0, <2>1, <2>2, <2>3
<1>4. CASE MarkError(m)
  BY <1>0, <1>4 DEF MarkError
<1> QED
  BY <1>1, <1>2, <1>3, <1>4

-----------------------------------------------------------------------------
(* What is told, where messages are, and pages. *)

LEMMA ToldGrows ==
  ASSUME ToldIsStored, message \subseteq message', UNCHANGED <<id, into, acked, told>>
  PROVE  ToldIsStored'
BY DEF ToldIsStored, Row

\* A push tells a user of the frame about its row.
LEMMA ToldPush ==
  ASSUME TypeOK, FrameIsStored, ToldIsStored, NEW s \in Frame, PushSelf(s) \/ PushPeer(s)
  PROVE  ToldIsStored'
<1>1. Row(s) \in message
  BY DEF FrameIsStored, PushSelf, PushPeer
<1>2. UNCHANGED <<message, id, into, acked>>
  BY DEF PushSelf, PushPeer, frameVars
<1>3. ASSUME NEW u \in Uid, NEW x \in told'[u]
      PROVE  x \in told[u] \/ (x = id[s] /\ u \in {From[s], To[s]})
  BY <1>3 DEF TypeOK, PushSelf, PushPeer
<1>4. ASSUME NEW u \in Uid, NEW x \in told'[u]
      PROVE  \E m \in message : m.id = x /\ u \in {m.from, m.to}
  <2>1. CASE x \in told[u]
    BY <2>1 DEF ToldIsStored
  <2>2. CASE x = id[s] /\ u \in {From[s], To[s]}
    BY <1>1, <2>2 DEF Row
  <2> QED
    BY <1>3, <1>4, <2>1, <2>2
<1>5. \A r \in acked' : Row(r)' \in message'
  BY <1>2 DEF ToldIsStored, Row
<1> QED
  BY <1>2, <1>4, <1>5 DEF ToldIsStored

LEMMA ToldFrame ==
  ASSUME TypeOK, FrameIsStored, ToldIsStored, NEW s \in Frame,
         \/ GenAutoSnowId(s) \/ GetPrivateConversation(s) \/ CreateMessage(s) \/ StartPush(s)
         \/ ReplayAck(s) \/ SendError(s) \/ PushSelf(s) \/ PushPeer(s)
  PROVE  ToldIsStored'
<1> USE DEF pushVars
\* A frame whose id is drawn, or whose conversation is found, is not acknowledged yet.
<1>1. CASE GenAutoSnowId(s) \/ GetPrivateConversation(s)
  <2>1. /\ s \notin acked /\ UNCHANGED <<message, acked, told>>
        /\ \A r \in Frame \ {s} : id'[r] = id[r] /\ into'[r] = into[r]
    BY <1>1 DEF FrameIsStored, GenAutoSnowId, GetPrivateConversation, TypeOK
  <2>2. \A r \in acked : Row(r)' = Row(r)
    BY <2>1 DEF Row, TypeOK
  <2> QED
    BY <2>1, <2>2 DEF ToldIsStored
<1>2. CASE CreateMessage(s)
  BY <1>2, ToldGrows DEF CreateMessage
<1>3. CASE StartPush(s) \/ SendError(s)
  BY <1>3, ToldGrows DEF StartPush, SendError
<1>4. CASE ReplayAck(s)
  BY <1>4 DEF ReplayAck, FrameIsStored, ToldIsStored, Row
<1>5. CASE PushSelf(s) \/ PushPeer(s)
  BY <1>5, ToldPush
<1> QED
  BY <1>1, <1>2, <1>3, <1>4, <1>5

\* A frame puts its own message where it found its users' conversation; rows of
\* other frames keep their frames.
LEMMA PlacedFrame ==
  ASSUME TypeOK, FrameIsStored, RowIsPlaced, NEW s \in Frame,
         \/ GenAutoSnowId(s) \/ GetPrivateConversation(s) \/ CreateMessage(s) \/ StartPush(s)
         \/ ReplayAck(s) \/ SendError(s) \/ PushSelf(s) \/ PushPeer(s)
  PROVE  RowIsPlaced'
<1>1. \A r \in Frame \ {s} : Row(r)' = Row(r) /\ spc'[r] = spc[r] /\ met'[r] = met[r]
  BY DEF TypeOK, Row, SGoto, frameVars, GenAutoSnowId, GetPrivateConversation, CreateMessage,
         StartPush, ReplayAck, SendError, PushSelf, PushPeer
<1>2. spc[s] \in {"commit", "ack", "failed", "ended"} =>
        /\ Row(s)' = Row(s) /\ met'[s] = met[s]
        /\ spc'[s] \in {"commit", "ack", "failed", "ended"}
  BY DEF TypeOK, Row, SGoto, frameVars, GenAutoSnowId, GetPrivateConversation, CreateMessage,
         StartPush, ReplayAck, SendError, PushSelf, PushPeer
<1>3. conv' = conv
  BY DEF GenAutoSnowId, GetPrivateConversation, CreateMessage, StartPush, ReplayAck, SendError,
         PushSelf, PushPeer
<1>4. ASSUME NEW m \in message
      PROVE  IF m.conv = NoConv
               THEN \E r \in Frame : /\ m = Row(r)' /\ spc'[r] \in {"commit", "ack", "failed", "ended"}
                                     /\ Stray(r)'
               ELSE m.conv \in conv' /\ Member[m.conv] = {m.from, m.to}
  <2>1. CASE m.conv = NoConv
    <3>1. PICK r \in Frame : /\ m = Row(r) /\ spc[r] \in {"commit", "ack", "failed", "ended"}
                             /\ Stray(r)
      BY <2>1 DEF RowIsPlaced
    <3> QED
      BY <1>1, <1>2, <2>1, <3>1 DEF Stray
  <2> QED
    BY <1>3, <2>1 DEF RowIsPlaced
<1>5. CASE CreateMessage(s)
  <2>1. /\ message' = message \cup {Row(s)} /\ Row(s)' = Row(s) /\ spc'[s] = "commit"
        /\ met' = met /\ spc[s] = "insert"
    BY <1>5 DEF CreateMessage, Row, SGoto, TypeOK
  <2>2. Row(s).conv = into[s] /\ Row(s).from = From[s] /\ Row(s).to = To[s]
    BY DEF Row
  <2>3. IF into[s] = NoConv THEN Stray(s)' ELSE into[s] \in conv /\ Member[into[s]] = {From[s], To[s]}
    BY <2>1 DEF FrameIsStored, Stray
  <2> QED
    BY <1>3, <1>4, <2>1, <2>2, <2>3 DEF RowIsPlaced
<1>6. CASE ~CreateMessage(s)
  <2>1. message' = message
    BY <1>6 DEF GenAutoSnowId, GetPrivateConversation, StartPush, ReplayAck, SendError, PushSelf,
                PushPeer
  <2> QED
    BY <1>4, <2>1 DEF RowIsPlaced
<1> QED
  BY <1>5, <1>6

LEMMA PlacedAgree ==
  ASSUME RowIsPlaced, NEW c \in Conv, UpdateApply(c)
  PROVE  RowIsPlaced'
<1>1. PICK v \in Uid \ {Applicant[c]} : Member[c] = {Applicant[c], v}
  BY ChatAssumption
<1>2. message' = message \cup
        {[id |-> ApplyMsg[c], from |-> Applicant[c], to |-> v, conv |-> c],
         [id |-> lastId + 1, from |-> v, to |-> Applicant[c], conv |-> c]}
  BY <1>1 DEF UpdateApply
<1>3. conv' = conv \cup {c}
  BY DEF UpdateApply
<1>4. \A s \in Frame : Row(s)' = Row(s) /\ spc'[s] = spc[s] /\ (Stray(s) => Stray(s)')
  BY DEF UpdateApply, Row, Stray
<1>5. ASSUME NEW m \in message, m.conv = NoConv
      PROVE  \E s \in Frame : /\ m = Row(s)' /\ spc'[s] \in {"commit", "ack", "failed", "ended"}
                               /\ Stray(s)'
  BY <1>4, <1>5 DEF RowIsPlaced
<1>6. c # NoConv
  BY ChatAssumption
<1> QED
  BY <1>1, <1>2, <1>3, <1>5, <1>6 DEF RowIsPlaced

\* The watermark of a user and a conversation moves to the maximum of the mark
\* that writes it, which has ended with it.
LEMMA KeptMark ==
  ASSUME TypeOK, NewestExists, MarkIsKept, NEW m \in Mark,
         SelectMax(m) \/ FirstOrCreate(m) \/ UpdateLastRead(m) \/ MarkError(m)
  PROVE  MarkIsKept'
<1> USE ChatAssumption DEF MGoto
<1>1. CASE SelectMax(m)
  <2>1. mpc[m] = "start" /\ mpc'[m] \in {"row", "done"} /\ lastRead' = lastRead
    BY <1>1 DEF SelectMax, TypeOK
  <2>2. mpc'[m] = "done" => maxId' = maxId
    BY <1>1 DEF SelectMax, TypeOK
  <2>3. \A n \in Mark \ {m} : mpc'[n] = mpc[n] /\ maxId'[n] = maxId[n]
    BY <1>1 DEF SelectMax, TypeOK
  <2>4. maxId[m] = 0 /\ lastRead[Marker[m]][Marked[m]] \in Nat
    BY <2>1 DEF MarkIsKept, TypeOK
  <2> QED
    BY <2>1, <2>2, <2>3, <2>4 DEF MarkIsKept
<1>2. CASE FirstOrCreate(m)
  <2>1. /\ mpc[m] = "row" /\ lastRead' = lastRead /\ maxId' = maxId
        /\ \A n \in Mark \ {m} : mpc'[n] = mpc[n]
        /\ mpc'[m] = "done" => lastRead[Marker[m]][Marked[m]] >= maxId[m]
        /\ mpc'[m] # "start"
    BY <1>2 DEF FirstOrCreate, TypeOK
  <2> QED
    BY <2>1 DEF MarkIsKept
<1>3. CASE UpdateLastRead(m)
  <2>1. /\ mpc[m] = "update" /\ mpc' = [mpc EXCEPT ![m] = "done"] /\ maxId' = maxId
        /\ lastRead' = [lastRead EXCEPT ![Marker[m]][Marked[m]] = maxId[m]]
    BY <1>3 DEF UpdateLastRead
  <2>2. ASSUME NEW n \in Mark, mpc'[n] = "done"
        PROVE  \/ lastRead'[Marker[n]][Marked[n]] >= maxId[n]
               \/ \E p \in Mark : /\ Marker[p] = Marker[n] /\ Marked[p] = Marked[n]
                                 /\ mpc'[p] = "done" /\ maxId[p] < maxId[n]
                                 /\ lastRead'[Marker[n]][Marked[n]] = maxId[p]
    <3>0. maxId[m] \in Nat /\ maxId[n] \in Nat /\ mpc'[m] = "done"
      BY <2>1 DEF TypeOK
    <3>1. CASE Marker[n] = Marker[m] /\ Marked[n] = Marked[m]
      <4>1. lastRead'[Marker[n]][Marked[n]] = maxId[m]
        BY <2>1, <3>1 DEF TypeOK
      <4>2. CASE maxId[m] >= maxId[n]
        BY <4>1, <4>2
      <4>3. CASE maxId[m] < maxId[n]
        BY <3>0, <3>1, <4>1, <4>3
      <4> QED
        BY <3>0, <4>2, <4>3
    <3>2. CASE ~(Marker[n] = Marker[m] /\ Marked[n] = Marked[m])
      <4>1. /\ lastRead'[Marker[n]][Marked[n]] = lastRead[Marker[n]][Marked[n]]
            /\ mpc[n] = "done" /\ \A p \in Mark : mpc[p] = "done" => mpc'[p] = "done"
        BY <2>1, <2>2, <3>2 DEF TypeOK
      <4> QED
        BY <4>1 DEF MarkIsKept
    <3> QED
      BY <3>1, <3>2
  <2>3. \A n \in Mark : mpc'[n] = "start" => maxId[n] = 0
    BY <2>1 DEF MarkIsKept, TypeOK
  <2> QED
    BY <2>1, <2>2, <2>3 DEF MarkIsKept
<1>4. CASE MarkError(m)
  <2>1. /\ mpc[m] \in {"start", "row", "update"} /\ mpc'[m] = "failed"
        /\ \A n \in Mark \ {m} : mpc'[n] = mpc[n]
        /\ lastRead' = lastRead /\ maxId' = maxId
    BY <1>4 DEF MarkError, TypeOK
  <2> QED
    BY <2>1 DEF MarkIsKept
<1> QED
  BY <1>1, <1>2, <1>3, <1>4

LEMMA HistoryStep ==
  ASSUME TypeOK, HistoryInOrder, NEW h \in Reader, PullHistoryMessage(h)
  PROVE  HistoryInOrder'
<1>1. CASE pages' = pages
  BY <1>1 DEF HistoryInOrder
<1>2. CASE pages' = [pages EXCEPT ![h] = Append(pages[h], Limit(Older(h), PageSize))]
  <2> DEFINE P == Limit(Older(h), PageSize)
             n == Len(pages[h])
  <2>1. pages[h] \in Seq(SUBSET Nat) /\ n \in Nat
    BY DEF TypeOK
  <2>2. /\ pages'[h] = Append(pages[h], P)
        /\ \A g \in Reader \ {h} : pages'[g] = pages[g]
    BY <1>2 DEF TypeOK
  <2>3. \A i \in 1 .. n : \A x \in pages[h][i], y \in P : y < x
    BY DEF Limit, Older, Shown
  <2> HIDE DEF P
  <2>4. /\ Len(pages'[h]) = n + 1 /\ pages'[h][n + 1] = P
        /\ \A i \in 1 .. n : pages'[h][i] = pages[h][i]
    BY <2>1, <2>2
  <2>5. ASSUME NEW i \in 1 .. n + 1, NEW j \in 1 .. n + 1, i < j,
               NEW x \in pages'[h][i], NEW y \in pages'[h][j]
        PROVE  y < x
    <3>1. i \in 1 .. n /\ pages'[h][i] = pages[h][i]
      BY <2>1, <2>4, <2>5
    <3>2. CASE j = n + 1
      BY <2>3, <2>4, <2>5, <3>1, <3>2
    <3>3. CASE j \in 1 .. n
      BY <2>4, <2>5, <3>1, <3>3 DEF HistoryInOrder
    <3> QED
      BY <2>1, <3>2, <3>3
  <2> QED
    BY <2>2, <2>4, <2>5 DEF HistoryInOrder
<1> QED
  BY <1>1, <1>2 DEF PullHistoryMessage

-----------------------------------------------------------------------------
(* The last page. *)

Above(S, x) == {y \in S : y > x}

LEMMA Least ==
  ASSUME NEW T \in SUBSET Nat, T # {}
  PROVE  \E x \in T : \A y \in T : x <= y
<1>1. PICK x \in T : \A y \in T : ~ (<<y, x>> \in OpToRel(<, Nat))
  BY WFMin, NatLessThanWellFounded
<1>2. \A y \in T : ~ (y < x)
  BY <1>1 DEF OpToRel
<1> QED
  BY <1>2

LEMMA Greatest ==
  ASSUME NEW T \in SUBSET Nat, T # {}, NEW b \in Nat, \A y \in T : y <= b
  PROVE  \E x \in T : \A y \in T : y <= x
<1> DEFINE U == {k \in Nat : \A y \in T : y <= k}
<1>1. PICK k \in U : \A j \in U : k <= j
  <2>1. b \in U /\ U \in SUBSET Nat
    OBVIOUS
  <2> QED
    BY <2>1, Least
<1>2. CASE k \in T
  BY <1>1, <1>2
<1>3. CASE k \notin T
  <2>1. k > 0
    <3>1. PICK y \in T : y <= k /\ y # k
      BY <1>1, <1>3
    <3>2. k \in Nat /\ y \in Nat
      BY <1>1
    <3> QED
      BY <3>1, <3>2
  <2>2. k - 1 \in U
    BY <1>3, <2>1
  <2> QED
    BY <1>1, <2>1, <2>2
<1> QED
  BY <1>2, <1>3

\* Rows that a page leaves out are older than the page.
LEMMA LimitIsNewest ==
  ASSUME NEW S \in SUBSET Nat, IsFiniteSet(S), NEW n \in Nat,
         NEW x \in S \ Limit(S, n), NEW y \in Limit(S, n)
  PROVE  x < y
<1>1. CASE y <= x
  <2>1. Above(S, x) \in SUBSET Above(S, y) /\ Above(S, y) \in SUBSET S
    <3>1. x \in Nat /\ y \in Nat
      BY DEF Limit
    <3>2. ASSUME NEW w \in S, w > x PROVE w > y
      BY <1>1, <3>1, <3>2
    <3> QED
      BY <3>2 DEF Above
  <2>2. IsFiniteSet(Above(S, y))
    BY <2>1, FS_Subset
  <2>3. Cardinality(Above(S, x)) <= Cardinality(Above(S, y))
    BY <2>1, <2>2, FS_Subset
  <2>4. Cardinality(Above(S, x)) \in Nat /\ Cardinality(Above(S, y)) \in Nat
    BY <2>1, <2>2, FS_Subset, FS_CardinalityType
  <2>5. Cardinality(Above(S, y)) < n /\ ~(Cardinality(Above(S, x)) < n)
    BY DEF Above, Limit
  <2> QED
    BY <2>3, <2>4, <2>5
<1> QED
  BY <1>1 DEF Limit

\* A query for one row more that returns no more than a page returned all.
LEMMA NoExtraRow ==
  ASSUME NEW S \in SUBSET Nat, NEW b \in Nat, \A y \in S : y <= b, NEW n \in Nat \ {0},
         ~(Cardinality(Limit(S, n + 1)) > n)
  PROVE  S \subseteq Limit(S, n)
<1> SUFFICES ASSUME S \ Limit(S, n) # {} PROVE FALSE
  OBVIOUS
<1> DEFINE T == S \ Limit(S, n)
<1>1. PICK x \in T : \A y \in T : y <= x
  <2>1. T \in SUBSET Nat /\ T # {} /\ \A y \in T : y <= b
    OBVIOUS
  <2> HIDE DEF T
  <2> QED
    BY <2>1, Greatest
<1>2. IsFiniteSet(S)
  BY FS_BoundedSetOfNaturals
<1>3. \A y \in S : /\ Above(S, y) \in SUBSET S /\ IsFiniteSet(Above(S, y))
                   /\ Cardinality(Above(S, y)) \in Nat
  <2>1. ASSUME NEW y \in S PROVE Above(S, y) \in SUBSET S
    BY DEF Above
  <2> QED
    BY <1>2, <2>1, FS_Subset, FS_CardinalityType
<1>4. \A k \in Nat, y \in S : y \in Limit(S, k) <=> Cardinality(Above(S, y)) < k
  BY DEF Limit, Above
<1>5. Cardinality(Above(S, x)) >= n
  BY <1>3, <1>4
<1>6. PICK z \in Above(S, x) : \A y \in Above(S, x) : z <= y
  <2>1. Above(S, x) # {}
    BY <1>3, <1>5, FS_EmptySet
  <2>2. Above(S, x) \in SUBSET Nat
    BY <1>3
  <2> QED
    BY <2>1, <2>2, Least
<1>7. x \in S /\ z \in S /\ x \in Nat /\ z \in Nat /\ x < z
  BY <1>6 DEF Above
<1>8. Cardinality(Above(S, z)) = Cardinality(Above(S, x)) - 1
  <2>1. ASSUME NEW y \in S PROVE y \in Above(S, z) <=> y \in Above(S, x) /\ y # z
    BY <1>6, <1>7 DEF Above
  <2>2. Above(S, z) = Above(S, x) \ {z}
    BY <1>3, <1>7, <2>1
  <2> QED
    <3>1. IsFiniteSet(Above(S, x))
      BY <1>3, <1>7
    <3>2. Cardinality(Above(S, x) \ {z}) = Cardinality(Above(S, x)) - 1
      BY <1>6, <3>1, FS_RemoveElement
    <3> QED
      BY <2>2, <3>2
<1>9. \A y \in Above(S, x) : y \in S /\ y \in Limit(S, n)
  BY <1>1, <1>7 DEF Above
<1>10. Cardinality(Above(S, x)) = n
  <2>1. Cardinality(Above(S, z)) < n
    BY <1>4, <1>6, <1>9
  <2>2. Cardinality(Above(S, x)) \in Nat /\ Cardinality(Above(S, z)) \in Nat
    BY <1>3, <1>7
  <2> QED
    BY <1>5, <1>8, <2>1, <2>2
<1>11. Above(S, x) \cup {x} \in SUBSET Limit(S, n + 1)
  <2>1. \A y \in S : y \in Limit(S, n) => y \in Limit(S, n + 1)
    BY <1>3, <1>4
  <2>2. x \in Limit(S, n + 1)
    BY <1>4, <1>7, <1>10
  <2> QED
    BY <1>9, <2>1, <2>2
<1>12. x \notin Above(S, x)
  BY DEF Above
<1>13. Cardinality(Above(S, x) \cup {x}) = n + 1
  <2>1. IsFiniteSet(Above(S, x))
    BY <1>3, <1>7
  <2>2. Cardinality(Above(S, x) \cup {x}) = Cardinality(Above(S, x)) + 1
    <3> DEFINE A == Above(S, x)
    <3>1. IsFiniteSet(A) /\ x \notin A
      BY <1>12, <2>1
    <3> HIDE DEF A
    <3>2. Cardinality(A \cup {x}) = Cardinality(A) + 1
      BY <3>1, FS_AddElement
    <3> QED
      BY <3>2 DEF A
  <2> QED
    BY <1>10, <2>2
<1>14. IsFiniteSet(Limit(S, n + 1)) /\ Limit(S, n + 1) \in SUBSET S
  <2>1. Limit(S, n + 1) \in SUBSET S
    BY DEF Limit
  <2> QED
    BY <1>2, <2>1, FS_Subset
<1>15. n + 1 <= Cardinality(Limit(S, n + 1)) /\ Cardinality(Limit(S, n + 1)) \in Nat
  BY <1>11, <1>13, <1>14, FS_Subset, FS_CardinalityType
<1> QED
  BY <1>15

LEMMA ShownOnPage ==
  ASSUME NEW p, NEW x
  PROVE  x \in UNION {p[i] : i \in 1 .. Len(p)} <=> \E i \in 1 .. Len(p) : x \in p[i]
OBVIOUS

LEMMA PagesGrow ==
  ASSUME PagesCover, HistoryComplete, message \subseteq message', UNCHANGED pageVars
  PROVE  PagesCover' /\ HistoryComplete'
<1>1. hpc' = hpc /\ pages' = pages /\ had' = had
  BY DEF pageVars
<1>2. \A h \in Reader : Shown(h)' = Shown(h) /\ Older(h) \subseteq Older(h)'
  BY <1>1, IdsGrow DEF Shown, Older
<1>3. PagesCover'
  BY <1>1, <1>2 DEF PagesCover
<1>4. HistoryComplete'
  BY <1>1, <1>2 DEF HistoryComplete
<1> QED
  BY <1>3, <1>4

LEMMA PagesStep ==
  ASSUME TypeOK, NewestExists, PagesCover, HistoryComplete, NEW h \in Reader, PullHistoryMessage(h)
  PROVE  PagesCover' /\ HistoryComplete'
<1> USE ChatAssumption
<1>1. /\ \A g \in Reader \ {h} : hpc'[g] = hpc[g] /\ pages'[g] = pages[g] /\ had'[g] = had[g]
      /\ \A c : Ids(c)' = Ids(c)
  BY DEF TypeOK, PullHistoryMessage, HGoto, Ids
<1>2. \A g \in Reader \ {h} : Shown(g)' = Shown(g) /\ Older(g)' = Older(g)
  BY <1>1 DEF Shown, Older
<1>3. CASE hpc'[h] = "refused" /\ UNCHANGED <<pages, had>>
  <2>1. \A g \in Reader : hpc'[g] \in {"start", "more", "end"} =>
          hpc'[g] = hpc[g] /\ pages'[g] = pages[g] /\ had'[g] = had[g] /\ g # h
    BY <1>1, <1>3
  <2>2. PagesCover'
    BY <1>2, <2>1 DEF PagesCover
  <2>3. HistoryComplete'
    BY <1>2, <2>1 DEF HistoryComplete
  <2> QED
    BY <2>2, <2>3
<1>4. CASE ~(hpc'[h] = "refused")
  <2> DEFINE S == Older(h)
             P == Limit(S, PageSize)
  <2>1. /\ pages' = [pages EXCEPT ![h] = Append(pages[h], P)]
        /\ hpc' = [hpc EXCEPT ![h] = IF HasMore(h) THEN "more" ELSE "end"]
        /\ had' = IF hpc[h] = "start" THEN [had EXCEPT ![h] = Ids(Paged[h])] ELSE had
    BY <1>4 DEF TypeOK, PullHistoryMessage, HGoto
  <2>2. S \in SUBSET Nat /\ IsFiniteSet(S) /\ \E b \in Nat : \A y \in S : y <= b
    <3>1. S \subseteq Ids(Paged[h]) /\ Ids(Paged[h]) \in SUBSET Nat
      BY DEF Older, Ids, TypeOK
    <3>2. \E b \in Nat : \A y \in S : y <= b
      BY <3>1 DEF NewestExists
    <3> QED
      BY <3>1, <3>2, FS_BoundedSetOfNaturals
  <2>3. Shown(h)' = Shown(h) \cup P
    <3>1. /\ Len(pages'[h]) = Len(pages[h]) + 1 /\ pages'[h][Len(pages[h]) + 1] = P
          /\ \A i \in 1 .. Len(pages[h]) : pages'[h][i] = pages[h][i]
          /\ Len(pages[h]) \in Nat
      BY <2>1 DEF TypeOK
    <3> HIDE DEF P
    <3>2. ASSUME NEW x
          PROVE  x \in Shown(h)' <=> x \in Shown(h) \/ x \in P
      <4>1. x \in Shown(h) <=> \E i \in 1 .. Len(pages[h]) : x \in pages[h][i]
        BY ShownOnPage DEF Shown
      <4>2. x \in Shown(h)' <=> \E i \in 1 .. Len(pages'[h]) : x \in pages'[h][i]
        BY ShownOnPage DEF Shown
      <4>3. ASSUME NEW i \in 1 .. Len(pages'[h])
            PROVE  \/ i \in 1 .. Len(pages[h]) /\ pages'[h][i] = pages[h][i]
                   \/ i = Len(pages[h]) + 1 /\ pages'[h][i] = P
        BY <3>1
      <4>4. /\ Len(pages[h]) + 1 \in 1 .. Len(pages'[h])
            /\ 1 .. Len(pages[h]) \subseteq 1 .. Len(pages'[h])
        BY <3>1
      <4> QED
        BY <3>1, <4>1, <4>2, <4>3, <4>4
    <3> QED
      BY <3>2
  <2>4. S \ P \subseteq Older(h)'
    <3>1. ASSUME NEW x \in S \ P, NEW y \in Shown(h) \cup P PROVE x < y
      <4>1. CASE y \in P
        BY <2>2, <4>1, LimitIsNewest
      <4>2. CASE y \in Shown(h)
        BY <4>2 DEF Older
      <4> QED
        BY <4>1, <4>2
    <3>2. \A x \in S : x \in Ids(Paged[h])'
      BY <1>1 DEF Older
    <3> HIDE DEF S, P
    <3> QED
      BY <2>3, <3>1, <3>2 DEF Older
  <2>5. had'[h] \subseteq Shown(h) \cup S
    <3>1. CASE hpc[h] = "start"
      BY <2>1, <3>1 DEF PagesCover, Older, Shown, TypeOK
    <3>2. CASE hpc[h] # "start"
      BY <2>1, <3>2 DEF PagesCover, PullHistoryMessage
    <3> QED
      BY <3>1, <3>2
  <2>6. hpc'[h] = "end" => S \subseteq P
    <3>1. hpc'[h] = "end" => ~(Cardinality(Limit(S, PageSize + 1)) > PageSize)
      BY <2>1 DEF HasMore, TypeOK
    <3> QED
      BY <2>2, <3>1, NoExtraRow
  <2> HIDE DEF S, P
  <2>7. PagesCover'
    <3>1. hpc'[h] # "start" /\ had'[h] \subseteq Shown(h)' \cup Older(h)'
      BY <2>1, <2>3, <2>4, <2>5 DEF TypeOK
    <3> QED
      BY <1>1, <1>2, <3>1 DEF PagesCover
  <2>8. HistoryComplete'
    <3>1. hpc'[h] = "end" => had'[h] \subseteq Shown(h)'
      BY <2>3, <2>5, <2>6
    <3> QED
      BY <1>1, <1>2, <3>1 DEF HistoryComplete
  <2> QED
    BY <2>7, <2>8
<1> QED
  BY <1>3, <1>4 DEF PullHistoryMessage, HGoto, TypeOK

-----------------------------------------------------------------------------
LEMMA StoreStep == StoreInv /\ [Next]_vars => StoreInv'
<1> SUFFICES ASSUME StoreInv, [Next]_vars PROVE StoreInv'
  OBVIOUS
<1> USE DEF StoreInv
<1>1. ASSUME NEW s \in Frame,
             \/ GenAutoSnowId(s) \/ GetPrivateConversation(s) \/ CreateMessage(s) \/ StartPush(s)
             \/ ReplayAck(s) \/ SendError(s) \/ PushSelf(s) \/ PushPeer(s)
      PROVE  StoreInv'
  <2>1. TypeOK' /\ FrameIsStored' /\ ToldIsStored'
    BY <1>1, TypeFrame, FrameStep, ToldFrame
  <2>2. /\ UNCHANGED <<conv, markVars, pageVars>>
        /\ message' = message \/ (CreateMessage(s) /\ message \subseteq message')
    BY <1>1 DEF GenAutoSnowId, GetPrivateConversation, CreateMessage, StartPush, ReplayAck,
                SendError, PushSelf, PushPeer
  <2>3. WatermarkIsSeen'
    BY <2>2, WatermarkGrows
  <2>4. NewestExists'
    BY <2>2, NewestStep DEF NewestExists, Ids
  <2>5. RowIsPlaced' /\ MarkIsKept'
    BY <1>1, <2>2, PlacedFrame DEF MarkIsKept, markVars
  <2>6. HistoryInOrder' /\ PagesCover' /\ HistoryComplete'
    BY <2>2, PagesGrow DEF HistoryInOrder, pageVars
  <2> QED
    BY <2>1, <2>3, <2>4, <2>5, <2>6
<1>2. ASSUME NEW m \in Mark, SelectMax(m) \/ FirstOrCreate(m) \/ UpdateLastRead(m) \/ MarkError(m)
      PROVE  StoreInv'
  <2>1. TypeOK' /\ WatermarkIsSeen' /\ MarkIsKept'
    BY <1>2, TypeMark, WatermarkMark, KeptMark
  <2>2. UNCHANGED <<conv, message, frameVars, pushVars, pageVars>>
    BY <1>2 DEF SelectMax, FirstOrCreate, UpdateLastRead, MarkError
  <2>3. FrameIsStored' /\ NewestExists' /\ ToldIsStored' /\ RowIsPlaced'
    BY <2>2 DEF frameVars, pushVars, FrameIsStored, Stray, Row, NewestExists, Ids,
                ToldIsStored, RowIsPlaced
  <2>4. HistoryInOrder' /\ PagesCover' /\ HistoryComplete'
    BY <2>2, PagesGrow DEF HistoryInOrder, pageVars
  <2> QED
    BY <2>1, <2>3, <2>4
<1>3. ASSUME NEW h \in Reader, PullHistoryMessage(h)
      PROVE  StoreInv'
  <2>1. TypeOK' /\ HistoryInOrder' /\ PagesCover' /\ HistoryComplete'
    BY <1>3, TypePage, HistoryStep, PagesStep
  <2>2. UNCHANGED <<conv, message, frameVars, pushVars, markVars>>
    BY <1>3 DEF PullHistoryMessage
  <2>3. FrameIsStored' /\ NewestExists' /\ ToldIsStored' /\ RowIsPlaced'
    BY <2>2 DEF frameVars, pushVars, FrameIsStored, Stray, Row, NewestExists, Ids,
                ToldIsStored, RowIsPlaced
  <2>4. WatermarkIsSeen' /\ MarkIsKept'
    BY <2>2, WatermarkGrows DEF MarkIsKept, markVars
  <2> QED
    BY <2>1, <2>3, <2>4
<1>4. ASSUME NEW c \in Conv, UpdateApply(c)
      PROVE  StoreInv'
  <2>1. TypeOK' /\ FrameIsStored' /\ NewestExists' /\ RowIsPlaced'
    BY <1>4, TypeAgree, FrameAgree, NewestAgree, PlacedAgree
  <2>2. /\ message \subseteq message'
        /\ UNCHANGED <<id, into, acked, told, markVars, pageVars>>
    BY <1>4 DEF UpdateApply, pushVars
  <2>3. WatermarkIsSeen' /\ ToldIsStored' /\ MarkIsKept'
    BY <2>2, WatermarkGrows, ToldGrows DEF MarkIsKept, markVars
  <2>4. HistoryInOrder' /\ PagesCover' /\ HistoryComplete'
    BY <2>2, PagesGrow DEF HistoryInOrder, pageVars
  <2> QED
    BY <2>1, <2>3, <2>4
<1>5. CASE UNCHANGED vars
  <2> USE <1>5 DEF vars, frameVars, pushVars, markVars, pageVars
  <2>1. TypeOK'
    BY DEF TypeOK
  <2>2. FrameIsStored' /\ ToldIsStored'
    BY DEF FrameIsStored, Stray, ToldIsStored, Row
  <2>3. NewestExists' /\ WatermarkIsSeen'
    BY DEF NewestExists, WatermarkIsSeen, Ids
  <2>4. RowIsPlaced' /\ MarkIsKept' /\ HistoryInOrder'
    BY DEF RowIsPlaced, Stray, Row, MarkIsKept, HistoryInOrder
  <2>5. PagesCover' /\ HistoryComplete'
    BY PagesGrow
  <2> QED
    BY <2>1, <2>2, <2>3, <2>4, <2>5
<1> QED
  BY <1>1, <1>2, <1>3, <1>4, <1>5 DEF Next

LEMMA StoreHolds == Spec => []StoreInv
BY StoreInit, StoreStep, PTL DEF Spec

\* The variables of ChatStore keep their types: rows of a conversation or of
\* none, watermarks and maxima that are ids.
THEOREM StoreTypeCorrect == Spec => []TypeOK
BY StoreHolds, PTL DEF StoreInv

\* An acknowledged frame and a pushed id are stored messages of their two users:
\* ReplayAck and the push goroutine come after the commit and use its row.
THEOREM ToldMessagesAreStored == Spec => []ToldIsStored
BY StoreHolds, PTL DEF StoreInv

\* A frame can put a message only into the conversation of its two users,
\* whatever conversation it carries, and into none only if it carried none and
\* they had none when it came: GetPrivateConversation decides.
THEOREM MessagesStayBetweenMembers == Spec => []MessageIsBetweenMembers
<1>1. StoreInv => MessageIsBetweenMembers
  BY DEF StoreInv, RowIsPlaced, Stray, MessageIsBetweenMembers
<1> QED
  BY <1>1, StoreHolds, PTL

\* A watermark is never above what a mark of its user has counted, so a newer
\* message is returned by PullUnReadMessage, for any number of marks at once.
THEOREM NewMessagesAreUnread == Spec => []NewIsUnread
<1>1. StoreInv => NewIsUnread
  <2> SUFFICES ASSUME StoreInv, NEW m \in message, NEW u \in Uid,
                      IsConversationMember(m.conv, u),
                      \A x \in seen[u] \cap Ids(m.conv) : x < m.id
               PROVE  m \in PullUnReadMessage(u)
    BY DEF NewIsUnread
  <2>1. m.conv \in Conv /\ m.id \in Nat /\ m.id > 0 /\ lastRead[u][m.conv] \in Nat
    BY DEF StoreInv, TypeOK, NewestExists, IsConversationMember
  <2>2. CASE lastRead[u][m.conv] = 0
    BY <2>1, <2>2 DEF PullUnReadMessage
  <2>3. CASE \E x \in seen[u] \cap Ids(m.conv) : lastRead[u][m.conv] <= x
    <3>1. PICK x \in seen[u] \cap Ids(m.conv) : lastRead[u][m.conv] <= x
      BY <2>3
    <3>2. x \in Nat
      BY DEF StoreInv, TypeOK
    <3> QED
      BY <2>1, <3>1, <3>2 DEF PullUnReadMessage
  <2> QED
    BY <2>1, <2>2, <2>3 DEF StoreInv, WatermarkIsSeen
<1> QED
  BY <1>1, StoreHolds, PTL

\* What a mark counted stays read, unless another mark of its user that had read
\* an older maximum writes last: UPDATE follows the comparison of its own mark.
THEOREM MarkedStaysRead == Spec => []MarkedIsRead
<1>1. StoreInv => MarkedIsRead
  <2> SUFFICES ASSUME StoreInv, NEW m \in Mark, mpc[m] = "done",
                      lastRead[Marker[m]][Marked[m]] >= maxId[m],
                      NEW x \in PullUnReadMessage(Marker[m]), x.conv = Marked[m]
               PROVE  x.id > maxId[m]
    BY DEF StoreInv, MarkIsKept, MarkedIsRead
  <2>1. x \in message /\ x.id > lastRead[Marker[m]][Marked[m]]
    BY DEF PullUnReadMessage
  <2>2. x.id \in Nat /\ maxId[m] \in Nat /\ lastRead[Marker[m]][Marked[m]] \in Nat
    BY <2>1, ChatAssumption DEF StoreInv, TypeOK
  <2> QED
    BY <2>1, <2>2
<1> QED
  BY <1>1, StoreHolds, PTL

\* Pages follow each other from new to old and repeat nothing, whatever is sent
\* meanwhile: the cursor bounds every later page.
THEOREM HistoryStaysInOrder == Spec => []HistoryInOrder
BY StoreHolds, PTL DEF StoreInv

\* A client told that there is no more has everything from before it began: the
\* page is cut from what is below the cursor, and one row more tells the end.
THEOREM HistoryIsComplete == Spec => []HistoryComplete
BY StoreHolds, PTL DEF StoreInv
=============================================================================

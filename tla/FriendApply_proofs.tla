------------------------- MODULE FriendApply_proofs -------------------------
(***************************************************************************)
(* Proofs about FriendApply for any number of users, applications and      *)
(* answers: type correctness, that a verdict is final, and that friends    *)
(* share exactly one conversation.                                         *)
(***************************************************************************)
EXTENDS FriendApply, FiniteSetTheorems, SequenceTheorems, TLAPS

\* A request that read an application has it, and pushes no more than planned.
ReadOne(q) == upc[q] \notin {"start", "rejected", "failed"} => record[q] \in Apply
PushLeft(q) == /\ upc[q] \notin {"push", "failed", "done"} => pushed[q] = 0
               /\ upc[q] = "push" => pushed[q] < (IF agree[q] THEN 6 ELSE 2)
               /\ upc[q] \in {"friend1", "friend2", "conv"} => agree[q]

TypeInv == TypeOK /\ \A q \in Update : ReadOne(q) /\ PushLeft(q)

\* The row lock: two transactions never work on one application, and one whose
\* UPDATE hit a pending row finds it pending when it commits.
RowLocked == \A q \in Update :
               /\ upc[q] \in InTx /\ hit[q] => Pending(record[q])
               /\ \A p \in Update \ {q} : upc[q] \in InTx => ~HoldsRow(p, record[q])
InsertIsNew == \A a \in Apply : apc[a] \in {"start", "hasPending", "targetPending", "insert"}
                                  => status[a] = "none"
RowInv == RowLocked /\ InsertIsNew

\* The key locks: a friend key has one holder, and is not in the table yet.
KeyLocked == \A q \in Update, k \in Uid \X Uid : HoldsKey(q, k) => KeyFree(q, k) /\ k \notin friend
\* Conversations are made by agreements, one for each pair of friends.
ConvMade == \A c \in conv : /\ upc[c] \in {"push", "done", "failed"} /\ record[c] \in Apply
                            /\ Key1(c) \in friend /\ Key2(c) \in friend
ConvUnique == \A c, d \in conv : Members(c) = Members(d) => c = d
FriendsTalk == \A u, v \in Uid : <<u, v>> \in friend =>
                 <<v, u>> \in friend /\ \E c \in conv : Members(c) = {u, v}
NoneFound == \A q \in Update : upc[q] = "commit" /\ agree[q] => found[q] = NoConv

KeyInv == KeyLocked /\ ConvMade /\ ConvUnique /\ FriendsTalk /\ NoneFound

-----------------------------------------------------------------------------
(* Type correctness. *)

LEMMA TypeInit == Init => TypeInv
<1> SUFFICES ASSUME Init PROVE TypeInv
  OBVIOUS
<1>1. TypeOK
  BY ApplyAssumption DEF Init, TypeOK
<1>2. \A q \in Update : ReadOne(q) /\ PushLeft(q)
  BY DEF Init, ReadOne, PushLeft, InTx
<1> QED
  BY <1>1, <1>2 DEF TypeInv

\* A request to add a friend disturbs nothing of UpdateApply.
LEMMA TypeAdd ==
  ASSUME TypeInv, NEW a \in Apply, AddFriend(a) \/ AddError(a) \/ MarkFriendApplyRead(a)
  PROVE  TypeInv'
<1> USE ApplyAssumption DEF TypeInv, AGoto, dbVars, updVars, addVars
<1>0. (\A q \in Update : ReadOne(q) /\ PushLeft(q))'
  BY DEF AddFriend, AddCheckFriend, FriendApplyHasPending, IsTargetPending, CreateFriendApply,
         AddPush, AddError, MarkFriendApplyRead, ReadOne, PushLeft
<1> SUFFICES TypeOK'
  BY <1>0
<1>1. CASE AddCheckFriend(a)
  BY <1>1 DEF AddCheckFriend, TypeOK
<1>2. CASE FriendApplyHasPending(a)
  BY <1>2 DEF FriendApplyHasPending, TypeOK
<1>3. CASE IsTargetPending(a)
  BY <1>3 DEF IsTargetPending, TypeOK
<1>4. CASE CreateFriendApply(a)
  BY <1>4 DEF CreateFriendApply, TypeOK
<1>5. CASE AddPush(a)
  <2>1. \A u \in Uid : [to |-> u, kind |-> "addFriend", id |-> a, status |-> "pending"] \in Notice
    BY DEF Notice
  <2>2. notice' \subseteq Notice
    BY <1>5, <2>1 DEF AddPush, TypeOK
  <2> QED
    BY <1>5, <2>2 DEF AddPush, TypeOK
<1>6. CASE AddError(a)
  BY <1>6 DEF AddError, TypeOK
<1>7. CASE MarkFriendApplyRead(a)
  BY <1>7 DEF MarkFriendApplyRead, TypeOK
<1> QED
  BY <1>1, <1>2, <1>3, <1>4, <1>5, <1>6, <1>7 DEF AddFriend

\* The conversation of an answer is named after an answer.
LEMMA ConvOfType ==
  ASSUME TypeOK, NEW q \in Update
  PROVE  ConvOf(q) \in Update
BY DEF TypeOK, ConvOf

\* A plan has two pushes for a refusal and six for an agreement, each a notice.
LEMMA PlanType ==
  ASSUME TypeOK, NEW q \in Update, record[q] \in Apply
  PROVE  /\ PushPlan(q) \in Seq(Notice)
         /\ Len(PushPlan(q)) = IF agree[q] THEN 6 ELSE 2
<1> DEFINE a == record[q]
           verdict(u) == [to |-> u, kind |-> "addFriend", id |-> a, status |-> NewStatus(q)]
           chat(u, m) == [to |-> u, kind |-> "chat", id |-> m, conv |-> ConvOf(q)]
           two == <<verdict(From[a]), verdict(To[a])>>
           four == <<chat(From[a], a), chat(To[a], a), chat(From[a], q), chat(To[a], q)>>
<1>1. \A u \in Uid : verdict(u) \in Notice
  BY DEF Notice, NewStatus
<1>2. \A u \in Uid, m \in Apply \cup Update : chat(u, m) \in Notice
  BY ConvOfType DEF Notice
<1>3. From[a] \in Uid /\ To[a] \in Uid
  BY ApplyAssumption
<1>4. two \in Seq(Notice) /\ Len(two) = 2
  <2> HIDE DEF a, verdict
  <2> QED
    BY <1>1, <1>3
<1>5. four \in Seq(Notice) /\ Len(four) = 4
  <2>1. /\ chat(From[a], a) \in Notice /\ chat(To[a], a) \in Notice
        /\ chat(From[a], q) \in Notice /\ chat(To[a], q) \in Notice
    BY <1>2, <1>3
  <2> HIDE DEF chat
  <2> QED
    BY <2>1
<1>6. PushPlan(q) = two \o IF agree[q] THEN four ELSE <<>>
  BY DEF PushPlan
<1> HIDE DEF two, four
<1>7. CASE agree[q]
  <2>1. PushPlan(q) = two \o four
    BY <1>6, <1>7
  <2>2. QED
    <3>1. two \o four \in Seq(Notice) /\ Len(two \o four) = Len(two) + Len(four)
      BY <1>4, <1>5, ConcatProperties
    <3>2. Len(two) + Len(four) = 6
      BY <1>4, <1>5
    <3> QED
      BY <1>7, <2>1, <3>1, <3>2
<1>8. CASE ~agree[q]
  <2>1. << >> \in Seq(Notice) /\ Len(<< >>) = 0
    OBVIOUS
  <2> QED
    BY <1>4, <1>6, <1>8, <2>1
<1> QED
  BY <1>7, <1>8

LEMMA TypeUpdate ==
  ASSUME TypeInv, NEW q \in Update, UpdateApply(q) \/ UpdateError(q)
  PROVE  TypeInv'
<1> USE ApplyAssumption DEF TypeInv, UGoto, dbVars, addVars, InTx
<1>1. CASE UpdateRead(q)
  BY <1>1 DEF UpdateRead, TypeOK, ReadOne, PushLeft
<1>2. CASE UpdateCheckFriend(q)
  BY <1>2 DEF UpdateCheckFriend, TypeOK, ReadOne, PushLeft
<1>3. CASE UpdateFriendApplyStatus(q)
  BY <1>3 DEF UpdateFriendApplyStatus, TypeOK, ReadOne, PushLeft, Pending
<1>4. CASE CreateFriend(q)
  BY <1>4 DEF CreateFriend, TypeOK, ReadOne, PushLeft
<1>5. CASE DeadlockVictim(q)
  BY <1>5 DEF DeadlockVictim, TypeOK, ReadOne, PushLeft
<1>6. CASE GetPrivateConversation(q)
  BY <1>6 DEF GetPrivateConversation, TypeOK, ReadOne, PushLeft
<1>7. CASE UpdateCommit(q)
  <2>1. record[q] \in Apply /\ pushed[q] = 0 /\ ConvOf(q) \in Update
    BY <1>7, ConvOfType DEF UpdateCommit, ReadOne, PushLeft
  <2>2. (\A p \in Update : ReadOne(p) /\ PushLeft(p))'
    BY <1>7, <2>1 DEF UpdateCommit, TypeOK, ReadOne, PushLeft
  <2>3. status' \in [Apply -> {"none", "pending", "agreed", "refused"}]
    BY <1>7 DEF UpdateCommit, TypeOK, NewStatus
  <2>4. friend' \subseteq Uid \X Uid
    BY <1>7, <2>1 DEF UpdateCommit, TypeOK, Key1, Key2
  <2>5. conv' \subseteq Update /\ applyRead' \subseteq Apply
    BY <1>7, <2>1 DEF UpdateCommit, TypeOK
  <2>6. message' \subseteq [id : Apply \cup Update, conv : Update]
    BY <1>7, <2>1 DEF UpdateCommit, TypeOK
  <2> QED
    BY <1>7, <2>2, <2>3, <2>4, <2>5, <2>6 DEF UpdateCommit, TypeOK
<1>8. CASE UpdateError(q)
  BY <1>8 DEF UpdateError, TypeOK, ReadOne, PushLeft
<1>9. CASE UpdatePush(q)
  <2>1. record[q] \in Apply /\ pushed[q] \in 0 .. 6 /\ pushed[q] < (IF agree[q] THEN 6 ELSE 2)
    BY <1>9 DEF UpdatePush, TypeOK, ReadOne, PushLeft
  <2>2. /\ PushPlan(q) \in Seq(Notice) /\ Len(PushPlan(q)) = IF agree[q] THEN 6 ELSE 2
    BY <2>1, PlanType
  <2>3. PushPlan(q)[pushed[q] + 1] \in Notice
    BY <2>1, <2>2
  <2>4. notice' \subseteq Notice
    BY <1>9, <2>3 DEF UpdatePush, TypeOK
  <2>5. pushed[q] + 1 \in 0 .. 6
    BY <2>1
  <2>6. pushed' = [pushed EXCEPT ![q] = pushed[q] + 1] /\ pushed' \in [Update -> 0 .. 6]
    BY <1>9, <2>5 DEF UpdatePush, TypeOK
  <2>7. upc' = [upc EXCEPT ![q] = IF pushed[q] + 1 = (IF agree[q] THEN 6 ELSE 2)
                                  THEN "done" ELSE "push"]
    BY <1>9, <2>2 DEF UpdatePush
  <2>8. (\A p \in Update : ReadOne(p) /\ PushLeft(p))'
    BY <1>9, <2>1, <2>5, <2>6, <2>7 DEF UpdatePush, TypeOK, ReadOne, PushLeft
  <2> QED
    BY <1>9, <2>4, <2>6, <2>7, <2>8 DEF UpdatePush, TypeOK
<1> QED
  BY <1>1, <1>2, <1>3, <1>4, <1>5, <1>6, <1>7, <1>8, <1>9 DEF UpdateApply

LEMMA TypeStep == TypeInv /\ [Next]_vars => TypeInv'
<1> SUFFICES ASSUME TypeInv, [Next]_vars PROVE TypeInv'
  OBVIOUS
<1>1. CASE Next
  BY <1>1, TypeAdd, TypeUpdate DEF Next
<1>2. CASE UNCHANGED vars
  BY <1>2 DEF vars, dbVars, addVars, updVars, TypeInv, TypeOK, ReadOne, PushLeft
<1> QED
  BY <1>1, <1>2

\* Every variable keeps its type, for any users, applications and answers.
THEOREM FriendTypeCorrect == Spec => []TypeOK
<1>1. TypeInv => TypeOK
  BY DEF TypeInv
<1> QED
  BY <1>1, TypeInit, TypeStep, PTL DEF Spec

-----------------------------------------------------------------------------
(* The row lock, and that a verdict is final. *)

LEMMA RowInit == Init => RowInv
BY DEF Init, RowInv, RowLocked, InsertIsNew, InTx

LEMMA RowAdd ==
  ASSUME TypeInv, RowInv, NEW a \in Apply, AddFriend(a) \/ AddError(a) \/ MarkFriendApplyRead(a)
  PROVE  RowInv'
<1> USE DEF TypeInv, TypeOK, RowInv, RowLocked, InsertIsNew, HoldsRow, Pending,
            AGoto, dbVars, updVars, addVars
<1>1. CASE AddCheckFriend(a)
  BY <1>1 DEF AddCheckFriend
<1>2. CASE FriendApplyHasPending(a)
  BY <1>2 DEF FriendApplyHasPending
<1>3. CASE IsTargetPending(a)
  BY <1>3 DEF IsTargetPending
<1>4. CASE CreateFriendApply(a)
  BY <1>4 DEF CreateFriendApply
<1>5. CASE AddPush(a)
  BY <1>5 DEF AddPush
<1>6. CASE AddError(a)
  BY <1>6 DEF AddError
<1>7. CASE MarkFriendApplyRead(a)
  BY <1>7 DEF MarkFriendApplyRead
<1> QED
  BY <1>1, <1>2, <1>3, <1>4, <1>5, <1>6, <1>7 DEF AddFriend

LEMMA RowUpdate ==
  ASSUME TypeInv, RowInv, NEW q \in Update, UpdateApply(q) \/ UpdateError(q)
  PROVE  RowInv'
<1> USE DEF TypeInv, TypeOK, RowInv, RowLocked, InsertIsNew, HoldsRow, Pending,
            UGoto, InTx, dbVars, addVars
<1>1. CASE UpdateRead(q)
  BY <1>1 DEF UpdateRead
<1>2. CASE UpdateCheckFriend(q)
  BY <1>2 DEF UpdateCheckFriend
<1>3. CASE UpdateFriendApplyStatus(q)
  <2>1. /\ \A p \in Update \ {q} : upc'[p] = upc[p] /\ hit'[p] = hit[p]
        /\ upc'[q] \in InTx /\ hit'[q] = Pending(record[q])
        /\ record' = record /\ status' = status /\ apc' = apc
    BY <1>3 DEF UpdateFriendApplyStatus
  <2>2. \A p \in Update \ {q} : ~(upc[p] \in InTx /\ record[p] = record[q])
    BY <1>3 DEF UpdateFriendApplyStatus
  <2>3. RowLocked'
    <3>1. ASSUME NEW p \in Update, upc'[p] \in InTx, hit'[p]
          PROVE  Pending(record[p])'
      BY <2>1, <3>1
    <3>2. ASSUME NEW p \in Update, NEW r \in Update \ {p}, upc'[p] \in InTx
          PROVE  ~HoldsRow(r, record[p])'
      <4>1. CASE q \notin {p, r}
        BY <2>1, <3>2, <4>1
      <4>2. CASE q \in {p, r}
        BY <2>1, <2>2, <3>2, <4>2
      <4> QED
        BY <4>1, <4>2
    <3> QED
      BY <3>1, <3>2
  <2>4. InsertIsNew'
    BY <2>1
  <2> QED
    BY <2>3, <2>4
<1>4. CASE CreateFriend(q)
  BY <1>4 DEF CreateFriend
<1>5. CASE DeadlockVictim(q)
  BY <1>5 DEF DeadlockVictim
<1>6. CASE GetPrivateConversation(q)
  BY <1>6 DEF GetPrivateConversation
<1>7. CASE UpdateCommit(q)
  <2>1. record[q] \in Apply /\ \A a \in Apply \ {record[q]} : status'[a] = status[a]
    BY <1>7 DEF UpdateCommit, ReadOne
  <2>2. /\ upc' = [upc EXCEPT ![q] = "push"]
        /\ hit' = hit /\ record' = record /\ apc' = apc
    BY <1>7 DEF UpdateCommit
  <2>3. ASSUME NEW p \in Update, upc'[p] \in InTx
        PROVE  upc[p] \in InTx /\ p # q /\ record[p] \in Apply \ {record[q]}
    BY <1>7, <2>2, <2>3 DEF UpdateCommit, ReadOne
  <2>4. RowLocked'
    BY <2>1, <2>2, <2>3
  <2>5. status'[record[q]] = status[record[q]] \/ status[record[q]] = "pending"
    BY <1>7 DEF UpdateCommit
  <2>6. InsertIsNew'
    BY <2>1, <2>2, <2>5
  <2> QED
    BY <2>4, <2>6
<1>8. CASE UpdateError(q)
  BY <1>8 DEF UpdateError
<1>9. CASE UpdatePush(q)
  BY <1>9 DEF UpdatePush
<1> QED
  BY <1>1, <1>2, <1>3, <1>4, <1>5, <1>6, <1>7, <1>8, <1>9 DEF UpdateApply

LEMMA RowStep == TypeInv /\ RowInv /\ [Next]_vars => RowInv'
<1> SUFFICES ASSUME TypeInv, RowInv, [Next]_vars PROVE RowInv'
  OBVIOUS
<1>1. CASE Next
  BY <1>1, RowAdd, RowUpdate DEF Next
<1>2. CASE UNCHANGED vars
  BY <1>2 DEF vars, dbVars, addVars, updVars, RowInv, RowLocked, InsertIsNew, HoldsRow, Pending
<1> QED
  BY <1>1, <1>2

\* Only an insert and a commit change a status, from none and from pending.
LEMMA VerdictStep ==
  ASSUME TypeInv, RowInv, Next
  PROVE  /\ \A a \in Apply : status[a] \in {"agreed", "refused"} => status'[a] = status[a]
         /\ friend \subseteq friend'
<1> USE DEF dbVars, TypeInv, TypeOK
<1>1. ASSUME NEW a \in Apply, AddFriend(a) \/ AddError(a) \/ MarkFriendApplyRead(a)
      PROVE  /\ \A b \in Apply : status[b] \in {"agreed", "refused"} => status'[b] = status[b]
             /\ friend' = friend
  <2>1. CASE CreateFriendApply(a)
    BY <2>1 DEF CreateFriendApply, RowInv, InsertIsNew
  <2>2. CASE ~CreateFriendApply(a)
    BY <1>1, <2>2 DEF AddFriend, AddCheckFriend, FriendApplyHasPending, IsTargetPending,
                      AddPush, AddError, MarkFriendApplyRead
  <2> QED
    BY <2>1, <2>2
<1>2. ASSUME NEW q \in Update, UpdateApply(q) \/ UpdateError(q)
      PROVE  /\ \A b \in Apply : status[b] \in {"agreed", "refused"} => status'[b] = status[b]
             /\ friend \subseteq friend'
  <2>1. CASE UpdateCommit(q)
    <3>1. hit[q] => status[record[q]] = "pending"
      BY <2>1 DEF UpdateCommit, RowInv, RowLocked, InTx, Pending
    <3> QED
      BY <2>1, <3>1 DEF UpdateCommit
  <2>2. CASE ~UpdateCommit(q)
    BY <1>2, <2>2 DEF UpdateApply, UpdateRead, UpdateCheckFriend, UpdateFriendApplyStatus,
                      CreateFriend, DeadlockVictim, GetPrivateConversation, UpdateError, UpdatePush
  <2> QED
    BY <2>1, <2>2
<1> QED
  BY <1>1, <1>2 DEF Next

\* A verdict is final: however answers to one application overlap, the first
\* commit decides and no request changes it; and no friendship ends.
THEOREM VerdictsAreFinal == Spec => VerdictIsFinal
<1>1. Init => TypeInv /\ RowInv
  BY TypeInit, RowInit
<1>2. TypeInv /\ RowInv /\ [Next]_vars => (TypeInv /\ RowInv)'
  BY TypeStep, RowStep
<1>3. TypeInv /\ RowInv /\ [Next]_vars =>
        [/\ \A a \in Apply : status[a] \in {"agreed", "refused"} => status'[a] = status[a]
         /\ friend \subseteq friend']_vars
  BY VerdictStep
<1> QED
  BY <1>1, <1>2, <1>3, PTL DEF Spec, VerdictIsFinal

-----------------------------------------------------------------------------
(* The key locks, and that friends share one conversation. *)

LEMMA KeyInit == Init => KeyInv
BY DEF Init, KeyInv, KeyLocked, ConvMade, ConvUnique, FriendsTalk, NoneFound, HoldsKey

\* A step that leaves UpdateApply and its tables alone.
LEMMA KeyQuiet ==
  ASSUME KeyInv, UNCHANGED <<friend, conv, upc, record, agree, found>>
  PROVE  KeyInv'
BY DEF KeyInv, KeyLocked, ConvMade, ConvUnique, FriendsTalk, NoneFound,
       HoldsKey, KeyFree, Key1, Key2, Members, Pair

\* A step of q that takes no key and makes nothing: its keys are among those
\* it held, and its conversation, if any, stays made.
LEMMA KeyKept ==
  ASSUME TypeInv, KeyInv, NEW q \in Update,
         UNCHANGED <<friend, conv, record, agree>>,
         \A p \in Update \ {q} : upc'[p] = upc[p] /\ found'[p] = found[p],
         \A k \in Uid \X Uid : HoldsKey(q, k)' => HoldsKey(q, k),
         upc[q] \in {"push", "done", "failed"} => upc'[q] \in {"push", "done", "failed"},
         upc'[q] = "commit" /\ agree[q] => found'[q] = NoConv
  PROVE  KeyInv'
<1>1. ASSUME NEW p \in Update, NEW k \in Uid \X Uid, HoldsKey(p, k)'
      PROVE  HoldsKey(p, k)
  BY <1>1 DEF HoldsKey, Key1, Key2
<1>2. KeyLocked'
  BY <1>1 DEF KeyInv, KeyLocked, KeyFree
<1>3. ConvMade'
  BY DEF KeyInv, ConvMade, Key1, Key2, TypeInv, TypeOK
<1>4. ConvUnique' /\ FriendsTalk'
  BY DEF KeyInv, ConvUnique, FriendsTalk, Members, Pair
<1>5. NoneFound'
  BY DEF KeyInv, NoneFound
<1> QED
  BY <1>2, <1>3, <1>4, <1>5 DEF KeyInv

\* The keys of a conversation of the same two users are q's keys.
LEMMA SamePairSameKeys ==
  ASSUME NEW c, NEW q, record[c] \in Apply, record[q] \in Apply, Members(c) = Members(q)
  PROVE  \/ Key1(c) = Key1(q) /\ Key2(c) = Key2(q)
         \/ Key1(c) = Key2(q) /\ Key2(c) = Key1(q)
BY ApplyAssumption DEF Members, Pair, Key1, Key2

\* While q holds both keys, its two users have no conversation.
LEMMA NoConvYet ==
  ASSUME TypeInv, KeyInv, NEW q \in Update, upc[q] \in {"conv", "commit"}, agree[q],
         NEW c \in conv
  PROVE  Members(c) # Members(q)
<1>1. record[q] \in Apply /\ record[c] \in Apply
  BY DEF TypeInv, ReadOne, KeyInv, ConvMade
<1>2. Key1(q) \in Uid \X Uid /\ Key2(q) \in Uid \X Uid
  BY <1>1, ApplyAssumption DEF Key1, Key2
<1>3. Key1(q) \notin friend /\ Key2(q) \notin friend
  BY <1>2 DEF KeyInv, KeyLocked, HoldsKey
<1>4. Key1(c) \in friend /\ Key2(c) \in friend
  BY DEF KeyInv, ConvMade
<1> QED
  BY <1>1, <1>3, <1>4, SamePairSameKeys

LEMMA KeyUpdate ==
  ASSUME TypeInv, KeyInv, NEW q \in Update, UpdateApply(q) \/ UpdateError(q)
  PROVE  KeyInv'
<1> USE DEF UGoto, InTx
<1>0. upc \in [Update -> InTx \cup {"start", "isFriend", "begin", "push",
                                    "rejected", "failed", "done"}]
  BY DEF TypeInv, TypeOK
<1>1. CASE UpdateRead(q)
  <2>1. /\ upc[q] = "start" /\ upc'[q] \in {"isFriend", "rejected"}
        /\ \A p \in Update \ {q} : /\ upc'[p] = upc[p] /\ record'[p] = record[p]
                                   /\ agree'[p] = agree[p]
        /\ UNCHANGED <<friend, conv, found>>
    BY <1>0, <1>1 DEF UpdateRead, dbVars, TypeInv, TypeOK
  <2>2. q \notin conv
    BY <2>1 DEF KeyInv, ConvMade
  <2>3. conv \subseteq Update
    BY DEF TypeInv, TypeOK
  <2>4. \A c \in conv : Key1(c)' = Key1(c) /\ Key2(c)' = Key2(c) /\ Members(c)' = Members(c)
    BY <2>1, <2>2, <2>3 DEF Key1, Key2, Members, Pair
  <2>5. \A p \in Update, k \in Uid \X Uid : HoldsKey(p, k)' => p # q /\ HoldsKey(p, k)
    BY <2>1 DEF HoldsKey, Key1, Key2
  <2>6. KeyLocked'
    BY <2>1, <2>5 DEF KeyInv, KeyLocked, KeyFree
  <2>7. ConvMade'
    BY <2>1, <2>2, <2>3, <2>4 DEF KeyInv, ConvMade
  <2>8. ConvUnique' /\ FriendsTalk'
    BY <2>1, <2>4 DEF KeyInv, ConvUnique, FriendsTalk
  <2>9. NoneFound'
    BY <2>1 DEF KeyInv, NoneFound
  <2> QED
    BY <2>6, <2>7, <2>8, <2>9 DEF KeyInv
<1>2. CASE UpdateCheckFriend(q)
  BY <1>0, <1>2, KeyKept DEF UpdateCheckFriend, HoldsKey, dbVars
<1>3. CASE UpdateFriendApplyStatus(q)
  BY <1>0, <1>3, KeyKept DEF UpdateFriendApplyStatus, HoldsKey, dbVars, KeyInv, NoneFound
<1>4. CASE CreateFriend(q)
  <2>1. /\ \A p \in Update \ {q} : upc'[p] = upc[p]
        /\ UNCHANGED <<friend, conv, record, agree, found>>
    BY <1>0, <1>4 DEF CreateFriend, dbVars
  <2>2. /\ upc[q] \in {"friend1", "friend2"}
        /\ upc'[q] \in {"friend2", "conv", "failed"}
        /\ agree[q]
    BY <1>0, <1>4 DEF CreateFriend, TypeInv, PushLeft
  <2>3. ASSUME NEW k \in Uid \X Uid, HoldsKey(q, k)'
        PROVE  HoldsKey(q, k) \/ (KeyFree(q, k) /\ k \notin friend)
    BY <1>0, <1>4, <2>1, <2>3 DEF CreateFriend, HoldsKey, Key1, Key2
  <2>4. \A p \in Update \ {q}, k \in Uid \X Uid : HoldsKey(p, k)' <=> HoldsKey(p, k)
    BY <2>1 DEF HoldsKey, Key1, Key2
  <2>5. KeyLocked'
    <3> SUFFICES ASSUME NEW p \in Update, NEW k \in Uid \X Uid, HoldsKey(p, k)'
                 PROVE  k \notin friend /\ \A r \in Update \ {p} : ~HoldsKey(r, k)'
      BY <2>1 DEF KeyLocked, KeyFree
    <3>1. CASE p = q
      BY <2>3, <2>4, <3>1 DEF KeyInv, KeyLocked, KeyFree
    <3>2. CASE p # q
      BY <2>3, <2>4, <3>2 DEF KeyInv, KeyLocked, KeyFree
    <3> QED
      BY <3>1, <3>2
  <2>6. ConvMade' /\ ConvUnique' /\ FriendsTalk'
    <3>1. conv \subseteq Update /\ q \notin conv
      BY <2>2 DEF KeyInv, ConvMade, TypeInv, TypeOK
    <3>2. \A c \in conv : Key1(c)' = Key1(c) /\ Key2(c)' = Key2(c) /\ Members(c)' = Members(c)
      BY <2>1 DEF Key1, Key2, Members, Pair
    <3>3. ConvMade'
      BY <2>1, <3>1, <3>2 DEF KeyInv, ConvMade
    <3>4. ConvUnique' /\ FriendsTalk'
      BY <2>1, <3>2 DEF KeyInv, ConvUnique, FriendsTalk
    <3> QED
      BY <3>3, <3>4
  <2>7. NoneFound'
    BY <2>1, <2>2 DEF KeyInv, NoneFound
  <2> QED
    BY <2>5, <2>6, <2>7 DEF KeyInv
<1>5. CASE DeadlockVictim(q)
  BY <1>0, <1>5, KeyKept DEF DeadlockVictim, HoldsKey, dbVars
<1>6. CASE GetPrivateConversation(q)
  <2>1. agree[q] /\ upc[q] = "conv"
    BY <1>6 DEF GetPrivateConversation, TypeInv, PushLeft
  <2>2. found'[q] = NoConv
    BY <1>6, <2>1, NoConvYet DEF GetPrivateConversation, TypeInv, TypeOK
  <2>3. \A k \in Uid \X Uid : HoldsKey(q, k)' => HoldsKey(q, k)
    BY <1>6, <2>1 DEF GetPrivateConversation, HoldsKey, Key1, Key2
  <2>4. /\ UNCHANGED <<friend, conv, record, agree>>
        /\ \A p \in Update \ {q} : upc'[p] = upc[p] /\ found'[p] = found[p]
    BY <1>0, <1>6 DEF GetPrivateConversation, dbVars, TypeInv, TypeOK
  <2> QED
    BY <2>1, <2>2, <2>3, <2>4, KeyKept
<1>7. CASE UpdateCommit(q)
  <2>0. CASE ~agree[q]
    <3>1. /\ UNCHANGED <<friend, conv, record, agree, found>>
          /\ upc' = [upc EXCEPT ![q] = "push"] /\ upc[q] = "commit"
      BY <1>7, <2>0 DEF UpdateCommit
    <3>2. \A k \in Uid \X Uid : HoldsKey(q, k)' => HoldsKey(q, k)
      BY <1>0, <3>1 DEF HoldsKey
    <3> QED
      BY <1>0, <3>1, <3>2, KeyKept
  <2>1. CASE agree[q]
    <3>1. upc[q] = "commit" /\ record[q] \in Apply /\ found[q] = NoConv /\ conv \subseteq Update
      BY <1>7, <2>1 DEF UpdateCommit, TypeInv, TypeOK, ReadOne, KeyInv, NoneFound
    <3>2. /\ friend' = friend \cup {Key1(q), Key2(q)} /\ conv' = conv \cup {q}
          /\ upc' = [upc EXCEPT ![q] = "push"]
          /\ UNCHANGED <<record, agree, found>>
      BY <1>7, <2>1, <3>1 DEF UpdateCommit, ConvOf
    <3>3. Key1(q) \in Uid \X Uid /\ Key2(q) \in Uid \X Uid
      BY <3>1, ApplyAssumption DEF Key1, Key2
    <3>4. HoldsKey(q, Key1(q)) /\ HoldsKey(q, Key2(q))
      BY <2>1, <3>1 DEF HoldsKey
    <3>5. \A p \in Update : /\ Key1(p)' = Key1(p) /\ Key2(p)' = Key2(p)
                            /\ Members(p)' = Members(p)
      BY <3>2 DEF Key1, Key2, Members, Pair
    <3>6. \A p \in Update, k \in Uid \X Uid : HoldsKey(p, k)' => p # q /\ HoldsKey(p, k)
      BY <1>0, <3>2 DEF HoldsKey, Key1, Key2
    <3>7. KeyLocked'
      <4> SUFFICES ASSUME NEW p \in Update, NEW k \in Uid \X Uid, HoldsKey(p, k)'
                   PROVE  k \notin friend' /\ \A r \in Update \ {p} : ~HoldsKey(r, k)'
        BY DEF KeyLocked, KeyFree
      <4>1. p # q /\ HoldsKey(p, k)
        BY <3>6
      <4>2. k \notin friend /\ \A r \in Update \ {p} : ~HoldsKey(r, k)
        BY <4>1 DEF KeyInv, KeyLocked, KeyFree
      <4>3. k # Key1(q) /\ k # Key2(q)
        BY <3>4, <4>1, <4>2
      <4> QED
        BY <3>2, <3>6, <4>2, <4>3
    <3>8. ConvMade'
      BY <1>0, <3>1, <3>2, <3>5 DEF KeyInv, ConvMade
    <3>9. \A c \in conv : Members(c) # Members(q)
      BY <2>1, <3>1, NoConvYet
    <3>10. ConvUnique'
      BY <3>1, <3>2, <3>5, <3>9 DEF KeyInv, ConvUnique
    <3>11. FriendsTalk'
      <4> SUFFICES ASSUME NEW u \in Uid, NEW v \in Uid, <<u, v>> \in friend'
                   PROVE  <<v, u>> \in friend' /\ \E c \in conv' : Members(c)' = {u, v}
        BY DEF FriendsTalk
      <4>1. CASE <<u, v>> \in friend
        BY <3>1, <3>2, <3>5, <4>1 DEF KeyInv, FriendsTalk
      <4>2. CASE <<u, v>> \in {Key1(q), Key2(q)}
        <5>1. Members(q) = {u, v} /\ <<v, u>> \in {Key1(q), Key2(q)}
          BY <4>2 DEF Key1, Key2, Members, Pair
        <5> QED
          BY <3>2, <3>5, <5>1
      <4> QED
        BY <3>2, <4>1, <4>2
    <3>12. NoneFound'
      BY <1>0, <3>2 DEF KeyInv, NoneFound
    <3> QED
      BY <3>7, <3>8, <3>10, <3>11, <3>12 DEF KeyInv
  <2> QED
    BY <2>0, <2>1
<1>8. CASE UpdateError(q)
  BY <1>0, <1>8, KeyKept DEF UpdateError, HoldsKey, dbVars
<1>9. CASE UpdatePush(q)
  BY <1>0, <1>9, KeyKept DEF UpdatePush, HoldsKey, dbVars
<1> QED
  BY <1>1, <1>2, <1>3, <1>4, <1>5, <1>6, <1>7, <1>8, <1>9 DEF UpdateApply

LEMMA KeyStep == TypeInv /\ KeyInv /\ [Next]_vars => KeyInv'
<1> SUFFICES ASSUME TypeInv, KeyInv, [Next]_vars PROVE KeyInv'
  OBVIOUS
<1>1. ASSUME NEW a \in Apply, AddFriend(a) \/ AddError(a) \/ MarkFriendApplyRead(a)
      PROVE  UNCHANGED <<friend, conv, upc, record, agree, found>>
  BY <1>1 DEF AddFriend, AddCheckFriend, FriendApplyHasPending, IsTargetPending,
              CreateFriendApply, AddPush, AddError, MarkFriendApplyRead, dbVars, updVars
<1>2. CASE Next
  BY <1>1, <1>2, KeyQuiet, KeyUpdate DEF Next
<1>3. CASE UNCHANGED vars
  BY <1>3, KeyQuiet DEF vars, dbVars, updVars
<1> QED
  BY <1>2, <1>3

LEMMA OneConversation == TypeInv /\ KeyInv => FriendsShareOneConversation
<1> SUFFICES ASSUME TypeInv, KeyInv, NEW u \in Uid, NEW v \in Uid, u # v
             PROVE  /\ <<u, v>> \in friend <=> <<v, u>> \in friend
                    /\ Cardinality({c \in conv : Members(c) = {u, v}})
                         = (IF <<u, v>> \in friend THEN 1 ELSE 0)
  BY DEF FriendsShareOneConversation
<1> DEFINE Cs == {c \in conv : Members(c) = {u, v}}
<1>1. <<u, v>> \in friend <=> <<v, u>> \in friend
  BY DEF KeyInv, FriendsTalk
<1>2. CASE <<u, v>> \in friend
  <2>1. PICK c \in conv : Members(c) = {u, v}
    BY <1>2 DEF KeyInv, FriendsTalk
  <2>2. Cs = {c}
    BY <2>1 DEF KeyInv, ConvUnique
  <2> QED
    BY <1>1, <1>2, <2>2, FS_Singleton
<1>3. CASE <<u, v>> \notin friend
  <2>1. ASSUME NEW c \in conv, Members(c) = {u, v} PROVE FALSE
    <3>1. Key1(c) \in friend /\ Key2(c) \in friend
      BY DEF KeyInv, ConvMade
    <3>2. <<u, v>> \in {Key1(c), Key2(c)}
      BY <2>1 DEF Members, Pair, Key1, Key2
    <3> QED
      BY <1>3, <3>1, <3>2
  <2>2. Cs = {}
    BY <2>1
  <2> QED
    BY <1>1, <1>3, <2>2, FS_EmptySet
<1> QED
  BY <1>2, <1>3

\* Friendship is mutual, and two users have one private conversation if they
\* are friends and none otherwise, however their agreements interleave.
THEOREM FriendsStayInOneConversation == Spec => []FriendsShareOneConversation
<1>1. Init => TypeInv /\ KeyInv
  BY TypeInit, KeyInit
<1>2. TypeInv /\ KeyInv /\ [Next]_vars => (TypeInv /\ KeyInv)'
  BY TypeStep, KeyStep
<1> QED
  BY <1>1, <1>2, OneConversation, PTL DEF Spec

-----------------------------------------------------------------------------
(* The refinement: every step is one of Friendship's, or none. *)

\* An application that was read stays in the table, and one that the status
\* UPDATE missed stays decided.
StaysRead == \A q \in Update :
               /\ upc[q] \in {"isFriend", "begin"} \cup InTx => status[record[q]] # "none"
               /\ upc[q] \in InTx /\ ~hit[q] => ~Pending(record[q])

LEMMA StaysReadInit == Init => StaysRead
BY DEF Init, StaysRead, InTx

LEMMA StaysReadAdd ==
  ASSUME TypeInv, RowInv, StaysRead,
         NEW a \in Apply, AddFriend(a) \/ AddError(a) \/ MarkFriendApplyRead(a)
  PROVE  StaysRead'
<1>1. UNCHANGED <<upc, record, hit>>
  BY DEF AddFriend, AddCheckFriend, FriendApplyHasPending, IsTargetPending, CreateFriendApply,
         AddPush, AddError, MarkFriendApplyRead, updVars
<1>2. CASE CreateFriendApply(a)
  <2>1. status[a] = "none" /\ status' = [status EXCEPT ![a] = "pending"]
    BY <1>2 DEF CreateFriendApply, RowInv, InsertIsNew
  <2>2. ASSUME NEW q \in Update, upc[q] \in {"isFriend", "begin"} \cup InTx
        PROVE  record[q] \in Apply /\ status[record[q]] # "none" /\ status'[record[q]] = status[record[q]]
    BY <2>1, <2>2 DEF StaysRead, TypeInv, TypeOK, ReadOne, InTx
  <2> QED
    BY <1>1, <2>2 DEF StaysRead, Pending
<1>3. CASE ~CreateFriendApply(a)
  <2>1. status' = status
    BY <1>3 DEF AddFriend, AddCheckFriend, FriendApplyHasPending, IsTargetPending, AddPush,
                AddError, MarkFriendApplyRead, dbVars
  <2> QED
    BY <1>1, <2>1 DEF StaysRead, Pending
<1> QED
  BY <1>2, <1>3

LEMMA StaysReadUpdate ==
  ASSUME TypeInv, RowInv, StaysRead, NEW q \in Update, UpdateApply(q) \/ UpdateError(q)
  PROVE  StaysRead'
<1> USE DEF TypeInv, TypeOK, StaysRead, Pending, UGoto, InTx, dbVars
<1>1. CASE UpdateRead(q)
  BY <1>1 DEF UpdateRead
<1>2. CASE UpdateCheckFriend(q)
  BY <1>2 DEF UpdateCheckFriend
<1>3. CASE UpdateFriendApplyStatus(q)
  BY <1>3 DEF UpdateFriendApplyStatus
<1>4. CASE CreateFriend(q)
  BY <1>4 DEF CreateFriend
<1>5. CASE DeadlockVictim(q)
  BY <1>5 DEF DeadlockVictim
<1>6. CASE GetPrivateConversation(q)
  BY <1>6 DEF GetPrivateConversation
<1>7. CASE UpdateCommit(q)
  <2>1. record[q] \in Apply /\ upc' = [upc EXCEPT ![q] = "push"] /\ hit' = hit /\ record' = record
    BY <1>7 DEF UpdateCommit, ReadOne
  <2>2. ASSUME NEW a \in Apply
        PROVE  /\ status[a] # "none" => status'[a] # "none"
               /\ status[a] # "pending" => status'[a] # "pending"
    BY <1>7, <2>1 DEF UpdateCommit, NewStatus
  <2> QED
    BY <2>1, <2>2 DEF ReadOne
<1>8. CASE UpdateError(q)
  BY <1>8 DEF UpdateError
<1>9. CASE UpdatePush(q)
  BY <1>9 DEF UpdatePush
<1> QED
  BY <1>1, <1>2, <1>3, <1>4, <1>5, <1>6, <1>7, <1>8, <1>9 DEF UpdateApply

LEMMA StaysReadStep == TypeInv /\ RowInv /\ StaysRead /\ [Next]_vars => StaysRead'
<1> SUFFICES ASSUME TypeInv, RowInv, StaysRead, [Next]_vars PROVE StaysRead'
  OBVIOUS
<1>1. CASE Next
  BY <1>1, StaysReadAdd, StaysReadUpdate DEF Next
<1>2. CASE UNCHANGED vars
  BY <1>2 DEF vars, dbVars, updVars, StaysRead, Pending
<1> QED
  BY <1>1, <1>2

LEMMA AddRefines ==
  ASSUME TypeInv, RowInv, NEW a \in Apply, AddFriend(a) \/ AddError(a) \/ MarkFriendApplyRead(a)
  PROVE  [Db!TablesNext]_(Db!tables)
<1> USE DEF Db!tables, Db!TablesNext, Db!Exists
<1>1. CASE CreateFriendApply(a)
  <2>1. Db!Submit(a)
    BY <1>1 DEF CreateFriendApply, RowInv, InsertIsNew, Db!Submit
  <2> QED
    BY <2>1
<1>2. CASE MarkFriendApplyRead(a)
  <2>1. Db!MarkRead(a)
    BY <1>2 DEF MarkFriendApplyRead, Db!MarkRead
  <2> QED
    BY <2>1
<1>3. CASE ~CreateFriendApply(a) /\ ~MarkFriendApplyRead(a)
  BY <1>3 DEF AddFriend, AddCheckFriend, FriendApplyHasPending, IsTargetPending, AddPush,
              AddError, dbVars
<1> QED
  BY <1>1, <1>2, <1>3

\* A commit is the verdict and what comes with it, in one step.
LEMMA CommitRefines ==
  ASSUME TypeInv, RowInv, KeyInv, StaysRead, NEW q \in Update, UpdateCommit(q)
  PROVE  [Db!TablesNext]_(Db!tables)
<1> DEFINE a == record[q]
<1>1. a \in Apply /\ upc[q] = "commit" /\ status[a] # "none"
  BY DEF UpdateCommit, TypeInv, ReadOne, StaysRead, InTx
<1>2. hit[q] <=> Pending(a)
  BY <1>1 DEF RowInv, RowLocked, StaysRead, InTx, TypeInv, TypeOK
<1>3. CASE agree[q]
  <2>1. HoldsKey(q, Key1(q)) /\ HoldsKey(q, Key2(q))
    BY <1>1, <1>3 DEF HoldsKey
  <2>2. Key1(q) \in Uid \X Uid /\ Key2(q) \in Uid \X Uid
    BY <1>1, ApplyAssumption DEF Key1, Key2
  <2>3. Key1(q) \notin friend /\ Key2(q) \notin friend
    BY <2>1, <2>2 DEF KeyInv, KeyLocked
  <2>4. Db!FriendRows(a) = {Key1(q), Key2(q)}
    BY DEF Db!FriendRows, Key1, Key2
  <2>5. /\ status' = IF Pending(a) THEN [status EXCEPT ![a] = "agreed"] ELSE status
        /\ friend' = friend \cup {Key1(q), Key2(q)} /\ applyRead' = applyRead \cup {a}
    BY <1>2, <1>3 DEF UpdateCommit, NewStatus
  <2>6. Db!Agree(a)
    BY <1>1, <2>3, <2>4, <2>5 DEF Db!Agree, Db!Exists, Db!Pending, Pending
  <2> QED
    BY <1>1, <2>6 DEF Db!TablesNext
<1>4. CASE ~agree[q] /\ hit[q]
  <2>1. Db!Refuse(a)
    BY <1>2, <1>4 DEF UpdateCommit, NewStatus, Db!Refuse, Db!Pending, Pending
  <2> QED
    BY <1>1, <2>1 DEF Db!TablesNext
<1>5. CASE ~agree[q] /\ ~hit[q]
  BY <1>5 DEF UpdateCommit, Db!tables
<1> QED
  BY <1>3, <1>4, <1>5

LEMMA StepRefines ==
  ASSUME TypeInv, RowInv, KeyInv, StaysRead, [Next]_vars
  PROVE  [Db!TablesNext]_(Db!tables)
<1>1. ASSUME NEW q \in Update, UpdateApply(q) \/ UpdateError(q), ~UpdateCommit(q)
      PROVE  UNCHANGED Db!tables
  BY <1>1 DEF UpdateApply, UpdateRead, UpdateCheckFriend, UpdateFriendApplyStatus, CreateFriend,
              DeadlockVictim, GetPrivateConversation, UpdateError, UpdatePush, dbVars, Db!tables
<1>2. CASE Next
  BY <1>1, <1>2, AddRefines, CommitRefines DEF Next
<1>3. CASE UNCHANGED vars
  BY <1>3 DEF vars, dbVars, Db!tables
<1> QED
  BY <1>2, <1>3

\* Whatever requests interleave, and wherever they fail, the tables go through
\* steps of Friendship only: one verdict for an application, and an agreement's
\* rows in one step with it.
THEOREM FriendshipImplemented == Spec => ImplementsFriendship
<1>1. Init => TypeInv /\ RowInv /\ KeyInv /\ StaysRead /\ Db!TablesInit
  BY TypeInit, RowInit, KeyInit, StaysReadInit DEF Init, Db!TablesInit
<1>2. TypeInv /\ RowInv /\ KeyInv /\ StaysRead /\ [Next]_vars
        => (TypeInv /\ RowInv /\ KeyInv /\ StaysRead)'
  BY TypeStep, RowStep, KeyStep, StaysReadStep
<1>3. TypeInv /\ RowInv /\ KeyInv /\ StaysRead /\ [Next]_vars => [Db!TablesNext]_(Db!tables)
  BY StepRefines
<1> QED
  BY <1>1, <1>2, <1>3, PTL DEF Spec, ImplementsFriendship, Db!TablesSpec

-----------------------------------------------------------------------------
(* Agreements are complete, and chat pushes show what is stored. *)

\* A stored conversation, message, friendship or mark stays, and a conversation
\* keeps its members: its creator reads no other application.
LEMMA StoredStays ==
  ASSUME TypeInv, KeyInv, Next
  PROVE  /\ conv \subseteq conv' /\ message \subseteq message'
         /\ applyRead \subseteq applyRead' /\ friend \subseteq friend'
         /\ \A c \in conv : record'[c] = record[c] /\ Members(c)' = Members(c)
<1>1. ASSUME NEW a \in Apply, AddFriend(a) \/ AddError(a) \/ MarkFriendApplyRead(a)
      PROVE  UNCHANGED <<conv, message, friend, record>> /\ applyRead \subseteq applyRead'
  BY <1>1 DEF AddFriend, AddCheckFriend, FriendApplyHasPending, IsTargetPending, CreateFriendApply,
              AddPush, AddError, MarkFriendApplyRead, dbVars, updVars
<1>2. ASSUME NEW q \in Update, UpdateApply(q) \/ UpdateError(q)
      PROVE  /\ conv \subseteq conv' /\ message \subseteq message'
             /\ applyRead \subseteq applyRead' /\ friend \subseteq friend'
             /\ \A p \in Update : record'[p] = record[p] \/ (p = q /\ upc[q] = "start")
  BY <1>2 DEF UpdateApply, UpdateRead, UpdateCheckFriend, UpdateFriendApplyStatus, CreateFriend,
              DeadlockVictim, GetPrivateConversation, UpdateCommit, UpdateError, UpdatePush, dbVars,
              TypeInv, TypeOK
<1>3. \A c \in conv : c \in Update /\ upc[c] # "start"
  BY DEF KeyInv, ConvMade, TypeInv, TypeOK
<1>4. \A c \in conv : record'[c] = record[c]
  BY <1>1, <1>2, <1>3 DEF Next
<1> QED
  BY <1>1, <1>2, <1>4 DEF Next, Members, Pair

\* After its commit an agreement has its conversation and both messages stored.
CanPush == \A q \in Update : upc[q] = "push" /\ agree[q] =>
             /\ [id |-> record[q], conv |-> ConvOf(q)] \in message
             /\ [id |-> q, conv |-> ConvOf(q)] \in message
             /\ ConvOf(q) \in conv /\ Members(ConvOf(q)) = Members(q)
StoredInv == CanPush /\ AgreedIsComplete /\ ChatPushIsStored

LEMMA StoredInit == Init => StoredInv
BY DEF Init, StoredInv, CanPush, AgreedIsComplete, ChatPushIsStored

\* What a commit of an agreement leaves in the tables.
LEMMA CommitStores ==
  ASSUME TypeInv, KeyInv, NEW q \in Update, UpdateCommit(q), agree[q]
  PROVE  /\ record[q] \in Apply /\ ConvOf(q) = q /\ ConvOf(q)' = q
         /\ q \in conv' /\ Members(q)' = Pair(record[q])
         /\ [id |-> record[q], conv |-> q] \in message' /\ [id |-> q, conv |-> q] \in message'
         /\ <<From[record[q]], To[record[q]]>> \in friend' /\ record[q] \in applyRead'
<1>1. upc[q] = "commit" /\ record[q] \in Apply /\ found[q] = NoConv
  BY DEF UpdateCommit, TypeInv, ReadOne, KeyInv, NoneFound
<1>2. found' = found /\ record' = record
  BY DEF UpdateCommit
<1> QED
  BY <1>1, <1>2 DEF UpdateCommit, ConvOf, Members, Pair, Key2

LEMMA CanPushStep ==
  ASSUME TypeInv, KeyInv, CanPush, Next
  PROVE  CanPush'
<1> SUFFICES ASSUME NEW q \in Update, upc'[q] = "push", agree'[q]
             PROVE  /\ [id |-> record[q], conv |-> ConvOf(q)]' \in message'
                    /\ [id |-> q, conv |-> ConvOf(q)]' \in message'
                    /\ ConvOf(q)' \in conv' /\ Members(ConvOf(q))' = Members(q)'
  BY DEF CanPush
<1>1. CASE UpdateCommit(q)
  <2>1. agree[q] /\ record' = record
    BY <1>1 DEF UpdateCommit
  <2>2. Members(ConvOf(q))' = Members(q)'
    BY <1>1, <2>1, CommitStores DEF Members
  <2> QED
    BY <1>1, <2>1, <2>2, CommitStores
<1>2. CASE ~UpdateCommit(q)
  <2>1. ASSUME NEW p \in Update, UpdateApply(p) \/ UpdateError(p)
        PROVE  upc[q] = "push" /\ agree[q] /\ found'[q] = found[q] /\ record'[q] = record[q]
    BY <1>2, <2>1 DEF UpdateApply, UpdateRead, UpdateCheckFriend, UpdateFriendApplyStatus,
         CreateFriend, DeadlockVictim, GetPrivateConversation, UpdateCommit, UpdateError, UpdatePush,
         UGoto, TypeInv, TypeOK
  <2>2. ASSUME NEW a \in Apply, AddFriend(a) \/ AddError(a) \/ MarkFriendApplyRead(a)
        PROVE  upc[q] = "push" /\ agree[q] /\ found'[q] = found[q] /\ record'[q] = record[q]
    BY <2>2 DEF AddFriend, AddCheckFriend, FriendApplyHasPending, IsTargetPending,
         CreateFriendApply, AddPush, AddError, MarkFriendApplyRead, updVars
  <2>3. upc[q] = "push" /\ agree[q] /\ found'[q] = found[q] /\ record'[q] = record[q]
    BY <2>1, <2>2 DEF Next
  <2>4. ConvOf(q)' = ConvOf(q) /\ Members(q)' = Members(q)
    BY <2>3 DEF ConvOf, Members, Pair
  <2>5. /\ [id |-> record[q], conv |-> ConvOf(q)] \in message'
        /\ [id |-> q, conv |-> ConvOf(q)] \in message'
        /\ ConvOf(q) \in conv' /\ Members(ConvOf(q))' = Members(ConvOf(q))
        /\ Members(ConvOf(q)) = Members(q)
    <3>1. ConvOf(q) \in conv
      BY <2>3 DEF CanPush
    <3>2. Members(ConvOf(q))' = Members(ConvOf(q))
      <4> DEFINE c == ConvOf(q)
      <4>1. Members(c)' = {From[record'[c]], To[record'[c]]} /\ record'[c] = record[c]
        BY <2>4, <3>1, StoredStays DEF Members, Pair
      <4> QED
        BY <2>4, <4>1 DEF Members, Pair
    <3> QED
      BY <2>3, <3>1, <3>2, StoredStays DEF CanPush
  <2> QED
    BY <2>3, <2>4, <2>5 DEF Members, Pair
<1> QED
  BY <1>1, <1>2

LEMMA AgreedStep ==
  ASSUME TypeInv, KeyInv, AgreedIsComplete, Next
  PROVE  AgreedIsComplete'
<1> SUFFICES ASSUME NEW a \in Apply, status'[a] = "agreed"
             PROVE  /\ <<From[a], To[a]>> \in friend' /\ a \in applyRead'
                    /\ \E m \in message' : m.id = a /\ m.conv \in conv' /\ Members(m.conv)' = Pair(a)
  BY DEF AgreedIsComplete, Pair
<1>1. CASE status[a] = "agreed"
  <2>1. PICK m \in message : m.id = a /\ m.conv \in conv /\ Members(m.conv) = Pair(a)
    BY <1>1 DEF AgreedIsComplete
  <2> DEFINE c == m.conv
  <2>2. c \in conv' /\ Members(c)' = Members(c)
    BY <2>1, StoredStays
  <2>3. m \in message' /\ m.id = a /\ m.conv \in conv' /\ Members(m.conv)' = Pair(a)
    BY <2>1, <2>2, StoredStays DEF Members, Pair
  <2> QED
    BY <1>1, <2>3, StoredStays DEF AgreedIsComplete
<1>2. CASE status[a] # "agreed"
  <2>1. ASSUME NEW b \in Apply, AddFriend(b) \/ AddError(b) \/ MarkFriendApplyRead(b)
        PROVE  FALSE
    BY <1>2, <2>1 DEF AddFriend, AddCheckFriend, FriendApplyHasPending, IsTargetPending,
       CreateFriendApply, AddPush, AddError, MarkFriendApplyRead, dbVars, TypeInv, TypeOK
  <2>2. PICK q \in Update : UpdateApply(q) \/ UpdateError(q)
    BY <2>1 DEF Next
  <2>3. UpdateCommit(q) /\ hit[q] /\ record[q] = a /\ agree[q]
    BY <1>2, <2>2 DEF UpdateApply, UpdateRead, UpdateCheckFriend, UpdateFriendApplyStatus,
       CreateFriend, DeadlockVictim, GetPrivateConversation, UpdateCommit, UpdateError, UpdatePush,
       dbVars, TypeInv, TypeOK, NewStatus
  <2>4. [id |-> a, conv |-> q] \in message' /\ q \in conv' /\ Members(q)' = Pair(a)
    BY <2>3, CommitStores
  <2> QED
    BY <2>3, <2>4, CommitStores
<1> QED
  BY <1>1, <1>2

\* A chat push of q's plan shows a message of q's conversation to one of its
\* two users.
LEMMA PlannedChat ==
  ASSUME TypeInv, NEW q \in Update, upc[q] = "push",
         NEW i \in 1 .. Len(PushPlan(q)), PushPlan(q)[i].kind = "chat"
  PROVE  /\ agree[q]
         /\ PushPlan(q)[i].id \in {record[q], q}
         /\ PushPlan(q)[i].conv = ConvOf(q) /\ PushPlan(q)[i].to \in Pair(record[q])
<1> DEFINE a == record[q]
           verdict(u) == [to |-> u, kind |-> "addFriend", id |-> a, status |-> NewStatus(q)]
           chat(u, m) == [to |-> u, kind |-> "chat", id |-> m, conv |-> ConvOf(q)]
           two == <<verdict(From[a]), verdict(To[a])>>
           four == <<chat(From[a], a), chat(To[a], a), chat(From[a], q), chat(To[a], q)>>
<1>1. PushPlan(q) = two \o IF agree[q] THEN four ELSE <<>>
  BY DEF PushPlan
<1>2. \A u : verdict(u).kind = "addFriend"
  OBVIOUS
<1>3. \A k \in 1 .. 2 : two[k].kind = "addFriend"
  BY <1>2
<1>4. CASE agree[q]
  <2>1. PushPlan(q) = two \o four /\ Len(two) = 2 /\ Len(four) = 4
    BY <1>1, <1>4
  <2>2. i \in 1 .. 6 /\ PushPlan(q)[i] = IF i <= 2 THEN two[i] ELSE four[i - 2]
    <3> DEFINE S == {two[1], two[2], four[1], four[2], four[3], four[4]}
    <3>1. two \in Seq(S) /\ four \in Seq(S)
      OBVIOUS
    <3> HIDE DEF two, four, S
    <3>2. /\ Len(two \o four) = Len(two) + Len(four)
          /\ \A k \in 1 .. Len(two) + Len(four) :
               (two \o four)[k] = IF k <= Len(two) THEN two[k] ELSE four[k - Len(two)]
      BY <3>1, ConcatProperties
    <3> QED
      BY <2>1, <3>2
  <2>3. i - 2 \in 1 .. 4 /\ PushPlan(q)[i] = four[i - 2]
    <3> HIDE DEF two, four
    <3> QED
      BY <1>3, <2>2
  <2>4. \A k \in 1 .. 4 : /\ four[k].id \in {a, q} /\ four[k].conv = ConvOf(q)
                          /\ four[k].to \in {From[a], To[a]}
    OBVIOUS
  <2> QED
    BY <1>4, <2>3, <2>4 DEF Pair
<1>5. CASE ~agree[q]
  <2>1. PushPlan(q) = two \o << >>
    BY <1>1, <1>5
  <2>2. two \o << >> = two /\ Len(two) = 2
    OBVIOUS
  <2> QED
    BY <1>3, <2>1, <2>2
<1> QED
  BY <1>4, <1>5

LEMMA ChatStep ==
  ASSUME TypeInv, KeyInv, CanPush, ChatPushIsStored, Next
  PROVE  ChatPushIsStored'
<1> SUFFICES ASSUME NEW n \in notice', n.kind = "chat"
             PROVE  /\ [id |-> n.id, conv |-> n.conv] \in message'
                    /\ n.conv \in conv' /\ n.to \in Members(n.conv)'
  BY DEF ChatPushIsStored, Members, Pair
<1>1. /\ [id |-> n.id, conv |-> n.conv] \in message
      /\ n.conv \in conv /\ n.to \in Members(n.conv)
  <2>1. CASE n \in notice
    BY <2>1 DEF ChatPushIsStored
  <2>2. CASE n \notin notice
    <3>1. ASSUME NEW a \in Apply, AddFriend(a) \/ AddError(a) \/ MarkFriendApplyRead(a)
          PROVE  FALSE
      BY <2>2, <3>1 DEF AddFriend, AddCheckFriend, FriendApplyHasPending, IsTargetPending,
         CreateFriendApply, AddPush, AddError, MarkFriendApplyRead, dbVars
    <3>2. PICK q \in Update : UpdatePush(q)
      BY <2>2, <3>1 DEF Next, UpdateApply, UpdateRead, UpdateCheckFriend, UpdateFriendApplyStatus,
         CreateFriend, DeadlockVictim, GetPrivateConversation, UpdateCommit, UpdateError
    <3>3. record[q] \in Apply /\ upc[q] = "push" /\ pushed[q] \in 0 .. 6
          /\ pushed[q] < (IF agree[q] THEN 6 ELSE 2)
      BY <3>2 DEF UpdatePush, TypeInv, TypeOK, ReadOne, PushLeft
    <3>4. Len(PushPlan(q)) = IF agree[q] THEN 6 ELSE 2
      BY <3>3, PlanType DEF TypeInv
    <3>5. pushed[q] + 1 \in 1 .. Len(PushPlan(q)) /\ n = PushPlan(q)[pushed[q] + 1]
      BY <2>2, <3>2, <3>3, <3>4 DEF UpdatePush
    <3>6. agree[q] /\ n.id \in {record[q], q} /\ n.conv = ConvOf(q) /\ n.to \in Pair(record[q])
      BY <3>3, <3>5, PlannedChat
    <3> QED
      BY <3>3, <3>6 DEF CanPush, Members
  <2> QED
    BY <2>1, <2>2
<1> DEFINE c == n.conv
<1>2. c \in conv' /\ Members(c)' = Members(c) /\ message \subseteq message'
  BY <1>1, StoredStays
<1> QED
  BY <1>1, <1>2

LEMMA StoredStep == TypeInv /\ KeyInv /\ StoredInv /\ [Next]_vars => StoredInv'
<1> SUFFICES ASSUME TypeInv, KeyInv, StoredInv, [Next]_vars PROVE StoredInv'
  OBVIOUS
<1>1. CASE Next
  BY <1>1, CanPushStep, AgreedStep, ChatStep DEF StoredInv
<1>2. CASE UNCHANGED vars
  <2>1. CanPush'
    BY <1>2 DEF StoredInv, CanPush, ConvOf, Members, Pair, vars, dbVars, addVars, updVars
  <2>2. AgreedIsComplete' /\ ChatPushIsStored'
    BY <1>2 DEF StoredInv, AgreedIsComplete, ChatPushIsStored, Members, Pair, vars, dbVars,
                addVars, updVars
  <2> QED
    BY <2>1, <2>2 DEF StoredInv
<1> QED
  BY <1>1, <1>2

LEMMA StoredAlways == Spec => []StoredInv
<1>1. Init => TypeInv /\ KeyInv /\ StoredInv
  BY TypeInit, KeyInit, StoredInit
<1>2. TypeInv /\ KeyInv /\ StoredInv /\ [Next]_vars => (TypeInv /\ KeyInv /\ StoredInv)'
  BY TypeStep, KeyStep, StoredStep
<1> QED
  BY <1>1, <1>2, PTL DEF Spec

\* An application stored as agreed has its friendship, its read mark, and its
\* message in the conversation of its two users, however answers overlap.
THEOREM AgreementsAreComplete == Spec => []AgreedIsComplete
<1>1. StoredInv => AgreedIsComplete
  BY DEF StoredInv
<1> QED
  BY <1>1, StoredAlways, PTL

\* Every chat push shows a stored message to a member of its conversation.
THEOREM ChatPushesAreStored == Spec => []ChatPushIsStored
<1>1. StoredInv => ChatPushIsStored
  BY DEF StoredInv
<1> QED
  BY <1>1, StoredAlways, PTL

-----------------------------------------------------------------------------
(* Applications one after the other. *)

\* A row is there only after its insert.  What the queries of AddFriend have
\* ruled out stays ruled out: no application that was pending when the request
\* began returns to pending.
RowsAreInserted ==
  \A a \in Apply : status[a] # "none" => apc[a] \in {"stored", "pushSelf", "done", "failed"}
QueriesHold ==
  \A a \in Apply : \A b \in before[a] :
    /\ status[b] # "none" /\ Pair(b) = Pair(a)
    /\ apc[a] = "targetPending" /\ Pending(b) => ~(From[b] = From[a] /\ To[b] = To[a])
    /\ apc[a] = "insert" => ~Pending(b)
QueryInv == RowsAreInserted /\ QueriesHold

\* Inserts and commits are all that changes a status.
LEMMA StatusMoves ==
  ASSUME [Next]_vars
  PROVE  \/ status' = status
         \/ \E a \in Apply : CreateFriendApply(a)
         \/ \E q \in Update : status' = [status EXCEPT ![record[q]] = NewStatus(q)]
<1>1. ASSUME NEW q \in Update, UpdateCommit(q)
      PROVE  status' = status \/ status' = [status EXCEPT ![record[q]] = NewStatus(q)]
  BY <1>1 DEF UpdateCommit
<1>2. \/ status' = status
      \/ \E a \in Apply : CreateFriendApply(a)
      \/ \E q \in Update : UpdateCommit(q)
  BY DEF Next, AddFriend, AddCheckFriend, FriendApplyHasPending, IsTargetPending, AddPush, AddError,
         MarkFriendApplyRead, UpdateApply, UpdateRead, UpdateCheckFriend, UpdateFriendApplyStatus,
         CreateFriend, DeadlockVictim, GetPrivateConversation, UpdatePush, UpdateError, vars, dbVars
<1> QED
  BY <1>1, <1>2

\* Nothing makes an application that exists pending again, or removes it.
LEMMA PendingOnlyEnds ==
  ASSUME TypeInv, RowsAreInserted, [Next]_vars
  PROVE  \A b \in Apply : status[b] # "none" => status'[b] # "none" /\ (Pending(b)' => Pending(b))
<1>1. ASSUME NEW a \in Apply, CreateFriendApply(a)
      PROVE  status' = [status EXCEPT ![a] = "pending"] /\ status[a] = "none"
  BY <1>1 DEF CreateFriendApply, RowsAreInserted
<1>2. \A q \in Update : NewStatus(q) \in {"agreed", "refused"}
  BY DEF NewStatus
<1> QED
  BY <1>1, <1>2, StatusMoves DEF Pending, TypeInv, TypeOK

\* Only the insert of a request makes its application pending.
LEMMA InsertedByInsert ==
  ASSUME TypeInv, Next, NEW a \in Apply, status[a] = "none", status'[a] = "pending"
  PROVE  apc[a] = "insert"
<1>1. \A q \in Update : NewStatus(q) # "pending"
  BY DEF NewStatus
<1>2. \A b \in Apply : CreateFriendApply(b) =>
        apc[b] = "insert" /\ status' = [status EXCEPT ![b] = "pending"]
  BY DEF CreateFriendApply
<1> QED
  BY <1>1, <1>2, StatusMoves DEF TypeInv, TypeOK

LEMMA QueryInit == Init => QueryInv
BY DEF Init, QueryInv, RowsAreInserted, QueriesHold

\* A step of another request, or none of AddFriend.
LEMMA QueryElsewhere ==
  ASSUME TypeInv, QueryInv, [Next]_vars, UNCHANGED addVars,
         \A b \in Apply : status'[b] # "none" => status[b] # "none"
  PROVE  QueryInv'
BY PendingOnlyEnds DEF QueryInv, RowsAreInserted, QueriesHold, addVars, TypeInv, TypeOK

LEMMA QueryAdd ==
  ASSUME TypeInv, QueryInv, NEW a \in Apply, AddFriend(a) \/ AddError(a)
  PROVE  QueryInv'
<1>0. \A b \in Apply : status[b] # "none" => status'[b] # "none" /\ (Pending(b)' => Pending(b))
  BY PendingOnlyEnds DEF QueryInv, Next
<1> USE DEF AGoto, dbVars, TypeInv, TypeOK, QueryInv, RowsAreInserted, QueriesHold
<1>1. CASE AddCheckFriend(a)
  BY <1>0, <1>1 DEF AddCheckFriend, Pending
<1>2. CASE FriendApplyHasPending(a)
  BY <1>0, <1>2 DEF FriendApplyHasPending
<1>3. CASE IsTargetPending(a)
  <2>1. ASSUME NEW b \in before[a], Pending(b) PROVE From[b] = To[a] /\ To[b] = From[a]
    <3>1. b \in Apply /\ Pair(b) = Pair(a) /\ ~(From[b] = From[a] /\ To[b] = To[a])
      BY <1>3, <2>1 DEF IsTargetPending
    <3>2. From[b] # To[b] /\ From[a] # To[a]
      BY <3>1, ApplyAssumption
    <3> QED
      BY <3>1, <3>2 DEF Pair
  <2> QED
    BY <1>0, <1>3, <2>1 DEF IsTargetPending, Pending
<1>4. CASE CreateFriendApply(a)
  BY <1>0, <1>4 DEF CreateFriendApply
<1>5. CASE AddPush(a)
  BY <1>0, <1>5 DEF AddPush
<1>6. CASE AddError(a)
  BY <1>0, <1>6 DEF AddError
<1> QED
  BY <1>1, <1>2, <1>3, <1>4, <1>5, <1>6 DEF AddFriend

LEMMA QueryStep == TypeInv /\ StaysRead /\ QueryInv /\ [Next]_vars => QueryInv'
<1> SUFFICES ASSUME TypeInv, StaysRead, QueryInv, [Next]_vars PROVE QueryInv'
  OBVIOUS
<1>1. ASSUME NEW q \in Update, UpdateApply(q) \/ UpdateError(q) PROVE QueryInv'
  <2>1. UNCHANGED addVars
    BY <1>1 DEF UpdateApply, UpdateRead, UpdateCheckFriend, UpdateFriendApplyStatus, CreateFriend,
                DeadlockVictim, GetPrivateConversation, UpdateCommit, UpdatePush, UpdateError
  <2>2. CASE UpdateCommit(q)
    <3>1. status[record[q]] # "none"
      BY <2>2 DEF UpdateCommit, StaysRead, InTx
    <3>2. \A b \in Apply : status'[b] # "none" => status[b] # "none"
      BY <2>2, <3>1 DEF UpdateCommit, TypeInv, TypeOK
    <3> QED
      BY <2>1, <3>2, QueryElsewhere
  <2>3. CASE ~UpdateCommit(q)
    <3>1. status' = status
      BY <1>1, <2>3 DEF UpdateApply, UpdateRead, UpdateCheckFriend, UpdateFriendApplyStatus,
           CreateFriend, DeadlockVictim, GetPrivateConversation, UpdatePush, UpdateError, dbVars
    <3> QED
      BY <2>1, <3>1, QueryElsewhere
  <2> QED
    BY <2>2, <2>3
<1>2. ASSUME NEW a \in Apply, MarkFriendApplyRead(a) PROVE QueryInv'
  BY <1>2, QueryElsewhere DEF MarkFriendApplyRead
<1>3. CASE UNCHANGED vars
  BY <1>3, QueryElsewhere DEF vars, dbVars
<1> QED
  BY <1>1, <1>2, <1>3, QueryAdd DEF Next

\* Only overlapping requests get past the two queries of AddFriend: whoever of
\* the two users applied before and waits is noticed, in either direction.
THEOREM SequentialApplicationsAreSingle == Spec => NoSequentialDuplicate
<1>1. Init => TypeInv /\ RowInv /\ StaysRead /\ QueryInv
  BY TypeInit, RowInit, StaysReadInit, QueryInit
<1>2. TypeInv /\ RowInv /\ StaysRead /\ QueryInv /\ [Next]_vars
        => (TypeInv /\ RowInv /\ StaysRead /\ QueryInv)'
  BY TypeStep, RowStep, StaysReadStep, QueryStep
<1>3. TypeInv /\ RowInv /\ StaysRead /\ QueryInv /\ [Next]_vars =>
        [\A a \in Apply : status[a] = "none" /\ status'[a] = "pending"
                            => \A b \in before[a] : ~Pending(b)]_vars
  <2> SUFFICES ASSUME TypeInv, StaysRead, QueryInv, Next, NEW a \in Apply,
                      status[a] = "none", status'[a] = "pending"
               PROVE  \A b \in before[a] : ~Pending(b)
    OBVIOUS
  <2>1. apc[a] = "insert"
    BY InsertedByInsert
  <2> QED
    BY <2>1 DEF QueryInv, QueriesHold
<1> QED
  BY <1>1, <1>2, <1>3, PTL DEF Spec, NoSequentialDuplicate

=============================================================================

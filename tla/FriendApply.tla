---------------------------- MODULE FriendApply ----------------------------
(***************************************************************************)
(* Friend applications: AddFriend (addFriendService.go), UpdateApply        *)
(* (updateApplyStatusService.go), MarkFriendApplyRead and the friend,       *)
(* conversation and message tables they share (model/friend.go, message.go).*)
(*                                                                         *)
(* Every request is a process whose database statements interleave with    *)
(* those of the others.  Statements outside of a transaction commit on     *)
(* their own.  A transaction's writes become visible when it commits; until *)
(* then it holds the lock of its application's row and of the friend keys  *)
(* it inserted, and a statement that needs such a lock waits.              *)
(***************************************************************************)
EXTENDS Naturals, FiniteSets, Sequences

CONSTANTS Uid,
          Apply,     \* AddFriend requests; each may insert the row named after it
          From, To,  \* From[a] applies to To[a]
          Update,    \* UpdateApply requests; each may create the conversation,
                     \* and the reply message, named after it
          NoApply, NoConv

ASSUME ApplyAssumption ==
  /\ From \in [Apply -> Uid] /\ To \in [Apply -> Uid]
  /\ \A a \in Apply : From[a] # To[a]      \* addFriendService.go:22
  /\ NoApply \notin Apply /\ NoConv \notin Update
  /\ Apply \cap Update = {}

VARIABLES
  status,    \* friend_applies.status; "none" while the row does not exist
  applyRead, \* friend_applies.apply_read
  friend,    \* rows of friends
  conv,      \* private conversations, each named after its creator
  message,   \* rows of messages: [id, conv]
  apc,       \* where AddFriend request a is
  before,    \* history: applications of the pair that were pending at its start
  upc,       \* where UpdateApply request q is
  record,    \* applyRecord: the application q read
  agree,     \* IsAgree
  hit,       \* the status UPDATE found a pending row
  found,     \* the conversation GetPrivateConversation found
  pushed,    \* pushes done after the commit
  notice     \* everything pushed to users so far

dbVars  == <<status, applyRead, friend, conv, message>>
addVars == <<apc, before>>
updVars == <<upc, record, agree, hit, found, pushed>>
vars    == <<dbVars, addVars, updVars, notice>>

Pending(a) == status[a] = "pending"
Pair(a) == {From[a], To[a]}
IsFriend(u, v) == <<u, v>> \in friend \/ <<v, u>> \in friend
Members(q) == Pair(record[q])

Init ==
  /\ status = [a \in Apply |-> "none"]
  /\ applyRead = {}
  /\ friend = {}
  /\ conv = {}
  /\ message = {}
  /\ apc = [a \in Apply |-> "start"]
  /\ before = [a \in Apply |-> {}]
  /\ upc = [q \in Update |-> "start"]
  /\ record = [q \in Update |-> NoApply]
  /\ agree = [q \in Update |-> FALSE]
  /\ hit = [q \in Update |-> FALSE]
  /\ found = [q \in Update |-> NoConv]
  /\ pushed = [q \in Update |-> 0]
  /\ notice = {}

AGoto(a, l) == apc' = [apc EXCEPT ![a] = l]
UGoto(q, l) == upc' = [upc EXCEPT ![q] = l]

-----------------------------------------------------------------------------
(* Locks of the transactions.  They follow from where a transaction is.      *)

\* Seeded defect: the application's id where the applicant's uid belongs.
Key1_WrongColumn(q) == <<To[record[q]], record[q]>>

\* The two friend keys in the order the transaction inserts them.
Key1(q) == <<To[record[q]], From[record[q]]>>
Key2(q) == <<From[record[q]], To[record[q]]>>

InTx == {"friend1", "friend2", "conv", "commit"}
HoldsRow(q, a) == upc[q] \in InTx /\ record[q] = a
HoldsKey(q, k) == \/ upc[q] \in {"friend2", "conv", "commit"} /\ agree[q] /\ k = Key1(q)
                  \/ upc[q] \in {"conv", "commit"} /\ agree[q] /\ k = Key2(q)
KeyFree(q, k) == \A p \in Update \ {q} : ~HoldsKey(p, k)

-----------------------------------------------------------------------------
(* Seeded defects: each replaces the operator it is named after, to show    *)
(* that a property below notices it.  Next uses none of them.              *)

\* The opposite direction is not looked at.
IsTargetPending_Skipped(a) ==
  /\ apc[a] = "targetPending"
  /\ AGoto(a, "insert")
  /\ UNCHANGED <<dbVars, before, updVars, notice>>

\* The UPDATE lacks its "status = 0".
UpdateFriendApplyStatus_AnyStatus(q) ==
  /\ upc[q] = "begin"
  /\ \A p \in Update : ~HoldsRow(p, record[q])
  /\ hit' = [hit EXCEPT ![q] = TRUE]
  /\ UGoto(q, IF agree[q] THEN "friend1" ELSE "commit")
  /\ UNCHANGED <<dbVars, addVars, record, agree, found, pushed, notice>>

\* The UPDATE runs on db instead of tx and commits on its own.
UpdateFriendApplyStatus_OutsideTx(q) ==
  /\ upc[q] = "begin"
  /\ hit' = [hit EXCEPT ![q] = Pending(record[q])]
  /\ status' = IF Pending(record[q])
                 THEN [status EXCEPT ![record[q]] = IF agree[q] THEN "agreed" ELSE "refused"]
                 ELSE status
  /\ UGoto(q, IF agree[q] THEN "friend1" ELSE "commit")
  /\ UNCHANGED <<applyRead, friend, conv, message, addVars, record, agree, found, pushed, notice>>

\* No unique key on (uid, friend_uid).
CreateFriend_NoUniqueKey(q) ==
  /\ \/ upc[q] = "friend1" /\ UGoto(q, "friend2")
     \/ upc[q] = "friend2" /\ UGoto(q, "conv")
  /\ UNCHANGED <<dbVars, addVars, record, agree, hit, found, pushed, notice>>

\* A duplicate key is tried again.
CreateFriend_Retries(q) ==
  /\ \/ /\ upc[q] = "friend1" /\ KeyFree(q, Key1(q))
        /\ UGoto(q, IF Key1(q) \in friend THEN "friend1" ELSE "friend2")
     \/ /\ upc[q] = "friend2" /\ KeyFree(q, Key2(q))
        /\ UGoto(q, IF Key2(q) \in friend THEN "friend2" ELSE "conv")
  /\ UNCHANGED <<dbVars, addVars, record, agree, hit, found, pushed, notice>>

\* The error of the transaction is not returned.
UpdateError_Ignored(q) ==
  /\ upc[q] = "commit"
  /\ UGoto(q, "push")
  /\ UNCHANGED <<dbVars, addVars, record, agree, hit, found, pushed, notice>>

-----------------------------------------------------------------------------
(* AddFriend: four queries and an insert, each committed on its own. *)

AddCheckFriend(a) ==
  /\ apc[a] = "start"
  /\ before' = [before EXCEPT ![a] = {b \in Apply : Pending(b) /\ Pair(b) = Pair(a)}]
  /\ AGoto(a, IF IsFriend(From[a], To[a]) THEN "rejected" ELSE "hasPending")
  /\ UNCHANGED <<dbVars, updVars, notice>>

FriendApplyHasPending(a) ==
  /\ apc[a] = "hasPending"
  /\ AGoto(a, IF \E b \in Apply : Pending(b) /\ From[b] = From[a] /\ To[b] = To[a]
              THEN "rejected" ELSE "targetPending")
  /\ UNCHANGED <<dbVars, before, updVars, notice>>

IsTargetPending(a) ==
  /\ apc[a] = "targetPending"
  /\ AGoto(a, IF \E b \in Apply : Pending(b) /\ From[b] = To[a] /\ To[b] = From[a]
              THEN "rejected" ELSE "insert")
  /\ UNCHANGED <<dbVars, before, updVars, notice>>

\* No unique key covers the pair: the insert never conflicts.
CreateFriendApply(a) ==
  /\ apc[a] = "insert"
  /\ status' = [status EXCEPT ![a] = "pending"]
  /\ AGoto(a, "stored")
  /\ UNCHANGED <<applyRead, friend, conv, message, before, updVars, notice>>

\* Both users are told; the own devices after the target's.
AddPush(a) ==
  /\ \/ apc[a] = "stored" /\ AGoto(a, "pushSelf")
        /\ notice' = notice \cup {[to |-> To[a], kind |-> "addFriend", id |-> a, status |-> "pending"]}
     \/ apc[a] = "pushSelf" /\ AGoto(a, "done")
        /\ notice' = notice \cup {[to |-> From[a], kind |-> "addFriend", id |-> a, status |-> "pending"]}
  /\ UNCHANGED <<dbVars, before, updVars>>

\* A query fails or the request times out.  After the insert the application
\* stays stored and nobody is told.
AddError(a) ==
  /\ apc[a] \in {"start", "hasPending", "targetPending", "insert", "stored"}
  /\ AGoto(a, "failed")
  /\ UNCHANGED <<dbVars, before, updVars, notice>>

-----------------------------------------------------------------------------
(* UpdateApply: checks outside of the transaction. *)

\* GetFriendApplyByMsgId and the checks of status and addressee.
UpdateRead(q) ==
  /\ upc[q] = "start"
  /\ \E a \in Apply, u \in Uid, g \in BOOLEAN :
       /\ status[a] # "none"
       /\ IF Pending(a) /\ To[a] = u
            THEN /\ record' = [record EXCEPT ![q] = a]
                 /\ agree' = [agree EXCEPT ![q] = g]
                 /\ UGoto(q, "isFriend")
            ELSE UGoto(q, "rejected") /\ UNCHANGED <<record, agree>>
  /\ UNCHANGED <<dbVars, addVars, hit, found, pushed, notice>>

UpdateCheckFriend(q) ==
  /\ upc[q] = "isFriend"
  /\ UGoto(q, IF IsFriend(From[record[q]], To[record[q]]) THEN "rejected" ELSE "begin")
  /\ UNCHANGED <<dbVars, addVars, record, agree, hit, found, pushed, notice>>

-----------------------------------------------------------------------------
(* UpdateApply: the transaction. *)

\* UPDATE ... WHERE msg_id = ? AND status = 0; zero rows are no error.
UpdateFriendApplyStatus(q) ==
  /\ upc[q] = "begin"
  /\ \A p \in Update : ~HoldsRow(p, record[q])
  /\ hit' = [hit EXCEPT ![q] = Pending(record[q])]
  /\ UGoto(q, IF agree[q] THEN "friend1" ELSE "commit")
  /\ UNCHANGED <<dbVars, addVars, record, agree, found, pushed, notice>>

\* An insert waits for the key's holder; a committed row is a duplicate, which
\* rolls the transaction back.
CreateFriend(q) ==
  /\ \/ /\ upc[q] = "friend1" /\ KeyFree(q, Key1(q))
        /\ UGoto(q, IF Key1(q) \in friend THEN "failed" ELSE "friend2")
     \/ /\ upc[q] = "friend2" /\ KeyFree(q, Key2(q))
        /\ UGoto(q, IF Key2(q) \in friend THEN "failed" ELSE "conv")
  /\ UNCHANGED <<dbVars, addVars, record, agree, hit, found, pushed, notice>>

GetPrivateConversation(q) ==
  /\ upc[q] = "conv"
  /\ \/ /\ \E c \in conv : Members(c) = Members(q) /\ found' = [found EXCEPT ![q] = c]
     \/ /\ \A c \in conv : Members(c) # Members(q)
        /\ found' = [found EXCEPT ![q] = NoConv]
  /\ UGoto(q, "commit")
  /\ UNCHANGED <<dbVars, addVars, record, agree, hit, pushed, notice>>

ConvOf(q) == IF found[q] = NoConv THEN q ELSE found[q]
NewStatus(q) == IF agree[q] THEN "agreed" ELSE "refused"

\* The rows the transaction wrote become visible: the status if its UPDATE hit,
\* and on agreement both friend rows, the conversation with its two members if
\* none was found, the application's message and the reply, and apply_read.
UpdateCommit(q) ==
  /\ upc[q] = "commit"
  /\ status' = IF hit[q] THEN [status EXCEPT ![record[q]] = NewStatus(q)] ELSE status
  /\ IF agree[q]
       THEN /\ friend' = friend \cup {Key1(q), Key2(q)}
            /\ conv' = conv \cup {ConvOf(q)}
            /\ message' = message \cup {[id |-> record[q], conv |-> ConvOf(q)],
                                        [id |-> q, conv |-> ConvOf(q)]}
            /\ applyRead' = applyRead \cup {record[q]}
       ELSE UNCHANGED <<friend, conv, message, applyRead>>
  /\ UGoto(q, "push")
  /\ UNCHANGED <<addVars, record, agree, hit, found, pushed, notice>>

\* A statement or the commit fails, or the request times out: nothing of the
\* transaction remains.  After the commit (a failed GetUserByUID) everything
\* does, and nobody is told.
UpdateError(q) ==
  /\ upc[q] \in {"start", "isFriend", "begin"} \cup InTx \/ (upc[q] = "push" /\ pushed[q] = 0)
  /\ UGoto(q, "failed")
  /\ UNCHANGED <<dbVars, addVars, record, agree, hit, found, pushed, notice>>

-----------------------------------------------------------------------------
(* The push goroutine of UpdateApply: two or six broadcasts in order. *)

PushPlan(q) ==
  LET a == record[q]
      verdict(u) == [to |-> u, kind |-> "addFriend", id |-> a, status |-> NewStatus(q)]
      chat(u, m) == [to |-> u, kind |-> "chat", id |-> m, conv |-> ConvOf(q)]
  IN <<verdict(From[a]), verdict(To[a])>>
       \o IF agree[q] THEN <<chat(From[a], a), chat(To[a], a), chat(From[a], q), chat(To[a], q)>>
                      ELSE <<>>

UpdatePush(q) ==
  /\ upc[q] = "push"
  /\ notice' = notice \cup {PushPlan(q)[pushed[q] + 1]}
  /\ pushed' = [pushed EXCEPT ![q] = @ + 1]
  /\ UGoto(q, IF pushed[q] + 1 = Len(PushPlan(q)) THEN "done" ELSE "push")
  /\ UNCHANGED <<dbVars, addVars, record, agree, hit, found>>

\* MarkFriendApplyRead, by the applicant; the UPDATE waits for the row's lock.
MarkFriendApplyRead(a) ==
  /\ status[a] # "none" /\ a \notin applyRead
  /\ \A p \in Update : ~HoldsRow(p, a)
  /\ applyRead' = applyRead \cup {a}
  /\ UNCHANGED <<status, friend, conv, message, addVars, updVars, notice>>

-----------------------------------------------------------------------------
\* InnoDB ends a cycle of lock waits: one of the two transactions that hold a
\* friend key each and wait for the other's is rolled back.
DeadlockVictim(q) ==
  /\ upc[q] = "friend2"
  /\ \E p \in Update \ {q} : /\ upc[p] = "friend2"
                             /\ HoldsKey(p, Key2(q)) /\ HoldsKey(q, Key2(p))
  /\ UGoto(q, "failed")
  /\ UNCHANGED <<dbVars, addVars, record, agree, hit, found, pushed, notice>>

-----------------------------------------------------------------------------
AddFriend(a) == \/ AddCheckFriend(a) \/ FriendApplyHasPending(a) \/ IsTargetPending(a)
                \/ CreateFriendApply(a) \/ AddPush(a)
UpdateApply(q) == \/ UpdateRead(q) \/ UpdateCheckFriend(q) \/ UpdateFriendApplyStatus(q)
                  \/ CreateFriend(q) \/ DeadlockVictim(q) \/ GetPrivateConversation(q)
                  \/ UpdateCommit(q) \/ UpdatePush(q)

Next == \/ \E a \in Apply : AddFriend(a) \/ AddError(a) \/ MarkFriendApplyRead(a)
        \/ \E q \in Update : UpdateApply(q) \/ UpdateError(q)

Spec == Init /\ [][Next]_vars

(* Fairness: a request that was received runs on while its next statement   *)
(* can run, and InnoDB resolves a deadlock.  No request has to be made, and  *)
(* no error has to come to the rescue of a request that waits.              *)
Fairness ==
  /\ \A a \in Apply : WF_vars(apc[a] # "start" /\ AddFriend(a))
  /\ \A q \in Update : WF_vars(upc[q] # "start" /\ UpdateApply(q))
FairSpec == Spec /\ Fairness

-----------------------------------------------------------------------------
(* Properties. *)

Notice == [to : Uid, kind : {"addFriend"}, id : Apply, status : {"pending", "agreed", "refused"}]
            \cup [to : Uid, kind : {"chat"}, id : Apply \cup Update, conv : Update]

TypeOK ==
  /\ status \in [Apply -> {"none", "pending", "agreed", "refused"}]
  /\ applyRead \subseteq Apply
  /\ friend \subseteq Uid \X Uid
  /\ conv \subseteq Update
  /\ message \subseteq [id : Apply \cup Update, conv : Update]
  /\ apc \in [Apply -> {"start", "hasPending", "targetPending", "insert", "stored",
                        "pushSelf", "rejected", "failed", "done"}]
  /\ before \in [Apply -> SUBSET Apply]
  /\ upc \in [Update -> InTx \cup {"start", "isFriend", "begin", "push",
                                   "rejected", "failed", "done"}]
  /\ record \in [Update -> Apply \cup {NoApply}]
  /\ agree \in [Update -> BOOLEAN] /\ hit \in [Update -> BOOLEAN]
  /\ found \in [Update -> Update \cup {NoConv}]
  /\ pushed \in [Update -> 0 .. 6]
  /\ notice \subseteq Notice

\* Friendship is mutual, and the friends have exactly one private conversation;
\* nobody else has one.  However two agreements of the pair interleave.
FriendsShareOneConversation ==
  \A u, v \in Uid : u # v =>
    /\ <<u, v>> \in friend <=> <<v, u>> \in friend
    /\ Cardinality({c \in conv : Members(c) = {u, v}}) = (IF <<u, v>> \in friend THEN 1 ELSE 0)

\* An application stored as agreed has everything an agreement brings: the
\* friendship, apply_read, and its message in the pair's conversation.
AgreedIsComplete ==
  \A a \in Apply : status[a] = "agreed" =>
    /\ <<From[a], To[a]>> \in friend
    /\ a \in applyRead
    /\ \E m \in message : m.id = a /\ m.conv \in conv /\ Members(m.conv) = Pair(a)

\* A chat push shows a stored message of a conversation its receiver is in.
ChatPushIsStored ==
  \A n \in notice : n.kind = "chat" =>
    [id |-> n.id, conv |-> n.conv] \in message /\ n.conv \in conv /\ n.to \in Members(n.conv)

\* A verdict is final: no request changes it, and no friendship ends.
VerdictIsFinal ==
  [][/\ \A a \in Apply : status[a] \in {"agreed", "refused"} => status'[a] = status[a]
     /\ friend \subseteq friend']_vars

\* An application is not stored while one of the same two users, in either
\* direction, that was pending when its request began is still pending: only
\* overlapping requests get past the two queries.
NoSequentialDuplicate ==
  [][\A a \in Apply : status[a] = "none" /\ status'[a] = "pending"
                        => \A b \in before[a] : ~Pending(b)]_vars

\* Every request that was received ends, also when transactions wait for each
\* other's rows and keys.
RequestsEnd ==
  <>[](/\ \A a \in Apply : apc[a] \in {"start", "rejected", "failed", "done"}
       /\ \A q \in Update : upc[q] \in {"start", "rejected", "failed", "done"})

\* The statements of all requests together only do what Friendship allows: one
\* verdict for an application, and an agreement's rows in one step with it.
Db == INSTANCE Friendship
ImplementsFriendship == Db!TablesSpec

-----------------------------------------------------------------------------
(* What the documentation promises and the code does not keep. *)

\* readme.md:438: no second application between two users while one is pending.
NoDuplicatePending ==
  \A a, b \in Apply : Pending(a) /\ Pending(b) /\ Pair(a) = Pair(b) => a = b

\* updateApplyStatusService.go:31: an application is processed once, so the
\* verdict a user is told is the one that is stored.
ToldVerdictIsStored ==
  \A n \in notice : n.kind = "addFriend" /\ n.status # "pending" => status[n.id] = n.status
=============================================================================

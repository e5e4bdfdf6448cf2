----------------------------- MODULE ChatStore -----------------------------
(***************************************************************************)
(* Private messages at rest: a chat frame is stored in a transaction,      *)
(* acknowledged and pushed (connect.go, createMessage.go); a member moves   *)
(* the read watermark of a conversation (MarkReadStatus), asks for what is *)
(* above it (PullUnReadMessage) or pages back (PullHistoryMessage).        *)
(*                                                                         *)
(* A message id is drawn before the transaction begins, so ids need not    *)
(* commit in their order.  Every statement outside of a transaction is a   *)
(* step; the rows of a transaction appear at its commit.                   *)
(***************************************************************************)
EXTENDS Naturals, FiniteSets, Sequences

CONSTANTS Uid,
          Conv, Member,        \* private conversations and their two members
          Applicant, ApplyMsg, \* the application each comes from: by whom, its id
          Frame,               \* chat frames
          From, To, Device,    \* who sends it, to whom, on which connection
          Carried,             \* the conversationUID it carries, NoConv if ""
          Mark, Marker, Marked, \* MarkReadStatus requests: by whom, of what
          Reader, Pager, Paged, \* clients paging back: who, and through what
          PageSize,            \* 1 to 100 after the handler clamps it
          NoConv

ASSUME ChatAssumption ==
  /\ Member \in [Conv -> SUBSET Uid] /\ NoConv \notin Conv /\ IsFiniteSet(Conv)
  /\ \A c \in Conv : \E u \in Uid \ {Applicant[c]} : Member[c] = {Applicant[c], u}
  /\ \A c, d \in Conv : Member[c] = Member[d] => c = d    \* FriendsShareOneConversation
  /\ ApplyMsg \in [Conv -> 1 .. Cardinality(Conv)]
  /\ \A c, d \in Conv : ApplyMsg[c] = ApplyMsg[d] => c = d
  /\ From \in [Frame -> Uid] /\ To \in [Frame -> Uid]
  /\ \A s \in Frame : From[s] # To[s]                     \* connect.go:153
  /\ Carried \in [Frame -> Conv \cup {NoConv}]
  /\ Marker \in [Mark -> Uid] /\ Marked \in [Mark -> Conv]
  /\ Pager \in [Reader -> Uid] /\ Paged \in [Reader -> Conv]
  /\ PageSize \in Nat \ {0}

VARIABLES
  conv,      \* conversations with their members' rows
  message,   \* rows of messages: [id, from, to, conv]
  lastId,    \* the newest snowflake id drawn
  spc,       \* where the handler of a frame is
  id,        \* newMsgId of a frame, 0 before it is drawn
  into,      \* the conversation it is stored in
  acked,     \* frames whose sender was told success
  met,       \* history: the conversations there were when a frame came
  ppc,       \* where the push goroutine of a frame is
  told,      \* told[u]: ids of messages pushed to devices of u
  lastRead,  \* lastRead[u][c]: last_read_msg_id; 0 for "" and for no row
  mpc,       \* where a MarkReadStatus request is
  maxId,     \* the max(msg_id) it read
  seen,      \* history: seen[u]: messages stored when a mark of u read its max
  hpc,       \* where a paging client is
  pages,     \* pages it received: sets of ids
  had        \* history: messages of the conversation stored when it began

frameVars == <<lastId, spc, id, into, acked, met>>
pushVars  == <<ppc, told>>
markVars  == <<lastRead, mpc, maxId, seen>>
pageVars  == <<hpc, pages, had>>
vars      == <<conv, message, frameVars, pushVars, markVars, pageVars>>

Ids(c) == {m.id : m \in {n \in message : n.conv = c}}
Newest(S) == CHOOSE x \in S : \A y \in S : y <= x
Limit(S, n) == {x \in S : Cardinality({y \in S : y > x}) < n}   \* ORDER BY msg_id DESC
IsConversationMember(c, u) == c \in conv /\ u \in Member[c]

Init ==
  /\ conv = {}
  /\ message = {}
  /\ lastId = Cardinality(Conv)     \* the applications have been made
  /\ spc = [s \in Frame |-> "idle"]
  /\ id = [s \in Frame |-> 0]
  /\ into = [s \in Frame |-> NoConv]
  /\ acked = {}
  /\ met = [s \in Frame |-> {}]
  /\ ppc = [s \in Frame |-> "none"]
  /\ told = [u \in Uid |-> {}]
  /\ lastRead = [u \in Uid |-> [c \in Conv |-> 0]]
  /\ mpc = [m \in Mark |-> "start"]
  /\ maxId = [m \in Mark |-> 0]
  /\ seen = [u \in Uid |-> {}]
  /\ hpc = [h \in Reader |-> "start"]
  /\ pages = [h \in Reader |-> <<>>]
  /\ had = [h \in Reader |-> {}]

SGoto(s, l) == spc' = [spc EXCEPT ![s] = l]
MGoto(m, l) == mpc' = [mpc EXCEPT ![m] = l]
PGoto(s, l) == ppc' = [ppc EXCEPT ![s] = l]
HGoto(h, l) == hpc' = [hpc EXCEPT ![h] = l]

Row(s) == [id |-> id[s], from |-> From[s], to |-> To[s], conv |-> into[s]]

-----------------------------------------------------------------------------
(* Seeded defects: each replaces the operator it is named after, to show    *)
(* that a property below notices it.  Next uses none of them.              *)

\* The carried conversation is taken without a look at the stored one.
GetPrivateConversation_Trusts(s) ==
  /\ spc[s] = "find"
  /\ \E c \in Conv \cup {NoConv} :
       /\ \/ c \in conv /\ Member[c] = {From[s], To[s]}
          \/ c = NoConv /\ \A d \in conv : Member[d] # {From[s], To[s]}
       /\ into' = [into EXCEPT ![s] = IF Carried[s] = NoConv THEN c ELSE Carried[s]]
  /\ SGoto(s, "insert")
  /\ UNCHANGED <<conv, message, lastId, id, acked, met, pushVars, markVars, pageVars>>

\* The error of the transaction is logged and not returned.
SendError_Ignored(s) ==
  /\ spc[s] \in {"find", "insert", "commit"}
  /\ SGoto(s, "ack")
  /\ UNCHANGED <<conv, message, lastId, id, into, acked, met, pushVars, markVars, pageVars>>

\* The UPDATE takes the maximum of its own time.
UpdateLastRead_NewMax(m) ==
  /\ mpc[m] = "update"
  /\ lastRead' = [lastRead EXCEPT ![Marker[m]][Marked[m]] = Newest(Ids(Marked[m]))]
  /\ MGoto(m, "done")
  /\ UNCHANGED <<conv, message, frameVars, pushVars, maxId, seen, pageVars>>

\* The row is created without the watermark, and the request returns.
FirstOrCreate_CreatesOnly(m) ==
  /\ mpc[m] = "row"
  /\ MGoto(m, IF lastRead[Marker[m]][Marked[m]] = 0 \/ lastRead[Marker[m]][Marked[m]] >= maxId[m]
              THEN "done" ELSE "update")
  /\ UNCHANGED <<conv, message, frameVars, pushVars, lastRead, maxId, seen, pageVars>>

\* The user's id where the conversation's belongs.
UpdateLastRead_WrongKey(m) ==
  /\ mpc[m] = "update"
  /\ lastRead' = [lastRead EXCEPT ![Marker[m]] = [u \in {Marker[m]} |-> maxId[m]]]
  /\ MGoto(m, "done")
  /\ UNCHANGED <<conv, message, frameVars, pushVars, maxId, seen, pageVars>>

-----------------------------------------------------------------------------
(* A chat frame: connect.go:132-172 and the transaction of CreateMessage. *)

\* The reader of a connection handles one frame at a time; after a panic none.
GenAutoSnowId(s) ==
  /\ spc[s] = "idle"
  /\ \A r \in Frame \ {s} : Device[r] = Device[s] => spc[r] \in {"idle", "failed", "ended"}
  /\ lastId' = lastId + 1
  /\ id' = [id EXCEPT ![s] = lastId + 1]
  /\ met' = [met EXCEPT ![s] = conv]
  /\ SGoto(s, "find")
  /\ UNCHANGED <<conv, message, into, acked, pushVars, markVars, pageVars>>

\* The conversation of the two users, NoConv if they have none.  A frame that
\* carries another one is refused by returning a nil error, on which line 110
\* dereferences the message that was never built.
GetPrivateConversation(s) ==
  /\ spc[s] = "find"
  /\ \E c \in Conv \cup {NoConv} :
       /\ \/ c \in conv /\ Member[c] = {From[s], To[s]}
          \/ c = NoConv /\ \A d \in conv : Member[d] # {From[s], To[s]}
       /\ IF Carried[s] \in {NoConv, c}
            THEN into' = [into EXCEPT ![s] = c] /\ SGoto(s, "insert")
            ELSE SGoto(s, "panic") /\ UNCHANGED into
  /\ UNCHANGED <<conv, message, lastId, id, acked, met, pushVars, markVars, pageVars>>

\* Insert and commit; the push goroutine starts.
CreateMessage(s) ==
  /\ spc[s] = "insert"
  /\ message' = message \cup {Row(s)}
  /\ SGoto(s, "commit")
  /\ UNCHANGED <<conv, lastId, id, into, acked, met, pushVars, markVars, pageVars>>

StartPush(s) ==
  /\ spc[s] = "commit"
  /\ SGoto(s, "ack")
  /\ PGoto(s, "users")
  /\ UNCHANGED <<conv, message, lastId, id, into, acked, met, told, markVars, pageVars>>

\* ReplayAck reaches the connection, or fails and is only logged.
ReplayAck(s) ==
  /\ spc[s] = "ack"
  /\ SGoto(s, "ended")
  /\ acked' \in {acked, acked \cup {s}}
  /\ UNCHANGED <<conv, message, lastId, id, into, met, pushVars, markVars, pageVars>>

\* A statement fails, or the reply of a commit that took effect is lost, or the
\* 5 s of the frame are over: no acknowledgement of either kind and no push.
SendError(s) ==
  /\ spc[s] \in {"find", "insert", "commit"}
  /\ SGoto(s, "failed")
  /\ UNCHANGED <<conv, message, lastId, id, into, acked, met, pushVars, markVars, pageVars>>

-----------------------------------------------------------------------------
(* The push goroutine. *)

\* The sender's devices first; when none of them takes the message the
\* goroutine returns before it comes to the receiver.
PushSelf(s) ==
  /\ ppc[s] = "users"
  /\ \/ told' = [told EXCEPT ![From[s]] = @ \cup {id[s]}] /\ PGoto(s, "peer")
     \/ UNCHANGED told /\ PGoto(s, "ended")
  /\ UNCHANGED <<conv, message, frameVars, markVars, pageVars>>

PushPeer(s) ==
  /\ ppc[s] = "peer"
  /\ told' \in {told, [told EXCEPT ![To[s]] = @ \cup {id[s]}]}
  /\ PGoto(s, "ended")
  /\ UNCHANGED <<conv, message, frameVars, markVars, pageVars>>

-----------------------------------------------------------------------------
(* MarkReadStatus and UpdateConversationRead: four statements, no transaction. *)

\* Membership, then max(msg_id); a conversation without messages is left alone.
SelectMax(m) ==
  /\ mpc[m] = "start"
  /\ IF IsConversationMember(Marked[m], Marker[m]) /\ Ids(Marked[m]) # {}
       THEN /\ maxId' = [maxId EXCEPT ![m] = Newest(Ids(Marked[m]))]
            /\ seen' = [seen EXCEPT ![Marker[m]] = @ \cup Ids(Marked[m])]
            /\ MGoto(m, "row")
       ELSE MGoto(m, "done") /\ UNCHANGED <<maxId, seen>>
  /\ UNCHANGED <<conv, message, frameVars, pushVars, lastRead, pageVars>>

\* FirstOrCreate reads the row; a watermark at or above the maximum stays.
FirstOrCreate(m) ==
  /\ mpc[m] = "row"
  /\ MGoto(m, IF lastRead[Marker[m]][Marked[m]] >= maxId[m] THEN "done" ELSE "update")
  /\ UNCHANGED <<conv, message, frameVars, pushVars, lastRead, maxId, seen, pageVars>>

UpdateLastRead(m) ==
  /\ mpc[m] = "update"
  /\ lastRead' = [lastRead EXCEPT ![Marker[m]][Marked[m]] = maxId[m]]
  /\ MGoto(m, "done")
  /\ UNCHANGED <<conv, message, frameVars, pushVars, maxId, seen, pageVars>>

\* A statement fails, also the insert of a row another request just created.
MarkError(m) ==
  /\ mpc[m] \in {"start", "row", "update"}
  /\ MGoto(m, "failed")
  /\ UNCHANGED <<conv, message, frameVars, pushVars, lastRead, maxId, seen, pageVars>>

-----------------------------------------------------------------------------
(* Reading. *)

\* What PullUnReadMessage returns to u: one query.
PullUnReadMessage(u) ==
  {m \in message : IsConversationMember(m.conv, u) /\ m.id > lastRead[u][m.conv]}

\* The messages a client has received.
Shown(h) == UNION {pages[h][i] : i \in 1 .. Len(pages[h])}

\* "msg_id <= ?" where "msg_id < ?" belongs.
Older_Inclusive(h) == {x \in Ids(Paged[h]) : \A y \in Shown(h) : x <= y}

\* The rows a page is cut from: older than all that the client received.
Older(h) == {x \in Ids(Paged[h]) : \A y \in Shown(h) : x < y}

\* Limit(pageSize) without the row that tells whether there is more.
HasMore_NoExtraRow(h) == Cardinality(Limit(Older(h), PageSize)) > PageSize

HasMore(h) == Cardinality(Limit(Older(h), PageSize + 1)) > PageSize

\* One PullHistoryMessage request; the client comes back with the oldest id it
\* received as the cursor while there is more.
PullHistoryMessage(h) ==
  /\ hpc[h] \in {"start", "more"}
  /\ IF IsConversationMember(Paged[h], Pager[h])
       THEN /\ pages' = [pages EXCEPT ![h] = Append(@, Limit(Older(h), PageSize))]
            /\ HGoto(h, IF HasMore(h) THEN "more" ELSE "end")
            /\ had' = IF hpc[h] = "start" THEN [had EXCEPT ![h] = Ids(Paged[h])] ELSE had
       ELSE HGoto(h, "refused") /\ UNCHANGED <<pages, had>>
  /\ UNCHANGED <<conv, message, frameVars, pushVars, markVars>>

-----------------------------------------------------------------------------
\* UpdateApply commits an agreement (FriendApply's UpdateCommit): the
\* conversation, its members, the application's message and the reply.
UpdateApply(c) ==
  /\ c \notin conv
  /\ conv' = conv \cup {c}
  /\ lastId' = lastId + 1
  /\ \E u \in Member[c] \ {Applicant[c]} :
       message' = message \cup
         {[id |-> ApplyMsg[c], from |-> Applicant[c], to |-> u, conv |-> c],
          [id |-> lastId + 1, from |-> u, to |-> Applicant[c], conv |-> c]}
  /\ UNCHANGED <<spc, id, into, acked, met, pushVars, markVars, pageVars>>

Next ==
  \/ \E s \in Frame : \/ GenAutoSnowId(s) \/ GetPrivateConversation(s) \/ CreateMessage(s)
                      \/ StartPush(s) \/ ReplayAck(s) \/ SendError(s)
                      \/ PushSelf(s) \/ PushPeer(s)
  \/ \E m \in Mark : SelectMax(m) \/ FirstOrCreate(m) \/ UpdateLastRead(m) \/ MarkError(m)
  \/ \E h \in Reader : PullHistoryMessage(h)
  \/ \E c \in Conv : UpdateApply(c)

Spec == Init /\ [][Next]_vars

-----------------------------------------------------------------------------
(* Properties. *)

TypeOK ==
  /\ conv \subseteq Conv
  /\ message \subseteq [id : Nat, from : Uid, to : Uid, conv : Conv \cup {NoConv}]
  /\ lastId \in Nat
  /\ spc \in [Frame -> {"idle", "find", "insert", "commit", "ack", "panic", "failed", "ended"}]
  /\ id \in [Frame -> Nat]
  /\ into \in [Frame -> Conv \cup {NoConv}]
  /\ acked \subseteq Frame
  /\ met \in [Frame -> SUBSET Conv]
  /\ ppc \in [Frame -> {"none", "users", "peer", "ended"}]
  /\ told \in [Uid -> SUBSET Nat]
  /\ lastRead \in [Uid -> [Conv -> Nat]]
  /\ mpc \in [Mark -> {"start", "row", "update", "done", "failed"}]
  /\ maxId \in [Mark -> Nat]
  /\ seen \in [Uid -> SUBSET Nat]
  /\ hpc \in [Reader -> {"start", "more", "end", "refused"}]
  /\ pages \in [Reader -> Seq(SUBSET Nat)]
  /\ had \in [Reader -> SUBSET Nat]

\* Whatever its sender is told succeeded, and whatever any user is shown, is a
\* stored message, under the id they were given, between its two users.  That
\* it is in a conversation is another matter: see AckedIsInConversation.
ToldIsStored ==
  /\ \A s \in acked : Row(s) \in message
  /\ \A u \in Uid : \A x \in told[u] : \E m \in message : m.id = x /\ u \in {m.from, m.to}

\* A message in a conversation is from one of its two members to the other,
\* whatever its frame carried and whenever the two became friends.  One that is
\* in no conversation is of a frame that carried none, between users who had
\* none when the frame came: friends never lose a message to the gap.
MessageIsBetweenMembers ==
  \A m \in message :
    IF m.conv = NoConv
      THEN \E s \in Frame : /\ m = Row(s) /\ Carried[s] = NoConv
                            /\ \A c \in met[s] : Member[c] # {From[s], To[s]}
      ELSE m.conv \in conv /\ Member[m.conv] = {m.from, m.to}

\* A message newer than all that the marks of a member have counted is returned
\* by that member's next PullUnReadMessage, however marks and sends interleave.
NewIsUnread ==
  \A m \in message, u \in Uid :
    IsConversationMember(m.conv, u) /\ (\A x \in seen[u] \cap Ids(m.conv) : x < m.id)
      => m \in PullUnReadMessage(u)

\* What a mark that was answered with success counted is not returned as unread
\* to its user, unless another mark of that user, which had read an older
\* maximum, wrote it after the comparison of this one.
MarkedIsRead ==
  \A m \in Mark : mpc[m] = "done" =>
    \/ \A x \in PullUnReadMessage(Marker[m]) : x.conv = Marked[m] => x.id > maxId[m]
    \/ \E n \in Mark : /\ Marker[n] = Marker[m] /\ Marked[n] = Marked[m]
                      /\ mpc[n] = "done" /\ maxId[n] < maxId[m]
                      /\ lastRead[Marker[m]][Marked[m]] = maxId[n]

\* The pages of a client follow each other from new to old and never repeat a
\* message, while others are sending.
HistoryInOrder ==
  \A h \in Reader : \A i, j \in 1 .. Len(pages[h]) :
    i < j => \A x \in pages[h][i], y \in pages[h][j] : y < x

\* A client told that there is no more has received every message that was
\* stored when it began.
HistoryComplete ==
  \A h \in Reader : hpc[h] = "end" => had[h] \subseteq Shown(h)

-----------------------------------------------------------------------------
(* What comments and documentation promise and the code does not keep. *)

\* readme.md:172: users without a conversation get an error, only friends chat.
\* A frame acknowledged with success was stored in a conversation.
AckedIsInConversation == \A s \in acked : into[s] # NoConv

\* readme.md:447: a user who comes back gets all messages of the time offline.
\* A stored message whose push has ended is returned as unread unless it was
\* pushed to its receiver or counted by one of the receiver's marks.
OfflineIsUnread ==
  \A s \in Frame : ppc[s] = "ended" /\ into[s] # NoConv
                     /\ id[s] \notin told[To[s]] \cup seen[To[s]]
                   => Row(s) \in PullUnReadMessage(To[s])
=============================================================================

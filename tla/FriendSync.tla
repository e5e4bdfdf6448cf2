----------------------------- MODULE FriendSync -----------------------------
(***************************************************************************)
(* What the devices of users learn of the friend tables: pushes to the      *)
(* connections in the pool (addFriendService.go, updateApplyStatusService.go),*)
(* the pull after "ready" (offlineApplyService.go) and the friend list       *)
(* (pullFriendsService.go).                                                 *)
(*                                                                         *)
(* The tables move by the actions of Friendship, which FriendApply          *)
(* implements.  The pull reads two queries that are not one snapshot; pushes *)
(* follow their commit and can be lost; the list is paged by OFFSET over     *)
(* rows whose ids are drawn before they commit.                             *)
(***************************************************************************)
EXTENDS Friendship, Naturals, FiniteSets, Sequences, SequencesExt, FiniteSetsExt

CONSTANTS Old,            \* applications agreed to before
          Answer,         \* UpdateApply requests
          Device, Owner,  \* connections' clients; Owner[d] is logged in on d
          Lister,         \* the user who pages through the friend list
          PageSize,
          None

ASSUME SyncAssumption ==
  /\ From \in [Apply -> Uid] /\ To \in [Apply -> Uid]
  /\ \A a \in Apply : From[a] # To[a]
  /\ Old \subseteq Apply /\ IsFiniteSet(Old) /\ None \notin Apply
  /\ Owner \in [Device -> Uid] /\ Lister \in Uid
  /\ PageSize \in Nat \ {0}

VARIABLES
  apc,     \* answer q: "idle", "checked", "inserted", "done"
  record,  \* applyRecord: the application q read
  verdict, \* what q answers
  rowId,   \* rowId[a]: the id of the Lister's friend row that a's agreement inserted
  listed,  \* applications whose friend rows are committed
  jobs,    \* pushes after a commit that are not done: [apply, verdict, to]
  dpc,     \* device d: "off", "ready", "pulling", "synced"
  first,   \* what the first query of d's pull returned
  view,    \* <<application, verdict>> shown on d since it connected
  stale,   \* d missed a push since its pull began
  page,    \* the page of the friend list that is pulled next
  had,     \* history: the friends when paging began
  got,     \* the friends received
  more     \* hasMore of the last page

answers == <<apc, record, verdict>>
rows    == <<rowId, listed>>
devices == <<dpc, first, view, stale>>
pages   == <<page, had, got, more>>
vars    == <<tables, answers, rows, jobs, devices, pages>>

\* The friend rows of the Lister, newest id first.
FriendIds == {a \in listed : Lister \in {From[a], To[a]}}
FriendUid(a) == IF From[a] = Lister THEN To[a] ELSE From[a]
Position(a) == Cardinality({b \in FriendIds : rowId[b] >= rowId[a]})
FriendList ==
  [i \in 1 .. Cardinality(FriendIds) |-> CHOOSE a \in FriendIds : Position(a) = i]

NextId == Max({rowId[a] : a \in Apply} \cup {0}) + 1

Init ==
  /\ status = [a \in Apply |-> IF a \in Old THEN "agreed" ELSE "none"]
  /\ applyRead = Old
  /\ friend = UNION {FriendRows(a) : a \in Old}
  /\ rowId = CHOOSE f \in [Apply -> 0 .. Cardinality(Old)] :
                 /\ \A a \in Apply : f[a] = 0 <=> a \notin Old
                 /\ \A a, b \in Old : f[a] = f[b] => a = b
  /\ listed = Old
  /\ apc = [q \in Answer |-> "idle"]
  /\ record = [q \in Answer |-> None]
  /\ verdict = [q \in Answer |-> None]
  /\ jobs = {}
  /\ dpc = [d \in Device |-> "off"]
  /\ first = [d \in Device |-> {}]
  /\ view = [d \in Device |-> {}]
  /\ stale = [d \in Device |-> FALSE]
  /\ page = 1 /\ had = {} /\ got = <<>> /\ more = TRUE

Goto(q, l) == apc' = [apc EXCEPT ![q] = l]

Connected(d) == dpc[d] # "off"

Missed(users) ==
  stale' = [d \in Device |-> stale[d] \/ (Connected(d) /\ Owner[d] \in users)]

\* After the commit: the pushes, in order, or a failed query and none at all.
Announce(a, v, to) ==
  \/ jobs' = jobs \cup {[apply |-> a, verdict |-> v, to |-> to]} /\ UNCHANGED devices
  \/ Missed({From[a], To[a]}) /\ UNCHANGED <<jobs, dpc, first, view>>

Limit(s, n)  == SubSeq(s, 1, Min({n, Len(s)}))
Offset(s, n) == SubSeq(s, n + 1, Len(s))

-----------------------------------------------------------------------------
(* Seeded defects: each replaces the operator it is named after, to show    *)
(* that a property below notices it.  Next uses none of them.              *)

\* A push that was done to both users is kept.
Push_KeepsDone(j) ==
  /\ j \in jobs /\ j.to # <<>>
  /\ jobs' = (jobs \ {j}) \cup {[j EXCEPT !.to = Tail(@)]}
  /\ UNCHANGED <<tables, answers, rows, devices, pages>>

\* status = 1 instead of status in (1,2).
GetUnReadApplyByUid_AgreedOnly(d) ==
  /\ dpc[d] = "ready"
  /\ first' = [first EXCEPT ![d] =
       {<<a, "agreed">> : a \in {b \in Apply : /\ From[b] = Owner[d] /\ b \notin applyRead
                                              /\ status[b] = "agreed"}}]
  /\ dpc' = [dpc EXCEPT ![d] = "pulling"]
  /\ stale' = [stale EXCEPT ![d] = FALSE]
  /\ UNCHANGED <<tables, answers, rows, jobs, view, pages>>

\* The first page is page 0.
PullFriendsByUid_FromPage0(p) == Limit(Offset(FriendList, p * PageSize), PageSize + 1)

\* The extra row is returned with the page.
Received_ExtraRow(list) == [i \in 1 .. Len(list) |-> FriendUid(list[i])]

-----------------------------------------------------------------------------
(* Requests on the tables. *)

AddFriend(a) ==
  /\ Submit(a)
  /\ Announce(a, "pending", <<To[a], From[a]>>)
  /\ UNCHANGED <<answers, rows, pages>>

UpdateCheck(q) ==
  /\ apc[q] = "idle"
  /\ \E a \in Apply, v \in {"agreed", "refused"} :
       /\ Pending(a) /\ FriendRows(a) \cap friend = {}
       /\ record' = [record EXCEPT ![q] = a]
       /\ verdict' = [verdict EXCEPT ![q] = v]
  /\ Goto(q, "checked")
  /\ UNCHANGED <<tables, rows, jobs, devices, pages>>

\* No other transaction holds the application's row or its friend keys.
Unlocked(q) ==
  \A p \in Answer : apc[p] = "inserted" => FriendRows(record[p]) # FriendRows(record[q])

\* The rows get their ids when they are inserted, whatever commits first.
CreateFriend(q) ==
  /\ apc[q] = "checked" /\ verdict[q] = "agreed" /\ Unlocked(q)
  /\ IF FriendRows(record[q]) \cap friend = {}
       THEN rowId' = [rowId EXCEPT ![record[q]] = NextId] /\ Goto(q, "inserted")
       ELSE Goto(q, "done") /\ UNCHANGED rowId
  /\ UNCHANGED <<tables, record, verdict, listed, jobs, devices, pages>>

\* A commit, and the pushes of the verdict the request was made for, also when
\* another answer had already decided.
UpdateCommit(q) ==
  /\ \/ /\ apc[q] = "inserted"
        /\ Agree(record[q]) /\ listed' = listed \cup {record[q]}
     \/ /\ apc[q] = "checked" /\ verdict[q] = "refused" /\ Unlocked(q)
        /\ IF Pending(record[q]) THEN Refuse(record[q]) ELSE UNCHANGED tables
        /\ UNCHANGED listed
  /\ Announce(record[q], verdict[q], <<From[record[q]], To[record[q]]>>)
  /\ Goto(q, "done")
  /\ UNCHANGED <<record, verdict, rowId, pages>>

UpdateFails(q) ==
  /\ apc[q] \in {"checked", "inserted"}
  /\ Goto(q, "done")
  /\ UNCHANGED <<tables, record, verdict, rows, jobs, devices, pages>>

\* SendAllConnOfUid: each connection of the user takes the message or loses it.
Push(j) ==
  LET user == Head(j.to)
      reached == {d \in Device : Connected(d) /\ Owner[d] = user}
  IN /\ j \in jobs
     /\ \E lost \in SUBSET reached :
          /\ view' = [d \in Device |-> IF d \in reached \ lost
                                         THEN view[d] \cup {<<j.apply, j.verdict>>} ELSE view[d]]
          /\ stale' = [d \in Device |-> stale[d] \/ d \in lost]
     /\ jobs' = (jobs \ {j}) \cup (IF Len(j.to) = 1 THEN {} ELSE {[j EXCEPT !.to = Tail(@)]})
     /\ UNCHANGED <<tables, answers, rows, dpc, first, pages>>

-----------------------------------------------------------------------------
(* Devices. *)

\* AddConn; "ready" follows.
Connect(d) ==
  /\ ~Connected(d)
  /\ dpc' = [dpc EXCEPT ![d] = "ready"]
  /\ UNCHANGED <<tables, answers, rows, jobs, first, view, stale, pages>>

GetUnReadApplyByUid(d) ==
  /\ dpc[d] = "ready"
  /\ first' = [first EXCEPT ![d] =
       {<<a, status[a]>> : a \in {b \in Apply : /\ From[b] = Owner[d] /\ b \notin applyRead
                                                /\ status[b] \in {"agreed", "refused"}}}]
  /\ dpc' = [dpc EXCEPT ![d] = "pulling"]
  /\ stale' = [stale EXCEPT ![d] = FALSE]
  /\ UNCHANGED <<tables, answers, rows, jobs, view, pages>>

GetPendingApplyByUid(d) ==
  /\ dpc[d] = "pulling"
  /\ view' = [view EXCEPT ![d] = @ \cup first[d] \cup
       {<<a, "pending">> : a \in {b \in Apply : To[b] = Owner[d] /\ Pending(b)}}]
  /\ first' = [first EXCEPT ![d] = {}]
  /\ dpc' = [dpc EXCEPT ![d] = "synced"]
  /\ UNCHANGED <<tables, answers, rows, jobs, stale, pages>>

\* A query fails: the client pulls again.
PullFails(d) ==
  /\ dpc[d] = "pulling"
  /\ dpc' = [dpc EXCEPT ![d] = "ready"]
  /\ first' = [first EXCEPT ![d] = {}]
  /\ UNCHANGED <<tables, answers, rows, jobs, view, stale, pages>>

\* What was queued for the connection is lost; nothing shown is relied on.
Disconnect(d) ==
  /\ Connected(d)
  /\ dpc' = [dpc EXCEPT ![d] = "off"]
  /\ first' = [first EXCEPT ![d] = {}]
  /\ view' = [view EXCEPT ![d] = {}]
  /\ stale' = [stale EXCEPT ![d] = FALSE]
  /\ UNCHANGED <<tables, answers, rows, jobs, pages>>

\* A frame of the applicant; nothing asks whether there is a verdict yet.
MarkFriendApplyRead(d, a) ==
  /\ Connected(d) /\ From[a] = Owner[d] /\ a \notin applyRead
  /\ MarkRead(a)
  /\ UNCHANGED <<answers, rows, jobs, devices, pages>>

-----------------------------------------------------------------------------
(* The friend list. *)

\* One row more than the page tells whether there is another page.
PullFriendsByUid(p) == Limit(Offset(FriendList, (p - 1) * PageSize), PageSize + 1)

Received(list) ==
  LET shown == Limit(list, PageSize) IN [i \in 1 .. Len(shown) |-> FriendUid(shown[i])]

PullFriends ==
  /\ more
  /\ LET list == PullFriendsByUid(page) IN
       /\ got' = got \o Received(list)
       /\ more' = (Len(list) > PageSize)
  /\ had' = IF page = 1 THEN {FriendUid(a) : a \in FriendIds} ELSE had
  /\ page' = page + 1
  /\ UNCHANGED <<tables, answers, rows, jobs, devices>>

-----------------------------------------------------------------------------
Next ==
  \/ \E a \in Apply : AddFriend(a)
  \/ \E q \in Answer : UpdateCheck(q) \/ CreateFriend(q) \/ UpdateCommit(q) \/ UpdateFails(q)
  \/ \E j \in jobs : Push(j)
  \/ \E d \in Device : \/ Connect(d) \/ GetUnReadApplyByUid(d) \/ GetPendingApplyByUid(d)
                       \/ PullFails(d) \/ Disconnect(d)
                       \/ \E a \in Apply : MarkFriendApplyRead(d, a)
  \/ PullFriends

Spec == Init /\ [][Next]_vars

-----------------------------------------------------------------------------
(* Properties. *)

Verdict == {"pending", "agreed", "refused"}

TypeOK ==
  /\ status \in [Apply -> Verdict \cup {"none"}]
  /\ applyRead \subseteq Apply /\ friend \subseteq Uid \X Uid
  /\ apc \in [Answer -> {"idle", "checked", "inserted", "done"}]
  /\ record \in [Answer -> Apply \cup {None}]
  /\ \A q \in Answer : verdict[q] = None \/ verdict[q] \in {"agreed", "refused"}
  /\ rowId \in [Apply -> Nat] /\ listed \subseteq Apply
  /\ jobs \subseteq [apply : Apply, verdict : Verdict, to : {<<u>> : u \in Uid} \cup Uid \X Uid]
  /\ dpc \in [Device -> {"off", "ready", "pulling", "synced"}]
  /\ first \in [Device -> SUBSET (Apply \X Verdict)]
  /\ view \in [Device -> SUBSET (Apply \X Verdict)]
  /\ stale \in [Device -> BOOLEAN]
  /\ page \in Nat \ {0} /\ more \in BOOLEAN /\ had \subseteq Uid
  /\ \A i \in DOMAIN got : got[i] \in Uid

\* d was shown application a as it is in the table since it connected, or will
\* be when a push arrives.  Nothing is said about the last word: view keeps no
\* order, and the code gives two pushes about one application none.
Shown(d, a) ==
  \/ <<a, status[a]>> \in view[d]
  \/ \E j \in jobs : /\ j.apply = a /\ j.verdict = status[a]
                     /\ \E i \in DOMAIN j.to : j.to[i] = Owner[d]

\* A device that has pulled and missed no push since was shown, or will be, every
\* refusal of its user's applications that is not marked read, and every application
\* that waits for its user's answer: between the two queries and the pushes nothing falls
\* through, whatever commits in between.
SyncedIsCurrent ==
  \A d \in Device : dpc[d] = "synced" /\ ~stale[d] =>
    \A a \in Apply :
      \/ From[a] = Owner[d] /\ status[a] = "refused" /\ a \notin applyRead
      \/ To[a] = Owner[d] /\ Pending(a)
      => Shown(d, a)

\* A client that paged to the end has every friend there was at its beginning,
\* although agreements insert rows above and among the pages it has read.
FriendsListed == ~more => had \subseteq ToSet(got)

\* A friend is received twice at most as often as friends were added meanwhile.
RepeatsOnlyByGrowth ==
  Len(got) - Cardinality(ToSet(got)) <= Cardinality(FriendIds) - Cardinality(had)
=============================================================================

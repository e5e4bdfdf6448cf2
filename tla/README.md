# chatApp_backend: TLA+ models and proofs

This directory specifies the concurrent core of the chat backend in TLA+: the
websocket connection pool, friend applications and what devices learn of them,
private messages in the database, and accounts with their codes and profiles.
TLC checks the modules on small instances, TLAPS proves theorems about them for
all values of the constants. Paths below are relative to `src/`.

## 1. The system

The backend is one Go process: gin handlers for HTTP requests, one reader and
one consumer goroutine for each websocket connection, and short goroutines that
push messages. It keeps its state in MySQL (through gorm), Redis (verification
codes) and, for the connections of the moment, in memory.

| Component | State | Operations | Hard behaviours | Correct when |
|---|---|---|---|---|
| Connection pool (`socket/socketMain.go`, `socket/service/connect.go`) | `connMap` of each shard under its mutex; per connection a channel, `closed`, a context | `AddConn`, `RemoveConn`, `SendAllConnOfUid`, `SendSingleConn`, `ConsumeMessage`, the read loop | flags and channels are used after the mutex is released; two goroutines remove one connection; full channels; lost peers; a panic in the read loop | the maps tell the truth, results are honest, each device gets what was queued, in order and once |
| Friend applications (`service/friend`, `model/friend.go`, `socket/service/markReadFriendApply.go`) | `friend_applies`, `friends`, conversations | `AddFriend`, `UpdateApply`, `MarkFriendApplyRead`, `PullOfflineApply` | checks outside of the transaction; lock waits and deadlocks; errors after the commit; pushes of a goroutine | a verdict is final and the one that was told, friendship is mutual with one conversation |
| Messages at rest (`model/message.go`, `socket/service/createMessage.go`, `service/message`) | `messages`, `conversation_reads` | chat frame, `MarkReadStatus`, `PullUnReadMessage`, `PullHistoryMessage` | ids drawn before the transaction; a mark of four statements; paging while others send | acknowledged means stored, unread messages are returned, pages are ordered and complete |
| Device sync (`service/friend/offlineApplyService.go`) | reads `friend_applies` | `PullOfflineApply`, pushes, reconnection | two queries that are no snapshot, pushes that are lost or late | a device that pulled misses nothing it is not about to be pushed |
| Friend list (`service/friend/pullFriendsService.go`) | reads `friends` | `PullFriends`, OFFSET pages | rows inserted between pages | no friend is skipped |
| Accounts (`service/user`, `model/verifyCode.go`, `model/user.go`) | users; codes and limits in Redis with expiry | `SendCode`, `Register`, `ResetPwd`, `Login` | check then set without atomicity; expiry; lost replies; deletion of a newer code | one complete account for an address; a mailed code works, and once; mails are limited |
| Profile (`service/user/uploadImgService.go`, `updateInfoService.go`) | columns of users, files | upload, update, look up | update by a goroutine after the answer | only the goroutine of an earlier upload of the same image may replace what a later request wrote; an image column names a stored file |
| Message categories, authentication, startup, routing, helpers | two rows per user; none | reads, token checks, configuration | none that interleave | – |

How they interact: the read loop of a connection calls the chat and mark
operations and answers through the pool; the friend and chat services push
through `PushBroadCastMsg`, which calls the pool from a goroutine of its own;
`UpdateApply` creates the conversation that chat frames look up and stores its
first two messages; `Register` creates the user, the two message categories and
the QR code in one go. Clients are external: they connect, send frames, vanish,
reconnect as a new connection, and send a request again when no answer comes.

`PROJECT.json` lists every component with its status, every hazard at its line
with the properties that watch it, and for each definition the lines it models.

## 2. Modules

| Module | Models |
|---|---|
| `DeviceOutbox` | abstract: what the pool promises to one device, a bounded first-in first-out outbox |
| `ConnPool` | the pool and the goroutines that use it |
| `ConnPool_proofs`, `Outbox_proofs` | theorems about `ConnPool`; that it implements `DeviceOutbox` |
| `Friendship` | abstract: what the friend tables promise |
| `FriendApply` | friend applications and the tables an answer writes |
| `FriendApply_proofs` | theorems about `FriendApply`; that it implements `Friendship` |
| `FriendSync` | what devices learn of the tables of `Friendship`: pushes, pulls, the friend list |
| `FriendSync_proofs`, `FriendList_proofs` | theorems about `FriendSync`: what devices know; its types and the friend list |
| `ChatStore` | private messages: send, mark, unread, history |
| `ChatStore_proofs` | theorems about `ChatStore` |
| `Accounts` | codes, registration, password reset, profile |
| `Accounts_proofs` | theorems about `Accounts` |
| `MCConnPool`, `MCFriendApply`, `MCFriendSync`, `MCChatStore`, `MCAccounts` | instances for TLC |

`FriendSync` extends `Friendship`, so pushes and pulls are composed with the
tables that `FriendApply` is proved to implement. `ConnPool` stands below the
pushes of `FriendApply`, `FriendSync` and `ChatStore`: there a push to a
connection is taken or lost, which is what `DeviceOutbox` leaves open.

Each module has a section of *seeded defects*: variants of its operators with
one plausible bug each (a dropped check, a forgotten unlock, `<=` for `<`).
`Next` uses none of them. Replacing the operator by its variant makes the named
property fail, which shows that the property can tell.

### ConnPool

`users` and `subMap` are the outer and inner keys of `connMap` (a user can have
an outer key and an empty inner map, as in Go); `mu` is the mutex of each shard.
A connection has a reader and a consumer with a program counter each (`pc`), its
buffered channel (`MsgChan`), the message the consumer has taken and not yet
written (`hand`), the flags `closed` and `ctxDone`, and what reached the socket
(`wire`). A broadcast (`Task`) is one call of `SendAllConnOfUid` with its
snapshot. A critical section that touches only the map is one step, enabled
when the mutex is free. Everything used outside of the mutex has a step of its
own: the check of `closed`, the send to the channel, the receive, the write.
`RemoveConn` is four steps, since `Cancel` and the flag are seen without the
mutex before the entry is deleted. `AddConn` is three: it takes the mutex
(`AddConnLock`), sends the ready message (`AddConnReady`), which on a full channel
would wait with the mutex held, and registers (`AddConnRegister`). The channel is
new and private to the caller, so the wait never happens.

Abstracted: what the messages say; frames that are not answered; the data
operations a frame starts (they are in the other modules). `ReadFramePanic` is
the frame for which `CreateMessage` dereferences nil.

The refinement `ImplementsOutbox` maps a connection to a device of
`DeviceOutbox`: its outbox is `hand` followed by the channel while the consumer
serves, and empty afterwards. The abstract `Lose` step is there because a
broadcast can be taken by a channel whose consumer has ended.

### FriendApply

Every request is a process. `AddFriend` is four statements that commit on their
own; `UpdateApply` is three checks and one transaction. The transaction's steps
are its statements; its rows appear at `UpdateCommit`. Locks are not variables:
they follow from where a transaction is (`HoldsRow`, `HoldsKey`), and a statement
that needs a lock waits. `hit` records whether the conditional UPDATE found the
application pending. Opposite agreements insert the two friend keys in opposite
orders; `DeadlockVictim` is InnoDB ending the cycle. `AddError` and `UpdateError`
are database errors and time-outs at every statement, including queries after
the commit. `notice` collects the broadcasts issued; whether a device takes
them is ConnPool's.

Abstracted: the texts, the user rows (their existence), the categories. InnoDB
is modelled at REPEATABLE READ: the transaction's only consistent read is the
search for the conversation, so its snapshot is taken there.

`ImplementsFriendship` maps the tables to those of `Friendship` by name. A commit
is its `Agree` or `Refuse`, and one whose UPDATE changed no row and which refuses
is no step. `Agree` leaves the status alone when another answer refused
in the meantime, because the code does: the friendship, the conversation and
`apply_read` are written all the same.

### FriendSync

The tables move by the actions of `Friendship`; each action of this module adds
what the device side sees of it. `Submit` is not guarded by the checks of
`AddFriend`: more applications than the code allows, which only adds work for
the pushes. The answers run in three steps (`UpdateCheck`, `CreateFriend`,
`UpdateCommit`) because a friend row draws its id at the INSERT and appears at the
commit: `rowId` and `listed` are therefore two variables, and a row can turn up
among the rows a client has paged over. `Position` is a row's place under
`ORDER BY id DESC`, and `FriendList` lists the rows by it.

After a commit `Announce` starts the pushes (`jobs`), to one user after the other,
or the queries between commit and push fail and nobody is told. `Push` is one
`SendAllConnOfUid`: each connection of the user takes the message or loses it.
A pull is the two queries of `PullOfflineApply` one after the other. `view` is what
a device was shown since it connected, in no order: two pushes about one
application can arrive in either, and `SyncedIsCurrent` says that the current state
was shown or is coming, not that it was shown last. `stale` says that a push passed it by
since its pull began, which excuses it from `SyncedIsCurrent` until it pulls
again. That a client pulls after "ready" and starts over after a reconnection is
the client's part, external, taken from `readme.md:251` and `readme.md:332`; the
server only offers the two queries.

`SyncedIsCurrent` speaks of refusals the applicant has not marked as read and of
applications that wait for the user, the two things the pull returns. An
agreement sets `apply_read` itself, so an offline applicant does not learn of it
from this pull but from the friend list, which is what `FriendsListed` is about.

Abstracted: the texts, the user rows, the online flag (a constant in the code).

### ChatStore

A frame draws its id (`GenAutoSnowId`), opens the transaction with the search for
the conversation, inserts and commits, starts its push goroutine and is
acknowledged. Ids are consecutive numbers, ordered like the snowflake strings
(which have one length). `SendError` covers a commit that took effect and whose
reply was lost: the message is stored, nobody is told. A refused conversation
panics the reader, so the device sends no further frame. A frame between two
users without a conversation that carries none is stored in none (`NoConv`) and
acknowledged; `met` remembers the conversations there were when it came. Pushes succeed or not,
as the pool decides; without a device of the sender the receiver's push is given
up. A mark is three steps (maximum, row, update). History pages are sets of ids,
cut from the rows older than everything the client received.
`UpdateApply` is the commit of `FriendApply` seen from the messages: the
conversation with its members and its two first messages, the application's id
having been drawn long before. `told`, `seen`, `had` and `met` are history variables.

Abstracted: contents, the users joined to the rows, group messages (types in the
code, no operation), and the handlers' time-outs of reads.

### Accounts

Every request is a process; every call to Redis or MySQL is a step of its own,
except where one transaction makes several appear at once. `code` and `limit` are
the two keys of an address in Redis. `arg` is what a request carries, as a set:
its type and then the code it drew, the code it presents, the kind of image, or
the columns it updates. A column of a user row is named by the request that wrote
it, and so is a file, which is all the properties ask of passwords, names and
images.

`SaveCode`, `SetSendLimit`, `RegisterCommit`, `UpdatePassword` and `UpdateInfo` may
take effect and lose their reply; `DeleteCode` may fail, and the code drops the
error. `RequestError` is every other failure and the time limit of 5 s.
`CreateUser` waits for another transaction that inserted the same address, as the
unique index does, and fails on a committed one. `SaveThumb` answers the client
and leaves a goroutine, the step `UpdateImgUrl` of the same request, that may come
after any number of other steps (in the code within 30 s) or be lost. The upload
is answered all the same before that step, so two uploads of one image, one
after the other and both told that they are done (`handler/user/uploadImage.go:80`),
can leave the older image: their goroutines (`uploadImgService.go:133`) may run in
the other order. `OnlyLateUploadsOverwrite` has this as its one exception.

`ExpireCode` has a guard that the clock justifies: the code lives 300 s, the limit
60 s and is set within the 5 s of the request that saved the code, so the code of
an address outlives its limit. Nothing else is assumed about time.

History variables say what a client can know: `prior` (the requests that had been
answered when this one began, uploads whose goroutine is still to run among
them), `kept` (those whose `DeleteCode` failed), `expired`, `lapsed`, and `via`
(the send whose code a request presented). The properties of codes are
stated of requests that do not overlap, or except for the requests that did:
overlapping sends all pass the limit and replace each other's codes, so the
"five minutes" of the mail hold only as far as `MailedCodeIsAccepted` says.

Abstracted: hashing, tokens, the texts of mails, image formats; the upload type
"cover", which the handler lets through and the service refuses after it has
stored the original under a name nothing refers to.

## 3. Runs

Passing runs:

| Run | Instance | Shows |
|---|---|---|
| `pool_devices` | one user, 2 connections, 1 frame, 1 broadcast, channel of 1 | `TypeOK`, `MutualExclusion`, `PoolIsTruthful`, `OfflineReachedNobody`, `NilIsHeldOrDeviceEnded`, `WireIsInOrder`, `ImplementsOutbox` |
| `pool_live` | 1 connection, 1 frame, 2 broadcasts to its user and 1 to another, with fairness | `OnlyTargetIsReached`, `QueuedIsWritten`, `GoneIsRemoved`, `BroadcastReturns` |
| `friend_apply` | 2 users who apply to each other, 2 answers, with fairness | `ImplementsFriendship`, `TypeOK`, `FriendsShareOneConversation`, `AgreedIsComplete`, `ChatPushIsStored`, `VerdictIsFinal`, `NoSequentialDuplicate`, `RequestsEnd` |
| `chat_store` | 2 users who become friends, 2 frames, 2 marks of one of them, 1 paging client | `TypeOK`, `ToldIsStored`, `MessageIsBetweenMembers`, `NewIsUnread`, `MarkedIsRead`, `HistoryInOrder`, `HistoryComplete` |
| `friend_sync` | 1 device of a user with 2 friends, an application from and one to the user, 2 answers, pages of 1 friend | `TypeOK`, `SyncedIsCurrent`, `FriendsListed`, `RepeatsOnlyByGrowth` |
| `accounts` | 3 requests of any kind, 2 addresses of which one has an account, 2 codes | `TypeOK`, `RegisteredOpens`, `AccountIsComplete`, `CodeServesOnceInSequence`, `MailedCodeIsAccepted`, `SequentialSendsAreLimited`, `OnlyLateUploadsOverwrite` |

Runs that find what the code does against its own comments and documentation:

| Run | Violated | What happens |
|---|---|---|
| `pool_nil_lost` | `NilIsDelivered` (`socketMain.go:211`) | a broadcast returns nil, the only device closed between the check and the send, no device ever gets the message |
| `pool_panic` | `EveryGoneIsRemoved` | a refused conversation panics the reader; the connection stays registered, and until a push to it fails nothing removes it |
| `friend_duplicate` | `NoDuplicatePending` (`readme.md:438`) | two overlapping applications are both stored |
| `friend_verdict` | `ToldVerdictIsStored` (`updateApplyStatusService.go:31`) | two overlapping answers: the second changes no row and is pushed all the same |
| `chat_stranger` | `AckedIsInConversation` (`readme.md:172`) | a frame between strangers is stored in no conversation and acknowledged with success |
| `chat_offline` | `OfflineIsUnread` (`readme.md:447`) | a message that commits after a mark which counted a newer id is never unread |

Beside each violated property stands the passing one that says what is still
true: `NilIsHeldOrDeviceEnded` (only a device that ends loses a message),
`GoneIsRemoved` (only a panic keeps a connection), `NoSequentialDuplicate` (only
overlapping applications are stored twice), `VerdictIsFinal` (the stored verdict
does not change), `MessageIsBetweenMembers` (a message in no conversation is of a
frame that carried none between users who had none; every other one is between
the members of its conversation), `NewIsUnread` (only messages older than one
already counted are hidden). Where the code's own check is not atomic but nothing
promises that it is, only a passing property stands, with the exception in it:
`MarkedIsRead` (two overlapping marks of one user can move the watermark back
behind the comparison of `model/message.go:237`) and `OnlyLateUploadsOverwrite`.

Bounds, and why they are enough:

- Two connections and one broadcast: the races of the pool are between one
  broadcast, the two goroutines of a connection and a second device of the same
  user. Two broadcasts to one device are in `pool_live`, and a third one to a user
  who shares the shard and has no device. `BufCap` is 1 instead of
  100, so that a full channel is one message away. `MaxFrames` bounds the
  answered frames of a connection by one; an answer races with removal once.
- Two applications and two answers: the races are between two requests for one
  pair of users; opposite directions give the opposite lock orders. Two
  applications in one direction, the branch of `FriendApplyHasPending` that refuses,
  are left to the theorem `SequentialApplicationsAreSingle`, which has no bound.
- Two frames beside the two messages of the agreement, `PageSize` 2: four
  messages make two pages, the last of which can be exactly full, and ids commit
  out of order. Two marks of one user overlap each other and the frames; they and
  the paging client are read-mostly and meet the frames only in the tables.
- Three requests about accounts: a send, a use of its code, and a third one that
  overlaps either; a request draws or presents one of two codes, so codes also
  collide. Requests and codes are interchangeable (symmetry); the addresses are
  not, since one has an account.
- One device, two answers and two applications in `friend_sync`: a pull races
  with two pushes in either direction; two old friends and `PageSize` 1 make three
  pages, with rows inserted above and among them. Devices do not interact, and
  the answers are interchangeable (symmetry).
- `CHECK_DEADLOCK FALSE` is set because the instances stop: requests, frames and
  broadcasts are finite, and nobody has to connect again.

Fairness. `ConnPool`: every runnable goroutine runs (weak fairness), steps that
take a mutex are strongly fair because `sync.Mutex` hands the lock to a waiter
that starves, a write to a socket ends, and a read of a vanished peer fails
within the 30 s deadline. No client has to connect or send. `FriendApply`: a
received request runs on while its next statement can run, and InnoDB ends a
deadlock; errors carry no fairness, so no property relies on one to free a
waiting request. `ChatStore`, `FriendSync` and
`Accounts` state safety only: no comment or document promises that a mail, a push
or a pull arrives.

## 4. Proofs

The theorems hold for all sets of users, connections, requests, frames, codes and
columns, finite or not (two sets are finite because rows are counted: the
conversations of `ChatStore`, whose first messages have ids, and the agreements
before the start in `FriendSync`), from the assumptions
`PoolAssumption`, `ApplyAssumption`, `SyncAssumption`, `ChatAssumption` and
`AccountAssumption` alone. TLC evaluates each of them in the runs. `ChatAssumption`
says that the conversation of two users is unique, which is the theorem
`FriendsStayInOneConversation` of `FriendApply_proofs`.

`ConnPool_proofs` proves `TypeCorrect`, `MutexHolds` and `PoolStaysTruthful`. None of
the properties is inductive. The inductive invariant `IInv` adds to them

- `Labels`: which labels each of the two goroutines can be at, and that the
  consumer exists exactly after registration;
- `MapsAgree`: the outer key is there exactly when the inner map is not empty,
  and inner maps hold connections of their own user;
- `Life`: what the flags say at each point of the life of a connection – before
  it is added, while it is served, during the three steps of its removal, after.

`PoolIsTruthful` speaks of unlocked shards only; `Life` says what is true inside
a removal, and mutual exclusion that no second removal of the same connection
can be inside as well. One lemma per kind of step (enter, inside, leave a
critical section) keeps `IInv`.

`Outbox_proofs` proves `OfflineIsTrue`, `SuccessIsHeld`, `BroadcastsReachTheirTarget`,
`WiresStayInOrder` and the refinement `PoolIsOutbox`. `OutInv` adds to `IInv` what messages do:

- `HandInv`: the consumer holds exactly one message while it writes;
- `FreshInv`: only `AddConn` queues for a connection before it is registered, so
  ready is the first message;
- `VisitInv`: a broadcast visits a connection once, and only one that has a
  consumer, although it works on a snapshot;
- `ResultInv`: the result tells whether some channel took the message;
- `TakenInv`: what a channel took is queued, held or written as long as the
  device is served, and nothing else is.

`BroadcastsReachTheirTarget` adds `AddressInv`: snapshot, next device and takers of a
broadcast are its target's, because inner maps hold their own user's connections
(`MapsAgree`) and nothing is queued that was not taken (`TakenInv`).
`WiresStayInOrder` follows the stream of a device, what was written followed by what
its outbox holds (`OrderInv`): it only grows at its end, by a ready message when it
is empty, by an answer, or by a broadcast that is not in it, and it is cut to what
was written when the device ends. The steps are those of `DeviceOutbox`, so the
argument is about the promise and not about the goroutines.

The refinement shows for each action that it is `Open`, `Answer`, `Take`, `Lose`,
`Write` or `Close` of one device, or none. It needs `HandInv` (the capacity of an
outbox is the buffer and the one message in hand) and `VisitInv` (no broadcast is
taken twice).

`FriendApply_proofs` proves all invariants, `VerdictsAreFinal` and the refinement:

- `RowInv`: two transactions never hold one application's row, and one whose
  UPDATE hit finds the row pending when it commits. Hence a commit changes a
  status only from pending.
- `KeyInv`: a friend key has one holder and is not in the table yet; every
  conversation was made by an agreement whose keys are in the table; conversations
  of one pair are equal; friends have one; a transaction that agrees finds none.
  The key locks order the two agreements of a pair, so the second one is rolled
  back before it searches for a conversation.
- `StaysRead`: an application that a request read stays in the table, and one
  that an UPDATE missed stays decided. With `RowInv` and `KeyInv` every commit is
  an `Agree` or a `Refuse` of `Friendship` or changes nothing (`FriendshipImplemented`).
- `StoredInv`: what an agreement pushes was committed by it (`AgreementsAreComplete`,
  `ChatPushesAreStored`).
- `QueryInv`: after its first query a request knows that no application in its own
  direction from before it began is pending, after the second one that none is in
  either. Nothing returns to pending, so this still holds at the INSERT, however
  long the request waits (`SequentialApplicationsAreSingle`).

`FriendSync_proofs` proves `SyncedDevicesAreCurrent`. `SyncInv` splits a pull at its
two queries: between them every refusal due is in the first result, shown, or
coming (`PullHasRefusals`); afterwards everything due is shown or coming
(`SyncedHas`). A commit after a query keeps this because it either starts a push
to both users or marks their devices stale.

`FriendList_proofs` proves the other three properties of `FriendSync`:
`SyncTypeCorrect`, `PagingMissesNoFriend` and `RepeatsAreBounded`.

- `RowsInv`: drawn ids are different and below the next one (`NextIdIsNew`), and
  the listed rows are finitely many, each with an id and its keys in `friends`.
- `Places`: in a finite set of rows with different ids the positions are a
  bijection onto 1, 2, ... (a one-to-one map between finite sets of one size), so
  no induction over a sorted list is needed. `ListIs` and `PageIs` conclude what a
  page holds: the rows at its positions.
- `PositionGrows`: a row inserted anywhere moves the others to the same or to a
  later place. Hence `PagingInv`: while there are more pages, every friend of the
  beginning has been received or is in a row that is not passed yet.
- `MissingAreAhead`: the friends that are missing are in different rows of those
  not passed, which bounds their number, and with it the number of repeats.

`ChatStore_proofs` proves all invariants of `ChatStore`. `StoreInv` adds

- `RowIsPlaced`: where a row of a frame went, and that a frame is put into no
  conversation only when its users had none;
- `MarkIsKept`: what a mark that is done counted is below the watermark, unless
  an overlapping mark with an older maximum wrote it since;
- `FrameIsStored`: from its commit on a frame's message is a row, and before it
  the conversation it goes into is that of its two users;
- `NewestExists`: a non-empty conversation has a greatest id. Rows are an
  unbounded set, so this is kept step by step and used instead of induction
  (`Greatest`);
- `WatermarkIsSeen`: a watermark, and one about to be written, is at most an id
  that some mark counted;
- `PagesCover`: whatever there was at the beginning is on a page or older than
  all of them. `LimitIsNewest` and `NoExtraRow` say what a page is.

`Accounts_proofs` proves all properties of `Accounts`. `AccountInv` consists of

- `Labels` and `PriorAnswered`: what a request holds at each point, and that only
  answered requests are in another one's past;
- `WrittenIsNotOutdated`: `OnlyLateUploadsOverwrite` already from the UPDATE of a
  request on, not only from its end. The one step of a request that is in
  another one's past and can still write is the goroutine of an upload, and it
  writes its own image columns (`LateWritesAreUploads`);
- `CodeInv`: stored and presented codes come from sends of the address, and a code
  whose deletion worked is gone for good;
- `LimitInv`: a mail's limit is set or has lapsed, and a send that begins after the
  mail passes the check only after the lapse;
- `MailInv`: the code of a mail is stored, expired, or replaced or used by an
  overlapping request;
- `RegisterInv`: one row for an address, at most one open transaction for it, and
  the password of an account that a registration created is one of a request that
  presented a code.

Lemmas say once what a step of a request leaves alone (`Own`, `Stays`), where it
leads (`Moves`) and what it does to rows and codes (`RowsAct`, `CodeAct`); the
parts of the invariant are proved from these, not from the actions.

Only model-checked: liveness (`QueuedIsWritten`, `GoneIsRemoved`,
`BroadcastReturns`, `RequestsEnd`), because fairness is out of the prover's reach.
Every invariant and action property of the passing runs has a theorem.

## 5. State of the plan

Done: the abstract specifications `DeviceOutbox` and `Friendship` with their
refinements, checked and proved; `ConnPool`, `FriendApply`, `FriendSync`,
`ChatStore`, `Accounts`, with the theorems of section 4.

Left, in this order:

1. A composition of `ChatStore` and the pulls of a device, as `FriendSync` is for
   applications: messages pushed, unread and paged on one device.
2. A restart of the process: connections vanish at once, pushes and goroutines
   are lost, requests end anywhere. `Disconnect`, `lost` and `RequestError` allow
   each of them alone already.

Not modelled and not planned: authentication (stateless tokens), startup and
configuration (sequential), validation, e-mail, image processing and static
files (pure functions or I/O), group chat (no operation exists).

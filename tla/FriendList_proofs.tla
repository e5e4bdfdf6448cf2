-------------------------- MODULE FriendList_proofs --------------------------
(***************************************************************************)
(* Theorems about the friend list of FriendSync, for all users, any number  *)
(* of rows and any page size: what a client that pages by OFFSET through a  *)
(* table that grows above and among its pages has received.                 *)
(***************************************************************************)
EXTENDS FriendSync_proofs, FiniteSetTheorems, FunctionTheorems

-----------------------------------------------------------------------------
(* Rows in the order of their ids. *)

\* The rows of S that ORDER BY id DESC puts no later than a.
UpTo(S, id, a) == {b \in S : id[b] >= id[a]}

\* Counted so, the rows of a finite table with distinct ids have the places
\* 1, 2, ... up to their number, each one once.
LEMMA Places ==
  ASSUME NEW S, IsFiniteSet(S), NEW id, \A a \in S : id[a] \in Nat,
         \A a, b \in S : id[a] = id[b] => a = b
  PROVE  [a \in S |-> Cardinality(UpTo(S, id, a))] \in Bijection(S, 1 .. Cardinality(S))
<1> DEFINE n == Cardinality(S)
           f == [a \in S |-> Cardinality(UpTo(S, id, a))]
<1>1. n \in Nat
  BY FS_CardinalityType
<1>2. ASSUME NEW a \in S
      PROVE  IsFiniteSet(UpTo(S, id, a)) /\ Cardinality(UpTo(S, id, a)) \in 1 .. n
  <2>1. UpTo(S, id, a) \in SUBSET S /\ a \in UpTo(S, id, a)
    BY DEF UpTo
  <2>2. IsFiniteSet(UpTo(S, id, a)) /\ Cardinality(UpTo(S, id, a)) <= n
    BY <2>1, FS_Subset
  <2>3. Cardinality(UpTo(S, id, a)) \in Nat /\ Cardinality(UpTo(S, id, a)) # 0
    BY <2>1, <2>2, FS_CardinalityType, FS_EmptySet
  <2> QED
    BY <1>1, <2>2, <2>3
<1>3. ASSUME NEW a \in S, NEW b \in S, Cardinality(UpTo(S, id, a)) = Cardinality(UpTo(S, id, b)),
             id[a] >= id[b]
      PROVE  a = b
  <2>1. UpTo(S, id, a) \in SUBSET UpTo(S, id, b)
    BY <1>3 DEF UpTo
  <2>2. UpTo(S, id, a) = UpTo(S, id, b)
    BY <1>2, <1>3, <2>1, FS_Subset
  <2>3. id[b] >= id[a]
    BY <2>2 DEF UpTo
  <2> QED
    BY <1>3, <2>3
<1>4. \A a, b \in S : f[a] = f[b] => a = b
  <2> SUFFICES ASSUME NEW a \in S, NEW b \in S, f[a] = f[b] PROVE a = b
    OBVIOUS
  <2>1. id[a] >= id[b] \/ id[b] >= id[a]
    OBVIOUS
  <2> QED
    BY <1>3, <2>1
<1>5. f \in [S -> 1 .. n]
  BY <1>2
<1> HIDE DEF f
<1>6. f \in Injection(S, 1 .. n)
  BY <1>4, <1>5, Fun_IsInj
<1>7. IsFiniteSet(1 .. n) /\ Cardinality(1 .. n) = n
  BY <1>1, FS_Interval
<1>8. f \in Surjection(S, 1 .. n)
  BY <1>6, <1>7, FS_Injection
<1> QED
  BY <1>6, <1>8, Fun_IsBij DEF f

\* LIMIT and OFFSET on a list.
LEMMA LimitIs ==
  ASSUME NEW S, NEW s \in Seq(S), NEW m \in Nat
  PROVE  /\ Limit(s, m) \in Seq(S)
         /\ Len(Limit(s, m)) = IF m <= Len(s) THEN m ELSE Len(s)
         /\ \A i \in 1 .. Len(Limit(s, m)) : Limit(s, m)[i] = s[i]
<1>1. Len(s) \in Nat /\ \A i \in 1 .. Len(s) : s[i] \in S
  OBVIOUS
<1> DEFINE k == IF m <= Len(s) THEN m ELSE Len(s)
<1>2. k \in Nat /\ k \in {m, Len(s)} /\ k <= m /\ k <= Len(s)
  BY <1>1
<1>3. Min({m, Len(s)}) = k
  BY <1>1, <1>2 DEF Min
<1>4. Limit(s, m) = SubSeq(s, 1, k)
  BY <1>3 DEF Limit
<1> HIDE DEF k
<1>5. /\ SubSeq(s, 1, k) \in Seq(S) /\ Len(SubSeq(s, 1, k)) = k
      /\ \A i \in 1 .. k : SubSeq(s, 1, k)[i] = s[i]
  BY <1>1, <1>2, SubSeqProperties
<1> QED
  BY <1>4, <1>5 DEF k

LEMMA OffsetIs ==
  ASSUME NEW S, NEW s \in Seq(S), NEW m \in Nat, m <= Len(s)
  PROVE  /\ Offset(s, m) \in Seq(S) /\ Len(Offset(s, m)) = Len(s) - m
         /\ \A i \in 1 .. Len(s) - m : Offset(s, m)[i] = s[m + i]
<1>1. Len(s) \in Nat /\ \A i \in m + 1 .. Len(s) : s[i] \in S
  OBVIOUS
<1>2. /\ SubSeq(s, m + 1, Len(s)) \in Seq(S)
      /\ Len(SubSeq(s, m + 1, Len(s))) = IF m + 1 <= Len(s) THEN Len(s) - (m + 1) + 1 ELSE 0
      /\ \A i \in 1 .. Len(s) - (m + 1) + 1 : SubSeq(s, m + 1, Len(s))[i] = s[m + 1 + i - 1]
  BY <1>1, SubSeqProperties
<1> QED
  BY <1>1, <1>2 DEF Offset

\* The page of k rows after the first m, cut from one that is a row longer: it
\* is full if the longer one has the row, and the longer one has it exactly if
\* the list goes on.
LEMMA PageOf ==
  ASSUME NEW S, NEW s \in Seq(S), NEW m \in Nat, m <= Len(s), NEW k \in Nat
  PROVE  LET list == Limit(Offset(s, m), k + 1)
         IN /\ Len(list) > k <=> Len(s) - m > k
            /\ Limit(list, k) \in Seq(S)
            /\ Len(Limit(list, k)) = IF Len(s) - m > k THEN k ELSE Len(s) - m
            /\ \A i \in 1 .. Len(Limit(list, k)) : Limit(list, k)[i] = s[m + i]
<1> DEFINE r == Offset(s, m)
           list == Limit(r, k + 1)
           shown == Limit(list, k)
<1>1. Len(s) \in Nat /\ k + 1 \in Nat
  OBVIOUS
<1>2. /\ r \in Seq(S) /\ Len(r) = Len(s) - m
      /\ \A i \in 1 .. Len(s) - m : r[i] = s[m + i]
  BY OffsetIs
<1> HIDE DEF r
<1>3. /\ list \in Seq(S) /\ Len(list) = IF k + 1 <= Len(s) - m THEN k + 1 ELSE Len(s) - m
      /\ \A i \in 1 .. Len(list) : list[i] = r[i]
  BY <1>1, <1>2, LimitIs
<1> HIDE DEF list
<1>4. /\ shown \in Seq(S) /\ Len(shown) = IF k <= Len(list) THEN k ELSE Len(list)
      /\ \A i \in 1 .. Len(shown) : shown[i] = list[i]
  BY <1>3, LimitIs
<1> HIDE DEF shown
<1>5. Len(list) > k <=> Len(s) - m > k
  BY <1>1, <1>3
<1>6. Len(shown) = IF Len(s) - m > k THEN k ELSE Len(s) - m
  BY <1>1, <1>3, <1>4
<1>7. ASSUME NEW i \in 1 .. Len(shown) PROVE shown[i] = s[m + i]
  <2>1. i \in 1 .. Len(list) /\ i \in 1 .. Len(s) - m
    BY <1>1, <1>3, <1>4, <1>6
  <2> QED
    BY <1>2, <1>3, <1>4, <2>1
<1> QED
  BY <1>4, <1>5, <1>6, <1>7 DEF shown, list, r

-----------------------------------------------------------------------------
(* The friend rows: committed rows keep their ids, and a row that is drawn    *)
(* later has a larger id, whatever commits first.                            *)

\* MySQL's auto-increment: an id that is larger than every one drawn so far.
IdsAreDrawn ==
  /\ rowId \in [Apply -> Nat]
  /\ \E k \in {rowId[a] : a \in Apply} \cup {0} : \A a \in Apply : rowId[a] <= k
  /\ \A a, b \in Apply : rowId[a] = rowId[b] /\ rowId[a] > 0 => a = b
  /\ \A q \in Answer : apc[q] = "inserted" => rowId[record[q]] > 0

RowsAreListed ==
  /\ listed \subseteq Apply /\ IsFiniteSet(listed)
  /\ \A a \in listed : rowId[a] > 0 /\ FriendRows(a) \subseteq friend

RowsInv == IdsAreDrawn /\ RowsAreListed

LEMMA NextIdIsNew ==
  ASSUME IdsAreDrawn
  PROVE  /\ NextId \in Nat /\ NextId > 0
         /\ \A a \in Apply : rowId[a] < NextId
<1> DEFINE ids == {rowId[a] : a \in Apply} \cup {0}
<1>1. ids \subseteq Nat /\ \A a \in Apply : rowId[a] \in ids
  BY DEF IdsAreDrawn
<1>2. \E k \in ids : \A x \in ids : k >= x
  BY <1>1 DEF IdsAreDrawn
<1>3. Max(ids) \in ids /\ \A x \in ids : Max(ids) >= x
  BY <1>2 DEF Max
<1>4. NextId = Max(ids) + 1
  BY DEF NextId
<1> HIDE DEF ids
<1>5. Max(ids) \in Nat /\ \A a \in Apply : rowId[a] \in Nat /\ rowId[a] <= Max(ids)
  BY <1>1, <1>3
<1> QED
  BY <1>4, <1>5

\* There are ids for the rows at the beginning, so Init has states.
LEMMA OldRowsHaveIds ==
  \E f \in [Apply -> 0 .. Cardinality(Old)] :
    /\ \A a \in Apply : f[a] = 0 <=> a \notin Old
    /\ \A a, b \in Old : f[a] = f[b] => a = b
<1> DEFINE n == Cardinality(Old)
<1>1. n \in Nat /\ ExistsBijection(1 .. n, Old)
  BY SyncAssumption, FS_CardinalityType
<1>2. PICK g \in Bijection(1 .. n, Old) : TRUE
  BY <1>1, Fun_ExistsBij
<1> HIDE DEF n
<1>3. \A a \in Old : \E i \in 1 .. n : g[i] = a
  <2> DEFINE D == 1 .. n
  <2>1. g \in Bijection(D, Old)
    OBVIOUS
  <2> HIDE DEF D
  <2>2. \A a \in Old : \E i \in D : g[i] = a
    BY <2>1, Fun_BijectionProperties
  <2> QED
    BY <2>2 DEF D
<1> DEFINE h == [a \in Apply |-> IF a \in Old THEN CHOOSE i \in 1 .. n : g[i] = a ELSE 0]
<1>4. ASSUME NEW a \in Old PROVE h[a] \in 1 .. n /\ g[h[a]] = a
  <2>1. h[a] = CHOOSE i \in 1 .. n : g[i] = a
    BY SyncAssumption
  <2> QED
    BY <1>3, <2>1
<1>5. h = [a \in Apply |-> h[a]] /\ \A a \in Apply \ Old : h[a] = 0
  OBVIOUS
<1> HIDE DEF h
<1>6. h \in [Apply -> 0 .. n]
  <2>1. ASSUME NEW a \in Apply PROVE h[a] \in 0 .. n
    BY <1>1, <1>4, <1>5
  <2> QED
    BY <1>5, <2>1
<1>7. \A a \in Apply : h[a] = 0 <=> a \notin Old
  <2>1. ASSUME NEW a \in Old PROVE h[a] # 0
    BY <1>1, <1>4
  <2> QED
    BY <1>5, <2>1
<1>8. \A a, b \in Old : h[a] = h[b] => a = b
  BY <1>4
<1> QED
  BY <1>6, <1>7, <1>8 DEF n

LEMMA RowsInit == Init => RowsInv
<1> SUFFICES ASSUME Init PROVE RowsInv
  OBVIOUS
<1> DEFINE n == Cardinality(Old)
<1>1. n \in Nat /\ Old \subseteq Apply /\ IsFiniteSet(Old)
  BY SyncAssumption, FS_CardinalityType
<1>2. /\ rowId \in [Apply -> 0 .. n]
      /\ \A a \in Apply : rowId[a] = 0 <=> a \notin Old
      /\ \A a, b \in Old : rowId[a] = rowId[b] => a = b
  BY OldRowsHaveIds DEF Init
<1>3. \E k \in {rowId[a] : a \in Apply} \cup {0} : \A a \in Apply : rowId[a] <= k
  <2>1. CASE Old = {}
    BY <1>2, <2>1
  <2>2. CASE Old # {}
    <3> DEFINE f == [a \in Old |-> rowId[a]]
    <3>1. f \in [Old -> 1 .. n] /\ \A a, b \in Old : f[a] = f[b] => a = b
      BY <1>1, <1>2
    <3> HIDE DEF f
    <3>2. f \in Injection(Old, 1 .. n)
      BY <3>1, Fun_IsInj
    <3>3. IsFiniteSet(1 .. n) /\ Cardinality(1 .. n) = n
      BY <1>1, FS_Interval
    <3>4. f \in Surjection(Old, 1 .. n)
      BY <3>2, <3>3, FS_Injection
    <3>5. n \in 1 .. n
      BY <1>1, <2>2, FS_EmptySet
    <3>6. PICK a \in Old : f[a] = n
      BY <3>4, <3>5, Fun_SurjectionProperties
    <3>7. rowId[a] = n /\ a \in Apply
      BY <1>1, <3>6 DEF f
    <3> QED
      BY <1>1, <1>2, <3>7
  <2> QED
    BY <2>1, <2>2
<1>4. listed = Old /\ friend = UNION {FriendRows(a) : a \in Old} /\ \A q \in Answer : apc[q] = "idle"
  BY DEF Init
<1>5. IdsAreDrawn
  BY <1>1, <1>2, <1>3, <1>4 DEF IdsAreDrawn
<1>6. RowsAreListed
  BY <1>1, <1>2, <1>4 DEF RowsAreListed
<1> QED
  BY <1>5, <1>6 DEF RowsInv
\* The rows of the friend list are kept, with their ids.
RowsKept ==
  /\ listed \subseteq listed'
  /\ \A a \in listed : rowId'[a] = rowId[a]

LEMMA RowsUnchanged ==
  ASSUME RowsInv, rows' = rows, friend \subseteq friend',
         \A q \in Answer : apc'[q] = "inserted" => apc[q] = "inserted" /\ record'[q] = record[q]
  PROVE  RowsInv' /\ RowsKept
<1>1. rowId' = rowId /\ listed' = listed
  BY DEF rows
<1> QED
  BY <1>1 DEF RowsInv, IdsAreDrawn, RowsAreListed, RowsKept

\* The id drawn for a row is new, and the row was not in the list.
LEMMA CreateFriendRows ==
  ASSUME SyncTypes, RowsInv, NEW q \in Answer, CreateFriend(q)
  PROVE  RowsInv' /\ RowsKept
<1> DEFINE b == record[q]
<1>1. b \in Apply /\ \A p \in Answer : apc[p] = "inserted" => record[p] \in Apply
  BY DEF SyncTypes, CreateFriend
<1>2. /\ listed' = listed /\ friend' = friend /\ record' = record
      /\ apc' \in [Answer -> {"idle", "checked", "inserted", "done"}]
      /\ \A p \in Answer \ {q} : apc'[p] = apc[p]
  BY DEF CreateFriend, tables, Goto, SyncTypes
<1>3. CASE FriendRows(b) \cap friend # {}
  <2>1. rowId' = rowId /\ apc'[q] = "done"
    BY <1>3 DEF CreateFriend, Goto, SyncTypes
  <2> QED
    BY <1>2, <2>1, RowsUnchanged DEF rows
<1>4. CASE FriendRows(b) \cap friend = {}
  <2>1. rowId' = [rowId EXCEPT ![b] = NextId] /\ rowId \in [Apply -> Nat]
    BY <1>4 DEF CreateFriend, RowsInv, IdsAreDrawn
  <2>2. NextId \in Nat /\ NextId > 0 /\ \A a \in Apply : rowId[a] < NextId
    BY NextIdIsNew DEF RowsInv
  <2>3. b \notin listed
    BY <1>4 DEF RowsInv, RowsAreListed, FriendRows
  <2> DEFINE i == NextId
  <2>4. rowId' \in [Apply -> Nat] /\ rowId'[b] = i /\ \A a \in Apply \ {b} : rowId'[a] = rowId[a]
    BY <1>1, <2>1, <2>2
  <2> HIDE DEF i, b
  <2>5. i \in Nat /\ i > 0 /\ \A a \in Apply : rowId[a] \in Nat /\ rowId[a] < i
    BY <2>1, <2>2 DEF i
  <2>6. \E k \in {rowId'[a] : a \in Apply} \cup {0} : \A a \in Apply : rowId'[a] <= k
    <3>1. i \in {rowId'[a] : a \in Apply}
      BY <1>1, <2>4
    <3>2. \A a \in Apply : rowId'[a] <= i
      BY <2>4, <2>5
    <3> QED
      BY <3>1, <3>2
  <2>7. \A a, c \in Apply : rowId'[a] = rowId'[c] /\ rowId'[a] > 0 => a = c
    <3>1. \A a, c \in Apply : rowId[a] = rowId[c] /\ rowId[a] > 0 => a = c
      BY DEF RowsInv, IdsAreDrawn
    <3> QED
      BY <2>4, <2>5, <3>1
  <2>8. \A p \in Answer : apc'[p] = "inserted" => rowId'[record'[p]] > 0
    <3> SUFFICES ASSUME NEW p \in Answer, apc'[p] = "inserted" PROVE rowId'[record[p]] > 0
      BY <1>2
    <3>1. CASE record[p] = b
      BY <2>4, <2>5, <3>1
    <3>2. CASE record[p] # b
      <4>1. p # q
        BY <3>2 DEF b
      <4>2. apc[p] = "inserted" /\ record[p] \in Apply
        BY <1>1, <1>2, <4>1
      <4>3. rowId[record[p]] > 0
        BY <4>2 DEF RowsInv, IdsAreDrawn
      <4> QED
        BY <2>4, <3>2, <4>2, <4>3
    <3> QED
      BY <3>1, <3>2
  <2>9. \A a \in listed : a \in Apply /\ rowId'[a] = rowId[a]
    BY <2>3, <2>4 DEF RowsInv, RowsAreListed
  <2>10. IdsAreDrawn'
    BY <2>4, <2>6, <2>7, <2>8 DEF IdsAreDrawn
  <2>11. RowsAreListed' /\ RowsKept
    BY <1>2, <2>9 DEF RowsInv, RowsAreListed, RowsKept
  <2> QED
    BY <2>10, <2>11 DEF RowsInv
<1> QED
  BY <1>3, <1>4

\* A commit lists a row that has an id, if it inserted one.
LEMMA UpdateCommitRows ==
  ASSUME SyncTypes, RowsInv, NEW q \in Answer, UpdateCommit(q)
  PROVE  RowsInv' /\ RowsKept
<1>1. /\ rowId' = rowId /\ record' = record
      /\ \A p \in Answer : apc'[p] = "inserted" => apc[p] = "inserted"
  BY DEF UpdateCommit, Goto, SyncTypes
<1>2. CASE apc[q] = "inserted" /\ Agree(record[q]) /\ listed' = listed \cup {record[q]}
  <2>1. /\ record[q] \in Apply /\ rowId[record[q]] > 0
        /\ friend' = friend \cup FriendRows(record[q])
    BY <1>2 DEF SyncTypes, RowsInv, IdsAreDrawn, Agree
  <2>2. IsFiniteSet(listed')
    BY <1>2, FS_AddElement DEF RowsInv, RowsAreListed
  <2>3. \A a \in listed' : rowId'[a] > 0 /\ FriendRows(a) \subseteq friend'
    BY <1>1, <1>2, <2>1 DEF RowsInv, RowsAreListed
  <2>4. RowsAreListed' /\ RowsKept
    BY <1>1, <1>2, <2>1, <2>2, <2>3 DEF RowsInv, RowsAreListed, RowsKept, FriendRows
  <2>5. IdsAreDrawn'
    BY <1>1 DEF RowsInv, IdsAreDrawn
  <2> QED
    BY <2>4, <2>5 DEF RowsInv
<1>3. CASE UNCHANGED listed /\ (Refuse(record[q]) \/ UNCHANGED tables)
  <2>1. rows' = rows /\ friend' = friend
    BY <1>1, <1>3 DEF rows, Refuse, tables
  <2> QED
    BY <1>1, <2>1, RowsUnchanged
<1> QED
  BY <1>2, <1>3 DEF UpdateCommit

LEMMA RowsStep ==
  ASSUME SyncTypes, RowsInv, [Next]_vars
  PROVE  RowsInv' /\ RowsKept
<1>1. ASSUME NEW q \in Answer, CreateFriend(q) \/ UpdateCommit(q)
      PROVE  RowsInv' /\ RowsKept
  BY <1>1, CreateFriendRows, UpdateCommitRows
<1>2. ASSUME NEW q \in Answer, UpdateCheck(q) \/ UpdateFails(q)
      PROVE  RowsInv' /\ RowsKept
  <2>1. /\ rows' = rows /\ friend' = friend
        /\ \A p \in Answer : apc'[p] = "inserted" => p # q
        /\ \A p \in Answer \ {q} : apc'[p] = apc[p] /\ record'[p] = record[p]
    BY <1>2 DEF UpdateCheck, UpdateFails, Goto, SyncTypes, tables
  <2> QED
    BY <2>1, RowsUnchanged
<1>3. ASSUME UNCHANGED <<rows, answers, friend>>
      PROVE  RowsInv' /\ RowsKept
  BY <1>3, RowsUnchanged DEF answers
<1>4. ASSUME NEW a \in Apply, AddFriend(a)
      PROVE  UNCHANGED <<rows, answers, friend>>
  BY <1>4 DEF AddFriend, Submit
<1>5. ASSUME NEW j \in jobs, Push(j)
      PROVE  UNCHANGED <<rows, answers, friend>>
  BY <1>5 DEF Push, tables
<1>6. ASSUME NEW d \in Device,
             \/ Connect(d) \/ GetUnReadApplyByUid(d) \/ GetPendingApplyByUid(d)
             \/ PullFails(d) \/ Disconnect(d)
             \/ \E a \in Apply : MarkFriendApplyRead(d, a)
      PROVE  UNCHANGED <<rows, answers, friend>>
  BY <1>6 DEF Connect, GetUnReadApplyByUid, GetPendingApplyByUid, PullFails, Disconnect,
              MarkFriendApplyRead, MarkRead, tables
<1>7. ASSUME PullFriends \/ UNCHANGED vars
      PROVE  UNCHANGED <<rows, answers, friend>>
  BY <1>7 DEF PullFriends, vars, tables
<1> QED
  BY <1>1, <1>2, <1>3, <1>4, <1>5, <1>6, <1>7 DEF Next
-----------------------------------------------------------------------------
(* The list and its pages. *)

LEMMA PositionIs ==
  ASSUME NEW a \in FriendIds
  PROVE  Position(a) = Cardinality(UpTo(FriendIds, rowId, a))
BY DEF Position, UpTo

\* The list has every friend row at its position.
LEMMA ListIs ==
  ASSUME RowsInv
  PROVE  /\ FriendIds \subseteq Apply /\ IsFiniteSet(FriendIds) /\ Cardinality(FriendIds) \in Nat
         /\ FriendList \in Seq(FriendIds) /\ Len(FriendList) = Cardinality(FriendIds)
         /\ \A a \in FriendIds : /\ Position(a) \in 1 .. Cardinality(FriendIds)
                                 /\ FriendList[Position(a)] = a
         /\ \A a, b \in FriendIds : Position(a) = Position(b) => a = b
<1> DEFINE S == FriendIds
           n == Cardinality(FriendIds)
           f == [a \in S |-> Cardinality(UpTo(S, rowId, a))]
<1>1. S \in SUBSET listed /\ IsFiniteSet(listed) /\ listed \subseteq Apply
  BY DEF FriendIds, RowsInv, RowsAreListed
<1>2. IsFiniteSet(S) /\ n \in Nat
  BY <1>1, FS_Subset, FS_CardinalityType
<1>3. \A a \in S : rowId[a] \in Nat
  BY <1>1 DEF RowsInv, IdsAreDrawn
<1>4. \A a, b \in S : rowId[a] = rowId[b] => a = b
  BY <1>1 DEF RowsInv, IdsAreDrawn, RowsAreListed
<1>5. f \in Bijection(S, 1 .. n)
  BY <1>2, <1>3, <1>4, Places
<1>6. \A a \in S : f[a] = Position(a)
  BY PositionIs
<1> DEFINE D == 1 .. n
<1> HIDE DEF f
<1>7. /\ f \in [S -> D] /\ \A a, b \in S : f[a] = f[b] => a = b
      /\ \A i \in D : \E a \in S : f[a] = i
  <2>1. f \in Bijection(S, D)
    BY <1>5
  <2> HIDE DEF D
  <2> QED
    BY <2>1, Fun_BijectionProperties
<1>8. \A a \in S : Position(a) \in D
  BY <1>6, <1>7
<1>9. \A a, b \in S : Position(a) = Position(b) => a = b
  BY <1>6, <1>7
<1>10. ASSUME NEW i \in D
       PROVE  /\ (CHOOSE a \in S : Position(a) = i) \in S
              /\ Position(CHOOSE a \in S : Position(a) = i) = i
  BY <1>6, <1>7
<1>11. FriendList = [i \in D |-> CHOOSE a \in S : Position(a) = i]
  BY DEF FriendList
<1>12. FriendList \in [D -> S]
  BY <1>10, <1>11
<1>13. FriendList \in Seq(S) /\ Len(FriendList) = n
  BY <1>2, <1>12
<1>14. ASSUME NEW a \in S
       PROVE  FriendList[Position(a)] = a
  <2> DEFINE b == CHOOSE b \in S : Position(b) = Position(a)
  <2>1. b \in S /\ Position(b) = Position(a)
    BY <1>8, <1>10
  <2>2. FriendList[Position(a)] = b
    BY <1>8, <1>11
  <2> QED
    BY <1>9, <2>1, <2>2
<1> QED
  BY <1>1, <1>2, <1>8, <1>9, <1>13, <1>14

\* The page after the first m rows: at most PageSize rows are received, and one
\* more is there exactly if the list goes on.
LEMMA PageIs ==
  ASSUME RowsInv, NEW m \in Nat, m <= Cardinality(FriendIds)
  PROVE  LET list == Limit(Offset(FriendList, m), PageSize + 1)
             rest == Cardinality(FriendIds) - m
         IN /\ Len(list) > PageSize <=> rest > PageSize
            /\ Received(list) \in Seq(Uid)
            /\ Len(Received(list)) = IF rest > PageSize THEN PageSize ELSE rest
            /\ \A a \in FriendIds : m < Position(a) /\ Position(a) <= m + PageSize =>
                 \E i \in DOMAIN Received(list) : Received(list)[i] = FriendUid(a)
<1> DEFINE n == Cardinality(FriendIds)
           list == Limit(Offset(FriendList, m), PageSize + 1)
           shown == Limit(list, PageSize)
<1>2. n \in Nat /\ m <= n /\ PageSize \in Nat /\ From \in [Apply -> Uid] /\ To \in [Apply -> Uid]
  BY ListIs, SyncAssumption
<1>3. FriendList \in Seq(FriendIds) /\ Len(FriendList) = n /\ FriendIds \subseteq Apply
  BY ListIs
<1> HIDE DEF n
<1>4. /\ Len(list) > PageSize <=> n - m > PageSize
      /\ shown \in Seq(FriendIds)
      /\ Len(shown) = IF n - m > PageSize THEN PageSize ELSE n - m
      /\ \A i \in 1 .. Len(shown) : shown[i] = FriendList[m + i]
  <2>1. m <= Len(FriendList)
    BY <1>2, <1>3
  <2>2. /\ Len(list) > PageSize <=> Len(FriendList) - m > PageSize
        /\ shown \in Seq(FriendIds)
        /\ Len(shown) = IF Len(FriendList) - m > PageSize THEN PageSize ELSE Len(FriendList) - m
        /\ \A i \in 1 .. Len(shown) : shown[i] = FriendList[m + i]
    BY <1>2, <1>3, <2>1, PageOf, Zenon
  <2> QED
    BY <1>3, <2>2
<1>5. Received(list) = [i \in 1 .. Len(shown) |-> FriendUid(shown[i])]
  BY DEF Received
<1> HIDE DEF list, shown
<1>6. Len(shown) \in Nat /\ \A i \in 1 .. Len(shown) : FriendUid(shown[i]) \in Uid
  BY <1>2, <1>3, <1>4 DEF FriendUid
<1>7. /\ Received(list) \in Seq(Uid) /\ Len(Received(list)) = Len(shown)
      /\ DOMAIN Received(list) = 1 .. Len(shown)
  <2>1. Received(list) \in [1 .. Len(shown) -> Uid]
    BY <1>5, <1>6
  <2> QED
    BY <1>6, <2>1
<1>8. ASSUME NEW a \in FriendIds, m < Position(a), Position(a) <= m + PageSize
      PROVE  \E i \in DOMAIN Received(list) : Received(list)[i] = FriendUid(a)
  <2> DEFINE i == Position(a) - m
  <2>1. Position(a) \in 1 .. n /\ FriendList[Position(a)] = a
    BY ListIs DEF n
  <2>2. i \in 1 .. Len(shown) /\ m + i = Position(a)
    BY <1>2, <1>4, <1>8, <2>1
  <2> HIDE DEF i
  <2>3. shown[i] = a
    BY <1>4, <2>1, <2>2
  <2> QED
    BY <1>5, <1>7, <2>2, <2>3
<1> QED
  BY <1>4, <1>7, <1>8 DEF n, list

\* Rows move down the list, never up, as others are committed.
LEMMA PositionGrows ==
  ASSUME RowsInv, RowsInv', RowsKept
  PROVE  /\ FriendIds \subseteq FriendIds'
         /\ Cardinality(FriendIds) <= Cardinality(FriendIds')
         /\ Cardinality(FriendIds') \in Nat
         /\ \A a \in FriendIds : Position(a)' \in Nat /\ Position(a) <= Position(a)'
<1>1. FriendIds \subseteq FriendIds' /\ \A a \in FriendIds : rowId'[a] = rowId[a]
  BY DEF RowsKept, FriendIds
<1>2. IsFiniteSet(FriendIds)'
  <2>1. FriendIds' \in SUBSET listed' /\ IsFiniteSet(listed')
    BY DEF FriendIds, RowsInv, RowsAreListed
  <2> QED
    BY <2>1, FS_Subset
<1>3. Cardinality(FriendIds) <= Cardinality(FriendIds') /\ Cardinality(FriendIds') \in Nat
  BY <1>1, <1>2, FS_Subset, FS_CardinalityType
<1>4. ASSUME NEW a \in FriendIds
      PROVE  Position(a)' \in Nat /\ Position(a) <= Position(a)'
  <2> DEFINE S == UpTo(FriendIds, rowId, a)
             T == {b \in FriendIds' : rowId'[b] >= rowId'[a]}
  <2>1. S \in SUBSET T
    BY <1>1 DEF UpTo
  <2>2. T \in SUBSET FriendIds'
    OBVIOUS
  <2>3. IsFiniteSet(T)
    BY <1>2, <2>2, FS_Subset
  <2>4. Cardinality(S) <= Cardinality(T) /\ Cardinality(T) \in Nat
    BY <2>1, <2>3, FS_Subset, FS_CardinalityType
  <2>5. Position(a)' = Cardinality(T)
    BY DEF Position
  <2> QED
    BY <2>4, <2>5, PositionIs
<1> QED
  BY <1>1, <1>3, <1>4
-----------------------------------------------------------------------------
(* Paging. *)

\* The rows that the pages received so far have passed.
Passed == (page - 1) * PageSize

\* A friend whom the client had not yet received when it asked for more is in a
\* row below the ones it has passed.
Ahead(u) == \E a \in FriendIds : FriendUid(a) = u /\ Position(a) > Passed

PagingInv ==
  /\ page \in Nat \ {0} /\ more \in BOOLEAN /\ had \subseteq Uid /\ got \in Seq(Uid)
  /\ more => /\ Len(got) = Passed /\ Passed <= Cardinality(FriendIds)
             /\ \A u \in had : u \in ToSet(got) \/ Ahead(u)
  /\ ~more => Len(got) <= Cardinality(FriendIds) /\ had \subseteq ToSet(got)

LEMMA PassedIs ==
  ASSUME NEW p \in Nat \ {0}
  PROVE  (p - 1) * PageSize \in Nat /\ ((p + 1) - 1) * PageSize = (p - 1) * PageSize + PageSize
<1>1. PageSize \in Nat /\ p - 1 \in Nat
  BY SyncAssumption
<1>2. (p + 1) - 1 = (p - 1) + 1
  OBVIOUS
<1>3. \A i, k \in Nat : i * k \in Nat /\ (i + 1) * k = i * k + k
  OBVIOUS
<1> QED
  BY <1>1, <1>2, <1>3

LEMMA PagingInit == Init => PagingInv
<1> SUFFICES ASSUME Init PROVE PagingInv
  OBVIOUS
<1>1. page = 1 /\ had = {} /\ got = <<>> /\ more = TRUE
  BY DEF Init
<1>2. Passed = 0
  BY <1>1, SyncAssumption DEF Passed
<1>3. Cardinality(FriendIds) \in Nat
  BY RowsInit, ListIs
<1> QED
  BY <1>1, <1>2, <1>3 DEF PagingInv

\* Rows that are committed meanwhile move what is ahead further down.
LEMMA PagingKept ==
  ASSUME RowsInv, RowsInv', RowsKept, PagingInv, UNCHANGED pages
  PROVE  PagingInv'
<1>1. page' = page /\ had' = had /\ got' = got /\ more' = more
  BY DEF pages
<1>2. Passed' = Passed /\ Passed \in Nat
  BY <1>1, PassedIs DEF Passed, PagingInv
<1>3. /\ FriendIds \subseteq FriendIds' /\ Cardinality(FriendIds) <= Cardinality(FriendIds')
      /\ Cardinality(FriendIds) \in Nat /\ Cardinality(FriendIds') \in Nat
      /\ \A a \in FriendIds :
           Position(a) \in Nat /\ Position(a)' \in Nat /\ Position(a) <= Position(a)'
  BY ListIs, PositionGrows
<1>4. ASSUME NEW u, Ahead(u) PROVE Ahead(u)'
  BY <1>2, <1>3, <1>4 DEF Ahead
<1>5. got \in Seq(Uid) /\ Len(got) \in Nat
  BY DEF PagingInv
<1> QED
  BY <1>1, <1>2, <1>3, <1>4, <1>5 DEF PagingInv

LEMMA PullFriendsStep ==
  ASSUME RowsInv, PagingInv, PullFriends
  PROVE  PagingInv'
<1> DEFINE m == Passed
           n == Cardinality(FriendIds)
           list == PullFriendsByUid(page)
           new == Received(list)
<1>1. /\ more /\ page' = page + 1 /\ got' = got \o new /\ more' = (Len(list) > PageSize)
      /\ had' = IF page = 1 THEN {FriendUid(a) : a \in FriendIds} ELSE had
      /\ rowId' = rowId /\ listed' = listed
  BY DEF PullFriends, rows
<1>2. FriendIds' = FriendIds /\ \A a : Position(a)' = Position(a)
  BY <1>1 DEF FriendIds, Position
<1>3. /\ page \in Nat \ {0} /\ had \subseteq Uid /\ got \in Seq(Uid) /\ Len(got) = m /\ m <= n
      /\ \A u \in had : u \in ToSet(got) \/ \E a \in FriendIds : FriendUid(a) = u /\ Position(a) > m
  BY <1>1 DEF PagingInv, Ahead
<1>4. /\ PageSize \in Nat /\ PageSize > 0 /\ From \in [Apply -> Uid] /\ To \in [Apply -> Uid]
      /\ m \in Nat /\ Passed' = m + PageSize /\ (page = 1 => m = 0)
  <2>1. Passed' = ((page + 1) - 1) * PageSize /\ m = (page - 1) * PageSize
    BY <1>1 DEF Passed
  <2>2. \A k \in Nat : 0 * k = 0
    OBVIOUS
  <2> QED
    BY <1>3, <2>1, <2>2, PassedIs, SyncAssumption
<1>5. /\ n \in Nat /\ FriendIds \subseteq Apply
      /\ \A a \in FriendIds : Position(a) \in 1 .. n
  BY ListIs
<1>6. list = Limit(Offset(FriendList, m), PageSize + 1)
  BY DEF PullFriendsByUid, Passed
<1>7. /\ Len(list) > PageSize <=> n - m > PageSize
      /\ new \in Seq(Uid)
      /\ Len(new) = IF n - m > PageSize THEN PageSize ELSE n - m
      /\ \A a \in FriendIds : m < Position(a) /\ Position(a) <= m + PageSize =>
           \E i \in DOMAIN new : new[i] = FriendUid(a)
  BY <1>3, <1>4, <1>6, PageIs
<1> HIDE DEF m, n, list, new
<1>8. /\ got' \in Seq(Uid) /\ Len(got') = Len(got) + Len(new)
      /\ ToSet(got) \subseteq ToSet(got')
      /\ \A i \in DOMAIN new : new[i] \in ToSet(got')
  <2>1. /\ got' \in Seq(Uid) /\ Len(got') = Len(got) + Len(new)
        /\ \A i \in 1 .. Len(got) + Len(new) :
             got'[i] = IF i <= Len(got) THEN got[i] ELSE new[i - Len(got)]
    BY <1>1, <1>3, <1>7, ConcatProperties
  <2>2. Len(got) \in Nat /\ Len(new) \in Nat /\ DOMAIN got' = 1 .. Len(got) + Len(new)
    BY <1>3, <1>7, <2>1
  <2>3. ASSUME NEW i \in DOMAIN got PROVE i \in DOMAIN got' /\ got'[i] = got[i]
    BY <1>3, <2>1, <2>2
  <2>4. ASSUME NEW i \in DOMAIN new
        PROVE  m + i \in DOMAIN got' /\ got'[m + i] = new[i]
    BY <1>3, <1>7, <2>1, <2>2
  <2> QED
    BY <2>1, <2>3, <2>4 DEF ToSet
<1>9. had' \subseteq Uid
  BY <1>1, <1>3, <1>4, <1>5 DEF FriendUid
<1>10. \A u \in had' : \/ u \in ToSet(got)
                       \/ \E a \in FriendIds : FriendUid(a) = u /\ Position(a) > m
  <2>1. CASE page = 1
    BY <1>1, <1>4, <1>5, <2>1
  <2>2. CASE page # 1
    BY <1>1, <1>3, <2>2
  <2> QED
    BY <2>1, <2>2
<1>11. \A u \in had' : \/ u \in ToSet(got')
                       \/ /\ n - m > PageSize
                          /\ \E a \in FriendIds : FriendUid(a) = u /\ Position(a) > m + PageSize
  <2> SUFFICES ASSUME NEW u \in had', u \notin ToSet(got)
               PROVE  \/ u \in ToSet(got')
                      \/ /\ n - m > PageSize
                         /\ \E a \in FriendIds : FriendUid(a) = u /\ Position(a) > m + PageSize
    BY <1>8
  <2>1. PICK a \in FriendIds : FriendUid(a) = u /\ Position(a) > m
    BY <1>10
  <2>2. Position(a) \in 1 .. n
    BY <1>5
  <2>3. CASE Position(a) <= m + PageSize
    BY <1>4, <1>7, <1>8, <2>1, <2>2, <2>3
  <2>4. CASE Position(a) > m + PageSize
    BY <1>4, <1>5, <2>1, <2>2, <2>4
  <2> QED
    BY <1>4, <2>2, <2>3, <2>4
<1>12. more' \in BOOLEAN /\ (more' <=> n - m > PageSize)
  <2>1. (Len(list) > PageSize) \in BOOLEAN
    OBVIOUS
  <2>2. more' \in BOOLEAN
    BY <1>1, <2>1
  <2>3. more' <=> Len(list) > PageSize
    BY <1>1
  <2> QED
    BY <1>7, <2>2, <2>3
<1>13. page' \in Nat \ {0}
  BY <1>1, <1>3
<1>14. Cardinality(FriendIds)' = n
  BY <1>2 DEF n
<1>15. ASSUME more'
       PROVE  /\ Len(got') = Passed' /\ Passed' <= n
              /\ \A u \in had' : u \in ToSet(got') \/ Ahead(u)'
  BY <1>2, <1>3, <1>4, <1>5, <1>7, <1>8, <1>11, <1>12, <1>15 DEF Ahead
<1>16. ASSUME ~more'
       PROVE  Len(got') <= n /\ had' \subseteq ToSet(got')
  BY <1>3, <1>4, <1>5, <1>7, <1>8, <1>11, <1>12, <1>16
<1> QED
  BY <1>8, <1>9, <1>12, <1>13, <1>14, <1>15, <1>16 DEF PagingInv
LEMMA PagingStep ==
  ASSUME RowsInv, RowsInv', RowsKept, PagingInv, [Next]_vars
  PROVE  PagingInv'
<1>1. CASE PullFriends
  BY <1>1, PullFriendsStep
<1>2. CASE UNCHANGED pages
  BY <1>2, PagingKept
<1>3. ASSUME ~PullFriends
      PROVE  UNCHANGED pages
  BY <1>3 DEF Next, vars, AddFriend, UpdateCheck, CreateFriend, UpdateCommit, UpdateFails, Push,
              Connect, GetUnReadApplyByUid, GetPendingApplyByUid, PullFails, Disconnect,
              MarkFriendApplyRead
<1> QED
  BY <1>1, <1>2, <1>3

-----------------------------------------------------------------------------
(* The types that the pages and the pushes do not need. *)

Recipients == {<<u>> : u \in Uid} \cup Uid \X Uid

TableTypes ==
  /\ applyRead \subseteq Apply /\ friend \subseteq Uid \X Uid
  /\ jobs \subseteq [apply : Apply, verdict : Verdict, to : Recipients]

LEMMA RecipientsAre ==
  /\ \A u, v \in Uid : <<u, v>> \in Recipients /\ Len(<<u, v>>) # 1 /\ Tail(<<u, v>>) = <<v>>
  /\ \A u \in Uid : <<u>> \in Recipients /\ Len(<<u>>) = 1
  /\ \A t \in Recipients : (\E u \in Uid : t = <<u>>) \/ \E u, v \in Uid : t = <<u, v>>
BY DEF Recipients

LEMMA TableTypesInit == Init => TableTypes
<1> SUFFICES ASSUME Init PROVE TableTypes
  OBVIOUS
<1>1. \A a \in Old : FriendRows(a) \subseteq Uid \X Uid
  BY SyncAssumption DEF FriendRows
<1> QED
  BY <1>1, SyncAssumption DEF Init, TableTypes

LEMMA TableTypesStep ==
  ASSUME SyncTypes, TableTypes, [Next]_vars
  PROVE  TableTypes'
<1> USE SyncAssumption
<1>1. ASSUME NEW b \in Apply, NEW v \in Verdict, NEW to \in Recipients, Announce(b, v, to)
      PROVE  jobs' \subseteq [apply : Apply, verdict : Verdict, to : Recipients]
  BY <1>1 DEF Announce, TableTypes
<1>2. \A b \in Apply : FriendRows(b) \subseteq Uid \X Uid /\ From[b] \in Uid /\ To[b] \in Uid
  BY DEF FriendRows
<1>3. ASSUME NEW a \in Apply, AddFriend(a)
      PROVE  TableTypes'
  <2>1. Announce(a, "pending", <<To[a], From[a]>>) /\ applyRead' = applyRead /\ friend' = friend
    BY <1>3 DEF AddFriend, Submit
  <2>2. "pending" \in Verdict /\ <<To[a], From[a]>> \in Recipients
    BY <1>2, RecipientsAre DEF Verdict
  <2>3. jobs' \subseteq [apply : Apply, verdict : Verdict, to : Recipients]
    BY <1>1, <2>1, <2>2
  <2> QED
    BY <2>1, <2>3 DEF TableTypes
<1>4. ASSUME NEW q \in Answer, UpdateCommit(q)
      PROVE  TableTypes'
  <2> DEFINE b == record[q]
  <2>1. b \in Apply /\ verdict[q] \in Verdict
    BY <1>4 DEF UpdateCommit, SyncTypes, Verdict
  <2>2. Announce(b, verdict[q], <<From[b], To[b]>>)
    BY <1>4 DEF UpdateCommit
  <2>3. \/ applyRead' = applyRead \cup {b} /\ friend' = friend \cup FriendRows(b)
        \/ applyRead' = applyRead /\ friend' = friend
    BY <1>4 DEF UpdateCommit, Agree, Refuse, tables
  <2> HIDE DEF b
  <2>4. <<From[b], To[b]>> \in Recipients
    BY <1>2, <2>1, RecipientsAre
  <2>5. jobs' \subseteq [apply : Apply, verdict : Verdict, to : Recipients]
    BY <1>1, <2>1, <2>2, <2>4
  <2> QED
    BY <1>2, <2>1, <2>3, <2>5 DEF TableTypes
<1>5. ASSUME NEW j \in jobs, Push(j)
      PROVE  TableTypes'
  <2>1. /\ applyRead' = applyRead /\ friend' = friend
        /\ jobs' = (jobs \ {j}) \cup (IF Len(j.to) = 1 THEN {} ELSE {[j EXCEPT !.to = Tail(@)]})
    BY <1>5 DEF Push, tables
  <2>2. j \in [apply : Apply, verdict : Verdict, to : Recipients]
    BY DEF TableTypes
  <2>3. Len(j.to) # 1 => Tail(j.to) \in Recipients
    <3>1. ASSUME NEW t \in Recipients, Len(t) # 1 PROVE Tail(t) \in Recipients
      <4>1. PICK u, v \in Uid : t = <<u, v>>
        BY <3>1, RecipientsAre
      <4>2. Tail(<<u, v>>) = <<v>> /\ <<v>> \in Recipients
        BY RecipientsAre
      <4> QED
        BY <4>1, <4>2, Zenon
    <3> QED
      BY <2>2, <3>1
  <2> QED
    BY <2>1, <2>2, <2>3 DEF TableTypes
<1>6. ASSUME NEW d \in Device, NEW a \in Apply, MarkFriendApplyRead(d, a)
      PROVE  TableTypes'
  BY <1>6 DEF MarkFriendApplyRead, MarkRead, TableTypes
<1>7. ASSUME UNCHANGED <<tables, jobs>>
      PROVE  TableTypes'
  BY <1>7 DEF tables, TableTypes
<1>8. ASSUME NEW q \in Answer, UpdateCheck(q) \/ CreateFriend(q) \/ UpdateFails(q)
      PROVE  UNCHANGED <<tables, jobs>>
  BY <1>8 DEF UpdateCheck, CreateFriend, UpdateFails
<1>9. ASSUME NEW d \in Device,
             \/ Connect(d) \/ GetUnReadApplyByUid(d) \/ GetPendingApplyByUid(d)
             \/ PullFails(d) \/ Disconnect(d)
      PROVE  UNCHANGED <<tables, jobs>>
  BY <1>9 DEF Connect, GetUnReadApplyByUid, GetPendingApplyByUid, PullFails, Disconnect
<1>10. ASSUME PullFriends \/ UNCHANGED vars
       PROVE  UNCHANGED <<tables, jobs>>
  BY <1>10 DEF PullFriends, vars
<1> QED
  BY <1>3, <1>4, <1>5, <1>6, <1>7, <1>8, <1>9, <1>10 DEF Next

-----------------------------------------------------------------------------
(* Theorems. *)

ListInv == SyncInv /\ RowsInv /\ PagingInv /\ TableTypes

LEMMA ListInvariant == Spec => []ListInv
<1>1. Init => ListInv
  BY SyncInit, RowsInit, PagingInit, TableTypesInit DEF ListInv
<1>2. ListInv /\ [Next]_vars => ListInv'
  BY SyncStep, RowsStep, PagingStep, TableTypesStep DEF ListInv, SyncInv
<1> QED
  BY <1>1, <1>2, PTL DEF Spec

\* Every variable of FriendSync keeps its type.
THEOREM SyncTypeCorrect == Spec => []TypeOK
<1>1. ListInv => TypeOK
  <2> SUFFICES ASSUME ListInv PROVE TypeOK
    OBVIOUS
  <2>1. \A q \in Answer : verdict[q] = None \/ verdict[q] \in {"agreed", "refused"}
    BY DEF ListInv, SyncInv, SyncTypes
  <2>2. \A i \in DOMAIN got : got[i] \in Uid
    BY DEF ListInv, PagingInv
  <2> QED
    BY <2>1, <2>2 DEF ListInv, SyncInv, SyncTypes, RowsInv, IdsAreDrawn, RowsAreListed, PagingInv,
                      TableTypes, Recipients, TypeOK
<1> QED
  BY <1>1, ListInvariant, PTL

\* Whatever agreements commit while a client pages, and in whatever order their
\* ids were drawn: at the end it has every friend there was at the beginning.
THEOREM PagingMissesNoFriend == Spec => []FriendsListed
<1>1. ListInv => FriendsListed
  BY DEF ListInv, PagingInv, FriendsListed
<1> QED
  BY <1>1, ListInvariant, PTL

\* The friends of the beginning that were not received are in different rows of
\* those that are not passed.
LEMMA MissingAreAhead ==
  ASSUME RowsInv, PagingInv, more
  PROVE  /\ IsFiniteSet(had \ ToSet(got))
         /\ Cardinality(had \ ToSet(got)) <= Cardinality(FriendIds) - Passed
<1> DEFINE n == Cardinality(FriendIds)
           M == had \ ToSet(got)
           row(u) == CHOOSE a \in FriendIds : FriendUid(a) = u /\ Position(a) > Passed
           f == [u \in M |-> Position(row(u))]
<1>1. n \in Nat /\ Passed \in Nat /\ Passed <= n
  BY ListIs, PassedIs DEF PagingInv, Passed
<1>2. /\ \A a \in FriendIds : Position(a) \in 1 .. n
      /\ \A a, b \in FriendIds : Position(a) = Position(b) => a = b
  BY ListIs
<1>3. ASSUME NEW u \in M
      PROVE  row(u) \in FriendIds /\ FriendUid(row(u)) = u /\ Position(row(u)) > Passed
  BY DEF PagingInv, Ahead
<1> HIDE DEF row, n
<1>4. f \in [M -> Passed + 1 .. n]
  BY <1>1, <1>2, <1>3
<1>5. \A u, v \in M : f[u] = f[v] => u = v
  BY <1>2, <1>3
<1> HIDE DEF f, M
<1>6. f \in Injection(M, Passed + 1 .. n)
  BY <1>4, <1>5, Fun_IsInj
<1>7. IsFiniteSet(Passed + 1 .. n) /\ Cardinality(Passed + 1 .. n) = n - Passed
  <2>1. Passed + 1 \in Int /\ n \in Int
    BY <1>1
  <2>2. /\ IsFiniteSet(Passed + 1 .. n)
        /\ Cardinality(Passed + 1 .. n) = IF Passed + 1 > n THEN 0 ELSE n - (Passed + 1) + 1
    BY <2>1, FS_Interval
  <2> QED
    BY <1>1, <2>2
<1> QED
  BY <1>6, <1>7, FS_Injection DEF M, n

LEMMA ReceivedAreFinite ==
  ASSUME NEW s \in Seq(Uid)
  PROVE  IsFiniteSet(ToSet(s)) /\ Cardinality(ToSet(s)) \in Nat
<1>1. Len(s) \in Nat /\ s \in [1 .. Len(s) -> Uid] /\ DOMAIN s = 1 .. Len(s)
  OBVIOUS
<1> DEFINE D == 1 .. Len(s)
<1>2. IsFiniteSet(D)
  BY <1>1, FS_Interval
<1>3. s \in [D -> ToSet(s)] /\ \A u \in ToSet(s) : \E i \in D : s[i] = u
  BY <1>1 DEF ToSet
<1> HIDE DEF D
<1>4. s \in Surjection(D, ToSet(s))
  BY <1>3, Fun_IsSurj
<1> QED
  BY <1>2, <1>4, FS_Surjection, FS_CardinalityType

\* A client receives a friend again at most as often as rows were added since it
\* began to page, whatever the page size.
THEOREM RepeatsAreBounded == Spec => []RepeatsOnlyByGrowth
<1>1. ListInv => RepeatsOnlyByGrowth
  <2> SUFFICES ASSUME RowsInv, PagingInv PROVE RepeatsOnlyByGrowth
    BY DEF ListInv
  <2> DEFINE n == Cardinality(FriendIds)
             G == ToSet(got)
             M == had \ G
  <2>1. n \in Nat /\ Len(got) \in Nat /\ more \in BOOLEAN
    BY ListIs DEF PagingInv
  <2>2. IsFiniteSet(G) /\ Cardinality(G) \in Nat
    BY ReceivedAreFinite DEF PagingInv
  <2>3. CASE more
    <3>1. Len(got) = Passed /\ IsFiniteSet(M) /\ Cardinality(M) <= n - Passed
      BY <2>3, MissingAreAhead DEF PagingInv
    <3> HIDE DEF G, M
    <3>2. had \in SUBSET (G \cup M)
      BY DEF M
    <3>3. /\ IsFiniteSet(G \cup M)
          /\ Cardinality(G \cup M) = Cardinality(G) + Cardinality(M) - Cardinality(G \cap M)
      BY <2>2, <3>1, FS_Union
    <3>4. Cardinality(had) <= Cardinality(G \cup M) /\ Cardinality(had) \in Nat
      BY <3>2, <3>3, FS_Subset, FS_CardinalityType
    <3>5. Cardinality(G \cap M) \in Nat /\ Cardinality(M) \in Nat
      BY <2>2, <3>1, FS_Intersection, FS_CardinalityType
    <3>6. Len(got) - Cardinality(G) <= n - Cardinality(had)
      BY <2>1, <2>2, <3>1, <3>3, <3>4, <3>5
    <3> QED
      BY <3>6 DEF RepeatsOnlyByGrowth, G
  <2>4. CASE ~more
    <3>1. Len(got) <= n /\ had \in SUBSET G
      BY <2>4 DEF PagingInv
    <3>2. Cardinality(had) <= Cardinality(G) /\ Cardinality(had) \in Nat
      BY <2>2, <3>1, FS_Subset, FS_CardinalityType
    <3> QED
      BY <2>1, <2>2, <3>1, <3>2 DEF RepeatsOnlyByGrowth
  <2> QED
    BY <2>1, <2>3, <2>4
<1> QED
  BY <1>1, ListInvariant, PTL
=============================================================================

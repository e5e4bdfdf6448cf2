----------------------------- MODULE Friendship -----------------------------
(***************************************************************************)
(* What the friend tables promise, whatever requests run at the same time: *)
(* an application gets at most one verdict, and what an agreement writes   *)
(* appears in one step.  FriendApply implements it statement by statement; *)
(* FriendSync lets devices look at it.                                     *)
(***************************************************************************)

CONSTANTS Uid, Apply, From, To   \* From[a] applies to To[a]

VARIABLES
  status,    \* friend_applies.status; "none" while the row does not exist
  applyRead, \* friend_applies.apply_read
  friend     \* rows of friends

tables == <<status, applyRead, friend>>

Exists(a)  == status[a] # "none"
Pending(a) == status[a] = "pending"
FriendRows(a) == {<<To[a], From[a]>>, <<From[a], To[a]>>}

TablesInit ==
  /\ status = [a \in Apply |-> "none"]
  /\ applyRead = {}
  /\ friend = {}

Submit(a) ==
  /\ ~Exists(a)
  /\ status' = [status EXCEPT ![a] = "pending"]
  /\ UNCHANGED <<applyRead, friend>>

\* Two users become friends once.  An application that was refused by another
\* answer in the meantime keeps that verdict.
Agree(a) ==
  /\ Exists(a) /\ FriendRows(a) \cap friend = {}
  /\ status' = IF Pending(a) THEN [status EXCEPT ![a] = "agreed"] ELSE status
  /\ friend' = friend \cup FriendRows(a)
  /\ applyRead' = applyRead \cup {a}

Refuse(a) ==
  /\ Pending(a)
  /\ status' = [status EXCEPT ![a] = "refused"]
  /\ UNCHANGED <<applyRead, friend>>

MarkRead(a) ==
  /\ Exists(a)
  /\ applyRead' = applyRead \cup {a}
  /\ UNCHANGED <<status, friend>>

TablesNext == \E a \in Apply : Submit(a) \/ Agree(a) \/ Refuse(a) \/ MarkRead(a)

TablesSpec == TablesInit /\ [][TablesNext]_tables
=============================================================================

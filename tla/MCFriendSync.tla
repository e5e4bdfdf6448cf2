---------------------------- MODULE MCFriendSync ----------------------------
(* Instances of FriendSync for TLC: the user u0 has two friends, applies to  *)
(* a third user and is applied to by a fourth.                               *)
EXTENDS FriendSync, TLC

CONSTANTS u0, u1, u2, u3, u4, o1, o2, sent, come

FromU == (o1 :> u0) @@ (o2 :> u2) @@ (sent :> u0) @@ (come :> u4)
ToU   == (o1 :> u1) @@ (o2 :> u0) @@ (sent :> u3) @@ (come :> u0)
OwnerU == [d \in Device |-> u0]

Interchangeable == Permutations(Answer)
=============================================================================

--------------------------- MODULE MCFriendApply ---------------------------
(* Instances of FriendApply for TLC: two users who apply to each other. *)
EXTENDS FriendApply

CONSTANTS u1, u2, a1, a2, q1, q2

\* a1 comes from u1, a2 from u2.
FromU == [a \in Apply |-> IF a = a2 THEN u2 ELSE u1]
ToU   == [a \in Apply |-> IF a = a2 THEN u1 ELSE u2]
=============================================================================

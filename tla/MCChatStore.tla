---------------------------- MODULE MCChatStore ----------------------------
(* Instances of ChatStore for TLC: two users who are, or become, friends.   *)
EXTENDS ChatStore, TLC

CONSTANTS u1, u2, c1, f1, f2, f3, m1, m2, h1

\* f1 and f3 come from one device of u1, f2 from u2.
FromU   == [s \in Frame |-> IF s = f2 THEN u2 ELSE u1]
ToU     == [s \in Frame |-> IF s = f2 THEN u1 ELSE u2]
DeviceD == [s \in Frame |-> IF s = f2 THEN "d2" ELSE "d1"]

\* f1 leaves the conversation to the server.
CarriedC == [s \in Frame |-> IF s = f1 THEN NoConv ELSE c1]

MemberU == [c \in Conv |-> {u1, u2}]
ApplicantU == [c \in Conv |-> u1]
ApplyMsgN  == [c \in Conv |-> 1]
MarkerU == [m \in Mark |-> u1]
MarkedC == [m \in Mark |-> c1]
PagerU  == [h \in Reader |-> u2]
PagedC  == [h \in Reader |-> c1]

\* The two marks are of one user.
Interchangeable == Permutations(Mark)
=============================================================================

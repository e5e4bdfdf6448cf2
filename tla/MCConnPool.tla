----------------------------- MODULE MCConnPool -----------------------------
(* Instances of ConnPool for TLC. *)
EXTENDS ConnPool, TLC

CONSTANTS u1, u2, s1, c1, c2, t1, t2, t3

\* The user u1 owns every device and is the target of every broadcast but t3.
AllOfU1   == [c \in Conn |-> u1]
AllToU1   == [t \in Task |-> u1]
\* The broadcast t3 is for the user u2, who has no device.
T3ToU2    == [t \in Task |-> IF t = t3 THEN u2 ELSE u1]
OneShard  == [u \in Uid |-> s1]

\* Only c1 sends a frame that is answered; no device does.
FrameOfC1 == [c \in Conn |-> IF c = c1 THEN 1 ELSE 0]
NoFrames  == [c \in Conn |-> 0]
=============================================================================

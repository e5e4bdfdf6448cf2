---------------------------- MODULE DeviceOutbox ----------------------------
(***************************************************************************)
(* What the connection pool promises to ONE connected device, seen from    *)
(* outside: a bounded first-in first-out outbox that opens with the ready   *)
(* message, takes every broadcast at most once, writes what it took in the *)
(* order it took it, and loses what is left when the device closes.        *)
(*                                                                         *)
(* The promise is deliberately weak about the end of a device: a broadcast *)
(* may still be "taken" by a device that is closed already (Lose), because *)
(* the program's pool can do that.  ConnPool implements this module.       *)
(***************************************************************************)
EXTENDS Naturals, Sequences

CONSTANTS Device,     \* the websocket connections
          Broadcast,  \* broadcasts, each one call of SendAllConnOfUid
          Capacity,   \* messages a device can hold before it refuses more
          Ready,      \* first message of every device
          Reply       \* an answer to a frame of the device itself

VARIABLES status,     \* "new", "open" or "closed"
          outbox,     \* taken and not yet written
          taken,      \* the broadcasts the device ever took
          wire        \* what was written to the device, in order

vars == <<status, outbox, taken, wire>>

Init == /\ status = [d \in Device |-> "new"]
        /\ outbox = [d \in Device |-> <<>>]
        /\ taken  = [d \in Device |-> {}]
        /\ wire   = [d \in Device |-> <<>>]

Open(d) == /\ status[d] = "new"
           /\ status' = [status EXCEPT ![d] = "open"]
           /\ outbox' = [outbox EXCEPT ![d] = <<Ready>>]
           /\ UNCHANGED <<taken, wire>>

HasRoom(d) == Len(outbox[d]) < Capacity

Take(d, b) == /\ status[d] = "open" /\ HasRoom(d)
              /\ b \notin taken[d]
              /\ outbox' = [outbox EXCEPT ![d] = Append(@, b)]
              /\ taken' = [taken EXCEPT ![d] = @ \cup {b}]
              /\ UNCHANGED <<status, wire>>

Answer(d) == /\ status[d] = "open" /\ HasRoom(d)
             /\ outbox' = [outbox EXCEPT ![d] = Append(@, Reply)]
             /\ UNCHANGED <<status, taken, wire>>

Write(d) == /\ outbox[d] # <<>>
            /\ wire' = [wire EXCEPT ![d] = Append(@, Head(outbox[d]))]
            /\ outbox' = [outbox EXCEPT ![d] = Tail(@)]
            /\ UNCHANGED <<status, taken>>

Close(d) == /\ status[d] = "open"
            /\ status' = [status EXCEPT ![d] = "closed"]
            /\ outbox' = [outbox EXCEPT ![d] = <<>>]
            /\ UNCHANGED <<taken, wire>>

Lose(d, b) == /\ status[d] = "closed"
              /\ b \notin taken[d]
              /\ taken' = [taken EXCEPT ![d] = @ \cup {b}]
              /\ UNCHANGED <<status, outbox, wire>>

Next == \E d \in Device :
          \/ Open(d) \/ Answer(d) \/ Write(d) \/ Close(d)
          \/ \E b \in Broadcast : Take(d, b) \/ Lose(d, b)

\* An open device is served: what it took is written, unless it closes.
Spec == Init /\ [][Next]_vars /\ \A d \in Device : WF_vars(Write(d))
=============================================================================

------------------------------ MODULE Sockets ------------------------------
(***************************************************************************)
(* What rconnect, close_conn and rshutdown promise about the sockets of an  *)
(* application: opening one takes one descriptor, closing one gives it back *)
(* and touches no other, and an attempt that fails takes one at most.       *)
(* Conn is shown to implement this.                                         *)
(***************************************************************************)
EXTENDS Integers

CONSTANTS Slots, Hosts, None

VARIABLES held,      \* what each socket variable of the application is connected to
          spare      \* descriptors left

svars == <<held, spare>>

Open(s, h) == /\ spare > 0 /\ spare' = spare - 1
              /\ held' = [held EXCEPT ![s] = h]

OpenFails == /\ spare > 0 /\ spare' = spare - 1
             /\ UNCHANGED held

Close(s) == /\ held[s] # None
            /\ held' = [held EXCEPT ![s] = None]
            /\ spare' = spare + 1

Init == held = [s \in Slots |-> None] /\ spare \in Nat

Next == (\E s \in Slots : Close(s) \/ \E h \in Hosts : Open(s, h)) \/ OpenFails

Spec == Init /\ [][Next]_svars
=============================================================================

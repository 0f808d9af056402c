--------------------------- MODULE ServerLifecycle ---------------------------
(* What jps.Server promises of its state and of its connection counter, with *)
(* no threads and no locks: requests are admitted only while the server is   *)
(* open, every admitted request is counted exactly once in and once out, and *)
(* the server reaches StateClosed only out of StateClosing.                  *)
EXTENDS Naturals

VARIABLES state, connections

lifeVars == <<state, connections>>

States == {"Closed", "Closing", "Open"}

Init == state = "Closed" /\ connections = 0

(* A request is admitted and counted in one indivisible step.               *)
Register ==
  /\ state = "Open"
  /\ connections' = connections + 1
  /\ UNCHANGED state

Deregister ==
  /\ connections > 0
  /\ connections' = connections - 1
  /\ UNCHANGED state

Open == state' = "Open" /\ UNCHANGED connections

Close == state' = "Closing" /\ UNCHANGED connections

AutoClose ==
  /\ state = "Closing"
  /\ state' = "Closed"
  /\ UNCHANGED connections

Next == Register \/ Deregister \/ Open \/ Close \/ AutoClose

Spec == Init /\ [][Next]_lifeVars
==============================================================================

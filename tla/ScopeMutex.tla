----------------------------- MODULE ScopeMutex -----------------------------
(* What the leases promise: at most one worker processes a scope, and a    *)
(* worker processes at most one scope. How a worker comes to leave         *)
(* (finished, lost its lease, died) is left open, and one instant can be   *)
(* the last of several.                                                    *)
CONSTANTS Workers, Scopes

VARIABLE working

Init == working = [s \in Scopes |-> {}]

Enter(i, s) ==
  /\ working[s] = {}
  /\ \A t \in Scopes : i \notin working[t]
  /\ working' = [working EXCEPT ![s] = {i}]

Leave(gone) == working' = [s \in Scopes |-> working[s] \ gone]

Next ==
  \/ \E i \in Workers, s \in Scopes : Enter(i, s)
  \/ \E gone \in SUBSET Workers : Leave(gone)

Spec == Init /\ [][Next]_working
=============================================================================

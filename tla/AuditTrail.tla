----------------------------- MODULE AuditTrail -----------------------------
(***************************************************************************)
(* What transactional evidence promises, with neither locks nor hashes: an *)
(* append-only trail per tenant, to which each transaction adds one block  *)
(* of events in the same step that makes its change to a memory row.       *)
(***************************************************************************)
EXTENDS Naturals, Sequences

CONSTANTS Memories, Txns

VARIABLES
  trail,     \* the events, each <<transaction, number>>, oldest first
  applied    \* which transactions changed each row

vars == <<trail, applied>>

Init ==
  /\ trail = <<>>
  /\ applied = [m \in Memories |-> {}]

\* t is s followed by events of x alone.
ExtendedBy(s, t, x) ==
  /\ Len(s) <= Len(t)
  /\ \A i \in 1..Len(s) : t[i] = s[i]
  /\ \A i \in Len(s) + 1..Len(t) : t[i][1] = x

\* A transaction takes effect once: all of its events and its change, or neither.
TakeEffect(x) ==
  /\ \A i \in 1..Len(trail) : trail[i][1] # x
  /\ \A m \in Memories : x \notin applied[m]
  /\ ExtendedBy(trail, trail', x)
  /\ \/ applied' = applied
     \/ \E m \in Memories : applied' = [applied EXCEPT ![m] = @ \cup {x}]

Next == \E x \in Txns : TakeEffect(x)

Spec == Init /\ [][Next]_vars
=============================================================================

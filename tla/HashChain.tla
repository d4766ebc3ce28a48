----------------------------- MODULE HashChain -----------------------------
(***************************************************************************)
(* The tamper-evident audit chain: how an entry is linked and how          *)
(* verify_chain reads a set of entries back.                               *)
(*                                                                         *)
(* SHA-256 is taken to be injective, so the hash of an entry is the        *)
(* sequence of event ids it stands for: the history of its chain.          *)
(***************************************************************************)
EXTENDS Naturals, Sequences, FiniteSets

\* The predecessor of a tenant's first event.
GENESIS == <<>>

ComputeEntryHash(id, prev) == Append(prev, id)

\* An audit row as add_audit stores it.
Entry(id, prev) == [id |-> id, prev |-> prev, hash |-> ComputeEntryHash(id, prev)]

\* The rows that link to prev (by_prev[prev]).
Linked(rows, prev) == {e \in rows : e.prev = prev}

\* One turn of the while loop: a fork or an edited row ends the walk.
Turn(rows, w) ==
  LET next == Linked(rows, w.prev) IN
  IF w.detail # "walking" THEN w
  ELSE IF next = {} THEN [w EXCEPT !.detail = "end"]
  ELSE IF Cardinality(next) # 1 THEN [w EXCEPT !.detail = "fork"]
  ELSE LET e == CHOOSE e \in next : TRUE
       IN  IF e.hash # ComputeEntryHash(e.id, w.prev) THEN [w EXCEPT !.detail = "edited"]
           ELSE [prev |-> e.hash, walked |-> w.walked + 1, detail |-> "walking"]

\* The walk from GENESIS; it can take one turn per row, and one more to stop.
Walk(rows) ==
  LET w[k \in 0..Cardinality(rows) + 1] ==
        IF k = 0 THEN [prev |-> GENESIS, walked |-> 0, detail |-> "walking"]
        ELSE Turn(rows, w[k - 1])
  IN  w[Cardinality(rows) + 1]

VerifyIgnoringOrphans(rows) == Walk(rows).detail = "end"

\* verify_chain: the walk stopped at an end, having visited every row.
VerifyChain(rows) ==
  /\ Walk(rows).detail = "end"
  /\ Walk(rows).walked = Cardinality(rows)

(* Reference: the rows can be laid out in one line, each linked to the one  *)
(* before it and hashed as add_audit hashes.                                *)
IsChain(rows) ==
  \E line \in [1..Cardinality(rows) -> rows] :
    /\ \A e \in rows : \E i \in DOMAIN line : line[i] = e
    /\ \A i \in DOMAIN line :
         line[i] = Entry(line[i].id, IF i = 1 THEN GENESIS ELSE line[i - 1].hash)
=============================================================================

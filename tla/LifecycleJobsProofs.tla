------------------------ MODULE LifecycleJobsProofs ------------------------
(* Proofs about the lifecycle jobs, for any rows in any number, whichever   *)
(* call fails, whether the job is run again and whoever changes a row.      *)
EXTENDS LifecycleJobs, AlgorithmProofs

-----------------------------------------------------------------------------
(* The lifecycle jobs: what their rows, events and work are.                *)

RowStatuses == {"active", "archived", "deleted"}

WorkStatuses == {"completed", "completed_with_findings", "skipped", "failed", "dead_letter"}

Actions ==
  {"lifecycle_worker_started", "lifecycle_worker_completed", "lifecycle_worker_failed",
   "memory_decay_applied", "memory_archive_candidate", "memory_archived_by_worker",
   "retention_scan_started", "retention_scan_completed", "retention_decision_recorded",
   "memory_retention_hold_respected", "memory_retention_expired", "memory_consent_revoked",
   "deletion_compaction_started", "deletion_compaction_skipped", "deletion_compaction_failed",
   "deletion_compaction_completed", "memory_legal_hold_compaction_blocked",
   "memory_content_compacted", "memory_vector_purge_attempted", "memory_vector_purge_verified",
   "memory_purge_tombstone_preserved", "memory_vector_purge_failed",
   "deletion_verification_failed", "deletion_verification_passed",
   "conflict_candidate_detected", "reflection_candidate_detected"}

\* X: whatever a row says of its text, its type and its importance.
Row(X) ==
  [status : RowStatuses, held : BOOLEAN, exempt : BOOLEAN, aged : BOOLEAN, recent : BOOLEAN,
   importance : X, decayed : BOOLEAN, due : {"kept", "expired", "consent_revoked"},
   stamped : BOOLEAN, cleared : BOOLEAN, text : X, type : X]

EventsOf(M) == [id : Nat, action : Actions, memory : M \cup {"none"}]

WorkOf(M, X) ==
  [rows : [M -> Row(X)], trail : Seq(EventsOf(M)), nextId : Nat, written : SUBSET Nat,
   count : [Counters -> Nat], status : WorkStatuses, eligible : Nat, findings : Nat,
   raised : BOOLEAN, faultIn : Nat]

EventsIn(s) == ToSet(s.trail)

Tells(s, action, m) == \E e \in EventsIn(s) : e.action = action /\ e.memory = m

\* Everything of the work but its rows, its trail and its count.
SameRest(r, s) ==
  /\ r.nextId = s.nextId /\ r.written = s.written
  /\ r.status = s.status /\ r.eligible = s.eligible /\ r.findings = s.findings
  /\ r.raised = s.raised /\ r.faultIn = s.faultIn

\* What each step makes of the work.
IsCount(s, c, r) ==
  /\ r.rows = s.rows /\ r.trail = s.trail /\ SameRest(r, s)
  /\ r.count = IF s.raised THEN s.count ELSE [s.count EXCEPT ![c] = @ + 1]

IsWrite(s, m, row, r) ==
  /\ r.trail = s.trail /\ r.count = s.count /\ SameRest(r, s)
  /\ r.rows = IF s.raised THEN s.rows ELSE [s.rows EXCEPT ![m] = row]

IsRecord(s, action, m, r) ==
  /\ r.rows = s.rows /\ r.count = s.count
  /\ r.status = s.status /\ r.eligible = s.eligible /\ r.findings = s.findings
  /\ r.raised <=> s.raised \/ s.faultIn = 1
  /\ s.faultIn = 0 => r.faultIn = 0
  /\ r.raised => r.trail = s.trail /\ r.nextId = s.nextId /\ r.written = s.written
  /\ ~r.raised =>
       /\ r.trail = Append(s.trail, [id |-> s.nextId, action |-> action, memory |-> m])
       /\ r.nextId = s.nextId + 1 /\ r.written = s.written \cup {s.nextId}

IsAtomic(s, done, r) ==
  /\ SameRest(r, done) /\ r.count = done.count
  /\ r.rows = IF done.raised THEN s.rows ELSE done.rows
  /\ r.trail = IF done.raised THEN s.trail ELSE done.trail

IsMeddle(s, race, when, m, r) ==
  /\ r.trail = s.trail /\ r.count = s.count /\ SameRest(r, s)
  /\ r.rows = IF race.when = when /\ race.on = m /\ ~s.raised
              THEN [s.rows EXCEPT ![m] = race.row] ELSE s.rows

LEMMA OneMoreEvent ==
  ASSUME NEW E, NEW t \in Seq(E), NEW e \in E
  PROVE  ToSet(Append(t, e)) = ToSet(t) \cup {e}
  <1>1. Append(t, e) \in Seq(E) /\ Len(Append(t, e)) = Len(t) + 1 /\ Append(t, e)[Len(t) + 1] = e
        /\ \A i \in 1..Len(t) : Append(t, e)[i] = t[i]
    OBVIOUS
  <1>2. DOMAIN t = 1..Len(t) /\ DOMAIN Append(t, e) = 1..Len(t) + 1
    BY <1>1
  <1>3. Len(t) \in Nat
    OBVIOUS
  <1> QED
    BY <1>1, <1>2, <1>3 DEF ToSet

LEMMA Counted ==
  ASSUME NEW M, NEW X, NEW s \in WorkOf(M, X), NEW c \in Counters
  PROVE  Count(s, c) \in WorkOf(M, X) /\ IsCount(s, c, Count(s, c))
  <1>1. CASE s.raised
    BY <1>1 DEF Count, WorkOf, IsCount, SameRest
  <1>2. CASE ~s.raised
    <2>1. [s.count EXCEPT ![c] = @ + 1] \in [Counters -> Nat]
      BY DEF WorkOf
    <2>2. Count(s, c) = [s EXCEPT !.count = [s.count EXCEPT ![c] = @ + 1]]
      BY <1>2 DEF Count, WorkOf
    <2> QED
      BY <1>2, <2>1, <2>2 DEF WorkOf, IsCount, SameRest
  <1> QED
    BY <1>1, <1>2

LEMMA FoundOne ==
  ASSUME NEW M, NEW X, NEW w \in WorkOf(M, X), NEW u, u = [w EXCEPT !.findings = @ + 1]
  PROVE  /\ u \in WorkOf(M, X) /\ u.findings = w.findings + 1 /\ u.status = w.status
         /\ u.raised = w.raised /\ u.faultIn = w.faultIn /\ u.rows = w.rows /\ u.trail = w.trail
  <1>1. w.findings \in Nat
    BY DEF WorkOf
  <1>2. w.findings + 1 \in Nat
    BY <1>1
  <1>3. u = [w EXCEPT !.findings = w.findings + 1]
    BY DEF WorkOf
  <1>4. u \in WorkOf(M, X)
    BY <1>2, <1>3 DEF WorkOf
  <1> QED
    BY <1>3, <1>4 DEF WorkOf

LEMMA WrittenTo ==
  ASSUME NEW M, NEW X, NEW s \in WorkOf(M, X), NEW m \in M, NEW row \in Row(X)
  PROVE  Write(s, m, row) \in WorkOf(M, X) /\ IsWrite(s, m, row, Write(s, m, row))
  BY DEF Write, WorkOf, IsWrite, SameRest

LEMMA Recorded ==
  ASSUME NEW M, NEW X, NEW s \in WorkOf(M, X), NEW m \in M \cup {"none"}, NEW action \in Actions
  PROVE  Record(s, action, m) \in WorkOf(M, X) /\ IsRecord(s, action, m, Record(s, action, m))
  <1> DEFINE r == Record(s, action, m)
  <1>1. CASE s.raised
    BY <1>1 DEF Record, WorkOf, IsRecord
  <1>2. CASE ~s.raised /\ s.faultIn = 1
    BY <1>2 DEF Record, WorkOf, IsRecord
  <1>3. CASE ~s.raised /\ s.faultIn # 1
    <2> DEFINE e == [id |-> s.nextId, action |-> action, memory |-> m]
    <2>1. e \in EventsOf(M) /\ s.nextId \in Nat /\ s.faultIn \in Nat
      BY DEF EventsOf, WorkOf
    <2>2. Append(s.trail, e) \in Seq(EventsOf(M))
      BY <2>1 DEF WorkOf
    <2>3. r = [s EXCEPT !.faultIn = IF @ = 0 THEN 0 ELSE @ - 1,
                 !.trail = Append(@, e), !.written = @ \cup {s.nextId}, !.nextId = @ + 1]
      BY <1>3 DEF Record
    <2> HIDE DEF e, r
    <2>4. /\ r.trail = Append(s.trail, e) /\ r.nextId = s.nextId + 1
          /\ r.written = s.written \cup {s.nextId}
          /\ r.faultIn = IF s.faultIn = 0 THEN 0 ELSE s.faultIn - 1
          /\ r.rows = s.rows /\ r.count = s.count /\ r.raised = s.raised
          /\ r.status = s.status /\ r.eligible = s.eligible /\ r.findings = s.findings
      BY <2>3 DEF WorkOf
    <2>5. r \in WorkOf(M, X)
      <3>1. (IF s.faultIn = 0 THEN 0 ELSE s.faultIn - 1) \in Nat
        BY <2>1
      <3>2. s.written \cup {s.nextId} \in SUBSET Nat /\ s.nextId + 1 \in Nat
        BY <2>1 DEF WorkOf
      <3>3. r = [s EXCEPT !.faultIn = (IF s.faultIn = 0 THEN 0 ELSE s.faultIn - 1),
                          !.trail = Append(s.trail, e), !.written = s.written \cup {s.nextId},
                          !.nextId = s.nextId + 1]
        BY <2>3 DEF WorkOf
      <3> QED
        BY <2>2, <3>1, <3>2, <3>3 DEF WorkOf
    <2>6. IsRecord(s, action, m, r)
      BY <1>3, <2>1, <2>4 DEF e, WorkOf, IsRecord
    <2> QED
      BY <2>5, <2>6 DEF r
  <1> QED
    BY <1>1, <1>2, <1>3

LEMMA Undone ==
  ASSUME NEW M, NEW X, NEW s \in WorkOf(M, X), NEW done \in WorkOf(M, X)
  PROVE  Atomic(s, done) \in WorkOf(M, X) /\ IsAtomic(s, done, Atomic(s, done))
  BY DEF Atomic, WorkOf, IsAtomic, SameRest

LEMMA Meddled ==
  ASSUME NEW M, NEW X, NEW s \in WorkOf(M, X), NEW race, race.row \in Row(X), NEW when, NEW m \in M
  PROVE  /\ Meddle(s, race, when, m) \in WorkOf(M, X)
         /\ IsMeddle(s, race, when, m, Meddle(s, race, when, m))
  BY DEF Meddle, WorkOf, IsMeddle, SameRest

\* What is told after an event was recorded.
LEMMA RecordedIsTold ==
  ASSUME NEW M, NEW X, NEW s \in WorkOf(M, X), NEW m \in M \cup {"none"}, NEW action \in Actions,
         NEW r, IsRecord(s, action, m, r), NEW a, NEW n
  PROVE  Tells(r, a, n) <=> Tells(s, a, n) \/ (~r.raised /\ a = action /\ n = m)
  <1> DEFINE e == [id |-> s.nextId, action |-> action, memory |-> m]
  <1>1. r.raised => r.trail = s.trail
    BY DEF IsRecord
  <1>2. ~r.raised => EventsIn(r) = EventsIn(s) \cup {e}
    <2>1. e \in EventsOf(M) /\ s.trail \in Seq(EventsOf(M))
      BY DEF EventsOf, WorkOf
    <2>2. ~r.raised => r.trail = Append(s.trail, e)
      BY DEF IsRecord
    <2>3. ToSet(Append(s.trail, e)) = ToSet(s.trail) \cup {e}
      BY <2>1, OneMoreEvent
    <2> QED
      BY <2>2, <2>3 DEF EventsIn
  <1>3. e.action = action /\ e.memory = m
    OBVIOUS
  <1> HIDE DEF e
  <1> QED
    BY <1>1, <1>2, <1>3 DEF Tells, EventsIn

\* The same rows and the same events.
Nothing(w, r) == r.rows = w.rows /\ \A a, n : Tells(r, a, n) <=> Tells(w, a, n)

\* These rows, and an event of each of these actions about m.
Makes(w, r, rows, actions, m) ==
  r.rows = rows /\ \A a, n : Tells(r, a, n) <=> Tells(w, a, n) \/ (a \in actions /\ n = m)

SameVerdict(w, r) == r.status = w.status /\ r.findings = w.findings

NoFault(w, r) == w.faultIn = 0 => r.faultIn = 0 /\ ~r.raised

LEMMA SameTrail ==
  ASSUME NEW w, NEW r, r.trail = w.trail
  PROVE  \A a, n : Tells(r, a, n) <=> Tells(w, a, n)
  BY DEF Tells, EventsIn

\* A change and its event in one transaction.
LEMMA Changes ==
  ASSUME NEW M, NEW X, NEW w \in WorkOf(M, X), ~w.raised, NEW m \in M, NEW row \in Row(X), NEW action \in Actions,
         NEW r, r = Count(Atomic(w, Record(Write(w, m, row), action, m)), "changed")
  PROVE  /\ r \in WorkOf(M, X) /\ SameVerdict(w, r) /\ NoFault(w, r)
         /\ r.raised => Nothing(w, r)
         /\ ~r.raised => Makes(w, r, [w.rows EXCEPT ![m] = row], {action}, m)
  <1>1. PICK u : u = Write(w, m, row)
    OBVIOUS
  <1>2. PICK v : v = Record(u, action, m)
    OBVIOUS
  <1>3. PICK x : x = Atomic(w, v)
    OBVIOUS
  <1>4. u \in WorkOf(M, X) /\ IsWrite(w, m, row, u)
    BY <1>1, WrittenTo
  <1>5. v \in WorkOf(M, X) /\ IsRecord(u, action, m, v)
    BY <1>2, <1>4, Recorded
  <1>6. x \in WorkOf(M, X) /\ IsAtomic(w, v, x)
    BY <1>3, <1>5, Undone
  <1>7. r \in WorkOf(M, X) /\ IsCount(x, "changed", r)
    BY <1>1, <1>2, <1>3, <1>6, Counted DEF Counters
  <1>8. SameVerdict(w, r) /\ NoFault(w, r) /\ r.raised = v.raised
    <2>1. /\ u.raised = w.raised /\ u.faultIn = w.faultIn /\ r.raised = v.raised
          /\ r.faultIn = v.faultIn
      BY <1>4, <1>6, <1>7 DEF IsWrite, IsAtomic, IsCount, SameRest
    <2>2. NoFault(w, r)
      BY <1>5, <2>1 DEF IsRecord, NoFault
    <2> QED
      BY <1>4, <1>5, <1>6, <1>7, <2>1, <2>2 DEF IsWrite, IsRecord, IsAtomic, IsCount, SameRest, SameVerdict
  <1>9. r.raised => r.rows = w.rows /\ r.trail = w.trail
    BY <1>6, <1>7, <1>8 DEF IsAtomic, IsCount
  <1>10. ~r.raised => r.rows = [w.rows EXCEPT ![m] = row] /\ r.trail = v.trail /\ u.trail = w.trail
    BY <1>4, <1>5, <1>6, <1>7, <1>8 DEF IsWrite, IsRecord, IsAtomic, IsCount
  <1>11. \A a, n : Tells(v, a, n) <=> Tells(u, a, n) \/ (~v.raised /\ a = action /\ n = m)
    BY <1>4, <1>5, RecordedIsTold
  <1>12. r.raised => Nothing(w, r)
    BY <1>9 DEF Nothing, Tells, EventsIn
  <1>13. ~r.raised => Makes(w, r, [w.rows EXCEPT ![m] = row], {action}, m)
    <2> SUFFICES ASSUME ~r.raised PROVE Makes(w, r, [w.rows EXCEPT ![m] = row], {action}, m)
      OBVIOUS
    <2>1. \A a, n : Tells(r, a, n) <=> Tells(v, a, n)
      BY <1>10 DEF Tells, EventsIn
    <2>2. \A a, n : Tells(u, a, n) <=> Tells(w, a, n)
      BY <1>10 DEF Tells, EventsIn
    <2> QED
      BY <1>8, <1>10, <1>11, <2>1, <2>2 DEF Makes
  <1> QED
    BY <1>7, <1>8, <1>12, <1>13

\* An event about a memory or about none, and nothing else.
LEMMA Notes ==
  ASSUME NEW M, NEW X, NEW w \in WorkOf(M, X), NEW m \in M \cup {"none"}, NEW action \in Actions,
         NEW r, r = Record(w, action, m)
  PROVE  /\ r \in WorkOf(M, X) /\ SameVerdict(w, r) /\ r.count = w.count
         /\ ~w.raised => NoFault(w, r)
         /\ w.raised => r.raised
         /\ r.raised => Nothing(w, r)
         /\ ~r.raised => Makes(w, r, w.rows, {action}, m)
  <1>1. r \in WorkOf(M, X) /\ IsRecord(w, action, m, r)
    BY Recorded
  <1>2. \A a, n : Tells(r, a, n) <=> Tells(w, a, n) \/ (~r.raised /\ a = action /\ n = m)
    BY <1>1, RecordedIsTold
  <1>3. SameVerdict(w, r) /\ r.count = w.count /\ (~w.raised => NoFault(w, r)) /\ (w.raised => r.raised)
    BY <1>1 DEF IsRecord, SameVerdict, NoFault, WorkOf
  <1>4. r.rows = w.rows
    BY <1>1 DEF IsRecord
  <1> QED
    BY <1>1, <1>2, <1>3, <1>4 DEF Nothing, Makes

LEMMA Counts ==
  ASSUME NEW M, NEW X, NEW w \in WorkOf(M, X), NEW c \in Counters, NEW r, r = Count(w, c)
  PROVE  /\ r \in WorkOf(M, X) /\ SameVerdict(w, r) /\ r.raised = w.raised
         /\ r.faultIn = w.faultIn /\ Nothing(w, r)
  <1>1. r \in WorkOf(M, X) /\ IsCount(w, c, r)
    BY Counted
  <1>2. r.trail = w.trail /\ r.rows = w.rows /\ r.status = w.status /\ r.eligible = w.eligible
        /\ r.findings = w.findings /\ r.raised = w.raised /\ r.faultIn = w.faultIn
    BY <1>1 DEF IsCount, SameRest
  <1> QED
    BY <1>1, <1>2, SameTrail DEF Nothing, SameVerdict

\* The work that is done once at most: what one item may come to.
Steady(M, X, w, r) == r \in WorkOf(M, X) /\ SameVerdict(w, r) /\ NoFault(w, r)

LEMMA NothingThen ==
  ASSUME NEW w, NEW v, NEW r, Nothing(w, v), Nothing(v, r)
  PROVE  Nothing(w, r)
  BY DEF Nothing

LEMMA MakesThen ==
  ASSUME NEW w, NEW v, NEW r, NEW rows, NEW rows1, NEW acts, NEW acts1, NEW m,
         Makes(w, v, rows1, acts1, m), Makes(v, r, rows, acts, m)
  PROVE  Makes(w, r, rows, acts1 \cup acts, m)
  BY DEF Makes

LEMMA NothingThenMakes ==
  ASSUME NEW w, NEW v, NEW r, NEW rows, NEW acts, NEW m, Nothing(w, v), Makes(v, r, rows, acts, m)
  PROVE  Makes(w, r, rows, acts, m)
  BY DEF Makes, Nothing

LEMMA MakesThenNothing ==
  ASSUME NEW w, NEW v, NEW r, NEW rows, NEW acts, NEW m, Makes(w, v, rows, acts, m), Nothing(v, r)
  PROVE  Makes(w, r, rows, acts, m)
  BY DEF Makes, Nothing

LEMMA SteadyThen ==
  ASSUME NEW M, NEW X, NEW w, NEW v, NEW r, Steady(M, X, w, v), Steady(M, X, v, r)
  PROVE  Steady(M, X, w, r)
  BY DEF Steady, SameVerdict, NoFault

LEMMA CountIsSteady ==
  ASSUME NEW M, NEW X, NEW w \in WorkOf(M, X), ~w.raised, NEW c \in Counters
  PROVE  /\ Steady(M, X, w, Count(w, c)) /\ Nothing(w, Count(w, c)) /\ ~Count(w, c).raised
  BY Counts DEF Steady, NoFault

DecayIdle(ctx, copy) ==
  copy.held \/ copy.decayed \/ ~copy.aged \/ copy.importance = "floor" \/ ctx.dry

LEMMA DecayDoes ==
  ASSUME NEW M, NEW X, NEW w \in WorkOf(M, X), ~w.raised, NEW m \in M, NEW copy \in Row(X), NEW ctx,
         NEW r, r = DecayItem(ctx, w, m, copy)
  PROVE  /\ Steady(M, X, w, r)
         /\ r.raised \/ DecayIdle(ctx, copy) => Nothing(w, r)
         /\ ~r.raised /\ ~DecayIdle(ctx, copy) =>
              Makes(w, r, [w.rows EXCEPT ![m] = [copy EXCEPT !.decayed = TRUE]],
                    {"memory_decay_applied"}, m)
  <1>1. CASE DecayIdle(ctx, copy)
    <2>1. r = Count(w, "skipped")
      BY <1>1 DEF DecayItem, DecayIdle
    <2> QED
      BY <1>1, <2>1, CountIsSteady DEF Counters
  <1>2. CASE ~DecayIdle(ctx, copy)
    <2>1. PICK row : row = [copy EXCEPT !.decayed = TRUE]
      OBVIOUS
    <2>2. row \in Row(X)
      BY <2>1 DEF Row, RowStatuses
    <2>3. r = Count(Atomic(w, Record(Write(w, m, row), "memory_decay_applied", m)), "changed")
      BY <1>2, <2>1 DEF DecayItem, DecayIdle
    <2>4. "memory_decay_applied" \in Actions
      BY DEF Actions
    <2>5. /\ Steady(M, X, w, r)
          /\ r.raised => Nothing(w, r)
          /\ ~r.raised => Makes(w, r, [w.rows EXCEPT ![m] = row], {"memory_decay_applied"}, m)
      BY <2>2, <2>3, <2>4, Changes DEF Steady
    <2> QED
      BY <1>2, <2>1, <2>5
  <1> QED
    BY <1>1, <1>2

ArchiveIdle(copy) == copy.held \/ copy.exempt \/ ~copy.aged \/ copy.recent

LEMMA ArchiveDoes ==
  ASSUME NEW M, NEW X, NEW w \in WorkOf(M, X), ~w.raised, NEW m \in M, NEW copy \in Row(X), NEW ctx,
         NEW r, r = ArchiveItem(ctx, w, m, copy)
  PROVE  /\ Steady(M, X, w, r)
         /\ r.raised \/ ArchiveIdle(copy) => Nothing(w, r)
         /\ ~r.raised /\ ~ArchiveIdle(copy) =>
              IF ctx.dry THEN Makes(w, r, w.rows, {"memory_archive_candidate"}, m)
              ELSE Makes(w, r, [w.rows EXCEPT ![m] = [copy EXCEPT !.status = "archived"]],
                         {"memory_archived_by_worker"}, m)
  <1>1. CASE ArchiveIdle(copy)
    <2>1. r = Count(w, "skipped")
      BY <1>1 DEF ArchiveItem, ArchiveIdle
    <2> QED
      BY <1>1, <2>1, CountIsSteady DEF Counters
  <1>4. m \in M \cup {"none"} /\ "memory_archive_candidate" \in Actions
    BY DEF Actions
  <1>2. CASE ~ArchiveIdle(copy) /\ ctx.dry
    <2>1. PICK v : v = Record(w, "memory_archive_candidate", m)
      OBVIOUS
    <2>2. /\ v \in WorkOf(M, X) /\ SameVerdict(w, v) /\ NoFault(w, v)
          /\ v.raised => Nothing(w, v)
          /\ ~v.raised => Makes(w, v, w.rows, {"memory_archive_candidate"}, m)
      BY <1>4, <2>1, Notes
    <2>3. r = Count(v, "changed")
      BY <1>2, <2>1 DEF ArchiveItem, ArchiveIdle
    <2>4. /\ r \in WorkOf(M, X) /\ SameVerdict(v, r) /\ r.raised = v.raised
          /\ r.faultIn = v.faultIn /\ Nothing(v, r)
      BY <2>2, <2>3, Counts DEF Counters
    <2>5. Steady(M, X, w, r)
      BY <2>2, <2>4 DEF Steady, SameVerdict, NoFault
    <2>6. r.raised => Nothing(w, r)
      BY <2>2, <2>4, NothingThen
    <2>7. ~r.raised => Makes(w, r, w.rows, {"memory_archive_candidate"}, m)
      BY <2>2, <2>4, MakesThenNothing
    <2> QED
      BY <1>2, <2>5, <2>6, <2>7
  <1>3. CASE ~ArchiveIdle(copy) /\ ~ctx.dry
    <2>1. PICK row : row = [copy EXCEPT !.status = "archived"]
      OBVIOUS
    <2>2. row \in Row(X)
      BY <2>1 DEF Row, RowStatuses
    <2>3. r = Count(Atomic(w, Record(Write(w, m, row), "memory_archived_by_worker", m)), "changed")
      BY <1>3, <2>1 DEF ArchiveItem, ArchiveIdle
    <2>4. "memory_archived_by_worker" \in Actions
      BY DEF Actions
    <2>5. /\ Steady(M, X, w, r)
          /\ r.raised => Nothing(w, r)
          /\ ~r.raised => Makes(w, r, [w.rows EXCEPT ![m] = row], {"memory_archived_by_worker"}, m)
      BY <2>2, <2>3, <2>4, Changes DEF Steady
    <2> QED
      BY <1>3, <2>1, <2>5
  <1> QED
    BY <1>1, <1>2, <1>3

RetentionPreview(ctx) == ctx.dry \/ ~ctx.retention

\* The decision of one row and its event.
LEMMA DecisionIsNoted ==
  ASSUME NEW M, NEW X, NEW w \in WorkOf(M, X), ~w.raised, NEW m \in M, NEW outcome \in DOMAIN OutcomeAction,
         NEW r, r = RecordDecision(w, m, outcome)
  PROVE  /\ Steady(M, X, w, r)
         /\ ~r.raised => Makes(w, r, w.rows, {"retention_decision_recorded", OutcomeAction[outcome]}, m)
  <1>1. PICK action \in Actions : action = OutcomeAction[outcome]
    BY DEF OutcomeAction, Actions
  <1>2. "retention_decision_recorded" \in Actions /\ m \in M \cup {"none"}
    BY DEF Actions
  <1>3. PICK v : v = Record(w, "retention_decision_recorded", m)
    OBVIOUS
  <1>4. /\ v \in WorkOf(M, X) /\ SameVerdict(w, v) /\ NoFault(w, v)
        /\ ~v.raised => Makes(w, v, w.rows, {"retention_decision_recorded"}, m)
    BY <1>2, <1>3, Notes
  <1>5. r = Record(v, action, m)
    BY <1>1, <1>3 DEF RecordDecision
  <1>6. /\ r \in WorkOf(M, X) /\ SameVerdict(v, r)
        /\ ~v.raised => NoFault(v, r)
        /\ v.raised => r.raised
        /\ ~r.raised => Makes(v, r, v.rows, {action}, m)
    BY <1>2, <1>4, <1>5, Notes
  <1>7. Steady(M, X, w, r)
    BY <1>4, <1>6 DEF Steady, SameVerdict, NoFault
  <1>8. ASSUME ~r.raised PROVE Makes(w, r, w.rows, {"retention_decision_recorded", action}, m)
    <2>1. Makes(w, v, w.rows, {"retention_decision_recorded"}, m) /\ Makes(v, r, v.rows, {action}, m)
      BY <1>4, <1>6, <1>8
    <2>2. v.rows = w.rows
      BY <2>1 DEF Makes
    <2> QED
      BY <2>1, <2>2 DEF Makes
  <1> QED
    BY <1>1, <1>7, <1>8

\* The write of one row, alone.
LEMMA WritesOnly ==
  ASSUME NEW M, NEW X, NEW w \in WorkOf(M, X), NEW m \in M, NEW row \in Row(X),
         NEW r, r = Write(w, m, row)
  PROVE  /\ Steady(M, X, w, r) \/ w.raised
         /\ r \in WorkOf(M, X) /\ SameVerdict(w, r) /\ r.raised = w.raised /\ r.faultIn = w.faultIn
         /\ w.raised => Nothing(w, r)
         /\ ~w.raised => Makes(w, r, [w.rows EXCEPT ![m] = row], {}, m)
  <1>1. r \in WorkOf(M, X) /\ IsWrite(w, m, row, r)
    BY WrittenTo
  <1>2. /\ r.trail = w.trail /\ SameVerdict(w, r) /\ r.raised = w.raised /\ r.faultIn = w.faultIn
        /\ r.rows = IF w.raised THEN w.rows ELSE [w.rows EXCEPT ![m] = row]
    BY <1>1 DEF IsWrite, SameRest, SameVerdict
  <1>3. \A a, n : Tells(r, a, n) <=> Tells(w, a, n)
    BY <1>2, SameTrail
  <1> QED
    BY <1>1, <1>2, <1>3 DEF Steady, NoFault, Nothing, Makes

\* What a unit of work leaves of what was done in it.
LEMMA UnitOfWork ==
  ASSUME NEW M, NEW X, NEW w \in WorkOf(M, X), NEW done \in WorkOf(M, X), Steady(M, X, w, done),
         NEW r, r = Atomic(w, done)
  PROVE  /\ Steady(M, X, w, r) /\ r.raised = done.raised /\ r.faultIn = done.faultIn
         /\ SameVerdict(done, r)
         /\ r.raised => Nothing(w, r)
         /\ ~r.raised => Nothing(done, r)
  <1>1. r \in WorkOf(M, X) /\ IsAtomic(w, done, r)
    BY Undone
  <1>2. /\ SameVerdict(done, r) /\ r.raised = done.raised /\ r.faultIn = done.faultIn
        /\ r.raised => r.rows = w.rows /\ r.trail = w.trail
        /\ ~r.raised => r.rows = done.rows /\ r.trail = done.trail
    BY <1>1 DEF IsAtomic, SameRest, SameVerdict
  <1>3. Steady(M, X, w, r)
    BY <1>1, <1>2 DEF Steady, SameVerdict, NoFault
  <1> QED
    BY <1>2, <1>3 DEF Nothing, Tells, EventsIn

Stamped(copy) == [copy EXCEPT !.stamped = TRUE]

Dropped(row) == [row EXCEPT !.status = "deleted"]

LEMMA RowChanges ==
  ASSUME NEW X, NEW row \in Row(X)
  PROVE  /\ Stamped(row) \in Row(X) /\ Dropped(row) \in Row(X)
         /\ [row EXCEPT !.cleared = TRUE] \in Row(X)
         /\ [row EXCEPT !.decayed = TRUE] \in Row(X) /\ [row EXCEPT !.status = "archived"] \in Row(X)
  BY DEF Stamped, Dropped, Row, RowStatuses

RetainedRows(ctx, rows, m, copy) ==
  IF RetentionPreview(ctx) THEN rows
  ELSE [rows EXCEPT ![m] = IF RetentionOutcome(copy) \in {"held", "kept"} THEN Stamped(copy)
                           ELSE Dropped(rows[m])]

RetentionActs(copy) ==
  IF RetentionOutcome(copy) = "kept" THEN {}
  ELSE {"retention_decision_recorded", OutcomeAction[RetentionOutcome(copy)]}

LEMMA RetentionDoes ==
  ASSUME NEW M, NEW X, NEW w \in WorkOf(M, X), ~w.raised, NEW m \in M, NEW copy \in Row(X), NEW ctx,
         NEW r, r = RetentionItem(ctx, w, m, copy)
  PROVE  /\ Steady(M, X, w, r)
         /\ r.raised => Nothing(w, r)
         /\ ~r.raised => Makes(w, r, RetainedRows(ctx, w.rows, m, copy), RetentionActs(copy), m)
  <1>0. PICK outcome : outcome = RetentionOutcome(copy)
    OBVIOUS
  <1>1. outcome \in {"held", "kept", "expired", "consent_revoked"}
    BY <1>0 DEF RetentionOutcome, Row
  <1>2. DOMAIN OutcomeAction = {"held", "expired", "consent_revoked"}
    BY DEF OutcomeAction
  <1> DEFINE preview == ctx.dry \/ ~ctx.retention
             Stamp(x) == IF preview THEN x ELSE Write(x, m, [copy EXCEPT !.stamped = TRUE])
             acts == RetentionActs(copy)
             rows == RetainedRows(ctx, w.rows, m, copy)
  <1>3. PICK v : v = Count(w, "skipped")
    OBVIOUS
  <1>4. Steady(M, X, w, v) /\ Nothing(w, v) /\ ~v.raised /\ v \in WorkOf(M, X) /\ v.rows = w.rows
    BY <1>3, CountIsSteady DEF Counters, Steady, Nothing
  <1>5. SUFFICES ASSUME NEW done, r = Atomic(w, done),
                        \/ outcome = "held" /\ done = Stamp(RecordDecision(v, m, outcome))
                        \/ outcome = "kept" /\ done = Stamp(v)
                        \/ /\ outcome \in {"expired", "consent_revoked"}
                           /\ LET decided == RecordDecision(w, m, outcome)
                              IN  done = Count(IF preview THEN decided
                                               ELSE Write(decided, m, Dropped(decided.rows[m])), "changed")
                 PROVE  Steady(M, X, w, r) /\ (r.raised => Nothing(w, r)) /\ (~r.raised => Makes(w, r, rows, acts, m))
    <2>1. PICK done : done =
            IF outcome = "held" THEN Stamp(RecordDecision(v, m, outcome))
            ELSE IF outcome = "kept" THEN Stamp(v)
            ELSE LET decided == RecordDecision(w, m, outcome)
                 IN  Count(IF preview THEN decided
                           ELSE Write(decided, m, Dropped(decided.rows[m])), "changed")
      OBVIOUS
    <2>2. r = Atomic(w, done)
      BY <1>0, <1>3, <2>1 DEF RetentionItem, Dropped
    <2>3. \/ outcome = "held" /\ done = Stamp(RecordDecision(v, m, outcome))
          \/ outcome = "kept" /\ done = Stamp(v)
          \/ /\ outcome \in {"expired", "consent_revoked"}
             /\ LET decided == RecordDecision(w, m, outcome)
                IN  done = Count(IF preview THEN decided
                                 ELSE Write(decided, m, Dropped(decided.rows[m])), "changed")
      BY <1>1, <2>1
    <2> HIDE DEF preview
    <2> QED
      BY <1>1, <1>2, <1>5, <2>2, <2>3
  <1>6. SUFFICES Steady(M, X, w, done) /\ (~done.raised => Makes(w, done, rows, acts, m))
    <2> HIDE DEF rows, acts
    <2>1. ASSUME Steady(M, X, w, done), ~done.raised => Makes(w, done, rows, acts, m)
          PROVE  Steady(M, X, w, r) /\ (r.raised => Nothing(w, r)) /\ (~r.raised => Makes(w, r, rows, acts, m))
      <3>1. done \in WorkOf(M, X)
        BY <2>1 DEF Steady
      <3>2. /\ Steady(M, X, w, r) /\ r.raised = done.raised
            /\ r.raised => Nothing(w, r)
            /\ ~r.raised => Nothing(done, r)
        BY <1>5, <2>1, <3>1, UnitOfWork
      <3> QED
        BY <2>1, <3>2, MakesThenNothing
    <2> QED
      BY <1>6, <2>1
  <1>7. Stamped(copy) \in Row(X)
    BY RowChanges
  <1>8. ASSUME NEW x, Steady(M, X, w, x), NEW a, ~x.raised => Makes(w, x, w.rows, a, m),
               outcome \in {"held", "kept"}
        PROVE  Steady(M, X, w, Stamp(x)) /\ (~Stamp(x).raised => Makes(w, Stamp(x), rows, a, m))
    <2>1. CASE preview
      BY <1>8, <2>1 DEF RetentionPreview, RetainedRows
    <2>2. CASE ~preview
      <3>1. PICK y : y = Write(x, m, Stamped(copy))
        OBVIOUS
      <3>2. Stamp(x) = y
        BY <2>2, <3>1 DEF Stamped
      <3>3. x \in WorkOf(M, X)
        BY <1>8 DEF Steady
      <3>4. /\ y \in WorkOf(M, X) /\ SameVerdict(x, y) /\ y.raised = x.raised /\ y.faultIn = x.faultIn
            /\ ~x.raised => Makes(x, y, [x.rows EXCEPT ![m] = Stamped(copy)], {}, m)
        BY <1>7, <3>1, <3>3, WritesOnly
      <3>5. Steady(M, X, w, y)
        BY <1>8, <3>4 DEF Steady, SameVerdict, NoFault
      <3>6. rows = [w.rows EXCEPT ![m] = Stamped(copy)]
        BY <1>0, <1>8, <2>2 DEF RetentionPreview, RetainedRows
      <3> HIDE DEF rows
      <3>7. ASSUME ~y.raised PROVE Makes(w, y, rows, a, m)
        <4>1. Makes(w, x, w.rows, a, m) /\ Makes(x, y, [x.rows EXCEPT ![m] = Stamped(copy)], {}, m)
          BY <1>8, <3>4, <3>7
        <4>2. x.rows = w.rows
          BY <4>1 DEF Makes
        <4> QED
          BY <3>6, <4>1, <4>2 DEF Makes
      <3> QED
        BY <3>2, <3>5, <3>7
    <2> QED
      BY <2>1, <2>2
  <1>9. CASE outcome = "held" /\ done = Stamp(RecordDecision(v, m, outcome))
    <2>1. PICK x : x = RecordDecision(v, m, outcome)
      OBVIOUS
    <2>2. /\ Steady(M, X, v, x)
          /\ ~x.raised => Makes(v, x, v.rows, {"retention_decision_recorded", OutcomeAction[outcome]}, m)
      BY <1>2, <1>4, <1>9, <2>1, DecisionIsNoted
    <2>3. Steady(M, X, w, x)
      BY <1>4, <2>2, SteadyThen
    <2>4. acts = {"retention_decision_recorded", OutcomeAction[outcome]}
      BY <1>0, <1>9 DEF RetentionActs
    <2> HIDE DEF acts, Stamp, rows, preview
    <2>5. ~x.raised => Makes(w, x, w.rows, acts, m)
      BY <1>4, <2>2, <2>4, NothingThenMakes
    <2> QED
      BY <1>8, <1>9, <2>1, <2>3, <2>5
  <1>10. CASE outcome = "kept" /\ done = Stamp(v)
    <2>1. Makes(w, v, w.rows, {}, m)
      BY <1>4 DEF Nothing, Makes
    <2>2. acts = {}
      BY <1>0, <1>10 DEF RetentionActs
    <2> HIDE DEF acts, Stamp, rows, preview
    <2> QED
      BY <1>4, <1>8, <1>10, <2>1, <2>2
  <1>11. CASE outcome \in {"expired", "consent_revoked"}
    <2>1. PICK x : x = RecordDecision(w, m, outcome)
      OBVIOUS
    <2>2. acts = {"retention_decision_recorded", OutcomeAction[outcome]}
      BY <1>0, <1>11 DEF RetentionActs
    <2>3. Steady(M, X, w, x) /\ (~x.raised => Makes(w, x, w.rows, acts, m))
      <3> HIDE DEF acts
      <3> QED
        BY <1>2, <1>11, <2>1, <2>2, DecisionIsNoted
    <2>4. PICK y : y = IF preview THEN x ELSE Write(x, m, Dropped(x.rows[m]))
      OBVIOUS
    <2>5. done = Count(y, "changed")
      BY <1>5, <1>11, <2>1, <2>4
    <2>6. Steady(M, X, w, y) /\ (~y.raised => Makes(w, y, rows, acts, m))
      <3>1. CASE preview
        BY <2>3, <2>4, <3>1 DEF RetentionPreview, RetainedRows
      <3>2. CASE ~preview
        <4>1. x \in WorkOf(M, X)
          BY <2>3 DEF Steady
        <4>2. Dropped(x.rows[m]) \in Row(X)
          BY <4>1, RowChanges DEF WorkOf
        <4>3. y = Write(x, m, Dropped(x.rows[m]))
          BY <2>4, <3>2
        <4>4. /\ y \in WorkOf(M, X) /\ SameVerdict(x, y) /\ y.raised = x.raised /\ y.faultIn = x.faultIn
              /\ ~x.raised => Makes(x, y, [x.rows EXCEPT ![m] = Dropped(x.rows[m])], {}, m)
          BY <4>1, <4>2, <4>3, WritesOnly
        <4>5. Steady(M, X, w, y)
          BY <2>3, <4>4 DEF Steady, SameVerdict, NoFault
        <4>6. rows = [w.rows EXCEPT ![m] = Dropped(w.rows[m])]
          BY <1>0, <1>11, <3>2 DEF RetentionPreview, RetainedRows
        <4> HIDE DEF rows, acts
        <4>7. ASSUME ~y.raised PROVE Makes(w, y, rows, acts, m)
          <5>1. /\ Makes(w, x, w.rows, acts, m)
                /\ Makes(x, y, [x.rows EXCEPT ![m] = Dropped(x.rows[m])], {}, m)
            BY <2>3, <4>4, <4>7
          <5>2. x.rows = w.rows
            BY <5>1 DEF Makes
          <5> QED
            BY <4>6, <5>1, <5>2 DEF Makes
        <4> QED
          BY <4>5, <4>7
      <3> QED
        BY <3>1, <3>2
    <2> HIDE DEF acts, rows
    <2>7. y \in WorkOf(M, X)
      BY <2>6 DEF Steady
    <2>8. /\ done \in WorkOf(M, X) /\ SameVerdict(y, done) /\ done.raised = y.raised
          /\ done.faultIn = y.faultIn /\ Nothing(y, done)
      BY <2>5, <2>7, Counts DEF Counters
    <2>9. Steady(M, X, w, done)
      BY <2>6, <2>8 DEF Steady, SameVerdict, NoFault
    <2> QED
      BY <2>6, <2>8, <2>9, MakesThenNothing
  <1> QED
    BY <1>5, <1>9, <1>10, <1>11

ClearedRow(row) == [row EXCEPT !.cleared = TRUE]

LEMMA ClearedDoes ==
  ASSUME NEW M, NEW X, NEW w \in WorkOf(M, X), ~w.raised, NEW m \in M, NEW r, r = Cleared(w, m)
  PROVE  /\ Steady(M, X, w, r)
         /\ r.raised => Nothing(w, r)
         /\ ~r.raised => Makes(w, r, [w.rows EXCEPT ![m] = ClearedRow(w.rows[m])],
                               {"memory_content_compacted", "memory_vector_purge_attempted"}, m)
  <1>1. PICK row : row = ClearedRow(w.rows[m])
    OBVIOUS
  <1>2. row \in Row(X)
    BY <1>1, RowChanges DEF WorkOf, ClearedRow
  <1>3. PICK u : u = Write(w, m, row)
    OBVIOUS
  <1>4. /\ u \in WorkOf(M, X) /\ SameVerdict(w, u) /\ ~u.raised /\ u.faultIn = w.faultIn
        /\ Makes(w, u, [w.rows EXCEPT ![m] = row], {}, m)
    BY <1>2, <1>3, WritesOnly
  <1>5. PICK v : v = Record(u, "memory_content_compacted", m)
    OBVIOUS
  <1>6. /\ {"memory_content_compacted", "memory_vector_purge_attempted"} \subseteq Actions
        /\ m \in M \cup {"none"}
    BY DEF Actions
  <1>7. /\ v \in WorkOf(M, X) /\ SameVerdict(u, v) /\ NoFault(u, v)
        /\ ~v.raised => Makes(u, v, u.rows, {"memory_content_compacted"}, m)
    BY <1>4, <1>5, <1>6, Notes
  <1>8. PICK done : done = Record(v, "memory_vector_purge_attempted", m)
    OBVIOUS
  <1>9. /\ done \in WorkOf(M, X) /\ SameVerdict(v, done) /\ (~v.raised => NoFault(v, done))
        /\ v.raised => done.raised
        /\ ~done.raised => Makes(v, done, v.rows, {"memory_vector_purge_attempted"}, m)
    BY <1>6, <1>7, <1>8, Notes
  <1>10. r = Atomic(w, done)
    BY <1>1, <1>3, <1>5, <1>8 DEF Cleared, ClearedRow
  <1>11. Steady(M, X, w, done)
    BY <1>4, <1>7, <1>9 DEF Steady, SameVerdict, NoFault
  <1>12. /\ Steady(M, X, w, r) /\ r.raised = done.raised
         /\ r.raised => Nothing(w, r)
         /\ ~r.raised => Nothing(done, r)
    BY <1>9, <1>10, <1>11, UnitOfWork
  <1>13. ASSUME ~r.raised
         PROVE  Makes(w, r, [w.rows EXCEPT ![m] = row],
                      {"memory_content_compacted", "memory_vector_purge_attempted"}, m)
    <2>1. ~done.raised /\ ~v.raised
      BY <1>9, <1>12, <1>13
    <2>2. u.rows = [w.rows EXCEPT ![m] = row]
      BY <1>4 DEF Makes
    <2>3. v.rows = u.rows /\ done.rows = v.rows /\ r.rows = done.rows
      BY <1>7, <1>9, <1>12, <1>13, <2>1 DEF Makes, Nothing
    <2>4. \A a, n : Tells(r, a, n) <=> Tells(v, a, n) \/ (a = "memory_vector_purge_attempted" /\ n = m)
      BY <1>9, <1>12, <1>13, <2>1 DEF Makes, Nothing
    <2>5. \A a, n : Tells(v, a, n) <=> Tells(w, a, n) \/ (a = "memory_content_compacted" /\ n = m)
      BY <1>4, <1>7, <2>1 DEF Makes
    <2> QED
      BY <2>2, <2>3, <2>4, <2>5 DEF Makes
  <1> QED
    BY <1>1, <1>12, <1>13

\* The look back at what was purged.
LEMMA VerifyDoes ==
  ASSUME NEW M, NEW X, NEW w \in WorkOf(M, X), ~w.raised, NEW m \in M, NEW r, r = VerifyPurge(w, m)
  PROVE  /\ r \in WorkOf(M, X) /\ r.status = w.status /\ NoFault(w, r)
         /\ PurgeVerified(w.rows[m]) =>
              /\ r.findings = w.findings
              /\ \E acts \in SUBSET {"memory_vector_purge_verified", "memory_purge_tombstone_preserved"} :
                   /\ Makes(w, r, w.rows, acts, m)
                   /\ r.raised \/ "memory_vector_purge_verified" \in acts
         /\ ~PurgeVerified(w.rows[m]) =>
              /\ r.findings = w.findings + 1
              /\ r.raised => Nothing(w, r)
              /\ ~r.raised => Makes(w, r, w.rows, {"memory_vector_purge_failed"}, m)
  <1>1. /\ {"memory_vector_purge_verified", "memory_purge_tombstone_preserved",
            "memory_vector_purge_failed"} \subseteq Actions
        /\ m \in M \cup {"none"}
    BY DEF Actions
  <1>2. CASE PurgeVerified(w.rows[m])
    <2>1. PICK v : v = Record(w, "memory_vector_purge_verified", m)
      OBVIOUS
    <2>2. /\ v \in WorkOf(M, X) /\ SameVerdict(w, v) /\ NoFault(w, v)
          /\ v.raised => Nothing(w, v)
          /\ ~v.raised => Makes(w, v, w.rows, {"memory_vector_purge_verified"}, m)
      BY <1>1, <2>1, Notes
    <2>3. r = Record(v, "memory_purge_tombstone_preserved", m)
      BY <1>2, <2>1 DEF VerifyPurge
    <2>4. /\ r \in WorkOf(M, X) /\ SameVerdict(v, r) /\ (~v.raised => NoFault(v, r))
          /\ v.raised => r.raised
          /\ r.raised => Nothing(v, r)
          /\ ~r.raised => Makes(v, r, v.rows, {"memory_purge_tombstone_preserved"}, m)
      <3>1. "memory_purge_tombstone_preserved" \in Actions /\ m \in M \cup {"none"} /\ v \in WorkOf(M, X)
        BY <1>1, <2>2
      <3> QED
        BY <2>3, <3>1, Notes
    <2>5. r.findings = w.findings /\ r.status = w.status /\ NoFault(w, r)
      BY <2>2, <2>4 DEF SameVerdict, NoFault
    <2>6. \E acts \in SUBSET {"memory_vector_purge_verified", "memory_purge_tombstone_preserved"} :
            /\ Makes(w, r, w.rows, acts, m)
            /\ r.raised \/ "memory_vector_purge_verified" \in acts
      <3>1. CASE v.raised
        <4>1. r.raised /\ Makes(w, r, w.rows, {}, m)
          BY <2>2, <2>4, <3>1 DEF Nothing, Makes
        <4> QED
          BY <4>1
      <3>2. CASE ~v.raised /\ r.raised
        <4>1. Makes(w, r, w.rows, {"memory_vector_purge_verified"}, m)
          BY <2>2, <2>4, <3>2, MakesThenNothing
        <4> QED
          BY <4>1
      <3>3. CASE ~v.raised /\ ~r.raised
        <4>1. v.rows = w.rows
          BY <2>2, <3>3 DEF Makes
        <4>2. Makes(w, r, w.rows, {"memory_vector_purge_verified"} \cup {"memory_purge_tombstone_preserved"}, m)
          BY <2>2, <2>4, <3>3, <4>1, MakesThen
        <4> QED
          BY <4>2
      <3> QED
        BY <3>1, <3>2, <3>3
    <2> QED
      BY <1>2, <2>4, <2>5, <2>6
  <1>3. CASE ~PurgeVerified(w.rows[m])
    <2>1. PICK u : u = [w EXCEPT !.findings = @ + 1]
      OBVIOUS
    <2>2. /\ u \in WorkOf(M, X) /\ u.findings = w.findings + 1 /\ u.status = w.status
          /\ u.raised = w.raised /\ u.faultIn = w.faultIn /\ u.rows = w.rows /\ u.trail = w.trail
      BY <2>1, FoundOne
    <2>3. PICK v : v = Count(u, "errors")
      OBVIOUS
    <2>4. /\ v \in WorkOf(M, X) /\ SameVerdict(u, v) /\ v.raised = u.raised
          /\ v.faultIn = u.faultIn /\ Nothing(u, v)
      BY <2>2, <2>3, Counts DEF Counters
    <2>5. r = Record(v, "memory_vector_purge_failed", m)
      BY <1>3, <2>1, <2>3 DEF VerifyPurge
    <2>6. /\ r \in WorkOf(M, X) /\ SameVerdict(v, r) /\ NoFault(v, r)
          /\ r.raised => Nothing(v, r)
          /\ ~r.raised => Makes(v, r, v.rows, {"memory_vector_purge_failed"}, m)
      BY <1>1, <2>2, <2>4, <2>5, Notes
    <2>7. Nothing(w, v)
      BY <2>2, <2>4, SameTrail DEF Nothing
    <2>8. r.findings = w.findings + 1 /\ r.status = w.status /\ NoFault(w, r)
      BY <2>2, <2>4, <2>6 DEF SameVerdict, NoFault
    <2>9. v.rows = w.rows
      BY <2>7 DEF Nothing
    <2>10. r.raised => Nothing(w, r)
      BY <2>6, <2>7, NothingThen
    <2>11. ~r.raised => Makes(w, r, w.rows, {"memory_vector_purge_failed"}, m)
      BY <2>6, <2>7, <2>9, NothingThenMakes
    <2> QED
      BY <1>3, <2>6, <2>8, <2>10, <2>11
  <1> QED
    BY <1>2, <1>3

CompactionIdle(ctx, w, m, copy) ==
  copy.held \/ ~copy.aged \/ ctx.dry \/ w.rows[m].status # "deleted"

\* The rows after a purge: somebody may change one before it is looked back at.
PurgedRows(race, w, m) ==
  IF race.when = "commit" /\ race.on = m THEN [w.rows EXCEPT ![m] = race.row]
  ELSE [w.rows EXCEPT ![m] = ClearedRow(w.rows[m])]

PurgeTold ==
  {"memory_content_compacted", "memory_vector_purge_attempted", "memory_vector_purge_verified",
   "memory_purge_tombstone_preserved", "memory_vector_purge_failed"}

\* The first unit of work is undone, or the row is cleared and looked back at.
PurgeOutcome(race, w, m, r) ==
  \/ r.raised /\ Nothing(w, r)
  \/ \E acts \in SUBSET PurgeTold :
       /\ Makes(w, r, PurgedRows(race, w, m), acts, m) /\ "memory_content_compacted" \in acts
       /\ "memory_vector_purge_verified" \in acts => PurgeVerified(r.rows[m])
       /\ ~r.raised =>
            IF PurgeVerified(r.rows[m])
            THEN /\ r.findings = w.findings /\ "memory_vector_purge_verified" \in acts
                 /\ "memory_vector_purge_failed" \notin acts
            ELSE r.findings = w.findings + 1 /\ "memory_vector_purge_failed" \in acts

LEMMA PurgedDoes ==
  ASSUME NEW M, NEW X, NEW w \in WorkOf(M, X), ~w.raised, NEW m \in M, NEW race, race.row \in Row(X),
         NEW r, r = Purged(race, w, m)
  PROVE  /\ r \in WorkOf(M, X) /\ r.status = w.status /\ NoFault(w, r)
         /\ PurgeOutcome(race, w, m, r)
  <1>1. PICK u : u = Cleared(w, m)
    OBVIOUS
  <1>2. /\ Steady(M, X, w, u)
        /\ u.raised => Nothing(w, u)
        /\ ~u.raised => Makes(w, u, [w.rows EXCEPT ![m] = ClearedRow(w.rows[m])],
                              {"memory_content_compacted", "memory_vector_purge_attempted"}, m)
    BY <1>1, ClearedDoes
  <1>3. PICK v : v = Count(u, "changed")
    OBVIOUS
  <1>4. /\ v \in WorkOf(M, X) /\ SameVerdict(u, v) /\ v.raised = u.raised
        /\ v.faultIn = u.faultIn /\ Nothing(u, v)
    BY <1>2, <1>3, Counts DEF Counters, Steady
  <1>5. PICK x : x = Meddle(v, race, "commit", m)
    OBVIOUS
  <1>6. x \in WorkOf(M, X) /\ IsMeddle(v, race, "commit", m, x)
    BY <1>4, <1>5, Meddled
  <1>7. r = VerifyPurge(x, m)
    BY <1>1, <1>3, <1>5 DEF Purged
  <1>8. /\ x.trail = v.trail /\ x.status = w.status /\ x.findings = w.findings
        /\ x.raised = u.raised /\ x.faultIn = u.faultIn
    BY <1>2, <1>4, <1>6 DEF IsMeddle, SameRest, SameVerdict, Steady
  <1>9. NoFault(w, x)
    BY <1>2, <1>8 DEF Steady, NoFault
  <1>10. CASE u.raised
    <2>1. x.raised /\ x.rows = v.rows
      BY <1>6, <1>4, <1>8, <1>10 DEF IsMeddle
    <2>2. r = x
      BY <1>7, <2>1 DEF VerifyPurge
    <2>3. Nothing(v, x)
      BY <1>8, <2>1, SameTrail DEF Nothing
    <2>4. Nothing(w, r)
      BY <1>2, <1>4, <1>10, <2>2, <2>3, NothingThen
    <2> QED
      BY <1>6, <1>8, <1>9, <2>1, <2>2, <2>4 DEF PurgeOutcome
  <1>11. CASE ~u.raised
    <2>1. ~x.raised
      BY <1>8, <1>11
    <2>2. v.rows = [w.rows EXCEPT ![m] = ClearedRow(w.rows[m])] /\ w.rows \in [M -> Row(X)]
      BY <1>2, <1>4, <1>11 DEF Makes, Nothing, WorkOf
    <2>3. x.rows = PurgedRows(race, w, m)
      BY <1>4, <1>6, <1>11, <2>2 DEF IsMeddle, PurgedRows
    <2>4. Makes(w, x, PurgedRows(race, w, m),
                {"memory_content_compacted", "memory_vector_purge_attempted"}, m)
      <3>1. \A a, n : Tells(x, a, n) <=> Tells(v, a, n)
        BY <1>8, SameTrail
      <3> QED
        BY <1>2, <1>4, <1>11, <2>3, <3>1 DEF Makes, Nothing
    <2>5. r \in WorkOf(M, X) /\ r.status = x.status /\ NoFault(x, r)
      BY <1>6, <1>7, <2>1, VerifyDoes
    <2>6. r.status = w.status /\ NoFault(w, r)
      BY <1>8, <1>9, <2>5 DEF NoFault
    <2>7. CASE PurgeVerified(x.rows[m])
      <3>1. PICK acts \in SUBSET {"memory_vector_purge_verified", "memory_purge_tombstone_preserved"} :
               /\ Makes(x, r, x.rows, acts, m)
               /\ r.raised \/ "memory_vector_purge_verified" \in acts
        BY <1>6, <1>7, <2>1, <2>7, VerifyDoes
      <3>2. r.findings = w.findings
        BY <1>6, <1>7, <1>8, <2>1, <2>7, VerifyDoes
      <3> DEFINE all == {"memory_content_compacted", "memory_vector_purge_attempted"} \cup acts
      <3>3. Makes(w, r, PurgedRows(race, w, m), all, m)
        BY <2>3, <2>4, <3>1, MakesThen
      <3>4. all \in SUBSET PurgeTold /\ "memory_content_compacted" \in all
            /\ "memory_vector_purge_failed" \notin all /\ acts \subseteq all
        BY DEF PurgeTold
      <3>5. r.rows = x.rows
        BY <3>1 DEF Makes
      <3> HIDE DEF all
      <3>6. /\ "memory_vector_purge_verified" \in all => PurgeVerified(r.rows[m])
            /\ ~r.raised =>
                 IF PurgeVerified(r.rows[m])
                 THEN /\ r.findings = w.findings /\ "memory_vector_purge_verified" \in all
                      /\ "memory_vector_purge_failed" \notin all
                 ELSE r.findings = w.findings + 1 /\ "memory_vector_purge_failed" \in all
        BY <2>7, <3>1, <3>2, <3>4, <3>5
      <3> QED
        BY <2>5, <2>6, <3>3, <3>4, <3>6 DEF PurgeOutcome
    <2>8. CASE ~PurgeVerified(x.rows[m])
      <3>1. /\ r.findings = w.findings + 1
            /\ r.raised => Nothing(x, r)
            /\ ~r.raised => Makes(x, r, x.rows, {"memory_vector_purge_failed"}, m)
        BY <1>6, <1>7, <1>8, <2>1, <2>8, VerifyDoes
      <3> DEFINE all == {"memory_content_compacted", "memory_vector_purge_attempted"} \cup
                        (IF r.raised THEN {} ELSE {"memory_vector_purge_failed"})
      <3>2. Makes(w, r, PurgedRows(race, w, m), all, m)
        <4>1. CASE r.raised
          BY <2>4, <3>1, <4>1, MakesThenNothing
        <4>2. CASE ~r.raised
          BY <2>3, <2>4, <3>1, <4>2, MakesThen
        <4> QED
          BY <4>1, <4>2
      <3>3. /\ all \in SUBSET PurgeTold /\ "memory_content_compacted" \in all
            /\ "memory_vector_purge_verified" \notin all
            /\ ~r.raised => "memory_vector_purge_failed" \in all
        BY DEF PurgeTold
      <3>4. r.rows = x.rows
        BY <3>1 DEF Makes, Nothing
      <3> HIDE DEF all
      <3>5. /\ "memory_vector_purge_verified" \in all => PurgeVerified(r.rows[m])
            /\ ~r.raised =>
                 IF PurgeVerified(r.rows[m])
                 THEN /\ r.findings = w.findings /\ "memory_vector_purge_verified" \in all
                      /\ "memory_vector_purge_failed" \notin all
                 ELSE r.findings = w.findings + 1 /\ "memory_vector_purge_failed" \in all
        BY <2>8, <3>1, <3>3, <3>4
      <3> QED
        BY <2>5, <2>6, <3>2, <3>3, <3>5 DEF PurgeOutcome
    <2> QED
      BY <2>7, <2>8
  <1> QED
    BY <1>10, <1>11

LEMMA CompactionDoes ==
  ASSUME NEW M, NEW X, NEW w \in WorkOf(M, X), ~w.raised, NEW m \in M, NEW copy, NEW ctx,
         NEW race, race.row \in Row(X), NEW r, r = CompactionItem(ctx, race, w, m, copy)
  PROVE  /\ r \in WorkOf(M, X) /\ r.status = w.status /\ NoFault(w, r)
         /\ CompactionIdle(ctx, w, m, copy) =>
              /\ r.findings = w.findings
              /\ Nothing(w, r) \/ Makes(w, r, w.rows, {"memory_legal_hold_compaction_blocked"}, m)
         /\ ~CompactionIdle(ctx, w, m, copy) => PurgeOutcome(race, w, m, r)
  <1>1. "memory_legal_hold_compaction_blocked" \in Actions /\ m \in M \cup {"none"}
    BY DEF Actions
  <1>2. PICK v : v = Count(w, "skipped")
    OBVIOUS
  <1>3. Steady(M, X, w, v) /\ Nothing(w, v) /\ ~v.raised /\ v \in WorkOf(M, X) /\ v.rows = w.rows
    BY <1>2, CountIsSteady DEF Counters, Steady, Nothing
  <1>4. PICK u : u = Eligible(w)
    OBVIOUS
  <1>5. /\ u \in WorkOf(M, X) /\ ~u.raised /\ u.faultIn = w.faultIn /\ u.status = w.status
        /\ u.findings = w.findings /\ u.rows = w.rows /\ u.trail = w.trail
    <2>1. u = [w EXCEPT !.eligible = w.eligible + 1] /\ w.eligible + 1 \in Nat
      BY <1>4 DEF Eligible, WorkOf
    <2>2. u \in WorkOf(M, X)
      BY <2>1 DEF WorkOf
    <2> QED
      BY <2>1, <2>2 DEF WorkOf
  <1>6. Steady(M, X, w, u) /\ Nothing(w, u)
    BY <1>5, SameTrail DEF Steady, SameVerdict, NoFault, Nothing
  <1>7. CASE copy.held
    <2>1. r = Record(v, "memory_legal_hold_compaction_blocked", m)
      BY <1>2, <1>7 DEF CompactionItem
    <2>2. /\ r \in WorkOf(M, X) /\ SameVerdict(v, r) /\ NoFault(v, r)
          /\ r.raised => Nothing(v, r)
          /\ ~r.raised => Makes(v, r, v.rows, {"memory_legal_hold_compaction_blocked"}, m)
      BY <1>1, <1>3, <2>1, Notes
    <2>3. Steady(M, X, w, r)
      BY <1>3, <2>2 DEF Steady, SameVerdict, NoFault
    <2>4. r.raised => Nothing(w, r)
      BY <1>3, <2>2, NothingThen
    <2>5. ~r.raised => Makes(w, r, w.rows, {"memory_legal_hold_compaction_blocked"}, m)
      BY <1>3, <2>2, NothingThenMakes
    <2> QED
      BY <1>7, <2>3, <2>4, <2>5 DEF CompactionIdle, Steady, SameVerdict
  <1>8. CASE ~copy.held /\ ~copy.aged
    <2>1. r = v
      BY <1>2, <1>8 DEF CompactionItem
    <2> QED
      BY <1>3, <1>8, <2>1 DEF CompactionIdle, Steady, SameVerdict
  <1>9. CASE ~copy.held /\ copy.aged /\ (ctx.dry \/ w.rows[m].status # "deleted")
    <2>1. PICK c \in Counters : r = Count(u, c)
      <3>1. r = Count(u, "changed") \/ r = Count(u, "skipped")
        BY <1>4, <1>9 DEF CompactionItem
      <3> QED
        BY <3>1 DEF Counters
    <2>2. Steady(M, X, u, r) /\ Nothing(u, r)
      BY <1>5, <2>1, CountIsSteady
    <2>3. Steady(M, X, w, r) /\ Nothing(w, r)
      BY <1>6, <2>2, SteadyThen, NothingThen
    <2> QED
      BY <1>9, <2>3 DEF CompactionIdle, Steady, SameVerdict
  <1>10. CASE ~CompactionIdle(ctx, w, m, copy)
    <2>1. r = Purged(race, u, m)
      BY <1>4, <1>10 DEF CompactionItem, CompactionIdle
    <2>2. r \in WorkOf(M, X) /\ r.status = u.status /\ NoFault(u, r) /\ PurgeOutcome(race, u, m, r)
      BY <1>5, <2>1, PurgedDoes
    <2>3. r.status = w.status /\ NoFault(w, r)
      BY <1>5, <2>2 DEF NoFault
    <2>4. PurgedRows(race, u, m) = PurgedRows(race, w, m)
      BY <1>5 DEF PurgedRows
    <2>5. PurgeOutcome(race, w, m, r)
      <3>1. CASE r.raised /\ Nothing(u, r)
        BY <1>6, <3>1, NothingThen DEF PurgeOutcome
      <3>2. CASE ~(r.raised /\ Nothing(u, r))
        <4>1. PICK acts \in SUBSET PurgeTold :
                /\ Makes(u, r, PurgedRows(race, u, m), acts, m) /\ "memory_content_compacted" \in acts
                /\ "memory_vector_purge_verified" \in acts => PurgeVerified(r.rows[m])
                /\ ~r.raised =>
                     IF PurgeVerified(r.rows[m])
                     THEN /\ r.findings = u.findings /\ "memory_vector_purge_verified" \in acts
                          /\ "memory_vector_purge_failed" \notin acts
                     ELSE r.findings = u.findings + 1 /\ "memory_vector_purge_failed" \in acts
          BY <2>2, <3>2 DEF PurgeOutcome
        <4>2. Makes(w, r, PurgedRows(race, w, m), acts, m)
          BY <1>6, <2>4, <4>1, NothingThenMakes
        <4> QED
          BY <1>5, <4>1, <4>2 DEF PurgeOutcome
      <3> QED
        BY <3>1, <3>2
    <2> QED
      BY <1>10, <2>2, <2>3, <2>5
  <1> QED
    BY <1>7, <1>8, <1>9, <1>10 DEF CompactionIdle

LEMMA VerificationDoes ==
  ASSUME NEW M, NEW X, NEW w \in WorkOf(M, X), ~w.raised, NEW m \in M,
         NEW r, r = VerificationItem(w, m)
  PROVE  /\ r \in WorkOf(M, X) /\ r.status = w.status /\ NoFault(w, r)
         /\ ~Reachable(w.rows[m]) => r = w
         /\ Reachable(w.rows[m]) =>
              /\ r.findings = w.findings + 1
              /\ r.raised => Nothing(w, r)
              /\ ~r.raised => Makes(w, r, w.rows, {"deletion_verification_failed"}, m)
  <1>1. CASE ~Reachable(w.rows[m])
    BY <1>1 DEF VerificationItem, NoFault
  <1>2. CASE Reachable(w.rows[m])
    <2>1. PICK u : u = [w EXCEPT !.findings = @ + 1]
      OBVIOUS
    <2>2. /\ u \in WorkOf(M, X) /\ u.findings = w.findings + 1 /\ u.status = w.status
          /\ u.raised = w.raised /\ u.faultIn = w.faultIn /\ u.rows = w.rows /\ u.trail = w.trail
      BY <2>1, FoundOne
    <2>3. PICK v : v = Record(u, "deletion_verification_failed", m)
      OBVIOUS
    <2>4. "deletion_verification_failed" \in Actions /\ m \in M \cup {"none"}
      BY DEF Actions
    <2>5. /\ v \in WorkOf(M, X) /\ SameVerdict(u, v) /\ NoFault(u, v)
          /\ v.raised => Nothing(u, v)
          /\ ~v.raised => Makes(u, v, u.rows, {"deletion_verification_failed"}, m)
      BY <2>2, <2>3, <2>4, Notes
    <2>6. r = Count(v, "errors")
      BY <1>2, <2>1, <2>3 DEF VerificationItem
    <2>7. /\ r \in WorkOf(M, X) /\ SameVerdict(v, r) /\ r.raised = v.raised
          /\ r.faultIn = v.faultIn /\ Nothing(v, r)
      BY <2>5, <2>6, Counts DEF Counters
    <2>8. r.findings = w.findings + 1 /\ r.status = w.status /\ NoFault(w, r)
      BY <2>2, <2>5, <2>7 DEF SameVerdict, NoFault
    <2>9. Nothing(w, u)
      BY <2>2, SameTrail DEF Nothing
    <2>10. r.raised => Nothing(w, r)
      BY <2>5, <2>7, <2>9, NothingThen
    <2>11. ~r.raised => Makes(w, r, w.rows, {"deletion_verification_failed"}, m)
      <3>1. ~r.raised => Makes(w, v, w.rows, {"deletion_verification_failed"}, m)
        BY <2>2, <2>5, <2>7, <2>9, NothingThenMakes
      <3> QED
        BY <2>7, <3>1, MakesThenNothing
    <2> QED
      BY <1>2, <2>7, <2>8, <2>10, <2>11
  <1> QED
    BY <1>1, <1>2

Proposals == {"conflict_candidate_detected", "reflection_candidate_detected"}

\* A look at some memories that may propose something.
LEMMA ProposalDoes ==
  ASSUME NEW M, NEW X, NEW w \in WorkOf(M, X), ~w.raised, NEW n \in M \cup {"none"},
         NEW action \in Proposals, NEW r,
         r = Count(w, "skipped") \/ r = Count(Record(w, action, n), "changed")
  PROVE  /\ Steady(M, X, w, r)
         /\ Nothing(w, r) \/ (~r.raised /\ Makes(w, r, w.rows, {action}, n))
  <1>1. CASE r = Count(w, "skipped")
    BY <1>1, CountIsSteady DEF Counters
  <1>2. CASE r = Count(Record(w, action, n), "changed")
    <2>1. PICK v : v = Record(w, action, n)
      OBVIOUS
    <2>2. action \in Actions
      BY DEF Actions, Proposals
    <2>3. /\ v \in WorkOf(M, X) /\ SameVerdict(w, v) /\ NoFault(w, v)
          /\ v.raised => Nothing(w, v)
          /\ ~v.raised => Makes(w, v, w.rows, {action}, n)
      BY <2>1, <2>2, Notes
    <2>4. /\ r \in WorkOf(M, X) /\ SameVerdict(v, r) /\ r.raised = v.raised
          /\ r.faultIn = v.faultIn /\ Nothing(v, r)
      BY <1>2, <2>1, <2>3, Counts DEF Counters
    <2>5. Steady(M, X, w, r)
      BY <2>3, <2>4 DEF Steady, SameVerdict, NoFault
    <2>6. r.raised => Nothing(w, r)
      BY <2>3, <2>4, NothingThen
    <2>7. ~r.raised => Makes(w, r, w.rows, {action}, n)
      BY <2>3, <2>4, MakesThenNothing
    <2> QED
      BY <2>5, <2>6, <2>7
  <1> QED
    BY <1>1, <1>2

-----------------------------------------------------------------------------
(* The loop of a job.                                                       *)

OneByOne == {"decay", "archive", "retention"}

Proposing == {"conflict_scan", "reflection", "clusters"}

Phases == OneByOne \cup Proposing \cup {"deletion_compaction", "deletion_verification"}

\* What becomes of a row, and what is told of it.
RowAfter(phase, ctx, row, copy) ==
  CASE phase = "decay" -> IF DecayIdle(ctx, copy) THEN row ELSE [copy EXCEPT !.decayed = TRUE]
    [] phase = "archive" -> IF ArchiveIdle(copy) \/ ctx.dry THEN row ELSE [copy EXCEPT !.status = "archived"]
    [] OTHER -> IF RetentionPreview(ctx) THEN row
                ELSE IF RetentionOutcome(copy) \in {"held", "kept"} THEN Stamped(copy) ELSE Dropped(row)

ActsOf(phase, ctx, copy) ==
  CASE phase = "decay" -> IF DecayIdle(ctx, copy) THEN {} ELSE {"memory_decay_applied"}
    [] phase = "archive" -> IF ArchiveIdle(copy) THEN {}
                            ELSE IF ctx.dry THEN {"memory_archive_candidate"}
                            ELSE {"memory_archived_by_worker"}
    [] OTHER -> IF RetentionOutcome(copy) = "kept" THEN {}
                ELSE {"retention_decision_recorded", OutcomeAction[RetentionOutcome(copy)]}

LEMMA ScannedFirst ==
  ASSUME NEW M, NEW X, NEW w \in WorkOf(M, X), ~w.raised, NEW v, v = Scanned(w)
  PROVE  Steady(M, X, w, v) /\ Nothing(w, v) /\ ~v.raised /\ v \in WorkOf(M, X) /\ v.rows = w.rows
  BY CountIsSteady DEF Counters, Steady, Nothing, Scanned

LEMMA OneByOneDoes ==
  ASSUME NEW M, NEW X, NEW w \in WorkOf(M, X), ~w.raised, NEW m \in M, NEW seen \in [M -> Row(X)],
         NEW ctx, NEW race, NEW phase \in OneByOne, NEW r, r = Item(phase, ctx, race, seen, w, m)
  PROVE  /\ Steady(M, X, w, r)
         /\ r.raised => Nothing(w, r)
         /\ ~r.raised => Makes(w, r, [w.rows EXCEPT ![m] = RowAfter(phase, ctx, w.rows[m], seen[m])],
                               ActsOf(phase, ctx, seen[m]), m)
  <1>1. PICK v : v = Scanned(w)
    OBVIOUS
  <1>2. Steady(M, X, w, v) /\ Nothing(w, v) /\ ~v.raised /\ v \in WorkOf(M, X) /\ v.rows = w.rows
    BY <1>1, ScannedFirst
  <1>3. PICK copy \in Row(X) : copy = seen[m]
    OBVIOUS
  <1> DEFINE rows == [w.rows EXCEPT ![m] = RowAfter(phase, ctx, w.rows[m], copy)]
             acts == ActsOf(phase, ctx, copy)
  <1>4. w.rows = [w.rows EXCEPT ![m] = w.rows[m]]
    BY DEF WorkOf
  <1>5. Steady(M, X, v, r) /\ (r.raised => Nothing(v, r)) /\ (~r.raised => Makes(v, r, rows, acts, m))
    <2>1. CASE phase = "decay"
      <3>1. r = DecayItem(ctx, v, m, copy)
        BY <1>1, <1>3, <2>1 DEF Item
      <3>2. /\ Steady(M, X, v, r)
            /\ r.raised \/ DecayIdle(ctx, copy) => Nothing(v, r)
            /\ ~r.raised /\ ~DecayIdle(ctx, copy) =>
                 Makes(v, r, [v.rows EXCEPT ![m] = [copy EXCEPT !.decayed = TRUE]],
                       {"memory_decay_applied"}, m)
        BY <1>2, <3>1, DecayDoes
      <3>3. DecayIdle(ctx, copy) => rows = w.rows /\ acts = {}
        BY <1>4, <2>1 DEF RowAfter, ActsOf
      <3>4. ~DecayIdle(ctx, copy) => /\ rows = [w.rows EXCEPT ![m] = [copy EXCEPT !.decayed = TRUE]]
                                     /\ acts = {"memory_decay_applied"}
        BY <2>1 DEF RowAfter, ActsOf
      <3> HIDE DEF rows, acts
      <3>5. Nothing(v, r) => Makes(v, r, w.rows, {}, m)
        BY <1>2 DEF Nothing, Makes
      <3> QED
        BY <1>2, <3>2, <3>3, <3>4, <3>5
    <2>2. CASE phase = "archive"
      <3>1. r = ArchiveItem(ctx, v, m, copy)
        BY <1>1, <1>3, <2>2 DEF Item
      <3>2. /\ Steady(M, X, v, r)
            /\ r.raised \/ ArchiveIdle(copy) => Nothing(v, r)
            /\ ~r.raised /\ ~ArchiveIdle(copy) =>
                 IF ctx.dry THEN Makes(v, r, v.rows, {"memory_archive_candidate"}, m)
                 ELSE Makes(v, r, [v.rows EXCEPT ![m] = [copy EXCEPT !.status = "archived"]],
                            {"memory_archived_by_worker"}, m)
        BY <1>2, <3>1, ArchiveDoes
      <3>3. ArchiveIdle(copy) => rows = w.rows /\ acts = {}
        BY <1>4, <2>2 DEF RowAfter, ActsOf
      <3>4. ~ArchiveIdle(copy) /\ ctx.dry => rows = w.rows /\ acts = {"memory_archive_candidate"}
        BY <1>4, <2>2 DEF RowAfter, ActsOf
      <3>5. ~ArchiveIdle(copy) /\ ~ctx.dry =>
              /\ rows = [w.rows EXCEPT ![m] = [copy EXCEPT !.status = "archived"]]
              /\ acts = {"memory_archived_by_worker"}
        BY <2>2 DEF RowAfter, ActsOf
      <3> HIDE DEF rows, acts
      <3>6. Nothing(v, r) => Makes(v, r, w.rows, {}, m)
        BY <1>2 DEF Nothing, Makes
      <3> QED
        BY <1>2, <3>2, <3>3, <3>4, <3>5, <3>6
    <2>3. CASE phase = "retention"
      <3>1. r = RetentionItem(ctx, v, m, copy)
        BY <1>1, <1>3, <2>3 DEF Item
      <3>2. /\ Steady(M, X, v, r)
            /\ r.raised => Nothing(v, r)
            /\ ~r.raised => Makes(v, r, RetainedRows(ctx, v.rows, m, copy), RetentionActs(copy), m)
        BY <1>2, <3>1, RetentionDoes
      <3>3. acts = RetentionActs(copy)
        BY <2>3 DEF ActsOf, RetentionActs
      <3>4. rows = RetainedRows(ctx, v.rows, m, copy)
        <4>1. CASE RetentionPreview(ctx)
          BY <1>2, <1>4, <2>3, <4>1 DEF RowAfter, RetainedRows
        <4>2. CASE ~RetentionPreview(ctx)
          BY <1>2, <2>3, <4>2 DEF RowAfter, RetainedRows
        <4> QED
          BY <4>1, <4>2
      <3> HIDE DEF rows, acts
      <3> QED
        BY <3>2, <3>3, <3>4
    <2> QED
      BY <2>1, <2>2, <2>3 DEF OneByOne
  <1> HIDE DEF rows, acts
  <1>6. Steady(M, X, w, r)
    BY <1>2, <1>5, SteadyThen
  <1>7. r.raised => Nothing(w, r)
    BY <1>2, <1>5, NothingThen
  <1>8. ~r.raised => Makes(w, r, rows, acts, m)
    BY <1>2, <1>5, NothingThenMakes
  <1> QED
    BY <1>3, <1>6, <1>7, <1>8 DEF rows, acts

LEMMA ProposingDoes ==
  ASSUME NEW M, NEW X, NEW w \in WorkOf(M, X), ~w.raised, NEW m \in M, NEW seen,
         NEW ctx, NEW race, NEW phase \in Proposing, NEW r, r = Item(phase, ctx, race, seen, w, m)
  PROVE  /\ Steady(M, X, w, r)
         /\ \/ Nothing(w, r)
            \/ \E n \in M \cup {"none"}, a \in Proposals : Makes(w, r, w.rows, {a}, n)
  <1>1. PICK v : v = Scanned(w)
    OBVIOUS
  <1>2. Steady(M, X, w, v) /\ Nothing(w, v) /\ ~v.raised /\ v \in WorkOf(M, X) /\ v.rows = w.rows
    BY <1>1, ScannedFirst
  <1>3. CASE phase = "reflection"
    <2>1. r = v
      BY <1>1, <1>3 DEF Item
    <2> QED
      BY <1>2, <2>1
  <1>4. CASE phase = "conflict_scan"
    <2>1. r = ConflictItem(ctx, v, m, seen)
      BY <1>1, <1>4 DEF Item
    <2>2. r = Count(v, "skipped") \/ r = Count(Record(v, "conflict_candidate_detected", m), "changed")
      BY <2>1 DEF ConflictItem
    <2>3. /\ Steady(M, X, v, r)
          /\ Nothing(v, r) \/ Makes(v, r, v.rows, {"conflict_candidate_detected"}, m)
      BY <1>2, <2>2, ProposalDoes DEF Proposals
    <2>4. Steady(M, X, w, r)
      BY <1>2, <2>3, SteadyThen
    <2>5. Nothing(w, r) \/ Makes(w, r, w.rows, {"conflict_candidate_detected"}, m)
      BY <1>2, <2>3, NothingThen, NothingThenMakes
    <2> QED
      BY <2>4, <2>5 DEF Proposals
  <1>5. CASE phase = "clusters"
    <2>1. r = ClusterItem(w, m, seen)
      BY <1>5 DEF Item
    <2>2. r = Count(w, "skipped") \/ r = Count(Record(w, "reflection_candidate_detected", "none"), "changed")
      BY <2>1 DEF ClusterItem
    <2>3. /\ Steady(M, X, w, r)
          /\ Nothing(w, r) \/ Makes(w, r, w.rows, {"reflection_candidate_detected"}, "none")
      BY <2>2, ProposalDoes DEF Proposals
    <2> QED
      BY <2>3 DEF Proposals
  <1> QED
    BY <1>3, <1>4, <1>5 DEF Proposing

\* The work before the first k of the order, and after each.
AreTurns(done, phase, ctx, race, seen, order, s, n) ==
  done = [k \in 0..n |->
           IF k = 0 THEN s
           ELSE IF done[k - 1].raised \/ order[k] \notin Listing(phase, seen, order) THEN done[k - 1]
           ELSE Item(phase, ctx, race, seen, done[k - 1], order[k])]

LEMMA TurnsExist ==
  ASSUME NEW phase, NEW ctx, NEW race, NEW seen, NEW order, NEW s
  PROVE  \A n \in Nat : \E done : AreTurns(done, phase, ctx, race, seen, order, s, n)
  <1> DEFINE Go(w, k) ==
               IF w.raised \/ order[k] \notin Listing(phase, seen, order) THEN w
               ELSE Item(phase, ctx, race, seen, w, order[k])
             Turns(f, n) == f = [k \in 0..n |-> IF k = 0 THEN s ELSE Go(f[k - 1], k)]
             S == {n \in Nat : \E f : Turns(f, n)}
  <1>1. 0 \in S
    <2>1. PICK f : f = [k \in 0..0 |-> s]
      OBVIOUS
    <2> HIDE DEF Go
    <2>2. Turns(f, 0)
      BY <2>1
    <2> QED
      BY <2>2
  <1>2. ASSUME NEW n \in S PROVE n + 1 \in S
    <2> HIDE DEF Go
    <2>1. PICK f : Turns(f, n)
      OBVIOUS
    <2>2. PICK g : g = [k \in 0..n + 1 |-> IF k = n + 1 THEN Go(f[n], n + 1) ELSE f[k]]
      OBVIOUS
    <2>3. \A k \in 0..n : g[k] = f[k]
      BY <2>2
    <2>4. ASSUME NEW k \in 0..n + 1
          PROVE  g[k] = IF k = 0 THEN s ELSE Go(g[k - 1], k)
      <3>1. CASE k = n + 1
        BY <2>2, <2>3, <3>1
      <3>2. CASE k \in 0..n
        <4>1. g[k] = f[k] /\ (k # 0 => g[k - 1] = f[k - 1])
          BY <2>3, <3>2
        <4> QED
          BY <2>1, <3>2, <4>1
      <3> QED
        BY <2>4, <3>1, <3>2
    <2>5. g = [k \in 0..n + 1 |-> g[k]]
      BY <2>2
    <2>6. Turns(g, n + 1)
      BY <2>4, <2>5
    <2> QED
      BY <2>6
  <1> HIDE DEF S
  <1>3. S \in SUBSET Nat
    BY DEF S
  <1>4. S = Nat
    BY <1>1, <1>2, <1>3, SetInduction
  <1>5. \A f, n : Turns(f, n) => AreTurns(f, phase, ctx, race, seen, order, s, n)
    BY DEF AreTurns
  <1> QED
    BY <1>4, <1>5 DEF S

LEMMA LoopIsItsTurns ==
  ASSUME NEW phase, NEW ctx, NEW race, NEW seen, NEW order, NEW s, Len(order) \in Nat
  PROVE  \E done : /\ AreTurns(done, phase, ctx, race, seen, order, s, Len(order))
                   /\ ForEach(phase, ctx, race, seen, order, s) = done[Len(order)]
  <1>1. PICK n \in Nat : n = Len(order)
    OBVIOUS
  <1> DEFINE done == CHOOSE done : AreTurns(done, phase, ctx, race, seen, order, s, n)
  <1>2. AreTurns(done, phase, ctx, race, seen, order, s, n)
    BY TurnsExist
  <1>3. ForEach(phase, ctx, race, seen, order, s) = done[n]
    BY <1>1 DEF ForEach, AreTurns
  <1> QED
    BY <1>1, <1>2, <1>3

\* What holds before the loop and is kept by every turn holds after it; S is
\* the pairs of a place in the order and the work there.
LEMMA LoopKeeps ==
  ASSUME NEW phase, NEW ctx, NEW race, NEW seen, NEW order, NEW s, Len(order) \in Nat,
         NEW S, <<0, s>> \in S,
         \A k \in 1..Len(order) : \A w : <<k - 1, w>> \in S =>
           /\ w.raised \/ order[k] \notin Listing(phase, seen, order) => <<k, w>> \in S
           /\ ~w.raised /\ order[k] \in Listing(phase, seen, order) =>
                <<k, Item(phase, ctx, race, seen, w, order[k])>> \in S
  PROVE  <<Len(order), ForEach(phase, ctx, race, seen, order, s)>> \in S
  <1>1. PICK done : /\ AreTurns(done, phase, ctx, race, seen, order, s, Len(order))
                    /\ ForEach(phase, ctx, race, seen, order, s) = done[Len(order)]
    BY LoopIsItsTurns
  <1> DEFINE T == {k \in Nat : k <= Len(order) => <<k, done[k]>> \in S}
  <1>2. done[0] = s
    BY <1>1 DEF AreTurns
  <1>3. 0 \in T
    BY <1>2
  <1>4. ASSUME NEW k \in T PROVE k + 1 \in T
    <2> SUFFICES ASSUME k + 1 <= Len(order) PROVE <<k + 1, done[k + 1]>> \in S
      OBVIOUS
    <2>1. k + 1 \in 1..Len(order) /\ (k + 1) - 1 = k /\ <<k, done[k]>> \in S
      OBVIOUS
    <2>2. done[k + 1] = IF done[k].raised \/ order[k + 1] \notin Listing(phase, seen, order) THEN done[k]
                        ELSE Item(phase, ctx, race, seen, done[k], order[k + 1])
      BY <1>1, <2>1 DEF AreTurns
    <2> QED
      BY <2>1, <2>2
  <1>5. T = Nat
    <2> HIDE DEF T
    <2>1. T \in SUBSET Nat
      BY DEF T
    <2> QED
      BY <1>3, <1>4, <2>1, SetInduction
  <1>6. Len(order) \in T
    BY <1>5
  <1> QED
    BY <1>1, <1>6

-----------------------------------------------------------------------------
(* What is purged.                                                          *)

PurgeActs ==
  {"memory_content_compacted", "memory_vector_purge_verified", "memory_vector_purge_failed",
   "deletion_verification_failed", "deletion_verification_passed"}

\* Only deleted rows that were not held lose their content, and holds stay.
SoundRows(M, X, first, rows) ==
  /\ rows \in [M -> Row(X)]
  /\ \A m \in M : rows[m].held = first[m].held
  /\ \A m \in M : rows[m].cleared =>
       rows[m].status = "deleted" /\ ~(first[m].held /\ ~first[m].cleared)

\* What is called verified lost its content.
SoundWork(M, X, first, s) ==
  /\ s \in WorkOf(M, X) /\ SoundRows(M, X, first, s.rows)
  /\ \A m \in M : Tells(s, "memory_vector_purge_verified", m) => s.rows[m].cleared

SamePurges(w, r) ==
  /\ r.status = w.status /\ r.findings = w.findings
  /\ \A a \in PurgeActs : \A n : Tells(r, a, n) <=> Tells(w, a, n)

LEMMA RowAfterIsSound ==
  ASSUME NEW X, NEW row \in Row(X), NEW copy \in Row(X), copy.status = "active", ~copy.cleared,
         copy.held = row.held, NEW ctx, NEW phase, NEW new, new = RowAfter(phase, ctx, row, copy)
  PROVE  /\ new \in Row(X) /\ new.held = row.held
         /\ new.cleared => row.cleared /\ (row.status = "deleted" => new.status = "deleted")
  <1>1. \/ new = row \/ new = [copy EXCEPT !.decayed = TRUE] \/ new = [copy EXCEPT !.status = "archived"]
        \/ new = Stamped(copy) \/ new = Dropped(row)
    BY DEF RowAfter
  <1>2. /\ [copy EXCEPT !.decayed = TRUE] \in Row(X) /\ [copy EXCEPT !.status = "archived"] \in Row(X)
        /\ Stamped(copy) \in Row(X) /\ Dropped(row) \in Row(X)
    BY RowChanges
  <1>3. /\ [copy EXCEPT !.decayed = TRUE].held = copy.held /\ ~[copy EXCEPT !.decayed = TRUE].cleared
        /\ [copy EXCEPT !.status = "archived"].held = copy.held
        /\ ~[copy EXCEPT !.status = "archived"].cleared
        /\ Stamped(copy).held = copy.held /\ ~Stamped(copy).cleared
    BY DEF Stamped, Row
  <1>4. /\ Dropped(row).held = row.held /\ Dropped(row).status = "deleted"
        /\ Dropped(row).cleared = row.cleared
    BY DEF Dropped, Row
  <1> QED
    BY <1>1, <1>2, <1>3, <1>4

LEMMA OtherActsKeepPurges ==
  ASSUME NEW w, NEW r, SameVerdict(w, r), NEW rows, NEW acts, acts \cap PurgeActs = {}, NEW n,
         Nothing(w, r) \/ Makes(w, r, rows, acts, n)
  PROVE  SamePurges(w, r)
  <1>1. \A a \in PurgeActs : \A m : Tells(r, a, m) <=> Tells(w, a, m)
    BY DEF Nothing, Makes
  <1> QED
    BY <1>1 DEF SamePurges, SameVerdict

\* What the jobs that purge nothing leave: seen is what they listed.
QuietWork(M, X, first, seen, s, r) ==
  /\ SoundWork(M, X, first, r) /\ SamePurges(s, r)
  /\ \A m \in M : seen[m].status = "active" => ~r.rows[m].cleared

LEMMA QuietAfter ==
  ASSUME NEW M, NEW X, NEW first, NEW seen, NEW s, NEW w, QuietWork(M, X, first, seen, s, w),
         NEW r \in WorkOf(M, X), SamePurges(w, r), r.rows = w.rows
  PROVE  QuietWork(M, X, first, seen, s, r)
  <1>1. "memory_vector_purge_verified" \in PurgeActs
    BY DEF PurgeActs
  <1>2. SoundWork(M, X, first, r)
    BY <1>1 DEF QuietWork, SoundWork, SamePurges
  <1>3. SamePurges(s, r)
    BY DEF QuietWork, SamePurges
  <1> QED
    BY <1>2, <1>3 DEF QuietWork

LEMMA QuietTurn ==
  ASSUME NEW M, NEW X, NEW first, NEW seen, SoundRows(M, X, first, seen), NEW s, NEW w, ~w.raised,
         QuietWork(M, X, first, seen, s, w), NEW ctx, NEW race, NEW order,
         NEW phase \in OneByOne \cup Proposing, NEW m \in M, m \in Listing(phase, seen, order),
         NEW r, r = Item(phase, ctx, race, seen, w, m)
  PROVE  QuietWork(M, X, first, seen, s, r)
  <1>1. w \in WorkOf(M, X) /\ seen \in [M -> Row(X)]
    BY DEF QuietWork, SoundWork, SoundRows
  <1>2. CASE phase \in Proposing
    <2>1. Steady(M, X, w, r)
      BY <1>1, <1>2, ProposingDoes
    <2>2. Nothing(w, r) \/ \E n \in M \cup {"none"}, a \in Proposals : Makes(w, r, w.rows, {a}, n)
      BY <1>1, <1>2, ProposingDoes
    <2>3. r.rows = w.rows
      BY <2>2 DEF Nothing, Makes
    <2>4. \A a \in Proposals : {a} \cap PurgeActs = {}
      BY DEF Proposals, PurgeActs
    <2>5. SamePurges(w, r)
      <3>1. CASE Nothing(w, r)
        BY <2>1, <3>1 DEF Nothing, SamePurges, SameVerdict, Steady
      <3>2. CASE ~Nothing(w, r)
        <4>1. PICK n \in M \cup {"none"}, a \in Proposals : Makes(w, r, w.rows, {a}, n)
          BY <2>2, <3>2
        <4>2. PICK acts : acts = {a} /\ acts \cap PurgeActs = {} /\ Makes(w, r, w.rows, acts, n)
          BY <2>4, <4>1
        <4> QED
          BY <2>1, <4>2, OtherActsKeepPurges DEF Steady
      <3> QED
        BY <3>1, <3>2
    <2> QED
      BY <2>1, <2>3, <2>5, QuietAfter DEF Steady
  <1>3. CASE phase \in OneByOne
    <2>1. seen[m].status = "active" /\ ~seen[m].cleared /\ ~w.rows[m].cleared
          /\ seen[m].held = w.rows[m].held /\ w.rows \in [M -> Row(X)]
      <3>1. m \in ActiveMemories(seen)
        BY <1>3 DEF Listing, OneByOne
      <3> QED
        BY <1>1, <3>1 DEF ActiveMemories, QuietWork, SoundWork, SoundRows
    <2>2. PICK new : new = RowAfter(phase, ctx, w.rows[m], seen[m])
      OBVIOUS
    <2>3. PICK acts : acts = ActsOf(phase, ctx, seen[m])
      OBVIOUS
    <2>4. /\ Steady(M, X, w, r)
          /\ r.raised => Nothing(w, r)
          /\ ~r.raised => Makes(w, r, [w.rows EXCEPT ![m] = new], acts, m)
      BY <1>1, <1>3, <2>2, <2>3, OneByOneDoes
    <2>5. new \in Row(X) /\ new.held = w.rows[m].held /\ ~new.cleared
      BY <1>1, <2>1, <2>2, RowAfterIsSound
    <2>6. acts \cap PurgeActs = {}
      <3>1. RetentionOutcome(seen[m]) \in {"held", "kept", "expired", "consent_revoked"}
        BY <1>1 DEF RetentionOutcome, Row
      <3> QED
        BY <2>3, <3>1 DEF ActsOf, PurgeActs, OutcomeAction
    <2>7. SamePurges(w, r) /\ r \in WorkOf(M, X)
      BY <2>4, <2>6, OtherActsKeepPurges DEF Steady
    <2>8. CASE r.raised
      <3>1. r.rows = w.rows
        BY <2>4, <2>8 DEF Nothing
      <3> QED
        BY <2>7, <3>1, QuietAfter
    <2>9. CASE ~r.raised
      <3>1. r.rows = [w.rows EXCEPT ![m] = new]
        BY <2>4, <2>9 DEF Makes
      <3>2. SoundRows(M, X, first, r.rows)
        BY <2>1, <2>5, <3>1 DEF QuietWork, SoundWork, SoundRows
      <3>3. \A n \in M : w.rows[n].cleared => r.rows[n].cleared
        BY <2>1, <3>1
      <3>4. \A n \in M : Tells(r, "memory_vector_purge_verified", n) => w.rows[n].cleared
        BY <2>7 DEF SamePurges, PurgeActs, QuietWork, SoundWork
      <3>5. \A n \in M : seen[n].status = "active" => ~r.rows[n].cleared
        BY <2>1, <2>5, <3>1 DEF QuietWork
      <3>6. SamePurges(s, r)
        BY <2>7 DEF QuietWork, SamePurges
      <3> QED
        BY <2>7, <3>2, <3>3, <3>4, <3>5, <3>6 DEF QuietWork, SoundWork
    <2> QED
      BY <2>8, <2>9
  <1> QED
    BY <1>2, <1>3

LEMMA QuietLoop ==
  ASSUME NEW M, NEW X, NEW first, NEW seen, SoundRows(M, X, first, seen), NEW s, NEW w,
         QuietWork(M, X, first, seen, s, w), NEW ctx, NEW race, NEW order \in Seq(M),
         NEW phase \in OneByOne \cup Proposing, NEW r, r = ForEach(phase, ctx, race, seen, order, w)
  PROVE  QuietWork(M, X, first, seen, s, r)
  <1> DEFINE Q == {x \in WorkOf(M, X) : QuietWork(M, X, first, seen, s, x)}
             S == Nat \X Q
  <1>1. \A x : QuietWork(M, X, first, seen, s, x) <=> x \in Q
    BY DEF QuietWork, SoundWork
  <1> HIDE DEF Q
  <1>2. Len(order) \in Nat /\ \A k \in 1..Len(order) : order[k] \in M
    OBVIOUS
  <1>3. ASSUME NEW k \in 1..Len(order), NEW x, <<k - 1, x>> \in S
        PROVE  /\ x.raised \/ order[k] \notin Listing(phase, seen, order) => <<k, x>> \in S
               /\ ~x.raised /\ order[k] \in Listing(phase, seen, order) =>
                    <<k, Item(phase, ctx, race, seen, x, order[k])>> \in S
    <2>1. x \in Q /\ k \in Nat
      BY <1>3
    <2>2. ASSUME ~x.raised, order[k] \in Listing(phase, seen, order)
          PROVE  Item(phase, ctx, race, seen, x, order[k]) \in Q
      BY <1>1, <1>2, <2>1, <2>2, QuietTurn
    <2> QED
      BY <2>1, <2>2
  <1>4. <<0, w>> \in S
    BY <1>1
  <1> HIDE DEF S
  <1>5. <<Len(order), r>> \in S
    BY <1>2, <1>3, <1>4, LoopKeeps
  <1> QED
    BY <1>1, <1>5 DEF S

\* What somebody may do to a row: the hold is the same, what was cleared stays away.
RacesOn(M, X, first) ==
  {race \in [when : {"never", "listing", "commit"}, on : M, row : Row(X)] :
     race.row.held = first[race.on].held /\ (race.when # "never" => ~race.row.cleared)}

\* What compaction keeps: a row that somebody takes back is not called verified.
CompactionWork(M, X, first, race, s) ==
  /\ SoundWork(M, X, first, s)
  /\ race.when = "commit" => ~Tells(s, "memory_vector_purge_verified", race.on)

\* Every finding is told, every purge is looked back at.
FindingsTold(M, s) ==
  ~s.raised =>
    /\ s.findings > 0 <=> \E m \in M : \/ Tells(s, "memory_vector_purge_failed", m)
                                       \/ Tells(s, "deletion_verification_failed", m)
    /\ \A m \in M : Tells(s, "memory_content_compacted", m) =>
         \/ Tells(s, "memory_vector_purge_verified", m)
         \/ Tells(s, "memory_vector_purge_failed", m)

LEMMA SamePurgesKeep ==
  ASSUME NEW M, NEW X, NEW first, NEW race, NEW w, NEW r \in WorkOf(M, X), SamePurges(w, r)
  PROVE  /\ r.rows = w.rows /\ SoundWork(M, X, first, w) => SoundWork(M, X, first, r)
         /\ r.rows = w.rows /\ CompactionWork(M, X, first, race, w) => CompactionWork(M, X, first, race, r)
         /\ ~w.raised /\ FindingsTold(M, w) => FindingsTold(M, r)
  <1>1. /\ r.findings = w.findings
        /\ \A n : /\ Tells(r, "memory_vector_purge_verified", n) <=> Tells(w, "memory_vector_purge_verified", n)
                  /\ Tells(r, "memory_vector_purge_failed", n) <=> Tells(w, "memory_vector_purge_failed", n)
                  /\ Tells(r, "memory_content_compacted", n) <=> Tells(w, "memory_content_compacted", n)
                  /\ Tells(r, "deletion_verification_failed", n) <=> Tells(w, "deletion_verification_failed", n)
    BY DEF SamePurges, PurgeActs
  <1>2. r.rows = w.rows /\ SoundWork(M, X, first, w) => SoundWork(M, X, first, r)
    BY <1>1 DEF SoundWork
  <1>3. r.rows = w.rows /\ CompactionWork(M, X, first, race, w) => CompactionWork(M, X, first, race, r)
    BY <1>1, <1>2 DEF CompactionWork
  <1>4. ~w.raised /\ FindingsTold(M, w) => FindingsTold(M, r)
    BY <1>1 DEF FindingsTold
  <1> QED
    BY <1>2, <1>3, <1>4

LEMMA PurgedRowsAreSound ==
  ASSUME NEW M, NEW X, NEW first, NEW race \in RacesOn(M, X, first), NEW w,
         SoundRows(M, X, first, w.rows), NEW m \in M, w.rows[m].status = "deleted", ~first[m].held,
         NEW rows, rows = PurgedRows(race, w, m)
  PROVE  /\ SoundRows(M, X, first, rows)
         /\ \A n \in M \ {m} : rows[n] = w.rows[n]
         /\ rows[m].cleared <=> ~(race.when = "commit" /\ race.on = m)
  <1>1. w.rows \in [M -> Row(X)]
    BY DEF SoundRows
  <1>2. PICK new : new = IF race.when = "commit" /\ race.on = m THEN race.row ELSE ClearedRow(w.rows[m])
    OBVIOUS
  <1>3. ClearedRow(w.rows[m]) \in Row(X) /\ ClearedRow(w.rows[m]).cleared
        /\ ClearedRow(w.rows[m]).held = w.rows[m].held /\ ClearedRow(w.rows[m]).status = "deleted"
    BY <1>1 DEF ClearedRow, Row
  <1>4. /\ new \in Row(X) /\ new.held = first[m].held
        /\ new.cleared => new.status = "deleted"
        /\ new.cleared <=> ~(race.when = "commit" /\ race.on = m)
    BY <1>2, <1>3 DEF RacesOn, SoundRows
  <1>5. rows = [w.rows EXCEPT ![m] = new]
    BY <1>2 DEF PurgedRows
  <1>6. rows[m] = new /\ \A n \in M \ {m} : rows[n] = w.rows[n]
    BY <1>1, <1>5
  <1>7. rows \in [M -> Row(X)]
    BY <1>1, <1>4, <1>5
  <1>8. SoundRows(M, X, first, rows)
    BY <1>4, <1>6, <1>7 DEF SoundRows
  <1> QED
    BY <1>4, <1>6, <1>8

LEMMA CompactionTurn ==
  ASSUME NEW M, NEW X, NEW first, NEW seen, SoundRows(M, X, first, seen),
         NEW race \in RacesOn(M, X, first), NEW w, ~w.raised, CompactionWork(M, X, first, race, w),
         NEW ctx, NEW m \in M, NEW r, r = Item("deletion_compaction", ctx, race, seen, w, m)
  PROVE  /\ CompactionWork(M, X, first, race, r) /\ r.status = w.status
         /\ FindingsTold(M, w) => FindingsTold(M, r)
         /\ Tells(r, "deletion_verification_passed", "none") <=> Tells(w, "deletion_verification_passed", "none")
  <1>1. w \in WorkOf(M, X) /\ race.row \in Row(X)
    BY DEF CompactionWork, SoundWork, RacesOn
  <1>2. PICK v : v = Scanned(w)
    OBVIOUS
  <1>3. Steady(M, X, w, v) /\ Nothing(w, v) /\ ~v.raised /\ v \in WorkOf(M, X) /\ v.rows = w.rows
    BY <1>1, <1>2, ScannedFirst
  <1>4. SamePurges(w, v) /\ v.status = w.status
    BY <1>3 DEF Nothing, SamePurges, SameVerdict, Steady
  <1>5. CompactionWork(M, X, first, race, v) /\ (FindingsTold(M, w) => FindingsTold(M, v))
    BY <1>3, <1>4, SamePurgesKeep
  <1>6. SUFFICES /\ CompactionWork(M, X, first, race, r) /\ r.status = v.status
                 /\ FindingsTold(M, v) => FindingsTold(M, r)
                 /\ Tells(r, "deletion_verification_passed", "none")
                      <=> Tells(v, "deletion_verification_passed", "none")
    BY <1>4, <1>5 DEF SamePurges, PurgeActs
  <1>7. PICK copy : copy = seen[m]
    OBVIOUS
  <1>8. r = CompactionItem(ctx, race, v, m, copy)
    BY <1>2, <1>7 DEF Item
  <1>9. /\ r \in WorkOf(M, X) /\ r.status = v.status
        /\ CompactionIdle(ctx, v, m, copy) =>
             /\ r.findings = v.findings
             /\ Nothing(v, r) \/ Makes(v, r, v.rows, {"memory_legal_hold_compaction_blocked"}, m)
        /\ ~CompactionIdle(ctx, v, m, copy) => PurgeOutcome(race, v, m, r)
    BY <1>1, <1>3, <1>8, CompactionDoes
  <1>10. ASSUME Nothing(v, r) \/ Makes(v, r, v.rows, {"memory_legal_hold_compaction_blocked"}, m),
                r.findings = v.findings
         PROVE  /\ CompactionWork(M, X, first, race, r)
                /\ FindingsTold(M, v) => FindingsTold(M, r)
                /\ Tells(r, "deletion_verification_passed", "none")
                     <=> Tells(v, "deletion_verification_passed", "none")
    <2>1. r.rows = v.rows /\ \A a \in PurgeActs : \A n : Tells(r, a, n) <=> Tells(v, a, n)
      BY <1>10 DEF Nothing, Makes, PurgeActs
    <2>2. SamePurges(v, r)
      BY <1>9, <1>10, <2>1 DEF SamePurges
    <2> QED
      BY <1>3, <1>5, <1>9, <2>1, <2>2, SamePurgesKeep DEF PurgeActs
  <1>11. CASE CompactionIdle(ctx, v, m, copy)
    BY <1>9, <1>10, <1>11
  <1>12. CASE ~CompactionIdle(ctx, v, m, copy)
    <2>1. CASE r.raised /\ Nothing(v, r)
      <3>1. r.rows = v.rows
        BY <2>1 DEF Nothing
      <3>2. \A n : Tells(r, "memory_vector_purge_verified", n) <=> Tells(v, "memory_vector_purge_verified", n)
        BY <2>1 DEF Nothing
      <3>3. CompactionWork(M, X, first, race, r)
        BY <1>5, <1>9, <3>1, <3>2 DEF CompactionWork, SoundWork
      <3> QED
        BY <1>9, <2>1, <3>3 DEF FindingsTold, Nothing
    <2>2. CASE ~(r.raised /\ Nothing(v, r))
      <3>1. PICK acts \in SUBSET PurgeTold :
              /\ Makes(v, r, PurgedRows(race, v, m), acts, m) /\ "memory_content_compacted" \in acts
              /\ "memory_vector_purge_verified" \in acts => PurgeVerified(r.rows[m])
              /\ ~r.raised =>
                   IF PurgeVerified(r.rows[m])
                   THEN /\ r.findings = v.findings /\ "memory_vector_purge_verified" \in acts
                        /\ "memory_vector_purge_failed" \notin acts
                   ELSE r.findings = v.findings + 1 /\ "memory_vector_purge_failed" \in acts
        BY <1>9, <1>12, <2>2 DEF PurgeOutcome
      <3>2. r.rows = PurgedRows(race, v, m)
            /\ \A a, n : Tells(r, a, n) <=> Tells(v, a, n) \/ (a \in acts /\ n = m)
        BY <3>1 DEF Makes
      <3>3. v.rows[m].status = "deleted" /\ ~first[m].held /\ SoundRows(M, X, first, v.rows)
        BY <1>5, <1>7, <1>12 DEF CompactionIdle, CompactionWork, SoundWork, SoundRows
      <3>4. /\ SoundRows(M, X, first, r.rows)
            /\ \A n \in M \ {m} : r.rows[n] = v.rows[n]
            /\ r.rows[m].cleared <=> ~(race.when = "commit" /\ race.on = m)
        BY <3>2, <3>3, PurgedRowsAreSound
      <3>5. "memory_vector_purge_verified" \in acts => r.rows[m].cleared
        BY <3>1 DEF PurgeVerified
      <3>6. ASSUME NEW n \in M, Tells(r, "memory_vector_purge_verified", n)
            PROVE  r.rows[n].cleared
        <4>1. CASE n # m
          <5>1. Tells(v, "memory_vector_purge_verified", n) /\ r.rows[n] = v.rows[n]
            BY <3>2, <3>4, <3>6, <4>1
          <5> QED
            BY <1>5, <5>1 DEF CompactionWork, SoundWork
        <4>2. CASE n = m
          BY <1>5, <3>2, <3>4, <3>5, <3>6, <4>2 DEF CompactionWork
        <4> QED
          BY <4>1, <4>2
      <3>7. race.when = "commit" => ~Tells(r, "memory_vector_purge_verified", race.on)
        BY <1>5, <3>2, <3>4, <3>5 DEF CompactionWork
      <3>8. CompactionWork(M, X, first, race, r)
        BY <1>9, <3>4, <3>6, <3>7 DEF CompactionWork, SoundWork
      <3>9. FindingsTold(M, v) => FindingsTold(M, r)
        <4> SUFFICES ASSUME FindingsTold(M, v), ~r.raised
                     PROVE  /\ r.findings > 0 <=> \E n \in M : \/ Tells(r, "memory_vector_purge_failed", n)
                                                            \/ Tells(r, "deletion_verification_failed", n)
                            /\ \A n \in M : Tells(r, "memory_content_compacted", n) =>
                                 \/ Tells(r, "memory_vector_purge_verified", n)
                                 \/ Tells(r, "memory_vector_purge_failed", n)
          BY DEF FindingsTold
        <4>1. /\ v.findings > 0 <=> \E n \in M : \/ Tells(v, "memory_vector_purge_failed", n)
                                                \/ Tells(v, "deletion_verification_failed", n)
              /\ \A n \in M : Tells(v, "memory_content_compacted", n) =>
                   \/ Tells(v, "memory_vector_purge_verified", n)
                   \/ Tells(v, "memory_vector_purge_failed", n)
          BY <1>3 DEF FindingsTold
        <4>2. v.findings \in Nat /\ "deletion_verification_failed" \notin acts
          BY <1>3 DEF WorkOf, PurgeTold
        <4>3. CASE PurgeVerified(r.rows[m])
          <5>1. /\ r.findings = v.findings /\ "memory_vector_purge_verified" \in acts
                /\ "memory_vector_purge_failed" \notin acts
            BY <3>1, <4>3
          <5>2. \A n : /\ Tells(r, "memory_vector_purge_failed", n) <=> Tells(v, "memory_vector_purge_failed", n)
                       /\ Tells(r, "deletion_verification_failed", n)
                            <=> Tells(v, "deletion_verification_failed", n)
            BY <3>2, <4>2, <5>1
          <5> QED
            BY <3>2, <4>1, <5>1, <5>2
        <4>4. CASE ~PurgeVerified(r.rows[m])
          <5>1. r.findings = v.findings + 1 /\ "memory_vector_purge_failed" \in acts
            BY <3>1, <4>4
          <5>2. r.findings > 0 /\ Tells(r, "memory_vector_purge_failed", m)
            BY <3>2, <4>2, <5>1
          <5> QED
            BY <3>2, <4>1, <5>2
        <4> QED
          BY <4>3, <4>4
      <3>10. Tells(r, "deletion_verification_passed", "none")
               <=> Tells(v, "deletion_verification_passed", "none")
        BY <3>2 DEF PurgeTold
      <3> QED
        BY <1>9, <3>8, <3>9, <3>10
    <2> QED
      BY <2>1, <2>2
  <1> QED
    BY <1>11, <1>12, <1>9

LEMMA CompactionLoop ==
  ASSUME NEW M, NEW X, NEW first, NEW seen, SoundRows(M, X, first, seen),
         NEW race \in RacesOn(M, X, first), NEW w, CompactionWork(M, X, first, race, w),
         NEW ctx, NEW order \in Seq(M),
         NEW r, r = ForEach("deletion_compaction", ctx, race, seen, order, w)
  PROVE  /\ CompactionWork(M, X, first, race, r) /\ r.status = w.status
         /\ FindingsTold(M, w) => FindingsTold(M, r)
         /\ Tells(r, "deletion_verification_passed", "none") <=> Tells(w, "deletion_verification_passed", "none")
  <1> DEFINE Stays(x) ==
               /\ CompactionWork(M, X, first, race, x) /\ x.status = w.status
               /\ FindingsTold(M, w) => FindingsTold(M, x)
               /\ Tells(x, "deletion_verification_passed", "none")
                    <=> Tells(w, "deletion_verification_passed", "none")
             Q == {x \in WorkOf(M, X) : Stays(x)}
             S == Nat \X Q
  <1>1. \A x : Stays(x) <=> x \in Q
    BY DEF CompactionWork, SoundWork
  <1> HIDE DEF Q
  <1>2. Len(order) \in Nat /\ \A k \in 1..Len(order) : order[k] \in M
    OBVIOUS
  <1>3. ASSUME NEW k \in 1..Len(order), NEW x, <<k - 1, x>> \in S
        PROVE  /\ x.raised \/ order[k] \notin Listing("deletion_compaction", seen, order) => <<k, x>> \in S
               /\ ~x.raised /\ order[k] \in Listing("deletion_compaction", seen, order) =>
                    <<k, Item("deletion_compaction", ctx, race, seen, x, order[k])>> \in S
    <2>1. x \in Q /\ k \in Nat
      BY <1>3
    <2>2. ASSUME ~x.raised
          PROVE  Item("deletion_compaction", ctx, race, seen, x, order[k]) \in Q
      <3>1. PICK y : y = Item("deletion_compaction", ctx, race, seen, x, order[k])
        OBVIOUS
      <3>2. Stays(x)
        BY <1>1, <2>1
      <3>3. /\ CompactionWork(M, X, first, race, y) /\ y.status = x.status
            /\ FindingsTold(M, x) => FindingsTold(M, y)
            /\ Tells(y, "deletion_verification_passed", "none")
                 <=> Tells(x, "deletion_verification_passed", "none")
        BY <1>2, <2>2, <3>1, <3>2, CompactionTurn
      <3>4. Stays(y)
        BY <3>2, <3>3
      <3> QED
        BY <1>1, <3>1, <3>4
    <2> QED
      BY <2>1, <2>2
  <1>4. <<0, w>> \in S
    BY <1>1
  <1> HIDE DEF S
  <1>5. <<Len(order), r>> \in S
    BY <1>2, <1>3, <1>4, LoopKeeps
  <1>6. r \in Q
    BY <1>5 DEF S
  <1> QED
    BY <1>1, <1>6

\* What the deletion check keeps, and what it has found.
CheckWork(M, X, s, r) ==
  /\ r \in WorkOf(M, X) /\ r.rows = s.rows /\ r.status = s.status
  /\ FindingsTold(M, s) => FindingsTold(M, r)
  /\ \A a \in PurgeActs \ {"deletion_verification_failed"} : \A n : Tells(r, a, n) <=> Tells(s, a, n)

LEMMA CheckTurn ==
  ASSUME NEW M, NEW X, NEW s, NEW w, CheckWork(M, X, s, w), ~w.raised, NEW ctx, NEW race, NEW seen,
         NEW m \in M, NEW r, r = Item("deletion_verification", ctx, race, seen, w, m)
  PROVE  /\ CheckWork(M, X, s, r) /\ r.findings >= w.findings
         /\ Reachable(s.rows[m]) => r.findings > 0
  <1>1. w \in WorkOf(M, X)
    BY DEF CheckWork
  <1>2. PICK v : v = Scanned(w)
    OBVIOUS
  <1>3. Steady(M, X, w, v) /\ Nothing(w, v) /\ ~v.raised /\ v \in WorkOf(M, X) /\ v.rows = w.rows
    BY <1>1, <1>2, ScannedFirst
  <1>4. SamePurges(w, v) /\ v.status = w.status /\ v.findings = w.findings
    BY <1>3 DEF Nothing, SamePurges, SameVerdict, Steady
  <1>5. FindingsTold(M, w) => FindingsTold(M, v)
    BY <1>3, <1>4, SamePurgesKeep
  <1>6. r = VerificationItem(v, m)
    BY <1>2 DEF Item
  <1>7. /\ r \in WorkOf(M, X) /\ r.status = v.status
        /\ ~Reachable(v.rows[m]) => r = v
        /\ Reachable(v.rows[m]) =>
             /\ r.findings = v.findings + 1
             /\ r.raised => Nothing(v, r)
             /\ ~r.raised => Makes(v, r, v.rows, {"deletion_verification_failed"}, m)
    BY <1>3, <1>6, VerificationDoes
  <1>8. v.findings \in Nat /\ v.rows = s.rows
    BY <1>3 DEF WorkOf, CheckWork
  <1>9. CASE ~Reachable(v.rows[m])
    BY <1>3, <1>4, <1>5, <1>7, <1>8, <1>9 DEF CheckWork, SamePurges
  <1>10. CASE Reachable(v.rows[m])
    <2>1. r.findings = v.findings + 1 /\ r.findings > 0 /\ r.findings >= w.findings
      BY <1>4, <1>7, <1>8, <1>10
    <2>2. r.rows = v.rows
      BY <1>7, <1>10 DEF Nothing, Makes
    <2>3. \A a \in PurgeActs \ {"deletion_verification_failed"} : \A n : Tells(r, a, n) <=> Tells(v, a, n)
      BY <1>7, <1>10 DEF Nothing, Makes
    <2>4. ~r.raised => /\ Tells(r, "deletion_verification_failed", m)
                       /\ \A n : Tells(v, "deletion_verification_failed", n)
                                   => Tells(r, "deletion_verification_failed", n)
      BY <1>7, <1>10 DEF Makes
    <2>5. FindingsTold(M, v) => FindingsTold(M, r)
      <3>1. {"memory_content_compacted", "memory_vector_purge_verified", "memory_vector_purge_failed"}
              \subseteq PurgeActs \ {"deletion_verification_failed"}
        BY DEF PurgeActs
      <3> QED
        BY <1>3, <2>1, <2>3, <2>4, <3>1 DEF FindingsTold
    <2>6. \A a \in PurgeActs \ {"deletion_verification_failed"} : \A n : Tells(r, a, n) <=> Tells(s, a, n)
      BY <1>4, <2>3 DEF SamePurges, CheckWork
    <2>7. CheckWork(M, X, s, r)
      BY <1>4, <1>5, <1>7, <1>8, <2>2, <2>5, <2>6 DEF CheckWork
    <2> QED
      BY <2>1, <2>7
  <1> QED
    BY <1>9, <1>10

LEMMA CheckLoop ==
  ASSUME NEW M, NEW X, NEW w \in WorkOf(M, X), NEW ctx, NEW race, NEW seen, NEW order \in Seq(M),
         NEW r, r = ForEach("deletion_verification", ctx, race, seen, order, w)
  PROVE  /\ CheckWork(M, X, w, r)
         /\ ~r.raised /\ r.findings = 0 =>
              \A k \in 1..Len(order) :
                order[k] \in Listing("deletion_verification", seen, order) => ~Reachable(w.rows[order[k]])
  <1> DEFINE phase == "deletion_verification"
             Spotless(k, x) == ~x.raised /\ x.findings = 0 =>
               \A j \in 1..k : order[j] \in Listing(phase, seen, order) => ~Reachable(w.rows[order[j]])
             S == {p \in Nat \X WorkOf(M, X) : CheckWork(M, X, w, p[2]) /\ Spotless(p[1], p[2])}
  <1>1. \A k, x : <<k, x>> \in S <=> k \in Nat /\ CheckWork(M, X, w, x) /\ Spotless(k, x)
    BY DEF CheckWork
  <1> HIDE DEF S
  <1>2. Len(order) \in Nat /\ \A k \in 1..Len(order) : order[k] \in M
    OBVIOUS
  <1>3. ASSUME NEW k \in 1..Len(order), NEW x, <<k - 1, x>> \in S
        PROVE  /\ x.raised \/ order[k] \notin Listing(phase, seen, order) => <<k, x>> \in S
               /\ ~x.raised /\ order[k] \in Listing(phase, seen, order) =>
                    <<k, Item(phase, ctx, race, seen, x, order[k])>> \in S
    <2>1. k \in Nat /\ CheckWork(M, X, w, x) /\ Spotless(k - 1, x) /\ order[k] \in M
      BY <1>1, <1>2, <1>3
    <2>2. \A j \in 1..k : j \in 1..k - 1 \/ j = k
      BY <2>1
    <2>3. ASSUME x.raised \/ order[k] \notin Listing(phase, seen, order) PROVE <<k, x>> \in S
      <3>1. Spotless(k, x)
        BY <2>1, <2>2, <2>3
      <3> QED
        BY <1>1, <2>1, <3>1
    <2>4. ASSUME ~x.raised, order[k] \in Listing(phase, seen, order)
          PROVE  <<k, Item(phase, ctx, race, seen, x, order[k])>> \in S
      <3>1. PICK y : y = Item(phase, ctx, race, seen, x, order[k])
        OBVIOUS
      <3>2. /\ CheckWork(M, X, w, y) /\ y.findings >= x.findings
            /\ Reachable(w.rows[order[k]]) => y.findings > 0
        BY <2>1, <2>4, <3>1, CheckTurn
      <3>3. y.findings \in Nat /\ x.findings \in Nat
        BY <2>1, <3>2 DEF CheckWork, WorkOf
      <3>4. Spotless(k, y)
        BY <2>1, <2>2, <2>4, <3>2, <3>3
      <3> QED
        BY <1>1, <2>1, <3>1, <3>2, <3>4
    <2> QED
      BY <2>3, <2>4
  <1>4. <<0, w>> \in S
    <2>1. CheckWork(M, X, w, w)
      BY DEF CheckWork
    <2>2. Spotless(0, w)
      OBVIOUS
    <2> QED
      BY <1>1, <2>1, <2>2
  <1>5. <<Len(order), r>> \in S
    BY <1>2, <1>3, <1>4, LoopKeeps
  <1> QED
    BY <1>1, <1>5

-----------------------------------------------------------------------------
(* A job, an attempt, a run.                                                *)

\* Nothing was told of a purge yet.
Untold(s) ==
  s.findings = 0 /\ s.status = "completed" /\ \A a \in PurgeActs : \A n : ~Tells(s, a, n)

\* What a job that went through says of its purges; rows are those it began with.
JobVerdict(M, rows, r) ==
  /\ FindingsTold(M, r) /\ r.status # "failed" /\ ~r.raised
  /\ r.status = "completed_with_findings" <=> r.findings > 0
  /\ Tells(r, "deletion_verification_passed", "none") =>
       \A m \in M : rows[m].status = "deleted" => ~Reachable(r.rows[m])

LEMMA OtherNotesKeep ==
  ASSUME NEW M, NEW X, NEW w \in WorkOf(M, X), NEW action \in Actions \ PurgeActs,
         NEW n \in M \cup {"none"}, NEW r, r = Record(w, action, n)
  PROVE  /\ r \in WorkOf(M, X) /\ SamePurges(w, r) /\ r.rows = w.rows
         /\ w.raised => r.raised
         /\ FindingsTold(M, w) => FindingsTold(M, r)
  <1>1. /\ r \in WorkOf(M, X) /\ SameVerdict(w, r)
        /\ w.raised => r.raised
        /\ r.raised => Nothing(w, r)
        /\ ~r.raised => Makes(w, r, w.rows, {action}, n)
    BY Notes
  <1>2. \A a \in PurgeActs : a # action
    OBVIOUS
  <1>3. r.rows = w.rows /\ \A a \in PurgeActs : \A m : Tells(r, a, m) <=> Tells(w, a, m)
    BY <1>1, <1>2 DEF Nothing, Makes
  <1>4. SamePurges(w, r)
    BY <1>1, <1>3 DEF SamePurges, SameVerdict
  <1>5. FindingsTold(M, w) => FindingsTold(M, r)
    <2>1. CASE w.raised
      BY <1>1, <2>1 DEF FindingsTold
    <2>2. CASE ~w.raised
      BY <1>1, <1>4, <2>2, SamePurgesKeep
    <2> QED
      BY <2>1, <2>2
  <1> QED
    BY <1>1, <1>3, <1>4, <1>5

LEMMA OtherActions ==
  {"lifecycle_worker_started", "lifecycle_worker_completed", "lifecycle_worker_failed",
   "retention_scan_started", "retention_scan_completed", "deletion_compaction_started",
   "deletion_compaction_skipped", "deletion_compaction_failed", "deletion_compaction_completed"}
    \subseteq Actions \ PurgeActs
  BY DEF Actions, PurgeActs

\* What the jobs that purge nothing come to.
LEMMA QuietJobs ==
  ASSUME NEW M, NEW X, NEW first, NEW seen, SoundRows(M, X, first, seen), NEW s,
         QuietWork(M, X, first, seen, s, s), NEW ctx, NEW race, NEW order \in Seq(M)
  PROVE  /\ \A phase \in OneByOne \cup Proposing :
              QuietWork(M, X, first, seen, s, ForEach(phase, ctx, race, seen, order, s))
         /\ QuietWork(M, X, first, seen, s, RetentionJob(ctx, race, seen, order, s))
         /\ ctx.reflection => QuietWork(M, X, first, seen, s, ReflectionJob(ctx, race, seen, order, s))
  <1>1. ASSUME NEW w, QuietWork(M, X, first, seen, s, w), NEW action \in Actions \ PurgeActs
        PROVE  QuietWork(M, X, first, seen, s, Record(w, action, "none"))
    <2>1. PICK r : r = Record(w, action, "none")
      OBVIOUS
    <2>2. w \in WorkOf(M, X) /\ "none" \in M \cup {"none"}
      BY <1>1 DEF QuietWork, SoundWork
    <2>3. r \in WorkOf(M, X) /\ SamePurges(w, r) /\ r.rows = w.rows
      BY <2>1, <2>2, OtherNotesKeep
    <2> QED
      BY <1>1, <2>1, <2>3, QuietAfter
  <1>2. QuietWork(M, X, first, seen, s, RetentionJob(ctx, race, seen, order, s))
    <2>1. PICK u : u = Record(s, "retention_scan_started", "none")
      OBVIOUS
    <2>2. PICK v : v = ForEach("retention", ctx, race, seen, order, u)
      OBVIOUS
    <2>3. QuietWork(M, X, first, seen, s, u)
      BY <1>1, <2>1, OtherActions
    <2>4. QuietWork(M, X, first, seen, s, v)
      BY <2>2, <2>3, QuietLoop DEF OneByOne
    <2>5. QuietWork(M, X, first, seen, s, Record(v, "retention_scan_completed", "none"))
      BY <1>1, <2>4, OtherActions
    <2> QED
      BY <2>1, <2>2, <2>5 DEF RetentionJob
  <1>3. ASSUME ctx.reflection
        PROVE  QuietWork(M, X, first, seen, s, ReflectionJob(ctx, race, seen, order, s))
    <2>1. PICK u : u = ForEach("reflection", ctx, race, seen, order, s)
      OBVIOUS
    <2>2. PICK v : v = ForEach("clusters", ctx, race, seen, order, u)
      OBVIOUS
    <2>3. QuietWork(M, X, first, seen, s, u)
      BY <2>1, QuietLoop DEF Proposing
    <2>4. QuietWork(M, X, first, seen, s, v)
      BY <2>2, <2>3, QuietLoop DEF Proposing
    <2> QED
      BY <1>3, <2>1, <2>2, <2>4 DEF ReflectionJob
  <1>4. ASSUME NEW phase \in OneByOne \cup Proposing
        PROVE  QuietWork(M, X, first, seen, s, ForEach(phase, ctx, race, seen, order, s))
    BY QuietLoop
  <1> QED
    BY <1>2, <1>3, <1>4

LEMMA CompactionJobDoes ==
  ASSUME NEW M, NEW X, NEW first, NEW seen, SoundRows(M, X, first, seen),
         NEW race \in RacesOn(M, X, first), NEW s, CompactionWork(M, X, first, race, s),
         NEW ctx, NEW order \in Seq(M), NEW r, r = CompactionJob(ctx, race, seen, order, s)
  PROVE  /\ SoundWork(M, X, first, r)
         /\ FindingsTold(M, s) => FindingsTold(M, r)
         /\ s.status = "completed" => /\ r.status = "completed_with_findings" <=> r.findings > 0
                                      /\ r.status # "failed"
         /\ Tells(r, "deletion_verification_passed", "none") <=> Tells(s, "deletion_verification_passed", "none")
  <1> DEFINE Passed(x) == Tells(x, "deletion_verification_passed", "none")
  <1>1. ASSUME NEW w, CompactionWork(M, X, first, race, w), NEW action \in Actions \ PurgeActs,
               NEW x, x = Record(w, action, "none")
        PROVE  /\ CompactionWork(M, X, first, race, x) /\ x.status = w.status /\ x.findings = w.findings
               /\ FindingsTold(M, w) => FindingsTold(M, x)
               /\ Passed(x) <=> Passed(w)
    <2>1. w \in WorkOf(M, X) /\ "none" \in M \cup {"none"}
      BY <1>1 DEF CompactionWork, SoundWork
    <2>2. /\ x \in WorkOf(M, X) /\ SamePurges(w, x) /\ x.rows = w.rows
          /\ FindingsTold(M, w) => FindingsTold(M, x)
      BY <1>1, <2>1, OtherNotesKeep
    <2>3. CompactionWork(M, X, first, race, x)
      BY <1>1, <2>2, SamePurgesKeep
    <2> QED
      BY <2>2, <2>3 DEF SamePurges, PurgeActs
  <1>2. PICK u : u = Record(s, "deletion_compaction_started", "none")
    OBVIOUS
  <1>3. PICK d : d = ForEach("deletion_compaction", ctx, race, seen, order, u)
    OBVIOUS
  <1>4. PICK t : t = IF d.eligible = 0 THEN Record(d, "deletion_compaction_skipped", "none") ELSE d
    OBVIOUS
  <1>5. r = CompactionDone(t)
    BY <1>2, <1>3, <1>4 DEF CompactionJob
  <1>6. /\ CompactionWork(M, X, first, race, u) /\ u.status = s.status
        /\ FindingsTold(M, s) => FindingsTold(M, u)
        /\ Passed(u) <=> Passed(s)
    BY <1>1, <1>2, OtherActions
  <1>7. /\ CompactionWork(M, X, first, race, d) /\ d.status = u.status
        /\ FindingsTold(M, u) => FindingsTold(M, d)
        /\ Passed(d) <=> Passed(u)
    BY <1>3, <1>6, CompactionLoop
  <1>8. /\ CompactionWork(M, X, first, race, t) /\ t.status = d.status
        /\ FindingsTold(M, d) => FindingsTold(M, t)
        /\ Passed(t) <=> Passed(d)
    <2> HIDE DEF Passed
    <2>1. CASE d.eligible = 0
      <3>1. t = Record(d, "deletion_compaction_skipped", "none")
        BY <1>4, <2>1
      <3>2. PICK action \in Actions \ PurgeActs : action = "deletion_compaction_skipped"
        BY OtherActions
      <3> QED
        BY <1>1, <1>7, <3>1, <3>2
    <2>2. CASE d.eligible # 0
      BY <1>4, <1>7, <2>2
    <2> QED
      BY <2>1, <2>2
  <1>9. t \in WorkOf(M, X) /\ t.findings \in Nat
    BY <1>8 DEF CompactionWork, SoundWork, WorkOf
  <1>10. CASE t.findings > 0
    <2>1. PICK x : x = [t EXCEPT !.status = "completed_with_findings"]
      OBVIOUS
    <2>2. /\ x \in WorkOf(M, X) /\ x.status = "completed_with_findings" /\ x.findings = t.findings
          /\ x.rows = t.rows /\ x.trail = t.trail /\ x.raised = t.raised
      BY <1>9, <2>1 DEF WorkOf, WorkStatuses
    <2>3. \A a, n : Tells(x, a, n) <=> Tells(t, a, n)
      BY <2>2, SameTrail
    <2>4. CompactionWork(M, X, first, race, x)
      BY <1>8, <2>2, <2>3 DEF CompactionWork, SoundWork
    <2>5. FindingsTold(M, t) => FindingsTold(M, x)
      BY <2>2, <2>3 DEF FindingsTold
    <2>6. r = Record(x, "deletion_compaction_failed", "none")
      BY <1>5, <1>10, <2>1 DEF CompactionDone
    <2>7. /\ CompactionWork(M, X, first, race, r) /\ r.status = x.status /\ r.findings = x.findings
          /\ FindingsTold(M, x) => FindingsTold(M, r)
          /\ Passed(r) <=> Passed(x)
      BY <1>1, <2>4, <2>6, OtherActions
    <2> QED
      BY <1>6, <1>7, <1>8, <1>10, <2>2, <2>3, <2>5, <2>7 DEF CompactionWork
  <1>11. CASE ~(t.findings > 0)
    <2>1. r = Record(t, "deletion_compaction_completed", "none")
      BY <1>5, <1>11 DEF CompactionDone
    <2>2. /\ CompactionWork(M, X, first, race, r) /\ r.status = t.status /\ r.findings = t.findings
          /\ FindingsTold(M, t) => FindingsTold(M, r)
          /\ Passed(r) <=> Passed(t)
      BY <1>1, <1>8, <2>1, OtherActions
    <2> QED
      BY <1>6, <1>7, <1>8, <1>11, <2>2 DEF CompactionWork
  <1> QED
    BY <1>10, <1>11

\* The order the rows are listed in leaves none out.
Covers(order, M) == \A m \in M : \E k \in 1..Len(order) : order[k] = m

LEMMA PassIsNoted ==
  ASSUME NEW M, NEW X, NEW w \in WorkOf(M, X),
         NEW r, r = Record(w, "deletion_verification_passed", "none")
  PROVE  /\ r \in WorkOf(M, X) /\ SameVerdict(w, r)
         /\ w.raised => r.raised
         /\ r.rows = w.rows
         /\ \A a : a # "deletion_verification_passed" => \A m : Tells(r, a, m) <=> Tells(w, a, m)
  <1>1. PICK action \in Actions, n \in M \cup {"none"} :
          action = "deletion_verification_passed" /\ n = "none"
    BY DEF Actions
  <1>2. /\ r \in WorkOf(M, X) /\ SameVerdict(w, r)
        /\ w.raised => r.raised
        /\ r.raised => Nothing(w, r)
        /\ ~r.raised => Makes(w, r, w.rows, {action}, n)
    BY <1>1, Notes
  <1> QED
    BY <1>1, <1>2 DEF Nothing, Makes

\* The verdict of the deletion check on what it listed.
CheckVerdict(M, seen, s, r) ==
  /\ FindingsTold(M, s) => FindingsTold(M, r)
  /\ s.status = "completed" => /\ r.status = "completed_with_findings" <=> r.findings > 0
                               /\ r.status # "failed"
  /\ ~r.raised /\ ~Tells(s, "deletion_verification_passed", "none")
       /\ Tells(r, "deletion_verification_passed", "none") =>
       \A m \in M : seen[m].status = "deleted" => ~Reachable(r.rows[m])

LEMMA CheckJobDoes ==
  ASSUME NEW M, NEW X, NEW first, NEW seen \in [M -> Row(X)], NEW s, SoundWork(M, X, first, s),
         NEW ctx, NEW race, NEW order \in Seq(M), Covers(order, M),
         NEW r, r = VerificationDone(ForEach("deletion_verification", ctx, race, seen, order, s))
  PROVE  /\ SoundWork(M, X, first, r)
         /\ CheckVerdict(M, seen, s, r)
  <1>1. PICK d : d = ForEach("deletion_verification", ctx, race, seen, order, s)
    OBVIOUS
  <1>2. s \in WorkOf(M, X)
    BY DEF SoundWork
  <1>3. /\ CheckWork(M, X, s, d)
        /\ ~d.raised /\ d.findings = 0 =>
             \A k \in 1..Len(order) :
               order[k] \in Listing("deletion_verification", seen, order) => ~Reachable(s.rows[order[k]])
    BY <1>1, <1>2, CheckLoop
  <1>4. d \in WorkOf(M, X) /\ d.findings \in Nat /\ d.rows = s.rows /\ d.status = s.status
    BY <1>3 DEF CheckWork, WorkOf
  <1>5. "memory_vector_purge_verified" \in PurgeActs \ {"deletion_verification_failed"}
        /\ "deletion_verification_passed" \in PurgeActs \ {"deletion_verification_failed"}
    BY DEF PurgeActs
  <1>6. CASE d.findings > 0
    <2>1. r = [d EXCEPT !.status = "completed_with_findings"]
      BY <1>1, <1>6 DEF VerificationDone
    <2>2. /\ r \in WorkOf(M, X) /\ r.status = "completed_with_findings" /\ r.findings = d.findings
          /\ r.rows = d.rows /\ r.trail = d.trail /\ r.raised = d.raised
      BY <1>4, <2>1 DEF WorkOf, WorkStatuses
    <2>3. \A a, n : Tells(r, a, n) <=> Tells(d, a, n)
      BY <2>2, SameTrail
    <2>4. SoundWork(M, X, first, r)
      BY <1>3, <1>4, <1>5, <2>2, <2>3 DEF CheckWork, SoundWork
    <2>5. FindingsTold(M, s) => FindingsTold(M, r)
      BY <1>3, <2>2, <2>3 DEF CheckWork, FindingsTold
    <2> QED
      BY <1>3, <1>5, <1>6, <2>2, <2>3, <2>4, <2>5 DEF CheckWork, CheckVerdict
  <1>7. CASE ~(d.findings > 0)
    <2>1. r = Record(d, "deletion_verification_passed", "none")
      BY <1>1, <1>7 DEF VerificationDone
    <2>2. /\ r \in WorkOf(M, X) /\ SameVerdict(d, r)
          /\ d.raised => r.raised
          /\ r.rows = d.rows
          /\ \A a : a # "deletion_verification_passed" => \A m : Tells(r, a, m) <=> Tells(d, a, m)
      BY <1>4, <2>1, PassIsNoted
    <2>3. d.raised => r.raised
      BY <2>2
    <2>4. /\ r \in WorkOf(M, X) /\ r.rows = d.rows
          /\ \A a : a # "deletion_verification_passed" => \A m : Tells(r, a, m) <=> Tells(d, a, m)
      BY <2>2
    <2>5. SoundWork(M, X, first, r)
      BY <1>3, <1>4, <1>5, <2>4 DEF CheckWork, SoundWork
    <2>6. FindingsTold(M, s) => FindingsTold(M, r)
      BY <1>3, <2>2 DEF CheckWork, FindingsTold, SameVerdict
    <2>7. ASSUME ~r.raised, NEW m \in M, seen[m].status = "deleted" PROVE ~Reachable(r.rows[m])
      <3>1. PICK k \in 1..Len(order) : order[k] = m
        BY DEF Covers
      <3>2. m \in Listing("deletion_verification", seen, order)
        BY <2>7 DEF Listing
      <3>3. ~d.raised /\ d.findings = 0
        BY <1>4, <1>7, <2>3, <2>7
      <3>4. ~Reachable(s.rows[order[k]])
        BY <1>3, <3>1, <3>2, <3>3
      <3> QED
        BY <1>4, <2>4, <3>1, <3>4
    <2> QED
      BY <1>4, <1>7, <2>2, <2>5, <2>6, <2>7 DEF SameVerdict, CheckVerdict
  <1> QED
    BY <1>6, <1>7

Jobs == {"decay", "archive", "conflict_scan", "reflection", "retention", "deletion_compaction",
         "deletion_verification"}

\* Somebody changes a row between the listing and the work.
LEMMA MeddledIsSound ==
  ASSUME NEW M, NEW X, NEW first, NEW s, SoundWork(M, X, first, s), ~s.raised,
         NEW race \in RacesOn(M, X, first),
         race.when # "never" => \A n : ~Tells(s, "memory_vector_purge_verified", n),
         NEW r, r = Meddle(s, race, "listing", race.on)
  PROVE  /\ SamePurges(s, r) /\ ~r.raised /\ QuietWork(M, X, first, s.rows, r, r)
         /\ CompactionWork(M, X, first, race, r)
  <1>1. s \in WorkOf(M, X) /\ s.rows \in [M -> Row(X)] /\ race.on \in M /\ race.row \in Row(X)
        /\ race.row.held = first[race.on].held /\ (race.when # "never" => ~race.row.cleared)
    BY DEF SoundWork, WorkOf, RacesOn
  <1>2. r \in WorkOf(M, X) /\ IsMeddle(s, race, "listing", race.on, r)
    BY <1>1, Meddled
  <1>3. r.trail = s.trail /\ r.status = s.status /\ r.findings = s.findings /\ r.raised = s.raised
        /\ r.rows = IF race.when = "listing" THEN [s.rows EXCEPT ![race.on] = race.row] ELSE s.rows
    BY <1>2 DEF IsMeddle, SameRest
  <1>4. \A a, n : Tells(r, a, n) <=> Tells(s, a, n)
    BY <1>3, SameTrail
  <1>5. SamePurges(s, r)
    BY <1>3, <1>4 DEF SamePurges
  <1>6. SoundRows(M, X, first, r.rows)
    BY <1>1, <1>3 DEF SoundWork, SoundRows
  <1>7. \A n \in M : Tells(r, "memory_vector_purge_verified", n) => r.rows[n].cleared
    <2>1. CASE race.when = "listing"
      BY <1>4, <2>1
    <2>2. CASE race.when # "listing"
      BY <1>3, <1>4, <2>2 DEF SoundWork
    <2> QED
      BY <2>1, <2>2
  <1>8. SoundWork(M, X, first, r)
    BY <1>2, <1>6, <1>7 DEF SoundWork
  <1>9. \A m \in M : s.rows[m].status = "active" => ~r.rows[m].cleared
    BY <1>1, <1>3 DEF SoundWork, SoundRows
  <1>10. SamePurges(r, r)
    BY DEF SamePurges
  <1> QED
    BY <1>3, <1>4, <1>5, <1>8, <1>9, <1>10 DEF QuietWork, CompactionWork

\* A fresh job that told nothing of a purge.
LEMMA QuietVerdict ==
  ASSUME NEW M, NEW X, NEW s, Untold(s), NEW r, r.findings = 0, ~r.raised, r.status \in {"completed", "skipped"},
         \A a \in PurgeActs : \A n : Tells(r, a, n) <=> Tells(s, a, n), NEW rows
  PROVE  JobVerdict(M, rows, r)
  BY DEF Untold, JobVerdict, FindingsTold, PurgeActs

LEMMA ExecuteDoes ==
  ASSUME NEW M, NEW X, NEW first, NEW s, SoundWork(M, X, first, s), ~s.raised,
         NEW race \in RacesOn(M, X, first),
         race.when # "never" => \A n : ~Tells(s, "memory_vector_purge_verified", n),
         NEW order \in Seq(M), Covers(order, M),
         NEW job \in Jobs, NEW ctx, NEW r, r = Execute(job, ctx, race, order, s)
  PROVE  /\ SoundWork(M, X, first, r)
         /\ Untold(s) /\ ~r.raised => JobVerdict(M, s.rows, r)
  <1>1. PICK b : b = Meddle(s, race, "listing", race.on)
    OBVIOUS
  <1>2. /\ SamePurges(s, b) /\ ~b.raised /\ QuietWork(M, X, first, s.rows, b, b)
        /\ CompactionWork(M, X, first, race, b)
    BY <1>1, MeddledIsSound
  <1>3. SoundRows(M, X, first, s.rows) /\ s.rows \in [M -> Row(X)]
    BY DEF SoundWork, SoundRows
  <1>4. ASSUME QuietWork(M, X, first, s.rows, b, r)
        PROVE  SoundWork(M, X, first, r) /\ (Untold(s) /\ ~r.raised => JobVerdict(M, s.rows, r))
    <2>1. /\ SoundWork(M, X, first, r) /\ r.findings = s.findings /\ r.status = s.status
          /\ \A a \in PurgeActs : \A n : Tells(r, a, n) <=> Tells(s, a, n)
      BY <1>2, <1>4 DEF QuietWork, SamePurges
    <2>2. Untold(s) => r.findings = 0 /\ r.status \in {"completed", "skipped"}
      BY <2>1 DEF Untold
    <2> QED
      BY <2>1, <2>2, QuietVerdict
  <1>5. CASE job \in {"decay", "archive", "conflict_scan"}
    <2>1. r = ForEach(job, ctx, race, s.rows, order, b) /\ job \in OneByOne \cup Proposing
      BY <1>1, <1>5 DEF Execute, OneByOne, Proposing
    <2>2. QuietWork(M, X, first, s.rows, b, r)
      BY <1>2, <1>3, <2>1, QuietLoop
    <2> QED
      BY <1>4, <2>2
  <1>6. CASE job = "retention"
    <2>1. r = RetentionJob(ctx, race, s.rows, order, b)
      BY <1>1, <1>6 DEF Execute
    <2> QED
      BY <1>2, <1>3, <1>4, <2>1, QuietJobs
  <1>7. CASE job = "reflection"
    <2>1. r = ReflectionJob(ctx, race, s.rows, order, b)
      BY <1>1, <1>7 DEF Execute
    <2>2. CASE ctx.reflection
      BY <1>2, <1>3, <1>4, <2>1, <2>2, QuietJobs
    <2>3. CASE ~ctx.reflection
      <3>1. r = [b EXCEPT !.status = "skipped"] /\ b \in WorkOf(M, X)
        BY <1>2, <2>1, <2>3 DEF ReflectionJob, CompactionWork, SoundWork
      <3>2. /\ r \in WorkOf(M, X) /\ r.status = "skipped" /\ r.rows = b.rows /\ r.trail = b.trail
            /\ r.findings = b.findings
        BY <3>1 DEF WorkOf, WorkStatuses
      <3>3. \A a, n : Tells(r, a, n) <=> Tells(b, a, n)
        BY <3>2, SameTrail
      <3>4. SoundWork(M, X, first, r)
        BY <1>2, <3>2, <3>3 DEF CompactionWork, SoundWork
      <3>5. Untold(s) /\ ~r.raised => JobVerdict(M, s.rows, r)
        <4>1. /\ r.findings = s.findings /\ r.status \in {"completed", "skipped"}
              /\ \A a \in PurgeActs : \A n : Tells(r, a, n) <=> Tells(s, a, n)
          BY <1>2, <3>2, <3>3 DEF SamePurges
        <4> QED
          BY <4>1, QuietVerdict DEF Untold
      <3> QED
        BY <3>4, <3>5
    <2> QED
      BY <2>2, <2>3
  <1>8. ASSUME Untold(s)
        PROVE  /\ FindingsTold(M, b) /\ b.status = "completed"
               /\ ~Tells(b, "deletion_verification_passed", "none")
    BY <1>2, <1>8 DEF Untold, SamePurges, FindingsTold, PurgeActs
  <1>9. CASE job = "deletion_compaction"
    <2>1. r = CompactionJob(ctx, race, s.rows, order, b)
      BY <1>1, <1>9 DEF Execute
    <2>2. /\ SoundWork(M, X, first, r)
          /\ FindingsTold(M, b) => FindingsTold(M, r)
          /\ b.status = "completed" => /\ r.status = "completed_with_findings" <=> r.findings > 0
                                       /\ r.status # "failed"
          /\ Tells(r, "deletion_verification_passed", "none") <=> Tells(b, "deletion_verification_passed", "none")
      BY <1>2, <1>3, <2>1, CompactionJobDoes
    <2> QED
      BY <1>8, <2>2 DEF JobVerdict
  <1>10. CASE job = "deletion_verification"
    <2>1. r = VerificationDone(ForEach("deletion_verification", ctx, race, s.rows, order, b))
      BY <1>1, <1>10 DEF Execute
    <2>2. SoundWork(M, X, first, b)
      BY <1>2 DEF CompactionWork
    <2>3. SoundWork(M, X, first, r) /\ CheckVerdict(M, s.rows, b, r)
      BY <1>3, <2>1, <2>2, CheckJobDoes
    <2> QED
      BY <1>8, <2>3 DEF JobVerdict, CheckVerdict
  <1> QED
    BY <1>5, <1>6, <1>7, <1>9, <1>10 DEF Jobs

LEMMA OtherNotesAreSound ==
  ASSUME NEW M, NEW X, NEW first, NEW w, SoundWork(M, X, first, w), NEW action \in Actions \ PurgeActs,
         NEW r, r = Record(w, action, "none"), NEW rows
  PROVE  /\ SoundWork(M, X, first, r) /\ r.rows = w.rows /\ SamePurges(w, r)
         /\ w.raised => r.raised
         /\ ~r.raised /\ JobVerdict(M, rows, w) => JobVerdict(M, rows, r)
  <1>1. w \in WorkOf(M, X) /\ "none" \in M \cup {"none"}
    BY DEF SoundWork
  <1>2. /\ r \in WorkOf(M, X) /\ SamePurges(w, r) /\ r.rows = w.rows
        /\ w.raised => r.raised
        /\ FindingsTold(M, w) => FindingsTold(M, r)
    BY <1>1, OtherNotesKeep
  <1>3. SoundWork(M, X, first, r)
    BY <1>2, SamePurgesKeep
  <1>4. ~r.raised /\ JobVerdict(M, rows, w) => JobVerdict(M, rows, r)
    BY <1>2 DEF JobVerdict, SamePurges, PurgeActs
  <1> QED
    BY <1>2, <1>3, <1>4

LEMMA AttemptDoes ==
  ASSUME NEW M, NEW X, NEW first, NEW before, SoundWork(M, X, first, before),
         NEW race \in RacesOn(M, X, first),
         race.when # "never" => \A n : ~Tells(before, "memory_vector_purge_verified", n),
         NEW order \in Seq(M), Covers(order, M),
         NEW job \in Jobs, NEW ctx, NEW r, r = Attempt(job, ctx, race, order, before)
  PROVE  /\ SoundWork(M, X, first, r)
         /\ Untold(before) /\ r.status # "failed" => JobVerdict(M, before.rows, r)
  <1>1. PICK b : b = [before EXCEPT !.written = {}, !.count = NoCounts, !.status = "completed",
                                    !.eligible = 0, !.findings = 0, !.raised = FALSE]
    OBVIOUS
  <1>2. before \in WorkOf(M, X)
    BY DEF SoundWork
  <1>3. /\ b \in WorkOf(M, X) /\ b.rows = before.rows /\ b.trail = before.trail /\ ~b.raised
        /\ b.status = "completed" /\ b.findings = 0
    <2>1. NoCounts \in [Counters -> Nat] /\ {} \in SUBSET Nat /\ "completed" \in WorkStatuses
      BY DEF NoCounts, WorkStatuses
    <2> QED
      BY <1>1, <1>2, <2>1 DEF WorkOf
  <1>4. \A a, n : Tells(b, a, n) <=> Tells(before, a, n)
    BY <1>3, SameTrail
  <1>5. SoundWork(M, X, first, b) /\ (Untold(before) => Untold(b))
    BY <1>3, <1>4 DEF SoundWork, Untold
  <1>6. PICK started : started = Began(before)
    OBVIOUS
  <1>7. started = Record(b, "lifecycle_worker_started", "none")
    BY <1>1, <1>6 DEF Began
  <1>8. SoundWork(M, X, first, started) /\ started.rows = b.rows /\ SamePurges(b, started)
    BY <1>5, <1>7, OtherActions, OtherNotesAreSound
  <1>9. Untold(before) => Untold(started)
    BY <1>5, <1>8 DEF Untold, SamePurges
  <1>10. race.when # "never" => \A n : ~Tells(started, "memory_vector_purge_verified", n)
    BY <1>4, <1>8 DEF SamePurges, PurgeActs
  <1>11. PICK last : last = Performed(job, ctx, race, order, started)
    OBVIOUS
  <1>12. /\ SoundWork(M, X, first, last)
         /\ Untold(before) /\ ~last.raised /\ last.status # "failed" => JobVerdict(M, before.rows, last)
    <2>1. CASE started.raised
      BY <1>8, <1>11, <2>1 DEF Performed
    <2>2. CASE ~started.raised
      <3>1. PICK done : done = Execute(job, ctx, race, order, started)
        OBVIOUS
      <3>2. /\ SoundWork(M, X, first, done)
            /\ Untold(started) /\ ~done.raised => JobVerdict(M, started.rows, done)
        BY <1>8, <1>10, <2>2, <3>1, ExecuteDoes
      <3>3. last = Ended(done)
        BY <1>11, <2>2, <3>1 DEF Performed
      <3>4. CASE done.raised
        <4>1. PICK e : e = [done EXCEPT !.raised = FALSE, !.status = "failed"]
          OBVIOUS
        <4>2. done \in WorkOf(M, X)
          BY <3>2 DEF SoundWork
        <4>3. e \in WorkOf(M, X) /\ e.rows = done.rows /\ e.trail = done.trail /\ e.status = "failed"
          BY <4>1, <4>2 DEF WorkOf, WorkStatuses
        <4>4. \A a, n : Tells(e, a, n) <=> Tells(done, a, n)
          BY <4>3, SameTrail
        <4>5. SoundWork(M, X, first, e)
          BY <3>2, <4>3, <4>4 DEF SoundWork
        <4>6. PICK c : c = Count(e, "errors")
          OBVIOUS
        <4>7. c \in WorkOf(M, X) /\ SameVerdict(e, c) /\ Nothing(e, c)
          BY <4>3, <4>6, Counts DEF Counters
        <4>8. SoundWork(M, X, first, c) /\ c.status = "failed"
          BY <4>3, <4>5, <4>7 DEF SoundWork, Nothing, SameVerdict
        <4>9. last = Record(c, "lifecycle_worker_failed", "none")
          BY <3>3, <3>4, <4>1, <4>6 DEF Ended
        <4>10. SoundWork(M, X, first, last) /\ SamePurges(c, last)
          BY <4>8, <4>9, OtherActions, OtherNotesAreSound
        <4> QED
          BY <4>8, <4>10 DEF SamePurges
      <3>5. CASE ~done.raised
        <4>1. last = Record(done, "lifecycle_worker_completed", "none")
          BY <3>3, <3>5 DEF Ended
        <4>2. /\ SoundWork(M, X, first, last)
              /\ ~last.raised /\ JobVerdict(M, before.rows, done) => JobVerdict(M, before.rows, last)
          BY <3>2, <4>1, OtherActions, OtherNotesAreSound
        <4> QED
          BY <1>3, <1>8, <1>9, <3>2, <3>5, <4>2
      <3> QED
        BY <3>4, <3>5
    <2> QED
      BY <2>1, <2>2
  <1>13. r = Reported(last)
    BY <1>6, <1>11 DEF Attempt
  <1>14. CASE ~last.raised
    BY <1>12, <1>13, <1>14 DEF Reported
  <1>15. CASE last.raised
    <2>1. r = [last EXCEPT !.raised = FALSE, !.status = "failed", !.written = {}, !.count = NoCounts]
      BY <1>13, <1>15 DEF Reported
    <2>2. last \in WorkOf(M, X)
      BY <1>12 DEF SoundWork
    <2>3. r \in WorkOf(M, X) /\ r.rows = last.rows /\ r.trail = last.trail /\ r.status = "failed"
      <3>1. NoCounts \in [Counters -> Nat] /\ {} \in SUBSET Nat /\ "failed" \in WorkStatuses
        BY DEF NoCounts, WorkStatuses
      <3> QED
        BY <2>1, <2>2, <3>1 DEF WorkOf
    <2>4. \A a, n : Tells(r, a, n) <=> Tells(last, a, n)
      BY <2>3, SameTrail
    <2> QED
      BY <1>12, <2>3, <2>4 DEF SoundWork
  <1> QED
    BY <1>14, <1>15

(* However many rows there are, whatever a row says, whichever call fails   *)
(* and whoever changes a row meanwhile: what is called verified lost its    *)
(* content, only deleted rows that were not held lose it, and a job that    *)
(* went through at once tells every finding and looks back at every purge.  *)
THEOREM JobsProveTheirPurges ==
  ASSUME NEW M, NEW X, NEW rows \in [M -> Row(X)], \A m \in M : rows[m].cleared => rows[m].status = "deleted",
         NEW race \in RacesOn(M, X, rows), NEW order \in Seq(M), Covers(order, M),
         NEW job \in Jobs, NEW ctx, NEW fault \in Nat,
         NEW out, out = RunOneJob(job, ctx, race, order, Work(rows, fault))
  PROVE  /\ SoundWork(M, X, rows, out.work)
         /\ out.attempts = 1 /\ out.work.status # "failed" => JobVerdict(M, rows, out.work)
  <1>1. PICK before : before = Work(rows, fault)
    OBVIOUS
  <1>2. before.rows = rows /\ before.trail = <<>> /\ before.findings = 0 /\ before.status = "completed"
    BY <1>1 DEF Work
  <1>3. before \in WorkOf(M, X)
    <2>1. NoCounts \in [Counters -> Nat] /\ {} \in SUBSET Nat /\ "completed" \in WorkStatuses
          /\ <<>> \in Seq(EventsOf(M))
      BY DEF NoCounts, WorkStatuses
    <2> QED
      BY <1>1, <2>1 DEF Work, WorkOf
  <1>4. \A a, n : ~Tells(before, a, n)
    BY <1>2 DEF Tells, EventsIn, ToSet
  <1>5. SoundWork(M, X, rows, before) /\ Untold(before)
    BY <1>2, <1>3, <1>4 DEF SoundWork, SoundRows, Untold
  <1>6. PICK first : first = Attempt(job, ctx, race, order, before)
    OBVIOUS
  <1>7. /\ SoundWork(M, X, rows, first)
        /\ Untold(before) /\ first.status # "failed" => JobVerdict(M, before.rows, first)
    BY <1>4, <1>5, <1>6, AttemptDoes
  <1>8. PICK later : later = [race EXCEPT !.when = "never"]
    OBVIOUS
  <1>9. later \in RacesOn(M, X, rows) /\ later.when = "never"
    BY <1>8 DEF RacesOn
  <1>10. out = Retried(job, ctx, later, order, first)
    BY <1>1, <1>6, <1>8 DEF RunOneJob
  <1>11. CASE first.status # "failed"
    <2>1. out = [work |-> first, attempts |-> 1]
      BY <1>10, <1>11 DEF Retried
    <2> QED
      BY <1>2, <1>5, <1>7, <1>11, <2>1
  <1>12. CASE first.status = "failed"
    <2>1. PICK last : last = Attempt(job, ctx, later, order, first)
      OBVIOUS
    <2>2. out = [work |-> Buried(last), attempts |-> 2]
      BY <1>10, <1>12, <2>1 DEF Retried
    <2>3. SoundWork(M, X, rows, last)
      BY <1>7, <1>9, <2>1, AttemptDoes
    <2>4. last \in WorkOf(M, X)
      BY <2>3 DEF SoundWork
    <2>5. Buried(last) \in WorkOf(M, X) /\ Buried(last).rows = last.rows /\ Buried(last).trail = last.trail
      BY <2>4 DEF Buried, WorkOf, WorkStatuses
    <2>6. \A a, n : Tells(Buried(last), a, n) <=> Tells(last, a, n)
      BY <2>5, SameTrail
    <2>7. SoundWork(M, X, rows, Buried(last))
      BY <2>3, <2>5, <2>6 DEF SoundWork
    <2> QED
      BY <2>2, <2>7
  <1> QED
    BY <1>11, <1>12

-----------------------------------------------------------------------------
(* The books of a job: what its result names and counts.                    *)

ForgetActs == {"memory_retention_expired", "memory_consent_revoked"}

\* The events that say a row was changed.
DeedActs ==
  {"memory_decay_applied", "memory_archived_by_worker", "memory_content_compacted"} \cup ForgetActs

Deeds(s) == {e \in EventsIn(s) : e.action \in DeedActs}

\* The result names the events that were written, and no number is given twice.
Booked(M, X) ==
  {s \in WorkOf(M, X) :
     ~s.raised => /\ s.written = {e.id : e \in EventsIn(s)}
                  /\ \A e \in EventsIn(s) : e.id < s.nextId
                  /\ IsFiniteSet(EventsIn(s))}

\* d changes are not counted yet, and k memories were scanned and not counted yet.
Owing(M, X, d, k) ==
  {s \in Booked(M, X) :
     ~s.raised => /\ Cardinality(Deeds(s)) = s.count["changed"] + d
                  /\ s.count["scanned"] = s.count["changed"] + s.count["skipped"] + k}

LEMMA EventsAre ==
  ASSUME NEW M, NEW X, NEW s \in WorkOf(M, X)
  PROVE  EventsIn(s) \subseteq EventsOf(M)
  BY DEF EventsIn, ToSet, WorkOf

\* The events after a record that did not raise.
LEMMA OneMoreIsFiled ==
  ASSUME NEW M, NEW X, NEW s \in WorkOf(M, X), NEW m \in M \cup {"none"}, NEW action \in Actions,
         NEW r, IsRecord(s, action, m, r), ~r.raised,
         NEW e, e = [id |-> s.nextId, action |-> action, memory |-> m]
  PROVE  EventsIn(r) = EventsIn(s) \cup {e} /\ e \in EventsOf(M)
  <1>1. e \in EventsOf(M)
    BY DEF EventsOf, WorkOf
  <1>2. s.trail \in Seq(EventsOf(M)) /\ r.trail = Append(s.trail, e)
    BY DEF WorkOf, IsRecord
  <1> QED
    BY <1>1, <1>2, OneMoreEvent DEF EventsIn

LEMMA RecordKeepsBooked ==
  ASSUME NEW M, NEW X, NEW s \in Booked(M, X), NEW m \in M \cup {"none"}, NEW action \in Actions
  PROVE  Record(s, action, m) \in Booked(M, X)
  <1>1. PICK r : r = Record(s, action, m)
    OBVIOUS
  <1>2. s \in WorkOf(M, X) /\ r \in WorkOf(M, X) /\ IsRecord(s, action, m, r)
    BY <1>1, Recorded DEF Booked
  <1>3. ASSUME ~r.raised
        PROVE  /\ r.written = {e.id : e \in EventsIn(r)}
               /\ \A e \in EventsIn(r) : e.id < r.nextId
               /\ IsFiniteSet(EventsIn(r))
    <2>1. PICK e : e = [id |-> s.nextId, action |-> action, memory |-> m]
      OBVIOUS
    <2>2. EventsIn(r) = EventsIn(s) \cup {e} /\ e.id = s.nextId
      BY <1>2, <1>3, <2>1, OneMoreIsFiled
    <2>3. ~s.raised /\ r.nextId = s.nextId + 1 /\ r.written = s.written \cup {s.nextId}
      BY <1>2, <1>3 DEF IsRecord
    <2>4. s.nextId \in Nat /\ \A f \in EventsIn(s) : f.id \in Nat
      <3>1. s.nextId \in Nat
        BY <1>2 DEF WorkOf
      <3>2. \A f \in EventsOf(M) : f.id \in Nat
        BY DEF EventsOf
      <3> QED
        BY <1>2, <3>1, <3>2, EventsAre
    <2>5. IsFiniteSet(EventsIn(r))
      BY <2>2, <2>3, FS_AddElement DEF Booked
    <2>6. r.written = {f.id : f \in EventsIn(r)}
      BY <2>2, <2>3 DEF Booked
    <2>7. \A f \in EventsIn(r) : f.id < r.nextId
      BY <2>2, <2>3, <2>4 DEF Booked
    <2> QED
      BY <2>5, <2>6, <2>7
  <1> QED
    BY <1>1, <1>2, <1>3 DEF Booked

\* A step that leaves trail, numbers and names alone leaves the books true.
LEMMA SameBooks ==
  ASSUME NEW M, NEW X, NEW s \in Booked(M, X), NEW r \in WorkOf(M, X), r.trail = s.trail,
         r.nextId = s.nextId, r.written = s.written, s.raised => r.raised
  PROVE  r \in Booked(M, X)
  BY DEF Booked, EventsIn

LEMMA CountKeepsBooked ==
  ASSUME NEW M, NEW X, NEW s \in Booked(M, X), NEW c \in Counters
  PROVE  Count(s, c) \in Booked(M, X)
  <1>1. PICK r : r = Count(s, c)
    OBVIOUS
  <1>2. s \in WorkOf(M, X)
    BY DEF Booked
  <1>3. r \in WorkOf(M, X) /\ IsCount(s, c, r)
    BY <1>1, <1>2, Counted
  <1> QED
    BY <1>1, <1>3, SameBooks DEF IsCount, SameRest

LEMMA WriteKeepsBooked ==
  ASSUME NEW M, NEW X, NEW s \in Booked(M, X), NEW m \in M, NEW row \in Row(X)
  PROVE  Write(s, m, row) \in Booked(M, X)
  <1>1. PICK r : r = Write(s, m, row)
    OBVIOUS
  <1>2. s \in WorkOf(M, X)
    BY DEF Booked
  <1>3. r \in WorkOf(M, X) /\ IsWrite(s, m, row, r)
    BY <1>1, <1>2, WrittenTo
  <1> QED
    BY <1>1, <1>3, SameBooks DEF IsWrite, SameRest

LEMMA AtomicKeepsBooked ==
  ASSUME NEW M, NEW X, NEW s \in WorkOf(M, X), NEW done \in Booked(M, X)
  PROVE  Atomic(s, done) \in Booked(M, X)
  <1>1. PICK r : r = Atomic(s, done)
    OBVIOUS
  <1>2. done \in WorkOf(M, X) /\ r \in WorkOf(M, X) /\ IsAtomic(s, done, r)
    BY <1>1, Undone DEF Booked
  <1>3. CASE done.raised
    BY <1>1, <1>2, <1>3 DEF IsAtomic, SameRest, Booked
  <1>4. CASE ~done.raised
    BY <1>1, <1>2, <1>4, SameBooks DEF IsAtomic, SameRest
  <1> QED
    BY <1>3, <1>4

LEMMA MeddleKeepsBooked ==
  ASSUME NEW M, NEW X, NEW s \in Booked(M, X), NEW race, race.row \in Row(X), NEW when, NEW m \in M
  PROVE  Meddle(s, race, when, m) \in Booked(M, X)
  <1>1. PICK r : r = Meddle(s, race, when, m)
    OBVIOUS
  <1>2. s \in WorkOf(M, X)
    BY DEF Booked
  <1>3. r \in WorkOf(M, X) /\ IsMeddle(s, race, when, m, r)
    BY <1>1, <1>2, Meddled
  <1> QED
    BY <1>1, <1>3, SameBooks DEF IsMeddle, SameRest

\* A finding or an eligible row is noted.
LEMMA NotedKeepsBooked ==
  ASSUME NEW M, NEW X, NEW s \in Booked(M, X), NEW r,
         r = [s EXCEPT !.findings = @ + 1] \/ r = Eligible(s)
  PROVE  r \in Booked(M, X) /\ r.count = s.count /\ r.trail = s.trail /\ r.raised = s.raised /\ r.rows = s.rows
  <1>1. s \in WorkOf(M, X) /\ s.eligible \in Nat
    BY DEF Booked, WorkOf
  <1>2. CASE r = [s EXCEPT !.findings = @ + 1]
    <2>1. /\ r \in WorkOf(M, X) /\ r.trail = s.trail /\ r.raised = s.raised /\ r.rows = s.rows
      BY <1>1, <1>2, FoundOne
    <2>2. r.nextId = s.nextId /\ r.written = s.written /\ r.count = s.count
      BY <1>1, <1>2 DEF WorkOf
    <2> QED
      BY <2>1, <2>2, SameBooks
  <1>3. CASE r = Eligible(s)
    <2>1. r = [s EXCEPT !.eligible = s.eligible + 1] /\ s.eligible + 1 \in Nat
      BY <1>1, <1>3 DEF Eligible, WorkOf
    <2>2. /\ r \in WorkOf(M, X) /\ r.trail = s.trail /\ r.raised = s.raised /\ r.rows = s.rows
          /\ r.nextId = s.nextId /\ r.written = s.written /\ r.count = s.count
      BY <1>1, <2>1 DEF WorkOf
    <2> QED
      BY <2>2, SameBooks
  <1> QED
    BY <1>2, <1>3

\* The deeds after a record that did not raise.
LEMMA DeedsAfter ==
  ASSUME NEW M, NEW X, NEW s \in Booked(M, X), NEW m \in M \cup {"none"}, NEW action \in Actions,
         NEW r, r = Record(s, action, m), ~r.raised
  PROVE  /\ ~s.raised /\ r.count = s.count /\ IsFiniteSet(Deeds(s))
         /\ action \notin DeedActs => Deeds(r) = Deeds(s)
         /\ action \in DeedActs => Cardinality(Deeds(r)) = Cardinality(Deeds(s)) + 1
  <1>1. s \in WorkOf(M, X) /\ IsRecord(s, action, m, r)
    BY Recorded DEF Booked
  <1>2. PICK e : e = [id |-> s.nextId, action |-> action, memory |-> m]
    OBVIOUS
  <1>3. EventsIn(r) = EventsIn(s) \cup {e} /\ e.action = action /\ e.id = s.nextId
    BY <1>1, <1>2, OneMoreIsFiled
  <1>4. ~s.raised /\ r.count = s.count
    BY <1>1 DEF IsRecord
  <1>5. IsFiniteSet(Deeds(s))
    <2>1. IsFiniteSet(EventsIn(s)) /\ Deeds(s) \subseteq EventsIn(s)
      BY <1>4 DEF Booked, Deeds
    <2> QED
      BY <2>1, FS_Subset
  <1>6. ASSUME action \notin DeedActs PROVE Deeds(r) = Deeds(s)
    BY <1>3, <1>6 DEF Deeds
  <1>7. ASSUME action \in DeedActs PROVE Cardinality(Deeds(r)) = Cardinality(Deeds(s)) + 1
    <2>1. Deeds(r) = Deeds(s) \cup {e}
      BY <1>3, <1>7 DEF Deeds
    <2>2. e \notin Deeds(s)
      <3>1. s.nextId \in Nat
        BY <1>1 DEF WorkOf
      <3>2. \A f \in EventsIn(s) : f.id < s.nextId
        BY <1>4 DEF Booked
      <3> QED
        BY <1>3, <3>1, <3>2 DEF Deeds
    <2> QED
      BY <1>5, <2>1, <2>2, FS_AddElement
  <1> QED
    BY <1>4, <1>5, <1>6, <1>7

LEMMA RecordOwes ==
  ASSUME NEW M, NEW X, NEW d, NEW k, NEW s \in Owing(M, X, d, k), NEW m \in M \cup {"none"},
         NEW action \in Actions \ DeedActs
  PROVE  Record(s, action, m) \in Owing(M, X, d, k)
  <1>1. PICK r : r = Record(s, action, m)
    OBVIOUS
  <1>2. s \in Booked(M, X) /\ r \in Booked(M, X)
    BY <1>1, RecordKeepsBooked DEF Owing
  <1>3. CASE r.raised
    BY <1>1, <1>2, <1>3 DEF Owing
  <1>4. CASE ~r.raised
    <2>1. ~s.raised /\ r.count = s.count /\ Deeds(r) = Deeds(s)
      BY <1>1, <1>2, <1>4, DeedsAfter
    <2> QED
      BY <1>1, <1>2, <1>4, <2>1 DEF Owing
  <1> QED
    BY <1>3, <1>4

LEMMA DeedOwes ==
  ASSUME NEW M, NEW X, NEW k, NEW s \in Owing(M, X, 0, k), NEW m \in M \cup {"none"},
         NEW action \in Actions, action \in DeedActs
  PROVE  Record(s, action, m) \in Owing(M, X, 1, k)
  <1>1. PICK r : r = Record(s, action, m)
    OBVIOUS
  <1>2. s \in Booked(M, X) /\ r \in Booked(M, X)
    BY <1>1, RecordKeepsBooked DEF Owing
  <1>3. CASE r.raised
    BY <1>1, <1>2, <1>3 DEF Owing
  <1>4. CASE ~r.raised
    <2>1. ~s.raised /\ r.count = s.count /\ Cardinality(Deeds(r)) = Cardinality(Deeds(s)) + 1
      BY <1>1, <1>2, <1>4, DeedsAfter
    <2>2. s.count["changed"] \in Nat
      BY <1>2 DEF Booked, WorkOf, Counters
    <2>3. Cardinality(Deeds(s)) = s.count["changed"] + 0
          /\ s.count["scanned"] = s.count["changed"] + s.count["skipped"] + k
      BY <2>1 DEF Owing
    <2>4. Cardinality(Deeds(r)) = r.count["changed"] + 1
          /\ r.count["scanned"] = r.count["changed"] + r.count["skipped"] + k
      BY <2>1, <2>2, <2>3
    <2> QED
      BY <1>1, <1>2, <2>4 DEF Owing
  <1> QED
    BY <1>3, <1>4

\* A step that leaves trail and counts alone owes what was owed.
LEMMA SameOwes ==
  ASSUME NEW M, NEW X, NEW d, NEW k, NEW s \in Owing(M, X, d, k), NEW r \in Booked(M, X),
         ~r.raised => ~s.raised /\ r.trail = s.trail /\ r.count = s.count
  PROVE  r \in Owing(M, X, d, k)
  BY DEF Owing, Deeds, EventsIn

\* Scanned, skipped, changed, or an error.
LEMMA CountedOwes ==
  ASSUME NEW M, NEW X, NEW d, NEW k, NEW s \in Owing(M, X, d, k), NEW c \in Counters,
         NEW r, r = Count(s, c)
  PROVE  /\ r \in Booked(M, X)
         /\ ~r.raised =>
              /\ Cardinality(Deeds(r)) = s.count["changed"] + d
              /\ s.count["scanned"] = s.count["changed"] + s.count["skipped"] + k
              /\ s.count \in [Counters -> Nat] /\ r.count = [s.count EXCEPT ![c] = @ + 1]
  <1>1. s \in Booked(M, X) /\ r \in Booked(M, X) /\ s \in WorkOf(M, X)
    BY CountKeepsBooked DEF Owing, Booked
  <1>2. IsCount(s, c, r)
    BY <1>1, Counted
  <1>3. r.raised = s.raised /\ Deeds(r) = Deeds(s)
    BY <1>2 DEF IsCount, SameRest, Deeds, EventsIn
  <1>4. s.count \in [Counters -> Nat]
    BY <1>1 DEF WorkOf
  <1> QED
    BY <1>1, <1>2, <1>3, <1>4 DEF Owing, IsCount

\* One more of one counter.
LEMMA OneMoreCounted ==
  ASSUME NEW n \in [Counters -> Nat], NEW c \in Counters, NEW q, q = [n EXCEPT ![c] = @ + 1]
  PROVE  /\ n["scanned"] \in Nat /\ n["changed"] \in Nat /\ n["skipped"] \in Nat
         /\ q["scanned"] = IF c = "scanned" THEN n["scanned"] + 1 ELSE n["scanned"]
         /\ q["changed"] = IF c = "changed" THEN n["changed"] + 1 ELSE n["changed"]
         /\ q["skipped"] = IF c = "skipped" THEN n["skipped"] + 1 ELSE n["skipped"]
  BY DEF Counters

\* Scanned, skipped, changed, or an error.
LEMMA CountOwes ==
  ASSUME NEW M, NEW X, NEW s, NEW c, NEW d, NEW k, NEW d1, NEW k1, s \in Owing(M, X, d, k),
         \/ c = "scanned" /\ d = 0 /\ k = 0 /\ d1 = 0 /\ k1 = 1
         \/ c = "skipped" /\ d = 0 /\ k = 1 /\ d1 = 0 /\ k1 = 0
         \/ c = "changed" /\ d = 1 /\ k = 1 /\ d1 = 0 /\ k1 = 0
         \/ c = "errors" /\ d = 0 /\ k = 0 /\ d1 = 0 /\ k1 = 0
  PROVE  Count(s, c) \in Owing(M, X, d1, k1)
  <1>1. PICK r : r = Count(s, c)
    OBVIOUS
  <1>2. c \in Counters
    BY DEF Counters
  <1>3. /\ r \in Booked(M, X)
        /\ ~r.raised =>
             /\ Cardinality(Deeds(r)) = s.count["changed"] + d
             /\ s.count["scanned"] = s.count["changed"] + s.count["skipped"] + k
             /\ s.count \in [Counters -> Nat] /\ r.count = [s.count EXCEPT ![c] = @ + 1]
    BY <1>1, <1>2, CountedOwes
  <1>4. ASSUME ~r.raised
        PROVE  /\ Cardinality(Deeds(r)) = r.count["changed"] + d1
               /\ r.count["scanned"] = r.count["changed"] + r.count["skipped"] + k1
    <2>1. PICK n, q : n \in [Counters -> Nat] /\ n = s.count /\ q = r.count /\ q = [n EXCEPT ![c] = @ + 1]
      BY <1>3, <1>4
    <2>2. /\ n["scanned"] \in Nat /\ n["changed"] \in Nat /\ n["skipped"] \in Nat
          /\ q["scanned"] = IF c = "scanned" THEN n["scanned"] + 1 ELSE n["scanned"]
          /\ q["changed"] = IF c = "changed" THEN n["changed"] + 1 ELSE n["changed"]
          /\ q["skipped"] = IF c = "skipped" THEN n["skipped"] + 1 ELSE n["skipped"]
      BY <1>2, <2>1, OneMoreCounted
    <2>3. Cardinality(Deeds(r)) = n["changed"] + d /\ n["scanned"] = n["changed"] + n["skipped"] + k
      BY <1>3, <1>4, <2>1
    <2>4. Cardinality(Deeds(r)) = q["changed"] + d1 /\ q["scanned"] = q["changed"] + q["skipped"] + k1
      BY <2>2, <2>3
    <2> QED
      BY <2>1, <2>4
  <1> QED
    BY <1>1, <1>3, <1>4 DEF Owing

\* Steps that neither record nor count.
LEMMA OthersOwe ==
  ASSUME NEW M, NEW X, NEW d, NEW k, NEW s \in Owing(M, X, d, k)
  PROVE  /\ \A m \in M, row \in Row(X) : Write(s, m, row) \in Owing(M, X, d, k)
         /\ \A w \in WorkOf(M, X) : Atomic(w, s) \in Owing(M, X, d, k)
         /\ \A race, when : \A m \in M : race.row \in Row(X) => Meddle(s, race, when, m) \in Owing(M, X, d, k)
         /\ [s EXCEPT !.findings = @ + 1] \in Owing(M, X, d, k) /\ Eligible(s) \in Owing(M, X, d, k)
  <1>1. s \in Booked(M, X) /\ s \in WorkOf(M, X)
    BY DEF Owing, Booked
  <1>2. ASSUME NEW m \in M, NEW row \in Row(X) PROVE Write(s, m, row) \in Owing(M, X, d, k)
    <2>1. PICK r : r = Write(s, m, row)
      OBVIOUS
    <2>2. r \in Booked(M, X) /\ IsWrite(s, m, row, r)
      BY <1>1, <2>1, WrittenTo, WriteKeepsBooked
    <2> QED
      BY <2>1, <2>2, SameOwes DEF IsWrite, SameRest
  <1>3. ASSUME NEW w \in WorkOf(M, X) PROVE Atomic(w, s) \in Owing(M, X, d, k)
    <2>1. PICK r : r = Atomic(w, s)
      OBVIOUS
    <2>2. r \in Booked(M, X) /\ IsAtomic(w, s, r)
      BY <1>1, <2>1, Undone, AtomicKeepsBooked
    <2> QED
      BY <2>1, <2>2, SameOwes DEF IsAtomic, SameRest
  <1>4. ASSUME NEW race, NEW when, NEW m \in M, race.row \in Row(X)
        PROVE  Meddle(s, race, when, m) \in Owing(M, X, d, k)
    <2>1. PICK r : r = Meddle(s, race, when, m)
      OBVIOUS
    <2>2. r \in Booked(M, X) /\ IsMeddle(s, race, when, m, r)
      BY <1>1, <1>4, <2>1, Meddled, MeddleKeepsBooked
    <2> QED
      BY <2>1, <2>2, SameOwes DEF IsMeddle, SameRest
  <1>5. ASSUME NEW r, r = [s EXCEPT !.findings = @ + 1] \/ r = Eligible(s)
        PROVE  r \in Owing(M, X, d, k)
    <2>1. r \in Booked(M, X) /\ r.count = s.count /\ r.trail = s.trail /\ r.raised = s.raised
      BY <1>1, <1>5, NotedKeepsBooked
    <2> QED
      BY <2>1, SameOwes
  <1> QED
    BY <1>2, <1>3, <1>4, <1>5

\* Every turn of every job names and numbers what it wrote.
LEMMA DecayKeepsBooked ==
  ASSUME NEW M, NEW X, NEW s \in Booked(M, X), NEW m \in M, NEW copy \in Row(X), NEW ctx
  PROVE  DecayItem(ctx, s, m, copy) \in Booked(M, X) /\ ArchiveItem(ctx, s, m, copy) \in Booked(M, X)
  <1>1. /\ {"memory_decay_applied", "memory_archived_by_worker", "memory_archive_candidate"} \subseteq Actions
        /\ {"skipped", "changed"} \subseteq Counters /\ m \in M \cup {"none"} /\ s \in WorkOf(M, X)
    BY DEF Actions, Counters, Booked
  <1>2. PICK row1, row2 : row1 = [copy EXCEPT !.decayed = TRUE] /\ row2 = [copy EXCEPT !.status = "archived"]
    OBVIOUS
  <1>3. row1 \in Row(X) /\ row2 \in Row(X)
    BY <1>2, RowChanges
  <1>4. /\ Count(s, "skipped") \in Booked(M, X)
        /\ Count(Record(s, "memory_archive_candidate", m), "changed") \in Booked(M, X)
    BY <1>1, CountKeepsBooked, RecordKeepsBooked
  <1>5. Count(Atomic(s, Record(Write(s, m, row1), "memory_decay_applied", m)), "changed") \in Booked(M, X)
    <2>1. Record(Write(s, m, row1), "memory_decay_applied", m) \in Booked(M, X)
      BY <1>1, <1>3, WriteKeepsBooked, RecordKeepsBooked
    <2> QED
      BY <1>1, <2>1, AtomicKeepsBooked, CountKeepsBooked
  <1>6. Count(Atomic(s, Record(Write(s, m, row2), "memory_archived_by_worker", m)), "changed") \in Booked(M, X)
    <2>1. Record(Write(s, m, row2), "memory_archived_by_worker", m) \in Booked(M, X)
      BY <1>1, <1>3, WriteKeepsBooked, RecordKeepsBooked
    <2> QED
      BY <1>1, <2>1, AtomicKeepsBooked, CountKeepsBooked
  <1> QED
    BY <1>2, <1>4, <1>5, <1>6 DEF DecayItem, ArchiveItem

LEMMA RetentionKeepsBooked ==
  ASSUME NEW M, NEW X, NEW s \in Booked(M, X), NEW m \in M, NEW copy \in Row(X), NEW ctx
  PROVE  RetentionItem(ctx, s, m, copy) \in Booked(M, X)
  <1>1. /\ "retention_decision_recorded" \in Actions /\ s \in WorkOf(M, X)
        /\ {"skipped", "changed"} \subseteq Counters /\ m \in M \cup {"none"}
    BY DEF Actions, Counters, Booked
  <1>2. PICK outcome : outcome = RetentionOutcome(copy)
    OBVIOUS
  <1>3. outcome \in {"held", "kept", "expired", "consent_revoked"}
    BY <1>2 DEF RetentionOutcome, Row
  <1>4. outcome # "kept" => OutcomeAction[outcome] \in Actions
    BY <1>3 DEF OutcomeAction, Actions
  <1>5. ASSUME outcome # "kept", NEW w \in Booked(M, X)
        PROVE  RecordDecision(w, m, outcome) \in Booked(M, X)
    BY <1>1, <1>4, <1>5, RecordKeepsBooked DEF RecordDecision
  <1>6. PICK row : row = [copy EXCEPT !.stamped = TRUE]
    OBVIOUS
  <1>7. row \in Row(X)
    BY <1>6, RowChanges DEF Stamped
  <1>8. \A w \in Booked(M, X) : Write(w, m, row) \in Booked(M, X)
    BY <1>7, WriteKeepsBooked
  <1>9. PICK preview : preview = (ctx.dry \/ ~ctx.retention)
    OBVIOUS
  <1> DEFINE Stamp(w) == IF preview THEN w ELSE Write(w, m, row)
             decided == RecordDecision(s, m, outcome)
             done == IF outcome = "held" THEN Stamp(RecordDecision(Count(s, "skipped"), m, outcome))
                     ELSE IF outcome = "kept" THEN Stamp(Count(s, "skipped"))
                     ELSE IF preview THEN Count(decided, "changed")
                     ELSE Count(Write(decided, m, [decided.rows[m] EXCEPT !.status = "deleted"]), "changed")
  <1>10. RetentionItem(ctx, s, m, copy) = Atomic(s, done)
    BY <1>2, <1>6, <1>9, Zenon DEF RetentionItem
  <1>11. \A w \in Booked(M, X) : Stamp(w) \in Booked(M, X)
    BY <1>8
  <1>12. Count(s, "skipped") \in Booked(M, X)
    BY <1>1, CountKeepsBooked
  <1>13. ASSUME outcome \notin {"held", "kept"}
         PROVE  /\ Count(decided, "changed") \in Booked(M, X)
                /\ Count(Write(decided, m, [decided.rows[m] EXCEPT !.status = "deleted"]), "changed")
                     \in Booked(M, X)
    <2>1. decided \in Booked(M, X)
      BY <1>5, <1>13
    <2> HIDE DEF decided
    <2>2. decided.rows[m] \in Row(X)
      BY <2>1 DEF Booked, WorkOf
    <2>3. PICK dropped : dropped = [decided.rows[m] EXCEPT !.status = "deleted"]
      OBVIOUS
    <2>4. dropped \in Row(X)
      BY <2>2, <2>3, RowChanges DEF Dropped
    <2>5. Write(decided, m, dropped) \in Booked(M, X)
      BY <2>1, <2>4, WriteKeepsBooked
    <2> QED
      BY <1>1, <2>1, <2>3, <2>5, CountKeepsBooked
  <1>14. done \in Booked(M, X)
    <2> HIDE DEF decided, Stamp
    <2> QED
      BY <1>5, <1>11, <1>12, <1>13
  <1> HIDE DEF done
  <1> QED
    BY <1>1, <1>10, <1>14, AtomicKeepsBooked

LEMMA CompactionKeepsBooked ==
  ASSUME NEW M, NEW X, NEW s \in Booked(M, X), NEW m \in M, NEW copy, NEW ctx, NEW race, race.row \in Row(X)
  PROVE  CompactionItem(ctx, race, s, m, copy) \in Booked(M, X)
  <1>1. /\ {"memory_legal_hold_compaction_blocked", "memory_content_compacted",
            "memory_vector_purge_attempted", "memory_vector_purge_verified",
            "memory_purge_tombstone_preserved", "memory_vector_purge_failed"} \subseteq Actions
        /\ {"skipped", "changed", "errors"} \subseteq Counters /\ m \in M \cup {"none"}
    BY DEF Actions, Counters
  <1>2. ASSUME NEW w \in Booked(M, X) PROVE Cleared(w, m) \in Booked(M, X)
    <2>1. w \in WorkOf(M, X) /\ w.rows[m] \in Row(X)
      BY DEF Booked, WorkOf
    <2>2. PICK row : row = [w.rows[m] EXCEPT !.cleared = TRUE]
      OBVIOUS
    <2>3. row \in Row(X)
      BY <2>1, <2>2, RowChanges
    <2>4. Record(Record(Write(w, m, row), "memory_content_compacted", m),
                 "memory_vector_purge_attempted", m) \in Booked(M, X)
      BY <1>1, <2>3, WriteKeepsBooked, RecordKeepsBooked
    <2> QED
      BY <2>1, <2>2, <2>4, AtomicKeepsBooked DEF Cleared
  <1>3. ASSUME NEW w \in Booked(M, X) PROVE VerifyPurge(w, m) \in Booked(M, X)
    <2>1. Record(Record(w, "memory_vector_purge_verified", m), "memory_purge_tombstone_preserved", m)
            \in Booked(M, X)
      BY <1>1, RecordKeepsBooked
    <2>2. [w EXCEPT !.findings = @ + 1] \in Booked(M, X)
      BY NotedKeepsBooked
    <2>3. Record(Count([w EXCEPT !.findings = @ + 1], "errors"), "memory_vector_purge_failed", m)
            \in Booked(M, X)
      BY <1>1, <2>2, CountKeepsBooked, RecordKeepsBooked
    <2> QED
      BY <2>1, <2>3 DEF VerifyPurge
  <1>4. ASSUME NEW w \in Booked(M, X) PROVE Purged(race, w, m) \in Booked(M, X)
    <2>1. Meddle(Count(Cleared(w, m), "changed"), race, "commit", m) \in Booked(M, X)
      BY <1>1, <1>2, CountKeepsBooked, MeddleKeepsBooked
    <2> QED
      BY <1>3, <2>1 DEF Purged
  <1>5. Eligible(s) \in Booked(M, X)
    BY NotedKeepsBooked
  <1>6. Record(Count(s, "skipped"), "memory_legal_hold_compaction_blocked", m) \in Booked(M, X)
    BY <1>1, CountKeepsBooked, RecordKeepsBooked
  <1>7. /\ Count(s, "skipped") \in Booked(M, X) /\ Count(Eligible(s), "changed") \in Booked(M, X)
        /\ Count(Eligible(s), "skipped") \in Booked(M, X)
    BY <1>1, <1>5, CountKeepsBooked
  <1> QED
    BY <1>4, <1>5, <1>6, <1>7 DEF CompactionItem

LEMMA TurnKeepsBooked ==
  ASSUME NEW M, NEW X, NEW s \in Booked(M, X), NEW m \in M, NEW seen \in [M -> Row(X)], NEW ctx,
         NEW race, race.row \in Row(X), NEW phase
  PROVE  Item(phase, ctx, race, seen, s, m) \in Booked(M, X)
  <1>1. /\ {"conflict_candidate_detected", "reflection_candidate_detected",
            "deletion_verification_failed"} \subseteq Actions
        /\ {"scanned", "skipped", "changed", "errors"} \subseteq Counters
        /\ m \in M \cup {"none"} /\ "none" \in M \cup {"none"}
    BY DEF Actions, Counters
  <1>2. Scanned(s) \in Booked(M, X)
    BY <1>1, CountKeepsBooked DEF Scanned
  <1>3. ASSUME NEW w \in Booked(M, X)
        PROVE  /\ ConflictItem(ctx, w, m, seen) \in Booked(M, X)
               /\ ClusterItem(w, m, seen) \in Booked(M, X)
               /\ VerificationItem(w, m) \in Booked(M, X)
    <2>1. /\ Count(w, "skipped") \in Booked(M, X)
          /\ Count(Record(w, "conflict_candidate_detected", m), "changed") \in Booked(M, X)
          /\ Count(Record(w, "reflection_candidate_detected", "none"), "changed") \in Booked(M, X)
      BY <1>1, CountKeepsBooked, RecordKeepsBooked
    <2>2. [w EXCEPT !.findings = @ + 1] \in Booked(M, X)
      BY NotedKeepsBooked
    <2>3. Count(Record([w EXCEPT !.findings = @ + 1], "deletion_verification_failed", m), "errors")
            \in Booked(M, X)
      BY <1>1, <2>2, CountKeepsBooked, RecordKeepsBooked
    <2>4. ConflictItem(ctx, w, m, seen) \in {Count(w, "skipped"),
             Count(Record(w, "conflict_candidate_detected", m), "changed")}
      BY DEF ConflictItem
    <2>5. ClusterItem(w, m, seen) \in {Count(w, "skipped"),
             Count(Record(w, "reflection_candidate_detected", "none"), "changed")}
      BY DEF ClusterItem
    <2>6. VerificationItem(w, m) \in {w,
             Count(Record([w EXCEPT !.findings = @ + 1], "deletion_verification_failed", m), "errors")}
      BY DEF VerificationItem
    <2> QED
      BY <2>1, <2>3, <2>4, <2>5, <2>6
  <1>4. seen[m] \in Row(X)
    OBVIOUS
  <1>5. ASSUME NEW w \in Booked(M, X)
        PROVE  /\ DecayItem(ctx, w, m, seen[m]) \in Booked(M, X)
               /\ ArchiveItem(ctx, w, m, seen[m]) \in Booked(M, X)
               /\ RetentionItem(ctx, w, m, seen[m]) \in Booked(M, X)
               /\ CompactionItem(ctx, race, w, m, seen[m]) \in Booked(M, X)
    BY <1>4, DecayKeepsBooked, RetentionKeepsBooked, CompactionKeepsBooked
  <1> QED
    BY <1>2, <1>3, <1>5 DEF Item

\* A turn of a job that changes rows counts what it scanned and what it changed.
LEMMA DecayOwes ==
  ASSUME NEW M, NEW X, NEW s \in Owing(M, X, 0, 1), NEW m \in M, NEW copy \in Row(X), NEW ctx, ~ctx.dry
  PROVE  DecayItem(ctx, s, m, copy) \in Owing(M, X, 0, 0) /\ ArchiveItem(ctx, s, m, copy) \in Owing(M, X, 0, 0)
  <1>1. /\ {"memory_decay_applied", "memory_archived_by_worker"} \subseteq Actions \cap DeedActs
        /\ m \in M \cup {"none"} /\ s \in WorkOf(M, X)
    BY DEF Actions, DeedActs, Owing, Booked
  <1>2. PICK row1, row2 : row1 = [copy EXCEPT !.decayed = TRUE] /\ row2 = [copy EXCEPT !.status = "archived"]
    OBVIOUS
  <1>3. row1 \in Row(X) /\ row2 \in Row(X)
    BY <1>2, RowChanges
  <1>4. Count(s, "skipped") \in Owing(M, X, 0, 0)
    BY CountOwes
  <1>5. ASSUME NEW row \in Row(X), NEW action \in Actions \cap DeedActs
        PROVE  Count(Atomic(s, Record(Write(s, m, row), action, m)), "changed") \in Owing(M, X, 0, 0)
    <2>1. Write(s, m, row) \in Owing(M, X, 0, 1)
      BY OthersOwe
    <2>2. Record(Write(s, m, row), action, m) \in Owing(M, X, 1, 1)
      BY <1>1, <2>1, DeedOwes
    <2>3. Atomic(s, Record(Write(s, m, row), action, m)) \in Owing(M, X, 1, 1)
      BY <1>1, <2>2, OthersOwe
    <2> QED
      BY <2>3, CountOwes
  <1>6. /\ Count(Atomic(s, Record(Write(s, m, row1), "memory_decay_applied", m)), "changed") \in Owing(M, X, 0, 0)
        /\ Count(Atomic(s, Record(Write(s, m, row2), "memory_archived_by_worker", m)), "changed")
             \in Owing(M, X, 0, 0)
    BY <1>1, <1>3, <1>5
  <1> QED
    BY <1>2, <1>4, <1>6 DEF DecayItem, ArchiveItem

LEMMA RetentionOwes ==
  ASSUME NEW M, NEW X, NEW s \in Owing(M, X, 0, 1), NEW m \in M, NEW copy \in Row(X),
         NEW ctx, ~RetentionPreview(ctx)
  PROVE  RetentionItem(ctx, s, m, copy) \in Owing(M, X, 0, 0)
  <1>1. /\ "retention_decision_recorded" \in Actions \ DeedActs /\ s \in WorkOf(M, X)
        /\ "memory_retention_hold_respected" \in Actions \ DeedActs
        /\ m \in M \cup {"none"} /\ ~ctx.dry /\ ctx.retention
    BY DEF Actions, DeedActs, ForgetActs, Owing, Booked, RetentionPreview
  <1>2. PICK outcome : outcome = RetentionOutcome(copy)
    OBVIOUS
  <1>3. outcome \in {"held", "kept", "expired", "consent_revoked"}
    BY <1>2 DEF RetentionOutcome, Row
  <1>4. outcome \notin {"held", "kept"} => OutcomeAction[outcome] \in Actions \cap DeedActs
    BY <1>3 DEF OutcomeAction, Actions, DeedActs, ForgetActs
  <1>5. PICK row : row = [copy EXCEPT !.stamped = TRUE]
    OBVIOUS
  <1>6. row \in Row(X)
    BY <1>5, RowChanges DEF Stamped
  <1>7. CASE outcome = "held"
    <2>1. RetentionItem(ctx, s, m, copy) = Atomic(s, Write(RecordDecision(Count(s, "skipped"), m, outcome), m, row))
      BY <1>1, <1>2, <1>5, <1>7 DEF RetentionItem
    <2>2. OutcomeAction[outcome] = "memory_retention_hold_respected"
      BY <1>7 DEF OutcomeAction
    <2>3. Count(s, "skipped") \in Owing(M, X, 0, 0)
      BY CountOwes
    <2>4. Record(Count(s, "skipped"), "retention_decision_recorded", m) \in Owing(M, X, 0, 0)
      BY <1>1, <2>3, RecordOwes
    <2>5. RecordDecision(Count(s, "skipped"), m, outcome) \in Owing(M, X, 0, 0)
      BY <1>1, <2>2, <2>4, RecordOwes DEF RecordDecision
    <2>6. Write(RecordDecision(Count(s, "skipped"), m, outcome), m, row) \in Owing(M, X, 0, 0)
      BY <1>6, <2>5, OthersOwe
    <2> QED
      BY <1>1, <2>1, <2>6, OthersOwe
  <1>8. CASE outcome = "kept"
    <2>1. RetentionItem(ctx, s, m, copy) = Atomic(s, Write(Count(s, "skipped"), m, row))
      BY <1>1, <1>2, <1>5, <1>8 DEF RetentionItem
    <2>2. Count(s, "skipped") \in Owing(M, X, 0, 0)
      BY CountOwes
    <2>3. Write(Count(s, "skipped"), m, row) \in Owing(M, X, 0, 0)
      BY <1>6, <2>2, OthersOwe
    <2> QED
      BY <1>1, <2>1, <2>3, OthersOwe
  <1>9. CASE outcome \notin {"held", "kept"}
    <2>1. PICK decided : decided = RecordDecision(s, m, outcome)
      OBVIOUS
    <2>2. PICK dropped : dropped = [decided.rows[m] EXCEPT !.status = "deleted"]
      OBVIOUS
    <2>3. RetentionItem(ctx, s, m, copy) = Atomic(s, Count(Write(decided, m, dropped), "changed"))
      BY <1>1, <1>2, <1>9, <2>1, <2>2 DEF RetentionItem
    <2>4. Record(s, "retention_decision_recorded", m) \in Owing(M, X, 0, 1)
      BY <1>1, RecordOwes
    <2>5. decided \in Owing(M, X, 1, 1)
      BY <1>1, <1>4, <1>9, <2>1, <2>4, DeedOwes DEF RecordDecision
    <2>6. decided.rows[m] \in Row(X)
      BY <2>5 DEF Owing, Booked, WorkOf
    <2>7. dropped \in Row(X)
      BY <2>2, <2>6, RowChanges DEF Dropped
    <2>8. Write(decided, m, dropped) \in Owing(M, X, 1, 1)
      BY <2>5, <2>7, OthersOwe
    <2>9. Count(Write(decided, m, dropped), "changed") \in Owing(M, X, 0, 0)
      BY <2>8, CountOwes
    <2> QED
      BY <1>1, <2>3, <2>9, OthersOwe
  <1> QED
    BY <1>7, <1>8, <1>9

LEMMA CompactionOwes ==
  ASSUME NEW M, NEW X, NEW s \in Owing(M, X, 0, 1), NEW m \in M, NEW copy, NEW ctx, ~ctx.dry,
         NEW race, race.row \in Row(X)
  PROVE  CompactionItem(ctx, race, s, m, copy) \in Owing(M, X, 0, 0)
  <1>1. /\ {"memory_legal_hold_compaction_blocked", "memory_vector_purge_attempted",
            "memory_vector_purge_verified", "memory_purge_tombstone_preserved",
            "memory_vector_purge_failed"} \subseteq Actions \ DeedActs
        /\ "memory_content_compacted" \in Actions \cap DeedActs
        /\ m \in M \cup {"none"}
    BY DEF Actions, DeedActs, ForgetActs
  <1>2. ASSUME NEW w \in Owing(M, X, 0, 1) PROVE Cleared(w, m) \in Owing(M, X, 1, 1)
    <2>1. w \in WorkOf(M, X) /\ w.rows[m] \in Row(X)
      BY DEF Owing, Booked, WorkOf
    <2>2. PICK row : row = [w.rows[m] EXCEPT !.cleared = TRUE]
      OBVIOUS
    <2>3. row \in Row(X)
      BY <2>1, <2>2, RowChanges
    <2>4. Write(w, m, row) \in Owing(M, X, 0, 1)
      BY <2>3, OthersOwe
    <2>5. Record(Write(w, m, row), "memory_content_compacted", m) \in Owing(M, X, 1, 1)
      BY <1>1, <2>4, DeedOwes
    <2>6. Record(Record(Write(w, m, row), "memory_content_compacted", m),
                 "memory_vector_purge_attempted", m) \in Owing(M, X, 1, 1)
      BY <1>1, <2>5, RecordOwes
    <2> QED
      BY <2>1, <2>2, <2>6, OthersOwe DEF Cleared
  <1>3. ASSUME NEW w \in Owing(M, X, 0, 0) PROVE VerifyPurge(w, m) \in Owing(M, X, 0, 0)
    <2>1. Record(Record(w, "memory_vector_purge_verified", m), "memory_purge_tombstone_preserved", m)
            \in Owing(M, X, 0, 0)
      BY <1>1, RecordOwes
    <2>2. [w EXCEPT !.findings = @ + 1] \in Owing(M, X, 0, 0)
      BY OthersOwe
    <2>3. Count([w EXCEPT !.findings = @ + 1], "errors") \in Owing(M, X, 0, 0)
      BY <2>2, CountOwes
    <2>4. Record(Count([w EXCEPT !.findings = @ + 1], "errors"), "memory_vector_purge_failed", m)
            \in Owing(M, X, 0, 0)
      BY <1>1, <2>3, RecordOwes
    <2> QED
      BY <2>1, <2>4 DEF VerifyPurge
  <1>4. ASSUME NEW w \in Owing(M, X, 0, 1) PROVE Purged(race, w, m) \in Owing(M, X, 0, 0)
    <2>1. Count(Cleared(w, m), "changed") \in Owing(M, X, 0, 0)
      BY <1>2, CountOwes
    <2>2. Meddle(Count(Cleared(w, m), "changed"), race, "commit", m) \in Owing(M, X, 0, 0)
      BY <2>1, OthersOwe
    <2> QED
      BY <1>3, <2>2 DEF Purged
  <1>5. Eligible(s) \in Owing(M, X, 0, 1)
    BY OthersOwe
  <1>6. Count(s, "skipped") \in Owing(M, X, 0, 0) /\ Count(Eligible(s), "skipped") \in Owing(M, X, 0, 0)
    BY <1>5, CountOwes
  <1>7. Record(Count(s, "skipped"), "memory_legal_hold_compaction_blocked", m) \in Owing(M, X, 0, 0)
    BY <1>1, <1>6, RecordOwes
  <1>8. Purged(race, Eligible(s), m) \in Owing(M, X, 0, 0)
    BY <1>4, <1>5
  <1> QED
    BY <1>6, <1>7, <1>8 DEF CompactionItem

JobPreview(job, ctx) == ctx.dry \/ (job = "retention" /\ ~ctx.retention)

LEMMA TurnOwesNothing ==
  ASSUME NEW M, NEW X, NEW s \in Owing(M, X, 0, 0), NEW m \in M, NEW seen \in [M -> Row(X)],
         NEW race, race.row \in Row(X), NEW phase \in Mutating, NEW ctx, ~JobPreview(phase, ctx)
  PROVE  Item(phase, ctx, race, seen, s, m) \in Owing(M, X, 0, 0)
  <1>1. Scanned(s) \in Owing(M, X, 0, 1)
    BY CountOwes DEF Scanned
  <1>2. seen[m] \in Row(X) /\ ~ctx.dry /\ (phase = "retention" => ~RetentionPreview(ctx))
    BY DEF JobPreview, RetentionPreview
  <1>3. CASE phase \in {"decay", "archive"}
    <2>1. /\ DecayItem(ctx, Scanned(s), m, seen[m]) \in Owing(M, X, 0, 0)
          /\ ArchiveItem(ctx, Scanned(s), m, seen[m]) \in Owing(M, X, 0, 0)
      BY <1>1, <1>2, DecayOwes
    <2> QED
      BY <1>3, <2>1 DEF Item
  <1>4. CASE phase = "retention"
    <2>1. RetentionItem(ctx, Scanned(s), m, seen[m]) \in Owing(M, X, 0, 0)
      BY <1>1, <1>2, <1>4, RetentionOwes
    <2> QED
      BY <1>4, <2>1 DEF Item
  <1>5. CASE phase = "deletion_compaction"
    <2>1. CompactionItem(ctx, race, Scanned(s), m, seen[m]) \in Owing(M, X, 0, 0)
      BY <1>1, <1>2, CompactionOwes
    <2> QED
      BY <1>5, <2>1 DEF Item
  <1> QED
    BY <1>3, <1>4, <1>5 DEF Mutating

-----------------------------------------------------------------------------
(* What a job keeps: a set of works that the turns and the notes of the job *)
(* do not leave is not left by the job.                                     *)

\* The notes of a job about itself.
FrameActs ==
  {"lifecycle_worker_started", "lifecycle_worker_completed", "lifecycle_worker_failed",
   "retention_scan_started", "retention_scan_completed", "deletion_compaction_started",
   "deletion_compaction_skipped", "deletion_compaction_failed", "deletion_compaction_completed",
   "deletion_verification_passed"}

PhasesOf(job) == IF job = "reflection" THEN {"reflection", "clusters"} ELSE {job}

KeptByNotes(Q) ==
  \A x \in Q : /\ \A action \in FrameActs : Record(x, action, "none") \in Q
               /\ [x EXCEPT !.status = "completed_with_findings"] \in Q
               /\ [x EXCEPT !.status = "skipped"] \in Q

KeptByTurns(Q, phase, ctx, race, seen, order) ==
  \A x \in Q : \A k \in 1..Len(order) :
    ~x.raised /\ order[k] \in Listing(phase, seen, order) => Item(phase, ctx, race, seen, x, order[k]) \in Q

LEMMA LoopStays ==
  ASSUME NEW Q, NEW phase, NEW ctx, NEW race, NEW seen, NEW order, Len(order) \in Nat,
         KeptByTurns(Q, phase, ctx, race, seen, order), NEW s \in Q
  PROVE  ForEach(phase, ctx, race, seen, order, s) \in Q
  <1> DEFINE S == Nat \X Q
  <1>1. ASSUME NEW k \in 1..Len(order), NEW x, <<k - 1, x>> \in S
        PROVE  /\ x.raised \/ order[k] \notin Listing(phase, seen, order) => <<k, x>> \in S
               /\ ~x.raised /\ order[k] \in Listing(phase, seen, order) =>
                    <<k, Item(phase, ctx, race, seen, x, order[k])>> \in S
    <2>1. x \in Q /\ k \in Nat
      BY <1>1
    <2> QED
      BY <2>1 DEF KeptByTurns
  <1>2. <<0, s>> \in S
    OBVIOUS
  <1> HIDE DEF S
  <1>3. PICK r : r = ForEach(phase, ctx, race, seen, order, s)
    OBVIOUS
  <1>4. <<Len(order), r>> \in S
    BY <1>1, <1>2, <1>3, LoopKeeps
  <1> QED
    BY <1>3, <1>4 DEF S

\* P before the loop, Q after it.
LEMMA ExecuteStays ==
  ASSUME NEW P, NEW Q, KeptByNotes(P), KeptByNotes(Q), NEW job \in Jobs, job = "reflection" => P = Q,
         NEW ctx, NEW race, NEW order, NEW s, Meddle(s, race, "listing", race.on) \in P,
         \A x \in P, phase \in PhasesOf(job) : ForEach(phase, ctx, race, s.rows, order, x) \in Q
  PROVE  Execute(job, ctx, race, order, s) \in Q
  <1>1. PICK b : b = Meddle(s, race, "listing", race.on)
    OBVIOUS
  <1>2. PICK seen : seen = s.rows
    OBVIOUS
  <1>3. b \in P /\ \A x \in P, phase \in PhasesOf(job) : ForEach(phase, ctx, race, seen, order, x) \in Q
    BY <1>1, <1>2
  <1>4. CASE job = "reflection"
    <2>1. /\ \A x \in Q : ForEach("reflection", ctx, race, seen, order, x) \in Q
          /\ \A x \in Q : ForEach("clusters", ctx, race, seen, order, x) \in Q
      BY <1>3, <1>4 DEF PhasesOf
    <2>2. ReflectionJob(ctx, race, seen, order, b) \in Q
      BY <1>3, <1>4, <2>1 DEF ReflectionJob, KeptByNotes
    <2> QED
      BY <1>1, <1>2, <1>4, <2>2 DEF Execute
  <1>5. CASE job # "reflection"
    <2>1. \A x \in P : ForEach(job, ctx, race, seen, order, x) \in Q
      BY <1>3, <1>5 DEF PhasesOf
    <2>2. CASE job = "retention"
      <3>1. Record(b, "retention_scan_started", "none") \in P
        BY <1>3 DEF KeptByNotes, FrameActs
      <3>2. PICK d : d = ForEach("retention", ctx, race, seen, order, Record(b, "retention_scan_started", "none"))
        OBVIOUS
      <3>3. d \in Q
        BY <2>1, <2>2, <3>1, <3>2
      <3>4. RetentionJob(ctx, race, seen, order, b) \in Q
        BY <3>2, <3>3 DEF RetentionJob, KeptByNotes, FrameActs
      <3> QED
        BY <1>1, <1>2, <2>2, <3>4 DEF Execute
    <2>3. CASE job = "deletion_compaction"
      <3>1. Record(b, "deletion_compaction_started", "none") \in P
        BY <1>3 DEF KeptByNotes, FrameActs
      <3>2. PICK d : d = ForEach("deletion_compaction", ctx, race, seen, order,
                                 Record(b, "deletion_compaction_started", "none"))
        OBVIOUS
      <3>3. d \in Q
        BY <2>1, <2>3, <3>1, <3>2
      <3>4. PICK t : t = IF d.eligible = 0 THEN Record(d, "deletion_compaction_skipped", "none") ELSE d
        OBVIOUS
      <3>5. t \in Q
        BY <3>3, <3>4 DEF KeptByNotes, FrameActs
      <3>6. CompactionDone(t) \in Q
        <4>1. [t EXCEPT !.status = "completed_with_findings"] \in Q
          BY <3>5 DEF KeptByNotes
        <4>2. /\ Record([t EXCEPT !.status = "completed_with_findings"], "deletion_compaction_failed", "none") \in Q
              /\ Record(t, "deletion_compaction_completed", "none") \in Q
          BY <3>5, <4>1 DEF KeptByNotes, FrameActs
        <4> QED
          BY <4>2 DEF CompactionDone
      <3>7. CompactionJob(ctx, race, seen, order, b) = CompactionDone(t)
        BY <3>2, <3>4 DEF CompactionJob
      <3> QED
        BY <1>1, <1>2, <2>3, <3>6, <3>7 DEF Execute
    <2>4. CASE job = "deletion_verification"
      <3>1. PICK d : d = ForEach(job, ctx, race, seen, order, b)
        OBVIOUS
      <3>2. d \in Q
        BY <1>3, <2>1, <3>1
      <3>3. VerificationDone(d) \in Q
        BY <3>2 DEF VerificationDone, KeptByNotes, FrameActs
      <3> QED
        BY <1>1, <1>2, <2>4, <3>1, <3>3 DEF Execute
    <2>5. CASE job \in {"decay", "archive", "conflict_scan"}
      <3>1. ForEach(job, ctx, race, seen, order, b) \in Q
        BY <1>3, <2>1
      <3> QED
        BY <1>1, <1>2, <2>5, <3>1 DEF Execute
    <2> QED
      BY <1>5, <2>2, <2>3, <2>4, <2>5 DEF Jobs
  <1> QED
    BY <1>4, <1>5

\* The result an attempt begins with.
FreshResult(before) ==
  [before EXCEPT !.written = {}, !.count = NoCounts, !.status = "completed",
                 !.eligible = 0, !.findings = 0, !.raised = FALSE]

LEMMA FreshIs ==
  ASSUME NEW M, NEW X, NEW before \in WorkOf(M, X), NEW b, b = FreshResult(before)
  PROVE  /\ b \in WorkOf(M, X) /\ b.rows = before.rows /\ b.trail = before.trail /\ ~b.raised
         /\ b.written = {} /\ b.count = NoCounts /\ b.status = "completed" /\ b.faultIn = before.faultIn
         /\ b.nextId = before.nextId
  <1>1. NoCounts \in [Counters -> Nat] /\ {} \in SUBSET Nat /\ "completed" \in WorkStatuses
    BY DEF NoCounts, WorkStatuses
  <1> QED
    BY <1>1 DEF FreshResult, WorkOf

\* An attempt that did not fail went through.
LEMMA AttemptAtOnce ==
  ASSUME NEW M, NEW X, NEW before \in WorkOf(M, X), NEW job, NEW ctx, NEW race, NEW order,
         NEW started, started = Began(before), NEW done, done = Execute(job, ctx, race, order, started),
         ~started.raised => done \in WorkOf(M, X),
         NEW r, r = Attempt(job, ctx, race, order, before), r.status # "failed"
  PROVE  /\ ~started.raised /\ ~done.raised /\ ~r.raised
         /\ r = Record(done, "lifecycle_worker_completed", "none")
  <1>1. PICK last : last = Performed(job, ctx, race, order, started)
    OBVIOUS
  <1>2. r = Reported(last)
    BY <1>1 DEF Attempt
  <1>3. started \in WorkOf(M, X)
    <2>1. PICK b : b = FreshResult(before)
      OBVIOUS
    <2>2. b \in WorkOf(M, X)
      BY <2>1, FreshIs
    <2>3. started = Record(b, "lifecycle_worker_started", "none")
      BY <2>1 DEF Began, FreshResult
    <2>4. "lifecycle_worker_started" \in Actions /\ "none" \in M \cup {"none"}
      BY DEF Actions
    <2> QED
      BY <2>2, <2>3, <2>4, Recorded
  <1>4. ASSUME NEW w \in WorkOf(M, X) PROVE [w EXCEPT !.raised = FALSE, !.status = "failed", !.written = {},
                                                    !.count = NoCounts].status = "failed"
    BY DEF WorkOf
  <1>5. CASE started.raised
    <2>1. last = started
      BY <1>1, <1>5 DEF Performed
    <2> QED
      BY <1>2, <1>3, <1>4, <1>5, <2>1 DEF Reported
  <1>6. CASE ~started.raised /\ done.raised
    <2>1. PICK e : e = [done EXCEPT !.raised = FALSE, !.status = "failed"]
      OBVIOUS
    <2>2. e \in WorkOf(M, X) /\ e.status = "failed" /\ ~e.raised
      BY <1>6, <2>1 DEF WorkOf, WorkStatuses
    <2>3. PICK c : c = Count(e, "errors")
      OBVIOUS
    <2>4. c \in WorkOf(M, X) /\ c.status = "failed"
      BY <2>2, <2>3, Counts DEF Counters, SameVerdict
    <2>5. last = Record(c, "lifecycle_worker_failed", "none")
      BY <1>1, <1>6, <2>1, <2>3 DEF Performed, Ended
    <2>6. "lifecycle_worker_failed" \in Actions /\ "none" \in M \cup {"none"}
      BY DEF Actions
    <2>7. last \in WorkOf(M, X) /\ last.status = "failed"
      <3>1. last \in WorkOf(M, X) /\ SameVerdict(c, last)
        BY <2>4, <2>5, <2>6, Notes
      <3> QED
        BY <2>4, <3>1 DEF SameVerdict
    <2>8. r.status = "failed"
      BY <1>2, <1>4, <2>7 DEF Reported
    <2> QED
      BY <2>8
  <1>7. CASE ~started.raised /\ ~done.raised
    <2>1. last = Record(done, "lifecycle_worker_completed", "none")
      BY <1>1, <1>7 DEF Performed, Ended
    <2>2. "lifecycle_worker_completed" \in Actions /\ "none" \in M \cup {"none"}
      BY DEF Actions
    <2>3. last \in WorkOf(M, X)
      <3>1. done \in WorkOf(M, X)
        BY <1>7
      <3> QED
        BY <2>1, <2>2, <3>1, Recorded
    <2>4. ~last.raised
      BY <1>2, <1>4, <2>3 DEF Reported
    <2>5. r = last
      BY <1>2, <2>4 DEF Reported
    <2> QED
      BY <1>7, <2>1, <2>4, <2>5
  <1> QED
    BY <1>5, <1>6, <1>7

\* A set of works that an attempt does not leave, whether it fails or not.
LEMMA AttemptStays ==
  ASSUME NEW Q, KeptByNotes(Q), \A x \in Q : Count(x, "errors") \in Q,
         \A x \in Q : [x EXCEPT !.raised = FALSE, !.status = "failed"] \in Q,
         \A x \in Q : [x EXCEPT !.raised = FALSE, !.status = "failed", !.written = {}, !.count = NoCounts] \in Q,
         NEW job, NEW ctx, NEW race, NEW order, NEW before, NEW started, started = Began(before),
         started.raised => started \in Q, ~started.raised => Execute(job, ctx, race, order, started) \in Q
  PROVE  Attempt(job, ctx, race, order, before) \in Q
  <1>1. PICK last : last = Performed(job, ctx, race, order, started)
    OBVIOUS
  <1>2. last \in Q
    <2>1. PICK done : done = Execute(job, ctx, race, order, started)
      OBVIOUS
    <2>2. ~started.raised => done \in Q
      BY <2>1
    <2>3. ASSUME done \in Q PROVE Ended(done) \in Q
      <3>1. Count([done EXCEPT !.raised = FALSE, !.status = "failed"], "errors") \in Q
        BY <2>3
      <3>2. /\ Record(Count([done EXCEPT !.raised = FALSE, !.status = "failed"], "errors"),
                      "lifecycle_worker_failed", "none") \in Q
            /\ Record(done, "lifecycle_worker_completed", "none") \in Q
        BY <2>3, <3>1 DEF KeptByNotes, FrameActs
      <3> QED
        BY <3>2 DEF Ended
    <2> QED
      BY <1>1, <2>1, <2>2, <2>3 DEF Performed
  <1>3. Attempt(job, ctx, race, order, before) = Reported(last)
    BY <1>1 DEF Attempt
  <1> QED
    BY <1>2, <1>3 DEF Reported

-----------------------------------------------------------------------------
(* What an attempt that went through names and counts.                      *)

LEMMA FramesAre ==
  FrameActs \subseteq Actions \ DeedActs
  BY DEF FrameActs, Actions, DeedActs, ForgetActs

LEMMA StatusSet ==
  ASSUME NEW M, NEW X, NEW s \in WorkOf(M, X), NEW status \in WorkStatuses, NEW r, r = [s EXCEPT !.status = status]
  PROVE  /\ r \in WorkOf(M, X) /\ r.rows = s.rows /\ r.trail = s.trail /\ r.nextId = s.nextId
         /\ r.written = s.written /\ r.count = s.count /\ r.raised = s.raised /\ r.faultIn = s.faultIn
         /\ r.findings = s.findings /\ r.status = status
  BY DEF WorkOf

LEMMA BookedIsKept ==
  ASSUME NEW M, NEW X
  PROVE  KeptByNotes(Booked(M, X)) /\ KeptByNotes(Owing(M, X, 0, 0))
  <1>1. ASSUME NEW x \in Booked(M, X), NEW status \in WorkStatuses
        PROVE  /\ [x EXCEPT !.status = status] \in Booked(M, X)
               /\ x \in Owing(M, X, 0, 0) => [x EXCEPT !.status = status] \in Owing(M, X, 0, 0)
    <2>1. PICK r : r = [x EXCEPT !.status = status]
      OBVIOUS
    <2>2. x \in WorkOf(M, X)
      BY DEF Booked
    <2>3. /\ r \in WorkOf(M, X) /\ r.rows = x.rows /\ r.trail = x.trail /\ r.nextId = x.nextId
          /\ r.written = x.written /\ r.count = x.count /\ r.raised = x.raised
      BY <2>1, <2>2, StatusSet
    <2>4. r \in Booked(M, X)
      BY <2>3, SameBooks
    <2> QED
      BY <2>1, <2>3, <2>4, SameOwes
  <1>2. {"completed_with_findings", "skipped"} \subseteq WorkStatuses /\ "none" \in M \cup {"none"}
    BY DEF WorkStatuses
  <1>3. KeptByNotes(Booked(M, X))
    <2>1. ASSUME NEW x \in Booked(M, X), NEW action \in FrameActs PROVE Record(x, action, "none") \in Booked(M, X)
      BY <1>2, FramesAre, RecordKeepsBooked
    <2> QED
      BY <1>1, <1>2, <2>1 DEF KeptByNotes
  <1>4. KeptByNotes(Owing(M, X, 0, 0))
    <2>1. ASSUME NEW x \in Owing(M, X, 0, 0), NEW action \in FrameActs
          PROVE  Record(x, action, "none") \in Owing(M, X, 0, 0)
      BY <1>2, FramesAre, RecordOwes
    <2>2. Owing(M, X, 0, 0) \subseteq Booked(M, X)
      BY DEF Owing
    <2> QED
      BY <1>1, <1>2, <2>1, <2>2 DEF KeptByNotes
  <1> QED
    BY <1>3, <1>4

\* Work that was not begun has its books in order.
LEMMA FreshIsBooked ==
  ASSUME NEW M, NEW X, NEW rows \in [M -> Row(X)], NEW fault \in Nat, NEW w, w = Work(rows, fault)
  PROVE  /\ w \in WorkOf(M, X) /\ w.trail = <<>> /\ w.rows = rows /\ w.faultIn = fault
         /\ \A a, n : ~Tells(w, a, n)
         /\ FreshResult(w) \in Owing(M, X, 0, 0)
  <1>1. w.trail = <<>> /\ w.rows = rows /\ w.faultIn = fault
    BY DEF Work
  <1>2. w \in WorkOf(M, X)
    <2>1. NoCounts \in [Counters -> Nat] /\ {} \in SUBSET Nat /\ "completed" \in WorkStatuses
          /\ <<>> \in Seq(EventsOf(M))
      BY DEF NoCounts, WorkStatuses
    <2> QED
      BY <2>1 DEF Work, WorkOf
  <1>3. \A a, n : ~Tells(w, a, n)
    BY <1>1 DEF Tells, EventsIn, ToSet
  <1>4. PICK b : b = FreshResult(w)
    OBVIOUS
  <1>5. b \in WorkOf(M, X) /\ b.trail = <<>> /\ b.written = {} /\ b.count = NoCounts
    BY <1>1, <1>2, <1>4, FreshIs
  <1>6. EventsIn(b) = {}
    BY <1>5 DEF EventsIn, ToSet
  <1>7. b \in Booked(M, X)
    BY <1>5, <1>6, FS_EmptySet DEF Booked
  <1>8. Deeds(b) = {} /\ Cardinality({}) = 0
    BY <1>6, FS_EmptySet DEF Deeds
  <1>9. b.count["changed"] = 0 /\ b.count["scanned"] = 0 /\ b.count["skipped"] = 0
    BY <1>5 DEF NoCounts, Counters
  <1>10. b \in Owing(M, X, 0, 0)
    BY <1>7, <1>8, <1>9 DEF Owing
  <1> QED
    BY <1>1, <1>2, <1>3, <1>4, <1>10

\* The phases of the loops of a job.
LEMMA PhasesAre ==
  ASSUME NEW job \in Jobs
  PROVE  PhasesOf(job) \subseteq Phases /\ (job \in Mutating => PhasesOf(job) = {job})
  BY DEF Jobs, PhasesOf, Phases, OneByOne, Proposing, Mutating

LEMMA OnceIsBooked ==
  ASSUME NEW M, NEW X, NEW rows \in [M -> Row(X)], NEW race, race.row \in Row(X), race.on \in M,
         NEW order \in Seq(M), NEW job \in Jobs, NEW ctx, NEW fault \in Nat,
         NEW r, r = Attempt(job, ctx, race, order, Work(rows, fault)), r.status # "failed"
  PROVE  /\ ~r.raised /\ r \in Booked(M, X)
         /\ job \in Mutating /\ ~JobPreview(job, ctx) => r \in Owing(M, X, 0, 0)
  <1>1. PICK before : before = Work(rows, fault)
    OBVIOUS
  <1>2. before \in WorkOf(M, X) /\ FreshResult(before) \in Owing(M, X, 0, 0)
    BY <1>1, FreshIsBooked
  <1>3. PICK started : started = Began(before)
    OBVIOUS
  <1>4. started \in Owing(M, X, 0, 0)
    BY <1>2, <1>3, BookedIsKept DEF Began, FreshResult, KeptByNotes, FrameActs
  <1>5. started \in Booked(M, X) /\ started \in WorkOf(M, X) /\ started.rows \in [M -> Row(X)]
    BY <1>4 DEF Owing, Booked, WorkOf
  <1>6. PICK done : done = Execute(job, ctx, race, order, started)
    OBVIOUS
  <1>7. PICK seen \in [M -> Row(X)] : seen = started.rows
    BY <1>5
  <1>8. Len(order) \in Nat /\ \A k \in 1..Len(order) : order[k] \in M
    OBVIOUS
  <1>9. done \in Booked(M, X)
    <2>1. Meddle(started, race, "listing", race.on) \in Booked(M, X)
      BY <1>5, MeddleKeepsBooked
    <2>2. ASSUME NEW phase, NEW x \in Booked(M, X)
          PROVE  ForEach(phase, ctx, race, started.rows, order, x) \in Booked(M, X)
      <3>1. KeptByTurns(Booked(M, X), phase, ctx, race, seen, order)
        BY <1>8, TurnKeepsBooked DEF KeptByTurns
      <3> QED
        BY <1>7, <1>8, <3>1, LoopStays
    <2> QED
      BY <1>6, <2>1, <2>2, BookedIsKept, ExecuteStays
  <1>10. ASSUME job \in Mutating, ~JobPreview(job, ctx)
         PROVE  done \in Owing(M, X, 0, 0)
    <2>1. Meddle(started, race, "listing", race.on) \in Owing(M, X, 0, 0)
      BY <1>4, OthersOwe
    <2>2. ASSUME NEW x \in Owing(M, X, 0, 0)
          PROVE  ForEach(job, ctx, race, started.rows, order, x) \in Owing(M, X, 0, 0)
      <3>1. KeptByTurns(Owing(M, X, 0, 0), job, ctx, race, seen, order)
        BY <1>8, <1>10, TurnOwesNothing DEF KeptByTurns
      <3> QED
        BY <1>7, <1>8, <3>1, LoopStays
    <2>3. PhasesOf(job) = {job}
      BY <1>10, PhasesAre
    <2> QED
      BY <1>6, <2>1, <2>2, <2>3, BookedIsKept, ExecuteStays
  <1>11. /\ ~started.raised /\ ~done.raised /\ ~r.raised
         /\ r = Record(done, "lifecycle_worker_completed", "none")
    <2>1. done \in WorkOf(M, X)
      BY <1>9 DEF Booked
    <2> QED
      BY <1>1, <1>2, <1>3, <1>6, <2>1, AttemptAtOnce
  <1>12. r \in Booked(M, X)
    BY <1>9, <1>11, BookedIsKept DEF KeptByNotes, FrameActs
  <1>13. done \in Owing(M, X, 0, 0) => r \in Owing(M, X, 0, 0)
    BY <1>11, BookedIsKept DEF KeptByNotes, FrameActs
  <1> QED
    BY <1>10, <1>11, <1>12, <1>13

-----------------------------------------------------------------------------
(* What a job does to the rows and what the trail says it did.              *)

DeedsSame(w, r) ==
  r.rows = w.rows /\ \A a \in DeedActs : \A n : Tells(r, a, n) <=> Tells(w, a, n)

DeedsMade(w, r, rows, acts, m) ==
  r.rows = rows /\ \A a \in DeedActs : \A n : Tells(r, a, n) <=> Tells(w, a, n) \/ (a \in acts /\ n = m)

OwnDeeds(job) ==
  CASE job = "decay" -> {"memory_decay_applied"}
    [] job = "archive" -> {"memory_archived_by_worker"}
    [] job = "retention" -> ForgetActs
    [] job = "deletion_compaction" -> {"memory_content_compacted"}
    [] OTHER -> {}

LEMMA MadeDeeds ==
  ASSUME NEW w, NEW r, NEW rows, NEW acts, NEW m, Makes(w, r, rows, acts, m)
  PROVE  /\ DeedsMade(w, r, rows, acts, m)
         /\ rows = w.rows /\ acts \cap DeedActs = {} => DeedsSame(w, r)
         /\ Nothing(w, r) => DeedsSame(w, r)
  BY DEF Makes, DeedsMade, DeedsSame, Nothing

LEMMA NothingDone ==
  ASSUME NEW w, NEW r, Nothing(w, r)
  PROVE  DeedsSame(w, r)
  BY DEF DeedsSame, Nothing

LEMMA OwnActs ==
  ASSUME NEW X, NEW copy \in Row(X), NEW ctx, NEW phase \in OneByOne
  PROVE  ActsOf(phase, ctx, copy) \cap DeedActs \subseteq OwnDeeds(phase)
  <1>1. RetentionOutcome(copy) \in {"held", "kept", "expired", "consent_revoked"}
    BY DEF RetentionOutcome, Row
  <1>2. CASE phase = "decay"
    BY <1>2 DEF ActsOf, OwnDeeds
  <1>3. CASE phase = "archive"
    BY <1>3 DEF ActsOf, OwnDeeds, DeedActs, ForgetActs
  <1>4. CASE phase = "retention"
    <2>1. ActsOf(phase, ctx, copy) \subseteq {"retention_decision_recorded", "memory_retention_hold_respected",
                                              "memory_retention_expired", "memory_consent_revoked"}
      BY <1>1, <1>4 DEF ActsOf, OutcomeAction
    <2> QED
      BY <1>4, <2>1 DEF OwnDeeds, DeedActs, ForgetActs
  <1> QED
    BY <1>2, <1>3, <1>4 DEF OneByOne

\* A turn of the compaction.
LEMMA CompactionTurnDeeds ==
  ASSUME NEW M, NEW X, NEW w \in WorkOf(M, X), ~w.raised, NEW m \in M, NEW seen, NEW ctx,
         NEW race, race.row \in Row(X), NEW r, r = Item("deletion_compaction", ctx, race, seen, w, m)
  PROVE  /\ r \in WorkOf(M, X)
         /\ CompactionIdle(ctx, w, m, seen[m]) => DeedsSame(w, r)
         /\ ~CompactionIdle(ctx, w, m, seen[m]) =>
              \/ r.raised /\ DeedsSame(w, r)
              \/ DeedsMade(w, r, PurgedRows(race, w, m), {"memory_content_compacted"}, m)
  <1>1. PICK v : v = Scanned(w)
    OBVIOUS
  <1>2. Nothing(w, v) /\ ~v.raised /\ v \in WorkOf(M, X) /\ v.rows = w.rows
    BY <1>1, ScannedFirst
  <1>3. PICK copy : copy = seen[m]
    OBVIOUS
  <1>4. r = CompactionItem(ctx, race, v, m, copy)
    BY <1>1, <1>3 DEF Item
  <1>5. /\ r \in WorkOf(M, X)
        /\ CompactionIdle(ctx, v, m, copy) =>
             Nothing(v, r) \/ Makes(v, r, v.rows, {"memory_legal_hold_compaction_blocked"}, m)
        /\ ~CompactionIdle(ctx, v, m, copy) => PurgeOutcome(race, v, m, r)
    BY <1>2, <1>4, CompactionDoes
  <1>6. CompactionIdle(ctx, w, m, copy) <=> CompactionIdle(ctx, v, m, copy)
    BY <1>2 DEF CompactionIdle
  <1>7. PurgedRows(race, v, m) = PurgedRows(race, w, m)
    BY <1>2 DEF PurgedRows
  <1>8. "memory_legal_hold_compaction_blocked" \notin DeedActs
        /\ PurgeTold \cap DeedActs = {"memory_content_compacted"}
    BY DEF DeedActs, ForgetActs, PurgeTold
  <1>9. ASSUME CompactionIdle(ctx, v, m, copy) PROVE DeedsSame(w, r)
    <2>1. Nothing(v, r) \/ Makes(v, r, v.rows, {"memory_legal_hold_compaction_blocked"}, m)
      BY <1>5, <1>9
    <2> QED
      BY <1>2, <1>8, <2>1 DEF Nothing, Makes, DeedsSame
  <1>10. ASSUME ~CompactionIdle(ctx, v, m, copy)
         PROVE  \/ r.raised /\ DeedsSame(w, r)
                \/ DeedsMade(w, r, PurgedRows(race, w, m), {"memory_content_compacted"}, m)
    <2>1. CASE r.raised /\ Nothing(v, r)
      BY <1>2, <2>1 DEF Nothing, DeedsSame
    <2>2. CASE ~(r.raised /\ Nothing(v, r))
      <3>1. PICK acts \in SUBSET PurgeTold :
              Makes(v, r, PurgedRows(race, v, m), acts, m) /\ "memory_content_compacted" \in acts
        BY <1>5, <1>10, <2>2 DEF PurgeOutcome
      <3>2. \A a \in DeedActs : a \in acts <=> a = "memory_content_compacted"
        BY <1>8, <3>1
      <3> QED
        BY <1>2, <1>7, <3>1, <3>2 DEF Nothing, Makes, DeedsMade
    <2> QED
      BY <2>1, <2>2
  <1> QED
    BY <1>3, <1>5, <1>6, <1>9, <1>10

\* A turn of a job that changes no row.
LEMMA OtherTurnDeeds ==
  ASSUME NEW M, NEW X, NEW w \in WorkOf(M, X), ~w.raised, NEW m \in M, NEW seen, NEW ctx, NEW race,
         NEW phase \in Proposing \cup {"deletion_verification"}, NEW r, r = Item(phase, ctx, race, seen, w, m)
  PROVE  r \in WorkOf(M, X) /\ DeedsSame(w, r)
  <1>1. CASE phase \in Proposing
    <2>1. /\ r \in WorkOf(M, X)
          /\ \/ Nothing(w, r)
             \/ \E n \in M \cup {"none"}, a \in Proposals : Makes(w, r, w.rows, {a}, n)
      BY <1>1, ProposingDoes DEF Steady
    <2>2. Proposals \cap DeedActs = {}
      BY DEF Proposals, DeedActs, ForgetActs
    <2> QED
      BY <2>1, <2>2 DEF Nothing, Makes, DeedsSame
  <1>2. CASE phase = "deletion_verification"
    <2>1. PICK v : v = Scanned(w)
      OBVIOUS
    <2>2. Nothing(w, v) /\ ~v.raised /\ v \in WorkOf(M, X) /\ v.rows = w.rows
      BY <2>1, ScannedFirst
    <2>3. r = VerificationItem(v, m)
      BY <1>2, <2>1 DEF Item
    <2>4. /\ r \in WorkOf(M, X)
          /\ r = v \/ Nothing(v, r) \/ Makes(v, r, v.rows, {"deletion_verification_failed"}, m)
      BY <2>2, <2>3, VerificationDoes
    <2>5. "deletion_verification_failed" \notin DeedActs
      BY DEF DeedActs, ForgetActs
    <2> QED
      BY <2>2, <2>4, <2>5 DEF Nothing, Makes, DeedsSame
  <1> QED
    BY <1>1, <1>2

LEMMA OneTurnDeeds ==
  ASSUME NEW M, NEW X, NEW w \in WorkOf(M, X), ~w.raised, NEW m \in M, NEW seen \in [M -> Row(X)],
         NEW ctx, NEW race, NEW phase \in OneByOne, NEW r, r = Item(phase, ctx, race, seen, w, m)
  PROVE  /\ r \in WorkOf(M, X)
         /\ r.raised => DeedsSame(w, r)
         /\ ~r.raised => DeedsMade(w, r, [w.rows EXCEPT ![m] = RowAfter(phase, ctx, w.rows[m], seen[m])],
                                   ActsOf(phase, ctx, seen[m]), m)
  <1>1. /\ Steady(M, X, w, r)
        /\ r.raised => Nothing(w, r)
        /\ ~r.raised => Makes(w, r, [w.rows EXCEPT ![m] = RowAfter(phase, ctx, w.rows[m], seen[m])],
                              ActsOf(phase, ctx, seen[m]), m)
    BY OneByOneDoes
  <1> QED
    BY <1>1, MadeDeeds, NothingDone DEF Steady

\* A job tells of its own deeds only, and of the memory it turns to.
OwnTold(M, X, own) ==
  {x \in WorkOf(M, X) : \A a \in DeedActs : \A n : Tells(x, a, n) => n \in M /\ a \in own}

LEMMA TurnTellsOwn ==
  ASSUME NEW M, NEW X, NEW job, NEW w \in OwnTold(M, X, OwnDeeds(job)), ~w.raised, NEW m \in M,
         NEW seen \in [M -> Row(X)], NEW ctx, NEW race, race.row \in Row(X), NEW phase \in Phases,
         phase \in {"reflection", "clusters"} \/ phase = job, NEW r, r = Item(phase, ctx, race, seen, w, m)
  PROVE  r \in OwnTold(M, X, OwnDeeds(job))
  <1>1. w \in WorkOf(M, X)
    BY DEF OwnTold
  <1>2. ASSUME r \in WorkOf(M, X), DeedsSame(w, r) PROVE r \in OwnTold(M, X, OwnDeeds(job))
    BY <1>2 DEF OwnTold, DeedsSame
  <1>3. ASSUME r \in WorkOf(M, X), NEW rows, NEW acts, acts \cap DeedActs \subseteq OwnDeeds(job),
               DeedsMade(w, r, rows, acts, m)
        PROVE  r \in OwnTold(M, X, OwnDeeds(job))
    BY <1>3 DEF OwnTold, DeedsMade
  <1>4. CASE phase \in OneByOne
    <2>1. phase = job
      BY <1>4 DEF OneByOne
    <2>2. ActsOf(phase, ctx, seen[m]) \cap DeedActs \subseteq OwnDeeds(job)
      BY <1>4, <2>1, OwnActs
    <2>3. /\ r \in WorkOf(M, X)
          /\ r.raised => DeedsSame(w, r)
          /\ ~r.raised => DeedsMade(w, r, [w.rows EXCEPT ![m] = RowAfter(phase, ctx, w.rows[m], seen[m])],
                                    ActsOf(phase, ctx, seen[m]), m)
      BY <1>1, <1>4, OneTurnDeeds
    <2> QED
      BY <1>2, <1>3, <2>2, <2>3
  <1>5. CASE phase = "deletion_compaction"
    <2>1. {"memory_content_compacted"} \cap DeedActs \subseteq OwnDeeds(job)
      BY <1>5 DEF OwnDeeds
    <2>2. /\ r \in WorkOf(M, X)
          /\ DeedsSame(w, r) \/ DeedsMade(w, r, PurgedRows(race, w, m), {"memory_content_compacted"}, m)
      BY <1>1, <1>5, CompactionTurnDeeds
    <2> QED
      BY <1>2, <1>3, <2>1, <2>2
  <1>6. CASE phase \in Proposing \cup {"deletion_verification"}
    BY <1>1, <1>2, <1>6, OtherTurnDeeds
  <1> QED
    BY <1>4, <1>5, <1>6 DEF Phases

ToldOf(s, m) == {a \in DeedActs : Tells(s, a, m)}

\* What is told of a row is what became of it; b is what it was.
RowBook(job, b, row, told) ==
  /\ told \subseteq OwnDeeds(job)
  /\ "memory_decay_applied" \in told <=> row.decayed /\ ~b.decayed
  /\ "memory_archived_by_worker" \in told <=> row.status = "archived" /\ b.status # "archived"
  /\ "memory_content_compacted" \in told <=> row.cleared /\ ~b.cleared
  /\ told \cap ForgetActs # {} => row.status = "deleted"
  /\ row.status = "deleted" /\ b.status # "deleted" => told \cap ForgetActs # {}
  /\ (b.decayed => row.decayed) /\ (b.cleared => row.cleared)
  /\ b.status = "archived" => row.status = "archived"
  /\ row.cleared => row.status = "deleted"

\* A listed copy that the job may write over what it was.
Fit(job, b, copy) ==
  /\ copy.status = "active" =>
       /\ ~copy.cleared /\ ~b.cleared /\ b.status # "archived"
       /\ b.decayed => copy.decayed
       /\ copy.decayed => b.decayed \/ job = "decay"
  /\ copy.status = "deleted" /\ ~copy.cleared => ~b.cleared

\* What was forgotten is what the listed copy says must be.
Decided(copy, told) ==
  copy.status = "active" /\ told \cap ForgetActs # {} => RetentionOutcome(copy) \notin {"held", "kept"}

LEMMA RowFields ==
  ASSUME NEW X, NEW row \in Row(X)
  PROVE  /\ [row EXCEPT !.decayed = TRUE].decayed /\ [row EXCEPT !.decayed = TRUE].status = row.status
         /\ [row EXCEPT !.decayed = TRUE].cleared = row.cleared
         /\ [row EXCEPT !.status = "archived"].status = "archived"
         /\ [row EXCEPT !.status = "archived"].decayed = row.decayed
         /\ [row EXCEPT !.status = "archived"].cleared = row.cleared
         /\ Stamped(row).status = row.status /\ Stamped(row).decayed = row.decayed
         /\ Stamped(row).cleared = row.cleared
         /\ Dropped(row).status = "deleted" /\ Dropped(row).decayed = row.decayed
         /\ Dropped(row).cleared = row.cleared
         /\ ClearedRow(row).cleared /\ ClearedRow(row).status = row.status
         /\ ClearedRow(row).decayed = row.decayed
  BY DEF Row, Stamped, Dropped, ClearedRow

LEMMA RowTurn ==
  ASSUME NEW X, NEW row \in Row(X), NEW copy \in Row(X), NEW b \in Row(X), copy.status = "active",
         NEW job \in OneByOne, NEW ctx, ~JobPreview(job, ctx), NEW told, RowBook(job, b, row, told),
         Fit(job, b, copy), Decided(copy, told), NEW new, new = RowAfter(job, ctx, row, copy),
         NEW later, later = told \cup (ActsOf(job, ctx, copy) \cap DeedActs)
  PROVE  RowBook(job, b, new, later) /\ Decided(copy, later)
  <1>1. later \subseteq OwnDeeds(job)
    BY OwnActs DEF RowBook
  <1>2. CASE job = "decay"
    <2>1. OwnDeeds(job) = {"memory_decay_applied"} /\ "memory_decay_applied" \in DeedActs
          /\ "memory_decay_applied" \notin ForgetActs
          /\ {"memory_archived_by_worker", "memory_content_compacted"} \cap OwnDeeds(job) = {}
      BY <1>2 DEF OwnDeeds, DeedActs, ForgetActs
    <2>2. later \cap ForgetActs = {} /\ "memory_archived_by_worker" \notin later
          /\ "memory_content_compacted" \notin later
      BY <1>1, <2>1
    <2>3. CASE DecayIdle(ctx, copy)
      <3>1. new = row /\ later = told
        BY <1>2, <2>3 DEF RowAfter, ActsOf
      <3> QED
        BY <3>1
    <2>4. CASE ~DecayIdle(ctx, copy)
      <3>1. new = [copy EXCEPT !.decayed = TRUE] /\ "memory_decay_applied" \in later
        BY <1>2, <2>1, <2>4 DEF RowAfter, ActsOf
      <3>2. new.decayed /\ new.status = "active" /\ new.cleared = copy.cleared
        BY <3>1, RowFields
      <3>3. ~copy.decayed
        BY <2>4 DEF DecayIdle
      <3>4. ~b.decayed /\ ~copy.cleared /\ ~b.cleared /\ b.status # "archived"
        BY <3>3 DEF Fit
      <3> QED
        BY <1>1, <2>2, <3>1, <3>2, <3>4 DEF RowBook, Decided
    <2> QED
      BY <2>3, <2>4
  <1>3. CASE job = "archive"
    <2>1. OwnDeeds(job) = {"memory_archived_by_worker"} /\ "memory_archived_by_worker" \in DeedActs
          /\ "memory_archive_candidate" \notin DeedActs
          /\ "memory_archived_by_worker" \notin ForgetActs
          /\ {"memory_decay_applied", "memory_content_compacted"} \cap OwnDeeds(job) = {}
      BY <1>3 DEF OwnDeeds, DeedActs, ForgetActs
    <2>2. later \cap ForgetActs = {} /\ "memory_decay_applied" \notin later
          /\ "memory_content_compacted" \notin later
      BY <1>1, <2>1
    <2>3. CASE ArchiveIdle(copy)
      <3>1. new = row /\ later = told
        BY <1>3, <2>3 DEF RowAfter, ActsOf
      <3> QED
        BY <3>1
    <2>4. CASE ~ArchiveIdle(copy)
      <3>1. new = [copy EXCEPT !.status = "archived"] /\ "memory_archived_by_worker" \in later
        BY <1>3, <2>1, <2>4 DEF RowAfter, ActsOf, JobPreview
      <3>2. new.status = "archived" /\ new.decayed = copy.decayed /\ new.cleared = copy.cleared
        BY <3>1, RowFields
      <3>3. ~copy.cleared /\ ~b.cleared /\ b.status # "archived" /\ (b.decayed <=> copy.decayed)
        BY <1>3 DEF Fit
      <3> QED
        BY <1>1, <2>2, <3>1, <3>2, <3>3 DEF RowBook, Decided
    <2> QED
      BY <2>3, <2>4
  <1>4. CASE job = "retention"
    <2>1. OwnDeeds(job) = ForgetActs /\ ForgetActs \subseteq DeedActs
          /\ {"memory_decay_applied", "memory_archived_by_worker", "memory_content_compacted"}
               \cap ForgetActs = {}
      BY <1>4 DEF OwnDeeds, DeedActs, ForgetActs
    <2>2. "memory_decay_applied" \notin later /\ "memory_archived_by_worker" \notin later
          /\ "memory_content_compacted" \notin later
          /\ "memory_decay_applied" \notin told /\ "memory_archived_by_worker" \notin told
          /\ "memory_content_compacted" \notin told
      BY <1>1, <2>1
    <2>3. RetentionOutcome(copy) \in {"held", "kept", "expired", "consent_revoked"}
      BY DEF RetentionOutcome, Row
    <2>4. ~RetentionPreview(ctx)
      BY <1>4 DEF JobPreview, RetentionPreview
    <2>5. ~copy.cleared /\ ~b.cleared /\ b.status # "archived" /\ (b.decayed <=> copy.decayed)
      BY <1>4 DEF Fit
    <2>6. CASE RetentionOutcome(copy) \in {"held", "kept"}
      <3>1. new = Stamped(copy)
        BY <1>4, <2>4, <2>6 DEF RowAfter
      <3>2. later \cap ForgetActs = told \cap ForgetActs
        <4>1. ActsOf(job, ctx, copy) \cap ForgetActs = {}
          BY <1>4, <2>6 DEF ActsOf, OutcomeAction, ForgetActs
        <4> QED
          BY <4>1
      <3>3. told \cap ForgetActs = {}
        BY <2>6 DEF Decided
      <3>4. new.status = "active" /\ new.decayed = copy.decayed /\ new.cleared = copy.cleared
        BY <3>1, RowFields
      <3> QED
        BY <1>1, <2>2, <2>5, <3>2, <3>3, <3>4 DEF RowBook, Decided
    <2>7. CASE RetentionOutcome(copy) \notin {"held", "kept"}
      <3>1. new = Dropped(row)
        BY <1>4, <2>4, <2>7 DEF RowAfter
      <3>2. later \cap ForgetActs # {}
        <4>1. OutcomeAction[RetentionOutcome(copy)] \in ForgetActs
          BY <2>3, <2>7 DEF OutcomeAction, ForgetActs
        <4>2. OutcomeAction[RetentionOutcome(copy)] \in ActsOf(job, ctx, copy)
          BY <1>4, <2>3, <2>7 DEF ActsOf
        <4> QED
          BY <2>1, <4>1, <4>2
      <3>3. new.status = "deleted" /\ new.decayed = row.decayed /\ new.cleared = row.cleared
        BY <3>1, RowFields
      <3> QED
        BY <1>1, <2>2, <2>5, <2>7, <3>2, <3>3 DEF RowBook, Decided
    <2> QED
      BY <2>6, <2>7
  <1> QED
    BY <1>2, <1>3, <1>4 DEF OneByOne

Books(M, X, job, base) ==
  {x \in WorkOf(M, X) : \A m \in M : RowBook(job, base[m], x.rows[m], ToldOf(x, m))}

BooksIn(M, X, job, base, seen) ==
  {x \in Books(M, X, job, base) : \A m \in M : Decided(seen[m], ToldOf(x, m))}

LEMMA SameIsTold ==
  ASSUME NEW w, NEW r, DeedsSame(w, r)
  PROVE  r.rows = w.rows /\ \A m : ToldOf(r, m) = ToldOf(w, m)
  BY DEF DeedsSame, ToldOf

LEMMA MadeIsTold ==
  ASSUME NEW w, NEW r, NEW rows, NEW acts, NEW m, DeedsMade(w, r, rows, acts, m)
  PROVE  /\ r.rows = rows /\ ToldOf(r, m) = ToldOf(w, m) \cup (acts \cap DeedActs)
         /\ \A n : n # m => ToldOf(r, n) = ToldOf(w, n)
  BY DEF DeedsMade, ToldOf

LEMMA TurnKeepsBooks ==
  ASSUME NEW M, NEW X, NEW base \in [M -> Row(X)], NEW seen \in [M -> Row(X)], NEW job \in Jobs,
         \A m \in M : Fit(job, base[m], seen[m]),
         NEW w \in BooksIn(M, X, job, base, seen), ~w.raised, NEW ctx, ~JobPreview(job, ctx),
         NEW race, race.row \in Row(X), race.when # "commit", NEW order,
         NEW phase \in PhasesOf(job), NEW m \in M, m \in Listing(phase, seen, order),
         NEW r, r = Item(phase, ctx, race, seen, w, m)
  PROVE  r \in BooksIn(M, X, job, base, seen)
  <1>1. w \in WorkOf(M, X) /\ w.rows \in [M -> Row(X)] /\ phase \in Phases
    BY PhasesAre DEF BooksIn, Books, WorkOf
  <1>2. ASSUME r \in WorkOf(M, X), DeedsSame(w, r) PROVE r \in BooksIn(M, X, job, base, seen)
    BY <1>2, SameIsTold DEF BooksIn, Books
  <1>3. ASSUME r \in WorkOf(M, X), NEW new, NEW acts, DeedsMade(w, r, [w.rows EXCEPT ![m] = new], acts, m),
               RowBook(job, base[m], new, ToldOf(w, m) \cup (acts \cap DeedActs)),
               Decided(seen[m], ToldOf(w, m) \cup (acts \cap DeedActs))
        PROVE  r \in BooksIn(M, X, job, base, seen)
    <2>1. /\ r.rows = [w.rows EXCEPT ![m] = new] /\ ToldOf(r, m) = ToldOf(w, m) \cup (acts \cap DeedActs)
          /\ \A n : n # m => ToldOf(r, n) = ToldOf(w, n)
      BY <1>3, MadeIsTold
    <2>2. r.rows[m] = new /\ \A n \in M : n # m => r.rows[n] = w.rows[n]
      BY <1>1, <2>1
    <2>3. ASSUME NEW n \in M
          PROVE  RowBook(job, base[n], r.rows[n], ToldOf(r, n)) /\ Decided(seen[n], ToldOf(r, n))
      <3>1. CASE n = m
        BY <1>3, <2>1, <2>2, <3>1
      <3>2. CASE n # m
        BY <2>1, <2>2, <3>2 DEF BooksIn, Books
      <3> QED
        BY <3>1, <3>2
    <2> QED
      BY <1>3, <2>3 DEF BooksIn, Books
  <1>4. /\ RowBook(job, base[m], w.rows[m], ToldOf(w, m)) /\ Decided(seen[m], ToldOf(w, m))
        /\ Fit(job, base[m], seen[m])
    BY DEF BooksIn, Books
  <1>5. CASE phase \in OneByOne
    <2>1. phase = job /\ seen[m].status = "active"
      <3>1. phase = job
        BY <1>5 DEF PhasesOf, OneByOne
      <3>2. m \in ActiveMemories(seen)
        BY <1>5 DEF Listing, OneByOne
      <3> QED
        BY <3>1, <3>2 DEF ActiveMemories
    <2>2. /\ r \in WorkOf(M, X)
          /\ r.raised => DeedsSame(w, r)
          /\ ~r.raised => DeedsMade(w, r, [w.rows EXCEPT ![m] = RowAfter(phase, ctx, w.rows[m], seen[m])],
                                    ActsOf(phase, ctx, seen[m]), m)
      BY <1>1, <1>5, OneTurnDeeds
    <2>3. PICK copy, row, b, told :
            /\ copy \in Row(X) /\ row \in Row(X) /\ b \in Row(X)
            /\ copy = seen[m] /\ row = w.rows[m] /\ b = base[m] /\ told = ToldOf(w, m)
      BY <1>1
    <2>4. PICK new, later : /\ new = RowAfter(job, ctx, row, copy)
                            /\ later = told \cup (ActsOf(job, ctx, copy) \cap DeedActs)
      OBVIOUS
    <2>5. RowBook(job, b, new, later) /\ Decided(copy, later)
      BY <1>4, <1>5, <2>1, <2>3, <2>4, RowTurn
    <2> QED
      BY <1>2, <1>3, <2>1, <2>2, <2>3, <2>4, <2>5
  <1>6. CASE phase = "deletion_compaction"
    <2>1. phase = job /\ seen[m].status = "deleted" /\ ~seen[m].cleared
      <3>1. phase = job
        BY <1>6 DEF PhasesOf
      <3>2. m \in DeletedForCompaction(seen)
        BY <1>6 DEF Listing
      <3> QED
        BY <3>1, <3>2 DEF DeletedForCompaction
    <2>2. /\ r \in WorkOf(M, X)
          /\ CompactionIdle(ctx, w, m, seen[m]) => DeedsSame(w, r)
          /\ ~CompactionIdle(ctx, w, m, seen[m]) =>
               \/ r.raised /\ DeedsSame(w, r)
               \/ DeedsMade(w, r, PurgedRows(race, w, m), {"memory_content_compacted"}, m)
      BY <1>1, <1>6, CompactionTurnDeeds
    <2>3. PurgedRows(race, w, m) = [w.rows EXCEPT ![m] = ClearedRow(w.rows[m])]
      BY DEF PurgedRows
    <2>4. CASE DeedsSame(w, r)
      BY <1>2, <2>2, <2>4
    <2>5. CASE ~DeedsSame(w, r)
      <3>1. w.rows[m].status = "deleted"
            /\ DeedsMade(w, r, [w.rows EXCEPT ![m] = ClearedRow(w.rows[m])], {"memory_content_compacted"}, m)
        BY <2>2, <2>3, <2>5 DEF CompactionIdle
      <3>2. PICK row, b, told, later :
              /\ row \in Row(X) /\ b \in Row(X)
              /\ row = w.rows[m] /\ b = base[m] /\ told = ToldOf(w, m)
              /\ later = told \cup ({"memory_content_compacted"} \cap DeedActs)
        BY <1>1
      <3>3. RowBook(job, b, row, told) /\ ~b.cleared /\ row.status = "deleted"
        BY <1>4, <2>1, <3>1, <3>2 DEF Fit
      <3>4. /\ ClearedRow(row).cleared /\ ClearedRow(row).status = "deleted"
            /\ ClearedRow(row).decayed = row.decayed
        BY <3>2, <3>3, RowFields
      <3>5. OwnDeeds(job) = {"memory_content_compacted"} /\ "memory_content_compacted" \in DeedActs
            /\ "memory_content_compacted" \notin ForgetActs
        BY <1>6, <2>1 DEF OwnDeeds, DeedActs, ForgetActs
      <3>6. told \subseteq OwnDeeds(job)
        BY <3>3 DEF RowBook
      <3>7. later \subseteq OwnDeeds(job) /\ "memory_content_compacted" \in later
            /\ later \cap ForgetActs = {} /\ told \cap ForgetActs = {}
            /\ "memory_decay_applied" \notin later /\ "memory_archived_by_worker" \notin later
            /\ "memory_decay_applied" \notin told /\ "memory_archived_by_worker" \notin told
        BY <3>2, <3>5, <3>6
      <3>8. RowBook(job, b, ClearedRow(row), later)
        BY <3>3, <3>4, <3>7 DEF RowBook
      <3>9. Decided(seen[m], later)
        BY <3>7 DEF Decided
      <3> QED
        BY <1>3, <2>2, <3>1, <3>2, <3>8, <3>9
    <2> QED
      BY <2>4, <2>5
  <1>7. CASE phase \in Proposing \cup {"deletion_verification"}
    BY <1>1, <1>2, <1>7, OtherTurnDeeds
  <1> QED
    BY <1>1, <1>5, <1>6, <1>7 DEF Phases

\* Works that are told apart by their rows and their deeds alone.
ByDeeds(M, X, Q) ==
  /\ Q \subseteq WorkOf(M, X)
  /\ \A x \in Q : \A y \in WorkOf(M, X) : DeedsSame(x, y) => y \in Q

LEMMA SameTrailSame ==
  ASSUME NEW w, NEW r, r.rows = w.rows, r.trail = w.trail
  PROVE  DeedsSame(w, r)
  BY DEF DeedsSame, Tells, EventsIn

LEMMA FramesKeepDeeds ==
  ASSUME NEW M, NEW X, NEW w \in WorkOf(M, X), NEW action \in FrameActs, NEW r, r = Record(w, action, "none")
  PROVE  /\ r \in WorkOf(M, X) /\ DeedsSame(w, r) /\ r.status = w.status
         /\ ~w.raised => NoFault(w, r)
         /\ r.raised <=> w.raised \/ w.faultIn = 1
  <1>1. action \in Actions /\ action \notin DeedActs /\ "none" \in M \cup {"none"}
    BY FramesAre
  <1>2. /\ r \in WorkOf(M, X) /\ SameVerdict(w, r) /\ (~w.raised => NoFault(w, r))
        /\ r.raised => Nothing(w, r)
        /\ ~r.raised => Makes(w, r, w.rows, {action}, "none")
    BY <1>1, Notes
  <1>3. r.raised <=> w.raised \/ w.faultIn = 1
    <2>1. IsRecord(w, action, "none", r)
      BY <1>1, Recorded
    <2> QED
      BY <2>1 DEF IsRecord
  <1>4. DeedsSame(w, r)
    BY <1>1, <1>2 DEF Nothing, Makes, DeedsSame
  <1> QED
    BY <1>2, <1>3, <1>4 DEF SameVerdict

LEMMA ByDeedsIsKept ==
  ASSUME NEW M, NEW X, NEW Q, ByDeeds(M, X, Q)
  PROVE  /\ KeptByNotes(Q)
         /\ \A x \in Q : Count(x, "errors") \in Q
         /\ \A x \in Q : [x EXCEPT !.raised = FALSE, !.status = "failed"] \in Q
         /\ \A x \in Q : [x EXCEPT !.raised = FALSE, !.status = "failed", !.written = {}, !.count = NoCounts] \in Q
         /\ \A x \in Q : [x EXCEPT !.status = "dead_letter"] \in Q
         /\ \A x \in Q : FreshResult(x) \in Q
  <1>1. ASSUME NEW x \in Q, NEW y \in WorkOf(M, X), y.rows = x.rows, y.trail = x.trail PROVE y \in Q
    BY <1>1, SameTrailSame DEF ByDeeds
  <1>2. ASSUME NEW x \in Q PROVE x \in WorkOf(M, X)
    BY DEF ByDeeds
  <1>3. ASSUME NEW x \in Q, NEW status \in WorkStatuses PROVE [x EXCEPT !.status = status] \in Q
    <2>1. PICK y : y = [x EXCEPT !.status = status]
      OBVIOUS
    <2>2. y \in WorkOf(M, X) /\ y.rows = x.rows /\ y.trail = x.trail
      BY <1>2, <2>1, StatusSet
    <2> QED
      BY <1>1, <2>1, <2>2
  <1>4. ASSUME NEW x \in Q PROVE Count(x, "errors") \in Q
    <2>1. PICK y : y = Count(x, "errors")
      OBVIOUS
    <2>2. y \in WorkOf(M, X) /\ IsCount(x, "errors", y)
      BY <1>2, <2>1, Counted DEF Counters
    <2> QED
      BY <1>1, <2>1, <2>2 DEF IsCount
  <1>5. ASSUME NEW x \in Q PROVE [x EXCEPT !.raised = FALSE, !.status = "failed"] \in Q
    <2>1. PICK y : y = [x EXCEPT !.raised = FALSE, !.status = "failed"]
      OBVIOUS
    <2>2. y \in WorkOf(M, X) /\ y.rows = x.rows /\ y.trail = x.trail
      BY <1>2, <2>1 DEF WorkOf, WorkStatuses
    <2> QED
      BY <1>1, <2>1, <2>2
  <1>6. NoCounts \in [Counters -> Nat] /\ {} \in SUBSET Nat /\ "failed" \in WorkStatuses
    BY DEF NoCounts, WorkStatuses
  <1>7. ASSUME NEW x \in Q
        PROVE [x EXCEPT !.raised = FALSE, !.status = "failed", !.written = {}, !.count = NoCounts] \in Q
    <2>1. PICK y : y = [x EXCEPT !.raised = FALSE, !.status = "failed", !.written = {}, !.count = NoCounts]
      OBVIOUS
    <2>2. y \in WorkOf(M, X) /\ y.rows = x.rows /\ y.trail = x.trail
      BY <1>2, <1>6, <2>1 DEF WorkOf
    <2> QED
      BY <1>1, <2>1, <2>2
  <1>8. ASSUME NEW x \in Q PROVE FreshResult(x) \in Q
    <2>1. PICK y : y = FreshResult(x)
      OBVIOUS
    <2> QED
      BY <1>1, <1>2, <2>1, FreshIs
  <1>9. ASSUME NEW x \in Q, NEW action \in FrameActs PROVE Record(x, action, "none") \in Q
    <2>1. PICK y : y = Record(x, action, "none")
      OBVIOUS
    <2>2. y \in WorkOf(M, X) /\ DeedsSame(x, y)
      BY <1>2, <2>1, FramesKeepDeeds
    <2> QED
      BY <2>1, <2>2 DEF ByDeeds
  <1>10. {"completed_with_findings", "skipped", "dead_letter"} \subseteq WorkStatuses
    BY DEF WorkStatuses
  <1>11. KeptByNotes(Q)
    BY <1>3, <1>9, <1>10 DEF KeptByNotes
  <1> QED
    BY <1>3, <1>4, <1>5, <1>7, <1>8, <1>10, <1>11

\* What an attempt begins with.
LEMMA BeganIs ==
  ASSUME NEW M, NEW X, NEW before \in WorkOf(M, X), NEW started, started = Began(before)
  PROVE  /\ started \in WorkOf(M, X) /\ DeedsSame(before, started) /\ started.status = "completed"
         /\ before.faultIn = 0 => started.faultIn = 0
         /\ started.raised <=> before.faultIn = 1
  <1>1. PICK b : b = FreshResult(before)
    OBVIOUS
  <1>2. /\ b \in WorkOf(M, X) /\ b.rows = before.rows /\ b.trail = before.trail /\ ~b.raised
        /\ b.status = "completed" /\ b.faultIn = before.faultIn
    BY <1>1, FreshIs
  <1>3. PICK action \in FrameActs : action = "lifecycle_worker_started"
    BY DEF FrameActs
  <1>4. started = Record(b, action, "none")
    BY <1>1, <1>3 DEF Began, FreshResult
  <1>5. /\ started \in WorkOf(M, X) /\ DeedsSame(b, started) /\ started.status = b.status
        /\ NoFault(b, started)
        /\ started.raised <=> b.raised \/ b.faultIn = 1
    BY <1>2, <1>4, FramesKeepDeeds
  <1>6. DeedsSame(before, b)
    BY <1>2, SameTrailSame
  <1>7. DeedsSame(before, started)
    BY <1>5, <1>6 DEF DeedsSame
  <1> QED
    BY <1>2, <1>5, <1>7 DEF NoFault

LEMMA AttemptWithin ==
  ASSUME NEW M, NEW X, NEW Q, ByDeeds(M, X, Q), NEW before \in WorkOf(M, X),
         NEW job \in Jobs, NEW ctx, NEW race, NEW order, Len(order) \in Nat,
         NEW started, started = Began(before),
         started.raised => started \in Q,
         ~started.raised => Meddle(started, race, "listing", race.on) \in Q,
         \A phase \in PhasesOf(job) : KeptByTurns(Q, phase, ctx, race, before.rows, order)
  PROVE  /\ Attempt(job, ctx, race, order, before) \in Q
         /\ ~started.raised => Execute(job, ctx, race, order, started) \in Q
  <1>1. started.rows = before.rows
    BY BeganIs DEF DeedsSame
  <1>2. ASSUME ~started.raised PROVE Execute(job, ctx, race, order, started) \in Q
    <2>1. ASSUME NEW phase \in PhasesOf(job), NEW x \in Q
          PROVE  ForEach(phase, ctx, race, started.rows, order, x) \in Q
      BY <1>1, LoopStays
    <2>2. KeptByNotes(Q)
      BY ByDeedsIsKept
    <2> QED
      BY <1>2, <2>1, <2>2, ExecuteStays
  <1> QED
    BY <1>2, ByDeedsIsKept, AttemptStays

-----------------------------------------------------------------------------
(* A run: the first attempt, which somebody may race, and the next.         *)

\* The rows the job works on: somebody may have changed one that it listed.
RacedRows(race, rows) == IF race.when = "listing" THEN [rows EXCEPT ![race.on] = race.row] ELSE rows

\* Whoever races a listing neither decays nor archives the row, of which the job,
\* with the copy it listed, would tell as its own; and the listing takes place.
PlainRace(race, rows, fault) ==
  /\ race.row.decayed = rows[race.on].decayed
  /\ race.when = "listing" => race.row.status # "archived" /\ fault # 1

Deedless(x) == \A a \in DeedActs : \A n : ~Tells(x, a, n)

LEMMA FirstStays ==
  ASSUME NEW M, NEW X, NEW rows \in [M -> Row(X)], NEW race \in RacesOn(M, X, rows), NEW fault \in Nat,
         PlainRace(race, rows, fault), NEW order \in Seq(M), NEW job \in Jobs, NEW ctx,
         NEW Q, ByDeeds(M, X, Q),
         \A x \in WorkOf(M, X) : x.rows = RacedRows(race, rows) /\ Deedless(x) => x \in Q,
         \A phase \in PhasesOf(job) : KeptByTurns(Q, phase, ctx, race, rows, order)
  PROVE  Attempt(job, ctx, race, order, Work(rows, fault)) \in Q
  <1>1. PICK before : before = Work(rows, fault)
    OBVIOUS
  <1>2. before \in WorkOf(M, X) /\ before.rows = rows /\ before.faultIn = fault /\ Deedless(before)
    BY <1>1, FreshIsBooked DEF Deedless
  <1>3. PICK started : started = Began(before)
    OBVIOUS
  <1>4. /\ started \in WorkOf(M, X) /\ started.rows = rows /\ Deedless(started)
        /\ started.raised <=> fault = 1
    BY <1>2, <1>3, BeganIs DEF DeedsSame, Deedless
  <1>5. race.row \in Row(X) /\ race.on \in M /\ Len(order) \in Nat
    BY DEF RacesOn
  <1>6. started.raised => started \in Q
    BY <1>4 DEF PlainRace, RacedRows
  <1>7. ASSUME ~started.raised PROVE Meddle(started, race, "listing", race.on) \in Q
    <2>1. PICK b : b = Meddle(started, race, "listing", race.on)
      OBVIOUS
    <2>2. b \in WorkOf(M, X) /\ IsMeddle(started, race, "listing", race.on, b)
      BY <1>4, <1>5, <2>1, Meddled
    <2>3. b.rows = RacedRows(race, rows) /\ b.trail = started.trail
      BY <1>4, <1>7, <2>2 DEF IsMeddle, RacedRows
    <2>4. Deedless(b)
      BY <1>4, <2>3 DEF Deedless, Tells, EventsIn
    <2> QED
      BY <2>1, <2>2, <2>3, <2>4
  <1> QED
    BY <1>1, <1>2, <1>3, <1>5, <1>6, <1>7, AttemptWithin

LEMMA NextStays ==
  ASSUME NEW M, NEW X, NEW race, race.when = "never", NEW order \in Seq(M), NEW job \in Jobs, NEW ctx,
         NEW Q, ByDeeds(M, X, Q), NEW first \in Q,
         \A phase \in PhasesOf(job) : KeptByTurns(Q, phase, ctx, race, first.rows, order)
  PROVE  /\ Attempt(job, ctx, race, order, first) \in Q
         /\ Buried(Attempt(job, ctx, race, order, first)) \in Q
  <1>1. first \in WorkOf(M, X)
    BY DEF ByDeeds
  <1>2. PICK started : started = Began(first)
    OBVIOUS
  <1>3. started \in Q
    BY <1>1, <1>2, BeganIs DEF ByDeeds
  <1>4. Meddle(started, race, "listing", race.on) = started
    BY DEF Meddle
  <1>5. Len(order) \in Nat
    OBVIOUS
  <1>6. Attempt(job, ctx, race, order, first) \in Q
    BY <1>1, <1>2, <1>3, <1>4, <1>5, AttemptWithin
  <1> QED
    BY <1>6, ByDeedsIsKept DEF Buried

\* What a run comes to.
LEMMA RunIs ==
  ASSUME NEW job, NEW ctx, NEW race, NEW order, NEW before,
         NEW first, first = Attempt(job, ctx, race, order, before),
         NEW later, later = [race EXCEPT !.when = "never"],
         NEW last, last = Attempt(job, ctx, later, order, first),
         NEW out, out = RunOneJob(job, ctx, race, order, before)
  PROVE  /\ first.status # "failed" => out.work = first /\ out.attempts = 1
         /\ first.status = "failed" => out.work = Buried(last) /\ out.attempts = 2
  <1>1. out = Retried(job, ctx, later, order, first)
    BY DEF RunOneJob
  <1> QED
    BY <1>1 DEF Retried

\* What a row was is what its books begin with.
LEMMA RowBookBegins ==
  ASSUME NEW X, NEW job, NEW b \in Row(X), b.cleared => b.status = "deleted"
  PROVE  RowBook(job, b, b, {})
  BY DEF RowBook

\* What an attempt leaves is fit for the next.
LEMMA RowBookIsFit ==
  ASSUME NEW X, NEW job, NEW b \in Row(X), NEW row \in Row(X), NEW told, RowBook(job, b, row, told)
  PROVE  Fit(job, b, row) /\ Decided(row, told)
  <1>1. "memory_decay_applied" \in told => job = "decay"
    <2>1. "memory_decay_applied" \in OwnDeeds(job) => job = "decay"
      BY DEF OwnDeeds, ForgetActs
    <2> QED
      BY <2>1 DEF RowBook
  <1>2. row.status = "active" =>
          /\ ~row.cleared /\ ~b.cleared /\ b.status # "archived" /\ (b.decayed => row.decayed)
          /\ told \cap ForgetActs = {}
    BY DEF RowBook
  <1>3. row.decayed => b.decayed \/ job = "decay"
    BY <1>1 DEF RowBook
  <1>4. ~row.cleared => ~b.cleared
    BY DEF RowBook
  <1> QED
    BY <1>2, <1>3, <1>4 DEF Fit, Decided

LEMMA RacedIsFit ==
  ASSUME NEW M, NEW X, NEW rows \in [M -> Row(X)], \A m \in M : rows[m].cleared => rows[m].status = "deleted",
         NEW race \in RacesOn(M, X, rows), NEW fault, PlainRace(race, rows, fault), NEW job,
         NEW base, base = RacedRows(race, rows)
  PROVE  /\ base \in [M -> Row(X)]
         /\ \A m \in M : Fit(job, base[m], rows[m]) /\ (base[m].cleared => base[m].status = "deleted")
  <1>1. race.row \in Row(X) /\ race.on \in M /\ (race.when = "listing" => ~race.row.cleared)
    BY DEF RacesOn
  <1>2. base \in [M -> Row(X)]
    BY <1>1 DEF RacedRows
  <1>3. ASSUME NEW m \in M
        PROVE  Fit(job, base[m], rows[m]) /\ (base[m].cleared => base[m].status = "deleted")
    <2>1. CASE race.when = "listing" /\ race.on = m
      <3>1. base[m] = race.row
        BY <1>1, <2>1 DEF RacedRows
      <3> QED
        BY <1>1, <2>1, <3>1 DEF Fit, PlainRace
    <2>2. CASE ~(race.when = "listing" /\ race.on = m)
      <3>1. base[m] = rows[m]
        BY <1>1, <2>2 DEF RacedRows
      <3> QED
        BY <3>1 DEF Fit
    <2> QED
      BY <2>1, <2>2
  <1> QED
    BY <1>2, <1>3

LEMMA BooksAreByDeeds ==
  ASSUME NEW M, NEW X, NEW job, NEW base, NEW seen
  PROVE  ByDeeds(M, X, Books(M, X, job, base)) /\ ByDeeds(M, X, BooksIn(M, X, job, base, seen))
  BY SameIsTold DEF ByDeeds, Books, BooksIn

\* After both attempts what is told of each row is what became of it.
LEMMA RunKeepsBooks ==
  ASSUME NEW M, NEW X, NEW rows \in [M -> Row(X)], \A m \in M : rows[m].cleared => rows[m].status = "deleted",
         NEW race \in RacesOn(M, X, rows), race.when # "commit", NEW fault \in Nat, PlainRace(race, rows, fault),
         NEW order \in Seq(M), NEW job \in Jobs, NEW ctx, ~JobPreview(job, ctx),
         NEW out, out = RunOneJob(job, ctx, race, order, Work(rows, fault))
  PROVE  out.work \in Books(M, X, job, RacedRows(race, rows))
  <1>1. PICK base : base = RacedRows(race, rows)
    OBVIOUS
  <1>2. /\ base \in [M -> Row(X)]
        /\ \A m \in M : Fit(job, base[m], rows[m]) /\ (base[m].cleared => base[m].status = "deleted")
    BY <1>1, RacedIsFit
  <1>3. race.row \in Row(X) /\ \A k \in 1..Len(order) : order[k] \in M
    BY DEF RacesOn
  <1>4. PICK Q : Q = BooksIn(M, X, job, base, rows)
    OBVIOUS
  <1>5. ASSUME NEW x \in WorkOf(M, X), x.rows = base, Deedless(x) PROVE x \in Q
    <2>1. ASSUME NEW m \in M PROVE ToldOf(x, m) = {}
      BY <1>5 DEF ToldOf, Deedless
    <2>2. ASSUME NEW m \in M PROVE RowBook(job, base[m], x.rows[m], ToldOf(x, m))
      BY <1>2, <1>5, <2>1, RowBookBegins
    <2>3. ASSUME NEW m \in M PROVE Decided(rows[m], ToldOf(x, m))
      BY <2>1 DEF Decided
    <2> QED
      BY <1>4, <2>2, <2>3 DEF BooksIn, Books
  <1>6. ASSUME NEW phase \in PhasesOf(job) PROVE KeptByTurns(Q, phase, ctx, race, rows, order)
    <2>1. ASSUME NEW x \in Q, NEW k \in 1..Len(order), ~x.raised, order[k] \in Listing(phase, rows, order)
          PROVE  Item(phase, ctx, race, rows, x, order[k]) \in Q
      <3>1. order[k] \in M
        BY <1>3
      <3> QED
        BY <1>2, <1>3, <1>4, <2>1, <3>1, TurnKeepsBooks
    <2> QED
      BY <2>1 DEF KeptByTurns
  <1>7. PICK first : first = Attempt(job, ctx, race, order, Work(rows, fault))
    OBVIOUS
  <1>8. ByDeeds(M, X, Q)
    BY <1>4, BooksAreByDeeds
  <1>9. first \in Q
    BY <1>1, <1>5, <1>6, <1>7, <1>8, FirstStays
  <1>10. first \in Books(M, X, job, base) /\ first.rows \in [M -> Row(X)]
    BY <1>4, <1>9 DEF BooksIn, Books, WorkOf
  <1>11. PICK later : later = [race EXCEPT !.when = "never"]
    OBVIOUS
  <1>12. later.when = "never" /\ later.row \in Row(X)
    BY <1>3, <1>11 DEF RacesOn
  <1>13. PICK P : P = BooksIn(M, X, job, base, first.rows)
    OBVIOUS
  <1>14. \A m \in M : Fit(job, base[m], first.rows[m]) /\ Decided(first.rows[m], ToldOf(first, m))
    BY <1>2, <1>10, RowBookIsFit DEF Books
  <1>15. first \in P /\ ByDeeds(M, X, P)
    BY <1>10, <1>13, <1>14, BooksAreByDeeds DEF BooksIn
  <1>16. ASSUME NEW phase \in PhasesOf(job) PROVE KeptByTurns(P, phase, ctx, later, first.rows, order)
    <2>1. PICK seen \in [M -> Row(X)] : seen = first.rows
      BY <1>10
    <2>2. ASSUME NEW x \in P, NEW k \in 1..Len(order), ~x.raised, order[k] \in Listing(phase, seen, order)
          PROVE  Item(phase, ctx, later, seen, x, order[k]) \in P
      <3>1. order[k] \in M /\ later.when # "commit" /\ \A m \in M : Fit(job, base[m], seen[m])
        BY <1>3, <1>12, <1>14, <2>1
      <3>2. P = BooksIn(M, X, job, base, seen)
        BY <1>13, <2>1
      <3> QED
        BY <1>2, <1>12, <2>2, <3>1, <3>2, TurnKeepsBooks
    <2> QED
      BY <2>1, <2>2 DEF KeptByTurns
  <1>17. Buried(Attempt(job, ctx, later, order, first)) \in P
    BY <1>12, <1>15, <1>16, NextStays
  <1>18. P \subseteq Books(M, X, job, base)
    BY <1>13 DEF BooksIn
  <1>19. out.work = first \/ out.work = Buried(Attempt(job, ctx, later, order, first))
    <2>1. PICK last : last = Attempt(job, ctx, later, order, first)
      OBVIOUS
    <2> QED
      BY <1>7, <1>11, <2>1, RunIs
  <1> QED
    BY <1>1, <1>10, <1>17, <1>18, <1>19

\* A set that every turn of a job keeps is not left by a run.
LEMMA RunStays ==
  ASSUME NEW M, NEW X, NEW rows \in [M -> Row(X)], NEW race \in RacesOn(M, X, rows),
         NEW fault \in Nat, PlainRace(race, rows, fault), NEW order \in Seq(M), NEW job \in Jobs, NEW ctx,
         NEW Q, ByDeeds(M, X, Q),
         \A x \in WorkOf(M, X) : x.rows = RacedRows(race, rows) /\ Deedless(x) => x \in Q,
         \A w \in Q, m \in M, seen \in [M -> Row(X)], phase \in PhasesOf(job), rival \in RacesOn(M, X, rows) :
           ~w.raised => Item(phase, ctx, rival, seen, w, m) \in Q,
         NEW out, out = RunOneJob(job, ctx, race, order, Work(rows, fault))
  PROVE  out.work \in Q
  <1>1. \A k \in 1..Len(order) : order[k] \in M
    OBVIOUS
  <1>2. PICK first : first = Attempt(job, ctx, race, order, Work(rows, fault))
    OBVIOUS
  <1>3. \A phase \in PhasesOf(job) : KeptByTurns(Q, phase, ctx, race, rows, order)
    BY <1>1 DEF KeptByTurns
  <1>4. first \in Q
    BY <1>2, <1>3, FirstStays
  <1>5. PICK seen \in [M -> Row(X)] : seen = first.rows
    BY <1>4 DEF ByDeeds, WorkOf
  <1>6. PICK later : later = [race EXCEPT !.when = "never"]
    OBVIOUS
  <1>7. later.when = "never" /\ later \in RacesOn(M, X, rows)
    BY <1>6 DEF RacesOn
  <1>8. \A phase \in PhasesOf(job) : KeptByTurns(Q, phase, ctx, later, seen, order)
    BY <1>1, <1>7 DEF KeptByTurns
  <1>9. PICK last : last = Attempt(job, ctx, later, order, first)
    OBVIOUS
  <1>10. Buried(last) \in Q
    BY <1>4, <1>5, <1>7, <1>8, <1>9, NextStays
  <1> QED
    BY <1>2, <1>4, <1>6, <1>9, <1>10, RunIs

\* A run tells of the memories there are.
LEMMA RunTellsOwn ==
  ASSUME NEW M, NEW X, NEW rows \in [M -> Row(X)], NEW race \in RacesOn(M, X, rows),
         NEW fault \in Nat, PlainRace(race, rows, fault), NEW order \in Seq(M), NEW job \in Jobs, NEW ctx,
         NEW out, out = RunOneJob(job, ctx, race, order, Work(rows, fault))
  PROVE  out.work \in OwnTold(M, X, OwnDeeds(job))
  <1>1. PICK Q : Q = OwnTold(M, X, OwnDeeds(job))
    OBVIOUS
  <1>2. ByDeeds(M, X, Q)
    BY <1>1 DEF ByDeeds, OwnTold, DeedsSame
  <1>3. \A x \in WorkOf(M, X) : Deedless(x) => x \in Q
    BY <1>1 DEF Deedless, OwnTold
  <1>4. ASSUME NEW w \in Q, NEW m \in M, NEW seen \in [M -> Row(X)], NEW phase \in PhasesOf(job),
               NEW rival \in RacesOn(M, X, rows), ~w.raised
        PROVE  Item(phase, ctx, rival, seen, w, m) \in Q
    <2>1. rival.row \in Row(X)
      BY DEF RacesOn
    <2>2. phase \in Phases /\ (phase \in {"reflection", "clusters"} \/ phase = job)
      BY PhasesAre DEF PhasesOf
    <2> QED
      BY <1>1, <1>4, <2>1, <2>2, TurnTellsOwn
  <1> QED
    BY <1>1, <1>2, <1>3, <1>4, RunStays

\* A preview leaves the rows as somebody else made them.
LEMMA PreviewChangesNothing ==
  ASSUME NEW M, NEW X, NEW rows \in [M -> Row(X)], NEW race \in RacesOn(M, X, rows),
         NEW fault \in Nat, PlainRace(race, rows, fault), NEW order \in Seq(M), NEW job \in Jobs,
         NEW ctx, JobPreview(job, ctx),
         NEW out, out = RunOneJob(job, ctx, race, order, Work(rows, fault))
  PROVE  out.work \in WorkOf(M, X) /\ out.work.rows = RacedRows(race, rows)
  <1>1. PICK base : base = RacedRows(race, rows)
    OBVIOUS
  <1>2. PICK Q : Q = {x \in WorkOf(M, X) : x.rows = base}
    OBVIOUS
  <1>3. ByDeeds(M, X, Q)
    BY <1>2 DEF ByDeeds, DeedsSame
  <1>4. ASSUME NEW w \in Q, NEW m \in M, NEW seen \in [M -> Row(X)], NEW phase \in PhasesOf(job),
               NEW rival \in RacesOn(M, X, rows), ~w.raised
        PROVE  Item(phase, ctx, rival, seen, w, m) \in Q
    <2>1. rival.row \in Row(X) /\ w \in WorkOf(M, X) /\ w.rows = base
      BY <1>2 DEF RacesOn
    <2>2. PICK r : r = Item(phase, ctx, rival, seen, w, m)
      OBVIOUS
    <2>3. phase \in Phases /\ (phase \in OneByOne \cup {"deletion_compaction"} => phase = job)
      BY PhasesAre DEF PhasesOf, OneByOne
    <2>4. CASE phase \in OneByOne
      <3>1. RowAfter(phase, ctx, w.rows[m], seen[m]) = w.rows[m]
        BY <2>3, <2>4 DEF RowAfter, DecayIdle, RetentionPreview, JobPreview, OneByOne
      <3>2. [w.rows EXCEPT ![m] = w.rows[m]] = w.rows
        BY <2>1 DEF WorkOf
      <3>3. /\ r \in WorkOf(M, X)
            /\ r.raised => DeedsSame(w, r)
            /\ ~r.raised => DeedsMade(w, r, w.rows, ActsOf(phase, ctx, seen[m]), m)
        BY <1>4, <2>1, <2>2, <2>4, <3>1, <3>2, OneTurnDeeds
      <3> QED
        BY <1>2, <2>1, <2>2, <3>3 DEF DeedsSame, DeedsMade
    <2>5. CASE phase = "deletion_compaction"
      <3>1. ctx.dry
        BY <2>3, <2>5 DEF JobPreview
      <3>2. r \in WorkOf(M, X) /\ DeedsSame(w, r)
        BY <1>4, <2>1, <2>2, <2>5, <3>1, CompactionTurnDeeds DEF CompactionIdle
      <3> QED
        BY <1>2, <2>1, <2>2, <3>2 DEF DeedsSame
    <2>6. CASE phase \in Proposing \cup {"deletion_verification"}
      <3>1. r \in WorkOf(M, X) /\ DeedsSame(w, r)
        BY <1>4, <2>1, <2>2, <2>6, OtherTurnDeeds
      <3> QED
        BY <1>2, <2>1, <2>2, <3>1 DEF DeedsSame
    <2> QED
      BY <2>3, <2>4, <2>5, <2>6 DEF Phases
  <1>5. out.work \in Q
    BY <1>1, <1>2, <1>3, <1>4, RunStays
  <1> QED
    BY <1>1, <1>2, <1>5

-----------------------------------------------------------------------------
(* A job that was done finds nothing left to do.                            *)

\* A row the job would leave as it is.
Settled(job, ctx, row) ==
  CASE job = "decay" -> row.status = "active" => DecayIdle(ctx, row)
    [] job = "archive" -> row.status = "active" => ArchiveIdle(row)
    [] job = "retention" ->
         row.status = "active" => RetentionOutcome(row) \in {"held", "kept"} /\ row.stamped
    [] OTHER -> row.status = "deleted" /\ ~row.cleared => row.held \/ ~row.aged

LEMMA RowSettles ==
  ASSUME NEW X, NEW copy \in Row(X), NEW row \in Row(X), NEW job \in OneByOne, NEW ctx,
         ~JobPreview(job, ctx), copy.status = "active", row = copy \/ Settled(job, ctx, row)
  PROVE  Settled(job, ctx, RowAfter(job, ctx, row, copy))
  <1>1. CASE job = "decay"
    <2>1. [copy EXCEPT !.decayed = TRUE].decayed
      BY DEF Row
    <2>2. DecayIdle(ctx, [copy EXCEPT !.decayed = TRUE])
      BY <2>1 DEF DecayIdle
    <2>3. CASE DecayIdle(ctx, copy)
      <3>1. RowAfter(job, ctx, row, copy) = row
        BY <1>1, <2>3 DEF RowAfter
      <3> QED
        BY <1>1, <2>3, <3>1 DEF Settled
    <2>4. CASE ~DecayIdle(ctx, copy)
      <3>1. RowAfter(job, ctx, row, copy) = [copy EXCEPT !.decayed = TRUE]
        BY <1>1, <2>4 DEF RowAfter
      <3> QED
        BY <1>1, <2>2, <3>1 DEF Settled
    <2> QED
      BY <2>3, <2>4
  <1>2. CASE job = "archive"
    <2>1. [copy EXCEPT !.status = "archived"].status # "active"
      BY DEF Row
    <2>2. CASE ArchiveIdle(copy)
      <3>1. RowAfter(job, ctx, row, copy) = row
        BY <1>2, <2>2 DEF RowAfter
      <3> QED
        BY <1>2, <2>2, <3>1 DEF Settled
    <2>3. CASE ~ArchiveIdle(copy)
      <3>1. RowAfter(job, ctx, row, copy) = [copy EXCEPT !.status = "archived"]
        BY <1>2, <2>3 DEF RowAfter, JobPreview
      <3> QED
        BY <1>2, <2>1, <3>1 DEF Settled
    <2> QED
      BY <2>2, <2>3
  <1>3. CASE job = "retention"
    <2>1. ~RetentionPreview(ctx)
      BY <1>3 DEF JobPreview, RetentionPreview
    <2>2. /\ Stamped(copy).stamped /\ RetentionOutcome(Stamped(copy)) = RetentionOutcome(copy)
          /\ Dropped(row).status = "deleted"
      BY DEF Stamped, Dropped, Row, RetentionOutcome
    <2>3. CASE RetentionOutcome(copy) \in {"held", "kept"}
      <3>1. RowAfter(job, ctx, row, copy) = Stamped(copy)
        BY <1>3, <2>1, <2>3 DEF RowAfter
      <3> QED
        BY <1>3, <2>2, <2>3, <3>1 DEF Settled
    <2>4. CASE RetentionOutcome(copy) \notin {"held", "kept"}
      <3>1. RowAfter(job, ctx, row, copy) = Dropped(row)
        BY <1>3, <2>1, <2>4 DEF RowAfter
      <3> QED
        BY <1>3, <2>2, <3>1 DEF Settled
    <2> QED
      BY <2>3, <2>4
  <1> QED
    BY <1>1, <1>2, <1>3 DEF OneByOne

LEMMA SettledStays ==
  ASSUME NEW X, NEW copy \in Row(X), NEW job \in OneByOne, NEW ctx,
         ~JobPreview(job, ctx), copy.status = "active", Settled(job, ctx, copy)
  PROVE  RowAfter(job, ctx, copy, copy) = copy /\ ActsOf(job, ctx, copy) \cap DeedActs = {}
  <1>1. CASE job = "decay"
    BY <1>1 DEF Settled, RowAfter, ActsOf
  <1>2. CASE job = "archive"
    BY <1>2 DEF Settled, RowAfter, ActsOf
  <1>3. CASE job = "retention"
    <2>1. ~RetentionPreview(ctx) /\ RetentionOutcome(copy) \in {"held", "kept"} /\ copy.stamped
      BY <1>3 DEF Settled, JobPreview, RetentionPreview
    <2>2. Stamped(copy) = copy
      BY <2>1 DEF Stamped, Row
    <2>3. ActsOf(job, ctx, copy) \subseteq {"retention_decision_recorded", "memory_retention_hold_respected"}
      BY <1>3, <2>1 DEF ActsOf, OutcomeAction
    <2>4. RowAfter(job, ctx, copy, copy) = copy
      BY <1>3, <2>1, <2>2 DEF RowAfter
    <2> QED
      BY <2>3, <2>4 DEF DeedActs, ForgetActs
  <1> QED
    BY <1>1, <1>2, <1>3 DEF OneByOne

\* Every row is as it was listed, or settled.
OnItsWay(M, job, ctx, seen, rows) == \A n \in M : rows[n] = seen[n] \/ Settled(job, ctx, rows[n])

LEMMA ListedIsOwn ==
  ASSUME NEW seen, NEW phase, NEW order, NEW m \in Listing(phase, seen, order)
  PROVE  /\ phase \in OneByOne => seen[m].status = "active"
         /\ phase = "deletion_compaction" => seen[m].status = "deleted" /\ ~seen[m].cleared
  <1>1. phase \in OneByOne => Listing(phase, seen, order) = ActiveMemories(seen)
    BY DEF Listing, OneByOne
  <1>2. phase = "deletion_compaction" => Listing(phase, seen, order) = DeletedForCompaction(seen)
    BY DEF Listing
  <1> QED
    BY <1>1, <1>2 DEF ActiveMemories, DeletedForCompaction

LEMMA TurnSettles ==
  ASSUME NEW M, NEW X, NEW seen \in [M -> Row(X)], NEW job \in Mutating, NEW ctx, ~JobPreview(job, ctx),
         NEW race, race.row \in Row(X), race.when = "never",
         NEW w \in WorkOf(M, X), ~w.raised, OnItsWay(M, job, ctx, seen, w.rows),
         NEW m \in M, job \in OneByOne => seen[m].status = "active", NEW r, r = Item(job, ctx, race, seen, w, m)
  PROVE  /\ r \in WorkOf(M, X)
         /\ \/ r.raised /\ r.rows = w.rows
            \/ /\ Settled(job, ctx, r.rows[m])
               /\ \A n \in M : n # m => r.rows[n] = w.rows[n]
  <1>1. w.rows \in [M -> Row(X)]
    BY DEF WorkOf
  <1>2. PICK copy \in Row(X), row \in Row(X) : copy = seen[m] /\ row = w.rows[m]
    BY <1>1
  <1>3. row = copy \/ Settled(job, ctx, row)
    BY <1>2 DEF OnItsWay
  <1>4. ASSUME NEW new, r.rows = [w.rows EXCEPT ![m] = new]
        PROVE  r.rows[m] = new /\ \A n \in M : n # m => r.rows[n] = w.rows[n]
    BY <1>1, <1>4
  <1>5. CASE job \in OneByOne
    <2>1. copy.status = "active"
      BY <1>2, <1>5
    <2>2. PICK new : new = RowAfter(job, ctx, row, copy)
      OBVIOUS
    <2>3. Settled(job, ctx, new)
      BY <1>3, <1>5, <2>1, <2>2, RowSettles
    <2>4. /\ r \in WorkOf(M, X)
          /\ r.raised => r.rows = w.rows
          /\ ~r.raised => r.rows = [w.rows EXCEPT ![m] = new]
      <3>1. /\ r \in WorkOf(M, X)
            /\ r.raised => DeedsSame(w, r)
            /\ ~r.raised => DeedsMade(w, r, [w.rows EXCEPT ![m] = RowAfter(job, ctx, w.rows[m], seen[m])],
                                      ActsOf(job, ctx, seen[m]), m)
        BY <1>5, OneTurnDeeds
      <3> QED
        BY <1>2, <2>2, <3>1 DEF DeedsSame, DeedsMade
    <2> QED
      BY <1>4, <2>3, <2>4
  <1>6. CASE job = "deletion_compaction"
    <2>1. /\ r \in WorkOf(M, X)
          /\ CompactionIdle(ctx, w, m, copy) => DeedsSame(w, r)
          /\ ~CompactionIdle(ctx, w, m, copy) =>
               \/ r.raised /\ DeedsSame(w, r)
               \/ DeedsMade(w, r, PurgedRows(race, w, m), {"memory_content_compacted"}, m)
      BY <1>2, <1>6, CompactionTurnDeeds
    <2>2. CASE CompactionIdle(ctx, w, m, copy)
      <3>1. r.rows = w.rows
        BY <2>1, <2>2 DEF DeedsSame
      <3>2. copy.held \/ ~copy.aged \/ row.status # "deleted"
        BY <1>2, <1>6, <2>2 DEF CompactionIdle, JobPreview
      <3>3. Settled(job, ctx, row)
        BY <1>3, <1>6, <3>2 DEF Settled
      <3> QED
        BY <1>2, <2>1, <3>1, <3>3
    <2>3. CASE ~CompactionIdle(ctx, w, m, copy) /\ r.raised /\ DeedsSame(w, r)
      BY <2>1, <2>3 DEF DeedsSame
    <2>4. CASE DeedsMade(w, r, PurgedRows(race, w, m), {"memory_content_compacted"}, m)
      <3>1. r.rows = [w.rows EXCEPT ![m] = ClearedRow(row)]
        BY <1>2, <2>4 DEF DeedsMade, PurgedRows
      <3>2. ClearedRow(row).cleared
        BY RowFields
      <3>3. Settled(job, ctx, ClearedRow(row))
        BY <1>6, <3>2 DEF Settled
      <3> QED
        BY <1>4, <2>1, <3>1, <3>3
    <2> QED
      BY <2>1, <2>2, <2>3, <2>4
  <1> QED
    BY <1>5, <1>6 DEF Mutating, OneByOne

LEMMA LoopSettles ==
  ASSUME NEW M, NEW X, NEW seen \in [M -> Row(X)], NEW job \in Mutating, NEW ctx, ~JobPreview(job, ctx),
         NEW race, race.row \in Row(X), race.when = "never", NEW order, Covers(order, M),
         Len(order) \in Nat, \A k \in 1..Len(order) : order[k] \in M,
         NEW x \in WorkOf(M, X), x.rows = seen, NEW r, r = ForEach(job, ctx, race, seen, order, x)
  PROVE  r \in WorkOf(M, X) /\ (~r.raised => \A m \in M : Settled(job, ctx, r.rows[m]))
  <1>0. ASSUME NEW w \in WorkOf(M, X), ~w.raised, OnItsWay(M, job, ctx, seen, w.rows),
               NEW m \in M, m \in Listing(job, seen, order), NEW y, y = Item(job, ctx, race, seen, w, m)
        PROVE  /\ y \in WorkOf(M, X)
               /\ \/ y.raised /\ y.rows = w.rows
                  \/ Settled(job, ctx, y.rows[m]) /\ \A n \in M : n # m => y.rows[n] = w.rows[n]
    <2>1. job \in OneByOne => seen[m].status = "active"
      BY <1>0, ListedIsOwn
    <2> QED
      BY <1>0, <2>1, TurnSettles
  <1> DEFINE Through(k, w) == \A j \in 1..Len(order) : j <= k => Settled(job, ctx, w.rows[order[j]])
             S == {p \in Nat \X WorkOf(M, X) :
                     /\ OnItsWay(M, job, ctx, seen, p[2].rows)
                     /\ p[2].raised \/ Through(p[1], p[2])}
  <1>1. Len(order) \in Nat /\ \A k \in 1..Len(order) : order[k] \in M
    OBVIOUS
  <1>2. <<0, x>> \in S
    BY <1>1 DEF OnItsWay
  <1>3. ASSUME NEW k \in 1..Len(order), NEW w, <<k - 1, w>> \in S
        PROVE  /\ w.raised \/ order[k] \notin Listing(job, seen, order) => <<k, w>> \in S
               /\ ~w.raised /\ order[k] \in Listing(job, seen, order) =>
                    <<k, Item(job, ctx, race, seen, w, order[k])>> \in S
    <2>1. /\ w \in WorkOf(M, X) /\ k \in Nat /\ OnItsWay(M, job, ctx, seen, w.rows)
          /\ w.raised \/ Through(k - 1, w)
      BY <1>3
    <2>2. PICK m \in M : m = order[k]
      BY <1>1
    <2>3. CASE w.raised
      BY <2>1, <2>3
    <2>4. CASE ~w.raised /\ m \notin Listing(job, seen, order)
      <3>1. Settled(job, ctx, seen[m])
        <4>1. CASE job \in OneByOne
          <5>1. m \notin ActiveMemories(seen)
            BY <2>4, <4>1 DEF Listing, OneByOne
          <5>2. seen[m].status # "active"
            BY <5>1 DEF ActiveMemories
          <5> QED
            BY <4>1, <5>2 DEF Settled, OneByOne
        <4>2. CASE job = "deletion_compaction"
          <5>1. m \notin DeletedForCompaction(seen)
            BY <2>4, <4>2 DEF Listing
          <5>2. ~(seen[m].status = "deleted" /\ ~seen[m].cleared)
            BY <5>1 DEF DeletedForCompaction
          <5> QED
            BY <4>2, <5>2 DEF Settled
        <4> QED
          BY <4>1, <4>2 DEF Mutating, OneByOne
      <3>2. Settled(job, ctx, w.rows[m])
        BY <2>1, <3>1 DEF OnItsWay
      <3>3. ASSUME NEW j \in 1..Len(order), j <= k PROVE Settled(job, ctx, w.rows[order[j]])
        BY <1>1, <2>1, <2>2, <2>4, <3>2, <3>3
      <3> QED
        BY <2>1, <2>2, <2>4, <3>3
    <2>5. CASE ~w.raised /\ m \in Listing(job, seen, order)
      <3>1. PICK y : y = Item(job, ctx, race, seen, w, m)
        OBVIOUS
      <3>2. /\ y \in WorkOf(M, X)
            /\ \/ y.raised /\ y.rows = w.rows
               \/ /\ Settled(job, ctx, y.rows[m])
                  /\ \A n \in M : n # m => y.rows[n] = w.rows[n]
        BY <1>0, <2>1, <2>5, <3>1
      <3>3. OnItsWay(M, job, ctx, seen, y.rows)
        BY <2>1, <3>2 DEF OnItsWay
      <3>4. ASSUME ~y.raised, NEW j \in 1..Len(order), j <= k PROVE Settled(job, ctx, y.rows[order[j]])
        <4>1. CASE order[j] = m
          BY <3>2, <3>4, <4>1
        <4>2. CASE order[j] # m
          <5>1. j <= k - 1
            BY <1>1, <2>2, <3>4, <4>2
          <5>2. Settled(job, ctx, w.rows[order[j]]) /\ order[j] \in M
            BY <1>1, <2>1, <2>5, <5>1
          <5> QED
            BY <3>2, <3>4, <4>2, <5>2
        <4> QED
          BY <4>1, <4>2
      <3>5. <<k, y>> \in S
        BY <2>1, <3>2, <3>3, <3>4
      <3> HIDE DEF S
      <3> QED
        BY <2>2, <2>5, <3>1, <3>5
    <2> HIDE DEF S
    <2> QED
      BY <2>2, <2>3, <2>4, <2>5
  <1> HIDE DEF S
  <1>4. <<Len(order), r>> \in S
    BY <1>1, <1>2, <1>3, LoopKeeps
  <1>5. r \in WorkOf(M, X) /\ (r.raised \/ Through(Len(order), r))
    BY <1>4 DEF S
  <1>6. ASSUME ~r.raised, NEW m \in M PROVE Settled(job, ctx, r.rows[m])
    <2>1. PICK j \in 1..Len(order) : order[j] = m
      BY DEF Covers
    <2> QED
      BY <1>1, <1>5, <1>6, <2>1
  <1> QED
    BY <1>5, <1>6

IsOrder(M, order) == order \in Seq(M)

LEMMA WorkIs ==
  ASSUME NEW M, NEW X, NEW rows \in [M -> Row(X)], NEW fault \in Nat
  PROVE  /\ Work(rows, fault) \in WorkOf(M, X) /\ Work(rows, fault).rows = rows
         /\ Work(rows, fault).faultIn = fault /\ Deedless(Work(rows, fault))
  <1>1. PICK w : w = Work(rows, fault)
    OBVIOUS
  <1>2. w \in WorkOf(M, X) /\ w.rows = rows /\ w.faultIn = fault /\ \A a, n : ~Tells(w, a, n)
    BY <1>1, FreshIsBooked
  <1> QED
    BY <1>1, <1>2 DEF Deedless

\* An attempt that went through settles every row.
LEMMA AttemptSettles ==
  ASSUME NEW M, NEW X, NEW rows \in [M -> Row(X)], NEW race, race.row \in Row(X), race.when = "never",
         race.on \in M, NEW order, IsOrder(M, order), Covers(order, M), NEW job \in Mutating, NEW ctx,
         ~JobPreview(job, ctx), NEW fault \in Nat,
         NEW r, r = Attempt(job, ctx, race, order, Work(rows, fault)), r.status # "failed"
  PROVE  r \in WorkOf(M, X) /\ \A m \in M : Settled(job, ctx, r.rows[m])
  <1>1. PICK before : before = Work(rows, fault)
    OBVIOUS
  <1>2. before \in WorkOf(M, X) /\ before.rows = rows
    BY <1>1, WorkIs
  <1>3. PICK started : started = Began(before)
    OBVIOUS
  <1>4. started \in WorkOf(M, X) /\ started.rows = rows
    BY <1>2, <1>3, BeganIs DEF DeedsSame
  <1>5. PICK P : P = {x \in WorkOf(M, X) : x.rows = rows}
    OBVIOUS
  <1>6. PICK Q : Q = {x \in WorkOf(M, X) : ~x.raised => \A m \in M : Settled(job, ctx, x.rows[m])}
    OBVIOUS
  <1>7. Len(order) \in Nat /\ \A k \in 1..Len(order) : order[k] \in M
    BY DEF IsOrder
  <1>8. job \in Jobs /\ job # "reflection" /\ PhasesOf(job) = {job}
    BY DEF Mutating, Jobs, PhasesOf
  <1>9. ASSUME NEW x \in WorkOf(M, X)
        PROVE  /\ \A action \in FrameActs :
                    LET y == Record(x, action, "none")
                    IN  y \in WorkOf(M, X) /\ y.rows = x.rows /\ (x.raised => y.raised)
               /\ \A status \in {"completed_with_findings", "skipped"} :
                    LET y == [x EXCEPT !.status = status]
                    IN  y \in WorkOf(M, X) /\ y.rows = x.rows /\ y.raised = x.raised
    <2>1. ASSUME NEW action \in FrameActs, NEW y, y = Record(x, action, "none")
          PROVE  y \in WorkOf(M, X) /\ y.rows = x.rows /\ (x.raised => y.raised)
      BY <2>1, FramesKeepDeeds DEF DeedsSame
    <2>2. ASSUME NEW status \in {"completed_with_findings", "skipped"}, NEW y, y = [x EXCEPT !.status = status]
          PROVE  y \in WorkOf(M, X) /\ y.rows = x.rows /\ y.raised = x.raised
      <3>1. status \in WorkStatuses
        BY DEF WorkStatuses
      <3> QED
        BY <2>2, <3>1, StatusSet
    <2> QED
      BY <2>1, <2>2
  <1>10. KeptByNotes(P) /\ KeptByNotes(Q)
    <2>1. KeptByNotes(P)
      BY <1>5, <1>9 DEF KeptByNotes
    <2>2. KeptByNotes(Q)
      BY <1>6, <1>9 DEF KeptByNotes
    <2> QED
      BY <2>1, <2>2
  <1>11. Meddle(started, race, "listing", race.on) \in P
    BY <1>4, <1>5 DEF Meddle
  <1>12. ASSUME NEW x \in P, NEW phase \in PhasesOf(job)
         PROVE  ForEach(phase, ctx, race, started.rows, order, x) \in Q
    <2>1. x \in WorkOf(M, X) /\ x.rows = rows /\ phase = job
      BY <1>5, <1>8
    <2>2. PICK y : y = ForEach(job, ctx, race, rows, order, x)
      OBVIOUS
    <2>3. y \in WorkOf(M, X) /\ (~y.raised => \A m \in M : Settled(job, ctx, y.rows[m]))
      BY <1>7, <2>1, <2>2, LoopSettles
    <2> QED
      BY <1>4, <1>6, <2>1, <2>2, <2>3
  <1>13. PICK done : done = Execute(job, ctx, race, order, started)
    OBVIOUS
  <1>14. done \in Q
    BY <1>8, <1>10, <1>11, <1>12, <1>13, ExecuteStays
  <1>15. done \in WorkOf(M, X) /\ (~done.raised => \A m \in M : Settled(job, ctx, done.rows[m]))
    BY <1>6, <1>14
  <1>16. ~done.raised /\ r = Record(done, "lifecycle_worker_completed", "none")
    BY <1>1, <1>2, <1>3, <1>13, <1>15, AttemptAtOnce
  <1>17. "lifecycle_worker_completed" \in FrameActs
    BY DEF FrameActs
  <1>18. r \in WorkOf(M, X) /\ r.rows = done.rows
    BY <1>15, <1>16, <1>17, FramesKeepDeeds DEF DeedsSame
  <1> QED
    BY <1>15, <1>16, <1>18

\* No call fails: neither does the attempt.
LEMMA NothingFails ==
  ASSUME NEW M, NEW X, NEW rows \in [M -> Row(X)], NEW race, race.row \in Row(X), race.when = "never",
         race.on \in M, NEW order, IsOrder(M, order), NEW job \in Mutating, NEW ctx,
         NEW r, r = Attempt(job, ctx, race, order, Work(rows, 0))
  PROVE  r.status # "failed"
  <1>1. PICK before : before = Work(rows, 0)
    OBVIOUS
  <1>2. before \in WorkOf(M, X) /\ before.rows = rows /\ before.faultIn = 0
    BY <1>1, WorkIs
  <1>3. PICK started : started = Began(before)
    OBVIOUS
  <1>4. /\ started \in WorkOf(M, X) /\ started.rows = rows /\ started.status = "completed"
        /\ started.faultIn = 0 /\ ~started.raised
    BY <1>2, <1>3, BeganIs DEF DeedsSame
  <1>5. PICK T : T = {x \in WorkOf(M, X) : x.faultIn = 0 /\ ~x.raised /\ x.status # "failed"}
    OBVIOUS
  <1>6. KeptByNotes(T)
    <2>1. ASSUME NEW x \in T, NEW action \in FrameActs PROVE Record(x, action, "none") \in T
      <3>1. PICK y : y = Record(x, action, "none")
        OBVIOUS
      <3>2. x \in WorkOf(M, X) /\ x.faultIn = 0 /\ ~x.raised /\ x.status # "failed"
        BY <1>5
      <3>3. y \in WorkOf(M, X) /\ y.status = x.status /\ NoFault(x, y)
        BY <3>1, <3>2, FramesKeepDeeds
      <3> QED
        BY <1>5, <3>1, <3>2, <3>3 DEF NoFault
    <2>2. ASSUME NEW x \in T, NEW status \in {"completed_with_findings", "skipped"}
          PROVE  [x EXCEPT !.status = status] \in T
      <3>1. PICK y : y = [x EXCEPT !.status = status]
        OBVIOUS
      <3>2. x \in WorkOf(M, X) /\ x.faultIn = 0 /\ ~x.raised /\ status \in WorkStatuses
        BY <1>5 DEF WorkStatuses
      <3>3. y \in WorkOf(M, X) /\ y.status = status /\ y.faultIn = x.faultIn /\ y.raised = x.raised
        BY <3>1, <3>2, StatusSet
      <3> QED
        BY <1>5, <3>1, <3>2, <3>3
    <2> QED
      BY <2>1, <2>2 DEF KeptByNotes
  <1>7. Len(order) \in Nat /\ \A k \in 1..Len(order) : order[k] \in M
    BY DEF IsOrder
  <1>8. job \in Jobs /\ PhasesOf(job) = {job}
    BY DEF Mutating, Jobs, PhasesOf
  <1>9. ASSUME NEW w \in T, NEW m \in M PROVE Item(job, ctx, race, rows, w, m) \in T
    <2>1. w \in WorkOf(M, X) /\ w.faultIn = 0 /\ ~w.raised /\ w.status # "failed"
      BY <1>5
    <2>2. PICK y : y = Item(job, ctx, race, rows, w, m)
      OBVIOUS
    <2>3. y \in WorkOf(M, X) /\ y.status = w.status /\ y.faultIn = 0 /\ ~y.raised
      <3>1. CASE job \in OneByOne
        <4>1. Steady(M, X, w, y)
          BY <2>1, <2>2, <3>1, OneByOneDoes
        <4> QED
          BY <2>1, <4>1 DEF Steady, SameVerdict, NoFault
      <3>2. CASE job = "deletion_compaction"
        <4>1. PICK v : v = Scanned(w)
          OBVIOUS
        <4>2. v \in WorkOf(M, X) /\ ~v.raised /\ v.status = w.status /\ v.faultIn = 0
          BY <2>1, <4>1, ScannedFirst DEF Steady, SameVerdict, NoFault
        <4>3. y = CompactionItem(ctx, race, v, m, rows[m])
          BY <2>2, <3>2, <4>1 DEF Item
        <4>4. y \in WorkOf(M, X) /\ y.status = v.status /\ NoFault(v, y)
          BY <4>2, <4>3, CompactionDoes
        <4> QED
          BY <4>2, <4>4 DEF NoFault
      <3> QED
        BY <3>1, <3>2 DEF Mutating, OneByOne
    <2> QED
      BY <1>5, <2>1, <2>2, <2>3
  <1>10. Meddle(started, race, "listing", race.on) \in T
    BY <1>4, <1>5 DEF Meddle
  <1>11. ASSUME NEW x \in T, NEW phase \in PhasesOf(job)
         PROVE  ForEach(phase, ctx, race, started.rows, order, x) \in T
    <2>1. KeptByTurns(T, job, ctx, race, rows, order)
      BY <1>7, <1>9 DEF KeptByTurns
    <2> QED
      BY <1>4, <1>7, <1>8, <2>1, LoopStays
  <1>12. PICK done : done = Execute(job, ctx, race, order, started)
    OBVIOUS
  <1>13. done \in T
    BY <1>6, <1>8, <1>10, <1>11, <1>12, ExecuteStays
  <1>14. PICK last : last = Record(done, "lifecycle_worker_completed", "none")
    OBVIOUS
  <1>15. last \in T
    BY <1>6, <1>13, <1>14 DEF KeptByNotes, FrameActs
  <1>16. Performed(job, ctx, race, order, started) = last
    BY <1>4, <1>5, <1>12, <1>13, <1>14 DEF Performed, Ended
  <1>17. r = last
    BY <1>1, <1>3, <1>5, <1>15, <1>16 DEF Attempt, Reported
  <1> QED
    BY <1>5, <1>15, <1>17

\* Over rows that are settled the job changes none and counts none.
LEMMA AgainDoesNothing ==
  ASSUME NEW M, NEW X, NEW rows \in [M -> Row(X)], NEW race, race.row \in Row(X), race.when = "never",
         race.on \in M, NEW order, IsOrder(M, order), NEW job \in Mutating, NEW ctx, ~JobPreview(job, ctx),
         \A m \in M : Settled(job, ctx, rows[m]),
         NEW again, again = RunOneJob(job, ctx, race, order, Work(rows, 0))
  PROVE  again.work.rows = rows /\ again.work.count["changed"] = 0
  <1>1. PICK r : r = Attempt(job, ctx, race, order, Work(rows, 0))
    OBVIOUS
  <1>2. race.row \in Row(X) /\ race.on \in M /\ job \in Jobs /\ PhasesOf(job) = {job}
    BY DEF Mutating, Jobs, PhasesOf
  <1>3. r.status # "failed"
    BY <1>1, <1>2, NothingFails
  <1>4. again.work = r
    <2>1. PICK later : later = [race EXCEPT !.when = "never"]
      OBVIOUS
    <2>2. PICK last : last = Attempt(job, ctx, later, order, r)
      OBVIOUS
    <2> QED
      BY <1>1, <1>3, <2>1, <2>2, RunIs
  <1>5. PICK Q : Q = {x \in WorkOf(M, X) : x.rows = rows /\ Deedless(x)}
    OBVIOUS
  <1>6. ByDeeds(M, X, Q)
    BY <1>5 DEF ByDeeds, DeedsSame, Deedless
  <1>7. ASSUME NEW w \in Q, ~w.raised, NEW m \in M, m \in Listing(job, rows, order)
        PROVE  Item(job, ctx, race, rows, w, m) \in Q
    <2>1. w \in WorkOf(M, X) /\ w.rows = rows /\ Deedless(w)
      BY <1>5
    <2>2. PICK y : y = Item(job, ctx, race, rows, w, m)
      OBVIOUS
    <2>3. y \in WorkOf(M, X) /\ DeedsSame(w, y)
      <3>1. CASE job \in OneByOne
        <4>1. rows[m] \in Row(X) /\ rows[m].status = "active"
          BY <1>7, <3>1, ListedIsOwn
        <4>2. /\ RowAfter(job, ctx, rows[m], rows[m]) = rows[m]
              /\ ActsOf(job, ctx, rows[m]) \cap DeedActs = {}
          BY <3>1, <4>1, SettledStays
        <4>3. [rows EXCEPT ![m] = rows[m]] = rows
          OBVIOUS
        <4>4. /\ y \in WorkOf(M, X)
              /\ y.raised => DeedsSame(w, y)
              /\ ~y.raised => DeedsMade(w, y, [w.rows EXCEPT ![m] = RowAfter(job, ctx, w.rows[m], rows[m])],
                                        ActsOf(job, ctx, rows[m]), m)
          BY <1>7, <2>1, <2>2, <3>1, OneTurnDeeds
        <4>5. ~y.raised => DeedsMade(w, y, rows, ActsOf(job, ctx, rows[m]), m)
          BY <2>1, <4>2, <4>3, <4>4
        <4> QED
          BY <2>1, <4>2, <4>4, <4>5 DEF DeedsSame, DeedsMade
      <3>2. CASE job = "deletion_compaction"
        <4>1. rows[m].status = "deleted" /\ ~rows[m].cleared
          BY <1>7, <3>2, ListedIsOwn
        <4>2. rows[m].held \/ ~rows[m].aged
          BY <3>2, <4>1 DEF Settled
        <4> QED
          BY <1>2, <1>7, <2>1, <2>2, <3>2, <4>2, CompactionTurnDeeds DEF CompactionIdle
      <3> QED
        BY <3>1, <3>2 DEF Mutating, OneByOne
    <2> QED
      BY <1>6, <1>7, <2>2, <2>3 DEF ByDeeds
  <1>8. order \in Seq(M) /\ \A k \in 1..Len(order) : order[k] \in M
    BY DEF IsOrder
  <1>9. \A phase \in PhasesOf(job) : KeptByTurns(Q, phase, ctx, race, rows, order)
    BY <1>2, <1>7, <1>8 DEF KeptByTurns
  <1>10. RacedRows(race, rows) = rows /\ (race.when = "listing" => FALSE)
    BY DEF RacedRows
  <1>11. r \in Q
    <2>1. PICK before : before = Work(rows, 0)
      OBVIOUS
    <2>2. before \in WorkOf(M, X) /\ before.rows = rows /\ Deedless(before)
      BY <2>1, WorkIs DEF Deedless
    <2>3. before \in Q
      BY <1>5, <2>2
    <2>4. before.rows = rows
      BY <2>2
    <2>5. \A phase \in PhasesOf(job) : KeptByTurns(Q, phase, ctx, race, before.rows, order)
      BY <1>9, <2>4
    <2> QED
      BY <1>1, <1>2, <1>6, <1>8, <2>1, <2>3, <2>5, NextStays
  <1>12. r.rows = rows /\ Deeds(r) = {}
    <2>1. r.rows = rows /\ Deedless(r)
      BY <1>5, <1>11
    <2>2. Deeds(r) = {}
      BY <2>1 DEF Deeds, Deedless, Tells
    <2> QED
      BY <2>1, <2>2
  <1>13. ~r.raised /\ r \in Owing(M, X, 0, 0)
    BY <1>1, <1>2, <1>3, <1>8, OnceIsBooked
  <1>14. r.count \in [Counters -> Nat] /\ "changed" \in Counters
    BY <1>13 DEF Owing, Booked, WorkOf, Counters
  <1>15. r.count["changed"] = 0
    <2>1. Cardinality({}) = 0 /\ Cardinality(Deeds(r)) = r.count["changed"] + 0
      BY <1>13, FS_EmptySet DEF Owing
    <2>2. r.count["changed"] \in Nat
      BY <1>14
    <2> QED
      BY <1>12, <2>1, <2>2
  <1> QED
    BY <1>4, <1>12, <1>15

(* However many rows there are, whichever call fails and whether the job is *)
(* run again: what the trail tells of a row is what became of it, a preview *)
(* changes none, a result of one attempt names every event and counts every *)
(* change, and a job that went through leaves itself nothing to do, while   *)
(* whoever changes a listed row neither decays nor archives it.             *)
THEOREM JobsBooksAreTrue ==
  ASSUME NEW M, NEW X, NEW rows \in [M -> Row(X)], \A m \in M : rows[m].cleared => rows[m].status = "deleted",
         NEW race \in RacesOn(M, X, rows), NEW fault \in Nat, PlainRace(race, rows, fault),
         NEW order, IsOrder(M, order), Covers(order, M), NEW job \in Jobs, NEW ctx,
         NEW out, out = RunOneJob(job, ctx, race, order, Work(rows, fault)),
         NEW again, again = RunOneJob(job, ctx, [race EXCEPT !.when = "never"], order, Work(out.work.rows, 0))
  PROVE  /\ out.work \in OwnTold(M, X, OwnDeeds(job))
         /\ race.when # "commit" /\ ~JobPreview(job, ctx) =>
              out.work \in Books(M, X, job, RacedRows(race, rows))
         /\ JobPreview(job, ctx) => out.work.rows = RacedRows(race, rows)
         /\ out.attempts = 1 /\ out.work.status # "failed" =>
              /\ ~out.work.raised /\ out.work \in Booked(M, X)
              /\ job \in Mutating /\ ~JobPreview(job, ctx) =>
                   /\ out.work \in Owing(M, X, 0, 0)
                   /\ race.when = "never" =>
                        again.work.rows = out.work.rows /\ again.work.count["changed"] = 0
  <1>1. out.work \in OwnTold(M, X, OwnDeeds(job))
    BY RunTellsOwn DEF IsOrder
  <1>2. ASSUME race.when # "commit", ~JobPreview(job, ctx)
        PROVE  out.work \in Books(M, X, job, RacedRows(race, rows))
    BY <1>2, RunKeepsBooks DEF IsOrder
  <1>3. ASSUME JobPreview(job, ctx) PROVE out.work.rows = RacedRows(race, rows)
    BY <1>3, PreviewChangesNothing DEF IsOrder
  <1>4. race.row \in Row(X) /\ race.on \in M
    BY DEF RacesOn
  <1>5. PICK first : first = Attempt(job, ctx, race, order, Work(rows, fault))
    OBVIOUS
  <1>6. ASSUME out.attempts = 1 PROVE out.work = first /\ first.status # "failed"
    <2>1. PICK later : later = [race EXCEPT !.when = "never"]
      OBVIOUS
    <2>2. PICK last : last = Attempt(job, ctx, later, order, first)
      OBVIOUS
    <2>3. /\ first.status # "failed" => out.work = first
          /\ first.status = "failed" => out.attempts = 2
      BY <1>5, <2>1, <2>2, RunIs
    <2> QED
      BY <1>6, <2>3
  <1>7. ASSUME first.status # "failed"
        PROVE  /\ ~first.raised /\ first \in Booked(M, X)
               /\ job \in Mutating /\ ~JobPreview(job, ctx) => first \in Owing(M, X, 0, 0)
    BY <1>4, <1>5, <1>7, OnceIsBooked DEF IsOrder
  <1>8. ASSUME out.attempts = 1, job \in Mutating, ~JobPreview(job, ctx), race.when = "never"
        PROVE  again.work.rows = out.work.rows /\ again.work.count["changed"] = 0
    <2>1. out.work = first /\ first.status # "failed"
      BY <1>6, <1>8
    <2>2. first \in WorkOf(M, X) /\ \A m \in M : Settled(job, ctx, first.rows[m])
      BY <1>4, <1>5, <1>8, <2>1, AttemptSettles
    <2>3. PICK after \in [M -> Row(X)] : after = first.rows
      BY <2>2 DEF WorkOf
    <2>4. PICK later : later = [race EXCEPT !.when = "never"]
      OBVIOUS
    <2>5. later.row \in Row(X) /\ later.when = "never" /\ later.on \in M
      BY <2>4 DEF RacesOn
    <2>6. \A m \in M : Settled(job, ctx, after[m])
      BY <2>2, <2>3
    <2>7. again = RunOneJob(job, ctx, later, order, Work(after, 0))
      BY <2>1, <2>3, <2>4
    <2>8. again.work.rows = after /\ again.work.count["changed"] = 0
      BY <1>8, <2>5, <2>6, <2>7, AgainDoesNothing
    <2> QED
      BY <2>1, <2>3, <2>8
  <1> QED
    BY <1>1, <1>2, <1>3, <1>6, <1>7, <1>8
=============================================================================

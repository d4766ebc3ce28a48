--------------------------- MODULE LifecycleJobs ---------------------------
(***************************************************************************)
(* The books of the lifecycle jobs: what a job reports, what it leaves in  *)
(* the audit trail and what it did to the rows, when a call it makes fails *)
(* half way, when the failed job is run again, and when somebody changes a *)
(* row it has already listed; and the proof of deletion read off both.     *)
(*                                                                         *)
(* A row carries what the jobs ask of it, an age being past the job's      *)
(* limit or not. A step that raises makes the steps after it do nothing.   *)
(***************************************************************************)
EXTENDS Naturals, Sequences, SequencesExt, FiniteSets, FiniteSetsExt

\* ---- the work of one attempt ----

Counters == {"scanned", "changed", "skipped", "errors"}

NoCounts == [c \in Counters |-> 0]

\* written: the events the result names, rolled back or not. faultIn: the
\* calls of the audit service until one of them raises, 0 for never.
Work(rows, faultIn) ==
  [rows |-> rows, trail |-> <<>>, nextId |-> 1, written |-> {}, count |-> NoCounts,
   status |-> "completed", eligible |-> 0, findings |-> 0, raised |-> FALSE, faultIn |-> faultIn]

Record(s, action, memory) ==
  IF s.raised THEN s
  ELSE IF s.faultIn = 1 THEN [s EXCEPT !.raised = TRUE, !.faultIn = 0]
  ELSE [s EXCEPT !.faultIn = IF @ = 0 THEN 0 ELSE @ - 1,
                 !.trail = Append(@, [id |-> s.nextId, action |-> action, memory |-> memory]),
                 !.written = @ \cup {s.nextId},
                 !.nextId = @ + 1]

Count(s, c) == IF s.raised THEN s ELSE [s EXCEPT !.count[c] = @ + 1]

Write(s, memory, row) == IF s.raised THEN s ELSE [s EXCEPT !.rows[memory] = row]

AtomicKeepingRows(s, done) == IF done.raised THEN [done EXCEPT !.trail = s.trail] ELSE done

\* A unit of work that was open when a call raised leaves no row and no event;
\* what it already put in the result stays there.
Atomic(s, done) == IF done.raised THEN [done EXCEPT !.rows = s.rows, !.trail = s.trail] ELSE done

ActiveMemories(rows) == {m \in DOMAIN rows : rows[m].status = "active"}

Scanned(s) == Count(s, "scanned")

\* ---- decay and archive ----

DecayItem(ctx, s, m, copy) ==
  IF copy.held \/ copy.decayed \/ ~copy.aged \/ copy.importance = "floor" \/ ctx.dry THEN Count(s, "skipped")
  ELSE Count(Atomic(s, Record(Write(s, m, [copy EXCEPT !.decayed = TRUE]),
                              "memory_decay_applied", m)), "changed")

ArchiveItem(ctx, s, m, copy) ==
  IF copy.held \/ copy.exempt \/ ~copy.aged \/ copy.recent THEN Count(s, "skipped")
  ELSE IF ctx.dry THEN Count(Record(s, "memory_archive_candidate", m), "changed")
  ELSE Count(Atomic(s, Record(Write(s, m, [copy EXCEPT !.status = "archived"]),
                              "memory_archived_by_worker", m)), "changed")

\* ---- retention ----

RetentionOutcome(copy) == IF copy.held \/ copy.exempt THEN "held" ELSE copy.due

OutcomeAction ==
  [held |-> "memory_retention_hold_respected", expired |-> "memory_retention_expired",
   consent_revoked |-> "memory_consent_revoked"]

RecordDecision(s, m, outcome) ==
  Record(Record(s, "retention_decision_recorded", m), OutcomeAction[outcome], m)

RetentionItem(ctx, s, m, copy) ==
  LET preview == ctx.dry \/ ~ctx.retention
      outcome == RetentionOutcome(copy)
      Stamp(w) == IF preview THEN w ELSE Write(w, m, [copy EXCEPT !.stamped = TRUE])
      decided == RecordDecision(s, m, outcome)
  IN  Atomic(s, IF outcome = "held" THEN Stamp(RecordDecision(Count(s, "skipped"), m, outcome))
                ELSE IF outcome = "kept" THEN Stamp(Count(s, "skipped"))
                ELSE IF preview THEN Count(decided, "changed")
                ELSE Count(Write(decided, m, [decided.rows[m] EXCEPT !.status = "deleted"]), "changed"))

\* ---- compaction and its verification ----

DeletedForCompaction(rows) == {m \in DOMAIN rows : rows[m].status = "deleted" /\ ~rows[m].cleared}

\* Only rows that are active are reached by retrieval, search or vectors; the
\* listing reaches every row that is not deleted.
Reachable(row) == row.status # "deleted"

PurgeVerified(row) == ~Reachable(row) /\ row.cleared

Meddle(w, race, when, m) ==
  IF race.when = when /\ race.on = m /\ ~w.raised THEN [w EXCEPT !.rows[m] = race.row] ELSE w

VerifyPurge(s, m) ==
  IF s.raised THEN s
  ELSE IF PurgeVerified(s.rows[m])
       THEN Record(Record(s, "memory_vector_purge_verified", m), "memory_purge_tombstone_preserved", m)
       ELSE Record(Count([s EXCEPT !.findings = @ + 1], "errors"), "memory_vector_purge_failed", m)

Cleared(s, m) ==
  Atomic(s, Record(Record(Write(s, m, [s.rows[m] EXCEPT !.cleared = TRUE]),
                          "memory_content_compacted", m),
                   "memory_vector_purge_attempted", m))

Purged(race, s, m) == VerifyPurge(Meddle(Count(Cleared(s, m), "changed"), race, "commit", m), m)

Eligible(s) == [s EXCEPT !.eligible = @ + 1]

CompactionItemUnchecked(ctx, race, s, m, copy) ==
  IF copy.held THEN Record(Count(s, "skipped"), "memory_legal_hold_compaction_blocked", m)
  ELSE IF ~copy.aged THEN Count(s, "skipped")
  ELSE IF ctx.dry THEN Count(Eligible(s), "changed")
  ELSE Purged(race, Eligible(s), m)

\* The hold is read from the listed copy, the status again from the row.
CompactionItem(ctx, race, s, m, copy) ==
  IF copy.held THEN Record(Count(s, "skipped"), "memory_legal_hold_compaction_blocked", m)
  ELSE IF ~copy.aged THEN Count(s, "skipped")
  ELSE IF ctx.dry THEN Count(Eligible(s), "changed")
  ELSE IF s.rows[m].status # "deleted" THEN Count(Eligible(s), "skipped")
  ELSE Purged(race, Eligible(s), m)

CompactionDone(done) ==
  IF done.findings > 0
  THEN Record([done EXCEPT !.status = "completed_with_findings"], "deletion_compaction_failed", "none")
  ELSE Record(done, "deletion_compaction_completed", "none")

\* A surface that shows a memory the job has listed as deleted.
VerificationItem(s, m) ==
  IF Reachable(s.rows[m])
  THEN Count(Record([s EXCEPT !.findings = @ + 1], "deletion_verification_failed", m), "errors")
  ELSE s

VerificationDone(done) ==
  IF done.findings > 0 THEN [done EXCEPT !.status = "completed_with_findings"]
  ELSE Record(done, "deletion_verification_passed", "none")

\* ---- proposals ----

\* Two texts of a subject share its words; one says so, the other denies it.
HeuristicConflicts(text, others) ==
  {o \in others : o.text.subject = text.subject /\ o.text.denied # text.denied}

\* A provider's failure or malformed answer is replaced by the heuristic.
ConflictItem(ctx, s, m, seen) ==
  LET others == {seen[l] : l \in ActiveMemories(seen) \ {m}}
  IN  IF HeuristicConflicts(seen[m].text, others) = {} \/ ~ctx.fallback THEN Count(s, "skipped")
      ELSE Count(Record(s, "conflict_candidate_detected", m), "changed")

MinClusterSize == 2

\* The unimportant memories of one type.
Cluster(seen, m) ==
  {l \in ActiveMemories(seen) : seen[l].importance \in {"floor", "low"} /\ seen[l].type = seen[m].type}

\* Each cluster goes by the first of its memories.
Clusters(seen, order) ==
  {order[k] : k \in {k \in 1..Len(order) : order[k] \in Cluster(seen, order[k])
                      /\ \A j \in 1..k - 1 : order[j] \notin Cluster(seen, order[k])}}

ClusterItem(s, m, seen) ==
  IF Cardinality(Cluster(seen, m)) < MinClusterSize THEN Count(s, "skipped")
  ELSE Count(Record(s, "reflection_candidate_detected", "none"), "changed")

\* ---- the loop of a job ----

Listing(phase, seen, order) ==
  CASE phase = "deletion_compaction" -> DeletedForCompaction(seen)
    [] phase = "deletion_verification" -> {m \in DOMAIN seen : seen[m].status = "deleted"}
    [] phase = "clusters" -> Clusters(seen, order)
    [] OTHER -> ActiveMemories(seen)

\* seen: the rows as they were when the job listed them.
Item(phase, ctx, race, seen, s, m) ==
  CASE phase = "decay" -> DecayItem(ctx, Scanned(s), m, seen[m])
    [] phase = "archive" -> ArchiveItem(ctx, Scanned(s), m, seen[m])
    [] phase = "conflict_scan" -> ConflictItem(ctx, Scanned(s), m, seen)
    [] phase = "reflection" -> Scanned(s)
    [] phase = "clusters" -> ClusterItem(s, m, seen)
    [] phase = "retention" -> RetentionItem(ctx, Scanned(s), m, seen[m])
    [] phase = "deletion_compaction" -> CompactionItem(ctx, race, Scanned(s), m, seen[m])
    [] OTHER -> VerificationItem(Scanned(s), m)

\* For each listed memory in turn.
ForEach(phase, ctx, race, seen, order, s) ==
  LET done[k \in 0..Len(order)] ==
        IF k = 0 THEN s
        ELSE IF done[k - 1].raised \/ order[k] \notin Listing(phase, seen, order) THEN done[k - 1]
        ELSE Item(phase, ctx, race, seen, done[k - 1], order[k])
  IN  done[Len(order)]

RetentionJob(ctx, race, seen, order, s) ==
  Record(ForEach("retention", ctx, race, seen, order, Record(s, "retention_scan_started", "none")),
         "retention_scan_completed", "none")

CompactionJob(ctx, race, seen, order, s) ==
  LET Told(done) == IF done.eligible = 0 THEN Record(done, "deletion_compaction_skipped", "none")
                    ELSE done
  IN  CompactionDone(Told(ForEach("deletion_compaction", ctx, race, seen, order,
                                  Record(s, "deletion_compaction_started", "none"))))

ReflectionJob(ctx, race, seen, order, s) ==
  IF ~ctx.reflection THEN [s EXCEPT !.status = "skipped"]
  ELSE ForEach("clusters", ctx, race, seen, order,
               ForEach("reflection", ctx, race, seen, order, s))

\* ---- a job, an attempt, a run ----

DefaultJobOrder ==
  <<"decay", "archive", "conflict_scan", "reflection", "retention", "deletion_compaction",
    "deletion_verification">>

Mutating == {"decay", "archive", "retention", "deletion_compaction"}

\* The rows are listed, then somebody may change one, then the job acts.
Execute(job, ctx, race, order, s) ==
  LET seen == s.rows
      begun == Meddle(s, race, "listing", race.on)
  IN  CASE job = "reflection" -> ReflectionJob(ctx, race, seen, order, begun)
        [] job = "retention" -> RetentionJob(ctx, race, seen, order, begun)
        [] job = "deletion_compaction" -> CompactionJob(ctx, race, seen, order, begun)
        [] job = "deletion_verification" ->
             VerificationDone(ForEach(job, ctx, race, seen, order, begun))
        [] OTHER -> ForEach(job, ctx, race, seen, order, begun)

\* An attempt begins a result of its own.
Began(before) ==
  Record([before EXCEPT !.written = {}, !.count = NoCounts, !.status = "completed",
                        !.eligible = 0, !.findings = 0, !.raised = FALSE],
         "lifecycle_worker_started", "none")

\* What raises inside the job is caught and recorded.
Ended(done) ==
  IF done.raised
  THEN Record(Count([done EXCEPT !.raised = FALSE, !.status = "failed"], "errors"),
              "lifecycle_worker_failed", "none")
  ELSE Record(done, "lifecycle_worker_completed", "none")

Performed(job, ctx, race, order, started) ==
  IF started.raised THEN started ELSE Ended(Execute(job, ctx, race, order, started))

\* What raises around the job is the runner's, whose result is empty.
Reported(last) ==
  IF ~last.raised THEN last
  ELSE [last EXCEPT !.raised = FALSE, !.status = "failed", !.written = {}, !.count = NoCounts]

Attempt(job, ctx, race, order, before) ==
  Reported(Performed(job, ctx, race, order, Began(before)))

Buried(last) == IF last.status = "failed" THEN [last EXCEPT !.status = "dead_letter"] ELSE last

Retried(job, ctx, race, order, first) ==
  IF first.status # "failed" THEN [work |-> first, attempts |-> 1]
  ELSE [work |-> Buried(Attempt(job, ctx, race, order, first)), attempts |-> 2]

\* Once more if the first attempt failed; race happens in the first.
RunOneJob(job, ctx, race, order, before) ==
  Retried(job, ctx, [race EXCEPT !.when = "never"], order, Attempt(job, ctx, race, order, before))

RunJobs(jobs, ctx, race, order, before) ==
  FoldLeft(LAMBDA w, job : RunOneJob(job, ctx, race, order, w.work),
           [work |-> before, attempts |-> 0], jobs)

\* ---- the proof of deletion ----

DeletionActions ==
  {"memory_deleted", "memory_content_compacted", "deletion_verification_failed",
   "memory_legal_hold_compaction_blocked", "memory_legal_hold_delete_blocked"}

\* The actions whose name says delete or compact, whatever they say of it.
DeletionProof(row, trail, m) ==
  /\ row.status = "deleted"
  /\ ~Reachable(row)
  /\ \E e \in ToSet(trail) : e.memory = m /\ e.action \in DeletionActions
=============================================================================

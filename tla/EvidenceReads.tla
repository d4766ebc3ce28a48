--------------------------- MODULE EvidenceReads ---------------------------
(***************************************************************************)
(* The operational evidence: loop runs, their events, worker runs, and the *)
(* counts over them. Every tenant has some of each; a call says for which  *)
(* tenant it asks, and the answer is the set of tenants whose rows it is   *)
(* about. Postgres has row-level security beneath the filter of the query, *)
(* the in-memory backend the filter alone.                                 *)
(***************************************************************************)
EXTENDS Schema

Unanswered == {"refused"}

\* The rows of a table that a call for a tenant gets from its session, before its own filter.
Shown(db, role, active, wanted, t) ==
  IF Scoped(active, wanted) = "refused" THEN Unanswered ELSE Visible(db, role, Scoped(active, wanted), t)

\* The tenant an evidence call names; it must name one.
Filtered(shown, wanted) ==
  IF wanted = NoTenant \/ shown = Unanswered THEN Unanswered ELSE shown \cap {wanted}

\* ---- Postgres ----

AddLoopRun(db, role, active, wanted) ==
  wanted # NoTenant /\ wanted \in Shown(db, role, active, wanted, "loop_runs")

UpdateLoopRun(db, role, active, wanted, run) ==
  wanted # NoTenant /\ run \in Shown(db, role, active, wanted, "loop_runs")

ListLoopRuns(db, role, active, wanted) ==
  Filtered(Shown(db, role, active, wanted, "loop_runs"), wanted)

\* The run is looked up in the session of the event's tenant, and must be that tenant's.
AddLoopEvent(db, role, active, wanted, run) ==
  wanted = run /\ UpdateLoopRun(db, role, active, wanted, run)

\* Events are joined with the runs the session sees.
ListLoopEvents(db, role, active, wanted) ==
  Filtered(Shown(db, role, active, wanted, "loop_events")
             \cap Shown(db, role, active, wanted, "loop_runs"), wanted)

ListWorkerRuns(db, role, active, wanted) ==
  Filtered(Shown(db, role, active, wanted, "worker_runs"), wanted)

\* The connection of a monitoring role, or nothing: never that of the requests.
ListWorkerRunsOperational(db, monitoring) ==
  IF monitoring THEN Visible(db, "superuser", NoTenant, "worker_runs") ELSE Unanswered

Metrics(db, role, active, wanted) ==
  LET counted(t) == Filtered(Shown(db, role, active, wanted, t), wanted)
  IN  counted("memory_records") \cup counted("memory_audit_logs")
        \cup ListLoopRuns(db, role, active, wanted)

UpsertSettings(db, role, active, wanted) ==
  Shown(db, role, active, wanted, "memory_settings") \cap {wanted}

\* ---- in memory ----

LoopRunsInMemory(wanted) == Filtered(Scopes, wanted)

LoopEventsInMemory(wanted) == Filtered(Scopes, wanted)

\* No tenant means no filter.
WorkerRunsInMemory(wanted) == IF wanted = NoTenant THEN Scopes ELSE {wanted}
=============================================================================

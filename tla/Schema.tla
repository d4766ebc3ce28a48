------------------------------- MODULE Schema -------------------------------
(***************************************************************************)
(* The database schema as far as it keeps tenants apart: the migrations,   *)
(* statement by statement, what row-level security lets a connection see,  *)
(* the start-up check of the API and the verifier of the policies.         *)
(***************************************************************************)
EXTENDS Naturals, Sequences, SequencesExt, FiniteSets

CONSTANTS Scopes,       \* the tenants sessions are opened for
          NoTenant     \* the scope of a session nothing has been set in

ASSUME ScopeAssumption ==
  /\ Scopes \cap {NoTenant, "refused", "no session"} = {}
  /\ NoTenant \notin {"refused", "no session"}

\* The tables that hold tenants' rows, and the leases, which hold none.
Tables == {"memory_records", "memory_audit_logs", "memory_feedback", "memory_settings",
           "loop_runs", "loop_events", "worker_runs", "audit_chain_heads", "worker_leases"}

Statement(op, table) == [op |-> op, on |-> table]

\* ---- the migrations ----

\* The statements of one kind over several tables, and one table after the other.
Each(op, tables) == [k \in DOMAIN tables |-> Statement(op, tables[k])]

Isolate(table, policy) ==
  <<Statement("enable", table), Statement("force", table),
    Statement("drop", table), Statement(policy, table)>>

Marker(version) == <<Statement("mark", version)>>

OfMemory == <<"memory_records", "memory_audit_logs", "memory_feedback", "memory_settings">>

\* A file of psql runs statement by statement unless it opens a transaction.
Migration(atomic, body) == [atomic |-> atomic, body |-> body]

CoreTables == Migration(FALSE, Each("create", OfMemory))

IndexesRls == Migration(FALSE, Each("enable", <<"memory_records", "memory_audit_logs">>))

RlsWithoutForce ==
  Migration(FALSE, Each("enable", OfMemory) \o Each("drop", OfMemory)
                   \o Each("tenant", OfMemory))

RlsPolicies ==
  Migration(FALSE, Isolate("memory_records", "tenant") \o Isolate("memory_audit_logs", "tenant")
                   \o Isolate("memory_feedback", "tenant")
                   \o Isolate("memory_settings", "tenant"))

LoopEngineering == Migration(FALSE, Each("create", <<"loop_runs", "loop_events">>))

WorkerRuntimeTables == Migration(FALSE, Each("create", <<"worker_leases", "worker_runs">>))

OfRuns == <<"loop_runs", "loop_events", "worker_runs">>

RetypedUnderPolicies ==
  Migration(TRUE, Each("drop", OfMemory) \o Each("alter", OfMemory \o OfRuns)
                  \o Each("tenant", OfMemory))

\* Seven tables are retyped; only the policies of the first four are made again.
ScopeIdsToText ==
  Migration(TRUE, Each("drop", OfMemory \o OfRuns) \o Each("alter", OfMemory \o OfRuns)
                  \o Each("tenant", OfMemory))

OperationalEvidenceRls ==
  Migration(TRUE, Isolate("loop_runs", "tenant") \o Isolate("loop_events", "parent")
                  \o Isolate("worker_runs", "tenant") \o Marker("009"))

TransactionalAuditChain == Migration(TRUE, Marker("010"))

AuditChainHeads ==
  Migration(TRUE, Each("create", <<"audit_chain_heads">>)
                  \o Isolate("audit_chain_heads", "tenant") \o Marker("011"))

MemoryRevision == Migration(TRUE, Marker("012"))

Migrations ==
  <<CoreTables, IndexesRls, RlsPolicies, LoopEngineering, WorkerRuntimeTables, ScopeIdsToText,
    OperationalEvidenceRls, TransactionalAuditChain, AuditChainHeads, MemoryRevision>>

EmptyDatabase ==
  [marked |-> {}, failed |-> FALSE,
   table |-> [t \in Tables |-> [exists |-> FALSE, enabled |-> FALSE, forced |-> FALSE,
                                policy |-> "none"]]]

\* A column's type cannot be altered while a policy looks at the column: the
\* tables' own at the tenant or, of the events, at the run, and the events' at
\* the id of its run too.
Blocked(db, t) ==
  \/ t \in ToSet(OfMemory) \cup {"loop_events"} /\ db.table[t].policy # "none"
  \/ t = "loop_runs" /\ db.table["loop_events"].policy # "none"

\* Tables are created if they do not exist; a policy that exists cannot be
\* created, nor anything be altered of a table that does not exist.
Apply(db, s) ==
  IF db.failed THEN db
  ELSE IF s.op = "mark" THEN [db EXCEPT !.marked = @ \cup {s.on}]
  ELSE IF s.op = "create" THEN [db EXCEPT !.table[s.on].exists = TRUE]
  ELSE IF ~db.table[s.on].exists THEN [db EXCEPT !.failed = TRUE]
  ELSE IF s.op = "alter" THEN [db EXCEPT !.failed = Blocked(db, s.on)]
  ELSE CASE s.op = "enable" -> [db EXCEPT !.table[s.on].enabled = TRUE]
         [] s.op = "force" -> [db EXCEPT !.table[s.on].forced = TRUE]
         [] s.op = "drop" -> [db EXCEPT !.table[s.on].policy = "none"]
         [] OTHER -> IF db.table[s.on].policy # "none" THEN [db EXCEPT !.failed = TRUE]
                     ELSE [db EXCEPT !.table[s.on].policy = s.op]

\* The database after the first n statements of a file.
Run(db, body, n) ==
  LET after[k \in 0..n] == IF k = 0 THEN db ELSE Apply(after[k - 1], body[k])
  IN  after[n]

\* Of a file it was stopped in, a transaction leaves nothing.
ApplyFile(db, file, n) ==
  LET done == Run(db, file.body, n)
  IN  IF file.atomic /\ (n < Len(file.body) \/ done.failed) THEN [db EXCEPT !.failed = done.failed]
      ELSE done

\* A pass over the migrations that stops in some file after some statement of it.
Stops == UNION {{[file |-> k, after |-> n] : n \in 0..Len(Migrations[k].body)} : k \in DOMAIN Migrations}

Whole == [file |-> Len(Migrations), after |-> Len(MemoryRevision.body)]

Pass(db, stop) ==
  LET after[k \in 0..stop.file] ==
        IF k = 0 THEN [db EXCEPT !.failed = FALSE]
        ELSE ApplyFile(after[k - 1], Migrations[k],
                       IF k = stop.file THEN stop.after ELSE Len(Migrations[k].body))
  IN  after[stop.file]

\* ---- what a connection sees ----

\* The API starts on a database that has the marker of the newest migration.
CurrentSchema(db) == "012" \in db.marked

\* Row security does not bind a superuser, nor a table's owner unless forced.
Bound(db, role, t) ==
  /\ role # "superuser"
  /\ db.table[t].enabled
  /\ db.table[t].forced \/ role # "owner"

\* The tenants whose rows of a table a session under a scope is shown; the
\* policy of the events looks at their runs as the same session sees them.
Visible(db, role, scope, t) ==
  LET own(policy) == IF policy = "none" THEN {} ELSE {scope} \cap Scopes
      runs == IF Bound(db, role, "loop_runs") THEN own(db.table["loop_runs"].policy) ELSE Scopes
  IN  IF ~db.table[t].exists THEN {}
      ELSE IF ~Bound(db, role, t) THEN Scopes
      ELSE IF db.table[t].policy = "parent" THEN own("tenant") \cap runs
      ELSE own(db.table[t].policy)

\* ---- the scope of a session ----

\* The scope a call runs under that asks for a tenant inside a transaction of
\* another, or of none: the transaction's, unless both are named and differ.
NoSession == "no session"

Scoped(active, wanted) ==
  IF active = NoSession THEN wanted
  ELSE IF wanted # NoTenant /\ active # NoTenant /\ wanted # active THEN "refused"
  ELSE active

\* ---- the verifier ----

Protected == Tables \ {"audit_chain_heads", "worker_leases"}

Probed == {"memory_records", "loop_runs", "loop_events", "worker_runs"}

\* A superuser probes with a role of its own, any other administrator as himself.
ProbeRole(admin) == IF admin = "superuser" THEN "member" ELSE admin

\* A row for the foreign tenant is inserted, in its scope, and looked for from another.
ProbeFails(db, admin, foreign, prober) ==
  \/ \E t \in Probed : foreign \notin Visible(db, admin, foreign, t)
  \/ \E t \in Probed : foreign \in Visible(db, ProbeRole(admin), prober, t)

CheckRlsPolicies(db, admin, foreign, prober) ==
  /\ \A t \in Protected :
       /\ db.table[t].exists /\ db.table[t].enabled /\ db.table[t].forced
       /\ db.table[t].policy # "none"
  /\ ~ProbeFails(db, admin, foreign, prober)
=============================================================================

# MemoryOps AI: a TLA+ verification development

MemoryOps AI keeps *governed memories* for LLM applications: a chat turn captures
candidates, a policy broker decides what may be stored, users and operators edit,
approve, hold and delete, background workers decay, archive, expire and compact, and
every mutation leaves an event in a tamper-evident audit chain. The value of the system
is in what it promises while all of this runs concurrently: a deleted memory stays
deleted and out of every prompt, a held memory is not forgotten, sensitive content waits
for approval, a mutation and its evidence stand or fall together, tenants do not see each
other, and a crashed worker blocks nobody.

This directory models those promises in TLA+, model-checks them with TLC on small
instances and proves the central ones with TLAPS for all instances. File references
below are relative to `services/api/app/` unless they start with another directory
(`apps`, `docs`, `infra`, `packages`, `scripts`, `services/worker`).

## 1. Inventory

| Component | State | Operations | Hard behaviour | What makes it correct | Module |
|---|---|---|---|---|---|
| Governed rows: `db/postgres_repo.py`, `db/entities.py`, `db/governance.py` | `memory_records`: status, content, vector, importance, metadata, `deleted_at`, revision | create, update, checked update, soft delete, compact, list, search | a handler decides on a copy read *before* its transaction; the flush writes only dirty columns; no version check on the ordinary update | deleted stays deleted, no lost update, content destroyed only after deletion | `MemoryStore` |
| Memory routes: `routes/memories.py`, `services/update_service.py`, `services/status_transitions.py` | - | PATCH (edit, transition, both; checked or not), DELETE | guard on the copy, write in the transaction; several audit events | governed status graph, re-gating of sensitive edits, vector follows content | `MemoryStore`, `GatewayTurn`, `Authorization` |
| Retention routes: `routes/retention.py` | governance metadata | hold, pin, protect, consent | race with workers and DELETE | a hold blocks all forgetting | `MemoryStore` |
| Write path: `services/policy_broker.py`, `services/write_service.py` | - | evaluate, commit | duplicate check outside the transaction | nothing refused is stored, a text is stored once | `MemoryStore`, `GatewayTurn`, `Capture` |
| Capture: `services/extractor.py`, `llm/*.py`, `core/sensitivity.py`, `core/redaction.py` | - | strip instructions, extract, retry, fall back, classify, redact | clauses cut and joined again; a provider fails or invents | each clause judged for what it discloses | `Capture` |
| Lifecycle workers: `workers/{decay,archive,retention,deletion_compaction}.py` | lifecycle metadata | one listing, then one transaction per item | stale listing, retry of a done item, failure between compaction and verification | idempotence, holds, verified purge | `MemoryStore`, `LifecycleJobs` |
| Other jobs: `workers/{deletion_verification,conflict_scan,reflection,runner}.py` | results, trail | scan, report, retry | a job raises half way and is run again | result, trail and rows agree | `LifecycleJobs` |
| Retention policy: `services/retention.py` | - | windows, consent, holds | two readers of one window | what is due is not recalled | `Retention` |
| Transactional evidence: `services/audit.py`, `db/postgres_repo.py`, `evidence/hashchain.py` | `memory_audit_logs`, `audit_chain_heads` | record, add_audit, commit, rollback, verify_chain | concurrent appends, rollback, lock order | no fork, no gap, mutation and events atomic | `AuditChain`, `HashChain`, `AuditTrail` |
| Evidence reports: `evidence/reports.py` | - | verify_audit, deletion proof, bundles, exports | bounded listing | an intact chain verifies, a compacted memory is proved deleted | `AuditChain`, `LifecycleJobs` |
| Operational evidence: loop runs, worker runs, settings | four tables | store, list, count | row security beneath a filter that may be missing | no foreign row, both backends answer alike | `EvidenceReads` |
| Worker runtime: `workers/{locks,heartbeat,orchestrator,runner,scheduler,retry,shutdown}.py`, `services/worker/main.py` | `worker_leases`, `worker_runs` | acquire, renew, release, retry, tick, shutdown | expiry while working, lost renewals, crash, takeover | one confident owner per scope, every scope served again | `WorkerRuntime`, `ScopeMutex` |
| Chat gateway: `services/gateway.py`, `services/retriever.py`, the gates, composer | one turn | retrieve, admit, recall, compose, answer, evaluate, commit | each stage may fail; the store changes during the turn | nothing deleted before the turn enters its prompt; a failed stage degrades | `GatewayTurn`, `ContextGates` |
| Lineage: `db/lineage.py` | lineage metadata | tombstone, walk the ancestry | cycles, missing parents, a cap | a derivative of a deleted memory is blocked | `ContextGates` |
| Governance loops: `loops/*.py` | `loop_runs`, `loop_events` | start, emit, complete | abandoned runs, an illegal event raises | legal transitions, a run tells how it ended | `GatewayTurn` |
| Authorization: `auth/*.py` | key cache | token or headers to principal, scope, permission | one PATCH is several actions; the row decides which | every requested action authorized, foreign as absent | `Authorization` |
| Web console proxy: `apps/web/lib/*.ts`, `apps/web/app/api/memoryops/[...path]/route.ts` | session | refuse, strip scope, mint credential | a contract repeated on both sides | refuses nothing the API allows, keeps the session's scope | `WebProxy` |
| Configuration and readiness: `core/config.py`, `routes/health.py`, `main.py` | settings | read environment, refuse to start, probe | forty variables, defaults, profiles, ablations | a production process is what it claims | `Deployment` |
| Rate limit: `http_hardening.py` | hits per address and window | check | two windows in a row, window end, rounding | the limits, and Retry-After is enough for the window that gave it | `RateLimit` |
| Schema and row security: `infra/db/migrations`, `scripts/check_rls_policies.py` | tables, policies | migrate, session scope, verify | stopped and re-applied anywhere | tenants stay apart | `Schema` |
| In-memory backend: `db/memory_repo.py`, `db/vector/memory_index.py` | dictionaries, a lock | the same `Repository` | live objects, rollback by replacement | rows as the trail says, index as the rows say | `LiveStore` |
| Vector adapters, embeddings, observability, economics, compression, circuit breaker, evaluation, scripts, clients | - | - | - | - | section 8 |

## 2. Modules

| Module | Models |
|---|---|
| `MemoryStore`, `MCMemoryStore` | the memory rows on Postgres and every handler that mutates one; its instance |
| `HashChain` | hash links and `verify_chain`, with a reference definition |
| `AuditTrail` | abstract: an append-only trail, each transaction in one step |
| `AuditChain` | transactions with row locks, the chain head's lock, commit and rollback; extends `HashChain`, implements `AuditTrail` |
| `ScopeMutex` | abstract: a mutex per scope |
| `WorkerRuntime` | replicas, heartbeats, leases; implements `ScopeMutex` |
| `Retention` | windows, consent, holds and the retention worker's evaluation |
| `ContextGates` | admission, recall and output gate, the walk up the lineage; extends `Retention` |
| `GatewayTurn`, `MCGatewayTurn` | chat turns and their owner's requests against one store, with their loop runs; extends `ContextGates`; its instance |
| `LiveStore` | the in-memory backend under concurrent requests |
| `Authorization` | from credential to status code and scope, for every route |
| `WebProxy` | the console in front of it; extends `Authorization` |
| `Capture` | from a message to stored rows |
| `LifecycleJobs` | one job over a set of rows, with a failing call, a retry and a change from outside |
| `Schema` | migrations, row security, start-up check, policy verifier |
| `EvidenceReads` | the operational evidence on both backends; extends `Schema` |
| `Deployment`, `RateLimit` | settings and readiness; the sliding windows and the middleware over them |
| `MCDecisions` | every pure decision put to every input of a small set, with its properties |
| `MemoryStoreProofs`, `AuditChainProofs`, `WorkerRuntimeProofs`, `LiveStoreProofs`, `GatewayTurnProofs` | the theorems about the five state machines |
| `AlgorithmProofs` | what the pure algorithms compute for every input: `verify_chain`, the lineage walk, the output gate |
| `LifecycleJobsProofs` | what the lifecycle jobs leave behind, for every input; extends `AlgorithmProofs` |
| `DecisionsProofs` | the properties of `MCDecisions` as theorems; extends the two before |

### MemoryStore

A handler is three steps because the code is. It **loads** a row as a detached copy
(`_to_stored`) and decides on it; it **begins** its transaction, whose first `SELECT`
reads the row again; it **commits**. SQLAlchemy's flush names only the columns that
differ from that second read, so the row after commit depends on all three moments:
`Flush(r, seen, new, op)` takes column by column the new value if it is dirty and the
currently committed value if it is not. *Copy* handlers (PATCH, hold, pin/protect,
consent, decay, archive, the retention window stamp) go through `update_memory`, which
assigns every column of the copy but `deleted_at`. *Fresh* handlers (DELETE, retention
expiry, compaction, reinforcement of a duplicate) compute the new row from the one read
inside the transaction. `CommitChecked` is `update_memory_checked`, one conditional
`UPDATE`. `evidence` is what the committed audit events say of the memory; events are
written by the action that commits the row because one session commits both, which under
locks, rollbacks and concurrency is the business of `AuditChain`. Two of its fields are
history: `approved`, whether somebody approved this content, and `mixed`, whether the PATCH
that wrote it requested a transition too, which its events name both.

Abstractions: ages, confidences and windows are free choices of the worker actions;
contents are model values with the classifier's verdict given by `Sensitive` and
`Refused`; the status `blocked`, which nothing stores, is left out; consent `expired`
acts as `withdrawn` or as an elapsed window, `not_required` as `granted`; weight and
reinforcement count are left out, importance stands for what a reinforcement raises.
`unprotect` and `unpin` are `Flagged(c, f, FALSE)`.

### HashChain, AuditChain, AuditTrail

SHA-256 is taken to be injective, so the hash of an entry *is* the history of its chain.
`VerifyChain` is the loop of `verify_chain` as a recursive function over turns; `IsChain`
says directly what a chain is. In `AuditChain` each transaction runs one of five plans,
the order in which a handler writes its row and records its events. `Write` takes the
row lock, `Record` makes the event and its timestamp, `AddAudit` takes the head's lock
and links, `Commit` publishes, `Fail` rolls back anywhere, `DeadlockVictim` is Postgres
ending a cycle of two waiters. `AuditTrail` has neither locks nor hashes.

### WorkerRuntime, ScopeMutex

A replica has a main thread (`worker`: place, scope, job, attempts, the jobs' results,
the verdict it records) and, exactly while its jobs run, a heartbeat thread (`heart`).
Time is ticks: a lease row has `left`, a heartbeat `k` until its next renewal.
`try_acquire_lease` is one conditional statement and one action; `renew` and `release`
read and then write by key, two actions each, with anything in between. Nothing holds
`Tick` up: any thread may stand still at any step while leases run out, which is the
stalled worker of `heartbeat.py:26-35`. A belated acquisition (the clock read before the
statement ran), a thread that `stop()` gives up on halfway in a renewal (`stray`), a store
call of the main thread that raises, SIGTERM and a crash count against `MaxFaults`; a
renewal may raise at any time. A restarted process draws a new owner id, so its old lease
belongs to `Dead` and only expires.

Two variables are history. `lapse[i]` says what made the lease of a replica at work
unreliable without its knowing: it ran out while a renewal was due or under way (or came too
short from a belated acquisition), another's belated renewal changed its expiry, or another's
belated release deleted it. It is empty again as soon as the replica notices, or renews its
own row in time. `overlap[i]` says that another replica entered the scope meanwhile, and
whether the heartbeat has asked for the lease since. A replica gives up at most one thread at
a time here, and one that had already read.

The interval between passes and the backoff between attempts (delays of any length here)
and the metrics are left out; `run_jobs`' outer retry is too, as it only raises for an
unknown job name. `railway/worker.railway.json`
deploys one replica; two are at work when an old process outlives its replacement, or when
the deployment is scaled, which the leases are there for.

### GatewayTurn, ContextGates, Retention

A step of a handler is its work up to its next access to the memory rows; the events of
its loop run, which nobody else reads, go with it. A turn bypasses memory, or begins,
retrieves (any subset of the owner's active rows: ranking and top-k are abstracted),
passes each row through admission (status, consent, window, lineage tombstones) and
recall, composes, answers, evaluates each extracted candidate and commits each in a
transaction of its own. Any stage of the read may fail and degrade the turn; any step may
raise. The owner's requests (list, DELETE, PATCH with or without `expected_revision`)
interleave; a PATCH writes back the copy it was opened with, all but `deleted_at`, so a row
deleted or archived meanwhile is active again. Retrieval tests `deleted_at` and the duplicate
check does not: a row brought back after its deletion never reaches a prompt again, but is
reinforced, and what was derived from it passes the lineage check, which reads status and
tombstone only; one brought back after its archival enters prompts again. Of this a turn
keeps, as history, what was `deleted` when it began, what could not be retrieved (`inactive`)
and what was tombstoned (`gone`) at every moment since. Loop runs are driven through the state machine of `loops/state_machine.py`: an
event that is no transition raises in the handler, as `validate_transition` does. The
ancestry of a row is looked up at one instant, later than the row itself was read; the
clock behind `_prior_state` is taken to be monotone. `ContextGates` and `Retention` give
the gates as operators, and `MCDecisions` puts them to inputs of their own.

### LiveStore

The in-memory repository returns its *stored objects*. A handler reads one without the
lock, so it may see an open transaction; inside its transaction, under the lock, it
changes the object in place. Rollback replaces every stored object by a deep copy taken
at the start, so an object in another handler's hands becomes an orphan: no longer
stored, until its handler stores it again. `object[m][age]` are the objects of a memory,
`table` says which is stored, and objects that are neither stored nor in anybody's hands
are gone (`Return`), so ages are reused and rollbacks are unlimited. `orphaned` is
history: the memories for which an orphan was stored.

### Authorization, WebProxy

`Verdict(request, settings)` runs the middleware (authentication, claims, default roles,
scope in the query) and then the handler's checks for its route, and gives the status and
the scope the handler goes on with. `WebProxy` composes in front of it what the console
does: identity from the session, its own refusal, the scope stripped, a credential
minted. The API without authentication decides nothing and is not modelled (`Verdict`
refuses). Signatures are keys that match or do not.

### Capture, LifecycleJobs

A text is a sequence of phrases, a phrase the set of pattern families that match it,
because that is all the code asks; separators are kept, as the code cuts at them and
joins without them. A provider's attempts are a sequence of replies (failures, prose, cut
off JSON, inventions). `LifecycleJobs` runs one job over two rows: the k-th call raises,
items roll back, the runner retries, and somebody changes a row after the listing or
between a purge and its verification; result, trail and rows come out. A job is given by
what it lists (`Listing`), what it does to one memory (`Item`), and the loop over the
listing, a recursive function that does nothing more once a call raised (`ForEach`).

### Schema, EvidenceReads, Deployment, RateLimit

`Schema` runs the migrations statement by statement into a database of tables with
policies and answers which tenants' rows a role sees under a session scope. A pass is
given by where it stops: nowhere, or in a file after some of its statements (none of
them, where the file opens a transaction). Migration 008 retypes columns, one statement here
for the several of a table; it fails while a policy looks at such a column (`Blocked`),
which is why that file drops policies of tables whose policies only 009 makes. Foreign keys
and column types themselves are left out.
`EvidenceReads` states every operational-evidence call on top of it and on the in-memory
backend. `Deployment` goes from environment variables to settings, start-up refusal and
readiness. `RateLimit` is the limiter and the middleware's use of it: every request meets the
window of its address, and if that lets it in, a chat or an evaluation meets one more; what
the second refuses has used up its place in the first, and the `Retry-After` is the refusing
window's. So a client that waits as told may be refused by the other window: with the
default limits, 90 other requests at once, 30 chats five seconds later, one more at ten that
the address's window refuses, and one when that has room, which the chats' window refuses.
What holds, and is checked, is the promise of each window. A check reads its clock before it
takes the lock, but the middleware calls it from the event loop alone, so times never go
back.

## 3. Runs

Passing:

| Run | Instance | Shows |
|---|---|---|
| `store_serial` | 1 memory, 1 handler, 4 contents (2 sensitive, 1 refused), every operation, revisions to 5 | what holds when handlers do not overlap: the trail tells the row's story (`EvidenceMatchesRow`), the vector is never stale (`VectorDescribesText`), decay is idempotent (`DecaysOnce`), a verified purge lasts (`VerifiedPurgeHolds`), sensitive content is approved, or its own PATCH moved the status (`SensitiveIsApproved`), the status graph (`StatusIsGoverned`), holds (`HoldBlocksForgetting`) |
| `store_race` | 1 memory, 2 handlers, every operation, revisions to 2 | what survives every interleaving: deleted memories never reach ranked search, deletion stamp and deletion event agree, content is destroyed only after deletion, only a stale copy resurrects |
| `chain` | 1 row, 3 transactions, 5 plans, both lock orders | the chain verifies, mutation and events are atomic, refinement of `AuditTrail`, every opened transaction ends |
| `worker_runtime` | 2 replicas, 1 scope, 1 job of 2 attempts, leases of 3 ticks, 1 fault | two confident workers on a scope only when a lease lapsed (`OneConfidentWorker`), an overlap is recorded as `lease_lost` unless the lapse was never met by a renewal (`OverlapIsOnRecord`), a shut-down replica leaves no lease it could release (`StoppedHoldsNothing`), refinement of `ScopeMutex`, the scope served again and again (`ScopeIsServedAgain`) |
| `gateway_turn` | 3 requests, up to 2 turns and up to 2 of the owner, 6 memories, 4 texts | what was deleted before the turn never enters its prompt, whatever stale PATCH is written back, nor what could not be retrieved at any moment of it (`ForgottenStaysOut`), loop runs tell the outcome of every request (`LoopsTellTheOutcome`), duplicates need overlapping evaluations (`DuplicatesNeedOverlap`) |
| `memory_backend` | 1 memory, 2 handlers, 3 texts (1 sensitive, 1 refused) | on the in-memory backend rows are as the trail says but for stored orphans (`OnlyOrphansEscapeTheTrail`), the index is as the rows say (`IndexFollowsRows`) |
| `decisions` | the sets of inputs in `MCDecisions` | one property per pure decision, below |

`decisions` asks one question per behaviour:

| Property | Question | Inputs |
|---|---|---|
| `VerifiesExactlyChains` | does `verify_chain` accept exactly the unbroken chains | sets of at most 4 rows over 2 events and histories up to 2, with tampered rows |
| `LineageFailsClosed` | does the walk call clean only what has no deleted or missing ancestor, and whatever has none within the cap | every graph of up to two parents over 3 ids, one purged, cap 1 |
| `NothingDueIsRecalled` | do gate and worker agree on the end of a window | every policy pack, label, flag and consent, before, at and after each end, with a change in between |
| `WithheldStaysWithheld` | is no shared phrase left, and does every other word stand in its place beside one redaction for each disclosed run | answers of up to 5 words, two withheld texts |
| `ProductionIsWhatItClaims` | does a started production process have all controls, and does the probe agree with the start | environments over controls, gates, storage, auth, providers |
| `LimiterKeepsItsPromise` | is a request let in exactly if each window it meets has room, and has the one that refused it room after the wait | up to 4 arrivals of 4 callers, limits to 2, none included |
| `RolesBoundTheAnswer`, `ForeignLooksAbsent` | what may a role change or see, and does a foreign record look absent | every route, kind of role claim, record, named scope and PATCH |
| `UnknownClaimGrantsNothing` | does a token grant only what it says where the deployment looks | every shape of claim, key, expiry, audience, JWKS state |
| `ConsoleRefusesNothingAllowed`, `SessionScopeIsKept` | do console and API agree, and is the named scope dropped | every route, session and mode |
| `SentencesAreJudgedApart` | is each sentence judged for what it discloses, whatever the provider does | messages of up to 3 clauses, up to 3 attempts, any invention |
| `JobsKeepTheirBooks`, `PurgesAreProved` | do result, trail and rows agree, and is a purge verified | each job on two rows of 16 kinds, failure at any of 7 calls, a change from outside |
| `TenantsStayApart` | does a session see only its tenant, on any schema the API starts on | two passes over the migrations stopped after any statement, three kinds of database role |

Violations, each a sentence of the repository that the code does not keep:

| Run | Sentence | What TLC finds |
|---|---|---|
| `store_resurrection` | workers "never resurrect deleted memory" (`workers/lifecycle.py:11`) | a handler that loaded the row before DELETE committed writes the whole copy back, status `active` included. What saves chat retrieval is that `deleted_at`, which nobody writes back, is tested by `search_candidates`; lists, duplicate check and workers see an active row |
| `store_hold_race` | legal hold "blocks **all** forgetting" (`docs/retention-policies.md:13`) | the hold is tested on the copy and not again in the transaction |
| `store_lost_update` | "rejected with 409 if anything changed underneath" (`db/entities.py:47`) | `update_memory` increments the revision in Python and `soft_delete` not at all, so two states of a row can carry one revision and a checked PATCH overwrites a change it never saw |
| `worker_release` | "a no-op if held by a different owner" (`db/repository.py:183`) | `release_lease` compares the owner it read and deletes by key; a lease that expired and was taken over in between is deleted with its owner at work, and the scope can be taken once more |
| `capture_clauses` | a clause "must not exempt a *separate* disclosure clause in the same message" (`core/sensitivity.py:117`) | stripping the memory-control clauses joins the rest with spaces; the separator that kept a framed clause from the disclosure after it is gone |

Deadlock is not checked (`CHECK_DEADLOCK FALSE`) where the modelled system may come to
rest: every transaction of `AuditChain`, every turn and request of `GatewayTurn` runs
once; the stores stop at their revision bound; each behaviour of `MCDecisions` asks one
question. In `worker_runtime` and `worker_release` it is checked.

### Bounds

`MaxRev` caps revisions: no handler that raises it loads a row at the cap. Two in
`store_race` leave room for a creation, two overlapping handlers and a third after them,
which each of the races needs (the shortest counterexamples have five to eight steps);
five in `store_serial` cover create, edit, approve, decay, archive, restore and delete in
one life; compaction raises no revision and is not capped. Handlers of different rows
share nothing in these modules but the duplicate check, so one memory shows every race
between handlers; that check is the subject of `gateway_turn`, with six ids.

Three transactions in `AuditChain` give a holder of the head, one that waits and one
that waits behind it; one row shows the row lock and both lock orders (the proofs are for
any number of rows). `VerifyLimit` (4) is reached: chains up to it verify.

In `worker_runtime` two replicas give takeover and contention; a lease of three ticks and
an interval of one give a lease that survives one missed renewal and not all of them; one
fault is a crash, a shutdown, a raising call or a belated one, beside any delay of any thread
and any raising renewal, which cost none. The run covers two workers confident at once, an
overlap nobody notices and a lease overwritten by a belated renewal; two scopes or two faults
exceed five minutes, as time passing between any two steps multiplies the states. Scopes meet
only in the one main thread that goes through them in order; the theorems hold for any number
of them and of faults. `worker_release` needs none.

In `gateway_turn` two turns overlap with each other and with a request of the owner, or two of
his requests with each other and with a turn, so that a stale PATCH undoes a deletion while a
turn goes on (`MCInit`: the fourth request is over already); a message holds
no candidate, a repeated one, refused and trivial ones, or a sensitive one; six ids hold
what these can store, an initial row and a derivative of it. Turns are symmetric, and so are
requests. In
`memory_backend` two handlers make at most three objects of a memory alive (the stored
one and one in each hand), so `MaxAge = 3` blocks no rollback; revisions to 2.

In `decisions` inputs are enumerated, so the bound is the input set. A cap of one node on
three ids exceeds the cap; two events make forks, gaps and edits; four arrivals at up to
two per window fill each, refuse by one and then by the other; seven calls reach into the retry of every job.

### Fairness

`AuditChain!Spec`: weak fairness of each transaction's own next statement (a running
handler continues, an unblocked lock request is granted, Postgres' detector ends a
deadlock); none of `Fail` and none of `Open`. Weak fairness suffices although a waiter can
be overtaken: each transaction runs once. `WorkerRuntime!Spec`: weak fairness of time, of
each live thread, and of `Restart`: a process that crashed is restarted by the platform
(`railway/worker.railway.json`: on failure, up to 10 times, above `MaxFaults`), and one
that got SIGTERM got it from a platform that is replacing it. Faults are bounded, so what
is shown is that a scope recovers from finitely many of them. The other modules have no
fairness: nothing in them must happen.

## 4. Mutants

Every property of a passing run has a mutant: a mapped definition replaced by one with a
plausible bug (a guard dropped, an update forgotten, an order swapped), which the run must
refute. The mutated forms stand directly before the definitions they mutate.

## 5. Theorems

All are for any sets of memories, rows, handlers, turns, transactions, replicas, tenants
or words and any bounds, from the named assumptions on the constants alone. Of these only
a few say more than what kind of value a constant is: `GatesAssumption` that the ids are
finitely many and a phrase has at least two words, `TurnAssumption` that the ids contain
the two initial rows, `MomentsAssumption` that every moment asked about lies before
`Forever`, `ScopeAssumption` that no tenant is called like an answer.

**`MemoryStoreProofs`** (`StoreAssumption`): `TypeCorrect`; `StampsAreKept`, the inductive
`StampInvariant`; `DeletionIsEvident`, `ClearedContentWasDeleted`,
`DeletedStaysUnsearchable`; `ResurrectionNeedsStaleCopy`. "A row whose trail says deleted
is not searchable" is not inductive: a copy handler may put the status back. What is
carried is the *stamp*: `deleted_at` is assigned by the two deleting handlers only, and
every other flush leaves the column, because what it saw is what it writes. That needs
`seen.deleted => row.deleted` for every open transaction and, since a stale handler may
hold a deleted status or cleared content in its copy, that whatever of this kind it is
about to write goes to a stamped row (`HandlerIsBacked`).

The properties of `store_serial` are proved for *any* number of memories and handlers
under a schedule, `Apart`: two handlers at work at the same time are at work on different
memories. `Spec /\ []Apart` contains every behaviour of one handler, and those where
handlers overlap but not on a row: `ApartKeepsTheTrailTrue`, `ApartKeepsVectorsTrue`,
`ApartDecaysOnce`, `ApartPurgeHolds`, `ApartSensitiveIsApproved`, `ApartStatusIsGoverned`,
`ApartNeverResurrects`, `ApartHoldBlocksForgetting`. The invariant (`ApartStaysCurrent`)
is that every row fits its evidence and that whoever works on a memory holds its current
row. The hypothesis is needed: with two handlers on one memory TLC violates
`EvidenceMatchesRow`, `VectorDescribesText`, `DecaysOnce` and `VerifiedPurgeHolds` within
revisions to 2 and `SensitiveIsApproved` within 3, and `store_resurrection` and
`store_hold_race` are two of these.

**`AuditChainProofs`** (`ChainAssumption`): `TypeCorrect`; `ChainIsKept`, the inductive
`ChainInvariant`; `NoForks`; `LogIsWholeTrail`; `EvidenceWithMutation`; `RefinesTrail`.
Every committed hash begins the head's history, and two equally long beginnings of one
history are equal. For a commit to keep that, its pending events must begin the history
it publishes (`PendingContinues`), which an append keeps because only the holder of the
head appends and keeps the head until it ends (`OnlyHolderPends`). Atomicity needs one
event per audit step already passed (`PendingIsPlanned`); for the refinement a commit must
be the first effect of its transaction (`HeadIsCommitted`, `EvidenceIsAtomic`).
`ChainAlwaysVerifies` joins this with the next module: the committed log is one unbroken
chain, so `verify_chain` accepts it as long as the listing shows all of it.

**`AlgorithmProofs`**, the audit chain: `VerifyChainIsExact`, `VerifyChain(rows) <=> IsChain(rows)` for
every finite set of rows, forks, gaps, edits and orphans included. `VerifyChain` is a
recursion over the number of rows followed; that it exists, and what it has consumed
after n of them, is shown by induction. The provers cannot instantiate an induction
principle over predicates, so the module proves one over sets (`SetInduction`: a subset of
Nat that has 0 and the successors of its members is Nat), and each induction names its
set. The later modules use the same.

**`WorkerRuntimeProofs`** (`RuntimeAssumption` only): `TypeCorrect`, `LeasesAreKept`,
`MutualExclusion`, `OverlapIsRecorded`, `ReleasesOnShutdown`, `RefinesMutex`. Mutual exclusion
is not inductive: a second worker may enter as soon as a lease has expired, so what is carried
is the heartbeat's arithmetic (`RenewedInTime`): while no lapse is on file a confident worker
owns its lease, and what is left of it exceeds what is left to its next renewal. A tick can
break that only when the renewal is due and one tick is left, which is when the lapse goes on
file, and another replica's statement only when it writes or deletes a row it read before the
lease changed hands, which is the other lapse. `LossIsNoticed` follows a worker that was
overtaken from the lapse or the lost heartbeat to the verdict it records: the first renewal
that asks finds another owner, since no step of others gives a lease back. `LeaksAreKnown`
accounts for every lease a replica owns.

**`LiveStoreProofs`** (`LiveAssumption`): `RowsAreKept`, the inductive `LiveInvariant`
with the types; `TrailTellsTheRows`; `IndexIsExact`. Both promises speak of states
without a transaction, so the invariant has to carry them through one: the lock is held
exactly by the transaction (`LockHeld`), the snapshot it would go back to satisfies what
the rows did when it began (`SnapshotSettled`), the memories it is not about are
untouched (`OthersUntouched`), and what it did to its object is what it will record,
unless that object is an orphan (`ChangeIsTold`). Any handler may change an object others
hold, so every object's vector must be of its own text or none (`ObjectsPaired`): an
orphan that is stored then brings its own vector into the index.

**`AlgorithmProofs`**, the gates (`GatesAssumption`, `TimeAssumption`): `AncestryFailsClosed` and
`AncestryAdmitsTheClean`. The walk up a lineage with cycles ends because each turn takes a
node off the stack and pushes parents only for a node seen the first time; what it has
seen is closed under parents but for what is still on the stack, so when it answers clean
the seen set is a set of clean ancestors. `StampAgreesWithWorker`: the gate, which reads a
stamp, and the worker, which computes the end of the window, say expired of the same rows
at the same instants. `RedactionIsExact`: the position of a word in the redacted text is
the number of positions up to it that show (`Place`), a stretch of the result without a
redaction is a stretch of the answer (`StretchesAreKept`), so a phrase of a withheld text
in the result would have been covered. All of it speaks of words: the code finds them in
`answer.lower()` and cuts the original answer at the same places
(`services/output_gate.py:70`), so it describes answers whose length lowering keeps.

**`LifecycleJobsProofs`**: `JobsProveTheirPurges`, of any rows, any listing order, any
failing call, any change from outside and any of the seven jobs: what is called verified
lost its content, only deleted rows that nobody held lose it, and a job that went through
at once looked back at every purge, reports findings exactly if it tells one, and passes
the deletion check only if nothing deleted can be reached. The module proves once that
what every turn of a job's loop keeps the loop keeps (`LoopKeeps`) and instantiates it for
the jobs that purge nothing (`QuietWork`), for compaction (`CompactionWork` with
`FindingsTold`: every purge told of is followed by a verdict, findings are counted exactly
as they are told) and for the deletion check (`CheckWork`). Each call (`IsRecord`,
`IsWrite`, `IsAtomic`) and each job's item has a lemma saying what it can change and what
it adds to the trail (`Makes`).

`JobsBooksAreTrue`, of the same inputs: the trail tells of every row exactly what became
of it, a preview changes none, a result of one attempt names every event and counts every
change, and a job that went through leaves itself nothing to do. The trail only grows by
what one turn makes, and a turn makes events of its own row alone (`OneTurnDeeds`), so the
books are kept row by row: a turn that finds a row's book true leaves it true
(`TurnKeepsBooks`), also when a call of it raises and the transaction is rolled back. What
is judged by rows and the deeds on the trail (`ByDeeds`) is not disturbed by the frame of
an attempt, its leases, heartbeats and run events, and so survives an attempt
(`AttemptWithin`) and the one retry (`RunKeepsBooks`). The sum is an invariant of the loop:
changes counted and rows still owed make up the deeds of the result (`Owing`, `TurnOwesNothing`).
For the second run, a turn settles its row (`TurnSettles`), later turns leave it settled,
and on settled rows an attempt does nothing (`AttemptSettles`, `AgainDoesNothing`). The
hypothesis `PlainRace` leaves out two marks of the races: whoever changes a row during a
listing neither decays nor archives it (in the run they delete it or bring it back), and
there is no such change where the job fails before it lists. Without the first the claim
is false: the job, holding the copy it listed, tells of its own decay or archival over theirs.

**`GatewayTurnProofs`** (`TurnAssumption`, `GatesAssumption`): `GatewayInvariantKept`;
`ForgottenNeverEnters`; `LoopsAreTrue`; `DuplicatesOverlapped`, for any number of turns,
requests and memories. The invariant gives for each point of the program of a turn the state of its
loop runs, so that every event a step sends is a declared transition, and ties a turn to
the store by what it has witnessed: what was deleted when it began, and what could not be
retrieved or was tombstoned at every moment since, is so now, is not among the copies in its
hands and not the origin of what enters the prompt. Of rows the invariant needs how they may
evolve (`Evolves`): nothing takes the stamp of a deletion away, and a row nobody
patched keeps its text and becomes active only by its creation; two active unpatched rows
of one text therefore come from evaluations of which the later began before the earlier
committed (`Settled`). TLC checked the invariant on the instance of `gateway_turn` first.

**`DecisionsProofs`** (`GatesAssumption`, `ScopesAssumption`, `ScopeAssumption`,
`WindowAssumption`, `TimeAssumption`, `MomentsAssumption`): what a question is about and
what form its input has is an invariant (`QuestionsArePut`), and each answer follows from a
lemma about *every* input of that form:

* `ChainsVerifyExactly`, `LineagesAreJudged`, `DueIsNotRecalled`, `WithheldAlwaysStays`
  from the theorems above.
* `AnswersAreBounded`, of every request, credential, record and deployment, the source of
  `RolesBoundEveryAnswer`; `UnknownClaimsGrantNothing`, `ForeignAlwaysLooksAbsent`,
  `ConsoleIsNotStricter`, `ConsoleKeepsTheScope`, for any tenants, users and owners.
* `ProductionStartsComplete` for every environment put.
* `LimiterIsExact` for requests of any number at any times that never go back, under any
  limits: what a window remembers lists, in order, exactly the requests that used up a place
  in it and are still within it (`HitsHold`), pruning drops exactly those that left, and the
  wait it tells exceeds what the oldest has left. `LimiterAlwaysKeepsItsPromise` follows.
* `AnyPassesKeepApart` for any number of passes over the migrations, each stopped anywhere:
  between statements the database is in one of few forms (`Rest`: per table what it has and
  what is still missing), every file keeps that (`PassKeepsRest`), and isolation is read
  off it. `TenantsAlwaysApart` follows.
* `PurgesAlwaysProved` from `JobsProveTheirPurges`, `BooksAlwaysKept` from
  `JobsBooksAreTrue`.
* `StoredIsScreened`, the first half of `SentencesAreJudgedApart`, of any memories of any
  texts: what the broker lets be stored is free of what it blocks, never labelled below
  what the classifier sees, and waits for approval if it is sensitive. It is about the
  broker alone, so no provider, heuristic or splitting into clauses can undo it.

## 6. Only model-checked

* Liveness, `EveryTransactionEnds` and `ScopeIsServedAgain`: needs ENABLED.
* `SentencesAreJudgedApart`, its second half: which clauses of a message survive, which
  items of a list are kept and that no clause exempts another. It rests on the community
  modules' sorting, filtering and flattening of sequences, whose results are known only by
  induction over the sequence, and holds of messages that say each thing once.

## 7. What is left

The splitting of messages into clauses as theorems; workers on the in-memory backend;
rankings as an order instead of any subset; the provenance bundle and compliance export,
which arrange rows the models already have.

## 8. Not modelled, and other disagreements

### Not modelled

* **Vector-index adapters** (Qdrant, LanceDB, Weaviate) and **embedding providers**: calls
  to external services. In the models a similarity query answers any subset and an
  embedding comes back or does not; the repository filters what an adapter returns again.
* **Observability, economics, compression**: counters, traces, price estimates and an
  optional text transformation whose failure is a degradation in `GatewayTurn`.
* **Circuit breaker** (`core/reliability.py`): it has no caller outside its tests;
  `safe_call` is the failed embedding or stage of the models.
* **Evaluation harness, benchmark, research and paper code**: drive the system over
  datasets and compute statistics.
* **Repository scripts** (release smoke, trust guards, PR invariant gate, generators):
  checks on the repository's text and smoke calls; no state of the running system. Only
  the verifier of the row-security policies is in `Schema`.
* **SDK, playground, dashboards, the console's pages**: clients and user interface.
* **Detail of text**: the regular expressions, ranking scores, prompt composition and
  formatting; models keep which family of patterns matches.
* **`services/worker/jobs.py`**: its `run_all` has no caller.

### Other disagreements

Met while modelling and not given a run of their own. Rows and their trail:

* One PATCH with content *and* status assigns the status after the edit was sent back to
  the approval queue (`routes/memories.py:446`), so sensitive content becomes active
  without an approval (an archived memory edited and restored at once, or an active one
  edited and archived at once and restored later), although `services/update_service.py:184` re-gates
  "instead of silently remaining active". The route documents such bodies as two actions,
  each authorized and audited (`routes/memories.py:356`); `SensitiveIsApproved` says that
  this is the only way round the queue, and that the trail shows it (`mixed`).
* `verify_audit` lists the 1000 newest events (`evidence/reports.py:24`) and so reports a
  longer intact chain broken, although it is to "verify the whole tenant chain" (line 50).
  `WholeChainVerifies` speaks of chains within `VerifyLimit`.
* The retention worker takes the chain head before the row (`workers/retention.py:133`),
  the routes the row before the head (`db/postgres_repo.py:516`): a deadlock that only
  Postgres' detector ends (`DeadlockVictim`).
* Pinned memories decay (`workers/decay.py:55` asks for a hold only) although
  `docs/retention-policies.md:15` exempts them. `soft_delete` and compaction leave the
  revision although `db/repository.py:65` says every mutation increments it. Removing the
  *newest* events of a chain is not noticed by `verify_chain` alone
  (`evidence/hashchain.py:7`). PATCH embeds inside the transaction, ADR-027 describes it
  before.
* `update_memory_checked` commits and then reads without a scope when transactional
  evidence is off.

In-memory backend:

* A refused edit persists silently when its object is an orphan handed out before another
  handler's rollback: `routes/memories.py:414` relies on a rollback undoing "changes made
  after" it began. This is what `OnlyOrphansEscapeTheTrail` excepts.
* `retrieve_active` does not filter `deleted_at`, though it is to mirror "the exact query
  semantics". A transition PATCH validated before a DELETE can bring the row back; lookups
  outside the lock are dirty reads.
* `list_worker_runs` without a tenant returns every tenant's runs where Postgres raises,
  though the comment there says "the two backends must not disagree about an invariant"
  (`BackendsAgree` exempts it); `add_loop_event` has no parent check, and the metrics count
  loop runs without a tenant.

Workers:

* A shutdown that aborts a run is recorded as `lease_lost` (against
  `workers/orchestrator.py:48`); an exception in acquire, record or release aborts the
  whole pass, though "one scope failing never blocks another" (`workers/orchestrator.py:14`);
  retries inside a job are not stopped by a lost lease (against `workers/heartbeat.py:23`); a
  lost lease hides a dead letter. A belated renewal changes the expiry of whoever holds the
  lease by then (`db/postgres_repo.py:610`), though "only the current owner can renew"
  (`db/repository.py:178`): `OneConfidentWorker` excepts it. The first renewal that fails ends
  the run, though by `workers/heartbeat.py:47` two may fail without needlessly aborting it.
* A retried compaction whose first attempt raised between purge and verification never
  verifies that purge and reports completed with 0 (against
  `workers/deletion_compaction.py:7`). The report of a retried job replaces the counts of
  the failed attempt; `result.audit_event_ids` keeps ids of rolled-back events. The
  deletion proof of a memory the retention worker deleted is "not proven" until its
  compaction, and refused deletions count as deletion audit. A retention preview records
  `memory_retention_expired` for rows it keeps, and on the in-memory backend persists the
  stamp.

Turns, loops and capture:

* The gate reads the stamped end of a window: a relabelled memory keeps its old window
  until the next pass, and with retention disabled (the default) nothing is stamped.
* A refused PATCH leaves its loop run running; a held DELETE emits `failed`, which
  `loops/registry.py` does not declare for it. A read that fails completely is reported
  verified and completed and is not audited as the registry's fallback says. A turn that
  fails in a later commit keeps the earlier ones while its client gets a 500.
  UPDATE_EXISTING reinforces a row deleted meanwhile (`services/write_service.py:93`).
  Pending restatements make another pending row each.
* The output gate's comment has it that "casefolding preserves length here"
  (`services/output_gate.py:71`); `lower()` makes two characters of a dotted capital I, and
  everything cut after one is cut a place late. A model of words cannot show that.
* `_prior_state` (`loops/events.py`) reads the newest event by wall clock: a clock that
  steps back makes the next event illegal and the request fail, though "loop bookkeeping
  must never be the reason a request fails". The model's clock is monotone.
* "I never eat fish; remember I like tea." is dropped whole; an edit *to* memory-control
  text is stored although capture drops it.

Access and deployment:

* PATCH validates its transition before it authorizes (409 for a foreign row of one's own
  tenant, 404 otherwise), which `ForeignLooksAbsent` exempts. Evidence routes are declared
  TENANT and query the principal's own user. The tenant-wide branch of `GET /api/memories`
  is unreachable. A published key that is withdrawn stays accepted by a process that has
  cached it (`met`), and a token without `exp` never expires.
* The chat limit is always per address: the middleware runs before there is a principal,
  though its docstring says tenant or address. The worker process never runs
  `production_readiness_errors`. `core/config.py:216` says "Defaults on under the
  production profile"; the default is off.
* Re-applying 008 and stopping before 009 leaves the loop tables default-deny while the
  schema check passes. The policy verifier does not probe `audit_logs`, `feedback` and
  settings and omits `audit_chain_heads`; `worker_leases` has no row security, and
  superuser roles bypass it.

----------------------------- MODULE AuditChain -----------------------------
(***************************************************************************)
(* Transactional evidence on Postgres: concurrent transactions that mutate *)
(* memory rows and append the audit events of the mutation to their        *)
(* tenant's hash chain, all in one commit.                                 *)
(*                                                                         *)
(* Two kinds of lock are taken as the statements run and kept until the    *)
(* transaction ends: the row lock of each memory it updates, and the lock  *)
(* on the tenant's audit_chain_heads row (SELECT ... FOR UPDATE).  The     *)
(* order depends on the handler: a route writes and then audits, the       *)
(* retention worker audits its decision and then deletes.                  *)
(***************************************************************************)
EXTENDS HashChain

CONSTANTS
  Memories,      \* the rows
  Txns,          \* transactions, each of them run once
  None,          \* nobody holds the lock
  Kinds,         \* which plans run
  VerifyLimit    \* how many of the newest events the verify endpoint lists

\* What each handler does inside its transaction, in order.
Plan(kind) ==
  CASE kind = "mutation"   -> <<"write", "audit">>            \* DELETE, hold, pin, merge, decay
    [] kind = "patch"      -> <<"write", "audit", "audit">>   \* edit and transition; compaction
    [] kind = "retention"  -> <<"audit", "audit", "write">>   \* decision, outcome, soft_delete
    [] kind = "stamp"      -> <<"write">>                     \* a retention window, not due
    [] kind = "event"      -> <<"audit">>                     \* BLOCK, DROP, a worker's start

AllKinds == {"mutation", "patch", "retention", "stamp", "event"}

ASSUME ChainAssumption ==
  /\ Memories # {} /\ None \notin Txns
  /\ Kinds \subseteq AllKinds
  /\ VerifyLimit \in Nat

VARIABLES
  head,      \* audit_chain_heads.head_hash, committed
  log,       \* memory_audit_logs, committed
  applied,   \* committed mutations: which transactions changed each row
  tx,        \* each transaction: state, plan, place in it, uncommitted events
  headLock,  \* who holds the chain head
  rowLock,   \* who holds each memory row
  clock      \* created_at of the last event made

vars == <<head, log, applied, tx, headLock, rowLock, clock>>

EventIds == Txns \X (1..3)

NewTx == [pc |-> "new", kind |-> "event", mem |-> CHOOSE m \in Memories : TRUE,
          step |-> 1, stamp |-> 0, pend |-> {}, last |-> GENESIS]

Init ==
  /\ head = GENESIS
  /\ log = {}
  /\ applied = [m \in Memories |-> {}]
  /\ tx = [x \in Txns |-> NewTx]
  /\ headLock = None
  /\ rowLock = [m \in Memories |-> None]
  /\ clock = 0

-----------------------------------------------------------------------------

\* repo.transaction() opens for one handler on one memory.
Open(x) ==
  /\ tx[x].pc = "new"
  /\ \E k \in Kinds, m \in Memories :
       tx' = [tx EXCEPT ![x].pc = "open", ![x].kind = k, ![x].mem = m]
  /\ UNCHANGED <<head, log, applied, headLock, rowLock, clock>>

Finished(x) == tx[x].step > Len(Plan(tx[x].kind))

AtStep(x, s) ==
  /\ tx[x].pc = "open"
  /\ ~Finished(x)
  /\ Plan(tx[x].kind)[tx[x].step] = s

\* The flush of the row: waits for whoever updated it and has not committed.
Write(x) ==
  LET m == tx[x].mem IN
  /\ AtStep(x, "write")
  /\ rowLock[m] \in {None, x}
  /\ rowLock' = [rowLock EXCEPT ![m] = x]
  /\ tx' = [tx EXCEPT ![x].step = @ + 1]
  /\ UNCHANGED <<head, log, applied, headLock, clock>>

\* AuditService.record makes the event, and with it created_at, before add_audit runs.
Record(x) ==
  /\ AtStep(x, "audit")
  /\ tx[x].stamp = 0
  /\ clock' = clock + 1
  /\ tx' = [tx EXCEPT ![x].stamp = clock + 1]
  /\ UNCHANGED <<head, log, applied, headLock, rowLock>>

\* The transaction with event e added to what it will commit.
Appended(t, e) ==
  [t EXCEPT !.step = @ + 1, !.stamp = 0, !.last = e.hash,
            !.pend = @ \cup {[entry |-> e, created |-> t.stamp]}]

AddAuditToCommittedHead(x) ==
  /\ AtStep(x, "audit")
  /\ tx[x].stamp # 0
  /\ headLock \in {None, x}
  /\ headLock' = x
  /\ tx' = [tx EXCEPT ![x] = Appended(@, Entry(<<x, tx[x].step>>, head))]
  /\ UNCHANGED <<head, log, applied, rowLock, clock>>

\* add_audit: waits for the head, links to it (or to this transaction's own last event)
\* and advances it.
AddAudit(x) ==
  LET prev == IF headLock = x THEN tx[x].last ELSE head IN
  /\ AtStep(x, "audit")
  /\ tx[x].stamp # 0
  /\ headLock \in {None, x}
  /\ headLock' = x
  /\ tx' = [tx EXCEPT ![x] = Appended(@, Entry(<<x, tx[x].step>>, prev))]
  /\ UNCHANGED <<head, log, applied, rowLock, clock>>

Release(x) ==
  /\ headLock' = IF headLock = x THEN None ELSE headLock
  /\ rowLock' = [m \in Memories |-> IF rowLock[m] = x THEN None ELSE rowLock[m]]

Writes(kind) == \E i \in DOMAIN Plan(kind) : Plan(kind)[i] = "write"

CommitResettingHead(x) ==
  /\ tx[x].pc = "open"
  /\ Finished(x)
  /\ head' = tx[x].last
  /\ log' = log \cup tx[x].pend
  /\ applied' = IF Writes(tx[x].kind)
                THEN [applied EXCEPT ![tx[x].mem] = @ \cup {x}] ELSE applied
  /\ tx' = [tx EXCEPT ![x].pc = "committed", ![x].pend = {}, ![x].last = GENESIS]
  /\ Release(x)
  /\ UNCHANGED clock

\* COMMIT: rows, events and head become visible together.
Commit(x) ==
  /\ tx[x].pc = "open"
  /\ Finished(x)
  /\ head' = IF headLock = x THEN tx[x].last ELSE head
  /\ log' = log \cup tx[x].pend
  /\ applied' = IF Writes(tx[x].kind)
                THEN [applied EXCEPT ![tx[x].mem] = @ \cup {x}] ELSE applied
  /\ tx' = [tx EXCEPT ![x].pc = "committed", ![x].pend = {}, ![x].last = GENESIS]
  /\ Release(x)
  /\ UNCHANGED clock

DiscardKeepingEvents(x) ==
  /\ log' = log \cup tx[x].pend
  /\ head' = IF headLock = x THEN tx[x].last ELSE head
  /\ tx' = [tx EXCEPT ![x].pc = "rolledback", ![x].stamp = 0,
                      ![x].pend = {}, ![x].last = GENESIS]
  /\ Release(x)
  /\ UNCHANGED <<applied, clock>>

DiscardHoldingLocks(x) ==
  /\ tx' = [tx EXCEPT ![x].pc = "rolledback", ![x].stamp = 0,
                      ![x].pend = {}, ![x].last = GENESIS]
  /\ UNCHANGED <<head, log, applied, headLock, rowLock, clock>>

\* ROLLBACK, and with it the release of every lock.
Discard(x) ==
  /\ tx' = [tx EXCEPT ![x].pc = "rolledback", ![x].stamp = 0,
                      ![x].pend = {}, ![x].last = GENESIS]
  /\ Release(x)
  /\ UNCHANGED <<head, log, applied, clock>>

\* An exception in the handler, or a crash of the process: nothing of it remains.
Fail(x) == tx[x].pc = "open" /\ Discard(x)

\* x is waiting for a lock that another transaction y holds.
WaitsFor(x, y) ==
  /\ x # y
  /\ \/ AtStep(x, "write") /\ rowLock[tx[x].mem] = y
     \/ AtStep(x, "audit") /\ tx[x].stamp # 0 /\ headLock = y

\* Postgres ends a cycle of waiters by failing one of them (deadlock_timeout).
DeadlockVictim(x) ==
  /\ \E y \in Txns : WaitsFor(x, y) /\ WaitsFor(y, x)
  /\ Discard(x)

Step(x) == Write(x) \/ Record(x) \/ AddAudit(x) \/ Commit(x) \/ DeadlockVictim(x)

Next == \E x \in Txns : Open(x) \/ Step(x) \/ Fail(x)

\* A handler that opened a transaction runs on; a failure is never promised.
Spec == Init /\ [][Next]_vars /\ \A x \in Txns : WF_vars(Step(x))

-----------------------------------------------------------------------------
(* What the trail shows.                                                    *)

Entries == {r.entry : r \in log}

Begins(s, t) == Len(s) <= Len(t) /\ \A i \in 1..Len(s) : s[i] = t[i]

\* list_audit: the newest by created_at, cut off at the limit.
ListAudit(limit) ==
  {r.entry : r \in {q \in log : Cardinality({p \in log : p.created > q.created}) < limit}}

\* What verify_audit reads of the tenant's chain.
Listed == ListAudit(VerifyLimit)

Row == [entry : [id: EventIds, prev: Seq(EventIds), hash: Seq(EventIds)], created: Nat \ {0}]

Tx == [pc: {"new", "open", "committed", "rolledback"}, kind: AllKinds, mem: Memories,
       step: 1..4, stamp: Nat, pend: SUBSET Row, last: Seq(EventIds)]

TypeOK ==
  /\ head \in Seq(EventIds)
  /\ log \subseteq Row
  /\ applied \in [Memories -> SUBSET Txns]
  /\ tx \in [Txns -> Tx]
  /\ headLock \in Txns \cup {None}
  /\ rowLock \in [Memories -> Txns \cup {None}]
  /\ clock \in Nat

(* Two concurrent audited mutations never link to the same predecessor.     *)
ForkFree == \A e, f \in Entries : e.prev = f.prev => e = f

(* The committed rows are the whole history the head stands for: one entry  *)
(* for each position, none besides, whoever failed or was rolled back.      *)
LogIsTrail ==
  /\ \A e \in Entries : Begins(e.hash, head)
  /\ \A i \in 1..Len(head) : \E e \in Entries : Len(e.hash) = i

(* The whole of the log passes verify_chain at every moment, and so does    *)
(* what the verify endpoint lists of it, in the order of creation, as long  *)
(* as all of it fits the limit of the listing.                              *)
WholeChainVerifies ==
  /\ VerifyChain(Entries)
  /\ Cardinality(log) <= VerifyLimit => VerifyChain(Listed)

(* What the chain rests on: the uncommitted events belong to the holder of  *)
(* the head alone, they continue the committed chain, and a transaction     *)
(* that has passed its audit steps has one event for each.                  *)
PendingContinues(x) ==
  LET t == tx[x] IN
  /\ Begins(head, t.last)
  /\ \A r \in t.pend : Begins(r.entry.hash, t.last)
  /\ \A i \in Len(head) + 1..Len(t.last) :
       t.last[i][1] = x /\ \E r \in t.pend : Len(r.entry.hash) = i

PendingIsPlanned(x) ==
  LET t == tx[x]  plan == Plan(tx[x].kind) IN
  /\ \A r \in t.pend :
       /\ r.entry.hash = Append(r.entry.prev, r.entry.id)
       /\ \E i \in 1..Len(plan) : r.entry.id = <<x, i>> /\ i < t.step /\ plan[i] = "audit"
  /\ t.pc = "open" =>
       \A i \in 1..Len(plan) :
         i < t.step /\ plan[i] = "audit" => \E r \in t.pend : r.entry.id = <<x, i>>

HolderContinues == headLock # None => tx[headLock].pc = "open" /\ PendingContinues(headLock)

OnlyHolderPends == \A x \in Txns : headLock # x => tx[x].pend = {}

EntriesAreHashed == \A e \in Entries : e.hash = Append(e.prev, e.id)

HeadIsCommitted == \A i \in 1..Len(head) : tx[head[i][1]].pc = "committed"

ChainInvariant ==
  /\ HolderContinues
  /\ OnlyHolderPends
  /\ \A x \in Txns : PendingIsPlanned(x)
  /\ \A x \in Txns : tx[x].pc = "new" => tx[x].step = 1
  /\ EntriesAreHashed
  /\ HeadIsCommitted
  /\ LogIsTrail

EventsOf(x) == {e.id : e \in {f \in Entries : f.id[1] = x}}

\* x took effect with all of its plan, or not at all.
EffectIsWhole(x) ==
  LET plan == Plan(tx[x].kind) IN
  IF tx[x].pc = "committed"
  THEN /\ EventsOf(x) = {<<x, i>> : i \in {j \in DOMAIN plan : plan[j] = "audit"}}
       /\ \A m \in Memories : x \in applied[m] <=> m = tx[x].mem /\ Writes(tx[x].kind)
  ELSE /\ EventsOf(x) = {}
       /\ \A m \in Memories : x \notin applied[m]

(* A mutation and its audit events are committed together or not at all     *)
(* (invariant #7), through failures, crashes and deadlocks.                 *)
EvidenceIsAtomic == \A x \in Txns : EffectIsWhole(x)

(* The locked, hashed, transactional append implements the plain trail: the *)
(* head's history is the trail.                                             *)
Trail == INSTANCE AuditTrail WITH trail <- head
ImplementsTrail == Trail!Spec

(* Every transaction that opened ends: nobody waits for a lock forever.     *)
EveryTransactionEnds ==
  \A x \in Txns : tx[x].pc = "open" ~> tx[x].pc \in {"committed", "rolledback"}
=============================================================================

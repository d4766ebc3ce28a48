---------------------------- MODULE MemoryStore ----------------------------
(***************************************************************************)
(* The governed memory rows of MemoryOps AI on the Postgres backend, and   *)
(* every handler that mutates one: the memory routes (PATCH, DELETE), the  *)
(* retention routes (legal hold, pin, protect, consent), the chat write    *)
(* path (create, merge) and the lifecycle workers (decay, archive,         *)
(* retention, deletion compaction).                                        *)
(*                                                                         *)
(* A handler loads a row (a detached copy: _to_stored), decides on that    *)
(* copy, and only then opens its transaction, whose first SELECT reads the *)
(* row again.  SQLAlchemy writes the columns whose value differs from what *)
(* that SELECT returned, at READ COMMITTED and without a version check.    *)
(* So a handler is three steps - load, begin, commit - and what it writes  *)
(* depends on all three.  The audit events of a mutation commit in the     *)
(* same transaction; `evidence' is what they say about the row.            *)
(***************************************************************************)
EXTENDS Integers

CONSTANTS
  Memories,        \* row identities
  Handlers,        \* concurrent requests and worker items
  Texts,           \* contents a memory can have
  Sensitive,       \* contents the classifier rates medium or high
  Refused,         \* contents the policy broker BLOCKs
  Nothing,         \* no content / no vector
  Flags,           \* governance flags in play, of "hold", "pinned", "protected"
  Ops,             \* which handlers run
  PatchModes,      \* of "unchecked", "checked": PATCH without/with expected_revision
  RequireApproval, \* settings.require_approval_for_sensitive
  MaxImportance,   \* importance in steps of the decay worker
  Floor,           \* workers_decay_importance_floor
  MaxRev           \* bound: no handler that raises the revision loads a row at it

AllFlags == {"hold", "pinned", "protected"}
Consents == {"granted", "withdrawn"}
Statuses == {"absent", "pending", "active", "archived", "rejected", "deleted"}
AllOps == {"capture", "patch", "delete", "flag", "consent",
           "decay", "archive", "retention", "compaction"}
NoTarget == "none"

ASSUME StoreAssumption ==
  /\ Memories # {}
  /\ Sensitive \subseteq Texts /\ Refused \subseteq Texts
  /\ Nothing \notin Texts
  /\ Flags \subseteq AllFlags
  /\ Ops \subseteq AllOps
  /\ PatchModes \subseteq {"unchecked", "checked"}
  /\ RequireApproval \in BOOLEAN
  /\ MaxImportance \in Nat /\ Floor \in 0..MaxImportance
  /\ MaxRev \in Nat

VARIABLES
  row,       \* memory_records: the committed row of each memory
  h,         \* each handler: where it is, and the copies it holds
  evidence   \* what the committed audit events say of each memory

vars == <<row, h, evidence>>

Meta == [flags: SUBSET AllFlags, consent: Consents,
         decayed: BOOLEAN, archived: BOOLEAN, compacted: BOOLEAN, tombstoned: BOOLEAN]

Row == [status: Statuses, text: Texts \cup {Nothing}, vec: Texts \cup {Nothing},
        importance: 0..MaxImportance, meta: Meta, deleted: BOOLEAN, rev: Nat]

Evidence == [status: Statuses, text: Texts \cup {Nothing}, flags: SUBSET AllFlags,
             consent: Consents, approved: BOOLEAN, mixed: BOOLEAN, deleted: BOOLEAN,
             decays: 0..2, purge: {"none", "compacted", "verified", "failed"}]

\* Handlers that write the whole copy they loaded (Repository.update_memory).
CopyOps == {"patch", "hold", "pin", "consent", "decay", "archive", "stamp"}
\* Handlers whose new row is computed from the row read inside the transaction.
FreshOps == {"delete", "expire", "compaction", "merge"}

Handler == [pc: {"idle", "loaded", "open", "verify"},
            op: CopyOps \cup FreshOps \cup {"create", "none"},
            mem: Memories, copy: Row, new: Row, seen: Row, rev: Nat]

NewMeta == [flags |-> {}, consent |-> "granted",
            decayed |-> FALSE, archived |-> FALSE, compacted |-> FALSE, tombstoned |-> FALSE]

Absent == [status |-> "absent", text |-> Nothing, vec |-> Nothing, importance |-> 0,
           meta |-> NewMeta, deleted |-> FALSE, rev |-> 0]

Idle == [pc |-> "idle", op |-> "none", mem |-> CHOOSE m \in Memories : TRUE,
         copy |-> Absent, new |-> Absent, seen |-> Absent, rev |-> 0]

NoEvidence == [status |-> "absent", text |-> Nothing, flags |-> {}, consent |-> "granted",
               approved |-> FALSE, mixed |-> FALSE, deleted |-> FALSE, decays |-> 0, purge |-> "none"]

\* The status the policy broker gives stored content.
Gated(text) == IF RequireApproval /\ text \in Sensitive THEN "pending" ELSE "active"

\* create_memory of a candidate; the vector is missing when embedding failed.
Born(text, vec, importance) ==
  [Absent EXCEPT !.status = Gated(text), !.text = text, !.vec = vec,
                 !.importance = importance, !.rev = 1]

Newborn == UNION {{Born(text, text, importance), Born(text, Nothing, importance)} :
                    text \in Texts \ Refused, importance \in 0..MaxImportance}

EvidenceOf(r) == [NoEvidence EXCEPT !.status = r.status, !.text = r.text]

\* A store in which some memories have been captured and nothing else has happened.
Init ==
  /\ row \in [Memories -> {Absent} \cup Newborn]
  /\ h = [a \in Handlers |-> Idle]
  /\ evidence = [m \in Memories |-> EvidenceOf(row[m])]

-----------------------------------------------------------------------------
(* Loading: a handler reads a row and decides on the copy.  A request that  *)
(* is refused (404, 409, 422) mutates nothing and is no step.               *)

Max2(x, y) == IF x > y THEN x ELSE y

TransitionsWithUnreject ==
  {<<"pending", "active">>, <<"pending", "rejected">>, <<"rejected", "active">>,
   <<"active", "archived">>, <<"archived", "active">>}

\* PATCH's (current, requested) -> action table.
AllowedTransitions ==
  {<<"pending", "active">>, <<"pending", "rejected">>,
   <<"active", "archived">>, <<"archived", "active">>}

Held(c) == "hold" \in c.meta.flags

\* Any override that exempts from archival and from retention-driven deletion.
Exempt(c) == c.meta.flags \cap AllFlags # {}

PatchableAlways(c) == TRUE

\* A deleted memory is not found by PATCH (404).
Patchable(c) == c.status # "deleted"

DeletableAlways(c) == TRUE

\* DELETE refuses a held memory (409); it may be repeated on a deleted one.
Deletable(c) == ~Held(c)

DecayableAgain(c) == c.status = "active" /\ ~Held(c) /\ c.importance > Floor

\* The decay worker's eligibility, but for age, which is left open.
Decayable(c) ==
  /\ c.status = "active"
  /\ ~Held(c)
  /\ ~c.meta.decayed
  /\ c.importance > Floor

\* The archive worker's eligibility, but for age and confidence.
Archivable(c) == c.status = "active" /\ ~Exempt(c)

PurgeableWithArchived(c) == c.status \in {"deleted", "archived"}

\* The status filter of list_deleted_for_compaction and of compact_deleted_memory.
Purgeable(c) == c.status = "deleted"

EditedKeepingVector(c, t, v) ==
  [c EXCEPT !.text = t, !.status = IF Gated(t) = "pending" THEN "pending" ELSE @]

EditedWithoutGate(c, t, v) == [c EXCEPT !.text = t, !.vec = v]

\* apply_content_update: the vector is dropped and regenerated (v is the text, or
\* Nothing when embedding failed); sensitive content goes back to the queue.
Edited(c, t, v) ==
  [c EXCEPT !.text = t, !.vec = v,
            !.status = IF Gated(t) = "pending" THEN "pending" ELSE @]

Flagged(c, f, on) ==
  [c EXCEPT !.meta.flags = IF on THEN @ \cup {f} ELSE @ \ {f}]

CanLoad(a, o, m) ==
  /\ o \in Ops
  /\ h[a].pc = "idle"
  /\ row[m].status # "absent"
  /\ row[m].rev < MaxRev \/ o = "compaction"

Load(a, o, m, new, rev) ==
  /\ h' = [h EXCEPT ![a] = [pc |-> "loaded", op |-> o, mem |-> m, copy |-> row[m],
                            new |-> new, seen |-> Absent, rev |-> rev]]
  /\ UNCHANGED <<row, evidence>>

\* The expected_revision a client may send: none (0), or one it has read.
Expected(c) ==
  (IF "unchecked" \in PatchModes THEN {0} ELSE {})
    \cup (IF "checked" \in PatchModes THEN 1..c.rev ELSE {})

\* The row a PATCH would write: the edit first, then the requested status over it.
Patched(c, text, vec, target, importance) ==
  LET e == IF text = Nothing THEN c ELSE Edited(c, text, vec)
  IN  [e EXCEPT !.importance = importance, !.status = IF target = NoTarget THEN @ ELSE target]

\* A PATCH asks for an edit (text), a transition (target) or both; the hold and the
\* policy broker are consulted on the copy, and only for an edit.
LoadPatch(a, m) ==
  LET c == row[m] IN
  /\ CanLoad(a, "patch", m)
  /\ Patchable(c)
  /\ \E text \in Texts \cup {Nothing}, target \in {NoTarget, "active", "archived", "rejected"},
        importance \in 0..MaxImportance, rev \in Expected(c) :
     /\ text # Nothing \/ target # NoTarget \/ importance # c.importance
     /\ target # NoTarget => <<c.status, target>> \in AllowedTransitions
     /\ text # Nothing => ~Held(c) /\ text \notin Refused
     /\ \E vec \in {text, Nothing} :
          Load(a, "patch", m, Patched(c, text, vec, target, importance), rev)

LoadDelete(a, m) ==
  /\ CanLoad(a, "delete", m)
  /\ Deletable(row[m])
  /\ Load(a, "delete", m, Absent, 0)

LoadFlag(a, m) ==
  /\ CanLoad(a, "flag", m)
  /\ \E f \in Flags, on \in BOOLEAN :
       Load(a, IF f = "hold" THEN "hold" ELSE "pin", m, Flagged(row[m], f, on), 0)

LoadConsent(a, m) ==
  /\ CanLoad(a, "consent", m)
  /\ \E s \in Consents : Load(a, "consent", m, [row[m] EXCEPT !.meta.consent = s], 0)

\* The workers' listing is one read; each listed row is then an item of its own.
\* Whether age or confidence makes it due is left open.
SelectDecay(a, m) ==
  LET c == row[m] IN
  /\ CanLoad(a, "decay", m)
  /\ Decayable(c)
  /\ Load(a, "decay", m, [c EXCEPT !.importance = @ - 1, !.meta.decayed = TRUE], 0)

SelectArchive(a, m) ==
  LET c == row[m] IN
  /\ CanLoad(a, "archive", m)
  /\ Archivable(c)
  /\ Load(a, "archive", m, [c EXCEPT !.status = "archived", !.meta.archived = TRUE], 0)

\* services/retention.evaluate: exempt rows are held; otherwise withdrawn consent or
\* an elapsed window makes the row eligible; else only the window is stamped.
SelectRetention(a, m) ==
  LET c == row[m] IN
  /\ CanLoad(a, "retention", m)
  /\ c.status = "active"
  /\ \E elapsed \in BOOLEAN :
       IF ~Exempt(c) /\ (c.meta.consent = "withdrawn" \/ elapsed)
       THEN Load(a, "expire", m, Absent, 0)
       ELSE Load(a, "stamp", m, c, 0)

SelectCompaction(a, m) ==
  LET c == row[m] IN
  /\ CanLoad(a, "compaction", m)
  /\ Purgeable(c)
  /\ ~c.meta.compacted
  /\ ~Held(c)
  /\ Load(a, "compaction", m, Absent, 0)

\* One extracted candidate through the policy broker: BLOCK and low-utility DROP store
\* nothing; an active row of the same normalized text is reinforced; else a row is born.
Evaluate(a) ==
  /\ "capture" \in Ops
  /\ h[a].pc = "idle"
  /\ \E cand \in Newborn :
       LET same == {m \in Memories : row[m].status = "active" /\ row[m].text = cand.text}
       IN  \/ /\ same = {}
              /\ Load(a, "create", Idle.mem, cand, 0)
           \/ \E m \in same : row[m].rev < MaxRev /\ Load(a, "merge", m, cand, 0)

-----------------------------------------------------------------------------
(* The transaction.  Begin reads the row; Commit writes the columns that    *)
(* changed against that read, with the audit events.                        *)

Begin(a, ops, new) ==
  /\ h[a].pc = "loaded"
  /\ h[a].op \in ops
  /\ h[a].rev = 0
  /\ h' = [h EXCEPT ![a].pc = "open", ![a].seen = row[h[a].mem], ![a].new = new]
  /\ UNCHANGED <<row, evidence>>

BeginUpdateWithDeletedAt(a) ==
  Begin(a, CopyOps, [h[a].new EXCEPT !.rev = row[h[a].mem].rev + 1])

\* update_memory: every column of the copy but deleted_at; the revision from the read.
BeginUpdate(a) ==
  LET r == row[h[a].mem]
  IN  Begin(a, CopyOps, [h[a].new EXCEPT !.deleted = r.deleted, !.rev = r.rev + 1])

\* DELETE: soft_delete, tombstone, then update_memory of that same row.
BeginDelete(a) ==
  Begin(a, {"delete"}, [row[h[a].mem] EXCEPT !.status = "deleted", !.deleted = TRUE,
                                             !.meta.tombstoned = TRUE, !.rev = @ + 1])

BeginExpireStatusOnly(a) == Begin(a, {"expire"}, [row[h[a].mem] EXCEPT !.status = "deleted"])

\* The retention worker's soft_delete alone: no tombstone, no new revision.
BeginExpire(a) ==
  Begin(a, {"expire"}, [row[h[a].mem] EXCEPT !.status = "deleted", !.deleted = TRUE])

\* compact_deleted_memory: nothing unless the row is (still) deleted.
BeginCompaction(a) ==
  LET r == row[h[a].mem] IN
  /\ Purgeable(r)
  /\ Begin(a, {"compaction"}, [r EXCEPT !.text = Nothing, !.vec = Nothing,
                                        !.meta.compacted = TRUE])

BeginMergeReactivating(a) ==
  LET r == row[h[a].mem]
  IN  Begin(a, {"merge"}, [r EXCEPT !.status = "active", !.rev = @ + 1])

\* UPDATE_EXISTING: get_memory inside the transaction, whatever its status is by now.
BeginMerge(a) ==
  LET r == row[h[a].mem]
  IN  Begin(a, {"merge"}, [r EXCEPT !.importance = Max2(@, h[a].new.importance),
                                    !.rev = @ + 1])

\* Columns written whatever their value: metadata that carries a fresh timestamp.
Stamps(op) == op \in {"delete", "hold", "consent", "stamp", "compaction"}

FlushWithoutMetadata(r, seen, new, op) ==
  [new EXCEPT !.meta = r.meta]

\* The UPDATE of one flush: a column keeps the committed value unless it is dirty.
Flush(r, seen, new, op) ==
  [status |-> IF new.status # seen.status THEN new.status ELSE r.status,
   text |-> IF new.text # seen.text THEN new.text ELSE r.text,
   vec |-> IF new.vec # seen.vec THEN new.vec ELSE r.vec,
   importance |-> IF new.importance # seen.importance THEN new.importance ELSE r.importance,
   meta |-> IF Stamps(op) \/ new.meta # seen.meta THEN new.meta ELSE r.meta,
   deleted |-> IF new.deleted # seen.deleted THEN new.deleted ELSE r.deleted,
   rev |-> IF new.rev # seen.rev THEN new.rev ELSE r.rev]

\* What the handler's audit events record: outcomes relative to the copy it judged. mixed:
\* the request that wrote the content requested a transition too.
Audited(e, op, c, new) ==
  CASE op = "patch" ->
         [e EXCEPT !.status = IF new.status # c.status THEN new.status ELSE @,
                   !.text = IF new.text # c.text THEN new.text ELSE @,
                   !.approved = IF c.status = "pending" /\ new.status = "active" THEN TRUE
                                ELSE IF new.text # c.text THEN FALSE ELSE @,
                   !.mixed = IF new.text # c.text THEN new.status \notin {c.status, "pending"}
                             ELSE @]
    [] op \in {"hold", "pin"} ->
         [e EXCEPT !.flags = (@ \cup (new.meta.flags \ c.meta.flags))
                               \ (c.meta.flags \ new.meta.flags)]
    [] op = "consent" -> [e EXCEPT !.consent = new.meta.consent]
    [] op = "decay" -> [e EXCEPT !.decays = IF @ = 2 THEN 2 ELSE @ + 1]
    [] op = "archive" -> [e EXCEPT !.status = "archived"]
    [] op \in {"delete", "expire"} -> [e EXCEPT !.status = "deleted", !.deleted = TRUE]
    [] op = "compaction" -> [e EXCEPT !.text = Nothing, !.purge = "compacted"]
    [] OTHER -> e

Commit(a) ==
  LET m == h[a].mem  op == h[a].op  new == h[a].new IN
  /\ h[a].pc = "open"
  /\ row' = [row EXCEPT ![m] = Flush(@, h[a].seen, new, op)]
  /\ evidence' = [evidence EXCEPT ![m] = Audited(@, op, h[a].copy, new)]
  /\ h' = [h EXCEPT ![a] = IF op = "compaction" THEN [h[a] EXCEPT !.pc = "verify"] ELSE Idle]

\* The WHERE clause of the compare-and-swap.
RevisionIs(r, expected) == r.rev = expected

\* update_memory_checked: one conditional UPDATE of every column but deleted_at.
CommitChecked(a) ==
  LET m == h[a].mem  new == h[a].new  r == row[h[a].mem] IN
  /\ h[a].pc = "loaded"
  /\ h[a].rev # 0
  /\ RevisionIs(r, h[a].rev)
  /\ row' = [row EXCEPT ![m] = [new EXCEPT !.deleted = r.deleted, !.rev = r.rev + 1]]
  /\ evidence' = [evidence EXCEPT ![m] = Audited(@, "patch", h[a].copy, new)]
  /\ h' = [h EXCEPT ![a] = Idle]

\* create_memory under a fresh id.
CommitCreate(a) ==
  LET new == h[a].new IN
  /\ h[a].pc = "loaded"
  /\ h[a].op = "create"
  /\ \E m \in Memories :
       /\ row[m].status = "absent"
       /\ row' = [row EXCEPT ![m] = new]
       /\ evidence' = [evidence EXCEPT ![m] = EvidenceOf(new)]
  /\ h' = [h EXCEPT ![a] = Idle]

\* The read surfaces of the repository.
RetrieveActive == {m \in Memories : row[m].status = "active"}
Listed == {m \in Memories : row[m].status \notin {"absent", "deleted"}}
SearchCandidates == {m \in Memories : row[m].status = "active" /\ ~row[m].deleted}

\* verify_purged, after the compaction committed: a read-back, audited on its own.
VerifyPurge(a) ==
  LET m == h[a].mem
      passed == /\ m \notin RetrieveActive \cup Listed \cup SearchCandidates
                /\ row[m].text = Nothing
                /\ row[m].vec = Nothing
  IN  /\ h[a].pc = "verify"
      /\ evidence' = [evidence EXCEPT ![m].purge = IF passed THEN "verified" ELSE "failed"]
      /\ h' = [h EXCEPT ![a] = Idle]
      /\ UNCHANGED row

\* An exception or a crash before commit, a lost compare-and-swap (409), a row that is
\* no longer deleted (compaction skips it): the transaction rolls back.
Abandon(a) ==
  /\ h[a].pc # "idle"
  /\ h' = [h EXCEPT ![a] = Idle]
  /\ UNCHANGED <<row, evidence>>

LoadNext(a) ==
  \/ Evaluate(a)
  \/ \E m \in Memories :
       \/ LoadPatch(a, m) \/ LoadDelete(a, m) \/ LoadFlag(a, m) \/ LoadConsent(a, m)
       \/ SelectDecay(a, m) \/ SelectArchive(a, m)
       \/ SelectRetention(a, m) \/ SelectCompaction(a, m)

BeginNext(a) ==
  BeginUpdate(a) \/ BeginDelete(a) \/ BeginExpire(a) \/ BeginCompaction(a) \/ BeginMerge(a)

CommitNext(a) ==
  Commit(a) \/ CommitChecked(a) \/ CommitCreate(a) \/ VerifyPurge(a) \/ Abandon(a)

Next == \E a \in Handlers : LoadNext(a) \/ BeginNext(a) \/ CommitNext(a)

Spec == Init /\ [][Next]_vars

-----------------------------------------------------------------------------
(* Invariants and action properties.                                        *)

TypeOK ==
  /\ row \in [Memories -> Row]
  /\ h \in [Handlers -> Handler]
  /\ evidence \in [Memories -> Evidence]

(* A memory some committed audit event calls deleted is out of the ranked   *)
(* search the chat path retrieves from (search_candidates), however stale   *)
(* the copy a later handler writes back: deleted_at, once stamped, is       *)
(* written by nobody.                                                       *)
DeletedNeverSearched == \A m \in SearchCandidates : ~evidence[m].deleted

(* The deletion stamp of a row and the deletion event in the trail appear   *)
(* together and stay: neither a rollback nor an interleaved write leaves    *)
(* one without the other.                                                   *)
DeletionHasEvidence == \A m \in Memories : row[m].deleted <=> evidence[m].deleted

(* Content is destroyed (compaction clears text and vector) only for a      *)
(* memory whose deletion was stamped and audited before.                    *)
ClearedOnlyIfDeleted ==
  \A m \in Memories : row[m].status # "absent" /\ row[m].text = Nothing => row[m].deleted

(* What the three deletion invariants rest on.  The stamp of a row is never *)
(* cleared: whatever a handler saw stamped is still stamped, and what it is *)
(* about to write (a deleted status, cleared content) it may write only to  *)
(* a stamped row, or stamps itself.                                         *)
DeletedIsStamped ==
  \A m \in Memories :
    /\ row[m].status = "deleted" => row[m].deleted
    /\ row[m].status = "absent" => ~row[m].deleted

HandlerIsBacked(a) ==
  LET m == h[a].mem  op == h[a].op  new == h[a].new IN
  /\ h[a].pc \in {"loaded", "open", "verify"} /\ op # "create" => row[m].status # "absent"
  /\ h[a].pc = "loaded" /\ op = "create" =>
       new.status \notin {"absent", "deleted"} /\ new.text # Nothing /\ ~new.deleted
  /\ h[a].pc = "loaded" /\ op \in CopyOps =>
       /\ new.status # "absent"
       /\ new.status = "deleted" \/ new.text = Nothing => row[m].deleted
       /\ new.status = "deleted" \/ h[a].copy.status # "deleted"
  /\ h[a].pc = "loaded" /\ h[a].rev # 0 => op = "patch"
  /\ h[a].pc = "open" =>
       /\ op \in CopyOps \cup FreshOps
       /\ new.status # "absent"
       /\ h[a].seen.deleted => row[m].deleted
       /\ new.deleted <=> op \in {"delete", "expire"} \/ h[a].seen.deleted
       /\ new.text = Nothing => row[m].deleted
       /\ new.status = "deleted" => new.deleted \/ row[m].deleted
       /\ op \in CopyOps => new.status = "deleted" \/ h[a].copy.status # "deleted"
       /\ op \in FreshOps => new.status \in {h[a].seen.status, "deleted"}

StampInvariant ==
  /\ DeletedIsStamped
  /\ DeletionHasEvidence
  /\ ClearedOnlyIfDeleted
  /\ \A a \in Handlers : HandlerIsBacked(a)

(* The trail and the row tell the same story: status, content, governance   *)
(* flags, consent and deletion are what the last audit event about each     *)
(* said (invariant #7: mutation and evidence commit together).              *)
EvidenceMatchesRow ==
  \A m \in Memories :
    /\ row[m].status = evidence[m].status
    /\ row[m].text = evidence[m].text
    /\ row[m].meta.flags = evidence[m].flags
    /\ row[m].meta.consent = evidence[m].consent

(* A vector, when there is one, is the vector of the row's current text:    *)
(* edits regenerate or drop it, compaction clears both.                     *)
VectorDescribesText ==
  \A m \in Memories : row[m].vec \in {row[m].text, Nothing}

(* The decay worker is idempotent: no memory is decayed twice, whatever     *)
(* edits, restores and re-runs come in between.                             *)
DecaysOnce == \A m \in Memories : evidence[m].decays <= 1

(* A purge the worker verified stays a purge: the memory is unreachable on  *)
(* every read surface and its content and vector are gone.                  *)
VerifiedPurgeHolds ==
  \A m \in Memories : evidence[m].purge = "verified" =>
    /\ m \notin RetrieveActive \cup Listed \cup SearchCandidates
    /\ row[m].text = Nothing /\ row[m].vec = Nothing

(* Sensitive content is active only after somebody approved that content,   *)
(* or because the PATCH that wrote it requested a transition of its own,    *)
(* which the handler assigns over the re-gating, and the trail says so. No  *)
(* edit, restore or archival apart, in any order, gets round the queue.     *)
SensitiveIsApproved ==
  RequireApproval =>
    \A m \in RetrieveActive :
      row[m].text \in Sensitive => evidence[m].approved \/ evidence[m].mixed

\* Every status change the code's documents allow.
GovernedTransitions ==
  {<<"absent", "pending">>, <<"absent", "active">>,
   <<"pending", "active">>, <<"pending", "rejected">>,
   <<"active", "archived">>, <<"archived", "active">>}
    \cup ({"active", "archived", "rejected"} \X {"pending"})
    \cup ({"pending", "active", "archived", "rejected"} \X {"deleted"})

(* A status changes only by capture, by an approved transition, by the      *)
(* re-gating of a sensitive edit, or into deleted - and never out of it.    *)
StatusIsGoverned ==
  [][\A m \in Memories :
       row'[m].status # row[m].status =>
         <<row[m].status, row'[m].status>> \in GovernedTransitions]_vars

(* A deleted memory is never resurrected (invariant #2).                    *)
NeverResurrected ==
  [][\A m \in Memories : row[m].status = "deleted" => row'[m].status = "deleted"]_vars

(* A legal hold blocks all forgetting - decay, worker archival, deletion,   *)
(* compaction - and content edits, until it is released.                    *)
HoldBlocksForgetting ==
  [][\A m \in Memories :
       Held(row[m]) =>
         /\ row'[m].text = row[m].text
         /\ row'[m].deleted = row[m].deleted
         /\ row'[m].meta.decayed = row[m].meta.decayed
         /\ row'[m].meta.archived = row[m].meta.archived]_vars

(* Only a handler that loaded its copy before the deletion, and writes that *)
(* copy, brings a deleted row back: deleting, merging and compacting never  *)
(* do.                                                                      *)
OnlyStaleCopyResurrects ==
  [][\A m \in Memories :
       row[m].status = "deleted" /\ row'[m].status # "deleted" =>
         \E a \in Handlers :
           /\ h[a].mem = m
           /\ h[a].op \in CopyOps
           /\ h[a].copy.status # "deleted"
           /\ h'[a].pc = "idle"]_vars

(* A compare-and-swap PATCH that succeeds replaces exactly the row its      *)
(* handler loaded: nothing changed underneath.                              *)
CheckedWriteSawCurrentRow ==
  [][\A a \in Handlers :
       LET m == h[a].mem IN
       h[a].pc = "loaded" /\ h[a].rev # 0 /\ row'[m] # row[m] /\ h'[a].pc = "idle" =>
         row[m] = h[a].copy]_vars
=============================================================================

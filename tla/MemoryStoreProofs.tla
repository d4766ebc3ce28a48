------------------------- MODULE MemoryStoreProofs -------------------------
(* Proofs about MemoryStore, for every set of memories and handlers.       *)
EXTENDS MemoryStore, TLAPS

LEMMA AbsentTyped == Absent \in Row /\ NewMeta \in Meta
  BY StoreAssumption DEF Absent, Row, Statuses, NewMeta, Meta, Consents

LEMMA NewbornTyped == \A r \in Newborn : r \in Row
  <1> SUFFICES ASSUME NEW text \in Texts, NEW vec \in {text, Nothing},
                      NEW importance \in 0..MaxImportance
               PROVE  Born(text, vec, importance) \in Row
    BY DEF Newborn
  <1>1. Gated(text) \in Statuses
    BY DEF Gated, Statuses
  <1> QED
    BY <1>1, AbsentTyped DEF Born, Row

LEMMA IdleTyped == Idle \in Handler
  <1>1. \E m \in Memories : TRUE
    BY StoreAssumption
  <1>2. Idle.mem \in Memories
    BY <1>1 DEF Idle
  <1> QED
    BY <1>2, AbsentTyped DEF Idle, Handler

LEMMA EvidenceOfTyped == ASSUME NEW r \in Row PROVE EvidenceOf(r) \in Evidence
  <1>1. NoEvidence \in Evidence
    BY DEF NoEvidence, Evidence, Consents, Statuses
  <1>2. r.status \in Statuses /\ r.text \in Texts \cup {Nothing}
    BY DEF Row
  <1> QED
    BY <1>1, <1>2 DEF EvidenceOf, Evidence

LEMMA TypeInit == Init => TypeOK
  <1> SUFFICES ASSUME Init PROVE TypeOK
    OBVIOUS
  <1>1. row \in [Memories -> Row]
    BY AbsentTyped, NewbornTyped DEF Init
  <1>2. h \in [Handlers -> Handler]
    BY IdleTyped DEF Init
  <1>3. evidence \in [Memories -> Evidence]
    BY <1>1, EvidenceOfTyped DEF Init
  <1> QED
    BY <1>1, <1>2, <1>3 DEF TypeOK

(* A load of a typed row, with a typed decision, leaves the store typed.    *)
LEMMA LoadTyped ==
  ASSUME TypeOK, NEW a \in Handlers, NEW m \in Memories,
         NEW o \in CopyOps \cup FreshOps \cup {"create"}, NEW new \in Row, NEW rev \in Nat,
         Load(a, o, m, new, rev)
  PROVE  TypeOK'
  <1>1. [pc |-> "loaded", op |-> o, mem |-> m, copy |-> row[m],
         new |-> new, seen |-> Absent, rev |-> rev] \in Handler
    BY AbsentTyped DEF TypeOK, Handler
  <1> QED
    BY <1>1 DEF TypeOK, Load

LEMMA BeginTyped ==
  ASSUME TypeOK, NEW a \in Handlers, NEW ops, NEW new \in Row, Begin(a, ops, new)
  PROVE  TypeOK'
  <1>1. h[a] \in Handler /\ row[h[a].mem] \in Row
    BY DEF TypeOK, Handler
  <1>2. [h[a] EXCEPT !.pc = "open", !.seen = row[h[a].mem], !.new = new] \in Handler
    BY <1>1 DEF Handler
  <1>3. h' = [h EXCEPT ![a] = [h[a] EXCEPT !.pc = "open", !.seen = row[h[a].mem], !.new = new]]
    BY DEF Begin, TypeOK
  <1> QED
    BY <1>2, <1>3 DEF TypeOK, Begin

LEMMA IdleAgainTyped ==
  ASSUME TypeOK, NEW a \in Handlers, h' = [h EXCEPT ![a] = Idle]
  PROVE  h' \in [Handlers -> Handler]
  BY IdleTyped DEF TypeOK

(* What each handler decides to write is a row.                             *)
LEMMA EditedTyped ==
  ASSUME NEW c \in Row, NEW text \in Texts, NEW vec \in Texts \cup {Nothing}
  PROVE  Edited(c, text, vec) \in Row
  BY DEF Edited, Row, Statuses, Meta

LEMMA FlaggedTyped ==
  ASSUME NEW c \in Row, NEW f \in Flags, NEW on \in BOOLEAN
  PROVE  Flagged(c, f, on) \in Row
  <1>1. c.meta \in Meta /\ f \in AllFlags
    BY StoreAssumption DEF Row
  <1>2. (IF on THEN c.meta.flags \cup {f} ELSE c.meta.flags \ {f}) \in SUBSET AllFlags
    BY <1>1 DEF Meta
  <1>3. [c.meta EXCEPT !.flags = IF on THEN @ \cup {f} ELSE @ \ {f}] \in Meta
    BY <1>1, <1>2 DEF Meta
  <1> QED
    BY <1>3 DEF Flagged, Row

LEMMA ConsentTyped ==
  ASSUME NEW c \in Row, NEW s \in Consents
  PROVE  [c EXCEPT !.meta.consent = s] \in Row
  <1>1. [c.meta EXCEPT !.consent = s] \in Meta
    BY DEF Row, Meta
  <1> QED
    BY <1>1 DEF Row

LEMMA DecayedTyped ==
  ASSUME NEW c \in Row, Decayable(c)
  PROVE  [c EXCEPT !.importance = @ - 1, !.meta.decayed = TRUE] \in Row
  <1>1. [c.meta EXCEPT !.decayed = TRUE] \in Meta
    BY DEF Row, Meta
  <1>2. c.importance - 1 \in 0..MaxImportance
    BY StoreAssumption DEF Row, Decayable
  <1>3. [c EXCEPT !.importance = @ - 1] \in Row
    BY <1>2 DEF Row
  <1> QED
    BY <1>1, <1>2 DEF Row

LEMMA ArchivedTyped ==
  ASSUME NEW c \in Row
  PROVE  [c EXCEPT !.status = "archived", !.meta.archived = TRUE] \in Row
  <1>1. [c.meta EXCEPT !.archived = TRUE] \in Meta
    BY DEF Row, Meta
  <1> QED
    BY <1>1 DEF Row, Statuses


(* What a load may decide: a copy handler writes a deleted status or a      *)
(* missing text only if it copied it, and revives only what it did not see  *)
(* deleted.                                                                 *)
Sound(o, m, new, rev) ==
  /\ o \in CopyOps \cup FreshOps \cup {"create"}
  /\ o = "create" => new.status \notin {"absent", "deleted"} /\ new.text # Nothing /\ ~new.deleted
  /\ o # "create" => row[m].status # "absent"
  /\ o \in CopyOps =>
       /\ new.status # "absent"
       /\ new.status = "deleted" <=> row[m].status = "deleted"
       /\ new.text = Nothing => row[m].text = Nothing
  /\ rev # 0 => o = "patch"

LEMMA PatchIsSound ==
  ASSUME TypeOK, NEW a \in Handlers, NEW m \in Memories, LoadPatch(a, m)
  PROVE  \E new \in Row, rev \in Nat : Load(a, "patch", m, new, rev) /\ Sound("patch", m, new, rev)
  <1>1. row[m] \in Row /\ row[m].status \notin {"absent", "deleted"}
    BY DEF TypeOK, LoadPatch, CanLoad, Patchable
  <1>0. PICK text \in Texts \cup {Nothing},
             target \in {NoTarget, "active", "archived", "rejected"},
             importance \in 0..MaxImportance, rev \in Expected(row[m]) :
          \E vec \in {text, Nothing} :
            Load(a, "patch", m, Patched(row[m], text, vec, target, importance), rev)
    BY DEF LoadPatch
  <1>2. PICK vec \in {text, Nothing} :
          Load(a, "patch", m, Patched(row[m], text, vec, target, importance), rev)
    BY <1>0
  <1> DEFINE e == IF text = Nothing THEN row[m] ELSE Edited(row[m], text, vec)
             new == Patched(row[m], text, vec, target, importance)
  <1>3. e \in Row
    BY <1>1, <1>2, EditedTyped
  <1>4. /\ e.status \notin {"absent", "deleted"}
        /\ e.text = Nothing => row[m].text = Nothing
    BY <1>1, <1>2 DEF Edited, Row
  <1>5. new \in Row
    <2>1. (IF target = NoTarget THEN e.status ELSE target) \in Statuses
      BY <1>0, <1>3 DEF Row, Statuses
    <2> QED
      BY <1>0, <1>3, <2>1 DEF Row, Patched
  <1>8. rev \in Nat
    BY <1>1, <1>0 DEF Expected, Row
  <1>6. Sound("patch", m, new, rev)
    <2>1. new.text = e.text /\ new.status \in {e.status, "active", "archived", "rejected"}
      BY <1>0, <1>3 DEF Row, Patched
    <2> QED
      BY <1>1, <1>4, <2>1 DEF Sound, CopyOps
  <1> QED
    BY <1>2, <1>5, <1>6, <1>8

LEMMA LoadIsSound ==
  ASSUME TypeOK, NEW a \in Handlers, LoadNext(a)
  PROVE  \E m \in Memories, o \in CopyOps \cup FreshOps \cup {"create"}, new \in Row, rev \in Nat :
           Load(a, o, m, new, rev) /\ Sound(o, m, new, rev)
  <1> DEFINE Goal == \E m \in Memories, o \in CopyOps \cup FreshOps \cup {"create"},
                        new \in Row, rev \in Nat :
                       Load(a, o, m, new, rev) /\ Sound(o, m, new, rev)
  <1>0. ASSUME NEW m \in Memories, NEW o \in CopyOps \cup FreshOps \cup {"create"},
               NEW new \in Row, NEW rev \in Nat, Load(a, o, m, new, rev), Sound(o, m, new, rev)
        PROVE  Goal
    BY <1>0
  <1> HIDE DEF Goal
  <1>1. ASSUME Evaluate(a) PROVE Goal
    <2>1. PICK cand \in Newborn :
            \/ Load(a, "create", Idle.mem, cand, 0)
            \/ \E m \in Memories : row[m].status = "active" /\ Load(a, "merge", m, cand, 0)
      BY <1>1 DEF Evaluate
    <2>2. cand \in Row /\ Idle.mem \in Memories
      BY NewbornTyped, IdleTyped DEF Handler
    <2>3. cand.status \notin {"absent", "deleted"} /\ cand.text # Nothing /\ ~cand.deleted
      <3>1. PICK text \in Texts \ Refused, importance \in 0..MaxImportance :
              cand \in {Born(text, text, importance), Born(text, Nothing, importance)}
        BY DEF Newborn
      <3>2. Gated(text) \in {"pending", "active"} /\ text # Nothing
        BY StoreAssumption DEF Gated
      <3> QED
        BY <3>1, <3>2 DEF Born, Absent
    <2>4. CASE Load(a, "create", Idle.mem, cand, 0)
      <3>1. Sound("create", Idle.mem, cand, 0)
        BY <2>3 DEF Sound, CopyOps
      <3> QED
        BY <2>2, <2>4, <3>1, <1>0
    <2>5. ASSUME NEW m \in Memories, row[m].status = "active", Load(a, "merge", m, cand, 0)
          PROVE  Goal
      <3>1. Sound("merge", m, cand, 0)
        BY <2>5 DEF Sound, CopyOps, FreshOps
      <3>2. "merge" \in FreshOps
        BY DEF FreshOps
      <3> QED
        BY <2>2, <2>5, <3>1, <3>2, <1>0
    <2> QED
      BY <2>1, <2>4, <2>5
  <1>2. ASSUME NEW m \in Memories, LoadPatch(a, m) PROVE Goal
    <2>1. "patch" \in CopyOps
      BY DEF CopyOps
    <2> QED
      BY <1>2, <2>1, PatchIsSound, <1>0
  <1>3. ASSUME NEW m \in Memories, LoadDelete(a, m) PROVE Goal
    <2>1. Load(a, "delete", m, Absent, 0) /\ Sound("delete", m, Absent, 0)
      BY <1>3 DEF LoadDelete, CanLoad, Sound, CopyOps, FreshOps
    <2>2. "delete" \in FreshOps
      BY DEF FreshOps
    <2> QED
      BY <2>1, <2>2, AbsentTyped, <1>0
  <1>4. ASSUME NEW m \in Memories, LoadFlag(a, m) PROVE Goal
    <2>1. PICK f \in Flags, on \in BOOLEAN :
            Load(a, IF f = "hold" THEN "hold" ELSE "pin", m, Flagged(row[m], f, on), 0)
      BY <1>4 DEF LoadFlag
    <2> DEFINE o == IF f = "hold" THEN "hold" ELSE "pin"
    <2>2. Flagged(row[m], f, on) \in Row /\ o \in CopyOps
      BY <2>1, FlaggedTyped DEF TypeOK, CopyOps
    <2>3. Sound(o, m, Flagged(row[m], f, on), 0)
      BY <1>4 DEF LoadFlag, CanLoad, Sound, Flagged, CopyOps, TypeOK, Row
    <2> QED
      BY <2>1, <2>2, <2>3, <1>0
  <1>5. ASSUME NEW m \in Memories, LoadConsent(a, m) PROVE Goal
    <2>1. PICK s \in Consents : Load(a, "consent", m, [row[m] EXCEPT !.meta.consent = s], 0)
      BY <1>5 DEF LoadConsent
    <2>2. [row[m] EXCEPT !.meta.consent = s] \in Row /\ "consent" \in CopyOps
      BY <2>1, ConsentTyped DEF TypeOK, CopyOps
    <2>3. Sound("consent", m, [row[m] EXCEPT !.meta.consent = s], 0)
      BY <1>5 DEF LoadConsent, CanLoad, Sound, CopyOps, TypeOK, Row
    <2> QED
      BY <2>1, <2>2, <2>3, <1>0
  <1>6. ASSUME NEW m \in Memories, SelectDecay(a, m) PROVE Goal
    <2> DEFINE new == [row[m] EXCEPT !.importance = @ - 1, !.meta.decayed = TRUE]
    <2>1. new \in Row /\ "decay" \in CopyOps
      BY <1>6, DecayedTyped DEF TypeOK, SelectDecay, CopyOps
    <2>2. Sound("decay", m, new, 0)
      BY <1>6 DEF SelectDecay, CanLoad, Sound, CopyOps, TypeOK, Row
    <2> QED
      BY <1>6, <2>1, <2>2, <1>0 DEF SelectDecay
  <1>7. ASSUME NEW m \in Memories, SelectArchive(a, m) PROVE Goal
    <2> DEFINE new == [row[m] EXCEPT !.status = "archived", !.meta.archived = TRUE]
    <2>1. new \in Row /\ "archive" \in CopyOps
      BY ArchivedTyped DEF TypeOK, CopyOps
    <2>2. Sound("archive", m, new, 0)
      BY <1>7 DEF SelectArchive, Archivable, CanLoad, Sound, CopyOps, TypeOK, Row
    <2> QED
      BY <1>7, <2>1, <2>2, <1>0 DEF SelectArchive
  <1>8. ASSUME NEW m \in Memories, SelectRetention(a, m) PROVE Goal
    <2>1. Load(a, "expire", m, Absent, 0) \/ Load(a, "stamp", m, row[m], 0)
      BY <1>8 DEF SelectRetention
    <2>2. row[m] \in Row /\ "stamp" \in CopyOps /\ "expire" \in FreshOps
      BY DEF TypeOK, CopyOps, FreshOps
    <2>3. Sound("expire", m, Absent, 0) /\ Sound("stamp", m, row[m], 0)
      BY <1>8 DEF SelectRetention, CanLoad, Sound, CopyOps, FreshOps
    <2> QED
      BY <2>1, <2>2, <2>3, AbsentTyped, <1>0
  <1>9. ASSUME NEW m \in Memories, SelectCompaction(a, m) PROVE Goal
    <2>1. Load(a, "compaction", m, Absent, 0) /\ Sound("compaction", m, Absent, 0)
      BY <1>9 DEF SelectCompaction, CanLoad, Sound, CopyOps, FreshOps
    <2>2. "compaction" \in FreshOps
      BY DEF FreshOps
    <2> QED
      BY <2>1, <2>2, AbsentTyped, <1>0
  <1>10. Goal
    BY <1>1, <1>2, <1>3, <1>4, <1>5, <1>6, <1>7, <1>8, <1>9 DEF LoadNext
  <1> QED
    BY <1>10 DEF Goal

(* The transaction: what Begin computes, what the flush writes and what the *)
(* audit events say are of the right type.                                  *)
LEMMA HandlerFields ==
  ASSUME TypeOK, NEW a \in Handlers
  PROVE  /\ h[a] \in Handler
         /\ h[a].mem \in Memories
         /\ h[a].copy \in Row /\ h[a].new \in Row /\ h[a].seen \in Row
         /\ row[h[a].mem] \in Row
         /\ evidence[h[a].mem] \in Evidence
  BY DEF TypeOK, Handler

LEMMA TombstonedTyped ==
  ASSUME NEW r \in Row
  PROVE  /\ [r EXCEPT !.status = "deleted", !.deleted = TRUE, !.meta.tombstoned = TRUE, !.rev = @ + 1] \in Row
         /\ [r EXCEPT !.text = Nothing, !.vec = Nothing, !.meta.compacted = TRUE] \in Row
  <1>1. [r.meta EXCEPT !.tombstoned = TRUE] \in Meta /\ [r.meta EXCEPT !.compacted = TRUE] \in Meta
    BY DEF Row, Meta
  <1>2. r.rev + 1 \in Nat /\ "deleted" \in Statuses
    BY DEF Row, Statuses
  <1>3. [r EXCEPT !.status = "deleted", !.deleted = TRUE, !.meta.tombstoned = TRUE, !.rev = @ + 1] \in Row
    BY <1>1, <1>2 DEF Row
  <1>4. [r EXCEPT !.text = Nothing, !.vec = Nothing, !.meta.compacted = TRUE] \in Row
    BY <1>1 DEF Row
  <1> QED
    BY <1>3, <1>4

LEMMA BeginNextTyped ==
  ASSUME TypeOK, NEW a \in Handlers, BeginNext(a)
  PROVE  TypeOK'
  <1> DEFINE r == row[h[a].mem]
  <1>0. r \in Row /\ h[a].new \in Row
    BY HandlerFields
  <1>1. CASE BeginUpdate(a)
    <2>0. r.rev + 1 \in Nat /\ r.deleted \in BOOLEAN
      BY <1>0 DEF Row
    <2>1. [h[a].new EXCEPT !.deleted = r.deleted, !.rev = r.rev + 1] \in Row
      BY <1>0, <2>0 DEF Row
    <2> QED
      BY <1>1, <2>1, BeginTyped DEF BeginUpdate
  <1>2. CASE BeginDelete(a)
    BY <1>0, <1>2, TombstonedTyped, BeginTyped DEF BeginDelete
  <1>3. CASE BeginExpire(a)
    <2>1. [r EXCEPT !.status = "deleted", !.deleted = TRUE] \in Row
      BY <1>0 DEF Row, Statuses
    <2> QED
      BY <1>3, <2>1, BeginTyped DEF BeginExpire
  <1>4. CASE BeginCompaction(a)
    BY <1>0, <1>4, TombstonedTyped, BeginTyped DEF BeginCompaction
  <1>5. CASE BeginMerge(a)
    <2>1. Max2(r.importance, h[a].new.importance) \in 0..MaxImportance
      BY <1>0 DEF Row, Max2
    <2>0. r.rev + 1 \in Nat
      BY <1>0 DEF Row
    <2>2. [r EXCEPT !.importance = Max2(@, h[a].new.importance), !.rev = @ + 1] \in Row
      BY <1>0, <2>0, <2>1 DEF Row
    <2> QED
      BY <1>5, <2>2, BeginTyped DEF BeginMerge
  <1> QED
    BY <1>1, <1>2, <1>3, <1>4, <1>5 DEF BeginNext

LEMMA FlushTyped ==
  ASSUME NEW r \in Row, NEW seen \in Row, NEW new \in Row, NEW op
  PROVE  Flush(r, seen, new, op) \in Row
  BY DEF Flush, Row

LEMMA AuditedTyped ==
  ASSUME NEW e \in Evidence, NEW c \in Row, NEW new \in Row, NEW op
  PROVE  Audited(e, op, c, new) \in Evidence
  <1>0. /\ new.status \in Statuses /\ new.text \in Texts \cup {Nothing}
        /\ new.meta.flags \in SUBSET AllFlags /\ c.meta.flags \in SUBSET AllFlags
        /\ new.meta.consent \in Consents
    BY DEF Row, Meta
  <1>1. CASE op = "patch"
    BY <1>0, <1>1 DEF Audited, Evidence, Statuses
  <1>2. CASE op \in {"hold", "pin"}
    <2>1. ((e.flags \cup (new.meta.flags \ c.meta.flags)) \ (c.meta.flags \ new.meta.flags))
            \in SUBSET AllFlags
      BY <1>0 DEF Evidence
    <2> QED
      BY <1>2, <2>1 DEF Audited, Evidence
  <1>3. CASE op = "consent"
    BY <1>0, <1>3 DEF Audited, Evidence
  <1>4. CASE op = "decay"
    <2>1. (IF e.decays = 2 THEN 2 ELSE e.decays + 1) \in 0..2
      BY DEF Evidence
    <2> QED
      BY <1>4, <2>1 DEF Audited, Evidence
  <1>5. CASE op \in {"archive", "delete", "expire", "compaction"}
    BY <1>5 DEF Audited, Evidence, Statuses
  <1>6. CASE op \notin {"patch", "hold", "pin", "consent", "decay",
                       "archive", "delete", "expire", "compaction"}
    BY <1>6 DEF Audited
  <1> QED
    BY <1>1, <1>2, <1>3, <1>4, <1>5, <1>6

LEMMA CommitNextTyped ==
  ASSUME TypeOK, NEW a \in Handlers, CommitNext(a)
  PROVE  TypeOK'
  <1> USE HandlerFields
  <1>1. CASE Commit(a)
    <2>1. row' \in [Memories -> Row]
      BY <1>1, FlushTyped DEF Commit, TypeOK
    <2>2. evidence' \in [Memories -> Evidence]
      BY <1>1, AuditedTyped DEF Commit, TypeOK
    <2>3. [h[a] EXCEPT !.pc = "verify"] \in Handler
      BY DEF Handler
    <2>4. h' \in [Handlers -> Handler]
      BY <1>1, <2>3, IdleTyped DEF Commit, TypeOK
    <2> QED
      BY <2>1, <2>2, <2>4 DEF TypeOK
  <1>2. CASE CommitChecked(a)
    <2>0. row[h[a].mem].rev + 1 \in Nat /\ row[h[a].mem].deleted \in BOOLEAN
      BY DEF Row
    <2>1. [h[a].new EXCEPT !.deleted = row[h[a].mem].deleted, !.rev = row[h[a].mem].rev + 1] \in Row
      BY <2>0 DEF Row
    <2>2. row' \in [Memories -> Row]
      BY <1>2, <2>1 DEF CommitChecked, TypeOK
    <2>3. evidence' \in [Memories -> Evidence]
      BY <1>2, AuditedTyped DEF CommitChecked, TypeOK
    <2> QED
      BY <1>2, <2>2, <2>3, IdleAgainTyped DEF CommitChecked, TypeOK
  <1>3. CASE CommitCreate(a)
    <2>1. row' \in [Memories -> Row]
      BY <1>3 DEF CommitCreate, TypeOK
    <2>2. evidence' \in [Memories -> Evidence]
      BY <1>3, EvidenceOfTyped DEF CommitCreate, TypeOK
    <2> QED
      BY <1>3, <2>1, <2>2, IdleAgainTyped DEF CommitCreate, TypeOK
  <1>4. CASE VerifyPurge(a)
    <2>1. \A p \in {"verified", "failed"} :
            [evidence EXCEPT ![h[a].mem].purge = p] \in [Memories -> Evidence]
      BY DEF TypeOK, Evidence
    <2>2. evidence' \in [Memories -> Evidence]
      BY <1>4, <2>1 DEF VerifyPurge
    <2> QED
      BY <1>4, <2>2, IdleAgainTyped DEF VerifyPurge, TypeOK
  <1>5. CASE Abandon(a)
    BY <1>5, IdleAgainTyped DEF Abandon, TypeOK
  <1> QED
    BY <1>1, <1>2, <1>3, <1>4, <1>5 DEF CommitNext

LEMMA TypeNext == TypeOK /\ [Next]_vars => TypeOK'
  <1> SUFFICES ASSUME TypeOK, [Next]_vars PROVE TypeOK'
    OBVIOUS
  <1>1. ASSUME NEW a \in Handlers, LoadNext(a) PROVE TypeOK'
    BY <1>1, LoadIsSound, LoadTyped
  <1>2. ASSUME NEW a \in Handlers, BeginNext(a) PROVE TypeOK'
    BY <1>2, BeginNextTyped
  <1>3. ASSUME NEW a \in Handlers, CommitNext(a) PROVE TypeOK'
    BY <1>3, CommitNextTyped
  <1>4. CASE UNCHANGED vars
    BY <1>4 DEF vars, TypeOK
  <1> QED
    BY <1>1, <1>2, <1>3, <1>4 DEF Next

(* Every reachable state is well typed: rows, copies and evidence range     *)
(* over what the schema allows, whatever interleaving of handlers ran.      *)
THEOREM TypeCorrect == Spec => []TypeOK
  BY TypeInit, TypeNext, PTL DEF Spec

-----------------------------------------------------------------------------
(* Deletion.  StampInvariant is inductive: a load changes one handler's     *)
(* decision, a begin its write, a commit one row and its evidence.          *)

LEMMA StampInit == Init => StampInvariant
  <1> SUFFICES ASSUME Init PROVE StampInvariant
    OBVIOUS
  <1>1. ASSUME NEW r \in {Absent} \cup Newborn
        PROVE  ~r.deleted /\ r.status # "deleted" /\ (r.status = "absent" \/ r.text # Nothing)
    <2>1. CASE r = Absent
      BY <2>1 DEF Absent
    <2>2. CASE r \in Newborn
      <3>1. PICK text \in Texts \ Refused, vec \in {Nothing} \cup Texts, importance \in 0..MaxImportance :
              r = Born(text, vec, importance)
        BY <2>2 DEF Newborn
      <3>2. Gated(text) \in {"pending", "active"} /\ text # Nothing
        BY StoreAssumption DEF Gated
      <3> QED
        BY <3>1, <3>2 DEF Born, Absent
    <2> QED
      BY <2>1, <2>2
  <1>2. \A m \in Memories : row[m] \in {Absent} \cup Newborn /\ ~evidence[m].deleted
    BY DEF Init, EvidenceOf, NoEvidence
  <1>3. \A a \in Handlers : HandlerIsBacked(a)
    BY DEF Init, Idle, HandlerIsBacked
  <1> QED
    BY <1>1, <1>2, <1>3
       DEF StampInvariant, DeletedIsStamped, DeletionHasEvidence, ClearedOnlyIfDeleted

(* No step clears a deletion stamp or un-creates a row, so what backed an   *)
(* untouched handler still backs it.                                        *)
Kept ==
  \A m \in Memories :
    /\ row[m].deleted => row'[m].deleted
    /\ row[m].status # "absent" => row'[m].status # "absent"

LEMMA BackedIsKept ==
  ASSUME TypeOK, NEW b \in Handlers, HandlerIsBacked(b), Kept, h'[b] = h[b]
  PROVE  HandlerIsBacked(b)'
  <1>1. h[b].mem \in Memories
    BY HandlerFields
  <1>2. /\ row[h[b].mem].deleted => row'[h[b].mem].deleted
        /\ row[h[b].mem].status # "absent" => row'[h[b].mem].status # "absent"
    BY <1>1 DEF Kept
  <1> QED
    BY <1>2 DEF HandlerIsBacked

LEMMA StampLoad ==
  ASSUME TypeOK, StampInvariant, NEW a \in Handlers, LoadNext(a)
  PROVE  StampInvariant'
  <1>1. PICK m \in Memories, o \in CopyOps \cup FreshOps \cup {"create"}, new \in Row, rev \in Nat :
          Load(a, o, m, new, rev) /\ Sound(o, m, new, rev)
    BY LoadIsSound
  <1>2. Kept /\ row' = row /\ evidence' = evidence
    BY <1>1 DEF Load, Kept
  <1>3. h'[a] = [pc |-> "loaded", op |-> o, mem |-> m, copy |-> row[m],
                 new |-> new, seen |-> Absent, rev |-> rev]
    BY <1>1 DEF Load, TypeOK
  <1>4. HandlerIsBacked(a)'
    BY <1>1, <1>2, <1>3
       DEF HandlerIsBacked, Sound, StampInvariant, DeletedIsStamped, ClearedOnlyIfDeleted
  <1>5. ASSUME NEW b \in Handlers, b # a PROVE HandlerIsBacked(b)'
    <2>1. h'[b] = h[b]
      BY <1>1, <1>5 DEF Load, TypeOK
    <2> QED
      BY <1>2, <2>1, BackedIsKept DEF StampInvariant
  <1> QED
    BY <1>2, <1>4, <1>5
       DEF StampInvariant, DeletedIsStamped, DeletionHasEvidence, ClearedOnlyIfDeleted

(* What each transaction would write, given the row its first SELECT read.  *)
LEMMA StampBegin ==
  ASSUME TypeOK, StampInvariant, NEW a \in Handlers, BeginNext(a)
  PROVE  StampInvariant'
  <1> DEFINE r == row[h[a].mem]
  <1>0. r \in Row /\ h[a].new \in Row /\ h[a].mem \in Memories /\ h[a] \in Handler
    BY HandlerFields
  <1>1. PICK ops \in SUBSET (CopyOps \cup FreshOps), new \in Row :
          /\ Begin(a, ops, new)
          /\ new.deleted <=> h[a].op \in {"delete", "expire"} \/ r.deleted
          /\ new.status # "absent"
          /\ new.text = Nothing => r.deleted
          /\ new.status = "deleted" => new.deleted \/ r.deleted
          /\ h[a].op \in CopyOps => new.status = "deleted" \/ h[a].copy.status # "deleted"
          /\ h[a].op \in FreshOps => new.status \in {r.status, "deleted"}
    <2> DEFINE Goal ==
          \E ops \in SUBSET (CopyOps \cup FreshOps), new \in Row :
            /\ Begin(a, ops, new)
            /\ new.deleted <=> h[a].op \in {"delete", "expire"} \/ r.deleted
            /\ new.status # "absent"
            /\ new.text = Nothing => r.deleted
            /\ new.status = "deleted" => new.deleted \/ r.deleted
            /\ h[a].op \in CopyOps => new.status = "deleted" \/ h[a].copy.status # "deleted"
            /\ h[a].op \in FreshOps => new.status \in {r.status, "deleted"}
    <2>a. h[a].pc = "loaded" /\ h[a].op # "create"
      BY DEF BeginNext, BeginUpdate, BeginDelete, BeginExpire, BeginCompaction, BeginMerge,
             Begin, CopyOps
    <2>b. HandlerIsBacked(a) /\ r.status # "absent"
      BY <2>a DEF StampInvariant, HandlerIsBacked
    <2>c. (r.status = "deleted" => r.deleted) /\ (r.text = Nothing => r.deleted)
      BY <1>0, <2>b DEF StampInvariant, DeletedIsStamped, ClearedOnlyIfDeleted
    <2>d. r.deleted \in BOOLEAN /\ r.rev + 1 \in Nat
      BY <1>0 DEF Row
    <2>0. /\ h[a].pc = "loaded" /\ h[a].op # "create"
          /\ HandlerIsBacked(a) /\ r.status # "absent"
          /\ (r.status = "deleted" => r.deleted) /\ (r.text = Nothing => r.deleted)
          /\ r.deleted \in BOOLEAN /\ r.rev + 1 \in Nat
      BY <2>a, <2>b, <2>c, <2>d
    <2>1. CASE BeginUpdate(a)
      <3> DEFINE new == [h[a].new EXCEPT !.deleted = r.deleted, !.rev = r.rev + 1]
      <3>1. new \in Row /\ new.deleted = r.deleted /\ new.status = h[a].new.status
            /\ new.text = h[a].new.text
        BY <1>0, <2>0 DEF Row
      <3>2. Begin(a, CopyOps, new) /\ h[a].op \in CopyOps
        BY <2>1 DEF BeginUpdate, Begin
      <3>3. h[a].op \notin {"delete", "expire"} \cup FreshOps
        BY <3>2 DEF CopyOps, FreshOps
      <3> HIDE DEF new
      <3>4. /\ new.status # "absent"
            /\ new.status = "deleted" \/ new.text = Nothing => r.deleted
            /\ new.status = "deleted" \/ h[a].copy.status # "deleted"
        BY <2>0, <3>1, <3>2 DEF HandlerIsBacked
      <3> QED
        BY <3>1, <3>2, <3>3, <3>4
    <2>2. CASE BeginDelete(a)
      <3> DEFINE new == [r EXCEPT !.status = "deleted", !.deleted = TRUE,
                                  !.meta.tombstoned = TRUE, !.rev = @ + 1]
      <3>1. new \in Row /\ new.deleted = TRUE /\ new.status = "deleted" /\ new.text = r.text
        BY <1>0, TombstonedTyped DEF Row
      <3>2. Begin(a, {"delete"}, new) /\ h[a].op = "delete"
        BY <2>2 DEF BeginDelete, Begin
      <3> QED
        BY <2>0, <3>1, <3>2 DEF CopyOps, FreshOps
    <2>3. CASE BeginExpire(a)
      <3> DEFINE new == [r EXCEPT !.status = "deleted", !.deleted = TRUE]
      <3>1. new \in Row /\ new.deleted = TRUE /\ new.status = "deleted" /\ new.text = r.text
        BY <1>0 DEF Row, Statuses
      <3>2. Begin(a, {"expire"}, new) /\ h[a].op = "expire"
        BY <2>3 DEF BeginExpire, Begin
      <3> QED
        BY <2>0, <3>1, <3>2 DEF CopyOps, FreshOps
    <2>4. CASE BeginCompaction(a)
      <3> DEFINE new == [r EXCEPT !.text = Nothing, !.vec = Nothing, !.meta.compacted = TRUE]
      <3>1. new \in Row /\ new.deleted = r.deleted /\ new.status = r.status /\ new.text = Nothing
        BY <1>0, TombstonedTyped DEF Row
      <3>2. Begin(a, {"compaction"}, new) /\ h[a].op = "compaction" /\ r.status = "deleted"
        BY <2>4 DEF BeginCompaction, Begin, Purgeable
      <3> QED
        BY <2>0, <3>1, <3>2 DEF CopyOps, FreshOps
    <2>5. CASE BeginMerge(a)
      <3> DEFINE new == [r EXCEPT !.importance = Max2(@, h[a].new.importance), !.rev = @ + 1]
      <3>0. Max2(r.importance, h[a].new.importance) \in 0..MaxImportance
        BY <1>0 DEF Row, Max2
      <3>1. new \in Row /\ new.deleted = r.deleted /\ new.status = r.status /\ new.text = r.text
        BY <1>0, <2>0, <3>0 DEF Row
      <3>2. Begin(a, {"merge"}, new) /\ h[a].op = "merge"
        BY <2>5 DEF BeginMerge, Begin
      <3> QED
        BY <2>0, <3>1, <3>2 DEF CopyOps, FreshOps
    <2> QED
      BY <2>1, <2>2, <2>3, <2>4, <2>5 DEF BeginNext
  <1>2. Kept /\ row' = row /\ evidence' = evidence
    BY <1>1 DEF Begin, Kept
  <1>3. h'[a] = [h[a] EXCEPT !.pc = "open", !.seen = r, !.new = new]
    BY <1>1 DEF Begin, TypeOK
  <1>4. HandlerIsBacked(a)'
    <2>1. /\ h'[a].pc = "open" /\ h'[a].seen = r /\ h'[a].new = new
          /\ h'[a].op = h[a].op /\ h'[a].mem = h[a].mem /\ h'[a].copy = h[a].copy
      BY <1>0, <1>3 DEF Handler
    <2>2. h[a].op \in CopyOps \cup FreshOps /\ r.status # "absent"
      BY <1>0, <1>1 DEF Begin, StampInvariant, HandlerIsBacked, CopyOps, FreshOps
    <2> QED
      BY <1>1, <1>2, <2>1, <2>2 DEF HandlerIsBacked
  <1>5. ASSUME NEW b \in Handlers, b # a PROVE HandlerIsBacked(b)'
    <2>1. h'[b] = h[b]
      BY <1>1, <1>5 DEF Begin, TypeOK
    <2> QED
      BY <1>2, <2>1, BackedIsKept DEF StampInvariant
  <1> QED
    BY <1>2, <1>4, <1>5
       DEF StampInvariant, DeletedIsStamped, DeletionHasEvidence, ClearedOnlyIfDeleted

(* An audit event speaks of deletion exactly when its handler deletes.      *)
LEMMA AuditedDeletion ==
  ASSUME NEW e \in Evidence, NEW c \in Row, NEW new \in Row, NEW op
  PROVE  Audited(e, op, c, new).deleted <=> e.deleted \/ op \in {"delete", "expire"}
  <1>1. CASE op \in {"patch", "hold", "pin", "consent", "decay"}
    BY <1>1 DEF Audited, Evidence
  <1>2. CASE op \in {"archive", "delete", "expire", "compaction"}
    BY <1>2 DEF Audited, Evidence
  <1>3. CASE op \notin {"patch", "hold", "pin", "consent", "decay",
                       "archive", "delete", "expire", "compaction"}
    BY <1>3 DEF Audited
  <1> QED
    BY <1>1, <1>2, <1>3

(* The committed row after a flush, for an open handler that is backed.     *)
LEMMA FlushedRow ==
  ASSUME TypeOK, StampInvariant, NEW a \in Handlers, Commit(a)
  PROVE  LET m == h[a].mem  op == h[a].op IN
         /\ row'[m].deleted <=> row[m].deleted \/ op \in {"delete", "expire"}
         /\ row'[m].status \in {row[m].status, h[a].new.status} /\ row'[m].status # "absent"
         /\ row'[m].status = "deleted" => row'[m].deleted
         /\ row'[m].text = Nothing => row'[m].deleted
         /\ evidence'[m].deleted <=> row'[m].deleted
         /\ row'[m].status # row[m].status => h[a].new.status # h[a].seen.status
  <1> DEFINE m == h[a].mem
             op == h[a].op
             r == row[m]
             seen == h[a].seen
             new == h[a].new
  <1>1. /\ m \in Memories /\ r \in Row /\ seen \in Row /\ new \in Row
        /\ h[a].copy \in Row /\ evidence[m] \in Evidence
    BY HandlerFields
  <1>2. /\ row'[m] = Flush(r, seen, new, op)
        /\ evidence'[m] = Audited(evidence[m], op, h[a].copy, new)
    BY <1>1 DEF Commit, TypeOK
  <1>3. /\ h[a].pc = "open" /\ op # "create" /\ HandlerIsBacked(a)
        /\ r.status # "absent"
    BY DEF Commit, StampInvariant, HandlerIsBacked, CopyOps, FreshOps
  <1>4. /\ r.status = "deleted" => r.deleted
        /\ r.text = Nothing => r.deleted
        /\ evidence[m].deleted <=> r.deleted
    BY <1>1, <1>3 DEF StampInvariant, DeletedIsStamped, ClearedOnlyIfDeleted, DeletionHasEvidence
  <1>5. /\ seen.deleted => r.deleted
        /\ new.deleted <=> op \in {"delete", "expire"} \/ seen.deleted
        /\ new.status # "absent"
        /\ new.text = Nothing => r.deleted
        /\ new.status = "deleted" => new.deleted \/ r.deleted
    BY <1>3 DEF HandlerIsBacked
  <1>6. row'[m].deleted = (IF new.deleted # seen.deleted THEN new.deleted ELSE r.deleted)
    BY <1>2 DEF Flush
  <1>7. r.deleted \in BOOLEAN /\ seen.deleted \in BOOLEAN /\ new.deleted \in BOOLEAN
    BY <1>1 DEF Row
  <1>8. row'[m].deleted <=> r.deleted \/ op \in {"delete", "expire"}
    BY <1>5, <1>6, <1>7
  <1>9. row'[m].status = (IF new.status # seen.status THEN new.status ELSE r.status)
        /\ row'[m].text = (IF new.text # seen.text THEN new.text ELSE r.text)
    BY <1>2 DEF Flush
  <1>10. evidence'[m].deleted <=> evidence[m].deleted \/ op \in {"delete", "expire"}
    BY <1>1, <1>2, AuditedDeletion
  <1> HIDE DEF m, op, r, seen, new
  <1>11. (new.deleted \/ r.deleted) => row'[m].deleted
    BY <1>5, <1>8
  <1>12. /\ row'[m].status \in {r.status, new.status} /\ row'[m].status # "absent"
         /\ row'[m].status = "deleted" => row'[m].deleted
         /\ row'[m].text = Nothing => row'[m].deleted
         /\ row'[m].status # r.status => new.status # seen.status
    BY <1>3, <1>4, <1>5, <1>9, <1>11
  <1> QED
    BY <1>4, <1>8, <1>10, <1>12 DEF m, op, r, seen, new

LEMMA StampCommit ==
  ASSUME TypeOK, StampInvariant, NEW a \in Handlers, CommitNext(a)
  PROVE  StampInvariant'
  <1> DEFINE m == h[a].mem
  <1>0. m \in Memories
    BY HandlerFields
  <1>a. ASSUME Kept,
               h'[a] = Idle \/ (h[a].pc = "open" /\ h'[a] = [h[a] EXCEPT !.pc = "verify"]),
               \A b \in Handlers \ {a} : h'[b] = h[b]
        PROVE  \A b \in Handlers : HandlerIsBacked(b)'
    <2>1. CASE h'[a] = Idle
      BY <1>a, <2>1, BackedIsKept DEF Idle, HandlerIsBacked, StampInvariant
    <2>2. CASE h[a].pc = "open" /\ h'[a] = [h[a] EXCEPT !.pc = "verify"]
      <3>1. h'[a].pc = "verify" /\ h'[a].mem = m /\ h'[a].op = h[a].op
            /\ h'[a].rev = h[a].rev
        BY <2>2, HandlerFields DEF Handler
      <3>2. HandlerIsBacked(a)'
        BY <1>0, <1>a, <2>2, <3>1 DEF HandlerIsBacked, StampInvariant, Kept
      <3> QED
        BY <1>a, <3>2, BackedIsKept DEF StampInvariant
    <2> QED
      BY <1>a, <2>1, <2>2
  <1>1. CASE Commit(a)
    <2>1. \A n \in Memories \ {m} : row'[n] = row[n] /\ evidence'[n] = evidence[n]
      BY <1>1 DEF Commit, TypeOK
    <2>2. row[m].status # "absent"
      BY <1>1 DEF Commit, StampInvariant, HandlerIsBacked, CopyOps, FreshOps
    <2>3. Kept
      BY <1>1, <2>1, FlushedRow DEF Kept
    <2>4. \A b \in Handlers : HandlerIsBacked(b)'
      BY <1>1, <1>a, <2>3 DEF Commit, TypeOK
    <2>5. DeletedIsStamped' /\ DeletionHasEvidence' /\ ClearedOnlyIfDeleted'
      BY <1>1, <2>1, <2>2, FlushedRow
         DEF StampInvariant, DeletedIsStamped, DeletionHasEvidence, ClearedOnlyIfDeleted
    <2> QED
      BY <2>4, <2>5 DEF StampInvariant
  <1>2. CASE CommitChecked(a)
    <2> DEFINE new == h[a].new
    <2>0. row[m] \in Row /\ new \in Row /\ h[a].copy \in Row /\ evidence[m] \in Evidence
      BY HandlerFields
    <2>1. \A n \in Memories \ {m} : row'[n] = row[n] /\ evidence'[n] = evidence[n]
      BY <1>2 DEF CommitChecked, TypeOK
    <2>2. /\ row'[m] = [new EXCEPT !.deleted = row[m].deleted, !.rev = row[m].rev + 1]
          /\ evidence'[m] = Audited(evidence[m], "patch", h[a].copy, new)
      BY <1>2, <1>0 DEF CommitChecked, TypeOK
    <2>3. row'[m].deleted = row[m].deleted /\ row'[m].status = new.status
          /\ row'[m].text = new.text
      BY <2>0, <2>2 DEF Row
    <2>4. evidence'[m].deleted <=> evidence[m].deleted
      BY <2>0, <2>2, AuditedDeletion
    <2>5. h[a].pc = "loaded" /\ h[a].op = "patch" /\ HandlerIsBacked(a)
      BY <1>2 DEF CommitChecked, StampInvariant, HandlerIsBacked
    <2>6. /\ new.status # "absent"
          /\ new.status = "deleted" \/ new.text = Nothing => row[m].deleted
          /\ row[m].status # "absent"
      BY <2>5 DEF HandlerIsBacked, CopyOps
    <2> HIDE DEF new
    <2>7. Kept
      BY <2>1, <2>3, <2>6 DEF Kept
    <2>8. \A b \in Handlers : HandlerIsBacked(b)'
      BY <1>2, <1>a, <2>7 DEF CommitChecked, TypeOK
    <2>9. DeletedIsStamped' /\ DeletionHasEvidence' /\ ClearedOnlyIfDeleted'
      BY <2>1, <2>3, <2>4, <2>6
         DEF StampInvariant, DeletedIsStamped, DeletionHasEvidence, ClearedOnlyIfDeleted
    <2> QED
      BY <2>8, <2>9 DEF StampInvariant
  <1>3. CASE CommitCreate(a)
    <2>1. PICK n \in Memories :
            /\ row[n].status = "absent"
            /\ row' = [row EXCEPT ![n] = h[a].new]
            /\ evidence' = [evidence EXCEPT ![n] = EvidenceOf(h[a].new)]
      BY <1>3 DEF CommitCreate
    <2>2. h[a].new.status \notin {"absent", "deleted"} /\ h[a].new.text # Nothing
          /\ ~h[a].new.deleted
      BY <1>3 DEF CommitCreate, StampInvariant, HandlerIsBacked
    <2>3. row'[n] = h[a].new /\ ~evidence'[n].deleted
          /\ \A k \in Memories \ {n} : row'[k] = row[k] /\ evidence'[k] = evidence[k]
      BY <2>1 DEF EvidenceOf, NoEvidence, TypeOK
    <2>4. ~row[n].deleted
      BY <2>1 DEF StampInvariant, DeletedIsStamped
    <2>5. Kept
      BY <2>2, <2>3, <2>4 DEF Kept
    <2>6. \A b \in Handlers : HandlerIsBacked(b)'
      BY <1>3, <1>a, <2>5 DEF CommitCreate, TypeOK
    <2>7. DeletedIsStamped' /\ DeletionHasEvidence' /\ ClearedOnlyIfDeleted'
      BY <2>2, <2>3
         DEF StampInvariant, DeletedIsStamped, DeletionHasEvidence, ClearedOnlyIfDeleted
    <2> QED
      BY <2>6, <2>7 DEF StampInvariant
  <1>4. CASE VerifyPurge(a)
    <2>1. row' = row /\ \A n \in Memories : evidence'[n].deleted = evidence[n].deleted
      BY <1>4 DEF VerifyPurge, TypeOK, Evidence
    <2>2. \A b \in Handlers : HandlerIsBacked(b)'
      BY <1>4, <1>a, <2>1 DEF VerifyPurge, TypeOK, Kept
    <2> QED
      BY <2>1, <2>2
         DEF StampInvariant, DeletedIsStamped, DeletionHasEvidence, ClearedOnlyIfDeleted
  <1>5. CASE Abandon(a)
    <2>1. \A b \in Handlers : HandlerIsBacked(b)'
      BY <1>5, <1>a DEF Abandon, TypeOK, Kept
    <2> QED
      BY <1>5, <2>1 DEF Abandon, StampInvariant, DeletedIsStamped, DeletionHasEvidence,
                        ClearedOnlyIfDeleted
  <1> QED
    BY <1>1, <1>2, <1>3, <1>4, <1>5 DEF CommitNext

LEMMA StampNext == TypeOK /\ StampInvariant /\ [Next]_vars => StampInvariant'
  <1> SUFFICES ASSUME TypeOK, StampInvariant, [Next]_vars PROVE StampInvariant'
    OBVIOUS
  <1>1. CASE Next
    BY <1>1, StampLoad, StampBegin, StampCommit DEF Next
  <1>2. CASE UNCHANGED vars
    <2>1. row' = row /\ h' = h /\ evidence' = evidence
      BY <1>2 DEF vars
    <2>2. \A b \in Handlers : HandlerIsBacked(b)'
      BY <2>1 DEF StampInvariant, HandlerIsBacked
    <2> QED
      BY <2>1, <2>2
         DEF StampInvariant, DeletedIsStamped, DeletionHasEvidence, ClearedOnlyIfDeleted
  <1> QED
    BY <1>1, <1>2

(* The strengthening holds of every reachable state: a deletion stamp, once *)
(* seen by any handler, is still there when that handler writes.            *)
THEOREM StampsAreKept == Spec => []StampInvariant
  BY TypeInit, TypeNext, StampInit, StampNext, PTL DEF Spec

(* For any number of memories and handlers, the deletion stamp of a row and *)
(* the deletion event in the audit trail appear together and stay.          *)
THEOREM DeletionIsEvident == Spec => []DeletionHasEvidence
  <1>1. StampInvariant => DeletionHasEvidence
    BY DEF StampInvariant
  <1> QED
    BY <1>1, StampsAreKept, PTL

(* Content is destroyed only for a memory already stamped deleted, even     *)
(* when compaction races a PATCH or a worker holding a stale copy.          *)
THEOREM ClearedContentWasDeleted == Spec => []ClearedOnlyIfDeleted
  <1>1. StampInvariant => ClearedOnlyIfDeleted
    BY DEF StampInvariant
  <1> QED
    BY <1>1, StampsAreKept, PTL

(* A memory the audit trail calls deleted never returns to ranked search,   *)
(* even if a stale copy has put its status back to active.                  *)
THEOREM DeletedStaysUnsearchable == Spec => []DeletedNeverSearched
  <1>1. StampInvariant => DeletedNeverSearched
    BY DEF StampInvariant, DeletionHasEvidence, DeletedNeverSearched, SearchCandidates
  <1> QED
    BY <1>1, StampsAreKept, PTL

LEMMA StaleCopyStep ==
  ASSUME TypeOK, StampInvariant, [Next]_vars, NEW n \in Memories,
         row[n].status = "deleted", row'[n].status # "deleted"
  PROVE  \E a \in Handlers :
           /\ h[a].mem = n /\ h[a].op \in CopyOps
           /\ h[a].copy.status # "deleted" /\ h'[a].pc = "idle"
  <1>1. row' # row
    OBVIOUS
  <1>2. PICK a \in Handlers : CommitNext(a)
    <2>1. ASSUME NEW a \in Handlers, LoadNext(a) PROVE row' = row
      BY <2>1, LoadIsSound DEF Load
    <2>2. ASSUME NEW a \in Handlers, BeginNext(a) PROVE row' = row
      BY <2>2 DEF BeginNext, BeginUpdate, BeginDelete, BeginExpire, BeginCompaction,
                  BeginMerge, Begin
    <2> QED
      BY <1>1, <2>1, <2>2 DEF Next, vars
  <1>3. CASE Commit(a)
    <2>1. h[a].mem = n
      BY <1>3, HandlerFields DEF Commit, TypeOK
    <2>2. /\ row'[n].status = h[a].new.status
          /\ h[a].new.status # "deleted" /\ h[a].new.status # h[a].seen.status
      BY <1>3, <2>1, FlushedRow
    <2>3. h[a].pc = "open" /\ HandlerIsBacked(a)
      BY <1>3 DEF Commit, StampInvariant
    <2>4. h[a].op \in CopyOps /\ h[a].copy.status # "deleted"
      BY <2>2, <2>3 DEF HandlerIsBacked
    <2>5. h'[a].pc = "idle"
      BY <1>3, <2>4 DEF Commit, TypeOK, Idle, CopyOps
    <2> QED
      BY <2>1, <2>4, <2>5
  <1>4. CASE CommitChecked(a)
    <2>1. h[a].mem = n /\ row'[n].status = h[a].new.status
      BY <1>4, HandlerFields DEF CommitChecked, TypeOK, Row
    <2>2. h[a].pc = "loaded" /\ h[a].op = "patch" /\ HandlerIsBacked(a)
      BY <1>4 DEF CommitChecked, StampInvariant, HandlerIsBacked
    <2>3. h[a].op \in CopyOps /\ h[a].copy.status # "deleted"
      BY <2>1, <2>2 DEF HandlerIsBacked, CopyOps
    <2>4. h'[a].pc = "idle"
      BY <1>4 DEF CommitChecked, TypeOK, Idle
    <2> QED
      BY <2>1, <2>3, <2>4
  <1>5. CASE CommitCreate(a)
    BY <1>5 DEF CommitCreate, TypeOK
  <1>6. CASE VerifyPurge(a) \/ Abandon(a)
    BY <1>1, <1>6 DEF VerifyPurge, Abandon
  <1> QED
    BY <1>2, <1>3, <1>4, <1>5, <1>6 DEF CommitNext

(* Resurrection has one cause: a handler that loaded its copy before the    *)
(* deletion and writes that copy back.  Deleting, merging, compacting and   *)
(* creating cannot cause it, for any number of handlers.                    *)
THEOREM ResurrectionNeedsStaleCopy == Spec => OnlyStaleCopyResurrects
  <1>1. TypeOK /\ StampInvariant /\ [Next]_vars =>
          [\A m \in Memories :
             row[m].status = "deleted" /\ row'[m].status # "deleted" =>
               \E a \in Handlers :
                 /\ h[a].mem = m
                 /\ h[a].op \in CopyOps
                 /\ h[a].copy.status # "deleted"
                 /\ h'[a].pc = "idle"]_vars
    BY StaleCopyStep
  <1> QED
    BY <1>1, TypeCorrect, StampsAreKept, PTL DEF Spec, OnlyStaleCopyResurrects

-----------------------------------------------------------------------------
(* Handlers kept apart: when no two of them are at work on the same memory *)
(* at the same time, each handler's load, begin and commit are one change  *)
(* of the row, and what the runs show false of overlapping handlers holds  *)
(* for every number of them.                                               *)

AtWork(a) == h[a].pc # "idle" /\ h[a].op # "create"

(* The schedule: overlapping handlers are at work on different memories.    *)
(* One handler is always apart; so are any number on distinct memories.     *)
Apart ==
  \A a, b \in Handlers : a # b /\ AtWork(a) /\ AtWork(b) => h[a].mem # h[b].mem

\* What must hold of a row when a handler picks it.
Due(o, c) ==
  /\ o = "patch" => c.status # "deleted"
  /\ o = "delete" => ~Held(c)
  /\ o = "decay" => Decayable(c)
  /\ o = "archive" => Archivable(c)
  /\ o = "expire" => c.status = "active" /\ ~Exempt(c)
  /\ o = "compaction" => Purgeable(c) /\ ~Held(c)

\* A PATCH transitions a row, or edits its content, or both.
Repatched(c, n) ==
  \/ /\ n.text = c.text /\ n.vec = c.vec
     /\ n.status = c.status \/ <<c.status, n.status>> \in AllowedTransitions
  \/ /\ ~Held(c) /\ n.text \in Texts /\ n.vec \in {n.text, Nothing}
     /\ \/ n.status = IF Gated(n.text) = "pending" THEN "pending" ELSE c.status
        \/ <<c.status, n.status>> \in AllowedTransitions

(* The whole effect of operation o on a row c that nobody else touches, its *)
(* revision aside: which column each operation may change, and to what.     *)
Changes(o, c, n) ==
  /\ Due(o, c)
  /\ o = "patch" => Repatched(c, n)
  /\ o = "archive" => n.status = "archived"
  /\ o \in {"delete", "expire"} => n.status = "deleted" /\ n.deleted
  /\ o \notin {"patch", "archive", "delete", "expire"} => n.status = c.status
  /\ o \notin {"delete", "expire"} => n.deleted = c.deleted
  /\ o = "compaction" => n.text = Nothing /\ n.vec = Nothing
  /\ o \notin {"patch", "compaction"} => n.text = c.text /\ n.vec = c.vec
  /\ o \notin {"hold", "pin"} => n.meta.flags = c.meta.flags
  /\ o # "consent" => n.meta.consent = c.meta.consent
  /\ o # "decay" => n.meta.decayed = c.meta.decayed
  /\ o = "decay" => n.meta.decayed
  /\ o # "archive" => n.meta.archived = c.meta.archived

\* The committed row of a memory and its audit events tell one story.
Fits(r, e) ==
  /\ e.status = r.status /\ e.text = r.text
  /\ e.flags = r.meta.flags /\ e.consent = r.meta.consent
  /\ r.status = "absent" => r.meta.flags = {}
  /\ r.vec \in {r.text, Nothing}
  /\ e.decays = IF r.meta.decayed THEN 1 ELSE 0
  /\ e.purge = "verified" => r.status = "deleted" /\ r.text = Nothing /\ r.vec = Nothing
  /\ RequireApproval /\ r.status \in {"active", "archived"} /\ r.text \in Sensitive
       => e.approved \/ e.mixed

\* A handler's copy is the committed row, and what it would write is its change.
Current(a) ==
  LET m == h[a].mem  op == h[a].op  copy == h[a].copy  new == h[a].new IN
  /\ AtWork(a) => row[m].status # "absent"
  /\ h[a].pc = "loaded" /\ op = "create" => new \in Newborn
  /\ h[a].pc = "loaded" /\ op # "create" =>
       copy = row[m] /\ Due(op, copy) /\ (op \in CopyOps => Changes(op, copy, new))
  /\ h[a].pc = "loaded" /\ h[a].rev # 0 => op = "patch"
  /\ h[a].pc = "verify" => op = "compaction"
  /\ h[a].pc = "open" =>
       op # "create" /\ copy = row[m] /\ h[a].seen = row[m] /\ Changes(op, copy, new)

(* What makes the store serial: rows fit their evidence, and every copy a   *)
(* handler holds is the row as it is.                                       *)
ApartInvariant ==
  /\ \A m \in Memories : Fits(row[m], evidence[m])
  /\ \A a \in Handlers : Current(a)

-----------------------------------------------------------------------------
(* What a load decides, operation by operation.                             *)
Decided(o, c, new, rev) ==
  /\ o = "create" => new \in Newborn
  /\ o # "create" => c.status # "absent" /\ Due(o, c)
  /\ o \in CopyOps => Changes(o, c, new)
  /\ rev # 0 => o = "patch"

LEMMA PatchIsDecided ==
  ASSUME TypeOK, NEW a \in Handlers, NEW m \in Memories, LoadPatch(a, m)
  PROVE  \E new, rev : Load(a, "patch", m, new, rev) /\ Decided("patch", row[m], new, rev)
  <1>0. PICK text \in Texts \cup {Nothing},
             target \in {NoTarget, "active", "archived", "rejected"},
             importance \in 0..MaxImportance, rev \in Expected(row[m]) :
          /\ target # NoTarget => <<row[m].status, target>> \in AllowedTransitions
          /\ text # Nothing => ~Held(row[m])
          /\ \E vec \in {text, Nothing} :
               Load(a, "patch", m, Patched(row[m], text, vec, target, importance), rev)
    BY DEF LoadPatch
  <1>2. PICK vec \in {text, Nothing} :
          Load(a, "patch", m, Patched(row[m], text, vec, target, importance), rev)
    BY <1>0
  <1> DEFINE c == row[m]
             e == IF text = Nothing THEN c ELSE Edited(c, text, vec)
             new == Patched(c, text, vec, target, importance)
  <1>1. c \in Row /\ c.status \notin {"absent", "deleted"} /\ vec \in Texts \cup {Nothing}
    BY <1>2 DEF TypeOK, LoadPatch, CanLoad, Patchable
  <1>3. e \in Row /\ (text = Nothing => e = c)
        /\ (text # Nothing =>
              /\ e.text = text /\ e.vec = vec /\ text \in Texts
              /\ e.status = IF Gated(text) = "pending" THEN "pending" ELSE c.status)
        /\ e.meta = c.meta /\ e.deleted = c.deleted
    <2>1. CASE text = Nothing
      BY <1>1, <2>1
    <2>2. CASE text # Nothing
      <3>1. text \in Texts /\ e = Edited(c, text, vec) /\ e \in Row
        BY <1>1, <2>2, EditedTyped
      <3> QED
        BY <1>1, <2>2, <3>1 DEF Edited, Row
    <2> QED
      BY <2>1, <2>2
  <1>4. /\ new.text = e.text /\ new.vec = e.vec /\ new.meta = e.meta /\ new.deleted = e.deleted
        /\ new.status = IF target = NoTarget THEN e.status ELSE target
    BY <1>3 DEF Patched, Row
  <1> HIDE DEF new, e, c
  <1>5. Repatched(c, new)
    <2>1. CASE text = Nothing
      BY <1>0, <1>3, <1>4, <2>1 DEF Repatched, c
    <2>2. CASE text # Nothing
      <3>1. new.text = text /\ new.vec = vec /\ text \in Texts /\ ~Held(c)
        BY <1>0, <1>3, <1>4, <2>2 DEF c
      <3>2. \/ new.status = IF Gated(text) = "pending" THEN "pending" ELSE c.status
            \/ <<c.status, new.status>> \in AllowedTransitions
        BY <1>0, <1>3, <1>4, <2>2 DEF c
      <3> QED
        BY <1>2, <3>1, <3>2 DEF Repatched
    <2> QED
      BY <2>1, <2>2
  <1>6. Due("patch", c)
    BY <1>1 DEF Due
  <1>7. Changes("patch", c, new)
    BY <1>3, <1>4, <1>5, <1>6 DEF Changes
  <1>8. Decided("patch", c, new, rev)
    BY <1>1, <1>6, <1>7 DEF Decided, CopyOps
  <1> QED
    BY <1>2, <1>8 DEF new, c

LEMMA LoadIsDecided ==
  ASSUME TypeOK, NEW a \in Handlers, LoadNext(a)
  PROVE  \E m \in Memories : \E o, new, rev :
           Load(a, o, m, new, rev) /\ Decided(o, row[m], new, rev)
  <1> DEFINE Goal == \E m \in Memories : \E o, new, rev :
                       Load(a, o, m, new, rev) /\ Decided(o, row[m], new, rev)
  <1>0. ASSUME NEW m \in Memories, NEW o, NEW new, NEW rev,
               Load(a, o, m, new, rev), Decided(o, row[m], new, rev)
        PROVE  Goal
    BY <1>0
  <1> HIDE DEF Goal
  <1>r. \A m \in Memories : row[m] \in Row
    BY DEF TypeOK
  <1>1. ASSUME Evaluate(a) PROVE Goal
    <2>1. PICK cand \in Newborn :
            \/ Load(a, "create", Idle.mem, cand, 0)
            \/ \E m \in Memories : row[m].status = "active" /\ Load(a, "merge", m, cand, 0)
      BY <1>1 DEF Evaluate
    <2>2. CASE Load(a, "create", Idle.mem, cand, 0)
      <3>1. Decided("create", row[Idle.mem], cand, 0) /\ Idle.mem \in Memories
        BY IdleTyped DEF Decided, CopyOps, Handler
      <3> QED
        BY <2>2, <3>1, <1>0
    <2>3. ASSUME NEW m \in Memories, row[m].status = "active", Load(a, "merge", m, cand, 0)
          PROVE  Goal
      <3>1. Decided("merge", row[m], cand, 0)
        BY <2>3 DEF Decided, CopyOps, Due
      <3> QED
        BY <2>3, <3>1, <1>0
    <2> QED
      BY <2>1, <2>2, <2>3
  <1>2. ASSUME NEW m \in Memories, LoadPatch(a, m) PROVE Goal
    BY <1>2, PatchIsDecided, <1>0
  <1>3. ASSUME NEW m \in Memories, LoadDelete(a, m) PROVE Goal
    <2>1. Load(a, "delete", m, Absent, 0) /\ Decided("delete", row[m], Absent, 0)
      BY <1>3 DEF LoadDelete, Deletable, CanLoad, Decided, CopyOps, Due
    <2> QED
      BY <2>1, <1>0
  <1>4. ASSUME NEW m \in Memories, LoadFlag(a, m) PROVE Goal
    <2>1. PICK f \in Flags, on \in BOOLEAN :
            Load(a, IF f = "hold" THEN "hold" ELSE "pin", m, Flagged(row[m], f, on), 0)
      BY <1>4 DEF LoadFlag
    <2>2. PICK new : new = Flagged(row[m], f, on)
      OBVIOUS
    <2>3. /\ new.status = row[m].status /\ new.text = row[m].text /\ new.vec = row[m].vec
          /\ new.deleted = row[m].deleted
          /\ new.meta.consent = row[m].meta.consent /\ new.meta.decayed = row[m].meta.decayed
          /\ new.meta.archived = row[m].meta.archived
      BY <1>r, <2>2 DEF Flagged, Row, Meta
    <2>4. PICK o \in {"hold", "pin"} : Load(a, o, m, new, 0)
      BY <2>1, <2>2
    <2>5. row[m].status # "absent"
      BY <1>4 DEF LoadFlag, CanLoad
    <2>6. Decided(o, row[m], new, 0)
      BY <2>3, <2>5 DEF Decided, Changes, Due
    <2> QED
      BY <2>4, <2>6, <1>0
  <1>5. ASSUME NEW m \in Memories, LoadConsent(a, m) PROVE Goal
    <2>1. PICK s \in Consents : Load(a, "consent", m, [row[m] EXCEPT !.meta.consent = s], 0)
      BY <1>5 DEF LoadConsent
    <2>2. PICK new : new = [row[m] EXCEPT !.meta.consent = s]
      OBVIOUS
    <2>3. /\ new.status = row[m].status /\ new.text = row[m].text /\ new.vec = row[m].vec
          /\ new.deleted = row[m].deleted
          /\ new.meta.flags = row[m].meta.flags /\ new.meta.decayed = row[m].meta.decayed
          /\ new.meta.archived = row[m].meta.archived
      BY <1>r, <2>2 DEF Row, Meta
    <2>4. row[m].status # "absent"
      BY <1>5 DEF LoadConsent, CanLoad
    <2>5. Decided("consent", row[m], new, 0)
      BY <2>3, <2>4 DEF Decided, Changes, Due
    <2> QED
      BY <2>1, <2>2, <2>5, <1>0
  <1>6. ASSUME NEW m \in Memories, SelectDecay(a, m) PROVE Goal
    <2>1. PICK new : new = [row[m] EXCEPT !.importance = @ - 1, !.meta.decayed = TRUE]
      OBVIOUS
    <2>2. /\ new.status = row[m].status /\ new.text = row[m].text /\ new.vec = row[m].vec
          /\ new.deleted = row[m].deleted
          /\ new.meta.flags = row[m].meta.flags /\ new.meta.consent = row[m].meta.consent
          /\ new.meta.archived = row[m].meta.archived /\ new.meta.decayed = TRUE
      BY <1>r, <2>1 DEF Row, Meta
    <2>3. /\ row[m].status # "absent" /\ Decayable(row[m]) /\ Load(a, "decay", m, new, 0)
      BY <1>6, <2>1 DEF SelectDecay, CanLoad
    <2>4. Decided("decay", row[m], new, 0)
      BY <2>2, <2>3 DEF Decided, Changes, Due
    <2> QED
      BY <2>3, <2>4, <1>0
  <1>7. ASSUME NEW m \in Memories, SelectArchive(a, m) PROVE Goal
    <2>1. PICK new : new = [row[m] EXCEPT !.status = "archived", !.meta.archived = TRUE]
      OBVIOUS
    <2>2. /\ new.status = "archived" /\ new.text = row[m].text /\ new.vec = row[m].vec
          /\ new.deleted = row[m].deleted
          /\ new.meta.flags = row[m].meta.flags /\ new.meta.consent = row[m].meta.consent
          /\ new.meta.decayed = row[m].meta.decayed
      BY <1>r, <2>1 DEF Row, Meta
    <2>3. /\ row[m].status # "absent" /\ Archivable(row[m]) /\ Load(a, "archive", m, new, 0)
      BY <1>7, <2>1 DEF SelectArchive, CanLoad
    <2>4. Decided("archive", row[m], new, 0)
      BY <2>2, <2>3 DEF Decided, Changes, Due
    <2> QED
      BY <2>3, <2>4, <1>0
  <1>8. ASSUME NEW m \in Memories, SelectRetention(a, m) PROVE Goal
    <2>1. row[m].status = "active"
          /\ \/ ~Exempt(row[m]) /\ Load(a, "expire", m, Absent, 0)
             \/ Load(a, "stamp", m, row[m], 0)
      BY <1>8 DEF SelectRetention
    <2>2. Load(a, "expire", m, Absent, 0) /\ ~Exempt(row[m]) =>
            Decided("expire", row[m], Absent, 0)
      BY <2>1 DEF Decided, CopyOps, Due
    <2>3. Decided("stamp", row[m], row[m], 0)
      BY <2>1 DEF Decided, Changes, Due
    <2> QED
      BY <2>1, <2>2, <2>3, <1>0
  <1>9. ASSUME NEW m \in Memories, SelectCompaction(a, m) PROVE Goal
    <2>1. Load(a, "compaction", m, Absent, 0) /\ Decided("compaction", row[m], Absent, 0)
      BY <1>9 DEF SelectCompaction, CanLoad, Decided, CopyOps, Due
    <2> QED
      BY <2>1, <1>0
  <1>10. Goal
    BY <1>1, <1>2, <1>3, <1>4, <1>5, <1>6, <1>7, <1>8, <1>9 DEF LoadNext
  <1> QED
    BY <1>10 DEF Goal

-----------------------------------------------------------------------------
(* What a commit leaves: the one lemma about the audit events.  If the trail *)
(* told the story of the row before, it tells the story of the changed row.  *)
LEMMA ChangeIsAudited ==
  ASSUME NEW o, NEW c \in Row, NEW n \in Row, NEW e \in Evidence,
         c.status # "absent", Fits(c, e), Changes(o, c, n)
  PROVE  Fits(n, Audited(e, o, c, n))
  <1> DEFINE f == Audited(e, o, c, n)
  <1>0. n.status # "absent"
    BY DEF Changes, Repatched, AllowedTransitions
  <1>1. CASE o = "patch"
    <2>1. f = [e EXCEPT !.status = IF n.status # c.status THEN n.status ELSE e.status,
                        !.text = IF n.text # c.text THEN n.text ELSE e.text,
                        !.approved = IF c.status = "pending" /\ n.status = "active" THEN TRUE
                                     ELSE IF n.text # c.text THEN FALSE ELSE e.approved,
                        !.mixed = IF n.text # c.text THEN n.status \notin {c.status, "pending"}
                                  ELSE e.mixed]
      BY <1>1 DEF Audited
    <2>2. /\ f.status = n.status /\ f.text = n.text
          /\ f.flags = e.flags /\ f.consent = e.consent /\ f.decays = e.decays /\ f.purge = e.purge
          /\ f.approved = IF c.status = "pending" /\ n.status = "active" THEN TRUE
                          ELSE IF n.text # c.text THEN FALSE ELSE e.approved
          /\ f.mixed = IF n.text # c.text THEN n.status \notin {c.status, "pending"} ELSE e.mixed
      BY <2>1 DEF Evidence, Fits
    <2> HIDE DEF f
    <2>3. /\ n.meta.flags = c.meta.flags /\ n.meta.consent = c.meta.consent
          /\ n.meta.decayed = c.meta.decayed /\ Repatched(c, n) /\ c.status # "deleted"
      BY <1>1 DEF Changes, Due
    <2>4. n.vec \in {n.text, Nothing}
      BY <2>3 DEF Repatched, Fits
    <2>5. f.purge # "verified"
      BY <2>2, <2>3 DEF Fits
    <2>6. ASSUME RequireApproval, n.status \in {"active", "archived"}, n.text \in Sensitive
          PROVE  f.approved \/ f.mixed
      <3>1. CASE n.text = c.text /\ (n.status = c.status \/ <<c.status, n.status>> \in AllowedTransitions)
        BY <2>2, <2>6, <3>1 DEF Fits, AllowedTransitions
      <3>2. CASE n.status = IF Gated(n.text) = "pending" THEN "pending" ELSE c.status
        BY <2>6, <3>2 DEF Gated
      <3>3. CASE n.text # c.text /\ <<c.status, n.status>> \in AllowedTransitions
        BY <2>2, <2>6, <3>3 DEF AllowedTransitions
      <3> QED
        BY <2>3, <2>6, <3>1, <3>2, <3>3 DEF Repatched
    <2> QED
      BY <1>0, <2>2, <2>3, <2>4, <2>5, <2>6 DEF Fits, f
  <1>2. CASE o \in {"hold", "pin"}
    <2>1. f = [e EXCEPT !.flags = (e.flags \cup (n.meta.flags \ c.meta.flags))
                                    \ (c.meta.flags \ n.meta.flags)]
      BY <1>2 DEF Audited
    <2>2. f.flags = n.meta.flags
      BY <2>1 DEF Fits, Evidence
    <2>3. /\ f.status = e.status /\ f.text = e.text /\ f.consent = e.consent
          /\ f.decays = e.decays /\ f.purge = e.purge /\ f.approved = e.approved
          /\ f.mixed = e.mixed
      BY <2>1 DEF Evidence
    <2> HIDE DEF f
    <2> QED
      BY <1>0, <1>2, <2>2, <2>3 DEF Fits, Changes, f
  <1>3. CASE o = "consent"
    <2>1. f = [e EXCEPT !.consent = n.meta.consent]
      BY <1>3 DEF Audited
    <2>2. /\ f.status = e.status /\ f.text = e.text /\ f.flags = e.flags
          /\ f.consent = n.meta.consent
          /\ f.decays = e.decays /\ f.purge = e.purge /\ f.approved = e.approved
          /\ f.mixed = e.mixed
      BY <2>1 DEF Evidence
    <2> HIDE DEF f
    <2> QED
      BY <1>0, <1>3, <2>2 DEF Fits, Changes, f
  <1>4. CASE o = "decay"
    <2>1. f = [e EXCEPT !.decays = IF e.decays = 2 THEN 2 ELSE e.decays + 1]
      BY <1>4 DEF Audited
    <2>2. e.decays = 0 /\ ~c.meta.decayed /\ n.meta.decayed
      BY <1>4 DEF Fits, Changes, Due, Decayable
    <2>3. /\ f.status = e.status /\ f.text = e.text /\ f.flags = e.flags
          /\ f.consent = e.consent
          /\ f.decays = 1 /\ f.purge = e.purge /\ f.approved = e.approved
          /\ f.mixed = e.mixed
      BY <2>1, <2>2 DEF Evidence
    <2> HIDE DEF f
    <2> QED
      BY <1>0, <1>4, <2>2, <2>3 DEF Fits, Changes, f
  <1>5. CASE o = "archive"
    <2>1. f = [e EXCEPT !.status = "archived"]
      BY <1>5 DEF Audited
    <2>2. /\ f.status = "archived" /\ f.text = e.text /\ f.flags = e.flags
          /\ f.consent = e.consent
          /\ f.decays = e.decays /\ f.purge = e.purge /\ f.approved = e.approved
          /\ f.mixed = e.mixed
      BY <2>1 DEF Evidence
    <2> HIDE DEF f
    <2>3. c.status = "active"
      BY <1>5 DEF Changes, Due, Archivable
    <2> QED
      BY <1>0, <1>5, <2>2, <2>3 DEF Fits, Changes, f
  <1>6. CASE o \in {"delete", "expire"}
    <2>1. f = [e EXCEPT !.status = "deleted", !.deleted = TRUE]
      BY <1>6 DEF Audited
    <2>2. /\ f.status = "deleted" /\ f.text = e.text /\ f.flags = e.flags
          /\ f.consent = e.consent
          /\ f.decays = e.decays /\ f.purge = e.purge /\ f.approved = e.approved
          /\ f.mixed = e.mixed
      BY <2>1 DEF Evidence
    <2> HIDE DEF f
    <2> QED
      BY <1>0, <1>6, <2>2 DEF Fits, Changes, f
  <1>7. CASE o = "compaction"
    <2>1. f = [e EXCEPT !.text = Nothing, !.purge = "compacted"]
      BY <1>7 DEF Audited
    <2>2. /\ f.status = e.status /\ f.text = Nothing /\ f.flags = e.flags
          /\ f.consent = e.consent
          /\ f.decays = e.decays /\ f.purge = "compacted" /\ f.approved = e.approved
          /\ f.mixed = e.mixed
      BY <2>1 DEF Evidence
    <2>3. Nothing \notin Sensitive
      BY StoreAssumption
    <2> HIDE DEF f
    <2> QED
      BY <1>0, <1>7, <2>2, <2>3 DEF Fits, Changes, f
  <1>8. CASE o \notin {"patch", "hold", "pin", "consent", "decay",
                       "archive", "delete", "expire", "compaction"}
    <2>1. f = e
      BY <1>8 DEF Audited
    <2> HIDE DEF f
    <2> QED
      BY <1>0, <1>8, <2>1 DEF Fits, Changes, f
  <1> QED
    BY <1>1, <1>2, <1>3, <1>4, <1>5, <1>6, <1>7, <1>8

(* A transaction whose first SELECT found the row it loaded writes exactly  *)
(* what it decided.                                                         *)
LEMMA FlushOfTheRowRead ==
  ASSUME NEW r \in Row, NEW new \in Row, NEW op
  PROVE  Flush(r, r, new, op) = new
  <1>1. \A x \in Row : x = [status |-> x.status, text |-> x.text, vec |-> x.vec,
                            importance |-> x.importance, meta |-> x.meta,
                            deleted |-> x.deleted, rev |-> x.rev]
    BY DEF Row
  <1>2. Flush(r, r, new, op) =
          [status |-> new.status, text |-> new.text, vec |-> new.vec,
           importance |-> new.importance, meta |-> new.meta,
           deleted |-> new.deleted, rev |-> new.rev]
    <2>1. /\ (IF new.status # r.status THEN new.status ELSE r.status) = new.status
          /\ (IF new.text # r.text THEN new.text ELSE r.text) = new.text
          /\ (IF new.vec # r.vec THEN new.vec ELSE r.vec) = new.vec
          /\ (IF new.importance # r.importance THEN new.importance ELSE r.importance) = new.importance
          /\ (IF Stamps(op) \/ new.meta # r.meta THEN new.meta ELSE r.meta) = new.meta
          /\ (IF new.deleted # r.deleted THEN new.deleted ELSE r.deleted) = new.deleted
          /\ (IF new.rev # r.rev THEN new.rev ELSE r.rev) = new.rev
      OBVIOUS
    <2> QED
      BY <2>1 DEF Flush
  <1> QED
    BY <1>1, <1>2

\* The revision, and a deletion stamp that was there, change no operation's effect.
LEMMA RestampedChange ==
  ASSUME NEW o \in CopyOps, NEW c \in Row, NEW new \in Row, NEW rev \in Nat, Changes(o, c, new)
  PROVE  Changes(o, c, [new EXCEPT !.deleted = c.deleted, !.rev = rev])
  <1>1. PICK n : n = [new EXCEPT !.deleted = c.deleted, !.rev = rev]
    OBVIOUS
  <1>2. /\ n.status = new.status /\ n.text = new.text /\ n.vec = new.vec /\ n.meta = new.meta
        /\ n.deleted = c.deleted
    BY <1>1 DEF Row
  <1>3. o \notin {"delete", "expire"}
    BY DEF CopyOps
  <1>4. Repatched(c, new) => Repatched(c, n)
    BY <1>2 DEF Repatched
  <1> QED
    BY <1>1, <1>2, <1>3, <1>4 DEF Changes

-----------------------------------------------------------------------------
(* The invariant is inductive.  A step changes at most one row, and only    *)
(* the handler that takes it was at work on that row.                       *)
LEMMA BornFits ==
  ASSUME NEW r \in {Absent} \cup Newborn
  PROVE  Fits(r, EvidenceOf(r))
  <1>1. CASE r = Absent
    BY <1>1, StoreAssumption DEF Absent, NewMeta, EvidenceOf, NoEvidence, Fits
  <1>2. CASE r \in Newborn
    <2>1. PICK text \in Texts \ Refused, importance \in 0..MaxImportance :
            r \in {Born(text, text, importance), Born(text, Nothing, importance)}
      BY <1>2 DEF Newborn
    <2>2. /\ r.status = Gated(text) /\ r.text = text /\ r.vec \in {text, Nothing}
          /\ r.meta = NewMeta
      BY <2>1 DEF Born, Absent
    <2>3. RequireApproval /\ text \in Sensitive => Gated(text) = "pending"
      BY DEF Gated
    <2>4. /\ EvidenceOf(r).status = r.status /\ EvidenceOf(r).text = r.text
          /\ EvidenceOf(r).flags = {} /\ EvidenceOf(r).consent = "granted"
          /\ EvidenceOf(r).decays = 0 /\ EvidenceOf(r).purge = "none"
      BY DEF EvidenceOf, NoEvidence
    <2> QED
      BY <2>2, <2>3, <2>4 DEF Fits, NewMeta
  <1> QED
    BY <1>1, <1>2

LEMMA ApartInit == Init => ApartInvariant
  <1> SUFFICES ASSUME Init PROVE ApartInvariant
    OBVIOUS
  <1>1. \A m \in Memories : Fits(row[m], evidence[m])
    BY BornFits DEF Init
  <1>2. \A a \in Handlers : Current(a)
    BY DEF Init, Idle, Current, AtWork
  <1> QED
    BY <1>1, <1>2 DEF ApartInvariant

\* A handler stays current while the row it is at work on is left alone.
LEMMA CurrentElsewhere ==
  ASSUME NEW b \in Handlers, Current(b), h'[b] = h[b],
         AtWork(b) => row'[h[b].mem] = row[h[b].mem]
  PROVE  Current(b)'
  <1>1. CASE AtWork(b)
    BY <1>1 DEF Current, AtWork
  <1>2. CASE ~AtWork(b)
    BY <1>2 DEF Current, AtWork
  <1> QED
    BY <1>1, <1>2

LEMMA CurrentLoad ==
  ASSUME TypeOK, ApartInvariant, NEW a \in Handlers, LoadNext(a)
  PROVE  ApartInvariant'
  <1>1. PICK m \in Memories : \E o, new, rev :
          Load(a, o, m, new, rev) /\ Decided(o, row[m], new, rev)
    BY LoadIsDecided
  <1>2. PICK o, new, rev : Load(a, o, m, new, rev) /\ Decided(o, row[m], new, rev)
    BY <1>1
  <1>3. /\ row' = row /\ evidence' = evidence
        /\ h'[a] = [pc |-> "loaded", op |-> o, mem |-> m, copy |-> row[m],
                    new |-> new, seen |-> Absent, rev |-> rev]
        /\ \A b \in Handlers \ {a} : h'[b] = h[b]
    BY <1>2 DEF Load, TypeOK
  <1>4. Current(a)'
    BY <1>2, <1>3 DEF Current, AtWork, Decided
  <1>5. \A b \in Handlers \ {a} : Current(b)'
    BY <1>3, CurrentElsewhere DEF ApartInvariant
  <1> QED
    BY <1>3, <1>4, <1>5 DEF ApartInvariant

(* What a transaction computes from its first read, when that read returns  *)
(* the row the handler had loaded.                                          *)
LEMMA BeginIsChange ==
  ASSUME TypeOK, ApartInvariant, NEW a \in Handlers, BeginNext(a)
  PROVE  \E ops, new : /\ Begin(a, ops, new) /\ h[a].pc = "loaded" /\ h[a].op # "create"
                       /\ Changes(h[a].op, row[h[a].mem], new)
  <1> DEFINE r == row[h[a].mem]
  <1>0. /\ r \in Row /\ h[a].new \in Row /\ Current(a)
        /\ r.rev + 1 \in Nat
    BY HandlerFields DEF ApartInvariant, Row
  <1>1. CASE BeginUpdate(a)
    <2> DEFINE new == [h[a].new EXCEPT !.deleted = r.deleted, !.rev = r.rev + 1]
    <2>1. Begin(a, CopyOps, new) /\ h[a].pc = "loaded" /\ h[a].op \in CopyOps
      BY <1>1 DEF BeginUpdate, Begin
    <2>2. h[a].op # "create" /\ Changes(h[a].op, r, h[a].new)
      BY <1>0, <2>1 DEF Current, CopyOps
    <2>3. Changes(h[a].op, r, new)
      BY <1>0, <2>1, <2>2, RestampedChange
    <2> QED
      BY <2>1, <2>2, <2>3
  <1>2. CASE BeginDelete(a)
    <2>1. PICK new : new = [r EXCEPT !.status = "deleted", !.deleted = TRUE,
                                     !.meta.tombstoned = TRUE, !.rev = @ + 1]
      OBVIOUS
    <2>2. Begin(a, {"delete"}, new) /\ h[a].pc = "loaded" /\ h[a].op = "delete"
      BY <1>2, <2>1 DEF BeginDelete, Begin
    <2>3. Due("delete", r)
      BY <1>0, <2>2 DEF Current
    <2>4. /\ new.status = "deleted" /\ new.deleted /\ new.text = r.text /\ new.vec = r.vec
          /\ new.meta.flags = r.meta.flags /\ new.meta.consent = r.meta.consent
          /\ new.meta.decayed = r.meta.decayed /\ new.meta.archived = r.meta.archived
      BY <1>0, <2>1 DEF Row, Meta
    <2>5. Changes("delete", r, new)
      BY <2>3, <2>4 DEF Changes
    <2> QED
      BY <2>2, <2>5
  <1>3. CASE BeginExpire(a)
    <2>1. PICK new : new = [r EXCEPT !.status = "deleted", !.deleted = TRUE]
      OBVIOUS
    <2>2. Begin(a, {"expire"}, new) /\ h[a].pc = "loaded" /\ h[a].op = "expire"
      BY <1>3, <2>1 DEF BeginExpire, Begin
    <2>3. Due("expire", r)
      BY <1>0, <2>2 DEF Current
    <2>4. /\ new.status = "deleted" /\ new.deleted /\ new.text = r.text /\ new.vec = r.vec
          /\ new.meta = r.meta
      BY <1>0, <2>1 DEF Row
    <2>5. Changes("expire", r, new)
      BY <2>3, <2>4 DEF Changes
    <2> QED
      BY <2>2, <2>5
  <1>4. CASE BeginCompaction(a)
    <2>1. PICK new : new = [r EXCEPT !.text = Nothing, !.vec = Nothing, !.meta.compacted = TRUE]
      OBVIOUS
    <2>2. Begin(a, {"compaction"}, new) /\ h[a].pc = "loaded" /\ h[a].op = "compaction"
      BY <1>4, <2>1 DEF BeginCompaction, Begin
    <2>3. Due("compaction", r)
      BY <1>0, <2>2 DEF Current
    <2>4. /\ new.status = r.status /\ new.deleted = r.deleted
          /\ new.text = Nothing /\ new.vec = Nothing
          /\ new.meta.flags = r.meta.flags /\ new.meta.consent = r.meta.consent
          /\ new.meta.decayed = r.meta.decayed /\ new.meta.archived = r.meta.archived
      BY <1>0, <2>1 DEF Row, Meta
    <2>5. Changes("compaction", r, new)
      BY <2>3, <2>4 DEF Changes
    <2> QED
      BY <2>2, <2>5
  <1>5. CASE BeginMerge(a)
    <2>1. PICK new : new = [r EXCEPT !.importance = Max2(@, h[a].new.importance), !.rev = @ + 1]
      OBVIOUS
    <2>2. Begin(a, {"merge"}, new) /\ h[a].pc = "loaded" /\ h[a].op = "merge"
      BY <1>5, <2>1 DEF BeginMerge, Begin
    <2>3. /\ new.status = r.status /\ new.deleted = r.deleted
          /\ new.text = r.text /\ new.vec = r.vec /\ new.meta = r.meta
      BY <1>0, <2>1 DEF Row
    <2>4. Changes("merge", r, new)
      BY <2>3 DEF Changes, Due
    <2> QED
      BY <2>2, <2>4
  <1> QED
    BY <1>1, <1>2, <1>3, <1>4, <1>5 DEF BeginNext

LEMMA CurrentBegin ==
  ASSUME TypeOK, ApartInvariant, NEW a \in Handlers, BeginNext(a)
  PROVE  ApartInvariant'
  <1>1. PICK ops, new : /\ Begin(a, ops, new) /\ h[a].pc = "loaded" /\ h[a].op # "create"
                        /\ Changes(h[a].op, row[h[a].mem], new)
    BY BeginIsChange
  <1>2. /\ row' = row /\ evidence' = evidence
        /\ h'[a] = [h[a] EXCEPT !.pc = "open", !.seen = row[h[a].mem], !.new = new]
        /\ \A b \in Handlers \ {a} : h'[b] = h[b]
    BY <1>1 DEF Begin, TypeOK
  <1>3. /\ h'[a].pc = "open" /\ h'[a].seen = row[h[a].mem] /\ h'[a].new = new
        /\ h'[a].op = h[a].op /\ h'[a].mem = h[a].mem /\ h'[a].copy = h[a].copy
    BY <1>2, HandlerFields DEF Handler
  <1>4. Current(a)'
    BY <1>1, <1>2, <1>3 DEF ApartInvariant, Current, AtWork
  <1>5. \A b \in Handlers \ {a} : Current(b)'
    BY <1>2, CurrentElsewhere DEF ApartInvariant
  <1> QED
    BY <1>2, <1>4, <1>5 DEF ApartInvariant

(* All that a step of apart handlers may do to a memory: leave it alone,    *)
(* give birth to it, apply one whole operation to the row as it is and say  *)
(* so in the trail, or record what the read-back after a compaction found.  *)
Serial(m) ==
  \/ row'[m] = row[m] /\ evidence'[m] = evidence[m]
  \/ /\ row[m].status = "absent"
     /\ row'[m] \in Newborn /\ evidence'[m] = EvidenceOf(row'[m])
  \/ /\ row[m].status # "absent"
     /\ \E o : /\ Changes(o, row[m], row'[m])
               /\ evidence'[m] = Audited(evidence[m], o, row[m], row'[m])
  \/ /\ row'[m] = row[m]
     /\ \E verdict \in {"verified", "failed"} :
          /\ verdict = "verified" =>
               row[m].status = "deleted" /\ row[m].text = Nothing /\ row[m].vec = Nothing
          /\ evidence'[m] = [evidence[m] EXCEPT !.purge = verdict]

LEMMA CommitIsSerial ==
  ASSUME TypeOK, ApartInvariant, NEW a \in Handlers, CommitNext(a)
  PROVE  \A m \in Memories : Serial(m)
  <1> DEFINE k == h[a].mem
  <1>0. k \in Memories /\ row[k] \in Row /\ h[a].new \in Row /\ Current(a) /\ evidence[k] \in Evidence
    BY HandlerFields DEF ApartInvariant
  <1>1. CASE Commit(a)
    <2>1. /\ h[a].copy = row[k] /\ h[a].seen = row[k]
          /\ Changes(h[a].op, row[k], h[a].new) /\ row[k].status # "absent"
      BY <1>0, <1>1 DEF Commit, Current, AtWork
    <2>2. /\ row'[k] = h[a].new
          /\ evidence'[k] = Audited(evidence[k], h[a].op, row[k], h[a].new)
      BY <1>0, <1>1, <2>1, FlushOfTheRowRead DEF Commit, TypeOK
    <2>3. \A m \in Memories \ {k} : row'[m] = row[m] /\ evidence'[m] = evidence[m]
      BY <1>1 DEF Commit, TypeOK
    <2>4. Serial(k)
      BY <2>1, <2>2 DEF Serial
    <2> QED
      BY <2>3, <2>4 DEF Serial
  <1>2. CASE CommitChecked(a)
    <2>1. h[a].op = "patch"
      BY <1>0, <1>2 DEF CommitChecked, Current
    <2>2. /\ h[a].copy = row[k] /\ Changes("patch", row[k], h[a].new) /\ row[k].status # "absent"
      BY <1>0, <1>2, <2>1 DEF CommitChecked, Current, AtWork, CopyOps
    <2>3. PICK n : n = [h[a].new EXCEPT !.deleted = row[k].deleted, !.rev = row[k].rev + 1]
      OBVIOUS
    <2>4. Changes("patch", row[k], n) /\ n.text = h[a].new.text /\ n.status = h[a].new.status
      <3>1. row[k].rev + 1 \in Nat /\ "patch" \in CopyOps
        BY <1>0 DEF Row, CopyOps
      <3>2. Changes("patch", row[k], n)
        BY <1>0, <2>2, <2>3, <3>1, RestampedChange
      <3> QED
        BY <1>0, <2>3, <3>2 DEF Row
    <2>5. row'[k] = n /\ evidence'[k] = Audited(evidence[k], "patch", row[k], h[a].new)
      BY <1>0, <1>2, <2>2, <2>3 DEF CommitChecked, TypeOK
    <2>6. Audited(evidence[k], "patch", row[k], h[a].new) = Audited(evidence[k], "patch", row[k], n)
      BY <2>4 DEF Audited
    <2>7. \A m \in Memories \ {k} : row'[m] = row[m] /\ evidence'[m] = evidence[m]
      BY <1>2 DEF CommitChecked, TypeOK
    <2>8. Serial(k)
      BY <2>2, <2>4, <2>5, <2>6 DEF Serial
    <2> QED
      BY <2>7, <2>8 DEF Serial
  <1>3. CASE CommitCreate(a)
    <2>1. PICK n \in Memories :
            /\ row[n].status = "absent"
            /\ row' = [row EXCEPT ![n] = h[a].new]
            /\ evidence' = [evidence EXCEPT ![n] = EvidenceOf(h[a].new)]
      BY <1>3 DEF CommitCreate
    <2>2. h[a].new \in Newborn
      BY <1>0, <1>3 DEF CommitCreate, Current
    <2>3. /\ row'[n] = h[a].new /\ evidence'[n] = EvidenceOf(h[a].new)
          /\ \A m \in Memories \ {n} : row'[m] = row[m] /\ evidence'[m] = evidence[m]
      BY <2>1 DEF TypeOK
    <2> QED
      BY <2>1, <2>2, <2>3 DEF Serial
  <1>4. CASE VerifyPurge(a)
    <2>1. row[k].status # "absent" /\ row' = row
      BY <1>0, <1>4 DEF VerifyPurge, Current, AtWork
    <2>2. PICK verdict \in {"verified", "failed"} :
            /\ verdict = "verified" => k \notin Listed /\ row[k].text = Nothing /\ row[k].vec = Nothing
            /\ evidence' = [evidence EXCEPT ![k].purge = verdict]
      BY <1>4 DEF VerifyPurge
    <2>3. verdict = "verified" => row[k].status = "deleted"
      BY <1>0, <2>1, <2>2 DEF Listed
    <2>4. /\ evidence'[k] = [evidence[k] EXCEPT !.purge = verdict]
          /\ \A m \in Memories \ {k} : evidence'[m] = evidence[m]
      BY <1>0, <2>2 DEF TypeOK
    <2>5. Serial(k)
      BY <2>1, <2>2, <2>3, <2>4 DEF Serial
    <2> QED
      BY <2>1, <2>4, <2>5 DEF Serial
  <1>5. CASE Abandon(a)
    BY <1>5 DEF Abandon, Serial
  <1> QED
    BY <1>1, <1>2, <1>3, <1>4, <1>5 DEF CommitNext

LEMMA NextIsSerial ==
  ASSUME TypeOK, ApartInvariant, [Next]_vars
  PROVE  \A m \in Memories : Serial(m)
  <1>1. ASSUME NEW a \in Handlers, LoadNext(a) PROVE row' = row /\ evidence' = evidence
    BY <1>1, LoadIsSound DEF Load
  <1>2. ASSUME NEW a \in Handlers, BeginNext(a) PROVE row' = row /\ evidence' = evidence
    BY <1>2, BeginIsChange DEF Begin
  <1>3. ASSUME NEW a \in Handlers, CommitNext(a) PROVE \A m \in Memories : Serial(m)
    BY <1>3, CommitIsSerial
  <1> QED
    BY <1>1, <1>2, <1>3 DEF Next, vars, Serial

LEMMA SerialFits ==
  ASSUME TypeOK, TypeOK', NEW m \in Memories, Fits(row[m], evidence[m]), Serial(m)
  PROVE  Fits(row'[m], evidence'[m])
  <1>0. row[m] \in Row /\ row'[m] \in Row /\ evidence[m] \in Evidence
    BY DEF TypeOK
  <1>1. CASE row'[m] \in Newborn /\ evidence'[m] = EvidenceOf(row'[m])
    BY <1>1, BornFits
  <1>2. ASSUME row[m].status # "absent", NEW o, Changes(o, row[m], row'[m]),
               evidence'[m] = Audited(evidence[m], o, row[m], row'[m])
        PROVE  Fits(row'[m], evidence'[m])
    BY <1>0, <1>2, ChangeIsAudited
  <1>3. ASSUME row'[m] = row[m], NEW verdict \in {"verified", "failed"},
               verdict = "verified" =>
                 row[m].status = "deleted" /\ row[m].text = Nothing /\ row[m].vec = Nothing,
               evidence'[m] = [evidence[m] EXCEPT !.purge = verdict]
        PROVE  Fits(row'[m], evidence'[m])
    <2>1. /\ evidence'[m].purge = verdict
          /\ evidence'[m].status = evidence[m].status /\ evidence'[m].text = evidence[m].text
          /\ evidence'[m].flags = evidence[m].flags /\ evidence'[m].consent = evidence[m].consent
          /\ evidence'[m].decays = evidence[m].decays
          /\ evidence'[m].approved = evidence[m].approved
          /\ evidence'[m].mixed = evidence[m].mixed
      BY <1>0, <1>3 DEF Evidence
    <2> QED
      BY <1>3, <2>1 DEF Fits
  <1> QED
    BY <1>1, <1>2, <1>3 DEF Serial

LEMMA CurrentCommit ==
  ASSUME TypeOK, ApartInvariant, Apart, NEW a \in Handlers, CommitNext(a)
  PROVE  \A b \in Handlers : Current(b)'
  <1> DEFINE k == h[a].mem
  <1>0. k \in Memories /\ Current(a) /\ h[a].pc # "idle"
    BY HandlerFields DEF ApartInvariant, CommitNext, Commit, CommitChecked, CommitCreate,
                         VerifyPurge, Abandon
  <1>1. ASSUME NEW b \in Handlers \ {a}, AtWork(b) PROVE row'[h[b].mem] = row[h[b].mem]
    <2>0. h[b].mem \in Memories /\ row[h[b].mem].status # "absent"
          /\ (AtWork(a) => h[b].mem # k)
      BY <1>1, HandlerFields DEF ApartInvariant, Current, Apart
    <2>1. CASE Commit(a)
      <3>1. AtWork(a)
        BY <1>0, <2>1 DEF Commit, AtWork, Current
      <3> QED
        BY <2>0, <2>1, <3>1 DEF Commit, TypeOK
    <2>2. CASE CommitChecked(a)
      <3>1. AtWork(a)
        BY <1>0, <2>2 DEF CommitChecked, AtWork, Current
      <3> QED
        BY <2>0, <2>2, <3>1 DEF CommitChecked, TypeOK
    <2>3. CASE CommitCreate(a)
      BY <2>0, <2>3 DEF CommitCreate, TypeOK
    <2>4. CASE VerifyPurge(a) \/ Abandon(a)
      BY <2>4 DEF VerifyPurge, Abandon
    <2> QED
      BY <2>1, <2>2, <2>3, <2>4 DEF CommitNext
  <1>2. /\ \A b \in Handlers \ {a} : h'[b] = h[b]
        /\ \/ h'[a] = Idle
           \/ Commit(a) /\ h[a].op = "compaction" /\ h'[a] = [h[a] EXCEPT !.pc = "verify"]
    BY DEF CommitNext, Commit, CommitChecked, CommitCreate, VerifyPurge, Abandon, TypeOK
  <1>3. \A b \in Handlers \ {a} : Current(b)'
    BY <1>1, <1>2, CurrentElsewhere DEF ApartInvariant
  <1>4. Current(a)'
    <2>1. CASE h'[a] = Idle
      BY <2>1 DEF Idle, Current, AtWork
    <2>2. CASE Commit(a) /\ h[a].op = "compaction" /\ h'[a] = [h[a] EXCEPT !.pc = "verify"]
      <3>1. h'[a].pc = "verify" /\ h'[a].mem = k /\ h'[a].op = "compaction"
        BY <2>2, HandlerFields DEF Handler
      <3>2. row'[k].status # "absent"
        <4>1. row[k].status # "absent"
          BY <1>0, <2>2 DEF Current, AtWork, Commit
        <4>2. row'[k] = h[a].new /\ Changes("compaction", row[k], h[a].new)
          BY <1>0, <2>2, <4>1, FlushOfTheRowRead, HandlerFields DEF Commit, Current, TypeOK
        <4> QED
          BY <4>1, <4>2 DEF Changes
      <3> QED
        BY <3>1, <3>2 DEF Current, AtWork
    <2> QED
      BY <1>2, <2>1, <2>2
  <1> QED
    BY <1>3, <1>4

LEMMA ApartNext == TypeOK /\ ApartInvariant /\ Apart /\ [Next]_vars => ApartInvariant'
  <1> SUFFICES ASSUME TypeOK, ApartInvariant, Apart, [Next]_vars PROVE ApartInvariant'
    OBVIOUS
  <1>1. ASSUME NEW a \in Handlers, LoadNext(a) PROVE ApartInvariant'
    BY <1>1, CurrentLoad
  <1>2. ASSUME NEW a \in Handlers, BeginNext(a) PROVE ApartInvariant'
    BY <1>2, CurrentBegin
  <1>3. ASSUME NEW a \in Handlers, CommitNext(a) PROVE ApartInvariant'
    <2>1. \A m \in Memories : Fits(row'[m], evidence'[m])
      BY TypeNext, NextIsSerial, SerialFits DEF ApartInvariant
    <2> QED
      BY <1>3, <2>1, CurrentCommit DEF ApartInvariant
  <1>4. CASE UNCHANGED vars
    <2>1. \A b \in Handlers : Current(b)'
      BY <1>4, CurrentElsewhere DEF ApartInvariant, vars
    <2> QED
      BY <1>4, <2>1 DEF ApartInvariant, vars
  <1> QED
    BY <1>1, <1>2, <1>3, <1>4 DEF Next

-----------------------------------------------------------------------------
(* While handlers are apart, rows fit their evidence and copies are current. *)
THEOREM ApartStaysCurrent == Spec /\ []Apart => []ApartInvariant
  BY TypeCorrect, ApartInit, ApartNext, PTL DEF Spec

(* One handler is always apart.                                             *)
LEMMA OneHandlerIsApart == (\A a, b \in Handlers : a = b) => Apart
  BY DEF Apart

(* Serializability: any number of handlers on any number of memories, none  *)
(* two at work on the same one, act as if each operation were one step on   *)
(* the row as it is, its audit events with it.                              *)
THEOREM ApartIsSerial == Spec /\ []Apart => [][\A m \in Memories : Serial(m)]_vars
  <1>1. TypeOK /\ ApartInvariant /\ [Next]_vars => [\A m \in Memories : Serial(m)]_vars
    BY NextIsSerial
  <1> QED
    BY <1>1, TypeCorrect, ApartStaysCurrent, PTL DEF Spec

(* The trail and the row tell the same story for every number of handlers   *)
(* that stay apart: status, content, flags and consent are what the last    *)
(* audit event about each said.                                             *)
THEOREM ApartKeepsTheTrailTrue == Spec /\ []Apart => []EvidenceMatchesRow
  <1>1. ApartInvariant => EvidenceMatchesRow
    BY DEF ApartInvariant, Fits, EvidenceMatchesRow
  <1> QED
    BY <1>1, ApartStaysCurrent, PTL

(* A vector describes the text it is stored with, even when the embedding   *)
(* of an edit failed.                                                       *)
THEOREM ApartKeepsVectorsTrue == Spec /\ []Apart => []VectorDescribesText
  <1>1. ApartInvariant => VectorDescribesText
    BY DEF ApartInvariant, Fits, VectorDescribesText
  <1> QED
    BY <1>1, ApartStaysCurrent, PTL

(* No memory is decayed twice, whatever edits, restores and re-runs of the  *)
(* worker come in between.                                                  *)
THEOREM ApartDecaysOnce == Spec /\ []Apart => []DecaysOnce
  <1>1. ASSUME ApartInvariant, NEW m \in Memories PROVE evidence[m].decays <= 1
    <2>1. evidence[m].decays \in {0, 1}
      BY <1>1 DEF ApartInvariant, Fits
    <2> QED
      BY <2>1
  <1>2. ApartInvariant => DecaysOnce
    BY <1>1 DEF DecaysOnce
  <1> QED
    BY <1>2, ApartStaysCurrent, PTL

(* A purge that was verified holds from then on: the memory is on no read   *)
(* surface and its content and vector stay gone.                            *)
THEOREM ApartPurgeHolds == Spec /\ []Apart => []VerifiedPurgeHolds
  <1>1. ApartInvariant => VerifiedPurgeHolds
    BY DEF ApartInvariant, Fits, VerifiedPurgeHolds, RetrieveActive, Listed, SearchCandidates
  <1> QED
    BY <1>1, ApartStaysCurrent, PTL

(* Sensitive content is active only after an approval of that content, or   *)
(* by the transition its own PATCH requested.                               *)
THEOREM ApartSensitiveIsApproved == Spec /\ []Apart => []SensitiveIsApproved
  <1>1. ApartInvariant => SensitiveIsApproved
    BY DEF ApartInvariant, Fits, SensitiveIsApproved, RetrieveActive
  <1> QED
    BY <1>1, ApartStaysCurrent, PTL

-----------------------------------------------------------------------------
(* What a serial step may do to a status, to held content, to a deleted row. *)
LEMMA BirthIsGoverned ==
  ASSUME NEW r \in Newborn
  PROVE  r.status \in {"pending", "active"}
  <1>1. PICK text \in Texts \ Refused, importance \in 0..MaxImportance :
          r \in {Born(text, text, importance), Born(text, Nothing, importance)}
    BY DEF Newborn
  <1>2. r.status = Gated(text)
    BY <1>1 DEF Born, Absent
  <1> QED
    BY <1>2 DEF Gated

LEMMA ChangeIsGoverned ==
  ASSUME NEW o, NEW c \in Row, NEW n \in Row, c.status # "absent", Changes(o, c, n),
         n.status # c.status
  PROVE  <<c.status, n.status>> \in GovernedTransitions /\ c.status # "deleted"
  <1>0. c.status \in {"pending", "active", "archived", "rejected", "deleted"}
    BY DEF Row, Statuses
  <1>1. CASE o = "patch"
    <2>1. c.status # "deleted" /\ Repatched(c, n)
      BY <1>1 DEF Changes, Due
    <2>2. CASE <<c.status, n.status>> \in AllowedTransitions
      BY <2>1, <2>2 DEF AllowedTransitions, GovernedTransitions
    <2>3. CASE n.status = "pending"
      BY <1>0, <2>1, <2>3 DEF GovernedTransitions
    <2> QED
      BY <2>1, <2>2, <2>3 DEF Repatched
  <1>2. CASE o = "archive"
    BY <1>2 DEF Changes, Due, Archivable, GovernedTransitions
  <1>3. CASE o \in {"delete", "expire"}
    BY <1>0, <1>3 DEF Changes, GovernedTransitions
  <1> QED
    BY <1>1, <1>2, <1>3 DEF Changes

(* While handlers are apart, a status changes only by capture, an approved  *)
(* transition, the re-gating of an edit, or into deleted - never out of it. *)
THEOREM ApartStatusIsGoverned == Spec /\ []Apart => StatusIsGoverned
  <1>1. ASSUME TypeOK, TypeOK', ApartInvariant, [Next]_vars, NEW m \in Memories,
               row'[m].status # row[m].status
        PROVE  <<row[m].status, row'[m].status>> \in GovernedTransitions
    <2>1. Serial(m) /\ row[m] \in Row /\ row'[m] \in Row
      BY <1>1, NextIsSerial DEF TypeOK
    <2>2. CASE row[m].status = "absent" /\ row'[m] \in Newborn
      BY <2>2, BirthIsGoverned DEF GovernedTransitions
    <2>3. ASSUME row[m].status # "absent", NEW o, Changes(o, row[m], row'[m])
          PROVE  <<row[m].status, row'[m].status>> \in GovernedTransitions
      BY <1>1, <2>1, <2>3, ChangeIsGoverned
    <2> QED
      BY <1>1, <2>1, <2>2, <2>3 DEF Serial
  <1>2. TypeOK /\ TypeOK' /\ ApartInvariant /\ [Next]_vars =>
          [\A m \in Memories :
             row'[m].status # row[m].status =>
               <<row[m].status, row'[m].status>> \in GovernedTransitions]_vars
    BY <1>1
  <1> QED
    BY <1>2, TypeCorrect, ApartStaysCurrent, PTL DEF Spec, StatusIsGoverned

(* While handlers are apart, a deleted memory is never resurrected: what    *)
(* the resurrection run shows takes two handlers on one memory.             *)
THEOREM ApartNeverResurrects == Spec /\ []Apart => NeverResurrected
  <1>1. ASSUME TypeOK, TypeOK', ApartInvariant, [Next]_vars, NEW m \in Memories,
               row[m].status = "deleted"
        PROVE  row'[m].status = "deleted"
    <2>1. Serial(m) /\ row[m] \in Row /\ row'[m] \in Row
      BY <1>1, NextIsSerial DEF TypeOK
    <2> QED
      BY <1>1, <2>1, ChangeIsGoverned DEF Serial
  <1>2. TypeOK /\ TypeOK' /\ ApartInvariant /\ [Next]_vars =>
          [\A m \in Memories : row[m].status = "deleted" => row'[m].status = "deleted"]_vars
    BY <1>1
  <1> QED
    BY <1>2, TypeCorrect, ApartStaysCurrent, PTL DEF Spec, NeverResurrected

LEMMA ChangeRespectsHold ==
  ASSUME NEW o, NEW c \in Row, NEW n \in Row, Held(c), Changes(o, c, n)
  PROVE  /\ n.text = c.text /\ n.deleted = c.deleted
         /\ n.meta.decayed = c.meta.decayed /\ n.meta.archived = c.meta.archived
  <1>1. Exempt(c)
    BY DEF Held, Exempt, AllFlags
  <1>2. o \notin {"delete", "expire", "decay", "archive", "compaction"}
    BY <1>1 DEF Changes, Due, Decayable, Archivable
  <1>3. o = "patch" => n.text = c.text
    BY DEF Changes, Repatched
  <1> QED
    BY <1>2, <1>3 DEF Changes

(* While handlers are apart, a legal hold blocks decay, worker archival,    *)
(* deletion, compaction and content edits until it is released: what the    *)
(* hold-race run shows takes a hold placed while another handler is at work *)
(* on the same memory.                                                      *)
THEOREM ApartHoldBlocksForgetting == Spec /\ []Apart => HoldBlocksForgetting
  <1>1. ASSUME TypeOK, TypeOK', ApartInvariant, [Next]_vars, NEW m \in Memories,
               Held(row[m])
        PROVE  /\ row'[m].text = row[m].text
               /\ row'[m].deleted = row[m].deleted
               /\ row'[m].meta.decayed = row[m].meta.decayed
               /\ row'[m].meta.archived = row[m].meta.archived
    <2>1. Serial(m) /\ row[m] \in Row /\ row'[m] \in Row
      BY <1>1, NextIsSerial DEF TypeOK
    <2>2. row[m].status # "absent"
      BY <1>1 DEF ApartInvariant, Fits, Held
    <2> QED
      BY <1>1, <2>1, <2>2, ChangeRespectsHold DEF Serial
  <1>2. TypeOK /\ TypeOK' /\ ApartInvariant /\ [Next]_vars =>
          [\A m \in Memories :
             Held(row[m]) =>
               /\ row'[m].text = row[m].text
               /\ row'[m].deleted = row[m].deleted
               /\ row'[m].meta.decayed = row[m].meta.decayed
               /\ row'[m].meta.archived = row[m].meta.archived]_vars
    BY <1>1
  <1> QED
    BY <1>2, TypeCorrect, ApartStaysCurrent, PTL DEF Spec, HoldBlocksForgetting
=============================================================================

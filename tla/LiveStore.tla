------------------------------ MODULE LiveStore ------------------------------
(***************************************************************************)
(* The in-memory backend under concurrent requests. A lookup hands out the *)
(* stored object itself, which the handler changes in place inside its     *)
(* transaction. A transaction holds the repository's lock and, when the    *)
(* handler raises, replaces every stored object by the copy it took at its *)
(* start: objects handed out before stay, as orphans, with whoever has     *)
(* them.                                                                   *)
(***************************************************************************)
EXTENDS Naturals

CONSTANTS
  Memories, Handlers, Texts,
  Sensitive,       \* contents an edit sends back to the approval queue
  Refused,         \* contents the broker blocks
  Nothing,         \* no text, no vector
  MaxAge,          \* bound: no rollback while more objects of a memory than this are alive
  MaxRev           \* bound: no request takes up an object at this revision

ASSUME LiveAssumption ==
  /\ Memories # {}
  /\ Sensitive \cup Refused \subseteq Texts /\ Nothing \notin Texts \cup Handlers
  /\ MaxAge \in Nat /\ MaxRev \in Nat

VARIABLES
  object,     \* the objects of each memory; those that one rollback made have one age
  table,      \* which of them is stored
  vector,     \* the vector index: the text each memory's vector was made of
  trail,      \* what the audit events of committed transactions say of each memory
  lock,       \* the transaction that has the repository's lock, and its snapshot
  h,          \* the request each handler works on
  orphaned    \* memories whose stored object was once an orphan (history)

vars == <<object, table, vector, trail, lock, h, orphaned>>

Ages == 0..MaxAge

Statuses == {"absent", "pending", "active", "archived", "rejected", "deleted"}

Contents == Texts \cup {Nothing}

Row == [status : Statuses, text : Contents, vec : Contents, held : BOOLEAN, rev : Nat]

Absent == [status |-> "absent", text |-> Nothing, vec |-> Nothing, held |-> FALSE, rev |-> 0]

Created(text, vec) ==
  [status |-> IF text \in Sensitive THEN "pending" ELSE "active", text |-> text, vec |-> vec,
   held |-> FALSE, rev |-> 1]

Idle == [pc |-> "idle", op |-> "none", mem |-> CHOOSE m \in Memories : TRUE, age |-> 0,
         text |-> Nothing, vec |-> Nothing, status |-> "absent", rev |-> 0]

NoLock == [owner |-> Nothing]

Told(r) == [status |-> r.status, text |-> r.text, held |-> r.held]

Stored(m) == object[m][table[m]]

Init ==
  /\ \E kept \in SUBSET Memories, t \in Texts \ Refused :
       object = [m \in Memories |-> [g \in Ages |-> IF m \in kept /\ g = 0 THEN Created(t, t) ELSE Absent]]
  /\ table = [m \in Memories |-> 0]
  /\ vector = [m \in Memories |-> object[m][0].vec]
  /\ trail = [m \in Memories |-> Told(object[m][0])]
  /\ lock = NoLock
  /\ h = [a \in Handlers |-> Idle]
  /\ orphaned = {}

-----------------------------------------------------------------------------
(* Before the transaction.                                                 *)

Unlocked == lock = NoLock

Ask(a, r) == h' = [h EXCEPT ![a] = r]

\* The request has ended; an object that is neither stored nor in a handler's hands is gone.
Return(a, objects, stored) ==
  LET hands == [h EXCEPT ![a] = Idle] IN
  /\ h' = hands
  /\ table' = stored
  /\ object' = [m \in Memories |-> [g \in Ages |->
       IF g = stored[m] \/ \E b \in Handlers : hands[b].pc # "idle" /\ hands[b].mem = m /\ hands[b].age = g
       THEN objects[m][g] ELSE Absent]]

Transitions ==
  {<<"pending", "active">>, <<"pending", "rejected">>,
   <<"active", "archived">>, <<"archived", "active">>}

\* A request for a stored memory; the handler gets the object. rev: expected_revision, or 0.
Load(a) ==
  /\ h[a].pc = "idle" /\ Unlocked
  /\ \E m \in Memories :
       /\ Stored(m).status # "absent" /\ Stored(m).rev < MaxRev
       /\ \E r \in [pc : {"loaded"}, op : {"edit"}, mem : {m}, age : {table[m]}, text : Texts,
                    vec : {Nothing}, status : {"absent"}, rev : {0, Stored(m).rev}]
                   \cup [pc : {"loaded"}, op : {"move"}, mem : {m}, age : {table[m]},
                         text : {Nothing}, vec : {Nothing},
                         status : {"active", "archived", "rejected"}, rev : {0, Stored(m).rev}]
                   \cup [pc : {"loaded"}, op : {"hold", "delete"}, mem : {m}, age : {table[m]},
                         text : {Nothing}, vec : {Nothing}, status : {"absent"}, rev : {0}] :
            Ask(a, r)
  /\ UNCHANGED <<object, table, vector, trail, lock, orphaned>>

Held(r) == object[r.mem][r.age].held

\* What the handler checks on the object, without the lock: it may see an open transaction.
Allowed(r) ==
  LET o == object[r.mem][r.age] IN
  CASE r.op = "edit" -> o.status # "deleted"
    [] r.op = "move" -> <<o.status, r.status>> \in Transitions
    [] r.op = "delete" -> ~o.held
    [] OTHER -> TRUE

Validate(a) ==
  /\ h[a].pc = "loaded"
  /\ IF Allowed(h[a]) THEN Ask(a, [h[a] EXCEPT !.pc = "allowed"]) /\ UNCHANGED <<object, table>>
     ELSE Return(a, object, table)
  /\ UNCHANGED <<vector, trail, lock, orphaned>>

-----------------------------------------------------------------------------
(* The transaction.                                                        *)

Snapshot(a) == [owner |-> a, rows |-> [m \in Memories |-> Stored(m)], vectors |-> vector]

Edited(o, text, vec) ==
  [o EXCEPT !.text = text, !.vec = vec,
            !.status = IF text \in Sensitive THEN "pending" ELSE o.status]

\* The change a request makes to the object it has.
Changed(o, r) ==
  CASE r.op = "edit" -> Edited(o, r.text, r.vec)
    [] r.op = "move" -> [o EXCEPT !.status = r.status]
    [] r.op = "hold" -> [o EXCEPT !.held = ~o.held]
    [] OTHER -> [o EXCEPT !.status = "deleted"]

Begin(a, r) ==
  /\ Unlocked
  /\ lock' = Snapshot(a)
  /\ object' = [object EXCEPT ![r.mem][r.age] = Changed(object[r.mem][r.age], r)]
  /\ Ask(a, [r EXCEPT !.pc = "open"])
  /\ UNCHANGED <<table, vector, trail, orphaned>>

\* An edit asks hold and broker inside the transaction; embedding may fail.
BeginEdit(a) ==
  LET r == h[a] IN
  /\ r.pc = "allowed" /\ r.op = "edit" /\ ~Held(r) /\ r.text \notin Refused
  /\ \E vec \in {r.text, Nothing} : Begin(a, [r EXCEPT !.vec = vec])

BeginChange(a) == h[a].pc = "allowed" /\ h[a].op \in {"move", "hold"} /\ Begin(a, h[a])

\* DELETE looks the memory up again: soft_delete changes the object that is stored by now.
BeginDelete(a) ==
  LET r == h[a] IN
  r.pc = "allowed" /\ r.op = "delete" /\ Begin(a, [r EXCEPT !.age = table[r.mem]])

\* 409 or 422 inside the transaction, before any change.
RefuseEdit(a) ==
  LET r == h[a] IN
  /\ r.pc = "allowed" /\ r.op = "edit" /\ (Held(r) \/ r.text \in Refused)
  /\ Unlocked
  /\ lock' = Snapshot(a)
  /\ Ask(a, [r EXCEPT !.pc = "failing"])
  /\ UNCHANGED <<object, table, vector, trail, orphaned>>

\* create_memory: the vector is indexed whatever the status.
BeginCreate(a) ==
  /\ h[a].pc = "idle" /\ Unlocked
  /\ \E m \in Memories, text \in Texts \ Refused :
       /\ Stored(m).status = "absent"
       /\ \E vec \in {text, Nothing} :
            /\ object' = [object EXCEPT ![m][table[m]] = Created(text, vec)]
            /\ vector' = [vector EXCEPT ![m] = vec]
            /\ Ask(a, [Idle EXCEPT !.pc = "persisted", !.op = "create", !.mem = m, !.age = table[m],
                                   !.text = text, !.vec = vec])
  /\ lock' = Snapshot(a)
  /\ UNCHANGED <<table, trail, orphaned>>

Current(r) == r.rev = 0 \/ Stored(r.mem).rev = r.rev

\* update_memory stores the object the handler has, and keeps the index in step.
Persist(a) ==
  LET r == h[a]
      o == object[r.mem][r.age]
  IN
  /\ r.pc = "open" /\ Current(r)
  /\ table' = [table EXCEPT ![r.mem] = r.age]
  /\ object' = [object EXCEPT ![r.mem][r.age] = [o EXCEPT !.rev = o.rev + 1]]
  /\ vector' = [vector EXCEPT ![r.mem] = IF o.status = "active" THEN o.vec ELSE Nothing]
  /\ orphaned' = orphaned \cup (IF r.age = table[r.mem] THEN {} ELSE {r.mem})
  /\ Ask(a, [r EXCEPT !.pc = "persisted", !.rev = 0])
  /\ UNCHANGED <<trail, lock>>

\* update_memory_checked finds another revision: 409, after the object was changed.
RefuseStale(a) ==
  /\ h[a].pc = "open" /\ ~Current(h[a])
  /\ Ask(a, [h[a] EXCEPT !.pc = "failing"])
  /\ UNCHANGED <<object, table, vector, trail, lock, orphaned>>

\* The event of the request: what it did, not what the row has become.
Recorded(t, r) ==
  CASE r.op = "edit" -> [status |-> IF r.text \in Sensitive THEN "pending" ELSE t.status,
                      text |-> r.text, held |-> t.held]
    [] r.op = "move" -> [t EXCEPT !.status = r.status]
    [] r.op = "hold" -> [t EXCEPT !.held = Held(r)]
    [] r.op = "create" -> Told(Created(r.text, r.vec))
    [] OTHER -> [t EXCEPT !.status = "deleted"]

Commit(a) ==
  /\ h[a].pc = "persisted"
  /\ trail' = [trail EXCEPT ![h[a].mem] = Recorded(trail[h[a].mem], h[a])]
  /\ lock' = NoLock
  /\ Return(a, object, table)
  /\ UNCHANGED <<vector, orphaned>>

\* An age no object has that is stored or in a handler's hands.
FreeAges ==
  Ages \ ({table[m] : m \in Memories} \cup {h[b].age : b \in {c \in Handlers : h[c].pc # "idle"}})

NewAge == CHOOSE n \in FreeAges : TRUE

MayRollBack(a) == h[a].pc \in {"open", "persisted", "failing"} /\ FreeAges # {}

RollBackShallow(a) ==
  /\ MayRollBack(a)
  /\ vector' = lock.vectors
  /\ lock' = NoLock
  /\ Return(a, object, table)
  /\ UNCHANGED <<trail, orphaned>>

\* The copies taken at the start become the stored objects.
Restore(a) ==
  Return(a, [m \in Memories |-> [object[m] EXCEPT ![NewAge] = lock.rows[m]]],
         [m \in Memories |-> NewAge])

RollBackButIndex(a) ==
  /\ MayRollBack(a)
  /\ Restore(a)
  /\ lock' = NoLock
  /\ UNCHANGED <<vector, trail, orphaned>>

\* A refusal, or any exception before the end.
RollBack(a) ==
  /\ MayRollBack(a)
  /\ Restore(a)
  /\ vector' = lock.vectors
  /\ lock' = NoLock
  /\ UNCHANGED <<trail, orphaned>>

-----------------------------------------------------------------------------
(* What a search finds.                                                    *)

RetrieveActive == {m \in Memories : Stored(m).status = "active"}

\* The active memories a query for a text finds by their vector.
SearchCandidates(text) == {m \in RetrieveActive : vector[m] = text}

-----------------------------------------------------------------------------

Step(a) ==
  \/ Load(a) \/ Validate(a) \/ BeginEdit(a) \/ BeginChange(a) \/ BeginDelete(a) \/ RefuseEdit(a)
  \/ BeginCreate(a) \/ Persist(a) \/ RefuseStale(a) \/ Commit(a) \/ RollBack(a)

Next == \E a \in Handlers : Step(a)

Spec == Init /\ [][Next]_vars

-----------------------------------------------------------------------------
Claims == [status : Statuses, text : Contents, held : BOOLEAN]

Snapshots == [owner : Handlers, rows : [Memories -> Row], vectors : [Memories -> Contents]]

Requests ==
  [pc : {"idle", "loaded", "allowed", "open", "persisted", "failing"},
   op : {"none", "edit", "move", "hold", "delete", "create"}, mem : Memories, age : Ages,
   text : Contents, vec : Contents, status : Statuses, rev : Nat]

\* Objects, index, trail, lock and requests have their types.
TypeOK ==
  /\ object \in [Memories -> [Ages -> Row]]
  /\ table \in [Memories -> Ages]
  /\ vector \in [Memories -> Contents]
  /\ trail \in [Memories -> Claims]
  /\ lock \in {NoLock} \cup Snapshots
  /\ h \in [Handlers -> Requests]
  /\ orphaned \subseteq Memories

InTransaction(r) == r.pc \in {"open", "persisted", "failing"}

\* Whoever is in a transaction has the lock.
LockHeld == \A a \in Handlers : InTransaction(h[a]) <=> ~Unlocked /\ lock.owner = a

\* An object's vector is of its own text.
ObjectsPaired == \A m \in Memories, g \in Ages : object[m][g].vec \in {object[m][g].text, Nothing}

\* What the index holds of a memory follows from its stored object.
Fits(o, v) ==
  /\ v # Nothing => v = o.text /\ o.status \in {"active", "pending"}
  /\ o.status = "active" /\ o.vec # Nothing => v = o.text

\* A stored object as it is while no transaction is open.
Settled(m, o, v) ==
  /\ o.vec \in {o.text, Nothing} /\ Fits(o, v)
  /\ m \notin orphaned => Told(o) = trail[m]

RowsSettled == Unlocked => \A m \in Memories : Settled(m, Stored(m), vector[m])

SnapshotSettled == ~Unlocked => \A m \in Memories : Settled(m, lock.rows[m], lock.vectors[m])

\* A transaction touches the memory of its request and no other.
OthersUntouched ==
  ~Unlocked => \A m \in Memories \ {h[lock.owner].mem} :
                 Stored(m) = lock.rows[m] /\ vector[m] = lock.vectors[m]

(* What an open transaction did to its object is what it will record,       *)
(* unless the object is an orphan, which storing it will tell.              *)
Tells(r) ==
  /\ r.pc = "open" /\ r.age = table[r.mem] /\ r.mem \notin orphaned
       => Told(object[r.mem][r.age]) = Recorded(trail[r.mem], r)
  /\ r.pc = "persisted" =>
       /\ r.age = table[r.mem] /\ Fits(Stored(r.mem), vector[r.mem])
       /\ r.mem \notin orphaned => Told(Stored(r.mem)) = Recorded(trail[r.mem], r)

ChangeIsTold == \A a \in Handlers : Tells(h[a])

\* The inductive invariant behind the two promises below.
LiveInvariant ==
  LockHeld /\ ObjectsPaired /\ RowsSettled /\ SnapshotSettled /\ OthersUntouched /\ ChangeIsTold

(* While no transaction is open, a memory is exactly what the committed     *)
(* audit events say, however requests overlapped and were rolled back, as   *)
(* long as no handler has stored an object it was handed before a rollback: *)
(* only that brings back a change that was refused, or undoes one that was  *)
(* recorded, without a word in the trail.                                   *)
OnlyOrphansEscapeTheTrail ==
  Unlocked => \A m \in Memories \ orphaned : Told(Stored(m)) = trail[m]

(* The vector index holds no memory under a text that is not, or no longer, *)
(* its own, and none that is deleted, archived or rejected: through         *)
(* rollbacks, failed embeddings and stored orphans. So a search finds a     *)
(* memory by what it says, and every memory that has a vector.              *)
IndexFollowsRows ==
  Unlocked =>
    /\ \A m \in Memories : vector[m] # Nothing =>
         vector[m] = Stored(m).text /\ Stored(m).status \in {"active", "pending"}
    /\ \A m \in RetrieveActive : Stored(m).vec # Nothing => m \in SearchCandidates(Stored(m).text)
=============================================================================

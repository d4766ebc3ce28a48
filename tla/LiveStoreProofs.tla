-------------------------- MODULE LiveStoreProofs --------------------------
(* Proofs about LiveStore, for every set of memories, handlers and texts.  *)
EXTENDS LiveStore, TLAPS

LEMMA Typed ==
  /\ Absent \in Row /\ Idle \in Requests /\ 0 \in Ages
  /\ \A text, vec \in Contents : Created(text, vec) \in Row
  /\ \A r \in Row : Told(r) \in Claims
  <1>1. Absent \in Row
    BY DEF Absent, Row, Statuses, Contents
  <1>2. 0 \in Ages
    BY LiveAssumption DEF Ages
  <1>3. (CHOOSE m \in Memories : TRUE) \in Memories
    BY LiveAssumption
  <1>4. Idle \in Requests
    BY <1>2, <1>3 DEF Idle, Requests, Statuses, Contents
  <1>5. ASSUME NEW text \in Contents, NEW vec \in Contents PROVE Created(text, vec) \in Row
    BY DEF Created, Row, Statuses
  <1>6. ASSUME NEW r \in Row PROVE Told(r) \in Claims
    BY DEF Told, Row, Claims
  <1> QED
    BY <1>1, <1>2, <1>4, <1>5, <1>6

LEMMA TypeInit == Init => TypeOK
  <1> SUFFICES ASSUME Init PROVE TypeOK
    OBVIOUS
  <1>1. object \in [Memories -> [Ages -> Row]]
    <2>1. PICK kept \in SUBSET Memories, t \in Texts \ Refused :
            object = [m \in Memories |->
                        [g \in Ages |-> IF m \in kept /\ g = 0 THEN Created(t, t) ELSE Absent]]
      BY DEF Init
    <2>2. Created(t, t) \in Row /\ Absent \in Row
      BY Typed DEF Contents
    <2> QED
      BY <2>1, <2>2
  <1>2. \A m \in Memories : object[m][0] \in Row
    BY <1>1, Typed
  <1>3. vector \in [Memories -> Contents]
    BY <1>2 DEF Init, Row
  <1>4. trail \in [Memories -> Claims]
    BY <1>2, Typed DEF Init
  <1> QED
    BY <1>1, <1>3, <1>4, Typed DEF Init, TypeOK

LEMMA StoredTyped ==
  ASSUME TypeOK, NEW m \in Memories
  PROVE  Stored(m) \in Row
  BY DEF TypeOK, Stored

LEMMA ObjectTyped ==
  ASSUME TypeOK, NEW m \in Memories, NEW g \in Ages, NEW o \in Row
  PROVE  [object EXCEPT ![m][g] = o] \in [Memories -> [Ages -> Row]]
  BY DEF TypeOK

LEMMA RequestTyped ==
  ASSUME TypeOK, NEW a \in Handlers
  PROVE  /\ h[a] \in Requests /\ h[a].mem \in Memories /\ h[a].age \in Ages
         /\ h[a].text \in Contents /\ h[a].vec \in Contents
         /\ object[h[a].mem][h[a].age] \in Row
  <1>1. h[a] \in Requests
    BY DEF TypeOK
  <1> QED
    BY <1>1 DEF TypeOK, Requests

(* The end of a request: the objects that are stored or in other hands are  *)
(* as given, the rest are as given or gone.                                 *)
LEMMA Returned ==
  ASSUME TypeOK, NEW a \in Handlers,
         NEW objects \in [Memories -> [Ages -> Row]], NEW stored \in [Memories -> Ages],
         Return(a, objects, stored)
  PROVE  /\ h' = [h EXCEPT ![a] = Idle] /\ table' = stored
         /\ h' \in [Handlers -> Requests]
         /\ object' \in [Memories -> [Ages -> Row]]
         /\ \A m \in Memories : object'[m][stored[m]] = objects[m][stored[m]]
         /\ \A m \in Memories, g \in Ages : object'[m][g] \in {objects[m][g], Absent}
         /\ \A b \in Handlers \ {a} :
              h[b].pc # "idle" => object'[h[b].mem][h[b].age] = objects[h[b].mem][h[b].age]
  <1> DEFINE kept(m, g) == g = stored[m] \/ \E b \in Handlers :
                             h'[b].pc # "idle" /\ h'[b].mem = m /\ h'[b].age = g
  <1>1. h' = [h EXCEPT ![a] = Idle] /\ table' = stored
    BY DEF Return
  <1>2. object' = [m \in Memories |->
                     [g \in Ages |-> IF kept(m, g) THEN objects[m][g] ELSE Absent]]
    BY <1>1 DEF Return
  <1>3. ASSUME NEW b \in Handlers \ {a}, h[b].pc # "idle" PROVE kept(h[b].mem, h[b].age)
    BY <1>1, <1>3 DEF TypeOK
  <1>4. \A m \in Memories : kept(m, stored[m])
    OBVIOUS
  <1> HIDE DEF kept
  <1>5. \A b \in Handlers : h[b].mem \in Memories /\ h[b].age \in Ages
    BY RequestTyped
  <1>6. h' \in [Handlers -> Requests]
    BY <1>1, Typed DEF TypeOK
  <1>7. object' \in [Memories -> [Ages -> Row]]
    BY <1>2, Typed
  <1>8. \A m \in Memories : object'[m][stored[m]] = objects[m][stored[m]]
    BY <1>2, <1>4
  <1>9. \A m \in Memories, g \in Ages : object'[m][g] \in {objects[m][g], Absent}
    BY <1>2
  <1>10. \A b \in Handlers \ {a} :
           h[b].pc # "idle" => object'[h[b].mem][h[b].age] = objects[h[b].mem][h[b].age]
    BY <1>2, <1>3, <1>5
  <1> QED
    BY <1>1, <1>6, <1>7, <1>8, <1>9, <1>10

LEMMA ChangedTyped ==
  ASSUME NEW o \in Row, NEW r \in Requests
  PROVE  Changed(o, r) \in Row
  <1>1. /\ r.text \in Contents /\ r.vec \in Contents /\ r.status \in Statuses
        /\ o.status \in Statuses /\ o.held \in BOOLEAN
    BY DEF Requests, Row
  <1>2. Edited(o, r.text, r.vec) \in Row
    BY <1>1 DEF Edited, Row, Statuses
  <1>3. [o EXCEPT !.status = r.status] \in Row /\ [o EXCEPT !.status = "deleted"] \in Row
    BY <1>1 DEF Row, Statuses
  <1>4. [o EXCEPT !.held = ~o.held] \in Row
    BY DEF Row
  <1> QED
    BY <1>2, <1>3, <1>4 DEF Changed

LEMMA RecordedTyped ==
  ASSUME TypeOK, NEW a \in Handlers
  PROVE  Recorded(trail[h[a].mem], h[a]) \in Claims
  <1> DEFINE r == h[a]
             t == trail[h[a].mem]
  <1>1. /\ r.text \in Contents /\ r.vec \in Contents /\ r.status \in Statuses
        /\ r.mem \in Memories /\ Held(r) \in BOOLEAN
    BY RequestTyped DEF Held, Row, Requests
  <1>2. t \in Claims
    BY <1>1 DEF TypeOK
  <1>3. Told(Created(r.text, r.vec)) \in Claims
    BY <1>1, Typed
  <1> HIDE DEF r, t
  <1>4. [status |-> IF r.text \in Sensitive THEN "pending" ELSE t.status,
         text |-> r.text, held |-> t.held] \in Claims
    BY <1>1, <1>2 DEF Claims, Statuses
  <1>5. [t EXCEPT !.status = r.status] \in Claims /\ [t EXCEPT !.status = "deleted"] \in Claims
    BY <1>1, <1>2 DEF Claims, Statuses
  <1>6. [t EXCEPT !.held = Held(r)] \in Claims
    BY <1>1, <1>2 DEF Claims
  <1>7. Recorded(t, r) \in Claims
    BY <1>3, <1>4, <1>5, <1>6 DEF Recorded
  <1> QED
    BY <1>7 DEF r, t

LEMMA SnapshotTyped ==
  ASSUME TypeOK, NEW a \in Handlers
  PROVE  Snapshot(a) \in Snapshots
  <1>1. [m \in Memories |-> Stored(m)] \in [Memories -> Row]
    BY StoredTyped
  <1> QED
    BY <1>1 DEF Snapshot, Snapshots, TypeOK

LEMMA BeginTyped ==
  ASSUME TypeOK, NEW a \in Handlers, NEW r \in Requests, Begin(a, r)
  PROVE  TypeOK'
  <1>1. r.mem \in Memories /\ r.age \in Ages
    BY DEF Requests
  <1>2. Changed(object[r.mem][r.age], r) \in Row
    BY <1>1, ChangedTyped DEF TypeOK
  <1>3. object' \in [Memories -> [Ages -> Row]]
    BY <1>1, <1>2 DEF Begin, TypeOK
  <1>4. [r EXCEPT !.pc = "open"] \in Requests
    BY DEF Requests
  <1>5. h' \in [Handlers -> Requests]
    BY <1>4 DEF Begin, Ask, TypeOK
  <1>6. lock' \in Snapshots
    BY SnapshotTyped DEF Begin
  <1> QED
    BY <1>3, <1>5, <1>6 DEF Begin, TypeOK

LEMMA NewAgeIsFree ==
  ASSUME FreeAges # {}
  PROVE  NewAge \in FreeAges /\ NewAge \in Ages
  BY DEF NewAge, FreeAges

(* What a rollback restores, and what it leaves.                            *)
LEMMA Restored ==
  ASSUME TypeOK, NEW a \in Handlers, lock \in Snapshots, FreeAges # {}, Restore(a)
  PROVE  /\ h' = [h EXCEPT ![a] = Idle] /\ h' \in [Handlers -> Requests]
         /\ table' = [m \in Memories |-> NewAge] /\ table' \in [Memories -> Ages]
         /\ object' \in [Memories -> [Ages -> Row]]
         /\ \A m \in Memories : Stored(m)' = lock.rows[m]
         /\ \A m \in Memories, g \in Ages : object'[m][g] \in {object[m][g], lock.rows[m], Absent}
  <1> DEFINE objects == [m \in Memories |-> [object[m] EXCEPT ![NewAge] = lock.rows[m]]]
             stored == [m \in Memories |-> NewAge]
  <1>1. NewAge \in Ages
    BY NewAgeIsFree
  <1>2. lock.rows \in [Memories -> Row]
    BY DEF Snapshots
  <1>3. objects \in [Memories -> [Ages -> Row]]
    BY <1>1, <1>2 DEF TypeOK
  <1>4. stored \in [Memories -> Ages]
    BY <1>1
  <1>5. \A m \in Memories, g \in Ages : objects[m][g] \in {object[m][g], lock.rows[m]}
    BY DEF TypeOK
  <1>6. \A m \in Memories : objects[m][stored[m]] = lock.rows[m]
    BY <1>1 DEF TypeOK
  <1>7. Return(a, objects, stored)
    BY DEF Restore
  <1> HIDE DEF objects
  <1>8. /\ h' = [h EXCEPT ![a] = Idle] /\ table' = stored
        /\ h' \in [Handlers -> Requests]
        /\ object' \in [Memories -> [Ages -> Row]]
        /\ \A m \in Memories : object'[m][stored[m]] = objects[m][stored[m]]
        /\ \A m \in Memories, g \in Ages : object'[m][g] \in {objects[m][g], Absent}
    BY <1>3, <1>4, <1>7, Returned
  <1>9. \A m \in Memories : Stored(m)' = lock.rows[m]
    BY <1>6, <1>8 DEF Stored
  <1> QED
    BY <1>4, <1>5, <1>8, <1>9

LEMMA LoadFacts ==
  ASSUME NEW a \in Handlers, TypeOK, Load(a)
  PROVE  \E r \in Requests :
           /\ r.pc = "loaded" /\ h' = [h EXCEPT ![a] = r]
           /\ h[a].pc = "idle" /\ UNCHANGED <<object, table, vector, trail, lock, orphaned>>
  <1> DEFINE asked(m) ==
               [pc : {"loaded"}, op : {"edit"}, mem : {m}, age : {table[m]}, text : Texts,
                vec : {Nothing}, status : {"absent"}, rev : {0, Stored(m).rev}]
               \cup [pc : {"loaded"}, op : {"move"}, mem : {m}, age : {table[m]},
                     text : {Nothing}, vec : {Nothing},
                     status : {"active", "archived", "rejected"}, rev : {0, Stored(m).rev}]
               \cup [pc : {"loaded"}, op : {"hold", "delete"}, mem : {m}, age : {table[m]},
                     text : {Nothing}, vec : {Nothing}, status : {"absent"}, rev : {0}]
  <1>1. PICK m \in Memories : \E r \in asked(m) : h' = [h EXCEPT ![a] = r]
    BY DEF Load, Ask
  <1>4. PICK r \in asked(m) : h' = [h EXCEPT ![a] = r]
    BY <1>1
  <1>2. table[m] \in Ages /\ Stored(m).rev \in Nat
    BY StoredTyped DEF TypeOK, Row
  <1>3. r \in Requests /\ r.pc = "loaded"
    BY <1>2, <1>4 DEF Requests, Contents, Statuses
  <1> QED
    BY <1>3, <1>4 DEF Load

LEMMA CreateFacts ==
  ASSUME NEW a \in Handlers, TypeOK, BeginCreate(a)
  PROVE  \E r \in Requests :
           /\ r.pc = "persisted" /\ r.op = "create" /\ r.age = table[r.mem]
           /\ r.text \in Texts /\ r.vec \in {r.text, Nothing}
           /\ h' = [h EXCEPT ![a] = r]
           /\ object' = [object EXCEPT ![r.mem][r.age] = Created(r.text, r.vec)]
           /\ vector' = [vector EXCEPT ![r.mem] = r.vec]
           /\ lock' = Snapshot(a) /\ Unlocked /\ h[a].pc = "idle"
           /\ UNCHANGED <<table, trail, orphaned>>
  <1> DEFINE request(m, text, vec) ==
               [Idle EXCEPT !.pc = "persisted", !.op = "create", !.mem = m, !.age = table[m],
                            !.text = text, !.vec = vec]
             made(m, text, vec) ==
               /\ object' = [object EXCEPT ![m][table[m]] = Created(text, vec)]
               /\ vector' = [vector EXCEPT ![m] = vec]
               /\ h' = [h EXCEPT ![a] = request(m, text, vec)]
  <1>0. \E m \in Memories, text \in Texts : \E vec \in {text, Nothing} : made(m, text, vec)
    BY Zenon DEF BeginCreate, Ask
  <1> HIDE DEF made
  <1>1. PICK m \in Memories, text \in Texts, vec \in Contents :
          vec \in {text, Nothing} /\ made(m, text, vec)
    BY <1>0 DEF Contents
  <1> DEFINE r == request(m, text, vec)
  <1>2. table[m] \in Ages /\ text \in Contents /\ vec \in Contents
    BY DEF TypeOK, Contents
  <1>3. r \in Requests
    BY <1>2, Typed DEF Requests
  <1>4. /\ r.pc = "persisted" /\ r.op = "create" /\ r.mem = m /\ r.age = table[m]
        /\ r.text = text /\ r.vec = vec
    BY DEF Idle
  <1> HIDE DEF r
  <1> WITNESS r \in Requests
  <1> QED
    BY <1>1, <1>4 DEF r, made, BeginCreate

\* Persist stores o where old is, and leaves its handler with request r.
Persisted(a, old, o, r) ==
  /\ o.status = old.status /\ o.text = old.text /\ o.vec = old.vec /\ o.held = old.held
  /\ r.pc = "persisted" /\ r.op = h[a].op /\ r.mem = h[a].mem /\ r.age = h[a].age
  /\ r.text = h[a].text /\ r.vec = h[a].vec /\ r.status = h[a].status
  /\ object' = [object EXCEPT ![h[a].mem][h[a].age] = o]
  /\ h' = [h EXCEPT ![a] = r]
  /\ vector' = [vector EXCEPT ![h[a].mem] = IF old.status = "active" THEN old.vec ELSE Nothing]

LEMMA PersistFacts ==
  ASSUME NEW a \in Handlers, TypeOK, Persist(a)
  PROVE  \E o \in Row, r \in Requests : Persisted(a, object[h[a].mem][h[a].age], o, r)
  <1> DEFINE q == h[a]
             old == object[q.mem][q.age]
             o == [old EXCEPT !.rev = old.rev + 1]
             r == [q EXCEPT !.pc = "persisted", !.rev = 0]
  <1>1. q \in Requests /\ old \in Row
    BY RequestTyped
  <1>2. o \in Row
    BY <1>1 DEF Row
  <1>3. r \in Requests
    BY <1>1 DEF Requests
  <1>4. o.status = old.status /\ o.text = old.text /\ o.vec = old.vec /\ o.held = old.held
    BY <1>1 DEF Row
  <1>5. /\ r.pc = "persisted" /\ r.op = q.op /\ r.mem = q.mem /\ r.age = q.age
        /\ r.text = q.text /\ r.vec = q.vec /\ r.status = q.status
    BY <1>1 DEF Requests
  <1>6. /\ object' = [object EXCEPT ![q.mem][q.age] = o]
        /\ h' = [h EXCEPT ![a] = r]
        /\ vector' = [vector EXCEPT ![q.mem] = IF old.status = "active" THEN old.vec ELSE Nothing]
    BY DEF Persist, Ask
  <1> HIDE DEF o, r
  <1> WITNESS o \in Row, r \in Requests
  <1> QED
    BY <1>4, <1>5, <1>6 DEF Persisted

LEMMA MovesTyped ==
  ASSUME NEW r \in Requests
  PROVE  /\ [r EXCEPT !.pc = "allowed"] \in Requests
         /\ [r EXCEPT !.pc = "failing"] \in Requests
         /\ \A vec \in Contents : [r EXCEPT !.vec = vec] \in Requests
         /\ \A age \in Ages : [r EXCEPT !.age = age] \in Requests
  BY DEF Requests

LEMMA TypeStep ==
  ASSUME TypeOK, LockHeld, NEW a \in Handlers, Step(a)
  PROVE  TypeOK'
  <1>1. CASE Load(a)
    BY <1>1, LoadFacts DEF TypeOK
  <1>2. CASE Validate(a)
    <2>1. CASE Allowed(h[a])
      BY ZenonT(60), <1>2, <2>1, RequestTyped, MovesTyped DEF Validate, Ask, TypeOK
    <2>2. CASE ~Allowed(h[a])
      <3>1. Return(a, object, table)
        BY <1>2, <2>2 DEF Validate
      <3>2. object' \in [Memories -> [Ages -> Row]] /\ table' = table /\ h' \in [Handlers -> Requests]
        BY <3>1, Returned DEF TypeOK
      <3> QED
        BY <1>2, <3>2 DEF Validate, TypeOK
    <2> QED
      BY <2>1, <2>2
  <1>3. CASE BeginEdit(a)
    <2>1. PICK vec \in {h[a].text, Nothing} : Begin(a, [h[a] EXCEPT !.vec = vec])
      BY <1>3 DEF BeginEdit
    <2>2. vec \in Contents
      BY RequestTyped DEF Contents
    <2> QED
      BY <2>1, <2>2, RequestTyped, MovesTyped, BeginTyped
  <1>4. CASE BeginChange(a)
    BY <1>4, RequestTyped, BeginTyped DEF BeginChange
  <1>5. CASE BeginDelete(a)
    <2>1. table[h[a].mem] \in Ages
      BY RequestTyped DEF TypeOK
    <2> QED
      BY <1>5, <2>1, RequestTyped, MovesTyped, BeginTyped DEF BeginDelete
  <1>6. CASE RefuseEdit(a)
    <2>1. h' \in [Handlers -> Requests]
      BY <1>6, RequestTyped, MovesTyped DEF RefuseEdit, Ask, TypeOK
    <2>2. lock' \in Snapshots
      BY <1>6, SnapshotTyped DEF RefuseEdit
    <2> QED
      BY <1>6, <2>1, <2>2 DEF RefuseEdit, TypeOK
  <1>7. CASE BeginCreate(a)
    <2>1. PICK r \in Requests :
            /\ r.age = table[r.mem] /\ r.text \in Texts /\ r.vec \in {r.text, Nothing}
            /\ h' = [h EXCEPT ![a] = r]
            /\ object' = [object EXCEPT ![r.mem][r.age] = Created(r.text, r.vec)]
            /\ vector' = [vector EXCEPT ![r.mem] = r.vec]
            /\ lock' = Snapshot(a)
            /\ UNCHANGED <<table, trail, orphaned>>
      BY <1>7, CreateFacts
    <2>2. r.mem \in Memories /\ r.age \in Ages /\ r.text \in Contents /\ r.vec \in Contents
      BY DEF Requests
    <2>3. Created(r.text, r.vec) \in Row
      BY <2>2, Typed
    <2>4. object' \in [Memories -> [Ages -> Row]]
      BY <2>1, <2>2, <2>3, ObjectTyped
    <2>5. vector' \in [Memories -> Contents]
      BY <2>1, <2>2 DEF TypeOK
    <2> QED
      BY <2>1, <2>4, <2>5, SnapshotTyped DEF TypeOK
  <1>8. CASE Persist(a)
    <2>1. h[a].mem \in Memories /\ h[a].age \in Ages
      BY RequestTyped
    <2>2. PICK o \in Row, r \in Requests :
            Persisted(a, object[h[a].mem][h[a].age], o, r)
      BY <1>8, PersistFacts
    <2>3. object' \in [Memories -> [Ages -> Row]] /\ h' \in [Handlers -> Requests]
      BY <2>1, <2>2, ObjectTyped DEF TypeOK, Persisted
    <2>4. vector' \in [Memories -> Contents]
      <3>1. object[h[a].mem][h[a].age].vec \in Contents /\ Nothing \in Contents
        BY RequestTyped DEF Row, Contents
      <3> QED
        BY <1>8, <2>1, <3>1 DEF Persist, TypeOK
    <2>5. table' \in [Memories -> Ages] /\ orphaned' \subseteq Memories
      BY <1>8, <2>1 DEF Persist, TypeOK
    <2> QED
      BY <1>8, <2>3, <2>4, <2>5 DEF Persist, TypeOK
  <1>9. CASE RefuseStale(a)
    BY <1>9, RequestTyped, MovesTyped DEF RefuseStale, Ask, TypeOK
  <1>10. CASE Commit(a)
    <2>1. object' \in [Memories -> [Ages -> Row]] /\ table' = table /\ h' \in [Handlers -> Requests]
      BY <1>10, Returned DEF Commit, TypeOK
    <2>2. trail' \in [Memories -> Claims]
      BY <1>10, RecordedTyped DEF Commit, TypeOK
    <2> QED
      BY <1>10, <2>1, <2>2 DEF Commit, TypeOK
  <1>11. CASE RollBack(a)
    <2>1. lock \in Snapshots /\ FreeAges # {}
      BY <1>11 DEF RollBack, MayRollBack, LockHeld, InTransaction, Unlocked, TypeOK
    <2>2. lock.vectors \in [Memories -> Contents]
      BY <2>1 DEF Snapshots
    <2>3. /\ object' \in [Memories -> [Ages -> Row]] /\ table' \in [Memories -> Ages]
          /\ h' \in [Handlers -> Requests]
      BY <1>11, <2>1, Restored DEF RollBack
    <2> QED
      BY <1>11, <2>2, <2>3 DEF RollBack, TypeOK
  <1> QED
    BY <1>1, <1>2, <1>3, <1>4, <1>5, <1>6, <1>7, <1>8, <1>9, <1>10, <1>11 DEF Step

-----------------------------------------------------------------------------

USE DEF InTransaction

LEMMA LockOf ==
  ASSUME TypeOK
  PROVE  /\ ~Unlocked => lock \in Snapshots /\ lock.owner \in Handlers
         /\ NoLock.owner = Nothing /\ Nothing \notin Handlers
         /\ \A a \in Handlers : Snapshot(a).owner = a /\ Snapshot(a) # NoLock
  <1>1. NoLock.owner = Nothing /\ Nothing \notin Handlers
    BY LiveAssumption DEF NoLock
  <1>2. \A a \in Handlers : Snapshot(a).owner = a
    BY DEF Snapshot
  <1>3. ~Unlocked => lock \in Snapshots /\ lock.owner \in Handlers
    BY DEF TypeOK, Unlocked, Snapshots
  <1> QED
    BY <1>1, <1>2, <1>3

LEMMA InvariantInit == Init => LiveInvariant
  <1> SUFFICES ASSUME Init PROVE LiveInvariant
    OBVIOUS
  <1>1. TypeOK /\ Unlocked /\ orphaned = {} /\ 0 \in Ages
    BY TypeInit, Typed DEF Init, Unlocked
  <1>2. \A a \in Handlers : h[a].pc = "idle"
    BY DEF Init, Idle
  <1>3. PICK kept \in SUBSET Memories, t \in Texts \ Refused :
          object = [m \in Memories |->
                      [g \in Ages |-> IF m \in kept /\ g = 0 THEN Created(t, t) ELSE Absent]]
    BY DEF Init
  <1>4. \A m \in Memories, g \in Ages : object[m][g] \in {Created(t, t), Absent}
    BY <1>3
  <1>5. /\ Created(t, t).vec = t /\ Created(t, t).text = t
        /\ Created(t, t).status \in {"active", "pending"}
        /\ Absent.vec = Nothing /\ Absent.text = Nothing /\ Absent.status = "absent"
    BY DEF Created, Absent
  <1>6. \A m \in Memories :
          /\ Stored(m) = object[m][0] /\ vector[m] = Stored(m).vec /\ trail[m] = Told(Stored(m))
    BY DEF Init, Stored
  <1>7. ObjectsPaired
    BY <1>4, <1>5 DEF ObjectsPaired
  <1>8. RowsSettled
    BY <1>1, <1>4, <1>5, <1>6 DEF RowsSettled, Settled, Fits
  <1> QED
    BY <1>1, <1>2, <1>7, <1>8
    DEF LiveInvariant, LockHeld, SnapshotSettled, OthersUntouched, ChangeIsTold, Tells

(* A step outside any transaction: one handler's request moves, and no      *)
(* stored object changes, nor any a transaction works on.                   *)
LEMMA OutsideKeeps ==
  ASSUME TypeOK, LiveInvariant, NEW a \in Handlers, NEW r,
         h' = [h EXCEPT ![a] = r], ~InTransaction(h[a]), ~InTransaction(r),
         UNCHANGED <<table, vector, trail, lock, orphaned>>,
         \A m \in Memories : Stored(m)' = Stored(m),
         ObjectsPaired',
         \A b \in Handlers \ {a} :
           InTransaction(h[b]) => object'[h[b].mem][h[b].age] = object[h[b].mem][h[b].age]
  PROVE  LiveInvariant'
  <1>1. \A b \in Handlers : h'[b] = IF b = a THEN r ELSE h[b]
    BY DEF TypeOK
  <1>2. LockHeld'
    BY <1>1 DEF LiveInvariant, LockHeld, Unlocked
  <1>3. RowsSettled' /\ SnapshotSettled'
    BY DEF LiveInvariant, RowsSettled, SnapshotSettled, Settled, Unlocked
  <1>4. OthersUntouched'
    <2>1. ~Unlocked => lock.owner # a /\ lock.owner \in Handlers
      BY LockOf DEF LiveInvariant, LockHeld
    <2> QED
      BY <1>1, <2>1 DEF LiveInvariant, OthersUntouched, Unlocked
  <1>5. ChangeIsTold'
    <2> SUFFICES ASSUME NEW b \in Handlers, InTransaction(h[b])' PROVE Tells(h[b])'
      BY DEF ChangeIsTold, Tells
    <2>1. b # a /\ h'[b] = h[b] /\ h[b].mem \in Memories /\ Tells(h[b])
      BY <1>1, RequestTyped DEF LiveInvariant, ChangeIsTold
    <2>2. object'[h[b].mem][h[b].age] = object[h[b].mem][h[b].age]
      BY <1>1, <2>1
    <2>3. Recorded(trail[h[b].mem], h[b])' = Recorded(trail[h[b].mem], h[b])
      BY SMTT(20), <2>1, <2>2 DEF Recorded, Held
    <2>4. Stored(h[b].mem)' = Stored(h[b].mem)
      BY <2>1
    <2> QED
      BY SMTT(60), <2>1, <2>2, <2>3, <2>4 DEF Tells, Fits, Told
  <1> QED
    BY <1>2, <1>3, <1>4, <1>5 DEF LiveInvariant

LEMMA LoadKeeps ==
  ASSUME TypeOK, LiveInvariant, NEW a \in Handlers, Load(a)
  PROVE  LiveInvariant'
  <1>1. PICK r \in Requests :
          /\ r.pc = "loaded" /\ h' = [h EXCEPT ![a] = r]
          /\ h[a].pc = "idle" /\ UNCHANGED <<object, table, vector, trail, lock, orphaned>>
    BY LoadFacts
  <1>2. ObjectsPaired' /\ \A m \in Memories : Stored(m)' = Stored(m)
    BY <1>1 DEF LiveInvariant, ObjectsPaired, Stored
  <1> QED
    BY <1>1, <1>2, OutsideKeeps

LEMMA ValidateKeeps ==
  ASSUME TypeOK, LiveInvariant, NEW a \in Handlers, Validate(a)
  PROVE  LiveInvariant'
  <1>1. UNCHANGED <<vector, trail, lock, orphaned>> /\ ~InTransaction(h[a])
    BY DEF Validate
  <1>2. CASE Allowed(h[a])
    <2>1. /\ h' = [h EXCEPT ![a] = [h[a] EXCEPT !.pc = "allowed"]]
          /\ UNCHANGED <<object, table>>
      BY <1>2 DEF Validate, Ask
    <2>2. [h[a] EXCEPT !.pc = "allowed"].pc = "allowed"
      BY RequestTyped DEF Requests
    <2>3. ObjectsPaired' /\ \A m \in Memories : Stored(m)' = Stored(m)
      BY <2>1 DEF LiveInvariant, ObjectsPaired, Stored
    <2> QED
      BY <1>1, <2>1, <2>2, <2>3, OutsideKeeps
  <1>3. CASE ~Allowed(h[a])
    <2>1. Return(a, object, table)
      BY <1>3 DEF Validate
    <2>2. object \in [Memories -> [Ages -> Row]] /\ table \in [Memories -> Ages]
      BY DEF TypeOK
    <2>3. /\ h' = [h EXCEPT ![a] = Idle] /\ table' = table
          /\ \A m \in Memories : object'[m][table[m]] = object[m][table[m]]
          /\ \A m \in Memories, g \in Ages : object'[m][g] \in {object[m][g], Absent}
          /\ \A b \in Handlers \ {a} :
               h[b].pc # "idle" => object'[h[b].mem][h[b].age] = object[h[b].mem][h[b].age]
      BY <2>1, <2>2, Returned
    <2>4. ObjectsPaired'
      BY <2>3 DEF LiveInvariant, ObjectsPaired, Absent
    <2>5. \A m \in Memories : Stored(m)' = Stored(m)
      BY <2>3 DEF Stored
    <2>6. ~InTransaction(Idle)
      BY DEF Idle
    <2> QED
      BY <1>1, <2>3, <2>4, <2>5, <2>6, OutsideKeeps
  <1> QED
    BY <1>2, <1>3

(* The first step of a transaction: it takes the lock and a snapshot of     *)
(* settled rows, and touches at most the memory of its request.             *)
LEMMA OpeningKeeps ==
  ASSUME TypeOK, LiveInvariant, NEW a \in Handlers, NEW r \in Requests,
         Unlocked, lock' = Snapshot(a), h' = [h EXCEPT ![a] = r], InTransaction(r),
         UNCHANGED <<table, trail, orphaned>>,
         \A m \in Memories \ {r.mem} : Stored(m)' = Stored(m) /\ vector'[m] = vector[m],
         ObjectsPaired', Tells(r)'
  PROVE  LiveInvariant'
  <1>1. \A b \in Handlers : h'[b] = IF b = a THEN r ELSE h[b]
    BY DEF TypeOK
  <1>2. \A b \in Handlers : ~InTransaction(h[b])
    BY DEF LiveInvariant, LockHeld
  <1>3. ~Unlocked' /\ lock'.owner = a
    BY LockOf DEF Unlocked
  <1>4. /\ \A m \in Memories : lock'.rows[m] = Stored(m)
        /\ lock'.vectors = vector
    BY DEF Snapshot
  <1>5. LockHeld'
    BY <1>1, <1>2, <1>3 DEF LockHeld
  <1>6. RowsSettled'
    BY <1>3 DEF RowsSettled
  <1>7. SnapshotSettled'
    BY <1>4 DEF LiveInvariant, RowsSettled, SnapshotSettled, Settled
  <1>8. OthersUntouched'
    BY <1>1, <1>3, <1>4 DEF OthersUntouched
  <1>9. ChangeIsTold'
    <2>1. Tells(h[a])'
      <3>1. h'[a] = r
        BY <1>1
      <3> QED
        BY <3>1 DEF Tells, Recorded, Held, Told, Stored, Fits
    <2>2. \A b \in Handlers \ {a} : Tells(h[b])'
      BY <1>1, <1>2 DEF Tells
    <2> QED
      BY <2>1, <2>2 DEF ChangeIsTold
  <1> QED
    BY <1>5, <1>6, <1>7, <1>8, <1>9 DEF LiveInvariant

(* A step inside a transaction, on the memory of its request.               *)
LEMMA InsideKeeps ==
  ASSUME TypeOK, LiveInvariant, NEW a \in Handlers, NEW r \in Requests,
         InTransaction(h[a]), InTransaction(r), h' = [h EXCEPT ![a] = r], r.mem = h[a].mem,
         UNCHANGED <<lock, trail>>, orphaned \subseteq orphaned',
         \A m \in Memories \ {r.mem} : Stored(m)' = Stored(m) /\ vector'[m] = vector[m],
         ObjectsPaired', Tells(r)'
  PROVE  LiveInvariant'
  <1>1. \A b \in Handlers : h'[b] = IF b = a THEN r ELSE h[b]
    BY DEF TypeOK
  <1>2. ~Unlocked /\ lock.owner = a
    BY DEF LiveInvariant, LockHeld
  <1>3. \A b \in Handlers \ {a} : ~InTransaction(h[b])
    BY <1>2 DEF LiveInvariant, LockHeld
  <1>4. LockHeld'
    BY <1>1, <1>2, <1>3 DEF LockHeld, Unlocked
  <1>5. RowsSettled'
    BY <1>2 DEF RowsSettled, Unlocked
  <1>6. SnapshotSettled'
    BY DEF LiveInvariant, SnapshotSettled, Settled, Unlocked
  <1>7. OthersUntouched'
    BY <1>1, <1>2 DEF LiveInvariant, OthersUntouched, Unlocked
  <1>8. ChangeIsTold'
    <2>1. Tells(h[a])'
      <3>1. h'[a] = r
        BY <1>1
      <3> QED
        BY <3>1 DEF Tells, Recorded, Held, Told, Stored, Fits
    <2>2. \A b \in Handlers \ {a} : Tells(h[b])'
      BY <1>1, <1>3 DEF Tells
    <2> QED
      BY <2>1, <2>2 DEF ChangeIsTold
  <1> QED
    BY <1>4, <1>5, <1>6, <1>7, <1>8 DEF LiveInvariant

(* The last step of a transaction, if it leaves the rows settled.           *)
LEMMA EndingKeeps ==
  ASSUME TypeOK, LiveInvariant, NEW a \in Handlers, InTransaction(h[a]),
         h' = [h EXCEPT ![a] = Idle], lock' = NoLock, ObjectsPaired', RowsSettled'
  PROVE  LiveInvariant'
  <1>1. \A b \in Handlers \ {a} : ~InTransaction(h[b])
    BY DEF LiveInvariant, LockHeld
  <1>2. \A b \in Handlers : ~InTransaction(h'[b])
    BY <1>1 DEF Idle, TypeOK
  <1>3. Unlocked'
    BY DEF Unlocked
  <1>4. LockHeld' /\ SnapshotSettled' /\ OthersUntouched'
    BY <1>2, <1>3 DEF LockHeld, SnapshotSettled, OthersUntouched
  <1>5. ChangeIsTold'
    BY <1>2 DEF ChangeIsTold, Tells
  <1> QED
    BY <1>4, <1>5 DEF LiveInvariant

LEMMA BeginKeeps ==
  ASSUME TypeOK, LiveInvariant, NEW a \in Handlers, NEW r \in Requests, Begin(a, r),
         r.op \in {"edit", "move", "hold", "delete"},
         r.op = "edit" => r.vec \in {r.text, Nothing}
  PROVE  LiveInvariant'
  <1> DEFINE q == [r EXCEPT !.pc = "open"]
             old == object[r.mem][r.age]
             new == Changed(old, r)
  <1>1. /\ q \in Requests /\ q.pc = "open" /\ q.op = r.op /\ q.mem = r.mem /\ q.age = r.age
        /\ q.text = r.text /\ q.vec = r.vec /\ q.status = r.status
        /\ r.mem \in Memories /\ r.age \in Ages
    BY DEF Requests
  <1>2. old \in Row /\ new \in Row /\ old.vec \in {old.text, Nothing}
    BY <1>1, ChangedTyped DEF TypeOK, LiveInvariant, ObjectsPaired
  <1>3. new.vec \in {new.text, Nothing}
    BY <1>2 DEF Changed, Edited, Row
  <1>4. /\ Unlocked /\ lock' = Snapshot(a) /\ h' = [h EXCEPT ![a] = q]
        /\ object' = [object EXCEPT ![r.mem][r.age] = new]
        /\ UNCHANGED <<table, vector, trail, orphaned>>
    BY DEF Begin, Ask
  <1>5. r.mem \notin orphaned /\ r.age = table[r.mem] => Told(old) = trail[r.mem]
    BY <1>1, <1>4 DEF LiveInvariant, RowsSettled, Settled, Stored
  <1>6. trail[r.mem] = Told(old) => Told(new) = Recorded(trail[r.mem], r)'
    <2>1. object'[r.mem][r.age] = new /\ trail'[r.mem] = trail[r.mem]
      BY <1>1, <1>4 DEF TypeOK
    <2>2. /\ r.op = "edit" => /\ new.text = r.text /\ new.held = old.held
                              /\ new.status = IF r.text \in Sensitive THEN "pending" ELSE old.status
          /\ r.op = "move" => new.text = old.text /\ new.held = old.held /\ new.status = r.status
          /\ r.op = "hold" => new.text = old.text /\ new.status = old.status
          /\ r.op = "delete" => /\ new.text = old.text /\ new.held = old.held
                                /\ new.status = "deleted"
      BY <1>2 DEF Changed, Edited, Row
    <2> HIDE DEF new, old
    <2> SUFFICES ASSUME NEW t, trail[r.mem] = t, t = Told(old) PROVE Told(new) = Recorded(t, r)'
      BY <2>1 DEF Recorded, Held
    <2>3. CASE r.op = "edit"
      BY <2>2, <2>3 DEF Told, Recorded
    <2>4. CASE r.op = "move"
      BY <2>2, <2>4 DEF Told, Recorded
    <2>5. CASE r.op = "hold"
      BY <2>1, <2>2, <2>5 DEF Told, Recorded, Held
    <2>6. CASE r.op = "delete"
      BY <2>2, <2>6 DEF Told, Recorded
    <2> QED
      BY <2>3, <2>4, <2>5, <2>6
  <1> HIDE DEF q, new, old
  <1>7. \A m \in Memories, g \in Ages :
          object'[m][g] = IF m = r.mem /\ g = r.age THEN new ELSE object[m][g]
    BY <1>1, <1>4 DEF TypeOK
  <1>8. ObjectsPaired'
    BY <1>3, <1>7 DEF LiveInvariant, ObjectsPaired
  <1>9. \A m \in Memories \ {r.mem} : Stored(m)' = Stored(m) /\ vector'[m] = vector[m]
    BY <1>4, <1>7 DEF Stored, TypeOK
  <1>10. Recorded(trail[q.mem], q)' = Recorded(trail[r.mem], r)'
    BY <1>1 DEF Recorded, Held
  <1>11. Tells(q)'
    BY <1>1, <1>4, <1>5, <1>6, <1>7, <1>10 DEF Tells, Told, old
  <1> QED
    BY <1>1, <1>4, <1>8, <1>9, <1>11, OpeningKeeps

LEMMA BeginEditKeeps ==
  ASSUME TypeOK, LiveInvariant, NEW a \in Handlers, BeginEdit(a)
  PROVE  LiveInvariant'
  <1>1. PICK vec \in {h[a].text, Nothing} : Begin(a, [h[a] EXCEPT !.vec = vec])
    BY DEF BeginEdit
  <1>2. h[a] \in Requests /\ h[a].op = "edit" /\ vec \in Contents
    BY RequestTyped DEF BeginEdit, Contents
  <1> DEFINE r == [h[a] EXCEPT !.vec = vec]
  <1>3. r \in Requests /\ r.op = "edit" /\ r.vec = vec /\ r.text = h[a].text
    BY <1>2 DEF Requests
  <1> HIDE DEF r
  <1> QED
    BY <1>1, <1>3, BeginKeeps DEF r

LEMMA BeginChangeKeeps ==
  ASSUME TypeOK, LiveInvariant, NEW a \in Handlers, BeginChange(a)
  PROVE  LiveInvariant'
  BY RequestTyped, BeginKeeps DEF BeginChange

LEMMA BeginDeleteKeeps ==
  ASSUME TypeOK, LiveInvariant, NEW a \in Handlers, BeginDelete(a)
  PROVE  LiveInvariant'
  <1> DEFINE r == [h[a] EXCEPT !.age = table[h[a].mem]]
  <1>1. h[a] \in Requests /\ h[a].op = "delete" /\ table[h[a].mem] \in Ages
    BY RequestTyped DEF BeginDelete, TypeOK
  <1>2. r \in Requests /\ r.op = "delete"
    BY <1>1 DEF Requests
  <1>3. Begin(a, r)
    BY DEF BeginDelete
  <1> HIDE DEF r
  <1> QED
    BY <1>2, <1>3, BeginKeeps

LEMMA FailingTyped ==
  ASSUME NEW q \in Requests
  PROVE  LET r == [q EXCEPT !.pc = "failing"]
         IN  r \in Requests /\ r.pc = "failing" /\ r.mem = q.mem
  BY DEF Requests

LEMMA RefuseEditKeeps ==
  ASSUME TypeOK, LiveInvariant, NEW a \in Handlers, RefuseEdit(a)
  PROVE  LiveInvariant'
  <1>1. PICK r \in Requests : r.pc = "failing" /\ h' = [h EXCEPT ![a] = r]
    BY RequestTyped, FailingTyped DEF RefuseEdit, Ask
  <1>2. /\ Unlocked /\ lock' = Snapshot(a)
        /\ UNCHANGED <<object, table, vector, trail, orphaned>>
    BY DEF RefuseEdit
  <1>3. ObjectsPaired' /\ \A m \in Memories : Stored(m)' = Stored(m)
    BY <1>2 DEF LiveInvariant, ObjectsPaired, Stored
  <1>4. Tells(r)'
    BY <1>1 DEF Tells
  <1> QED
    BY <1>1, <1>2, <1>3, <1>4, OpeningKeeps

LEMMA BeginCreateKeeps ==
  ASSUME TypeOK, LiveInvariant, NEW a \in Handlers, BeginCreate(a)
  PROVE  LiveInvariant'
  <1>1. PICK r \in Requests :
          /\ r.pc = "persisted" /\ r.op = "create" /\ r.age = table[r.mem]
          /\ r.text \in Texts /\ r.vec \in {r.text, Nothing}
          /\ h' = [h EXCEPT ![a] = r]
          /\ object' = [object EXCEPT ![r.mem][r.age] = Created(r.text, r.vec)]
          /\ vector' = [vector EXCEPT ![r.mem] = r.vec]
          /\ lock' = Snapshot(a) /\ Unlocked /\ h[a].pc = "idle"
          /\ UNCHANGED <<table, trail, orphaned>>
    BY CreateFacts
  <1> DEFINE new == Created(r.text, r.vec)
  <1>2. /\ new.text = r.text /\ new.vec = r.vec /\ new.status \in {"active", "pending"}
        /\ Nothing \notin Texts
    BY LiveAssumption DEF Created
  <1>3. r.mem \in Memories /\ r.age \in Ages
    BY DEF Requests
  <1> HIDE DEF new
  <1>4. \A m \in Memories, g \in Ages :
          object'[m][g] = IF m = r.mem /\ g = r.age THEN new ELSE object[m][g]
    BY <1>1, <1>3 DEF TypeOK, new
  <1>5. ObjectsPaired'
    BY <1>1, <1>2, <1>4 DEF LiveInvariant, ObjectsPaired
  <1>6. \A m \in Memories \ {r.mem} : Stored(m)' = Stored(m) /\ vector'[m] = vector[m]
    BY <1>1, <1>4 DEF Stored, TypeOK
  <1>7. Stored(r.mem)' = new /\ vector'[r.mem] = r.vec
    BY <1>1, <1>3, <1>4 DEF Stored, TypeOK
  <1>8. Fits(Stored(r.mem), vector[r.mem])'
    BY <1>1, <1>2, <1>7 DEF Fits
  <1>9. Recorded(trail[r.mem], r)' = Told(new)
    BY <1>1 DEF Recorded, new, Told
  <1>10. Tells(r)'
    BY <1>1, <1>7, <1>8, <1>9 DEF Tells, Told
  <1> QED
    BY <1>1, <1>5, <1>6, <1>10, OpeningKeeps

LEMMA PersistKeeps ==
  ASSUME TypeOK, LiveInvariant, NEW a \in Handlers, Persist(a)
  PROVE  LiveInvariant'
  <1> DEFINE q == h[a]
             old == object[q.mem][q.age]
  <1>1. PICK o \in Row, r \in Requests : Persisted(a, old, o, r)
    BY PersistFacts
  <1>2. /\ q.pc = "open" /\ q.mem \in Memories /\ q.age \in Ages
        /\ table' = [table EXCEPT ![q.mem] = q.age]
        /\ orphaned' = orphaned \cup (IF q.age = table[q.mem] THEN {} ELSE {q.mem})
        /\ UNCHANGED <<trail, lock>>
    BY RequestTyped DEF Persist
  <1>3. /\ object' = [object EXCEPT ![q.mem][q.age] = o]
        /\ h' = [h EXCEPT ![a] = r]
        /\ vector' = [vector EXCEPT ![q.mem] =
                        IF old.status = "active" THEN old.vec ELSE Nothing]
    BY <1>1 DEF Persisted
  <1>4. /\ o.status = old.status /\ o.text = old.text /\ o.vec = old.vec /\ o.held = old.held
        /\ r.pc = "persisted" /\ r.op = q.op /\ r.mem = q.mem /\ r.age = q.age
        /\ r.text = q.text /\ r.vec = q.vec /\ r.status = q.status
    BY <1>1 DEF Persisted
  <1>5. old.vec \in {old.text, Nothing}
    BY <1>2 DEF LiveInvariant, ObjectsPaired
  <1>6. q.age = table[q.mem] /\ q.mem \notin orphaned => Told(old) = Recorded(trail[q.mem], q)
    BY <1>2 DEF LiveInvariant, ChangeIsTold, Tells
  <1>7. Held(q) = old.held
    BY DEF Held
  <1>8. \A m \in Memories, g \in Ages :
          object'[m][g] = IF m = q.mem /\ g = q.age THEN o ELSE object[m][g]
    BY <1>2, <1>3 DEF TypeOK
  <1>9. ObjectsPaired'
    BY <1>4, <1>5, <1>8 DEF LiveInvariant, ObjectsPaired
  <1>10. \A m \in Memories \ {q.mem} : Stored(m)' = Stored(m) /\ vector'[m] = vector[m]
    BY <1>2, <1>3, <1>8 DEF Stored, TypeOK
  <1>11. /\ Stored(r.mem)' = o /\ table'[r.mem] = r.age
         /\ vector'[r.mem] = IF old.status = "active" THEN old.vec ELSE Nothing
    BY <1>2, <1>3, <1>4, <1>8 DEF Stored, TypeOK
  <1>12. Recorded(trail[r.mem], r)' = Recorded(trail[q.mem], q)
    <2>1. object'[q.mem][q.age] = o
      BY <1>2, <1>8
    <2> QED
      BY <1>2, <1>4, <1>7, <2>1 DEF Recorded, Held
  <1> HIDE DEF q, old
  <1>13. Tells(r)'
    <2>1. r.age = table'[r.mem]
      BY <1>4, <1>11
    <2>2. Fits(Stored(r.mem), vector[r.mem])'
      BY <1>4, <1>5, <1>11 DEF Fits
    <2>3. r.mem \notin orphaned' => Told(Stored(r.mem))' = Recorded(trail[r.mem], r)'
      BY <1>2, <1>4, <1>6, <1>11, <1>12 DEF Told
    <2> QED
      BY <1>4, <2>1, <2>2, <2>3 DEF Tells
  <1> QED
    BY <1>2, <1>3, <1>4, <1>9, <1>10, <1>13, InsideKeeps DEF q

LEMMA RefuseStaleKeeps ==
  ASSUME TypeOK, LiveInvariant, NEW a \in Handlers, RefuseStale(a)
  PROVE  LiveInvariant'
  <1>1. PICK r \in Requests :
          r.pc = "failing" /\ r.mem = h[a].mem /\ h' = [h EXCEPT ![a] = r]
    BY RequestTyped, FailingTyped DEF RefuseStale, Ask
  <1>2. h[a].pc = "open" /\ UNCHANGED <<object, table, vector, trail, lock, orphaned>>
    BY DEF RefuseStale
  <1>3. ObjectsPaired' /\ \A m \in Memories : Stored(m)' = Stored(m)
    BY <1>2 DEF LiveInvariant, ObjectsPaired, Stored
  <1>4. Tells(r)'
    BY <1>1 DEF Tells
  <1> QED
    BY <1>1, <1>2, <1>3, <1>4, InsideKeeps

LEMMA CommitKeeps ==
  ASSUME TypeOK, LiveInvariant, NEW a \in Handlers, Commit(a)
  PROVE  LiveInvariant'
  <1> DEFINE q == h[a]
  <1>1. /\ q.pc = "persisted" /\ q.mem \in Memories
        /\ trail' = [trail EXCEPT ![q.mem] = Recorded(trail[q.mem], q)]
        /\ lock' = NoLock /\ Return(a, object, table) /\ UNCHANGED <<vector, orphaned>>
    BY RequestTyped DEF Commit
  <1>2. object \in [Memories -> [Ages -> Row]] /\ table \in [Memories -> Ages]
    BY DEF TypeOK
  <1>3. /\ h' = [h EXCEPT ![a] = Idle] /\ table' = table
        /\ \A m \in Memories : object'[m][table[m]] = object[m][table[m]]
        /\ \A m \in Memories, g \in Ages : object'[m][g] \in {object[m][g], Absent}
    BY <1>1, <1>2, Returned
  <1>4. ObjectsPaired'
    BY <1>3 DEF LiveInvariant, ObjectsPaired, Absent
  <1>5. \A m \in Memories : Stored(m)' = Stored(m)
    BY <1>3 DEF Stored
  <1>6. ~Unlocked /\ lock.owner = a
    BY <1>1 DEF LiveInvariant, LockHeld
  <1>7. \A m \in Memories \ {q.mem} : Settled(m, Stored(m), vector[m])
    BY <1>6 DEF LiveInvariant, SnapshotSettled, OthersUntouched
  <1>8. PICK m \in Memories : m = q.mem
    BY <1>1
  <1>9. /\ Fits(Stored(m), vector[m])
        /\ m \notin orphaned => Told(Stored(m)) = Recorded(trail[m], q)
        /\ Stored(m).vec \in {Stored(m).text, Nothing}
    BY <1>1, <1>2, <1>8 DEF LiveInvariant, ChangeIsTold, Tells, ObjectsPaired, Stored
  <1> HIDE DEF q
  <1>10. RowsSettled'
    <2>1. \A n \in Memories : trail'[n] = IF n = m THEN Recorded(trail[m], q) ELSE trail[n]
      BY <1>1, <1>8 DEF TypeOK
    <2>2. \A n \in Memories \ {m} : Settled(n, Stored(n), vector[n])'
      BY <1>1, <1>5, <1>7, <1>8, <2>1 DEF Settled, Fits, Told
    <2>3. Settled(m, Stored(m), vector[m])'
      BY <1>1, <1>5, <1>9, <2>1 DEF Settled, Fits, Told
    <2> QED
      BY <2>2, <2>3 DEF RowsSettled
  <1> QED
    BY <1>1, <1>3, <1>4, <1>10, EndingKeeps DEF q

LEMMA RollBackKeeps ==
  ASSUME TypeOK, LiveInvariant, NEW a \in Handlers, RollBack(a)
  PROVE  LiveInvariant'
  <1>1. /\ InTransaction(h[a]) /\ FreeAges # {} /\ Restore(a)
        /\ vector' = lock.vectors /\ lock' = NoLock /\ UNCHANGED <<trail, orphaned>>
    BY DEF RollBack, MayRollBack
  <1>2. ~Unlocked /\ lock \in Snapshots
    BY <1>1, LockOf DEF LiveInvariant, LockHeld
  <1>3. /\ h' = [h EXCEPT ![a] = Idle]
        /\ \A m \in Memories : Stored(m)' = lock.rows[m]
        /\ \A m \in Memories, g \in Ages : object'[m][g] \in {object[m][g], lock.rows[m], Absent}
    BY <1>1, <1>2, Restored
  <1>4. \A m \in Memories : Settled(m, lock.rows[m], lock.vectors[m])
    BY <1>2 DEF LiveInvariant, SnapshotSettled
  <1>5. ObjectsPaired'
    BY <1>3, <1>4 DEF LiveInvariant, ObjectsPaired, Absent, Settled
  <1>6. RowsSettled'
    BY <1>1, <1>3, <1>4 DEF RowsSettled, Settled, Fits, Told
  <1> QED
    BY <1>1, <1>3, <1>5, <1>6, EndingKeeps

LEMMA StepKeeps ==
  ASSUME TypeOK, LiveInvariant, NEW a \in Handlers, Step(a)
  PROVE  LiveInvariant'
  BY LoadKeeps, ValidateKeeps, BeginEditKeeps, BeginChangeKeeps, BeginDeleteKeeps,
     RefuseEditKeeps, BeginCreateKeeps, PersistKeeps, RefuseStaleKeeps, CommitKeeps,
     RollBackKeeps DEF Step

LEMMA StutterKeeps ==
  ASSUME TypeOK, LiveInvariant, UNCHANGED vars
  PROVE  TypeOK' /\ LiveInvariant'
  <1> USE DEF vars
  <1>1. TypeOK'
    BY DEF TypeOK
  <1>2. LockHeld' /\ ObjectsPaired' /\ RowsSettled' /\ SnapshotSettled' /\ OthersUntouched'
    BY DEF LiveInvariant, LockHeld, ObjectsPaired, RowsSettled, SnapshotSettled, OthersUntouched,
           Settled, Fits, Told, Stored, Unlocked
  <1>3. ChangeIsTold'
    <2>1. ASSUME NEW a \in Handlers PROVE Tells(h[a])' <=> Tells(h[a])
      BY DEF Tells, Fits, Told, Stored, Recorded, Held
    <2> QED
      BY <2>1 DEF LiveInvariant, ChangeIsTold
  <1> QED
    BY <1>1, <1>2, <1>3 DEF LiveInvariant

-----------------------------------------------------------------------------

(* Types, and the inductive invariant: with the lock free every row agrees  *)
(* with trail and index, and while a transaction has the lock its snapshot  *)
(* does, the other memories are untouched, and what it did to its own is    *)
(* what it will record.                                                     *)
THEOREM RowsAreKept == Spec => [](TypeOK /\ LiveInvariant)
  <1>1. Init => TypeOK /\ LiveInvariant
    BY TypeInit, InvariantInit
  <1>2. TypeOK /\ LiveInvariant /\ [Next]_vars => TypeOK' /\ LiveInvariant'
    <2> SUFFICES ASSUME TypeOK, LiveInvariant, [Next]_vars PROVE TypeOK' /\ LiveInvariant'
      OBVIOUS
    <2>1. ASSUME NEW a \in Handlers, Step(a) PROVE TypeOK' /\ LiveInvariant'
      BY <2>1, TypeStep, StepKeeps DEF LiveInvariant
    <2>2. CASE UNCHANGED vars
      BY <2>2, StutterKeeps
    <2> QED
      BY <2>1, <2>2 DEF Next
  <1> QED
    BY <1>1, <1>2, PTL DEF Spec

(* While no transaction is open, a memory is what the committed audit       *)
(* events say, but for one that was stored from an orphan, whatever was     *)
(* rolled back.                                                             *)
THEOREM TrailTellsTheRows == Spec => []OnlyOrphansEscapeTheTrail
  <1>1. LiveInvariant => OnlyOrphansEscapeTheTrail
    BY DEF LiveInvariant, RowsSettled, Settled, OnlyOrphansEscapeTheTrail
  <1> QED
    BY <1>1, RowsAreKept, PTL

(* The index names a memory by its own text or not at all, and every active *)
(* memory with a vector is found by its text.                               *)
THEOREM IndexIsExact == Spec => []IndexFollowsRows
  <1>1. TypeOK /\ LiveInvariant => IndexFollowsRows
    <2> SUFFICES ASSUME TypeOK, LiveInvariant, Unlocked PROVE IndexFollowsRows
      BY DEF IndexFollowsRows
    <2>1. \A m \in Memories : Fits(Stored(m), vector[m])
      BY DEF LiveInvariant, RowsSettled, Settled
    <2> QED
      BY <2>1 DEF IndexFollowsRows, Fits, RetrieveActive, SearchCandidates
  <1> QED
    BY <1>1, RowsAreKept, PTL
=============================================================================

-------------------------- MODULE AuditChainProofs --------------------------
(* Proofs about AuditChain, for every set of rows and transactions.        *)
EXTENDS AuditChain, AlgorithmProofs

-----------------------------------------------------------------------------
(* Histories: Begins is a partial order that appending extends.             *)

LEMMA AppendFacts ==
  ASSUME NEW S, NEW s \in Seq(S), NEW e \in S
  PROVE  /\ Append(s, e) \in Seq(S)
         /\ Len(Append(s, e)) = Len(s) + 1
         /\ \A i \in 1..Len(s) : Append(s, e)[i] = s[i]
         /\ Append(s, e)[Len(s) + 1] = e
  OBVIOUS

LEMMA BeginsReflexive == ASSUME NEW S, NEW s \in Seq(S) PROVE Begins(s, s)
  BY DEF Begins

LEMMA BeginsAppend ==
  ASSUME NEW S, NEW s \in Seq(S), NEW e \in S
  PROVE  Begins(s, Append(s, e))
  BY AppendFacts DEF Begins

LEMMA BeginsTransitive ==
  ASSUME NEW S, NEW s \in Seq(S), NEW t \in Seq(S), NEW u \in Seq(S),
         Begins(s, t), Begins(t, u)
  PROVE  Begins(s, u)
  BY DEF Begins

LEMMA BeginsEqual ==
  ASSUME NEW S, NEW s \in Seq(S), NEW t \in Seq(S), NEW u \in Seq(S),
         Begins(s, u), Begins(t, u), Len(s) = Len(t)
  PROVE  s = t
  <1>1. \A i \in 1..Len(s) : s[i] = t[i]
    BY DEF Begins
  <1> QED
    BY <1>1, SeqEqual

LEMMA GenesisTyped == GENESIS \in Seq(EventIds) /\ Len(GENESIS) = 0
  BY EmptySeq DEF GENESIS

-----------------------------------------------------------------------------
(* Plans are short, and what they write is theirs.                          *)

LEMMA PlanFacts ==
  ASSUME NEW k \in AllKinds
  PROVE  /\ Plan(k) \in Seq({"write", "audit"})
         /\ Len(Plan(k)) \in 1..3
         /\ DOMAIN Plan(k) = 1..Len(Plan(k))
  <1>1. CASE k = "mutation"
    <2> Plan(k) = <<"write", "audit">>
      BY <1>1 DEF Plan
    <2> QED
      OBVIOUS
  <1>2. CASE k = "patch"
    <2> Plan(k) = <<"write", "audit", "audit">>
      BY <1>2 DEF Plan
    <2> QED
      OBVIOUS
  <1>3. CASE k = "retention"
    <2> Plan(k) = <<"audit", "audit", "write">>
      BY <1>3 DEF Plan
    <2> QED
      OBVIOUS
  <1>4. CASE k = "stamp"
    <2> Plan(k) = <<"write">>
      BY <1>4 DEF Plan
    <2> QED
      OBVIOUS
  <1>5. CASE k = "event"
    <2> Plan(k) = <<"audit">>
      BY <1>5 DEF Plan
    <2> QED
      OBVIOUS
  <1> QED
    BY <1>1, <1>2, <1>3, <1>4, <1>5 DEF AllKinds

LEMMA StepInPlan ==
  ASSUME TypeOK, NEW x \in Txns, NEW s, AtStep(x, s)
  PROVE  /\ tx[x].pc = "open"
         /\ tx[x].step \in 1..3
         /\ tx[x].step \in 1..Len(Plan(tx[x].kind))
         /\ Plan(tx[x].kind)[tx[x].step] = s
  <1>1. tx[x].kind \in AllKinds /\ tx[x].step \in 1..4
    BY DEF TypeOK, Tx
  <1>2. Len(Plan(tx[x].kind)) \in 1..3
    BY <1>1, PlanFacts
  <1> QED
    BY <1>1, <1>2 DEF AtStep, Finished

-----------------------------------------------------------------------------
(* Type correctness.                                                        *)

LEMMA NewTxTyped == NewTx \in Tx
  <1>1. (CHOOSE m \in Memories : TRUE) \in Memories
    BY ChainAssumption
  <1>2. "event" \in AllKinds
    BY DEF AllKinds
  <1> QED
    BY <1>1, <1>2, GenesisTyped DEF NewTx, Tx

LEMMA TypeInit == Init => TypeOK
  BY NewTxTyped, GenesisTyped, ChainAssumption DEF Init, TypeOK

LEMMA EntryTyped ==
  ASSUME NEW id \in EventIds, NEW prev \in Seq(EventIds)
  PROVE  /\ Entry(id, prev) \in [id: EventIds, prev: Seq(EventIds), hash: Seq(EventIds)]
         /\ Entry(id, prev).id = id
         /\ Entry(id, prev).prev = prev
         /\ Entry(id, prev).hash = Append(prev, id)
  BY AppendFacts DEF Entry, ComputeEntryHash

LEMMA ReleaseTyped ==
  ASSUME TypeOK, NEW x \in Txns, Release(x)
  PROVE  headLock' \in Txns \cup {None} /\ rowLock' \in [Memories -> Txns \cup {None}]
  BY DEF TypeOK, Release

LEMMA TypeOpen == ASSUME TypeOK, NEW x \in Txns, Open(x) PROVE TypeOK'
  <1>1. PICK k \in Kinds, m \in Memories :
          tx' = [tx EXCEPT ![x].pc = "open", ![x].kind = k, ![x].mem = m]
    BY DEF Open
  <1>2. k \in AllKinds
    BY ChainAssumption
  <1>3. [tx[x] EXCEPT !.pc = "open", !.kind = k, !.mem = m] \in Tx
    <2>1. tx[x] \in Tx
      BY DEF TypeOK
    <2> QED
      BY <1>2, <2>1 DEF Tx
  <1>4. tx' = [tx EXCEPT ![x] = [tx[x] EXCEPT !.pc = "open", !.kind = k, !.mem = m]]
    BY <1>1
  <1>5. tx' \in [Txns -> Tx]
    BY <1>3, <1>4 DEF TypeOK
  <1> QED
    BY <1>5 DEF TypeOK, Open

LEMMA TypeWrite == ASSUME TypeOK, NEW x \in Txns, Write(x) PROVE TypeOK'
  <1>1. tx[x].step \in 1..3
    BY StepInPlan DEF Write
  <1>2. tx[x].step + 1 \in 1..4
    BY <1>1
  <1>3. tx' \in [Txns -> Tx]
    <2>1. tx[x] \in Tx
      BY DEF TypeOK
    <2>2. [tx[x] EXCEPT !.step = tx[x].step + 1] \in Tx
      BY <1>2, <2>1 DEF Tx
    <2>3. tx' = [tx EXCEPT ![x] = [tx[x] EXCEPT !.step = tx[x].step + 1]]
      BY DEF Write
    <2> QED
      BY <2>2, <2>3 DEF TypeOK
  <1>4. rowLock' \in [Memories -> Txns \cup {None}]
    BY DEF TypeOK, Write
  <1> QED
    BY <1>3, <1>4 DEF TypeOK, Write

LEMMA TypeRecord == ASSUME TypeOK, NEW x \in Txns, Record(x) PROVE TypeOK'
  <1>1. clock + 1 \in Nat
    BY DEF TypeOK
  <1>2. tx' \in [Txns -> Tx]
    <2>1. tx[x] \in Tx
      BY DEF TypeOK
    <2>2. [tx[x] EXCEPT !.stamp = clock + 1] \in Tx
      BY <1>1, <2>1 DEF Tx
    <2>3. tx' = [tx EXCEPT ![x] = [tx[x] EXCEPT !.stamp = clock + 1]]
      BY DEF Record
    <2> QED
      BY <2>2, <2>3 DEF TypeOK
  <1> QED
    BY <1>1, <1>2 DEF TypeOK, Record

\* The predecessor an append links to.
Predecessor(x) == IF headLock = x THEN tx[x].last ELSE head

\* The event an append stores.
NewEntry(x) == Entry(<<x, tx[x].step>>, Predecessor(x))

LEMMA AddAuditFacts ==
  ASSUME TypeOK, NEW x \in Txns, AddAudit(x)
  PROVE  /\ <<x, tx[x].step>> \in EventIds
         /\ Predecessor(x) \in Seq(EventIds)
         /\ NewEntry(x) \in [id: EventIds, prev: Seq(EventIds), hash: Seq(EventIds)]
         /\ NewEntry(x).id = <<x, tx[x].step>>
         /\ NewEntry(x).prev = Predecessor(x)
         /\ NewEntry(x).hash = Append(Predecessor(x), <<x, tx[x].step>>)
         /\ [entry |-> NewEntry(x), created |-> tx[x].stamp] \in Row
         /\ tx' = [tx EXCEPT ![x] = Appended(@, NewEntry(x))]
  <1>1. tx[x].step \in 1..3
    BY StepInPlan DEF AddAudit
  <1>2. <<x, tx[x].step>> \in EventIds
    BY <1>1 DEF EventIds
  <1>3. Predecessor(x) \in Seq(EventIds)
    BY DEF Predecessor, TypeOK, Tx
  <1>4. tx[x].stamp \in Nat \ {0}
    BY DEF AddAudit, TypeOK, Tx
  <1>5. tx' = [tx EXCEPT ![x] = Appended(@, NewEntry(x))]
    BY DEF AddAudit, NewEntry, Predecessor
  <1> QED
    BY <1>2, <1>3, <1>4, <1>5, EntryTyped DEF NewEntry, Row

LEMMA TypeAddAudit == ASSUME TypeOK, NEW x \in Txns, AddAudit(x) PROVE TypeOK'
  <1>1. tx[x].step + 1 \in 1..4
    BY StepInPlan DEF AddAudit
  <1>2. NewEntry(x).hash \in Seq(EventIds)
    BY AddAuditFacts
  <1>3. Appended(tx[x], NewEntry(x)) \in Tx
    <2>1. tx[x] \in Tx
      BY DEF TypeOK
    <2>2. tx[x].pend \cup {[entry |-> NewEntry(x), created |-> tx[x].stamp]} \in SUBSET Row
      BY <2>1, AddAuditFacts DEF Tx
    <2> QED
      BY <1>1, <1>2, <2>1, <2>2 DEF Appended, Tx
  <1>4. tx' \in [Txns -> Tx]
    BY <1>3, AddAuditFacts DEF TypeOK
  <1> QED
    BY <1>4 DEF TypeOK, AddAudit

LEMMA TypeCommit == ASSUME TypeOK, NEW x \in Txns, Commit(x) PROVE TypeOK'
  <1>1. head' \in Seq(EventIds)
    BY DEF TypeOK, Commit, Tx
  <1>2. log' \subseteq Row
    BY DEF TypeOK, Commit, Tx
  <1>3. applied' \in [Memories -> SUBSET Txns]
    BY DEF TypeOK, Commit, Tx
  <1>4. tx' \in [Txns -> Tx]
    <2>1. tx[x] \in Tx
      BY DEF TypeOK
    <2>2. [tx[x] EXCEPT !.pc = "committed", !.pend = {}, !.last = GENESIS] \in Tx
      BY <2>1, GenesisTyped DEF Tx
    <2>3. tx' = [tx EXCEPT ![x] = [tx[x] EXCEPT !.pc = "committed", !.pend = {},
                                                !.last = GENESIS]]
      BY DEF Commit
    <2> QED
      BY <2>2, <2>3 DEF TypeOK
  <1> QED
    BY <1>1, <1>2, <1>3, <1>4, ReleaseTyped DEF TypeOK, Commit

LEMMA TypeDiscard == ASSUME TypeOK, NEW x \in Txns, Discard(x) PROVE TypeOK'
  <1>1. tx' \in [Txns -> Tx]
    <2>1. tx[x] \in Tx
      BY DEF TypeOK
    <2>2. [tx[x] EXCEPT !.pc = "rolledback", !.stamp = 0, !.pend = {}, !.last = GENESIS] \in Tx
      BY <2>1, GenesisTyped DEF Tx
    <2>3. tx' = [tx EXCEPT ![x] = [tx[x] EXCEPT !.pc = "rolledback", !.stamp = 0,
                                                !.pend = {}, !.last = GENESIS]]
      BY DEF Discard
    <2> QED
      BY <2>2, <2>3 DEF TypeOK
  <1> QED
    BY <1>1, ReleaseTyped DEF TypeOK, Discard

LEMMA TypeStep == TypeOK /\ [Next]_vars => TypeOK'
  <1> SUFFICES ASSUME TypeOK, [Next]_vars PROVE TypeOK'
    OBVIOUS
  <1>1. CASE UNCHANGED vars
    BY <1>1 DEF TypeOK, vars
  <1>2. ASSUME NEW x \in Txns, Open(x) \/ Step(x) \/ Fail(x) PROVE TypeOK'
    BY <1>2, TypeOpen, TypeWrite, TypeRecord, TypeAddAudit, TypeCommit, TypeDiscard
       DEF Step, Fail, DeadlockVictim
  <1> QED
    BY <1>1, <1>2 DEF Next

(* Every variable keeps its type: in particular an event is committed with  *)
(* its timestamp set, and no transaction runs past its plan.                *)
THEOREM TypeCorrect == Spec => []TypeOK
  <1>1. Spec => Init /\ [][Next]_vars
    BY PTL DEF Spec
  <1> QED
    BY <1>1, TypeInit, TypeStep, PTL

-----------------------------------------------------------------------------
(* The chain invariant.  Opening, writing and recording touch neither the   *)
(* chain nor what is pending; appending extends what is pending; a commit   *)
(* turns it into the chain; a rollback drops it.                            *)

LEMMA ContinuesFrame ==
  ASSUME NEW y, head' = head, tx'[y].last = tx[y].last, tx'[y].pend = tx[y].pend,
         PendingContinues(y)
  PROVE  PendingContinues(y)'
  BY DEF PendingContinues

LEMMA PlannedFrame ==
  ASSUME NEW y, tx'[y] = tx[y], PendingIsPlanned(y)
  PROVE  PendingIsPlanned(y)'
  BY DEF PendingIsPlanned

LEMMA LogFrame ==
  ASSUME head' = head, log' = log, EntriesAreHashed, LogIsTrail
  PROVE  EntriesAreHashed' /\ LogIsTrail'
  BY DEF EntriesAreHashed, LogIsTrail, Entries

LEMMA HeadTxns == ASSUME TypeOK PROVE \A i \in 1..Len(head) : head[i][1] \in Txns
  BY DEF TypeOK, EventIds

LEMMA HolderIsOpen ==
  ASSUME ChainInvariant, NEW x \in Txns, headLock = x
  PROVE  tx[x].pc = "open" /\ PendingContinues(x)
  BY ChainAssumption DEF ChainInvariant, HolderContinues

LEMMA ChainInit == Init => ChainInvariant
  <1> SUFFICES ASSUME Init PROVE ChainInvariant
    OBVIOUS
  <1>1. HolderContinues
    BY DEF Init, HolderContinues
  <1>2. \A x \in Txns : tx[x].pc = "new" /\ tx[x].step = 1 /\ tx[x].pend = {}
    <2>1. NewTx.pc = "new" /\ NewTx.step = 1 /\ NewTx.pend = {}
      BY Zenon DEF NewTx
    <2>2. \A x \in Txns : tx[x] = NewTx
      BY DEF Init
    <2> QED
      BY <2>1, <2>2, Zenon
  <1>3. OnlyHolderPends
    BY <1>2 DEF OnlyHolderPends
  <1>4. \A x \in Txns : PendingIsPlanned(x)
    BY <1>2 DEF PendingIsPlanned
  <1>5. \A x \in Txns : tx[x].pc = "new" => tx[x].step = 1
    BY <1>2
  <1>6. Entries = {} /\ Len(head) = 0
    BY GenesisTyped DEF Init, Entries
  <1> QED
    BY <1>1, <1>3, <1>4, <1>5, <1>6
       DEF ChainInvariant, EntriesAreHashed, HeadIsCommitted, LogIsTrail

LEMMA ChainOpen ==
  ASSUME TypeOK, ChainInvariant, NEW x \in Txns, Open(x)
  PROVE  ChainInvariant'
  <1>1. /\ tx[x].pc = "new" /\ tx'[x].pc = "open"
        /\ tx'[x].step = tx[x].step /\ tx'[x].pend = tx[x].pend /\ tx'[x].last = tx[x].last
        /\ \A y \in Txns \ {x} : tx'[y] = tx[y]
    BY DEF Open, TypeOK, Tx
  <1>2. UNCHANGED <<head, log, headLock>>
    BY DEF Open
  <1>3. headLock # x
    BY <1>1, HolderIsOpen
  <1>4. tx[x].step = 1 /\ tx[x].pend = {}
    BY <1>1, <1>3 DEF ChainInvariant, OnlyHolderPends
  <1>5. HolderContinues'
    <2> SUFFICES ASSUME headLock # None PROVE HolderContinues'
      BY <1>2 DEF HolderContinues
    <2>1. headLock \in Txns \ {x}
      BY <1>3 DEF TypeOK
    <2>2. tx[headLock].pc = "open" /\ PendingContinues(headLock)
      BY DEF ChainInvariant, HolderContinues
    <2>3. PendingContinues(headLock)'
      BY <1>1, <1>2, <2>1, <2>2 DEF PendingContinues
    <2> QED
      BY <1>1, <1>2, <2>1, <2>2, <2>3 DEF HolderContinues
  <1>6. OnlyHolderPends'
    BY <1>1, <1>2 DEF ChainInvariant, OnlyHolderPends
  <1>7. \A y \in Txns : PendingIsPlanned(y)'
    <2>1. PendingIsPlanned(x)'
      BY <1>1, <1>4 DEF PendingIsPlanned
    <2> QED
      BY <1>1, <2>1, PlannedFrame DEF ChainInvariant
  <1>8. \A y \in Txns : tx'[y].pc = "new" => tx'[y].step = 1
    BY <1>1 DEF ChainInvariant
  <1>9. HeadIsCommitted'
    BY <1>1, <1>2, HeadTxns DEF ChainInvariant, HeadIsCommitted
  <1> QED
    BY <1>2, <1>5, <1>6, <1>7, <1>8, <1>9, LogFrame DEF ChainInvariant
LEMMA ChainWrite ==
  ASSUME TypeOK, ChainInvariant, NEW x \in Txns, Write(x)
  PROVE  ChainInvariant'
  <1>1. /\ tx[x].pc = "open" /\ tx'[x].pc = "open" /\ tx'[x].kind = tx[x].kind
        /\ tx'[x].step = tx[x].step + 1 /\ tx'[x].pend = tx[x].pend /\ tx'[x].last = tx[x].last
        /\ \A y \in Txns \ {x} : tx'[y] = tx[y]
    BY StepInPlan DEF Write, TypeOK, Tx
  <1>2. UNCHANGED <<head, log, headLock>>
    BY DEF Write
  <1>3. Plan(tx[x].kind)[tx[x].step] = "write" /\ tx[x].step \in Nat
    BY StepInPlan DEF Write
  <1>4. HolderContinues'
    <2> SUFFICES ASSUME headLock # None PROVE HolderContinues'
      BY <1>2 DEF HolderContinues
    <2>1. headLock \in Txns
      BY DEF TypeOK
    <2>2. tx[headLock].pc = "open" /\ PendingContinues(headLock)
      BY DEF ChainInvariant, HolderContinues
    <2>3. tx'[headLock].pend = tx[headLock].pend /\ tx'[headLock].last = tx[headLock].last
          /\ tx'[headLock].pc = "open"
      BY <1>1, <2>1, <2>2
    <2>4. PendingContinues(headLock)'
      BY <1>2, <2>2, <2>3 DEF PendingContinues
    <2> QED
      BY <1>2, <2>3, <2>4 DEF HolderContinues
  <1>5. OnlyHolderPends'
    BY <1>1, <1>2 DEF ChainInvariant, OnlyHolderPends
  <1>6. \A y \in Txns : PendingIsPlanned(y)'
    <2>1. PendingIsPlanned(x)
      BY DEF ChainInvariant
    <2> DEFINE plan == Plan(tx[x].kind)
               step == tx[x].step
    <2>2. step \in Nat /\ Len(plan) \in Nat /\ plan[step] # "audit"
      BY <1>3, PlanFacts DEF TypeOK, Tx
    <2>3. \A i \in 1..Len(plan) : plan[i] = "audit" => (i < step + 1 <=> i < step)
      <3> HIDE DEF plan, step
      <3> QED
        BY <2>2
    <2>4. PendingIsPlanned(x)'
      BY <1>1, <2>1, <2>3 DEF PendingIsPlanned
    <2> QED
      BY <1>1, <2>4, PlannedFrame DEF ChainInvariant
  <1>7. \A y \in Txns : tx'[y].pc = "new" => tx'[y].step = 1
    BY <1>1 DEF ChainInvariant
  <1>8. HeadIsCommitted'
    BY <1>1, <1>2, HeadTxns DEF ChainInvariant, HeadIsCommitted
  <1> QED
    BY <1>2, <1>4, <1>5, <1>6, <1>7, <1>8, LogFrame DEF ChainInvariant

LEMMA ChainRecord ==
  ASSUME TypeOK, ChainInvariant, NEW x \in Txns, Record(x)
  PROVE  ChainInvariant'
  <1>1. /\ tx'[x].pc = tx[x].pc /\ tx'[x].kind = tx[x].kind /\ tx'[x].step = tx[x].step
        /\ tx'[x].pend = tx[x].pend /\ tx'[x].last = tx[x].last
        /\ \A y \in Txns \ {x} : tx'[y] = tx[y]
    BY DEF Record, TypeOK, Tx
  <1>2. UNCHANGED <<head, log, headLock>>
    BY DEF Record
  <1>3. HolderContinues'
    <2> SUFFICES ASSUME headLock # None PROVE HolderContinues'
      BY <1>2 DEF HolderContinues
    <2>1. headLock \in Txns
      BY DEF TypeOK
    <2>2. tx[headLock].pc = "open" /\ PendingContinues(headLock)
      BY DEF ChainInvariant, HolderContinues
    <2>3. tx'[headLock].pend = tx[headLock].pend /\ tx'[headLock].last = tx[headLock].last
          /\ tx'[headLock].pc = "open"
      BY <1>1, <2>1, <2>2
    <2>4. PendingContinues(headLock)'
      BY <1>2, <2>2, <2>3 DEF PendingContinues
    <2> QED
      BY <1>2, <2>3, <2>4 DEF HolderContinues
  <1>4. OnlyHolderPends'
    BY <1>1, <1>2 DEF ChainInvariant, OnlyHolderPends
  <1>5. \A y \in Txns : PendingIsPlanned(y)'
    <2>1. PendingIsPlanned(x)'
      BY <1>1 DEF ChainInvariant, PendingIsPlanned
    <2> QED
      BY <1>1, <2>1, PlannedFrame DEF ChainInvariant
  <1>6. \A y \in Txns : tx'[y].pc = "new" => tx'[y].step = 1
    BY <1>1 DEF ChainInvariant
  <1>7. HeadIsCommitted'
    BY <1>1, <1>2, HeadTxns DEF ChainInvariant, HeadIsCommitted
  <1> QED
    BY <1>2, <1>3, <1>4, <1>5, <1>6, <1>7, LogFrame DEF ChainInvariant

(* What was pending still begins the history, which the new event ends.     *)
LEMMA AppendContinues ==
  ASSUME TypeOK, ChainInvariant, NEW x \in Txns, AddAudit(x)
  PROVE  PendingContinues(x)'
  <1> DEFINE id == <<x, tx[x].step>>
             prev == Predecessor(x)
             r == [entry |-> NewEntry(x), created |-> tx[x].stamp]
  <1>1. /\ tx'[x].last = Append(prev, id)
        /\ tx'[x].pend = tx[x].pend \cup {r}
        /\ r.entry.hash = Append(prev, id)
        /\ head' = head
    <2>1. tx'[x] = Appended(tx[x], NewEntry(x))
      BY AddAuditFacts DEF TypeOK
    <2>2. tx[x] \in Tx
      BY DEF TypeOK
    <2> QED
      BY ZenonT(60), <2>1, <2>2, AddAuditFacts DEF Appended, Tx, AddAudit
  <1>2. id \in EventIds /\ prev \in Seq(EventIds) /\ head \in Seq(EventIds)
    BY AddAuditFacts DEF TypeOK
  <1>3. \A q \in tx[x].pend : q.entry.hash \in Seq(EventIds)
    BY DEF TypeOK, Tx, Row
  <1>4. /\ Begins(head, prev)
        /\ \A q \in tx[x].pend : Begins(q.entry.hash, prev)
        /\ \A i \in Len(head) + 1..Len(prev) :
             prev[i][1] = x /\ \E q \in tx[x].pend : Len(q.entry.hash) = i
    <2>1. CASE headLock = x
      BY <2>1, HolderIsOpen DEF PendingContinues, Predecessor
    <2>2. CASE headLock # x
      <3>1. prev = head /\ tx[x].pend = {}
        BY <2>2 DEF Predecessor, ChainInvariant, OnlyHolderPends
      <3>2. Len(head) + 1..Len(prev) = {}
        BY <1>2, <3>1
      <3> QED
        BY <1>2, <3>1, <3>2, BeginsReflexive
    <2> QED
      BY <2>1, <2>2
  <1>5. Begins(prev, Append(prev, id)) /\ Append(prev, id) \in Seq(EventIds)
    BY <1>2, BeginsAppend, AppendFacts
  <1>6. Begins(head, Append(prev, id))
    BY <1>2, <1>4, <1>5, BeginsTransitive
  <1>7. \A q \in tx[x].pend \cup {r} : Begins(q.entry.hash, Append(prev, id))
    <2>1. \A q \in tx[x].pend : Begins(q.entry.hash, Append(prev, id))
      BY <1>2, <1>3, <1>4, <1>5, BeginsTransitive
    <2>2. Begins(r.entry.hash, Append(prev, id))
      BY <1>1, <1>5, BeginsReflexive
    <2> QED
      BY <2>1, <2>2
  <1>8. ASSUME NEW i \in Len(head) + 1..Len(Append(prev, id))
        PROVE  /\ Append(prev, id)[i][1] = x
               /\ \E q \in tx[x].pend \cup {r} : Len(q.entry.hash) = i
    <2> HIDE DEF id, prev, r
    <2>1. /\ Len(Append(prev, id)) = Len(prev) + 1
          /\ \A j \in 1..Len(prev) : Append(prev, id)[j] = prev[j]
          /\ Append(prev, id)[Len(prev) + 1] = id
      BY <1>2, AppendFacts
    <2>2. Len(prev) \in Nat /\ Len(head) \in Nat /\ Len(head) <= Len(prev)
      BY <1>2, <1>4 DEF Begins
    <2>3. CASE i <= Len(prev)
      <3>1. i \in Len(head) + 1..Len(prev) /\ i \in 1..Len(prev)
        BY <2>2, <2>3
      <3> QED
        BY <1>4, <2>1, <3>1
    <2>4. CASE i = Len(prev) + 1
      BY <1>1, <2>1, <2>4 DEF id
    <2> QED
      BY <2>1, <2>2, <2>3, <2>4
  <1> HIDE DEF id, prev, r
  <1> QED
    BY <1>1, <1>6, <1>7, <1>8 DEF PendingContinues
LEMMA ChainAddAudit ==
  ASSUME TypeOK, ChainInvariant, NEW x \in Txns, AddAudit(x)
  PROVE  ChainInvariant'
  <1> DEFINE id == <<x, tx[x].step>>
             r == [entry |-> NewEntry(x), created |-> tx[x].stamp]
  <1>1. /\ tx[x].pc = "open" /\ tx'[x].pc = "open" /\ tx'[x].kind = tx[x].kind
        /\ tx'[x].step = tx[x].step + 1
        /\ tx'[x].pend = tx[x].pend \cup {r}
        /\ \A y \in Txns \ {x} : tx'[y] = tx[y]
    <2>1. tx'[x] = Appended(tx[x], NewEntry(x)) /\ \A y \in Txns \ {x} : tx'[y] = tx[y]
      BY AddAuditFacts DEF TypeOK
    <2>2. tx[x] \in Tx
      BY DEF TypeOK
    <2>3. tx[x].pc = "open"
      BY StepInPlan DEF AddAudit
    <2> QED
      BY <2>1, <2>2, <2>3 DEF Appended, Tx
  <1>2. head' = head /\ log' = log /\ headLock' = x /\ headLock \in {None, x}
    BY DEF AddAudit
  <1>3. HolderContinues'
    BY <1>1, <1>2, AppendContinues DEF HolderContinues
  <1>4. OnlyHolderPends'
    <2>1. \A y \in Txns \ {x} : headLock # y
      BY <1>2, ChainAssumption
    <2> QED
      BY <1>1, <1>2, <2>1 DEF ChainInvariant, OnlyHolderPends
  <1>5. \A y \in Txns : PendingIsPlanned(y)'
    <2> DEFINE plan == Plan(tx[x].kind)
               step == tx[x].step
    <2>1. PendingIsPlanned(x)
      BY DEF ChainInvariant
    <2>2. step \in 1..Len(plan) /\ Len(plan) \in Nat /\ plan[step] = "audit"
      BY StepInPlan, PlanFacts DEF AddAudit, TypeOK, Tx
    <2>3. r.entry.hash = Append(r.entry.prev, r.entry.id) /\ r.entry.id = <<x, step>>
      BY AddAuditFacts
    <2>4. \A i \in 1..Len(plan) : i < step + 1 <=> i < step \/ i = step
      <3> HIDE DEF plan, step
      <3> QED
        BY <2>2
    <2>5. step < step + 1
      BY <2>2
    <2>6. ASSUME NEW q \in tx[x].pend \cup {r}
          PROVE  /\ q.entry.hash = Append(q.entry.prev, q.entry.id)
                 /\ \E i \in 1..Len(plan) : q.entry.id = <<x, i>> /\ i < step + 1 /\ plan[i] = "audit"
      <3>1. CASE q = r
        BY <2>2, <2>3, <2>5, <3>1
      <3>2. CASE q \in tx[x].pend
        BY <2>1, <2>4, <3>2 DEF PendingIsPlanned
      <3> QED
        BY <3>1, <3>2
    <2>7. ASSUME NEW i \in 1..Len(plan), i < step + 1, plan[i] = "audit"
          PROVE  \E q \in tx[x].pend \cup {r} : q.entry.id = <<x, i>>
      <3>1. CASE i = step
        BY <2>3, <3>1
      <3>2. CASE i < step
        BY <1>1, <2>1, <2>7, <3>2 DEF PendingIsPlanned
      <3> QED
        BY <2>4, <2>7, <3>1, <3>2
    <2>8. PendingIsPlanned(x)'
      <3> HIDE DEF r
      <3> QED
        BY <1>1, <2>6, <2>7 DEF PendingIsPlanned
    <2> QED
      BY <1>1, <2>8, PlannedFrame DEF ChainInvariant
  <1>6. \A y \in Txns : tx'[y].pc = "new" => tx'[y].step = 1
    BY <1>1 DEF ChainInvariant
  <1>7. HeadIsCommitted'
    BY <1>1, <1>2, HeadTxns DEF ChainInvariant, HeadIsCommitted
  <1> QED
    BY <1>2, <1>3, <1>4, <1>5, <1>6, <1>7, LogFrame DEF ChainInvariant

LEMMA ReleaseFacts ==
  ASSUME TypeOK, NEW x \in Txns, Release(x)
  PROVE  /\ headLock = x => headLock' = None
         /\ headLock # x => headLock' = headLock
  BY DEF Release

(* A commit that holds the head turns its pending events into the chain.    *)
LEMMA CommitExtends ==
  ASSUME TypeOK, ChainInvariant, NEW x \in Txns, Commit(x)
  PROVE  EntriesAreHashed' /\ LogIsTrail'
  <1>1. Entries' = Entries \cup {r.entry : r \in tx[x].pend}
    BY DEF Commit, Entries
  <1>2. EntriesAreHashed'
    <2>1. \A r \in tx[x].pend : r.entry.hash = Append(r.entry.prev, r.entry.id)
      BY DEF ChainInvariant, PendingIsPlanned
    <2> QED
      BY <1>1, <2>1 DEF EntriesAreHashed, ChainInvariant
  <1>3. CASE headLock = x
    <2>1. head' = tx[x].last /\ PendingContinues(x)
      BY <1>3, HolderIsOpen DEF Commit
    <2>2. /\ head \in Seq(EventIds) /\ tx[x].last \in Seq(EventIds)
          /\ \A e \in Entries : e.hash \in Seq(EventIds)
      BY DEF TypeOK, Tx, Entries, Row
    <2>3. \A e \in Entries : Begins(e.hash, tx[x].last)
      BY <2>1, <2>2, BeginsTransitive DEF PendingContinues, ChainInvariant, LogIsTrail
    <2>4. \A e \in Entries' : Begins(e.hash, head')
      BY <1>1, <2>1, <2>3 DEF PendingContinues
    <2>5. ASSUME NEW i \in 1..Len(tx[x].last)
          PROVE  \E e \in Entries' : Len(e.hash) = i
      <3>1. CASE i \in 1..Len(head)
        BY <1>1, <3>1 DEF ChainInvariant, LogIsTrail
      <3>2. CASE i \in Len(head) + 1..Len(tx[x].last)
        BY <1>1, <2>1, <3>2 DEF PendingContinues
      <3> QED
        BY <2>2, <3>1, <3>2
    <2> QED
      BY <1>2, <2>1, <2>4, <2>5 DEF LogIsTrail
  <1>4. CASE headLock # x
    <2>1. head' = head /\ Entries' = Entries
      BY <1>1, <1>4 DEF Commit, ChainInvariant, OnlyHolderPends
    <2> QED
      BY <1>2, <2>1 DEF ChainInvariant, LogIsTrail
  <1> QED
    BY <1>3, <1>4
(* What ending x - by commit or rollback - leaves to the others.            *)
LEMMA EndFrame ==
  ASSUME TypeOK, ChainInvariant, NEW x \in Txns, Release(x), tx'[x].pend = {},
         \A y \in Txns \ {x} : tx'[y] = tx[y],
         headLock # x => head' = head
  PROVE  HolderContinues' /\ OnlyHolderPends'
  <1>1. HolderContinues'
    <2>1. CASE headLock = x
      BY <2>1, ReleaseFacts DEF HolderContinues
    <2>2. CASE headLock # x /\ headLock # None
      <3>1. headLock \in Txns \ {x} /\ headLock' = headLock
        BY <2>2, ReleaseFacts DEF TypeOK
      <3>2. tx[headLock].pc = "open" /\ PendingContinues(headLock)
        BY <2>2 DEF ChainInvariant, HolderContinues
      <3>3. PendingContinues(headLock)'
        BY <2>2, <3>1, <3>2 DEF PendingContinues
      <3> QED
        BY <3>1, <3>2, <3>3 DEF HolderContinues
    <2>3. CASE headLock # x /\ headLock = None
      BY <2>3, ReleaseFacts DEF HolderContinues
    <2> QED
      BY <2>1, <2>2, <2>3
  <1>2. OnlyHolderPends'
    <2> SUFFICES ASSUME NEW y \in Txns, headLock' # y PROVE tx'[y].pend = {}
      BY DEF OnlyHolderPends
    <2>1. CASE y = x
      BY <2>1
    <2>2. CASE y # x
      <3>1. headLock # y
        BY <2>2, ReleaseFacts, ChainAssumption
      <3> QED
        BY <2>2, <3>1 DEF ChainInvariant, OnlyHolderPends
    <2> QED
      BY <2>1, <2>2
  <1> QED
    BY <1>1, <1>2

LEMMA ChainCommit ==
  ASSUME TypeOK, ChainInvariant, NEW x \in Txns, Commit(x)
  PROVE  ChainInvariant'
  <1>1. /\ tx'[x].pc = "committed" /\ tx'[x].pend = {}
        /\ \A y \in Txns \ {x} : tx'[y] = tx[y]
    BY DEF Commit, TypeOK, Tx
  <1>2. Release(x) /\ (headLock # x => head' = head)
    BY DEF Commit
  <1>3. HolderContinues' /\ OnlyHolderPends'
    BY <1>1, <1>2, EndFrame
  <1>4. \A y \in Txns : PendingIsPlanned(y)'
    <2>1. PendingIsPlanned(x)'
      BY <1>1 DEF PendingIsPlanned
    <2> QED
      BY <1>1, <2>1, PlannedFrame DEF ChainInvariant
  <1>5. \A y \in Txns : tx'[y].pc = "new" => tx'[y].step = 1
    BY <1>1 DEF ChainInvariant
  <1>6. HeadIsCommitted'
    <2> SUFFICES ASSUME NEW i \in 1..Len(head') PROVE tx'[head'[i][1]].pc = "committed"
      BY DEF HeadIsCommitted
    <2>1. ASSUME i \in 1..Len(head), head'[i] = head[i] PROVE tx'[head'[i][1]].pc = "committed"
      BY <1>1, <2>1, HeadTxns DEF ChainInvariant, HeadIsCommitted
    <2>2. CASE headLock = x
      <3>1. head' = tx[x].last /\ PendingContinues(x)
        BY <2>2, HolderIsOpen DEF Commit
      <3>2. head \in Seq(EventIds) /\ tx[x].last \in Seq(EventIds)
        BY DEF TypeOK, Tx
      <3>3. CASE i \in 1..Len(head)
        BY <2>1, <3>1, <3>3 DEF PendingContinues, Begins
      <3>4. CASE i \in Len(head) + 1..Len(tx[x].last)
        BY <1>1, <3>1, <3>4 DEF PendingContinues
      <3> QED
        BY <3>1, <3>2, <3>3, <3>4
    <2>3. CASE headLock # x
      BY <1>2, <2>1, <2>3
    <2> QED
      BY <2>2, <2>3
  <1> QED
    BY <1>3, <1>4, <1>5, <1>6, CommitExtends DEF ChainInvariant

LEMMA ChainDiscard ==
  ASSUME TypeOK, ChainInvariant, NEW x \in Txns, Discard(x), tx[x].pc = "open"
  PROVE  ChainInvariant'
  <1>1. /\ tx'[x].pc = "rolledback" /\ tx'[x].pend = {}
        /\ \A y \in Txns \ {x} : tx'[y] = tx[y]
    BY DEF Discard, TypeOK, Tx
  <1>2. Release(x) /\ head' = head /\ log' = log
    BY DEF Discard
  <1>3. HolderContinues' /\ OnlyHolderPends'
    BY <1>1, <1>2, EndFrame
  <1>4. \A y \in Txns : PendingIsPlanned(y)'
    <2>1. PendingIsPlanned(x)'
      BY <1>1 DEF PendingIsPlanned
    <2> QED
      BY <1>1, <2>1, PlannedFrame DEF ChainInvariant
  <1>5. \A y \in Txns : tx'[y].pc = "new" => tx'[y].step = 1
    BY <1>1 DEF ChainInvariant
  <1>6. HeadIsCommitted'
    BY <1>1, <1>2, HeadTxns DEF ChainInvariant, HeadIsCommitted
  <1> QED
    BY <1>2, <1>3, <1>4, <1>5, <1>6, LogFrame DEF ChainInvariant

LEMMA VictimIsOpen ==
  ASSUME NEW x \in Txns, DeadlockVictim(x)
  PROVE  tx[x].pc = "open" /\ Discard(x)
  BY DEF DeadlockVictim, WaitsFor, AtStep

LEMMA ChainStep == TypeOK /\ ChainInvariant /\ [Next]_vars => ChainInvariant'
  <1> SUFFICES ASSUME TypeOK, ChainInvariant, [Next]_vars PROVE ChainInvariant'
    OBVIOUS
  <1>1. CASE UNCHANGED vars
    BY <1>1 DEF vars, ChainInvariant, HolderContinues, OnlyHolderPends, PendingContinues,
                PendingIsPlanned, EntriesAreHashed, HeadIsCommitted, LogIsTrail, Entries
  <1>2. ASSUME NEW x \in Txns, Open(x) PROVE ChainInvariant'
    BY <1>2, ChainOpen
  <1>3. ASSUME NEW x \in Txns, Step(x) PROVE ChainInvariant'
    BY <1>3, ChainWrite, ChainRecord, ChainAddAudit, ChainCommit, ChainDiscard, VictimIsOpen
       DEF Step
  <1>4. ASSUME NEW x \in Txns, Fail(x) PROVE ChainInvariant'
    BY <1>4, ChainDiscard DEF Fail
  <1> QED
    BY <1>1, <1>2, <1>3, <1>4 DEF Next

(* Whatever is interleaved, fails or is rolled back, the uncommitted events *)
(* continue the committed chain and the log is the head's history.          *)
THEOREM ChainIsKept == Spec => []ChainInvariant
  <1>1. Spec => Init /\ [][Next]_vars
    BY PTL DEF Spec
  <1> QED
    BY <1>1, TypeInit, TypeStep, ChainInit, ChainStep, PTL

LEMMA TrailHasNoFork == TypeOK /\ ChainInvariant => ForkFree
  <1> SUFFICES ASSUME TypeOK, ChainInvariant,
                      NEW e \in Entries, NEW f \in Entries, e.prev = f.prev
               PROVE  e = f
    BY DEF ForkFree
  <1>1. /\ e \in [id: EventIds, prev: Seq(EventIds), hash: Seq(EventIds)]
        /\ f \in [id: EventIds, prev: Seq(EventIds), hash: Seq(EventIds)]
    BY DEF TypeOK, Entries, Row
  <1>2. e.hash = Append(e.prev, e.id) /\ f.hash = Append(f.prev, f.id)
    BY DEF ChainInvariant, EntriesAreHashed
  <1>3. Begins(e.hash, head) /\ Begins(f.hash, head) /\ head \in Seq(EventIds)
    BY DEF ChainInvariant, LogIsTrail, TypeOK
  <1>4. Len(e.hash) = Len(e.prev) + 1 /\ Len(f.hash) = Len(f.prev) + 1
    BY <1>1, <1>2, AppendFacts
  <1>5. e.hash = f.hash
    BY <1>1, <1>3, <1>4, BeginsEqual
  <1>6. e.hash[Len(e.prev) + 1] = e.id /\ f.hash[Len(f.prev) + 1] = f.id
    BY <1>1, <1>2, AppendFacts
  <1>7. e.id = f.id
    BY <1>5, <1>6
  <1> QED
    BY <1>1, <1>5, <1>7

(* No two committed events of a tenant link to the same predecessor.        *)
THEOREM NoForks == Spec => []ForkFree
  BY TypeCorrect, ChainIsKept, TrailHasNoFork, PTL

(* The committed log is the whole history of the head: nothing lost, nothing*)
(* besides.                                                                 *)
THEOREM LogIsWholeTrail == Spec => []LogIsTrail
  <1>1. ChainInvariant => LogIsTrail
    BY DEF ChainInvariant
  <1> QED
    BY <1>1, ChainIsKept, PTL
-----------------------------------------------------------------------------
(* Atomic evidence.  Only a commit changes the log or the rows, and it adds *)
(* exactly the events its plan asks for, all of them its own.               *)

LEMMA EffectFrame ==
  ASSUME NEW y, log' = log, applied' = applied, EffectIsWhole(y),
         tx'[y].kind = tx[y].kind, tx'[y].mem = tx[y].mem,
         tx'[y].pc = "committed" <=> tx[y].pc = "committed"
  PROVE  EffectIsWhole(y)'
  BY DEF EffectIsWhole, EventsOf, Entries

LEMMA EffectUncommitted ==
  ASSUME NEW y, log' = log, applied' = applied, EffectIsWhole(y),
         tx[y].pc # "committed", tx'[y].pc # "committed"
  PROVE  EffectIsWhole(y)'
  BY DEF EffectIsWhole, EventsOf, Entries

LEMMA EffectInit == Init => EvidenceIsAtomic
  <1> SUFFICES ASSUME Init, NEW x \in Txns PROVE EffectIsWhole(x)
    BY DEF EvidenceIsAtomic
  <1>1. tx[x].pc = "new"
    <2>1. NewTx.pc = "new"
      BY Zenon DEF NewTx
    <2> QED
      BY <2>1 DEF Init
  <1>2. EventsOf(x) = {} /\ \A m \in Memories : x \notin applied[m]
    BY DEF Init, EventsOf, Entries
  <1> QED
    BY <1>1, <1>2 DEF EffectIsWhole

(* A step of x that is no commit: x has not committed before or after, and  *)
(* nothing visible changes.                                                 *)
LEMMA EffectOther ==
  ASSUME TypeOK, EvidenceIsAtomic, NEW x \in Txns, log' = log, applied' = applied,
         tx[x].pc # "committed", tx'[x].pc # "committed",
         \A y \in Txns \ {x} : tx'[y] = tx[y]
  PROVE  EvidenceIsAtomic'
  <1> SUFFICES ASSUME NEW y \in Txns PROVE EffectIsWhole(y)'
    BY DEF EvidenceIsAtomic
  <1>1. EffectIsWhole(y)
    BY DEF EvidenceIsAtomic
  <1>2. CASE y = x
    BY <1>1, <1>2, EffectUncommitted
  <1>3. CASE y # x
    BY <1>1, <1>3, EffectFrame
  <1> QED
    BY <1>2, <1>3

LEMMA EffectCommit ==
  ASSUME TypeOK, ChainInvariant, EvidenceIsAtomic, NEW x \in Txns, Commit(x)
  PROVE  EvidenceIsAtomic'
  <1> DEFINE plan == Plan(tx[x].kind)
  <1>1. /\ tx[x].pc = "open" /\ tx'[x].pc = "committed"
        /\ tx'[x].kind = tx[x].kind /\ tx'[x].mem = tx[x].mem
        /\ \A y \in Txns \ {x} : tx'[y] = tx[y]
    BY DEF Commit, TypeOK, Tx
  <1>2. Entries' = Entries \cup {r.entry : r \in tx[x].pend}
    BY DEF Commit, Entries
  <1>3. \A i \in DOMAIN plan : i \in 1..Len(plan) /\ i < tx[x].step
    <2>1. DOMAIN plan = 1..Len(plan) /\ Len(plan) \in Nat /\ tx[x].step \in Nat
      <3>1. tx[x].kind \in AllKinds /\ tx[x].step \in 1..4
        BY DEF TypeOK, Tx
      <3> QED
        BY <3>1, PlanFacts
    <2>2. tx[x].step > Len(plan)
      BY DEF Commit, Finished
    <2> HIDE DEF plan
    <2> QED
      BY <2>1, <2>2
  <1>4. PendingIsPlanned(x) /\ DOMAIN plan = 1..Len(plan)
    BY PlanFacts DEF ChainInvariant, TypeOK, Tx
  <1>5. \A r \in tx[x].pend : \E i \in DOMAIN plan : r.entry.id = <<x, i>> /\ plan[i] = "audit"
    BY <1>4 DEF PendingIsPlanned
  <1>6. \A i \in DOMAIN plan : plan[i] = "audit" => \E r \in tx[x].pend : r.entry.id = <<x, i>>
    BY <1>1, <1>3, <1>4 DEF PendingIsPlanned
  <1>7. EffectIsWhole(x)'
    <2>1. EffectIsWhole(x)
      BY DEF EvidenceIsAtomic
    <2>2. EventsOf(x) = {} /\ \A m \in Memories : x \notin applied[m]
      BY <1>1, <2>1 DEF EffectIsWhole
    <2>3. \A e \in Entries : e.id[1] # x
      BY <2>2 DEF EventsOf
    <2>4. EventsOf(x)' = {r.entry.id : r \in tx[x].pend}
      <3>1. \A r \in tx[x].pend : r.entry.id[1] = x
        BY <1>5
      <3> QED
        BY <1>2, <2>3, <3>1 DEF EventsOf
    <2>5. EventsOf(x)' = {<<x, i>> : i \in {j \in DOMAIN plan : plan[j] = "audit"}}
      <3> HIDE DEF plan
      <3> QED
        BY ZenonT(60), <1>5, <1>6, <2>4
    <2>6. \A m \in Memories : x \in applied'[m] <=> m = tx[x].mem /\ Writes(tx[x].kind)
      BY <2>2 DEF Commit, TypeOK, Tx
    <2> QED
      BY <1>1, <2>5, <2>6 DEF EffectIsWhole
  <1>8. ASSUME NEW y \in Txns \ {x} PROVE EffectIsWhole(y)'
    <2>1. EffectIsWhole(y)
      BY DEF EvidenceIsAtomic
    <2>2. EventsOf(y)' = EventsOf(y)
      <3>1. \A r \in tx[x].pend : r.entry.id[1] # y
        BY <1>5
      <3> QED
        BY <1>2, <3>1 DEF EventsOf
    <2>3. \A m \in Memories : y \in applied'[m] <=> y \in applied[m]
      BY DEF Commit, TypeOK, Tx
    <2> QED
      BY <1>1, <2>1, <2>2, <2>3 DEF EffectIsWhole
  <1> QED
    BY <1>7, <1>8 DEF EvidenceIsAtomic

LEMMA EffectStep ==
  TypeOK /\ ChainInvariant /\ EvidenceIsAtomic /\ [Next]_vars => EvidenceIsAtomic'
  <1> SUFFICES ASSUME TypeOK, ChainInvariant, EvidenceIsAtomic, [Next]_vars
               PROVE  EvidenceIsAtomic'
    OBVIOUS
  <1>1. CASE UNCHANGED vars
    BY <1>1 DEF vars, EvidenceIsAtomic, EffectIsWhole, EventsOf, Entries
  <1>2. ASSUME NEW x \in Txns, Open(x) PROVE EvidenceIsAtomic'
    BY <1>2, EffectOther DEF Open, TypeOK, Tx
  <1>3. ASSUME NEW x \in Txns, Write(x) PROVE EvidenceIsAtomic'
    BY <1>3, EffectOther DEF Write, AtStep, TypeOK, Tx
  <1>4. ASSUME NEW x \in Txns, Record(x) PROVE EvidenceIsAtomic'
    BY <1>4, EffectOther DEF Record, AtStep, TypeOK, Tx
  <1>5. ASSUME NEW x \in Txns, AddAudit(x) PROVE EvidenceIsAtomic'
    <2>1. tx[x].pc = "open" /\ tx'[x] = Appended(tx[x], NewEntry(x))
          /\ \A y \in Txns \ {x} : tx'[y] = tx[y]
      BY <1>5, StepInPlan, AddAuditFacts DEF AddAudit, TypeOK
    <2>2. tx'[x].pc = "open"
      BY <2>1 DEF Appended, TypeOK, Tx
    <2> QED
      BY <1>5, <2>1, <2>2, EffectOther DEF AddAudit
  <1>6. ASSUME NEW x \in Txns, Discard(x), tx[x].pc = "open" PROVE EvidenceIsAtomic'
    BY <1>6, EffectOther DEF Discard, TypeOK, Tx
  <1> QED
    BY <1>1, <1>2, <1>3, <1>4, <1>5, <1>6, EffectCommit, VictimIsOpen DEF Next, Step, Fail

(* A mutation and its audit events commit together or not at all.           *)
THEOREM EvidenceWithMutation == Spec => []EvidenceIsAtomic
  <1>1. Spec => Init /\ [][Next]_vars
    BY PTL DEF Spec
  <1> QED
    BY <1>1, TypeCorrect, ChainIsKept, EffectInit, EffectStep, PTL

-----------------------------------------------------------------------------
(* Refinement: a commit is TakeEffect, and nothing else moves the trail.    *)

LEMMA TrailInit == Init => Trail!Init
  BY DEF Init, Trail!Init, GENESIS

LEMMA CommitTakesEffect ==
  ASSUME TypeOK, ChainInvariant, EvidenceIsAtomic, NEW x \in Txns, Commit(x)
  PROVE  Trail!TakeEffect(x)
  <1>1. tx[x].pc = "open"
    BY DEF Commit
  <1>2. \A i \in 1..Len(head) : head[i][1] # x
    BY <1>1 DEF ChainInvariant, HeadIsCommitted
  <1>3. \A m \in Memories : x \notin applied[m]
    BY <1>1 DEF EvidenceIsAtomic, EffectIsWhole
  <1>4. Trail!ExtendedBy(head, head', x)
    <2>1. CASE headLock = x
      <3>1. head' = tx[x].last /\ PendingContinues(x)
        BY <2>1, HolderIsOpen DEF Commit
      <3> QED
        BY <3>1 DEF PendingContinues, Begins, Trail!ExtendedBy
    <2>2. CASE headLock # x
      <3>1. head' = head /\ Len(head) \in Nat
        BY <2>2 DEF Commit, TypeOK
      <3>2. Len(head) + 1..Len(head) = {}
        BY <3>1
      <3> QED
        BY <3>1, <3>2 DEF Trail!ExtendedBy
    <2> QED
      BY <2>1, <2>2
  <1>5. \/ applied' = applied
        \/ \E m \in Memories : applied' = [applied EXCEPT ![m] = @ \cup {x}]
    <2>1. tx[x].mem \in Memories
      BY DEF TypeOK, Tx
    <2> QED
      BY <2>1 DEF Commit
  <1> QED
    BY <1>2, <1>3, <1>4, <1>5 DEF Trail!TakeEffect

LEMMA TrailStep ==
  TypeOK /\ ChainInvariant /\ EvidenceIsAtomic /\ [Next]_vars => [Trail!Next]_(Trail!vars)
  <1> SUFFICES ASSUME TypeOK, ChainInvariant, EvidenceIsAtomic, [Next]_vars
               PROVE  [Trail!Next]_(Trail!vars)
    OBVIOUS
  <1>1. CASE UNCHANGED vars
    BY <1>1 DEF vars, Trail!vars
  <1>2. ASSUME NEW x \in Txns, Commit(x) PROVE Trail!Next
    BY <1>2, CommitTakesEffect DEF Trail!Next
  <1>3. ASSUME NEW x \in Txns,
               Open(x) \/ Write(x) \/ Record(x) \/ AddAudit(x) \/ Discard(x)
        PROVE  UNCHANGED Trail!vars
    BY <1>3 DEF Open, Write, Record, AddAudit, Discard, Trail!vars
  <1> QED
    BY <1>1, <1>2, <1>3, VictimIsOpen DEF Next, Step, Fail

(* The locked, hashed, transactional append implements the append-only      *)
(* trail: what is committed is never changed, and each transaction adds its *)
(* events and its mutation in one step.                                     *)
THEOREM RefinesTrail == Spec => ImplementsTrail
  <1>1. Spec => Init /\ [][Next]_vars
    BY PTL DEF Spec
  <1>2. ImplementsTrail <=> Trail!Init /\ [][Trail!Next]_(Trail!vars)
    BY DEF ImplementsTrail, Trail!Spec
  <1> QED
    BY <1>1, <1>2, TypeCorrect, ChainIsKept, EvidenceWithMutation, TrailInit, TrailStep, PTL
-----------------------------------------------------------------------------
(* The verifier's reading.  Each place of the head is one entry, so the     *)
(* entries are a line; what verify_chain answers for it is AlgorithmProofs. *)

\* Everything an event can be is a row verify_chain can read.
LEMMA EntriesAreRows == TypeOK => Entries \in SUBSET ChainRow(EventIds)
  BY DEF TypeOK, Entries, Row, ChainRow

\* An entry is known by its length: it is a prefix of the head.
LEMMA EntryOfLength ==
  ASSUME TypeOK, ChainInvariant, NEW e \in Entries, NEW f \in Entries, Len(e.hash) = Len(f.hash)
  PROVE  e = f
  <1>1. e \in ChainRow(EventIds) /\ f \in ChainRow(EventIds)
    BY EntriesAreRows
  <1>2. e.hash = Append(e.prev, e.id) /\ f.hash = Append(f.prev, f.id)
    BY DEF ChainInvariant, EntriesAreHashed
  <1>3. Begins(e.hash, head) /\ Begins(f.hash, head) /\ head \in Seq(EventIds)
    BY DEF ChainInvariant, LogIsTrail, TypeOK
  <1>4. /\ e.hash \in Seq(EventIds) /\ f.hash \in Seq(EventIds) /\ e.prev \in Seq(EventIds) /\ f.prev \in Seq(EventIds)
        /\ e.id \in EventIds /\ f.id \in EventIds
    BY <1>1 DEF ChainRow
  <1>5. e.hash = f.hash
    BY <1>3, <1>4, BeginsEqual
  <1>6. e.prev = f.prev
    <2>1. Begins(e.prev, e.hash) /\ Begins(f.prev, f.hash)
      BY <1>2, <1>4, BeginsAppend
    <2>2. Len(e.hash) = Len(e.prev) + 1 /\ Len(f.hash) = Len(f.prev) + 1
      BY <1>2, <1>4, AppendFacts
    <2>3. Len(e.prev) = Len(f.prev)
      BY <1>4, <1>5, <2>2
    <2> QED
      BY <1>4, <1>5, <2>1, <2>3, BeginsEqual
  <1>7. e \in Entries /\ f \in Entries /\ ForkFree
    BY TrailHasNoFork
  <1> QED
    BY <1>6, <1>7 DEF ForkFree

LEMMA EntriesAreALine ==
  ASSUME TypeOK, ChainInvariant
  PROVE  IsFiniteSet(Entries) /\ IsChain(Entries)
  <1> DEFINE n == Len(head)
             line == [i \in 1..n |-> CHOOSE e \in Entries : Len(e.hash) = i]
  <1>0. n \in Nat /\ head \in Seq(EventIds)
    BY DEF TypeOK
  <1>1. \A i \in 1..n : line[i] \in Entries /\ Len(line[i].hash) = i
    BY DEF ChainInvariant, LogIsTrail
  <1>2. line \in [1..n -> Entries] /\ DOMAIN line = 1..n
    BY <1>1
  <1> HIDE DEF line
  <1>3. \A e \in Entries : Len(e.hash) \in 1..n /\ line[Len(e.hash)] = e
    <2> TAKE e \in Entries
    <2>1. e \in ChainRow(EventIds) /\ e.hash = Append(e.prev, e.id) /\ Begins(e.hash, head)
      BY EntriesAreRows DEF ChainInvariant, EntriesAreHashed, LogIsTrail
    <2>2. Len(e.hash) = Len(e.prev) + 1 /\ Len(e.prev) \in Nat
      BY <2>1, AppendFacts DEF ChainRow
    <2>3. Len(e.hash) \in 1..n
      BY <1>0, <2>1, <2>2 DEF Begins
    <2> QED
      BY <1>1, <2>3, EntryOfLength
  <1>4. line \in Bijection(1..n, Entries)
    BY <1>1, <1>2, <1>3 DEF Bijection, Injection, Surjection, IsInjective
  <1>5. IsFiniteSet(1..n) /\ Cardinality(1..n) = n
    BY SMTT(20), <1>0, FS_Interval
  <1>6. ExistsBijection(1..n, Entries)
    BY <1>4 DEF ExistsBijection
  <1>7. IsFiniteSet(Entries) /\ Cardinality(Entries) = n
    BY <1>5, <1>6, FS_Bijection
  <1>8. ASSUME NEW i \in 1..n
        PROVE  line[i] = Entry(line[i].id, IF i = 1 THEN GENESIS ELSE line[i - 1].hash)
    <2> DEFINE e == line[i]
    <2>1. /\ e \in Entries /\ Len(e.hash) = i
          /\ e \in ChainRow(EventIds) /\ e.hash = Append(e.prev, e.id) /\ Begins(e.hash, head)
      BY <1>1, EntriesAreRows DEF ChainInvariant, EntriesAreHashed, LogIsTrail
    <2> HIDE DEF e
    <2>2. e.prev \in Seq(EventIds) /\ e.id \in EventIds /\ e.hash \in Seq(EventIds)
      BY <2>1 DEF ChainRow
    <2>3. Len(e.prev) = i - 1 /\ Begins(e.prev, head)
      <3>1. Len(e.hash) = Len(e.prev) + 1 /\ Begins(e.prev, e.hash) /\ Len(e.prev) \in Nat
        BY <2>1, <2>2, AppendFacts, BeginsAppend
      <3>2. Len(e.prev) = i - 1
        BY <2>1, <3>1
      <3>3. Begins(e.prev, head)
        BY <1>0, <2>1, <2>2, <3>1, BeginsTransitive
      <3> QED
        BY <3>2, <3>3
    <2>4. e = Entry(e.id, e.prev)
      BY <2>1 DEF ChainRow, Entry, ComputeEntryHash
    <2>5. CASE i = 1
      <3>1. e.prev = GENESIS
        BY <2>2, <2>3, <2>5, EmptySeq DEF GENESIS
      <3> QED
        BY <2>4, <2>5, <3>1 DEF e
    <2>6. CASE i # 1
      <3>1. i - 1 \in 1..n
        BY <1>0, <2>6
      <3>2. line[i - 1] \in Entries /\ Len(line[i - 1].hash) = i - 1
        BY <1>1, <3>1
      <3>3. line[i - 1].hash \in Seq(EventIds) /\ Begins(line[i - 1].hash, head)
        BY <3>2, EntriesAreRows DEF ChainRow, ChainInvariant, LogIsTrail
      <3>4. e.prev = line[i - 1].hash
        BY <1>0, <2>2, <2>3, <3>2, <3>3, BeginsEqual
      <3> QED
        BY <2>4, <2>6, <3>4 DEF e
    <2> QED
      BY <2>5, <2>6
  <1>9. \A e \in Entries : \E i \in 1..n : line[i] = e
    BY <1>3
  <1> QED
    BY <1>2, <1>7, <1>8, <1>9 DEF IsChain

\* What a listing is cut off from: finitely many rows were ever committed.
FinitelyMany == IsFiniteSet(log) /\ \A x \in Txns : IsFiniteSet(tx[x].pend)

LEMMA FinitelyManyInit == Init => FinitelyMany
  <1>1. NewTx.pend = {}
    BY Zenon DEF NewTx
  <1> QED
    BY <1>1, FS_EmptySet DEF Init, FinitelyMany

LEMMA FinitelyManyStep == TypeOK /\ FinitelyMany /\ [Next]_vars => FinitelyMany'
  <1> SUFFICES ASSUME TypeOK, FinitelyMany, [Next]_vars PROVE FinitelyMany'
    OBVIOUS
  <1>1. CASE UNCHANGED vars
    BY <1>1 DEF vars, FinitelyMany
  <1>2. ASSUME NEW x \in Txns, Open(x) \/ Write(x) \/ Record(x) PROVE FinitelyMany'
    <2>1. log' = log /\ \A y \in Txns : tx'[y].pend = tx[y].pend
      <3>1. CASE Open(x)
        BY <3>1 DEF Open, TypeOK, Tx
      <3>2. CASE Write(x)
        BY <3>2 DEF Write, TypeOK, Tx
      <3>3. CASE Record(x)
        BY <3>3 DEF Record, TypeOK, Tx
      <3> QED
        BY <1>2, <3>1, <3>2, <3>3
    <2> QED
      BY <2>1 DEF FinitelyMany
  <1>3. ASSUME NEW x \in Txns, AddAudit(x) PROVE FinitelyMany'
    <2>1. log' = log /\ \A y \in Txns \ {x} : tx'[y] = tx[y]
      BY <1>3 DEF AddAudit, TypeOK
    <2>2. tx'[x] = Appended(tx[x], NewEntry(x))
      BY <1>3, AddAuditFacts DEF TypeOK
    <2>3. tx'[x].pend = tx[x].pend \cup {[entry |-> NewEntry(x), created |-> tx[x].stamp]}
      BY <2>2 DEF Appended, TypeOK, Tx
    <2>4. IsFiniteSet(tx'[x].pend)
      BY <2>3, FS_AddElement DEF FinitelyMany
    <2> QED
      BY <2>1, <2>4 DEF FinitelyMany
  <1>4. ASSUME NEW x \in Txns, Commit(x) \/ Discard(x) PROVE FinitelyMany'
    <2>1. tx'[x].pend = {} /\ \A y \in Txns \ {x} : tx'[y] = tx[y]
      BY <1>4 DEF Commit, Discard, TypeOK, Tx
    <2>2. log' = log \cup tx[x].pend \/ log' = log
      BY <1>4 DEF Commit, Discard
    <2>3. IsFiniteSet(log')
      BY <2>2, FS_Union DEF FinitelyMany
    <2> QED
      BY <2>1, <2>3, FS_EmptySet DEF FinitelyMany
  <1> QED
    BY <1>1, <1>2, <1>3, <1>4, VictimIsOpen DEF Next, Step, Fail

LEMMA AllIsListed ==
  ASSUME TypeOK, FinitelyMany, VerifyLimit \in Nat, Cardinality(log) <= VerifyLimit
  PROVE  Listed = Entries
  <1> DEFINE newer(q) == {p \in log : p.created > q.created}
  <1>1. ASSUME NEW q \in log PROVE Cardinality(newer(q)) < VerifyLimit
    <2>1. q.created \in Nat
      BY DEF TypeOK, Row
    <2>2. newer(q) \in SUBSET (log \ {q})
      BY <2>1
    <2>3. IsFiniteSet(log \ {q}) /\ Cardinality(log \ {q}) = Cardinality(log) - 1
      BY FS_RemoveElement DEF FinitelyMany
    <2> HIDE DEF newer
    <2>4. Cardinality(newer(q)) \in Nat /\ Cardinality(newer(q)) <= Cardinality(log \ {q})
      BY <2>2, <2>3, FS_Subset, FS_CardinalityType
    <2>5. Cardinality(log) \in Nat
      BY FS_CardinalityType DEF FinitelyMany
    <2> QED
      BY <2>3, <2>4, <2>5
  <1>2. Listed = {r.entry : r \in {q \in log : Cardinality(newer(q)) < VerifyLimit}}
    BY Zenon DEF Listed, ListAudit
  <1> HIDE DEF newer
  <1>3. {q \in log : Cardinality(newer(q)) < VerifyLimit} = log
    BY <1>1
  <1> QED
    BY <1>2, <1>3 DEF Entries

(* At every moment, whatever transactions are under way, failed or were     *)
(* rolled back, the committed events of the tenant pass verify_chain, and   *)
(* so does what GET /v1/audit/verify reads of them as long as the listing   *)
(* is not cut off: the answer "broken" is never a false alarm.              *)
THEOREM ChainAlwaysVerifies == Spec => []WholeChainVerifies
  <1>1. Spec => Init /\ [][Next]_vars
    BY PTL DEF Spec
  <1>2. Spec => []FinitelyMany
    BY <1>1, TypeCorrect, FinitelyManyInit, FinitelyManyStep, PTL
  <1>3. TypeOK /\ ChainInvariant /\ FinitelyMany => WholeChainVerifies
    <2> SUFFICES ASSUME TypeOK, ChainInvariant, FinitelyMany PROVE WholeChainVerifies
      OBVIOUS
    <2>1. VerifyChain(Entries)
      BY EntriesAreRows, EntriesAreALine, VerifyChainIsExact
    <2>2. Cardinality(log) <= VerifyLimit => Listed = Entries
      BY AllIsListed, ChainAssumption
    <2> QED
      BY <2>1, <2>2 DEF WholeChainVerifies
  <1> QED
    BY <1>2, <1>3, TypeCorrect, ChainIsKept, PTL
=============================================================================

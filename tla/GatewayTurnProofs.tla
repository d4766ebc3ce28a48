-------------------------- MODULE GatewayTurnProofs --------------------------
(* Proofs about GatewayTurn, for every number of turns and requests, every  *)
(* set of contents and every list of candidates.                            *)
EXTENDS GatewayTurn, AlgorithmProofs

-----------------------------------------------------------------------------
(* The invariant, over the rows a turn or a request lives with.             *)

RowRecord ==
  [status: {"active", "pending", "rejected", "archived", "deleted"}, text: Texts,
   parents: {<<>>, <<1>>}, held: BOOLEAN, rev: Nat, since: Nat, patched: BOOLEAN,
   tombstoned: BOOLEAN, deleted: BOOLEAN]

Loops ==
  [state: {"none", "new", "observed", "classified", "policy_checked", "executed", "verified",
           "audited", "feedback_captured", "learned", "safe_degraded", "failed", "completed"},
   status: {"none", "running", "completed", "safe_degraded"}]

Verdicts ==
  [decision: {"BLOCK", "UPDATE_EXISTING", "DROP_LOW_UTILITY", "PENDING_APPROVAL", "SAVE"},
   id: Nat, since: Nat]

Views == {<<>>} \cup UNION {[S -> RowRecord] : S \in SUBSET Ids}

TurnRecord ==
  [pc: {"idle", "bypassed", "reading", "retrieved", "answering", "evaluating", "committing",
        "done", "raised"},
   read: Loops, write: Loops, mode: {"none", "hybrid", "fallback"}, degraded: BOOLEAN,
   view: Views,
   prompt: SUBSET Ids, deleted: SUBSET Ids, inactive: SUBSET Ids, gone: SUBSET Ids,
   candidates: Seq(Texts), outcomes: Seq(Verdicts), k: Nat]

RequestRecord ==
  [pc: {"idle", "open", "committed", "done", "refused", "raised"},
   op: {"none", "view", "delete", "patch"}, id: Nat, new: RowRecord \cup {NoRow}, rev: Nat,
   loop: Loops]

\* Only the insight was derived, from the first row.
OriginOf(i) == IF i = 2 THEN <<1>> ELSE <<>>

\* Below since every id is taken, and by no unpatched active row with this text.
Settled(rs, since, text) ==
  \A i \in Ids : i < since =>
    rs[i] # NoRow /\ ~(rs[i].status = "active" /\ rs[i].text = text /\ ~rs[i].patched)

RowsInvariant(rs) ==
  /\ rs \in [Ids -> RowRecord \cup {NoRow}]
  /\ rs[1] # NoRow /\ rs[2] # NoRow
  /\ \A i \in Ids : rs[i] # NoRow =>
       /\ rs[i].parents = OriginOf(i)
       /\ ~rs[i].patched => Settled(rs, rs[i].since, rs[i].text)

\* A run that goes on, and the read run of an answered turn.
Running(state) == [state |-> state, status |-> "running"]

ReadEnd(degraded) ==
  [state |-> "completed", status |-> IF degraded THEN "safe_degraded" ELSE "completed"]

LoopsOfTurn(t) ==
  /\ t.pc \in {"idle", "bypassed"} => t.read = NoLoop /\ t.write = NoLoop
  /\ t.pc \in {"reading", "retrieved"} => t.read = Running("policy_checked") /\ t.write = NoLoop
  /\ t.pc = "answering" => t.read = ReadEnd(t.degraded) /\ t.write = NoLoop
  /\ t.pc = "evaluating" => t.read = ReadEnd(t.degraded) /\ t.write = Running("classified")
  /\ t.pc = "committing" => t.read = ReadEnd(t.degraded) /\ t.write = Running("policy_checked")
  /\ t.pc = "done" => t.read = ReadEnd(t.degraded) /\ t.write = ReadEnd(FALSE)
  /\ t.pc = "raised" =>
       \/ t.read = Running("policy_checked") /\ t.write = NoLoop
       \/ /\ t.read = ReadEnd(t.degraded)
          /\ t.write \in {NoLoop, Running("classified"), Running("policy_checked")}

\* What was deleted when the turn began, out of reach of its search or tombstoned ever since
\* still is, and is neither in the turn's hands nor the origin of what is.
Witnessed(t, rs) ==
  t.pc \in {"reading", "retrieved", "answering"} =>
    /\ t.deleted \subseteq Deleted(rs) \cap t.inactive
    /\ t.inactive \cap Retrievable(rs) = {}
    /\ t.gone \subseteq Gone(rs)

Retrieved(t) ==
  t.pc = "retrieved" =>
    /\ t.view \in [DOMAIN t.view -> RowRecord] /\ DOMAIN t.view \subseteq Ids \ t.inactive
    /\ \A i \in DOMAIN t.view : t.view[i].parents = OriginOf(i)

Prompted(t, rs) ==
  t.pc = "answering" => \A i \in t.prompt :
    i \notin t.inactive /\ (i = 2 => 1 \notin t.gone)

\* A verdict that still stands for the text it was made of.
Stands(o, text, rs) ==
  /\ o.decision = "UPDATE_EXISTING" => o.id \in Ids /\ rs[o.id] # NoRow
  /\ o.decision \in {"SAVE", "PENDING_APPROVAL"} => Settled(rs, o.since, text)

Judged(t, rs) ==
  /\ Len(t.outcomes) <= Len(t.candidates)
  /\ t.pc \in {"idle", "bypassed", "reading", "retrieved", "answering"} => t.outcomes = <<>>
  /\ t.pc = "evaluating" => t.k = Len(t.outcomes)
  /\ \A m \in 1..Len(t.outcomes) : Stands(t.outcomes[m], t.candidates[m], rs)

TurnInvariant(t, rs) ==
  /\ t \in TurnRecord
  /\ LoopsOfTurn(t)
  /\ Witnessed(t, rs) /\ Retrieved(t) /\ Prompted(t, rs) /\ Judged(t, rs)

LoopOfRequest(r) ==
  /\ r.pc = "idle" => r.loop = NoLoop
  /\ r.pc = "open" => r.loop = Running("policy_checked")
  /\ r.pc = "committed" => r.loop = Running("verified")
  /\ r.pc = "done" => r.loop = ReadEnd(FALSE)
  /\ r.pc = "refused" =>
       r.loop = Running("policy_checked") \/ (r.op = "delete" /\ r.loop = Running("failed"))
  /\ r.pc = "raised" => r.loop \in {Running("policy_checked"), Running("verified")}

RequestInvariant(r, rs) ==
  /\ r \in RequestRecord
  /\ LoopOfRequest(r)
  /\ r.pc = "open" => r.id \in Ids /\ rs[r.id] # NoRow
  /\ r.pc = "open" /\ r.op = "patch" => r.new \in RowRecord /\ r.new.parents = OriginOf(r.id)

GatewayInvariant ==
  /\ RowsInvariant(rows)
  /\ turn \in [Turns -> TurnRecord] /\ \A c \in Turns : TurnInvariant(turn[c], rows)
  /\ gov \in [Owners -> RequestRecord] /\ \A g \in Owners : RequestInvariant(gov[g], rows)

-----------------------------------------------------------------------------
(* What the loop runs say after the events of a step.                       *)

LEMMA Follows ==
  /\ "observed" \in ALLOWED_TRANSITIONS["new"]
  /\ "policy_checked" \in ALLOWED_TRANSITIONS["observed"]
  /\ "classified" \in ALLOWED_TRANSITIONS["observed"]
  /\ "policy_checked" \in ALLOWED_TRANSITIONS["classified"]
  /\ "executed" \in ALLOWED_TRANSITIONS["policy_checked"]
  /\ "failed" \in ALLOWED_TRANSITIONS["policy_checked"]
  /\ "verified" \in ALLOWED_TRANSITIONS["executed"]
  /\ "safe_degraded" \in ALLOWED_TRANSITIONS["executed"]
  /\ "audited" \in ALLOWED_TRANSITIONS["verified"]
  /\ "audited" \in ALLOWED_TRANSITIONS["safe_degraded"]
  /\ "completed" \in ALLOWED_TRANSITIONS["audited"]
  BY DEF ALLOWED_TRANSITIONS

\* Allowed events leave the run in the last of their states.
LEMMA EmitOne ==
  ASSUME NEW s, NEW a, a \in ALLOWED_TRANSITIONS[s]
  PROVE  Emit(Running(s), <<a>>) = Running(a)
  <1>1. DOMAIN <<a>> = {1} /\ Len(<<a>>) = 1 /\ <<a>>[1] = a
    OBVIOUS
  <1> QED
    BY <1>1 DEF Emit, Running

LEMMA EmitTwo ==
  ASSUME NEW s, NEW a, NEW b, a \in ALLOWED_TRANSITIONS[s], b \in ALLOWED_TRANSITIONS[a]
  PROVE  Emit(Running(s), <<a, b>>) = Running(b)
  <1>1. /\ DOMAIN <<a, b>> = {1, 2} /\ Len(<<a, b>>) = 2
        /\ <<a, b>>[1] = a /\ <<a, b>>[2] = b
    OBVIOUS
  <1> QED
    BY <1>1 DEF Emit, Running

LEMMA EmitFour ==
  ASSUME NEW s, NEW a, NEW b, NEW c, NEW d,
         a \in ALLOWED_TRANSITIONS[s], b \in ALLOWED_TRANSITIONS[a],
         c \in ALLOWED_TRANSITIONS[b], d \in ALLOWED_TRANSITIONS[c]
  PROVE  Emit(Running(s), <<a, b, c, d>>) = Running(d)
  <1> DEFINE q == <<a, b, c, d>>
  <1>1. DOMAIN q = {1, 2, 3, 4} /\ Len(q) = 4 /\ q[1] = a /\ q[2] = b /\ q[3] = c /\ q[4] = d
    OBVIOUS
  <1> HIDE DEF q
  <1>2. \A k \in DOMAIN q : q[k] \in ALLOWED_TRANSITIONS[IF k = 1 THEN s ELSE q[k - 1]]
    BY <1>1
  <1> QED
    BY <1>1, <1>2 DEF Emit, Running

\* The event lists of the handlers are all allowed.
LEMMA EmitFacts ==
  /\ Emit(LoopRun, <<"observed", "policy_checked">>) = Running("policy_checked")
  /\ Emit(LoopRun, <<"observed", "classified">>) = Running("classified")
  /\ Emit(Running("classified"), <<"policy_checked">>) = Running("policy_checked")
  /\ \A b \in BOOLEAN : Emit(Running("policy_checked"), ReadStates(b)) = Running("completed")
  /\ Emit(Running("policy_checked"), Closing) = Running("completed")
  /\ Emit(Running("policy_checked"), <<"failed">>) = Running("failed")
  /\ Emit(Running("policy_checked"), <<"executed", "verified">>) = Running("verified")
  /\ Emit(Running("verified"), <<"audited", "completed">>) = Running("completed")
  <1>1. LoopRun = Running("new")
    BY DEF LoopRun, Running
  <1>2. \A b \in BOOLEAN : Emit(Running("policy_checked"), ReadStates(b)) = Running("completed")
    <2>1. Emit(Running("policy_checked"), ReadStates(TRUE)) = Running("completed")
      BY Follows, EmitFour DEF ReadStates
    <2>2. Emit(Running("policy_checked"), ReadStates(FALSE)) = Running("completed")
      BY Follows, EmitFour DEF ReadStates
    <2> QED
      BY <2>1, <2>2
  <1>3. Emit(Running("policy_checked"), Closing) = Running("completed")
    BY Follows, EmitFour DEF Closing
  <1>4. /\ Emit(Running("new"), <<"observed", "policy_checked">>) = Running("policy_checked")
        /\ Emit(Running("new"), <<"observed", "classified">>) = Running("classified")
        /\ Emit(Running("policy_checked"), <<"executed", "verified">>) = Running("verified")
        /\ Emit(Running("verified"), <<"audited", "completed">>) = Running("completed")
    BY Follows, EmitTwo
  <1>5. /\ Emit(Running("classified"), <<"policy_checked">>) = Running("policy_checked")
        /\ Emit(Running("policy_checked"), <<"failed">>) = Running("failed")
    BY Follows, EmitOne
  <1> QED
    BY <1>1, <1>2, <1>3, <1>4, <1>5

LEMMA CompleteFacts ==
  /\ \A b \in BOOLEAN :
       Complete(Running("completed"), IF b THEN "safe_degraded" ELSE "completed") = ReadEnd(b)
  /\ Complete(Running("completed"), "completed") = ReadEnd(FALSE)
  BY DEF Complete, Running, ReadEnd

\* A run with allowed events only never refuses one.
LEMMA LoopFacts ==
  /\ NoLoop \in Loops /\ NoLoop.state # "invalid"
  /\ \A s \in {"classified", "policy_checked", "verified", "failed"} :
       Running(s) \in Loops /\ Running(s).state = s
  /\ \A b \in BOOLEAN : ReadEnd(b) \in Loops /\ ReadEnd(b).state = "completed"
  BY DEF NoLoop, Running, ReadEnd, Loops

-----------------------------------------------------------------------------
(* What a change of the rows leaves true.                                   *)

\* Rows stay, and stay what they were derived from; one the owner has not edited is the one
\* that was there, and becomes active only by its creation or by his hand; a deletion's stamp
\* stays.
Evolves(rs, ns) ==
  \A i \in Ids : rs[i] # NoRow =>
    /\ ns[i] # NoRow
    /\ ~ns[i].patched => /\ ~rs[i].patched /\ ns[i].text = rs[i].text /\ ns[i].since = rs[i].since
                         /\ ns[i].status = "active" => rs[i].status = "active"
    /\ rs[i].deleted => ns[i].deleted

LEMMA SettledStays ==
  ASSUME NEW rs, NEW ns, Evolves(rs, ns), NEW since, NEW text, Settled(rs, since, text)
  PROVE  Settled(ns, since, text)
  BY DEF Settled, Evolves

\* Among natural numbers there is a least.
LEMMA LeastExists ==
  ASSUME NEW S \in SUBSET Nat, S # {}
  PROVE  \E i \in S : \A j \in S : i <= j
  <1> DEFINE G == {n \in Nat : \A m \in S : m <= n => \E i \in S : \A j \in S : i <= j}
  <1>1. 0 \in G
    <2>1. ASSUME NEW m \in S, m <= 0 PROVE \A j \in S : m <= j
      BY <2>1
    <2> QED
      BY <2>1
  <1>2. \A n \in G : n + 1 \in G
    <2>1. ASSUME NEW n \in G, NEW m \in S, m <= n + 1
          PROVE  \E i \in S : \A j \in S : i <= j
      <3>1. CASE \E j \in S : j <= n
        BY <3>1
      <3>2. CASE ~ \E j \in S : j <= n
        <4>1. \A j \in S : m <= j
          BY <2>1, <3>2
        <4> QED
          BY <4>1
      <3> QED
        BY <3>1, <3>2
    <2> QED
      BY <2>1
  <1>3. Nat \subseteq G
    <2>1. G \subseteq Nat
      OBVIOUS
    <2> HIDE DEF G
    <2> QED
      BY <1>1, <1>2, <2>1, SetInduction
  <1>4. PICK m \in S : TRUE
    OBVIOUS
  <1>5. m \in G /\ m <= m
    BY <1>3
  <1> QED
    BY <1>5

\* The next id is free, and all below it are taken.
LEMMA NextIdIsFree ==
  ASSUME NEW rs, Free(rs) # {}
  PROVE  /\ NextId(rs) \in Ids /\ NextId(rs) \in Nat /\ rs[NextId(rs)] = NoRow
         /\ \A i \in Ids : i < NextId(rs) => rs[i] # NoRow
  <1>1. Free(rs) \in SUBSET Nat
    BY TurnAssumption DEF Free
  <1>2. NextId(rs) \in Free(rs) /\ \A j \in Free(rs) : NextId(rs) <= j
    BY <1>1, LeastExists DEF NextId
  <1>3. PICK n : n = NextId(rs)
    OBVIOUS
  <1>4. \A i \in Ids : i < n => i \notin Free(rs)
    BY <1>1, <1>2, <1>3, TurnAssumption
  <1> QED
    BY <1>1, <1>2, <1>3, <1>4 DEF Free

-----------------------------------------------------------------------------
(* The turns.                                                               *)

LEMMA StandsStays ==
  ASSUME NEW rs, NEW ns, Evolves(rs, ns), NEW o, NEW text, Stands(o, text, rs)
  PROVE  Stands(o, text, ns)
  <1>1. o.decision \in {"SAVE", "PENDING_APPROVAL"} => Settled(ns, o.since, text)
    BY SettledStays DEF Stands
  <1>2. o.decision = "UPDATE_EXISTING" => o.id \in Ids /\ ns[o.id] # NoRow
    BY DEF Stands, Evolves
  <1> QED
    BY <1>1, <1>2 DEF Stands

\* A turn that goes on, while somebody else stores, keeps its invariant.
LEMMA WitnessKeeps ==
  ASSUME NEW rs, NEW ns, Evolves(rs, ns), NEW t, TurnInvariant(t, rs)
  PROVE  TurnInvariant(Witness(t, ns), ns)
  <1> DEFINE n == Witness(t, ns)
  <1>0. t \in TurnRecord
    BY DEF TurnInvariant
  <1>1. /\ n.pc = t.pc /\ n.read = t.read /\ n.write = t.write /\ n.degraded = t.degraded
        /\ n.mode = t.mode /\ n.view = t.view /\ n.prompt = t.prompt
        /\ n.candidates = t.candidates /\ n.outcomes = t.outcomes /\ n.k = t.k
        /\ n.inactive = t.inactive \ Retrievable(ns) /\ n.gone = t.gone \cap Gone(ns)
        /\ n.deleted = t.deleted
    BY <1>0 DEF Witness, TurnRecord
  <1>2. n \in TurnRecord
    BY <1>0 DEF Witness, TurnRecord
  <1> HIDE DEF n
  <1>3. LoopsOfTurn(n)
    BY <1>1 DEF LoopsOfTurn, TurnInvariant
  <1>4. Witnessed(n, ns)
    <2>1. Deleted(rs) \subseteq Deleted(ns) /\ Deleted(ns) \cap Retrievable(ns) = {}
      BY DEF Evolves, Deleted, Retrievable
    <2> QED
      BY <1>1, <2>1 DEF Witnessed, TurnInvariant
  <1>5. Retrieved(n)
    BY <1>1 DEF Retrieved, TurnInvariant
  <1>6. Prompted(n, ns)
    BY <1>1 DEF Prompted, TurnInvariant
  <1>7. Judged(n, ns)
    <2>1. ASSUME NEW m \in 1..Len(t.outcomes) PROVE Stands(t.outcomes[m], t.candidates[m], ns)
      BY StandsStays DEF TurnInvariant, Judged
    <2> QED
      BY <1>1, <2>1 DEF TurnInvariant, Judged
  <1>8. TurnInvariant(n, ns)
    BY <1>2, <1>3, <1>4, <1>5, <1>6, <1>7 DEF TurnInvariant
  <1> QED
    BY <1>8 DEF n

\* No turn dies of its own loop.
LEMMA LandedStays ==
  ASSUME NEW t \in TurnRecord
  PROVE  Landed(t) = t
  BY DEF Landed, TurnRecord, Loops

\* A turn that ends keeps its loop runs, and owes nothing else.
LEMMA EndedKeeps ==
  ASSUME NEW t \in TurnRecord, NEW pc \in {"done", "raised"}, NEW rs,
         LoopsOfTurn(Ended(t, pc))
  PROVE  TurnInvariant(Ended(t, pc), rs)
  <1> DEFINE n == Ended(t, pc)
  <1>1. /\ n.pc = pc /\ n.candidates = <<>> /\ n.outcomes = <<>>
    BY DEF Ended, NoTurn
  <1>2. n \in TurnRecord
    <2>1. t.read \in Loops /\ t.write \in Loops /\ t.degraded \in BOOLEAN
      BY DEF TurnRecord
    <2>2. <<>> \in Views /\ <<>> \in Seq(Texts) /\ <<>> \in Seq(Verdicts)
      BY DEF Views
    <2>3. NoTurn \in TurnRecord
      BY <2>2, LoopFacts DEF NoTurn, TurnRecord
    <2> QED
      BY <2>1, <2>3 DEF Ended, TurnRecord
  <1> HIDE DEF n
  <1>3. Witnessed(n, rs) /\ Retrieved(n) /\ Prompted(n, rs)
    BY <1>1 DEF Witnessed, Retrieved, Prompted
  <1>4. Judged(n, rs)
    BY <1>1 DEF Judged
  <1> QED
    BY <1>2, <1>3, <1>4 DEF TurnInvariant, n

LEMMA BecomesKeeps ==
  ASSUME GatewayInvariant, NEW c \in Turns, NEW t, TurnInvariant(t, rows), Becomes(c, t)
  PROVE  GatewayInvariant'
  <1>1. t \in TurnRecord /\ turn' = [turn EXCEPT ![c] = t] /\ UNCHANGED <<rows, gov>>
    BY LandedStays DEF Becomes, TurnInvariant
  <1>2. turn' \in [Turns -> TurnRecord]
    BY <1>1 DEF GatewayInvariant
  <1>3. ASSUME NEW d \in Turns PROVE TurnInvariant(turn'[d], rows)
    <2>1. CASE d = c
      BY <1>1, <2>1 DEF GatewayInvariant
    <2>2. CASE d # c
      BY <1>1, <2>2 DEF GatewayInvariant
    <2> QED
      BY <2>1, <2>2
  <1> QED
    BY <1>1, <1>2, <1>3 DEF GatewayInvariant

LEMMA BypassKeeps ==
  ASSUME GatewayInvariant, NEW c \in Turns, Bypass(c)
  PROVE  GatewayInvariant'
  <1> DEFINE t == turn[c]
             n == [t EXCEPT !.pc = "bypassed"]
  <1>1. TurnInvariant(t, rows) /\ t \in TurnRecord /\ t.pc = "idle"
    BY DEF GatewayInvariant, TurnInvariant, Bypass
  <1>2. Becomes(c, n)
    BY DEF Bypass
  <1> HIDE DEF t
  <1>3. /\ n.pc = "bypassed" /\ n.read = t.read /\ n.write = t.write
        /\ n.candidates = t.candidates /\ n.outcomes = t.outcomes /\ n \in TurnRecord
    BY <1>1 DEF TurnRecord
  <1> HIDE DEF n
  <1>4. LoopsOfTurn(n)
    BY <1>1, <1>3 DEF LoopsOfTurn, TurnInvariant
  <1>5. Witnessed(n, rows) /\ Retrieved(n) /\ Prompted(n, rows)
    BY <1>3 DEF Witnessed, Retrieved, Prompted
  <1>6. Judged(n, rows)
    BY <1>1, <1>3 DEF Judged, TurnInvariant
  <1>7. TurnInvariant(n, rows)
    BY <1>3, <1>4, <1>5, <1>6 DEF TurnInvariant
  <1> QED
    BY <1>2, <1>7, BecomesKeeps

LEMMA BeginTurnKeeps ==
  ASSUME GatewayInvariant, NEW c \in Turns, BeginTurn(c)
  PROVE  GatewayInvariant'
  <1> DEFINE t == turn[c]
             n == [t EXCEPT !.pc = "reading", !.read = Running("policy_checked"),
                            !.deleted = Deleted(rows), !.inactive = Ids \ Retrievable(rows),
                            !.gone = Gone(rows)]
  <1>1. TurnInvariant(t, rows) /\ t \in TurnRecord /\ t.pc = "idle"
    BY DEF GatewayInvariant, TurnInvariant, BeginTurn
  <1>2. Becomes(c, n)
    BY EmitFacts DEF BeginTurn
  <1> HIDE DEF t
  <1>3. /\ n.pc = "reading" /\ n.read = Running("policy_checked") /\ n.write = t.write
        /\ n.deleted = Deleted(rows) /\ n.inactive = Ids \ Retrievable(rows)
        /\ n.gone = Gone(rows)
        /\ n.candidates = t.candidates /\ n.outcomes = t.outcomes
    BY <1>1 DEF TurnRecord
  <1>4. n \in TurnRecord
    BY <1>1, LoopFacts DEF TurnRecord, Gone, Deleted
  <1> HIDE DEF n
  <1>5. LoopsOfTurn(n)
    BY <1>1, <1>3 DEF LoopsOfTurn, TurnInvariant
  <1>6. Witnessed(n, rows) /\ Retrieved(n) /\ Prompted(n, rows)
    BY <1>3 DEF Witnessed, Retrieved, Prompted, Deleted, Retrievable
  <1>7. Judged(n, rows)
    BY <1>1, <1>3 DEF Judged, TurnInvariant
  <1>8. TurnInvariant(n, rows)
    BY <1>4, <1>5, <1>6, <1>7 DEF TurnInvariant
  <1> QED
    BY <1>2, <1>8, BecomesKeeps

LEMMA RetrieveKeeps ==
  ASSUME GatewayInvariant, NEW c \in Turns, Retrieve(c)
  PROVE  GatewayInvariant'
  <1>1. PICK mode \in {"hybrid", "fallback"}, found \in SUBSET Retrievable(rows) :
          Becomes(c, [turn[c] EXCEPT !.pc = "retrieved", !.mode = mode,
                                     !.view = [i \in found |-> rows[i]]])
    BY DEF Retrieve
  <1> DEFINE t == turn[c]
             view == [i \in found |-> rows[i]]
             n == [t EXCEPT !.pc = "retrieved", !.mode = mode, !.view = view]
  <1>2. TurnInvariant(t, rows) /\ t \in TurnRecord /\ t.pc = "reading"
    BY DEF GatewayInvariant, TurnInvariant, Retrieve
  <1>3. Becomes(c, n)
    BY <1>1
  <1>4. \A i \in found : i \in Ids /\ rows[i] \in RowRecord /\ rows[i].parents = OriginOf(i)
    BY DEF Active, Retrievable, GatewayInvariant, RowsInvariant, NoRow
  <1>5. found \in SUBSET Ids /\ view \in [found -> RowRecord]
    BY <1>4
  <1>6. view \in Views /\ DOMAIN view = found /\ \A i \in found : view[i].parents = OriginOf(i)
    BY <1>4, <1>5 DEF Views
  <1> HIDE DEF t, view
  <1>7. /\ n.pc = "retrieved" /\ n.view = view /\ n.read = t.read /\ n.write = t.write
        /\ n.deleted = t.deleted /\ n.inactive = t.inactive /\ n.gone = t.gone
        /\ n.candidates = t.candidates /\ n.outcomes = t.outcomes
    BY <1>2 DEF TurnRecord
  <1>8. n \in TurnRecord
    BY <1>2, <1>6 DEF TurnRecord
  <1> HIDE DEF n
  <1>9. LoopsOfTurn(n)
    BY <1>2, <1>7 DEF LoopsOfTurn, TurnInvariant
  <1>10. Witnessed(n, rows) /\ Prompted(n, rows)
    BY <1>2, <1>7 DEF Witnessed, Prompted, TurnInvariant
  <1>11. Retrieved(n)
    BY <1>2, <1>5, <1>6, <1>7 DEF Retrieved, Witnessed, TurnInvariant
  <1>12. Judged(n, rows)
    BY <1>2, <1>7 DEF Judged, TurnInvariant
  <1>13. TurnInvariant(n, rows)
    BY <1>8, <1>9, <1>10, <1>11, <1>12 DEF TurnInvariant
  <1> QED
    BY <1>3, <1>13, BecomesKeeps DEF t

\* Whatever prompt is composed, its turn answers with its read run completed.
LEMMA ComposeAsKeeps ==
  ASSUME GatewayInvariant, NEW c \in Turns, turn[c].pc \in {"reading", "retrieved"},
         NEW mode, NEW prompt \in SUBSET Ids, ComposeAs(c, mode, prompt),
         \A i \in prompt : i \notin turn[c].inactive /\ (i = 2 => 1 \notin turn[c].gone)
  PROVE  GatewayInvariant'
  <1>1. PICK compressionFailed \in {FALSE} \cup {prompt # {}} :
          LET degraded == mode = "fallback" \/ compressionFailed IN
          Becomes(c, [turn[c] EXCEPT !.pc = "answering", !.mode = "none",
                        !.degraded = degraded, !.view = <<>>, !.prompt = prompt,
                        !.read = Complete(Emit(@, ReadStates(degraded)),
                                          IF degraded THEN "safe_degraded" ELSE "completed")])
    BY DEF ComposeAs
  <1>2. PICK degraded \in BOOLEAN : degraded = (mode = "fallback" \/ compressionFailed)
    OBVIOUS
  <1> DEFINE t == turn[c]
             n == [t EXCEPT !.pc = "answering", !.mode = "none", !.degraded = degraded,
                            !.view = <<>>, !.prompt = prompt, !.read = ReadEnd(degraded)]
  <1>3. TurnInvariant(t, rows) /\ t \in TurnRecord /\ t.pc \in {"reading", "retrieved"}
    BY DEF GatewayInvariant, TurnInvariant
  <1>4. t.read = Running("policy_checked") /\ t.write = NoLoop
    BY <1>3 DEF TurnInvariant, LoopsOfTurn
  <1>5. Complete(Emit(t.read, ReadStates(degraded)),
                 IF degraded THEN "safe_degraded" ELSE "completed") = ReadEnd(degraded)
    BY <1>4, EmitFacts, CompleteFacts
  <1>6. Becomes(c, n)
    BY <1>1, <1>2, <1>5
  <1>7. \A i \in prompt : i \notin t.inactive /\ (i = 2 => 1 \notin t.gone)
    OBVIOUS
  <1> HIDE DEF t
  <1>8. /\ n.pc = "answering" /\ n.degraded = degraded /\ n.prompt = prompt
        /\ n.read = ReadEnd(degraded) /\ n.write = t.write
        /\ n.deleted = t.deleted /\ n.inactive = t.inactive /\ n.gone = t.gone
        /\ n.candidates = t.candidates /\ n.outcomes = t.outcomes
    BY <1>3 DEF TurnRecord
  <1>9. n \in TurnRecord
    BY <1>3, LoopFacts DEF TurnRecord, Views
  <1> HIDE DEF n
  <1>10. LoopsOfTurn(n)
    BY <1>4, <1>8 DEF LoopsOfTurn
  <1>11. Witnessed(n, rows) /\ Retrieved(n)
    BY <1>3, <1>8 DEF Witnessed, Retrieved, TurnInvariant
  <1>12. Prompted(n, rows)
    BY <1>7, <1>8 DEF Prompted
  <1>13. Judged(n, rows)
    BY <1>3, <1>8 DEF Judged, TurnInvariant
  <1>14. TurnInvariant(n, rows)
    BY <1>9, <1>10, <1>11, <1>12, <1>13 DEF TurnInvariant
  <1> QED
    BY <1>6, <1>14, BecomesKeeps DEF t

LEMMA ReadFailsKeeps ==
  ASSUME GatewayInvariant, NEW c \in Turns, ReadFails(c)
  PROVE  GatewayInvariant'
  BY ComposeAsKeeps DEF ReadFails

\* The rows as the gates see them have the lineages of the rows.
LEMMA LiveLineage ==
  ASSUME RowsInvariant(rows), NEW live,
         live = [j \in Ids |-> IF rows[j] = NoRow THEN NoRow ELSE AsGated(rows[j])]
  PROVE  /\ Lineage(live, 1)
         /\ \A j \in Ids : IsTombstoned(live[j]) <=> rows[j] = NoRow \/ IsTombstoned(rows[j])
  <1>1. \A j \in Ids : rows[j] # NoRow =>
          /\ live[j].parents = OriginOf(j) /\ live[j].status = rows[j].status
          /\ live[j].tombstoned = rows[j].tombstoned
          /\ live[j].status # "none"
    BY DEF RowsInvariant, AsGated, RowRecord, NoRow
  <1>2. \A j \in Ids : OriginOf(j) \in Seq(Ids) /\ Len(OriginOf(j)) <= 1
    BY TurnAssumption DEF OriginOf
  <1>3. NoRow.parents = <<>> /\ NoRow.status = "none" /\ NoRow.tombstoned = TRUE
    BY DEF NoRow
  <1>4. Lineage(live, 1)
    <2>1. \A j \in Ids : live[j].parents = OriginOf(j) \/ live[j].parents = <<>>
      BY <1>1, <1>3
    <2>2. <<>> \in Seq(Ids) /\ Len(<<>>) <= 1
      OBVIOUS
    <2> QED
      BY <1>2, <2>1, <2>2 DEF Lineage
  <1>5. ASSUME NEW j \in Ids
        PROVE  IsTombstoned(live[j]) <=> rows[j] = NoRow \/ IsTombstoned(rows[j])
    <2>1. CASE rows[j] = NoRow
      BY <2>1, <1>3 DEF IsTombstoned
    <2>2. CASE rows[j] # NoRow
      <3>1. live[j] # NoRow
        BY <1>1, <1>3, <2>2
      <3> QED
        BY <1>1, <2>2, <3>1 DEF IsTombstoned
    <2> QED
      BY <2>1, <2>2
  <1> QED
    BY <1>4, <1>5

\* What the admission gate lets in was not inactive, nor its origin deleted, all along.
LEMMA AdmittedIsRemembered ==
  ASSUME GatewayInvariant, NEW c \in Turns, turn[c].pc = "retrieved", NEW audience,
         NEW i \in Admitted(turn[c].view, audience)
  PROVE  i \in Ids /\ i \notin turn[c].inactive /\ (i = 2 => 1 \notin turn[c].gone)
  <1> DEFINE t == turn[c]
             row == AsGated(t.view[i])
  <1>1. TurnInvariant(t, rows) /\ RowsInvariant(rows)
    BY DEF GatewayInvariant
  <1>2. PICK live : live = [j \in Ids |-> IF rows[j] = NoRow THEN NoRow ELSE AsGated(rows[j])]
    OBVIOUS
  <1>3. i \in DOMAIN t.view /\ Decide(live, row, TRUE, 1, {}, FALSE) = "ALLOW"
    BY <1>2 DEF Admitted
  <1>4. i \in Ids /\ i \notin t.inactive /\ t.view[i].parents = OriginOf(i)
    BY <1>1, <1>3 DEF TurnInvariant, Retrieved
  <1>5. ASSUME i = 2 PROVE 1 \notin t.gone
    <2>1. row.parents = <<1>>
      BY <1>4, <1>5 DEF AsGated, OriginOf
    <2>2. AncestryTombstone(live, row) = Clean
      BY <1>3, <2>1 DEF Decide, IsDerived
    <2>3. <<1>> \in Seq(Ids) /\ Len(<<1>>) = 1 /\ <<1>>[1] = 1
      BY TurnAssumption
    <2>4. PICK T \in SUBSET Ids : Within(row.parents, T) /\ ClosedLineage(live, T, {})
      BY <1>1, <1>2, <2>1, <2>2, <2>3, LiveLineage, AncestryFailsClosed
    <2>5. 1 \in T
      BY <2>1, <2>3, <2>4 DEF Within
    <2>6. ~IsTombstoned(live[1])
      BY <2>4, <2>5 DEF ClosedLineage
    <2>7. ~IsTombstoned(rows[1])
      BY <1>1, <1>2, <2>6, LiveLineage, TurnAssumption
    <2>8. t.gone \subseteq Gone(rows)
      BY <1>1 DEF TurnInvariant, Witnessed
    <2> QED
      BY <2>7, <2>8 DEF Gone
  <1> QED
    BY <1>4, <1>5

LEMMA ComposeKeeps ==
  ASSUME GatewayInvariant, NEW c \in Turns, Compose(c)
  PROVE  GatewayInvariant'
  <1>1. PICK audience \in {"private", "public"} :
          ComposeAs(c, turn[c].mode, Admitted(turn[c].view, audience))
    BY DEF Compose
  <1>2. PICK prompt : prompt = Admitted(turn[c].view, audience)
    OBVIOUS
  <1>3. turn[c].pc = "retrieved"
    BY DEF Compose
  <1>4. \A i \in prompt : i \in Ids /\ i \notin turn[c].inactive /\ (i = 2 => 1 \notin turn[c].gone)
    BY <1>2, <1>3, AdmittedIsRemembered
  <1> QED
    BY <1>1, <1>2, <1>3, <1>4, ComposeAsKeeps

LEMMA AnswerKeeps ==
  ASSUME GatewayInvariant, NEW c \in Turns, Answer(c)
  PROVE  GatewayInvariant'
  <1>1. PICK candidates \in Extractions :
          Becomes(c, [turn[c] EXCEPT !.pc = "evaluating", !.candidates = candidates, !.k = 0,
                        !.write = Emit(LoopRun, <<"observed", "classified">>),
                        !.prompt = {}, !.deleted = {}, !.inactive = {}, !.gone = {}])
    BY DEF Answer
  <1> DEFINE t == turn[c]
             n == [t EXCEPT !.pc = "evaluating", !.candidates = candidates, !.k = 0,
                            !.write = Running("classified"),
                            !.prompt = {}, !.deleted = {}, !.inactive = {}, !.gone = {}]
  <1>2. TurnInvariant(t, rows) /\ t \in TurnRecord /\ t.pc = "answering"
    BY DEF GatewayInvariant, TurnInvariant, Answer
  <1>3. Becomes(c, n)
    BY <1>1, EmitFacts
  <1>4. candidates \in Seq(Texts)
    BY TurnAssumption
  <1> HIDE DEF t
  <1>5. /\ n.pc = "evaluating" /\ n.read = t.read /\ n.write = Running("classified")
        /\ n.degraded = t.degraded /\ n.candidates = candidates /\ n.outcomes = t.outcomes
        /\ n.k = 0
    BY <1>2 DEF TurnRecord
  <1>6. n \in TurnRecord
    BY <1>2, <1>4, LoopFacts DEF TurnRecord
  <1> HIDE DEF n
  <1>7. LoopsOfTurn(n)
    BY <1>2, <1>5 DEF LoopsOfTurn, TurnInvariant
  <1>8. Witnessed(n, rows) /\ Retrieved(n) /\ Prompted(n, rows)
    BY <1>5 DEF Witnessed, Retrieved, Prompted
  <1>9. Judged(n, rows)
    <2>1. t.outcomes = <<>>
      BY <1>2 DEF Judged, TurnInvariant
    <2> QED
      BY <1>4, <1>5, <2>1 DEF Judged
  <1>10. TurnInvariant(n, rows)
    BY <1>6, <1>7, <1>8, <1>9 DEF TurnInvariant
  <1> QED
    BY <1>3, <1>10, BecomesKeeps DEF t

LEMMA EvaluatedStands ==
  ASSUME RowsInvariant(rows), Room, NEW text \in Texts, NEW o \in Evaluated(text)
  PROVE  o \in Verdicts /\ Stands(o, text, rows)
  <1> DEFINE n == NextId(rows)
  <1>1. n \in Nat /\ \A i \in Ids : i < n => rows[i] # NoRow
    BY NextIdIsFree DEF Room
  <1> HIDE DEF n
  <1>2. CASE o = [decision |-> "BLOCK", id |-> 0, since |-> 0]
    BY <1>2 DEF Verdicts, Stands
  <1>3. CASE o \in [decision : {"UPDATE_EXISTING"}, id : Similar(text), since : {0}]
    <2>1. o.decision = "UPDATE_EXISTING" /\ o.id \in Similar(text) /\ o.since = 0
      BY <1>3
    <2>2. o.id \in Ids /\ rows[o.id] # NoRow
      BY <2>1 DEF Similar, Active, NoRow
    <2>3. o.id \in Nat
      BY <2>2, TurnAssumption
    <2>4. o \in Verdicts
      BY <1>3, <2>1, <2>3 DEF Verdicts
    <2> QED
      BY <2>1, <2>2, <2>4 DEF Stands
  <1>4. CASE o = [decision |-> "DROP_LOW_UTILITY", id |-> 0, since |-> 0]
    BY <1>4 DEF Verdicts, Stands
  <1>5. ASSUME NEW d \in {"PENDING_APPROVAL", "SAVE"}, o = [decision |-> d, id |-> 0, since |-> n],
               Similar(text) = {}
        PROVE  o \in Verdicts /\ Stands(o, text, rows)
    <2>1. o \in Verdicts /\ o.decision = d /\ o.since = n
      BY <1>1, <1>5 DEF Verdicts
    <2>2. Settled(rows, n, text)
      BY <1>1, <1>5 DEF Settled, Similar, Active
    <2> QED
      BY <2>1, <2>2, <1>5 DEF Stands
  <1>6. \/ o = [decision |-> "BLOCK", id |-> 0, since |-> 0]
        \/ o \in [decision : {"UPDATE_EXISTING"}, id : Similar(text), since : {0}]
        \/ o = [decision |-> "DROP_LOW_UTILITY", id |-> 0, since |-> 0]
        \/ /\ Similar(text) = {}
           /\ \E d \in {"PENDING_APPROVAL", "SAVE"} : o = [decision |-> d, id |-> 0, since |-> n]
    BY DEF Evaluated, n
  <1> QED
    BY <1>2, <1>3, <1>4, <1>5, <1>6

\* The last evaluation emits POLICY_CHECKED; what was judged stays judged.
LEMMA CheckedKeeps ==
  ASSUME NEW t, NEW rs, TurnInvariant(t, rs), t.pc = "evaluating"
  PROVE  TurnInvariant(Checked(t), rs)
  <1>1. CASE t.k < Len(t.candidates)
    BY <1>1 DEF Checked
  <1>2. CASE ~(t.k < Len(t.candidates))
    <2> DEFINE n == [t EXCEPT !.pc = "committing", !.k = 0, !.write = Running("policy_checked")]
    <2>1. t \in TurnRecord /\ t.write = Running("classified")
      BY DEF TurnInvariant, LoopsOfTurn
    <2>2. Checked(t) = n
      BY <1>2, <2>1, EmitFacts DEF Checked
    <2>3. /\ n.pc = "committing" /\ n.read = t.read /\ n.write = Running("policy_checked")
          /\ n.degraded = t.degraded /\ n.candidates = t.candidates /\ n.outcomes = t.outcomes
      BY <2>1 DEF TurnRecord
    <2>4. n \in TurnRecord
      BY <2>1, LoopFacts DEF TurnRecord
    <2> HIDE DEF n
    <2>5. LoopsOfTurn(n)
      BY <2>3 DEF LoopsOfTurn, TurnInvariant
    <2>6. Witnessed(n, rs) /\ Retrieved(n) /\ Prompted(n, rs)
      BY <2>3 DEF Witnessed, Retrieved, Prompted
    <2>7. Judged(n, rs)
      BY <2>3 DEF Judged, TurnInvariant
    <2> QED
      BY <2>2, <2>4, <2>5, <2>6, <2>7 DEF TurnInvariant
  <1> QED
    BY <1>1, <1>2

LEMMA EvaluateCandidateKeeps ==
  ASSUME GatewayInvariant, NEW c \in Turns, EvaluateCandidate(c)
  PROVE  GatewayInvariant'
  <1> DEFINE t == turn[c]
  <1>1. PICK o \in Evaluated(t.candidates[t.k + 1]) :
          Becomes(c, Checked([t EXCEPT !.k = @ + 1, !.outcomes = Append(@, o)]))
    BY DEF EvaluateCandidate
  <1>2. TurnInvariant(t, rows) /\ t \in TurnRecord /\ t.pc = "evaluating" /\ t.k < Len(t.candidates)
    BY DEF GatewayInvariant, TurnInvariant, EvaluateCandidate
  <1>3. PICK k \in Nat, candidates \in Seq(Texts), outcomes \in Seq(Verdicts) :
          k = t.k /\ candidates = t.candidates /\ outcomes = t.outcomes
    BY <1>2 DEF TurnRecord
  <1>4. /\ k = Len(outcomes) /\ k < Len(candidates)
        /\ \A m \in 1..k : Stands(outcomes[m], candidates[m], rows)
    BY <1>2, <1>3 DEF TurnInvariant, Judged
  <1>5. candidates[k + 1] \in Texts
    BY <1>4
  <1>6. o \in Verdicts /\ Stands(o, candidates[k + 1], rows)
    BY <1>1, <1>3, <1>5, EvaluatedStands DEF EvaluateCandidate, GatewayInvariant
  <1>7. PICK more : more = Append(outcomes, o)
    OBVIOUS
  <1>8. more \in Seq(Verdicts)
    BY <1>6, <1>7, AppendProperties
  <1>9. /\ Len(more) = k + 1
        /\ \A m \in 1..k + 1 : Stands(more[m], candidates[m], rows)
    BY <1>4, <1>6, <1>7
  <1> DEFINE next == k + 1
             n == [t EXCEPT !.k = next, !.outcomes = more]
  <1>10. Becomes(c, Checked(n))
    BY <1>1, <1>3, <1>7
  <1> HIDE DEF t
  <1>11. /\ n.pc = "evaluating" /\ n.read = t.read /\ n.write = t.write
         /\ n.degraded = t.degraded /\ n.candidates = candidates /\ n.outcomes = more
         /\ n.k = k + 1
    BY <1>2, <1>3 DEF TurnRecord
  <1>12. n \in TurnRecord
    <2>1. next \in Nat
      OBVIOUS
    <2> HIDE DEF next
    <2> QED
      BY <1>2, <1>8, <2>1 DEF TurnRecord
  <1> HIDE DEF n
  <1>13. LoopsOfTurn(n)
    BY <1>2, <1>11 DEF LoopsOfTurn, TurnInvariant
  <1>14. Witnessed(n, rows) /\ Retrieved(n) /\ Prompted(n, rows)
    BY <1>11 DEF Witnessed, Retrieved, Prompted
  <1>15. Judged(n, rows)
    BY <1>4, <1>9, <1>11 DEF Judged
  <1>16. TurnInvariant(n, rows)
    BY <1>12, <1>13, <1>14, <1>15 DEF TurnInvariant
  <1>17. TurnInvariant(Checked(n), rows)
    BY <1>11, <1>16, CheckedKeeps
  <1> QED
    BY <1>10, <1>17, BecomesKeeps

LEMMA NothingToCheckKeeps ==
  ASSUME GatewayInvariant, NEW c \in Turns, NothingToCheck(c)
  PROVE  GatewayInvariant'
  <1>1. TurnInvariant(turn[c], rows)
    BY DEF GatewayInvariant
  <1> QED
    BY <1>1, CheckedKeeps, BecomesKeeps DEF NothingToCheck

LEMMA FinishTurnKeeps ==
  ASSUME GatewayInvariant, NEW c \in Turns, FinishTurn(c)
  PROVE  GatewayInvariant'
  <1> DEFINE t == turn[c]
             n == [t EXCEPT !.write = ReadEnd(FALSE)]
  <1>1. TurnInvariant(t, rows) /\ t \in TurnRecord /\ t.pc = "committing"
    BY DEF GatewayInvariant, TurnInvariant, FinishTurn
  <1>2. t.read = ReadEnd(t.degraded) /\ t.write = Running("policy_checked")
    BY <1>1 DEF TurnInvariant, LoopsOfTurn
  <1>3. Becomes(c, Ended(n, "done"))
    BY <1>2, EmitFacts, CompleteFacts DEF FinishTurn
  <1> HIDE DEF t
  <1>4. n.read = ReadEnd(n.degraded) /\ n.write = ReadEnd(FALSE)
    BY <1>1, <1>2 DEF TurnRecord
  <1>5. n \in TurnRecord
    BY <1>1, LoopFacts DEF TurnRecord
  <1> HIDE DEF n
  <1>6. /\ Ended(n, "done").pc = "done" /\ Ended(n, "done").read = n.read
        /\ Ended(n, "done").write = n.write /\ Ended(n, "done").degraded = n.degraded
    BY DEF Ended, NoTurn
  <1>7. LoopsOfTurn(Ended(n, "done"))
    BY <1>4, <1>6 DEF LoopsOfTurn
  <1> QED
    BY <1>3, <1>5, <1>7, EndedKeeps, BecomesKeeps

LEMMA TurnRaisesKeeps ==
  ASSUME GatewayInvariant, NEW c \in Turns, TurnRaises(c)
  PROVE  GatewayInvariant'
  <1> DEFINE t == turn[c]
  <1>1. /\ TurnInvariant(t, rows) /\ t \in TurnRecord
        /\ t.pc \in {"reading", "answering", "evaluating", "committing"}
    BY DEF GatewayInvariant, TurnInvariant, TurnRaises
  <1>2. Becomes(c, Ended(t, "raised"))
    BY DEF TurnRaises
  <1> HIDE DEF t
  <1>3. /\ Ended(t, "raised").pc = "raised" /\ Ended(t, "raised").read = t.read
        /\ Ended(t, "raised").write = t.write /\ Ended(t, "raised").degraded = t.degraded
    BY DEF Ended, NoTurn
  <1>4. LoopsOfTurn(Ended(t, "raised"))
    BY <1>1, <1>3 DEF LoopsOfTurn, TurnInvariant
  <1> QED
    BY <1>1, <1>2, <1>4, EndedKeeps, BecomesKeeps

-----------------------------------------------------------------------------
(* The rows.                                                                *)

\* A new row takes an id nobody had.
LEMMA NewRowKeeps ==
  ASSUME NEW rs, RowsInvariant(rs), NEW n \in Ids, rs[n] = NoRow,
         NEW r \in RowRecord, r.parents = <<>>, Settled(rs, r.since, r.text),
         NEW ns, ns = [rs EXCEPT ![n] = r]
  PROVE  Evolves(rs, ns) /\ RowsInvariant(ns)
  <1>1. rs \in [Ids -> RowRecord \cup {NoRow}] /\ rs[1] # NoRow /\ rs[2] # NoRow
    BY DEF RowsInvariant
  <1>2. /\ ns \in [Ids -> RowRecord \cup {NoRow}] /\ ns[n] = r
        /\ \A i \in Ids : i # n => ns[i] = rs[i]
    BY <1>1
  <1>3. n # 1 /\ n # 2
    BY <1>1
  <1>4. r # NoRow
    BY DEF RowRecord, NoRow
  <1>5. Evolves(rs, ns)
    BY <1>2 DEF Evolves
  <1>6. ns[1] # NoRow /\ ns[2] # NoRow
    BY <1>1, <1>2, <1>3, TurnAssumption
  <1>7. ASSUME NEW i \in Ids, ns[i] # NoRow
        PROVE  /\ ns[i].parents = OriginOf(i)
               /\ ~ns[i].patched => Settled(ns, ns[i].since, ns[i].text)
    <2>1. CASE i = n
      BY <1>2, <1>3, <1>5, <2>1, SettledStays DEF OriginOf
    <2>2. CASE i # n
      <3>1. rs[i] # NoRow /\ ns[i] = rs[i]
        BY <1>2, <1>7, <2>2
      <3>2. rs[i].parents = OriginOf(i) /\ (~rs[i].patched => Settled(rs, rs[i].since, rs[i].text))
        BY <3>1 DEF RowsInvariant
      <3> QED
        BY <1>5, <3>1, <3>2, SettledStays
    <2> QED
      BY <2>1, <2>2
  <1> QED
    BY <1>2, <1>5, <1>6, <1>7 DEF RowsInvariant

\* A row may change in its counters, or in anything once it is marked as edited.
LEMMA ChangedRowKeeps ==
  ASSUME NEW rs, RowsInvariant(rs), NEW n \in Ids, rs[n] # NoRow,
         NEW r \in RowRecord, r.parents = OriginOf(n),
         ~r.patched => /\ ~rs[n].patched /\ r.text = rs[n].text /\ r.since = rs[n].since
                       /\ r.status = "active" => rs[n].status = "active",
         rs[n].deleted => r.deleted,
         NEW ns, ns = [rs EXCEPT ![n] = r]
  PROVE  Evolves(rs, ns) /\ RowsInvariant(ns)
  <1>1. rs \in [Ids -> RowRecord \cup {NoRow}] /\ rs[1] # NoRow /\ rs[2] # NoRow
    BY DEF RowsInvariant
  <1>2. /\ ns \in [Ids -> RowRecord \cup {NoRow}] /\ ns[n] = r
        /\ \A i \in Ids : i # n => ns[i] = rs[i]
    BY <1>1
  <1>3. r # NoRow
    BY DEF RowRecord, NoRow
  <1>4. Evolves(rs, ns)
    BY <1>2, <1>3 DEF Evolves
  <1>5. ns[1] # NoRow /\ ns[2] # NoRow
    BY <1>1, <1>4, TurnAssumption DEF Evolves
  <1>6. ASSUME NEW i \in Ids, ns[i] # NoRow
        PROVE  /\ ns[i].parents = OriginOf(i)
               /\ ~ns[i].patched => Settled(ns, ns[i].since, ns[i].text)
    <2>1. rs[i] # NoRow
      BY <1>2, <1>6
    <2>2. rs[i].parents = OriginOf(i) /\ (~rs[i].patched => Settled(rs, rs[i].since, rs[i].text))
      BY <2>1 DEF RowsInvariant
    <2>3. ns[i].parents = OriginOf(i)
      BY <1>2, <2>2
    <2>4. ASSUME ~ns[i].patched PROVE Settled(ns, ns[i].since, ns[i].text)
      <3>1. ~rs[i].patched /\ ns[i].text = rs[i].text /\ ns[i].since = rs[i].since
        BY <1>4, <2>1, <2>4 DEF Evolves
      <3> QED
        BY <1>4, <2>2, <3>1, SettledStays
    <2> QED
      BY <2>3, <2>4
  <1> QED
    BY <1>2, <1>4, <1>5, <1>6 DEF RowsInvariant

\* A verdict of this turn, carried out whenever.
LEMMA CommittedKeeps ==
  ASSUME RowsInvariant(rows), Room, NEW o \in Verdicts, NEW text \in Texts, Stands(o, text, rows)
  PROVE  Evolves(rows, Committed(o, text)) /\ RowsInvariant(Committed(o, text))
  <1> DEFINE n == NextId(rows)
  <1>1. n \in Ids /\ rows[n] = NoRow
    BY NextIdIsFree DEF Room
  <1> HIDE DEF n
  <1>2. ASSUME NEW s \in {"active", "pending"}, o.decision \in {"SAVE", "PENDING_APPROVAL"},
               NEW ns, ns = [rows EXCEPT ![n] = Row(s, text, <<>>, FALSE, o.since)]
        PROVE  Evolves(rows, ns) /\ RowsInvariant(ns)
    <2>1. o.since \in Nat /\ Settled(rows, o.since, text)
      BY <1>2 DEF Verdicts, Stands
    <2>2. PICK r : r = Row(s, text, <<>>, FALSE, o.since)
      OBVIOUS
    <2>3. r \in RowRecord /\ r.parents = <<>> /\ r.since = o.since /\ r.text = text
      BY <2>1, <2>2 DEF Row, RowRecord
    <2>4. Settled(rows, r.since, r.text) /\ ns = [rows EXCEPT ![n] = r]
      BY <1>2, <2>1, <2>2, <2>3
    <2> QED
      BY <1>1, <2>3, <2>4, NewRowKeeps
  <1>3. CASE o.decision = "SAVE"
    <2>1. Committed(o, text) = [rows EXCEPT ![n] = Row("active", text, <<>>, FALSE, o.since)]
      BY <1>3 DEF Committed, n
    <2> QED
      BY <1>2, <1>3, <2>1
  <1>4. CASE o.decision = "PENDING_APPROVAL"
    <2>1. Committed(o, text) = [rows EXCEPT ![n] = Row("pending", text, <<>>, FALSE, o.since)]
      BY <1>4 DEF Committed, n
    <2> QED
      BY <1>2, <1>4, <2>1
  <1>5. CASE o.decision = "UPDATE_EXISTING"
    <2>1. PICK i : i = o.id
      OBVIOUS
    <2>2. i \in Ids /\ rows[i] # NoRow
      BY <1>5, <2>1 DEF Stands
    <2>3. rows[i] \in RowRecord /\ rows[i].parents = OriginOf(i)
      BY <2>2 DEF RowsInvariant
    <2>4. PICK r : r = [rows[i] EXCEPT !.rev = @ + 1]
      OBVIOUS
    <2>5. /\ r \in RowRecord /\ r.parents = rows[i].parents /\ r.patched = rows[i].patched
          /\ r.text = rows[i].text /\ r.since = rows[i].since /\ r.status = rows[i].status
          /\ r.deleted = rows[i].deleted
      BY <2>3, <2>4 DEF RowRecord
    <2>6. Committed(o, text) = [rows EXCEPT ![i] = r]
      BY <1>5, <2>1, <2>2, <2>4 DEF Committed, RowsInvariant
    <2>7. /\ r.parents = OriginOf(i)
          /\ ~r.patched => /\ ~rows[i].patched /\ r.text = rows[i].text /\ r.since = rows[i].since
                           /\ r.status = "active" => rows[i].status = "active"
      BY <2>3, <2>5
    <2> QED
      BY <2>2, <2>5, <2>6, <2>7, ChangedRowKeeps
  <1>6. CASE o.decision \notin {"SAVE", "PENDING_APPROVAL", "UPDATE_EXISTING"}
    <2>1. Committed(o, text) = rows
      BY <1>6 DEF Committed
    <2> QED
      BY <2>1 DEF Evolves
  <1> QED
    BY <1>3, <1>4, <1>5, <1>6

-----------------------------------------------------------------------------
(* The requests.                                                            *)

LEMMA RequestStays ==
  ASSUME NEW rs, NEW ns, Evolves(rs, ns), NEW r, RequestInvariant(r, rs)
  PROVE  RequestInvariant(r, ns)
  BY DEF RequestInvariant, Evolves

\* No request dies of its own loop.
LEMMA RequestLands ==
  ASSUME NEW g \in Owners, NEW r \in RequestRecord, Request(g, r)
  PROVE  gov' = [gov EXCEPT ![g] = r]
  BY DEF Request, RequestRecord, Loops

LEMMA RequestKeeps ==
  ASSUME GatewayInvariant, NEW g \in Owners, NEW r, RequestInvariant(r, rows), Request(g, r),
         UNCHANGED <<rows, turn>>
  PROVE  GatewayInvariant'
  <1>1. r \in RequestRecord /\ gov' = [gov EXCEPT ![g] = r]
    BY RequestLands DEF RequestInvariant
  <1>2. gov' \in [Owners -> RequestRecord]
    BY <1>1 DEF GatewayInvariant
  <1>3. ASSUME NEW h \in Owners PROVE RequestInvariant(gov'[h], rows)
    <2>1. CASE h = g
      BY <1>1, <2>1 DEF GatewayInvariant
    <2>2. CASE h # g
      BY <1>1, <2>2 DEF GatewayInvariant
    <2> QED
      BY <2>1, <2>2
  <1> QED
    BY <1>2, <1>3 DEF GatewayInvariant

\* A request that ends keeps its loop run.
LEMMA ClosedKeeps ==
  ASSUME NEW r \in RequestRecord, NEW pc \in {"done", "refused", "raised"}, NEW rs,
         LoopOfRequest(Closed(r, pc))
  PROVE  RequestInvariant(Closed(r, pc), rs)
  <1>1. Closed(r, pc) \in RequestRecord /\ Closed(r, pc).pc = pc
    <2>1. NoRequest \in RequestRecord
      BY LoopFacts DEF NoRequest, RequestRecord
    <2> QED
      BY <2>1 DEF Closed, RequestRecord
  <1> QED
    BY <1>1 DEF RequestInvariant

LEMMA ClosedFacts ==
  ASSUME NEW r, NEW pc
  PROVE  Closed(r, pc).pc = pc /\ Closed(r, pc).op = r.op /\ Closed(r, pc).loop = r.loop
  BY DEF Closed, NoRequest

\* The rows, the turns and the requests after a store.
LEMMA StoreKeeps ==
  ASSUME GatewayInvariant, Evolves(rows, rows'), RowsInvariant(rows'),
         turn' \in [Turns -> TurnRecord], \A c \in Turns : TurnInvariant(turn'[c], rows'),
         \/ UNCHANGED gov
         \/ \E g \in Owners : \E r : gov' = [gov EXCEPT ![g] = r] /\ RequestInvariant(r, rows')
  PROVE  GatewayInvariant'
  <1>1. ASSUME NEW h \in Owners PROVE RequestInvariant(gov[h], rows')
    BY <1>1, RequestStays DEF GatewayInvariant
  <1>2. gov' \in [Owners -> RequestRecord] /\ \A h \in Owners : RequestInvariant(gov'[h], rows')
    <2>1. CASE UNCHANGED gov
      BY <1>1, <2>1 DEF GatewayInvariant
    <2>2. ASSUME NEW g \in Owners, NEW r, gov' = [gov EXCEPT ![g] = r], RequestInvariant(r, rows')
          PROVE  gov' \in [Owners -> RequestRecord] /\ \A h \in Owners : RequestInvariant(gov'[h], rows')
      <3>1. r \in RequestRecord /\ gov \in [Owners -> RequestRecord]
        BY <2>2 DEF RequestInvariant, GatewayInvariant
      <3>2. \A h \in Owners : gov'[h] = IF h = g THEN r ELSE gov[h]
        BY <2>2, <3>1
      <3> QED
        BY <1>1, <2>2, <3>1, <3>2
    <2> QED
      BY <2>1, <2>2
  <1> QED
    BY <1>2 DEF GatewayInvariant

LEMMA CommitOutcomeKeeps ==
  ASSUME GatewayInvariant, NEW c \in Turns, CommitOutcome(c)
  PROVE  GatewayInvariant'
  <1> DEFINE t == turn[c]
  <1>1. TurnInvariant(t, rows) /\ t \in TurnRecord /\ t.pc = "committing" /\ t.k < Len(t.outcomes)
    BY DEF GatewayInvariant, TurnInvariant, CommitOutcome
  <1>2. PICK k \in Nat, candidates \in Seq(Texts), outcomes \in Seq(Verdicts) :
          k = t.k /\ candidates = t.candidates /\ outcomes = t.outcomes
    BY <1>1 DEF TurnRecord
  <1>3. /\ k < Len(outcomes) /\ Len(outcomes) <= Len(candidates)
        /\ \A m \in 1..Len(outcomes) : Stands(outcomes[m], candidates[m], rows)
    BY <1>1, <1>2 DEF TurnInvariant, Judged
  <1>4. k + 1 \in 1..Len(outcomes) /\ k + 1 \in 1..Len(candidates)
    BY <1>3
  <1>5. PICK o \in Verdicts, text \in Texts : o = outcomes[k + 1] /\ text = candidates[k + 1]
    BY <1>4
  <1>6. Stands(o, text, rows)
    BY <1>3, <1>4, <1>5
  <1>7. /\ rows' = Committed(o, text) /\ UNCHANGED gov
        /\ turn' = [d \in Turns |-> IF d = c THEN [t EXCEPT !.k = @ + 1] ELSE Witness(turn[d], rows')]
    BY <1>2, <1>5 DEF CommitOutcome, Store
  <1>8. Evolves(rows, rows') /\ RowsInvariant(rows')
    BY <1>5, <1>6, <1>7, CommittedKeeps DEF CommitOutcome, GatewayInvariant
  <1>9. TurnInvariant([t EXCEPT !.k = @ + 1], rows')
    <2> DEFINE next == k + 1
               n == [t EXCEPT !.k = next]
    <2>1. [t EXCEPT !.k = @ + 1] = n
      BY <1>2
    <2>2. next \in Nat
      OBVIOUS
    <2> HIDE DEF t, next
    <2>3. n \in TurnRecord
      BY <1>1, <2>2 DEF TurnRecord
    <2>4. /\ n.pc = "committing" /\ n.read = t.read /\ n.write = t.write /\ n.degraded = t.degraded
          /\ n.candidates = candidates /\ n.outcomes = outcomes
      BY <1>1, <1>2 DEF TurnRecord
    <2> HIDE DEF n
    <2>5. LoopsOfTurn(n)
      BY <1>1, <2>4 DEF LoopsOfTurn, TurnInvariant
    <2>6. Witnessed(n, rows') /\ Retrieved(n) /\ Prompted(n, rows')
      BY <2>4 DEF Witnessed, Retrieved, Prompted
    <2>7. \A m \in 1..Len(outcomes) : Stands(outcomes[m], candidates[m], rows')
      BY <1>3, <1>8, StandsStays
    <2>8. Judged(n, rows')
      BY <1>3, <2>4, <2>7 DEF Judged
    <2>9. TurnInvariant(n, rows')
      BY <2>3, <2>5, <2>6, <2>8 DEF TurnInvariant
    <2> QED
      BY <2>9, <2>1 DEF n
  <1>10. ASSUME NEW d \in Turns PROVE TurnInvariant(turn'[d], rows')
    <2>1. CASE d = c
      BY <1>7, <1>9, <2>1
    <2>2. CASE d # c
      <3>1. TurnInvariant(turn[d], rows) /\ turn'[d] = Witness(turn[d], rows')
        BY <1>7, <2>2 DEF GatewayInvariant
      <3> QED
        BY <1>8, <3>1, WitnessKeeps
    <2> QED
      BY <2>1, <2>2
  <1>11. turn' \in [Turns -> TurnRecord]
    <2>1. \A d \in Turns : turn'[d] \in TurnRecord
      BY <1>10 DEF TurnInvariant
    <2>2. turn' = [d \in Turns |-> turn'[d]]
      BY <1>7
    <2> QED
      BY <2>1, <2>2
  <1> QED
    BY <1>7, <1>8, <1>10, <1>11, StoreKeeps

LEMMA ListMemoriesKeeps ==
  ASSUME GatewayInvariant, NEW g \in Owners, ListMemories(g)
  PROVE  GatewayInvariant'
  <1> DEFINE r == [NoRequest EXCEPT !.pc = "done", !.op = "view", !.loop = ReadEnd(FALSE)]
  <1>1. Request(g, r) /\ UNCHANGED <<rows, turn>>
    BY EmitFacts, CompleteFacts DEF ListMemories, Opened
  <1>2. r \in RequestRecord /\ r.pc = "done" /\ r.op = "view" /\ r.loop = ReadEnd(FALSE)
    <2>1. NoRequest \in RequestRecord
      BY LoopFacts DEF NoRequest, RequestRecord
    <2> QED
      BY <2>1, LoopFacts DEF RequestRecord
  <1> HIDE DEF r
  <1>3. RequestInvariant(r, rows)
    BY <1>2 DEF RequestInvariant, LoopOfRequest
  <1> QED
    BY <1>1, <1>3, RequestKeeps

LEMMA BeginDeleteKeeps ==
  ASSUME GatewayInvariant, NEW g \in Owners, BeginDelete(g)
  PROVE  GatewayInvariant'
  <1>1. PICK i \in Ids \ Free(rows) :
          LET r == [NoRequest EXCEPT !.pc = "open", !.op = "delete", !.id = i, !.loop = Opened]
          IN  Request(g, IF rows[i].held
                         THEN Closed([r EXCEPT !.loop = Emit(@, <<"failed">>)], "refused") ELSE r)
    BY DEF BeginDelete
  <1>2. UNCHANGED <<rows, turn>> /\ rows[i] # NoRow /\ i \in Nat
    BY TurnAssumption DEF BeginDelete, Free
  <1> DEFINE r == [NoRequest EXCEPT !.pc = "open", !.op = "delete", !.id = i,
                                    !.loop = Running("policy_checked")]
             q == [r EXCEPT !.loop = Running("failed")]
  <1>3. NoRequest \in RequestRecord
    BY LoopFacts DEF NoRequest, RequestRecord
  <1>4. /\ r \in RequestRecord /\ r.pc = "open" /\ r.op = "delete" /\ r.id = i
        /\ r.loop = Running("policy_checked")
    BY <1>2, <1>3, LoopFacts DEF RequestRecord
  <1>5. Emit(r.loop, <<"failed">>) = Running("failed")
    BY <1>4, EmitFacts
  <1>6. Request(g, IF rows[i].held THEN Closed(q, "refused") ELSE r)
    BY <1>1, <1>5, EmitFacts DEF Opened
  <1> HIDE DEF r
  <1>7. q \in RequestRecord /\ q.op = "delete" /\ q.loop = Running("failed")
    BY <1>4, LoopFacts DEF RequestRecord
  <1> HIDE DEF q
  <1>8. RequestInvariant(r, rows)
    BY <1>2, <1>4 DEF RequestInvariant, LoopOfRequest
  <1>9. RequestInvariant(Closed(q, "refused"), rows)
    <2>1. LoopOfRequest(Closed(q, "refused"))
      BY ZenonT(60), <1>7, ClosedFacts DEF LoopOfRequest
    <2> QED
      BY <1>7, <2>1, ClosedKeeps
  <1>10. CASE rows[i].held
    BY <1>2, <1>6, <1>9, <1>10, RequestKeeps
  <1>11. CASE ~rows[i].held
    BY <1>2, <1>6, <1>8, <1>11, RequestKeeps
  <1> QED
    BY <1>10, <1>11

LEMMA PatchedFacts ==
  ASSUME NEW r \in RowRecord, NEW n \in Patched(r)
  PROVE  n \in RowRecord /\ n.parents = r.parents
  <1>1. \/ \E t \in Texts : n = [r EXCEPT !.text = t, !.status = IF t \in Sensitive THEN "pending" ELSE @]
        \/ \E s \in {"active", "rejected", "archived"} : n = [r EXCEPT !.status = s]
    BY DEF Patched
  <1> QED
    BY <1>1 DEF RowRecord

LEMMA BeginPatchKeeps ==
  ASSUME GatewayInvariant, NEW g \in Owners, BeginPatch(g)
  PROVE  GatewayInvariant'
  <1>1. PICK i \in Ids \ Free(rows) :
          \E new \in Patched(rows[i]), rev \in {0, rows[i].rev} :
            Request(g, [pc |-> "open", op |-> "patch", id |-> i, new |-> new, rev |-> rev,
                        loop |-> Opened])
    BY DEF BeginPatch
  <1>2. PICK new \in Patched(rows[i]), rev \in {0, rows[i].rev} :
          Request(g, [pc |-> "open", op |-> "patch", id |-> i, new |-> new, rev |-> rev,
                      loop |-> Opened])
    BY <1>1
  <1>3. UNCHANGED <<rows, turn>> /\ rows[i] # NoRow /\ i \in Nat /\ i \in Ids
    BY TurnAssumption DEF BeginPatch, Free
  <1>4. rows[i] \in RowRecord /\ rows[i].parents = OriginOf(i)
    BY <1>3 DEF GatewayInvariant, RowsInvariant
  <1>5. rev \in Nat
    BY <1>4 DEF RowRecord
  <1>6. new \in RowRecord /\ new.parents = OriginOf(i)
    BY <1>4, PatchedFacts
  <1> DEFINE r == [pc |-> "open", op |-> "patch", id |-> i, new |-> new, rev |-> rev,
                   loop |-> Running("policy_checked")]
  <1>7. Request(g, r)
    BY <1>2, EmitFacts DEF Opened
  <1>8. /\ r \in RequestRecord /\ r.pc = "open" /\ r.op = "patch" /\ r.id = i /\ r.new = new
        /\ r.loop = Running("policy_checked")
    BY <1>3, <1>5, <1>6, LoopFacts DEF RequestRecord
  <1> HIDE DEF r
  <1>9. RequestInvariant(r, rows)
    BY <1>3, <1>6, <1>8 DEF RequestInvariant, LoopOfRequest
  <1> QED
    BY <1>3, <1>7, <1>9, RequestKeeps

\* A committed change: the row, the turns under way and the request.
LEMMA CommitKeeps ==
  ASSUME GatewayInvariant, NEW g \in Owners, gov[g].pc = "open", NEW new, Commit(g, new),
         NEW i \in Ids, i = gov[g].id, rows[i] # NoRow,
         NEW r \in RowRecord, r = [new EXCEPT !.rev = rows[i].rev + 1], r.parents = OriginOf(i),
         ~r.patched => /\ ~rows[i].patched /\ r.text = rows[i].text /\ r.since = rows[i].since
                       /\ r.status = "active" => rows[i].status = "active",
         rows[i].deleted => r.deleted
  PROVE  GatewayInvariant'
  <1>1. PICK q : q = [gov[g] EXCEPT !.pc = "committed", !.loop = Running("verified")]
    OBVIOUS
  <1>2. RequestInvariant(gov[g], rows) /\ RowsInvariant(rows)
    BY DEF GatewayInvariant
  <1>3. gov[g].loop = Running("policy_checked") /\ gov[g] \in RequestRecord
    BY <1>2 DEF RequestInvariant, LoopOfRequest
  <1>4. /\ rows' = [rows EXCEPT ![i] = r]
        /\ turn' = [c \in Turns |-> Witness(turn[c], rows')]
        /\ Request(g, q)
    BY <1>1, <1>3, EmitFacts DEF Commit, Store
  <1>5. Evolves(rows, rows') /\ RowsInvariant(rows')
    BY <1>2, <1>4, ChangedRowKeeps
  <1>6. ASSUME NEW c \in Turns PROVE TurnInvariant(turn'[c], rows')
    BY <1>4, <1>5, WitnessKeeps DEF GatewayInvariant
  <1>7. turn' \in [Turns -> TurnRecord]
    <2>1. \A d \in Turns : turn'[d] \in TurnRecord
      BY <1>6 DEF TurnInvariant
    <2>2. turn' = [d \in Turns |-> turn'[d]]
      BY <1>4
    <2> QED
      BY <2>1, <2>2
  <1>8. q \in RequestRecord /\ q.pc = "committed" /\ q.loop = Running("verified")
    BY <1>1, <1>3, LoopFacts DEF RequestRecord
  <1>9. RequestInvariant(q, rows')
    BY <1>8 DEF RequestInvariant, LoopOfRequest
  <1>10. gov' = [gov EXCEPT ![g] = q]
    BY <1>4, <1>8, RequestLands
  <1> QED
    BY <1>5, <1>6, <1>7, <1>9, <1>10, StoreKeeps

LEMMA CommitDeleteKeeps ==
  ASSUME GatewayInvariant, NEW g \in Owners, CommitDelete(g)
  PROVE  GatewayInvariant'
  <1>1. PICK i : i = gov[g].id
    OBVIOUS
  <1>2. i \in Ids /\ rows[i] # NoRow
    BY <1>1 DEF GatewayInvariant, RequestInvariant, CommitDelete
  <1>3. rows[i] \in RowRecord /\ rows[i].parents = OriginOf(i)
    BY <1>2 DEF GatewayInvariant, RowsInvariant
  <1>4. PICK new : new = [rows[i] EXCEPT !.status = "deleted", !.tombstoned = TRUE, !.deleted = TRUE]
    OBVIOUS
  <1>5. PICK r : r = [new EXCEPT !.rev = rows[i].rev + 1]
    OBVIOUS
  <1>6. rows[i].rev + 1 \in Nat
    BY <1>3 DEF RowRecord
  <1>7. /\ r \in RowRecord /\ r.parents = rows[i].parents /\ r.status = "deleted"
        /\ r.text = rows[i].text /\ r.since = rows[i].since /\ r.patched = rows[i].patched
        /\ r.deleted
    BY <1>3, <1>4, <1>5, <1>6 DEF RowRecord
  <1>8. Commit(g, new) /\ gov[g].pc = "open"
    BY <1>1, <1>4 DEF CommitDelete
  <1> QED
    BY <1>1, <1>2, <1>3, <1>5, <1>7, <1>8, CommitKeeps

LEMMA CommitPatchKeeps ==
  ASSUME GatewayInvariant, NEW g \in Owners, CommitPatch(g)
  PROVE  GatewayInvariant'
  <1>1. PICK i : i = gov[g].id
    OBVIOUS
  <1>2. i \in Ids /\ rows[i] # NoRow /\ gov[g].new \in RowRecord /\ gov[g].new.parents = OriginOf(i)
    BY <1>1 DEF GatewayInvariant, RequestInvariant, CommitPatch
  <1>3. rows[i] \in RowRecord
    BY <1>2 DEF GatewayInvariant, RowsInvariant
  <1>4. PICK new : new = [gov[g].new EXCEPT !.patched = TRUE, !.deleted = rows[i].deleted]
    OBVIOUS
  <1>5. PICK r : r = [new EXCEPT !.rev = rows[i].rev + 1]
    OBVIOUS
  <1>6. rows[i].rev + 1 \in Nat
    BY <1>3 DEF RowRecord
  <1>7. r \in RowRecord /\ r.parents = OriginOf(i) /\ r.patched /\ r.deleted = rows[i].deleted
    BY <1>2, <1>3, <1>4, <1>5, <1>6 DEF RowRecord
  <1>8. Commit(g, new) /\ gov[g].pc = "open"
    BY <1>1, <1>4 DEF CommitPatch
  <1> QED
    BY <1>1, <1>2, <1>5, <1>7, <1>8, CommitKeeps

LEMMA RefusePatchKeeps ==
  ASSUME GatewayInvariant, NEW g \in Owners, RefusePatch(g)
  PROVE  GatewayInvariant'
  <1>1. gov[g] \in RequestRecord /\ gov[g].loop = Running("policy_checked")
    BY DEF GatewayInvariant, RequestInvariant, LoopOfRequest, RefusePatch
  <1>2. LoopOfRequest(Closed(gov[g], "refused"))
    BY <1>1, ClosedFacts DEF LoopOfRequest
  <1> QED
    BY <1>1, <1>2, ClosedKeeps, RequestKeeps DEF RefusePatch

LEMMA FinishRequestKeeps ==
  ASSUME GatewayInvariant, NEW g \in Owners, FinishRequest(g)
  PROVE  GatewayInvariant'
  <1>1. gov[g] \in RequestRecord /\ gov[g].loop = Running("verified")
    BY DEF GatewayInvariant, RequestInvariant, LoopOfRequest, FinishRequest
  <1>2. PICK r : r = [gov[g] EXCEPT !.loop = ReadEnd(FALSE)]
    OBVIOUS
  <1>3. Request(g, Closed(r, "done")) /\ UNCHANGED <<rows, turn>>
    BY <1>1, <1>2, EmitFacts, CompleteFacts DEF FinishRequest
  <1>4. r \in RequestRecord /\ r.loop = ReadEnd(FALSE)
    BY <1>1, <1>2, LoopFacts DEF RequestRecord
  <1>5. LoopOfRequest(Closed(r, "done"))
    BY <1>4, ClosedFacts DEF LoopOfRequest
  <1> QED
    BY <1>3, <1>4, <1>5, ClosedKeeps, RequestKeeps

LEMMA RequestRaisesKeeps ==
  ASSUME GatewayInvariant, NEW g \in Owners, RequestRaises(g)
  PROVE  GatewayInvariant'
  <1>1. /\ gov[g] \in RequestRecord
        /\ gov[g].loop \in {Running("policy_checked"), Running("verified")}
    BY DEF GatewayInvariant, RequestInvariant, LoopOfRequest, RequestRaises
  <1>2. LoopOfRequest(Closed(gov[g], "raised"))
    BY <1>1, ClosedFacts DEF LoopOfRequest
  <1> QED
    BY <1>1, <1>2, ClosedKeeps, RequestKeeps DEF RequestRaises

-----------------------------------------------------------------------------
(* The specification.                                                       *)

LEMMA GatewayInvariantInit == Init => GatewayInvariant
  <1> SUFFICES ASSUME Init PROVE GatewayInvariant
    OBVIOUS
  <1>1. PICK s \in {"active", "pending"}, held \in BOOLEAN, t \in Texts \ (Secret \cup Trivial) :
          rows = [i \in Ids |-> CASE i = 1 -> Row(s, t, <<>>, held, 1)
                                  [] i = 2 -> Row("active", Insight, <<1>>, FALSE, 1)
                                  [] OTHER -> NoRow]
    BY DEF Init, InitRows
  <1>2. Insight \in Texts
    BY DEF Insight
  <1>3. PICK a, b : a = Row(s, t, <<>>, held, 1) /\ b = Row("active", Insight, <<1>>, FALSE, 1)
    OBVIOUS
  <1>4. /\ a \in RowRecord /\ a.parents = <<>> /\ a.since = 1
        /\ b \in RowRecord /\ b.parents = <<1>> /\ b.since = 1
    BY <1>2, <1>3 DEF Row, RowRecord
  <1>5. /\ rows \in [Ids -> RowRecord \cup {NoRow}] /\ rows[1] = a /\ rows[2] = b
        /\ \A i \in Ids : i # 1 /\ i # 2 => rows[i] = NoRow
    <2>1. 1 \in Ids /\ 2 \in Ids
      BY TurnAssumption
    <2>2. rows = [i \in Ids |-> CASE i = 1 -> a [] i = 2 -> b [] OTHER -> NoRow]
      BY <1>1, <1>3
    <2>3. rows[1] = a /\ rows[2] = b /\ \A i \in Ids : i # 1 /\ i # 2 => rows[i] = NoRow
      BY <2>1, <2>2
    <2>4. \A i \in Ids : rows[i] \in RowRecord \cup {NoRow}
      BY <1>4, <2>3
    <2>5. rows = [i \in Ids |-> rows[i]]
      BY <2>2
    <2> QED
      BY <2>3, <2>4, <2>5
  <1>6. a # NoRow /\ b # NoRow
    BY <1>4 DEF RowRecord, NoRow
  <1>7. \A text : Settled(rows, 1, text)
    <2>1. \A i \in Ids : ~(i < 1)
      BY TurnAssumption
    <2> QED
      BY <2>1 DEF Settled
  <1>8. RowsInvariant(rows)
    BY <1>4, <1>5, <1>6, <1>7 DEF RowsInvariant, OriginOf
  <1>9. NoTurn \in TurnRecord /\ NoRequest \in RequestRecord
    <2>1. <<>> \in Views /\ <<>> \in Seq(Texts) /\ <<>> \in Seq(Verdicts)
      BY DEF Views
    <2> QED
      BY <2>1, LoopFacts DEF NoTurn, NoRequest, TurnRecord, RequestRecord
  <1>10. TurnInvariant(NoTurn, rows)
    <2>1. /\ NoTurn.pc = "idle" /\ NoTurn.read = NoLoop /\ NoTurn.write = NoLoop
          /\ NoTurn.outcomes = <<>> /\ NoTurn.candidates = <<>>
      BY DEF NoTurn
    <2> QED
      BY <1>9, <2>1 DEF TurnInvariant, LoopsOfTurn, Witnessed, Retrieved, Prompted, Judged
  <1>11. RequestInvariant(NoRequest, rows)
    <2>1. NoRequest.pc = "idle" /\ NoRequest.loop = NoLoop
      BY DEF NoRequest
    <2> QED
      BY <1>9, <2>1 DEF RequestInvariant, LoopOfRequest
  <1> QED
    BY <1>8, <1>9, <1>10, <1>11 DEF Init, GatewayInvariant

LEMMA GatewayInvariantStep == GatewayInvariant /\ [Next]_vars => GatewayInvariant'
  <1> SUFFICES ASSUME GatewayInvariant, [Next]_vars PROVE GatewayInvariant'
    OBVIOUS
  <1>1. ASSUME NEW c \in Turns, TurnStep(c) PROVE GatewayInvariant'
    BY <1>1, BypassKeeps, BeginTurnKeeps, RetrieveKeeps, ComposeKeeps, ReadFailsKeeps,
       AnswerKeeps, EvaluateCandidateKeeps, NothingToCheckKeeps, CommitOutcomeKeeps,
       FinishTurnKeeps, TurnRaisesKeeps DEF TurnStep
  <1>2. ASSUME NEW g \in Owners, RequestStep(g) PROVE GatewayInvariant'
    BY <1>2, ListMemoriesKeeps, BeginDeleteKeeps, BeginPatchKeeps, CommitDeleteKeeps,
       CommitPatchKeeps, RefusePatchKeeps, FinishRequestKeeps, RequestRaisesKeeps DEF RequestStep
  <1>3. CASE UNCHANGED vars
    BY <1>3 DEF vars, GatewayInvariant
  <1> QED
    BY <1>1, <1>2, <1>3 DEF Next

(* Every state of the turns and of the owner's requests, whatever their      *)
(* number and their messages, is one of those the invariant describes.       *)
THEOREM GatewayInvariantKept == Spec => []GatewayInvariant
  <1> QED
    BY GatewayInvariantInit, GatewayInvariantStep, PTL DEF Spec

(* No memory that was deleted when a turn began enters that turn's prompt,   *)
(* whatever stale PATCH is written back; none that could not be retrieved    *)
(* at any moment of the turn; none derived from what was tombstoned          *)
(* throughout it.                                                            *)
THEOREM ForgottenNeverEnters == Spec => []ForgottenStaysOut
  <1>1. GatewayInvariant => ForgottenStaysOut
    <2> SUFFICES ASSUME GatewayInvariant, NEW c \in Turns, turn[c].pc = "answering",
                        NEW i \in turn[c].prompt
                 PROVE  /\ i \notin turn[c].deleted \cup turn[c].inactive
                        /\ \A k \in DOMAIN rows[i].parents : rows[i].parents[k] \notin turn[c].gone
      BY DEF ForgottenStaysOut
    <2>1. /\ i \in Ids /\ i \notin turn[c].deleted \cup turn[c].inactive
          /\ i = 2 => 1 \notin turn[c].gone
      BY DEF GatewayInvariant, TurnInvariant, Prompted, Witnessed, TurnRecord
    <2>2. rows[i].parents = OriginOf(i)
      <3>1. CASE rows[i] # NoRow
        BY <2>1, <3>1 DEF GatewayInvariant, RowsInvariant
      <3>2. CASE rows[i] = NoRow
        <4>1. i # 2 /\ NoRow.parents = <<>>
          BY <3>2 DEF GatewayInvariant, RowsInvariant, NoRow
        <4> QED
          BY <3>2, <4>1 DEF OriginOf
      <3> QED
        BY <3>1, <3>2
    <2>3. CASE i = 2
      BY <2>1, <2>2, <2>3 DEF OriginOf
    <2>4. CASE i # 2
      BY <2>1, <2>2, <2>4 DEF OriginOf
    <2> QED
      BY <2>3, <2>4
  <1> QED
    BY <1>1, GatewayInvariantKept, PTL

(* The loop runs of the turns and of the requests say how these ended, in    *)
(* the states the registry declares.                                         *)
THEOREM LoopsAreTrue == Spec => []LoopsTellTheOutcome
  <1>1. GatewayInvariant => LoopsTellTheOutcome
    <2> SUFFICES ASSUME GatewayInvariant PROVE LoopsTellTheOutcome
      OBVIOUS
    <2>1. ASSUME NEW c \in Turns
          PROVE  LET t == turn[c] IN
                 /\ t.read.state \in {"none"} \cup DeclaredStates.read
                 /\ t.write.state \in {"none"} \cup DeclaredStates.write
                 /\ t.pc = "done" =>
                      /\ t.read = [state |-> "completed",
                                   status |-> IF t.degraded THEN "safe_degraded" ELSE "completed"]
                      /\ t.write = [state |-> "completed", status |-> "completed"]
                 /\ t.pc = "raised" => "running" \in {t.read.status, t.write.status} \/ t.write = NoLoop
      <3>1. LoopsOfTurn(turn[c]) /\ turn[c] \in TurnRecord
        BY DEF GatewayInvariant, TurnInvariant
      <3>2. turn[c].pc \in {"idle", "bypassed", "reading", "retrieved", "answering", "evaluating",
                            "committing", "done", "raised"}
        BY <3>1 DEF TurnRecord
      <3> QED
        BY <3>1, <3>2 DEF LoopsOfTurn, Running, ReadEnd, NoLoop, DeclaredStates
    <2>2. ASSUME NEW g \in Owners
          PROVE  LET r == gov[g] IN
                 /\ r.loop.state \in {"none"} \cup DeclaredStates.governance
                                      \cup (IF r.op = "delete" THEN {"failed"} ELSE {})
                 /\ r.pc = "done" <=> r.loop.status = "completed"
                 /\ r.pc = "refused" => r.loop.state \in {"failed", "policy_checked"}
      <3>1. LoopOfRequest(gov[g]) /\ gov[g] \in RequestRecord
        BY DEF GatewayInvariant, RequestInvariant
      <3>2. gov[g].pc \in {"idle", "open", "committed", "done", "refused", "raised"}
        BY <3>1 DEF RequestRecord
      <3> QED
        BY <3>1, <3>2 DEF LoopOfRequest, Running, ReadEnd, NoLoop, DeclaredStates
    <2> QED
      BY <2>1, <2>2 DEF LoopsTellTheOutcome
  <1> QED
    BY <1>1, GatewayInvariantKept, PTL

(* Two unedited active copies of one text come from evaluations that         *)
(* overlapped, in whatever order their commits followed.                     *)
THEOREM DuplicatesOverlapped == Spec => []DuplicatesNeedOverlap
  <1>1. GatewayInvariant => DuplicatesNeedOverlap
    <2> SUFFICES ASSUME GatewayInvariant, NEW i \in Active(rows), NEW j \in Active(rows),
                        i < j, rows[i].text = rows[j].text, ~rows[i].patched, ~rows[j].patched,
                        ~(i >= rows[j].since)
                 PROVE  FALSE
      BY DEF DuplicatesNeedOverlap
    <2>1. i \in Ids /\ j \in Ids /\ rows[i].status = "active" /\ rows[j] # NoRow
      BY DEF Active, NoRow
    <2>2. Settled(rows, rows[j].since, rows[j].text) /\ rows[j].since \in Nat
      BY <2>1 DEF GatewayInvariant, RowsInvariant, RowRecord
    <2>3. i \in Nat /\ i < rows[j].since
      BY <2>1, <2>2, TurnAssumption
    <2> QED
      BY <2>1, <2>2, <2>3 DEF Settled
  <1> QED
    BY <1>1, GatewayInvariantKept, PTL
=============================================================================

----------------------------- MODULE GatewayTurn -----------------------------
(***************************************************************************)
(* Chat turns against a store that changes underneath: the read path with  *)
(* its gates and its degradation, the answer, the write path through the   *)
(* policy broker, the requests of the owner (DELETE, PATCH, list) at the   *)
(* same time, and the loop run each of them keeps as evidence.             *)
(*                                                                         *)
(* A step is a handler's work up to its next access to the memory rows.    *)
(* Nobody but its handler reads a loop run, so its events go with the step *)
(* before them; a handler whose event is refused raises there.             *)
(***************************************************************************)
EXTENDS ContextGates

CONSTANTS
  Turns,           \* chat requests
  Owners,          \* governance requests
  Texts,           \* contents
  Secret,          \* contents the broker blocks
  Sensitive,       \* contents it sends to the approval queue
  Trivial,         \* contents below the utility floor
  Extractions      \* bound: the lists of candidates the extractor finds in a message

ASSUME TurnAssumption ==
  /\ {1, 2} \subseteq Ids /\ Ids \subseteq Nat \ {0}
  /\ Secret \cup Sensitive \cup Trivial \subseteq Texts
  /\ Extractions \subseteq Seq(Texts)

VARIABLES
  rows,    \* the memory rows; ids are given out in order
  turn,    \* each chat request
  gov      \* each governance request

vars == <<rows, turn, gov>>

\* ---- loop runs ----

NoLoop == [state |-> "none", status |-> "none"]

\* A run without events.
LoopRun == [state |-> "new", status |-> "running"]

ALLOWED_TRANSITIONS ==
  [new |-> {"observed"},
   observed |-> {"classified", "policy_checked", "executed", "failed"},
   classified |-> {"policy_checked", "failed"},
   policy_checked |-> {"executed", "safe_degraded", "failed"},
   executed |-> {"verified", "audited", "safe_degraded", "failed"},
   verified |-> {"audited", "failed"},
   audited |-> {"feedback_captured", "learned", "completed"},
   feedback_captured |-> {"learned", "completed"},
   learned |-> {"completed"},
   safe_degraded |-> {"audited", "completed"},
   failed |-> {"audited"},
   completed |-> {},
   invalid |-> {}]

\* The states the registry declares for the runs of each loop.
DeclaredStates ==
  LET always == {"observed", "policy_checked", "executed", "verified", "audited", "completed"} IN
  [write |-> always \cup {"classified"}, read |-> always \cup {"safe_degraded"},
   governance |-> always]

\* One event after the other, each from the state the one before left; the first
\* that is no transition raises.
Emit(loop, states) ==
  LET before(k) == IF k = 1 THEN loop.state ELSE states[k - 1]
  IN  [loop EXCEPT !.state = IF \A k \in DOMAIN states : states[k] \in ALLOWED_TRANSITIONS[before(k)]
                             THEN states[Len(states)] ELSE "invalid"]

Complete(loop, status) == IF loop.state = "invalid" THEN loop ELSE [loop EXCEPT !.status = status]

\* ---- rows ----

Row(status, text, parents, held, since) ==
  [status |-> status, text |-> text, parents |-> parents, held |-> held, rev |-> 1,
   since |-> since, patched |-> FALSE, tombstoned |-> FALSE, deleted |-> FALSE]

\* The columns the gates read and nobody changes here.
AsGated(r) ==
  LET label == IF r.text \in Sensitive THEN "high" ELSE "low" IN
  [status |-> r.status, tombstoned |-> r.tombstoned, parents |-> r.parents,
   sensitivity |-> label, detected |-> label, legalHold |-> r.held, pinned |-> FALSE,
   protected |-> FALSE, consent |-> [status |-> "granted", until |-> Forever],
   created |-> 0, expiresAt |-> Forever]

Active(rs) == {i \in Ids : rs[i].status = "active"}

\* search_candidates: active, and never deleted.
Retrievable(rs) == {i \in Active(rs) : ~rs[i].deleted}

Deleted(rs) == {i \in Ids : rs[i] # NoRow /\ rs[i].deleted}

Free(rs) == {i \in Ids : rs[i] = NoRow}

NextId(rs) == CHOOSE i \in Free(rs) : \A j \in Free(rs) : i <= j

\* Bound: a candidate is evaluated and stored only while there is an id left.
Room == Free(rows) # {}

Gone(rs) == {i \in Ids : rs[i] # NoRow /\ IsTombstoned(rs[i])}

\* ---- the requests ----

Insight == CHOOSE t \in Texts \ Secret : TRUE

NoTurn ==
  [pc |-> "idle", read |-> NoLoop, write |-> NoLoop, mode |-> "none", degraded |-> FALSE,
   view |-> <<>>, prompt |-> {}, deleted |-> {}, inactive |-> {}, gone |-> {},
   candidates |-> <<>>, outcomes |-> <<>>, k |-> 0]

NoRequest == [pc |-> "idle", op |-> "none", id |-> 0, new |-> NoRow, rev |-> 0, loop |-> NoLoop]

\* A memory, and an insight derived from it.
InitRows ==
  \E s \in {"active", "pending"}, held \in BOOLEAN, t \in Texts \ (Secret \cup Trivial) :
    rows = [i \in Ids |-> CASE i = 1 -> Row(s, t, <<>>, held, 1)
                            [] i = 2 -> Row("active", Insight, <<1>>, FALSE, 1)
                            [] OTHER -> NoRow]

Init ==
  /\ InitRows
  /\ turn = [c \in Turns |-> NoTurn]
  /\ gov = [g \in Owners |-> NoRequest]

\* What could not be retrieved, or was tombstoned, at every moment since a turn began.
Witness(t, rs) == [t EXCEPT !.inactive = @ \ Retrievable(rs), !.gone = @ \cap Gone(rs)]

\* Of a request that has ended only its loop runs are kept.
Ended(t, pc) ==
  [NoTurn EXCEPT !.pc = pc, !.read = t.read, !.write = t.write, !.degraded = t.degraded]

Closed(r, pc) == [NoRequest EXCEPT !.pc = pc, !.op = r.op, !.loop = r.loop]

\* A turn whose event was refused raises; the others go on.
Landed(t) == IF "invalid" \in {t.read.state, t.write.state} THEN Ended(t, "raised") ELSE t

Becomes(c, t) == turn' = [turn EXCEPT ![c] = Landed(t)] /\ UNCHANGED <<rows, gov>>

Store(rs) == rows' = rs

-----------------------------------------------------------------------------
(* The chat turn.                                                          *)

\* Temporary chat, or memory off: nothing is read or written.
Bypass(c) == turn[c].pc = "idle" /\ Becomes(c, [turn[c] EXCEPT !.pc = "bypassed"])

BeginTurn(c) ==
  /\ turn[c].pc = "idle"
  /\ Becomes(c, [turn[c] EXCEPT !.pc = "reading",
                   !.read = Emit(LoopRun, <<"observed", "policy_checked">>),
                   !.deleted = Deleted(rows), !.inactive = Ids \ Retrievable(rows), !.gone = Gone(rows)])

\* The ranker keeps some of the rows; mode says whether the query was embedded.
Retrieve(c) ==
  /\ turn[c].pc = "reading"
  /\ \E mode \in {"hybrid", "fallback"}, found \in SUBSET Retrievable(rows) :
       Becomes(c, [turn[c] EXCEPT !.pc = "retrieved", !.mode = mode,
                                  !.view = [i \in found |-> rows[i]]])

\* The gates judge the copies retrieved, and look up their ancestors as they are now.
Admitted(view, audience) ==
  LET live == [j \in Ids |-> IF rows[j] = NoRow THEN NoRow ELSE AsGated(rows[j])] IN
  {i \in DOMAIN view :
     /\ Decide(live, AsGated(view[i]), TRUE, 1, {}, FALSE) = "ALLOW"
     /\ Recallable(AsGated(view[i]), audience)}

\* The events that close the read loop.
ReadStates(degraded) ==
  <<"executed", IF degraded THEN "safe_degraded" ELSE "verified", "audited", "completed">>

\* The context composed, or nothing when any stage of the read path raised.
ComposeAs(c, mode, prompt) ==
  \E compressionFailed \in {FALSE} \cup {prompt # {}} :
    LET degraded == mode = "fallback" \/ compressionFailed IN
    Becomes(c, [turn[c] EXCEPT !.pc = "answering", !.mode = "none", !.degraded = degraded,
                  !.view = <<>>, !.prompt = prompt,
                  !.read = Complete(Emit(@, ReadStates(degraded)),
                                    IF degraded THEN "safe_degraded" ELSE "completed")])

Compose(c) ==
  /\ turn[c].pc = "retrieved"
  /\ \E audience \in {"private", "public"} :
       ComposeAs(c, turn[c].mode, Admitted(turn[c].view, audience))

ReadFails(c) == turn[c].pc \in {"reading", "retrieved"} /\ ComposeAs(c, "none", {})

\* The answer is out of the model; what was extracted from the message is any list.
Answer(c) ==
  /\ turn[c].pc = "answering"
  /\ \E candidates \in Extractions :
       Becomes(c, [turn[c] EXCEPT !.pc = "evaluating", !.candidates = candidates, !.k = 0,
                     !.write = Emit(LoopRun, <<"observed", "classified">>),
                     !.prompt = {}, !.deleted = {}, !.inactive = {}, !.gone = {}])

SimilarCaptured(text) == {i \in Active(rows) : rows[i].text = text /\ ~IsDerived(rows[i])}

\* find_similar_active.
Similar(text) == {i \in Active(rows) : rows[i].text = text}

\* The broker's verdicts on a candidate: one, or one for every similar row.
Evaluated(text) ==
  IF text \in Secret THEN {[decision |-> "BLOCK", id |-> 0, since |-> 0]}
  ELSE IF Similar(text) # {}
       THEN [decision : {"UPDATE_EXISTING"}, id : Similar(text), since : {0}]
  ELSE IF text \in Trivial THEN {[decision |-> "DROP_LOW_UTILITY", id |-> 0, since |-> 0]}
  ELSE {[decision |-> IF text \in Sensitive THEN "PENDING_APPROVAL" ELSE "SAVE",
         id |-> 0, since |-> NextId(rows)]}

CheckedEach(t) ==
  LET each == [t EXCEPT !.write = Emit(@, <<"policy_checked">>)]
  IN  IF t.k < Len(t.candidates) THEN each ELSE [each EXCEPT !.pc = "committing", !.k = 0]

\* POLICY_CHECKED is emitted once, when the last candidate has been evaluated.
Checked(t) ==
  IF t.k < Len(t.candidates) THEN t
  ELSE [t EXCEPT !.pc = "committing", !.k = 0, !.write = Emit(@, <<"policy_checked">>)]

EvaluateCandidate(c) ==
  LET t == turn[c] IN
  /\ t.pc = "evaluating" /\ t.k < Len(t.candidates) /\ Room
  /\ \E o \in Evaluated(t.candidates[t.k + 1]) :
       Becomes(c, Checked([t EXCEPT !.k = @ + 1, !.outcomes = Append(@, o)]))

NothingToCheck(c) ==
  /\ turn[c].pc = "evaluating" /\ turn[c].candidates = <<>>
  /\ Becomes(c, Checked(turn[c]))

\* The rows after a commit: a new row, or the existing one reinforced whatever it is by now.
Committed(o, text) ==
  CASE o.decision = "SAVE" ->
         [rows EXCEPT ![NextId(rows)] = Row("active", text, <<>>, FALSE, o.since)]
    [] o.decision = "PENDING_APPROVAL" ->
         [rows EXCEPT ![NextId(rows)] = Row("pending", text, <<>>, FALSE, o.since)]
    [] o.decision = "UPDATE_EXISTING" -> [rows EXCEPT ![o.id].rev = @ + 1]
    [] OTHER -> rows

Closing == <<"executed", "verified", "audited", "completed">>

CommitOutcome(c) ==
  LET t == turn[c]
      rs == Committed(t.outcomes[t.k + 1], t.candidates[t.k + 1])
  IN
  /\ t.pc = "committing" /\ t.k < Len(t.outcomes) /\ Room
  /\ Store(rs)
  /\ turn' = [d \in Turns |-> IF d = c THEN [t EXCEPT !.k = @ + 1] ELSE Witness(turn[d], rs)]
  /\ UNCHANGED gov

FinishTurn(c) ==
  LET t == turn[c] IN
  /\ t.pc = "committing" /\ t.k = Len(t.outcomes)
  /\ Becomes(c, Ended([t EXCEPT !.write = Complete(Emit(@, Closing), "completed")], "done"))

\* The model, the broker or the database fails: the request is answered with an error.
TurnRaises(c) ==
  /\ turn[c].pc \in {"reading", "answering", "evaluating", "committing"}
  /\ Becomes(c, Ended(turn[c], "raised"))

-----------------------------------------------------------------------------
(* The owner's requests.                                                   *)

Request(g, r) == 
  gov' = [gov EXCEPT ![g] = IF r.loop.state = "invalid" THEN Closed(r, "raised") ELSE r]

Opened == Emit(LoopRun, <<"observed", "policy_checked">>)

\* A body with new content, or with a status the current one may move to.
Patched(r) ==
  {[r EXCEPT !.text = t, !.status = IF t \in Sensitive THEN "pending" ELSE @] : t \in Texts}
    \cup {[r EXCEPT !.status = s] :
            s \in CASE r.status = "pending" -> {"active", "rejected"}
                    [] r.status = "active" -> {"archived"}
                    [] r.status = "archived" -> {"active"}
                    [] OTHER -> {}}

ListMemories(g) ==
  /\ gov[g].pc = "idle"
  /\ Request(g, [NoRequest EXCEPT !.pc = "done", !.op = "view",
                                  !.loop = Complete(Emit(Opened, Closing), "completed")])
  /\ UNCHANGED <<rows, turn>>

\* A held memory is refused with 409, on the record.
BeginDelete(g) ==
  /\ gov[g].pc = "idle"
  /\ \E i \in Ids \ Free(rows) :
       LET r == [NoRequest EXCEPT !.pc = "open", !.op = "delete", !.id = i, !.loop = Opened]
       IN  Request(g, IF rows[i].held
                      THEN Closed([r EXCEPT !.loop = Emit(@, <<"failed">>)], "refused") ELSE r)
  /\ UNCHANGED <<rows, turn>>

\* rev: the expected_revision of the body, or 0.
BeginPatch(g) ==
  /\ gov[g].pc = "idle"
  /\ \E i \in Ids \ Free(rows) :
       /\ rows[i].status # "deleted"
       /\ \E new \in Patched(rows[i]), rev \in {0, rows[i].rev} :
            Request(g, [pc |-> "open", op |-> "patch", id |-> i, new |-> new, rev |-> rev,
                        loop |-> Opened])
  /\ UNCHANGED <<rows, turn>>

\* The transaction: the row, and the two events inside it, or nothing.
Commit(g, new) ==
  LET rs == [rows EXCEPT ![gov[g].id] = [new EXCEPT !.rev = rows[gov[g].id].rev + 1]] IN
  /\ Store(rs)
  /\ turn' = [c \in Turns |-> Witness(turn[c], rs)]
  /\ Request(g, [gov[g] EXCEPT !.pc = "committed", !.loop = Emit(@, <<"executed", "verified">>)])

CommitDelete(g) ==
  /\ gov[g].pc = "open" /\ gov[g].op = "delete"
  /\ Commit(g, [rows[gov[g].id] EXCEPT !.status = "deleted", !.tombstoned = TRUE, !.deleted = TRUE])

\* An edit of a held memory, blocked content, or a revision that moved on: 409 or 422.
PatchRefused(r) ==
  LET q == gov[r] IN
  \/ q.new.text # rows[q.id].text /\ q.new.held
  \/ q.new.text \in Secret
  \/ q.rev # 0 /\ q.rev # rows[q.id].rev

\* The copy is written over the row, whatever it is by now, but for deleted_at.
CommitPatch(g) ==
  /\ gov[g].pc = "open" /\ gov[g].op = "patch" /\ ~PatchRefused(g)
  /\ Commit(g, [gov[g].new EXCEPT !.patched = TRUE, !.deleted = rows[gov[g].id].deleted])

\* Raised inside the transaction: the loop run stays where it was.
RefusePatch(g) ==
  /\ gov[g].pc = "open" /\ gov[g].op = "patch" /\ PatchRefused(g)
  /\ Request(g, Closed(gov[g], "refused"))
  /\ UNCHANGED <<rows, turn>>

FinishRequest(g) ==
  /\ gov[g].pc = "committed"
  /\ LET loop == Complete(Emit(gov[g].loop, <<"audited", "completed">>), "completed")
     IN  Request(g, Closed([gov[g] EXCEPT !.loop = loop], "done"))
  /\ UNCHANGED <<rows, turn>>

RequestRaises(g) ==
  /\ gov[g].pc \in {"open", "committed"}
  /\ Request(g, Closed(gov[g], "raised"))
  /\ UNCHANGED <<rows, turn>>

TurnStep(c) ==
  \/ Bypass(c) \/ BeginTurn(c) \/ Retrieve(c) \/ Compose(c) \/ ReadFails(c) \/ Answer(c)
  \/ EvaluateCandidate(c) \/ NothingToCheck(c) \/ CommitOutcome(c) \/ FinishTurn(c)
  \/ TurnRaises(c)

RequestStep(g) ==
  \/ ListMemories(g) \/ BeginDelete(g) \/ BeginPatch(g) \/ CommitDelete(g) \/ CommitPatch(g)
  \/ RefusePatch(g) \/ FinishRequest(g) \/ RequestRaises(g)

Next == (\E c \in Turns : TurnStep(c)) \/ (\E g \in Owners : RequestStep(g))

Spec == Init /\ [][Next]_vars

-----------------------------------------------------------------------------
(* No memory enters a prompt that was deleted when its turn began, whatever  *)
(* stale PATCH makes it active again; nor one that could not be retrieved    *)
(* at any moment of the turn, so that what was archived or pending enters    *)
(* only after a PATCH, stale or not, has made it active; nor one derived     *)
(* from what was tombstoned throughout the turn. An ancestor that a stale    *)
(* PATCH brings back lets out what was derived from it.                      *)
ForgottenStaysOut ==
  \A c \in Turns : turn[c].pc = "answering" =>
    \A i \in turn[c].prompt :
      /\ i \notin turn[c].deleted \cup turn[c].inactive
      /\ \A k \in DOMAIN rows[i].parents : rows[i].parents[k] \notin turn[c].gone

(* Loop runs tell how their request ended, in the states the registry       *)
(* declares for their loop, but for a DELETE refused by a legal hold, which *)
(* fails. No request dies of its own loop; an answered turn and a finished  *)
(* request leave only completed runs, safe degraded exactly when the read   *)
(* was; a run is left running only by a request that failed or was refused, *)
(* and no such run says it executed what was rolled back.                   *)
LoopsTellTheOutcome ==
  /\ \A c \in Turns :
       LET t == turn[c] IN
       /\ t.read.state \in {"none"} \cup DeclaredStates.read
       /\ t.write.state \in {"none"} \cup DeclaredStates.write
       /\ t.pc = "done" => /\ t.read = [state |-> "completed", status |-> IF t.degraded THEN "safe_degraded" ELSE "completed"]
                           /\ t.write = [state |-> "completed", status |-> "completed"]
       /\ t.pc = "raised" => "running" \in {t.read.status, t.write.status} \/ t.write = NoLoop
  /\ \A g \in Owners :
       LET r == gov[g] IN
       /\ r.loop.state \in {"none"} \cup DeclaredStates.governance
                            \cup (IF r.op = "delete" THEN {"failed"} ELSE {})
       /\ r.pc = "done" <=> r.loop.status = "completed"
       /\ r.pc = "refused" => r.loop.state \in {"failed", "policy_checked"}

(* The same text is active twice only because two evaluations overlapped,   *)
(* in one turn or in two, neither seeing what the other would store, or     *)
(* because the owner patched one of the two since: a turn that evaluates    *)
(* after another has stored reinforces, in whatever order they commit.      *)
DuplicatesNeedOverlap ==
  \A i, j \in Active(rows) :
    /\ i < j /\ rows[i].text = rows[j].text
    /\ ~rows[i].patched /\ ~rows[j].patched
    => i >= rows[j].since
=============================================================================

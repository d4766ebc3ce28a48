---------------------------- MODULE MCDecisions ----------------------------
(***************************************************************************)
(* The pure decisions of the system, each put to every input of a small    *)
(* set: who may do what, what may be kept and recalled, whether the chain  *)
(* verifies, whether the process may start, whether a request may come in. *)
(***************************************************************************)
EXTENDS HashChain, ContextGates, WebProxy, Deployment, RateLimit, Capture,
        EvidenceReads, LifecycleJobs

CONSTANTS Events, MaxRows, MaxArrivals, MaxFaultyCall

\* Every moment asked about lies before Forever.
ASSUME MomentsAssumption == Forever > 10001

VARIABLE asked     \* the question put, and its input

t1 == CHOOSE t \in Tenants : TRUE
u1 == CHOOSE u \in Users : TRUE

Init == asked = [about |-> "nothing"]

\* The fields of both; of a name in both, the first.
And(fields, more) ==
  [x \in DOMAIN fields \cup DOMAIN more |-> IF x \in DOMAIN fields THEN fields[x] ELSE more[x]]

NotAsked == asked.about = "nothing"

Ask(about, in) == asked' = [about |-> about, in |-> in]

\* ---- the audit chain ----

Histories == {GENESIS} \cup {<<i>> : i \in Events} \cup {<<i, j>> : i, j \in Events}

\* Every row add_audit could have written, and the same row with another event's text.
RowsOfEvents ==
  {Entry(i, p) : i \in Events, p \in Histories}
    \cup {[Entry(i, p) EXCEPT !.id = j] : i \in Events, p \in Histories, j \in Events}

AskChain == NotAsked /\ Ask("chain", {})

AddRow ==
  /\ asked.about = "chain" /\ Cardinality(asked.in) < MaxRows
  /\ \E e \in RowsOfEvents \ asked.in : asked' = [asked EXCEPT !.in = @ \cup {e}]

(* verify_chain answers ok exactly for the row sets that are one unbroken   *)
(* chain from the genesis, whatever else was inserted, edited or removed in *)
(* between.                                                                 *)
VerifiesExactlyChains == asked.about = "chain" => (VerifyChain(asked.in) <=> IsChain(asked.in))

\* ---- lineage ----

Parents == SeqOf(Ids, 2)

Kept == Ids \ {"purged"}

Leaf == [status |-> "active", tombstoned |-> FALSE, parents |-> <<>>]

AskAncestry ==
  /\ NotAsked
  /\ \E parents \in [Kept -> Parents], bad \in SUBSET Kept :
       Ask("ancestry", [i \in Ids |->
         IF i \notin Kept THEN NoRow
         ELSE [Leaf EXCEPT !.parents = parents[i],
                           !.status = IF i \in bad THEN "deleted" ELSE "active"]])

ParentsOf(rows, i) == {rows[i].parents[k] : k \in DOMAIN rows[i].parents}

\* The least set that holds the row's parents and the parents of its members.
Ancestors(rows, i) ==
  {a \in Ids : \A S \in SUBSET Ids :
     ParentsOf(rows, i) \subseteq S /\ (\A j \in S : ParentsOf(rows, j) \subseteq S) => a \in S}

(* The walk up the lineage fails closed: it calls a derived memory clean    *)
(* only if every ancestor, through cycles and shared parents, exists and is *)
(* not deleted; and it calls it so whenever that holds and the lineage is   *)
(* no larger than the cap.                                                  *)
LineageFailsClosed ==
  asked.about = "ancestry" =>
    \A i \in Kept :
      LET answer == AncestryTombstone(asked.in, asked.in[i])
          clean == \A a \in Ancestors(asked.in, i) : a \in Kept /\ asked.in[a].status = "active"
      IN  /\ answer = Clean => clean
          /\ clean /\ Cardinality(Ancestors(asked.in, i)) <= MaxAncestryNodes => answer = Clean

\* ---- forgetting ----

Kind(sensitivity, flag, consent) ==
  [status |-> "active", sensitivity |-> sensitivity, detected |-> "low", parents |-> <<>>,
   legalHold |-> flag = "hold", pinned |-> flag = "pin", protected |-> flag = "protect",
   consent |-> consent, created |-> 1, expiresAt |-> Forever]

Flagging == {"none", "hold", "pin", "protect"}

Given == {[status |-> "granted", until |-> Forever], [status |-> "granted", until |-> 60],
          [status |-> "withdrawn", until |-> Forever]}

\* Around the end of every window: just before, exactly, just after.
Times(policy, sensitivity) ==
  LET end == 1 + Day * WindowDays(policy, sensitivity)
  IN  {2, 60, 800} \cup (IF end > 10000 THEN {} ELSE {end - 1, end, end + 1})

\* A pass over a row, then its owner changes flags, consent or label, then a turn asks for it.
AskForgetting ==
  /\ NotAsked
  /\ \E policy \in DOMAIN Packs, s1, s2 \in Sensitivities, f1, f2 \in Flagging, c1, c2 \in Given :
       \E t \in Times(policy, s1), u \in Times(policy, s2) :
         /\ u >= t
         /\ f1 = f2 \/ s1 = s2
         /\ Ask("forgetting",
                [policy |-> policy, relabelled |-> s1 # s2, now |-> u,
                 row |-> LET kept == RetentionPass(Kind(s1, f1, c1), t, policy, FALSE)
                         IN  [Kind(s2, f2, c2) EXCEPT !.expiresAt = kept.expiresAt,
                                                      !.status = kept.status]])

(* A memory a pass has seen once is not recalled when it is due and the     *)
(* next pass has not come: the gate, which reads the stamped end of the     *)
(* window, blocks what the worker, which computes it, would delete, and     *)
(* says expired for the same memories at the same instant. The exception is *)
(* a memory relabelled since its stamp, whose window the stamp still shows. *)
NothingDueIsRecalled ==
  asked.about = "forgetting" =>
    LET in == asked.in
        due == Evaluate(in.row, in.now, in.policy)
        verdict == Decide(<<>>, in.row, TRUE, in.now, {}, FALSE)
    IN  in.row.status = "active" =>
          /\ due = "consent_revoked" => verdict = "BLOCK_CONSENT_WITHDRAWN"
          /\ ~in.relabelled => (due = "expired" <=> verdict = "BLOCK_EXPIRED")
          /\ ~in.relabelled /\ EligibleForDeletion(due) => verdict # "ALLOW"

\* ---- the output gate ----

Words == {"a", "b", "c"}

TextsUpTo(n) == UNION {[1..k -> Words] : k \in 0..n}

\* The second text up to the names of the words.
AskAnswer ==
  /\ NotAsked
  /\ \E answer \in TextsUpTo(5), one \in [1..3 -> Words], two \in {<<>>, <<"a", "b">>, <<"a", "a">>} :
       Ask("answer", [answer |-> answer, withheld |-> {one, two}])

(* What a withheld memory says does not leave in an answer: after redaction *)
(* the answer shares no phrase with it, every word that was in no shared    *)
(* phrase stands in its place, one redaction stands for each run of words   *)
(* that were, and no two redactions touch.                                  *)
WithheldStaysWithheld ==
  asked.about = "answer" =>
    LET in == asked.in
        left == Review(in.answer, in.withheld, "redact")
        told == UNION {Phrases(t) : t \in in.withheld}
        disclosed == {i \in 1..Len(in.answer) : \E j \in 1..i :
                        /\ i < j + PhraseWords /\ j + PhraseWords - 1 <= Len(in.answer)
                        /\ SubSeq(in.answer, j, j + PhraseWords - 1) \in told}
        place(i) == Cardinality({j \in 1..i : j \notin disclosed \/ j - 1 \notin disclosed})
    IN  /\ Phrases(left) \cap told = {}
        /\ Len(left) = place(Len(in.answer))
        /\ \A i \in 1..Len(in.answer) :
             left[place(i)] = IF i \in disclosed THEN Redaction ELSE in.answer[i]
        /\ \A k \in 1..(Len(left) - 1) : left[k] = Redaction => left[k + 1] # Redaction

\* ---- start-up ----

Plain ==
  [profile |-> "production", governance |-> Unset, ablate |-> [c \in Controls |-> Unset],
   gate |-> [g \in Gates |-> Unset], storage |-> "postgres", dsn |-> "real", auth |-> "jwt",
   roleClaim |-> "on", cors |-> "listed", publicEvals |-> Unset, apiDocs |-> Unset,
   llm |-> Unset, embeddings |-> Unset, vectorIndex |-> Unset, keys |-> {}, modules |-> {}]

Switch == {Unset, "on", "off"}

GovernedBy ==
  {And(e, Plain) : e \in [governance : {Unset, "full", "disabled", "other"},
                          ablate : [Controls -> Switch], gate : [Gates -> Switch]]}

ProvidedBy ==
  {And(e, Plain) : e \in [profile : {"production", Unset}, llm : DOMAIN LlmModule \cup {Unset, "other"},
                          embeddings : {Unset, "openai"}, vectorIndex : DOMAIN VectorModule \cup {Unset},
                          keys : SUBSET {"openai", "gemini"},
                          modules : SUBSET {"openai", "google.genai", "qdrant_client"}]}

SetUpBy ==
  {And(e, Plain) : e \in [profile : {"production", "dev", Unset, "other"},
                          storage : {"postgres", "memory", Unset}, dsn : {"real", "demo", Unset},
                          auth : {"jwt", "trusted_header", "none", Unset}, roleClaim : Switch,
                          cors : {"listed", "star", "mixed", Unset}, publicEvals : Switch]}

AskStart ==
  /\ NotAsked
  /\ \E env \in GovernedBy \cup ProvidedBy \cup SetUpBy : Ask("start", env)

(* A process that serves under the production profile is what it claims to  *)
(* be: every control and gate on whichever variables were set, real storage *)
(* and authentication with explicit roles, and every provider it selected   *)
(* usable, as its own readiness probe reports it while database and index   *)
(* answer. A provider the start refuses is one the probe calls degraded in  *)
(* dev.                                                                     *)
ProductionIsWhatItClaims ==
  asked.about = "start" =>
    LET env == asked.in
        s == Settings(env)
        world == [database |-> TRUE, index |-> TRUE,
                  runs |-> [access |-> FALSE, any |-> FALSE, age |-> 0, deadLetters |-> FALSE]]
        dev == [env EXCEPT !.profile = "dev"]
    IN  /\ Starts(env) /\ s.profile = "production" =>
             /\ s.controls = Controls /\ s.gates = Gates
             /\ s.storage = "postgres" /\ ~s.demoDsn /\ ~s.anyOrigin
             /\ s.auth # "none" /\ s.roleClaim
             /\ Readyz(s, env, world) = [ready |-> TRUE, degraded |-> FALSE]
        /\ ReadinessReport(Settings(dev), dev, world).degraded <=> ProviderErrors(s, env) # {}

\* ---- rate limit ----

Comers == {[ip |-> "a", route |-> route] : route \in {"chat", "evals", "other"}}
            \cup {[ip |-> "b", route |-> "chat"]}

Coming(caller, at) == [ip |-> caller.ip, route |-> caller.route, at |-> at]

AskLimiter ==
  /\ NotAsked
  /\ \E ip \in 1..2, chat \in 0..2, caller \in Comers :
       Ask("limiter", [limits |-> [ip |-> ip, chat |-> chat, evals |-> 1],
                       requests |-> <<Coming(caller, 0)>>])

AnotherArrives ==
  /\ asked.about = "limiter"
  /\ Len(asked.in.requests) < MaxArrivals
  /\ LET requests == asked.in.requests IN
     \E gap \in {0, 1, 3, 4}, caller \in Comers :
       Ask("limiter", [limits |-> asked.in.limits,
                       requests |-> Append(requests, Coming(caller, requests[Len(requests)].at + gap))])

\* Request j used up a place in window w.
TookPlace(requests, answer, limits, j, w) ==
  /\ w \in Meets(requests[j]) /\ limits[w[1]] # 0
  /\ answer[j].allowed \/ (w = First(requests[j]) /\ answer[j].by # w)

\* Those before k that still use one up in w when k comes.
PlacesTaken(requests, answer, limits, k, w) ==
  {j \in 1..(k - 1) : /\ TookPlace(requests, answer, limits, j, w)
                      /\ requests[j].at + Window > requests[k].at}

HasRoom(requests, answer, limits, k, w) ==
  limits[w[1]] = 0 \/ Cardinality(PlacesTaken(requests, answer, limits, k, w)) < limits[w[1]]

(* A request is let in exactly if every window it meets has room, counting  *)
(* in the window of an address also those whom only the second window       *)
(* refused; and the window that refuses one without room says how many      *)
(* seconds later it has room again if nobody else comes to it. (The other   *)
(* window may refuse it then.)                                              *)
LimiterKeepsItsPromise ==
  asked.about = "limiter" =>
    LET requests == asked.in.requests
        limits == asked.in.limits
        answer == Checks(requests, limits)
    IN  \A k \in 1..Len(requests) :
          LET w == answer[k].by IN
          /\ answer[k].allowed <=>
               \A v \in Meets(requests[k]) : HasRoom(requests, answer, limits, k, v)
          /\ ~answer[k].allowed =>
               /\ w \in Meets(requests[k]) /\ ~HasRoom(requests, answer, limits, k, w)
               /\ Check(answer[k].hits[w], limits[w[1]],
                        requests[k].at + answer[k].retry * Ticks).allowed

\* ---- requests ----

Trusting(strict) ==
  [auth |-> "jwt", requireClaim |-> strict, rolesClaim |-> <<"roles">>, jwks |-> "not used",
   met |-> {}, audience |-> Unnamed]

WithPayload(payload) == [MintApiToken(NoIdentity) EXCEPT !.payload = payload]

Bearing(token) == [scheme |-> "bearer", token |-> token]

\* Who calls: every kind of role claim of t1's u1, and two credentials that are no good.
Callers ==
  LET of(more) == WithPayload(Object(And([tenant_id |-> Scalar(t1), sub |-> Scalar(u1)], more)))
      admin == of([roles |-> List({"tenant_admin"})])
  IN  {Bearing(of([roles |-> c])) : c \in {Null, List({})} \cup {List({r}) : r \in RoleNames}}
        \cup {Bearing(of(<<>>)), Bearing([admin EXCEPT !.expires = -Leeway]),
              Bearing([admin EXCEPT !.payload.fields.tenant_id = Null])}

Records ==
  [exists : {TRUE}, tenant : Tenants, owner : Users,
   status : {"active", "pending", "archived", "deleted"}]

\* What a request without a memory id, or with one nobody has, finds.
NoRecord == [exists |-> FALSE, tenant |-> Unnamed, owner |-> Unnamed, status |-> "none"]

OnRecords == {"get_memory", "patch_memory", "delete_memory", "memory_audit", "provenance",
              "retention_set", "consent"}

NoPatch == [edit |-> FALSE, status |-> Unnamed]

\* Handlers whose schema or signature demands a scope always get one.
MustName == {"chat", "patch_memory", "delete_memory", "list_memories", "retention_set", "consent"}

Named(route, scopes) ==
  IF route \in ProcessWide THEN {Unnamed}
  ELSE IF route \in MustName THEN scopes ELSE scopes \cup {Unnamed}

Asks(route, caller) ==
  [route : {route}, credential : {caller}, tenant : Named(route, Tenants), user : Named(route, Users),
   row : {NoRecord} \cup (IF route \in OnRecords THEN Records ELSE {}),
   patch : IF route = "patch_memory" THEN [edit : BOOLEAN, status : PatchTargets] ELSE {NoPatch}]

AskApi ==
  /\ NotAsked
  /\ \E route \in Routes, c \in Callers, strict \in BOOLEAN :
       \E r \in Asks(route, c) : Ask("api", [request |-> r, settings |-> Trusting(strict)])

\* Whatever stands in a token, wherever the deployment looks for the roles.
Nodes(value) == {Null, Scalar(value), List({value}), Object([id |-> Scalar(value)])}

RoleNodes == {Null, List({}), List({"auditor"}), Scalar("auditor"), Scalar(NoSuchRole)}

Payloads ==
  {WithPayload(Object(fields)) : fields \in
     [tenant_id : Nodes(t1), sub : Nodes(u1), roles : RoleNodes,
      app : {Object(<<>>), Scalar("tenant_admin"), List({"tenant_admin"})}
              \cup {Object([roles |-> n]) : n \in RoleNodes}]}

Tokens ==
  Payloads \cup [wellFormed : BOOLEAN, key : {"configured key", "published key", "withdrawn key"},
                algorithm : {"HS256", "none"}, expires : {120, 1 - Leeway, -Leeway, Forever},
                audience : {Unnamed, "api", "other"},
                payload : {Object([tenant_id |-> Scalar(t1), sub |-> Scalar(u1)])}]

Headers ==
  [scheme : {"headers"}, tenant : {t1, Unnamed}, user : {u1, Unnamed}, roles : RoleNodes \cup {Missing}]

AskIdentity ==
  /\ NotAsked
  /\ \E s \in [auth : {"jwt", "trusted_header"}, requireClaim : BOOLEAN,
             rolesClaim : {<<"roles">>, <<"app", "roles">>},
             jwks : {"not used", "reachable", "unreachable"}, met : {{}, {"withdrawn key"}},
             audience : {Unnamed, "api"}],
       c \in {NoCredential} \cup Headers \cup {Bearing(t) : t \in Tokens} :
         /\ s.jwks # "not used" \/ s.met = {}
         /\ c.scheme = "bearer" /\ c.token \in Payloads =>
              s.jwks = "not used" /\ s.audience = Unnamed
         /\ Ask("api", [settings |-> s,
                        request |-> [route |-> "get_audit", credential |-> c, tenant |-> t1,
                                     user |-> Unnamed, row |-> NoRecord, patch |-> NoPatch]])

Api == Verdict(asked.in.request, asked.in.settings)

ApiProvider == BuildProvider(asked.in.settings)

ApiCaller == Resolve(asked.in.request.credential, ApiProvider)

HasRole(roles) == ApiCaller.roles \cap roles # {}

(* What a request is answered with never leaves the caller's tenant; the    *)
(* records of other users need a role over the tenant, whatever the route,  *)
(* the names in the request or the stored owner; nobody decides over the    *)
(* approval of a memory, his own included, but a memory or tenant admin;    *)
(* auditors and operators change nothing.                                   *)
RolesBoundTheAnswer ==
  asked.about = "api" /\ Api.code = 200 =>
    /\ Api.tenant \in {t1, Unnamed}
    /\ Api.users \subseteq {u1} \/ HasRole({"memory_admin", "tenant_admin", "auditor"})
    /\ Api.actions \cap {"approve", "reject"} # {} => HasRole({"memory_admin", "tenant_admin"})
    /\ asked.in.request.route \in {"chat", "patch_memory", "delete_memory", "retention_set", "consent"}
         => HasRole({"memory_user", "memory_admin", "tenant_admin"})

RoleClaim ==
  LET c == asked.in.request.credential IN
  CASE c.scheme = "headers" -> c.roles
    [] c.scheme = "bearer"  -> ClaimNode(c.token.payload, ApiProvider.rolesClaim)
    [] OTHER                -> Missing

\* The request with a token that has only the claims the deployment is configured for.
Configured(r) ==
  LET c == r.credential
      old == c.token.payload
      nested == Len(ApiProvider.rolesClaim) = 2
      at(name) == ClaimNode(old, <<name>>)
      roles == IF RoleClaim = Missing THEN <<>>
               ELSE IF nested THEN [app |-> Object([roles |-> RoleClaim])] ELSE [roles |-> RoleClaim]
  IN  IF c.scheme # "bearer" THEN r
      ELSE [r EXCEPT !.credential.token.payload =
              Object(And([tenant_id |-> at("tenant_id"), sub |-> at("sub")], roles))]

(* A claim that names no role this system knows, is empty or is null grants *)
(* nothing: only leaving it out, where that is allowed, gives the default.  *)
(* What a token says elsewhere than the deployment looks makes no           *)
(* difference, and whoever is let in presented a credential of the kind the *)
(* deployment takes, not past its end, and of a key that is configured, or  *)
(* published, or was when this process met it.                              *)
UnknownClaimGrantsNothing ==
  asked.about = "api" =>
    LET c == asked.in.request.credential IN
    /\ ParseRoles(RoleClaim) = {} =>
         \/ RoleClaim = Missing /\ ~asked.in.settings.requireClaim
         \/ Api.code # 200 \/ asked.in.request.route = "loops"
    /\ Api = Verdict(Configured(asked.in.request), asked.in.settings)
    /\ Api.code # 401 =>
         /\ c.scheme = IF asked.in.settings.auth = "jwt" THEN "bearer" ELSE "headers"
         /\ c.scheme = "bearer" =>
              /\ c.token.expires > -Leeway
              /\ c.token.key = "withdrawn key" => c.token.key \in asked.in.settings.met

(* Somebody else's record is answered for like one that does not exist: in  *)
(* another tenant always, in one's own when no role reaches it, so the      *)
(* answer does not tell which ids are taken.                                *)
ForeignLooksAbsent ==
  asked.about = "api" /\ asked.in.request.row.exists =>
    LET r == asked.in.request
        absent == Verdict([r EXCEPT !.row = NoRecord], asked.in.settings)
    IN  \/ Api.code = absent.code
        \/ r.row.tenant = t1 /\ (r.row.owner = u1 \/ Api.code = 200 \/ r.route = "patch_memory")

\* ---- the console ----

Sessions ==
  [tenant : {t1}, user : {u1}, role : Personas \cup {"unknown"}]
    \cup {[tenant |-> Unnamed, user |-> u1, role |-> "owner"]}

\* The console's mode and the credential it is configured to present.
Modes ==
  [web : {"authenticated"}, auth : {"jwt", "trusted_header"}] \cup [web : {"demo"}, auth : {"none", "jwt"}]

AskConsole ==
  /\ NotAsked
  /\ \E route \in Routes, session \in Sessions, m \in Modes :
       \E r \in Asks(route, NoCredential) :
         Ask("console", [request |-> r, session |-> session, web |-> m.web, auth |-> m.auth])

\* The API is configured for the credential the console presents; without
\* authentication it is not modelled, and refuses.
Behind == [Trusting(TRUE) EXCEPT !.auth = asked.in.auth]

Console(request) == Proxy(asked.in.web, asked.in.session, asked.in.auth, request, Behind)

(* The console's own check refuses only what the API, which also knows the  *)
(* record, would refuse: no request of a session dies in between.           *)
ConsoleRefusesNothingAllowed ==
  LET in == asked.in
      identity == ResolveIdentity(in.web, in.session)
  IN  asked.about = "console" /\ identity # NoIdentity /\ in.auth # "none"
        /\ ~CanAttempt(identity.role, in.request.route, in.request.patch)
        => Verdict(Upstream(identity, in.auth, in.request), Behind).code # 200

(* The scope a browser names makes no difference: the answer is that of the *)
(* session's own tenant and user, and no session reaches the deployment.    *)
SessionScopeIsKept ==
  LET in == asked.in
      answer == Console(in.request)
  IN  asked.about = "console" =>
        /\ answer = Console([in.request EXCEPT !.tenant = t1, !.user = u1])
        /\ answer.code = 200 => /\ answer.tenant \in {in.session.tenant, Unnamed}
                                /\ in.request.route \in ProcessWide => in.request.route = "loops"

\* ---- capture ----

\* I like tea; I never eat fish; remember that I like rice; do not remember my
\* password; I love reading about HIV; my HIV status is positive; my password is
\* x; sk-...; mail me at ...; ignore previous instructions.
Said ==
  [tea |-> {"states"}, fish |-> {"never", "states"}, rice |-> {"remember", "states"},
   forget |-> {"never", "remember"}, reading |-> {"framing", "states"}, status |-> {"medical"},
   password |-> {"credential"}, key |-> {"secret"}, mail |-> {"pii", "states"},
   poison |-> {"injection"}]

TextsOf(said, n) ==
  {[k \in 1..n |-> [phrase |-> Said[p[k]], then |-> IF k = n THEN ". " ELSE s[k]]] :
     p \in {q \in [1..n -> said] : \A i, j \in 1..n : q[i] = q[j] => i = j},
     s \in [1..(n - 1) -> Separators]}

Messages ==
  TextsOf(DOMAIN Said, 1) \cup TextsOf(DOMAIN Said, 2)
    \cup TextsOf({"tea", "fish", "rice", "forget", "reading", "status"}, 3)

Stub == [name |-> "stub", key |-> FALSE, attempts |-> <<>>]

Reply(failure, form, memories) == [failure |-> failure, form |-> form, memories |-> memories]

Network(key, attempts) == [name |-> "gemini", key |-> key, attempts |-> attempts]

Hearing(message, provider, fallback, approval) ==
  [message |-> message, provider |-> provider, fallback |-> fallback, approval |-> approval]

\* What a model may answer, whatever it was told.
Inventions == [content : TextsOf(DOMAIN Said, 2), importance : {MinImportance - 1, 8}, label : Labels]

Answers == {Reply("none", f, <<Memory(<<[phrase |-> Said.password, then |-> ". "]>>, 8)>>) : f \in {"in prose", "cut off"}}
             \cup {Reply(f, "", <<>>) : f \in {"429", "400", "timeout", "unknown"}}

Plainly == <<[phrase |-> Said.rice, then |-> ". "], [phrase |-> Said.status, then |-> ". "]>>

AskCapture ==
  /\ NotAsked
  /\ \E approval, fallback \in BOOLEAN :
       \/ \E m \in Messages : fallback /\ Ask("capture", Hearing(m, Stub, TRUE, approval))
       \/ \E i \in Inventions :
            fallback /\ Ask("capture", Hearing(Plainly, Network(TRUE, <<Reply("none", "json", <<i>>)>>),
                                             TRUE, approval))
       \/ \E key \in BOOLEAN, n \in 1..3 : \E a \in [1..n -> Answers] :
            Ask("capture", Hearing(Plainly, Network(key, a), fallback, approval))

Captured ==
  LET in == asked.in IN Stored(ExtractTurn(in.provider, in.message, in.fallback), in.approval)

PhrasesOf(text) == {text[i].phrase : i \in DOMAIN text}

\* Every disclosure in a clause of its own is labelled, and so waits for approval.
DisclosuresLabelled ==
  \A c \in ToSet(SplitClauses(asked.in.message)), row \in Captured :
    ~IsEducational(c) =>
      \A p \in PhrasesOf(c) \cap PhrasesOf(row.content) :
        /\ p \cap {"secret", "injection", "credential"} = {}
        /\ "medical" \in p => row.label = "high"

(* Whatever the provider answers, invents or fails with, no secret, no      *)
(* injected instruction and no instruction about memory is stored, a label  *)
(* is never below what the classifier sees and what is sensitive waits for  *)
(* approval. Of a message in sentences each is judged apart: a disclosure   *)
(* is labelled whatever stands beside it, nothing of a sentence that asks   *)
(* not to remember is kept, and of a list to be remembered every other item *)
(* is kept.                                                                 *)
SentencesAreJudgedApart ==
  LET in == asked.in
      Controlled(c) == ClauseIsMemoryControl(c)
      Harmless(c) == Matched(c) \subseteq {"states", "remember", "never", "framing", "pii"}
      Bare(p) == p \ {"remember"}
      sentences == \A i \in DOMAIN in.message : in.message[i].then \notin {"; ", ", but "}
      clauses == ToSet(SplitClauses(in.message))
      kept == {c \in clauses : ~Controlled(c)}
  IN  asked.about = "capture" =>
        /\ \A row \in Captured :
             /\ Matched(row.content) \cap {"secret", "injection"} = {}
             /\ "credential" \notin Classify(row.content) /\ ~IsMemoryControl(row.content)
             /\ RankOf[row.label] >= RankOf[DetectedSensitivity(row.content)]
             /\ EvaluateUpdate(row.content, in.approval).decision # "BLOCK"
             /\ row.label # "low" /\ in.approval => row.status = "pending"
        /\ sentences /\ in.provider.name = "stub" =>
             /\ DisclosuresLabelled
             /\ \A row \in Captured :
                  PhrasesOf(row.content) \subseteq {Bare(p) : p \in UNION {PhrasesOf(c) : c \in kept}}
                                                 \cup UNION {PhrasesOf(c) : c \in kept}
             /\ \A c \in kept :
                  Harmless(c) /\ (\E d \in kept : "remember" \in Matched(d)) =>
                    \A p \in PhrasesOf(c) : \E row \in Captured :
                      Bare(p) \in {Bare(q) : q \in PhrasesOf(row.content)}

(* No clause of a message exempts another: what one discloses is labelled   *)
(* or refused, whatever topic another one discusses.                        *)
NoClauseExemptsAnother == asked.about = "capture" /\ asked.in.provider.name = "stub" => DisclosuresLabelled

\* ---- the lifecycle jobs ----

Usual ==
  [status |-> "active", held |-> FALSE, exempt |-> FALSE, aged |-> TRUE, recent |-> FALSE,
   importance |-> "normal", decayed |-> FALSE, due |-> "kept", stamped |-> FALSE, cleared |-> FALSE,
   text |-> [subject |-> "tea", denied |-> FALSE], type |-> "preference"]

Gone == [Usual EXCEPT !.status = "deleted"]

Notable ==
  {Usual, Gone, [Usual EXCEPT !.held = TRUE, !.due = "expired"], [Usual EXCEPT !.due = "expired"],
   [Usual EXCEPT !.text.denied = TRUE, !.importance = "low"], [Gone EXCEPT !.held = TRUE]}

Kinds ==
  Notable \cup
  {[Usual EXCEPT !.exempt = TRUE], [Usual EXCEPT !.aged = FALSE], [Usual EXCEPT !.recent = TRUE],
   [Usual EXCEPT !.importance = "floor"], [Usual EXCEPT !.decayed = TRUE],
   [Usual EXCEPT !.due = "consent_revoked"], [Usual EXCEPT !.text.subject = "rice"],
   [Usual EXCEPT !.status = "archived"], [Gone EXCEPT !.aged = FALSE], [Gone EXCEPT !.cleared = TRUE]}

Contexts ==
  {[dry |-> x = "dry", retention |-> x # "off", reflection |-> x # "off", fallback |-> x # "off"] :
     x \in {"on", "off", "dry"}}

\* Nobody; a deletion or a stale copy between listing and work; one between a purge and its check.
Races(row) ==
  {[when |-> "never", on |-> "m1", row |-> row]}
    \cup {[when |-> "listing", on |-> "m1", row |-> [row EXCEPT !.status = st, !.cleared = FALSE]] :
            st \in {"active", "deleted"}}
    \cup {[when |-> "commit", on |-> "m1", row |-> [row EXCEPT !.status = "active", !.cleared = FALSE]]}

Order == <<"m1", "m2">>

AskJobs ==
  /\ NotAsked
  /\ \E k1 \in Kinds, k2 \in Notable, ctx \in Contexts, job \in ToSet(DefaultJobOrder) :
       \E race \in Races(k1), fault \in 0..MaxFaultyCall :
         /\ ctx.dry => fault = 0
         /\ race.when = "commit" => job = "deletion_compaction"
         /\ race.when = "listing" => fault # 1
         /\ Ask("jobs", [rows |-> [m1 |-> k1, m2 |-> k2], ctx |-> ctx, job |-> job, race |-> race,
                         out |-> RunOneJob(job, ctx, race, Order, Work([m1 |-> k1, m2 |-> k2], fault))])

Worked == asked.in.out.work

After == Worked.rows

Told(action, m) == \E e \in ToSet(Worked.trail) : e.action = action /\ e.memory = m

Preview == asked.in.ctx.dry \/ (asked.in.job = "retention" /\ ~asked.in.ctx.retention)

AtOnce == asked.in.out.attempts = 1 /\ Worked.status # "failed"

Forgotten(m) == Told("memory_retention_expired", m) \/ Told("memory_consent_revoked", m)

Done(m) ==
  {e \in ToSet(Worked.trail) :
     e.memory = m /\ e.action \in {"memory_decay_applied", "memory_archived_by_worker",
                                   "memory_retention_expired", "memory_consent_revoked",
                                   "memory_content_compacted"}}

(* Whichever call of a job fails, and whether it is run again: a row was    *)
(* changed exactly if the trail says so, a preview changes none, a result   *)
(* of one attempt counts and names what was done and nothing else, and a    *)
(* job that was done finds nothing left to do.                              *)
JobsKeepTheirBooks ==
  LET in == asked.in
      raced == IF in.race.when = "listing" THEN [in.rows EXCEPT !["m1"] = in.race.row] ELSE in.rows
      again == RunOneJob(in.job, in.ctx, [in.race EXCEPT !.when = "never"], Order, Work(After, 0))
  IN  asked.about = "jobs" =>
        /\ in.race.when # "commit" /\ ~Preview => \A m \in DOMAIN After :
             /\ Told("memory_decay_applied", m) <=> After[m].decayed /\ ~raced[m].decayed
             /\ Told("memory_archived_by_worker", m)
                  <=> After[m].status = "archived" /\ raced[m].status # "archived"
             /\ Told("memory_content_compacted", m) <=> After[m].cleared /\ ~raced[m].cleared
             /\ Forgotten(m) => After[m].status = "deleted"
             /\ After[m].status = "deleted" /\ raced[m].status # "deleted" => Forgotten(m)
        /\ Preview => After = raced
        /\ AtOnce => Worked.written = {e.id : e \in ToSet(Worked.trail)}
        /\ AtOnce /\ ~Preview /\ in.job \in Mutating =>
             /\ Worked.count["changed"] = Cardinality(UNION {Done(m) : m \in DOMAIN After})
             /\ Worked.count["scanned"] = Worked.count["changed"] + Worked.count["skipped"]
        /\ AtOnce /\ ~Preview /\ in.race.when = "never" /\ in.job \in Mutating =>
             again.work.rows = After /\ again.work.count["changed"] = 0

(* A purge that is called verified left a tombstone without content, only   *)
(* deleted rows lose their content, and what was cleared can be proved      *)
(* deleted. A job that went through at once verified or reported every      *)
(* purge it made, and when it passed the deletion check no memory that was  *)
(* deleted at its listing can be reached.                                   *)
PurgesAreProved ==
  LET in == asked.in IN
  asked.about = "jobs" =>
    /\ \A m \in DOMAIN After :
         /\ Told("memory_vector_purge_verified", m) => After[m].cleared
         /\ After[m].cleared => After[m].status = "deleted" /\ ~(in.rows[m].held /\ ~in.rows[m].cleared)
         /\ AtOnce /\ Told("deletion_verification_passed", "none") /\ in.rows[m].status = "deleted"
              => ~Reachable(After[m])
         /\ Told("memory_content_compacted", m) /\ After[m].status = "deleted"
              => DeletionProof(After[m], Worked.trail, m)
         /\ AtOnce /\ Told("memory_content_compacted", m)
              => Told("memory_vector_purge_verified", m) \/ Told("memory_vector_purge_failed", m)
    /\ AtOnce => (Worked.status = "completed_with_findings"
                   <=> \E m \in DOMAIN After : Told("memory_vector_purge_failed", m)
                                              \/ Told("deletion_verification_failed", m))

\* ---- the schema ----

\* Two passes over the migrations, each stopped after some statement or none.
AskSchema ==
  /\ NotAsked
  /\ \E first, second \in Stops :
       Ask("schema", [stopped |-> second, database |-> Pass(Pass(EmptyDatabase, first), second)])

OfTenants == Tables \ {"worker_leases"}

\* What the evidence calls of a tenant answer on a connection of some role.
EvidenceReadsApart(db, role, active, wanted) ==
  LET runs == ListLoopRuns(db, role, active, wanted) IN
  /\ runs \cup ListLoopEvents(db, role, active, wanted) \cup ListWorkerRuns(db, role, active, wanted)
       \cup Metrics(db, role, active, wanted) \cup UpsertSettings(db, role, active, wanted)
       \subseteq Unanswered \cup {wanted}
  /\ AddLoopRun(db, role, active, wanted) <=> runs = {wanted}
  /\ \A run \in Scopes :
       /\ AddLoopEvent(db, role, active, wanted, run) <=> run \in runs
       /\ AddLoopEvent(db, role, active, wanted, run) => UpdateLoopRun(db, role, active, wanted, run)

\* Called outside a transaction, both backends answer the same.
BackendsAgree(db, role, wanted) ==
  /\ ListLoopRuns(db, role, NoSession, wanted) = LoopRunsInMemory(wanted)
  /\ ListLoopEvents(db, role, NoSession, wanted) = LoopEventsInMemory(wanted)
  /\ wanted # NoTenant => ListWorkerRuns(db, role, NoSession, wanted) = WorkerRunsInMemory(wanted)

\* The transactions a call may find open.
Joined == Scopes \cup {NoTenant, NoSession}

\* Whoever row security binds sees no tenant but the one asked for.
SessionsApart(db) ==
  \A role \in {"owner", "member"}, active \in Joined, wanted \in Scopes \cup {NoTenant} :
    Scoped(active, wanted) # "refused" => \A t \in OfTenants :
      Visible(db, role, Scoped(active, wanted), t)
        \subseteq (IF wanted = NoTenant THEN {active} ELSE {wanted})

EvidenceApart(db) ==
  \A role \in {"superuser", "owner", "member"}, active \in Joined, wanted \in Scopes \cup {NoTenant} :
    EvidenceReadsApart(db, role, active, wanted)

\* What a complete schema shows everybody.
ShowsOwn(db) ==
  /\ CurrentSchema(db) /\ ListWorkerRunsOperational(db, TRUE) = Scopes
  /\ \A role \in {"owner", "member"}, x \in Scopes, t \in OfTenants : Visible(db, role, x, t) = {x}
  /\ \A role \in {"superuser", "owner", "member"}, x \in Scopes \cup {NoTenant} :
       BackendsAgree(db, role, x)

VerifierIsRight(db, whole) ==
  \A admin \in {"superuser", "owner"}, x, y \in Scopes :
    x # y =>
      /\ whole => CheckRlsPolicies(db, admin, x, y)
      /\ CheckRlsPolicies(db, admin, x, y) =>
           \A role \in {"owner", "member"}, t \in OfTenants : Visible(db, role, x, t) \subseteq {x}

(* However often the migrations were run and wherever they stopped, they    *)
(* can be run again; once the API starts on the result, and ever after, no  *)
(* session under row security sees a row of a tenant it did not ask for, by *)
(* whichever call inside whichever transaction; a complete pass shows every *)
(* tenant its own rows, and only then does the verifier of the policies say *)
(* so. The evidence calls show no foreign row even where row security does  *)
(* not bind the connection, take an event exactly for a run they show, and  *)
(* on a complete schema answer as the in-memory backend does.               *)
TenantsStayApart ==
  LET db == asked.in.database
      whole == asked.in.stopped = Whole
  IN  asked.about = "schema" =>
        /\ ~db.failed
        /\ CurrentSchema(db) => SessionsApart(db) /\ EvidenceApart(db)
        /\ whole => ShowsOwn(db)
        /\ VerifierIsRight(db, whole)

Next == \/ AskChain \/ AddRow \/ AskAncestry \/ AskForgetting \/ AskAnswer
        \/ AskStart \/ AskCapture \/ AskLimiter \/ AnotherArrives \/ AskApi \/ AskIdentity
        \/ AskConsole \/ AskJobs \/ AskSchema

Spec == Init /\ [][Next]_asked
=============================================================================

----------------------------- MODULE Deployment -----------------------------
(***************************************************************************)
(* From the environment of a process to its settings, the refusal of an    *)
(* unsafe production start, and what the readiness probe then says.        *)
(*                                                                         *)
(* An environment gives each variable a value or Unset; keys and modules   *)
(* are the provider keys and the client packages it has.                   *)
(***************************************************************************)
EXTENDS Naturals

Unset == "unset"

\* A switch: any value but 0, false and no means on.
Flag(value, default) == IF value = Unset THEN default ELSE value # "off"

\* A choice: a value the code does not know is as good as none.
Choice(value, known, default) == IF value \in known THEN value ELSE default

Controls == {"policy_broker", "transactional_evidence", "tombstone_propagation"}

Gates == {"admission", "recall", "output"}

Ablated(env, control) == env.governance = "disabled" \/ Flag(env.ablate[control], FALSE)

LlmModule == [openai |-> "openai", anthropic |-> "anthropic", gemini |-> "google.genai"]

VectorModule == [qdrant |-> "qdrant_client", lancedb |-> "lancedb", weaviate |-> "weaviate"]

\* What a process that sets nothing runs with: for a demo without infrastructure.
Defaults ==
  [profile |-> "dev", governance |-> "full", gates |-> TRUE, cors |-> "star", publicEvals |-> FALSE]

BackendDefaults ==
  [storage |-> "memory", dsn |-> "demo", vectorIndex |-> "memory", llm |-> "stub",
   embeddings |-> "stub"]

AuthDefaults == [auth |-> "none", roleClaim |-> FALSE]

Settings(env) ==
  [profile     |-> Choice(env.profile, {"dev", "production"}, Defaults.profile),
   governance  |-> Choice(env.governance, {"full", "disabled"}, Defaults.governance),
   controls    |-> {c \in Controls : ~Ablated(env, c)},
   gates       |-> {g \in Gates : Flag(env.gate[g], Defaults.gates /\ env.governance # "disabled")},
   storage     |-> Choice(env.storage, {"memory", "postgres"}, BackendDefaults.storage),
   demoDsn     |-> (IF env.dsn = Unset THEN BackendDefaults.dsn ELSE env.dsn) = "demo",
   auth        |-> Choice(env.auth, {"none", "trusted_header", "jwt"}, AuthDefaults.auth),
   roleClaim   |-> Flag(env.roleClaim, AuthDefaults.roleClaim),
   anyOrigin   |-> (IF env.cors = Unset THEN Defaults.cors ELSE env.cors) # "listed",
   publicEvals |-> Flag(env.publicEvals, Defaults.publicEvals),
   apiDocs     |-> env.apiDocs,
   llm         |-> Choice(env.llm, DOMAIN LlmModule, BackendDefaults.llm),
   embeddings  |-> Choice(env.embeddings, {"openai"}, BackendDefaults.embeddings),
   vectorIndex |-> Choice(env.vectorIndex, DOMAIN VectorModule, BackendDefaults.vectorIndex)]

DocsEnabled(s) == Flag(s.apiDocs, s.profile # "production")

\* ---- production_readiness_errors ----

BasicErrors(s) ==
  {e \in {"storage", "auth", "cors", "dsn", "evals", "role claim"} :
     CASE e = "storage"    -> s.storage # "postgres"
       [] e = "auth"       -> s.auth = "none"
       [] e = "cors"       -> s.anyOrigin
       [] e = "dsn"        -> s.storage = "postgres" /\ s.demoDsn
       [] e = "evals"      -> s.publicEvals
       [] e = "role claim" -> s.auth # "none" /\ ~s.roleClaim}

ProviderErrorsOfKeys(s, env) ==
  (IF s.llm # "stub" /\ s.llm \notin env.keys THEN {"llm"} ELSE {})
    \cup (IF s.embeddings = "openai" /\ "openai" \notin env.keys THEN {"embeddings"} ELSE {})

ProviderErrors(s, env) ==
  (IF s.llm # "stub" /\ (s.llm \notin env.keys \/ LlmModule[s.llm] \notin env.modules)
   THEN {"llm"} ELSE {})
    \cup (IF s.embeddings = "openai" /\ ("openai" \notin env.keys \/ "openai" \notin env.modules)
          THEN {"embeddings"} ELSE {})
    \cup (IF s.vectorIndex # "memory" /\ VectorModule[s.vectorIndex] \notin env.modules
          THEN {"vector index"} ELSE {})

\* An ablation variable disqualifies by being there, whatever it says.
GovernanceErrors(s, env) ==
  (IF s.governance # "full" THEN {"governance profile"} ELSE {})
    \cup (Controls \ s.controls) \cup (Gates \ s.gates)
    \cup (IF \E c \in Controls : env.ablate[c] # Unset THEN {"ablation variable"} ELSE {})

ReadinessErrors(s, env) ==
  IF s.profile # "production" THEN {}
  ELSE BasicErrors(s) \cup ProviderErrors(s, env) \cup GovernanceErrors(s, env)

\* The process serves, or raises while it is imported.
Starts(env) == ReadinessErrors(Settings(env), env) = {}

\* ---- probes ----

ProviderFault(s) == IF s.profile = "production" THEN "error" ELSE "degraded"

CheckLlmProvider(s, env) ==
  IF s.llm = "stub" THEN "ok"
  ELSE IF s.llm \notin env.keys \/ LlmModule[s.llm] \notin env.modules THEN ProviderFault(s)
  ELSE "ok"

CheckEmbeddingProvider(s, env) ==
  IF s.embeddings # "openai" THEN "ok"
  ELSE IF "openai" \notin env.keys \/ "openai" \notin env.modules THEN ProviderFault(s)
  ELSE "ok"

CheckVectorBackend(s, env, reachable) ==
  IF s.vectorIndex = "memory" THEN "ok"
  ELSE IF VectorModule[s.vectorIndex] \notin env.modules \/ ~reachable THEN ProviderFault(s)
  ELSE "ok"

StaleIntervals == 3

\* runs: whether there is an operational connection, and the newest run's age in intervals.
CheckWorkerRuntime(runs) ==
  IF ~runs.access THEN "skipped"
  ELSE IF ~runs.any THEN "degraded"
  ELSE IF runs.age > StaleIntervals THEN "error"
  ELSE IF runs.deadLetters THEN "degraded"
  ELSE "ok"

CheckStorage(reachable) == IF reachable THEN "ok" ELSE "error"

CheckSchema(s, reachable) ==
  IF s.storage # "postgres" THEN "skipped" ELSE CheckStorage(reachable)

ReadinessReport(s, env, world) ==
  LET checks == [storage |-> CheckStorage(world.database),
                 schema |-> CheckSchema(s, world.database),
                 vector_backend |-> CheckVectorBackend(s, env, world.index),
                 worker_runtime |-> CheckWorkerRuntime(world.runs),
                 llm_provider |-> CheckLlmProvider(s, env),
                 embedding_provider |-> CheckEmbeddingProvider(s, env)]
  IN  [ready |-> \A c \in DOMAIN checks : checks[c] # "error",
       degraded |-> \E c \in DOMAIN checks : checks[c] = "degraded",
       checks |-> checks]

\* Without authentication production tells only whether it is ready.
Readyz(s, env, world) ==
  LET report == ReadinessReport(s, env, world) IN
  IF s.profile = "production" THEN [ready |-> report.ready, degraded |-> report.degraded]
  ELSE report
=============================================================================

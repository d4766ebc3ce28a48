------------------------------ MODULE Capture ------------------------------
(***************************************************************************)
(* From what a user said to what is stored: the message without its        *)
(* instructions about memory, a provider that may fail or invent, the      *)
(* heuristic it falls back on, the classifier and the policy broker.       *)
(*                                                                         *)
(* A text is a sequence of phrases. Of a phrase the code only ever asks    *)
(* which of its pattern families match it, so that set is the phrase; then *)
(* is what separates it from the next one.                                 *)
(***************************************************************************)
EXTENDS Naturals, Sequences, SequencesExt, FiniteSets, FiniteSetsExt

Families == {"framing", "medical", "credential", "secret", "pii", "injection",
             "never", "remember", "states"}

Separators == {". ", "; ", ", but ", ", I ", " "}

Matched(text) == UNION {text[i].phrase : i \in DOMAIN text}

\* The pieces of a text between separators of a kind, each with its last separator.
Pieces(text, cuts) ==
  LET ends == SetToSortSeq({i \in DOMAIN text : text[i].then \in cuts \/ i = Len(text)}, <)
  IN  [c \in DOMAIN ends |-> SubSeq(text, IF c = 1 THEN 1 ELSE ends[c - 1] + 1, ends[c])]

\* ---- classification ----

SplitClauses(text) == Pieces(text, {". ", "; ", ", but "})

IsEducational(clause) == "framing" \in Matched(clause)

\* A negation and, within the few words the pattern spans, a verb of remembering.
ClauseIsMemoryControl(clause) ==
  \E i, j \in DOMAIN clause :
    j \in {i, i + 1} /\ "never" \in clause[i].phrase /\ "remember" \in clause[j].phrase

IsMemoryControl(text) == \E c \in ToSet(SplitClauses(text)) : ClauseIsMemoryControl(c)

\* The other clauses, joined by spaces: a full stop is its clause's last
\* character, a semicolon or the comma before "but" is gone.
StripMemoryControlClauses(text) ==
  LET kept == SelectSeq(SplitClauses(text), LAMBDA c : ~ClauseIsMemoryControl(c))
      Joined(c) == IF Last(c).then = ". " THEN c
                   ELSE [c EXCEPT ![Len(c)].then = " "]
  IN  FlattenSeq([k \in DOMAIN kept |-> Joined(kept[k])])

Labels == {"low", "medium", "high"}

RankOf == [low |-> 0, medium |-> 1, high |-> 2]

Higher(a, b) == IF RankOf[b] > RankOf[a] THEN b ELSE a

ClassifyMessage(text) ==
  IF IsEducational(text) THEN {} ELSE Matched(text) \cap {"medical", "credential"}

\* The rules that fire in some clause that does not merely discuss the topic.
Classify(text) ==
  UNION {Matched(c) : c \in {d \in ToSet(SplitClauses(text)) : ~IsEducational(d)}}
    \cap {"medical", "credential"}

\* Scan of a text: the families that block it, and its sensitivity.
Blocking(text) ==
  (Matched(text) \cap {"secret", "injection"}) \cup (Classify(text) \cap {"credential"})

DetectedSensitivity(text) ==
  IF "secret" \in Matched(text) \/ Classify(text) # {} THEN "high"
  ELSE IF "pii" \in Matched(text) THEN "medium"
  ELSE "low"

\* ---- the heuristic ----

Memory(content, importance) == [content |-> content, importance |-> importance, label |-> "low"]

StripRememberPrefix(text) ==
  IF text[1].phrase \cap {"remember", "never"} = {"remember"}
  THEN [text EXCEPT ![1].phrase = @ \ {"remember"}] ELSE text

MaxMemories == 5

\* A statement is one memory, a list the user asked to keep one for each item.
HeuristicExtract(text) ==
  LET explicit == "remember" \in Matched(text)
      body == IF explicit THEN StripRememberPrefix(text) ELSE text
      items == SelectSeq(Pieces(body, {". ", "; ", ", I "}),
                         LAMBDA c : explicit \/ "states" \in Matched(c))
      AsMemory(c) == Memory([c EXCEPT ![Len(c)].then = ". "], IF explicit THEN 8 ELSE 6)
      first == SelectSeq([k \in DOMAIN items |-> k],
                         LAMBDA k : \A j \in 1..(k - 1) : AsMemory(items[j]) # AsMemory(items[k]))
  IN  IF ~explicit /\ "states" \notin Matched(text) THEN <<>>
      ELSE IF Len(items) <= 1 THEN <<AsMemory(body)>>
      ELSE [k \in 1..Min({Len(first), MaxMemories}) |-> AsMemory(items[first[k]])]

\* ---- the provider ----

\* A failure is the status the provider's SDK reports, or the class of one without.
RetryableStatus == {"408", "409", "429", "500", "503"}

IsRetryable(failure) == failure \in RetryableStatus \cup {"timeout", "connection"}

\* The reply complete returns, or what makes it unavailable; attempts are the
\* provider's answers in order, as many as it may be asked for.
Complete(attempts) ==
  LET ends == {k \in DOMAIN attempts : attempts[k].failure = "none" \/ ~IsRetryable(attempts[k].failure)}
  IN  IF ends = {} THEN Last(attempts) ELSE attempts[Min(ends)]

\* Forms of reply: the blob is cut out of a fence or of prose, then parsed and validated.
Parses(form) == form \in {"json", "fenced", "in prose"}

\* provider: "stub", or a network provider with a key and its answers.
ExtractMemories(provider, text, fallback) ==
  LET reply == Complete(provider.attempts)
      structured == provider.name # "stub" /\ reply.failure = "none" /\ Parses(reply.form)
  IN  IF provider.name = "stub" \/ ~provider.key THEN HeuristicExtract(text)
      ELSE IF structured THEN reply.memories
      ELSE IF fallback THEN HeuristicExtract(text)
      ELSE <<>>

ExtractTurn(provider, message, fallback) ==
  LET text == StripMemoryControlClauses(message)
  IN  IF text = <<>> THEN <<>> ELSE ExtractMemories(provider, text, fallback)

\* ---- the broker ----

MinImportance == 4

Outcome(decision, label) == [decision |-> decision, label |-> label]

\* similar: an active memory of the user has the same text.
EvaluateCandidate(memory, similar, requireApproval) ==
  LET label == Higher(memory.label, DetectedSensitivity(memory.content)) IN
  IF IsMemoryControl(memory.content) THEN Outcome("DROP_LOW_UTILITY", memory.label)
  ELSE IF Blocking(memory.content) # {} THEN Outcome("BLOCK", memory.label)
  ELSE IF similar THEN Outcome("UPDATE_EXISTING", label)
  ELSE IF memory.importance < MinImportance THEN Outcome("DROP_LOW_UTILITY", label)
  ELSE IF label # "low" /\ requireApproval THEN Outcome("PENDING_APPROVAL", label)
  ELSE Outcome("SAVE", label)

\* The same for the proposed text of an edit.
EvaluateUpdate(text, requireApproval) ==
  LET label == DetectedSensitivity(text) IN
  IF Blocking(text) # {} THEN Outcome("BLOCK", "low")
  ELSE IF label # "low" /\ requireApproval THEN Outcome("PENDING_APPROVAL", label)
  ELSE Outcome("SAVE", label)

\* The rows a turn adds: a candidate for each memory, its decision and its status.
Commit(memory, outcome) ==
  [content |-> memory.content, label |-> outcome.label,
   status |-> IF outcome.decision = "SAVE" THEN "active" ELSE "pending"]

Stored(memories, requireApproval) ==
  {Commit(m, EvaluateCandidate(m, FALSE, requireApproval)) :
     m \in {n \in ToSet(memories) :
              EvaluateCandidate(n, FALSE, requireApproval).decision \in {"SAVE", "PENDING_APPROVAL"}}}
=============================================================================

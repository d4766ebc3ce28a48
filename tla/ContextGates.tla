---------------------------- MODULE ContextGates ----------------------------
(***************************************************************************)
(* What of memory may enter a prompt and leave in an answer: the admission *)
(* gate with its walk up the lineage of a derived memory, the recall gate  *)
(* for the audience, and the output gate.                                  *)
(***************************************************************************)
EXTENDS Retention, Sequences, SequencesExt, FiniteSets

CONSTANTS
  Ids,                \* memory ids
  MaxAncestryNodes,   \* nodes the lineage walk visits before it gives up
  PhraseWords         \* a shared run of this many words is a disclosure

ASSUME GatesAssumption ==
  IsFiniteSet(Ids) /\ MaxAncestryNodes \in Nat /\ PhraseWords \in Nat \ {0, 1}

\* What a lookup of a purged or unknown id finds.
NoRow == [status |-> "none", tombstoned |-> TRUE, parents |-> <<>>]

\* ---- lineage ----

IsDerived(row) == row.parents # <<>>

IsTombstonedIfKept(row) == row # NoRow /\ (row.tombstoned \/ row.status = "deleted")

IsTombstoned(row) == row = NoRow \/ row.tombstoned \/ row.status = "deleted"

Clean == <<>>

\* Why the row may not be used - its first bad ancestor, depth first, or the cap - or Clean.
AncestryTombstone(rows, row) ==
  LET walk[at \in Seq(Ids) \X SUBSET Ids] ==
        LET stack == at[1]  seen == at[2]  pid == Last(stack) IN
        IF stack = <<>> THEN Clean
        ELSE IF Cardinality(seen) > MaxAncestryNodes THEN <<"too deep">>
        ELSE IF pid \in seen THEN walk[<<Front(stack), seen>>]
        ELSE IF IsTombstoned(rows[pid]) THEN <<pid>>
        ELSE walk[<<Front(stack) \o rows[pid].parents, seen \cup {pid}>>]
  IN  walk[<<row.parents, {}>>]

\* ---- admission ----

RetentionStatus(row, now) ==
  IF RetentionExempt(row) THEN "exempt"
  ELSE IF row.expiresAt = Forever THEN "none"
  ELSE IF now >= row.expiresAt THEN "expired"
  ELSE "active"

\* knobs: the two gates that are off unless an operator turns them on.
Decide(rows, row, inScope, now, knobs, lowScore) ==
  IF ~inScope THEN "BLOCK_WRONG_TENANT"
  ELSE IF row.status = "deleted" THEN "BLOCK_DELETED"
  ELSE IF row.status = "archived" THEN "BLOCK_ARCHIVED"
  ELSE IF row.status # "active" THEN "BLOCK_INACTIVE"
  ELSE IF ConsentRevoked(row, now) THEN "BLOCK_CONSENT_WITHDRAWN"
  ELSE IF RetentionStatus(row, now) = "expired" THEN "BLOCK_EXPIRED"
  ELSE IF IsDerived(row) /\ AncestryTombstone(rows, row) # Clean THEN "BLOCK_TOMBSTONED_ANCESTOR"
  ELSE IF "sensitive" \in knobs /\ row.sensitivity = "high" THEN "BLOCK_SENSITIVE"
  ELSE IF "score" \in knobs /\ lowScore THEN "BLOCK_LOW_CONFIDENCE"
  ELSE "ALLOW"

\* ---- recall ----

Rank == [low |-> 0, medium |-> 1, high |-> 2]

\* The label, or what the classifier says of the text now when that is higher.
EffectiveSensitivity(row) ==
  IF Rank[row.detected] > Rank[row.sensitivity] THEN row.detected ELSE row.sensitivity

Clearance == [private |-> Sensitivities, team |-> {"low", "medium"}, public |-> {"low"}]

Recallable(row, audience) ==
  EffectiveSensitivity(row)
    \in Clearance[IF audience \in DOMAIN Clearance THEN audience ELSE "private"]

\* ---- output ----

Redaction == "[redacted]"

\* The runs of PhraseWords words of a text; texts are sequences of words.
Phrases(text) ==
  {SubSeq(text, i, i + PhraseWords - 1) : i \in 1..(Len(text) - PhraseWords + 1)}

CoveredOnce(answer, withheld) ==
  {i \in 1..(Len(answer) - PhraseWords + 1) :
     SubSeq(answer, i, i + PhraseWords - 1) \in UNION {Phrases(t) : t \in withheld}}

\* The positions of the answer that some run shared with a withheld text covers.
Covered(answer, withheld) ==
  LET shared == {i \in 1..(Len(answer) - PhraseWords + 1) :
                   SubSeq(answer, i, i + PhraseWords - 1) \in UNION {Phrases(t) : t \in withheld}}
  IN  UNION {i..(i + PhraseWords - 1) : i \in shared}

\* Every maximal covered run becomes one Redaction.  Words are atoms here: the
\* code finds them in the lowered answer and cuts the original at their places,
\* which are the same only as long as lowering keeps the length of the text.
RedactRuns(answer, covered) ==
  LET out[i \in 0..Len(answer)] ==
        IF i = 0 THEN <<>>
        ELSE IF i \notin covered THEN Append(out[i - 1], answer[i])
        ELSE IF i - 1 \notin covered THEN Append(out[i - 1], Redaction)
        ELSE out[i - 1]
  IN  out[Len(answer)]

Refusal == <<"refusal">>

Review(answer, withheld, mode) ==
  LET covered == Covered(answer, withheld) IN
  IF covered = {} THEN answer
  ELSE IF mode = "refuse" THEN Refusal
  ELSE RedactRuns(answer, covered)
=============================================================================

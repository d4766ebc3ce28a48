-------------------------- MODULE AlgorithmProofs --------------------------
(* Proofs about the algorithms of HashChain, ContextGates and Retention,    *)
(* for every input: verify_chain answers ok for the sets of rows that are   *)
(* one chain and for no others; what the walk up the lineage of a derived   *)
(* memory answers; what the gate and the retention worker make of the same  *)
(* row at every moment; what redaction leaves of a text.                    *)
EXTENDS HashChain, ContextGates, FiniteSetTheorems, SequenceTheorems, WellFoundedInduction, TLAPS

(* Induction over the natural numbers, for a set in place of a predicate.   *)
LEMMA SetInduction ==
  ASSUME NEW S \in SUBSET Nat, 0 \in S, \A n \in S : n + 1 \in S
  PROVE  S = Nat
  <1> DEFINE R == OpToRel(<, Nat)
             T == Nat \ S
  <1>1. IsWellFoundedOn(R, Nat)
    BY NatLessThanWellFounded
  <1>2. \A x, y \in Nat : x < y => <<x, y>> \in R
    BY DEF OpToRel
  <1> HIDE DEF R
  <1>3. ASSUME T # {} PROVE FALSE
    <2>1. PICK x \in T : \A y \in T : ~(<<y, x>> \in R)
      BY <1>1, <1>3, WFMin
    <2>2. x \in Nat /\ x # 0 /\ x - 1 \in Nat /\ x - 1 < x
      BY <2>1
    <2>3. x - 1 \in S
      BY <1>2, <2>1, <2>2
    <2>4. (x - 1) + 1 \in S
      BY <2>3
    <2> QED
      BY <2>1, <2>2, <2>4
  <1> QED
    BY <1>3

-----------------------------------------------------------------------------
(* The walk.  It is defined by recursion on its turns, so it first has to   *)
(* exist; then it is known by what each turn makes of the one before.       *)
Start == [prev |-> GENESIS, walked |-> 0, detail |-> "walking"]

IsWalk(w, rows, n) ==
  w = [k \in 0..n |-> IF k = 0 THEN Start ELSE Turn(rows, w[k - 1])]

LEMMA WalkExists ==
  ASSUME NEW rows
  PROVE  \A n \in Nat : \E w : IsWalk(w, rows, n)
  <1> DEFINE S == {n \in Nat : \E w : IsWalk(w, rows, n)}
  <1>1. 0 \in S
    <2>1. PICK w : w = [k \in 0..0 |-> Start]
      OBVIOUS
    <2>2. IsWalk(w, rows, 0)
      BY <2>1 DEF IsWalk
    <2> QED
      BY <2>2
  <1>2. ASSUME NEW n \in S PROVE n + 1 \in S
    <2>1. PICK w : IsWalk(w, rows, n)
      OBVIOUS
    <2>2. PICK v : v = [k \in 0..n + 1 |-> IF k = n + 1 THEN Turn(rows, w[n]) ELSE w[k]]
      OBVIOUS
    <2>3. \A k \in 0..n : v[k] = w[k]
      BY <2>2
    <2>4. ASSUME NEW k \in 0..n + 1
          PROVE  v[k] = IF k = 0 THEN Start ELSE Turn(rows, v[k - 1])
      <3>1. CASE k = n + 1
        BY <2>2, <2>3, <3>1
      <3>2. CASE k \in 0..n
        <4>1. v[k] = w[k] /\ (k # 0 => v[k - 1] = w[k - 1])
          BY <2>3, <3>2
        <4> QED
          BY <2>1, <3>2, <4>1 DEF IsWalk
      <3> QED
        BY <2>4, <3>1, <3>2
    <2>5. v = [k \in 0..n + 1 |-> v[k]]
      BY <2>2
    <2>6. IsWalk(v, rows, n + 1)
      BY <2>4, <2>5 DEF IsWalk
    <2> QED
      BY <2>6
  <1> HIDE DEF S
  <1>3. S \in SUBSET Nat
    BY DEF S
  <1>4. S = Nat
    BY <1>1, <1>2, <1>3, SetInduction
  <1> QED
    BY <1>4 DEF S

LEMMA WalkIsAWalk ==
  ASSUME NEW rows, IsFiniteSet(rows)
  PROVE  \E w : /\ IsWalk(w, rows, Cardinality(rows) + 1)
                /\ Walk(rows) = w[Cardinality(rows) + 1]
  <1> DEFINE N == Cardinality(rows) + 1
  <1>1. N \in Nat
    BY FS_CardinalityType
  <1>2. \E w : w = [k \in 0..N |-> IF k = 0 THEN Start ELSE Turn(rows, w[k - 1])]
    BY <1>1, WalkExists DEF IsWalk
  <1>3. Walk(rows) = (CHOOSE w : w = [k \in 0..N |-> IF k = 0 THEN Start ELSE Turn(rows, w[k - 1])])[N]
    BY DEF Walk, Start
  <1> HIDE DEF N
  <1> QED
    BY <1>2, <1>3 DEF IsWalk, N

-----------------------------------------------------------------------------
(* One turn: it moves on over the only row that links here, if that row is  *)
(* hashed as it should be, or it stops where it is.                         *)
ChainRow(S) == [id: S, prev: Seq(S), hash: Seq(S)]

WalkState(S) == [prev: Seq(S), walked: Nat, detail: {"walking", "end", "fork", "edited"}]

Advances(rows, w, e) ==
  /\ Linked(rows, w.prev) = {e}
  /\ e = Entry(e.id, w.prev)
  /\ Turn(rows, w) = [prev |-> e.hash, walked |-> w.walked + 1, detail |-> "walking"]

LEMMA TurnFromWalking ==
  ASSUME NEW S, NEW rows \in SUBSET ChainRow(S), IsFiniteSet(rows),
         NEW w \in WalkState(S), w.detail = "walking"
  PROVE  \/ \E e \in rows : Advances(rows, w, e)
         \/ /\ Turn(rows, w) \in WalkState(S) /\ Turn(rows, w).detail # "walking"
            /\ Turn(rows, w).walked = w.walked
  <1> DEFINE next == Linked(rows, w.prev)
  <1>0. next \in SUBSET rows /\ IsFiniteSet(next)
    BY FS_Subset DEF Linked
  <1>1. \A d \in {"end", "fork", "edited"} :
          /\ [w EXCEPT !.detail = d] \in WalkState(S)
          /\ [w EXCEPT !.detail = d].detail # "walking"
          /\ [w EXCEPT !.detail = d].walked = w.walked
    BY DEF WalkState
  <1>2. CASE next = {}
    BY <1>1, <1>2 DEF Turn
  <1>3. CASE next # {} /\ Cardinality(next) # 1
    BY <1>1, <1>3 DEF Turn
  <1>4. CASE Cardinality(next) = 1
    <2>1. PICK e : next = {e}
      BY <1>0, <1>4, FS_Singleton
    <2>2. e \in rows /\ e.prev = w.prev /\ (CHOOSE x \in next : TRUE) = e /\ next # {}
      BY <1>0, <2>1 DEF Linked
    <2>3. Turn(rows, w) = IF e.hash # ComputeEntryHash(e.id, w.prev)
                          THEN [w EXCEPT !.detail = "edited"]
                          ELSE [prev |-> e.hash, walked |-> w.walked + 1, detail |-> "walking"]
      BY <1>4, <2>2 DEF Turn
    <2>4. CASE e.hash # ComputeEntryHash(e.id, w.prev)
      BY <1>1, <2>3, <2>4
    <2>5. CASE e.hash = ComputeEntryHash(e.id, w.prev)
      <3>1. e = [id |-> e.id, prev |-> e.prev, hash |-> e.hash]
        BY <2>2 DEF ChainRow
      <3>2. Advances(rows, w, e)
        BY <2>1, <2>2, <2>3, <2>5, <3>1 DEF Advances, Entry
      <3> QED
        BY <2>2, <3>2
    <2> QED
      BY <2>4, <2>5
  <1> QED
    BY <1>2, <1>3, <1>4

(* A walk has visited a row per turn for as long as it is walking, at most  *)
(* as many once it has stopped, and stands where it stopped.                *)
Visiting(S, w, k) ==
  /\ w[k] \in WalkState(S)
  /\ w[k].detail = "walking" => w[k].walked = k /\ Len(w[k].prev) = k
  /\ w[k].detail # "walking" => w[k].walked < k

LEMMA WalkVisits ==
  ASSUME NEW S, NEW rows \in SUBSET ChainRow(S), IsFiniteSet(rows),
         NEW n \in Nat, NEW w, IsWalk(w, rows, n)
  PROVE  \A k \in 0..n :
           /\ Visiting(S, w, k)
           /\ \A j \in 0..k : w[j].detail # "walking" => w[k] = w[j]
  <1> DEFINE Good(k) == /\ Visiting(S, w, k)
                        /\ \A j \in 0..k : w[j].detail # "walking" => w[k] = w[j]
             G == {k \in Nat : k <= n => Good(k)}
  <1>1. 0 \in G
    <2>1. w[0] = Start
      BY DEF IsWalk
    <2>2. Start \in WalkState(S) /\ Start.detail = "walking" /\ Start.walked = 0 /\ Len(Start.prev) = 0
      BY DEF Start, WalkState, GENESIS
    <2> QED
      BY <2>1, <2>2 DEF Visiting
  <1>2. ASSUME NEW k \in G PROVE k + 1 \in G
    <2> SUFFICES ASSUME k + 1 <= n PROVE Good(k + 1)
      OBVIOUS
    <2>1. w[k + 1] = Turn(rows, w[k])
      BY DEF IsWalk
    <2>2. Good(k)
      OBVIOUS
    <2>3. CASE w[k].detail # "walking"
      <3>1. w[k + 1] = w[k]
        BY <2>1, <2>3 DEF Turn
      <3> QED
        BY <2>2, <2>3, <3>1 DEF Visiting, WalkState
    <2>4. CASE w[k].detail = "walking"
      <3>1. \A j \in 0..k : w[j].detail = "walking"
        BY <2>2, <2>4
      <3>2. w[k] \in WalkState(S) /\ w[k].walked = k /\ Len(w[k].prev) = k
        BY <2>2, <2>4 DEF Visiting
      <3>3. CASE \E e \in rows : Advances(rows, w[k], e)
        <4>1. PICK e \in rows : Advances(rows, w[k], e)
          BY <3>3
        <4>2. e.hash = Append(w[k].prev, e.id) /\ e.id \in S /\ w[k].prev \in Seq(S)
          BY <3>2, <4>1 DEF Advances, Entry, ComputeEntryHash, ChainRow, WalkState
        <4>3. e.hash \in Seq(S) /\ Len(e.hash) = k + 1
          BY <3>2, <4>2
        <4>4. w[k + 1] = [prev |-> e.hash, walked |-> k + 1, detail |-> "walking"]
          BY <2>1, <3>2, <4>1 DEF Advances
        <4>5. Visiting(S, w, k + 1)
          BY <4>3, <4>4 DEF Visiting, WalkState
        <4> QED
          BY <3>1, <4>4, <4>5
      <3>4. CASE /\ Turn(rows, w[k]) \in WalkState(S) /\ Turn(rows, w[k]).detail # "walking"
                 /\ Turn(rows, w[k]).walked = w[k].walked
        BY <2>1, <3>1, <3>2, <3>4 DEF Visiting
      <3> QED
        BY <2>4, <3>2, <3>3, <3>4, TurnFromWalking
    <2> QED
      BY <2>3, <2>4
  <1> HIDE DEF Good
  <1>3. G \in SUBSET Nat
    OBVIOUS
  <1> HIDE DEF G
  <1>4. G = Nat
    BY <1>1, <1>2, <1>3, SetInduction
  <1> QED
    BY <1>4 DEF G, Good

-----------------------------------------------------------------------------
(* What verify_chain accepts is a chain: the rows in the order of the visit *)
(* are the line.                                                            *)
LEMMA VerifiedIsChain ==
  ASSUME NEW S, NEW rows \in SUBSET ChainRow(S), IsFiniteSet(rows), VerifyChain(rows)
  PROVE  IsChain(rows)
  <1>0. PICK n \in Nat : n = Cardinality(rows)
    BY FS_CardinalityType
  <1>1. PICK w : IsWalk(w, rows, n + 1) /\ Walk(rows) = w[n + 1]
    BY <1>0, WalkIsAWalk
  <1>2. w[n + 1].detail = "end" /\ w[n + 1].walked = n
    BY <1>0, <1>1 DEF VerifyChain
  <1>3. \A k \in 0..n + 1 :
          /\ Visiting(S, w, k)
          /\ \A j \in 0..k : w[j].detail # "walking" => w[k] = w[j]
    BY <1>0, <1>1, WalkVisits
  <1>4. ASSUME NEW k \in 0..n PROVE w[k].detail = "walking"
    <2>1. CASE w[k].detail # "walking"
      <3>1. w[n + 1] = w[k]
        BY <1>3, <2>1
      <3>2. w[k].walked < k
        BY <1>3, <2>1 DEF Visiting
      <3> QED
        BY <1>2, <3>1, <3>2
    <2> QED
      BY <2>1
  <1>5. \A k \in 1..n : \E e \in rows : Advances(rows, w[k - 1], e) /\ w[k].prev = e.hash
    <2> TAKE k \in 1..n
    <2>1. k - 1 \in 0..n /\ k \in 0..n /\ w[k - 1] \in WalkState(S)
          /\ w[k - 1].detail = "walking" /\ w[k].detail = "walking"
      BY <1>3, <1>4 DEF Visiting
    <2>2. w[k] = Turn(rows, w[k - 1])
      BY <1>1, <2>1 DEF IsWalk
    <2>3. PICK e \in rows : Advances(rows, w[k - 1], e)
      BY <2>1, <2>2, TurnFromWalking
    <2>4. w[k].prev = e.hash
      BY <2>2, <2>3 DEF Advances
    <2> QED
      BY <2>3, <2>4
  <1> DEFINE line == [i \in 1..n |-> CHOOSE e \in rows :
                                       Advances(rows, w[i - 1], e) /\ w[i].prev = e.hash]
  <1>6. \A i \in 1..n : line[i] \in rows /\ Advances(rows, w[i - 1], line[i]) /\ w[i].prev = line[i].hash
    BY <1>5
  <1>7. line \in [1..n -> rows]
    BY <1>6
  <1>l. DOMAIN line = 1..n
    OBVIOUS
  <1> HIDE DEF line
  <1>8. \A i \in 1..n : line[i] = Entry(line[i].id, IF i = 1 THEN GENESIS ELSE line[i - 1].hash)
    <2> TAKE i \in 1..n
    <2>1. line[i] = Entry(line[i].id, w[i - 1].prev)
      BY <1>6 DEF Advances
    <2>2. CASE i = 1
      BY <1>1, <2>1, <2>2 DEF IsWalk, Start
    <2>3. CASE i # 1
      <3>1. w[i - 1].prev = line[i - 1].hash
        BY <1>6, <2>3
      <3> QED
        BY <2>1, <2>3, <3>1
    <2> QED
      BY <2>2, <2>3
  <1>9. \A i \in 1..n : Len(line[i].hash) = i
    BY <1>3, <1>4, <1>6 DEF Visiting
  <1>10. line \in Injection(1..n, rows)
    BY <1>7, <1>9 DEF Injection, IsInjective
  <1>11. Cardinality(1..n) = n /\ IsFiniteSet(1..n)
    BY FS_Interval
  <1>12. line \in Surjection(1..n, rows)
    BY <1>0, <1>10, <1>11, FS_Injection
  <1>13. \A e \in rows : \E i \in 1..n : line[i] = e
    BY <1>12 DEF Surjection
  <1> QED
    BY <1>0, <1>7, <1>l, <1>8, <1>13 DEF IsChain

(* A chain is accepted: exactly one row links to each place of the line.    *)
LEMMA ChainIsVerified ==
  ASSUME NEW S, NEW rows \in SUBSET ChainRow(S), IsFiniteSet(rows), IsChain(rows)
  PROVE  VerifyChain(rows)
  <1>0. PICK n \in Nat : n = Cardinality(rows)
    BY FS_CardinalityType
  <1>1. PICK line \in [1..n -> rows] :
          /\ \A e \in rows : \E i \in 1..n : line[i] = e
          /\ \A i \in 1..n :
               line[i] = Entry(line[i].id, IF i = 1 THEN GENESIS ELSE line[i - 1].hash)
    BY <1>0 DEF IsChain
  <1> DEFINE At(k) == IF k = 0 THEN GENESIS ELSE line[k].hash
  <1>2. \A i \in 1..n : /\ line[i] \in rows /\ line[i].id \in S
                        /\ line[i].prev = At(i - 1) /\ line[i].hash = Append(At(i - 1), line[i].id)
                        /\ line[i].prev \in Seq(S)
    <2> TAKE i \in 1..n
    <2>1. line[i] \in ChainRow(S)
      BY <1>1
    <2>2. At(i - 1) = IF i = 1 THEN GENESIS ELSE line[i - 1].hash
      OBVIOUS
    <2>3. line[i] = Entry(line[i].id, At(i - 1))
      BY <1>1, <2>2
    <2> HIDE DEF At
    <2> QED
      BY <1>1, <2>1, <2>3 DEF Entry, ComputeEntryHash, ChainRow
  <1>3. \A k \in 0..n : At(k) \in Seq(S) /\ Len(At(k)) = k
    <2> DEFINE G == {k \in Nat : k <= n => At(k) \in Seq(S) /\ Len(At(k)) = k}
    <2>1. 0 \in G
      BY DEF GENESIS
    <2>2. ASSUME NEW k \in G PROVE k + 1 \in G
      <3> SUFFICES ASSUME k + 1 <= n PROVE At(k + 1) \in Seq(S) /\ Len(At(k + 1)) = k + 1
        OBVIOUS
      <3>1. k + 1 \in 1..n /\ (k + 1) - 1 = k /\ At(k) \in Seq(S) /\ Len(At(k)) = k
        OBVIOUS
      <3>2. At(k + 1) = line[k + 1].hash
        BY <3>1
      <3>3. line[k + 1].hash = Append(At(k), line[k + 1].id) /\ line[k + 1].id \in S
        BY <1>2, <3>1
      <3> HIDE DEF At
      <3>4. PICK p, x : p = At(k) /\ x = line[k + 1].id
        OBVIOUS
      <3>5. p \in Seq(S) /\ x \in S /\ Len(p) = k
        BY <3>1, <3>3, <3>4
      <3>6. Append(p, x) \in Seq(S) /\ Len(Append(p, x)) = k + 1
        BY <3>5
      <3> QED
        BY <3>2, <3>3, <3>4, <3>6
    <2>3. G \in SUBSET Nat
      OBVIOUS
    <2> HIDE DEF G
    <2>4. G = Nat
      BY <2>1, <2>2, <2>3, SetInduction
    <2> QED
      BY <2>4 DEF G
  <1> HIDE DEF At
  <1>4. \A k \in 0..n - 1 : Linked(rows, At(k)) = {line[k + 1]}
    <2> TAKE k \in 0..n - 1
    <2>1. k + 1 \in 1..n /\ (k + 1) - 1 = k
      OBVIOUS
    <2>2. line[k + 1] \in Linked(rows, At(k))
      BY <1>2, <2>1 DEF Linked
    <2>3. ASSUME NEW e \in Linked(rows, At(k)) PROVE e = line[k + 1]
      <3>1. PICK j \in 1..n : line[j] = e
        BY <1>1 DEF Linked
      <3>2. At(j - 1) = At(k) /\ j - 1 \in 0..n /\ k \in 0..n
        BY <1>2, <3>1 DEF Linked
      <3>3. j - 1 = k
        BY <1>3, <3>2
      <3> QED
        BY <3>1, <3>3
    <2> QED
      BY <2>2, <2>3
  <1>5. Linked(rows, At(n)) = {}
    <2>1. ASSUME NEW e \in Linked(rows, At(n)) PROVE FALSE
      <3>1. PICK j \in 1..n : line[j] = e
        BY <1>1, <2>1 DEF Linked
      <3>2. At(j - 1) = At(n) /\ j - 1 \in 0..n /\ n \in 0..n
        BY <1>2, <2>1, <3>1 DEF Linked
      <3> QED
        BY <1>3, <3>2
    <2> QED
      BY <2>1
  <1>6. PICK w : IsWalk(w, rows, n + 1) /\ Walk(rows) = w[n + 1]
    BY <1>0, WalkIsAWalk
  <1> DEFINE Here(k) == [prev |-> At(k), walked |-> k, detail |-> "walking"]
  <1>7. \A k \in 0..n : w[k] = Here(k)
    <2> DEFINE G == {k \in Nat : k <= n => w[k] = Here(k)}
    <2>1. 0 \in G
      BY <1>6 DEF IsWalk, Start, At
    <2>2. ASSUME NEW k \in G PROVE k + 1 \in G
      <3> SUFFICES ASSUME k + 1 <= n PROVE w[k + 1] = Here(k + 1)
        OBVIOUS
      <3>1. k + 1 \in 1..n /\ (k + 1) - 1 = k /\ k \in 0..n - 1 /\ k + 1 \in 0..n + 1 /\ k + 1 # 0
        OBVIOUS
      <3>2. w[k + 1] = Turn(rows, Here(k))
        BY <1>6, <3>1 DEF IsWalk
      <3>3. /\ Linked(rows, At(k)) = {line[k + 1]} /\ Cardinality({line[k + 1]}) = 1
            /\ (CHOOSE x \in {line[k + 1]} : TRUE) = line[k + 1]
        BY <1>4, <3>1, FS_Singleton
      <3>4. line[k + 1].hash = ComputeEntryHash(line[k + 1].id, At(k))
        BY <1>2, <3>1 DEF ComputeEntryHash
      <3>5. At(k + 1) = line[k + 1].hash
        BY <3>1 DEF At
      <3>6. Turn(rows, Here(k)) = [prev |-> line[k + 1].hash, walked |-> k + 1, detail |-> "walking"]
        BY <3>3, <3>4 DEF Turn
      <3> QED
        BY <3>2, <3>5, <3>6
    <2>3. G \in SUBSET Nat
      OBVIOUS
    <2> HIDE DEF G, Here
    <2>4. G = Nat
      BY <2>1, <2>2, <2>3, SetInduction
    <2> QED
      BY <2>4 DEF G
  <1>8. w[n + 1] = Turn(rows, Here(n))
    <2>1. n + 1 \in 0..n + 1 /\ (n + 1) - 1 = n /\ n + 1 # 0 /\ n \in 0..n
      OBVIOUS
    <2> QED
      BY <1>6, <1>7, <2>1 DEF IsWalk
  <1>9. Turn(rows, Here(n)) = [Here(n) EXCEPT !.detail = "end"]
    BY <1>5 DEF Turn
  <1>10. w[n + 1].detail = "end" /\ w[n + 1].walked = n
    BY <1>8, <1>9
  <1> QED
    BY <1>0, <1>6, <1>10 DEF VerifyChain

(* verify_chain answers ok for a finite set of rows exactly if the rows are *)
(* one unbroken chain from the genesis, whatever was inserted, edited,      *)
(* forked or removed, and however many rows there are.                      *)
THEOREM VerifyChainIsExact ==
  ASSUME NEW S, NEW rows \in SUBSET ChainRow(S), IsFiniteSet(rows)
  PROVE  VerifyChain(rows) <=> IsChain(rows)
  BY VerifiedIsChain, ChainIsVerified

-----------------------------------------------------------------------------
(* The walk is a recursive function of what is left on the stack and what   *)
(* was seen. It exists because every turn of it leaves less to do: a node   *)
(* comes off the stack, and its parents go on only the first time.          *)

WalkPoints == Seq(Ids) \X SUBSET Ids

\* One turn, the others being w's.
WalkOn(rows, w, at) ==
  LET stack == at[1]  seen == at[2]  pid == Last(stack) IN
  IF stack = <<>> THEN Clean
  ELSE IF Cardinality(seen) > MaxAncestryNodes THEN <<"too deep">>
  ELSE IF pid \in seen THEN w[<<Front(stack), seen>>]
  ELSE IF IsTombstoned(rows[pid]) THEN <<pid>>
  ELSE w[<<Front(stack) \o rows[pid].parents, seen \cup {pid}>>]

\* No row has more than B parents, and they are ids.
Lineage(rows, B) == \A i \in Ids : rows[i].parents \in Seq(Ids) /\ Len(rows[i].parents) <= B

Todo(B, at) == Len(at[1]) + (B + 1) * Cardinality(Ids \ at[2])

Popped(at) == <<Front(at[1]), at[2]>>

Pushed(rows, at) == <<Front(at[1]) \o rows[Last(at[1])].parents, at[2] \cup {Last(at[1])}>>

LEMMA FrontFacts ==
  ASSUME NEW s \in Seq(Ids), s # <<>>
  PROVE  /\ Last(s) \in Ids /\ Len(s) \in Nat \ {0} /\ Last(s) = s[Len(s)]
         /\ Front(s) \in Seq(Ids) /\ Len(Front(s)) = Len(s) - 1
         /\ \A k \in 1..Len(s) - 1 : Front(s)[k] = s[k]
  <1>1. PICK n \in Nat \ {0} : n = Len(s)
    BY EmptySeq
  <1>2. /\ n - 1 \in Int /\ 1 \in Int /\ n - 1 - 1 + 1 = n - 1
        /\ (IF 1 <= n - 1 THEN n - 1 - 1 + 1 ELSE 0) = n - 1
        /\ \A k \in 1..n - 1 : 1 + k - 1 = k
    OBVIOUS
  <1>3. \A i \in 1..n : s[i] \in Ids
    BY <1>1, ElementOfSeq
  <1>4. \A i \in 1..n - 1 : s[i] \in Ids
    BY <1>3
  <1>5. /\ SubSeq(s, 1, n - 1) \in Seq(Ids)
        /\ Len(SubSeq(s, 1, n - 1)) = IF 1 <= n - 1 THEN n - 1 - 1 + 1 ELSE 0
        /\ \A i \in 1..n - 1 - 1 + 1 : SubSeq(s, 1, n - 1)[i] = s[1 + i - 1]
    BY <1>2, <1>4, SubSeqProperties
  <1>6. n \in 1..n
    OBVIOUS
  <1> QED
    BY <1>1, <1>2, <1>3, <1>5, <1>6, Zenon DEF Front, Last

LEMMA TodoIsNat ==
  ASSUME NEW B \in Nat, NEW at \in WalkPoints
  PROVE  Todo(B, at) \in Nat /\ Cardinality(Ids \ at[2]) \in Nat /\ Len(at[1]) \in Nat
  <1>1. Cardinality(Ids \ at[2]) \in Nat
    BY FS_Difference, FS_CardinalityType, GatesAssumption
  <1>2. Len(at[1]) \in Nat
    BY DEF WalkPoints
  <1> QED
    BY <1>1, <1>2 DEF Todo

LEMMA TodoFalls ==
  ASSUME NEW rows, NEW B \in Nat, Lineage(rows, B), NEW at \in WalkPoints, at[1] # <<>>
  PROVE  /\ Popped(at) \in WalkPoints /\ Todo(B, Popped(at)) < Todo(B, at)
         /\ Last(at[1]) \notin at[2] =>
              Pushed(rows, at) \in WalkPoints /\ Todo(B, Pushed(rows, at)) < Todo(B, at)
  <1> DEFINE s == at[1]
             p == Last(s)
  <1>1. s \in Seq(Ids) /\ at[2] \in SUBSET Ids
    BY DEF WalkPoints
  <1>2. /\ p \in Ids /\ Len(s) \in Nat \ {0}
        /\ Front(s) \in Seq(Ids) /\ Len(Front(s)) = Len(s) - 1
    BY <1>1, FrontFacts
  <1>3. PICK c \in Nat : c = Cardinality(Ids \ at[2])
    BY TodoIsNat
  <1>4. Todo(B, at) = Len(s) + (B + 1) * c
    BY <1>3 DEF Todo
  <1> HIDE DEF s, p
  <1>5. Popped(at) \in WalkPoints /\ Todo(B, Popped(at)) < Todo(B, at)
    <2>1. Popped(at)[1] = Front(s) /\ Popped(at)[2] = at[2]
      BY DEF Popped, s
    <2>2. Popped(at) \in WalkPoints
      BY <1>1, <1>2 DEF WalkPoints, Popped, s
    <2>3. Todo(B, Popped(at)) = Len(s) - 1 + (B + 1) * c
      BY <1>2, <1>3, <2>1 DEF Todo
    <2> QED
      BY <1>2, <1>4, <2>2, <2>3
  <1>6. ASSUME p \notin at[2]
        PROVE  Pushed(rows, at) \in WalkPoints /\ Todo(B, Pushed(rows, at)) < Todo(B, at)
    <2> DEFINE q == rows[p].parents
    <2>1. q \in Seq(Ids) /\ Len(q) \in Nat /\ Len(q) <= B
      BY <1>2 DEF Lineage
    <2> HIDE DEF q
    <2> DEFINE r == Front(s)
    <2> HIDE DEF r
    <2>r. r \in Seq(Ids) /\ Len(r) = Len(s) - 1
      BY <1>2 DEF r
    <2>c. r \o q \in Seq(Ids) /\ Len(r \o q) = Len(r) + Len(q)
      BY <2>1, <2>r, ConcatProperties, Zenon
    <2>2. Front(s) \o q \in Seq(Ids) /\ Len(Front(s) \o q) = Len(s) - 1 + Len(q)
      BY <2>r, <2>c, Zenon DEF r
    <2>3. Pushed(rows, at) = <<Front(s) \o q, at[2] \cup {p}>>
      BY DEF Pushed, q, p, s
    <2>4. Pushed(rows, at) \in WalkPoints
      <3>1. at[2] \cup {p} \in SUBSET Ids
        BY <1>1, <1>2
      <3>2. PICK t \in Seq(Ids), seen \in SUBSET Ids :
              t = Front(s) \o q /\ seen = at[2] \cup {p}
        BY <2>2, <3>1, Zenon
      <3>3. <<t, seen>> \in WalkPoints
        BY DEF WalkPoints
      <3> QED
        BY <2>3, <3>2, <3>3, Zenon
    <2>5. IsFiniteSet(Ids \ at[2]) /\ p \in Ids \ at[2]
      BY <1>2, <1>6, FS_Difference, GatesAssumption
    <2>6. Cardinality((Ids \ at[2]) \ {p}) = c - 1
      BY <1>3, <2>5, FS_RemoveElement
    <2>7. Ids \ (at[2] \cup {p}) = (Ids \ at[2]) \ {p}
      OBVIOUS
    <2>8. Cardinality(Ids \ (at[2] \cup {p})) = c - 1
      BY <2>6, <2>7
    <2>9. Todo(B, Pushed(rows, at)) = Len(s) - 1 + Len(q) + (B + 1) * (c - 1)
      <3>1. Pushed(rows, at)[1] = Front(s) \o q /\ Pushed(rows, at)[2] = at[2] \cup {p}
        BY <2>3
      <3> QED
        BY <2>2, <2>8, <3>1 DEF Todo
    <2>10. (B + 1) * (c - 1) = (B + 1) * c - (B + 1)
      OBVIOUS
    <2>11. (B + 1) * c \in Int
      OBVIOUS
    <2> QED
      BY <1>2, <1>4, <2>1, <2>4, <2>9, <2>10, <2>11
  <1> QED
    BY <1>5, <1>6 DEF p, s

\* A turn depends on the walk only where less is left to do.
LEMMA WalkOnIsLocal ==
  ASSUME NEW rows, NEW B \in Nat, Lineage(rows, B), NEW at \in WalkPoints, NEW f, NEW g,
         \A y \in WalkPoints : Todo(B, y) < Todo(B, at) => f[y] = g[y]
  PROVE  WalkOn(rows, f, at) = WalkOn(rows, g, at)
  <1>1. CASE at[1] = <<>>
    BY <1>1 DEF WalkOn
  <1>2. CASE at[1] # <<>>
    <2>1. f[Popped(at)] = g[Popped(at)]
      BY <1>2, TodoFalls
    <2>2. Last(at[1]) \notin at[2] => f[Pushed(rows, at)] = g[Pushed(rows, at)]
      BY <1>2, TodoFalls
    <2> QED
      BY <1>2, <2>1, <2>2 DEF WalkOn, Popped, Pushed
  <1> QED
    BY <1>1, <1>2

Solves(rows, B, f, n) ==
  \A at \in WalkPoints : Todo(B, at) < n => f[at] = WalkOn(rows, f, at)

LEMMA SolutionExists ==
  ASSUME NEW rows, NEW B \in Nat, Lineage(rows, B)
  PROVE  \A n \in Nat : \E f : Solves(rows, B, f, n)
  <1> DEFINE G == {n \in Nat : \E f : Solves(rows, B, f, n)}
  <1>0. \A at \in WalkPoints : Todo(B, at) \in Nat
    BY TodoIsNat
  <1>1. 0 \in G
    <2>1. Solves(rows, B, <<>>, 0)
      BY <1>0 DEF Solves
    <2> QED
      BY <2>1
  <1>2. ASSUME NEW n \in G PROVE n + 1 \in G
    <2>1. PICK f : Solves(rows, B, f, n)
      OBVIOUS
    <2>2. PICK g : g = [at \in WalkPoints |-> IF Todo(B, at) < n THEN f[at] ELSE WalkOn(rows, f, at)]
      OBVIOUS
    <2>3. ASSUME NEW at \in WalkPoints, Todo(B, at) < n + 1 PROVE g[at] = WalkOn(rows, g, at)
      <3>1. Todo(B, at) \in Nat /\ n \in Nat
        BY TodoIsNat
      <3>2. g[at] = WalkOn(rows, f, at)
        BY <2>1, <2>2 DEF Solves
      <3>3. ASSUME NEW y \in WalkPoints, Todo(B, y) < Todo(B, at) PROVE f[y] = g[y]
        <4>1. Todo(B, y) < n
          BY <1>0, <2>3, <3>1, <3>3
        <4> QED
          BY <2>2, <4>1
      <3> QED
        BY <3>2, <3>3, WalkOnIsLocal
    <2>4. Solves(rows, B, g, n + 1)
      BY <2>3 DEF Solves
    <2> QED
      BY <2>4
  <1>3. G \in SUBSET Nat
    OBVIOUS
  <1> HIDE DEF G
  <1>4. G = Nat
    BY <1>1, <1>2, <1>3, SetInduction
  <1> QED
    BY <1>4 DEF G

LEMMA SolutionsAgree ==
  ASSUME NEW rows, NEW B \in Nat, Lineage(rows, B), NEW n \in Nat, NEW f, NEW g,
         Solves(rows, B, f, n), Solves(rows, B, g, n)
  PROVE  \A at \in WalkPoints : Todo(B, at) < n => f[at] = g[at]
  <1> DEFINE G == {j \in Nat : \A at \in WalkPoints : Todo(B, at) < j /\ Todo(B, at) < n => f[at] = g[at]}
  <1>0. \A at \in WalkPoints : Todo(B, at) \in Nat
    BY TodoIsNat
  <1>1. 0 \in G
    BY <1>0
  <1>2. ASSUME NEW j \in G PROVE j + 1 \in G
    <2> SUFFICES ASSUME NEW at \in WalkPoints, Todo(B, at) < j + 1, Todo(B, at) < n
                 PROVE  f[at] = g[at]
      OBVIOUS
    <2>1. Todo(B, at) \in Nat
      BY TodoIsNat
    <2>2. ASSUME NEW y \in WalkPoints, Todo(B, y) < Todo(B, at) PROVE f[y] = g[y]
      <3>1. Todo(B, y) \in Nat
        BY TodoIsNat
      <3>2. Todo(B, y) < j /\ Todo(B, y) < n
        BY <2>1, <2>2, <3>1
      <3> QED
        BY <3>2
    <2>3. WalkOn(rows, f, at) = WalkOn(rows, g, at)
      BY <2>2, WalkOnIsLocal
    <2> QED
      BY <2>3 DEF Solves
  <1>3. G \in SUBSET Nat
    OBVIOUS
  <1> HIDE DEF G
  <1>4. G = Nat
    BY <1>1, <1>2, <1>3, SetInduction
  <1> QED
    BY <1>4 DEF G

LEMMA AncestryWalkExists ==
  ASSUME NEW rows, NEW B \in Nat, Lineage(rows, B)
  PROVE  \E w : w = [at \in WalkPoints |-> WalkOn(rows, w, at)]
  <1> DEFINE upTo(n) == CHOOSE f : Solves(rows, B, f, n)
  <1>1. \A n \in Nat : Solves(rows, B, upTo(n), n)
    BY SolutionExists
  <1> HIDE DEF upTo
  <1>2. PICK w : w = [at \in WalkPoints |-> upTo(Todo(B, at) + 1)[at]]
    OBVIOUS
  <1>3. ASSUME NEW at \in WalkPoints PROVE w[at] = WalkOn(rows, w, at)
    <2>1. PICK m \in Nat : m = Todo(B, at)
      BY TodoIsNat
    <2>2. PICK f : f = upTo(m + 1)
      OBVIOUS
    <2>3. Solves(rows, B, f, m + 1)
      BY <1>1, <2>2
    <2>4. w[at] = WalkOn(rows, f, at)
      BY <1>2, <2>1, <2>2, <2>3 DEF Solves
    <2>5. ASSUME NEW y \in WalkPoints, Todo(B, y) < Todo(B, at) PROVE f[y] = w[y]
      <3>1. PICK k \in Nat : k = Todo(B, y)
        BY TodoIsNat
      <3>2. w[y] = upTo(k + 1)[y] /\ k + 1 <= m + 1
        BY <1>2, <2>1, <2>5, <3>1
      <3>3. Solves(rows, B, upTo(k + 1), k + 1)
        BY <1>1
      <3>4. Solves(rows, B, f, k + 1)
        <4>1. \A z \in WalkPoints : Todo(B, z) \in Nat
          BY TodoIsNat
        <4>2. \A z \in WalkPoints : Todo(B, z) < k + 1 => Todo(B, z) < m + 1
          BY <3>2, <4>1
        <4> QED
          BY <2>3, <4>2 DEF Solves
      <3>5. f[y] = upTo(k + 1)[y]
        BY <3>1, <3>3, <3>4, SolutionsAgree
      <3> QED
        BY <3>2, <3>5
    <2> QED
      BY <2>4, <2>5, WalkOnIsLocal
  <1>4. w = [at \in WalkPoints |-> w[at]]
    BY <1>2
  <1> QED
    BY <1>3, <1>4

LEMMA AncestryIsAWalk ==
  ASSUME NEW rows, NEW B \in Nat, Lineage(rows, B), NEW row
  PROVE  \E w : /\ \A at \in WalkPoints : w[at] = WalkOn(rows, w, at)
                /\ AncestryTombstone(rows, row) = w[<<row.parents, {}>>]
  <1> DEFINE W == CHOOSE w : w = [at \in WalkPoints |-> WalkOn(rows, w, at)]
  <1>1. W = [at \in WalkPoints |-> WalkOn(rows, W, at)]
    BY AncestryWalkExists
  <1>2. AncestryTombstone(rows, row) = W[<<row.parents, {}>>]
    BY DEF AncestryTombstone, WalkOn, WalkPoints
  <1> HIDE DEF W
  <1> QED
    BY <1>1, <1>2

-----------------------------------------------------------------------------
(* What the walk answers.                                                   *)

\* Every element of s is in X.
Within(s, X) == \A k \in 1..Len(s) : s[k] \in X

LEMMA WithinFront ==
  ASSUME NEW s \in Seq(Ids), s # <<>>, NEW X
  PROVE  Within(s, X) <=> Within(Front(s), X) /\ Last(s) \in X
  <1>1. PICK n \in Nat \ {0} : n = Len(s)
    BY FrontFacts
  <1>2. /\ Len(Front(s)) = n - 1 /\ Last(s) = s[n]
        /\ \A k \in 1..n - 1 : Front(s)[k] = s[k]
    BY <1>1, FrontFacts
  <1>3. \A k \in 1..n : k = n \/ k \in 1..n - 1
    OBVIOUS
  <1>4. n \in 1..n /\ \A k \in 1..n - 1 : k \in 1..n
    OBVIOUS
  <1> QED
    BY <1>1, <1>2, <1>3, <1>4, Zenon DEF Within

LEMMA WithinConcat ==
  ASSUME NEW s \in Seq(Ids), NEW t \in Seq(Ids), NEW X
  PROVE  /\ Within(s \o t, X) => Within(s, X) /\ Within(t, X)
         /\ Within(s, X) /\ Within(t, X) => Within(s \o t, X)
  <1>1. PICK m \in Nat, n \in Nat : m = Len(s) /\ n = Len(t)
    OBVIOUS
  <1>2. PICK u : u = s \o t
    OBVIOUS
  <1>3. Len(u) = m + n /\ \A i \in 1..m + n : u[i] = IF i <= m THEN s[i] ELSE t[i - m]
    BY <1>1, <1>2, ConcatProperties
  <1>4. ASSUME Within(u, X) PROVE Within(s, X) /\ Within(t, X)
    <2>1. \A i \in 1..m : i \in 1..m + n /\ i <= m
      OBVIOUS
    <2>2. \A i \in 1..n : m + i \in 1..m + n /\ ~(m + i <= m) /\ (m + i) - m = i
      OBVIOUS
    <2>3. \A i \in 1..n : u[m + i] = t[i]
      BY <1>3, <2>2
    <2> QED
      BY <1>1, <1>3, <1>4, <2>1, <2>2, <2>3 DEF Within
  <1>5. ASSUME Within(s, X), Within(t, X) PROVE Within(u, X)
    <2>1. \A i \in 1..m + n : i <= m => i \in 1..m
      OBVIOUS
    <2>2. \A i \in 1..m + n : ~(i <= m) => i - m \in 1..n
      OBVIOUS
    <2> QED
      BY <1>1, <1>3, <1>5, <2>1, <2>2 DEF Within
  <1> QED
    BY <1>2, <1>4, <1>5

\* T is closed: nothing in it is gone, and parents are in it or were seen before.
ClosedLineage(rows, T, seen) ==
  \A j \in T : ~IsTombstoned(rows[j]) /\ Within(rows[j].parents, T \cup seen)

(* The induction behind both answers, on what is left to do.                *)
LEMMA CleanIsClosed ==
  ASSUME NEW rows, NEW B \in Nat, Lineage(rows, B),
         NEW w, \A at \in WalkPoints : w[at] = WalkOn(rows, w, at)
  PROVE  \A at \in WalkPoints :
           w[at] = Clean =>
             \E T \in SUBSET Ids : Within(at[1], T \cup at[2]) /\ ClosedLineage(rows, T, at[2])
  <1> DEFINE Good(at) ==
        w[at] = Clean =>
          \E T \in SUBSET Ids : Within(at[1], T \cup at[2]) /\ ClosedLineage(rows, T, at[2])
             G == {n \in Nat : \A at \in WalkPoints : Todo(B, at) < n => Good(at)}
  <1>0. \A at \in WalkPoints : Todo(B, at) \in Nat
    BY TodoIsNat
  <1>1. 0 \in G
    BY <1>0
  <1>2. ASSUME NEW n \in G PROVE n + 1 \in G
    <2> HIDE DEF Good
    <2> SUFFICES ASSUME NEW at \in WalkPoints, Todo(B, at) < n + 1 PROVE Good(at)
      OBVIOUS
    <2> SUFFICES ASSUME w[at] = Clean
                 PROVE  \E T \in SUBSET Ids :
                          Within(at[1], T \cup at[2]) /\ ClosedLineage(rows, T, at[2])
      BY DEF Good
    <2>1. ASSUME NEW y \in WalkPoints, Todo(B, y) < Todo(B, at) PROVE Good(y)
      <3>1. Todo(B, y) < n
        BY <1>0, <2>1
      <3> QED
        BY <3>1
    <2>2. at[1] \in Seq(Ids) /\ at[2] \in SUBSET Ids
      BY DEF WalkPoints
    <2> HIDE DEF G, Good
    <2>3. CASE at[1] = <<>>
      <3>1. Within(at[1], {} \cup at[2])
        BY <2>3 DEF Within
      <3>2. ClosedLineage(rows, {}, at[2])
        BY DEF ClosedLineage
      <3> QED
        BY <3>1, <3>2
    <2>4. CASE at[1] # <<>> /\ Last(at[1]) \in at[2]
      <3>1. w[at] = w[Popped(at)]
        <4>1. w[at] = WalkOn(rows, w, at)
          OBVIOUS
        <4>2. <<>> # <<"too deep">>
          OBVIOUS
        <4> QED
          BY <2>4, <4>1, <4>2 DEF WalkOn, Popped, Clean
      <3>2. Popped(at) \in WalkPoints /\ Good(Popped(at))
        BY <2>1, <2>4, TodoFalls
      <3>3. Popped(at)[1] = Front(at[1]) /\ Popped(at)[2] = at[2]
        BY DEF Popped
      <3>4. PICK T \in SUBSET Ids : Within(Front(at[1]), T \cup at[2]) /\ ClosedLineage(rows, T, at[2])
        BY <3>1, <3>2, <3>3 DEF Good
      <3>5. Within(at[1], T \cup at[2])
        BY <2>2, <2>4, <3>4, WithinFront
      <3> QED
        BY <3>4, <3>5
    <2>5. CASE at[1] # <<>> /\ Last(at[1]) \notin at[2]
      <3> DEFINE p == Last(at[1])
                 q == rows[p].parents
      <3>0. p \in Ids /\ Front(at[1]) \in Seq(Ids)
        BY <2>2, <2>5, FrontFacts
      <3>q. q \in Seq(Ids)
        BY <3>0 DEF Lineage
      <3>1. w[at] = w[Pushed(rows, at)] /\ ~IsTombstoned(rows[p])
        <4>1. w[at] = WalkOn(rows, w, at)
          OBVIOUS
        <4>2. <<>> # <<"too deep">> /\ <<>> # <<Last(at[1])>>
          OBVIOUS
        <4> QED
          BY <2>5, <4>1, <4>2 DEF WalkOn, Pushed, Clean
      <3>2. Pushed(rows, at) \in WalkPoints /\ Good(Pushed(rows, at))
        BY <2>1, <2>5, TodoFalls
      <3>3. Pushed(rows, at)[1] = Front(at[1]) \o q /\ Pushed(rows, at)[2] = at[2] \cup {p}
        BY DEF Pushed
      <3>4. PICK R \in SUBSET Ids : /\ Within(Front(at[1]) \o q, R \cup (at[2] \cup {p}))
                                    /\ ClosedLineage(rows, R, at[2] \cup {p})
        BY <3>1, <3>2, <3>3 DEF Good
      <3> HIDE DEF p, q
      <3> DEFINE T == R \cup {p}
      <3>5. T \in SUBSET Ids /\ R \cup (at[2] \cup {p}) = T \cup at[2]
        BY <3>0
      <3> HIDE DEF T
      <3>6. Within(Front(at[1]), T \cup at[2]) /\ Within(q, T \cup at[2])
        BY <3>0, <3>q, <3>4, <3>5, WithinConcat
      <3>7. Within(at[1], T \cup at[2])
        <4>1. p \in T \cup at[2]
          BY DEF T
        <4> QED
          BY <2>2, <2>5, <3>6, <4>1, WithinFront DEF p
      <3>8. ASSUME NEW j \in T PROVE ~IsTombstoned(rows[j]) /\ Within(rows[j].parents, T \cup at[2])
        <4>1. CASE j = p
          BY <3>1, <3>6, <4>1 DEF p, q
        <4>2. CASE j \in R
          <5>1. ~IsTombstoned(rows[j]) /\ Within(rows[j].parents, R \cup (at[2] \cup {p}))
            BY <3>4, <4>2 DEF ClosedLineage
          <5> QED
            BY <3>5, <5>1
        <4> QED
          BY <4>1, <4>2 DEF T
      <3>9. ClosedLineage(rows, T, at[2])
        BY <3>8 DEF ClosedLineage
      <3> QED
        BY <3>5, <3>7, <3>9
    <2> QED
      BY <2>3, <2>4, <2>5
  <1>3. G \in SUBSET Nat
    OBVIOUS
  <1> HIDE DEF G, Good
  <1>4. G = Nat
    BY <1>1, <1>2, <1>3, SetInduction
  <1>5. ASSUME NEW at \in WalkPoints PROVE Good(at)
    <2>1. PICK n \in Nat : n = Todo(B, at)
      BY <1>0
    <2>2. n + 1 \in G /\ Todo(B, at) < n + 1
      BY <1>4, <2>1
    <2> QED
      BY <2>2 DEF G
  <1> QED
    BY <1>5 DEF Good

LEMMA ClosedIsClean ==
  ASSUME NEW rows, NEW B \in Nat, Lineage(rows, B),
         NEW w, \A at \in WalkPoints : w[at] = WalkOn(rows, w, at),
         NEW A \in SUBSET Ids, ClosedLineage(rows, A, {}), Cardinality(A) <= MaxAncestryNodes
  PROVE  \A at \in WalkPoints : Within(at[1], A) /\ at[2] \subseteq A => w[at] = Clean
  <1> DEFINE Good(at) == Within(at[1], A) /\ at[2] \subseteq A => w[at] = Clean
             G == {n \in Nat : \A at \in WalkPoints : Todo(B, at) < n => Good(at)}
  <1>0. \A at \in WalkPoints : Todo(B, at) \in Nat
    BY TodoIsNat
  <1>1. 0 \in G
    BY <1>0
  <1>2. ASSUME NEW n \in G PROVE n + 1 \in G
    <2> SUFFICES ASSUME NEW at \in WalkPoints, Todo(B, at) < n + 1 PROVE Good(at)
      OBVIOUS
    <2> SUFFICES ASSUME Within(at[1], A), at[2] \subseteq A PROVE w[at] = Clean
      OBVIOUS
    <2>1. ASSUME NEW y \in WalkPoints, Todo(B, y) < Todo(B, at) PROVE Good(y)
      <3>1. Todo(B, y) < n
        BY <1>0, <2>1
      <3> QED
        BY <3>1
    <2>2. at[1] \in Seq(Ids) /\ at[2] \in SUBSET Ids /\ w[at] = WalkOn(rows, w, at)
      BY DEF WalkPoints
    <2> HIDE DEF G, Good
    <2>3. ~(Cardinality(at[2]) > MaxAncestryNodes)
      <3>1. IsFiniteSet(A)
        BY FS_Subset, GatesAssumption
      <3>2. Cardinality(at[2]) <= Cardinality(A) /\ IsFiniteSet(at[2])
        BY <3>1, FS_Subset
      <3>3. Cardinality(at[2]) \in Nat /\ Cardinality(A) \in Nat
        BY <3>1, <3>2, FS_CardinalityType
      <3> QED
        BY <3>2, <3>3, GatesAssumption
    <2>4. CASE at[1] = <<>>
      BY <2>2, <2>4 DEF WalkOn
    <2>5. CASE at[1] # <<>> /\ Last(at[1]) \in at[2]
      <3>1. w[at] = w[Popped(at)]
        BY <2>2, <2>3, <2>5 DEF WalkOn, Popped
      <3>2. Popped(at) \in WalkPoints /\ Good(Popped(at))
        BY <2>1, <2>5, TodoFalls
      <3>3. Popped(at)[1] = Front(at[1]) /\ Popped(at)[2] = at[2]
        BY DEF Popped
      <3>4. Within(Front(at[1]), A)
        BY <2>2, <2>5, WithinFront
      <3> QED
        BY <3>1, <3>2, <3>3, <3>4 DEF Good
    <2>6. CASE at[1] # <<>> /\ Last(at[1]) \notin at[2]
      <3> DEFINE p == Last(at[1])
                 q == rows[p].parents
      <3>0. p \in A /\ p \in Ids /\ Within(Front(at[1]), A) /\ Front(at[1]) \in Seq(Ids)
        BY <2>2, <2>6, WithinFront, FrontFacts
      <3>1. q \in Seq(Ids) /\ ~IsTombstoned(rows[p]) /\ Within(q, A)
        <4>1. A \cup {} = A
          OBVIOUS
        <4> QED
          BY <3>0, <4>1 DEF Lineage, ClosedLineage
      <3>2. w[at] = w[Pushed(rows, at)]
        BY <2>2, <2>3, <2>6, <3>1 DEF WalkOn, Pushed
      <3>3. Pushed(rows, at) \in WalkPoints /\ Good(Pushed(rows, at))
        BY <2>1, <2>6, TodoFalls
      <3>4. Pushed(rows, at)[1] = Front(at[1]) \o q /\ Pushed(rows, at)[2] = at[2] \cup {p}
        BY DEF Pushed
      <3> HIDE DEF p, q
      <3>5. Within(Front(at[1]) \o q, A)
        BY <3>0, <3>1, WithinConcat
      <3> QED
        BY <3>0, <3>2, <3>3, <3>4, <3>5 DEF Good
    <2> QED
      BY <2>4, <2>5, <2>6
  <1>3. G \in SUBSET Nat
    OBVIOUS
  <1> HIDE DEF G, Good
  <1>4. G = Nat
    BY <1>1, <1>2, <1>3, SetInduction
  <1>5. ASSUME NEW at \in WalkPoints PROVE Good(at)
    <2>1. PICK n \in Nat : n = Todo(B, at)
      BY <1>0
    <2>2. n + 1 \in G /\ Todo(B, at) < n + 1
      BY <1>4, <2>1
    <2> QED
      BY <2>2 DEF G
  <1> QED
    BY <1>5 DEF Good

(* ancestry_tombstone fails closed: it answers "no tombstone" only if the   *)
(* row's parents lie in a set of ids in which every row exists, none is     *)
(* deleted, and which holds the parents of each of its members: whatever    *)
(* cycles, shared parents and depth the lineage has.                        *)
THEOREM AncestryFailsClosed ==
  ASSUME NEW rows, NEW B \in Nat, Lineage(rows, B),
         NEW row, row.parents \in Seq(Ids), AncestryTombstone(rows, row) = Clean
  PROVE  \E T \in SUBSET Ids : Within(row.parents, T) /\ ClosedLineage(rows, T, {})
  <1>1. PICK w : /\ \A at \in WalkPoints : w[at] = WalkOn(rows, w, at)
                 /\ AncestryTombstone(rows, row) = w[<<row.parents, {}>>]
    BY AncestryIsAWalk
  <1>2. PICK at : at = <<row.parents, {}>>
    OBVIOUS
  <1>3. at \in WalkPoints /\ at[1] = row.parents /\ at[2] = {}
    BY <1>2 DEF WalkPoints
  <1>4. PICK T \in SUBSET Ids : Within(at[1], T \cup at[2]) /\ ClosedLineage(rows, T, at[2])
    BY <1>1, <1>2, <1>3, CleanIsClosed
  <1>5. T \cup at[2] = T
    BY <1>3
  <1> QED
    BY <1>3, <1>4, <1>5

(* And it refuses nothing it could admit: a lineage that is all there, with *)
(* no row of it deleted, and of at most the nodes the walk may visit, is    *)
(* answered "no tombstone".                                                 *)
THEOREM AncestryAdmitsTheClean ==
  ASSUME NEW rows, NEW B \in Nat, Lineage(rows, B),
         NEW row, row.parents \in Seq(Ids),
         NEW A \in SUBSET Ids, Within(row.parents, A), ClosedLineage(rows, A, {}),
         Cardinality(A) <= MaxAncestryNodes
  PROVE  AncestryTombstone(rows, row) = Clean
  <1>1. PICK w : /\ \A at \in WalkPoints : w[at] = WalkOn(rows, w, at)
                 /\ AncestryTombstone(rows, row) = w[<<row.parents, {}>>]
    BY AncestryIsAWalk
  <1>2. PICK at : at = <<row.parents, {}>>
    OBVIOUS
  <1>3. at \in WalkPoints /\ at[1] = row.parents /\ at[2] = {}
    BY <1>2 DEF WalkPoints
  <1> QED
    BY <1>1, <1>2, <1>3, ClosedIsClean

-----------------------------------------------------------------------------
(* Retention: the worker computes the age of a row in whole days, the gate  *)
(* compares the stamped end of the window.                                  *)

LEMMA WindowIsNat ==
  ASSUME NEW policy, NEW sensitivity \in Sensitivities
  PROVE  WindowDays(policy, sensitivity) \in Nat /\ (Forever # 0 => WindowDays(policy, sensitivity) # 0)
  <1>1. CASE policy = "strict"
    BY <1>1, TimeAssumption DEF WindowDays, Packs, Sensitivities
  <1>2. CASE policy = "extended"
    BY <1>2, TimeAssumption DEF WindowDays, Packs, Sensitivities
  <1>3. CASE policy \notin {"strict", "extended"}
    <2>1. (IF policy \in DOMAIN Packs THEN policy ELSE "default") = "default"
      BY <1>3 DEF Packs
    <2> QED
      BY <2>1, TimeAssumption DEF WindowDays, Packs, Sensitivities
  <1> QED
    BY <1>1, <1>2, <1>3

LEMMA WindowEndsOnce ==
  ASSUME NEW row, NEW now \in Nat, NEW policy, row.created \in Nat,
         row.sensitivity \in Sensitivities, now < Forever
  PROVE  /\ ExpiresAt(row, policy) \in Nat
         /\ AgeDays(row, now) >= WindowDays(policy, row.sensitivity)
              <=> ExpiresAt(row, policy) # Forever /\ now >= ExpiresAt(row, policy)
  <1>1. PICK days \in Nat \ {0} : days = WindowDays(policy, row.sensitivity)
    BY WindowIsNat, TimeAssumption
  <1>2. PICK c \in Nat : c = row.created
    OBVIOUS
  <1>3. PICK age \in Nat : age = AgeDays(row, now) /\ (IF now < c THEN age = 0 ELSE 2 * age <= now - c /\ now - c < 2 * age + 2)
    <2>1. CASE now < c
      BY <1>2, <2>1 DEF AgeDays
    <2>2. CASE ~(now < c)
      <3>1. now - c \in Nat
        BY <2>2
      <3>2. PICK n \in Nat : n = now - c
        BY <3>1
      <3>3. n \div 2 \in Nat /\ 2 * (n \div 2) <= n /\ n < 2 * (n \div 2) + 2
        OBVIOUS
      <3> QED
        BY <1>2, <2>2, <3>2, <3>3 DEF AgeDays, Day
    <2> QED
      BY <2>1, <2>2
  <1>4. ExpiresAt(row, policy) = IF days = Forever THEN Forever ELSE c + days * 2
    BY <1>1, <1>2 DEF ExpiresAt, Day
  <1>5. Forever \in Nat
    BY TimeAssumption
  <1> QED
    BY <1>1, <1>2, <1>3, <1>4, <1>5

(* The gate and the worker say "expired" of the same memory at the same     *)
(* instant: for every row whose stamp is the end of its window, whatever    *)
(* pack, label, creation time and moment.                                   *)
THEOREM StampAgreesWithWorker ==
  ASSUME NEW row, NEW now \in Nat, NEW policy, row.created \in Nat,
         row.sensitivity \in Sensitivities, now < Forever,
         row.expiresAt = ExpiresAt(row, policy)
  PROVE  Evaluate(row, now, policy) = "expired"
           <=> ~ConsentRevoked(row, now) /\ RetentionStatus(row, now) = "expired"
  <1>1. AgeDays(row, now) >= WindowDays(policy, row.sensitivity)
              <=> ExpiresAt(row, policy) # Forever /\ now >= ExpiresAt(row, policy)
    BY WindowEndsOnce
  <1> QED
    BY <1>1 DEF Evaluate, RetentionStatus

-----------------------------------------------------------------------------
(* The output gate.  Redaction is defined position by position, so it first *)
(* has to exist and is then known by what each position adds.               *)
Adds(answer, covered, out, i) ==
  IF i \notin covered THEN Append(out, answer[i])
  ELSE IF i - 1 \notin covered THEN Append(out, Redaction)
  ELSE out

IsRedaction(f, answer, covered, n) ==
  f = [i \in 0..n |-> IF i = 0 THEN <<>> ELSE Adds(answer, covered, f[i - 1], i)]

LEMMA RedactionsExist ==
  ASSUME NEW answer, NEW covered
  PROVE  \A n \in Nat : \E f : IsRedaction(f, answer, covered, n)
  <1> DEFINE S == {n \in Nat : \E f : IsRedaction(f, answer, covered, n)}
  <1>1. 0 \in S
    <2>1. PICK f : f = [i \in 0..0 |-> <<>>]
      OBVIOUS
    <2>2. IsRedaction(f, answer, covered, 0)
      BY <2>1 DEF IsRedaction
    <2> QED
      BY <2>2
  <1>2. ASSUME NEW n \in S PROVE n + 1 \in S
    <2>1. PICK f : IsRedaction(f, answer, covered, n)
      OBVIOUS
    <2>2. PICK g : g = [i \in 0..n + 1 |-> IF i = n + 1 THEN Adds(answer, covered, f[n], n + 1) ELSE f[i]]
      OBVIOUS
    <2>3. \A i \in 0..n : g[i] = f[i]
      BY <2>2
    <2>4. ASSUME NEW i \in 0..n + 1
          PROVE  g[i] = IF i = 0 THEN <<>> ELSE Adds(answer, covered, g[i - 1], i)
      <3>1. CASE i = n + 1
        BY <2>2, <2>3, <3>1
      <3>2. CASE i \in 0..n
        <4>1. g[i] = f[i] /\ (i # 0 => g[i - 1] = f[i - 1])
          BY <2>3, <3>2
        <4> QED
          BY <2>1, <3>2, <4>1 DEF IsRedaction
      <3> QED
        BY <2>4, <3>1, <3>2
    <2>5. g = [i \in 0..n + 1 |-> g[i]]
      BY <2>2
    <2>6. IsRedaction(g, answer, covered, n + 1)
      BY <2>4, <2>5 DEF IsRedaction
    <2> QED
      BY <2>6
  <1> HIDE DEF S
  <1>3. S \in SUBSET Nat
    BY DEF S
  <1>4. S = Nat
    BY <1>1, <1>2, <1>3, SetInduction
  <1> QED
    BY <1>4 DEF S

LEMMA RedactRunsIsRedaction ==
  ASSUME NEW answer, NEW covered, Len(answer) \in Nat
  PROVE  \E f : /\ IsRedaction(f, answer, covered, Len(answer))
                /\ RedactRuns(answer, covered) = f[Len(answer)]
  <1>1. PICK n \in Nat : n = Len(answer)
    OBVIOUS
  <1>2. \E f : f = [i \in 0..n |-> IF i = 0 THEN <<>>
                      ELSE IF i \notin covered THEN Append(f[i - 1], answer[i])
                      ELSE IF i - 1 \notin covered THEN Append(f[i - 1], Redaction)
                      ELSE f[i - 1]]
    <2>1. PICK f : IsRedaction(f, answer, covered, n)
      BY RedactionsExist
    <2> QED
      BY <2>1 DEF IsRedaction, Adds
  <1>3. RedactRuns(answer, covered) =
          (CHOOSE f : f = [i \in 0..n |-> IF i = 0 THEN <<>>
                      ELSE IF i \notin covered THEN Append(f[i - 1], answer[i])
                      ELSE IF i - 1 \notin covered THEN Append(f[i - 1], Redaction)
                      ELSE f[i - 1]])[n]
    BY <1>1 DEF RedactRuns
  <1> QED
    BY <1>1, <1>2, <1>3 DEF IsRedaction, Adds

\* The positions up to i that put something into the redacted text, and so
\* the place of position i, or of the run it is in.
Shows(covered, i) == {j \in 1..i : j \notin covered \/ j - 1 \notin covered}

Place(covered, i) == Cardinality(Shows(covered, i))

LEMMA Places ==
  ASSUME NEW covered
  PROVE  /\ Place(covered, 0) = 0
         /\ \A i \in Nat : /\ Place(covered, i) \in Nat
                           /\ Place(covered, i + 1) =
                                IF i + 1 \notin covered \/ i \notin covered
                                THEN Place(covered, i) + 1 ELSE Place(covered, i)
  <1>1. Shows(covered, 0) = {}
    BY DEF Shows
  <1>2. ASSUME NEW i \in Nat
        PROVE  /\ Place(covered, i) \in Nat
               /\ Place(covered, i + 1) =
                    IF i + 1 \notin covered \/ i \notin covered
                    THEN Place(covered, i) + 1 ELSE Place(covered, i)
    <2>1. IsFiniteSet(Shows(covered, i))
      <3>1. IsFiniteSet(1..i) /\ Shows(covered, i) \in SUBSET (1..i)
        BY FS_Interval DEF Shows
      <3> QED
        BY <3>1, FS_Subset
    <2>2. Place(covered, i) \in Nat
      BY <2>1, FS_CardinalityType DEF Place
    <2>3. CASE i + 1 \notin covered \/ i \notin covered
      <3>1. Shows(covered, i + 1) = Shows(covered, i) \cup {i + 1}
        BY <2>3 DEF Shows
      <3>2. i + 1 \notin Shows(covered, i)
        BY DEF Shows
      <3> QED
        BY <2>1, <2>2, <2>3, <3>1, <3>2, FS_AddElement DEF Place
    <2>4. CASE ~(i + 1 \notin covered \/ i \notin covered)
      <3>1. Shows(covered, i + 1) = Shows(covered, i)
        BY <2>4 DEF Shows
      <3> QED
        BY <2>2, <2>4, <3>1 DEF Place
    <2> QED
      BY <2>2, <2>3, <2>4
  <1> QED
    BY <1>1, <1>2, FS_EmptySet DEF Place

\* What is known of the text after position i.
Redacted(W, answer, covered, out, i) ==
  /\ out \in Seq(W \cup {Redaction}) /\ Len(out) = Place(covered, i)
  /\ \A m \in 1..i : /\ Place(covered, m) \in 1..Len(out)
                     /\ out[Place(covered, m)] = IF m \in covered THEN Redaction ELSE answer[m]
  /\ \A k \in 1..Len(out) : \E m \in 1..i : Place(covered, m) = k
  /\ \A k \in 1..(Len(out) - 1) : out[k] = Redaction => out[k + 1] # Redaction

LEMMA RedactedFurther ==
  ASSUME NEW W, Redaction \notin W, NEW answer \in Seq(W), NEW covered \in SUBSET (1..Len(answer)),
         NEW i \in Nat, i < Len(answer), NEW out, Redacted(W, answer, covered, out, i),
         NEW next, next = Adds(answer, covered, out, i + 1)
  PROVE  Redacted(W, answer, covered, next, i + 1)
  <1>1. PICK p \in Nat : p = Place(covered, i)
    BY Places
  <1>2. /\ out \in Seq(W \cup {Redaction}) /\ Len(out) = p /\ answer[i + 1] \in W
        /\ \A m \in 1..i : /\ Place(covered, m) \in 1..p
                           /\ out[Place(covered, m)] = IF m \in covered THEN Redaction ELSE answer[m]
        /\ \A k \in 1..p : \E m \in 1..i : Place(covered, m) = k
        /\ \A k \in 1..(p - 1) : out[k] = Redaction => out[k + 1] # Redaction
    BY <1>1 DEF Redacted
  <1>3. Place(covered, i + 1) = IF i + 1 \notin covered \/ i \notin covered THEN p + 1 ELSE p
    BY <1>1, Places
  <1>4. CASE i + 1 \in covered /\ i \in covered
    <2>1. next = out /\ Place(covered, i + 1) = p /\ i \in 1..i
      BY <1>3, <1>4 DEF Adds
    <2>2. p \in 1..p /\ out[p] = Redaction
      BY <1>1, <1>2, <1>4, <2>1
    <2>3. ASSUME NEW m \in 1..i + 1
          PROVE  /\ Place(covered, m) \in 1..p
                 /\ out[Place(covered, m)] = IF m \in covered THEN Redaction ELSE answer[m]
      <3>1. CASE m = i + 1
        BY <1>4, <2>1, <2>2, <3>1
      <3>2. CASE m \in 1..i
        BY <1>2, <3>2
      <3> QED
        BY <3>1, <3>2
    <2>4. \A k \in 1..p : \E m \in 1..i + 1 : Place(covered, m) = k
      BY <1>2
    <2> QED
      BY <1>2, <2>1, <2>3, <2>4 DEF Redacted
  <1>5. CASE i + 1 \notin covered \/ i \notin covered
    <2>1. PICK w \in W \cup {Redaction} : w = IF i + 1 \in covered THEN Redaction ELSE answer[i + 1]
      BY <1>2
    <2>2. next = Append(out, w) /\ Place(covered, i + 1) = p + 1
      BY <1>3, <1>5, <2>1 DEF Adds
    <2>3. /\ next \in Seq(W \cup {Redaction}) /\ Len(next) = p + 1 /\ next[p + 1] = w
          /\ \A k \in 1..p : next[k] = out[k]
      <3>1. PICK T : T = W \cup {Redaction}
        OBVIOUS
      <3>2. out \in Seq(T) /\ w \in T
        BY <1>2, <3>1
      <3>3. /\ Append(out, w) \in Seq(T) /\ Len(Append(out, w)) = Len(out) + 1
            /\ Append(out, w)[Len(out) + 1] = w
            /\ \A k \in 1..Len(out) : Append(out, w)[k] = out[k]
        BY <3>2, AppendProperties
      <3> QED
        BY <1>2, <2>2, <3>1, <3>3
    <2>4. ASSUME NEW m \in 1..i + 1
          PROVE  /\ Place(covered, m) \in 1..p + 1
                 /\ next[Place(covered, m)] = IF m \in covered THEN Redaction ELSE answer[m]
      <3>1. CASE m = i + 1
        BY <2>1, <2>2, <2>3, <3>1
      <3>2. CASE m \in 1..i
        BY <1>2, <2>3, <3>2
      <3> QED
        BY <3>1, <3>2
    <2>5. ASSUME NEW k \in 1..p + 1 PROVE \E m \in 1..i + 1 : Place(covered, m) = k
      <3>1. CASE k = p + 1
        BY <2>2, <3>1
      <3>2. CASE k \in 1..p
        BY <1>2, <3>2
      <3> QED
        BY <3>1, <3>2
    <2>6. ASSUME NEW k \in 1..p, next[k] = Redaction PROVE next[k + 1] # Redaction
      <3>1. CASE k \in 1..(p - 1)
        <4>1. k + 1 \in 1..p
          BY <3>1
        <4> QED
          BY <1>2, <2>3, <2>6, <3>1, <4>1
      <3>2. CASE k = p
        <4>1. i \in 1..i
          <5>1. PICK m \in 1..i : Place(covered, m) = p
            BY <1>2, <3>2
          <5> QED
            BY <5>1
        <4>2. out[p] = IF i \in covered THEN Redaction ELSE answer[i]
          BY <1>1, <1>2, <4>1
        <4>3. answer[i] \in W /\ answer[i] # Redaction
          BY <4>1
        <4>4. i \in covered
          BY <2>3, <2>6, <3>2, <4>2, <4>3
        <4>5. w = answer[i + 1]
          BY <1>5, <2>1, <4>4
        <4> QED
          BY <1>2, <2>3, <3>2, <4>5
      <3> QED
        BY <3>1, <3>2
    <2>7. \A k \in 1..(Len(next) - 1) : next[k] = Redaction => next[k + 1] # Redaction
      BY <2>3, <2>6
    <2> QED
      BY <2>2, <2>3, <2>4, <2>5, <2>7 DEF Redacted
  <1> QED
    BY <1>4, <1>5

LEMMA RunsAreRedacted ==
  ASSUME NEW W, Redaction \notin W, NEW answer \in Seq(W), NEW covered \in SUBSET (1..Len(answer))
  PROVE  Redacted(W, answer, covered, RedactRuns(answer, covered), Len(answer))
  <1>1. PICK n \in Nat : n = Len(answer)
    OBVIOUS
  <1>2. PICK f : IsRedaction(f, answer, covered, n) /\ RedactRuns(answer, covered) = f[n]
    BY <1>1, RedactRunsIsRedaction
  <1> DEFINE S == {i \in Nat : i <= n => Redacted(W, answer, covered, f[i], i)}
  <1>3. 0 \in S
    <2>1. f[0] = <<>>
      BY <1>2 DEF IsRedaction
    <2>2. <<>> \in Seq(W \cup {Redaction}) /\ Len(<<>>) = 0 /\ Place(covered, 0) = 0
      BY Places
    <2>3. Redacted(W, answer, covered, <<>>, 0)
      BY <2>2 DEF Redacted
    <2> QED
      BY <2>1, <2>3
  <1>4. ASSUME NEW i \in S PROVE i + 1 \in S
    <2> SUFFICES ASSUME i + 1 <= n PROVE Redacted(W, answer, covered, f[i + 1], i + 1)
      OBVIOUS
    <2>1. Redacted(W, answer, covered, f[i], i) /\ i \in Nat /\ i < Len(answer)
      BY <1>1
    <2>2. i + 1 \in 0..n /\ i + 1 # 0 /\ (i + 1) - 1 = i
      OBVIOUS
    <2>3. f[i + 1] = Adds(answer, covered, f[(i + 1) - 1], i + 1)
      BY <1>2, <2>2 DEF IsRedaction
    <2>4. f[i + 1] = Adds(answer, covered, f[i], i + 1)
      BY <2>2, <2>3
    <2> QED
      BY <2>1, <2>4, RedactedFurther
  <1>5. S = Nat
    <2> HIDE DEF S
    <2>1. S \in SUBSET Nat
      BY DEF S
    <2> QED
      BY <1>3, <1>4, <2>1, SetInduction
  <1>6. n \in S
    BY <1>5
  <1> QED
    BY <1>1, <1>2, <1>6

Unredacted(out, k, size) == \A d \in 0..(size - 1) : out[k + d] # Redaction

KeptFrom(answer, covered, out, k, size, m) ==
  \A d \in 0..(size - 1) : m + d \notin covered /\ answer[m + d] = out[k + d]

\* A stretch of the redacted text without a redaction is a stretch of the answer.
LEMMA StretchesAreKept ==
  ASSUME NEW W, Redaction \notin W, NEW answer \in Seq(W), NEW covered \in SUBSET (1..Len(answer)),
         NEW out, Redacted(W, answer, covered, out, Len(answer)),
         NEW size \in Nat \ {0}, NEW k \in 1..(Len(out) - size + 1), Unredacted(out, k, size)
  PROVE  \E m \in 1..(Len(answer) - size + 1) : KeptFrom(answer, covered, out, k, size, m)
  <1>1. PICK n \in Nat : n = Len(answer)
    OBVIOUS
  <1>2. Len(out) \in Nat /\ k \in 1..Len(out) /\ Len(out) = Place(covered, n)
    BY <1>1 DEF Redacted
  <1>3. PICK m \in 1..n : Place(covered, m) = k
    BY <1>1, <1>2 DEF Redacted
  <1>4. ASSUME NEW j \in 1..n PROVE out[Place(covered, j)] = IF j \in covered THEN Redaction ELSE answer[j]
    BY <1>1 DEF Redacted
  <1> DEFINE S == {d \in Nat : d < size =>
                     /\ m + d \in 1..n /\ Place(covered, m + d) = k + d
                     /\ m + d \notin covered /\ answer[m + d] = out[k + d]}
  <1>5. 0 \in S
    <2>1. out[k + 0] # Redaction /\ m + 0 = m /\ k + 0 = k
      BY DEF Unredacted
    <2>2. out[k] = IF m \in covered THEN Redaction ELSE answer[m]
      BY <1>3, <1>4
    <2> QED
      BY <1>3, <2>1, <2>2
  <1>6. ASSUME NEW d \in S PROVE d + 1 \in S
    <2> SUFFICES ASSUME d + 1 < size
                 PROVE  /\ m + (d + 1) \in 1..n /\ Place(covered, m + (d + 1)) = k + (d + 1)
                        /\ m + (d + 1) \notin covered /\ answer[m + (d + 1)] = out[k + (d + 1)]
      OBVIOUS
    <2>1. PICK j \in 1..n, i \in Nat : /\ j = m + d /\ i = k + d
      OBVIOUS
    <2>2. Place(covered, j) = i /\ j \notin covered /\ j \in Nat
      BY <2>1
    <2>3. m + (d + 1) = j + 1 /\ k + (d + 1) = i + 1
      BY <2>1
    <2>4. i + 1 <= Len(out) /\ out[i + 1] # Redaction
      <3>1. d + 1 \in 0..(size - 1)
        OBVIOUS
      <3>2. out[k + (d + 1)] # Redaction /\ k + (d + 1) <= Len(out)
        BY <1>2, <3>1 DEF Unredacted
      <3> QED
        BY <2>3, <3>2
    <2>5. j # n
      BY <1>2, <2>2, <2>4
    <2>6. j + 1 \in 1..n /\ Place(covered, j + 1) = i + 1
      <3>1. Place(covered, j + 1) = IF j + 1 \notin covered \/ j \notin covered
                                     THEN Place(covered, j) + 1 ELSE Place(covered, j)
        BY <2>2, Places
      <3> QED
        BY <2>2, <2>5, <3>1
    <2>7. out[i + 1] = IF j + 1 \in covered THEN Redaction ELSE answer[j + 1]
      BY <1>4, <2>6
    <2> QED
      BY <2>3, <2>4, <2>6, <2>7
  <1>7. S = Nat
    <2> HIDE DEF S
    <2>1. S \in SUBSET Nat
      BY DEF S
    <2> QED
      BY <1>5, <1>6, <2>1, SetInduction
  <1>8. \A d \in 0..(size - 1) : m + d \in 1..n /\ m + d \notin covered /\ answer[m + d] = out[k + d]
    <2> SUFFICES ASSUME NEW d \in 0..(size - 1)
                 PROVE  m + d \in 1..n /\ m + d \notin covered /\ answer[m + d] = out[k + d]
      OBVIOUS
    <2>1. d \in S
      <3> HIDE DEF S
      <3> QED
        BY <1>7
    <2> QED
      BY <2>1
  <1>9. m \in 1..(n - size + 1)
    <2>1. size - 1 \in 0..(size - 1)
      OBVIOUS
    <2>2. m + (size - 1) \in 1..n
      BY <1>8, <2>1
    <2> QED
      BY <2>2
  <1> QED
    BY <1>1, <1>8, <1>9 DEF KeptFrom

AllIn(s, k, size, W) == \A d \in 0..(size - 1) : s[k + d] \in W

Spells(p, s, k, size) == Len(p) = size /\ \A d \in 0..(size - 1) : p[d + 1] = s[k + d]

LEMMA Stretches ==
  ASSUME NEW W, NEW s, NEW size \in Nat \ {0}, NEW k \in Nat, AllIn(s, k, size, W),
         NEW p, p = SubSeq(s, k, k + size - 1)
  PROVE  p \in Seq(W) /\ Spells(p, s, k, size)
  <1>1. PICK last \in Int : last = k + size - 1
    OBVIOUS
  <1>2. ASSUME NEW i \in k..last PROVE s[i] \in W
    <2>1. PICK d \in 0..(size - 1) : i = k + d
      <3>1. i - k \in 0..(size - 1) /\ i = k + (i - k)
        BY <1>1
      <3> QED
        BY <3>1
    <2> QED
      BY <2>1 DEF AllIn
  <1>3. /\ SubSeq(s, k, last) \in Seq(W)
        /\ Len(SubSeq(s, k, last)) = IF k <= last THEN last - k + 1 ELSE 0
        /\ \A i \in 1..(last - k + 1) : SubSeq(s, k, last)[i] = s[k + i - 1]
    BY <1>2, SubSeqProperties
  <1>4. p = SubSeq(s, k, last) /\ last - k + 1 = size /\ k <= last
    BY <1>1
  <1>5. ASSUME NEW d \in 0..(size - 1) PROVE p[d + 1] = s[k + d]
    <2>1. PICK i \in 1..size : i = d + 1
      OBVIOUS
    <2>2. p[i] = s[k + i - 1]
      BY <1>3, <1>4
    <2>3. k + i - 1 = k + d
      BY <2>1
    <2> QED
      BY <2>1, <2>2, <2>3
  <1> QED
    BY <1>3, <1>4, <1>5 DEF Spells

\* The phrases of the withheld texts, and the positions of the answer they cover.
ToldIn(withheld) == UNION {Phrases(t) : t \in withheld}

Disclosed(answer, withheld) ==
  {i \in 1..Len(answer) : \E j \in 1..i :
     /\ i < j + PhraseWords /\ j + PhraseWords - 1 <= Len(answer)
     /\ SubSeq(answer, j, j + PhraseWords - 1) \in ToldIn(withheld)}

LEMMA CoveredIsDisclosed ==
  ASSUME NEW answer, Len(answer) \in Nat, NEW withheld
  PROVE  Covered(answer, withheld) = Disclosed(answer, withheld)
  <1>1. PhraseWords \in Nat \ {0, 1}
    BY GatesAssumption
  <1>2. PICK n \in Nat : n = Len(answer)
    OBVIOUS
  <1> DEFINE Hit(j) == SubSeq(answer, j, j + PhraseWords - 1) \in ToldIn(withheld)
  <1>3. PICK hits : hits = {j \in 1..(n - PhraseWords + 1) : Hit(j)}
    OBVIOUS
  <1>4. Covered(answer, withheld) = UNION {j..(j + PhraseWords - 1) : j \in hits}
    BY <1>2, <1>3, Zenon DEF Covered, ToldIn
  <1>5. Disclosed(answer, withheld) =
          {i \in 1..n : \E j \in 1..i : i < j + PhraseWords /\ j + PhraseWords - 1 <= n /\ Hit(j)}
    BY <1>2, Zenon DEF Disclosed
  <1> HIDE DEF Hit
  <1>6. ASSUME NEW i PROVE i \in Covered(answer, withheld) <=> i \in Disclosed(answer, withheld)
    <2>1. ASSUME i \in Covered(answer, withheld) PROVE i \in Disclosed(answer, withheld)
      <3>1. PICK j \in hits : i \in j..(j + PhraseWords - 1)
        BY <1>4, <2>1
      <3>2. j \in 1..(n - PhraseWords + 1) /\ Hit(j)
        BY <1>3, <3>1
      <3>3. /\ i \in 1..n /\ j \in 1..i /\ i < j + PhraseWords
            /\ j + PhraseWords - 1 <= n
        BY <1>1, <1>2, <3>1, <3>2
      <3> QED
        BY <1>5, <3>2, <3>3
    <2>2. ASSUME i \in Disclosed(answer, withheld) PROVE i \in Covered(answer, withheld)
      <3>1. PICK j \in 1..i : i \in 1..n /\ i < j + PhraseWords /\ j + PhraseWords - 1 <= n /\ Hit(j)
        BY <1>5, <2>2
      <3>2. j \in hits /\ i \in j..(j + PhraseWords - 1)
        BY <1>1, <1>2, <1>3, <3>1
      <3> QED
        BY <1>4, <3>2
    <2> QED
      BY <2>1, <2>2
  <1> QED
    BY <1>6

LEMMA NothingCovered ==
  ASSUME NEW W, Redaction \notin W, NEW answer \in Seq(W)
  PROVE  RedactRuns(answer, {}) = answer
  <1>1. PICK n, out : n = Len(answer) /\ n \in Nat /\ out = RedactRuns(answer, {})
    OBVIOUS
  <1>2. Redacted(W, answer, {}, out, n)
    BY <1>1, RunsAreRedacted
  <1>3. ASSUME NEW i \in Nat PROVE Place({}, i) = i
    <2>1. Shows({}, i) = 1..i
      BY DEF Shows
    <2> QED
      BY <2>1, FS_Interval DEF Place
  <1>4. out \in Seq(W \cup {Redaction}) /\ Len(out) = n
    <2>1. out \in Seq(W \cup {Redaction}) /\ Len(out) = Place({}, n)
      BY <1>2 DEF Redacted
    <2>2. Place({}, n) = n
      BY <1>1, <1>3
    <2> QED
      BY <2>1, <2>2
  <1>5. \A m \in 1..n : out[m] = answer[m]
    BY <1>2, <1>3 DEF Redacted
  <1>6. answer \in Seq(W \cup {Redaction})
    BY SeqMonotonic
  <1> QED
    BY <1>1, <1>4, <1>5, <1>6, SeqEqual

\* What is not redacted shares no phrase with what is withheld.
LEMMA NothingToldIsLeft ==
  ASSUME NEW W, Redaction \notin W, NEW answer \in Seq(W), NEW withheld, \A t \in withheld : t \in Seq(W),
         NEW out, Redacted(W, answer, Disclosed(answer, withheld), out, Len(answer)),
         NEW p \in Phrases(out), p \in ToldIn(withheld)
  PROVE  FALSE
  <1>1. PhraseWords \in Nat \ {0, 1} /\ PhraseWords \in Nat \ {0}
    BY GatesAssumption
  <1>2. PICK n \in Nat : n = Len(answer)
    OBVIOUS
  <1>3. PICK covered : covered = Disclosed(answer, withheld)
    OBVIOUS
  <1>4. covered \in SUBSET (1..n) /\ Len(out) \in Nat /\ Redacted(W, answer, covered, out, n)
    <2>1. covered \in SUBSET (1..n)
      BY <1>2, <1>3 DEF Disclosed
    <2>2. Redacted(W, answer, covered, out, n)
      BY <1>2, <1>3
    <2>3. Len(out) = Place(covered, n) /\ Place(covered, n) \in Nat
      BY <2>2, Places DEF Redacted
    <2> QED
      BY <2>1, <2>2, <2>3
  <1>5. PICK k \in 1..(Len(out) - PhraseWords + 1) : p = SubSeq(out, k, k + PhraseWords - 1)
    BY DEF Phrases
  <1>6. PICK t \in Seq(W) : p \in Phrases(t)
    BY DEF ToldIn
  <1> PICK i \in 1..(Len(t) - PhraseWords + 1) : p = SubSeq(t, i, i + PhraseWords - 1)
    BY <1>6 DEF Phrases
  <1>7. p \in Seq(W) /\ Spells(p, t, i, PhraseWords)
    <2>1. ASSUME NEW d \in 0..(PhraseWords - 1) PROVE t[i + d] \in W
      <3>1. Len(t) \in Nat
        OBVIOUS
      <3>2. i + d \in 1..Len(t)
        BY <1>1, <3>1
      <3> QED
        BY <3>2
    <2>2. i \in Nat /\ AllIn(t, i, PhraseWords, W)
      BY <1>1, <2>1 DEF AllIn
    <2> QED
      BY <1>1, <2>2, Stretches
  <1>8. \A d \in 0..(PhraseWords - 1) : p[d + 1] \in W /\ p[d + 1] # Redaction
    <2> SUFFICES ASSUME NEW d \in 0..(PhraseWords - 1) PROVE p[d + 1] \in W
      OBVIOUS
    <2>1. d + 1 \in 1..Len(p)
      BY <1>1, <1>7 DEF Spells
    <2> QED
      BY <1>7, <2>1
  <1>9. Spells(p, out, k, PhraseWords)
    <2>1. PICK V : V = W \cup {Redaction}
      OBVIOUS
    <2>2. out \in Seq(V)
      BY <1>4, <2>1 DEF Redacted
    <2>3. ASSUME NEW d \in 0..(PhraseWords - 1) PROVE out[k + d] \in V
      <3>1. k + d \in 1..Len(out)
        BY <1>1, <1>4
      <3> QED
        BY <2>2, <3>1
    <2>4. k \in Nat /\ AllIn(out, k, PhraseWords, V)
      BY <1>1, <1>4, <2>3 DEF AllIn
    <2> QED
      BY <1>1, <1>5, <2>4, Stretches
  <1>10. Unredacted(out, k, PhraseWords)
    BY <1>8, <1>9 DEF Unredacted, Spells
  <1>11. PICK m \in 1..(n - PhraseWords + 1) : KeptFrom(answer, covered, out, k, PhraseWords, m)
    <2>1. covered \in SUBSET (1..Len(answer)) /\ Redacted(W, answer, covered, out, Len(answer))
      BY <1>2, <1>4
    <2>2. \E m \in 1..(Len(answer) - PhraseWords + 1) : KeptFrom(answer, covered, out, k, PhraseWords, m)
      BY <1>1, <1>10, <2>1, StretchesAreKept
    <2> QED
      BY <1>2, <2>2
  <1>12. PICK q : q = SubSeq(answer, m, m + PhraseWords - 1)
    OBVIOUS
  <1>13. q = p
    <2>1. ASSUME NEW d \in 0..(PhraseWords - 1)
          PROVE  answer[m + d] \in W /\ answer[m + d] = p[d + 1]
      BY <1>8, <1>9, <1>11 DEF Spells, KeptFrom
    <2>2. m \in Nat /\ AllIn(answer, m, PhraseWords, W)
      <3>1. m \in Nat
        BY <1>1
      <3>2. AllIn(answer, m, PhraseWords, W)
        BY <2>1, Zenon DEF AllIn
      <3> QED
        BY <3>1, <3>2
    <2>3. q \in Seq(W) /\ Spells(q, answer, m, PhraseWords)
      BY <1>1, <1>12, <2>2, Stretches
    <2>4. Len(p) = PhraseWords /\ Len(q) = PhraseWords
      BY <1>7, <2>3 DEF Spells
    <2>5. ASSUME NEW x \in 1..Len(q) PROVE q[x] = p[x]
      <3>1. PICK d \in 0..(PhraseWords - 1) : x = d + 1
        <4>1. x - 1 \in 0..(PhraseWords - 1) /\ x = (x - 1) + 1
          BY <1>1, <2>4
        <4> QED
          BY <4>1
      <3> QED
        BY <2>1, <2>3, <3>1 DEF Spells
    <2> QED
      BY <1>7, <2>3, <2>4, <2>5, SeqEqual
  <1>14. m \in covered
    <2>1. m \in 1..n /\ m \in 1..m /\ m < m + PhraseWords /\ m + PhraseWords - 1 <= n
      BY <1>1
    <2> QED
      BY <1>2, <1>3, <1>12, <1>13, <2>1 DEF Disclosed
  <1>15. 0 \in 0..(PhraseWords - 1) /\ m + 0 = m
    BY <1>1
  <1> QED
    BY <1>11, <1>14, <1>15 DEF KeptFrom

(* Redaction is exact, for answers and withheld texts of any length over    *)
(* any words: no phrase of a withheld text is left, every other word stands *)
(* in its place, one redaction stands for each run of disclosed words, and  *)
(* no two of them touch.                                                    *)
THEOREM RedactionIsExact ==
  ASSUME NEW W, Redaction \notin W, NEW answer \in Seq(W), NEW withheld, \A t \in withheld : t \in Seq(W),
         NEW left, left = Review(answer, withheld, "redact"),
         NEW disclosed, disclosed = Disclosed(answer, withheld)
  PROVE  /\ Phrases(left) \cap ToldIn(withheld) = {}
         /\ Len(left) = Place(disclosed, Len(answer))
         /\ \A i \in 1..Len(answer) :
              left[Place(disclosed, i)] = IF i \in disclosed THEN Redaction ELSE answer[i]
         /\ \A k \in 1..(Len(left) - 1) : left[k] = Redaction => left[k + 1] # Redaction
  <1>1. Covered(answer, withheld) = disclosed
    BY CoveredIsDisclosed
  <1>2. left = RedactRuns(answer, disclosed)
    <2>1. CASE disclosed = {}
      <3>1. left = answer
        BY <1>1, <2>1 DEF Review
      <3> QED
        BY <2>1, <3>1, NothingCovered
    <2>2. CASE disclosed # {}
      BY <1>1, <2>2 DEF Review
    <2> QED
      BY <2>1, <2>2
  <1>3. disclosed \in SUBSET (1..Len(answer))
    BY DEF Disclosed
  <1>4. Redacted(W, answer, disclosed, left, Len(answer))
    BY <1>2, <1>3, RunsAreRedacted
  <1>5. Phrases(left) \cap ToldIn(withheld) = {}
    BY <1>4, NothingToldIsLeft
  <1> QED
    BY <1>4, <1>5 DEF Redacted
=============================================================================

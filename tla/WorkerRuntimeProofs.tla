------------------------ MODULE WorkerRuntimeProofs ------------------------
(***************************************************************************)
(* Type correctness of the worker runtime, mutual exclusion up to lapses,  *)
(* the record of overlaps, release on shutdown and the refinement of       *)
(* ScopeMutex, for any replicas, scopes, jobs and time bounds.             *)
(***************************************************************************)
EXTENDS WorkerRuntime, TLAPS

WorkerType ==
  [pc : Places, scope : 1..(LastScope + 1), job : 1..(LastJob + 1),
   tries : 1..MaxAttempts, results : SUBSET Results, verdict : Verdicts,
   raised : BOOLEAN, stop : BOOLEAN, leaked : SUBSET Scopes]

HeartType == [st : {"off", "waiting", "writing", "lost"}, k : 0..TTL]

StrayType == [scope : 0..LastScope, k : 0..TTL]

LeaseType == [owner : Workers \cup {Nobody, Dead}, left : 0..TTL]

LEMMA FirstsAreTyped ==
  1 \in 1..(LastScope + 1) /\ 1 \in 1..(LastJob + 1) /\ 1 \in 1..MaxAttempts
BY RuntimeAssumption

LEMMA IdleIsTyped == Idle \in WorkerType /\ Silent \in HeartType
BY RuntimeAssumption DEF Idle, Silent, WorkerType, HeartType, Places, Results, Verdicts, Scopes

(* What a pass or a scope leaves behind keeps the flag and the leaks.       *)
LEMMA EndPassTyped ==
  ASSUME TypeOK, NEW i \in Workers, EndPass(i)
  PROVE  worker' \in [Workers -> WorkerType]
<1>1. worker[i].stop \in BOOLEAN /\ worker[i].leaked \in SUBSET Scopes
  BY DEF TypeOK
<1>2. [Idle EXCEPT !.stop = worker[i].stop, !.leaked = worker[i].leaked] \in WorkerType
  BY <1>1, IdleIsTyped DEF WorkerType
<1>3. worker \in [Workers -> WorkerType]
  BY DEF TypeOK, WorkerType
<1> QED
  BY <1>2, <1>3 DEF EndPass

LEMMA EndScopeTyped ==
  ASSUME TypeOK, NEW i \in Workers, EndScope(i), worker[i].scope \in Scopes
  PROVE  worker' \in [Workers -> WorkerType]
<1>1. CASE worker[i].raised
  BY <1>1, EndPassTyped DEF EndScope
<1>2. CASE ~worker[i].raised
  <2>1. /\ worker[i].stop \in BOOLEAN /\ worker[i].leaked \in SUBSET Scopes
        /\ worker[i].scope + 1 \in 1..(LastScope + 1)
    BY SMTT(20), RuntimeAssumption DEF TypeOK, Scopes
  <2>2. [Idle EXCEPT !.pc = "next", !.scope = worker[i].scope + 1,
                     !.stop = worker[i].stop, !.leaked = worker[i].leaked] \in WorkerType
    BY <2>1, IdleIsTyped DEF WorkerType, Places
  <2>3. worker \in [Workers -> WorkerType]
    BY DEF TypeOK, WorkerType
  <2> QED
    BY <1>2, <2>2, <2>3 DEF EndScope
<1> QED
  BY <1>1, <1>2

(* An update of some fields of i's record within their types.               *)
LEMMA UpdateTyped ==
  ASSUME TypeOK, NEW i \in Workers, NEW r \in WorkerType,
         worker' = [worker EXCEPT ![i] = r]
  PROVE  worker' \in [Workers -> WorkerType]
BY DEF TypeOK, WorkerType

LEMMA TypedWorker ==
  ASSUME TypeOK, NEW i \in Workers
  PROVE  worker[i] \in WorkerType /\ heart[i] \in HeartType
BY DEF TypeOK, WorkerType, HeartType

LEMMA EnterTyped ==
  ASSUME TypeOK, NEW i \in Workers, NEW s, NEW left, Enter(i, s, left)
  PROVE  worker' \in [Workers -> WorkerType]
<1>1. [worker[i] EXCEPT !.pc = "run", !.leaked = worker[i].leaked \ {s}] \in WorkerType
  BY TypedWorker DEF WorkerType, Places
<1>2. worker' = [worker EXCEPT ![i] =
        [worker[i] EXCEPT !.pc = "run", !.leaked = worker[i].leaked \ {s}]]
  BY DEF Enter, TypeOK
<1> QED
  BY <1>1, <1>2, UpdateTyped

LEMMA EndJobsTyped ==
  ASSUME TypeOK, NEW i \in Workers, EndJobs(i)
  PROVE  worker' \in [Workers -> WorkerType]
<1>1. Verdict(i) \in Verdicts
  BY DEF Verdict, ReportStatus, Verdicts
<1>2. [worker[i] EXCEPT !.pc = "record", !.verdict = Verdict(i), !.results = {}] \in WorkerType
  BY <1>1, TypedWorker DEF WorkerType, Places, Results
<1>3. worker' = [worker EXCEPT ![i] =
        [worker[i] EXCEPT !.pc = "record", !.verdict = Verdict(i), !.results = {}]]
  BY DEF EndJobs, TypeOK
<1> QED
  BY <1>2, <1>3, UpdateTyped

LEMMA MainTyped ==
  ASSUME TypeOK, ControlInvariant, NEW i \in Workers, MainStep(i)
  PROVE  worker' \in [Workers -> WorkerType]
<1> DEFINE w == worker[i]
<1>0. w \in WorkerType
  BY TypedWorker
<1>1. CASE StartTick(i)
  <2>1. [w EXCEPT !.pc = "next", !.scope = 1] \in WorkerType
    BY <1>0, FirstsAreTyped DEF WorkerType, Places
  <2>2. worker' = [worker EXCEPT ![i] = [w EXCEPT !.pc = "next", !.scope = 1]]
    BY <1>1 DEF StartTick, TypeOK
  <2> QED
    BY <2>1, <2>2, UpdateTyped
<1>2. CASE Stop(i)
  <2>1. [w EXCEPT !.pc = "stopped"] \in WorkerType
    BY <1>0 DEF WorkerType, Places
  <2>2. worker' = [worker EXCEPT ![i] = [w EXCEPT !.pc = "stopped"]]
    BY <1>2 DEF Stop, TypeOK
  <2> QED
    BY <2>1, <2>2, UpdateTyped
<1>3. CASE FinishPass(i)
  BY <1>3, EndPassTyped DEF FinishPass
<1>4. CASE Acquire(i)
  BY <1>4, EnterTyped DEF Acquire
<1>5. CASE Skip(i)
  <2>1. [w EXCEPT !.pc = "record", !.verdict = "locked_skip"] \in WorkerType
    BY <1>0 DEF WorkerType, Places, Verdicts
  <2>2. worker' = [worker EXCEPT ![i] = [w EXCEPT !.pc = "record", !.verdict = "locked_skip"]]
    BY <1>5 DEF Skip, TypeOK
  <2> QED
    BY <2>1, <2>2, UpdateTyped
<1>6. CASE BeginJob(i)
  <2>1. [w EXCEPT !.pc = "job", !.tries = 1] \in WorkerType
    BY <1>0, FirstsAreTyped DEF WorkerType, Places
  <2>2. worker' = [worker EXCEPT ![i] = [w EXCEPT !.pc = "job", !.tries = 1]]
    BY <1>6 DEF BeginJob, TypeOK
  <2> QED
    BY <2>1, <2>2, UpdateTyped
<1>7. CASE AbortJobs(i)
  <2>1. LastJob + 1 \in 1..(LastJob + 1) /\ w.results \cup {"aborted"} \in SUBSET Results
    BY <1>0, RuntimeAssumption DEF WorkerType, Results
  <2>2. [w EXCEPT !.job = LastJob + 1, !.results = worker[i].results \cup {"aborted"}]
          \in WorkerType
    BY <1>0, <2>1 DEF WorkerType
  <2>3. worker' = [worker EXCEPT ![i] =
          [w EXCEPT !.job = LastJob + 1, !.results = worker[i].results \cup {"aborted"}]]
    BY <1>7 DEF AbortJobs, TypeOK
  <2> QED
    BY <2>2, <2>3, UpdateTyped
<1>8. ASSUME NEW r \in Results, JobDone(i, r), w.pc = "job"
      PROVE  worker' \in [Workers -> WorkerType]
  <2>1. w.job + 1 \in 1..(LastJob + 1)
    BY <1>0, <1>8, RuntimeAssumption DEF WorkerType, ControlInvariant
  <2>2. [w EXCEPT !.pc = "run", !.job = worker[i].job + 1, !.tries = 1,
                  !.results = worker[i].results \cup {r}] \in WorkerType
    BY <1>0, <1>8, <2>1, FirstsAreTyped DEF WorkerType, Places
  <2>3. worker' = [worker EXCEPT ![i] =
          [w EXCEPT !.pc = "run", !.job = worker[i].job + 1, !.tries = 1,
                    !.results = worker[i].results \cup {r}]]
    BY <1>8 DEF JobDone, TypeOK
  <2> QED
    BY <2>2, <2>3, UpdateTyped
<1>9. CASE JobSucceeds(i)
  BY <1>8, <1>9 DEF JobSucceeds, Results
<1>10. CASE JobRetries(i)
  <2>1. w.tries + 1 \in 1..MaxAttempts
    BY <1>0, <1>10, RuntimeAssumption DEF JobRetries, WorkerType
  <2>2. [w EXCEPT !.tries = worker[i].tries + 1] \in WorkerType
    BY <1>0, <2>1 DEF WorkerType
  <2>3. worker' = [worker EXCEPT ![i] = [w EXCEPT !.tries = worker[i].tries + 1]]
    BY <1>10 DEF JobRetries, TypeOK
  <2> QED
    BY <2>2, <2>3, UpdateTyped
<1>11. CASE JobGivenUp(i)
  <2>1. (IF MaxAttempts > 1 THEN "dead_letter" ELSE "failed") \in Results
    BY DEF Results
  <2> QED
    BY <1>8, <1>11, <2>1 DEF JobGivenUp
<1>12. CASE FinishJobs(i)
  BY <1>12, EndJobsTyped DEF FinishJobs
<1>13. CASE Record(i)
  <2>0. w.scope \in Scopes
    BY <1>13 DEF Record, ControlInvariant
  <2>1. CASE w.verdict = "locked_skip"
    BY <1>13, <2>0, <2>1, EndScopeTyped DEF Record
  <2>2. CASE w.verdict # "locked_skip"
    <3>1. [w EXCEPT !.pc = "release", !.verdict = "completed"] \in WorkerType
      BY <1>0 DEF WorkerType, Places, Verdicts
    <3>2. worker' = [worker EXCEPT ![i] =
            [w EXCEPT !.pc = "release", !.verdict = "completed"]]
      BY <1>13, <2>2 DEF Record, TypeOK
    <3> QED
      BY <3>1, <3>2, UpdateTyped
  <2> QED
    BY <2>1, <2>2
<1>14. CASE ReleaseRead(i)
  <2>0. w.scope \in Scopes
    BY <1>14 DEF ReleaseRead, ControlInvariant
  <2>1. CASE lease[w.scope].owner = i
    <3>1. [w EXCEPT !.pc = "delete"] \in WorkerType
      BY <1>0 DEF WorkerType, Places
    <3>2. worker' = [worker EXCEPT ![i] = [w EXCEPT !.pc = "delete"]]
      BY <1>14, <2>1 DEF ReleaseRead, TypeOK
    <3> QED
      BY <3>1, <3>2, UpdateTyped
  <2>2. CASE lease[w.scope].owner # i
    BY <1>14, <2>0, <2>2, EndScopeTyped DEF ReleaseRead
  <2> QED
    BY <2>1, <2>2
<1>15. CASE ReleaseWrite(i)
  <2>0. w.scope \in Scopes
    BY <1>15 DEF ReleaseWrite, ControlInvariant
  <2> QED
    BY <1>15, <2>0, EndScopeTyped DEF ReleaseWrite
<1> QED
  BY <1>1, <1>2, <1>3, <1>4, <1>5, <1>6, <1>7, <1>9, <1>10, <1>11, <1>12, <1>13, <1>14, <1>15
     DEF MainStep

LEMMA AbandonTyped ==
  ASSUME TypeOK, NEW i \in Workers, NEW s \in Scopes, NEW rows, Abandon(i, s, rows)
  PROVE  worker' \in [Workers -> WorkerType]
<1> DEFINE l == IF rows[s].owner = i THEN worker[i].leaked \cup {s} ELSE worker[i].leaked
<1>1. worker[i].stop \in BOOLEAN /\ l \in SUBSET Scopes
  BY DEF TypeOK
<1>2. [Idle EXCEPT !.stop = worker[i].stop, !.leaked = l] \in WorkerType
  BY <1>1, IdleIsTyped DEF WorkerType
<1>3. worker' = [worker EXCEPT ![i] = [Idle EXCEPT !.stop = worker[i].stop, !.leaked = l]]
  BY DEF Abandon
<1> QED
  BY <1>2, <1>3, UpdateTyped

LEMMA FaultTyped ==
  ASSUME TypeOK, ControlInvariant, NEW i \in Workers, FaultStep(i) \/ Restart(i)
  PROVE  worker' \in [Workers -> WorkerType]
<1> DEFINE w == worker[i]
<1>0. w \in WorkerType
  BY TypedWorker
<1>1. CASE AcquireRaises(i)
  BY <1>1, AbandonTyped DEF AcquireRaises
<1>2. CASE RecordRaises(i)
  <2>1. CASE w.verdict = "locked_skip"
    BY <1>2, <2>1, EndPassTyped DEF RecordRaises
  <2>2. CASE w.verdict # "locked_skip"
    <3> DEFINE r == [w EXCEPT !.pc = "release", !.raised = TRUE,
                              !.verdict = "completed"]
    <3>1. r \in WorkerType
      BY <1>0 DEF WorkerType, Places, Verdicts
    <3>2. worker' = [worker EXCEPT ![i] = r]
      BY <1>2, <2>2 DEF RecordRaises, TypeOK
    <3> QED
      BY <3>1, <3>2, UpdateTyped
  <2> QED
    BY <2>1, <2>2
<1>3. CASE ReleaseRaises(i)
  <2>1. w.scope \in Scopes
    BY <1>3 DEF ReleaseRaises, ControlInvariant
  <2> QED
    BY <1>3, <2>1, AbandonTyped DEF ReleaseRaises
<1>4. CASE RenewRaises(i)
  BY <1>4 DEF RenewRaises, TypeOK, WorkerType
<1>5. CASE Shutdown(i)
  <2>1. [w EXCEPT !.stop = TRUE] \in WorkerType
    BY <1>0 DEF WorkerType
  <2>2. worker' = [worker EXCEPT ![i] = [w EXCEPT !.stop = TRUE]]
    BY <1>5 DEF Shutdown, TypeOK
  <2> QED
    BY <2>1, <2>2, UpdateTyped
<1>6. CASE Crash(i)
  <2>1. [Idle EXCEPT !.pc = "down"] \in WorkerType
    BY IdleIsTyped DEF WorkerType, Places
  <2> QED
    BY <1>6, <2>1, UpdateTyped DEF Crash
<1>7. CASE Restart(i)
  BY <1>7, IdleIsTyped, UpdateTyped DEF Restart
<1>8. CASE AcquireLate(i)
  <2>1. CASE \E left \in 0..TTL : Enter(i, w.scope, left)
    BY <2>1, EnterTyped
  <2>2. CASE worker' = [worker EXCEPT ![i].pc = "record", ![i].verdict = "locked_skip"]
    <3>1. [w EXCEPT !.pc = "record", !.verdict = "locked_skip"] \in WorkerType
      BY <1>0 DEF WorkerType, Places, Verdicts
    <3>2. worker' = [worker EXCEPT ![i] = [w EXCEPT !.pc = "record", !.verdict = "locked_skip"]]
      BY <2>2 DEF TypeOK
    <3> QED
      BY <3>1, <3>2, UpdateTyped
  <2> QED
    BY <1>8, <2>1, <2>2 DEF AcquireLate
<1>9. CASE JoinTimesOut(i)
  BY <1>9, EndJobsTyped DEF JoinTimesOut
<1> QED
  BY <1>1, <1>2, <1>3, <1>4, <1>5, <1>6, <1>7, <1>8, <1>9 DEF FaultStep

LEMMA LeaseTyped ==
  ASSUME TypeOK, ControlInvariant, Next
  PROVE  lease' \in [Scopes -> LeaseType]
<1>0. lease \in [Scopes -> LeaseType] /\ heart \in [Workers -> HeartType]
  BY DEF TypeOK, LeaseType, HeartType
<1>1. ASSUME NEW i \in Workers, NEW s \in Scopes, NEW left \in 0..TTL
      PROVE  Granted(i, s, left) \in [Scopes -> LeaseType]
  BY <1>0, RuntimeAssumption DEF Granted, LeaseType
<1>2. ASSUME NEW s \in Scopes
      PROVE  RowDeleted(s) \in [Scopes -> LeaseType]
  BY <1>0, RuntimeAssumption DEF RowDeleted, LeaseType
<1>3. ASSUME NEW s \in Scopes, NEW left \in 0..TTL
      PROVE  [lease EXCEPT ![s].left = left] \in [Scopes -> LeaseType]
  <2>1. [lease[s] EXCEPT !.left = left] \in LeaseType
    BY <1>0 DEF LeaseType
  <2> QED
    BY <1>0, <2>1
<1>4. ASSUME NEW i \in Workers
      PROVE  Orphaned(i) \in [Scopes -> LeaseType]
  <2>1. ASSUME NEW s \in Scopes
        PROVE  [lease[s] EXCEPT !.owner = Dead] \in LeaseType
    BY <1>0 DEF LeaseType
  <2> QED
    BY <1>0, <2>1 DEF Orphaned
<1>5. CASE Tick
  <2>1. ASSUME NEW s \in Scopes
        PROVE  [lease[s] EXCEPT !.left = Less(lease[s].left)] \in LeaseType
    <3>1. Less(lease[s].left) \in 0..TTL
      BY <1>0, RuntimeAssumption DEF Less, LeaseType
    <3> QED
      BY <1>0, <3>1 DEF LeaseType
  <2> QED
    BY <1>5, <2>1 DEF Tick
<1>6. ASSUME NEW i \in Workers, HeartStep(i) \/ StrayWrite(i) \/ RenewRaises(i)
      PROVE  lease' \in [Scopes -> LeaseType]
  <2>1. heart[i].st # "off" => worker[i].scope \in Scopes
    BY DEF ControlInvariant
  <2>2. heart[i].k \in 0..TTL /\ stray[i].k \in 0..TTL
    BY DEF TypeOK
  <2> QED
    BY <1>0, <1>3, <1>6, <2>1, <2>2
       DEF HeartStep, RenewRead, RenewWrite, StrayWrite, RenewRaises, Due
<1>7. ASSUME NEW i \in Workers, MainStep(i)
      PROVE  lease' \in [Scopes -> LeaseType]
  <2>1. worker[i].pc = "delete" => worker[i].scope \in Scopes
    BY DEF ControlInvariant
  <2>2. TTL \in 0..TTL
    BY RuntimeAssumption
  <2> QED
    BY <1>0, <1>1, <1>2, <1>7, <2>1, <2>2
       DEF MainStep, StartTick, Stop, FinishPass, Acquire, Enter, Skip, BeginJob, AbortJobs,
           JobSucceeds, JobRetries, JobGivenUp, FinishJobs, Record, ReleaseRead, ReleaseWrite
<1>8. ASSUME NEW i \in Workers, FaultStep(i) \/ Restart(i)
      PROVE  lease' \in [Scopes -> LeaseType]
  <2>1. worker[i].pc \in {"release", "delete"} => worker[i].scope \in Scopes
    BY DEF ControlInvariant
  <2>0. TTL \in 0..TTL
    BY RuntimeAssumption
  <2>2. CASE AcquireRaises(i) \/ AcquireLate(i)
    BY <1>0, <1>1, <2>0, <2>2 DEF AcquireRaises, AcquireLate, Enter
  <2>3. CASE ReleaseRaises(i)
    BY <1>0, <1>2, <2>1, <2>3 DEF ReleaseRaises
  <2>4. CASE Crash(i) \/ Restart(i)
    BY <1>4, <2>4 DEF Crash, Restart
  <2>5. CASE RecordRaises(i) \/ JoinTimesOut(i) \/ Shutdown(i)
    BY <1>0, <2>5 DEF RecordRaises, JoinTimesOut, Shutdown
  <2> QED
    BY <1>6, <1>8, <2>2, <2>3, <2>4, <2>5 DEF FaultStep
<1> QED
  BY <1>5, <1>6, <1>7, <1>8 DEF Next

LEMMA HeartTyped ==
  ASSUME TypeOK, Next
  PROVE  heart' \in [Workers -> HeartType]
<1>0. heart \in [Workers -> HeartType]
  BY DEF TypeOK, HeartType
<1>1. /\ [st |-> "waiting", k |-> Interval] \in HeartType
      /\ [st |-> "writing", k |-> TTL] \in HeartType
      /\ [st |-> "lost", k |-> 0] \in HeartType
      /\ Silent \in HeartType
  BY RuntimeAssumption DEF HeartType, Silent
<1>2. CASE Tick
  <2>1. ASSUME NEW i \in Workers
        PROVE  [heart[i] EXCEPT !.k = Less(heart[i].k)] \in HeartType
    <3>1. Less(heart[i].k) \in 0..TTL
      BY <1>0, RuntimeAssumption DEF Less, HeartType
    <3> QED
      BY <1>0, <3>1 DEF HeartType
  <2> QED
    BY <1>2, <2>1 DEF Tick
<1>3. ASSUME NEW i \in Workers, MainStep(i)
      PROVE  heart' \in [Workers -> HeartType]
  BY <1>0, <1>1, <1>3
     DEF MainStep, StartTick, Stop, FinishPass, Acquire, Enter, Skip, BeginJob, AbortJobs,
         JobSucceeds, JobRetries, JobGivenUp, FinishJobs, EndJobs, Record, ReleaseRead,
         ReleaseWrite
<1>4. ASSUME NEW i \in Workers, HeartStep(i) \/ StrayWrite(i)
      PROVE  heart' \in [Workers -> HeartType]
  BY <1>0, <1>1, <1>4 DEF HeartStep, RenewRead, RenewWrite, StrayWrite, Lost
<1>5. ASSUME NEW i \in Workers, FaultStep(i) \/ Restart(i)
      PROVE  heart' \in [Workers -> HeartType]
  BY <1>0, <1>1, <1>5
     DEF FaultStep, AcquireRaises, AcquireLate, Enter, JoinTimesOut, EndJobs, RecordRaises,
         ReleaseRaises, RenewRaises, Shutdown, Crash, Restart
<1> QED
  BY <1>2, <1>3, <1>4, <1>5 DEF Next

LEMMA StrayTyped ==
  ASSUME TypeOK, ControlInvariant, Next
  PROVE  stray' \in [Workers -> StrayType]
<1>0. stray \in [Workers -> StrayType] /\ NoStray \in StrayType
  BY RuntimeAssumption DEF TypeOK, StrayType, NoStray
<1>1. CASE Tick
  <2>1. ASSUME NEW i \in Workers
        PROVE  [stray[i] EXCEPT !.k = Less(stray[i].k)] \in StrayType
    <3>1. Less(stray[i].k) \in 0..TTL
      BY <1>0, RuntimeAssumption DEF Less, StrayType
    <3> QED
      BY <1>0, <3>1 DEF StrayType
  <2> QED
    BY <1>1, <2>1 DEF Tick
<1>2. ASSUME NEW i \in Workers, JoinTimesOut(i)
      PROVE  stray' \in [Workers -> StrayType]
  <2>1. worker[i].scope \in Scopes /\ heart[i].k \in 0..TTL
    BY <1>2 DEF JoinTimesOut, EndJobs, ControlInvariant, TypeOK
  <2>2. [scope |-> worker[i].scope, k |-> heart[i].k] \in StrayType
    BY <2>1, RuntimeAssumption DEF Scopes, StrayType
  <2> QED
    BY <1>0, <1>2, <2>2 DEF JoinTimesOut
<1>3. CASE stray' = stray \/ \E i \in Workers : stray' = [stray EXCEPT ![i] = NoStray]
  BY <1>0, <1>3
<1> QED
  BY ZenonT(60), <1>1, <1>2, <1>3
     DEF Next, MainStep, HeartStep, FaultStep, StartTick, Stop, FinishPass, Acquire, Skip,
         BeginJob, AbortJobs, JobSucceeds, JobRetries, JobGivenUp, FinishJobs, Record,
         ReleaseRead, ReleaseWrite, RenewRead, RenewWrite, StrayWrite, AcquireRaises,
         AcquireLate, RecordRaises, ReleaseRaises, RenewRaises, Shutdown, Crash, Restart

LEMMA HistoryTyped ==
  ASSUME TypeOK, Next
  PROVE  lapse' \in [Workers -> Causes] /\ overlap' \in [Workers -> Overlaps]
<1>0. lapse \in [Workers -> Causes] /\ overlap \in [Workers -> Overlaps]
  BY DEF TypeOK
<1>1. {"none", "late", "overwritten", "deleted"} = Causes /\ {"none", "entered", "asked"} = Overlaps
  BY DEF Causes, Overlaps
<1>2. \A s : \A cause \in Causes : Disturbed(s, cause) \in [Workers -> Causes]
  BY <1>0 DEF Disturbed
<1>3. \A i \in Workers : \A s : Overtaken(i, s) \in [Workers -> Overlaps]
  BY <1>0, <1>1 DEF Overtaken
<1>4. \A i \in Workers : Forget(i) => /\ lapse' \in [Workers -> Causes]
                                    /\ overlap' \in [Workers -> Overlaps]
  BY <1>0, <1>1 DEF Forget
<1>5. \A i \in Workers : \A s, left :
        Enter(i, s, left) => lapse' \in [Workers -> Causes] /\ overlap' \in [Workers -> Overlaps]
  BY <1>0, <1>1, <1>3 DEF Enter
<1>6. CASE Tick
  BY <1>0, <1>1, <1>6 DEF Tick
<1>7. ASSUME NEW i \in Workers, HeartStep(i) \/ StrayWrite(i) \/ RenewRaises(i)
      PROVE  lapse' \in [Workers -> Causes] /\ overlap' \in [Workers -> Overlaps]
  <2>1. CASE RenewRead(i)
    BY <1>0, <1>1, <2>1 DEF RenewRead, Lost
  <2>2. CASE RenewWrite(i)
    BY <1>0, <1>1, <1>2, <2>2 DEF RenewWrite, Lost
  <2>3. CASE StrayWrite(i)
    BY <1>0, <1>1, <1>2, <2>3 DEF StrayWrite
  <2>4. CASE RenewRaises(i)
    BY <1>0, <1>1, <1>2, <2>4 DEF RenewRaises
  <2> QED
    BY <1>7, <2>1, <2>2, <2>3, <2>4 DEF HeartStep
<1>8. CASE UNCHANGED history
  BY <1>0, <1>8 DEF history
<1>9. ASSUME NEW i \in Workers, ReleaseWrite(i) \/ ReleaseRaises(i)
      PROVE  lapse' \in [Workers -> Causes] /\ overlap' \in [Workers -> Overlaps]
  BY <1>0, <1>1, <1>2, <1>9 DEF ReleaseWrite, ReleaseRaises
<1> QED
  BY ZenonT(60), <1>4, <1>5, <1>6, <1>7, <1>8, <1>9
     DEF Next, MainStep, FaultStep, StartTick, Stop, FinishPass, Acquire, Skip, BeginJob,
         AbortJobs, JobSucceeds, JobRetries, JobGivenUp, FinishJobs, Record, ReleaseRead,
         AcquireRaises, AcquireLate, JoinTimesOut, RecordRaises, Shutdown, Crash, Restart

(* One replica's part of ControlInvariant, in terms of the fields it reads. *)
Controlled(pc, scope, job, st) ==
  /\ pc \in {"run", "job"} <=> st # "off"
  /\ pc \in {"run", "job", "record", "release", "delete"} => scope \in Scopes
  /\ pc = "job" => job <= LastJob

LEMMA ControlStep ==
  ASSUME TypeOK, ControlInvariant, Next
  PROVE  ControlInvariant'
<1> DEFINE C(j) == Controlled(worker[j].pc, worker[j].scope, worker[j].job, heart[j].st)
<1>0. /\ worker \in [Workers -> WorkerType]
      /\ heart \in [Workers -> HeartType]
      /\ \A j \in Workers : C(j)
  BY DEF TypeOK, ControlInvariant, Controlled, WorkerType, HeartType
<1>1. SUFFICES ASSUME NEW j \in Workers PROVE C(j)'
  BY DEF ControlInvariant, Controlled
<1>2. CASE Tick
  BY <1>0, <1>2 DEF Tick, HeartType
<1>b. ASSUME NEW i \in Workers, NEW left, worker[i].scope \in Scopes,
             Enter(i, worker[i].scope, left)
      PROVE  C(j)'
  <2>1. /\ worker'[i].pc = "run" /\ worker'[i].scope = worker[i].scope
        /\ heart'[i].st = "waiting"
    BY <1>0, <1>b DEF Enter, WorkerType
  <2>2. j # i => worker'[j] = worker[j] /\ heart'[j] = heart[j]
    BY <1>0, <1>b DEF Enter
  <2> QED
    BY <1>0, <1>b, <2>1, <2>2 DEF Controlled
<1>c. ASSUME NEW i \in Workers, EndJobs(i)
      PROVE  C(j)'
  <2>1. /\ worker'[i].pc = "record" /\ worker'[i].scope = worker[i].scope
        /\ worker[i].pc = "run" /\ heart'[i].st = "off"
    BY <1>0, <1>c DEF EndJobs, Silent, WorkerType
  <2>2. j # i => worker'[j] = worker[j] /\ heart'[j] = heart[j]
    BY <1>0, <1>c DEF EndJobs
  <2> QED
    BY <1>0, <1>c, <2>1, <2>2 DEF Controlled
<1>3. ASSUME NEW i \in Workers, MainStep(i)
      PROVE  C(j)'
  <2>0. C(i) /\ C(j)
    BY <1>0
  <2>1. CASE EndPass(i) /\ heart' = heart /\ worker[i].pc \notin {"run", "job"}
    BY <1>0, <2>0, <2>1 DEF EndPass, Idle, WorkerType, Controlled
  <2>2. CASE EndScope(i) /\ heart' = heart /\ worker[i].pc \notin {"run", "job"}
    <3>1. CASE worker[i].raised
      BY <2>1, <2>2, <3>1 DEF EndScope
    <3>2. CASE ~worker[i].raised
      <4> DEFINE r == [Idle EXCEPT !.pc = "next", !.scope = worker[i].scope + 1,
                                   !.stop = worker[i].stop, !.leaked = worker[i].leaked]
      <4>1. r.pc = "next"
        BY DEF Idle
      <4>2. worker' = [worker EXCEPT ![i] = r]
        BY <2>2, <3>2 DEF EndScope
      <4>3. worker'[j] = IF j = i THEN r ELSE worker[j]
        BY <1>0, <4>2
      <4> QED
        BY <1>0, <2>0, <2>2, <4>1, <4>3 DEF Controlled
    <3> QED
      BY <3>1, <3>2
  <2>3. CASE StartTick(i) \/ Stop(i) \/ Skip(i)
    BY <1>0, <2>0, <2>3 DEF StartTick, Stop, Skip, WorkerType, Controlled
  <2>4. CASE Acquire(i)
    BY <1>0, <1>b, <2>4 DEF Acquire
  <2>5. CASE BeginJob(i) \/ AbortJobs(i) \/ JobRetries(i)
    BY <1>0, <2>0, <2>5 DEF BeginJob, AbortJobs, JobRetries, WorkerType, Controlled
  <2>6. CASE JobSucceeds(i) \/ JobGivenUp(i)
    BY <1>0, <2>0, <2>6 DEF JobSucceeds, JobGivenUp, JobDone, WorkerType, Controlled
  <2>7. CASE FinishJobs(i)
    BY <1>c, <2>7 DEF FinishJobs
  <2>8. CASE FinishPass(i)
    BY <2>1, <2>8 DEF FinishPass
  <2>9. CASE Record(i)
    BY <1>0, <2>0, <2>2, <2>9 DEF Record, WorkerType, Controlled
  <2>10. CASE ReleaseRead(i)
    BY <1>0, <2>0, <2>2, <2>10 DEF ReleaseRead, WorkerType, Controlled
  <2>11. CASE ReleaseWrite(i)
    BY <2>2, <2>11 DEF ReleaseWrite
  <2> QED
    BY <1>3, <2>3, <2>4, <2>5, <2>6, <2>7, <2>8, <2>9, <2>10, <2>11 DEF MainStep
<1>4. ASSUME NEW i \in Workers, HeartStep(i) \/ StrayWrite(i)
      PROVE  C(j)'
  BY <1>0, <1>4 DEF HeartStep, RenewRead, RenewWrite, Lost, StrayWrite, HeartType, Controlled
<1>5. ASSUME NEW i \in Workers, FaultStep(i) \/ Restart(i)
      PROVE  C(j)'
  <2>0. C(i) /\ C(j)
    BY <1>0
  <2>1. CASE AcquireRaises(i) \/ ReleaseRaises(i)
    <3>1. /\ worker[i].pc \notin {"run", "job"} /\ heart' = heart
          /\ Abandon(i, worker[i].scope, lease')
      BY <2>1 DEF AcquireRaises, ReleaseRaises
    <3> DEFINE l == IF lease'[worker[i].scope].owner = i
                    THEN worker[i].leaked \cup {worker[i].scope} ELSE worker[i].leaked
               r == [Idle EXCEPT !.stop = worker[i].stop, !.leaked = l]
    <3>2. r.pc = "wait"
      BY DEF Idle
    <3>3. worker' = [worker EXCEPT ![i] = r]
      BY <3>1 DEF Abandon
    <3> HIDE DEF r
    <3>4. worker'[j] = IF j = i THEN r ELSE worker[j]
      BY <1>0, <3>3
    <3>5. CASE j = i
      BY <2>0, <3>1, <3>2, <3>4, <3>5 DEF Controlled
    <3>6. CASE j # i
      BY <2>0, <3>1, <3>4, <3>6 DEF Controlled
    <3> QED
      BY <3>5, <3>6
  <2>1a. CASE EndPass(i) /\ heart' = heart /\ worker[i].pc \notin {"run", "job"}
    BY <1>0, <2>0, <2>1a DEF EndPass, Idle, WorkerType, Controlled
  <2>2. CASE RecordRaises(i)
    <3>1. CASE worker[i].verdict = "locked_skip"
      BY <2>1a, <2>2, <3>1 DEF RecordRaises
    <3>2. CASE worker[i].verdict # "locked_skip"
      BY <1>0, <2>0, <2>2, <3>2 DEF RecordRaises, WorkerType, Controlled
    <3> QED
      BY <3>1, <3>2
  <2>3. CASE RenewRaises(i)
    BY <1>0, <2>0, <2>3 DEF RenewRaises, Due, WorkerType, HeartType, Controlled
  <2>4. CASE Shutdown(i)
    BY <1>0, <2>0, <2>4 DEF Shutdown, WorkerType, Controlled
  <2>5. CASE Crash(i)
    BY <1>0, <2>0, <2>5 DEF Crash, Idle, Silent, WorkerType, HeartType, Controlled
  <2>6. CASE Restart(i)
    BY <1>0, <2>0, <2>6 DEF Restart, Idle, WorkerType, HeartType, Controlled
  <2>7. CASE AcquireLate(i)
    <3>1. CASE \E left \in 0..TTL : Enter(i, worker[i].scope, left)
      BY <1>b, <2>7, <3>1 DEF AcquireLate
    <3>2. CASE /\ worker' = [worker EXCEPT ![i].pc = "record", ![i].verdict = "locked_skip"]
               /\ UNCHANGED heart
      BY <1>0, <2>0, <2>7, <3>2 DEF AcquireLate, WorkerType, Controlled
    <3> QED
      BY <2>7, <3>1, <3>2 DEF AcquireLate
  <2>8. CASE JoinTimesOut(i)
    BY <1>c, <2>8 DEF JoinTimesOut
  <2> QED
    BY <1>5, <2>1, <2>2, <2>3, <2>4, <2>5, <2>6, <2>7, <2>8 DEF FaultStep
<1> QED
  BY <1>2, <1>3, <1>4, <1>5 DEF Next

LEMMA FaultsBounded ==
  ASSUME TypeOK, Next
  PROVE  faults' \in 0..MaxFaults
<1>1. Fault => faults' \in 0..MaxFaults
  BY RuntimeAssumption DEF TypeOK, Fault
<1>2. faults' = faults => faults' \in 0..MaxFaults
  BY DEF TypeOK
<1> QED
  BY ZenonT(60), <1>1, <1>2
     DEF Next, Tick, MainStep, HeartStep, FaultStep, StartTick, Stop, FinishPass, Acquire, Skip,
         BeginJob, AbortJobs, JobSucceeds, JobRetries, JobGivenUp, FinishJobs, Record,
         ReleaseRead, ReleaseWrite, RenewRead, RenewWrite, StrayWrite, AcquireRaises,
         AcquireLate, JoinTimesOut, RecordRaises, ReleaseRaises, RenewRaises, Shutdown, Crash,
         Restart

LEMMA InitTyped == Init => TypeOK /\ ControlInvariant
BY RuntimeAssumption, IdleIsTyped
   DEF Init, TypeOK, ControlInvariant, WorkerType, HeartType, Idle, Silent, NoStray, Causes,
       Overlaps

LEMMA NextTyped ==
  ASSUME TypeOK, ControlInvariant, [Next]_vars
  PROVE  TypeOK' /\ ControlInvariant'
<1>1. CASE Next
  <2>1. worker' \in [Workers -> WorkerType]
    <3>1. CASE Tick \/ \E i \in Workers : HeartStep(i) \/ StrayWrite(i)
      BY <3>1 DEF Tick, HeartStep, RenewRead, RenewWrite, StrayWrite, TypeOK, WorkerType
    <3> QED
      BY <1>1, <3>1, MainTyped, FaultTyped DEF Next
  <2> QED
    BY <1>1, <2>1, LeaseTyped, HeartTyped, StrayTyped, HistoryTyped, FaultsBounded, ControlStep
       DEF TypeOK, WorkerType, HeartType, StrayType, LeaseType
<1>2. CASE UNCHANGED vars
  BY <1>2 DEF vars, TypeOK, ControlInvariant
<1> QED
  BY <1>1, <1>2

(* Type correctness, and where the two threads of a replica can be, for any *)
(* number of replicas, scopes and jobs and any time bounds.                 *)
THEOREM TypeCorrect == SafeSpec => [](TypeOK /\ ControlInvariant)
<1>1. Init => TypeOK /\ ControlInvariant
  BY InitTyped
<1>2. TypeOK /\ ControlInvariant /\ [Next]_vars => (TypeOK /\ ControlInvariant)'
  BY NextTyped
<1> QED
  BY <1>1, <1>2, PTL DEF SafeSpec

-----------------------------------------------------------------------------
(* One replica and the others                                              *)

StepOf(j) == MainStep(j) \/ HeartStep(j) \/ StrayWrite(j) \/ FaultStep(j) \/ Restart(j)

(* One replica does not touch the record or the heartbeat of another.       *)
LEMMA OthersKeepTheirRecords ==
  ASSUME TypeOK, NEW i \in Workers, NEW j \in Workers \ {i}, StepOf(j)
  PROVE  heart'[i] = heart[i] /\ worker'[i] = worker[i]
<1>0. worker \in [Workers -> WorkerType] /\ heart \in [Workers -> HeartType]
  BY DEF TypeOK, WorkerType, HeartType
<1>3. \A r : [worker EXCEPT ![j] = r][i] = worker[i]
  BY <1>0
<1>4. \A r : [heart EXCEPT ![j] = r][i] = heart[i]
  BY <1>0
<1>1. \A s, left : Enter(j, s, left) => heart'[i] = heart[i] /\ worker'[i] = worker[i]
  BY <1>0, <1>4 DEF Enter
<1>2. EndJobs(j) => heart'[i] = heart[i] /\ worker'[i] = worker[i]
  BY <1>0, <1>4 DEF EndJobs
<1>5. EndPass(j) \/ EndScope(j) => worker'[i] = worker[i]
  BY <1>3 DEF EndPass, EndScope
<1>6. \A s, rows : Abandon(j, s, rows) => worker'[i] = worker[i]
  BY <1>3 DEF Abandon
<1>7. CASE MainStep(j)
  BY <1>0, <1>1, <1>2, <1>5, <1>7
     DEF MainStep, StartTick, Stop, FinishPass, Acquire, Skip, BeginJob, AbortJobs, JobSucceeds,
         JobRetries, JobGivenUp, JobDone, FinishJobs, Record, ReleaseRead, ReleaseWrite
<1>8. CASE HeartStep(j) \/ StrayWrite(j) \/ Restart(j)
  BY <1>0, <1>8 DEF HeartStep, RenewRead, RenewWrite, Lost, StrayWrite, Restart
<1>9. CASE FaultStep(j)
  <2>1. CASE AcquireRaises(j) \/ ReleaseRaises(j)
    <3>1. heart' = heart /\ Abandon(j, worker[j].scope, lease')
      BY <2>1 DEF AcquireRaises, ReleaseRaises
    <3> QED
      BY <1>6, <3>1
  <2>2. CASE RecordRaises(j) \/ RenewRaises(j) \/ Shutdown(j) \/ Crash(j)
    BY <1>0, <1>5, <2>2 DEF RecordRaises, RenewRaises, Shutdown, Crash
  <2>3. CASE AcquireLate(j) \/ JoinTimesOut(j)
    BY <1>0, <1>1, <1>2, <2>3 DEF AcquireLate, JoinTimesOut
  <2> QED
    BY <1>9, <2>1, <2>2, <2>3 DEF FaultStep
<1> QED
  BY <1>7, <1>8, <1>9 DEF StepOf

(* Nor does it make a lapse of another good.                                *)
LEMMA OthersKeepTheirLapses ==
  ASSUME TypeOK, NEW i \in Workers, NEW j \in Workers \ {i}, StepOf(j), lapse'[i] = "none"
  PROVE  lapse[i] = "none"
<1>0. lapse \in [Workers -> Causes]
  BY DEF TypeOK
<1>1. \A s : lapse' = Disturbed(s, "overwritten") \/ lapse' = Disturbed(s, "deleted")
            => lapse[i] = "none"
  BY DEF Disturbed
<1>2. \A v : lapse' = [lapse EXCEPT ![j] = v] => lapse[i] = "none"
  BY <1>0
<1>3. \A s, left : Enter(j, s, left) => lapse[i] = "none"
  BY <1>2 DEF Enter
<1>4. CASE MainStep(j)
  BY <1>1, <1>2, <1>3, <1>4
     DEF MainStep, StartTick, Stop, FinishPass, Acquire, Skip, BeginJob, AbortJobs, JobSucceeds,
         JobRetries, JobGivenUp, FinishJobs, Record, Forget, ReleaseRead, ReleaseWrite, history
<1>5. CASE HeartStep(j) \/ StrayWrite(j) \/ Restart(j)
  <2>1. CASE RenewRead(j) \/ Restart(j)
    BY <1>2, <2>1 DEF RenewRead, Lost, Restart, history
  <2>2. CASE RenewWrite(j)
    <3>1. \/ lapse' = lapse \/ lapse' = Disturbed(worker[j].scope, "overwritten")
          \/ \E v : lapse' = [lapse EXCEPT ![j] = v]
      BY <2>2 DEF RenewWrite, Lost
    <3> QED
      BY <1>1, <1>2, <3>1
  <2>3. CASE StrayWrite(j)
    BY <1>1, <2>3 DEF StrayWrite
  <2> QED
    BY <1>5, <2>1, <2>2, <2>3 DEF HeartStep
<1>6. CASE RenewRaises(j)
  <2>1. CASE lapse' = [lapse EXCEPT ![j] = "none"]
    BY <1>2, <2>1
  <2>2. CASE lapse' = [Disturbed(worker[j].scope, "overwritten") EXCEPT ![j] = "none"]
    BY <2>2 DEF Disturbed
  <2> QED
    BY <1>6, <2>1, <2>2 DEF RenewRaises
<1>7. CASE FaultStep(j) /\ ~RenewRaises(j)
  BY <1>1, <1>2, <1>3, <1>7
     DEF FaultStep, AcquireRaises, AcquireLate, JoinTimesOut, RecordRaises, Forget,
         ReleaseRaises, Shutdown, Crash, history
<1> QED
  BY <1>4, <1>5, <1>6, <1>7 DEF StepOf

(* Nobody touches the row of a live lease without disturbing the replica    *)
(* that is at work under it.                                                *)
LEMMA NobodyTakesALiveLease ==
  ASSUME TypeOK, ControlInvariant,
         NEW i \in Workers, NEW j \in Workers \ {i}, NEW s \in Scopes, StepOf(j),
         Sound(i, s), lapse'[i] = "none",
         lease[s].owner = i, lease[s].left > 0
  PROVE  lease'[s] = lease[s]
<1>0. lease \in [Scopes -> LeaseType] /\ lapse \in [Workers -> Causes]
  BY DEF TypeOK, LeaseType
<1>1. i # Nobody /\ i # Dead
  BY RuntimeAssumption
<1>2. ~CanTake(j, s)
  BY <1>0, <1>1 DEF CanTake, LeaseType
<1>3. lapse' # Disturbed(s, "overwritten") /\ lapse' # Disturbed(s, "deleted")
  BY DEF Disturbed, Sound
<1>4. \A left, t : t \in Scopes /\ t # s => Granted(j, t, left)[s] = lease[s]
  BY <1>0 DEF Granted
<1>5. \A t, left : lease' = [lease EXCEPT ![t].left = left] /\ t # s => lease'[s] = lease[s]
  BY <1>0
<1>6. \A t : lease' = RowDeleted(t) /\ t # s => lease'[s] = lease[s]
  BY <1>0 DEF RowDeleted
<1>7. CASE Acquire(j) \/ AcquireRaises(j) \/ AcquireLate(j)
  BY <1>2, <1>4, <1>7 DEF Acquire, AcquireRaises, AcquireLate, Enter
<1>8. CASE MainStep(j) /\ ~Acquire(j)
  BY <1>3, <1>6, <1>8
     DEF MainStep, StartTick, Stop, FinishPass, Skip, BeginJob, AbortJobs, JobSucceeds,
         JobRetries, JobGivenUp, FinishJobs, Record, ReleaseRead, ReleaseWrite
<1>9. CASE HeartStep(j) \/ StrayWrite(j)
  <2>1. CASE RenewRead(j)
    BY <2>1 DEF RenewRead
  <2>2. CASE RenewWrite(j)
    <3>1. CASE worker[j].scope = s
      <4>1. lapse' = Disturbed(s, "overwritten")
        BY <1>1, <2>2, <3>1 DEF RenewWrite
      <4> QED
        BY <1>3, <4>1
    <3>2. CASE worker[j].scope # s
      BY <1>5, <2>2, <3>2 DEF RenewWrite, Lost
    <3> QED
      BY <3>1, <3>2
  <2>3. CASE StrayWrite(j)
    <3>1. CASE stray[j].scope = s
      <4>1. lapse' = Disturbed(s, "overwritten")
        BY <1>1, <2>3, <3>1 DEF StrayWrite
      <4> QED
        BY <1>3, <4>1
    <3>2. CASE stray[j].scope # s
      BY <1>5, <2>3, <3>2 DEF StrayWrite
    <3> QED
      BY <3>1, <3>2
  <2> QED
    BY <1>9, <2>1, <2>2, <2>3 DEF HeartStep
<1>10. CASE RenewRaises(j)
  <2>1. [Disturbed(s, "overwritten") EXCEPT ![j] = "none"][i] = "overwritten"
    BY <1>0 DEF Disturbed, Sound
  <2>2. CASE worker[j].scope = s /\ lease' # lease
    BY <1>10, <2>1, <2>2 DEF RenewRaises
  <2> QED
    BY <1>5, <1>10, <2>2 DEF RenewRaises
<1>11. CASE Crash(j) \/ Restart(j)
  BY <1>0, <1>11 DEF Crash, Restart, Orphaned
<1>12. CASE ReleaseRaises(j)
  BY <1>3, <1>6, <1>12 DEF ReleaseRaises
<1>13. CASE RecordRaises(j) \/ JoinTimesOut(j) \/ Shutdown(j)
  BY <1>13 DEF RecordRaises, JoinTimesOut, Shutdown
<1> QED
  BY <1>7, <1>8, <1>9, <1>10, <1>11, <1>12, <1>13 DEF StepOf, FaultStep

(* The end of a scope or a pass leads to the next scope or the scheduler.   *)
LEMMA PassEndsElsewhere ==
  ASSUME worker \in [Workers -> WorkerType], NEW i \in Workers, EndPass(i) \/ EndScope(i)
  PROVE  worker'[i].pc \in {"wait", "next"}
<1>1. \A l, b : [Idle EXCEPT !.stop = b, !.leaked = l].pc = "wait"
  BY DEF Idle
<1>2. \A n, l, b : [Idle EXCEPT !.pc = "next", !.scope = n, !.stop = b, !.leaked = l].pc = "next"
  BY DEF Idle
<1>3. EndPass(i) => worker'[i].pc = "wait"
  BY <1>1 DEF EndPass
<1>4. CASE EndScope(i) /\ ~worker[i].raised
  <2> DEFINE r == [Idle EXCEPT !.pc = "next", !.scope = worker[i].scope + 1,
                               !.stop = worker[i].stop, !.leaked = worker[i].leaked]
  <2>1. r.pc = "next"
    BY <1>2
  <2>2. worker' = [worker EXCEPT ![i] = r]
    BY <1>4 DEF EndScope
  <2> HIDE DEF r
  <2> QED
    BY <2>1, <2>2
<1> QED
  BY <1>3, <1>4 DEF EndScope

(* When the jobs of a scope end, the replica works on nothing.              *)
LEMMA JobsEndElsewhere ==
  ASSUME worker \in [Workers -> WorkerType], NEW i \in Workers, EndJobs(i)
  PROVE  /\ worker'[i].pc = "record" /\ worker'[i].verdict = Verdict(i)
         /\ worker'[i].scope = worker[i].scope /\ worker'[i].leaked = worker[i].leaked
         /\ worker[i].pc = "run"
BY DEF EndJobs, WorkerType

(* Of its own steps, only these leave a replica at work on a scope.         *)
LEMMA WorkGoesOn ==
  ASSUME TypeOK, NEW i \in Workers, StepOf(i), (worker[i].pc \in {"run", "job"})'
  PROVE  \/ \E left \in 0..TTL : Enter(i, worker[i].scope, left) /\ worker[i].pc = "next"
                               /\ worker[i].scope \in Scopes /\ CanTake(i, worker[i].scope)
         \/ /\ worker[i].pc \in {"run", "job"} /\ worker'[i].scope = worker[i].scope
            /\ UNCHANGED <<lease, heart, history>>
         \/ /\ worker' = worker
            /\ HeartStep(i) \/ StrayWrite(i) \/ RenewRaises(i)
<1>0. worker \in [Workers -> WorkerType] /\ heart \in [Workers -> HeartType]
  BY DEF TypeOK, WorkerType, HeartType
<1>1. EndPass(i) \/ EndScope(i) => worker'[i].pc \in {"wait", "next"}
  BY <1>0, PassEndsElsewhere
<1>2. \A s, rows : Abandon(i, s, rows) => worker'[i].pc = "wait"
  <2>1. \A l, b : [Idle EXCEPT !.stop = b, !.leaked = l].pc = "wait"
    BY DEF Idle
  <2> QED
    BY <1>0, <2>1 DEF Abandon
<1>3. EndJobs(i) => worker'[i].pc = "record"
  BY <1>0, JobsEndElsewhere
<1>4. CASE Acquire(i) \/ AcquireLate(i)
  <2>1. TTL \in 0..TTL
    BY RuntimeAssumption
  <2>2. worker' = [worker EXCEPT ![i].pc = "record", ![i].verdict = "locked_skip"]
          => worker'[i].pc = "record"
    BY <1>0 DEF WorkerType
  <2> QED
    BY <1>4, <2>1, <2>2 DEF Acquire, AcquireLate
<1>5. CASE BeginJob(i) \/ AbortJobs(i) \/ JobRetries(i) \/ JobSucceeds(i) \/ JobGivenUp(i)
  BY <1>0, <1>5 DEF BeginJob, AbortJobs, JobRetries, JobSucceeds, JobGivenUp, JobDone, WorkerType
<1>6. CASE Shutdown(i)
  <2>1. worker'[i].pc = worker[i].pc /\ worker'[i].scope = worker[i].scope
    BY <1>0, <1>6 DEF Shutdown, WorkerType
  <2> QED
    BY <1>6, <2>1 DEF Shutdown
<1>7. CASE HeartStep(i) \/ StrayWrite(i) \/ RenewRaises(i)
  BY <1>7 DEF HeartStep, RenewRead, RenewWrite, StrayWrite, RenewRaises
<1>8. CASE AcquireRaises(i) \/ ReleaseRaises(i)
  <2>1. Abandon(i, worker[i].scope, lease')
    BY <1>8 DEF AcquireRaises, ReleaseRaises
  <2> QED
    BY <1>2, <2>1
<1>9. CASE Crash(i) \/ Restart(i)
  BY <1>0, <1>9 DEF Crash, Restart, Idle
<1>10. CASE StartTick(i) \/ Stop(i) \/ Skip(i)
  BY <1>0, <1>10 DEF StartTick, Stop, Skip, WorkerType
<1>11. CASE FinishPass(i) \/ ReleaseWrite(i) \/ FinishJobs(i) \/ JoinTimesOut(i)
  BY <1>1, <1>3, <1>11 DEF FinishPass, ReleaseWrite, FinishJobs, JoinTimesOut
<1>12. CASE Record(i) \/ RecordRaises(i) \/ ReleaseRead(i)
  BY <1>0, <1>1, <1>12 DEF Record, RecordRaises, ReleaseRead, WorkerType
<1> QED
  BY <1>4, <1>5, <1>6, <1>7, <1>8, <1>9, <1>10, <1>11, <1>12 DEF StepOf, MainStep, FaultStep

\* One conjunct of RenewedInTime, for a worker and a scope.
Renewed(i, s) ==
  Sound(i, s) =>
    /\ heart[i].st \in {"waiting", "writing"}
    /\ lease[s].owner = i /\ lease[s].left > 0
    /\ heart[i].st = "waiting" => lease[s].left > heart[i].k

(* A replica's own steps keep what it may rely on.                          *)
LEMMA OwnStepsRenew ==
  ASSUME TypeOK, LeaseInvariant, NEW i \in Workers, NEW s \in Scopes, StepOf(i)
  PROVE  Renewed(i, s)'
<1>0. /\ worker \in [Workers -> WorkerType] /\ heart \in [Workers -> HeartType]
      /\ lease \in [Scopes -> LeaseType] /\ lapse \in [Workers -> Causes]
  BY DEF TypeOK, WorkerType, HeartType, LeaseType
<1>a. Renewed(i, s)
  BY DEF LeaseInvariant, RenewedInTime, Renewed
<1>b. SUFFICES ASSUME Sound(i, s)' PROVE Renewed(i, s)'
  BY DEF Renewed
<1>c. /\ worker'[i].pc \in {"run", "job"} /\ worker'[i].scope = s
      /\ heart'[i].st # "lost" /\ lapse'[i] = "none"
  BY <1>b DEF Sound, Confident, Active
<1>1. CASE \E left \in 0..TTL : Enter(i, worker[i].scope, left) /\ worker[i].pc = "next"
  <2>1. PICK left \in 0..TTL : Enter(i, worker[i].scope, left)
    BY <1>1
  <2>2. worker'[i].scope = worker[i].scope
    BY <1>0, <2>1 DEF Enter, WorkerType
  <2>3. /\ lease'[s] = [owner |-> i, left |-> left]
        /\ heart'[i] = [st |-> "waiting", k |-> Interval]
        /\ lapse'[i] = IF left > Interval THEN "none" ELSE "late"
    BY <1>0, <1>c, <2>1, <2>2 DEF Enter, Granted
  <2>4. left > Interval /\ left \in Nat
    BY <1>c, <2>1, <2>3, RuntimeAssumption
  <2> QED
    BY <2>3, <2>4, RuntimeAssumption DEF Renewed
<1>2. CASE /\ worker[i].pc \in {"run", "job"} /\ worker'[i].scope = worker[i].scope
           /\ UNCHANGED <<lease, heart, history>>
  BY <1>a, <1>c, <1>2 DEF Renewed, Sound, Confident, Active, history
<1>3. CASE worker' = worker /\ RenewRead(i)
  <2>1. worker[i].scope = s /\ Confident(i, s) /\ lease' = lease
    BY <1>c, <1>3 DEF RenewRead, Confident, Active
  <2>2. lease[s].owner = i
    BY <1>0, <1>c, <1>3, <2>1 DEF RenewRead, Lost
  <2>3. heart'[i] = [st |-> "writing", k |-> TTL] /\ lapse' = lapse
    BY <1>0, <1>3, <2>1, <2>2 DEF RenewRead
  <2> QED
    BY <1>a, <1>c, <2>1, <2>3 DEF Renewed, Sound
<1>4. CASE worker' = worker /\ RenewWrite(i)
  <2>1. worker[i].scope = s /\ Confident(i, s)
    BY <1>c, <1>4 DEF RenewWrite, Confident, Active
  <2>2. lease[s].owner # Nobody
    BY <1>0, <1>c, <1>4, <2>1 DEF RenewWrite, Lost
  <2>3. lease[s].owner = i
    <3>1. SUFFICES ASSUME lease[s].owner # i PROVE FALSE
      OBVIOUS
    <3>2. lapse'[i] = lapse[i]
      BY <1>4, <2>1, <2>2, <3>1 DEF RenewWrite, Disturbed
    <3> QED
      BY <1>a, <1>c, <2>1, <3>1, <3>2 DEF Renewed, Sound
  <2>4. /\ lease'[s] = [owner |-> i, left |-> heart[i].k]
        /\ heart'[i] = [st |-> "waiting", k |-> Interval]
        /\ lapse'[i] = IF heart[i].k > Interval THEN "none" ELSE "late"
    BY <1>0, <1>4, <2>1, <2>2, <2>3 DEF RenewWrite, LeaseType
  <2>5. heart[i].k > Interval /\ heart[i].k \in Nat
    BY <1>0, <1>c, <2>4, RuntimeAssumption DEF HeartType
  <2> QED
    BY <2>4, <2>5, RuntimeAssumption DEF Renewed
<1>5. CASE worker' = worker /\ StrayWrite(i)
  <2>1. worker[i].scope = s /\ Confident(i, s) /\ heart' = heart
    BY <1>c, <1>5 DEF StrayWrite, Confident, Active
  <2>2. lapse[i] = "none"
    BY <1>c, <1>5 DEF StrayWrite, Disturbed
  <2>3. lease[s].owner = i /\ lease[s].left > 0
    BY <1>a, <2>1, <2>2 DEF Renewed, Sound
  <2>4. stray[i].scope # s
    <3>1. SUFFICES ASSUME stray[i].scope = s PROVE FALSE
      OBVIOUS
    <3>2. lapse'[i] = Disturbed(s, "overwritten")[i]
      BY <1>5, <2>3, <3>1, RuntimeAssumption DEF StrayWrite
    <3> QED
      BY <1>c, <2>1, <2>2, <2>3, <3>2 DEF Disturbed
  <2>5. lease'[s] = lease[s]
    BY <1>0, <1>5, <2>4 DEF StrayWrite
  <2> QED
    BY <1>a, <2>1, <2>2, <2>5 DEF Renewed, Sound
<1>6. CASE RenewRaises(i)
  BY <1>0, <1>c, <1>6 DEF RenewRaises
<1> QED
  BY <1>1, <1>2, <1>3, <1>4, <1>5, <1>6, <1>c, WorkGoesOn DEF HeartStep

LEMMA LeaseStep ==
  ASSUME TypeOK, LeaseInvariant, [Next]_vars
  PROVE  RenewedInTime'
<1>0. /\ worker \in [Workers -> WorkerType] /\ heart \in [Workers -> HeartType]
      /\ lease \in [Scopes -> LeaseType] /\ lapse \in [Workers -> Causes]
  BY DEF TypeOK, WorkerType, HeartType, LeaseType
<1>a. \A i \in Workers, s \in Scopes : Renewed(i, s)
  BY DEF LeaseInvariant, RenewedInTime, Renewed
<1>1. CASE Tick
  <2>1. ASSUME NEW i \in Workers, NEW s \in Scopes, Sound(i, s)'
        PROVE  Renewed(i, s)'
    <3>1. heart'[i].st = heart[i].st /\ heart'[i].k = Less(heart[i].k)
      BY <1>0, <1>1 DEF Tick, HeartType
    <3>2. lease'[s].owner = lease[s].owner /\ lease'[s].left = Less(lease[s].left)
      BY <1>0, <1>1 DEF Tick, LeaseType
    <3>3. worker' = worker /\ lapse'[i] = IF RunsOutLate(i) THEN "late" ELSE lapse[i]
      BY <1>1 DEF Tick
    <3>4. Sound(i, s) /\ ~RunsOutLate(i) /\ worker[i].scope = s
      BY <2>1, <3>1, <3>3 DEF Sound, Confident, Active
    <3>5. /\ heart[i].st \in {"waiting", "writing"} /\ lapse[i] = "none"
          /\ lease[s].owner = i /\ lease[s].left > 0
          /\ heart[i].st = "waiting" => lease[s].left > heart[i].k
      BY <1>a, <3>4 DEF Renewed, Sound
    <3>6. heart[i].k \in Nat /\ lease[s].left \in Nat
      BY <1>0, RuntimeAssumption DEF HeartType, LeaseType
    <3>7. lease[s] = [owner |-> i, left |-> 1] => ~Due(i)
      BY <3>4, <3>5 DEF RunsOutLate
    <3>8. lease[s].left = 1 => lease[s] = [owner |-> i, left |-> 1]
      BY <1>0, <3>5 DEF LeaseType
    <3>9. lease[s].left # 1
      BY <3>5, <3>6, <3>7, <3>8 DEF Due
    <3>10. /\ Less(lease[s].left) > 0
           /\ heart[i].st = "waiting" => Less(lease[s].left) > Less(heart[i].k)
      BY <3>5, <3>6, <3>9 DEF Less
    <3> QED
      BY <3>1, <3>2, <3>5, <3>10 DEF Renewed
  <2> QED
    BY <2>1 DEF RenewedInTime, Renewed
<1>2. ASSUME NEW j \in Workers, StepOf(j)
      PROVE  RenewedInTime'
  <2>1. ASSUME NEW i \in Workers, NEW s \in Scopes, i # j
        PROVE  Renewed(i, s)'
    <3>1. SUFFICES ASSUME Sound(i, s)' PROVE Renewed(i, s)'
      BY DEF Renewed
    <3>2. /\ heart'[i] = heart[i] /\ worker'[i] = worker[i]
          /\ lapse'[i] = "none" /\ lapse[i] = "none"
      BY <1>2, <2>1, <3>1, OthersKeepTheirRecords, OthersKeepTheirLapses DEF Sound
    <3>3. Sound(i, s)
      BY <3>1, <3>2 DEF Sound, Confident, Active
    <3>4. lease[s].owner = i /\ lease[s].left > 0
      BY <1>a, <3>3 DEF Renewed
    <3>5. lease'[s] = lease[s]
      BY <1>2, <2>1, <3>2, <3>3, <3>4, NobodyTakesALiveLease DEF LeaseInvariant
    <3> QED
      BY <1>a, <3>2, <3>3, <3>5 DEF Renewed
  <2>2. ASSUME NEW s \in Scopes
        PROVE  Renewed(j, s)'
    BY <1>2, OwnStepsRenew
  <2> QED
    BY <2>1, <2>2 DEF RenewedInTime, Renewed
<1>3. CASE UNCHANGED vars
  BY <1>3 DEF vars, LeaseInvariant, RenewedInTime, Sound, Confident, Active
<1> QED
  BY <1>1, <1>2, <1>3 DEF Next, StepOf

(* Whoever works under a lease that no late renewal and no belated          *)
(* statement of another has made unreliable owns it, and it outlasts the    *)
(* wait for the next renewal: the strengthening that carries mutual         *)
(* exclusion.                                                               *)
THEOREM LeasesAreKept == SafeSpec => []LeaseInvariant
<1>1. Init => LeaseInvariant
  BY InitTyped
     DEF Init, LeaseInvariant, RenewedInTime, Sound, Confident, Active, Idle
<1>2. TypeOK /\ LeaseInvariant /\ TypeOK' /\ ControlInvariant' /\ [Next]_vars => LeaseInvariant'
  BY LeaseStep DEF LeaseInvariant
<1> QED
  BY <1>1, <1>2, TypeCorrect, PTL DEF SafeSpec

LEMMA LeaseExcludes ==
  ASSUME LeaseInvariant, NEW i \in Workers, NEW j \in Workers, NEW s \in Scopes,
         Sound(i, s), Sound(j, s)
  PROVE  i = j
BY DEF LeaseInvariant, RenewedInTime

(* Mutual exclusion: two replicas process one scope believing they may only *)
(* after the lease of one of them lapsed, whatever crashed, raised or came  *)
(* in between.                                                              *)
THEOREM MutualExclusion == SafeSpec => []OneConfidentWorker
<1>1. LeaseInvariant => OneConfidentWorker
  BY LeaseExcludes DEF OneConfidentWorker, Sound
<1> QED
  BY <1>1, LeasesAreKept, PTL

-----------------------------------------------------------------------------
(* An overlap goes on record                                               *)

(* No step of a replica gives a lease to another.                           *)
LEMMA OthersGiveNoLease ==
  ASSUME TypeOK, NEW i \in Workers, NEW j \in Workers \ {i}, NEW s \in Scopes, StepOf(j),
         lease'[s].owner = i
  PROVE  lease[s].owner = i
<1>0. lease \in [Scopes -> LeaseType] /\ worker \in [Workers -> WorkerType]
  BY DEF TypeOK, LeaseType, WorkerType
<1>1. i # Nobody /\ i # Dead
  BY RuntimeAssumption
<1>2. \A t, left : lease' = Granted(j, t, left) => lease'[s].owner = lease[s].owner \/ lease'[s].owner = j
  BY <1>0 DEF Granted
<1>3. \A t : lease' = RowDeleted(t) => lease'[s].owner = lease[s].owner \/ lease'[s].owner = Nobody
  BY <1>0 DEF RowDeleted
<1>4. \A t, left : lease' = [lease EXCEPT ![t].left = left] => lease'[s].owner = lease[s].owner
  BY <1>0 DEF LeaseType
<1>5. CASE MainStep(j)
  BY <1>1, <1>2, <1>3, <1>5
     DEF MainStep, StartTick, Stop, FinishPass, Acquire, Enter, Skip, BeginJob, AbortJobs,
         JobSucceeds, JobRetries, JobGivenUp, FinishJobs, Record, ReleaseRead, ReleaseWrite
<1>6. CASE HeartStep(j) \/ StrayWrite(j) \/ RenewRaises(j)
  BY <1>4, <1>6 DEF HeartStep, RenewRead, RenewWrite, StrayWrite, RenewRaises
<1>7. CASE Crash(j) \/ Restart(j)
  BY <1>0, <1>1, <1>7 DEF Crash, Restart, Orphaned, LeaseType
<1>8. CASE AcquireRaises(j) \/ AcquireLate(j)
  BY <1>1, <1>2, <1>8 DEF AcquireRaises, AcquireLate, Enter
<1>9. CASE RecordRaises(j) \/ JoinTimesOut(j) \/ ReleaseRaises(j) \/ Shutdown(j)
  BY <1>1, <1>3, <1>9 DEF RecordRaises, JoinTimesOut, ReleaseRaises, Shutdown
<1> QED
  BY <1>5, <1>6, <1>7, <1>8, <1>9 DEF StepOf, FaultStep

\* One conjunct of LossIsNoticed.
Noticed(i) ==
  \/ overlap[i] = "none"
  \/ /\ worker[i].pc \in {"run", "job"} /\ lease[worker[i].scope].owner # i
     /\ heart[i].st = "lost" \/ (lapse[i] # "none" /\ overlap[i] = "entered")
  \/ worker[i].pc = "record" /\ worker[i].verdict = "lease_lost"
  \/ worker[i].pc = "record" /\ lapse[i] # "none" /\ overlap[i] = "entered"

(* A replica whose pass or scope ends keeps its leaks.                      *)
LEMMA EndsWithLeaks ==
  ASSUME worker \in [Workers -> WorkerType], NEW i \in Workers, EndPass(i) \/ EndScope(i)
  PROVE  /\ worker'[i].pc \in {"wait", "next"}
         /\ worker'[i].leaked = worker[i].leaked
<1>1. \A l, b : [Idle EXCEPT !.stop = b, !.leaked = l].leaked = l
  BY DEF Idle
<1>2. \A n, l, b : [Idle EXCEPT !.pc = "next", !.scope = n, !.stop = b, !.leaked = l].leaked = l
  BY DEF Idle
<1>3. EndPass(i) => worker'[i].leaked = worker[i].leaked
  BY <1>1 DEF EndPass
<1>4. CASE EndScope(i) /\ ~worker[i].raised
  <2> DEFINE r == [Idle EXCEPT !.pc = "next", !.scope = worker[i].scope + 1,
                               !.stop = worker[i].stop, !.leaked = worker[i].leaked]
  <2>1. r.leaked = worker[i].leaked
    BY <1>2
  <2>2. worker' = [worker EXCEPT ![i] = r]
    BY <1>4 DEF EndScope
  <2> HIDE DEF r
  <2> QED
    BY <2>1, <2>2, PassEndsElsewhere
<1> QED
  BY <1>3, <1>4, PassEndsElsewhere DEF EndScope

(* A pass that raises adds the lease it still owns to the leaks.            *)
LEMMA AbandonsWithLeaks ==
  ASSUME worker \in [Workers -> WorkerType], NEW i \in Workers, NEW s, NEW rows,
         Abandon(i, s, rows)
  PROVE  /\ worker'[i].pc = "wait"
         /\ rows[s].owner = i => worker'[i].leaked = worker[i].leaked \cup {s}
         /\ rows[s].owner # i => worker'[i].leaked = worker[i].leaked
<1> DEFINE l == IF rows[s].owner = i THEN worker[i].leaked \cup {s} ELSE worker[i].leaked
<1>1. \A k, b : LET r == [Idle EXCEPT !.stop = b, !.leaked = k]
                IN  r.pc = "wait" /\ r.leaked = k
  BY DEF Idle
<1>2. worker'[i] = [Idle EXCEPT !.stop = worker[i].stop, !.leaked = l]
  BY DEF Abandon
<1> HIDE DEF l
<1>3. worker'[i].pc = "wait" /\ worker'[i].leaked = l
  BY <1>1, <1>2
<1> QED
  BY <1>3 DEF l

(* Its own steps end the history of a replica, or leave it to the record    *)
(* or to the work that goes on.                                             *)
LEMMA OwnHistory ==
  ASSUME TypeOK, ControlInvariant, NEW i \in Workers, StepOf(i),
         worker'[i].pc \notin {"run", "job"}
  PROVE  \/ overlap'[i] = "none"
         \/ overlap'[i] = overlap[i] /\ worker[i].pc \notin {"run", "job", "record"}
         \/ EndJobs(i) /\ UNCHANGED history
         \/ /\ worker[i].pc = "record" /\ overlap' = overlap
            /\ worker'[i].pc = worker[i].pc /\ worker'[i].verdict = worker[i].verdict
            /\ lapse[i] # "none" => lapse'[i] # "none"
<1>0. /\ worker \in [Workers -> WorkerType] /\ overlap \in [Workers -> Overlaps]
      /\ lapse \in [Workers -> Causes]
  BY DEF TypeOK, WorkerType
<1>1. CASE Record(i) \/ RecordRaises(i) \/ Crash(i)
  BY <1>0, <1>1 DEF Record, RecordRaises, Crash, Forget
<1>2. CASE FinishJobs(i) \/ JoinTimesOut(i)
  BY <1>2 DEF FinishJobs, JoinTimesOut
<1>3. CASE \/ StartTick(i) \/ Stop(i) \/ FinishPass(i) \/ Skip(i) \/ ReleaseRead(i)
           \/ ReleaseWrite(i) \/ AcquireRaises(i) \/ ReleaseRaises(i) \/ Restart(i)
  BY <1>3 DEF StartTick, Stop, FinishPass, Skip, ReleaseRead, ReleaseWrite, AcquireRaises,
              ReleaseRaises, Restart, history
<1>4. CASE Acquire(i) \/ AcquireLate(i)
  <2>1. \A left : Enter(i, worker[i].scope, left) => overlap'[i] = overlap[i]
    BY <1>0 DEF Enter, Overtaken
  <2> QED
    BY <1>4, <2>1 DEF Acquire, AcquireLate, history
<1>5. CASE Shutdown(i)
  <2>1. worker'[i].pc = worker[i].pc /\ worker'[i].verdict = worker[i].verdict
    BY <1>0, <1>5 DEF Shutdown, WorkerType
  <2> QED
    BY <1>5, <2>1 DEF Shutdown, history
<1>6. CASE HeartStep(i) \/ RenewRaises(i)
  <2>1. worker' = worker /\ heart[i].st # "off"
    BY <1>6 DEF HeartStep, RenewRead, RenewWrite, RenewRaises, Due
  <2> QED
    BY <2>1 DEF ControlInvariant
<1>7. CASE StrayWrite(i)
  <2>1. worker' = worker /\ overlap' = overlap
    BY <1>7 DEF StrayWrite
  <2>2. lapse[i] # "none" => lapse'[i] # "none"
    BY <1>7 DEF StrayWrite, Disturbed
  <2> QED
    BY <2>1, <2>2
<1>8. CASE BeginJob(i) \/ AbortJobs(i) \/ JobSucceeds(i) \/ JobRetries(i) \/ JobGivenUp(i)
  BY <1>0, <1>8
     DEF BeginJob, AbortJobs, JobSucceeds, JobRetries, JobGivenUp, JobDone, WorkerType
<1> QED
  BY <1>1, <1>2, <1>3, <1>4, <1>5, <1>6, <1>7, <1>8 DEF StepOf, MainStep, HeartStep, FaultStep

(* Its own steps keep a replica unaware of an overlap only until it asks.   *)
LEMMA OwnStepsNotice ==
  ASSUME TypeOK, ControlInvariant, NEW i \in Workers, StepOf(i), Noticed(i)
  PROVE  Noticed(i)'
<1>0. /\ worker \in [Workers -> WorkerType] /\ heart \in [Workers -> HeartType]
      /\ lease \in [Scopes -> LeaseType] /\ lapse \in [Workers -> Causes]
      /\ overlap \in [Workers -> Overlaps]
  BY DEF TypeOK, WorkerType, HeartType, LeaseType
<1>1. CASE worker'[i].pc \notin {"run", "job"}
  <2>1. CASE overlap'[i] = "none"
    BY <2>1 DEF Noticed
  <2>2. CASE overlap'[i] = overlap[i] /\ worker[i].pc \notin {"run", "job", "record"}
    BY <2>2 DEF Noticed
  <2>3. CASE EndJobs(i) /\ UNCHANGED history
    <3>1. worker[i].pc = "run" /\ worker'[i].pc = "record" /\ worker'[i].verdict = Verdict(i)
      BY <1>0, <2>3, JobsEndElsewhere
    <3> QED
      BY <2>3, <3>1 DEF Verdict, Noticed, history
  <2>4. CASE /\ worker[i].pc = "record" /\ overlap' = overlap
             /\ worker'[i].pc = worker[i].pc /\ worker'[i].verdict = worker[i].verdict
             /\ lapse[i] # "none" => lapse'[i] # "none"
    BY <2>4 DEF Noticed
  <2> QED
    BY <1>1, <2>1, <2>2, <2>3, <2>4, OwnHistory
<1>2. CASE \E left : Enter(i, worker[i].scope, left) /\ worker[i].pc = "next"
  <2>1. overlap'[i] = overlap[i]
    BY <1>0, <1>2 DEF Enter, Overtaken
  <2> QED
    BY <1>2, <2>1 DEF Noticed
<1>3. CASE /\ worker[i].pc \in {"run", "job"} /\ worker'[i].scope = worker[i].scope
           /\ worker'[i].pc \in {"run", "job"}
           /\ UNCHANGED <<lease, heart, history>>
  BY <1>3 DEF Noticed, history
<1>4. CASE /\ worker' = worker /\ worker'[i].pc \in {"run", "job"}
           /\ HeartStep(i) \/ StrayWrite(i) \/ RenewRaises(i)
  <2> DEFINE s == worker[i].scope
  <2>1. s \in Scopes /\ worker[i].pc \in {"run", "job"}
    BY <1>4 DEF ControlInvariant
  <2>2. \A t, left : lease' = [lease EXCEPT ![t].left = left] => lease'[s].owner = lease[s].owner
    BY <1>0, <2>1 DEF LeaseType
  <2>3. lease'[s].owner = lease[s].owner
    <3>1. lease' = lease \/ \E t, left : lease' = [lease EXCEPT ![t].left = left]
      BY <1>4 DEF HeartStep, RenewRead, RenewWrite, StrayWrite, RenewRaises
    <3> QED
      BY <2>2, <3>1
  <2>4. overlap[i] = "none" => overlap'[i] = "none"
    BY <1>0, <1>4 DEF HeartStep, RenewRead, RenewWrite, StrayWrite, RenewRaises
  <2>5. overlap[i] = "none" \/ lease[s].owner # i
    BY <2>1 DEF Noticed
  <2>6. CASE heart'[i].st = "lost"
    BY <1>4, <2>1, <2>3, <2>4, <2>5, <2>6 DEF Noticed
  <2>7. CASE /\ heart'[i].st # "lost" /\ heart[i].st # "lost" /\ overlap' = overlap
             /\ lapse[i] # "none" /\ lease[s].owner # i => lapse'[i] # "none"
    BY <1>4, <2>1, <2>3, <2>4, <2>5, <2>7 DEF Noticed
  <2>8. CASE RenewRead(i) /\ heart'[i].st # "lost"
    <3>1. lease[s].owner = i
      BY <1>0, <2>8 DEF RenewRead, Lost
    <3> QED
      BY <2>4, <2>5, <3>1 DEF Noticed
  <2>9. CASE RenewWrite(i) /\ heart'[i].st # "lost"
    <3>1. heart[i].st # "lost" /\ overlap' = overlap
      BY <2>9 DEF RenewWrite
    <3>2. lease[s].owner # i => lapse' = Disturbed(s, "overwritten")
      BY <1>0, <2>9 DEF RenewWrite, Lost
    <3>3. lapse[i] # "none" /\ lease[s].owner # i => lapse'[i] # "none"
      BY <3>2 DEF Disturbed
    <3> QED
      BY <2>7, <2>9, <3>1, <3>3
  <2>10. CASE StrayWrite(i)
    <3>1. heart' = heart /\ overlap' = overlap
      BY <2>10 DEF StrayWrite
    <3>2. lapse[i] # "none" => lapse'[i] # "none"
      BY <2>10 DEF StrayWrite, Disturbed
    <3> QED
      BY <2>6, <2>7, <3>1, <3>2
  <2>11. CASE RenewRaises(i)
    <3>1. heart'[i].st = "lost"
      BY <1>0, <2>11 DEF RenewRaises
    <3> QED
      BY <2>6, <3>1
  <2> QED
    BY <1>4, <2>6, <2>8, <2>9, <2>10, <2>11 DEF HeartStep
<1> QED
  BY <1>1, <1>2, <1>3, <1>4, WorkGoesOn

(* Who takes the scope of another replica finds its loss known or on file.  *)
LEMMA OthersAreNoticed ==
  ASSUME TypeOK, LeaseInvariant, NEW i \in Workers, NEW j \in Workers \ {i}, StepOf(j), Noticed(i)
  PROVE  Noticed(i)'
<1>0. /\ worker \in [Workers -> WorkerType] /\ lease \in [Scopes -> LeaseType]
      /\ overlap \in [Workers -> Overlaps] /\ lapse \in [Workers -> Causes]
  BY DEF TypeOK, WorkerType, LeaseType
<1>1. heart'[i] = heart[i] /\ worker'[i] = worker[i]
  BY OthersKeepTheirRecords
<1>2. lapse[i] # "none" => lapse'[i] # "none"
  BY OthersKeepTheirLapses
<1>3. worker[i].pc \in {"run", "job"} => worker[i].scope \in Scopes
  BY DEF LeaseInvariant, ControlInvariant
<1>4. /\ worker[i].pc \in {"run", "job"} /\ lease[worker[i].scope].owner # i
        => lease'[worker[i].scope].owner # i
  BY <1>3, OthersGiveNoLease
<1>5. CASE overlap'[i] = overlap[i]
  BY <1>1, <1>2, <1>4, <1>5 DEF Noticed
<1>6. ASSUME NEW left, NEW s \in Scopes, Enter(j, s, left), CanTake(j, s)
      PROVE  Noticed(i)'
  <2>1. CASE ~(Active(i, s) /\ overlap[i] = "none")
    BY <1>0, <1>5, <1>6, <2>1 DEF Enter, Overtaken
  <2>2. CASE Active(i, s) /\ overlap[i] = "none"
    <3>1. overlap'[i] = "entered" /\ lease'[s].owner = j
      BY <1>0, <1>6, <2>2 DEF Enter, Overtaken, Granted
    <3>2. lease[s].owner = i => lease[s].left = 0
      BY <1>6, RuntimeAssumption DEF CanTake
    <3>3. ~Sound(i, s)
      BY <3>2, <1>6 DEF LeaseInvariant, RenewedInTime
    <3>4. heart[i].st = "lost" \/ lapse[i] # "none"
      BY <2>2, <3>3 DEF Sound, Confident
    <3> QED
      BY <1>1, <1>2, <2>2, <3>1, <3>4 DEF Noticed, Active
  <2> QED
    BY <2>1, <2>2
<1>7. CASE Acquire(j) \/ AcquireLate(j)
  BY <1>5, <1>6, <1>7 DEF Acquire, AcquireLate, history
<1>8. \A v : [overlap EXCEPT ![j] = v][i] = overlap[i]
  BY <1>0
<1>9. CASE MainStep(j) /\ ~Acquire(j)
  <2>1. overlap'[i] = overlap[i]
    BY <1>8, <1>9
       DEF MainStep, StartTick, Stop, FinishPass, Skip, BeginJob, AbortJobs, JobSucceeds,
           JobRetries, JobGivenUp, FinishJobs, Record, Forget, ReleaseRead, ReleaseWrite, history
  <2> QED
    BY <1>5, <2>1
<1>10. CASE HeartStep(j) \/ StrayWrite(j) \/ Restart(j)
  <2>1. overlap'[i] = overlap[i]
    BY <1>8, <1>10 DEF HeartStep, RenewRead, RenewWrite, StrayWrite, Restart, history
  <2> QED
    BY <1>5, <2>1
<1>11. CASE FaultStep(j) /\ ~AcquireLate(j)
  <2>1. overlap'[i] = overlap[i]
    BY <1>8, <1>11
       DEF FaultStep, AcquireRaises, JoinTimesOut, RecordRaises, Forget, ReleaseRaises,
           RenewRaises, Shutdown, Crash, history
  <2> QED
    BY <1>5, <2>1
<1> QED
  BY <1>7, <1>9, <1>10, <1>11 DEF StepOf

LEMMA NoticedStep ==
  ASSUME TypeOK, LeaseInvariant, LossIsNoticed, [Next]_vars
  PROVE  LossIsNoticed'
<1>a. \A i \in Workers : Noticed(i)
  BY DEF LossIsNoticed, Noticed
<1>1. CASE Tick
  <2>1. ASSUME NEW i \in Workers
        PROVE  Noticed(i)'
    <3>1. heart'[i].st = heart[i].st /\ worker' = worker /\ overlap' = overlap
      BY <1>1 DEF Tick, TypeOK, HeartType
    <3>2. lapse[i] # "none" => lapse'[i] # "none"
      BY <1>1 DEF Tick
    <3>3. \A s \in Scopes : lease'[s].owner = lease[s].owner
      BY <1>1 DEF Tick, TypeOK
    <3>4. worker[i].pc \in {"run", "job"} => worker[i].scope \in Scopes
      BY DEF LeaseInvariant, ControlInvariant
    <3> QED
      BY <1>a, <3>1, <3>2, <3>3, <3>4 DEF Noticed
  <2> QED
    BY <2>1 DEF LossIsNoticed, Noticed
<1>2. ASSUME NEW j \in Workers, StepOf(j)
      PROVE  LossIsNoticed'
  <2>1. \A i \in Workers : Noticed(i)'
    BY <1>a, <1>2, OwnStepsNotice, OthersAreNoticed DEF LeaseInvariant
  <2> QED
    BY <2>1 DEF LossIsNoticed, Noticed
<1>3. CASE UNCHANGED vars
  BY <1>3 DEF vars, LossIsNoticed
<1> QED
  BY <1>1, <1>2, <1>3 DEF Next, StepOf

(* A run during which another replica entered its scope goes on record as   *)
(* lease_lost, unless its lease lapsed and its heartbeat has not asked for  *)
(* it since.                                                                *)
THEOREM OverlapIsRecorded == SafeSpec => []OverlapIsOnRecord
<1>1. Init => LossIsNoticed
  BY DEF Init, LossIsNoticed
<1>2. TypeOK /\ LeaseInvariant /\ LossIsNoticed /\ [Next]_vars => LossIsNoticed'
  BY NoticedStep
<1>3. LossIsNoticed => OverlapIsOnRecord
  BY DEF LossIsNoticed, OverlapIsOnRecord
<1> QED
  BY <1>1, <1>2, <1>3, TypeCorrect, LeasesAreKept, PTL DEF SafeSpec

-----------------------------------------------------------------------------
(* A stopped replica leaves no scope locked                                *)

\* One conjunct of LeaksAreKnown.
Known(i, s) == lease[s].owner = i => s \in worker[i].leaked \/ Holding(i, s)

(* A replica's own steps leave it the leases it holds or has leaked.        *)
LEMMA OwnStepsAreKnown ==
  ASSUME TypeOK, ControlInvariant, NEW i \in Workers, StepOf(i),
         \A s \in Scopes : Known(i, s), NEW s \in Scopes
  PROVE  Known(i, s)'
<1>0. /\ worker \in [Workers -> WorkerType] /\ lease \in [Scopes -> LeaseType]
      /\ heart \in [Workers -> HeartType]
  BY DEF TypeOK, WorkerType, LeaseType, HeartType
<1>1. i # Nobody /\ i # Dead
  BY RuntimeAssumption
<1>2. CASE /\ EndPass(i) \/ EndScope(i)
           /\ lease[s].owner = i => ~Holding(i, s)
           /\ lease' = lease
  BY <1>0, <1>2, EndsWithLeaks DEF Known
<1>3. ASSUME NEW left, Enter(i, worker[i].scope, left), worker[i].pc = "next"
      PROVE  Known(i, s)'
  <2>1. /\ worker'[i].pc = "run" /\ worker'[i].scope = worker[i].scope
        /\ worker'[i].leaked = worker[i].leaked \ {worker[i].scope}
    BY <1>0, <1>3 DEF Enter, WorkerType
  <2>2. ~Holding(i, s)
    BY <1>3 DEF Holding
  <2>3. s # worker[i].scope => lease'[s] = lease[s]
    BY <1>0, <1>3 DEF Enter, Granted
  <2> QED
    BY <2>1, <2>2, <2>3 DEF Known, Holding
<1>4. CASE StartTick(i) \/ Stop(i) \/ BeginJob(i) \/ AbortJobs(i) \/ JobRetries(i)
  BY SMTT(20), <1>0, <1>4 DEF StartTick, Stop, BeginJob, AbortJobs, JobRetries, WorkerType, Known, Holding
<1>5. CASE JobSucceeds(i) \/ JobGivenUp(i)
  BY <1>0, <1>5 DEF JobSucceeds, JobGivenUp, JobDone, WorkerType, Known, Holding
<1>6. ASSUME worker' = [worker EXCEPT ![i].pc = "record", ![i].verdict = "locked_skip"],
             worker[i].pc = "next", lease' = lease
      PROVE  Known(i, s)'
  <2>1. lease' = lease /\ ~Holding(i, s)
    BY <1>6 DEF Holding
  <2>2. worker'[i].leaked = worker[i].leaked
    BY <1>0, <1>6 DEF WorkerType
  <2> QED
    BY <2>1, <2>2 DEF Known
<1>7. CASE FinishJobs(i) \/ JoinTimesOut(i)
  <2>1. Verdict(i) # "locked_skip"
    BY DEF Verdict, ReportStatus
  <2>2. EndJobs(i) /\ lease' = lease
    BY <1>7 DEF FinishJobs, JoinTimesOut
  <2>3. /\ worker'[i].pc = "record" /\ worker'[i].verdict = Verdict(i)
        /\ worker'[i].scope = worker[i].scope /\ worker'[i].leaked = worker[i].leaked
        /\ worker[i].pc = "run"
    BY <1>0, <2>2, JobsEndElsewhere
  <2> QED
    BY <2>1, <2>2, <2>3 DEF Known, Holding
<1>8. CASE Record(i) \/ RecordRaises(i)
  <2>1. lease' = lease /\ worker[i].pc = "record"
    BY <1>8 DEF Record, RecordRaises
  <2>2. CASE worker[i].verdict = "locked_skip"
    BY <1>2, <1>8, <2>1, <2>2 DEF Record, RecordRaises, Holding
  <2>3. CASE worker[i].verdict # "locked_skip"
    <3>1. /\ worker'[i].pc = "release" /\ worker'[i].scope = worker[i].scope
          /\ worker'[i].leaked = worker[i].leaked
      BY <1>0, <1>8, <2>3 DEF Record, RecordRaises, WorkerType
    <3> QED
      BY <2>1, <2>3, <3>1 DEF Known, Holding
  <2> QED
    BY <2>2, <2>3
<1>9. CASE ReleaseRead(i)
  <2>1. CASE lease[worker[i].scope].owner = i
    BY <1>0, <1>9, <2>1 DEF ReleaseRead, WorkerType, Known, Holding
  <2>2. CASE lease[worker[i].scope].owner # i
    BY <1>2, <1>9, <2>2 DEF ReleaseRead, Holding
  <2> QED
    BY <2>1, <2>2
<1>10. CASE ReleaseWrite(i)
  <2>1. s = worker[i].scope => lease'[s].owner = Nobody
    BY <1>0, <1>10 DEF ReleaseWrite, RowDeleted
  <2>2. s # worker[i].scope => lease'[s] = lease[s] /\ ~Holding(i, s)
    BY <1>0, <1>10 DEF ReleaseWrite, RowDeleted, Holding
  <2>3. worker'[i].leaked = worker[i].leaked
    BY <1>0, <1>10, EndsWithLeaks DEF ReleaseWrite
  <2> QED
    BY <1>1, <2>1, <2>2, <2>3 DEF Known
<1>11. CASE HeartStep(i) \/ StrayWrite(i) \/ RenewRaises(i)
  <2>0. \A t, left : lease' = [lease EXCEPT ![t].left = left] => lease'[s].owner = lease[s].owner
    BY <1>0 DEF LeaseType
  <2>1. worker' = worker /\ lease'[s].owner = lease[s].owner
    BY <1>11, <2>0 DEF HeartStep, RenewRead, RenewWrite, StrayWrite, RenewRaises
  <2> QED
    BY <2>1 DEF Known, Holding
<1>12. CASE AcquireRaises(i) \/ ReleaseRaises(i)
  <2>1. Abandon(i, worker[i].scope, lease')
    BY <1>12 DEF AcquireRaises, ReleaseRaises
  <2>2. s # worker[i].scope => lease'[s] = lease[s] /\ ~Holding(i, s)
    BY <1>0, <1>12 DEF AcquireRaises, ReleaseRaises, Granted, RowDeleted, Holding
  <2>3. /\ lease'[worker[i].scope].owner = i
             => worker'[i].leaked = worker[i].leaked \cup {worker[i].scope}
        /\ lease'[worker[i].scope].owner # i => worker'[i].leaked = worker[i].leaked
    BY <1>0, <2>1, AbandonsWithLeaks
  <2>4. /\ worker[i].leaked \subseteq worker'[i].leaked
        /\ s = worker[i].scope /\ lease'[s].owner = i => s \in worker'[i].leaked
    BY <2>3
  <2> QED
    BY <2>2, <2>4 DEF Known
<1>13. CASE Shutdown(i)
  BY <1>0, <1>13 DEF Shutdown, WorkerType, Known, Holding
<1>14. CASE Crash(i) \/ Restart(i)
  BY <1>0, <1>1, <1>14 DEF Crash, Restart, Orphaned, LeaseType, Known
<1>15. CASE FinishPass(i)
  BY <1>2, <1>15 DEF FinishPass, Holding
<1>16. CASE Acquire(i) \/ AcquireLate(i) \/ Skip(i)
  BY <1>3, <1>6, <1>16 DEF Acquire, AcquireLate, Skip
<1> QED
  BY <1>4, <1>5, <1>7, <1>8, <1>9, <1>10, <1>11, <1>12, <1>13, <1>14, <1>15, <1>16
     DEF StepOf, MainStep, FaultStep

LEMMA KnownStep ==
  ASSUME TypeOK, ControlInvariant, LeaksAreKnown, [Next]_vars
  PROVE  LeaksAreKnown'
<1>0. worker \in [Workers -> WorkerType] /\ lease \in [Scopes -> LeaseType]
  BY DEF TypeOK, WorkerType, LeaseType
<1>a. \A i \in Workers, s \in Scopes : Known(i, s)
  BY DEF LeaksAreKnown, Known
<1>1. CASE Tick
  <2>1. worker' = worker /\ \A s \in Scopes : lease'[s].owner = lease[s].owner
    BY <1>0, <1>1 DEF Tick, LeaseType
  <2> QED
    BY <1>a, <2>1 DEF LeaksAreKnown, Known, Holding
<1>2. ASSUME NEW j \in Workers, StepOf(j), NEW i \in Workers, NEW s \in Scopes
      PROVE  Known(i, s)'
  <2>1. CASE i = j
    BY <1>a, <1>2, <2>1, OwnStepsAreKnown
  <2>2. CASE i # j
    <3>2. worker'[i] = worker[i]
      BY <1>2, <2>2, OthersKeepTheirRecords
    <3>3. lease'[s].owner = i => lease[s].owner = i
      BY <1>2, <2>2, OthersGiveNoLease
    <3> QED
      BY <1>a, <3>2, <3>3 DEF Known, Holding
  <2> QED
    BY <2>1, <2>2
<1>3. CASE UNCHANGED vars
  BY <1>3 DEF vars, LeaksAreKnown, Holding
<1> QED
  BY <1>1, <1>2, <1>3 DEF Next, StepOf, LeaksAreKnown, Known

(* However late its threads and whatever comes between its statements, a    *)
(* replica that stopped owns no lease but those it could not release.       *)
THEOREM ReleasesOnShutdown == SafeSpec => []StoppedHoldsNothing
<1>1. Init => LeaksAreKnown
  BY RuntimeAssumption DEF Init, LeaksAreKnown
<1>2. TypeOK /\ ControlInvariant /\ LeaksAreKnown /\ [Next]_vars => LeaksAreKnown'
  BY KnownStep
<1>3. LeaksAreKnown => StoppedHoldsNothing
  BY DEF LeaksAreKnown, Holding, StoppedHoldsNothing
<1> QED
  BY <1>1, <1>2, <1>3, TypeCorrect, PTL DEF SafeSpec

-----------------------------------------------------------------------------
(* The refinement                                                          *)

(* A replica comes to rely on a lease only by acquiring it or by renewing   *)
(* it in time, and no other loses or gains anything by that.                *)
LEMMA GainsAlone ==
  ASSUME TypeOK, ControlInvariant, NEW j \in Workers, NEW s \in Scopes, StepOf(j),
         Sound(j, s)', ~Sound(j, s)
  PROVE  /\ \A t \in Scopes : ~Sound(j, t)
         /\ \A i \in Workers \ {j} : lapse'[i] = lapse[i]
<1>0. /\ worker \in [Workers -> WorkerType] /\ heart \in [Workers -> HeartType]
      /\ lapse \in [Workers -> Causes]
  BY DEF TypeOK, WorkerType, HeartType
<1>a. /\ worker'[j].pc \in {"run", "job"} /\ worker'[j].scope = s
      /\ heart'[j].st # "lost" /\ lapse'[j] = "none"
  BY DEF Sound, Confident, Active
<1>1. CASE \E left \in 0..TTL : Enter(j, worker[j].scope, left) /\ worker[j].pc = "next"
  BY <1>0, <1>1 DEF Enter, Sound, Confident, Active
<1>2. CASE /\ worker[j].pc \in {"run", "job"} /\ worker'[j].scope = worker[j].scope
           /\ UNCHANGED <<lease, heart, history>>
  BY <1>a, <1>2 DEF Sound, Confident, Active, history
<1>3. CASE worker' = worker /\ (HeartStep(j) \/ StrayWrite(j) \/ RenewRaises(j))
  <2>0. worker[j].scope = s /\ worker[j].pc \in {"run", "job"}
    BY <1>a, <1>3
  <2>1. CASE RenewRead(j)
    BY <1>0, <1>a, <2>0, <2>1 DEF RenewRead, Lost, Sound, Confident, Active
  <2>2. CASE RenewRaises(j)
    BY <1>0, <1>a, <2>2 DEF RenewRaises
  <2>3. CASE StrayWrite(j)
    <3>1. heart' = heart /\ lapse[j] = "none"
      BY <1>a, <2>3 DEF StrayWrite, Disturbed
    <3> QED
      BY <1>a, <2>0, <3>1 DEF Sound, Confident, Active
  <2>4. CASE RenewWrite(j)
    <3>1. heart[j].st = "writing"
      BY <2>4 DEF RenewWrite
    <3>2. lapse[j] # "none"
      BY <2>0, <3>1 DEF Sound, Confident, Active
    <3>3. lapse' # Disturbed(s, "overwritten")
      BY <1>a, <3>2 DEF Disturbed
    <3>4. \E v : lapse' = [lapse EXCEPT ![j] = v]
      BY <1>0, <1>a, <2>0, <2>4, <3>3 DEF RenewWrite, Lost
    <3> QED
      BY <1>0, <3>2, <3>4 DEF Sound
  <2> QED
    BY <1>3, <2>1, <2>2, <2>3, <2>4 DEF HeartStep
<1> QED
  BY <1>1, <1>2, <1>3, <1>a, WorkGoesOn

Working == [s \in Scopes |-> {i \in Workers : Sound(i, s)}]

(* A step nobody gains by is a Leave.                                       *)
LEMMA LeaveStep ==
  ASSUME \A i \in Workers, s \in Scopes : Sound(i, s)' => Sound(i, s)
  PROVE  Mutex!Next
<1> DEFINE gone == {i \in Workers : \E s \in Scopes : Sound(i, s) /\ ~Sound(i, s)'}
<1>1. ASSUME NEW i \in Workers, NEW s \in Scopes
      PROVE  Sound(i, s)' <=> Sound(i, s) /\ i \notin gone
  <2>1. \A t \in Scopes : Sound(i, s) /\ Sound(i, t) => t = s
    BY DEF Sound, Confident, Active
  <2> QED
    BY <2>1
<1> HIDE DEF gone
<1>2. ASSUME NEW s \in Scopes
      PROVE  {i \in Workers : Sound(i, s)}' = Working[s] \ gone
  BY <1>1 DEF Working
<1>3. Working' = [s \in Scopes |-> Working[s] \ gone]
  BY <1>2 DEF Working
<1>4. gone \in SUBSET Workers
  BY DEF gone
<1> QED
  BY <1>3, <1>4 DEF Mutex!Next, Mutex!Leave, Working

(* Where j gains s, it enters a scope nobody else relies on.                *)
LEMMA EnterStep ==
  ASSUME TypeOK, LeaseInvariant, LeaseInvariant', NEW j \in Workers, NEW s \in Scopes, StepOf(j),
         Sound(j, s)', ~Sound(j, s)
  PROVE  Mutex!Next
<1>1. /\ \A t \in Scopes : ~Sound(j, t)
      /\ \A i \in Workers \ {j} : lapse'[i] = lapse[i]
  BY GainsAlone DEF LeaseInvariant
<1>2. \A i \in Workers \ {j}, t \in Scopes : Sound(i, t)' <=> Sound(i, t)
  BY <1>1, OthersKeepTheirRecords DEF Sound, Confident, Active
<1>3. \A t \in Scopes : Sound(j, t)' <=> t = s
  BY DEF Sound, Confident, Active
<1>4. \A i \in Workers : Sound(i, s)' => i = j
  BY DEF LeaseInvariant, RenewedInTime
<1>5. \A i \in Workers : ~Sound(i, s)
  BY <1>1, <1>2, <1>4
<1>6. Working[s] = {} /\ \A t \in Scopes : j \notin Working[t]
  BY <1>1, <1>5 DEF Working
<1>7. ASSUME NEW t \in Scopes
      PROVE  {i \in Workers : Sound(i, t)}' = [Working EXCEPT ![s] = {j}][t]
  <2>1. CASE t = s
    BY <1>3, <1>4, <2>1 DEF Working
  <2>2. CASE t # s
    BY <1>1, <1>2, <1>3, <2>2 DEF Working
  <2> QED
    BY <2>1, <2>2
<1>8. Working' = [Working EXCEPT ![s] = {j}]
  BY <1>7 DEF Working
<1> QED
  BY <1>6, <1>8 DEF Mutex!Next, Mutex!Enter, Working

LEMMA MutexStep ==
  ASSUME TypeOK, LeaseInvariant, LeaseInvariant', [Next]_vars
  PROVE  [Mutex!Next]_Working
<1>1. CASE Tick
  <2>1. \A i \in Workers : heart'[i].st = heart[i].st /\ worker' = worker
    BY <1>1 DEF Tick, TypeOK, HeartType
  <2>2. \A i \in Workers : lapse'[i] = "none" => lapse[i] = "none"
    BY <1>1 DEF Tick
  <2> QED
    BY <2>1, <2>2, LeaveStep DEF Sound, Confident, Active
<1>2. ASSUME NEW j \in Workers, StepOf(j)
      PROVE  [Mutex!Next]_Working
  <2>1. ASSUME NEW i \in Workers \ {j}, NEW s \in Scopes, Sound(i, s)'
        PROVE  Sound(i, s)
    BY <1>2, <2>1, OthersKeepTheirRecords, OthersKeepTheirLapses DEF Sound, Confident, Active
  <2>2. CASE \E s \in Scopes : Sound(j, s)' /\ ~Sound(j, s)
    BY <1>2, <2>2, EnterStep
  <2>3. CASE \A s \in Scopes : Sound(j, s)' => Sound(j, s)
    BY <2>1, <2>3, LeaveStep
  <2> QED
    BY <2>2, <2>3
<1>3. CASE UNCHANGED vars
  BY <1>3 DEF vars, Working, Sound, Confident, Active
<1> QED
  BY <1>1, <1>2, <1>3 DEF Next, StepOf

(* The leases implement one mutex per scope, which a replica leaves at the  *)
(* latest when its lease lapses.                                            *)
THEOREM RefinesMutex == SafeSpec => ImplementsMutex
<1>1. Init => Mutex!Init
  BY DEF Init, Mutex!Init, Sound, Confident, Active, Idle
<1>2. TypeOK /\ LeaseInvariant /\ LeaseInvariant' /\ [Next]_vars => [Mutex!Next]_Working
  BY MutexStep
<1>3. Working = [s \in Scopes |-> {i \in Workers : Sound(i, s)}]
  BY DEF Working
<1> QED
  BY <1>1, <1>2, <1>3, TypeCorrect, LeasesAreKept, PTL DEF SafeSpec, ImplementsMutex, Mutex!Spec, Working
=============================================================================

--------------------------- MODULE WorkerRuntime ---------------------------
(***************************************************************************)
(* The scheduled worker runtime: replicas that pass over the configured    *)
(* scopes, each scope under a lease that a heartbeat thread renews.        *)
(*                                                                         *)
(* Time is counted in ticks: a lease row carries what is left of it, a     *)
(* heartbeat what is left until its next renewal. Time waits for nobody: a *)
(* thread can be held up at any step, for any number of ticks. The clocks  *)
(* of the replicas agree. An owner id is drawn anew by every process, so a *)
(* lease of a process that is gone belongs to Dead.                        *)
(***************************************************************************)
EXTENDS Naturals

CONSTANTS
  Workers,      \* replicas of the worker process
  LastScope,    \* the scopes are 1..LastScope, in the order of a pass
  LastJob,      \* each scope runs the jobs 1..LastJob
  MaxAttempts,  \* retry budget of one job
  TTL,          \* ticks a lease lasts
  Interval,     \* ticks between renewals
  MaxFaults,    \* bound on crashes, shutdowns, raising and belated store calls
  Nobody, Dead  \* owner of an absent row; owner that no process has any more

ASSUME RuntimeAssumption ==
  /\ LastScope \in Nat
  /\ LastJob \in Nat
  /\ MaxAttempts \in Nat \ {0}
  /\ TTL \in Nat /\ Interval \in Nat \ {0} /\ Interval < TTL
  /\ MaxFaults \in Nat
  /\ Nobody \notin Workers /\ Dead \notin Workers /\ Nobody # Dead

VARIABLES
  lease,    \* worker_leases: owner and ticks left, by scope
  worker,   \* the main thread of each replica
  heart,    \* the heartbeat thread of each replica
  stray,    \* a heartbeat thread given up by its replica, halfway in a renewal
  faults,   \* faults so far
  lapse,    \* history: what made the lease of a replica at work unreliable
  overlap   \* history: whether another replica entered the scope of one at work

history == <<lapse, overlap>>

vars == <<lease, worker, heart, stray, faults, lapse, overlap>>

Scopes == 1..LastScope

Places == {"wait", "next", "run", "job", "record", "release", "delete", "stopped", "down"}

Results == {"completed", "completed_with_findings", "failed", "dead_letter", "aborted"}

Verdicts == {"completed", "completed_with_findings", "failed", "dead_letter",
             "lease_lost", "locked_skip"}

Idle == [pc |-> "wait", scope |-> 1, job |-> 1, tries |-> 1, results |-> {},
         verdict |-> "completed", raised |-> FALSE, stop |-> FALSE,
         leaked |-> {}]

Silent == [st |-> "off", k |-> 0]

NoStray == [scope |-> 0, k |-> 0]

\* It ran out while a renewal was due, or others' belated statements got at it.
Causes == {"none", "late", "overwritten", "deleted"}

\* Another replica entered; and the heartbeat has asked for the lease since.
Overlaps == {"none", "entered", "asked"}

Init ==
  /\ lease = [s \in Scopes |-> [owner |-> Nobody, left |-> 0]]
  /\ worker = [i \in Workers |-> Idle]
  /\ heart = [i \in Workers |-> Silent]
  /\ stray = [i \in Workers |-> NoStray]
  /\ faults = 0
  /\ lapse = [i \in Workers |-> "none"]
  /\ overlap = [i \in Workers |-> "none"]

-----------------------------------------------------------------------------
(* Leases                                                                  *)

CanTakeAbsent(i, s) == lease[s].owner \in {Nobody, i}

CanTakeAny(i, s) == TRUE

\* The conflict clause of try_acquire_lease; left = 0 is expires_at <= now.
CanTake(i, s) == lease[s].owner \in {Nobody, i} \/ lease[s].left = 0

Granted(i, s, left) == [lease EXCEPT ![s] = [owner |-> i, left |-> left]]

\* DELETE by primary key: what the row says by now does not matter.
RowDeleted(s) == [lease EXCEPT ![s] = [owner |-> Nobody, left |-> 0]]

\* A worker whose jobs on s may still run.
Active(i, s) == worker[i].pc \in {"run", "job"} /\ worker[i].scope = s

\* One that runs them and has not noticed any loss of its lease.
Confident(i, s) == Active(i, s) /\ heart[i].st # "lost"

\* The replica at work under the lease on s has it changed under its hands.
Disturbed(s, cause) ==
  [j \in Workers |->
     IF Confident(j, s) /\ lease[s].owner = j /\ lapse[j] = "none" THEN cause ELSE lapse[j]]

\* i enters s, where others may still be at work.
Overtaken(i, s) ==
  [j \in Workers |->
     IF j # i /\ Active(j, s) /\ overlap[j] = "none" THEN "entered" ELSE overlap[j]]

\* i cannot prove that it owns its lease, and knows it.
Lost(i) ==
  /\ heart' = [heart EXCEPT ![i] = [st |-> "lost", k |-> 0]]
  /\ lapse' = [lapse EXCEPT ![i] = "none"]

\* The run of i is over, and with it what its history was kept for.
Forget(i) ==
  /\ lapse' = [lapse EXCEPT ![i] = "none"]
  /\ overlap' = [overlap EXCEPT ![i] = "none"]

-----------------------------------------------------------------------------
(* The pass: WorkerScheduler.run_forever and WorkerOrchestrator.run_once   *)

\* Back to the scheduler, at the end of a pass or because the pass raised.
EndPass(i) ==
  worker' = [worker EXCEPT ![i] = [Idle EXCEPT !.stop = worker[i].stop,
                                               !.leaked = worker[i].leaked]]

\* The body of the loop over scopes ends, normally or by raising.
EndScope(i) ==
  IF worker[i].raised THEN EndPass(i)
  ELSE worker' = [worker EXCEPT ![i] = [Idle EXCEPT !.pc = "next",
                                                    !.scope = worker[i].scope + 1,
                                                    !.stop = worker[i].stop,
                                                    !.leaked = worker[i].leaked]]

StartTick(i) ==
  /\ worker[i].pc = "wait" /\ ~worker[i].stop
  /\ worker' = [worker EXCEPT ![i].pc = "next", ![i].scope = 1]
  /\ UNCHANGED <<lease, heart, stray, faults, history>>

\* The process exits, and its daemon threads with it.
Stop(i) ==
  /\ worker[i].pc = "wait" /\ worker[i].stop
  /\ worker' = [worker EXCEPT ![i].pc = "stopped"]
  /\ stray' = [stray EXCEPT ![i] = NoStray]
  /\ UNCHANGED <<lease, heart, faults, history>>

FinishPass(i) ==
  /\ worker[i].pc = "next"
  /\ worker[i].stop \/ worker[i].scope > LastScope
  /\ EndPass(i)
  /\ UNCHANGED <<lease, heart, stray, faults, history>>

\* i owns s for what is left of TTL since it read the clock.
Enter(i, s, left) ==
  /\ lease' = Granted(i, s, left)
  /\ worker' = [worker EXCEPT ![i].pc = "run", ![i].leaked = worker[i].leaked \ {s}]
  /\ heart' = [heart EXCEPT ![i] = [st |-> "waiting", k |-> Interval]]
  /\ lapse' = [lapse EXCEPT ![i] = IF left > Interval THEN "none" ELSE "late"]
  /\ overlap' = Overtaken(i, s)

Acquire(i) ==
  LET s == worker[i].scope IN
  /\ worker[i].pc = "next" /\ ~worker[i].stop /\ s \in Scopes
  /\ CanTake(i, s)
  /\ Enter(i, s, TTL)
  /\ UNCHANGED <<stray, faults>>

Skip(i) ==
  LET s == worker[i].scope IN
  /\ worker[i].pc = "next" /\ ~worker[i].stop /\ s \in Scopes
  /\ ~CanTake(i, s)
  /\ worker' = [worker EXCEPT ![i].pc = "record", ![i].verdict = "locked_skip"]
  /\ UNCHANGED <<lease, heart, stray, faults, history>>

-----------------------------------------------------------------------------
(* The jobs of a scope: run_jobs and _run_one_job                          *)

ShouldAbort(i) == heart[i].st = "lost" \/ worker[i].stop

BeginJob(i) ==
  /\ worker[i].pc = "run" /\ worker[i].job <= LastJob /\ ~ShouldAbort(i)
  /\ worker' = [worker EXCEPT ![i].pc = "job", ![i].tries = 1]
  /\ UNCHANGED <<lease, heart, stray, faults, history>>

\* This job and those after it are reported aborted and not started.
AbortJobs(i) ==
  /\ worker[i].pc = "run" /\ worker[i].job <= LastJob /\ ShouldAbort(i)
  /\ worker' = [worker EXCEPT ![i].job = LastJob + 1,
                              ![i].results = worker[i].results \cup {"aborted"}]
  /\ UNCHANGED <<lease, heart, stray, faults, history>>

\* The job's last result is r.
JobDone(i, r) ==
  worker' = [worker EXCEPT ![i].pc = "run", ![i].job = worker[i].job + 1, ![i].tries = 1,
                           ![i].results = worker[i].results \cup {r}]

JobSucceeds(i) ==
  /\ worker[i].pc = "job"
  /\ \E r \in {"completed", "completed_with_findings"} : JobDone(i, r)
  /\ UNCHANGED <<lease, heart, stray, faults, history>>

JobRetries(i) ==
  /\ worker[i].pc = "job" /\ worker[i].tries < MaxAttempts
  /\ worker' = [worker EXCEPT ![i].tries = worker[i].tries + 1]
  /\ UNCHANGED <<lease, heart, stray, faults, history>>

JobGivenUp(i) ==
  /\ worker[i].pc = "job" /\ worker[i].tries = MaxAttempts
  /\ JobDone(i, IF MaxAttempts > 1 THEN "dead_letter" ELSE "failed")
  /\ UNCHANGED <<lease, heart, stray, faults, history>>

-----------------------------------------------------------------------------
(* The end of a scope: run_scope after the jobs                            *)

ReportStatus(results) ==
  IF "dead_letter" \in results THEN "dead_letter"
  ELSE IF "failed" \in results THEN "failed"
  ELSE IF "aborted" \in results THEN "lease_lost"
  ELSE IF "completed_with_findings" \in results THEN "completed_with_findings"
  ELSE "completed"

VerdictOfReport(i) == ReportStatus(worker[i].results)

\* A loss noticed even during the last job is what goes on record.
Verdict(i) == IF heart[i].st = "lost" THEN "lease_lost" ELSE ReportStatus(worker[i].results)

\* The with-block is left and the run about to be recorded.
EndJobs(i) ==
  /\ worker[i].pc = "run" /\ worker[i].job > LastJob
  /\ worker' = [worker EXCEPT ![i].pc = "record", ![i].verdict = Verdict(i),
                              ![i].results = {}]
  /\ heart' = [heart EXCEPT ![i] = Silent]

\* Leaving the with-block joins the heartbeat thread, so no renewal is halfway.
FinishJobs(i) ==
  /\ heart[i].st # "writing"
  /\ EndJobs(i)
  /\ UNCHANGED <<lease, stray, faults, history>>

\* The run goes to the append-only history, which nothing here reads back.
Record(i) ==
  /\ worker[i].pc = "record"
  /\ IF worker[i].verdict = "locked_skip" THEN EndScope(i)
     ELSE worker' = [worker EXCEPT ![i].pc = "release", ![i].verdict = "completed"]
  /\ Forget(i)
  /\ UNCHANGED <<lease, heart, stray, faults>>

\* release_lease reads the row, and deletes it only if it found itself the owner.
ReleaseRead(i) ==
  /\ worker[i].pc = "release"
  /\ IF lease[worker[i].scope].owner = i THEN worker' = [worker EXCEPT ![i].pc = "delete"]
     ELSE EndScope(i)
  /\ UNCHANGED <<lease, heart, stray, faults, history>>

ReleaseWriteForgetting(i) ==
  /\ worker[i].pc = "delete"
  /\ EndScope(i)
  /\ UNCHANGED <<lease, heart, stray, faults, history>>

\* The row may be another's by now.
ReleaseWrite(i) ==
  /\ worker[i].pc = "delete"
  /\ lease' = RowDeleted(worker[i].scope)
  /\ lapse' = Disturbed(worker[i].scope, "deleted")
  /\ EndScope(i)
  /\ UNCHANGED <<heart, stray, faults, overlap>>

-----------------------------------------------------------------------------
(* The heartbeat thread                                                    *)

\* renew_lease reads the row; the new expiry was computed just before.
RenewRead(i) ==
  /\ heart[i].st = "waiting" /\ heart[i].k = 0
  /\ IF lease[worker[i].scope].owner = i
     THEN /\ heart' = [heart EXCEPT ![i] = [st |-> "writing", k |-> TTL]]
          /\ UNCHANGED lapse
     ELSE Lost(i)
  /\ overlap' = [overlap EXCEPT ![i] = IF overlap[i] = "none" THEN "none" ELSE "asked"]
  /\ UNCHANGED <<lease, worker, stray, faults>>

RenewWriteKeepingExpiry(i) ==
  /\ heart[i].st = "writing"
  /\ heart' = [heart EXCEPT ![i] = [st |-> "waiting", k |-> Interval]]
  /\ UNCHANGED <<lease, worker, stray, faults, history>>

\* UPDATE by primary key, whosever row it is by now; an absent row raises, and
\* raising counts as loss. A renewal in time makes the lease reliable again.
RenewWrite(i) ==
  LET s == worker[i].scope IN
  /\ heart[i].st = "writing"
  /\ IF lease[s].owner = Nobody THEN Lost(i) /\ UNCHANGED lease
     ELSE /\ lease' = [lease EXCEPT ![s].left = heart[i].k]
          /\ heart' = [heart EXCEPT ![i] = [st |-> "waiting", k |-> Interval]]
          /\ lapse' = IF lease[s].owner # i THEN Disturbed(s, "overwritten")
                      ELSE [lapse EXCEPT ![i] = IF heart[i].k > Interval THEN "none" ELSE "late"]
  /\ UNCHANGED <<worker, stray, faults, overlap>>

\* The thread its replica gave up writes after all; if that raises, nobody hears.
StrayWrite(i) ==
  LET s == stray[i].scope IN
  /\ s \in Scopes
  /\ IF lease[s].owner = Nobody THEN UNCHANGED <<lease, lapse>>
     ELSE /\ lease' = [lease EXCEPT ![s].left = stray[i].k]
          /\ lapse' = Disturbed(s, "overwritten")
  /\ stray' = [stray EXCEPT ![i] = NoStray]
  /\ UNCHANGED <<worker, heart, faults, overlap>>

-----------------------------------------------------------------------------
(* Time                                                                    *)

Less(n) == IF n = 0 THEN 0 ELSE n - 1

\* A renewal is due or under way, so that time passing makes it late.
Due(i) == heart[i].st = "writing" \/ (heart[i].st = "waiting" /\ heart[i].k = 0)

\* The lease of i is about to run out, and i behind with its renewal.
RunsOutLate(i) ==
  /\ Due(i)
  /\ lease[worker[i].scope] = [owner |-> i, left |-> 1]
  /\ lapse[i] = "none"

Tick ==
  /\ \/ \E s \in Scopes : lease[s].left > 0
     \/ \E i \in Workers : heart[i].k > 0 \/ stray[i].k > 0
  /\ lease' = [s \in Scopes |-> [lease[s] EXCEPT !.left = Less(lease[s].left)]]
  /\ heart' = [i \in Workers |-> [heart[i] EXCEPT !.k = Less(heart[i].k)]]
  /\ stray' = [i \in Workers |-> [stray[i] EXCEPT !.k = Less(stray[i].k)]]
  /\ lapse' = [i \in Workers |-> IF RunsOutLate(i) THEN "late" ELSE lapse[i]]
  /\ UNCHANGED <<worker, faults, overlap>>

-----------------------------------------------------------------------------
(* Faults: store calls that raise, before or after they took effect;       *)
(* processes that die, are told to stop, and are started anew              *)

Fault == faults < MaxFaults /\ faults' = faults + 1

\* The pass raises, holding whatever lease on s it holds.
Abandon(i, s, rows) ==
  worker' = [worker EXCEPT ![i] = [Idle EXCEPT !.stop = worker[i].stop,
    !.leaked = IF rows[s].owner = i THEN worker[i].leaked \cup {s} ELSE worker[i].leaked]]

AcquireRaises(i) ==
  LET s == worker[i].scope IN
  /\ worker[i].pc = "next" /\ ~worker[i].stop /\ s \in Scopes
  /\ Fault
  /\ lease' \in {lease} \cup {IF CanTake(i, s) THEN Granted(i, s, TTL) ELSE lease}
  /\ Abandon(i, s, lease')
  /\ UNCHANGED <<heart, stray, history>>

\* The clock was read a while before the statement ran: what it grants is shorter,
\* and a lease that ran out in the meantime still counts as held.
AcquireLate(i) ==
  LET s == worker[i].scope IN
  /\ worker[i].pc = "next" /\ ~worker[i].stop /\ s \in Scopes
  /\ CanTake(i, s)
  /\ Fault
  /\ \/ \E left \in 0..TTL : left < TTL /\ Enter(i, s, left)
     \/ /\ lease[s].owner \notin {Nobody, i}
        /\ worker' = [worker EXCEPT ![i].pc = "record", ![i].verdict = "locked_skip"]
        /\ UNCHANGED <<lease, heart, history>>
  /\ UNCHANGED <<stray>>

\* heartbeat.stop gives up on a thread that is halfway in a renewal.
JoinTimesOut(i) ==
  /\ heart[i].st = "writing" /\ stray[i] = NoStray
  /\ EndJobs(i)
  /\ Fault
  /\ stray' = [stray EXCEPT ![i] = [scope |-> worker[i].scope, k |-> heart[i].k]]
  /\ UNCHANGED <<lease, history>>

RecordRaises(i) ==
  /\ worker[i].pc = "record"
  /\ Fault
  /\ IF worker[i].verdict = "locked_skip" THEN EndPass(i)
     ELSE worker' = [worker EXCEPT ![i].pc = "release", ![i].raised = TRUE,
                                 ![i].verdict = "completed"]
  /\ Forget(i)
  /\ UNCHANGED <<lease, heart, stray>>

ReleaseRaises(i) ==
  LET s == worker[i].scope IN
  /\ worker[i].pc \in {"release", "delete"}
  /\ Fault
  /\ \/ UNCHANGED <<lease, lapse>>
     \/ /\ worker[i].pc = "delete"
        /\ lease' = RowDeleted(s)
        /\ lapse' = Disturbed(s, "deleted")
  /\ Abandon(i, s, lease')
  /\ UNCHANGED <<heart, stray, overlap>>

RenewRaises(i) ==
  LET s == worker[i].scope IN
  /\ Due(i)
  /\ heart' = [heart EXCEPT ![i] = [st |-> "lost", k |-> 0]]
  /\ \/ UNCHANGED lease
     \/ /\ heart[i].st = "writing" /\ lease[s].owner # Nobody
        /\ lease' = [lease EXCEPT ![s].left = heart[i].k]
  /\ lapse' = [(IF lease' = lease THEN lapse ELSE Disturbed(s, "overwritten"))
                 EXCEPT ![i] = "none"]
  /\ UNCHANGED <<worker, stray, faults, overlap>>

\* SIGTERM sets the flag that is read between jobs, scopes and passes.
Shutdown(i) ==
  /\ worker[i].pc \notin {"stopped", "down"} /\ ~worker[i].stop
  /\ Fault
  /\ worker' = [worker EXCEPT ![i].stop = TRUE]
  /\ UNCHANGED <<lease, heart, stray, history>>

\* No later process has i's owner id, so its leases wait for their expiry.
Orphaned(i) ==
  [s \in Scopes |-> IF lease[s].owner = i THEN [lease[s] EXCEPT !.owner = Dead] ELSE lease[s]]

Crash(i) ==
  /\ worker[i].pc \notin {"stopped", "down"}
  /\ Fault
  /\ lease' = Orphaned(i)
  /\ worker' = [worker EXCEPT ![i] = [Idle EXCEPT !.pc = "down"]]
  /\ heart' = [heart EXCEPT ![i] = Silent]
  /\ stray' = [stray EXCEPT ![i] = NoStray]
  /\ Forget(i)

Restart(i) ==
  /\ worker[i].pc \in {"stopped", "down"}
  /\ lease' = Orphaned(i)
  /\ worker' = [worker EXCEPT ![i] = Idle]
  /\ UNCHANGED <<heart, stray, faults, history>>

-----------------------------------------------------------------------------
MainStep(i) ==
  \/ StartTick(i) \/ Stop(i) \/ FinishPass(i) \/ Acquire(i) \/ Skip(i)
  \/ BeginJob(i) \/ AbortJobs(i) \/ JobSucceeds(i) \/ JobRetries(i) \/ JobGivenUp(i)
  \/ FinishJobs(i) \/ Record(i) \/ ReleaseRead(i) \/ ReleaseWrite(i)

HeartStep(i) == RenewRead(i) \/ RenewWrite(i)

FaultStep(i) ==
  \/ AcquireRaises(i) \/ AcquireLate(i) \/ JoinTimesOut(i) \/ RecordRaises(i)
  \/ ReleaseRaises(i) \/ RenewRaises(i) \/ Shutdown(i) \/ Crash(i)

Next ==
  \/ Tick
  \/ \E i \in Workers :
       MainStep(i) \/ HeartStep(i) \/ StrayWrite(i) \/ FaultStep(i) \/ Restart(i)

\* A live process keeps running, time passes, and the platform replaces what is gone.
Fairness ==
  /\ WF_vars(Tick)
  /\ \A i \in Workers : WF_vars(MainStep(i)) /\ WF_vars(HeartStep(i)) /\ WF_vars(Restart(i))

SafeSpec == Init /\ [][Next]_vars

Spec == SafeSpec /\ Fairness

-----------------------------------------------------------------------------
(* Properties                                                              *)

\* Leases, worker records, and heartbeats have their types.
TypeOK ==
  /\ lease \in [Scopes -> [owner : Workers \cup {Nobody, Dead}, left : 0..TTL]]
  /\ worker \in [Workers ->
       [pc : Places, scope : 1..(LastScope + 1), job : 1..(LastJob + 1),
        tries : 1..MaxAttempts, results : SUBSET Results, verdict : Verdicts,
        raised : BOOLEAN, stop : BOOLEAN, leaked : SUBSET Scopes]]
  /\ heart \in [Workers -> [st : {"off", "waiting", "writing", "lost"}, k : 0..TTL]]
  /\ stray \in [Workers -> [scope : 0..LastScope, k : 0..TTL]]
  /\ faults \in 0..MaxFaults
  /\ lapse \in [Workers -> Causes]
  /\ overlap \in [Workers -> Overlaps]

\* A worker at it whose lease nothing has made unreliable.
Sound(i, s) == Confident(i, s) /\ lapse[i] = "none"

(* The heartbeat's promise as numbers: while renewals are in time, the      *)
(* lease is the worker's own and outlasts the wait for the next of them.    *)
RenewedInTime ==
  \A i \in Workers, s \in Scopes :
    Sound(i, s) =>
      /\ heart[i].st \in {"waiting", "writing"}
      /\ lease[s].owner = i /\ lease[s].left > 0
      /\ heart[i].st = "waiting" => lease[s].left > heart[i].k

(* Where the threads can be: the heartbeat lives exactly as long as the     *)
(* jobs, and they work on a scope and a job there is.                       *)
ControlInvariant ==
  \A i \in Workers :
    /\ worker[i].pc \in {"run", "job"} <=> heart[i].st # "off"
    /\ worker[i].pc \in {"run", "job", "record", "release", "delete"} =>
         worker[i].scope \in Scopes
    /\ worker[i].pc = "job" => worker[i].job <= LastJob

(* The inductive invariant behind mutual exclusion.                         *)
LeaseInvariant == ControlInvariant /\ RenewedInTime

\* A replica at work on a scope, or about to give its lease back.
Holding(i, s) ==
  /\ worker[i].scope = s
  /\ \/ worker[i].pc \in {"run", "job", "release", "delete"}
     \/ worker[i].pc = "record" /\ worker[i].verdict # "locked_skip"

(* A replica owns the lease of a scope it holds, and those it could not     *)
(* release.                                                                 *)
LeaksAreKnown ==
  \A i \in Workers, s \in Scopes :
    lease[s].owner = i => s \in worker[i].leaked \/ Holding(i, s)

(* Who was overtaken has lost its lease, for a cause on file unless it knew *)
(* before; once it has asked for the lease again it knows, and says so when *)
(* it is done.                                                              *)
LossIsNoticed ==
  \A i \in Workers :
    \/ overlap[i] = "none"
    \/ /\ worker[i].pc \in {"run", "job"} /\ lease[worker[i].scope].owner # i
       /\ heart[i].st = "lost" \/ (lapse[i] # "none" /\ overlap[i] = "entered")
    \/ worker[i].pc = "record" /\ worker[i].verdict = "lease_lost"
    \/ worker[i].pc = "record" /\ lapse[i] # "none" /\ overlap[i] = "entered"

(* workers/locks.py, workers/heartbeat.py: two workers process a scope in   *)
(* the belief that they may only if the lease of one ran out while its      *)
(* heartbeat was behind, or was changed by a belated statement of another.  *)
(* No crash, takeover, failing call or order of timely steps is enough.     *)
OneConfidentWorker ==
  \A i, j \in Workers, s \in Scopes :
    Confident(i, s) /\ Confident(j, s) /\ i # j => lapse[i] # "none" \/ lapse[j] # "none"

(* A run during which another replica entered the scope is on record as     *)
(* lease_lost, whatever its jobs reported (orchestrator.py, run_scope): all *)
(* that goes unnoticed is a lapse no renewal has come upon by the end.      *)
OverlapIsOnRecord ==
  \A i \in Workers :
    worker[i].pc = "record" /\ overlap[i] # "none" =>
      \/ worker[i].verdict = "lease_lost"
      \/ lapse[i] # "none" /\ overlap[i] = "entered"

(* workers/shutdown.py: a worker that stopped on SIGTERM left no scope      *)
(* locked, unless the store refused to release it.                          *)
StoppedHoldsNothing ==
  \A i \in Workers, s \in Scopes :
    worker[i].pc = "stopped" /\ lease[s].owner = i => s \in worker[i].leaked

(* Crashed, stopped and unlucky replicas block no scope for good: every     *)
(* scope is processed again and again (locks.py: "a crashed worker never    *)
(* deadlocks a scope").                                                     *)
ScopeIsServedAgain == \A s \in Scopes : []<>(\E i \in Workers : Active(i, s))

(* repository.py, release_lease: "a no-op if held by a different owner".    *)
ReleaseSparesOthers == \A i \in Workers : lapse[i] # "deleted"

Mutex == INSTANCE ScopeMutex
  WITH working <- [s \in Scopes |-> {i \in Workers : Sound(i, s)}]

(* Leases, renewals, expiry, crashes and takeovers together implement one   *)
(* mutex per scope, which a worker leaves at the latest when its lease      *)
(* becomes unreliable.                                                      *)
ImplementsMutex == Mutex!Spec
=============================================================================

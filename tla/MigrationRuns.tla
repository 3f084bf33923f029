------------------------------ MODULE MigrationRuns ------------------------------
(***************************************************************************)
(* The table migration_runs, the workers that claim queued runs from it    *)
(* and the API requests that create and resume runs.                       *)
(*                                                                         *)
(* Every process (a worker iteration, or an API request with its own       *)
(* SQLAlchemy session) is a small state machine whose steps are the        *)
(* database statements and commits of the code, under READ COMMITTED:      *)
(*   - a value a session has read stays in the session (expire_on_commit   *)
(*     is off) until db.refresh, however the row changes meanwhile;        *)
(*   - an UPDATE flushed but not committed holds the row's lock, and every *)
(*     other UPDATE of the row waits for it;                               *)
(*   - a crash, or an exception the runner does not catch, rolls the open  *)
(*     transaction back and leaves what was committed.                     *)
(* What the pipeline of a run does is abstracted to its outcome.           *)
(***************************************************************************)
EXTENDS Naturals, FiniteSets

CONSTANTS
    Runs,           \* identifiers of migration_runs rows
    Workers,        \* worker processes (docker compose up --scale worker=N)
    Sessions,       \* API requests that may be in flight at the same time
    SelectionRuns,  \* the runs whose run_config has use_selection
    ApiMode,        \* runner_mode of the API process: "api" or "worker"
    MaxResumes,     \* bound: how often POST /runs/{id}/resume is used in all
    MaxCrashes,     \* bound: process deaths and uncaught exceptions in all
    NoRun,          \* a process without a run
    Nobody          \* a run without a process

ASSUME RunsAssumption ==
    /\ SelectionRuns \subseteq Runs
    /\ NoRun \notin Runs /\ IsFiniteSet(Runs)
    /\ ApiMode \in {"api", "worker"}
    /\ MaxResumes \in Nat /\ MaxCrashes \in Nat
    /\ Workers \cap Sessions = {}
    /\ Nobody \notin Workers \cup Sessions

VARIABLES
    status,     \* [Runs -> status], the committed column; "absent" before INSERT
    createdAt,  \* [Runs -> Nat], the creating transaction's now()
    claimedBy,  \* [Runs -> the worker of the last claim, or Nobody]
    proc,       \* [Procs -> [pc, run, view]], view being the status in the session
    late,       \* history: the runs a resume queued although they had moved on
    resumes,    \* resume requests accepted so far (bound only)
    crashes     \* crashes so far (bound only)

bounds == <<resumes, crashes>>
vars == <<status, createdAt, claimedBy, proc, late, bounds>>

Procs == Workers \cup Sessions
RunStatus == {"pending", "queued", "running", "completed", "failed", "cancelled"}
Existing == {r \in Runs : status[r] # "absent"}

\* The points at which a process has made itself responsible for executing its run.
Engaged == {"claimed", "ready", "started", "selected", "loading"}
\* The points between a flushed UPDATE of the run's row and the next commit.
Locking == {"started", "loading"}
PC == Engaged \cup {"idle", "enqueue", "resuming", "refresh", "finalize"}

Idle == [pc |-> "idle", run |-> NoRun, view |-> "absent"]
At(p, point) == proc[p].pc = point
RunOf(p) == proc[p].run
Locked(r) == \E p \in Procs : RunOf(p) = r /\ proc[p].pc \in Locking
Executes(p, r) == RunOf(p) = r /\ proc[p].pc \in Engaged

Goto(p, point, v) ==
    proc' = [proc EXCEPT ![p] = [pc |-> point, run |-> RunOf(p), view |-> v]]
Release(p) == proc' = [proc EXCEPT ![p] = Idle]
WriteStatus(r, s) == status' = [status EXCEPT ![r] = s]

Init ==
    /\ status = [r \in Runs |-> "absent"]
    /\ createdAt = [r \in Runs |-> 0]
    /\ claimedBy = [r \in Runs |-> Nobody]
    /\ proc = [p \in Procs |-> Idle]
    /\ late = {}
    /\ resumes = 0 /\ crashes = 0

-----------------------------------------------------------------------------
(* API: POST /projects/{id}/runs                                            *)

\* INSERT of a pending row, committed before the run is queued or executed.  Only a
\* run that is asynchronous, by its run_config or by default, and in worker mode is
\* queued; the request executes any other itself, on the committed pending row.
InsertRun(s, r, now, async) ==
    /\ At(s, "idle")
    /\ status[r] = "absent"
    /\ WriteStatus(r, "pending")
    /\ createdAt' = [createdAt EXCEPT ![r] = now]
    /\ proc' = [proc EXCEPT ![s] =
                  [pc |-> IF async /\ ApiMode = "worker" THEN "enqueue" ELSE "ready",
                   run |-> r, view |-> "pending"]]
    /\ UNCHANGED <<claimedBy, late, bounds>>

CreateRun(s, r) ==
    \E async \in BOOLEAN : InsertRun(s, r, Cardinality(Existing) + 1, async)

\* runner_mode = worker: a second commit makes the run claimable.
QueueRun(s) ==
    /\ At(s, "enqueue")
    /\ ~Locked(RunOf(s))
    /\ WriteStatus(RunOf(s), "queued")
    /\ UNCHANGED <<createdAt, claimedBy, late, bounds>>

\* Mutation: the request is repeated after its commit.
EnqueueAgain(s) == QueueRun(s) /\ UNCHANGED proc
Enqueue(s) == QueueRun(s) /\ Release(s)

-----------------------------------------------------------------------------
(* API: POST /runs/{id}/resume                                              *)

\* The status is read without a lock; anything not resumable is refused with 400.
ReadForResume(s, r, resumable) ==
    /\ At(s, "idle")
    /\ resumes < MaxResumes
    /\ status[r] \in resumable
    /\ proc' = [proc EXCEPT ![s] = [pc |-> "resuming", run |-> r, view |-> status[r]]]
    /\ resumes' = resumes + 1
    /\ UNCHANGED <<status, createdAt, claimedBy, late, crashes>>

\* Mutation: the check accepts every run that has ended.
ResumeReadEnded(s, r) == ReadForResume(s, r, {"failed", "cancelled", "completed"})
ResumeRead(s, r) == ReadForResume(s, r, {"failed", "cancelled"})

\* The run has been resumed and claimed since this request read its status.
Overtaken(s) ==
    /\ status[RunOf(s)] # proc[s].view
    /\ status[RunOf(s)] \in {"running", "completed"}

\* UPDATE ... SET status = 'queued' WHERE id = ..., whatever the row says by now.
\* An API process in mode "api" goes on to execute the run itself.
ResumeWrite(s) ==
    /\ At(s, "resuming")
    /\ ~Locked(RunOf(s))
    /\ WriteStatus(RunOf(s), "queued")
    /\ late' = IF Overtaken(s) THEN late \cup {RunOf(s)} ELSE late
    /\ IF ApiMode = "worker" THEN Release(s) ELSE Goto(s, "claimed", "queued")
    /\ UNCHANGED <<createdAt, claimedBy, bounds>>

-----------------------------------------------------------------------------
(* Worker: claim_next_queued_run                                            *)

\* Mutation: the claim selects every unlocked run that has not ended.
ClaimableUnfinished(r) == status[r] \in {"queued", "running"} /\ ~Locked(r)

\* Mutation: the claim skips runs that were claimed before.
ClaimableOnce(r) == status[r] = "queued" /\ ~Locked(r) /\ claimedBy[r] = Nobody

\* ORDER BY created_at LIMIT 1 FOR UPDATE SKIP LOCKED: an oldest unlocked queued row.
Claimable(r) == status[r] = "queued" /\ ~Locked(r)
Claim(w, r) ==
    /\ At(w, "idle")
    /\ Claimable(r)
    /\ \A q \in Runs : Claimable(q) => createdAt[r] <= createdAt[q]
    /\ WriteStatus(r, "running")
    /\ claimedBy' = [claimedBy EXCEPT ![r] = w]
    /\ proc' = [proc EXCEPT ![w] = [pc |-> "claimed", run |-> r, view |-> "running"]]
    /\ UNCHANGED <<createdAt, late, bounds>>

\* db.refresh(run) after the commit of the claim (or of an inline resume).
Refresh(p) ==
    /\ At(p, "claimed")
    /\ Goto(p, "ready", status[RunOf(p)])
    /\ UNCHANGED <<status, createdAt, claimedBy, late, bounds>>

-----------------------------------------------------------------------------
(* RunService.execute_run, in a worker or inline in an API request          *)

\* The first flush: the row is updated and stays locked.  The ORM writes the
\* status column only when it differs from the session's view; view "running"
\* records that the column is not in the open transaction.
Start(p) ==
    /\ At(p, "ready")
    /\ ~Locked(RunOf(p))
    /\ Goto(p, "started", proc[p].view)
    /\ UNCHANGED <<status, createdAt, claimedBy, late, bounds>>

\* The commit after populate_batch, once per batch, publishes the open transaction
\* and unlocks the row in the middle of the execution.
SelectCandidates(p) ==
    /\ proc[p].pc \in Locking
    /\ RunOf(p) \in SelectionRuns
    /\ status' = IF proc[p].view = "running" THEN status
                 ELSE [status EXCEPT ![RunOf(p)] = "running"]
    /\ Goto(p, "selected", "running")
    /\ UNCHANGED <<createdAt, claimedBy, late, bounds>>

\* The first pipeline event updates progress_pct and so locks the row again.
PipelineEvent(p) ==
    /\ At(p, "selected")
    /\ ~Locked(RunOf(p))
    /\ Goto(p, "loading", "running")
    /\ UNCHANGED <<status, createdAt, claimedBy, late, bounds>>

\* Past selection, or never in need of it.
InPipeline(p) ==
    \/ At(p, "loading")
    \/ At(p, "started") /\ RunOf(p) \notin SelectionRuns

\* All batches succeeded; db.refresh follows the commit.
CompleteRun(p) ==
    /\ InPipeline(p)
    /\ WriteStatus(RunOf(p), "completed")
    /\ Goto(p, "refresh", "completed")
    /\ UNCHANGED <<createdAt, claimedBy, late, bounds>>

\* The rule gate, the selection (no profile), its empty result, or a failed batch.
FailRun(p) ==
    /\ \/ At(p, "started")
       \/ At(p, "loading")
       \/ At(p, "selected") /\ ~Locked(RunOf(p))
    /\ WriteStatus(RunOf(p), "failed")
    /\ Goto(p, "finalize", "failed")
    /\ UNCHANGED <<createdAt, claimedBy, late, bounds>>

RefreshFinished(p) ==
    /\ At(p, "refresh")
    /\ Goto(p, "finalize", status[RunOf(p)])
    /\ UNCHANGED <<status, createdAt, claimedBy, late, bounds>>

\* _finalize_run of a run that belongs to no wave plan changes no status.
Finalize(p) ==
    /\ At(p, "finalize")
    /\ Release(p)
    /\ UNCHANGED <<status, createdAt, claimedBy, late, bounds>>

\* The process dies, or an exception escapes execute_run: the session closes.
Crash(p) ==
    /\ ~At(p, "idle")
    /\ crashes < MaxCrashes
    /\ Release(p)
    /\ crashes' = crashes + 1
    /\ UNCHANGED <<status, createdAt, claimedBy, late, resumes>>

-----------------------------------------------------------------------------

Execute(p) ==
    \/ Refresh(p) \/ Start(p) \/ SelectCandidates(p) \/ PipelineEvent(p)
    \/ CompleteRun(p) \/ FailRun(p) \/ RefreshFinished(p)

ApiStep(s) ==
    \/ \E r \in Runs : CreateRun(s, r) \/ ResumeRead(s, r)
    \/ Enqueue(s) \/ ResumeWrite(s)

ClaimAny(w) == \E r \in Runs : Claim(w, r)

Next ==
    \/ \E w \in Workers : ClaimAny(w)
    \/ \E s \in Sessions : ApiStep(s)
    \/ \E p \in Procs : Execute(p) \/ Finalize(p) \/ Crash(p)

Spec == Init /\ [][Next]_vars

\* The worker loop polls for ever, a request in flight is carried through, and a run
\* has finitely many batches, so that one that keeps going ends.  Nobody is obliged
\* to create or to resume a run, and a crashed process comes back idle.
Ends(p) == CompleteRun(p) \/ FailRun(p)
FairSpec ==
    /\ Spec
    /\ \A w \in Workers : WF_vars(ClaimAny(w))
    /\ \A s \in Sessions : WF_vars(Enqueue(s)) /\ WF_vars(ResumeWrite(s))
    /\ \A p \in Procs : WF_vars(Execute(p) \/ Finalize(p)) /\ SF_vars(Ends(p))

-----------------------------------------------------------------------------
(* Properties                                                               *)

TypeOK ==
    /\ status \in [Runs -> RunStatus \cup {"absent"}]
    /\ createdAt \in [Runs -> Nat]
    /\ claimedBy \in [Runs -> Workers \cup {Nobody}]
    /\ proc \in [Procs -> [pc : PC, run : Runs \cup {NoRun},
                           view : RunStatus \cup {"absent"}]]
    /\ late \subseteq Runs
    /\ resumes \in Nat

\* Worker replicas claim distinct runs without double-execution: no two processes,
\* workers or requests that execute a run themselves, are ever responsible for the
\* same run, unless a resume had queued it after it had moved on.
NoDoubleExecution ==
    \A r \in Runs \ late : \A p, q \in Procs : Executes(p, r) /\ Executes(q, r) => p = q

\* While a worker executes a run the committed status says so, so that no other
\* process may resume it, claim it or cancel it.
ExecutingIsRunning ==
    \A w \in Workers : \A r \in Runs \ late : Executes(w, r) => status[r] = "running"

\* A completed run is never taken up again, whatever workers and other requests do,
\* but by a resume that had read its status before it was executed and completed.
CompletedIsFinal ==
    [][\A r \in Runs \ late' : status[r] = "completed" => status'[r] = "completed"]_vars

\* Only failed or cancelled runs can be resumed: no resume puts a run back into the
\* queue that is being executed, or has completed, by then.
OnlyEndedAreResumed == late = {}

\* A run that says running while nobody executes it: no request accepts it and no
\* worker claims it any more.
Abandoned(r) == status[r] = "running" /\ \A p \in Procs : ~Executes(p, r)

\* Every queued run is claimed and executed to an end, whatever happens to the other
\* runs and workers, unless its own executor crashes.
QueuedRunEnds ==
    \A r \in Runs : status[r] = "queued" ~>
        status[r] \in {"completed", "failed"} \/ (crashes > 0 /\ Abandoned(r))

\* The queue as RunLifecycle sees it: the committed status and the one executor, or
\* none where a stale resume may have admitted several.
Executor(r) == IF r \notin late /\ \E p \in Procs : Executes(p, r)
               THEN CHOOSE p \in Procs : Executes(p, r) ELSE Nobody
Lifecycle == INSTANCE RunLifecycle WITH
    Executors <- Procs, state <- status, stray <- late,
    executor <- [r \in Runs |-> Executor(r)]

\* Claims, executions in a worker or in a request, crashes and resumes are the life of
\* a run that RunLifecycle promises, one executor at a time.
ImplementsLifecycle == Lifecycle!RSpec
=============================================================================

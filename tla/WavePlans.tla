-------------------------------- MODULE WavePlans --------------------------------
(***************************************************************************)
(* Wave programmes (waves/service.py) on top of the run queue: one plan    *)
(* creates a queued run per wave, every worker that finishes a wave's run  *)
(* updates the plan, and operators pause and resume the plan or resume a   *)
(* single run while workers are busy.                                      *)
(*                                                                         *)
(* A visit to the plan is a session that has read the plan's row and the   *)
(* rows of its runs and has not committed yet.  Nothing is locked between  *)
(* the two: the commit writes values computed from what was read, and only *)
(* the columns that differ from it (the ORM's unit of work).               *)
(***************************************************************************)
EXTENDS MigrationRuns, Functions

CONSTANTS
    TotalWaves,     \* wave_count of the plan
    Requests        \* what operators do here: "pause", "resume" (plan), "rerun" (run)

ASSUME WavesAssumption ==
    /\ TotalWaves \in Nat \ {0}
    /\ Requests \subseteq {"pause", "resume", "rerun"}

VARIABLES
    plan,       \* the row: status, waves_queued, waves_completed, waves_failed
    wave,       \* [Runs -> wave_number in run_config, 0 before INSERT]
    visit,      \* [Procs -> what the open session has read of the plan]
    revived,    \* the runs whose run_config has the key resume_from_checkpoint
    missed      \* history: the completed runs whose count is lost, or may be

waveVars == <<plan, wave, visit, revived, missed>>
allVars == <<vars, waveVars>>

Waves == 1 .. TotalWaves
PlanStatus == {"none", "active", "paused", "completed"}
NoPlan == [status |-> "none", queued |-> 0, completed |-> 0, failed |-> 0]
NoVisit == [op |-> "none", plan |-> NoPlan, runs |-> {}, waves |-> {}]

QueuedRuns == {r \in Runs : status[r] = "queued"}
RunsOfWave(n) == {r \in Runs : wave[r] = n}
Away(p) == visit[p].op = "none"
Free(s) == At(s, "idle") /\ Away(s)

WInit ==
    /\ Init
    /\ plan = NoPlan
    /\ wave = [r \in Runs |-> 0]
    /\ visit = [p \in Procs |-> NoVisit]
    /\ revived = {} /\ missed = {}

-----------------------------------------------------------------------------
(* _queue_wave_run: INSERT one queued run per wave, in one transaction, so  *)
(* that they all carry the transaction's now().                             *)

QueueWaveRuns(ws) ==
    LET absent == Runs \ Existing
        now == Cardinality(Existing) + 1
    IN  /\ Cardinality(ws) <= Cardinality(absent)
        /\ LET row == CHOOSE f \in Injection(ws, absent) : TRUE
               new == {row[n] : n \in ws}
           IN  /\ status' = [r \in Runs |-> IF r \in new THEN "queued" ELSE status[r]]
               /\ createdAt' = [r \in Runs |-> IF r \in new THEN now ELSE createdAt[r]]
               /\ wave' = [r \in Runs |-> IF r \in new
                                          THEN CHOOSE n \in ws : row[n] = r ELSE wave[r]]

\* POST /projects/{id}/waves: the plan and its runs are committed together.
CreatePlan(s) ==
    /\ Free(s)
    /\ plan.status = "none"
    /\ QueueWaveRuns(Waves)
    /\ plan' = [NoPlan EXCEPT !.status = "active", !.queued = TotalWaves]
    /\ UNCHANGED <<claimedBy, proc, late, bounds, visit, revived, missed>>

-----------------------------------------------------------------------------
(* Pausing: the queued runs that were read are cancelled, whatever they are *)
(* by then.                                                                 *)

Visit(p, op, runs, waves) ==
    visit' = [visit EXCEPT ![p] = [op |-> op, plan |-> plan, runs |-> runs, waves |-> waves]]
Leave(p) == visit' = [visit EXCEPT ![p] = NoVisit]

\* Mutation: the pause only cancels the runs of the first wave.
CancelFirstWave(runs) ==
    /\ \A r \in runs : ~Locked(r)
    /\ status' = [r \in Runs |-> IF r \in runs /\ wave[r] = 1 THEN "cancelled" ELSE status[r]]

CancelQueuedRuns(runs) ==
    /\ \A r \in runs : ~Locked(r)
    /\ status' = [r \in Runs |-> IF r \in runs THEN "cancelled" ELSE status[r]]

\* The status column is part of the UPDATE only if the session did not read "paused".
PausedStatus(seen) == IF seen.status = "paused" THEN plan.status ELSE "paused"

\* POST .../waves/{id}/pause, which accepts a plan in any status.
PauseRead(s) ==
    /\ "pause" \in Requests /\ resumes < MaxResumes
    /\ Free(s)
    /\ plan.status # "none"
    /\ Visit(s, "pause", QueuedRuns, {})
    /\ resumes' = resumes + 1
    /\ UNCHANGED <<status, createdAt, claimedBy, proc, late, crashes, plan, wave, revived, missed>>

PauseWrite(s) ==
    /\ visit[s].op = "pause"
    /\ CancelQueuedRuns(visit[s].runs)
    /\ plan' = [plan EXCEPT !.status = PausedStatus(visit[s].plan)]
    /\ Leave(s)
    /\ UNCHANGED <<createdAt, claimedBy, proc, late, bounds, wave, revived, missed>>

-----------------------------------------------------------------------------
(* Resuming the plan                                                        *)

\* Mutation: a completed run does not keep its wave from being queued again.
StalledRerunsCompleted(n) ==
    \A r \in RunsOfWave(n) : status[r] \notin {"queued", "running"}

\* The waves to queue again: beyond the number of completed ones, and with no run
\* that is queued, running or completed.
Stalled(n) ==
    /\ n > plan.completed
    /\ \A r \in RunsOfWave(n) : status[r] \notin {"queued", "running", "completed"}

\* POST .../waves/{id}/resume; any status but paused is refused with 400.
ResumePlanRead(s) ==
    /\ "resume" \in Requests /\ resumes < MaxResumes
    /\ Free(s)
    /\ plan.status = "paused"
    /\ Visit(s, "resume", {}, {n \in Waves : Stalled(n)})
    /\ resumes' = resumes + 1
    /\ UNCHANGED <<status, createdAt, claimedBy, proc, late, crashes, plan, wave, revived, missed>>

ResumePlanWrite(s) ==
    /\ visit[s].op = "resume"
    /\ QueueWaveRuns(visit[s].waves)
    /\ plan' = [plan EXCEPT !.status = "active",
                            !.queued = visit[s].plan.queued + Cardinality(visit[s].waves)]
    /\ Leave(s)
    /\ UNCHANGED <<claimedBy, proc, late, bounds, revived, missed>>

-----------------------------------------------------------------------------
(* on_run_finished, by the process that executed the run                    *)

\* A load stage succeeds only when no record failed, so that the failure percentage
\* of a run that did not fail is 0 and never above the plan's threshold.
RunFailed(p) == proc[p].view \in {"failed", "cancelled"}

\* A process that has yet to have its completed run counted, and does not come to it.
Finished(p) == proc[p].pc \in {"refresh", "finalize"} /\ ~RunFailed(p)
Miss(p) == missed' = IF Finished(p) THEN missed \cup {RunOf(p)} ELSE missed

\* A plan that is over is left alone.  The run's own row is not read again: the
\* session still has it as it ended, so it is never among the queued ones.
FinishRead(p) ==
    /\ At(p, "finalize") /\ Away(p)
    /\ IF plan.status = "completed"
       THEN Release(p) /\ Miss(p) /\ UNCHANGED visit
       ELSE Visit(p, "finish", QueuedRuns \ {RunOf(p)}, {}) /\ UNCHANGED <<proc, missed>>
    /\ UNCHANGED <<status, createdAt, claimedBy, late, bounds, plan, wave, revived>>

PauseFailed(p, failed) ==
    /\ visit[p].op = "finish" /\ RunFailed(p)
    /\ CancelQueuedRuns(visit[p].runs)
    /\ plan' = [plan EXCEPT !.failed = failed, !.status = PausedStatus(visit[p].plan)]
    /\ Leave(p) /\ Release(p)
    /\ UNCHANGED <<createdAt, claimedBy, late, bounds, wave, revived, missed>>

FinishFailed(p) == PauseFailed(p, visit[p].plan.failed + 1)

\* Another process that is about to count a run of its own has read the plan before.
Overwritten(p) == \E q \in Procs \ {p} : visit[q].op = "finish" /\ ~RunFailed(q)

CountCompleted(p, done) ==
    /\ visit[p].op = "finish" /\ ~RunFailed(p)
    /\ IF Overwritten(p) THEN Miss(p) ELSE UNCHANGED missed
    /\ plan' = [plan EXCEPT !.completed = done,
                            !.status = IF done >= TotalWaves THEN "completed" ELSE @]
    /\ Leave(p) /\ Release(p)
    /\ UNCHANGED <<status, createdAt, claimedBy, late, bounds, wave, revived>>

\* Mutation: a finished wave is not counted.
FinishUncounted(p) == CountCompleted(p, visit[p].plan.completed)
FinishCompleted(p) == CountCompleted(p, visit[p].plan.completed + 1)

\* A dying process loses its visit with its transaction.  (A pause or resume request
\* that dies before its commit has done nothing: that is the request not being made.)
CrashVisit(p) == Crash(p) /\ Leave(p) /\ Miss(p) /\ UNCHANGED <<plan, wave, revived>>

-----------------------------------------------------------------------------

Claims(w) == ClaimAny(w) /\ UNCHANGED waveVars
Executing(p) == Execute(p) /\ UNCHANGED waveVars
Finishing(p) == FinishRead(p) \/ FinishFailed(p) \/ FinishCompleted(p)

\* POST /runs/{id}/resume of one of the plan's runs leaves its mark in run_config.
Rerun(s) ==
    /\ Away(s)
    /\ \/ /\ "rerun" \in Requests
          /\ \E r \in Runs : ResumeRead(s, r)
          /\ UNCHANGED revived
       \/ ResumeWrite(s) /\ revived' = revived \cup {RunOf(s)}
    /\ UNCHANGED <<plan, wave, visit, missed>>

WNext ==
    \/ \E w \in Workers : Claims(w)
    \/ \E s \in Sessions :
          \/ CreatePlan(s) \/ PauseRead(s) \/ PauseWrite(s)
          \/ ResumePlanRead(s) \/ ResumePlanWrite(s) \/ Rerun(s)
    \/ \E p \in Procs : Executing(p) \/ Finishing(p) \/ CrashVisit(p)

WSpec == WInit /\ [][WNext]_allVars

\* Workers poll for ever and a run that keeps going ends; operators owe nothing.
WFairSpec ==
    /\ WSpec
    /\ \A w \in Workers : WF_allVars(Claims(w))
    /\ \A p \in Procs : /\ WF_allVars(Executing(p) \/ Finishing(p))
                        /\ SF_allVars(Ends(p) /\ UNCHANGED waveVars)

-----------------------------------------------------------------------------
(* Properties                                                               *)

PlanRow == [status : PlanStatus, queued : Nat, completed : Nat, failed : Nat]

WaveTypeOK ==
    /\ TypeOK
    /\ plan \in PlanRow
    /\ wave \in [Runs -> 0 .. TotalWaves]
    /\ visit \in [Procs -> [op : {"none", "pause", "resume", "finish"}, plan : PlanRow,
                            runs : SUBSET Runs, waves : SUBSET Waves]]
    /\ revived \subseteq Runs /\ missed \subseteq Runs

CompletedRuns == {r \in Runs : status[r] = "completed"}
AtRest == \A p \in Procs : ~At(p, "refresh") /\ ~At(p, "finalize")

\* waves_completed misses only completions whose process died before the plan was updated,
\* whose update another finishing process had read the plan before and overwrites, or
\* that came when the plan was over; and it counts nothing twice: it is not above the
\* number of runs that completed, some of which a pause has overwritten as cancelled,
\* unless an operator has had a single run executed again.
CountsCompletedRuns ==
    AtRest =>
        /\ Cardinality(CompletedRuns \ missed) <= plan.completed
        /\ \/ plan.completed <= Cardinality({r \in Runs : status[r] \in {"completed", "cancelled"}})
           \/ revived # {}

\* "n/N done" in the wave panel: while a fleet processes the runs in parallel, and nobody
\* is just finishing one, n is the number of runs that completed.
DoneAreShown == AtRest => plan.completed = Cardinality(CompletedRuns)

\* Pausing stops the programme: no run of a paused plan is waiting to be claimed,
\* but for runs that an operator has resumed by themselves.
PausedMeansDrained == plan.status = "paused" => QueuedRuns \subseteq revived

\* A plan that has started, and that nobody has resumed, is carried to its end: it
\* completes or is paused.
PlanSettles == plan.status = "active" /\ resumes = 0 ~> plan.status \in {"completed", "paused"}

\* The waves that have completed and the plan's status, as WaveProgramme sees them.
Programme == INSTANCE WaveProgramme WITH
    phase <- plan.status,
    done <- {n \in Waves : \E r \in RunsOfWave(n) : status[r] = "completed"}

\* A wave completes once, a completed wave stays completed, and the plan completes
\* when all its waves have.
ImplementsProgramme == Programme!PSpec
=============================================================================

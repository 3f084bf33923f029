----------------------------- MODULE WavePlansProofs -----------------------------
(***************************************************************************)
(* Proofs about WavePlans: its types, its pauses and its count of          *)
(* completed waves, for any number of waves, runs, workers, requests and   *)
(* crashes.                                                                *)
(***************************************************************************)
EXTENDS WavePlans, MigrationRunsProofs, FunctionTheorems

Ops == {"none", "pause", "resume", "finish"}
Visits == [op : Ops, plan : PlanRow, runs : SUBSET Runs, waves : SUBSET Waves]

WaveTyped ==
    /\ plan \in PlanRow
    /\ wave \in [Runs -> 0 .. TotalWaves]
    /\ visit \in [Procs -> Visits]
    /\ revived \subseteq Runs /\ missed \subseteq Runs

AllTyped == Typed /\ WaveTyped

-----------------------------------------------------------------------------
(* Types                                                                    *)

LEMMA VisitTyped ==
    ASSUME WaveTyped, NEW p \in Procs
    PROVE  /\ \A op \in Ops, rs \in SUBSET Runs, ws \in SUBSET Waves :
                 Visit(p, op, rs, ws) => visit' \in [Procs -> Visits]
           /\ Leave(p) => visit' \in [Procs -> Visits]
<1>1. NoVisit \in Visits
  BY DEF NoVisit, NoPlan, Visits, Ops, PlanRow, PlanStatus
<1>2. ASSUME NEW op \in Ops, NEW rs \in SUBSET Runs, NEW ws \in SUBSET Waves, Visit(p, op, rs, ws)
      PROVE  visit' \in [Procs -> Visits]
  BY <1>2 DEF Visit, WaveTyped, Visits
<1>3. Leave(p) => visit' \in [Procs -> Visits]
  BY <1>1 DEF Leave, WaveTyped
<1> QED
  BY <1>2, <1>3

\* What is read of the plan, and what is computed from it.
LEMMA SeenTyped ==
    ASSUME WaveTyped, NEW p \in Procs
    PROVE  /\ visit[p].plan \in PlanRow /\ visit[p].runs \subseteq Runs
           /\ visit[p].waves \subseteq Waves
           /\ PausedStatus(visit[p].plan) \in PlanStatus
           /\ visit[p].plan.queued + Cardinality(visit[p].waves) \in Nat
<1>1. visit[p] \in Visits /\ plan.status \in PlanStatus
  BY DEF WaveTyped, PlanRow
<1>2. visit[p].plan \in PlanRow /\ visit[p].runs \subseteq Runs /\ visit[p].waves \subseteq Waves
  BY <1>1 DEF Visits
<1>3. PausedStatus(visit[p].plan) \in PlanStatus
  BY <1>1 DEF PausedStatus, PlanStatus
<1>4. IsFiniteSet(visit[p].waves)
  <2>1. 1 \in Int /\ TotalWaves \in Int
    BY WavesAssumption
  <2>2. IsFiniteSet(Waves)
    BY <2>1, FS_Interval DEF Waves
  <2> QED
    BY <1>2, <2>2, FS_Subset
<1>5. visit[p].plan.queued + Cardinality(visit[p].waves) \in Nat
  BY <1>2, <1>4, FS_CardinalityType DEF PlanRow
<1> QED
  BY <1>2, <1>3, <1>5

\* New runs of a plan.
LEMMA QueueTyped ==
    ASSUME AllTyped, NEW ws \in SUBSET Waves, QueueWaveRuns(ws)
    PROVE  /\ status' \in [Runs -> RunStatus \cup {"absent"}]
           /\ createdAt' \in [Runs -> Nat]
           /\ wave' \in [Runs -> 0 .. TotalWaves]
<1> DEFINE absent == Runs \ Existing
           row == CHOOSE f \in Injection(ws, absent) : TRUE
           new == {row[n] : n \in ws}
           now == Cardinality(Existing) + 1
<1>1. /\ status' = [r \in Runs |-> IF r \in new THEN "queued" ELSE status[r]]
      /\ createdAt' = [r \in Runs |-> IF r \in new THEN now ELSE createdAt[r]]
      /\ wave' = [r \in Runs |-> IF r \in new THEN CHOOSE n \in ws : row[n] = r ELSE wave[r]]
  BY DEF QueueWaveRuns
<1>2. now \in Nat
  BY RunsAssumption, FS_Subset, FS_CardinalityType DEF Existing
<1> HIDE DEF now
<1>3. \A r \in new : (CHOOSE n \in ws : row[n] = r) \in 0 .. TotalWaves
  <2> HIDE DEF row
  <2> SUFFICES ASSUME NEW r \in new PROVE (CHOOSE n \in ws : row[n] = r) \in 0 .. TotalWaves
    OBVIOUS
  <2>1. \E n \in ws : row[n] = r
    OBVIOUS
  <2>2. (CHOOSE n \in ws : row[n] = r) \in Waves
    BY <2>1
  <2> QED
    BY <2>2, WavesAssumption DEF Waves
<1> HIDE DEF new
<1>4. /\ status \in [Runs -> RunStatus \cup {"absent"}] /\ createdAt \in [Runs -> Nat]
      /\ wave \in [Runs -> 0 .. TotalWaves]
  BY DEF AllTyped, Typed, TypeOK, WaveTyped
<1>5. status' \in [Runs -> RunStatus \cup {"absent"}]
  BY <1>1, <1>4 DEF RunStatus
<1>6. createdAt' \in [Runs -> Nat]
  BY <1>1, <1>2, <1>4
<1>7. wave' \in [Runs -> 0 .. TotalWaves]
  BY <1>1, <1>3, <1>4
<1> QED
  BY <1>5, <1>6, <1>7

LEMMA CancelTyped ==
    ASSUME Typed, NEW rs, CancelQueuedRuns(rs)
    PROVE  status' \in [Runs -> RunStatus \cup {"absent"}]
BY DEF Typed, TypeOK, CancelQueuedRuns, RunStatus

LEMMA AllTypedParts ==
    ASSUME status' \in [Runs -> RunStatus \cup {"absent"}], createdAt' \in [Runs -> Nat],
           claimedBy' \in [Runs -> Workers \cup {Nobody}],
           proc' \in [Procs -> Records], \A p \in Procs : ProcOK(p)', resumes' \in Nat,
           plan' \in PlanRow, wave' \in [Runs -> 0 .. TotalWaves],
           visit' \in [Procs -> Visits], revived' \subseteq Runs, missed' \subseteq Runs,
           late' \subseteq Runs
    PROVE  AllTyped'
BY DEF AllTyped, Typed, TypeOK, Records, WaveTyped

LEMMA WaveTypeStep == AllTyped /\ [WNext]_allVars => AllTyped'
<1> SUFFICES ASSUME AllTyped, [WNext]_allVars PROVE AllTyped'
  OBVIOUS
<1>0. /\ status \in [Runs -> RunStatus \cup {"absent"}] /\ createdAt \in [Runs -> Nat]
      /\ claimedBy \in [Runs -> Workers \cup {Nobody}] /\ resumes \in Nat
      /\ proc \in [Procs -> Records] /\ \A p \in Procs : ProcOK(p)
      /\ plan \in PlanRow /\ wave \in [Runs -> 0 .. TotalWaves]
      /\ visit \in [Procs -> Visits] /\ revived \subseteq Runs
      /\ missed \subseteq Runs /\ late \subseteq Runs
      /\ Typed /\ WaveTyped
  BY DEF AllTyped, Typed, TypeOK, Records, WaveTyped
<1>s. Workers \subseteq Procs /\ Sessions \subseteq Procs
  BY DEF Procs
<1>p. /\ UNCHANGED proc => proc' \in [Procs -> Records] /\ \A p \in Procs : ProcOK(p)'
      /\ UNCHANGED bounds => resumes' \in Nat
      /\ UNCHANGED late => late' \subseteq Runs
      /\ UNCHANGED missed => missed' \subseteq Runs
  BY <1>0 DEF bounds, ProcOK, At, RunOf
<1>z. \A p \in Procs : Miss(p) => missed' \subseteq Runs
  BY <1>0 DEF Miss, Finished, ProcOK, At, RunOf
<1>q. \A p \in Procs : Release(p) => proc' \in [Procs -> Records] /\ \A q \in Procs : ProcOK(q)'
  BY <1>0, MoveType
<1>m. ASSUME [Next]_vars, plan' \in PlanRow, wave' \in [Runs -> 0 .. TotalWaves],
             visit' \in [Procs -> Visits], revived' \subseteq Runs, missed' \subseteq Runs
      PROVE  AllTyped'
  BY <1>0, <1>m, TypeStep DEF AllTyped, WaveTyped
<1>1. ASSUME NEW w \in Workers, Claims(w) PROVE AllTyped'
  BY <1>0, <1>1, <1>m DEF Claims, waveVars, Next
<1>2. ASSUME NEW s \in Sessions, CreatePlan(s) PROVE AllTyped'
  <2>1. plan' \in PlanRow
    BY <1>2, WavesAssumption DEF CreatePlan, NoPlan, PlanRow, PlanStatus
  <2> QED
    BY <1>0, <1>2, <1>p, <2>1, QueueTyped, AllTypedParts DEF CreatePlan
<1>3. ASSUME NEW s \in Sessions, PauseRead(s) PROVE AllTyped'
  <2>1. visit' \in [Procs -> Visits]
    BY <1>0, <1>3, <1>s, VisitTyped DEF PauseRead, Ops, QueuedRuns
  <2>2. resumes' \in Nat
    BY <1>0, <1>3 DEF PauseRead
  <2> QED
    BY <1>0, <1>3, <1>p, <2>1, <2>2, AllTypedParts DEF PauseRead
<1>4. ASSUME NEW s \in Sessions, PauseWrite(s) PROVE AllTyped'
  <2>1. visit' \in [Procs -> Visits]
    BY <1>0, <1>4, <1>s, VisitTyped DEF PauseWrite
  <2>2. plan' \in PlanRow
    BY <1>0, <1>4, <1>s, SeenTyped DEF PauseWrite, PlanRow
  <2>3. status' \in [Runs -> RunStatus \cup {"absent"}]
    BY <1>0, <1>4, CancelTyped DEF PauseWrite
  <2> QED
    BY <1>0, <1>4, <1>p, <2>1, <2>2, <2>3, AllTypedParts DEF PauseWrite
<1>5. ASSUME NEW s \in Sessions, ResumePlanRead(s) PROVE AllTyped'
  <2>1. visit' \in [Procs -> Visits]
    BY <1>0, <1>5, <1>s, VisitTyped DEF ResumePlanRead, Ops
  <2>2. resumes' \in Nat
    BY <1>0, <1>5 DEF ResumePlanRead
  <2> QED
    BY <1>0, <1>5, <1>p, <2>1, <2>2, AllTypedParts DEF ResumePlanRead
<1>6. ASSUME NEW s \in Sessions, ResumePlanWrite(s) PROVE AllTyped'
  <2>1. visit' \in [Procs -> Visits]
    BY <1>0, <1>6, <1>s, VisitTyped DEF ResumePlanWrite
  <2>2. visit[s].plan.queued + Cardinality(visit[s].waves) \in Nat /\ visit[s].waves \in SUBSET Waves
    BY <1>0, <1>s, SeenTyped
  <2>3. plan' \in PlanRow
    BY <1>0, <1>6, <2>2 DEF ResumePlanWrite, PlanRow, PlanStatus
  <2>4. QueueWaveRuns(visit[s].waves)
    BY <1>6 DEF ResumePlanWrite
  <2> QED
    BY <1>0, <1>6, <1>p, <2>1, <2>2, <2>3, <2>4, QueueTyped, AllTypedParts DEF ResumePlanWrite
<1>7. ASSUME NEW s \in Sessions, Rerun(s) PROVE AllTyped'
  <2>1. CASE \E r \in Runs : ResumeRead(s, r) /\ UNCHANGED <<plan, wave, visit, revived, missed>>
    BY <1>0, <2>1, <1>m DEF Next, ApiStep
  <2>2. CASE ResumeWrite(s) /\ revived' = revived \cup {RunOf(s)} /\ UNCHANGED <<plan, wave, visit, missed>>
    <3>1. RunOf(s) \in Runs
      BY <1>0, <1>s, <2>2 DEF ResumeWrite, ProcOK, At
    <3> QED
      BY <1>0, <2>2, <3>1, <1>m DEF Next, ApiStep
  <2> QED
    BY <1>7, <2>1, <2>2 DEF Rerun
<1>8. ASSUME NEW p \in Procs, Executing(p) PROVE AllTyped'
  BY <1>0, <1>8, <1>m DEF Executing, waveVars, Next
<1>9. ASSUME NEW p \in Procs, FinishRead(p) PROVE AllTyped'
  <2>1. visit' \in [Procs -> Visits]
    <3>1. QueuedRuns \ {RunOf(p)} \in SUBSET Runs /\ {} \in SUBSET Waves /\ "finish" \in Ops
      BY DEF QueuedRuns, Ops
    <3>2. UNCHANGED visit \/ Visit(p, "finish", QueuedRuns \ {RunOf(p)}, {})
      BY <1>9 DEF FinishRead
    <3> QED
      BY <1>0, <3>1, <3>2, VisitTyped
  <2>2. missed' \subseteq Runs
    BY <1>9, <1>p, <1>z DEF FinishRead
  <2> QED
    BY <1>0, <1>9, <1>p, <1>q, <2>1, <2>2, AllTypedParts DEF FinishRead
<1>10. ASSUME NEW p \in Procs, FinishFailed(p) PROVE AllTyped'
  <2>1. visit' \in [Procs -> Visits]
    BY <1>0, <1>10, VisitTyped DEF FinishFailed, PauseFailed
  <2>2. plan' \in PlanRow
    <3>1. visit[p].plan.failed + 1 \in Nat /\ PausedStatus(visit[p].plan) \in PlanStatus
      BY <1>0, SeenTyped DEF PlanRow
    <3> QED
      BY <1>0, <1>10, <3>1 DEF FinishFailed, PauseFailed, PlanRow
  <2>3. status' \in [Runs -> RunStatus \cup {"absent"}]
    BY <1>0, <1>10, CancelTyped DEF FinishFailed, PauseFailed
  <2> QED
    BY <1>0, <1>10, <1>p, <1>q, <2>1, <2>2, <2>3, AllTypedParts DEF FinishFailed, PauseFailed
<1>11. ASSUME NEW p \in Procs, FinishCompleted(p) PROVE AllTyped'
  <2>1. visit' \in [Procs -> Visits]
    BY <1>0, <1>11, VisitTyped DEF FinishCompleted, CountCompleted
  <2>2. plan' \in PlanRow
    <3>1. visit[p].plan.completed + 1 \in Nat
      BY <1>0, SeenTyped DEF PlanRow
    <3> QED
      BY <1>0, <1>11, <3>1 DEF FinishCompleted, CountCompleted, PlanRow, PlanStatus
  <2>3. missed' \subseteq Runs
    BY <1>11, <1>p, <1>z DEF FinishCompleted, CountCompleted
  <2> QED
    BY <1>0, <1>11, <1>p, <1>q, <2>1, <2>2, <2>3, AllTypedParts DEF FinishCompleted, CountCompleted
<1>12. ASSUME NEW p \in Procs, CrashVisit(p) PROVE AllTyped'
  <2>1. visit' \in [Procs -> Visits]
    BY <1>0, <1>12, VisitTyped DEF CrashVisit
  <2> QED
    BY <1>0, <1>12, <1>m, <1>z, <2>1 DEF CrashVisit, Next
<1>13. CASE UNCHANGED allVars
  BY <1>0, <1>13, <1>m DEF allVars, waveVars
<1> QED
  BY <1>1, <1>2, <1>3, <1>4, <1>5, <1>6, <1>7, <1>8, <1>9, <1>10, <1>11, <1>12, <1>13
     DEF WNext, Finishing

LEMMA WaveTypeInit == WInit => AllTyped
BY WavesAssumption, RunsAssumption DEF WInit, Init, AllTyped, Typed, TypeOK, ProcOK, At, RunOf, Idle,
   PC, RunStatus, WaveTyped, NoPlan, PlanRow, PlanStatus, NoVisit, Visits, Ops

LEMMA AlwaysAllTyped == WSpec => []AllTyped
BY WaveTypeInit, WaveTypeStep, PTL DEF WSpec

\* The plan, the runs and the sessions on them keep their types.
THEOREM WaveTypes == WSpec => []WaveTypeOK
<1>1. AllTyped => WaveTypeOK
  BY DEF AllTyped, Typed, WaveTyped, WaveTypeOK, Visits, Ops
<1> QED
  BY <1>1, AlwaysAllTyped, PTL

-----------------------------------------------------------------------------
(* Pausing                                                                  *)

\* Operators pause the plan and resume single runs, but do not resume the plan.
NoPlanResume == "resume" \notin Requests

\* Whatever is still queued a session that is going to pause has seen, or was resumed.
Sees(p) ==
    /\ visit[p].op # "resume"
    /\ ~Away(p) => QueuedRuns \subseteq visit[p].runs \cup revived

\* The run of a busy process is not queued, unless it was resumed.
Holds(p) == ~At(p, "idle") /\ RunOf(p) \in QueuedRuns => RunOf(p) \in revived

Unplanned ==
    plan.status = "none" =>
        /\ \A r \in Runs : status[r] = "absent"
        /\ \A p \in Procs : At(p, "idle") /\ Away(p)

Drained ==
    /\ Unplanned /\ PausedMeansDrained
    /\ \A p \in Procs : Sees(p) /\ Holds(p)

\* The steps after which only runs that were queued before, or resumed, are queued.
QueueShrinks == QueuedRuns' \subseteq QueuedRuns \cup revived' /\ revived \subseteq revived'

\* A visit that goes on, or ends.
VisitsEnd == \A p \in Procs : visit'[p] = visit[p] \/ visit'[p] = NoVisit

\* A process goes on with its run, is idle, or takes a run that is queued no more.
RunsHeld ==
    \A p \in Procs :
        \/ proc'[p].pc = "idle"
        \/ proc[p].pc # "idle" /\ proc'[p].run = proc[p].run
        \/ proc'[p].run \notin QueuedRuns'

PlanStays == plan.status # "none" /\ plan'.status # "none"
             /\ (plan'.status = "paused" => plan.status = "paused" \/ QueuedRuns' \subseteq revived')

LEMMA SeesStays ==
    ASSUME QueueShrinks, VisitsEnd, NEW p \in Procs, Sees(p)
    PROVE  Sees(p)'
<1>1. CASE visit'[p] = visit[p]
  BY <1>1 DEF Sees, QueueShrinks, Away
<1>2. CASE visit'[p] = NoVisit
  BY <1>2 DEF Sees, NoVisit, Away
<1> QED
  BY <1>1, <1>2 DEF VisitsEnd

LEMMA HoldsStays ==
    ASSUME QueueShrinks, RunsHeld, NEW p \in Procs, Holds(p)
    PROVE  Holds(p)'
<1>1. CASE proc'[p].pc = "idle"
  BY <1>1 DEF Holds, At
<1>2. CASE proc[p].pc # "idle" /\ proc'[p].run = proc[p].run
  BY <1>2 DEF Holds, At, RunOf, QueueShrinks
<1>3. CASE proc'[p].run \notin QueuedRuns'
  BY <1>3 DEF Holds, RunOf
<1> QED
  BY <1>1, <1>2, <1>3 DEF RunsHeld

LEMMA PausedStays ==
    ASSUME PausedMeansDrained, QueueShrinks, PlanStays
    PROVE  Unplanned' /\ PausedMeansDrained'
BY DEF PausedMeansDrained, QueueShrinks, PlanStays, Unplanned

LEMMA DrainedStays ==
    ASSUME Drained, QueueShrinks, VisitsEnd, RunsHeld, PlanStays
    PROVE  Drained'
BY SeesStays, HoldsStays, PausedStays DEF Drained

\* The steps of MigrationRuns that are taken here.
LEMMA RunSteps ==
    ASSUME AllTyped, NEW p \in Procs, Execute(p)
    PROVE  QueuedRuns' \subseteq QueuedRuns /\ RunsHeld /\ ~At(p, "idle")
<1>0. /\ status \in [Runs -> RunStatus \cup {"absent"}] /\ proc \in [Procs -> Records]
  BY DEF AllTyped, Typed, TypeOK, Records
<1>1. ASSUME NEW point, NEW v, Goto(p, point, v), ~At(p, "idle") PROVE RunsHeld
  BY <1>0, <1>1 DEF Goto, RunsHeld, At, RunOf
<1>2. ~At(p, "idle")
  BY DEF Execute, Refresh, Start, SelectCandidates, PipelineEvent, CompleteRun, FailRun,
         RefreshFinished, InPipeline, At, Locking
<1>3. RunsHeld
  BY <1>1, <1>2 DEF Execute, Refresh, Start, SelectCandidates, PipelineEvent, CompleteRun,
         FailRun, RefreshFinished
<1>4. QueuedRuns' \subseteq QueuedRuns
  BY <1>0 DEF Execute, Refresh, Start, SelectCandidates, PipelineEvent, CompleteRun,
         FailRun, RefreshFinished, WriteStatus, QueuedRuns
<1> QED
  BY <1>2, <1>3, <1>4

LEMMA CancelledRuns ==
    ASSUME AllTyped, NEW p \in Procs, Sees(p), ~Away(p), CancelQueuedRuns(visit[p].runs)
    PROVE  QueuedRuns' \subseteq QueuedRuns \cap revived
BY DEF AllTyped, Typed, TypeOK, CancelQueuedRuns, QueuedRuns, Sees

LEMMA LeavingEnds ==
    ASSUME AllTyped, NEW p \in Procs
    PROVE  /\ Leave(p) => VisitsEnd
           /\ Release(p) => RunsHeld
           /\ UNCHANGED visit => VisitsEnd
           /\ UNCHANGED proc => RunsHeld
<1>0. proc \in [Procs -> Records] /\ visit \in [Procs -> Visits]
  BY DEF AllTyped, Typed, TypeOK, Records, WaveTyped
<1>1. Leave(p) => VisitsEnd
  BY <1>0 DEF Leave, VisitsEnd
<1>2. Release(p) => RunsHeld
  BY <1>0 DEF Release, RunsHeld, Idle
<1>3. UNCHANGED visit => VisitsEnd
  BY DEF VisitsEnd
<1>4. UNCHANGED proc => RunsHeld
  BY DEF RunsHeld
<1> QED
  BY <1>1, <1>2, <1>3, <1>4

\* A session that has just read what is queued.
LEMMA VisitSees ==
    ASSUME AllTyped, Drained, NEW p \in Procs, NEW op \in {"pause", "finish"},
           NEW rs \in SUBSET Runs, Visit(p, op, rs, {}), QueuedRuns \subseteq rs \cup revived,
           UNCHANGED <<status, plan, proc, revived>>, plan.status # "none"
    PROVE  Drained'
<1>0. visit \in [Procs -> Visits]
  BY DEF AllTyped, WaveTyped
<1>1. \A q \in Procs \ {p} : visit'[q] = visit[q]
  BY <1>0 DEF Visit
<1>2. visit'[p].op = op /\ visit'[p].runs = rs
  BY <1>0 DEF Visit
<1>3. QueuedRuns' = QueuedRuns
  BY DEF QueuedRuns
<1>4. \A q \in Procs : Sees(q)'
  BY <1>1, <1>2, <1>3 DEF Drained, Sees, Away
<1>5. \A q \in Procs : Holds(q)'
  BY <1>3 DEF Drained, Holds, At, RunOf
<1> QED
  BY <1>3, <1>4, <1>5 DEF Drained, Unplanned, PausedMeansDrained

LEMMA DrainedStep ==
    ASSUME NoPlanResume
    PROVE  AllTyped /\ Drained /\ [WNext]_allVars => Drained'
<1> SUFFICES ASSUME AllTyped, Drained, [WNext]_allVars PROVE Drained'
  OBVIOUS
<1>0. /\ status \in [Runs -> RunStatus \cup {"absent"}] /\ proc \in [Procs -> Records]
      /\ visit \in [Procs -> Visits] /\ plan \in PlanRow
      /\ \A p \in Procs : ProcOK(p)
  BY DEF AllTyped, Typed, TypeOK, Records, WaveTyped
<1>s. Workers \subseteq Procs /\ Sessions \subseteq Procs
  BY DEF Procs
<1>u. Unplanned /\ PausedMeansDrained /\ \A p \in Procs : Sees(p) /\ Holds(p)
  BY DEF Drained
<1>n. (\E p \in Procs : ~At(p, "idle") \/ ~Away(p)) \/ (\E r \in Runs : status[r] # "absent")
        => plan.status # "none"
  BY <1>u DEF Unplanned
<1>p. plan' = plan /\ plan.status # "none" => PlanStays
  BY DEF PlanStays
<1>1. ASSUME NEW w \in Workers, Claims(w) PROVE Drained'
  <2>1. PICK r \in Runs : Claim(w, r)
    BY <1>1 DEF Claims, ClaimAny
  <2>2. status[r] = "queued" /\ UNCHANGED <<plan, wave, visit, revived, missed>>
    BY <1>1, <2>1 DEF Claims, waveVars, Claim, Claimable
  <2>3. QueuedRuns' \subseteq QueuedRuns /\ r \notin QueuedRuns'
    BY <1>0, <2>1 DEF Claim, WriteStatus, QueuedRuns
  <2>4. RunsHeld
    BY <1>0, <2>1, <2>3 DEF Claim, RunsHeld
  <2> QED
    BY <1>n, <1>p, <1>s, <2>2, <2>3, <2>4, DrainedStays, LeavingEnds DEF QueueShrinks
<1>2. ASSUME NEW s \in Sessions, CreatePlan(s) PROVE Drained'
  <2>1. plan.status = "none" /\ plan'.status = "active" /\ UNCHANGED <<proc, visit, revived>>
    BY <1>2 DEF CreatePlan, NoPlan
  <2>2. \A p \in Procs : At(p, "idle")' /\ visit'[p].op = "none"
    BY <1>u, <2>1 DEF Unplanned, At, Away
  <2> QED
    BY <2>1, <2>2 DEF Drained, Unplanned, PausedMeansDrained, Sees, Holds, Away
<1>3. ASSUME NEW s \in Sessions, PauseRead(s) PROVE Drained'
  <2>1. QueuedRuns \in SUBSET Runs
    BY DEF QueuedRuns
  <2> QED
    BY <1>3, <1>s, <2>1, VisitSees DEF PauseRead
<1>4. ASSUME NEW s \in Sessions, PauseWrite(s) PROVE Drained'
  <2>1. ~Away(s) /\ plan.status # "none"
    BY <1>4, <1>n, <1>s DEF PauseWrite, Away
  <2>2. QueuedRuns' \subseteq QueuedRuns \cap revived
    BY <1>4, <1>s, <1>u, <2>1, CancelledRuns DEF PauseWrite
  <2>3. plan'.status \in {plan.status, "paused"}
    BY <1>0, <1>4 DEF PauseWrite, PausedStatus, PlanRow
  <2>4. UNCHANGED <<proc, revived>> /\ Leave(s)
    BY <1>4 DEF PauseWrite
  <2>5. PlanStays
    BY <2>1, <2>2, <2>3, <2>4 DEF PlanStays
  <2> QED
    BY <1>s, <2>2, <2>4, <2>5, DrainedStays, LeavingEnds DEF QueueShrinks
<1>5. ASSUME NEW s \in Sessions, ResumePlanRead(s) \/ ResumePlanWrite(s) PROVE Drained'
  BY <1>5, <1>s, <1>u DEF ResumePlanRead, ResumePlanWrite, NoPlanResume, Sees
<1>6. ASSUME NEW s \in Sessions, Rerun(s) PROVE Drained'
  <2>0. UNCHANGED <<plan, wave, visit, missed>>
    BY <1>6 DEF Rerun
  <2>1. ASSUME NEW r \in Runs, ResumeRead(s, r), UNCHANGED revived PROVE Drained'
    <3>1. status[r] \in {"failed", "cancelled"} /\ status' = status
      BY <2>1 DEF ResumeRead, ReadForResume
    <3>2. QueuedRuns' = QueuedRuns /\ r \notin QueuedRuns
      BY <3>1 DEF QueuedRuns
    <3>3. RunsHeld
      BY <1>0, <2>1, <3>2 DEF ResumeRead, ReadForResume, RunsHeld
    <3> QED
      BY <1>n, <1>p, <1>s, <2>0, <2>1, <3>1, <3>2, <3>3, DrainedStays, LeavingEnds DEF QueueShrinks
  <2>2. ASSUME ResumeWrite(s), revived' = revived \cup {RunOf(s)} PROVE Drained'
    <3>1. ~At(s, "idle") /\ (Release(s) \/ Goto(s, "claimed", "queued"))
      BY <2>2 DEF ResumeWrite, At
    <3>2. RunsHeld
      BY <1>0, <1>s, <3>1, LeavingEnds DEF Goto, RunsHeld, At, RunOf
    <3>3. QueueShrinks
      BY <1>0, <2>2 DEF ResumeWrite, WriteStatus, QueuedRuns, QueueShrinks
    <3> QED
      BY <1>n, <1>p, <1>s, <2>0, <3>1, <3>2, <3>3, DrainedStays, LeavingEnds
  <2> QED
    BY <1>6, <2>1, <2>2 DEF Rerun
<1>7. ASSUME NEW p \in Procs, Executing(p) PROVE Drained'
  BY <1>7, <1>n, <1>p, RunSteps, DrainedStays, LeavingEnds DEF Executing, waveVars, QueueShrinks
<1>8. ASSUME NEW p \in Procs, FinishRead(p) PROVE Drained'
  <2>0. At(p, "finalize") /\ UNCHANGED <<status, plan, revived>> /\ QueuedRuns' = QueuedRuns
    BY <1>8 DEF FinishRead, QueuedRuns
  <2>1. ~At(p, "idle") /\ plan.status # "none"
    BY <1>n, <2>0 DEF At
  <2>2. CASE plan.status = "completed"
    BY <1>8, <1>p, <2>0, <2>1, <2>2, DrainedStays, LeavingEnds DEF FinishRead, QueueShrinks
  <2>3. CASE plan.status # "completed"
    <3>1. QueuedRuns \ {RunOf(p)} \in SUBSET Runs
      BY DEF QueuedRuns
    <3>2. QueuedRuns \subseteq (QueuedRuns \ {RunOf(p)}) \cup revived
      BY <1>u, <2>1 DEF Holds
    <3>3. Visit(p, "finish", QueuedRuns \ {RunOf(p)}, {}) /\ UNCHANGED proc
      BY <1>8, <2>3 DEF FinishRead
    <3> QED
      BY <2>0, <2>1, <3>1, <3>2, <3>3, VisitSees
  <2> QED
    BY <2>2, <2>3
<1>9. ASSUME NEW p \in Procs, FinishFailed(p) PROVE Drained'
  <2>1. ~Away(p) /\ plan.status # "none"
    BY <1>9, <1>n DEF FinishFailed, PauseFailed, Away
  <2>2. QueuedRuns' \subseteq QueuedRuns \cap revived
    BY <1>9, <1>u, <2>1, CancelledRuns DEF FinishFailed, PauseFailed
  <2>3. plan'.status \in {plan.status, "paused"}
    BY <1>0, <1>9 DEF FinishFailed, PauseFailed, PausedStatus, PlanRow
  <2>4. UNCHANGED revived /\ Leave(p) /\ Release(p)
    BY <1>9 DEF FinishFailed, PauseFailed
  <2>5. PlanStays
    BY <2>1, <2>2, <2>3, <2>4 DEF PlanStays
  <2> QED
    BY <2>2, <2>4, <2>5, DrainedStays, LeavingEnds DEF QueueShrinks
<1>10. ASSUME NEW p \in Procs, FinishCompleted(p) PROVE Drained'
  <2>1. ~Away(p) /\ plan.status # "none"
    BY <1>10, <1>n DEF FinishCompleted, CountCompleted, Away
  <2>2. plan'.status \in {plan.status, "completed"}
    BY <1>0, <1>10 DEF FinishCompleted, CountCompleted, PlanRow
  <2>3. UNCHANGED <<status, revived>> /\ Leave(p) /\ Release(p) /\ QueuedRuns' = QueuedRuns
    BY <1>10 DEF FinishCompleted, CountCompleted, QueuedRuns
  <2>4. PlanStays
    BY <2>1, <2>2 DEF PlanStays
  <2> QED
    BY <2>3, <2>4, DrainedStays, LeavingEnds DEF QueueShrinks
<1>11. ASSUME NEW p \in Procs, CrashVisit(p) PROVE Drained'
  <2>1. ~At(p, "idle") /\ Release(p) /\ Leave(p) /\ UNCHANGED <<status, plan, revived>>
        /\ QueuedRuns' = QueuedRuns
    BY <1>11 DEF CrashVisit, Crash, QueuedRuns
  <2> QED
    BY <1>n, <1>p, <2>1, DrainedStays, LeavingEnds DEF QueueShrinks
<1>12. CASE UNCHANGED allVars
  BY <1>12, <1>u DEF allVars, vars, waveVars, Drained, Unplanned, PausedMeansDrained, Sees, Holds,
     QueuedRuns, At, Away, RunOf
<1> QED
  BY <1>1, <1>2, <1>3, <1>4, <1>5, <1>6, <1>7, <1>8, <1>9, <1>10, <1>11, <1>12
     DEF WNext, Finishing

LEMMA DrainedInit == WInit => Drained
BY DEF WInit, Init, Drained, Unplanned, PausedMeansDrained, Sees, Holds, At, Away, Idle, NoPlan, NoVisit

\* Pausing stops the programme, in any fleet and through crashes: whoever pauses it, no run
\* of the paused plan is left to be claimed, but those an operator resumed by themselves.
THEOREM PauseDrains ==
    ASSUME NoPlanResume
    PROVE  WSpec => []PausedMeansDrained
<1>1. AllTyped /\ Drained /\ [WNext]_allVars => (AllTyped /\ Drained)'
  BY WaveTypeStep, DrainedStep
<1>2. WInit => AllTyped /\ Drained
  BY WaveTypeInit, DrainedInit
<1>3. Drained => PausedMeansDrained
  BY DEF Drained
<1> QED
  BY <1>1, <1>2, <1>3, PTL DEF WSpec

-----------------------------------------------------------------------------
(* Counting: what a step does, as far as the count is concerned             *)

\* Nobody but p moves.
Alone(p) == \A q \in Procs \ {p} : proc'[q] = proc[q] /\ visit'[q] = visit[q]
Uncounted == UNCHANGED <<plan, missed, revived>>

\* A run is claimed.
Takes(p) ==
    /\ At(p, "idle") /\ proc'[p].pc = "claimed" /\ visit'[p] = visit[p] /\ Uncounted
    /\ \E r \in Runs : /\ status[r] = "queued" /\ proc'[p].run = r
                       /\ status' = [status EXCEPT ![r] = "running"]

\* A step of an execution: it goes on, completes, fails, or reads the outcome again.
Continues(p) ==
    /\ proc[p].pc \in Engaged /\ proc'[p].pc \in Engaged
    /\ status' \in {status, [status EXCEPT ![RunOf(p)] = "running"]}
Completes(p) ==
    /\ proc[p].pc \in Engaged /\ proc'[p].pc = "refresh" /\ proc'[p].view = "completed"
    /\ status' = [status EXCEPT ![RunOf(p)] = "completed"]
Fails(p) ==
    /\ proc[p].pc \in Engaged /\ proc'[p].pc = "finalize" /\ proc'[p].view = "failed"
    /\ status' = [status EXCEPT ![RunOf(p)] = "failed"]
Returns(p) ==
    /\ At(p, "refresh") /\ proc'[p].pc = "finalize" /\ proc'[p].view = status[RunOf(p)]
    /\ status' = status
Advances(p) ==
    /\ Continues(p) \/ Completes(p) \/ Fails(p) \/ Returns(p)
    /\ proc'[p].run = RunOf(p) /\ RunOf(p) \in Runs
    /\ visit'[p] = visit[p] /\ Uncounted

\* An operator's request about the plan: rows are queued or cancelled.
Asks(p) ==
    /\ proc'[p] = proc[p] /\ visit[p].op # "finish" /\ visit'[p].op # "finish"
    /\ \A r \in Runs : \/ status'[r] \in {status[r], "cancelled"}
                       \/ status[r] = "absent" /\ status'[r] = "queued"
    /\ \/ plan'.completed = plan.completed
       \/ plan.status = "none" /\ plan'.completed = 0
    /\ UNCHANGED <<missed, revived>>

\* An operator's request about one run: it is read, and queued again.
Looks(p) ==
    /\ At(p, "idle") /\ proc'[p].pc = "resuming"
    /\ status' = status /\ visit'[p] = visit[p] /\ Uncounted
Revives(p) ==
    /\ At(p, "resuming") /\ proc'[p].pc \in {"idle", "claimed"}
    /\ status' = [status EXCEPT ![RunOf(p)] = "queued"]
    /\ visit'[p] = visit[p] /\ UNCHANGED <<plan, missed>> /\ revived' # {}

\* The process that executed the run reads the plan, leaves without counting, or counts.
Reads(p) ==
    /\ At(p, "finalize") /\ proc'[p] = proc[p] /\ status' = status
    /\ visit'[p].op = "finish" /\ visit'[p].plan = plan /\ Uncounted
Drops(p) ==
    /\ proc'[p].pc = "idle" /\ visit'[p].op = "none"
    /\ \A r \in Runs : status'[r] \in {status[r], "cancelled"}
    /\ plan'.completed = plan.completed /\ revived' = revived
    /\ missed \subseteq missed' /\ (Finished(p) => RunOf(p) \in missed')
Counts(p) ==
    /\ visit[p].op = "finish" /\ ~RunFailed(p) /\ proc'[p].pc = "idle" /\ visit'[p].op = "none"
    /\ plan'.completed = visit[p].plan.completed + 1 /\ UNCHANGED <<status, revived>>
    /\ missed \subseteq missed'
    /\ Overwritten(p) /\ Finished(p) => RunOf(p) \in missed'

Kinds(p) ==
    \/ Takes(p) \/ Advances(p) \/ Asks(p) \/ Looks(p) \/ Revives(p)
    \/ Reads(p) \/ Drops(p) \/ Counts(p)

LEMMA Functions ==
    ASSUME AllTyped
    PROVE  /\ status \in [Runs -> RunStatus \cup {"absent"}]
           /\ proc \in [Procs -> Records] /\ visit \in [Procs -> Visits]
           /\ plan \in PlanRow /\ Workers \subseteq Procs /\ Sessions \subseteq Procs
           /\ \A p \in Procs : ~At(p, "idle") => RunOf(p) \in Runs
BY DEF AllTyped, Typed, TypeOK, Records, WaveTyped, ProcOK, Procs

\* There is a row for each wave that is queued.
LEMMA RowsFit ==
    ASSUME NEW ws, NEW rs, IsFiniteSet(ws), IsFiniteSet(rs), Cardinality(ws) <= Cardinality(rs)
    PROVE  Injection(ws, rs) # {}
<1> DEFINE n == Cardinality(ws)
           m == Cardinality(rs)
<1>1. n \in Nat /\ m \in Nat /\ ExistsBijection(1 .. n, ws) /\ ExistsBijection(1 .. m, rs)
  BY FS_CardinalityType
<1>2. ExistsInjection(ws, 1 .. n) /\ ExistsInjection(1 .. m, rs)
  BY <1>1, Fun_ExistsBijEquiv
<1>3. ExistsInjection(1 .. n, 1 .. m)
  <2>1. [i \in 1 .. n |-> i] \in Injection(1 .. n, 1 .. m)
    BY <1>1 DEF Injection, IsInjective
  <2> QED
    BY <2>1, Fun_ExistsInj
<1>4. ExistsInjection(ws, 1 .. m)
  BY <1>2, <1>3, Fun_ExistsInjTransitive
<1>5. ExistsInjection(ws, rs)
  BY <1>2, <1>4, Fun_ExistsInjTransitive
<1> QED
  BY <1>5, Fun_ExistsInj

\* Queueing waves turns absent rows into queued runs.
LEMMA NewRuns ==
    ASSUME NEW ws \in SUBSET Waves, QueueWaveRuns(ws)
    PROVE  \A r \in Runs : \/ status'[r] = status[r]
                           \/ status[r] = "absent" /\ status'[r] = "queued"
<1> DEFINE absent == Runs \ Existing
           row == CHOOSE f \in Injection(ws, absent) : TRUE
           new == {row[n] : n \in ws}
<1>1. /\ status' = [r \in Runs |-> IF r \in new THEN "queued" ELSE status[r]]
      /\ Cardinality(ws) <= Cardinality(absent)
  BY DEF QueueWaveRuns
<1>2. row \in Injection(ws, absent)
  <2>1. IsFiniteSet(ws)
    <3>1. 1 \in Int /\ TotalWaves \in Int
      BY WavesAssumption
    <3> QED
      BY <3>1, FS_Interval, FS_Subset DEF Waves
  <2>2. IsFiniteSet(absent)
    BY RunsAssumption, FS_Subset
  <2>3. Injection(ws, absent) # {}
    BY <1>1, <2>1, <2>2, RowsFit
  <2> QED
    BY <2>3
<1>3. \A n \in ws : row[n] \in absent
  BY <1>2 DEF Injection
<1> HIDE DEF row
<1>4. \A r \in new : status[r] = "absent"
  BY <1>3 DEF Existing
<1> QED
  BY <1>1, <1>4

\* A step of an execution is one of the four.
LEMMA ExecutionSteps ==
    ASSUME AllTyped, NEW p \in Procs, Executing(p)
    PROVE  Advances(p) /\ Alone(p)
<1> DEFINE Kind == Continues(p) \/ Completes(p) \/ Fails(p) \/ Returns(p)
<1>0. /\ status \in [Runs -> RunStatus \cup {"absent"}] /\ proc \in [Procs -> Records]
  BY Functions
<1>1. Execute(p) /\ UNCHANGED visit /\ Uncounted
  BY DEF Executing, waveVars, Uncounted
<1>2. ASSUME NEW point, NEW v, Goto(p, point, v)
      PROVE  /\ proc'[p].pc = point /\ proc'[p].run = RunOf(p) /\ proc'[p].view = v
             /\ \A q \in Procs \ {p} : proc'[q] = proc[q]
  BY <1>0, <1>2 DEF Goto
<1>3. RunOf(p) \in Runs
  BY <1>1, RunSteps, Functions
<1>4. \E point, v : Goto(p, point, v)
  BY <1>1 DEF Execute, Refresh, Start, SelectCandidates, PipelineEvent, CompleteRun, FailRun,
     RefreshFinished
<1>5. ASSUME Refresh(p) \/ Start(p) \/ PipelineEvent(p) PROVE Kind
  <2>1. PICK point \in {"ready", "started", "loading"} : \E v : Goto(p, point, v)
    BY <1>5 DEF Refresh, Start, PipelineEvent
  <2>2. proc'[p].pc \in Engaged
    BY <1>2, <2>1 DEF Engaged
  <2> QED
    BY <1>5, <2>2 DEF Refresh, Start, PipelineEvent, Continues, Engaged, At
<1>6. ASSUME SelectCandidates(p) PROVE Kind
  <2>1. Goto(p, "selected", "running")
    BY <1>6 DEF SelectCandidates
  <2>2. proc'[p].pc = "selected"
    BY <1>2, <2>1
  <2> QED
    BY <1>6, <2>2 DEF SelectCandidates, Locking, Continues, Engaged
<1>7. ASSUME CompleteRun(p) PROVE Kind
  <2>1. Goto(p, "refresh", "completed")
    BY <1>7 DEF CompleteRun
  <2>2. proc'[p].pc = "refresh" /\ proc'[p].view = "completed"
    BY <1>2, <2>1
  <2> QED
    BY <1>7, <2>2 DEF CompleteRun, InPipeline, WriteStatus, Completes, Engaged, At
<1>8. ASSUME FailRun(p) PROVE Kind
  <2>1. Goto(p, "finalize", "failed")
    BY <1>8 DEF FailRun
  <2>2. proc'[p].pc = "finalize" /\ proc'[p].view = "failed"
    BY <1>2, <2>1
  <2> QED
    BY <1>8, <2>2 DEF FailRun, WriteStatus, Fails, Engaged, At
<1>9. ASSUME RefreshFinished(p) PROVE Kind
  <2>1. Goto(p, "finalize", status[RunOf(p)])
    BY <1>9 DEF RefreshFinished
  <2>2. proc'[p].pc = "finalize" /\ proc'[p].view = status[RunOf(p)]
    BY <1>2, <2>1
  <2> QED
    BY <1>9, <2>2 DEF RefreshFinished, Returns, At
<1>10. Kind
  BY <1>1, <1>5, <1>6, <1>7, <1>8, <1>9 DEF Execute
<1> QED
  BY <1>1, <1>2, <1>3, <1>4, <1>10 DEF Advances, Alone

\* A session that leaves the plan, or gives up its run too, is the only one that moves.
LEMMA LeavesAlone ==
    ASSUME AllTyped, NEW p \in Procs, Leave(p)
    PROVE  /\ visit'[p].op = "none"
           /\ UNCHANGED proc => Alone(p) /\ proc'[p] = proc[p]
           /\ Release(p) => Alone(p) /\ proc'[p].pc = "idle"
BY Functions DEF Leave, Release, NoVisit, Idle, Alone

LEMMA VisitsAlone ==
    ASSUME AllTyped, NEW p \in Procs, NEW op, NEW rs, NEW ws, Visit(p, op, rs, ws), UNCHANGED proc
    PROVE  Alone(p) /\ visit'[p].op = op /\ visit'[p].plan = plan /\ proc'[p] = proc[p]
BY Functions DEF Visit, Alone

LEMMA CancelsOnly ==
    ASSUME NEW rs, CancelQueuedRuns(rs)
    PROVE  \A r \in Runs : status'[r] \in {status[r], "cancelled"}
BY DEF CancelQueuedRuns

LEMMA ClaimKind ==
    ASSUME AllTyped, NEW w \in Workers, Claims(w)
    PROVE  w \in Procs /\ Takes(w) /\ Alone(w)
<1>0. proc \in [Procs -> Records] /\ w \in Procs
  BY Functions
<1>1. PICK r \in Runs : Claim(w, r)
  BY DEF Claims, ClaimAny
<1>2. UNCHANGED visit /\ Uncounted
  BY DEF Claims, waveVars, Uncounted
<1>3. /\ At(w, "idle") /\ status[r] = "queued" /\ status' = [status EXCEPT ![r] = "running"]
      /\ proc' = [proc EXCEPT ![w] = [pc |-> "claimed", run |-> r, view |-> "running"]]
  BY <1>1 DEF Claim, Claimable, WriteStatus
<1> QED
  BY <1>0, <1>2, <1>3 DEF Takes, Alone

LEMMA RequestKind ==
    ASSUME AllTyped, NEW s \in Sessions,
           CreatePlan(s) \/ PauseRead(s) \/ PauseWrite(s) \/ ResumePlanRead(s) \/ ResumePlanWrite(s)
    PROVE  s \in Procs /\ Asks(s) /\ Alone(s)
<1>0. s \in Procs /\ plan \in PlanRow /\ visit[s].waves \in SUBSET Waves
  BY Functions, SeenTyped DEF AllTyped
<1>1. CASE CreatePlan(s)
  <2>1. \A r \in Runs : status'[r] = status[r] \/ (status[r] = "absent" /\ status'[r] = "queued")
    BY <1>1, NewRuns DEF CreatePlan
  <2>2. visit[s].op = "none" /\ plan'.completed = 0
    BY <1>1 DEF CreatePlan, Free, Away, NoPlan
  <2> QED
    BY <1>0, <1>1, <2>1, <2>2 DEF CreatePlan, Asks, Alone
<1>2. CASE PauseRead(s)
  <2>1. Alone(s) /\ visit'[s].op = "pause" /\ proc'[s] = proc[s]
    BY <1>0, <1>2, VisitsAlone DEF PauseRead
  <2> QED
    BY <1>0, <1>2, <2>1 DEF PauseRead, Asks, Free, Away
<1>3. CASE PauseWrite(s)
  <2>1. Alone(s) /\ visit'[s].op = "none" /\ proc'[s] = proc[s]
    BY <1>0, <1>3, LeavesAlone DEF PauseWrite
  <2>2. \A r \in Runs : status'[r] \in {status[r], "cancelled"}
    BY <1>3, CancelsOnly DEF PauseWrite
  <2>3. plan'.completed = plan.completed
    BY <1>0, <1>3 DEF PauseWrite, PlanRow
  <2> QED
    BY <1>0, <1>3, <2>1, <2>2, <2>3 DEF PauseWrite, Asks
<1>4. CASE ResumePlanRead(s)
  <2>1. Alone(s) /\ visit'[s].op = "resume" /\ proc'[s] = proc[s]
    BY <1>0, <1>4, VisitsAlone DEF ResumePlanRead
  <2> QED
    BY <1>0, <1>4, <2>1 DEF ResumePlanRead, Asks, Free, Away
<1>5. CASE ResumePlanWrite(s)
  <2>1. Alone(s) /\ visit'[s].op = "none" /\ proc'[s] = proc[s]
    BY <1>0, <1>5, LeavesAlone DEF ResumePlanWrite
  <2>2. \A r \in Runs : status'[r] = status[r] \/ (status[r] = "absent" /\ status'[r] = "queued")
    BY <1>0, <1>5, NewRuns DEF ResumePlanWrite
  <2>3. plan'.completed = plan.completed
    BY <1>0, <1>5 DEF ResumePlanWrite, PlanRow
  <2> QED
    BY <1>0, <1>5, <2>1, <2>2, <2>3 DEF ResumePlanWrite, Asks
<1> QED
  BY <1>1, <1>2, <1>3, <1>4, <1>5

LEMMA RerunKind ==
    ASSUME AllTyped, NEW s \in Sessions, Rerun(s)
    PROVE  s \in Procs /\ (Looks(s) \/ Revives(s)) /\ Alone(s)
<1>0. proc \in [Procs -> Records] /\ s \in Procs /\ UNCHANGED <<plan, visit, missed>>
  BY Functions DEF Rerun
<1>1. CASE /\ \E r \in Runs : ResumeRead(s, r)
           /\ UNCHANGED revived
  <2>1. PICK r \in Runs : ResumeRead(s, r)
    BY <1>1
  <2>2. /\ At(s, "idle") /\ status' = status
        /\ proc' = [proc EXCEPT ![s] = [pc |-> "resuming", run |-> r, view |-> status[r]]]
    BY <2>1 DEF ResumeRead, ReadForResume
  <2> QED
    BY <1>0, <1>1, <2>2 DEF Looks, Alone, Uncounted
<1>2. CASE ResumeWrite(s) /\ revived' = revived \cup {RunOf(s)}
  <2>1. At(s, "resuming") /\ (Release(s) \/ Goto(s, "claimed", "queued"))
        /\ status' = [status EXCEPT ![RunOf(s)] = "queued"]
    BY <1>2 DEF ResumeWrite, WriteStatus
  <2>2. proc'[s].pc \in {"idle", "claimed"} /\ \A q \in Procs \ {s} : proc'[q] = proc[q]
    BY <1>0, <2>1 DEF Release, Goto, Idle
  <2> QED
    BY <1>0, <1>2, <2>1, <2>2 DEF Revives, Alone
<1> QED
  BY <1>1, <1>2 DEF Rerun

LEMMA FinishKind ==
    ASSUME AllTyped, NEW p \in Procs, Finishing(p) \/ CrashVisit(p)
    PROVE  (Reads(p) \/ Drops(p) \/ Counts(p)) /\ Alone(p)
<1>0. /\ proc \in [Procs -> Records] /\ visit \in [Procs -> Visits] /\ plan \in PlanRow
      /\ missed \subseteq Runs
  BY Functions DEF AllTyped, WaveTyped
<1>m. Miss(p) => missed \subseteq missed' /\ (Finished(p) => RunOf(p) \in missed')
  BY DEF Miss
<1>1. CASE FinishRead(p)
  <2>1. CASE plan.status = "completed"
    <3>1. Release(p) /\ Miss(p) /\ Away(p) /\ UNCHANGED <<visit, status, plan, revived>>
      BY <1>1, <2>1 DEF FinishRead
    <3>2. Alone(p) /\ proc'[p].pc = "idle" /\ visit'[p].op = "none"
      BY <1>0, <3>1 DEF Release, Idle, Alone, Away
    <3> QED
      BY <1>m, <3>1, <3>2 DEF Drops
  <2>2. CASE plan.status # "completed"
    <3>1. Visit(p, "finish", QueuedRuns \ {RunOf(p)}, {}) /\ UNCHANGED <<proc, missed>>
      BY <1>1, <2>2 DEF FinishRead
    <3>2. Alone(p) /\ visit'[p].op = "finish" /\ visit'[p].plan = plan /\ proc'[p] = proc[p]
      BY <3>1, VisitsAlone
    <3> QED
      BY <1>1, <3>1, <3>2 DEF FinishRead, Reads, Uncounted
  <2> QED
    BY <2>1, <2>2
<1>2. CASE FinishFailed(p)
  <2>1. Alone(p) /\ visit'[p].op = "none" /\ proc'[p].pc = "idle"
    BY <1>2, LeavesAlone DEF FinishFailed, PauseFailed
  <2>2. \A r \in Runs : status'[r] \in {status[r], "cancelled"}
    BY <1>2, CancelsOnly DEF FinishFailed, PauseFailed
  <2>3. plan'.completed = plan.completed
    BY <1>0, <1>2 DEF FinishFailed, PauseFailed, PlanRow
  <2>4. ~Finished(p) /\ UNCHANGED <<missed, revived>>
    BY <1>2 DEF FinishFailed, PauseFailed, Finished
  <2> QED
    BY <2>1, <2>2, <2>3, <2>4 DEF Drops
<1>3. CASE FinishCompleted(p)
  <2>1. Alone(p) /\ visit'[p].op = "none" /\ proc'[p].pc = "idle"
    BY <1>3, LeavesAlone DEF FinishCompleted, CountCompleted
  <2>2. plan'.completed = visit[p].plan.completed + 1
    BY <1>0, <1>3 DEF FinishCompleted, CountCompleted, PlanRow
  <2>3. missed \subseteq missed' /\ (Overwritten(p) /\ Finished(p) => RunOf(p) \in missed')
    BY <1>3, <1>m DEF FinishCompleted, CountCompleted
  <2> QED
    BY <1>3, <2>1, <2>2, <2>3 DEF FinishCompleted, CountCompleted, Counts
<1>4. CASE CrashVisit(p)
  <2>1. Release(p) /\ Leave(p) /\ Miss(p) /\ UNCHANGED <<status, plan, revived>>
    BY <1>4 DEF CrashVisit, Crash
  <2>2. Alone(p) /\ visit'[p].op = "none" /\ proc'[p].pc = "idle"
    BY <2>1, LeavesAlone
  <2> QED
    BY <1>m, <2>1, <2>2 DEF Drops
<1> QED
  BY <1>1, <1>2, <1>3, <1>4 DEF Finishing

\* Every step is one process's, and of one of these kinds.
LEMMA StepKinds ==
    ASSUME AllTyped, WNext
    PROVE  \E p \in Procs : Kinds(p) /\ Alone(p)
BY ClaimKind, RequestKind, RerunKind, ExecutionSteps, FinishKind DEF WNext, Kinds

\* Nothing happens before there is a plan, and once there is one it stays.
LEMMA PlanPersists ==
    ASSUME AllTyped, Unplanned, WNext
    PROVE  plan'.status # "none"
<1>0. plan \in PlanRow /\ Workers \subseteq Procs /\ Sessions \subseteq Procs
  BY Functions
<1>n. (\E p \in Procs : ~At(p, "idle") \/ ~Away(p)) \/ (\E r \in Runs : status[r] # "absent")
        => plan.status # "none"
  BY DEF Unplanned
<1>1. ASSUME NEW w \in Workers, Claims(w) PROVE plan'.status # "none"
  BY <1>1, <1>n DEF Claims, ClaimAny, Claim, Claimable, waveVars
<1>2. ASSUME NEW s \in Sessions, CreatePlan(s) PROVE plan'.status # "none"
  BY <1>2 DEF CreatePlan, NoPlan
<1>3. ASSUME NEW s \in Sessions, PauseRead(s) \/ ResumePlanRead(s) PROVE plan'.status # "none"
  BY <1>3 DEF PauseRead, ResumePlanRead
<1>4. ASSUME NEW s \in Sessions, PauseWrite(s) \/ ResumePlanWrite(s) PROVE plan'.status # "none"
  <2>1. plan.status # "none"
    BY <1>0, <1>4, <1>n DEF PauseWrite, ResumePlanWrite, Away
  <2> QED
    BY <1>0, <1>4, <2>1 DEF PauseWrite, ResumePlanWrite, PausedStatus, PlanRow
<1>5. ASSUME NEW s \in Sessions, Rerun(s) PROVE plan'.status # "none"
  BY <1>0, <1>5, <1>n DEF Rerun, ResumeRead, ReadForResume, ResumeWrite, At
<1>6. ASSUME NEW p \in Procs, Executing(p) PROVE plan'.status # "none"
  BY <1>6, <1>n, RunSteps DEF Executing, waveVars
<1>7. ASSUME NEW p \in Procs, FinishRead(p) \/ CrashVisit(p) PROVE plan'.status # "none"
  BY <1>7, <1>n DEF FinishRead, CrashVisit, Crash, At
<1>8. ASSUME NEW p \in Procs, FinishFailed(p) \/ FinishCompleted(p) PROVE plan'.status # "none"
  <2>1. plan.status # "none"
    BY <1>8, <1>n DEF FinishFailed, PauseFailed, FinishCompleted, CountCompleted, Away
  <2> QED
    BY <1>0, <1>8, <2>1
       DEF FinishFailed, PauseFailed, FinishCompleted, CountCompleted, PausedStatus, PlanRow
<1> QED
  BY <1>1, <1>2, <1>3, <1>4, <1>5, <1>6, <1>7, <1>8 DEF WNext, Finishing

\* What a process at the end of an execution knows.
EndOK(p) ==
    /\ At(p, "refresh") => proc[p].view = "completed"
    /\ visit[p].op = "finish" => At(p, "finalize")

Ordered == Unplanned /\ \A p \in Procs : EndOK(p)

LEMMA OrderedStep ==
    ASSUME AllTyped, Ordered, [WNext]_allVars
    PROVE  Ordered'
<1>1. CASE UNCHANGED allVars
  BY <1>1 DEF allVars, vars, waveVars, Ordered, Unplanned, EndOK, At, Away
<1>2. CASE WNext
  <2>1. Unplanned'
    BY <1>2, PlanPersists DEF Ordered, Unplanned
  <2>2. PICK p \in Procs : Kinds(p) /\ Alone(p)
    BY <1>2, StepKinds
  <2>3. \A q \in Procs \ {p} : EndOK(q)'
    BY <2>2 DEF Alone, Ordered, EndOK, At
  <2>4. EndOK(p)'
    BY <2>2 DEF Ordered, EndOK, At, Kinds, Takes, Advances, Continues, Completes, Fails, Returns, Asks,
       Looks, Revives, Reads, Drops, Counts, Engaged
  <2> QED
    BY <2>1, <2>3, <2>4 DEF Ordered
<1> QED
  BY <1>1, <1>2

-----------------------------------------------------------------------------
(* Counting: what the plan has counted at least                             *)

\* The completed runs that no process has still to have counted, and that are not missed.
Settled ==
    {r \in CompletedRuns \ missed : \A p \in Procs : ~(Finished(p) /\ RunOf(p) = r)}

\* A process that is about to write the count it has read, plus one.
Open(p) == visit[p].op = "finish" /\ ~RunFailed(p)

CountedOK ==
    /\ Cardinality(Settled) <= plan.completed
    /\ \A p \in Procs : Open(p) => Cardinality(Settled) <= visit[p].plan.completed

LEMMA SettledFinite ==
    IsFiniteSet(Runs) /\ IsFiniteSet(Settled) /\ Cardinality(Settled) \in Nat
BY RunsAssumption, FS_Subset, FS_CardinalityType DEF Settled, CompletedRuns

LEMMA SettledShrinks ==
    ASSUME missed \subseteq missed',
           \A r \in Runs : status'[r] = "completed" =>
               status[r] = "completed" \/ \E p \in Procs : Finished(p)' /\ RunOf(p)' = r,
           \A p \in Procs : Finished(p) =>
               \/ Finished(p)' /\ RunOf(p)' = RunOf(p)
               \/ RunOf(p) \in missed' \/ status'[RunOf(p)] # "completed"
    PROVE  Settled' \subseteq Settled
BY DEF Settled, CompletedRuns

LEMMA CountedStays ==
    ASSUME AllTyped, CountedOK, Settled' \subseteq Settled, plan'.completed = plan.completed,
           \A p \in Procs : Open(p)' => \/ Open(p) /\ visit'[p] = visit[p]
                                        \/ visit'[p].plan = plan
    PROVE  CountedOK'
<1>1. /\ Cardinality(Settled') <= Cardinality(Settled)
      /\ Cardinality(Settled) \in Nat /\ Cardinality(Settled') \in Nat
  BY SettledFinite, FS_Subset, FS_CardinalityType
<1>2. plan.completed \in Nat /\ \A p \in Procs : visit[p].plan.completed \in Nat
  BY SeenTyped DEF AllTyped, WaveTyped, PlanRow
<1>3. Cardinality(Settled) <= plan.completed
  BY DEF CountedOK
<1>4. Cardinality(Settled') <= plan'.completed
  BY <1>1, <1>2, <1>3
<1>5. ASSUME NEW p \in Procs, Open(p)' PROVE Cardinality(Settled') <= visit'[p].plan.completed
  <2>1. CASE Open(p) /\ visit'[p] = visit[p]
    <3>1. Cardinality(Settled) <= visit[p].plan.completed
      BY <2>1 DEF CountedOK
    <3> QED
      BY <1>1, <1>2, <2>1, <3>1
  <2>2. CASE visit'[p].plan = plan
    BY <1>1, <1>2, <1>3, <2>2
  <2> QED
    BY <1>5, <2>1, <2>2
<1> QED
  BY <1>4, <1>5 DEF CountedOK

LEMMA OneMore ==
    ASSUME NEW S, NEW T, NEW x, IsFiniteSet(S), T \subseteq S \cup {x}
    PROVE  Cardinality(T) <= Cardinality(S) + 1
<1>1. /\ IsFiniteSet(S \cup {x}) /\ Cardinality(S) \in Nat
      /\ Cardinality(S \cup {x}) = IF x \in S THEN Cardinality(S) ELSE Cardinality(S) + 1
  BY FS_AddElement, FS_CardinalityType
<1>2. /\ IsFiniteSet(T) /\ Cardinality(T) <= Cardinality(S \cup {x})
      /\ Cardinality(T) \in Nat
  BY <1>1, FS_Subset, FS_CardinalityType
<1> QED
  BY <1>1, <1>2

\* What is settled does not grow, but by the run that is being counted.
LEMMA SettledStep ==
    ASSUME AllTyped, Ordered, NEW p \in Procs, Alone(p), Kinds(p)
    PROVE  /\ Settled' \subseteq Settled \cup {RunOf(p)}
           /\ ~Counts(p) \/ RunOf(p) \in missed' => Settled' \subseteq Settled
<1>0. /\ status \in [Runs -> RunStatus \cup {"absent"}] /\ EndOK(p)
      /\ ~At(p, "idle") => RunOf(p) \in Runs
  BY Functions DEF Ordered
<1>a. \A q \in Procs \ {p} : Finished(q) => Finished(q)' /\ RunOf(q)' = RunOf(q)
  BY DEF Alone, Finished, RunFailed, RunOf
<1>b. missed \subseteq missed'
  BY DEF Kinds, Takes, Advances, Asks, Looks, Revives, Reads, Drops, Counts, Uncounted
<1>c. ASSUME NEW r \in Runs, status'[r] = "completed"
      PROVE  status[r] = "completed" \/ (Finished(p)' /\ RunOf(p)' = r)
  BY <1>0, <1>c DEF Kinds, Takes, Advances, Continues, Completes, Fails, Returns, Asks, Looks, Revives,
     Reads, Drops, Counts, Finished, RunFailed, RunOf
<1>d. ASSUME Finished(p), ~Counts(p) \/ RunOf(p) \in missed'
      PROVE  \/ Finished(p)' /\ RunOf(p)' = RunOf(p)
             \/ RunOf(p) \in missed' \/ status'[RunOf(p)] # "completed"
  <2>1. proc[p].pc \in {"refresh", "finalize"} /\ ~RunFailed(p)
    BY <1>d DEF Finished
  <2>2. CASE Advances(p)
    BY <2>1, <2>2 DEF Advances, Continues, Completes, Fails, Returns, Engaged, Finished, RunFailed, RunOf
  <2>3. CASE Asks(p) \/ Reads(p)
    BY <2>1, <2>3 DEF Asks, Reads, Finished, RunFailed, RunOf
  <2>4. CASE Drops(p)
    BY <1>d, <2>4 DEF Drops
  <2>5. CASE Takes(p) \/ Looks(p) \/ Revives(p)
    BY <2>1, <2>5 DEF Takes, Looks, Revives, At
  <2> QED
    BY <1>d, <2>2, <2>3, <2>4, <2>5 DEF Kinds
<1>1. ASSUME ~Counts(p) \/ RunOf(p) \in missed' PROVE Settled' \subseteq Settled
  <2>1. \A q \in Procs : Finished(q) =>
               \/ Finished(q)' /\ RunOf(q)' = RunOf(q)
               \/ RunOf(q) \in missed' \/ status'[RunOf(q)] # "completed"
    BY <1>1, <1>a, <1>d
  <2>2. \A r \in Runs : status'[r] = "completed" =>
               status[r] = "completed" \/ \E q \in Procs : Finished(q)' /\ RunOf(q)' = r
    BY <1>c
  <2> QED
    BY <1>b, <2>1, <2>2, SettledShrinks
<1>2. ASSUME NEW r \in Settled', r # RunOf(p), Counts(p) PROVE r \in Settled
  <2>1. status' = status /\ r \in Runs /\ status'[r] = "completed" /\ r \notin missed
    BY <1>2, <1>b DEF Counts, Settled, CompletedRuns
  <2>2. \A q \in Procs : ~(Finished(q)' /\ RunOf(q)' = r)
    BY <1>2 DEF Settled
  <2>3. \A q \in Procs \ {p} : ~(Finished(q) /\ RunOf(q) = r)
    BY <1>a, <2>2
  <2> QED
    BY <1>2, <2>1, <2>3 DEF Settled, CompletedRuns
<1> QED
  BY <1>1, <1>2

LEMMA CountedStep ==
    ASSUME AllTyped, Ordered, CountedOK, [WNext]_allVars
    PROVE  CountedOK'
<1>1. CASE UNCHANGED allVars
  <2>1. Settled' = Settled
    BY <1>1 DEF allVars, vars, waveVars, Settled, CompletedRuns, Finished, RunFailed, RunOf
  <2> QED
    BY <1>1, <2>1 DEF allVars, vars, waveVars, CountedOK, Open, RunFailed
<1>2. CASE WNext
  <2>1. PICK p \in Procs : Kinds(p) /\ Alone(p)
    BY <1>2, StepKinds
  <2>a. \A q \in Procs \ {p} : Open(q)' => Open(q) /\ visit'[q] = visit[q]
    BY <2>1 DEF Alone, Open, RunFailed
  <2>2. CASE ~Counts(p) /\ plan'.completed = plan.completed
    <3>1. Settled' \subseteq Settled
      BY <2>1, <2>2, SettledStep
    <3>2. Open(p)' => (Open(p) /\ visit'[p] = visit[p]) \/ visit'[p].plan = plan
      <4>1. EndOK(p)
        BY DEF Ordered
      <4> QED
        BY <2>1, <2>2, <4>1 DEF EndOK, Kinds, Takes, Advances, Continues, Completes, Fails, Returns, Asks,
           Looks, Revives, Reads, Drops, Open, RunFailed, At, Engaged
    <3> QED
      BY <2>2, <2>a, <3>1, <3>2, CountedStays
  <2>3. CASE Asks(p) /\ plan.status = "none" /\ plan'.completed = 0
    <3>1. Settled = {}
      BY <2>3 DEF Ordered, Unplanned, Settled, CompletedRuns
    <3>2. \A q \in Procs : ~Open(q)'
      <4>1. \A q \in Procs : ~Open(q)
        BY <2>3 DEF Ordered, Unplanned, Away, Open
      <4> QED
        BY <2>3, <2>a, <4>1 DEF Asks, Open
    <3>3. Settled' = {}
      <4>1. ~Counts(p)
        BY <2>3 DEF Asks, Counts
      <4> QED
        BY <2>1, <3>1, <4>1, SettledStep
    <3> QED
      BY <2>3, <3>2, <3>3, FS_EmptySet DEF CountedOK
  <2>4. CASE Counts(p)
    <3>1. /\ Cardinality(Settled) \in Nat /\ Cardinality(Settled') \in Nat
          /\ \A q \in Procs : visit[q].plan.completed \in Nat
      <4>1. IsFiniteSet(Settled')
        BY RunsAssumption, FS_Subset DEF Settled, CompletedRuns
      <4> QED
        BY <4>1, SettledFinite, SeenTyped, FS_CardinalityType DEF AllTyped, PlanRow
    <3>2. Open(p) /\ plan'.completed = visit[p].plan.completed + 1
      BY <2>4 DEF Counts, Open
    <3>3. Cardinality(Settled) <= visit[p].plan.completed
      BY <3>2 DEF CountedOK
    <3>4. Cardinality(Settled') <= Cardinality(Settled) + 1
      <4>1. Settled' \subseteq Settled \cup {RunOf(p)}
        BY <2>1, SettledStep
      <4> QED
        BY <4>1, SettledFinite, OneMore
    <3>5. Cardinality(Settled') <= plan'.completed
      BY <3>1, <3>2, <3>3, <3>4
    <3>6. ASSUME NEW q \in Procs, Open(q)' PROVE Cardinality(Settled') <= visit'[q].plan.completed
      <4>1. q # p
        BY <2>4, <3>6 DEF Counts, Open
      <4>2. Open(q) /\ visit'[q] = visit[q]
        BY <2>a, <3>6, <4>1
      <4>3. Overwritten(p) /\ Finished(p)
        BY <2>4, <4>1, <4>2 DEF Overwritten, Open, Counts, Ordered, EndOK, Finished, At
      <4>4. Settled' \subseteq Settled
        BY <2>1, <2>4, <4>3, SettledStep DEF Counts
      <4>5. Cardinality(Settled') <= Cardinality(Settled)
        BY <4>4, SettledFinite, FS_Subset
      <4>6. Cardinality(Settled) <= visit[q].plan.completed
        BY <4>2 DEF CountedOK
      <4> QED
        BY <3>1, <4>2, <4>5, <4>6
    <3> QED
      BY <3>5, <3>6 DEF CountedOK
  <2>5. ~Counts(p) => \/ plan'.completed = plan.completed
                      \/ Asks(p) /\ plan.status = "none" /\ plan'.completed = 0
    BY <2>1 DEF Kinds, Takes, Advances, Asks, Looks, Revives, Reads, Drops, Uncounted
  <2> QED
    BY <2>2, <2>3, <2>4, <2>5
<1> QED
  BY <1>1, <1>2

-----------------------------------------------------------------------------
(* Counting: what the plan has counted at most                              *)

Over == {"completed", "cancelled"}
Held(p) == proc[p].pc \in Engaged \cup {"refresh", "finalize"}

\* Until a run is resumed by itself, nobody takes up a run that another process has in
\* hand, or has had, and the run a process has still to have counted is over.
HandsOK ==
    /\ \A p, q \in Procs : Held(p) /\ Held(q) /\ RunOf(p) = RunOf(q) => p = q
    /\ \A p \in Procs : Held(p) => status[RunOf(p)] \notin {"absent", "queued"}
    /\ \A p \in Procs : Finished(p) => status[RunOf(p)] \in Over

\* The runs that are over, and that no process has in hand any more.
Closed == {r \in Runs : status[r] \in Over /\ \A p \in Procs : ~(Held(p) /\ RunOf(p) = r)}

NotAbove ==
    /\ plan.completed <= Cardinality(Closed)
    /\ \A p \in Procs : Open(p) => visit[p].plan.completed <= Cardinality(Closed)

Bounded == revived = {} => HandsOK /\ NotAbove

LEMMA ClosedFinite ==
    IsFiniteSet(Runs) /\ IsFiniteSet(Closed) /\ Cardinality(Closed) \in Nat
BY RunsAssumption, FS_Subset, FS_CardinalityType DEF Closed

\* A step that gives no process a run it did not have.
LEMMA HandsStay ==
    ASSUME HandsOK,
           \A p \in Procs : Held(p)' => Held(p) /\ RunOf(p)' = RunOf(p),
           \A p \in Procs : Held(p)' => status'[RunOf(p)] \notin {"absent", "queued"},
           \A p \in Procs : Finished(p)' => status'[RunOf(p)] \in Over
    PROVE  HandsOK'
<1>1. \A p \in Procs : Finished(p)' => Held(p)'
  BY DEF Finished, Held
<1> QED
  BY <1>1 DEF HandsOK

LEMMA ClosedGrows ==
    ASSUME \A p \in Procs : Held(p)' => \/ Held(p) /\ RunOf(p)' = RunOf(p)
                                        \/ status[RunOf(p)'] \notin Over,
           \A r \in Closed : status'[r] \in Over
    PROVE  Closed \subseteq Closed'
BY DEF Closed

LEMMA NotAboveStays ==
    ASSUME AllTyped, NotAbove, Closed \subseteq Closed',
           plan'.completed \in {0, plan.completed},
           \A p \in Procs : Open(p)' => \/ Open(p) /\ visit'[p] = visit[p]
                                        \/ visit'[p].plan = plan
    PROVE  NotAbove'
<1>1. /\ Cardinality(Closed) <= Cardinality(Closed')
      /\ Cardinality(Closed) \in Nat /\ Cardinality(Closed') \in Nat
  <2>1. IsFiniteSet(Closed')
    BY RunsAssumption, FS_Subset DEF Closed
  <2> QED
    BY <2>1, ClosedFinite, FS_Subset, FS_CardinalityType
<1>2. plan.completed \in Nat /\ \A p \in Procs : visit[p].plan.completed \in Nat
  BY SeenTyped DEF AllTyped, WaveTyped, PlanRow
<1>3. plan.completed <= Cardinality(Closed)
  BY DEF NotAbove
<1>4. plan'.completed <= Cardinality(Closed')
  BY <1>1, <1>2, <1>3
<1>5. ASSUME NEW p \in Procs, Open(p)' PROVE visit'[p].plan.completed <= Cardinality(Closed')
  <2>1. CASE Open(p) /\ visit'[p] = visit[p]
    <3>1. visit[p].plan.completed <= Cardinality(Closed)
      BY <2>1 DEF NotAbove
    <3> QED
      BY <1>1, <1>2, <2>1, <3>1
  <2>2. CASE visit'[p].plan = plan
    BY <1>1, <1>2, <1>3, <2>2
  <2> QED
    BY <1>5, <2>1, <2>2
<1> QED
  BY <1>4, <1>5 DEF NotAbove

\* How the runs in hand, and those that are closed, go on.
LEMMA HandsStep ==
    ASSUME AllTyped, Ordered, HandsOK, NEW p \in Procs, Alone(p), Kinds(p), ~Revives(p)
    PROVE  HandsOK' /\ Closed \subseteq Closed'
<1>0. /\ status \in [Runs -> RunStatus \cup {"absent"}] /\ EndOK(p)
      /\ \A q \in Procs : Held(q) => RunOf(q) \in Runs
      /\ \A q \in Procs : Finished(q) => Held(q)
  BY Functions DEF Ordered, Held, Engaged, At, Finished
<1>a. \A q \in Procs \ {p} : /\ Held(q)' <=> Held(q)
                             /\ Finished(q)' <=> Finished(q)
                             /\ RunOf(q)' = RunOf(q)
  BY DEF Alone, Held, Finished, RunFailed, RunOf
<1>1. CASE Takes(p)
  <2>1. PICK r \in Runs : /\ status[r] = "queued" /\ proc'[p].run = r
                          /\ status' = [status EXCEPT ![r] = "running"]
    BY <1>1 DEF Takes
  <2>2. \A q \in Procs \ {p} : Held(q) => RunOf(q) # r
    BY <2>1 DEF HandsOK
  <2>3. status'[r] = "running" /\ \A s \in Runs \ {r} : status'[s] = status[s]
    BY <1>0, <2>1
  <2>4. ~Finished(p)' /\ RunOf(p)' = r
    BY <1>1, <2>1 DEF Takes, Finished, RunOf
  <2>5. \A q \in Procs \ {p} : Held(q) => status'[RunOf(q)] = status[RunOf(q)]
    BY <1>0, <2>2, <2>3
  <2>6. HandsOK'
    <3>1. \A q, s \in Procs : Held(q)' /\ Held(s)' /\ RunOf(q)' = RunOf(s)' => q = s
      BY <1>a, <2>2, <2>4 DEF HandsOK
    <3>2. \A q \in Procs : Held(q)' => status'[RunOf(q)'] \notin {"absent", "queued"}
      BY <1>a, <2>3, <2>4, <2>5 DEF HandsOK
    <3>3. \A q \in Procs : Finished(q)' => status'[RunOf(q)'] \in Over
      BY <1>0, <1>a, <2>4, <2>5 DEF HandsOK
    <3> QED
      BY <3>1, <3>2, <3>3 DEF HandsOK
  <2>7. \A q \in Procs : Held(q)' => \/ Held(q) /\ RunOf(q)' = RunOf(q)
                                     \/ status[RunOf(q)'] \notin Over
    BY <1>a, <2>1, <2>4 DEF Over
  <2>8. \A s \in Closed : status'[s] \in Over
    BY <2>1, <2>3 DEF Closed, Over
  <2> QED
    BY <2>6, <2>7, <2>8, ClosedGrows
<1>2. CASE Advances(p)
  <2>1. Held(p) /\ RunOf(p)' = RunOf(p) /\ RunOf(p) \in Runs
    BY <1>2 DEF Advances, Continues, Completes, Fails, Returns, Held, At, RunOf
  <2>2. \A r \in Runs \ {RunOf(p)} : status'[r] = status[r]
    BY <1>0, <1>2, <2>1 DEF Advances, Continues, Completes, Fails, Returns
  <2>3. \A q \in Procs \ {p} : Held(q) => RunOf(q) # RunOf(p)
    BY <2>1 DEF HandsOK
  <2>4. \A q \in Procs : Held(q)' => Held(q) /\ RunOf(q)' = RunOf(q)
    BY <1>a, <2>1
  <2>5. status'[RunOf(p)] \notin {"absent", "queued"}
    BY <1>0, <1>2, <2>1 DEF Advances, Continues, Completes, Fails, Returns, HandsOK
  <2>6. Finished(p)' => status'[RunOf(p)] \in Over
    <3>1. CASE Continues(p) \/ Fails(p)
      BY <3>1 DEF Continues, Fails, Finished, RunFailed, Engaged
    <3>2. CASE Completes(p)
      BY <1>0, <2>1, <3>2 DEF Completes, Over
    <3>3. CASE Returns(p)
      <4>1. Finished(p)
        BY <1>0, <3>3 DEF Returns, Finished, RunFailed, At, EndOK
      <4> QED
        BY <3>3, <4>1 DEF Returns, HandsOK
    <3> QED
      BY <1>2, <3>1, <3>2, <3>3 DEF Advances
  <2>7. HandsOK'
    <3>1. \A q \in Procs : Held(q)' => status'[RunOf(q)] \notin {"absent", "queued"}
      BY <1>0, <1>a, <2>2, <2>3, <2>5 DEF HandsOK
    <3>2. \A q \in Procs : Finished(q)' => status'[RunOf(q)] \in Over
      BY <1>0, <1>a, <2>2, <2>3, <2>6 DEF HandsOK
    <3> QED
      BY <2>4, <3>1, <3>2, HandsStay
  <2>8. \A r \in Closed : status'[r] \in Over
    BY <2>1, <2>2 DEF Closed
  <2> QED
    BY <2>4, <2>7, <2>8, ClosedGrows
<1>3. CASE Asks(p) \/ Looks(p) \/ Reads(p) \/ Drops(p) \/ Counts(p)
  <2>1. \A r \in Runs : \/ status'[r] \in {status[r], "cancelled"}
                        \/ status[r] = "absent" /\ status'[r] = "queued"
    BY <1>3 DEF Asks, Looks, Reads, Drops, Counts
  <2>2. Held(p)' => Held(p) /\ RunOf(p)' = RunOf(p)
    BY <1>3 DEF Asks, Looks, Reads, Drops, Counts, Held, RunOf, Engaged
  <2>3. Finished(p)' => Finished(p)
    BY <1>3 DEF Asks, Looks, Reads, Drops, Counts, Finished, RunFailed
  <2>4. \A q \in Procs : Held(q)' => Held(q) /\ RunOf(q)' = RunOf(q)
    BY <1>a, <2>2
  <2>5. HandsOK'
    <3>1. \A q \in Procs : Held(q)' => status'[RunOf(q)] \notin {"absent", "queued"}
      BY <1>0, <2>1, <2>4 DEF HandsOK
    <3>2. \A q \in Procs : Finished(q)' => status'[RunOf(q)] \in Over
      BY <1>0, <1>a, <2>1, <2>3 DEF HandsOK, Over
    <3> QED
      BY <2>4, <3>1, <3>2, HandsStay
  <2>6. \A r \in Closed : status'[r] \in Over
    BY <2>1 DEF Closed, Over
  <2> QED
    BY <2>4, <2>5, <2>6, ClosedGrows
<1> QED
  BY <1>1, <1>2, <1>3 DEF Kinds

\* Counting closes a run that was over.
LEMMA CountCloses ==
    ASSUME AllTyped, Ordered, HandsOK, NEW p \in Procs, Alone(p), Counts(p), Closed \subseteq Closed'
    PROVE  Cardinality(Closed') >= Cardinality(Closed) + 1
<1>1. Finished(p) /\ Held(p)
  BY DEF Counts, Ordered, EndOK, Finished, At, Held
<1>2. RunOf(p) \in Runs /\ status'[RunOf(p)] \in Over
  BY <1>1, Functions DEF HandsOK, Counts, Held, Engaged, At
<1>3. ASSUME NEW q \in Procs PROVE ~(Held(q)' /\ RunOf(q)' = RunOf(p))
  <2>1. CASE q = p
    BY <2>1 DEF Counts, Held, Engaged
  <2>2. CASE q # p
    BY <1>1, <2>2 DEF Alone, Held, RunOf, HandsOK
  <2> QED
    BY <2>1, <2>2
<1>4. PICK r \in Runs : r = RunOf(p)
  BY <1>2
<1>5. r \in Closed'
  BY <1>2, <1>3, <1>4 DEF Closed
<1>6. r \notin Closed
  BY <1>1, <1>4 DEF Closed
<1>7. IsFiniteSet(Closed \cup {r}) /\ Cardinality(Closed \cup {r}) = Cardinality(Closed) + 1
  BY <1>6, ClosedFinite, FS_AddElement
<1>8. IsFiniteSet(Closed') /\ Closed \cup {r} \subseteq Closed'
  BY <1>5, RunsAssumption, FS_Subset DEF Closed
<1>9. Cardinality(Closed \cup {r}) <= Cardinality(Closed') /\ Cardinality(Closed') \in Nat
  BY <1>8, FS_Subset, FS_CardinalityType
<1> QED
  BY <1>7, <1>9, ClosedFinite

LEMMA BoundedStep ==
    ASSUME AllTyped, Ordered, Bounded, [WNext]_allVars
    PROVE  Bounded'
<1>1. CASE UNCHANGED allVars
  <2>1. Closed' = Closed
    BY <1>1 DEF allVars, vars, Closed, Held, RunOf
  <2> QED
    BY <1>1, <2>1 DEF allVars, vars, waveVars, Bounded, HandsOK, NotAbove, Open, Held, Finished,
       RunFailed, RunOf
<1>2. CASE WNext
  <2> SUFFICES ASSUME revived' = {} PROVE HandsOK' /\ NotAbove'
    BY DEF Bounded
  <2>1. PICK p \in Procs : Kinds(p) /\ Alone(p)
    BY <1>2, StepKinds
  <2>2. ~Revives(p) /\ revived = {}
    BY <2>1 DEF Kinds, Takes, Advances, Asks, Looks, Revives, Reads, Drops, Counts, Uncounted
  <2>3. HandsOK /\ NotAbove
    BY <2>2 DEF Bounded
  <2>4. HandsOK' /\ Closed \subseteq Closed'
    BY <2>1, <2>2, <2>3, HandsStep
  <2>a. \A q \in Procs \ {p} : Open(q)' => Open(q) /\ visit'[q] = visit[q]
    BY <2>1 DEF Alone, Open, RunFailed
  <2>5. CASE ~Counts(p)
    <3>1. plan'.completed \in {0, plan.completed}
      BY <2>1, <2>2, <2>5 DEF Kinds, Takes, Advances, Asks, Looks, Reads, Drops, Uncounted
    <3>2. Open(p)' => (Open(p) /\ visit'[p] = visit[p]) \/ visit'[p].plan = plan
      <4>1. EndOK(p)
        BY DEF Ordered
      <4> QED
        BY <2>1, <2>2, <2>5, <4>1 DEF EndOK, Kinds, Takes, Advances, Continues, Completes, Fails, Returns,
           Asks, Looks, Reads, Drops, Open, RunFailed, At, Engaged
    <3> QED
      BY <2>3, <2>4, <2>a, <3>1, <3>2, NotAboveStays
  <2>6. CASE Counts(p)
    <3>1. /\ Cardinality(Closed') >= Cardinality(Closed) + 1 /\ Cardinality(Closed) \in Nat
          /\ Cardinality(Closed') \in Nat /\ \A q \in Procs : visit[q].plan.completed \in Nat
      <4>1. IsFiniteSet(Closed')
        BY RunsAssumption, FS_Subset DEF Closed
      <4> QED
        BY <2>1, <2>3, <2>4, <2>6, <4>1, CountCloses, ClosedFinite, FS_CardinalityType, SeenTyped
           DEF AllTyped, PlanRow
    <3>2. /\ Open(p) /\ plan'.completed = visit[p].plan.completed + 1
          /\ visit[p].plan.completed <= Cardinality(Closed)
      BY <2>3, <2>6 DEF Counts, Open, NotAbove
    <3>3. ASSUME NEW q \in Procs, Open(q)' PROVE visit'[q].plan.completed <= Cardinality(Closed')
      <4>1. Open(q) /\ visit'[q] = visit[q]
        BY <2>6, <2>a, <3>3 DEF Counts, Open
      <4>2. visit[q].plan.completed <= Cardinality(Closed)
        BY <2>3, <4>1 DEF NotAbove
      <4> QED
        BY <3>1, <4>1, <4>2
    <3>4. plan'.completed <= Cardinality(Closed')
      BY <3>1, <3>2
    <3> QED
      BY <2>4, <3>3, <3>4 DEF NotAbove
  <2> QED
    BY <2>5, <2>6
<1> QED
  BY <1>1, <1>2

-----------------------------------------------------------------------------

CountInv == AllTyped /\ Ordered /\ CountedOK /\ Bounded

LEMMA CountInit == WInit => CountInv
<1> SUFFICES ASSUME WInit PROVE CountInv
  OBVIOUS
<1>1. AllTyped
  BY WaveTypeInit
<1>2. \A p \in Procs : At(p, "idle") /\ visit[p] = NoVisit
  BY DEF WInit, Init, At, Idle
<1>3. Ordered
  BY <1>2 DEF WInit, Init, Ordered, Unplanned, EndOK, At, Away, NoVisit
<1>4. CountedOK
  <2>1. Settled = {}
    BY DEF WInit, Init, Settled, CompletedRuns
  <2> QED
    BY <1>2, <2>1, FS_EmptySet DEF WInit, NoPlan, CountedOK, Open, NoVisit
<1>5. HandsOK
  BY <1>2 DEF HandsOK, Held, Finished, At, Engaged
<1>6. NotAbove
  BY <1>2, ClosedFinite DEF WInit, NoPlan, NotAbove, Open, NoVisit
<1> QED
  BY <1>1, <1>3, <1>4, <1>5, <1>6 DEF CountInv, Bounded

\* When nobody is at the end of an execution, the count is between its two bounds.
LEMMA CountMeans == CountInv => CountsCompletedRuns
<1> SUFFICES ASSUME CountInv, AtRest PROVE
        /\ Cardinality(CompletedRuns \ missed) <= plan.completed
        /\ \/ plan.completed <= Cardinality({r \in Runs : status[r] \in {"completed", "cancelled"}})
           \/ revived # {}
  BY DEF CountsCompletedRuns
<1> DEFINE over == {r \in Runs : status[r] \in {"completed", "cancelled"}}
<1>1. Settled = CompletedRuns \ missed
  BY DEF AtRest, Settled, Finished, At
<1>2. Cardinality(CompletedRuns \ missed) <= plan.completed
  BY <1>1 DEF CountInv, CountedOK
<1>3. Closed \subseteq over /\ IsFiniteSet(over)
  BY RunsAssumption, FS_Subset DEF Closed, Over
<1>4. Cardinality(Closed) <= Cardinality(over) /\ Cardinality(over) \in Nat
  BY <1>3, FS_Subset, FS_CardinalityType
<1>5. revived = {} => plan.completed <= Cardinality(over)
  BY <1>4, ClosedFinite DEF CountInv, Bounded, NotAbove, AllTyped, WaveTyped, PlanRow
<1> QED
  BY <1>2, <1>5

\* In any fleet, with any requests and through crashes, the plan's count of completed waves
\* misses no completed run but those whose count a crash, a write over the same reading of
\* the plan or the plan's own end has lost, and counts no run twice unless an operator had
\* one executed again.
THEOREM CompletedAreCounted == WSpec => []CountsCompletedRuns
<1>1. CountInv /\ [WNext]_allVars => CountInv'
  BY WaveTypeStep, OrderedStep, CountedStep, BoundedStep DEF CountInv
<1> QED
  BY <1>1, CountInit, CountMeans, PTL DEF WSpec
=============================================================================

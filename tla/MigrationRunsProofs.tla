--------------------------- MODULE MigrationRunsProofs ---------------------------
(***************************************************************************)
(* Proofs about MigrationRuns for any number of runs, workers, requests,   *)
(* resumes and crashes.  One assumption bounds the deployments for which   *)
(* mutual exclusion holds, and is needed: the API process has runner_mode  *)
(* "worker".  The runs that a stale resume queued are excepted by name.    *)
(***************************************************************************)
EXTENDS MigrationRuns, FiniteSetTheorems, TLAPS

WorkerMode == ApiMode = "worker"

\* Only the fields a step can rely on: a process that is not idle has a run.
ProcOK(p) == At(p, "idle") \/ RunOf(p) \in Runs

Typed == TypeOK /\ \A p \in Procs : ProcOK(p)

\* A process that is not idle has its run in hand.
Has(p, r) == ~At(p, "idle") /\ RunOf(p) = r

\* What a process knows of the run in hand.  A request that is about to queue its new run
\* still has it to itself; one that resumes a run has read failed or cancelled, whatever
\* the row says by now; and the status of a run that is being executed is what the claim
\* made it, or what it was created with if the request executes it.
HolderOK(p, r) ==
    /\ status[r] # "absent"
    /\ At(p, "enqueue") => status[r] = "pending"
    /\ At(p, "resuming") => status[r] # "pending" /\ proc[p].view \in {"failed", "cancelled"}
    /\ Executes(p, r) /\ r \notin late =>
          status[r] = "running" \/ (p \in Sessions /\ status[r] = "pending")

\* The inductive invariant of one run: exclusion follows from the committed status, which
\* says that the run is taken and which only the executor may change.
RowOK(r) ==
    /\ \A p \in Procs : Has(p, r) => HolderOK(p, r)
    /\ status[r] = "pending" => \A p, q \in Procs : Has(p, r) /\ Has(q, r) => p = q
    /\ r \in late => status[r] \notin {"absent", "pending"}
    /\ r \notin late => \A p, q \in Procs : Executes(p, r) /\ Executes(q, r) => p = q

Inv == Typed /\ \A r \in Runs : RowOK(r)

-----------------------------------------------------------------------------

Records == [pc : PC, run : Runs \cup {NoRun}, view : RunStatus \cup {"absent"}]

\* A busy process moves to another point, or any process becomes idle, within Typed.
LEMMA MoveType ==
  ASSUME Typed, NEW p \in Procs
  PROVE  LET PT == /\ proc' \in [Procs -> Records]
                   /\ \A q \in Procs : ProcOK(q)'
         IN  /\ \A point \in PC, v \in RunStatus \cup {"absent"} :
                  ~At(p, "idle") /\ Goto(p, point, v) => PT
             /\ Release(p) => PT
<1>0. proc \in [Procs -> Records] /\ \A q \in Procs : ProcOK(q)
  BY DEF Typed, TypeOK, Records
<1>1. Idle \in Records /\ Idle.pc = "idle"
  BY DEF Idle, Records, PC
<1>2. ASSUME NEW point \in PC, NEW v \in RunStatus \cup {"absent"},
             ~At(p, "idle"), Goto(p, point, v)
      PROVE proc' \in [Procs -> Records] /\ \A q \in Procs : ProcOK(q)'
  BY <1>0, <1>2 DEF Goto, Records, ProcOK, At, RunOf, PC
<1>3. ASSUME Release(p)
      PROVE proc' \in [Procs -> Records] /\ \A q \in Procs : ProcOK(q)'
  BY <1>0, <1>1, <1>3 DEF Release, ProcOK, At, RunOf
<1> QED
  BY <1>2, <1>3

\* Every action keeps the types, and a busy process keeps its run.
LEMMA TypeStep == Typed /\ [Next]_vars => Typed'
<1> SUFFICES ASSUME Typed, [Next]_vars PROVE Typed'
  OBVIOUS
<1>0. TypeOK /\ proc \in [Procs -> Records] /\ \A q \in Procs : ProcOK(q)
  BY DEF Typed, TypeOK, Records
<1>a. \A p \in Procs : proc[p].view \in RunStatus \cup {"absent"}
  BY <1>0 DEF Records
<1>b. \A p \in Procs : ~At(p, "idle") => RunOf(p) \in Runs
  BY <1>0 DEF ProcOK
<1>c. \A r \in Runs : status[r] \in RunStatus \cup {"absent"}
  BY <1>0 DEF TypeOK
<1>s. \A r, x : x \in RunStatus /\ WriteStatus(r, x)
          => status' \in [Runs -> RunStatus \cup {"absent"}]
  BY <1>0 DEF TypeOK, WriteStatus
<1>t. ASSUME proc' \in [Procs -> Records], \A q \in Procs : ProcOK(q)',
             status' \in [Runs -> RunStatus \cup {"absent"}],
             createdAt' \in [Runs -> Nat], claimedBy' \in [Runs -> Workers \cup {Nobody}],
             resumes' \in Nat, late' \subseteq Runs
      PROVE Typed'
  BY <1>t DEF Typed, TypeOK, Records
<1>u. UNCHANGED createdAt => createdAt' \in [Runs -> Nat]
  BY <1>0 DEF TypeOK
<1>v. UNCHANGED claimedBy => claimedBy' \in [Runs -> Workers \cup {Nobody}]
  BY <1>0 DEF TypeOK
<1>w. UNCHANGED bounds => resumes' \in Nat
  BY <1>0 DEF TypeOK, bounds
<1>y. UNCHANGED late => late' \subseteq Runs
  BY <1>0 DEF TypeOK
<1>x. UNCHANGED status => status' \in [Runs -> RunStatus \cup {"absent"}]
  BY <1>0 DEF TypeOK
<1>k. /\ {"queued", "running", "failed", "completed"} \subseteq RunStatus
      /\ Engaged \cup {"refresh", "finalize"} \subseteq PC
      /\ {"claimed", "ready", "started", "selected", "loading"} = Engaged
  BY DEF RunStatus, PC, Engaged
<1>1. ASSUME NEW w \in Workers, NEW r \in Runs, Claim(w, r) PROVE Typed'
  <2>1. proc' \in [Procs -> Records] /\ \A q \in Procs : ProcOK(q)'
    BY <1>0, <1>1 DEF Claim, Records, ProcOK, At, RunOf, Procs, PC, Engaged, RunStatus
  <2>2. claimedBy' \in [Runs -> Workers \cup {Nobody}]
    BY <1>0, <1>1 DEF Claim, TypeOK
  <2> QED
    BY <1>1, <2>1, <2>2, <1>s, <1>t, <1>u, <1>w, <1>y, <1>k DEF Claim
<1>2. ASSUME NEW s \in Sessions, NEW r \in Runs, CreateRun(s, r) PROVE Typed'
  <2>1. Cardinality(Existing) + 1 \in Nat
    <3>1. IsFiniteSet(Existing)
      BY RunsAssumption, FS_Subset DEF Existing
    <3> QED
      BY <3>1, FS_CardinalityType
  <2>2. proc' \in [Procs -> Records] /\ \A q \in Procs : ProcOK(q)'
    BY <1>0, <1>2 DEF CreateRun, InsertRun, Records, ProcOK, At, RunOf, Procs, PC, Engaged, RunStatus
  <2>3. createdAt' \in [Runs -> Nat]
    BY <1>0, <1>2, <2>1 DEF CreateRun, InsertRun, TypeOK
  <2> QED
    BY <1>2, <2>2, <2>3, <1>s, <1>t, <1>v, <1>w, <1>y DEF CreateRun, InsertRun, RunStatus
<1>3. ASSUME NEW s \in Sessions, NEW r \in Runs, ResumeRead(s, r) PROVE Typed'
  <2>1. proc' \in [Procs -> Records] /\ \A q \in Procs : ProcOK(q)'
    BY <1>0, <1>3, <1>c DEF ResumeRead, ReadForResume, Records, ProcOK, At, RunOf, Procs, PC
  <2>2. resumes' \in Nat
    BY <1>0, <1>3 DEF ResumeRead, ReadForResume, TypeOK
  <2> QED
    BY <1>3, <2>1, <2>2, <1>t, <1>u, <1>v, <1>x, <1>y DEF ResumeRead, ReadForResume
<1>4. ASSUME NEW s \in Sessions, Enqueue(s) PROVE Typed'
  BY <1>4, <1>k, <1>s, <1>t, <1>u, <1>v, <1>w, <1>y, MoveType DEF Enqueue, QueueRun, Procs
<1>5. ASSUME NEW s \in Sessions, ResumeWrite(s) PROVE Typed'
  <2>1. s \in Procs /\ ~At(s, "idle") /\ RunOf(s) \in Runs
    BY <1>b, <1>5 DEF ResumeWrite, Procs, At
  <2>2. late' \subseteq Runs
    BY <1>0, <1>5, <2>1 DEF ResumeWrite, TypeOK
  <2> QED
    BY <1>5, <2>1, <2>2, <1>k, <1>s, <1>t, <1>u, <1>v, <1>w, MoveType DEF ResumeWrite
<1>6. ASSUME NEW p \in Procs, Refresh(p) \/ RefreshFinished(p) PROVE Typed'
  <2>1. ~At(p, "idle")
    BY <1>6 DEF Refresh, RefreshFinished, At
  <2> QED
    BY <1>6, <2>1, <1>b, <1>c, <1>k, <1>t, <1>u, <1>v, <1>w, <1>y, <1>x, MoveType
       DEF Refresh, RefreshFinished
<1>7. ASSUME NEW p \in Procs, Start(p) \/ PipelineEvent(p) PROVE Typed'
  <2>1. ~At(p, "idle")
    BY <1>7 DEF Start, PipelineEvent, At
  <2> QED
    BY <1>7, <2>1, <1>a, <1>k, <1>t, <1>u, <1>v, <1>w, <1>y, <1>x, MoveType
       DEF Start, PipelineEvent
<1>8. ASSUME NEW p \in Procs, SelectCandidates(p) PROVE Typed'
  <2>1. ~At(p, "idle")
    BY <1>8 DEF SelectCandidates, Locking, At
  <2>2. status' \in [Runs -> RunStatus \cup {"absent"}]
    BY <1>8, <1>s, <1>x, <1>k DEF SelectCandidates, WriteStatus
  <2> QED
    BY <1>8, <2>1, <2>2, <1>k, <1>t, <1>u, <1>v, <1>w, <1>y, MoveType DEF SelectCandidates
<1>9. ASSUME NEW p \in Procs, CompleteRun(p) \/ FailRun(p) PROVE Typed'
  <2>1. ~At(p, "idle")
    BY <1>9 DEF CompleteRun, FailRun, InPipeline, At
  <2> QED
    BY <1>9, <2>1, <1>k, <1>s, <1>t, <1>u, <1>v, <1>w, <1>y, MoveType DEF CompleteRun, FailRun
<1>10. ASSUME NEW p \in Procs, Finalize(p) PROVE Typed'
  BY <1>10, <1>t, <1>u, <1>v, <1>w, <1>y, <1>x, MoveType DEF Finalize
<1>11. ASSUME NEW p \in Procs, Crash(p) PROVE Typed'
  <2>1. resumes' \in Nat
    BY <1>0, <1>11 DEF Crash, TypeOK
  <2> QED
    BY <1>11, <2>1, <1>t, <1>u, <1>v, <1>x, <1>y, MoveType DEF Crash
<1>12. CASE UNCHANGED vars
  BY <1>0, <1>12 DEF vars, bounds, Typed, TypeOK, ProcOK, At, RunOf
<1> QED
  BY <1>1, <1>2, <1>3, <1>4, <1>5, <1>6, <1>7, <1>8, <1>9, <1>10, <1>11, <1>12
     DEF Next, ClaimAny, ApiStep, Execute

\* Types are preserved in every deployment, in both runner modes.
THEOREM TypeCorrect == Spec => []TypeOK
<1>1. Init => Typed
  BY RunsAssumption DEF Init, Typed, TypeOK, ProcOK, At, Idle, PC, RunStatus
<1>2. Typed => TypeOK
  BY DEF Typed
<1> QED
  BY <1>1, <1>2, TypeStep, PTL DEF Spec

-----------------------------------------------------------------------------

\* A step of process p that concerns the run r leaves every other run as it is.
LEMMA OneRow ==
  ASSUME Inv, NEW p \in Procs, NEW r \in Runs,
         \A q \in Procs \ {p} : proc'[q] = proc[q],
         ~At(p, "idle") => RunOf(p) = r,
         proc'[p].pc # "idle" => proc'[p].run = r,
         \A t \in Runs \ {r} : status'[t] = status[t] /\ (t \in late' <=> t \in late),
         RowOK(r)'
  PROVE  \A t \in Runs : RowOK(t)'
<1> SUFFICES ASSUME NEW t \in Runs, t # r PROVE RowOK(t)'
  OBVIOUS
<1>1. RowOK(t) /\ status'[t] = status[t] /\ (t \in late' <=> t \in late)
  BY DEF Inv
<1>2. \A q \in Procs : Has(q, t)' => q # p /\ Has(q, t) /\ proc'[q] = proc[q]
  BY DEF Has, At, RunOf
<1>3. \A q \in Procs : Executes(q, t)' => Has(q, t)'
  BY DEF Executes, Engaged, Has, At
<1>4. \A q \in Procs : Executes(q, t)' => Executes(q, t)
  BY <1>2, <1>3 DEF Executes, RunOf
<1>5. ASSUME NEW q \in Procs, Has(q, t)' PROVE HolderOK(q, t)'
  <2>1. HolderOK(q, t) /\ proc'[q] = proc[q]
    BY <1>1, <1>2, <1>5 DEF RowOK
  <2> QED
    BY <1>1, <1>4, <2>1 DEF HolderOK, At
<1>6. status'[t] = "pending" => \A q, u \in Procs : Has(q, t)' /\ Has(u, t)' => q = u
  BY <1>1, <1>2 DEF RowOK
<1>7. t \notin late' => \A q, u \in Procs : Executes(q, t)' /\ Executes(u, t)' => q = u
  BY <1>1, <1>4 DEF RowOK
<1>8. t \in late' => status'[t] \notin {"absent", "pending"}
  BY <1>1 DEF RowOK
<1> QED
  BY <1>5, <1>6, <1>7, <1>8 DEF RowOK

\* A process past its claim, or its INSERT, goes on with its run r or stops.  It writes the
\* row only while it executes it, and goes on executing only a run that says running.
ExecutorWrites(p, r) ==
    /\ Has(p, r) /\ proc[p].pc \notin {"enqueue", "resuming"}
    /\ proc'[p].pc # "idle" => proc'[p].run = r /\ proc'[p].pc \notin {"enqueue", "resuming"}
    /\ \A q \in Procs \ {p} : proc'[q] = proc[q]
    /\ Executes(p, r)' => Executes(p, r)
    /\ \A t \in Runs \ {r} : status'[t] = status[t]
    /\ \/ status'[r] = status[r]
       \/ /\ Executes(p, r)
          /\ status'[r] \in {"running", "completed", "failed"}
          /\ Executes(p, r)' => status'[r] = "running"
    /\ late' = late

LEMMA ExecutorStep ==
  ASSUME Inv, NEW p \in Procs, NEW r \in Runs, ExecutorWrites(p, r)
  PROVE  \A t \in Runs : RowOK(t)'
<1>0. RowOK(r)
  BY DEF Inv
<1>1. \A q \in Procs : Has(q, r)' => Has(q, r)
  BY DEF ExecutorWrites, Has, At, RunOf
<1>2. \A q \in Procs : Executes(q, r)' => Executes(q, r)
  BY DEF ExecutorWrites, Executes, RunOf
<1>3. \A q \in Procs : Executes(q, r) => Has(q, r)
  BY DEF Executes, Engaged, Has, At
<1>4. ASSUME NEW q \in Procs, Has(q, r)' PROVE HolderOK(q, r)'
  <2>0. HolderOK(q, r)
    BY <1>0, <1>1, <1>4 DEF RowOK
  <2>1. CASE q = p
    <3>1. ~At(q, "enqueue")' /\ ~At(q, "resuming")'
      BY <1>4, <2>1 DEF ExecutorWrites, Has, At
    <3> QED
      BY <1>2, <2>0, <2>1, <3>1 DEF HolderOK, ExecutorWrites
  <2>2. CASE q # p /\ status'[r] = status[r]
    BY <1>2, <2>0, <2>2 DEF HolderOK, ExecutorWrites, At
  <2>3. CASE q # p /\ status'[r] # status[r]
    <3>1. Executes(p, r) /\ Has(p, r) /\ proc'[q] = proc[q]
      BY <1>3, <2>3 DEF ExecutorWrites
    <3>2. status[r] # "pending"
      BY <1>0, <1>1, <1>4, <2>3, <3>1 DEF RowOK
    <3>3. r \notin late => ~Executes(q, r)
      BY <1>0, <2>3, <3>1 DEF RowOK
    <3> QED
      BY <1>2, <2>0, <2>3, <3>1, <3>2, <3>3 DEF HolderOK, ExecutorWrites, At
  <2> QED
    BY <2>1, <2>2, <2>3
<1>5. RowOK(r)'
  BY <1>0, <1>1, <1>2, <1>4 DEF RowOK, ExecutorWrites
<1>6. ~At(p, "idle") => RunOf(p) = r
  BY DEF ExecutorWrites, Has
<1> QED
  BY <1>5, <1>6, OneRow DEF ExecutorWrites

\* The steps of an execution, and its end.
LEMMA ExecuteWrites ==
  ASSUME Typed, NEW p \in Procs, Execute(p) \/ Finalize(p)
  PROVE  RunOf(p) \in Runs /\ ExecutorWrites(p, RunOf(p))
<1>0. /\ proc \in [Procs -> Records] /\ \A q \in Procs : ProcOK(q)
      /\ status \in [Runs -> RunStatus \cup {"absent"}]
  BY DEF Typed, TypeOK, Records
<1>1. ~At(p, "idle") /\ proc[p].pc \notin {"enqueue", "resuming"}
  BY DEF Execute, Finalize, Refresh, Start, SelectCandidates, PipelineEvent, CompleteRun, FailRun,
     RefreshFinished, InPipeline, At, Locking
<1>2. RunOf(p) \in Runs
  BY <1>0, <1>1 DEF ProcOK
<1> DEFINE r == RunOf(p)
<1>r. r \in Runs /\ RunOf(p) = r
  BY <1>2
<1> HIDE DEF r
<1>3. ASSUME NEW point, NEW v, Goto(p, point, v)
      PROVE  /\ proc'[p].pc = point /\ proc'[p].run = r
             /\ \A q \in Procs \ {p} : proc'[q] = proc[q]
  BY <1>0, <1>r, <1>3 DEF Goto
<1>4. CASE Refresh(p) \/ Start(p) \/ PipelineEvent(p)
  BY <1>0, <1>1, <1>r, <1>3, <1>4 DEF Refresh, Start, PipelineEvent, ExecutorWrites, Has, At, Executes,
     Engaged, RunOf
<1>5. CASE SelectCandidates(p)
  <2>1. Goto(p, "selected", "running") /\ late' = late /\ proc[p].pc \in Engaged
    BY <1>5 DEF SelectCandidates, Locking, Engaged
  <2>2. /\ status'[r] = status[r] \/ status'[r] = "running"
        /\ \A t \in Runs \ {r} : status'[t] = status[t]
    BY <1>0, <1>r, <1>5 DEF SelectCandidates
  <2>3. proc'[p].pc = "selected" /\ proc'[p].run = r /\ \A q \in Procs \ {p} : proc'[q] = proc[q]
    BY <1>3, <2>1
  <2> QED
    BY <1>1, <1>r, <2>1, <2>2, <2>3 DEF ExecutorWrites, Has, At, Executes
<1>6. CASE CompleteRun(p) \/ FailRun(p)
  <2>1. PICK x \in {"completed", "failed"}, point \in {"refresh", "finalize"} :
            WriteStatus(r, x) /\ Goto(p, point, x) /\ late' = late /\ proc[p].pc \in Engaged
    BY <1>r, <1>6 DEF CompleteRun, FailRun, InPipeline, At, Engaged
  <2>2. status'[r] = x /\ \A t \in Runs \ {r} : status'[t] = status[t]
    BY <1>0, <1>r, <2>1 DEF WriteStatus
  <2>3. proc'[p].pc = point /\ proc'[p].run = r /\ \A q \in Procs \ {p} : proc'[q] = proc[q]
    BY <1>3, <2>1
  <2> QED
    BY <1>1, <1>r, <2>1, <2>2, <2>3 DEF ExecutorWrites, Has, At, Executes, Engaged
<1>7. CASE RefreshFinished(p) \/ Finalize(p)
  <2>1. /\ status' = status /\ late' = late /\ proc'[p].pc \in {"finalize", "idle"}
        /\ proc'[p].pc # "idle" => proc'[p].run = r
        /\ \A q \in Procs \ {p} : proc'[q] = proc[q]
    BY <1>0, <1>3, <1>7 DEF RefreshFinished, Finalize, Release, Idle
  <2> QED
    BY <1>1, <1>r, <2>1 DEF ExecutorWrites, Has, At, Executes, Engaged
<1> QED
  BY <1>r, <1>4, <1>5, <1>6, <1>7 DEF Execute, r

\* Inv is inductive: requests write only runs that nobody executes, or make them late.
LEMMA InvStep == ASSUME WorkerMode PROVE Inv /\ [Next]_vars => Inv'
<1> SUFFICES ASSUME Inv, [Next]_vars PROVE \A t \in Runs : RowOK(t)'
  BY TypeStep DEF Inv
<1>0. /\ Typed /\ \A r \in Runs : RowOK(r)
      /\ proc \in [Procs -> Records] /\ \A p \in Procs : ProcOK(p)
      /\ status \in [Runs -> RunStatus \cup {"absent"}] /\ late \subseteq Runs
  BY DEF Inv, Typed, TypeOK, Records
<1>p. \A p \in Procs : ~At(p, "idle") => RunOf(p) \in Runs
  BY <1>0 DEF ProcOK
<1>x. \A p \in Procs, r \in Runs : Executes(p, r) => Has(p, r)
  BY DEF Executes, Engaged, Has, At
\* The other processes that have the run of a step, before and after it.
<1>o. ASSUME NEW p \in Procs, \A q \in Procs \ {p} : proc'[q] = proc[q]
      PROVE  \A q \in Procs \ {p}, r \in Runs :
                /\ Has(q, r)' <=> Has(q, r)
                /\ Executes(q, r)' <=> Executes(q, r)
                /\ At(q, "enqueue")' <=> At(q, "enqueue")
                /\ At(q, "resuming")' <=> At(q, "resuming")
                /\ proc'[q].view = proc[q].view
  BY <1>o DEF Has, Executes, At, RunOf
<1>1. ASSUME NEW w \in Workers, NEW r \in Runs, Claim(w, r) PROVE \A t \in Runs : RowOK(t)'
  <2>0. w \in Procs
    BY DEF Procs
  <2>1. /\ proc'[w].pc = "claimed" /\ proc'[w].run = r
        /\ \A p \in Procs \ {w} : proc'[p] = proc[p]
        /\ At(w, "idle") /\ status[r] = "queued" /\ status'[r] = "running"
        /\ \A q \in Runs \ {r} : status'[q] = status[q]
        /\ late' = late
    BY <1>0, <1>1, <2>0 DEF Claim, Claimable, WriteStatus
  <2>2. \A p \in Procs : Has(p, r) => HolderOK(p, r) /\ ~At(p, "enqueue")
    BY <1>0, <2>1 DEF RowOK, HolderOK
  <2>3. r \notin late => \A p \in Procs : ~Executes(p, r)
    BY <1>x, <2>1, <2>2 DEF HolderOK
  <2>4. ASSUME NEW p \in Procs, Has(p, r)' PROVE HolderOK(p, r)'
    <3>1. CASE p = w
      BY <2>1, <3>1 DEF HolderOK, At
    <3>2. CASE p # w
      <4>1. Has(p, r) /\ HolderOK(p, r) /\ ~At(p, "enqueue")'
        BY <1>o, <2>0, <2>1, <2>2, <2>4, <3>2
      <4> QED
        BY <1>o, <2>0, <2>1, <3>2, <4>1 DEF HolderOK
    <3> QED
      BY <3>1, <3>2
  <2>5. r \notin late => \A p \in Procs : Executes(p, r)' => p = w
    BY <1>o, <2>0, <2>1, <2>3
  <2>6. RowOK(r)'
    BY <2>1, <2>4, <2>5 DEF RowOK
  <2> QED
    BY <2>0, <2>1, <2>6, OneRow DEF Inv
<1>2. ASSUME NEW s \in Sessions, NEW r \in Runs, CreateRun(s, r) PROVE \A t \in Runs : RowOK(t)'
  <2>0. s \in Procs
    BY DEF Procs
  <2>1. /\ proc'[s].pc \in {"enqueue", "ready"} /\ proc'[s].run = r
        /\ \A p \in Procs \ {s} : proc'[p] = proc[p]
        /\ At(s, "idle") /\ status[r] = "absent" /\ status'[r] = "pending"
        /\ \A q \in Runs \ {r} : status'[q] = status[q]
        /\ late' = late
    BY <1>0, <1>2, <2>0 DEF CreateRun, InsertRun, WriteStatus
  <2>2. \A p \in Procs : ~Has(p, r)
    BY <1>0, <2>1 DEF RowOK, HolderOK
  <2>3. r \notin late
    BY <1>0, <2>1 DEF RowOK
  <2>4. \A p \in Procs : Has(p, r)' => p = s
    BY <1>o, <2>0, <2>1, <2>2
  <2>5. HolderOK(s, r)'
    BY <2>0, <2>1 DEF HolderOK, At
  <2>6. \A p \in Procs : Executes(p, r)' => p = s
    BY <1>o, <1>x, <2>0, <2>1, <2>2
  <2>7. RowOK(r)'
    BY <2>1, <2>3, <2>4, <2>5, <2>6 DEF RowOK
  <2> QED
    BY <2>0, <2>1, <2>7, OneRow DEF Inv
<1>3. ASSUME NEW s \in Sessions, NEW r \in Runs, ResumeRead(s, r) PROVE \A t \in Runs : RowOK(t)'
  <2>0. s \in Procs
    BY DEF Procs
  <2>1. /\ proc'[s].pc = "resuming" /\ proc'[s].run = r /\ proc'[s].view \in {"failed", "cancelled"}
        /\ \A p \in Procs \ {s} : proc'[p] = proc[p]
        /\ At(s, "idle") /\ status[r] \in {"failed", "cancelled"} /\ status' = status
        /\ late' = late
    BY <1>0, <1>3, <2>0 DEF ResumeRead, ReadForResume
  <2>2. ~Executes(s, r)'
    BY <2>1 DEF Executes, Engaged, RunOf
  <2>3. ASSUME NEW p \in Procs, Has(p, r)' PROVE HolderOK(p, r)'
    <3>1. CASE p = s
      BY <2>1, <2>2, <3>1 DEF HolderOK, At
    <3>2. CASE p # s
      <4>1. HolderOK(p, r)
        BY <1>0, <1>o, <2>0, <2>1, <2>3, <3>2 DEF RowOK
      <4> QED
        BY <1>o, <2>0, <2>1, <3>2, <4>1 DEF HolderOK
    <3> QED
      BY <3>1, <3>2
  <2>4. \A p \in Procs : Executes(p, r)' => Executes(p, r)
    BY <1>o, <2>0, <2>1, <2>2
  <2>5. RowOK(r) /\ status'[r] = status[r] /\ status[r] # "pending" /\ (r \in late' <=> r \in late)
    BY <1>0, <2>1
  <2>6. RowOK(r)'
    BY <2>3, <2>4, <2>5 DEF RowOK
  <2> QED
    BY <2>0, <2>1, <2>6, OneRow DEF Inv
<1>4. ASSUME NEW s \in Sessions, Enqueue(s) \/ ResumeWrite(s) PROVE \A t \in Runs : RowOK(t)'
  <2>0. s \in Procs
    BY DEF Procs
  <2>r. PICK r \in Runs : r = RunOf(s)
    BY <1>p, <1>4, <2>0 DEF Enqueue, QueueRun, ResumeWrite, At
  <2>1. /\ proc'[s].pc = "idle" /\ \A p \in Procs \ {s} : proc'[p] = proc[p]
        /\ Has(s, r) /\ status'[r] = "queued"
        /\ \A q \in Runs \ {r} : status'[q] = status[q]
        /\ late \subseteq late' /\ late' \subseteq late \cup {r}
    BY <1>0, <1>4, <2>0, <2>r DEF Enqueue, QueueRun, ResumeWrite, Release, WriteStatus, Idle, WorkerMode,
       Has, At
  <2>h. RowOK(r) /\ HolderOK(s, r)
    BY <1>0, <2>0, <2>1 DEF RowOK
  <2>2. \A p \in Procs : p # s /\ Has(p, r) => ~At(p, "enqueue") /\ HolderOK(p, r)
    <3> SUFFICES ASSUME NEW p \in Procs, p # s, Has(p, r) PROVE ~At(p, "enqueue") /\ HolderOK(p, r)
      OBVIOUS
    <3>1. HolderOK(p, r)
      BY <2>h DEF RowOK
    <3>2. status[r] # "pending"
      BY <2>0, <2>1, <2>h DEF RowOK
    <3> QED
      BY <3>1, <3>2 DEF HolderOK
  \* Nobody executes the run, unless it is late.
  <2>3. r \notin late' => \A p \in Procs : ~Executes(p, r)
    <3> SUFFICES ASSUME r \notin late', NEW p \in Procs, Executes(p, r) PROVE FALSE
      OBVIOUS
    <3>1. Has(p, r) /\ HolderOK(p, r) /\ r \notin late
      BY <1>x, <2>1, <2>h DEF RowOK
    <3>2. status[r] \in {"running", "pending"}
      BY <3>1 DEF HolderOK
    <3>3. p # s
      BY <1>4 DEF Enqueue, QueueRun, ResumeWrite, At, Executes, Engaged
    <3>4. status[r] = "running"
      BY <2>0, <2>1, <2>h, <3>1, <3>2, <3>3 DEF RowOK
    <3>5. CASE Enqueue(s)
      BY <2>h, <3>4, <3>5 DEF Enqueue, QueueRun, HolderOK
    <3>6. CASE ResumeWrite(s)
      <4>1. Overtaken(s)
        BY <2>h, <2>r, <3>4, <3>6 DEF ResumeWrite, HolderOK, Overtaken
      <4> QED
        BY <2>r, <3>6, <4>1 DEF ResumeWrite
    <3> QED
      BY <1>4, <3>5, <3>6
  <2>4. ASSUME NEW p \in Procs, Has(p, r)' PROVE HolderOK(p, r)'
    <3>1. p # s
      BY <2>1, <2>4 DEF Has, At
    <3>2. Has(p, r) /\ HolderOK(p, r) /\ ~At(p, "enqueue")'
      BY <1>o, <2>0, <2>1, <2>2, <2>4, <3>1
    <3>3. r \notin late' => ~Executes(p, r)'
      BY <1>o, <2>0, <2>1, <2>3, <3>1
    <3> QED
      BY <1>o, <2>0, <2>1, <3>1, <3>2, <3>3 DEF HolderOK
  <2>5. \A p \in Procs : Executes(p, r)' => Executes(p, r)
    <3>1. ~Executes(s, r)'
      BY <2>1 DEF Executes, Engaged
    <3> QED
      BY <1>o, <2>0, <2>1, <3>1
  <2>6. RowOK(r)'
    BY <2>1, <2>3, <2>4, <2>5 DEF RowOK
  <2>7. ~At(s, "idle") => RunOf(s) = r
    BY <2>r
  <2> QED
    BY <2>0, <2>1, <2>6, <2>7, OneRow DEF Inv
<1>5. ASSUME NEW p \in Procs, Execute(p) \/ Finalize(p) PROVE \A t \in Runs : RowOK(t)'
  <2>1. RunOf(p) \in Runs /\ ExecutorWrites(p, RunOf(p))
    BY <1>0, <1>5, ExecuteWrites
  <2> QED
    BY <2>1, ExecutorStep
<1>6. ASSUME NEW p \in Procs, Crash(p) PROVE \A t \in Runs : RowOK(t)'
  <2>1. /\ proc'[p].pc = "idle" /\ \A q \in Procs \ {p} : proc'[q] = proc[q]
        /\ status' = status /\ late' = late
    BY <1>0, <1>6 DEF Crash, Release, Idle
  <2>r. PICK r \in Runs : r = RunOf(p)
    BY <1>p, <1>6 DEF Crash
  <2>h. RowOK(r) /\ status'[r] = status[r] /\ (r \in late' <=> r \in late)
    BY <1>0, <2>1
  <2>2. \A q \in Procs : Has(q, r)' => q # p /\ Has(q, r)
    BY <1>o, <2>1 DEF Has, At
  <2>3. \A q \in Procs : Executes(q, r)' => Executes(q, r)
    <3>1. ~Executes(p, r)'
      BY <2>1 DEF Executes, Engaged
    <3> QED
      BY <1>o, <2>1, <3>1
  <2>4. ASSUME NEW q \in Procs, Has(q, r)' PROVE HolderOK(q, r)'
    <3>1. q # p /\ HolderOK(q, r)
      BY <2>2, <2>4, <2>h DEF RowOK
    <3> QED
      BY <1>o, <2>1, <2>3, <2>h, <3>1 DEF HolderOK
  <2>5. RowOK(r)'
    BY <2>2, <2>3, <2>4, <2>h DEF RowOK
  <2> QED
    BY <2>1, <2>5, <2>r, OneRow DEF Inv
<1>7. CASE UNCHANGED vars
  <2> SUFFICES ASSUME NEW t \in Runs PROVE RowOK(t)'
    OBVIOUS
  <2>1. RowOK(t) /\ UNCHANGED <<status, proc, late>>
    BY <1>0, <1>7 DEF vars
  <2> QED
    BY <2>1 DEF RowOK, HolderOK, Has, Executes, At, RunOf
<1> QED
  BY <1>1, <1>2, <1>3, <1>4, <1>5, <1>6, <1>7 DEF Next, ClaimAny, ApiStep

\* Initially everything is idle and no row exists.
LEMMA InvInit == Init => Inv
<1> SUFFICES ASSUME Init PROVE Inv
  OBVIOUS
<1>1. Typed
  BY RunsAssumption DEF Init, Typed, TypeOK, ProcOK, At, Idle, PC, RunStatus
<1>2. \A p \in Procs : proc[p].pc = "idle"
  BY DEF Init, Idle
<1>3. \A r \in Runs : RowOK(r)
  BY <1>2 DEF Init, RowOK, Has, At, Executes, Engaged
<1> QED
  BY <1>1, <1>3 DEF Inv

\* What the invariant says of the whole table.
LEMMA Excludes == Inv => NoDoubleExecution /\ ExecutingIsRunning
<1> SUFFICES ASSUME Inv PROVE NoDoubleExecution /\ ExecutingIsRunning
  OBVIOUS
<1>1. NoDoubleExecution
  BY DEF Inv, RowOK, NoDoubleExecution
<1>2. ASSUME NEW w \in Workers, NEW r \in Runs \ late, Executes(w, r) PROVE status[r] = "running"
  <2>1. w \in Procs /\ w \notin Sessions /\ Has(w, r)
    BY <1>2, RunsAssumption DEF Procs, Executes, Engaged, Has, At
  <2>2. HolderOK(w, r)
    BY <2>1 DEF Inv, RowOK
  <2> QED
    BY <1>2, <2>1, <2>2 DEF HolderOK
<1> QED
  BY <1>1, <1>2 DEF ExecutingIsRunning

\* No run is ever executed twice at the same time, by however many workers and requests,
\* in a deployment whose API queues runs, but for runs that a stale resume queued.
THEOREM Exclusive == ASSUME WorkerMode PROVE Spec => []NoDoubleExecution
BY InvInit, InvStep, Excludes, PTL DEF Spec

\* Under the same assumption the committed status of a run in a worker is running.
THEOREM RunningWhileExecuted == ASSUME WorkerMode PROVE Spec => []ExecutingIsRunning
BY InvInit, InvStep, Excludes, PTL DEF Spec

-----------------------------------------------------------------------------

\* What an executor, or a process that is done, does to its row.
LEMMA ExecuteKeepsCompleted ==
  ASSUME Inv, NEW p \in Procs, Execute(p) \/ Finalize(p), NEW r \in Runs \ late,
         status[r] = "completed"
  PROVE  status'[r] = "completed"
<1>1. RunOf(p) \in Runs /\ ExecutorWrites(p, RunOf(p))
  BY ExecuteWrites DEF Inv
<1>2. CASE RunOf(p) # r
  BY <1>1, <1>2 DEF ExecutorWrites
<1>3. CASE RunOf(p) = r
  <2>1. HolderOK(p, r)
    BY <1>1, <1>3 DEF ExecutorWrites, Inv, RowOK
  <2>2. ~Executes(p, r)
    BY <2>1 DEF HolderOK
  <2> QED
    BY <1>1, <1>3, <2>2 DEF ExecutorWrites
<1> QED
  BY <1>2, <1>3

\* Nobody moves a completed run but a resume that had read failed or cancelled: every
\* other writer has found, or made, the status something else.
THEOREM CompletedStays == ASSUME WorkerMode PROVE Spec => CompletedIsFinal
<1>1. Inv /\ [Next]_vars =>
        [\A r \in Runs \ late' : status[r] = "completed" => status'[r] = "completed"]_vars
  <2> SUFFICES ASSUME Inv, Next, NEW r \in Runs \ late', status[r] = "completed"
               PROVE status'[r] = "completed"
    BY DEF vars
  <2>0. /\ status \in [Runs -> RunStatus \cup {"absent"}]
        /\ \A p \in Procs : Has(p, r) => HolderOK(p, r)
    BY DEF Inv, Typed, TypeOK, RowOK
  <2>1. ASSUME NEW w \in Workers, NEW q \in Runs, Claim(w, q) PROVE status'[r] = "completed"
    BY <2>0, <2>1 DEF Claim, Claimable, WriteStatus
  <2>2. ASSUME NEW s \in Sessions, ApiStep(s) PROVE status'[r] = "completed"
    <3>1. CASE RunOf(s) # r \/ At(s, "idle")
      BY <2>0, <2>2, <3>1 DEF ApiStep, CreateRun, InsertRun, ResumeRead, ReadForResume, Enqueue,
         QueueRun, ResumeWrite, WriteStatus, At
    <3>2. CASE RunOf(s) = r /\ ~At(s, "idle")
      <4>1. HolderOK(s, r)
        BY <2>0, <3>2 DEF Has, Procs
      <4>2. ~Enqueue(s)
        BY <3>2, <4>1 DEF Enqueue, QueueRun, HolderOK
      <4>3. ~ResumeWrite(s)
        BY <3>2, <4>1 DEF ResumeWrite, HolderOK, Overtaken
      <4> QED
        BY <2>2, <3>2, <4>2, <4>3 DEF ApiStep, CreateRun, InsertRun, ResumeRead, ReadForResume
    <3> QED
      BY <3>1, <3>2
  <2>3. ASSUME NEW p \in Procs, Execute(p) \/ Finalize(p) \/ Crash(p)
        PROVE status'[r] = "completed"
    <3>1. CASE Execute(p) \/ Finalize(p)
      <4>1. late' = late
        BY <3>1, ExecuteWrites DEF Inv, ExecutorWrites
      <4> QED
        BY <3>1, <4>1, ExecuteKeepsCompleted
    <3>2. CASE Crash(p)
      BY <3>2 DEF Crash
    <3> QED
      BY <2>3, <3>1, <3>2
  <2> QED
    BY <2>1, <2>2, <2>3 DEF Next, ClaimAny
<1> QED
  BY <1>1, InvInit, InvStep, PTL DEF Spec, CompletedIsFinal

-----------------------------------------------------------------------------
(* The refinement of RunLifecycle                                           *)

\* Executor(r) is the process executing r, if there is one and the run is not late.
ExecutorDefined ==
    \A r \in Runs :
        /\ r \notin late => \A p \in Procs : Executes(p, r) => Executor(r) = p
        /\ r \in late \/ (\A p \in Procs : ~Executes(p, r)) => Executor(r) = Nobody

\* At most one process executes such a run, so the choice in Executor is no choice.
LEMMA ExecutorUnique == NoDoubleExecution => ExecutorDefined
BY DEF NoDoubleExecution, ExecutorDefined, Executor

\* A step that gives run r the state x and the executor e, and no other run anything
\* else, is the abstract assignment Set(r, x, e).
LEMMA AbstractSet ==
  ASSUME status \in [Runs -> RunStatus \cup {"absent"}], NEW r \in Runs, NEW x, NEW e,
         r \notin late, late' = late, status' = [status EXCEPT ![r] = x],
         Executor(r)' = e, \A q \in Runs \ {r} : Executor(q)' = Executor(q)
  PROVE  Lifecycle!Set(r, x, e)
BY DEF Lifecycle!Set

\* A step after which the same processes execute the same runs has the same executors.
LEMMA SameExecutors ==
  ASSUME ExecutorDefined, ExecutorDefined', NEW S \in SUBSET Runs,
         \A q \in S : (q \in late' <=> q \in late),
         \A p \in Procs, q \in S : Executes(p, q)' <=> Executes(p, q)
  PROVE  \A q \in S : Executor(q)' = Executor(q)
<1> SUFFICES ASSUME NEW q \in S PROVE Executor(q)' = Executor(q)
  OBVIOUS
<1>1. CASE q \notin late /\ \E p \in Procs : Executes(p, q)
  BY <1>1 DEF ExecutorDefined
<1>2. CASE q \in late \/ \A p \in Procs : ~Executes(p, q)
  BY <1>2 DEF ExecutorDefined
<1> QED
  BY <1>1, <1>2

\* Every step of the queue is a step of the life of one run, or none at all.
LEMMA LifecycleStep ==
  ASSUME WorkerMode, Inv, Inv', [Next]_vars
  PROVE  [Lifecycle!RNext]_(Lifecycle!rvars)
<1>0. /\ Typed /\ status \in [Runs -> RunStatus \cup {"absent"}]
      /\ proc \in [Procs -> Records] /\ \A p \in Procs : ProcOK(p)
      /\ \A r \in Runs : RowOK(r)
  BY DEF Inv, Typed, TypeOK, Records
<1>d. ExecutorDefined /\ ExecutorDefined'
  <2>1. Inv' => NoDoubleExecution'
    BY Excludes, PTL
  <2>2. NoDoubleExecution' => ExecutorDefined'
    BY ExecutorUnique, PTL
  <2> QED
    BY <2>1, <2>2, Excludes, ExecutorUnique
<1>p. \A p \in Procs : ~At(p, "idle") => RunOf(p) \in Runs
  BY <1>0 DEF ProcOK
<1>x. \A p \in Procs, r \in Runs : Executes(p, r) => Has(p, r)
  BY DEF Executes, Engaged, Has, At
\* Only a run that says pending or running has an executor.
<1>n. \A r \in Runs : status[r] \notin {"pending", "running"} => Executor(r) = Nobody
  <2> SUFFICES ASSUME NEW r \in Runs, status[r] \notin {"pending", "running"}, r \notin late
               PROVE Executor(r) = Nobody
    BY <1>d DEF ExecutorDefined
  <2>1. ASSUME NEW p \in Procs, Executes(p, r) PROVE FALSE
    BY <1>0, <1>x, <2>1 DEF RowOK, HolderOK
  <2> QED
    BY <1>d, <2>1 DEF ExecutorDefined
<1>e. \A p \in Procs, r \in Runs \ late : Executes(p, r) =>
          Executor(r) = p /\ Executor(r) # Nobody /\ Lifecycle!Held(r)
  <2> SUFFICES ASSUME NEW p \in Procs, NEW r \in Runs \ late, Executes(p, r)
               PROVE Executor(r) = p /\ Executor(r) # Nobody /\ Lifecycle!Held(r)
    OBVIOUS
  <2>1. Executor(r) = p /\ Executor(r) # Nobody
    BY <1>d, RunsAssumption DEF ExecutorDefined, Procs
  <2>2. status[r] \in {"pending", "running"}
    BY <1>0, <1>x DEF RowOK, HolderOK
  <2> QED
    BY <2>1, <2>2 DEF Lifecycle!Held
\* The same processes are at the same points but for one.
<1>o. ASSUME NEW p \in Procs, \A q \in Procs \ {p} : proc'[q] = proc[q],
             NEW r \in Runs, ~At(p, "idle") => RunOf(p) = r,
             proc'[p].pc # "idle" => proc'[p].run = r
      PROVE  \A q \in Procs, t \in Runs : q # p \/ t # r => (Executes(q, t)' <=> Executes(q, t))
  BY <1>o DEF Executes, RunOf, Engaged, At
\* A stutter: the same rows and the same executors.
<1>s. ASSUME status' = status, late' = late,
             \A p \in Procs, q \in Runs : Executes(p, q)' <=> Executes(p, q)
      PROVE UNCHANGED Lifecycle!rvars
  <2>1. \A q \in Runs : Executor(q)' = Executor(q)
    BY <1>d, <1>s, SameExecutors
  <2> QED
    BY <1>s, <2>1 DEF Lifecycle!rvars
\* A step of process p that gives the run r the status x.
<1>g. ASSUME NEW p \in Procs, NEW r \in Runs, NEW x,
             \A q \in Procs \ {p} : proc'[q] = proc[q],
             ~At(p, "idle") => RunOf(p) = r, proc'[p].pc # "idle" => proc'[p].run = r,
             status' = [status EXCEPT ![r] = x], late' = late
      PROVE  /\ \A e : r \notin late /\ Executor(r)' = e => Lifecycle!Set(r, x, e)
             /\ r \in late /\ x \in {"queued", "running", "completed", "failed"}
                  => Lifecycle!Wander(r)
  <2>1. \A q \in Procs, t \in Runs \ {r} : Executes(q, t)' <=> Executes(q, t)
    BY <1>g, <1>o
  <2>2. \A t \in Runs \ {r} : Executor(t)' = Executor(t)
    BY <1>d, <1>g, <2>1, SameExecutors
  <2>3. r \in late => Executor(r)' = Executor(r)
    BY <1>d, <1>g DEF ExecutorDefined
  <2>4. r \in late => [t \in Runs |-> Executor(t)]' = [t \in Runs |-> Executor(t)]
    BY <2>2, <2>3
  <2>5. \A e : r \notin late /\ Executor(r)' = e => Lifecycle!Set(r, x, e)
    BY <1>0, <1>g, <2>2, AbstractSet
  <2> QED
    BY <1>g, <2>4, <2>5 DEF Lifecycle!Wander
<1>1. ASSUME NEW w \in Workers, NEW r \in Runs, Claim(w, r) PROVE Lifecycle!RNext
  <2>0. w \in Procs
    BY DEF Procs
  <2>x. PICK x : x = "running"
    OBVIOUS
  <2>1. /\ proc'[w].pc = "claimed" /\ proc'[w].run = r
        /\ \A p \in Procs \ {w} : proc'[p] = proc[p]
        /\ status[r] = "queued" /\ status' = [status EXCEPT ![r] = x]
        /\ At(w, "idle") /\ late' = late
    BY <1>0, <1>1, <2>0, <2>x DEF Claim, Claimable, WriteStatus
  <2>2. r \notin late => Executor(r)' = w
    <3>1. Executes(w, r)'
      BY <2>1 DEF Executes, RunOf, Engaged
    <3> QED
      BY <1>d, <2>0, <2>1, <3>1 DEF ExecutorDefined
  <2>3. CASE r \in late
    <3>1. Lifecycle!Wander(r)
      BY <1>g, <2>0, <2>x, <2>1, <2>3
    <3> QED
      BY <3>1 DEF Lifecycle!RNext
  <2>4. CASE r \notin late
    <3>1. Lifecycle!Set(r, x, w)
      BY <1>g, <2>0, <2>1, <2>2, <2>4
    <3>2. Executor(r) = Nobody
      BY <1>n, <2>1
    <3>3. Lifecycle!Take(r, w)
      BY <2>1, <2>x, <3>1, <3>2 DEF Lifecycle!Take
    <3> QED
      BY <2>0, <3>3 DEF Lifecycle!RNext
  <2> QED
    BY <2>3, <2>4
<1>2. ASSUME NEW s \in Sessions, NEW r \in Runs, CreateRun(s, r) PROVE Lifecycle!RNext
  <2>0. s \in Procs
    BY DEF Procs
  <2>x. PICK x : x = "pending"
    OBVIOUS
  <2>1. /\ proc'[s].pc \in {"enqueue", "ready"} /\ proc'[s].run = r
        /\ \A p \in Procs \ {s} : proc'[p] = proc[p]
        /\ status[r] = "absent" /\ status' = [status EXCEPT ![r] = x]
        /\ At(s, "idle") /\ late' = late
    BY <1>0, <1>2, <2>0, <2>x DEF CreateRun, InsertRun, WriteStatus
  <2>2. r \notin late /\ \A p \in Procs : ~Executes(p, r)
    BY <1>0, <1>x, <2>1 DEF RowOK, HolderOK
  <2>3. \A p \in Procs \ {s} : ~Executes(p, r)'
    BY <1>o, <2>0, <2>1, <2>2
  <2>4. CASE proc'[s].pc = "enqueue"
    <3>1. \A p \in Procs : ~Executes(p, r)'
      BY <2>3, <2>4 DEF Executes, Engaged
    <3>2. Executor(r)' = Nobody
      BY <1>d, <3>1 DEF ExecutorDefined
    <3>3. Lifecycle!Set(r, x, Nobody)
      BY <1>g, <2>0, <2>1, <2>2, <3>2
    <3>4. Lifecycle!Create(r)
      BY <2>1, <2>x, <3>3 DEF Lifecycle!Create
    <3> QED
      BY <3>4 DEF Lifecycle!RNext
  <2>5. CASE proc'[s].pc = "ready"
    <3>1. Executes(s, r)'
      BY <2>1, <2>5 DEF Executes, Engaged, RunOf
    <3>2. Executor(r)' = s
      BY <1>d, <2>0, <2>1, <2>2, <3>1 DEF ExecutorDefined
    <3>3. Lifecycle!Set(r, x, s)
      BY <1>g, <2>0, <2>1, <2>2, <3>2
    <3>4. Lifecycle!CreateTaken(r, s)
      BY <2>1, <2>x, <3>3 DEF Lifecycle!CreateTaken
    <3> QED
      BY <2>0, <3>4 DEF Lifecycle!RNext
  <2> QED
    BY <2>1, <2>4, <2>5
<1>3. ASSUME NEW s \in Sessions, NEW r \in Runs, ResumeRead(s, r)
      PROVE UNCHANGED Lifecycle!rvars
  <2>0. s \in Procs
    BY DEF Procs
  <2>1. /\ proc'[s].pc = "resuming" /\ At(s, "idle") /\ status' = status /\ late' = late
        /\ \A p \in Procs \ {s} : proc'[p] = proc[p]
    BY <1>0, <1>3, <2>0 DEF ResumeRead, ReadForResume
  <2> QED
    BY <1>s, <2>1 DEF Executes, RunOf, Engaged, At
\* Requests that queue a run: a new one, one that has ended, or an overtaken one.
<1>4. ASSUME NEW s \in Sessions, Enqueue(s) \/ ResumeWrite(s)
      PROVE [Lifecycle!RNext]_(Lifecycle!rvars)
  <2>0. s \in Procs
    BY DEF Procs
  <2>r. PICK r \in Runs : r = RunOf(s)
    BY <1>p, <1>4, <2>0 DEF Enqueue, QueueRun, ResumeWrite, At
  <2>x. PICK x : x = "queued"
    OBVIOUS
  <2>1. /\ proc'[s].pc = "idle" /\ \A p \in Procs \ {s} : proc'[p] = proc[p]
        /\ Has(s, r) /\ ~Executes(s, r) /\ ~Executes(s, r)' /\ RunOf(s) = r
        /\ status' = [status EXCEPT ![r] = x]
    BY <1>0, <1>4, <2>0, <2>r, <2>x DEF Enqueue, QueueRun, ResumeWrite, Release, WriteStatus, Idle,
       WorkerMode, Has, At, Executes, Engaged
  <2>h. RowOK(r) /\ HolderOK(s, r)
    BY <1>0, <2>0, <2>1 DEF RowOK
  <2>2. \A p \in Procs, t \in Runs : Executes(p, t)' <=> Executes(p, t)
    BY <1>o, <2>0, <2>1
  <2>n. late' = late /\ Executor(r) = Nobody => Executor(r)' = Nobody
    BY <1>d, <2>2 DEF ExecutorDefined, Executor
  <2>3. CASE Enqueue(s)
    <3>1. status[r] = "pending" /\ late' = late /\ r \notin late
      BY <2>3, <2>h, <2>r DEF Enqueue, QueueRun, HolderOK, RowOK
    <3>2. \A p \in Procs : ~Executes(p, r)
      BY <1>x, <2>0, <2>1, <2>h, <3>1 DEF RowOK
    <3>3. Executor(r) = Nobody
      BY <1>d, <3>2 DEF ExecutorDefined
    <3>4. Lifecycle!Set(r, x, Nobody)
      BY <1>g, <2>0, <2>1, <2>n, <3>1, <3>3
    <3>5. Lifecycle!Offer(r)
      BY <2>x, <3>1, <3>3, <3>4 DEF Lifecycle!Offer
    <3> QED
      BY <3>5 DEF Lifecycle!RNext
  <2>4. CASE ResumeWrite(s) /\ ~Overtaken(s)
    <3>1. /\ late' = late /\ status[r] \in {"failed", "cancelled", "queued"}
      BY <1>0, <2>4, <2>h, <2>r DEF ResumeWrite, Overtaken, HolderOK, RunStatus
    <3>2. Executor(r) = Nobody
      BY <1>n, <3>1
    <3>3. CASE r \in late
      <4>1. Lifecycle!Wander(r)
        BY <1>g, <2>0, <2>1, <2>x, <3>1, <3>3
      <4> QED
        BY <4>1 DEF Lifecycle!RNext
    <3>4. CASE r \notin late /\ status[r] = "queued"
      BY <1>0, <1>s, <2>1, <2>2, <2>x, <3>1, <3>4
    <3>5. CASE r \notin late /\ status[r] # "queued"
      <4>1. Lifecycle!Set(r, x, Nobody)
        BY <1>g, <2>0, <2>1, <2>n, <3>1, <3>2, <3>5
      <4>2. Lifecycle!Retry(r)
        BY <2>x, <3>1, <3>5, <4>1 DEF Lifecycle!Retry
      <4> QED
        BY <4>2 DEF Lifecycle!RNext
    <3> QED
      BY <3>3, <3>4, <3>5
  <2>5. CASE ResumeWrite(s) /\ Overtaken(s)
    <3>1. late' = late \cup {r} /\ status[r] \in {"running", "completed"}
      BY <2>5, <2>r DEF ResumeWrite, Overtaken
    <3>2. \A t \in Runs \ {r} : Executor(t)' = Executor(t)
      BY <1>d, <2>2, <3>1, SameExecutors
    <3>3. Executor(r)' = Nobody
      BY <1>d, <3>1 DEF ExecutorDefined
    <3>4. Lifecycle!Overtake(r)
      BY <2>1, <2>x, <3>1, <3>2, <3>3 DEF Lifecycle!Overtake
    <3> QED
      BY <3>4 DEF Lifecycle!RNext
  <2> QED
    BY <1>4, <2>3, <2>4, <2>5
\* A process that stops executing: the run ends.
<1>5. ASSUME NEW p \in Procs, CompleteRun(p) \/ FailRun(p) PROVE Lifecycle!RNext
  <2>1. Executes(p, RunOf(p)) /\ RunOf(p) \in Runs /\ late' = late
    BY <1>p, <1>5 DEF CompleteRun, FailRun, InPipeline, Executes, Engaged, At
  <2>r. PICK r \in Runs : r = RunOf(p)
    BY <2>1
  <2>2. PICK x \in {"completed", "failed"} :
            /\ status' = [status EXCEPT ![r] = x]
            /\ proc'[p].pc \notin Engaged \cup {"idle"} /\ proc'[p].run = r
            /\ \A q \in Procs \ {p} : proc'[q] = proc[q]
    BY <1>0, <1>5, <2>r DEF CompleteRun, FailRun, WriteStatus, Goto, Engaged
  <2>3. CASE r \in late
    <3>1. Lifecycle!Wander(r)
      BY <1>g, <2>1, <2>r, <2>2, <2>3
    <3> QED
      BY <3>1 DEF Lifecycle!RNext
  <2>4. CASE r \notin late
    <3>1. \A q \in Procs : ~Executes(q, r)'
      <4>1. \A q \in Procs \ {p} : ~Executes(q, r)
        BY <1>0, <2>1, <2>r, <2>4 DEF RowOK
      <4> QED
        BY <1>o, <2>r, <2>2, <4>1 DEF Executes
    <3>2. Executor(r)' = Nobody
      BY <1>d, <3>1 DEF ExecutorDefined
    <3>3. Lifecycle!Set(r, x, Nobody)
      BY <1>g, <2>1, <2>r, <2>2, <2>4, <3>2
    <3>4. Lifecycle!Held(r)
      BY <1>e, <2>1, <2>r, <2>4
    <3>5. Lifecycle!End(r)
      BY <3>3, <3>4 DEF Lifecycle!End
    <3> QED
      BY <3>5 DEF Lifecycle!RNext
  <2> QED
    BY <2>3, <2>4
\* The commit in the middle of an execution publishes the status, unless it says so already.
<1>6. ASSUME NEW p \in Procs, SelectCandidates(p) PROVE [Lifecycle!RNext]_(Lifecycle!rvars)
  <2>1. Executes(p, RunOf(p)) /\ RunOf(p) \in Runs /\ late' = late
    BY <1>p, <1>6 DEF SelectCandidates, Locking, Executes, Engaged, At
  <2>r. PICK r \in Runs : r = RunOf(p)
    BY <2>1
  <2>x. PICK x : x = "running"
    OBVIOUS
  <2>2. /\ proc'[p].pc = "selected" /\ proc'[p].run = r
        /\ \A q \in Procs \ {p} : proc'[q] = proc[q]
        /\ status' = status \/ status' = [status EXCEPT ![r] = x]
    BY <1>0, <1>6, <2>r, <2>x DEF SelectCandidates, Goto
  <2>3. \A q \in Procs, t \in Runs : Executes(q, t)' <=> Executes(q, t)
    <3>1. Executes(p, r)'
      BY <2>2 DEF Executes, Engaged, RunOf
    <3> QED
      BY <1>o, <2>1, <2>r, <2>2, <3>1
  <2>4. CASE status' = status
    BY <1>s, <2>1, <2>3, <2>4
  <2>5. CASE status' = [status EXCEPT ![r] = x] /\ r \in late
    <3>1. Lifecycle!Wander(r)
      BY <1>g, <2>1, <2>r, <2>x, <2>2, <2>5
    <3> QED
      BY <3>1 DEF Lifecycle!RNext
  <2>6. CASE status' = [status EXCEPT ![r] = x] /\ r \notin late
    <3>1. Executor(r)' = Executor(r)
      <4>1. \A q \in {r} : Executor(q)' = Executor(q)
        BY <1>d, <2>1, <2>3, SameExecutors
      <4> QED
        BY <4>1
    <3>2. Lifecycle!Set(r, x, Executor(r))
      BY <1>g, <2>1, <2>r, <2>2, <2>6, <3>1
    <3>3. Lifecycle!Held(r)
      BY <1>e, <2>1, <2>r, <2>6
    <3>4. Lifecycle!Publish(r)
      BY <2>x, <3>2, <3>3 DEF Lifecycle!Publish
    <3> QED
      BY <3>4 DEF Lifecycle!RNext
  <2> QED
    BY <2>2, <2>4, <2>5, <2>6
<1>7. ASSUME NEW p \in Procs, Crash(p) PROVE [Lifecycle!RNext]_(Lifecycle!rvars)
  <2>1. /\ status' = status /\ late' = late /\ proc'[p].pc = "idle" /\ RunOf(p) \in Runs
        /\ \A q \in Procs \ {p} : proc'[q] = proc[q]
    BY <1>0, <1>p, <1>7 DEF Crash, Release, Idle
  <2>r. PICK r \in Runs : r = RunOf(p)
    BY <2>1
  <2>2. CASE Executes(p, r) /\ r \notin late
    <3>1. \A q \in Procs : ~Executes(q, r)'
      <4>1. \A q \in Procs \ {p} : ~Executes(q, r)
        BY <1>0, <2>2 DEF RowOK
      <4>2. ~Executes(p, r)'
        BY <2>1 DEF Executes, Engaged
      <4> QED
        BY <1>o, <2>r, <2>1, <4>1, <4>2
    <3>2. Executor(r)' = Nobody
      BY <1>d, <3>1 DEF ExecutorDefined
    <3>x. PICK x : x = status[r]
      OBVIOUS
    <3>3. status' = [status EXCEPT ![r] = x]
      BY <1>0, <2>1, <3>x
    <3>4. Lifecycle!Set(r, x, Nobody)
      BY <1>g, <2>1, <2>r, <2>2, <3>2, <3>3
    <3>5. Lifecycle!Held(r)
      BY <1>e, <2>2
    <3>6. Lifecycle!Abandon(r)
      BY <3>x, <3>4, <3>5 DEF Lifecycle!Abandon
    <3> QED
      BY <3>6 DEF Lifecycle!RNext
  <2>3. CASE ~Executes(p, r)
    <3>1. \A q \in Procs, t \in Runs : Executes(q, t)' <=> Executes(q, t)
      BY <2>1, <2>r, <2>3 DEF Executes, RunOf, Engaged
    <3> QED
      BY <1>s, <2>1, <3>1
  <2>4. CASE r \in late
    <3>1. \A q \in Procs, t \in Runs \ {r} : Executes(q, t)' <=> Executes(q, t)
      BY <1>o, <2>r, <2>1
    <3>2. \A t \in Runs \ {r} : Executor(t)' = Executor(t)
      BY <1>d, <2>1, <3>1, SameExecutors
    <3>3. Executor(r)' = Executor(r)
      BY <1>d, <2>1, <2>4 DEF ExecutorDefined
    <3> QED
      BY <2>1, <3>2, <3>3 DEF Lifecycle!rvars
  <2> QED
    BY <2>2, <2>3, <2>4
<1>8. ASSUME NEW p \in Procs,
             Refresh(p) \/ Start(p) \/ PipelineEvent(p) \/ RefreshFinished(p) \/ Finalize(p)
      PROVE UNCHANGED Lifecycle!rvars
  <2>1. status' = status /\ late' = late
    BY <1>8 DEF Refresh, Start, PipelineEvent, RefreshFinished, Finalize
  <2>2. /\ \A q \in Procs \ {p} : proc'[q] = proc[q]
        /\ \/ proc'[p].run = proc[p].run /\ proc[p].pc \in Engaged /\ proc'[p].pc \in Engaged
           \/ proc[p].pc \notin Engaged /\ proc'[p].pc \notin Engaged
    BY <1>0, <1>8 DEF Refresh, Start, PipelineEvent, RefreshFinished,
       Finalize, Goto, Release, Idle, Engaged, At, RunOf
  <2> QED
    BY <1>s, <2>1, <2>2 DEF Executes, RunOf
<1>9. CASE UNCHANGED vars
  BY <1>s, <1>9 DEF vars, Executes, RunOf
<1> QED
  BY <1>1, <1>2, <1>3, <1>4, <1>5, <1>6, <1>7, <1>8, <1>9
     DEF Next, ClaimAny, ApiStep, Execute

\* The queue, its workers and its requests implement the life of a run that RunLifecycle
\* promises: one executor at a time, no run lost but by a crash, completed is the end,
\* for every run that no stale resume has made stray.
THEOREM Refinement == ASSUME WorkerMode PROVE Spec => ImplementsLifecycle
<1>1. Init => Lifecycle!RInit
  BY DEF Init, Lifecycle!RInit, Executor, Executes, Idle, Engaged, RunOf, Procs
<1>2. Inv /\ Inv' /\ [Next]_vars => [Lifecycle!RNext]_(Lifecycle!rvars)
  BY LifecycleStep
<1> QED
  BY <1>1, <1>2, InvInit, InvStep, PTL DEF Spec, ImplementsLifecycle, Lifecycle!RSpec
=============================================================================

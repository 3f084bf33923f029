------------------------------ MODULE BatchPipeline ------------------------------
(***************************************************************************)
(* One migration run as RunService.execute_run carries it out: batch after *)
(* batch, chunk after chunk of the staged rows, through validate, load and *)
(* the load records, failing at any point and resumed from its checkpoint. *)
(*                                                                         *)
(* Rows were assigned to the run's batches before (StagingSelection).  The *)
(* destination is external: a set of rows is sent, some are accepted.  A   *)
(* chunk is one step: nothing else touches the rows of a run that is       *)
(* executed by one worker (MigrationRuns).                                 *)
(***************************************************************************)
EXTENDS Naturals, FiniteSets, FiniteSetsExt

CONSTANTS
    Rows,           \* staged rows tagged with one of the run's batches
    BatchCount,     \* len(run.batches)
    ChunkSize,      \* run_chunk_size
    SampleSize,     \* load_audit_sample_size
    AuditMode,      \* load_audit_mode: "full" or "summary"
    BatchOf,        \* [Rows -> batch number]
    RowNumber,      \* [Rows -> _row_number], the position in the uploaded file
    Accounts,       \* external ids
    Account,        \* [Rows -> Accounts]
    MaxFaults,      \* bound: refused rows, refused loads and exceptions in all
    MaxResumes      \* bound: resumes of the run

Batches == 1 .. BatchCount

ASSUME PipelineAssumption ==
    /\ IsFiniteSet(Rows)
    /\ BatchCount \in Nat \ {0} /\ ChunkSize \in Nat \ {0} /\ SampleSize \in Nat
    /\ AuditMode \in {"full", "summary"}
    /\ BatchOf \in [Rows -> Batches]
    /\ RowNumber \in [Rows -> Nat \ {0}]
    /\ Account \in [Rows -> Accounts]
    /\ MaxFaults \in Nat /\ MaxResumes \in Nat

\* populate_batch keeps one row per external id.
ASSUME SelectionAssumption ==
    \A q, r \in Rows : BatchOf[q] = BatchOf[r] /\ Account[q] = Account[r] => q = r

VARIABLES
    allowErrors,    \* allow_validation_errors of the run's config
    status,         \* of the run, as committed
    checkpoint,     \* run.checkpoint: batch_id and last_row_number
    resumeFrom,     \* run_config.resume_from_checkpoint
    batch,          \* number of the batch being executed
    resuming,       \* resume_checkpoint of execute_run, emptied after a batch
    after,          \* after_row_number of the batch
    known,          \* loaded_external_ids, read once per batch
    loaded,         \* all_loaded of the batch
    outcome,        \* of the batch: "open", "success" or "failure"
    recorded,       \* accounts with a load record of status loaded
    refused,        \* rows the validation rules refused
    arrived,        \* accounts the destination has accepted
    repeated,       \* accounts it has accepted more than once
    dropped,        \* accounts it accepted in a request whose answer did not say so
    faults,         \* faults so far (bound only)
    resumes         \* resumes so far (bound only)

local == <<batch, resuming, after, known, loaded, outcome>>
atTarget == <<arrived, repeated, dropped>>
outside == <<recorded, refused, atTarget>>
pvars == <<allowErrors, status, checkpoint, resumeFrom, local, outside, faults, resumes>>

NoCheckpoint == [batch |-> 0, row |-> 0]
Number(rs) == {RowNumber[r] : r \in rs}
AccountsOf(rs) == {Account[r] : r \in rs}
RowsOf(b) == {r \in Rows : BatchOf[r] = b}

Init ==
    /\ allowErrors \in BOOLEAN
    /\ status = "queued"
    /\ checkpoint = NoCheckpoint /\ resumeFrom = NoCheckpoint
    /\ batch = 0 /\ resuming = NoCheckpoint /\ after = 0
    /\ known = {} /\ loaded = {} /\ outcome = "open"
    /\ recorded = {} /\ refused = {} /\ dropped = {}
    /\ arrived = {} /\ repeated = {}
    /\ faults = 0 /\ resumes = 0

-----------------------------------------------------------------------------
(* execute_run: entering a batch                                            *)

\* Mutation: the cursor is not reset when another batch begins.
EnterKeepingCursor(b, cp) ==
    /\ batch' = b
    /\ resuming' = cp
    /\ after' = IF cp.batch = b THEN cp.row ELSE after
    /\ known' = recorded'
    /\ loaded' = {} /\ outcome' = "open"

\* The cursor starts at the checkpoint only if that was made in this very batch; the
\* accounts loaded so far are read before the first chunk and not again.
EnterBatch(b, cp) ==
    /\ batch' = b
    /\ resuming' = cp
    /\ after' = IF cp.batch = b THEN cp.row ELSE 0
    /\ known' = recorded'
    /\ loaded' = {} /\ outcome' = "open"

Start ==
    /\ status = "queued"
    /\ status' = "running"
    /\ UNCHANGED outside
    /\ EnterBatch(1, resumeFrom)
    /\ UNCHANGED <<allowErrors, checkpoint, resumeFrom, faults, resumes>>

-----------------------------------------------------------------------------
(* _execute_batch_pipeline: one chunk                                       *)

InBatch == status = "running" /\ outcome = "open"

\* Mutation: the page begins with the row the cursor is at.
RemainingFrom == {r \in RowsOf(batch) : RowNumber[r] >= after}
Remaining == {r \in RowsOf(batch) : RowNumber[r] > after}

\* ORDER BY _row_number LIMIT chunk_size, in any order among equal numbers.
Chunks ==
    {c \in SUBSET Remaining :
        /\ Cardinality(c) <= ChunkSize
        /\ Cardinality(c) < ChunkSize => c = Remaining
        /\ \A r \in c, q \in Remaining \ c : RowNumber[r] <= RowNumber[q]}

\* The rules refuse some rows of a chunk.  When they leave none, the load stage
\* extracts the chunk again, checks it against the schema only, and loads it.
Refused(bad) == refused' = refused \cup bad
Valid(c, bad) == IF bad = c THEN c ELSE c \ bad
Tolerated(bad, lost) ==
    /\ bad # {} => allowErrors
    /\ bad \cup lost # {} => faults < MaxFaults

\* Rows are sent to the destination unless their account was loaded before the batch.
Sendable(rs) == {r \in rs : Account[r] \notin known}

\* The rows in got are accepted and reported.  Those in lost are accepted by a request
\* whose answer does not say so: an answer in error, a throttled one (after which the
\* request is repeated), or one that never came.  A chunk has one row per account.
Import(got, lost) ==
    /\ arrived' = arrived \cup AccountsOf(got \cup lost)
    /\ repeated' = repeated \cup (arrived \cap AccountsOf(got \cup lost))
                            \cup (AccountsOf(got) \cap AccountsOf(lost))
    /\ dropped' = dropped \cup AccountsOf(lost)

\* The row number of the last row of the chunk.
Advance(c) == {n \in Number(c) : \A m \in Number(c) : m <= n}

\* Every valid row is accepted, or skipped as already loaded.
LoadChunk ==
    /\ InBatch
    /\ \E c \in Chunks \ {{}} : \E bad \in SUBSET c :
       \E lost \in SUBSET Sendable(Valid(c, bad)) :
          /\ Tolerated(bad, lost)
          /\ Refused(bad)
          /\ faults' = IF bad \cup lost = {} THEN faults ELSE faults + 1
          /\ Import(Sendable(Valid(c, bad)), lost)
          /\ loaded' = loaded \cup Valid(c, bad)
          /\ after' \in Advance(c)
          /\ checkpoint' = [batch |-> batch, row |-> after']
    /\ UNCHANGED <<allowErrors, batch, resuming, known, outcome, status, resumeFrom,
                   recorded, resumes>>

\* Mutation: the cursor of the checkpoint is already behind the chunk.
ChunkFailedPast ==
    /\ faults < MaxFaults /\ faults' = faults + 1
    /\ outcome' = "failure"
    /\ checkpoint' = [batch |-> batch, row |-> after + ChunkSize]
    /\ UNCHANGED <<allowErrors, after, batch, resuming, known, status, resumeFrom,
                   recorded, resumes>>

\* The chunk failed: the checkpoint keeps the cursor before the chunk.
ChunkFailed ==
    /\ faults < MaxFaults /\ faults' = faults + 1
    /\ outcome' = "failure"
    /\ checkpoint' = [batch |-> batch, row |-> after]
    /\ UNCHANGED <<allowErrors, after, batch, resuming, known, status, resumeFrom,
                   recorded, resumes>>

\* A run that does not allow validation errors loads nothing of such a chunk.
RefuseChunk ==
    /\ InBatch /\ ~allowErrors
    /\ \E c \in Chunks : \E bad \in SUBSET c \ {{}} : Refused(bad)
    /\ ChunkFailed
    /\ UNCHANGED <<loaded, atTarget>>

\* Some valid rows are reported as failed: by the target check, which comes before the
\* look at the loaded accounts, or by the destination, which may have accepted them.
RefuseLoad ==
    /\ InBatch
    /\ \E c \in Chunks \ {{}} : \E bad \in SUBSET c : \E ok \in SUBSET Valid(c, bad) :
       \E lost \in SUBSET Sendable(Valid(c, bad)) :
          /\ bad # {} => allowErrors
          /\ Refused(bad)
          /\ ok # Valid(c, bad)
          /\ Import(Sendable(ok), lost)
          /\ loaded' = loaded \cup ok
    /\ ChunkFailed

\* An exception in the load stage (a timeout, a broken connection): the pipeline turns
\* it into a failed stage without results, whatever the destination has accepted.
LoseResults ==
    /\ InBatch
    /\ \E c \in Chunks : \E bad \in SUBSET c : \E lost \in SUBSET Sendable(Valid(c, bad)) :
          /\ bad # {} => allowErrors
          /\ Refused(bad)
          /\ Import({}, lost)
    /\ ChunkFailed
    /\ UNCHANGED loaded

\* An empty page ends the batch.
DrainBatch ==
    /\ InBatch
    /\ Chunks = {{}}
    /\ outcome' = "success"
    /\ UNCHANGED <<allowErrors, batch, resuming, after, known, loaded, status, checkpoint,
                   resumeFrom, outside, faults, resumes>>

-----------------------------------------------------------------------------
(* execute_run: leaving a batch                                             *)

Recorded(rs) == recorded' = recorded \cup AccountsOf(rs)

\* Mutation: nothing is recorded for a batch that failed.
RecordSuccess ==
    /\ IF outcome = "success" THEN Recorded(loaded) ELSE Recorded({})
    /\ UNCHANGED <<dropped, faults>>

\* Mutation: the whole batch is recorded, as its candidates are.
RecordBatch ==
    /\ Recorded(RowsOf(batch))
    /\ UNCHANGED <<dropped, faults>>

\* persist_results: every loaded row in full mode, a sample of them in summary mode;
\* or an error, which is logged and rolled back to the savepoint.
Record ==
    \/ /\ IF AuditMode = "full" THEN Recorded(loaded)
          ELSE \E sample \in SUBSET loaded :
                  /\ Cardinality(sample) = Min({SampleSize, Cardinality(loaded)})
                  /\ Recorded(sample)
       /\ UNCHANGED <<dropped, faults>>
    \/ /\ faults < MaxFaults /\ faults' = faults + 1
       /\ Recorded({})
       /\ dropped' = dropped \cup AccountsOf(loaded)

\* A failed batch fails the run; later batches are not touched.
FailRun ==
    /\ status = "running" /\ outcome = "failure"
    /\ Record
    /\ status' = "failed"
    /\ UNCHANGED <<allowErrors, checkpoint, resumeFrom, local, refused, arrived, repeated, resumes>>

BatchDone == status = "running" /\ outcome = "success"
Checkpoint == checkpoint' = [batch |-> batch, row |-> after]

\* The checkpoint the run was resumed from is forgotten after the first batch.
NextBatch ==
    /\ BatchDone /\ batch < BatchCount
    /\ Record /\ Checkpoint
    /\ EnterBatch(batch + 1, NoCheckpoint)
    /\ UNCHANGED <<allowErrors, status, resumeFrom, refused, arrived, repeated, resumes>>

CompleteRun ==
    /\ BatchDone /\ batch = BatchCount
    /\ Record /\ Checkpoint
    /\ status' = "completed"
    /\ UNCHANGED <<allowErrors, resumeFrom, local, refused, arrived, repeated, resumes>>

\* POST /runs/{id}/resume.
Resume ==
    /\ status = "failed" /\ resumes < MaxResumes
    /\ status' = "queued"
    /\ resumeFrom' = checkpoint
    /\ resumes' = resumes + 1
    /\ UNCHANGED <<allowErrors, checkpoint, local, outside, faults>>

Execute ==
    \/ Start \/ LoadChunk \/ RefuseChunk \/ RefuseLoad \/ LoseResults \/ DrainBatch
    \/ NextBatch \/ CompleteRun \/ FailRun
Next == Execute \/ Resume
Spec == Init /\ [][Next]_pvars

\* The worker carries a run it has claimed to its end; nobody must resume it.
FairSpec == Spec /\ WF_pvars(Execute)

-----------------------------------------------------------------------------
(* Properties                                                               *)

CheckpointType == [batch : 0 .. BatchCount, row : Nat]
TypeOK ==
    /\ allowErrors \in BOOLEAN
    /\ status \in {"queued", "running", "completed", "failed"}
    /\ checkpoint \in CheckpointType /\ resumeFrom \in CheckpointType
    /\ resuming \in CheckpointType
    /\ batch \in 0 .. BatchCount /\ after \in Nat
    /\ known \subseteq Accounts /\ loaded \subseteq Rows
    /\ outcome \in {"open", "success", "failure"}
    /\ recorded \subseteq Accounts /\ refused \subseteq Rows
    /\ dropped \subseteq Accounts
    /\ arrived \subseteq Accounts /\ repeated \subseteq Accounts
    /\ faults \in Nat /\ resumes \in Nat

Arrived(r) == Account[r] \in arrived

\* A run that says completed has lost no account: each of its rows is at the
\* destination, or was refused by a rule in a run that allows that.
CompletedLosesNothing ==
    status = "completed" => \A r \in Rows : Arrived(r) \/ (allowErrors /\ r \in refused)

\* The checkpoint never runs ahead of the loads, so that resuming from it skips
\* nothing: every row of its batch up to its number has arrived or was refused.
CheckpointCovered ==
    \A r \in RowsOf(checkpoint.batch) :
        RowNumber[r] <= checkpoint.row => Arrived(r) \/ r \in refused

\* Idempotent load: a failed and resumed run imports no account twice, although it
\* executes again what was executed before, unless an answer or a record of it was lost.
ImportedOnce == repeated \subseteq dropped

\* What the load records say was loaded is at the destination, also when the run
\* failed half way.
RecordedHasArrived == recorded \subseteq arrived

\* A run that was started ends, in whatever chunk or batch it fails: the chunk loop
\* makes progress.
StartedRunEnds == status = "running" ~> status \in {"completed", "failed"}
=============================================================================

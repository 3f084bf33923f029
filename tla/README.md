# A formal model of the migration utility

This directory is a TLA+ development of the migration utility: models of the parts of
the program where order, concurrency and failure decide whether accounts are migrated
once, twice or not at all, TLC configurations that check them on small instances, and
proofs of what can be proved for every instance. Paths below are relative to the
repository; `…/` stands for `migration_utility/`.

`PROJECT.json` ties it together: which definition stands for which lines, which run
checks which property, which mutation of the code breaks it, what was found.

## 1. The system

A project migrates accounts (or other entities) from files to a destination platform.
Files are ingested into a staging table; a *run* selects staged rows for its *batches*,
and every batch goes through validate, transform and load in chunks; a *wave plan*
creates several runs and watches their failures. A PostgreSQL database holds all state.
An API process serves operators, and any number of worker processes execute queued runs.

| component | code | state | operations | how it interacts |
|---|---|---|---|---|
| Run queue and lifecycle | `…/api/routes/migration_runs.py`, `…/worker/claim.py`, `…/worker/runner_worker.py`, `…/services/runner.py` | `migration_runs`: status, claim, checkpoint | create, resume, claim, execute, finalize | API and workers share the table only; row locks and `SKIP LOCKED` |
| Wave programmes | `…/waves/service.py`, `…/api/routes/waves.py` | `migration_wave_plans`: status and three counters; `wave_number` in the run's config | create, pause, resume, `on_run_finished` | the runner calls `on_run_finished` after every run; plans cancel and create runs |
| Batch pipeline, checkpoints | `…/services/runner.py`, `…/core/pipeline.py`, `…/rules/pipeline_hooks.py`, `…/services/load_records.py` | cursor and results of a batch; checkpoint of the run; load records | start, chunk, fail, resume | reads staging through a connection of its own, calls the destination, reports to the run |
| Ingest, staging | `…/ingest/service.py`, `…/ingest/staging.py` | `ingest_files`, `ingest_errors`, one staging table per project and entity | upload, process, reprocess file, reprocess error | staging rows are committed separately from the session |
| Candidate selection | `…/selection/service.py`, `…/selection/engine.py` | `candidates`, `_batch_id` of the staged rows | populate a batch | called by a run for each batch; competes with other runs for rows |
| Destination load executor | `…/connectors/kraken.py`, `…/connectors/load_executor.py`, `…/connectors/idempotency.py` | thread pool, limiter, results | load, retry | called by the load stage; talks HTTP to the destination |
| Exception queue | `…/exceptions/service.py`, `…/fallout/service.py` | `exception_items` | sync errors and assessments, assign, override, resolve | fed by ingest, by assessments and by failed batches |
| Fallout classification, error catalogue | `…/kraken/errors/` | none: tables of codes, ranges and checks | classify a finding, classify an answer, look up a code | gives queue items their code, root cause and owner |
| Account health | `…/account_health/` | `account_health_assessments`, their records | assess, gate | reads staging; `…/waves/service.py` asks the gate before it creates a plan |
| Approval workflow | `…/workflow/`, `…/mapping/service.py`, `…/rules/service.py`, `…/fields/service.py`, `…/tariff/service.py` | rule sets with rules and mappings, tariff sets with mappings, `mapping_approvals` | create, seed, edit, transition, load tariffs | a run takes its rule set from here; tariffs go to the destination |
| Rules engine | `…/rules/engine.py`, `…/rules/loader.py` | values a unique rule has seen in a chunk | validate, transform | called by the stage handlers of a batch |
| STW transforms | `…/transforms/stw/` | overrides, tariff table and zones in the project's config | property type, area code, rate band; edit, reset | called by the transform engine; edited by other requests |
| Plug-ins, connectors, schemas | `…/plugins/`, `…/connectors/`, `…/schema/` | registries | resolve, validate against source or target | used by ingest, assessments and the load stage |
| Reconciliation | `…/reconciliation/service.py` | none of its own | count, report | reads candidates and load records |
| Rest | AI help, field catalogue, profiling, authentication, web UI, deployment | lookups and configuration | | |

What makes it hard:

* **Sessions.** A SQLAlchemy session keeps what it has read (`expire_on_commit=False`,
  `autoflush=False`, `…/datastore/session.py:35-44`), PostgreSQL runs READ COMMITTED, and
  an UPDATE contains only the columns that changed with respect to what the *session* saw.
  Between read and commit anything may happen to the row.
* **Commits in the middle.** A claim is committed before the work starts; selection commits
  inside an execution and so releases the run's row lock; staging rows are written through
  other connections that commit at once.
* **Failure half way.** A request to the destination may time out after it has been
  carried out; a worker may die at any point; one of several parallel requests may fail.
* **Requests that forget to commit.** `get_db` closes the session; what a handler only flushed
  is answered and gone. A dictionary changed in place is not seen as changed at all.
* **Decisions on stale states.** Approvals, edits and loads look at a state that was read
  when the request began, and write by primary key.
* **Repetition.** Failed runs are resumed from a checkpoint, files are processed again,
  rate-limited requests are retried, a paused plan is resumed.

What makes each component correct:

* queue — one executor per run, the row says running meanwhile, completed is final, every
  queued run ends;
* waves — the plan counts every wave that completed and none twice, a paused plan has nothing waiting, no wave is
  left behind, an active plan settles;
* pipeline — a completed run lost no account, the checkpoint never runs ahead, nothing is
  imported twice, load records are true, a run ends;
* staging and selection — no line vanishes, one row per account in a batch, a row leaves
  its batch only where selections overlap, candidates are what is loaded but for such rows;
* executor — results are complete or the call raises, nothing is sent after it ended, only
  harmless retries, it ends;
* exception queue — what is blocked or refused is on the queue, once;
* health and gate — of several staged rows of an account one is ready at most;
* agreement — nothing is signed off, run or sent to the destination that was not agreed,
  versions are unique, saved matrices do not mix, locked sets stand still;
* records — what the rules refuse does not load, what loads meets the target's contract, the
  derived fields are those of the right tariff row, a balanced report accounts for everybody.

## 2. The plan

| order | module | role | state |
|---|---|---|---|
| 1 | `MigrationRuns` | queue, workers, sessions, locks | done |
| 1 | `RunLifecycle` | what the queue promises | done |
| 1 | `MigrationRunsProofs` | type, exclusion, refinement for every instance | done |
| 2 | `WavePlans` (EXTENDS `MigrationRuns`), `WaveProgramme` | plans composed with the queue; what a plan promises | done |
| 2 | `WavePlansProofs` (EXTENDS `MigrationRunsProofs`) | types, pausing and counting, for any fleet | done |
| 3 | `BatchPipeline` | one run from chunk to chunk, with resumes | done |
| 3 | `BatchPipelineProofs` | every safety property of it, under the assumptions that are needed | done |
| 3 | `LoadExecutor`, `LoadStage` | the pool; what one load promises | done |
| 3 | `LoadExecutorProofs` | type, what is accepted twice, quiet end, refinement for every instance | done |
| 3 | `StagingSelection` | ingest and selection on one table | done |
| 3 | `StagingSelectionProofs` | ingest and selection for any number of requests and workers | done |
| 4 | `KrakenErrors`, `DestinationSchemas` | the catalogue and the field contracts, as operators | done |
| 4 | `AccountHealth` (EXTENDS both) | the fourteen checks, the score, the gate | done |
| 4 | `FalloutQueue` (EXTENDS `AccountHealth`) | uploads, assessments, runs and the exception queue they feed | done |
| 4 | `FalloutQueueProofs` | what is on the queue, for any number of requests; what the checks let through the gate | done |
| 5 | `StwTransforms` (EXTENDS `DestinationSchemas`), `RuleEngine` (EXTENDS it) | the transforms and the two engines, as operators | done |
| 5 | `RecordFlow` (EXTENDS `RuleEngine`) | records through the four stages, both adapters, load records, the report | done |
| 5 | `RecordFlowProofs` | which records reach the destination and how they are counted, for any batch, rules, mappings and answers; what the mappings make of them: id, rate band, area codes | done |
| 6 | `ApprovalWorkflow` | rule sets, tariff sets, approvals, what runs and loads take | done |
| 6 | `ApprovalWorkflowProofs` | every property of it for every instance | done |

The modules compose in two ways. `WavePlans` extends `MigrationRuns`, because the plan and
the workers write the same rows; `FalloutQueue` and `RecordFlow` extend the modules of the pure
functions they call, down to `DestinationSchemas`, which they share. The other boundaries are contracts: `RunLifecycle` lets
`BatchPipeline` assume one executor; `StagingSelection`'s `AccountOncePerBatch` is
`BatchPipeline`'s `SelectionAssumption`; `LoadStage` is what `BatchPipeline` uses of a
load (`LoadChunk`, `RefuseLoad`: a return; `LoseResults`: a raise); what `BatchPipeline` chooses
freely of a chunk (valid, refused, raising) is what `RecordFlow` computes; `check_health_gate`
of `AccountHealth` is the guard that `WavePlans` leaves out of the creation of a plan;
`execute_run` of `ApprovalWorkflow` is the part of a run that chooses its rule set.

## 3. The modules and the code

### MigrationRuns

`status`, `createdAt`, `claimedBy` are columns as committed. `proc[p]` is a worker
iteration or an API request with its session: `pc` says which statement comes next, `run`
which run it has in hand, `view` what its session believes the status to be. An UPDATE
that is flushed but not committed is not in `status`; it is a lock (`Locking` points).

| action | code |
|---|---|
| `CreateRun`, `Enqueue` | the two commits of `create_migration_run`; in mode `api`, or if the run's own config has `async` false, the request makes no second commit and executes the pending run itself |
| `ResumeRead`, `ResumeWrite` | the check of the status and the commit of `queued` |
| `Claim` | `SELECT … ORDER BY created_at LIMIT 1 FOR UPDATE SKIP LOCKED`, UPDATE, commit |
| `Refresh`, `RefreshFinished` | `db.refresh` after a commit, which replaces the view |
| `Start` | the first flush of `execute_run`, taking the row's lock |
| `SelectCandidates`, `PipelineEvent` | the commit after `populate_batch`, and the next flush |
| `CompleteRun`, `FailRun`, `Finalize` | the final commit, `_finalize_run` |
| `Crash` | death of the process or an exception that escapes |

`late` is a history variable: the runs that `ResumeWrite` queued although they had been
claimed, or had completed, since the request read their status. The route neither locks the row nor asks
again, so that two requests can do this; of these runs the invariants say nothing, of all others everything.
`MaxResumes` and `MaxCrashes` bound requests and deaths; nothing else is bounded but the
number of runs, workers and sessions.

### WavePlans

One plan. `plan` is its row, `wave` the `wave_number` of each run, `visit[p]` the copy of
plan and runs a session has read and not yet written back. Reading and committing are
separate actions of every operation, and the write uses the copy: `waves_completed` of the
copy plus one, the status column only if it differs from the copy, `cancelled` for the runs
that were queued in the copy. `QueueWaveRuns` gives all runs of one transaction the same
`createdAt`, so that `Claim` may take them in any order.

`revived` records which runs carry `resume_from_checkpoint` in their config: the pause
property is about the plan's own runs, not those an operator has put back by hand. `missed` is a history
variable: the completed runs that the plan may not count, because the process died before the update, the
plan was over, or another process had read the plan before and is going to write its own sum over this one. The
branch of `on_run_finished` for a failure percentage above the threshold is
not reachable for a run that did not fail: the load stage succeeds only without failed
records (`…/rules/pipeline_hooks.py:131-139`), so that the percentage of a completed run is
0. It is left out. The health gate, which is asked before a plan is created, is
`check_health_gate` of `AccountHealth`.

### BatchPipeline

One run of `BatchCount` batches. `Chunks` is the query of `fetch_staged_rows` in any order
it may return ties in; `LoadChunk`, `RefuseChunk`, `RefuseLoad` and `LoseResults` are the
four ways a chunk ends: all valid rows accepted, refused by the rules, accepted in part,
or an exception after any part was accepted. `Import(got, lost)` is what the destination makes of it:
it reports `got`, and accepts `lost` in requests whose answer does not say so (an error, a
throttled answer after which the request is repeated, or none). `Record` is `persist_results` with its
savepoint; `FailRun`, `NextBatch`, `CompleteRun` the ways out of a batch; `Resume` the API's.
`arrived`, `repeated` and `dropped` are history variables: the accounts the destination
accepted, those it accepted more than once, and those of requests whose results the
run never got, or could not persist. A crash of the worker in the middle is not here: it
leaves the run in `running`, and nothing continues it (`MigrationRuns`).

`known` is read once per batch, as in the code. `Valid` models the fall-back of
`run_load` when the rules have refused every row of a chunk.

### LoadExecutor

One call of `KrakenTargetAdapter.load`: `invalid` and `known` are chosen in any way,
`Position` and `BatchOf` are `chunk_records`, `state` follows each batch through its thread,
`slot` is the limiter at the grain of its interval, `Collect` and `CollectBroken` are the
`as_completed` loop in the calling thread. The destination is external, and may have accepted
any part of a request whatever it answers: `RefusedAs` is an answer in error (4xx, 5xx), or a
throttled one when the retries are used up, `RateLimited` one that is repeated. The code takes for
throttled not only a 429: it looks for a code in the body before it looks at the status
(`…/connectors/load_executor.py:71`), so that this may be an answer that loaded the whole batch.
`unsaid` remembers what was accepted that way. Assumed is only that an answer
that is neither lists what it loaded and what failed, and that the destination does not look at the
`Idempotency-Key` of the request. How long a sleep lasts does not matter for what is checked.

### StagingSelection

`rows[l]` is the sequence of tags of the staged copies of a line: processing a file again
appends another copy. `ProcessInsert` and `SelectTag` are commits of their own connections,
`ProcessCommit`, `FixCommit` and `SelectCommit` those of the session, with crashes
in between. `SelectAgain` is what happens when a batch that has candidates is populated
again and finds new rows: `{c.external_id for c in scalars(select(Candidate.external_id))}`
raises, because the query yields strings; no handler catches it, and the run is abandoned.
`SelectTag` writes whatever tag a row has by then: `missed` remembers what others have tagged since a worker read,
and `taken` what a batch has lost to others (history variables).
`RelaxSchema` stands for a release with another default schema, without which no
rejected line would ever pass.

### KrakenErrors, DestinationSchemas, AccountHealth

Operators without state. `DETAILED_ENTRIES` and `ALL_RANGES` are the tables of
`…/kraken/errors/detailed.py` and `…/kraken/errors/ranges.py`, with the columns the classifiers read (type, phase,
relevance, owner, category) and codes with one wording sharing a message; labels, triggers
and hints are left out. A text is reduced to the messages it contains and the code it
quotes, which is all that `lookup_by_message` and the regular expressions see.
`DestinationSchemas` holds the contracts of the plug-ins, the required fields of each target
and the source schema, and the three validations against them. `AccountHealth` is
`DEFAULT_HEALTH_CHECKS` as data, `findings`, `readiness_score`, `readiness_status`, `assess_project` and the gate.

### FalloutQueue

`items` are committed rows; `jobs[s]` is a request with what its session has added.
`SyncFallout`, `sync_health_record` and `SyncCommit` are the loop over an assessment's
records, in any order since the SELECT names none, each looked up among committed items and
the session's own; `SyncIngest` the same for refused lines. `Assess(limit)` takes all staged rows or
the first ones, as the request says, and `whole` remembers the assessments that left none out. `UploadLine` stages or refuses a line in one transaction with its item;
`create_validation_exception` and `classify_load_failure` are what a batch that ends adds.
`EndRequest` after `Change` is the handler of assign, override and resolve: flush, answer,
close. `AfterClose` says what remains in the database, which is nothing.

### StwTransforms, RuleEngine, RecordFlow

`RecordFlow` moves real records (functions from field names to values) of one batch through
`run_ingest`, `run_validate`, `run_transform`, `run_load`, with `validation_apply` and `transform_apply` of
`RuleEngine`, `transform_property_type`, `transform_area_code` and `transform_rateband` of
`StwTransforms`, the adapter's preparation (`Prepared`, both adapters), `partition_idempotent`,
the destination's answer in one of the three forms `_load_batch` distinguishes, the load records and
the candidates. `config` is what the project stores of the transforms: overrides, tariff table and zones. `update_project`
puts any of `ProjectConfigs` in its place, with overrides of several transforms or none, as `POST projects` does to begin with (`Init`);
`LoadProject`, `update_stw_rule` and `reset_stw_transform_rules` are requests that
edit it; `Stored` is what SQLAlchemy's comparison lets through. `LoadedElsewhere` are ids that other runs of the
project have loaded by the time an attempt reads them.
`run_report` is the reconciliation of that run. Regular expressions over free text are
constants of the instance (`WordsOf`, `ZoneIn`, `Snake`), every decision made on them is
modelled. `EnabledMappings` is the stable sort of the mappings, by the turn of each, and `transform_one` the loop over them,
as a recursive function. All requests of one chunk are answered in one way. Overrides inside a single mapping (`_stw_rules` in its config) or in the config of a run are left out, and so is
`PUT tariff-table`, which no request reaches (section 5).

### ApprovalWorkflow

| action | code |
|---|---|
| `create_set`, `Insert` | the SELECT of the greatest version; the INSERT, which the unique constraint may refuse |
| `seed_defaults` | `POST tariffs/seed`: look-up by name, creation, three mappings |
| `seed_account_defaults` | its eight commits, one step each (`SeedRule`, `SeedMapping`, `SeedTransition` with the refresh) |
| `Open` | the request reads the set, and its rows when it touches them |
| `upsert_mappings`, `apply_mappings_to_rule_set` | delete the rows the request has read, insert its own, one commit |
| `add_validation_rule`, `add_field_mapping`, `add_mapping` | single additions; only tariff mappings look at the state |
| `transition` | `WorkflowEngine.validate` on the state that was read, the approval and the new state in one commit |
| `import_products`, `load_signed_off` | `POST tariffs/{id}/load`: the adapter's call, then `loaded_at` |
| `execute_run` | `RuleLoader.load_for_run` and what the runner does when it raises |
| `Abandon` | a refused, failed or killed request |

A job keeps what it has read and when: `asOf` and `readAt` count the approvals and commits
of rows at that time. They are history variables for the properties; no guard uses them.
Rows that one commit wrote stand as one row. Actors, comments and the contents of rules are
`RuleEngine`'s or left out.

## 4. The runs

| run | instance | shows |
|---|---|---|
| `queue_worker` | 2 runs (one with selection), 2 workers, 2 sessions, mode `worker`, 2 resumes, 1 crash, fairness | `NoDoubleExecution`, `CompletedIsFinal`, `ImplementsLifecycle`, `QueuedRunEnds` |
| `queue_as_shipped` | 1 run, 1 worker, 1 session, mode `api` | expected violation of `NoDoubleExecution` |
| `waves_recover` | 3 waves, 6 run rows, 1 worker, 2 resumes of the plan, fairness | `CountsCompletedRuns`, `ImplementsProgramme`, `PlanSettles` |
| `waves_fleet` | 3 waves, 3 run rows, 2 workers, 2 sessions, 2 requests that pause the plan or resume a run, 1 crash | `CountsCompletedRuns`, `PausedMeansDrained` |
| `pipeline_full` | 5 rows, 2 batches, chunks of 2, gaps in the numbers, one account in both batches, 2 faults, 2 resumes, fairness | `CompletedLosesNothing`, `CheckpointCovered`, `ImportedOnce`, `RecordedHasArrived`, `StartedRunEnds` |
| `pipeline_shared` | 3 rows of two files with a common number, no fault | expected violation of `CompletedLosesNothing` |
| `executor_pool` | 4 records in batches of 2, 2 threads, limiter, 1 retry | `QuietAfterwards`, `AcceptedOnce`, `ImplementsLoadStage`, `CallEnds` |
| `staging_fleet` | 1 file processed up to twice, 3 lines, an account in two of them, a rejected line, 2 workers, 2 batches of 2 candidates populated up to twice each, 1 request, any crash | `NothingVanishes`, `AccountOncePerBatch`, `RowsMoveOnlyInOverlap` |
| `fallout_requests` | 2 overlapping requests; an account uploaded sound, with a pending payment and with an expired contract, another account, a line without a name; 2 staged rows, 1 error, 2 assessments, 1 item of a run, four answers of the destination | `OneReadyRowPerAccount`, `OpensByLeavingOut`, `BlockedRowsQueued`, `ErrorQueuedOnce` |
| `queue_decisions` | the same with 1 of each | expected violation of `AnswerKept` |
| `records` | chunks of 2 and 3 households (a repeated meter, a missing name, a date that does not parse, one metered by its tag only, one with a fresh area code only), four rule sets, two project configs (one of them plain, the other with overrides of two transforms), an id loaded by another run, all forms of answers, 1 resume, 1 editor with two edits | `RefusedOnlyWithWholeChunk`, `UniqueWithinChunk`, `LoadedMeetsTarget`, `RateBandOfItsTariff`, `SiblingGetsOwnArea`, `BalancedAccountsForAll` |
| `approvals` | 2 overlapping requests, both kinds of sets, 2 roles, 4 approvals and commits of rows with one set, 2 with two, three configurations of a run | `ApprovalTypeOK`, `VersionsAreSuccessive`, `SignedOffWasAgreed`, `ApprovalTrail`, `RunsTakeAgreed`, `TargetTakesSignedOff`, `MixedOnlyIfOverlapping`, `SeedApprovesAllRules`, `LockHoldsOnceReadersAreGone` |

The type invariants `WaveTypeOK`, `TypeOK` of `MigrationRuns` and of `BatchPipeline`, `ExecTypeOK`, `StagingTypeOK`, `FalloutTypeOK` and
`RecordTypeOK` hold in these instances as well and can be added to any of the configurations; the runs
spend their time on what could be wrong. Those of `MigrationRuns`, `WavePlans`, `LoadExecutor`, `BatchPipeline`, `StagingSelection` and `RecordFlow` are proved.

**Why the bounds are enough.** The claims, the locks and the lost updates are about pairs:
two processes on one row, or one process and a second row it may take instead; two runs and
two workers show them, and two requests a resume that comes late. A third wave separates a counter that is off by one from one
that is right by luck, and six rows leave room to queue three waves again. In the
pipeline a batch of three rows has a full chunk, a last short one, and the empty page; two
batches have a hand-over; two faults allow a failure in the retry of a failure. Four
records give two batches and a partial answer in each. Four approvals and commits are what it takes
to approve, sign off and reopen a set while a second request writes to it; a second set is there for the race
of two creations, for which two more are enough; a seed writes two mappings instead of
three, which no property counts. The theorems of section 6 hold without these bounds. Two
staged rows are two uploads of one account, or one row each of two; two assessments a
synchronisation that is overtaken by a second. All counters in the guards that
exist only to bound the search (`MaxResumes`, `MaxCrashes`, `MaxFaults`, `MaxCopies`,
`MaxSelections`, `MaxStaged`, `MaxErrors`, `MaxAssessments`, `MaxItems`, `MaxSets`, `MaxWrites`) are declared as bounds in the modules. `staging_fleet` uses the symmetry
of the two batches and of the two workers, `waves_fleet` that of the workers and of the sessions, `fallout_requests` and `approvals` that of the two requests, which no definition
tells apart; they check no liveness.

**Deadlock** is not checked, but for `records`, where an editor is always able to load the
project: all the other systems may come to rest (no run is queued and no operator does
anything; a run has ended; the bounds are used up).

**Fairness.** A worker polls for ever (`worker_loop`), so `Claim` is weakly fair, and so
are the steps of an execution. An execution may go through selection and pipeline
events as often as it has batches, which the queue does not count; that it ends is strong
fairness of its last step. A request in flight is carried through. Operators owe nothing:
creating, pausing and resuming have no fairness, and `QueuedRunEnds` excepts a run whose own
executor crashed, since nobody takes it up. In `BatchPipeline` the worker goes on
(`Execute`), in `LoadExecutor` some thread does: sleeps end, requests have a timeout
(`http_timeout_seconds`), and retries are counted, which is why weak fairness of `Next` is
enough.

## 5. What disagrees

Runs that end in an expected violation:

* `queue_as_shipped` — docker-compose.yml sets `RUNNER_MODE` only for the worker. An API in
  mode `api` commits `queued` on resume and then executes the run itself, while a worker
  claims the queued row.
* `pipeline_shared` — `_row_number` is unique in a file, not in a batch: at a chunk boundary
  a row with the number of the last one is skipped, and the run says completed.
* `queue_decisions` — assign, override and resolve answer with the change and never commit it.

More configurations end in a counterexample, each for one formula that says what a document, a message or a screen
has the program do; the properties of the runs state what holds instead:

* `MCMigrationRuns_resumes.cfg`, `OnlyEndedAreResumed` — the check "Only failed or cancelled runs can be
  resumed" (`…/api/routes/migration_runs.py:139`) and the commit of `queued` are not one step: a second request that has
  read `failed` queues the run while a worker executes it, or after it completed. `CompletedIsFinal` and
  `NoDoubleExecution` except the runs this happened to.
* `MCWavePlans_lost.cfg`, `DoneAreShown` — `plan.waves_completed += 1` (`…/waves/service.py:255`) is computed from a
  copy: two workers that finish together lose one, the wave panel shows 1/2 done, and the plan never
  completes. `CountsCompletedRuns` states the extent.
* `MCStagingSelection_parallel.cfg`, `RunsAddUp` — rows are tagged without asking whether they are still without a
  batch (`…/ingest/staging.py:235`): of two runs that select at once the last one takes the rows of the other, where
  docs/DEPLOYMENT_RUNNER.md:124 adds up 5 parallel runs of 10,000 accounts to 50k. `AccountOncePerBatch` and
  `RowsMoveOnlyInOverlap` state the extent.
* `MCApprovalWorkflow_unblocked.cfg`, `UnapprovedBlocksRun` — a run that requires approved rules and is given a set
  that is not goes on without rules unless `block_unapproved_rules` is set (`…/services/runner.py:84`), where
  docs/FUNCTIONAL_SPECIFICATION.md:614 has it blocked. `RunsTakeAgreed` states what holds.
* `MCFalloutQueue_accounts.cfg`, `BlockedAccountsQueued` — items of an assessment are found again by row number
  (`…/fallout/service.py:28`): a blocked account whose number another account had in an earlier assessment gets no
  item, where docs/ACCOUNT_HEALTH_STRATEGY.md:63 gives blocked accounts one. `BlockedRowsQueued` states the exact extent.
* `MCFalloutQueue_remediated.cfg`, `RemediatedPasses` — a remediated account is staged beside its blocked row and
  counts as a duplicate (`…/account_health/service.py:46`), so that "exclude until remediated"
  (docs/ACCOUNT_HEALTH_STRATEGY.md:47) excludes for good, unless an assessment leaves the blocked row
  out. `OpensByLeavingOut` states what holds.
* `MCRecordFlow_edits.cfg`, `EditIsStored` — the dictionary of the loaded config is changed in place
  (`…/transforms/stw/config.py:32`), and equal to itself when the session compares: once there is an override, an edit
  is answered and not stored, where docs/STW_TRANSFORM_RULES.md:42 offers the rules for editing.
* `MCRecordFlow_siblings.cfg`, `AreaPropagated` — the area code of the sibling service is written into the record
  that later mappings read: mapped before the area code it is missing, where docs/STW_TRANSFORM_RULES.md:34 propagates it
  for all but OWC. `SiblingGetsOwnArea` states what holds.

The models show more, under other constants or for other formulas than these; the
MC modules have the definitions for the instances:

* *Two waves, one resume of the plan* (`TwoRuns`): resume skips the first `waves_completed` wave
  numbers, though waves complete in any order: a failed wave 1 is never queued
  again after wave 2 completed.
* *Audit mode `summary`* (`BatchPipeline`, `DistinctNumber`, one fault, one resume): `ImportedOnce` fails. The
  load records are a sample, and the idempotent load knows only them.
* *The funnel* (`RecordFlow`): a chunk that loaded and one of two of which one fails, resumed once: the
  skipped account is recorded as loaded a second time, so that `target_loaded` exceeds what was selected
  (`…/connectors/idempotency.py:57`, `…/connectors/kraken.py:210`).
* *The lock* (`ApprovalWorkflow`): `[][\A x \in Ids : state[x] \notin Editable => rows'[x] = rows[x]]_vars` fails
  by `add_field_mapping`, since single rules and mappings of rule sets are added in any state
  (`…/rules/service.py:78`), where docs/FUNCTIONAL_SPECIFICATION.md:491 has edits locked. And
  `signed_off` is not final: a request that read `approved` reopens a set that another has
  signed off meanwhile (:533).

Facts that need no run: staged accounts of the default source schema, which keeps `id`, `name` and `status` only,
are all blocked by the assessment, so that the gate of a wave cannot pass as shipped; warnings become
blockers through the catalogue and `conditional` is never given; `classify_kraken_response` does not
read `_error`; a threshold of 0 in a wave request counts as unset
(`…/waves/service.py:79`); tariff sets that were signed off never reach the transforms, which read the project's own
table; `PUT tariff-table` is shadowed by `PUT {rule_key}`; two seeds of tariffs may make two standard sets, and
a seed that was cut short is returned as if it were whole.

The hazards in `PROJECT.json` that name no property are those the models contain or the
code has, but for which no document states what should happen.

## 6. What is proved

`MigrationRunsProofs` proves, for any finite set of runs, any workers, sessions and
selections (`RunsAssumption`, which only says that the identifiers are distinct):

* `TypeCorrect`: `Spec => []TypeOK`, in both modes and without further assumption. The
  inductive form `Typed` adds that a process that is not idle has a run.
* `Exclusive`: `Spec => []NoDoubleExecution`, `RunningWhileExecuted`:
  `Spec => []ExecutingIsRunning`, `CompletedStays`: `Spec => CompletedIsFinal`, and
  `Refinement`: `Spec => ImplementsLifecycle`, assuming `WorkerMode`: the API has `runner_mode` worker. It
  may still execute runs itself, those created with `async` false.

`WorkerMode` is needed: `queue_as_shipped` is a counterexample. Nothing is assumed of the number of requests
in flight. A request that has read `failed` may write `queued` over a run that was resumed, claimed and
completed in between; the theorems except the runs this has happened to (`late`) and no others, and
`MCMigrationRuns_resumes.cfg` shows that there are some.

`NoDoubleExecution` alone is not inductive: from a state in which a worker executes a run
that says `queued`, a claim makes two. The invariant is one of each run (`RowOK`): a run that is executed says running, or
pending if the request that created it executes it; a pending run is in hand of one process
only; and a request that is going to queue a run has it to itself (`enqueue`), or has read failed or
cancelled (`resuming`), so that it either finds the run ended or makes it late (`HolderOK`). A step concerns one
process and one run and leaves the other rows as they are (`OneRow`); what an execution may write is said once for
all in `ExecutorWrites`, of which every step of `execute_run` is a case. `InvStep` has one step per action.
The refinement needs that the executor is unique, to read `CHOOSE` as that process
(`ExecutorUnique`); then each action is a `Set` of the abstract state or a stutter, or it makes a run stray.

`LoadExecutorProofs` proves, for any chunk, batch size, number of threads, bound on retries,
with or without a limiter (`ExecutorAssumption`: these are numbers, and there is a thread):

* `TypeCorrect`: `Spec => []ExecTypeOK`, `NoDoubleAcceptance`: `Spec => []AcceptedOnce`,
  `Quiet`: `Spec => []QuietAfterwards`, `Implementation`: `Spec => ImplementsLoadStage`.

All four follow from one invariant. `AcceptedOnce` alone is not inductive: nothing in it
keeps a batch from being sent after it was accepted. `Inv` says of each batch (`BatchOK`)
that as long as its handler has not returned, what was accepted of it is what throttled answers
did not say, and that a handler that has returned lists only what was accepted, all of it but what is
`Unsaid`, and reports a failure exactly if that is not the whole batch; of the lists (`Gathered`), that they are the union of what was collected; of the end
(`Ended`), that a call returns with every batch collected and raises with none in a
thread. How `chunk_records` cuts the chunk is not used, only that each record to load is in
one batch (`Cut`) and that no step changes the cut (`CutStays`). Lemma `Reported` is the core
of the refinement: with all batches collected, the list holds only what arrived, all but what is
`Unsaid`, and no failure is reported exactly if that and what was skipped are the whole
chunk. `Requested` says once what any request may change; `Listing`, `Refusing`, `Throttling` and
`Breaking` are its four ends.

`ApprovalWorkflowProofs` proves every property of the run `approvals`, for any number of requests,
sets, approvals and commits (`ApprovalAssumption`: the kinds, roles and bounds are what their names say). Since
`MaxSets` and `MaxWrites` are arbitrary, the bounds of the run drop out:

* `ApprovalTypes`, `SignOffFollowsApproval`, `TrailIsTrue`, `Versions`, `RunsTakeApproved`,
  `TargetTakesOnlySignedOff`, `MixedMatricesOverlapped`, `SeededSetsAreWhole`, `LockHolds` (the
  last one about steps).

The difficulty is that a request decides on what it has read, while others go on. `Knows` is
the part of the invariant that says in which way that was true: the state a request has
is one its set has been in (`Been`), it is the present one unless an approval came in since, and
it misses no row older than its reading. Approvals and commits are only ever added (`Grows`), so what a request knows
survives every step of another (`JobStays`), and an approval recorded from such a state is
one the trail allows (`Allowed`). `TrailAgrees` is the core: whatever reached `signed_off` did so by a
product owner from `approved`, hence after an approval by somebody entitled. Each kind of step has a lemma
(`AsideStep`, `WriteStep`, `RecordStep`, `InsertStep`) and each action is an instance of
one. For the seed, `RulesFirst` says of the list of what is left to do that every rule is there or comes before the
approval. The lock is `StaleReader`: who may still write has an `asOf` before the approval.

`BatchPipelineProofs` proves, for any rows and batches, chunk size, load record mode, and any
number of faults and resumes (`PipelineAssumption`):

* `PipelineTypes`: `Spec => []TypeOK`, and `RecordsHaveArrived`: `Spec => []RecordedHasArrived`,
  without further assumption;
* `CheckpointIsCovered`: `Spec => []CheckpointCovered` and `NothingIsLost`:
  `Spec => []CompletedLosesNothing`, assuming `DistinctNumbers`: no two rows of one batch share a
  row number;
* `NoDoubleImport`: `Spec => []ImportedOnce`, assuming `FullRecords` (`AuditMode` is full): twice
  is imported only what is `dropped`.

`DistinctNumbers` is needed: a batch selected from two files breaks it, and `pipeline_shared`
is the counterexample. So is `FullRecords`: in summary mode a resume from an old checkpoint does not know what was loaded
after it. The invariant of the second group, `CursorTrue`, says that every row up to the
cursor of the executing batch, up to the last checkpoint and up to the one that was resumed from,
and every row of an earlier batch, is `Settled` (arrived, or refused in a run that tolerates
errors). Every step keeps what is settled (`SettledStays`, from `Grows`). What remains is the
chunk. A chunk is the first rows beyond the cursor, so a row that comes at or before its last
number is in it (`ChunkReaches`); that step alone uses distinct numbers. That a skipped row
arrived earlier is `RecordsTrue`. For the single import, `ImportsKnown` says that an account at the destination is in a
load record, in the chunk of which the results are being recorded, or among those whose results
were lost.

`StagingSelectionProofs` proves, for any files, lines, profiles and limits
(`StagingAssumption`):

* `StagingTypes`: `Spec => []StagingTypeOK`, `NoLineVanishes`: `Spec => []NothingVanishes`,
  `BatchesHoldTheirAccounts`: `Spec => []AccountOncePerBatch` and `RowsStay`:
  `Spec => RowsMoveOnlyInOverlap`, for any number of requests and workers, crashes included.

For the first, the invariant `Kept` adds to the processed files that a resolved error has a staged
row of its line, and that a request between its two commits has staged what it is going to report. Selection
is about `Given`, the rows a batch has and those taken from it, since tagging only ever adds to that, for its own batch
(`TaggedGiven`). No two workers populate one batch (`Apart`), so that what a worker knows of its
batch (`Picking`) survives the steps of the others (`OthersKeep`).
`Sound` says of a batch that nobody is populating, and whose
selection is not stuck, that the rows it was given are one per account and its candidates are their
accounts. That a row moves only in an overlap is `ReadUntagged`: what a worker is going to tag was untagged when
it read, and has been tagged by nobody since but in `missed`.

`WavePlansProofs` proves, for any runs, waves, workers and sessions, both modes of the API, and any
number of crashes and requests (`WavesAssumption` and those of `MigrationRuns`):

* `WaveTypes`: `WSpec => []WaveTypeOK`, without further assumption;
* `PauseDrains`: `WSpec => []PausedMeansDrained`, assuming `NoPlanResume`: nobody resumes the plan.

`NoPlanResume` is needed, since a pause cancels the runs it has read: if another request resumes
the plan in between, the runs that it queues are not among them. The invariant is what each process
knows: a request or worker that is going to write `paused` has seen every run that is still queued and not
revived (`Sees`), and the run of a busy process is not queued unless revived (`Holds`). Without a resume, runs of the plan are queued
only by its creation (`Unplanned`), so that what was seen stays enough (`QueueShrinks`).

* `CompletedAreCounted`: `WSpec => []CountsCompletedRuns`, without further assumption.

A count is written from a copy, while other processes hold older copies, so that the counter may go down as well as
up. Both bounds of `CountsCompletedRuns` are therefore invariants of the copies too: of
the plan's row and of each copy that a process is about to increment (`Open`). From below (`CountedOK`) they are not less than
the number of completed runs that are `Settled`: not in `missed`, and no process has still to have them counted. A run
becomes settled only when it is counted, and then no other copy is open, or it is in `missed` (`SettledStep`). From
above (`NotAbove`) they are not more than the number of runs that are over and that nobody has in hand
(`Closed`); this holds until an operator has a run executed again, because each run is then taken up once
(`HandsOK`), and counting it closes it (`CountCloses`). Both go through the same list of the kinds of steps
(`Kinds`, `StepKinds`). That the plan implements `WaveProgramme` is model-checked only, for one worker.

`FalloutQueueProofs` proves, for any number of requests, lines, rows, assessments and items:

* `OneItemPerError`: `Spec => []ErrorQueuedOnce`, and `ReviewIsQueued`: `Spec => []BlockedRowsQueued`.

For these two, what the checks and classifiers compute is not used: whichever rows need a review, they are queued. For the first,
an error and its item are one commit, so that a request that syncs the errors finds each one on
the queue (`Known`) and adds nothing (`JobOK`); and no item names an error that does not exist yet
(`NoStranger`), or a new error would have two. For the second, `Handled` follows a request through its loop: a row that
needs a person is still to do, or its row number is on the queue or among what the session has added. It survives the
steps of others because nothing takes an item from the queue or changes it (`Grown`). Whose item it is follows from
where items come from (`Sourced`): each names a row of some assessment and its account, and in one assessment
the rows have different numbers, so that an item of another account is of another assessment. A decision
is never committed (`queue_decisions`). A route that committed it could resolve an item
whose row is still blocked, and both the model and this proof would have to be revisited.

* `OneRowIsReady`: `Spec => []OneReadyRowPerAccount`, and `GateOpensByLeavingOut`: `Spec => []OpensByLeavingOut`.

Here the fourteen checks and the error catalogue are what the proof is about. Its facts come one upon the
other: every check blocks, the two warnings because the catalogue calls the codes they predict
blockers (`CatalogueSevere`, `WarningsBlock`, `AllBlock`), so that a row is ready exactly
if it fails no check (`RowJudged`) and an assessment passes the strict gate exactly if
that holds of every row (`AllSound`, `GateMeansClean`). Two rows of one account cannot both fail nothing, since the
later one is a duplicate (`OneReady`). `OpensByLeavingOut` compares an assessment of all rows with one
that was refused; it becomes inductive as `Judged`, which says of the rows as they are staged now that some row
fails a check as soon as one assessment was refused: a row that fails among the first rows fails among all
(`FirstRows`). An upload keeps this: a row inserted anywhere
leaves each row with the rows before it, and perhaps one more, so that a check that failed still
fails (`Inserted`, `StaysUnclean`). The scores are folds over sequences; the two facts that are needed of them (`Unblemished`, and a
sum of hundreds) are proved by induction over sets of naturals (`Least`, `Induct`).

`RecordFlowProofs` proves, for any batch in any chunks, rule sets, mappings, project configs, edits,
editors, answers and number of resumes (`RecordAssumption`: the batch and the rules are lists, there is a chunk, mappings have integer orders, and
a config has its three parts):

* `NothingIncompleteLoaded`: `Spec => []LoadedMeetsTarget`, without further assumption;
* `RecordTypes`: `Spec => []RecordTypeOK`, and `BalancedCountsAll`: `Spec => []BalancedAccountsForAll`, assuming
  `KeepsIds`: what the mappings of a rule set make of a record, under any overrides that can be stored, still
  says whose record it is;
* `RefusedStaysOut`: `Spec => []RefusedOnlyWithWholeChunk`, and `UniqueInItsChunk`:
  `Spec => []UniqueWithinChunk`, assuming `KeepsIds` and `IdsDiffer`: no id is staged twice in the batch;
* `MappedIdsAreKept`: `KeepsIds` holds if the mappings copy the id of a record to `accountId` and write it nowhere else
  (`IdsMapped`), as the sample mappings do (`…/rules/service.py:155`);
* `RateBandAgrees`: `Spec => []RateBandOfItsTariff`, assuming `KeepsIds`, `IdsDiffer` and `BandsMapped`;
* `SiblingsFollow`: `Spec => []SiblingGetsOwnArea`, assuming `KeepsIds`, `IdsDiffer` and `AreasMapped`.

`KeepsIds` and `IdsDiffer` are what it takes to follow an account: load records know it by the
id that `_external_id` finds in the payload, so that under mappings that drop the id, or over
records that share it, these properties would speak of other records. `BandsMapped` and `AreasMapped` are what makes the
derived fields of a payload those of its record: rows are staged with the fields of their entity only (others would be lost in the
schema check); nobody edits the profiles of the rate band (an edit may
leave out the product, or narrow by anything); no mapping writes what the band is looked up by; the property type is mapped before the band,
because the payload shows the last one and the look-up uses the one that is there; one mapping makes the area code, the
sibling codes are copied, if at all, before or after it, and nobody turns the propagation off or renames the categories it asks for. All these are definitions of
`RecordFlow` about the batch, the rule sets and the edits, never about
what the run does with them, and `MCRecordFlow` has TLC evaluate them for the instance of the run.

The invariant is `RecordInv`. `Staged` says what the metadata hold before each handler (the chunk, its valid
records, what the mappings made of these); `Traced` says of every result and every load record where it comes
from: a loaded one has the target's fields and an id in `MayLoad` of its chunk, a failed one has an id
of the batch or none. `MayLoad` is where the fall-back of the load stage shows: the ids of the valid records, or
of all when none is valid. The case distinction of `ToLoadComes` is that argument: an empty transformed list means
that nothing was valid, since the mappings keep the number of records (`MappedOneByOne`): of what a mapping
computes, only that it works record by record is used so far. `PickedIsOf` says of the filtering
loops that they collect the entries at the places of a mask, each once. Unique values: of two valid records
with one value the later one violates the rule (`ValidUnique`). `BalancedCountsAll` is counting: a
balanced report has as many load records as candidates, without a repeated id these
are as many ids, and an id of the batch can be missing only if another stands for it that is not of
the batch, which is the fieldless record of an answer in error.

The last three theorems are about what the mappings compute. `Traced` also says of a loaded record that it
is what the mappings of the run made of a record of the batch under some config that can be stored (`Made`), so that a
property of the payload is one of `transform_one`. `LoopIsIt` gives the states of its loop, one after each mapping, and `SetInOrder` the order
of the mappings: each enabled one once, by `sort_order` (`Turns`: the turns of a stable sort are a bijection). On
the loop each proof is an induction over sets of naturals (`Induct`) with an invariant of its own (`Passed`), from what
one mapping writes and leaves alone (`FieldStep`). For the id: it is never overwritten, and once `accountId`
was mapped it is the id. For the rate band: the fields of the look-up are those of the staged record, but for empty
ones, the property type in the payload is the one the look-ups read, and a rate band there is has a row that fits
(`Fits`). For the area codes: until the area code is mapped a missing sibling code is missing, afterwards it is missing
or equal to it (`AreaPassesOn`), and equal where the other was there and the account is of a category that copies (`CopyPassesOn`). That the row fits is `BandOfRow`, from:

* `TariffRowAgrees`, about `transform_rateband` alone: the row it gives agrees with the record on the keys
  of the first matching profile that finds any row, and on its narrowing keys if some such row
  does, for any record, table and profiles.

With these, every safety and every action property that a passing run checks is stated by a theorem, but for
`ImplementsProgramme`. Only model-checked are that one and the
liveness properties `QueuedRunEnds`, `PlanSettles`, `StartedRunEnds` and `CallEnds`: liveness under fairness is out of the
prover's reach.

## 7. What is not modelled

* The free-text search of the error catalogue, the parsing of field catalogues from
  spreadsheets, profiling: read-only functions for screens.
* Numbers, dates and free text in their spelling: what a regular expression or a conversion finds in them is a
  constant of the instance; what is decided on it is modelled.
* The audit packs and exports that print the reconciliation.
* Authentication, AI suggestions, web UI, scripts and schema migrations: no protocol of
  their own; the operators' requests are the actions of the API.
* Candidates' display status, statistics, progress, audit texts, the counters of ingest
  files: written and shown, read by nothing that is modelled.
* SQLite as a database, where claims have no row locks and the tests run one process.

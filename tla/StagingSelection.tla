---------------------------- MODULE StagingSelection ----------------------------
(***************************************************************************)
(* The staging table of one entity.  Requests ingest uploaded files into   *)
(* it, once or again, and reprocess the lines that were rejected; workers  *)
(* select rows for the batches of their runs and tag them.  The table is   *)
(* written through connections of its own, which commit before the session *)
(* of the request or of the worker does.                                   *)
(*                                                                         *)
(* A line of a file that is ingested again becomes another row.  The       *)
(* counters of an ingest file are left out.                                *)
(***************************************************************************)
EXTENDS Naturals, Sequences, FiniteSets

CONSTANTS
    Files,          \* uploaded files
    Lines,          \* their lines
    FileOf,         \* [Lines -> Files]
    Number,         \* [Lines -> position in the file]
    Account,        \* [Lines -> external id]
    Matching,       \* lines that satisfy the selection profile
    Rejected,       \* lines the schema rejects at first
    Batches,        \* batches of runs, one batch per run
    Workers, Clients,
    CandidateLimit, \* candidate_limit
    MaxCopies,      \* bound: rows and errors of a line
    MaxSelections,  \* bound: executions of a batch
    NoBatch, Nobody

ASSUME StagingAssumption ==
    /\ FileOf \in [Lines -> Files] /\ Number \in [Lines -> Nat \ {0}]
    /\ IsFiniteSet(Lines)
    /\ Matching \subseteq Lines /\ Rejected \subseteq Lines
    /\ NoBatch \notin Batches /\ Nobody \notin Batches
    /\ CandidateLimit \in Nat /\ MaxCopies \in Nat /\ MaxSelections \in Nat

VARIABLES
    file,           \* status of each ingest file
    rows,           \* [Lines -> sequence of the _batch_id of its staged rows]
    errors,         \* [Lines -> sequence of its ingest errors: resolved or not]
    rejected,       \* lines the schema of today rejects
    client,         \* ingest requests in progress
    worker,         \* selections in progress
    candidates,     \* [Batches -> accounts of its candidates]
    selection,      \* [Batches -> "none", "selected" or "stuck"]
    selections,     \* executions of each batch so far (bound only)
    taken           \* [Batches -> rows that others took from it] (history)

ingest == <<file, errors, rejected, client>>
select == <<worker, candidates, selection, selections, taken>>
svars == <<rows, ingest, select>>

LinesOf(f) == {l \in Lines : FileOf[l] = f}
RowIds == {<<l, i>> : l \in Lines, i \in 1 .. MaxCopies}
Staged(b) == {id \in RowIds : id[2] \in DOMAIN rows[id[1]] /\ rows[id[1]][id[2]] = b}
AccountsOf(ids) == {Account[id[1]] : id \in ids}

IdleClient == [pc |-> "idle", file |-> Nobody, bad |-> {}, line |-> Nobody]
\* missed: the rows that others have tagged since the worker read the table (history).
IdleWorker == [pc |-> "idle", batch |-> Nobody, picked |-> {}, missed |-> {}]

Init ==
    /\ file = [f \in Files |-> "absent"]
    /\ rows = [l \in Lines |-> <<>>] /\ errors = [l \in Lines |-> <<>>]
    /\ rejected = Rejected
    /\ client = [c \in Clients |-> IdleClient]
    /\ worker = [w \in Workers |-> IdleWorker]
    /\ candidates = [b \in Batches |-> {}]
    /\ selection = [b \in Batches |-> "none"]
    /\ selections = [b \in Batches |-> 0]
    /\ taken = [b \in Batches |-> {}]

-----------------------------------------------------------------------------
(* Ingest                                                                   *)

Idle(c) == client[c].pc = "idle"
Go(c, record) == client' = [client EXCEPT ![c] = record]
Room(ls) == \A l \in ls : Len(rows[l]) < MaxCopies /\ Len(errors[l]) < MaxCopies

\* insert_staged_rows, in a transaction of its own.
InsertRows(ls) == rows' = [l \in Lines |-> IF l \in ls THEN Append(rows[l], NoBatch) ELSE rows[l]]

\* POST /ingest/upload: register_upload, then process_file.
Upload(f) ==
    /\ file[f] = "absent"
    /\ file' = [file EXCEPT ![f] = "pending"]
    /\ UNCHANGED <<rows, errors, rejected, client, select>>

\* process_file, for a new upload or (POST /files/{id}/process) for a file in any status.
ProcessStart(c, f) ==
    /\ Idle(c) /\ file[f] # "absent"
    /\ file' = [file EXCEPT ![f] = "processing"]
    /\ Go(c, [IdleClient EXCEPT !.pc = "processing", !.file = f])
    /\ UNCHANGED <<rows, errors, rejected, select>>

\* The file is parsed and validated, and the valid lines are inserted and committed.
ProcessInsert(c) ==
    /\ client[c].pc = "processing"
    /\ LET f == client[c].file IN
          /\ Room(LinesOf(f))
          /\ InsertRows(LinesOf(f) \ rejected)
          /\ Go(c, [client[c] EXCEPT !.pc = "staged", !.bad = LinesOf(f) \cap rejected])
    /\ UNCHANGED <<file, errors, rejected, select>>

ProcessFail(c) ==
    /\ client[c].pc = "processing"
    /\ file' = [file EXCEPT ![client[c].file] = "failed"]
    /\ Go(c, IdleClient)
    /\ UNCHANGED <<rows, errors, rejected, select>>

AddErrors(bad) ==
    errors' = [l \in Lines |-> IF l \in bad THEN Append(errors[l], FALSE) ELSE errors[l]]

\* The rejected lines become ingest errors in the commit that says processed.
ProcessCommit(c) ==
    /\ client[c].pc = "staged"
    /\ AddErrors(client[c].bad)
    /\ file' = [file EXCEPT ![client[c].file] = "processed"]
    /\ Go(c, IdleClient)
    /\ UNCHANGED <<rows, rejected, select>>

\* A release whose schema (build_default_schema_registry) accepts a line.
RelaxSchema(l) ==
    /\ l \in rejected
    /\ rejected' = rejected \ {l}
    /\ UNCHANGED <<rows, file, errors, client, select>>

\* Mutation: the error is resolved when the schema still rejects the line.
FixInsertNothing(c, l, i) ==
    /\ Idle(c) /\ i \in DOMAIN errors[l]
    /\ ~errors[l][i]
    /\ Go(c, [IdleClient EXCEPT !.pc = "fixed", !.line = <<l, i>>])
    /\ UNCHANGED <<rows, file, errors, rejected, select>>

\* POST /errors/{id}/reprocess: the row is inserted and committed ...
FixInsert(c, l, i) ==
    /\ Idle(c) /\ i \in DOMAIN errors[l]
    /\ ~errors[l][i] /\ l \notin rejected
    /\ Len(rows[l]) < MaxCopies
    /\ InsertRows({l})
    /\ Go(c, [IdleClient EXCEPT !.pc = "fixed", !.line = <<l, i>>])
    /\ UNCHANGED <<file, errors, rejected, select>>

\* ... before the error is marked resolved.
FixCommit(c) ==
    /\ client[c].pc = "fixed"
    /\ errors' = [errors EXCEPT ![client[c].line[1]][client[c].line[2]] = TRUE]
    /\ Go(c, IdleClient)
    /\ UNCHANGED <<rows, file, rejected, select>>

\* The API process dies, or an exception that process_file does not catch ends a request.
CrashClient(c) ==
    /\ ~Idle(c)
    /\ Go(c, IdleClient)
    /\ UNCHANGED <<rows, file, errors, rejected, select>>

-----------------------------------------------------------------------------
(* Selection: populate_batch                                                *)

FirstOf(ids, n) ==
    {s \in SUBSET ids :
        /\ Cardinality(s) <= n /\ (Cardinality(s) < n => s = ids)
        /\ \A x \in s, y \in ids \ s : Number[x[1]] <= Number[y[1]]}

\* _dedupe_by_external_id: the first row of each account, in any order among rows with
\* the same number.
Deduped(ids) ==
    {s \in SUBSET ids :
        /\ AccountsOf(s) = AccountsOf(ids)
        /\ \A x, y \in s : Account[x[1]] = Account[y[1]] => x = y
        /\ \A x \in s, y \in ids :
              Account[x[1]] = Account[y[1]] => Number[x[1]] <= Number[y[1]]}

\* Mutation: the rows of other batches are not left out.
AvailableAll == Staged(NoBatch) \cup UNION {Staged(b) : b \in Batches}
Available == Staged(NoBatch)

\* Rows without a batch are read through a connection of their own, each account once,
\* and the profile is applied up to the limit.
SelectRead(w, b) ==
    /\ worker[w].pc = "idle"
    /\ \A v \in Workers : worker[v].batch # b
    /\ selection[b] # "stuck" /\ selections[b] < MaxSelections
    /\ selections' = [selections EXCEPT ![b] = @ + 1]
    /\ \E s \in Deduped(Available) :
          \E picked \in FirstOf({x \in s : x[1] \in Matching}, CandidateLimit) :
             worker' = [worker EXCEPT ![w] =
                           [pc |-> "picked", batch |-> b, picked |-> picked, missed |-> {}]]
    /\ UNCHANGED <<rows, ingest, candidates, selection, taken>>

\* tag_staging_rows: the picked rows are tagged and committed, whatever tag they have.
SelectTag(w) ==
    /\ worker[w].pc = "picked"
    /\ rows' = [l \in Lines |-> [i \in DOMAIN rows[l] |->
                   IF <<l, i>> \in worker[w].picked THEN worker[w].batch ELSE rows[l][i]]]
    /\ worker' = [v \in Workers |->
                     IF v = w THEN [worker[w] EXCEPT !.pc = "tagged"]
                     ELSE IF worker[v].pc # "picked" THEN worker[v]
                     ELSE [worker[v] EXCEPT !.missed = @ \cup worker[w].picked]]
    /\ taken' = [b \in Batches |->
                    IF b = worker[w].batch THEN taken[b]
                    ELSE taken[b] \cup (Staged(b) \cap worker[w].picked)]
    /\ UNCHANGED <<ingest, candidates, selection, selections>>

\* Nothing more was selected: the batch goes on with the rows it has.
SelectNothing(w) ==
    /\ worker[w].pc = "tagged" /\ worker[w].picked = {}
    /\ selection' = [selection EXCEPT ![worker[w].batch] = "selected"]
    /\ worker' = [worker EXCEPT ![w] = IdleWorker]
    /\ UNCHANGED <<rows, ingest, candidates, selections, taken>>

\* The candidates are created and committed.
SelectCommit(w) ==
    /\ worker[w].pc = "tagged" /\ worker[w].picked # {}
    /\ candidates[worker[w].batch] = {}
    /\ candidates' = [candidates EXCEPT ![worker[w].batch] = AccountsOf(worker[w].picked)]
    /\ selection' = [selection EXCEPT ![worker[w].batch] = "selected"]
    /\ worker' = [worker EXCEPT ![w] = IdleWorker]
    /\ UNCHANGED <<rows, ingest, selections, taken>>

\* Mutation: the candidates of an earlier execution are extended.
SelectAgainExtends(w) ==
    /\ worker[w].pc = "tagged" /\ worker[w].picked # {}
    /\ candidates[worker[w].batch] # {}
    /\ candidates' = [candidates EXCEPT ![worker[w].batch] = @ \cup AccountsOf(worker[w].picked)]
    /\ selection' = [selection EXCEPT ![worker[w].batch] = "selected"]
    /\ worker' = [worker EXCEPT ![w] = IdleWorker]
    /\ UNCHANGED <<rows, ingest, selections, taken>>

\* The batch has candidates from an earlier execution: reading them raises an
\* AttributeError (the query yields strings, not candidates) and the run is abandoned.
SelectAgain(w) ==
    /\ worker[w].pc = "tagged" /\ worker[w].picked # {}
    /\ candidates[worker[w].batch] # {}
    /\ selection' = [selection EXCEPT ![worker[w].batch] = "stuck"]
    /\ worker' = [worker EXCEPT ![w] = IdleWorker]
    /\ UNCHANGED <<rows, ingest, candidates, selections, taken>>

\* The worker dies; nobody executes its run any more (MigrationRuns).
CrashWorker(w) ==
    /\ worker[w].pc # "idle"
    /\ selection' = [selection EXCEPT ![worker[w].batch] = "stuck"]
    /\ worker' = [worker EXCEPT ![w] = IdleWorker]
    /\ UNCHANGED <<rows, ingest, candidates, selections, taken>>

-----------------------------------------------------------------------------

Ingest ==
    \/ \E f \in Files : Upload(f) \/ \E c \in Clients : ProcessStart(c, f)
    \/ \E c \in Clients : \/ ProcessInsert(c) \/ ProcessFail(c) \/ ProcessCommit(c)
                          \/ FixCommit(c) \/ CrashClient(c)
    \/ \E c \in Clients, l \in Lines, i \in 1 .. MaxCopies : FixInsert(c, l, i)
    \/ \E l \in Lines : RelaxSchema(l)
Select ==
    \/ \E w \in Workers, b \in Batches : SelectRead(w, b)
    \/ \E w \in Workers : \/ SelectTag(w) \/ SelectNothing(w) \/ SelectCommit(w)
                          \/ SelectAgain(w) \/ CrashWorker(w)
Next == Ingest \/ Select
Spec == Init /\ [][Next]_svars

-----------------------------------------------------------------------------
(* Properties                                                               *)

StagingTypeOK ==
    /\ file \in [Files -> {"absent", "pending", "processing", "processed", "failed"}]
    /\ \A l \in Lines : /\ rows[l] \in Seq(Batches \cup {NoBatch})
                        /\ errors[l] \in Seq(BOOLEAN)
    /\ rejected \subseteq Lines
    /\ \A c \in Clients : client[c].pc \in {"idle", "processing", "staged", "fixed"}
    /\ \A w \in Workers : /\ worker[w].pc \in {"idle", "picked", "tagged"}
                          /\ worker[w].picked \subseteq RowIds /\ worker[w].missed \subseteq RowIds
    /\ candidates \in [Batches -> SUBSET AccountsOf(RowIds)]
    /\ selection \in [Batches -> {"none", "selected", "stuck"}]
    /\ selections \in [Batches -> 0 .. MaxSelections]
    /\ taken \in [Batches -> SUBSET RowIds]

\* Ingest loses no line: when a file says processed each of its lines is staged or is an
\* ingest error that is still open, however often it was processed, failed, reprocessed
\* or was cut short before.
NothingVanishes ==
    \A f \in Files : file[f] = "processed" =>
        \A l \in LinesOf(f) : rows[l] # <<>> \/ \E i \in DOMAIN errors[l] : ~errors[l][i]

Populated(b) == selection[b] = "selected" /\ \A w \in Workers : worker[w].batch # b

\* The pipeline relies on it (BatchPipeline): a batch that is executed holds one row for
\* each of the accounts it shows as candidates, and no other, but for the rows that an
\* overlapping selection took from it; also when it is populated again by a resume or a
\* file was uploaded twice.
AccountOncePerBatch ==
    \A b \in Batches : Populated(b) =>
        LET given == Staged(b) \cup taken[b]
        IN /\ candidates[b] = AccountsOf(given)
           /\ \A x, y \in given : Account[x[1]] = Account[y[1]] => x = y

\* A staged row moves from one batch to another only where two selections overlap: the
\* worker that takes it had read the table before the row was given to the first batch.
RowsMoveOnlyInOverlap ==
    [][\A l \in Lines : \A i \in DOMAIN rows[l] :
          rows[l][i] # NoBatch /\ rows'[l][i] # rows[l][i] =>
              \E w \in Workers : <<l, i>> \in worker[w].missed
                               /\ rows'[l][i] = worker[w].batch]_svars

\* Runs that are executed in parallel load as many accounts as were selected for them
\* (docs/DEPLOYMENT_RUNNER.md:124).  It does not hold: rows are tagged without asking
\* whether another run has them by now.
RunsAddUp ==
    \A b \in Batches : Populated(b) => Cardinality(Staged(b)) = Cardinality(candidates[b])
=============================================================================

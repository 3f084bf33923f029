----------------------------- MODULE FalloutQueue -----------------------------
(***************************************************************************)
(* The exception queue of one project (exceptions/, fallout/) with the     *)
(* sources that feed it: refused lines of an upload, health assessments,   *)
(* and the failures of migration runs.                                     *)
(*                                                                         *)
(* Requests are handled by sessions on one database: what a session adds   *)
(* or changes is its own until it commits, and is lost when the request    *)
(* ends without a commit (get_db only closes).  Reads see committed rows   *)
(* and the session's own flushed ones (READ COMMITTED).                    *)
(***************************************************************************)
EXTENDS AccountHealth

CONSTANTS Sessions,        \* concurrent requests
          SourceRows,      \* lines an upload may bring
          Entity,          \* contract of the staged entity
          Project,         \* its plug-in, if it names one, and its adapter
          Responses,       \* failed records a run may report
          Decisions,       \* statuses a person may give an item
          MaxStaged, MaxErrors, MaxAssessments, MaxItems

ASSUME FalloutAssumption ==
    /\ Sessions # {} /\ resolve_plugin_id(Project) \in Plugins
    /\ Decisions \subseteq {"assigned", "overridden", "resolved"}
    /\ {MaxStaged, MaxErrors, MaxAssessments, MaxItems} \subseteq Nat

VARIABLES staged,       \* rows in status staged, by _row_number: rows never leave
          errors,       \* ingest errors: row number and resolved
          assessments,  \* committed assessments, oldest first
          whole,        \* those that left out no row that was staged
          items,        \* committed exception items
          jobs,         \* what each session is doing
          synced,       \* assessments whose fallout sync has committed
          answered      \* the item and status the last request reported

vars == <<staged, errors, assessments, whole, items, jobs, synced, answered>>

Idle == [kind |-> "idle"]
NoAnswer == [item |-> 0, status |-> None]
Required == get_schema(resolve_plugin_id(Project), "account").required
Live == {"open", "assigned", "overridden"}

NoRow == 0
NoError == 0
NoPayload == [message |-> NoText, code |-> NoCode, error |-> NoText]
Item(source, error, row, account, class) ==
    [source |-> source, error |-> error, row |-> row, account |-> account,
     payload |-> NoPayload, status |-> "open",
     code |-> class.code, root |-> class.root, owner |-> class.owner]
Unclassified == [code |-> NoCode, root |-> None, owner |-> None]

Init ==
    /\ staged = <<>> /\ errors = <<>> /\ assessments = <<>> /\ items = <<>>
    /\ jobs = [s \in Sessions |-> Idle]
    /\ whole = {} /\ synced = {} /\ answered = NoAnswer

-----------------------------------------------------------------------------
(* Uploads.  A line that satisfies the entity is staged, somewhere among   *)
(* the rows of other files that carry the same numbers; one that does not  *)
(* becomes an error and, in the same transaction, an item.                 *)

UploadLineReplaces(raw, place) ==
    /\ Len(staged) < MaxStaged /\ validate_one(Entity, raw).errors = {}
    /\ staged' = IF place <= Len(staged)
                 THEN [staged EXCEPT ![place] = validate_one(Entity, raw).coerced]
                 ELSE Append(staged, validate_one(Entity, raw).coerced)
    /\ UNCHANGED <<errors, items, assessments, whole, jobs, synced, answered>>
UploadLine(raw, place) ==
    /\ Len(staged) < MaxStaged /\ Len(errors) < MaxErrors /\ Len(items) < MaxItems
    /\ LET line == validate_one(Entity, raw)
       IN IF line.errors = {}
          THEN /\ staged' = InsertAt(staged, place, line.coerced)
               /\ UNCHANGED <<errors, items>>
          ELSE /\ errors' = Append(errors, [row |-> place, resolved |-> FALSE])
               /\ items' = Append(items, Item("ingest", Len(errors) + 1, place, None, Unclassified))
               /\ UNCHANGED staged
    /\ UNCHANGED <<assessments, whole, jobs, synced, answered>>

(* Reprocessing validates the stored line again: it passes only under a    *)
(* schema released since, and leaves the item of the error alone.          *)
ReprocessLine(e, raw, place) ==
    /\ ~errors[e].resolved /\ Len(staged) < MaxStaged
    /\ validate_one(Entity, raw).errors # {}
    /\ staged' = InsertAt(staged, place, validate_one(Entity, raw).coerced)
    /\ errors' = [errors EXCEPT ![e].resolved = TRUE]
    /\ UNCHANGED <<assessments, whole, items, jobs, synced, answered>>

(* POST account-health/assess: one transaction.                            *)
Assess(limit) ==
    /\ Len(assessments) < MaxAssessments
    /\ assessments' = Append(assessments, assess_project(staged, Required, limit))
    /\ whole' = IF Cohort(staged, limit) = staged THEN whole \cup {Len(assessments')} ELSE whole
    /\ UNCHANGED <<staged, errors, items, jobs, synced, answered>>

-----------------------------------------------------------------------------
(* POST account-health/{id}/sync-fallout: the blocked and the conditional  *)
(* records of one assessment, in any order, each looked up by its row      *)
(* number.                                                                 *)

NeedsReview(record) == record.status \in {"blocked", "conditional"}

HealthItem(record) ==
    Item("account_health", NoError, record.row_number, record.account,
         classify_validation_finding(record.checks[1]))

MatchesHealthAnySource(item, record) ==
    item.row = record.row_number /\ item.status \in Live
MatchesHealth(item, record) ==
    item.source = "account_health" /\ item.row = record.row_number /\ item.status \in Live

SyncFallout(s, a) ==
    /\ jobs[s] = Idle /\ Len(assessments[a]) > 0
    /\ jobs' = [jobs EXCEPT ![s] =
          [kind |-> "health", of |-> a, added |-> <<>>,
           todo |-> {k \in 1..Len(assessments[a]) : NeedsReview(assessments[a][k])}]]
    /\ UNCHANGED <<staged, errors, assessments, whole, items, synced, answered>>

sync_health_record(s, k) ==
    /\ jobs[s].kind = "health" /\ k \in jobs[s].todo
    /\ LET record == assessments[jobs[s].of][k]
           known == \E i \in 1..Len(items) : MatchesHealth(items[i], record)
           mine == \E i \in 1..Len(jobs[s].added) : MatchesHealth(jobs[s].added[i], record)
       IN jobs' = [jobs EXCEPT ![s].todo = @ \ {k},
                               ![s].added = IF known \/ mine THEN @
                                            ELSE Append(@, HealthItem(record))]
    /\ UNCHANGED <<staged, errors, assessments, whole, items, synced, answered>>

(* POST exceptions/sync-ingest: the unresolved errors, in any order, each  *)
(* looked up by its id.                                                    *)
SyncIngest(s) ==
    /\ jobs[s] = Idle
    /\ LET open == {e \in 1..Len(errors) : ~errors[e].resolved}
       IN jobs' = [jobs EXCEPT ![s] = [kind |-> "ingest", added |-> <<>>, todo |-> open]]
    /\ UNCHANGED <<staged, errors, assessments, whole, items, synced, answered>>

MatchesErrorResolved(item, e) ==
    item.source = "ingest" /\ item.error = e /\ item.status = "resolved"
MatchesError(item, e) == item.source = "ingest" /\ item.error = e

sync_from_ingest_error(s, e) ==
    /\ jobs[s].kind = "ingest" /\ e \in jobs[s].todo
    /\ LET known == \E i \in 1..Len(items) : MatchesError(items[i], e)
       IN jobs' = [jobs EXCEPT ![s].todo = @ \ {e},
                               ![s].added = IF known THEN @
                                            ELSE Append(@, Item("ingest", e, errors[e].row,
                                                                None, Unclassified))]
    /\ UNCHANGED <<staged, errors, assessments, whole, items, synced, answered>>

SyncCommit(s) ==
    /\ jobs[s].kind \in {"health", "ingest"} /\ jobs[s].todo = {}
    /\ items' = items \o jobs[s].added
    /\ synced' = IF jobs[s].kind = "health" THEN synced \cup {jobs[s].of} ELSE synced
    /\ jobs' = [jobs EXCEPT ![s] = Idle]
    /\ UNCHANGED <<staged, errors, assessments, whole, answered>>

-----------------------------------------------------------------------------
(* A run that ends: its refused records and its failed loads, classified,  *)
(* in the transaction that ends the batch.                                 *)

create_validation_exception(row) ==
    /\ Len(items) < MaxItems
    /\ items' = Append(items, Item("validation", NoError, row, None, Unclassified))
    /\ UNCHANGED <<staged, errors, assessments, whole, jobs, synced, answered>>

classify_load_failure(response) ==
    /\ Len(items) < MaxItems
    /\ LET item == Item("kraken_load", NoError, NoRow, None, classify_kraken_response(response))
       IN items' = Append(items, [item EXCEPT !.payload = response])
    /\ UNCHANGED <<staged, errors, assessments, whole, jobs, synced, answered>>

-----------------------------------------------------------------------------
(* POST exceptions/{id}/assign, /override, /resolve: the handler changes   *)
(* the item (and, resolving, its error), flushes and answers.              *)

Change(s, x, status) ==
    /\ jobs[s] = Idle
    /\ jobs' = [jobs EXCEPT ![s] = [kind |-> "change", item |-> x, status |-> status]]
    /\ UNCHANGED <<staged, errors, assessments, whole, items, synced, answered>>

(* What the end of the request leaves in the database: no route commits.   *)
AfterClose(rows, job) == rows

EndRequest(s) ==
    /\ jobs[s].kind = "change"
    /\ items' = AfterClose(items, jobs[s])
    /\ answered' = [item |-> jobs[s].item, status |-> jobs[s].status]
    /\ jobs' = [jobs EXCEPT ![s] = Idle]
    /\ UNCHANGED <<staged, errors, assessments, whole, synced>>

Next ==
    \/ \E raw \in SourceRows, place \in 1..(Len(staged) + 1) : UploadLine(raw, place)
    \/ \E e \in 1..Len(errors), raw \in SourceRows, place \in 1..(Len(staged) + 1) :
          ReprocessLine(e, raw, place)
    \/ \E limit \in 0..MaxStaged : Assess(limit)
    \/ \E s \in Sessions :
          \/ \E a \in 1..Len(assessments) : SyncFallout(s, a)
          \/ \E k \in 1..MaxStaged : sync_health_record(s, k)
          \/ SyncIngest(s)
          \/ \E e \in 1..MaxErrors : sync_from_ingest_error(s, e)
          \/ SyncCommit(s)
          \/ \E x \in 1..Len(items), status \in Decisions :
                Change(s, x, status)
          \/ EndRequest(s)
    \/ \E row \in 1..MaxStaged : create_validation_exception(row)
    \/ \E response \in Responses : classify_load_failure(response)

Spec == Init /\ [][Next]_vars

-----------------------------------------------------------------------------
(* The shape of the queue: every item has a source, a status and, where    *)
(* the classifiers give one, a code with its root cause and owner.         *)
FalloutTypeOK ==
    /\ \A i \in 1..Len(items) :
          /\ items[i].source \in {"ingest", "account_health", "validation", "kraken_load"}
          /\ items[i].status \in Live \cup {"resolved"}
          /\ items[i].row \in 0..(MaxStaged + 1) /\ items[i].error \in 0..MaxErrors
          /\ items[i].source \in {"account_health", "kraken_load"} => items[i].owner # None
    /\ \A s \in Sessions : jobs[s].kind \in {"idle", "health", "ingest", "change"}
    /\ synced \cup whole \subseteq 1..Len(assessments)

(* However often an account was uploaded, and whatever stands between its  *)
(* rows, one assessment takes at most one of them for ready.               *)
OneReadyRowPerAccount ==
    \A a \in 1..Len(assessments) : \A i, j \in 1..Len(assessments[a]) :
        /\ assessments[a][i].status = "ready" /\ assessments[a][j].status = "ready"
        /\ assessments[a][i].account = assessments[a][j].account
        => i = j

(* The gate in front of a wave, with its default score of 85 and deployed  *)
(* to tolerate no blocked row (a 0 in the request itself counts as unset), *)
(* opens after a refusal only by an assessment that leaves rows out: rows  *)
(* are never replaced or removed, and each check blocks, so that a         *)
(* remediated account only adds a row next to the blocked one              *)
(* (waves/service.py:297).                                                 *)
Passes(a) == check_health_gate(assessments[a], 85, 0)
OpensByLeavingOut ==
    \A a, b \in 1..Len(assessments) :
        a < b /\ Len(assessments[a]) > 0 /\ ~Passes(a) /\ Passes(b) => b \notin whole

(* What docs/ACCOUNT_HEALTH_STRATEGY.md:47 says of a blocked account       *)
(* ("exclude until remediated"): when each account of an assessment has    *)
(* one row with nothing wrong but that it is not the first of its account, *)
(* the gate lets the cohort through.  The code does not: it keeps the row  *)
(* that was blocked, and takes the new one for a duplicate.                *)
RowsOf(a, account) == {i \in DOMAIN assessments[a] : assessments[a][i].account = account}
Remediated(record) ==
    \A k \in DOMAIN record.checks : record.checks[k] = "duplicate_account_number"
RemediatedPasses ==
    \A a \in 1..Len(assessments) :
        /\ Len(assessments[a]) > 0
        /\ \A i \in DOMAIN assessments[a] :
              Cardinality({j \in RowsOf(a, assessments[a][i].account) :
                              Remediated(assessments[a][j])}) = 1
        => Passes(a)

(* Once the fallout of an assessment is synced, each of its blocked rows   *)
(* has an item that is still being worked on, whatever other requests and  *)
(* runs put on the queue meanwhile: an item of its own account, or one     *)
(* that another assessment gave another account on its row number.         *)
Reviewed(item, a) ==
    \E k \in 1..Len(assessments[a]) :
        /\ item.row = assessments[a][k].row_number /\ item.account = assessments[a][k].account
        /\ NeedsReview(assessments[a][k])
BlockedRowsQueued ==
    \A a \in synced : \A k \in 1..Len(assessments[a]) :
        NeedsReview(assessments[a][k]) =>
            \E i \in 1..Len(items) :
                /\ MatchesHealth(items[i], assessments[a][k])
                /\ \/ items[i].account = assessments[a][k].account
                   \/ \E b \in 1..Len(assessments) \ {a} : Reviewed(items[i], b)

(* What docs/ACCOUNT_HEALTH_STRATEGY.md:63 says ("Blocked/conditional      *)
(* accounts sync to the exception queue"): each blocked account of a       *)
(* synced assessment has an item.  The code looks for the row number only. *)
BlockedAccountsQueued ==
    \A a \in synced : \A k \in 1..Len(assessments[a]) :
        NeedsReview(assessments[a][k]) =>
            \E i \in 1..Len(items) :
                /\ items[i].source = "account_health" /\ items[i].status \in Live
                /\ items[i].account = assessments[a][k].account

(* A refused line is on the queue exactly once, also when requests that    *)
(* sync the errors overlap with each other and with uploads.               *)
ErrorQueuedOnce ==
    \A e \in 1..Len(errors) :
        Cardinality({i \in 1..Len(items) : items[i].source = "ingest" /\ items[i].error = e}) = 1

(* What a request answered is what the queue holds afterwards: the audit   *)
(* history of assign, override and resolve that docs/CAPABILITY_MATRIX.md  *)
(* describes.  The code does not keep it.                                  *)
AnswerKept ==
    answered # NoAnswer => items[answered.item].status = answered.status
=============================================================================

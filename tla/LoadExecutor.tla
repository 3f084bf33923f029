------------------------------ MODULE LoadExecutor ------------------------------
(***************************************************************************)
(* The load of one chunk of records: the adapter drops what the target     *)
(* schema refuses and what was loaded before, run_batched_load cuts the    *)
(* rest into batches and a pool of threads sends them, with a rate limiter *)
(* before the first attempt and retries after the later ones.              *)
(*                                                                         *)
(* The destination is external: it accepts some records of a request, and  *)
(* then lists them, or answers with an error, or with what looks like a    *)
(* rate limit to the executor, or the request raises (a timeout).          *)
(***************************************************************************)
EXTENDS Naturals, FiniteSets

CONSTANTS
    RecordCount,    \* records of the chunk
    BatchSize,      \* load_batch_size; 0 means one batch
    Concurrency,    \* load_concurrency
    RetryMax,       \* load_retry_max
    Limited         \* max_rps > 0

ASSUME ExecutorAssumption ==
    /\ RecordCount \in Nat /\ BatchSize \in Nat
    /\ Concurrency \in Nat \ {0} /\ RetryMax \in Nat
    /\ Limited \in BOOLEAN

Records == 1 .. RecordCount

VARIABLES
    invalid,    \* records the target schema refuses
    known,      \* records whose external id is in loaded_external_ids
    state,      \* of each batch
    attempt,    \* retries of each batch so far
    accepted,   \* [Records -> how often the destination accepted it]
    unsaid,     \* records accepted by requests whose answer, a throttled one or an
                \* error, does not list them
    answer,     \* [batch -> the loaded records its handler returned]
    failures,   \* batches whose handler returned failures
    slot,       \* the limiter lets a request through in the current interval
    loaded,     \* loaded list of run_batched_load
    failed,     \* failed list of run_batched_load is not empty
    raising,    \* a future's exception is leaving the with block
    result      \* of the call: "open", "returned" or "raised"

batchVars == <<state, attempt, answer, failures>>
atTarget == <<accepted, unsaid>>
evars == <<invalid, known, batchVars, atTarget, slot, loaded, failed, raising, result>>

Skipped == known \ invalid
ToLoad == (Records \ invalid) \ known

\* chunk_records: slices of the list of records to load.
Position(r) == Cardinality({q \in ToLoad : q <= r})
BatchOf(r) ==
    IF BatchSize = 0 THEN 1 ELSE ((Position(r) - 1) \div BatchSize) + 1
Batches == {BatchOf(r) : r \in ToLoad}
RecordsOf(b) == {r \in ToLoad : BatchOf(r) = b}

BatchStates == {"waiting", "limited", "flying", "backoff", "done", "broken", "collected"}
InThread == {"limited", "flying", "backoff"}
Busy == {b \in DOMAIN state : state[b] \in InThread}

Init ==
    /\ invalid \in SUBSET Records /\ known \in SUBSET Records
    /\ state = [b \in Batches |-> "waiting"]
    /\ attempt = [b \in Batches |-> 0]
    /\ answer = [b \in Batches |-> {}]
    /\ failures = {}
    /\ accepted = [r \in Records |-> 0]
    /\ unsaid = [throttled |-> {}, error |-> {}]
    /\ slot = TRUE
    /\ loaded = {} /\ failed = FALSE /\ raising = FALSE
    /\ result = "open"

-----------------------------------------------------------------------------
(* The threads of the pool                                                  *)

Transition(b, from, to) == state[b] = from /\ state' = [state EXCEPT ![b] = to]

outer == <<invalid, known, loaded, failed, raising, result>>

\* Batches are submitted in order; Concurrency threads take them in this order.
Take(b) ==
    /\ Cardinality(Busy) < Concurrency
    /\ \A c \in Batches : state[c] = "waiting" => b <= c
    /\ Transition(b, "waiting", "limited")
    /\ UNCHANGED <<outer, attempt, answer, failures, atTarget, slot>>

\* _RateLimiter.wait: one first attempt per interval, the sleep being taken under the
\* lock.  The direct call of a single batch bypasses it, but a first attempt never waits.
Pass(b) ==
    /\ Transition(b, "limited", "flying")
    /\ slot /\ slot' = ~Limited
    /\ UNCHANGED <<outer, attempt, answer, failures, atTarget>>

\* An interval of the limiter has gone by.
Tick == ~slot /\ slot' = TRUE /\ UNCHANGED <<outer, batchVars, atTarget>>

Accept(rs) == accepted' = [r \in Records |-> accepted[r] + IF r \in rs THEN 1 ELSE 0]

\* The destination answers: it lists what it loaded and what failed.
Answered(b) ==
    /\ Transition(b, "flying", "done")
    /\ \E ok \in SUBSET RecordsOf(b) :
          /\ Accept(ok)
          /\ answer' = [answer EXCEPT ![b] = ok]
          /\ failures' = IF ok = RecordsOf(b) THEN failures ELSE failures \cup {b}
    /\ UNCHANGED <<outer, attempt, slot, unsaid>>

\* An answer that lists nothing, whatever part of the request was accepted.
AcceptUnsaid(b, kind) ==
    \E ok \in SUBSET RecordsOf(b) :
        /\ Accept(ok)
        /\ unsaid' = [unsaid EXCEPT ![kind] = @ \cup ok]

\* Mutation: an answer in error is reported without a failure.
RefusedQuietly(b, kind) ==
    /\ Transition(b, "flying", "done")
    /\ AcceptUnsaid(b, kind)
    /\ UNCHANGED <<outer, attempt, answer, failures, slot>>

\* Nothing is reported as loaded, and a failure is.
RefusedAs(b, kind) ==
    /\ Transition(b, "flying", "done")
    /\ AcceptUnsaid(b, kind)
    /\ failures' = failures \cup {b}
    /\ UNCHANGED <<outer, attempt, answer, slot>>

\* A status of 400 or above that does not look throttled.
Refused(b) == RefusedAs(b, "error")

\* Mutation: the attempts of a batch are not counted.
RateLimitedForever(b) ==
    /\ Transition(b, "flying", "backoff")
    /\ AcceptUnsaid(b, "throttled")
    /\ UNCHANGED <<outer, attempt, answer, failures, slot>>

\* A throttled answer, which a status of 429, the text of a 503 or a code anywhere in the
\* body makes of any answer, also of one that loaded the records: the thread sleeps and
\* sends the whole batch again, or gives up.
RateLimited(b) ==
    /\ attempt[b] < RetryMax
    /\ Transition(b, "flying", "backoff")
    /\ AcceptUnsaid(b, "throttled")
    /\ attempt' = [attempt EXCEPT ![b] = @ + 1]
    /\ UNCHANGED <<outer, answer, failures, slot>>

Exhausted(b) ==
    /\ attempt[b] >= RetryMax
    /\ RefusedAs(b, "throttled")

\* Retries do not go through the limiter.
Retry(b) ==
    /\ Transition(b, "backoff", "flying")
    /\ UNCHANGED <<outer, attempt, answer, failures, atTarget, slot>>

\* Mutation: any exception is retried like a rate limit.
BrokenRetried(b) ==
    /\ attempt[b] < RetryMax
    /\ Transition(b, "flying", "backoff")
    /\ \E ok \in SUBSET RecordsOf(b) : Accept(ok)
    /\ attempt' = [attempt EXCEPT ![b] = @ + 1]
    /\ UNCHANGED <<outer, answer, failures, slot, unsaid>>

\* The request raises anything else: the destination may have accepted some records.
Broken(b) ==
    /\ Transition(b, "flying", "broken")
    /\ \E ok \in SUBSET RecordsOf(b) : Accept(ok)
    /\ UNCHANGED <<outer, attempt, answer, failures, slot, unsaid>>

-----------------------------------------------------------------------------
(* The calling thread                                                       *)

inner == <<invalid, known, attempt, answer, failures, atTarget, slot>>

\* as_completed: results are added in whatever order the batches end.
Collect(b) ==
    /\ ~raising
    /\ Transition(b, "done", "collected")
    /\ loaded' = loaded \cup answer[b]
    /\ failed' = (failed \/ b \in failures)
    /\ UNCHANGED <<inner, raising, result>>

\* future.result() raises: no other result is collected.
CollectBroken(b) ==
    /\ ~raising /\ state[b] = "broken"
    /\ raising' = TRUE
    /\ UNCHANGED <<inner, state, loaded, failed, result>>

\* The adapter adds what it skipped to the loaded, what it refused to the failed.
Return ==
    /\ result = "open"
    /\ \A b \in Batches : state[b] = "collected"
    /\ result' = "returned"
    /\ loaded' = loaded \cup Skipped
    /\ failed' = (failed \/ invalid # {})
    /\ UNCHANGED <<inner, state, raising>>

\* Mutation: the call ends while other threads still send.
RaiseAtOnce ==
    /\ result = "open" /\ raising
    /\ result' = "raised"
    /\ UNCHANGED <<inner, state, loaded, failed, raising>>

\* Leaving the with block waits for all threads; waiting batches are not cancelled.
Raise ==
    /\ result = "open" /\ raising
    /\ \A b \in Batches : state[b] \in {"done", "broken", "collected"}
    /\ result' = "raised"
    /\ UNCHANGED <<inner, state, loaded, failed, raising>>

Thread(b) ==
    \/ Take(b) \/ Pass(b) \/ Retry(b)
    \/ Answered(b) \/ Refused(b) \/ RateLimited(b) \/ Exhausted(b) \/ Broken(b)
Next ==
    \/ \E b \in Batches : Thread(b) \/ Collect(b) \/ CollectBroken(b)
    \/ Tick \/ Return \/ Raise
Spec == Init /\ [][Next]_evars

\* Threads are scheduled, sleeps end, and requests have a timeout (http_timeout_seconds).
FairSpec == Spec /\ WF_evars(Next)

-----------------------------------------------------------------------------
(* Properties                                                               *)

ExecTypeOK ==
    /\ invalid \subseteq Records /\ known \subseteq Records
    /\ state \in [Batches -> BatchStates]
    /\ attempt \in [Batches -> 0 .. RetryMax]
    /\ answer \in [Batches -> SUBSET ToLoad]
    /\ failures \subseteq Batches
    /\ accepted \in [Records -> Nat]
    /\ unsaid \in [throttled : SUBSET Records, error : SUBSET Records]
    /\ slot \in BOOLEAN /\ failed \in BOOLEAN /\ raising \in BOOLEAN
    /\ loaded \subseteq Records
    /\ result \in {"open", "returned", "raised"}

\* When the call is over, by a return or by an exception, no thread sends any more: what
\* the pipeline does next (mark the batch failed, resume the run) races with nothing.
QuietAfterwards == result # "open" => Busy = {}

\* The call ends whatever the destination answers: retries are bounded, the limiter
\* does not starve a thread and one failed future does not block the others.
CallEnds == <>(result # "open")

\* The pool implements one load of a chunk as the pipeline sees it.  Records refused by
\* the schema are not known to the destination.
Stage == INSTANCE LoadStage WITH
    known <- Skipped,
    arrived <- {r \in Records : accepted[r] > 0},
    unsaid <- unsaid.throttled \cup unsaid.error,
    reported <- IF result = "returned" THEN loaded ELSE {},
    clean <- result = "returned" /\ ~failed
ImplementsLoadStage == Stage!LSpec

\* The destination accepts a record twice in a call only if it answered the first time as
\* if it were throttling: after an error, a timeout or a list no request is repeated.
AcceptedOnce == \A r \in Records : accepted[r] > 1 => r \in unsaid.throttled
=============================================================================

--------------------------- MODULE LoadExecutorProofs ---------------------------
(***************************************************************************)
(* Proofs about LoadExecutor, for any chunk, batch size, number of threads *)
(* and retries.  How chunk_records cuts the chunk does not matter, only    *)
(* that every record to load is in one batch.                              *)
(***************************************************************************)
EXTENDS LoadExecutor, TLAPS

Early == {"waiting", "limited", "flying", "backoff"}
Answering == {"done", "collected"}
Over == {"done", "broken", "collected"}

Unsaid == unsaid.throttled \cup unsaid.error

\* What was accepted of a batch that goes on was accepted by throttled answers; one that
\* is over lists only what was accepted, all of it but for what the answers did not say,
\* and has a failure unless it lists the whole batch.
BatchOK(b) ==
    /\ state[b] \in Early =>
          /\ b \notin failures /\ answer[b] = {}
          /\ \A r \in RecordsOf(b) : accepted[r] > 0 => r \in unsaid.throttled
    /\ state[b] \in Answering =>
          /\ answer[b] \subseteq RecordsOf(b)
          /\ \A r \in answer[b] : accepted[r] > 0
          /\ \A r \in RecordsOf(b) \ answer[b] : accepted[r] > 0 => r \in Unsaid
          /\ b \in failures <=> answer[b] # RecordsOf(b)

\* Before the adapter adds its own, the lists hold what was collected.
Gathered ==
    result # "returned" =>
        /\ loaded = UNION {answer[b] : b \in {c \in Batches : state[c] = "collected"}}
        /\ failed <=> \E b \in Batches : state[b] = "collected" /\ b \in failures

Ended ==
    /\ result = "returned" => \A b \in Batches : state[b] = "collected"
    /\ result = "raised" => raising /\ \A b \in Batches : state[b] \in Over

Inv ==
    /\ ExecTypeOK
    /\ \A b \in Batches : BatchOK(b)
    /\ AcceptedOnce
    /\ \A r \in Records \ ToLoad : accepted[r] = 0
    /\ Gathered
    /\ Ended

-----------------------------------------------------------------------------
(* The cut of the chunk                                                     *)

LEMMA Cut ==
    /\ ToLoad \subseteq Records
    /\ \A r \in ToLoad : BatchOf(r) \in Batches /\ r \in RecordsOf(BatchOf(r))
    /\ \A b \in Batches : RecordsOf(b) \subseteq ToLoad /\ RecordsOf(b) # {}
    /\ \A b, c : \A r \in RecordsOf(b) : r \in RecordsOf(c) => b = c
BY DEF ToLoad, Batches, RecordsOf

SameCut ==
    /\ invalid' = invalid /\ known' = known
    /\ ToLoad' = ToLoad /\ Batches' = Batches /\ Skipped' = Skipped
    /\ \A b \in Batches : RecordsOf(b)' = RecordsOf(b)

\* No step changes what is to be loaded, nor therefore the batches.
LEMMA CutStays == [Next]_evars => SameCut
<1> SUFFICES ASSUME [Next]_evars PROVE SameCut
  OBVIOUS
<1>1. invalid' = invalid /\ known' = known
  BY DEF Next, Thread, Take, Pass, Tick, Answered, Refused, RateLimited, Exhausted, Retry,
         RefusedAs, Broken, Collect, CollectBroken, Return, Raise, evars, outer, inner
<1>2. ToLoad' = ToLoad /\ Skipped' = Skipped
  BY <1>1 DEF ToLoad, Skipped
<1>3. \A r : Position(r)' = Position(r)
  BY <1>2, Zenon DEF Position
<1>4. \A r : BatchOf(r)' = BatchOf(r)
  BY <1>3 DEF BatchOf
<1>5. Batches' = Batches
  BY <1>2, <1>4 DEF Batches
<1>6. \A b \in Batches : RecordsOf(b)' = RecordsOf(b)
  BY <1>2, <1>4 DEF RecordsOf
<1> QED
  BY <1>1, <1>2, <1>5, <1>6 DEF SameCut

-----------------------------------------------------------------------------
(* The inductive invariant                                                  *)

LEMMA InvInit == Init => Inv
<1> SUFFICES ASSUME Init PROVE Inv
  OBVIOUS
<1>1. ExecTypeOK
  <2>1. state \in [Batches -> BatchStates] /\ answer \in [Batches -> SUBSET ToLoad]
    BY DEF Init, BatchStates
  <2>2. attempt \in [Batches -> 0 .. RetryMax]
    BY ExecutorAssumption DEF Init, ExecutorAssumption
  <2>3. accepted \in [Records -> Nat]
    BY DEF Init
  <2> QED
    BY <2>1, <2>2, <2>3 DEF Init, ExecTypeOK
<1>2. \A b \in Batches : BatchOK(b)
  BY Cut DEF Init, BatchOK, Early, Answering
<1>3. AcceptedOnce /\ \A r \in Records \ ToLoad : accepted[r] = 0
  BY DEF Init, AcceptedOnce
<1>4. Gathered /\ Ended
  BY DEF Init, Gathered, Ended
<1> QED
  BY <1>1, <1>2, <1>3, <1>4 DEF Inv

\* A thread that moves on without an answer disturbs nothing.
LEMMA Moving ==
    ASSUME Inv, SameCut, NEW b \in Batches, NEW from \in Early, NEW to \in InThread,
           Transition(b, from, to), attempt' \in [Batches -> 0 .. RetryMax],
           slot' \in BOOLEAN, UNCHANGED <<outer, answer, failures, atTarget>>
    PROVE  Inv'
<1>1. ExecTypeOK'
  BY DEF Inv, ExecTypeOK, SameCut, Transition, Early, InThread, BatchStates, outer, atTarget
<1>2. state[b] \in Early /\ state' = [state EXCEPT ![b] = to] /\ to \in Early
  BY DEF Transition, Early, InThread
<1>3. state \in [Batches -> BatchStates] /\ DOMAIN state = Batches
  BY DEF Inv, ExecTypeOK
<1>4. \A c \in Batches : (c # b => state'[c] = state[c]) /\ state'[b] = to
  BY <1>2, <1>3
<1>5. \A c \in Batches : BatchOK(c)'
  BY <1>2, <1>4 DEF Inv, BatchOK, Unsaid, SameCut, Early, Answering, outer, atTarget
<1>6. {c \in Batches : state'[c] = "collected"} = {c \in Batches : state[c] = "collected"}
  BY <1>2, <1>4 DEF Early
<1>7. Gathered'
  BY <1>6 DEF Inv, Gathered, SameCut, outer
<1>8. Ended'
  BY <1>2, <1>4 DEF Inv, Ended, SameCut, Early, Over, outer
<1> QED
  BY <1>1, <1>5, <1>7, <1>8 DEF Inv, AcceptedOnce, SameCut, Records, atTarget

\* A request touches only the records of its batch.
LEMMA Requested ==
    ASSUME Inv, SameCut, NEW b \in Batches, NEW to \in {"backoff", "done", "broken"},
           NEW ok \in SUBSET RecordsOf(b), Transition(b, "flying", to), Accept(ok),
           unsaid' \in [throttled : SUBSET Records, error : SUBSET Records],
           unsaid.throttled \subseteq unsaid.throttled', unsaid.error \subseteq unsaid.error',
           to = "backoff" => ok \subseteq unsaid.throttled',
           attempt' \in [Batches -> 0 .. RetryMax],
           answer' \in [Batches -> SUBSET ToLoad], failures' \subseteq Batches,
           \A c \in Batches \ {b} :
               answer'[c] = answer[c] /\ (c \in failures' <=> c \in failures),
           BatchOK(b)',
           UNCHANGED <<outer, slot>>
    PROVE  Inv'
<1>1. state[b] = "flying" /\ state' = [state EXCEPT ![b] = to]
  BY DEF Transition
<1>2. /\ state \in [Batches -> BatchStates] /\ accepted \in [Records -> Nat]
      /\ \A r \in RecordsOf(b) : accepted[r] > 0 => r \in unsaid.throttled
  BY <1>1 DEF Inv, ExecTypeOK, BatchOK, Early
<1>3. \A c \in Batches : (c # b => state'[c] = state[c]) /\ state'[b] = to
  BY <1>1, <1>2
<1>4. /\ \A r \in Records : r \in ok => accepted'[r] = accepted[r] + 1
      /\ \A r \in Records : r \notin ok => accepted'[r] = accepted[r]
      /\ accepted' \in [Records -> Nat]
  BY <1>2 DEF Accept
<1>5. ok \subseteq ToLoad /\ ToLoad \subseteq Records
  BY Cut
<1>6. ExecTypeOK'
  <2>1. state' \in [Batches -> BatchStates]
    BY <1>1, <1>2 DEF BatchStates
  <2> QED
    BY <1>4, <2>1 DEF Inv, ExecTypeOK, SameCut, Records, outer
<1>7. ASSUME NEW c \in Batches, c # b PROVE BatchOK(c)'
  <2>1. \A r \in RecordsOf(c) : r \in Records /\ accepted'[r] = accepted[r]
    BY <1>4, <1>7, Cut
  <2>2. /\ state'[c] = state[c] /\ answer'[c] = answer[c]
        /\ c \in failures' <=> c \in failures
    BY <1>3, <1>7
  <2>3. RecordsOf(c)' = RecordsOf(c) /\ BatchOK(c)
    BY DEF SameCut, Inv
  <2>4. Unsaid \subseteq Unsaid'
    BY DEF Unsaid
  <2>5. CASE state[c] \in Early
    BY <2>1, <2>2, <2>3, <2>5 DEF BatchOK, Early, Answering
  <2>6. CASE state[c] \in Answering
    BY <2>1, <2>2, <2>3, <2>4, <2>6 DEF BatchOK, Early, Answering
  <2> QED
    BY <2>2, <2>5, <2>6 DEF BatchOK
<1>8. AcceptedOnce'
  <2>1. ASSUME NEW r \in Records, accepted'[r] > 1 PROVE r \in unsaid.throttled'
    BY <1>2, <1>4, <2>1 DEF Inv, AcceptedOnce
  <2> QED
    BY <2>1 DEF AcceptedOnce, Records
<1>9. \A r \in Records \ ToLoad : accepted'[r] = 0
  BY <1>4, <1>5 DEF Inv
<1>10. /\ \A c \in Batches : state'[c] = "collected" <=> state[c] = "collected"
       /\ \A c \in Batches : state[c] = "collected" =>
             answer'[c] = answer[c] /\ (c \in failures' <=> c \in failures)
  BY <1>1, <1>3
<1>11. Gathered'
  <2>1. {c \in Batches : state'[c] = "collected"} = {c \in Batches : state[c] = "collected"}
    BY <1>10
  <2>2. /\ UNION {answer'[c] : c \in {d \in Batches : state'[d] = "collected"}}
             = UNION {answer[c] : c \in {d \in Batches : state[d] = "collected"}}
        /\ (\E c \in Batches : state'[c] = "collected" /\ c \in failures')
             <=> \E c \in Batches : state[c] = "collected" /\ c \in failures
    BY <1>10, <2>1
  <2> QED
    BY <2>2 DEF Inv, Gathered, SameCut, outer
<1>12. Ended'
  BY <1>1, <1>3 DEF Inv, Ended, SameCut, Over, outer
<1>13. \A c \in Batches : BatchOK(c)'
  BY <1>7
<1> QED
  BY <1>6, <1>8, <1>9, <1>11, <1>12, <1>13 DEF Inv, SameCut, Records

\* The state of a request in flight, and what an acceptance makes of its records.
LEMMA Flight ==
    ASSUME Inv, SameCut, NEW b \in Batches, state[b] = "flying",
           NEW ok \in SUBSET RecordsOf(b), Accept(ok)
    PROVE  /\ b \notin failures /\ answer[b] = {} /\ RecordsOf(b) # {}
           /\ RecordsOf(b) \subseteq ToLoad /\ ToLoad \subseteq Records
           /\ \A r \in RecordsOf(b) : accepted'[r] > 0 => r \in ok \cup unsaid.throttled
           /\ \A r \in ok : accepted'[r] > 0
<1>1. /\ b \notin failures /\ answer[b] = {} /\ accepted \in [Records -> Nat]
      /\ \A r \in RecordsOf(b) : accepted[r] > 0 => r \in unsaid.throttled
  BY DEF Inv, ExecTypeOK, BatchOK, Early
<1>2. /\ RecordsOf(b) # {} /\ RecordsOf(b) \subseteq ToLoad /\ ToLoad \subseteq Records
  BY Cut
<1>3. \A r \in Records : accepted'[r] = accepted[r] + IF r \in ok THEN 1 ELSE 0
  BY DEF Accept
<1> QED
  BY <1>1, <1>2, <1>3

\* The destination lists what it loaded: what is missing is a failure.
LEMMA Listing ==
    ASSUME Inv, SameCut, NEW b \in Batches, Answered(b)
    PROVE  Inv'
<1>1. PICK ok \in SUBSET RecordsOf(b) :
          /\ Accept(ok)
          /\ answer' = [answer EXCEPT ![b] = ok]
          /\ failures' = IF ok = RecordsOf(b) THEN failures ELSE failures \cup {b}
  BY DEF Answered
<1>2. /\ Transition(b, "flying", "done") /\ UNCHANGED <<outer, attempt, slot, unsaid>>
      /\ state[b] = "flying" /\ state' = [state EXCEPT ![b] = "done"]
  BY DEF Answered, Transition
<1>3. /\ state \in [Batches -> BatchStates] /\ answer \in [Batches -> SUBSET ToLoad]
      /\ failures \subseteq Batches /\ attempt \in [Batches -> 0 .. RetryMax]
      /\ unsaid \in [throttled : SUBSET Records, error : SUBSET Records]
  BY DEF Inv, ExecTypeOK
<1>4. /\ b \notin failures /\ RecordsOf(b) \subseteq ToLoad
      /\ \A r \in RecordsOf(b) : accepted'[r] > 0 => r \in ok \cup unsaid.throttled
      /\ \A r \in ok : accepted'[r] > 0
  BY <1>1, <1>2, Flight
<1>5. answer' \in [Batches -> SUBSET ToLoad] /\ failures' \subseteq Batches
  BY <1>1, <1>3, <1>4
<1>6. BatchOK(b)'
  <2>1. state'[b] = "done" /\ answer'[b] = ok /\ RecordsOf(b)' = RecordsOf(b)
    BY <1>1, <1>2, <1>3 DEF SameCut
  <2>2. b \in failures' <=> ok # RecordsOf(b)
    BY <1>1, <1>4
  <2> QED
    BY <1>2, <1>4, <2>1, <2>2 DEF BatchOK, Early, Answering, Unsaid
<1>7. \A c \in Batches \ {b} :
          answer'[c] = answer[c] /\ (c \in failures' <=> c \in failures)
  BY <1>1, <1>3
<1> QED
  BY <1>1, <1>2, <1>3, <1>5, <1>6, <1>7, Requested

\* An answer that lists nothing leaves the answer empty, and there was something to load.
LEMMA Refusing ==
    ASSUME Inv, SameCut, NEW b \in Batches, NEW kind \in {"throttled", "error"},
           RefusedAs(b, kind)
    PROVE  Inv'
<1>1. PICK ok \in SUBSET RecordsOf(b) :
          Accept(ok) /\ unsaid' = [unsaid EXCEPT ![kind] = @ \cup ok]
  BY DEF RefusedAs, AcceptUnsaid
<1>2. /\ Transition(b, "flying", "done") /\ UNCHANGED <<outer, attempt, answer, slot>>
      /\ state[b] = "flying" /\ state' = [state EXCEPT ![b] = "done"]
      /\ failures' = failures \cup {b}
  BY DEF RefusedAs, Transition
<1>3. /\ state \in [Batches -> BatchStates] /\ answer \in [Batches -> SUBSET ToLoad]
      /\ failures \subseteq Batches /\ attempt \in [Batches -> 0 .. RetryMax]
      /\ unsaid \in [throttled : SUBSET Records, error : SUBSET Records]
  BY DEF Inv, ExecTypeOK
<1>4. /\ answer[b] = {} /\ RecordsOf(b) # {}
      /\ RecordsOf(b) \subseteq ToLoad /\ ToLoad \subseteq Records
      /\ \A r \in RecordsOf(b) : accepted'[r] > 0 => r \in ok \cup unsaid.throttled
  BY <1>1, <1>2, Flight
<1>5. /\ unsaid' \in [throttled : SUBSET Records, error : SUBSET Records]
      /\ unsaid.throttled \subseteq unsaid.throttled' /\ unsaid.error \subseteq unsaid.error'
      /\ ok \subseteq Unsaid'
  BY <1>1, <1>3, <1>4 DEF Unsaid
<1>6. BatchOK(b)'
  <2>1. /\ state'[b] = "done" /\ answer'[b] = {} /\ b \in failures'
        /\ RecordsOf(b)' = RecordsOf(b)
    BY <1>2, <1>3, <1>4 DEF SameCut
  <2> QED
    BY <1>4, <1>5, <2>1 DEF BatchOK, Early, Answering, Unsaid
<1>7. failures' \subseteq Batches /\ \A c \in Batches \ {b} : c \in failures' <=> c \in failures
  BY <1>2, <1>3
<1> QED
  BY <1>1, <1>2, <1>3, <1>5, <1>6, <1>7, Requested

\* A throttled answer sends the batch back, and remembers what it did not say.
LEMMA Throttling ==
    ASSUME Inv, SameCut, NEW b \in Batches, RateLimited(b)
    PROVE  Inv'
<1>1. PICK ok \in SUBSET RecordsOf(b) :
          Accept(ok) /\ unsaid' = [unsaid EXCEPT !["throttled"] = @ \cup ok]
  BY DEF RateLimited, AcceptUnsaid
<1>2. /\ Transition(b, "flying", "backoff") /\ UNCHANGED <<outer, answer, failures, slot>>
      /\ state[b] = "flying" /\ state' = [state EXCEPT ![b] = "backoff"]
  BY DEF RateLimited, Transition
<1>3. /\ state \in [Batches -> BatchStates] /\ answer \in [Batches -> SUBSET ToLoad]
      /\ failures \subseteq Batches
      /\ unsaid \in [throttled : SUBSET Records, error : SUBSET Records]
  BY DEF Inv, ExecTypeOK
<1>4. /\ answer[b] = {} /\ b \notin failures
      /\ RecordsOf(b) \subseteq ToLoad /\ ToLoad \subseteq Records
      /\ \A r \in RecordsOf(b) : accepted'[r] > 0 => r \in ok \cup unsaid.throttled
  BY <1>1, <1>2, Flight
<1>5. /\ unsaid' \in [throttled : SUBSET Records, error : SUBSET Records]
      /\ unsaid.throttled' = unsaid.throttled \cup ok /\ unsaid.error' = unsaid.error
  BY <1>1, <1>3, <1>4
<1>6. BatchOK(b)'
  <2>1. state'[b] = "backoff" /\ RecordsOf(b)' = RecordsOf(b)
    BY <1>2, <1>3 DEF SameCut
  <2> QED
    BY <1>2, <1>4, <1>5, <2>1 DEF BatchOK, Early, Answering
<1>7. attempt' \in [Batches -> 0 .. RetryMax]
  BY ExecutorAssumption DEF RateLimited, Inv, ExecTypeOK, ExecutorAssumption
<1> QED
  BY <1>1, <1>2, <1>3, <1>5, <1>6, <1>7, Requested

\* A request that raises answers nothing at all.
LEMMA Breaking ==
    ASSUME Inv, SameCut, NEW b \in Batches, Broken(b)
    PROVE  Inv'
<1>1. PICK ok \in SUBSET RecordsOf(b) : Accept(ok)
  BY DEF Broken
<1>2. /\ Transition(b, "flying", "broken")
      /\ UNCHANGED <<outer, attempt, answer, failures, slot, unsaid>>
      /\ state' = [state EXCEPT ![b] = "broken"]
  BY DEF Broken, Transition
<1>3. /\ state \in [Batches -> BatchStates] /\ answer \in [Batches -> SUBSET ToLoad]
      /\ failures \subseteq Batches /\ attempt \in [Batches -> 0 .. RetryMax]
      /\ unsaid \in [throttled : SUBSET Records, error : SUBSET Records]
  BY DEF Inv, ExecTypeOK
<1>4. BatchOK(b)'
  BY <1>2, <1>3 DEF BatchOK, Early, Answering, SameCut
<1> QED
  BY <1>1, <1>2, <1>3, <1>4, Requested

\* A result that is collected joins the lists; nothing else changes.
LEMMA Collecting ==
    ASSUME Inv, SameCut, NEW b \in Batches, Collect(b)
    PROVE  Inv'
<1>1. /\ state[b] = "done" /\ state' = [state EXCEPT ![b] = "collected"] /\ ~raising
      /\ loaded' = loaded \cup answer[b] /\ failed' = (failed \/ b \in failures)
      /\ UNCHANGED <<accepted, unsaid, answer, failures, attempt, slot, raising, result>>
  BY DEF Collect, Transition, inner, atTarget
<1>2. state \in [Batches -> BatchStates] /\ answer \in [Batches -> SUBSET ToLoad]
  BY DEF Inv, ExecTypeOK
<1>3. \A c \in Batches : (c # b => state'[c] = state[c]) /\ state'[b] = "collected"
  BY <1>1, <1>2
<1>4. result = "open"
  BY <1>1 DEF Inv, ExecTypeOK, Ended
<1>5. ExecTypeOK'
  BY <1>1, <1>2, Cut DEF Inv, ExecTypeOK, SameCut, BatchStates, Records
<1>6. \A c \in Batches : BatchOK(c)'
  BY <1>1, <1>3 DEF Inv, BatchOK, Unsaid, SameCut, Early, Answering
<1>7. Gathered'
  <2>1. /\ loaded = UNION {answer[c] : c \in {d \in Batches : state[d] = "collected"}}
        /\ failed <=> \E c \in Batches : state[c] = "collected" /\ c \in failures
    BY <1>4 DEF Inv, Gathered
  <2>2. {d \in Batches : state'[d] = "collected"}
           = {d \in Batches : state[d] = "collected"} \cup {b}
    BY <1>3
  <2>3. loaded' = UNION {answer[c] : c \in {d \in Batches : state'[d] = "collected"}}
    BY <1>1, <2>1, <2>2
  <2>4. failed' <=> \E c \in Batches : state'[c] = "collected" /\ c \in failures
    BY <1>1, <1>3, <2>1, Zenon
  <2> QED
    BY <1>1, <2>3, <2>4 DEF Gathered, SameCut
<1>8. Ended'
  BY <1>1, <1>4 DEF Ended
<1> QED
  BY <1>1, <1>5, <1>6, <1>7, <1>8 DEF Inv, AcceptedOnce, SameCut, Records

LEMMA InvStep == Inv /\ [Next]_evars => Inv'
<1> SUFFICES ASSUME Inv, [Next]_evars PROVE Inv'
  OBVIOUS
<1>0. SameCut
  BY CutStays
<1>1. ASSUME NEW b \in Batches, Take(b) PROVE Inv'
  BY <1>0, <1>1, Moving DEF Take, Early, InThread, Inv, ExecTypeOK
<1>2. ASSUME NEW b \in Batches, Pass(b) PROVE Inv'
  BY <1>0, <1>2, Moving DEF Pass, Early, InThread, Inv, ExecTypeOK
<1>3. ASSUME NEW b \in Batches, Retry(b) PROVE Inv'
  BY <1>0, <1>3, Moving DEF Retry, Early, InThread, Inv, ExecTypeOK
<1>4. ASSUME NEW b \in Batches, RateLimited(b) PROVE Inv'
  BY <1>0, <1>4, Throttling
<1>5. ASSUME NEW b \in Batches, Answered(b) PROVE Inv'
  BY <1>0, <1>5, Listing
<1>6. ASSUME NEW b \in Batches, Refused(b) \/ Exhausted(b) PROVE Inv'
  BY <1>0, <1>6, Refusing DEF Refused, Exhausted
<1>7. ASSUME NEW b \in Batches, Broken(b) PROVE Inv'
  BY <1>0, <1>7, Breaking
<1>8. ASSUME NEW b \in Batches, CollectBroken(b) PROVE Inv'
  BY <1>0, <1>8 DEF CollectBroken, inner, atTarget, Inv, ExecTypeOK, BatchOK,
          Unsaid, AcceptedOnce, Gathered, Ended, SameCut, Records
<1>9. ASSUME Tick PROVE Inv'
  BY <1>0, <1>9 DEF Tick, outer, atTarget, batchVars, Inv, ExecTypeOK, BatchOK,
          Unsaid, AcceptedOnce, Gathered, Ended, SameCut, Records
<1>10. ASSUME Return PROVE Inv'
  BY <1>0, <1>10 DEF Return, inner, atTarget, Inv, ExecTypeOK, BatchOK,
          Unsaid, AcceptedOnce, Gathered, Ended, SameCut, Records, Skipped
<1>11. ASSUME Raise PROVE Inv'
  BY <1>0, <1>11 DEF Raise, inner, atTarget, Inv, ExecTypeOK, BatchOK,
          Unsaid, AcceptedOnce, Gathered, Ended, Over, SameCut, Records
<1>12. ASSUME UNCHANGED evars PROVE Inv'
  BY <1>0, <1>12 DEF evars, atTarget, batchVars, Inv, ExecTypeOK, BatchOK,
          Unsaid, AcceptedOnce, Gathered, Ended, SameCut, Records
<1> QED
  BY <1>1, <1>2, <1>3, <1>4, <1>5, <1>6, <1>7, <1>8, <1>9, <1>10, <1>11, <1>12, Collecting,
     <1>0 DEF Next, Thread

LEMMA Invariance == Spec => []Inv
BY InvInit, InvStep, PTL DEF Spec

-----------------------------------------------------------------------------
(* What it gives                                                            *)

\* The state of a load keeps its types, whatever the destination answers.
THEOREM TypeCorrect == Spec => []ExecTypeOK
<1>1. Inv => ExecTypeOK
  BY DEF Inv
<1> QED
  BY <1>1, Invariance, PTL

\* However batches are retried and whatever part of a request is accepted, a record is
\* accepted twice in one call only if a throttled answer had not said that it was loaded.
THEOREM NoDoubleAcceptance == Spec => []AcceptedOnce
<1>1. Inv => AcceptedOnce
  BY DEF Inv
<1> QED
  BY <1>1, Invariance, PTL

\* When the call is over no thread of its pool sends any more.
THEOREM Quiet == Spec => []QuietAfterwards
<1>1. Inv => QuietAfterwards
  BY DEF Inv, ExecTypeOK, Ended, Over, QuietAfterwards, Busy, InThread
<1> QED
  BY <1>1, Invariance, PTL

-----------------------------------------------------------------------------
(* The load of a chunk, as the pipeline sees it                             *)

Arrived == {r \in Records : accepted[r] > 0}

\* When all batches are collected the loaded list holds only what the destination
\* accepted, all of it but for what its answers did not say, and there is no failure only
\* if that, with what was skipped, is the whole chunk.
LEMMA Reported ==
    ASSUME Inv, result = "open", \A b \in Batches : state[b] = "collected"
    PROVE  /\ loaded \subseteq Arrived /\ Arrived \ loaded \subseteq Unsaid
           /\ (failed \/ invalid # {}) <=> Skipped \cup loaded # Records
<1>1. \A b \in Batches :
          /\ answer[b] \subseteq RecordsOf(b)
          /\ \A r \in answer[b] : accepted[r] > 0
          /\ \A r \in RecordsOf(b) \ answer[b] : accepted[r] > 0 => r \in Unsaid
          /\ b \in failures <=> answer[b] # RecordsOf(b)
  BY DEF Inv, BatchOK, Answering
<1>2. /\ loaded = UNION {answer[b] : b \in Batches}
      /\ failed <=> \E b \in Batches : b \in failures
  <2>1. {c \in Batches : state[c] = "collected"} = Batches
    OBVIOUS
  <2> QED
    BY <2>1 DEF Inv, Gathered
<1>3. /\ accepted \in [Records -> Nat] /\ invalid \subseteq Records /\ known \subseteq Records
      /\ \A r \in Records \ ToLoad : accepted[r] = 0
  BY DEF Inv, ExecTypeOK
<1>4. loaded \subseteq ToLoad /\ loaded \subseteq Arrived
  BY <1>1, <1>2, Cut DEF Arrived
<1>5. ASSUME NEW r \in ToLoad PROVE r \in loaded <=> r \in answer[BatchOf(r)]
  BY <1>1, <1>2, Cut
<1>6. Arrived \ loaded \subseteq Unsaid
  <2>1. ASSUME NEW r \in Arrived \ loaded PROVE r \in Unsaid
    <3>1. r \in ToLoad /\ accepted[r] > 0
      BY <1>3 DEF Arrived
    <3> QED
      BY <3>1, <1>1, <1>5, Cut
  <2> QED
    BY <2>1
<1>7. failed <=> \E r \in ToLoad : r \notin loaded
  <2>1. ASSUME NEW b \in Batches
        PROVE  b \in failures <=> \E r \in RecordsOf(b) : r \notin answer[b]
    BY <1>1
  <2>2. ASSUME NEW b \in Batches, NEW r \in RecordsOf(b)
        PROVE  r \in ToLoad /\ b = BatchOf(r)
    BY Cut
  <2> QED
    BY <2>1, <2>2, <1>2, <1>5, Cut
<1>8. \A r \in Records : r \notin Skipped \cup loaded <=>
          r \in invalid \/ (r \in ToLoad /\ r \notin loaded)
  BY <1>3, <1>4 DEF Skipped, ToLoad
<1>9. Skipped \cup loaded \subseteq Records
  BY <1>3, <1>4, Cut DEF Skipped
<1> QED
  BY <1>3, <1>4, <1>6, <1>7, <1>8, <1>9, Cut

\* A request that the destination answers makes records of its batch arrive.
LEMMA Arrival ==
    ASSUME Inv, SameCut, NEW b \in Batches, NEW ok \in SUBSET RecordsOf(b),
           state[b] = "flying", Accept(ok), UNCHANGED outer,
           Unsaid' = Unsaid \/ Unsaid' = Unsaid \cup ok
    PROVE  Stage!Arrive
<1>1. result = "open"
  BY DEF Inv, ExecTypeOK, Ended, Over
<1>2. accepted \in [Records -> Nat]
  BY DEF Inv, ExecTypeOK
<1>3. ok \subseteq Records \ Skipped
  BY Cut DEF Skipped, ToLoad
<1>4. Arrived' = Arrived \cup ok
  <2>1. ASSUME NEW r \in Records
        PROVE  accepted'[r] > 0 <=> accepted[r] > 0 \/ r \in ok
    <3>1. accepted'[r] = accepted[r] + IF r \in ok THEN 1 ELSE 0
      BY DEF Accept
    <3> QED
      BY <3>1, <1>2
  <2>2. Records' = Records
    BY DEF Records
  <2> QED
    BY <2>1, <2>2, <1>3 DEF Arrived
<1>5. ok \in SUBSET (Records \ Skipped)
  BY <1>3
<1>6. Skipped' = Skipped /\ result' = result /\ loaded' = loaded /\ failed' = failed
  BY DEF SameCut, outer
<1> QED
  BY <1>1, <1>4, <1>5, <1>6 DEF Stage!Arrive, Arrived, Unsaid

LEMMA StageStep == Inv /\ [Next]_evars => [Stage!LNext]_Stage!lvars
<1> SUFFICES ASSUME Inv, [Next]_evars
             PROVE  Stage!LNext \/ UNCHANGED Stage!lvars
  OBVIOUS
<1>0. SameCut
  BY CutStays
<1>1. ASSUME atTarget' = atTarget, result' = result,
             result = "returned" => loaded' = loaded /\ failed' = failed
      PROVE  UNCHANGED Stage!lvars
  BY <1>0, <1>1 DEF atTarget, SameCut, Stage!lvars, Records
<1>2. ASSUME NEW b \in Batches, Take(b) \/ Pass(b) \/ Retry(b)
      PROVE  UNCHANGED Stage!lvars
  BY <1>1, <1>2 DEF Take, Pass, Retry, outer
<1>3. ASSUME NEW b \in Batches, Answered(b) \/ Broken(b) PROVE Stage!LNext
  <2>1. PICK ok \in SUBSET RecordsOf(b) : Accept(ok)
    BY <1>3 DEF Answered, Broken
  <2>2. state[b] = "flying" /\ UNCHANGED outer /\ Unsaid' = Unsaid
    BY <1>3 DEF Answered, Broken, Transition, Unsaid
  <2> QED
    BY <2>1, <2>2, <1>0, Arrival DEF Stage!LNext
<1>4. ASSUME NEW b \in Batches, RateLimited(b) \/ Refused(b) \/ Exhausted(b)
      PROVE  Stage!LNext
  <2>1. PICK kind \in {"throttled", "error"} : AcceptUnsaid(b, kind)
    BY <1>4 DEF RateLimited, Refused, Exhausted, RefusedAs
  <2>2. PICK ok \in SUBSET RecordsOf(b) :
            Accept(ok) /\ unsaid' = [unsaid EXCEPT ![kind] = @ \cup ok]
    BY <2>1 DEF AcceptUnsaid
  <2>3. unsaid \in [throttled : SUBSET Records, error : SUBSET Records]
    BY DEF Inv, ExecTypeOK
  <2>4. Unsaid' = Unsaid \cup ok
    BY <2>1, <2>2, <2>3 DEF Unsaid
  <2>5. state[b] = "flying" /\ UNCHANGED outer
    BY <1>4 DEF RateLimited, Refused, Exhausted, RefusedAs, Transition
  <2> QED
    BY <2>2, <2>4, <2>5, <1>0, Arrival DEF Stage!LNext
<1>5. ASSUME NEW b \in Batches, Collect(b) PROVE UNCHANGED Stage!lvars
  BY <1>1, <1>5 DEF Collect, Transition, inner, Inv, Ended
<1>6. ASSUME NEW b \in Batches, CollectBroken(b) PROVE UNCHANGED Stage!lvars
  BY <1>1, <1>6 DEF CollectBroken, inner
<1>7. ASSUME Tick PROVE UNCHANGED Stage!lvars
  BY <1>1, <1>7 DEF Tick, outer
<1>8. ASSUME Return PROVE Stage!Return
  <2>1. /\ result = "open" /\ \A b \in Batches : state[b] = "collected"
        /\ result' = "returned" /\ UNCHANGED atTarget
        /\ loaded' = loaded \cup Skipped /\ failed' = (failed \/ invalid # {})
    BY <1>8 DEF Return, inner
  <2>2. /\ loaded \subseteq Arrived /\ Arrived \ loaded \subseteq Unsaid
        /\ (failed \/ invalid # {}) <=> Skipped \cup loaded # Records
    BY <2>1, Reported
  <2>3. Skipped' = Skipped /\ Arrived' = Arrived /\ Unsaid' = Unsaid
    BY <1>0, <2>1 DEF SameCut, Arrived, Unsaid, Records, atTarget
  <2>4. loaded \in SUBSET Arrived
    BY <2>2
  <2> QED
    BY <2>1, <2>2, <2>3, <2>4 DEF Stage!Return, Arrived, Unsaid
<1>9. ASSUME Raise PROVE Stage!Raise
  BY <1>0, <1>9 DEF Raise, inner, atTarget, Stage!Raise, SameCut, Records
<1>10. ASSUME UNCHANGED evars PROVE UNCHANGED Stage!lvars
  BY <1>1, <1>10 DEF evars
<1> QED
  BY <1>2, <1>3, <1>4, <1>5, <1>6, <1>7, <1>8, <1>9, <1>10 DEF Next, Thread, Stage!LNext

\* The pool, its retries and its limiter implement one load of a chunk, whatever the
\* answers: a return reports only what is at the destination, all of it but what was
\* accepted in requests answered with an error or as throttled, and no failure only for a
\* whole chunk; after a return or an exception nothing arrives.
THEOREM Implementation == Spec => ImplementsLoadStage
<1>1. Init => Stage!LInit
  BY DEF Init, Stage!LInit, Skipped
<1> QED
  BY <1>1, StageStep, Invariance, PTL DEF Spec, ImplementsLoadStage, Stage!LSpec
=============================================================================

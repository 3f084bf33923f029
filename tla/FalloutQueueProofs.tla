---------------------------- MODULE FalloutQueueProofs ----------------------------
(***************************************************************************)
(* Proofs about FalloutQueue, for any number of requests, lines, rows and  *)
(* assessments: what is on the queue, however the requests overlap, and    *)
(* what the checks let through the gate in front of a wave.                *)
(***************************************************************************)
EXTENDS FalloutQueue, SequenceTheorems, FiniteSetTheorems, WellFoundedInduction, TLAPS

-----------------------------------------------------------------------------
(* Sequences of whatever                                                    *)

Sequence(s) == \E S : s \in Seq(S)

\* t is s with something appended.
Extends(s, t) ==
    /\ Len(s) \in Nat /\ Len(t) \in Nat /\ Len(s) <= Len(t)
    /\ \A i \in 1 .. Len(s) : t[i] = s[i]

LEMMA Appended ==
    ASSUME NEW s, NEW e, Sequence(s)
    PROVE  /\ Sequence(Append(s, e)) /\ Extends(s, Append(s, e))
           /\ Len(Append(s, e)) = Len(s) + 1 /\ Append(s, e)[Len(s) + 1] = e
<1>1. PICK S : s \in Seq(S)
  BY DEF Sequence
<1>2. s \in Seq(S \cup {e})
  BY <1>1, SeqMonotonic
<1>3. /\ Append(s, e) \in Seq(S \cup {e}) /\ Len(s) \in Nat
      /\ Len(Append(s, e)) = Len(s) + 1 /\ Append(s, e)[Len(s) + 1] = e
      /\ \A i \in 1 .. Len(s) : Append(s, e)[i] = s[i]
  BY <1>2
<1> QED
  BY <1>3 DEF Sequence, Extends

LEMMA Concatenated ==
    ASSUME NEW s, NEW t, Sequence(s), Sequence(t)
    PROVE  /\ Sequence(s \o t) /\ Extends(s, s \o t) /\ Len(s \o t) = Len(s) + Len(t)
           /\ \A i \in 1 .. Len(t) : /\ Len(s) + i \in 1 .. Len(s \o t)
                                     /\ (s \o t)[Len(s) + i] = t[i]
           /\ \A j \in 1 .. Len(s \o t) : j > Len(s) =>
                 j - Len(s) \in 1 .. Len(t) /\ (s \o t)[j] = t[j - Len(s)]
<1>1. PICK S : s \in Seq(S)
  BY DEF Sequence
<1>2. PICK T : t \in Seq(T)
  BY DEF Sequence
<1>3. s \in Seq(S \cup T) /\ t \in Seq(S \cup T)
  BY <1>1, <1>2, SeqMonotonic
<1>4. Len(s) \in Nat /\ Len(t) \in Nat
  BY <1>3, LenProperties
<1>5. /\ s \o t \in Seq(S \cup T) /\ Len(s \o t) = Len(s) + Len(t)
      /\ \A i \in 1 .. Len(s) + Len(t) : (s \o t)[i] = IF i <= Len(s) THEN s[i] ELSE t[i - Len(s)]
  BY <1>3, ConcatProperties
<1>6. Sequence(s \o t)
  BY <1>5 DEF Sequence
<1>7. Extends(s, s \o t)
  BY <1>4, <1>5 DEF Extends
<1>8. \A i \in 1 .. Len(t) : Len(s) + i \in 1 .. Len(s \o t) /\ (s \o t)[Len(s) + i] = t[i]
  BY <1>4, <1>5
<1>9. \A j \in 1 .. Len(s \o t) : j > Len(s) =>
         j - Len(s) \in 1 .. Len(t) /\ (s \o t)[j] = t[j - Len(s)]
  BY <1>4, <1>5
<1> QED
  BY <1>5, <1>6, <1>7, <1>8, <1>9

LEMMA EmptySequence == Sequence(<<>>) /\ Len(<<>>) = 0
BY EmptySeq DEF Sequence

LEMMA SequenceLength == \A s : Sequence(s) => Len(s) \in Nat
BY LenProperties DEF Sequence

-----------------------------------------------------------------------------
(* The state                                                                *)

\* A request that queues health items holds nothing else, and one that queues refused
\* lines finds them all on the queue.
JobOK(s) ==
    /\ jobs[s].kind = "health" =>
          /\ jobs[s] = [kind |-> "health", of |-> jobs[s].of, added |-> jobs[s].added,
                        todo |-> jobs[s].todo]
          /\ jobs[s].of \in 1 .. Len(assessments) /\ Sequence(jobs[s].added)
          /\ \A i \in 1 .. Len(jobs[s].added) : jobs[s].added[i].source = "account_health"
    /\ jobs[s].kind = "ingest" =>
          /\ jobs[s] = [kind |-> "ingest", added |-> <<>>, todo |-> jobs[s].todo]
          /\ jobs[s].todo \subseteq 1 .. Len(errors)

Shape ==
    /\ Sequence(items) /\ Sequence(errors) /\ Sequence(assessments)
    /\ jobs = [s \in Sessions |-> jobs[s]]
    /\ synced \subseteq 1 .. Len(assessments)
    /\ \A s \in Sessions : JobOK(s)

\* The items of a refused line.
Of(e) == {i \in 1 .. Len(items) : items[i].source = "ingest" /\ items[i].error = e}
NoStranger ==
    \A i \in 1 .. Len(items) : items[i].source = "ingest" => items[i].error \in 1 .. Len(errors)

Lines == ErrorQueuedOnce /\ NoStranger

\* Steps in which the queue gains nothing from ingest.
NoneOfIngest ==
    /\ Extends(items, items')
    /\ \A i \in 1 .. Len(items') : i > Len(items) => items'[i].source # "ingest"
    /\ Len(errors') = Len(errors)

LEMMA LinesStay ==
    ASSUME Shape, Lines, NoneOfIngest
    PROVE  Lines'
<1>1. \A e : Of(e)' = Of(e)
  BY DEF NoneOfIngest, Extends, Of
<1>2. ErrorQueuedOnce'
  BY <1>1 DEF Lines, ErrorQueuedOnce, Of, NoneOfIngest
<1>3. NoStranger'
  BY DEF Lines, NoStranger, NoneOfIngest, Extends
<1> QED
  BY <1>2, <1>3 DEF Lines

\* A new error comes with its item.
LEMMA NewLine ==
    ASSUME Shape, Lines, NEW error, NEW item, item.source = "ingest", item.error = Len(errors) + 1,
           errors' = Append(errors, error), items' = Append(items, item)
    PROVE  Lines'
<1>0. Len(errors) \in Nat /\ Len(items) \in Nat
  BY SequenceLength DEF Shape
<1>1. /\ Len(errors') = Len(errors) + 1 /\ Len(items') = Len(items) + 1
      /\ items'[Len(items) + 1] = item /\ \A i \in 1 .. Len(items) : items'[i] = items[i]
  BY Appended DEF Shape, Extends
<1>2. \A e \in 1 .. Len(errors) : Of(e)' = Of(e)
  BY <1>0, <1>1 DEF Of
<1>3. \A e : e = Len(errors) + 1 => Of(e)' = {Len(items) + 1}
  <2> SUFFICES ASSUME NEW e, e = Len(errors) + 1 PROVE Of(e)' = {Len(items) + 1}
    OBVIOUS
  <2>1. \A i \in 1 .. Len(items) : ~ (items[i].source = "ingest" /\ items[i].error = e)
    BY <1>0 DEF Lines, NoStranger
  <2> QED
    BY <1>0, <1>1, <2>1 DEF Of
<1>4. Cardinality({Len(items) + 1}) = 1
  BY FS_Singleton
<1>5. \A e \in 1 .. Len(errors') : Cardinality(Of(e)') = 1
  <2> SUFFICES ASSUME NEW e \in 1 .. Len(errors') PROVE Cardinality(Of(e)') = 1
    OBVIOUS
  <2>1. CASE e = Len(errors) + 1
    BY <1>3, <1>4, <2>1
  <2>2. CASE e \in 1 .. Len(errors)
    <3>1. Cardinality(Of(e)) = 1
      BY <2>2 DEF Lines, ErrorQueuedOnce, Of
    <3> QED
      BY <1>2, <2>2, <3>1
  <2> QED
    BY <1>0, <1>1, <2>1, <2>2
<1>6. ErrorQueuedOnce'
  BY <1>5 DEF ErrorQueuedOnce, Of
<1>7. NoStranger'
  BY <1>0, <1>1 DEF Lines, NoStranger
<1> QED
  BY <1>6, <1>7 DEF Lines

\* Every error in the list is on the queue.
LEMMA Known ==
    ASSUME Lines, NEW e \in 1 .. Len(errors)
    PROVE  \E i \in 1 .. Len(items) : MatchesError(items[i], e)
<1>1. Cardinality(Of(e)) = 1
  BY DEF Lines, ErrorQueuedOnce, Of
<1>2. Of(e) # {}
  BY <1>1, FS_EmptySet
<1> QED
  BY <1>2 DEF Of, MatchesError

-----------------------------------------------------------------------------
(* What is in a session, and in the tables behind it                         *)

\* Nothing leaves the tables and the assessments that are counted as synced exist.
Grown ==
    /\ Sequence(items') /\ Extends(items, items')
    /\ Sequence(errors') /\ Len(errors) <= Len(errors')
    /\ Sequence(assessments') /\ Extends(assessments, assessments')

LEMMA Same == \A s : Sequence(s) => Extends(s, s)
BY SequenceLength DEF Extends

\* A session that does nothing keeps its state.
LEMMA JobsStay ==
    ASSUME Shape, Grown
    PROVE  \A s \in Sessions : jobs'[s] = jobs[s] => JobOK(s)'
<1>1. /\ Len(errors) \in Nat /\ Len(errors') \in Nat
      /\ Len(assessments) \in Nat /\ Len(assessments') \in Nat
      /\ Len(assessments) <= Len(assessments')
  BY SequenceLength DEF Shape, Grown, Extends
<1> QED
  BY <1>1 DEF Shape, JobOK, Grown

LEMMA ShapeStays ==
    ASSUME Shape, Grown, UNCHANGED <<jobs, synced>>
    PROVE  Shape'
<1>1. \A s \in Sessions : JobOK(s)'
  BY JobsStay
<1>2. 1 .. Len(assessments) \subseteq 1 .. Len(assessments')
  BY DEF Grown, Extends
<1> QED
  BY <1>1, <1>2 DEF Shape, Grown

\* A session takes a step of its own: the job it then holds is all there is to show.
LEMMA ShapeOfJob ==
    ASSUME Shape, Grown, UNCHANGED <<synced, assessments>>, NEW s \in Sessions, NEW job,
           jobs' = [jobs EXCEPT ![s] = job], JobOK(s)'
    PROVE  Shape'
<1>1. jobs' = [r \in Sessions |-> jobs'[r]] /\ \A r \in Sessions : r # s => jobs'[r] = jobs[r]
  BY DEF Shape
<1>2. \A r \in Sessions : JobOK(r)'
  BY <1>1, JobsStay
<1> QED
  BY <1>1, <1>2 DEF Shape, Grown
-----------------------------------------------------------------------------
(* The rows that need a person                                              *)

\* Row k of assessment a has an item that is being worked on, in a session or on the queue.
Among(queue, record) == \E i \in 1 .. Len(queue) : MatchesHealth(queue[i], record)

Handled(s) ==
    jobs[s].kind = "health" =>
        \A k \in 1 .. Len(assessments[jobs[s].of]) :
            NeedsReview(assessments[jobs[s].of][k]) =>
                \/ k \in jobs[s].todo
                \/ Among(items, assessments[jobs[s].of][k])
                \/ Among(jobs[s].added, assessments[jobs[s].of][k])

RowsQueued ==
    \A a \in synced : \A k \in 1 .. Len(assessments[a]) :
        NeedsReview(assessments[a][k]) => Among(items, assessments[a][k])

Queued == RowsQueued /\ \A s \in Sessions : Handled(s)

LEMMA AmongStays ==
    \A s, t : Extends(s, t) => \A record : Among(s, record) => Among(t, record)
BY DEF Extends, Among

\* What is queued stays queued: nothing takes an item from the queue or changes it.
LEMMA QueuedStays ==
    ASSUME Shape, Queued, Grown
    PROVE  /\ synced' = synced => RowsQueued'
           /\ \A s \in Sessions : jobs'[s] = jobs[s] => Handled(s)'
<1>0. \A a \in 1 .. Len(assessments) : assessments'[a] = assessments[a]
  BY DEF Grown, Extends
<1>1. \A record : Among(items, record) => Among(items, record)'
  BY AmongStays DEF Grown, Among, Extends
<1>2. ASSUME synced' = synced PROVE RowsQueued'
  <2>1. \A a \in synced : \A k \in 1 .. Len(assessments[a]) :
            NeedsReview(assessments[a][k]) => Among(items, assessments[a][k])
    BY DEF Queued, RowsQueued
  <2>2. \A a \in synced' : \A k \in 1 .. Len(assessments'[a]) :
            NeedsReview(assessments'[a][k]) => Among(items', assessments'[a][k])
    BY <1>0, <1>1, <1>2, <2>1 DEF Shape, Among
  <2> QED
    BY <2>2 DEF RowsQueued, Among, MatchesHealth, NeedsReview
<1>3. ASSUME NEW s \in Sessions, jobs'[s] = jobs[s] PROVE Handled(s)'
  <2> SUFFICES ASSUME jobs[s].kind = "health",
                      NEW k \in 1 .. Len(assessments'[jobs[s].of]),
                      NeedsReview(assessments'[jobs[s].of][k])
               PROVE  \/ k \in jobs[s].todo
                      \/ Among(items', assessments'[jobs[s].of][k])
                      \/ Among(jobs[s].added, assessments'[jobs[s].of][k])
    BY <1>3 DEF Handled, Among, MatchesHealth, NeedsReview
  <2>1. assessments'[jobs[s].of] = assessments[jobs[s].of]
    BY <1>0 DEF Shape, JobOK
  <2>2. \/ k \in jobs[s].todo
        \/ Among(items, assessments[jobs[s].of][k])
        \/ Among(jobs[s].added, assessments[jobs[s].of][k])
    BY <2>1 DEF Queued, Handled
  <2> QED
    BY <1>1, <2>1, <2>2 DEF Among
<1> QED
  BY <1>2, <1>3

-----------------------------------------------------------------------------
(* The invariant and the ways a step keeps it                               *)

Kept == Shape /\ Lines /\ Queued

LEMMA TablesSame ==
    ASSUME Shape, UNCHANGED <<items, errors, assessments>>
    PROVE  Grown /\ NoneOfIngest
<1>1. Len(items) \in Nat /\ Len(errors) \in Nat /\ Len(assessments) \in Nat
  BY SequenceLength DEF Shape
<1> QED
  BY <1>1 DEF Shape, Grown, NoneOfIngest, Extends

LEMMA OneMoreItem ==
    ASSUME Shape, NEW item, items' = Append(items, item), UNCHANGED <<errors, assessments>>
    PROVE  Grown /\ (item.source # "ingest" => NoneOfIngest)
<1>1. Len(items) \in Nat /\ Len(errors) \in Nat /\ Len(assessments) \in Nat
  BY SequenceLength DEF Shape
<1>2. /\ Sequence(items') /\ Extends(items, items')
      /\ Len(items') = Len(items) + 1 /\ items'[Len(items) + 1] = item
  BY Appended DEF Shape
<1> QED
  BY <1>1, <1>2 DEF Shape, Grown, NoneOfIngest, Extends

LEMMA NoSessionMoves ==
    ASSUME Kept, Grown, Lines', UNCHANGED <<jobs, synced>>
    PROVE  Kept'
<1>1. Shape'
  BY ShapeStays DEF Kept
<1>2. RowsQueued' /\ \A s \in Sessions : Handled(s)'
  BY QueuedStays DEF Kept
<1> QED
  BY <1>1, <1>2 DEF Kept, Queued

LEMMA OneSessionMoves ==
    ASSUME Kept, Grown, NoneOfIngest, UNCHANGED <<synced, assessments>>, NEW s \in Sessions, NEW job,
           jobs' = [jobs EXCEPT ![s] = job], JobOK(s)', Handled(s)'
    PROVE  Kept'
<1>1. Shape'
  BY ShapeOfJob DEF Kept
<1>2. Lines'
  BY LinesStay DEF Kept
<1>3. \A r \in Sessions : r # s => jobs'[r] = jobs[r]
  BY DEF Kept, Shape
<1>4. RowsQueued' /\ \A r \in Sessions : Handled(r)'
  BY <1>3, QueuedStays DEF Kept
<1> QED
  BY <1>1, <1>2, <1>4 DEF Kept, Queued

-----------------------------------------------------------------------------
(* The actions                                                              *)

LEMMA UploadStep ==
    ASSUME Kept, NEW raw, NEW place, UploadLine(raw, place)
    PROVE  Kept' /\ Grown
<1>1. CASE validate_one(Entity, raw).errors = {}
  <2>1. UNCHANGED <<errors, items, assessments, jobs, synced>>
    BY <1>1 DEF UploadLine
  <2>2. Grown /\ Lines'
    BY <2>1, TablesSame, LinesStay DEF Kept
  <2> QED
    BY <2>1, <2>2, NoSessionMoves
<1>2. CASE validate_one(Entity, raw).errors # {}
  <2> DEFINE error == [row |-> place, resolved |-> FALSE]
             item == Item("ingest", Len(errors) + 1, place, None, Unclassified)
  <2>1. /\ errors' = Append(errors, error) /\ items' = Append(items, item)
        /\ UNCHANGED <<assessments, jobs, synced>>
    BY <1>2 DEF UploadLine
  <2>2. item.source = "ingest" /\ item.error = Len(errors) + 1
    BY DEF Item
  <2> HIDE DEF error, item
  <2>3. Lines'
    BY <2>1, <2>2, NewLine DEF Kept
  <2>4. /\ Sequence(errors') /\ Extends(errors, errors')
        /\ Sequence(items') /\ Extends(items, items')
    BY <2>1, Appended DEF Kept, Shape
  <2>5. Sequence(assessments) /\ Len(assessments) \in Nat
    BY SequenceLength DEF Kept, Shape
  <2>6. Grown
    BY <2>1, <2>4, <2>5 DEF Grown, Extends
  <2> QED
    BY <2>1, <2>3, <2>6, NoSessionMoves
<1> QED
  BY <1>1, <1>2

LEMMA ReprocessStep ==
    ASSUME Kept, NEW e \in 1 .. Len(errors), NEW raw, NEW place, ReprocessLine(e, raw, place)
    PROVE  Kept' /\ Grown
<1>1. errors' = [errors EXCEPT ![e].resolved = TRUE] /\ UNCHANGED <<assessments, items, jobs, synced>>
  BY DEF ReprocessLine
<1>2. PICK S : errors \in Seq(S)
  BY DEF Kept, Shape, Sequence
<1>3. errors' \in Seq(S \cup {[errors[e] EXCEPT !.resolved = TRUE]}) /\ Len(errors') = Len(errors)
  BY <1>1, <1>2
<1>4. /\ Sequence(errors') /\ Len(errors) \in Nat /\ Len(items) \in Nat /\ Len(assessments) \in Nat
      /\ Sequence(items) /\ Sequence(assessments)
  BY <1>3, SequenceLength DEF Sequence, Kept, Shape
<1>5. Grown /\ NoneOfIngest
  BY <1>1, <1>3, <1>4 DEF Grown, NoneOfIngest, Extends
<1>6. Lines'
  BY <1>5, LinesStay DEF Kept
<1> QED
  BY <1>1, <1>5, <1>6, NoSessionMoves

LEMMA AssessStep ==
    ASSUME Kept, NEW limit, Assess(limit)
    PROVE  Kept' /\ Grown
<1> DEFINE assessment == assess_project(staged, Required, limit)
<1>1. assessments' = Append(assessments, assessment) /\ UNCHANGED <<errors, items, jobs, synced>>
  BY DEF Assess
<1> HIDE DEF assessment
<1>2. Sequence(assessments') /\ Extends(assessments, assessments')
  BY <1>1, Appended DEF Kept, Shape
<1>3. Sequence(items) /\ Sequence(errors) /\ Len(items) \in Nat /\ Len(errors) \in Nat
  BY SequenceLength DEF Kept, Shape
<1>4. Grown /\ NoneOfIngest
  BY <1>1, <1>2, <1>3 DEF Grown, NoneOfIngest, Extends
<1>5. Lines'
  BY <1>4, LinesStay DEF Kept
<1> QED
  BY <1>1, <1>4, <1>5, NoSessionMoves

LEMMA SyncFalloutStep ==
    ASSUME Kept, NEW s \in Sessions, NEW a \in 1 .. Len(assessments), SyncFallout(s, a)
    PROVE  Kept' /\ Grown
<1> DEFINE open == {k \in 1 .. Len(assessments[a]) : NeedsReview(assessments[a][k])}
           job == [kind |-> "health", of |-> a, added |-> <<>>, todo |-> open]
<1>1. /\ jobs' = [jobs EXCEPT ![s] = job]
      /\ UNCHANGED <<errors, assessments, items, synced>>
  BY DEF SyncFallout
<1>2. /\ job.kind = "health" /\ job.of = a /\ job.added = <<>>
      /\ \A k \in 1 .. Len(assessments[a]) : NeedsReview(assessments[a][k]) => k \in job.todo
      /\ job = [kind |-> "health", of |-> job.of, added |-> job.added, todo |-> job.todo]
  OBVIOUS
<1> HIDE DEF job
<1>3. jobs'[s] = job
  BY <1>1 DEF Kept, Shape
<1>4. JobOK(s)'
  BY <1>1, <1>2, <1>3, EmptySequence DEF JobOK
<1>5. Handled(s)'
  BY <1>1, <1>2, <1>3 DEF Handled
<1>6. Grown /\ NoneOfIngest
  BY <1>1, TablesSame DEF Kept
<1> QED
  BY <1>1, <1>4, <1>5, <1>6, OneSessionMoves

\* Changing two fields of a job one after the other gives the session another job.
LEMMA JobChanged ==
    ASSUME Shape, NEW s \in Sessions, NEW todo, NEW added, NEW half, NEW job,
           jobs' = [jobs EXCEPT ![s].todo = todo, ![s].added = added],
           half = [jobs[s] EXCEPT !.todo = todo], job = [half EXCEPT !.added = added]
    PROVE  jobs' = [jobs EXCEPT ![s] = job]
<1>1. jobs = [r \in Sessions |-> jobs[r]]
  BY DEF Shape
<1>2. DOMAIN jobs = Sessions
  BY <1>1
<1>3. jobs' = [r \in Sessions |-> jobs'[r]]
  BY <1>2
<1>4. jobs'[s] = job
  BY <1>2
<1>5. \A r \in Sessions : r # s => jobs'[r] = jobs[r]
  BY <1>2
<1> QED
  BY <1>1, <1>2, <1>3, <1>4, <1>5

LEMMA HealthItemMatches == \A record : MatchesHealth(HealthItem(record), record)
BY DEF MatchesHealth, HealthItem, Item, Live

LEMMA HealthRecordStep ==
    ASSUME Kept, NEW s \in Sessions, NEW k, sync_health_record(s, k)
    PROVE  Kept' /\ Grown
<1> DEFINE a == jobs[s].of
           record == assessments[a][k]
           item == HealthItem(record)
           added == jobs[s].added
           covered == Among(items, record) \/ Among(added, record)
           now == IF covered THEN added ELSE Append(added, item)
           left == jobs[s].todo \ {k}
           job == [kind |-> "health", of |-> a, added |-> now, todo |-> left]
<1>0. jobs[s].kind = "health" /\ UNCHANGED <<errors, assessments, items, synced>>
  BY DEF sync_health_record
<1>1. /\ jobs[s] = [kind |-> "health", of |-> a, added |-> added, todo |-> jobs[s].todo]
      /\ a \in 1 .. Len(assessments) /\ Sequence(added)
      /\ \A i \in 1 .. Len(added) : added[i].source = "account_health"
  BY <1>0 DEF Kept, Shape, JobOK
<1>2. jobs' = [jobs EXCEPT ![s].todo = left, ![s].added = now]
  BY DEF sync_health_record, Among
<1>3. jobs' = [jobs EXCEPT ![s] = job]
  <2> DEFINE half == [kind |-> "health", of |-> a, added |-> added, todo |-> left]
  <2>1. half = [jobs[s] EXCEPT !.todo = left]
    <3>1. PICK x, y : jobs[s] = [kind |-> "health", of |-> a, added |-> x, todo |-> y] /\ x = added
      BY <1>1
    <3> HIDE DEF left, a, added
    <3> QED
      BY <3>1
  <2>2. job = [half EXCEPT !.added = now]
    <3> HIDE DEF left, a, added, now
    <3> QED
      OBVIOUS
  <2> QED
    BY <1>2, <2>1, <2>2, JobChanged DEF Kept
<1>4. item.source = "account_health" /\ MatchesHealth(item, record)
  BY HealthItemMatches DEF HealthItem, Item
<1> HIDE DEF item
<1>5. /\ Sequence(now) /\ \A i \in 1 .. Len(now) : now[i].source = "account_health"
      /\ Extends(added, now) /\ (covered \/ Among(now, record))
  <2>1. CASE covered
    BY <1>1, <2>1, Same
  <2>2. CASE ~ covered
    <3>1. now = Append(added, item)
      BY <2>2
    <3>2. /\ Sequence(now) /\ Extends(added, now) /\ Len(now) = Len(added) + 1
          /\ now[Len(added) + 1] = item /\ Len(added) \in Nat
      BY <1>1, <3>1, Appended, SequenceLength
    <3> HIDE DEF now
    <3>3. \A i \in 1 .. Len(now) : now[i].source = "account_health"
      BY <1>1, <1>4, <3>2 DEF Extends
    <3>4. Among(now, record)
      BY <1>4, <3>2 DEF Among
    <3> QED
      BY <3>2, <3>3, <3>4
  <2> QED
    BY <2>1, <2>2
<1>6. jobs'[s] = job
  BY <1>3 DEF Kept, Shape
<1>7. JobOK(s)'
  BY <1>0, <1>1, <1>5, <1>6 DEF JobOK
<1>8. Handled(s)'
  <2> SUFFICES ASSUME NEW j \in 1 .. Len(assessments[a]), NeedsReview(assessments[a][j])
               PROVE  \/ j \in left
                      \/ Among(items, assessments[a][j])
                      \/ Among(now, assessments[a][j])
    <3> HIDE DEF left, now
    <3>1. /\ jobs'[s].of = a /\ jobs'[s].todo = left /\ jobs'[s].added = now
          /\ assessments' = assessments /\ items' = items
      BY <1>0, <1>6
    <3> QED
      BY <3>1 DEF Handled, Among
  <2>1. \/ j \in jobs[s].todo
        \/ Among(items, assessments[a][j])
        \/ Among(added, assessments[a][j])
    BY <1>0 DEF Kept, Queued, Handled
  <2>2. \A r : Among(added, r) => Among(now, r)
    BY <1>5, AmongStays
  <2>3. Among(items, record) \/ Among(now, record)
    BY <1>5, <2>2
  <2> QED
    BY <2>1, <2>2, <2>3
<1>9. Grown /\ NoneOfIngest
  BY <1>0, TablesSame DEF Kept
<1> QED
  BY <1>0, <1>3, <1>7, <1>8, <1>9, OneSessionMoves

LEMMA SyncIngestStep ==
    ASSUME Kept, NEW s \in Sessions, SyncIngest(s)
    PROVE  Kept' /\ Grown
<1> DEFINE open == {e \in 1 .. Len(errors) : ~ errors[e].resolved}
           job == [kind |-> "ingest", added |-> <<>>, todo |-> open]
<1>1. jobs' = [jobs EXCEPT ![s] = job] /\ UNCHANGED <<errors, assessments, items, synced>>
  BY DEF SyncIngest
<1>2. jobs'[s] = job /\ open \subseteq 1 .. Len(errors)
  BY <1>1 DEF Kept, Shape
<1>3. JobOK(s)' /\ Handled(s)'
  BY <1>1, <1>2 DEF JobOK, Handled
<1>4. Grown /\ NoneOfIngest
  BY <1>1, TablesSame DEF Kept
<1> QED
  BY <1>1, <1>3, <1>4, OneSessionMoves

\* The item of a refused line is there already: nothing is added.
LEMMA IngestErrorStep ==
    ASSUME Kept, NEW s \in Sessions, NEW e, sync_from_ingest_error(s, e)
    PROVE  Kept' /\ Grown
<1> DEFINE left == jobs[s].todo \ {e}
           job == [kind |-> "ingest", added |-> <<>>, todo |-> left]
<1>1. /\ jobs[s].kind = "ingest" /\ e \in jobs[s].todo
      /\ UNCHANGED <<errors, assessments, items, synced>>
  BY DEF sync_from_ingest_error
<1>2. /\ jobs[s] = [kind |-> "ingest", added |-> <<>>, todo |-> jobs[s].todo]
      /\ jobs[s].todo \subseteq 1 .. Len(errors)
  BY <1>1 DEF Kept, Shape, JobOK
<1>3. \E i \in 1 .. Len(items) : MatchesError(items[i], e)
  BY <1>1, <1>2, Known DEF Kept
<1>4. jobs' = [jobs EXCEPT ![s].todo = left, ![s].added = jobs[s].added]
  BY <1>3 DEF sync_from_ingest_error
<1>5. jobs' = [jobs EXCEPT ![s] = job]
  <2>1. PICK y : jobs[s] = [kind |-> "ingest", added |-> <<>>, todo |-> y]
    BY <1>2
  <2> HIDE DEF left
  <2>2. job = [jobs[s] EXCEPT !.todo = left]
    BY <2>1
  <2>3. jobs[s].added = <<>>
    BY <2>1
  <2>4. job = [job EXCEPT !.added = jobs[s].added]
    BY <2>3
  <2> QED
    BY <1>4, <2>2, <2>4, JobChanged DEF Kept
<1>6. jobs'[s] = job
  BY <1>5 DEF Kept, Shape
<1>7. JobOK(s)' /\ Handled(s)'
  BY <1>1, <1>2, <1>6 DEF JobOK, Handled
<1>8. Grown /\ NoneOfIngest
  BY <1>1, TablesSame DEF Kept
<1> QED
  BY <1>1, <1>5, <1>7, <1>8, OneSessionMoves

\* What the request has found missing is committed, behind what came meanwhile.
LEMMA CommitStep ==
    ASSUME Kept, NEW s \in Sessions, SyncCommit(s)
    PROVE  Kept' /\ Grown
<1> DEFINE added == jobs[s].added
<1>1. /\ jobs[s].kind \in {"health", "ingest"} /\ jobs[s].todo = {} /\ items' = items \o added
      /\ synced' = IF jobs[s].kind = "health" THEN synced \cup {jobs[s].of} ELSE synced
      /\ jobs' = [jobs EXCEPT ![s] = Idle] /\ UNCHANGED <<errors, assessments>>
  BY DEF SyncCommit
<1>2. Sequence(added) /\ \A i \in 1 .. Len(added) : added[i].source = "account_health"
  <2>1. CASE jobs[s].kind = "health"
    BY <2>1 DEF Kept, Shape, JobOK
  <2>2. CASE jobs[s].kind = "ingest"
    <3>1. added = <<>>
      BY <2>2 DEF Kept, Shape, JobOK
    <3> QED
      BY <3>1, EmptySequence
  <2> QED
    BY <1>1, <2>1, <2>2
<1> HIDE DEF added
<1>3. /\ Sequence(items') /\ Extends(items, items') /\ Len(items') = Len(items) + Len(added)
      /\ \A i \in 1 .. Len(added) : Len(items) + i \in 1 .. Len(items') /\ items'[Len(items) + i] = added[i]
      /\ \A j \in 1 .. Len(items') : j > Len(items) =>
            j - Len(items) \in 1 .. Len(added) /\ items'[j] = added[j - Len(items)]
  BY <1>1, <1>2, Concatenated DEF Kept, Shape
<1>4. Len(errors) \in Nat /\ Len(assessments) \in Nat /\ Sequence(errors) /\ Sequence(assessments)
  BY SequenceLength DEF Kept, Shape
<1>5. Grown /\ NoneOfIngest
  BY <1>1, <1>2, <1>3, <1>4 DEF Grown, NoneOfIngest, Extends
<1>6. jobs' = [r \in Sessions |-> jobs'[r]] /\ \A r \in Sessions : r # s => jobs'[r] = jobs[r]
  BY <1>1 DEF Kept, Shape
<1>7. jobs'[s].kind = "idle"
  BY <1>1 DEF Kept, Shape, Idle
<1>8. \A r \in Sessions : JobOK(r)' /\ Handled(r)'
  <2>1. JobOK(s)' /\ Handled(s)'
    BY <1>7 DEF JobOK, Handled
  <2> QED
    BY <1>5, <1>6, <2>1, JobsStay, QueuedStays DEF Kept
<1>9. Shape'
  BY <1>1, <1>5, <1>6, <1>8 DEF Kept, Shape, JobOK, Grown
<1>10. Lines'
  BY <1>5, LinesStay DEF Kept
<1>11. \A record : Among(items, record) \/ Among(added, record) => Among(items', record)
  <2>1. \A record : Among(items, record) => Among(items', record)
    BY <1>3, AmongStays
  <2>2. \A record : Among(added, record) => Among(items', record)
    BY <1>3 DEF Among
  <2> QED
    BY <2>1, <2>2
<1>12. \A a \in synced' : \A k \in 1 .. Len(assessments[a]) :
          NeedsReview(assessments[a][k]) => Among(items', assessments[a][k])
  <2>1. \A a \in synced : \A k \in 1 .. Len(assessments[a]) :
           NeedsReview(assessments[a][k]) => Among(items, assessments[a][k])
    BY DEF Kept, Queued, RowsQueued
  <2>2. ASSUME jobs[s].kind = "health", NEW k \in 1 .. Len(assessments[jobs[s].of]),
               NeedsReview(assessments[jobs[s].of][k])
        PROVE  Among(items', assessments[jobs[s].of][k])
    BY <1>1, <1>11, <2>2 DEF Kept, Queued, Handled, added
  <2> QED
    BY <1>1, <1>11, <2>1, <2>2
<1>13. RowsQueued'
  BY <1>1, <1>12 DEF RowsQueued, Among, MatchesHealth, NeedsReview
<1> QED
  BY <1>5, <1>8, <1>9, <1>10, <1>13 DEF Kept, Queued

LEMMA ValidationStep ==
    ASSUME Kept, NEW row, create_validation_exception(row)
    PROVE  Kept' /\ Grown
<1> DEFINE item == Item("validation", NoError, row, None, Unclassified)
<1>1. items' = Append(items, item) /\ UNCHANGED <<errors, assessments, jobs, synced>>
  BY DEF create_validation_exception
<1>2. item.source # "ingest"
  BY DEF Item
<1> HIDE DEF item
<1>3. Grown /\ NoneOfIngest
  BY <1>1, <1>2, OneMoreItem DEF Kept
<1>4. Lines'
  BY <1>3, LinesStay DEF Kept
<1> QED
  BY <1>1, <1>3, <1>4, NoSessionMoves

LEMMA LoadFailureStep ==
    ASSUME Kept, NEW response, classify_load_failure(response)
    PROVE  Kept' /\ Grown
<1> DEFINE plain == Item("kraken_load", NoError, NoRow, None, classify_kraken_response(response))
           item == [plain EXCEPT !.payload = response]
<1>1. items' = Append(items, item) /\ UNCHANGED <<errors, assessments, jobs, synced>>
  BY DEF classify_load_failure
<1>2. item.source # "ingest"
  BY DEF Item
<1> HIDE DEF item
<1>3. Grown /\ NoneOfIngest
  BY <1>1, <1>2, OneMoreItem DEF Kept
<1>4. Lines'
  BY <1>3, LinesStay DEF Kept
<1> QED
  BY <1>1, <1>3, <1>4, NoSessionMoves

\* A request of a person touches no item that outlives it.
LEMMA PersonStep ==
    ASSUME Kept, NEW s \in Sessions,
           \/ \E x \in 1 .. Len(items), status \in Decisions : Change(s, x, status)
           \/ EndRequest(s)
    PROVE  Kept' /\ Grown
<1>1. PICK job : /\ jobs' = [jobs EXCEPT ![s] = job] /\ job.kind \in {"change", "idle"}
                 /\ UNCHANGED <<items, errors, assessments, synced>>
  <2>1. ASSUME NEW x, NEW status, Change(s, x, status)
        PROVE  LET job == [kind |-> "change", item |-> x, status |-> status]
               IN /\ jobs' = [jobs EXCEPT ![s] = job] /\ job.kind = "change"
                  /\ UNCHANGED <<items, errors, assessments, synced>>
    BY <2>1 DEF Change
  <2>2. ASSUME EndRequest(s)
        PROVE  /\ jobs' = [jobs EXCEPT ![s] = Idle] /\ Idle.kind = "idle"
               /\ UNCHANGED <<items, errors, assessments, synced>>
    BY <2>2 DEF EndRequest, AfterClose, Idle
  <2> QED
    BY <2>1, <2>2
<1>2. jobs'[s] = job
  BY <1>1 DEF Kept, Shape
<1>3. JobOK(s)' /\ Handled(s)'
  BY <1>1, <1>2 DEF JobOK, Handled
<1>4. Grown /\ NoneOfIngest
  BY <1>1, TablesSame DEF Kept
<1> QED
  BY <1>1, <1>3, <1>4, OneSessionMoves

-----------------------------------------------------------------------------
(* The theorems                                                             *)

LEMMA KeptInit == Init => Kept
<1> SUFFICES ASSUME Init PROVE Kept
  OBVIOUS
<1>1. /\ items = <<>> /\ errors = <<>> /\ assessments = <<>> /\ synced = {}
      /\ jobs = [s \in Sessions |-> Idle]
  BY DEF Init
<1>2. \A s \in Sessions : jobs[s].kind = "idle"
  BY <1>1 DEF Idle
<1>3. Shape
  BY <1>1, <1>2, EmptySequence DEF Shape, JobOK
<1>4. Lines
  BY <1>1, EmptySequence DEF Lines, ErrorQueuedOnce, NoStranger
<1>5. Queued
  BY <1>1, <1>2 DEF Queued, RowsQueued, Handled
<1> QED
  BY <1>3, <1>4, <1>5 DEF Kept

LEMMA KeptNext == Kept /\ [Next]_vars => Kept' /\ Grown
<1> SUFFICES ASSUME Kept, [Next]_vars PROVE Kept' /\ Grown
  OBVIOUS
<1>1. ASSUME NEW raw, NEW place, UploadLine(raw, place) PROVE Kept' /\ Grown
  BY <1>1, UploadStep
<1>2. ASSUME NEW e \in 1 .. Len(errors), NEW raw, NEW place, ReprocessLine(e, raw, place) PROVE Kept' /\ Grown
  BY <1>2, ReprocessStep
<1>3. ASSUME NEW limit, Assess(limit) PROVE Kept' /\ Grown
  BY <1>3, AssessStep
<1>4. ASSUME NEW s \in Sessions, NEW a \in 1 .. Len(assessments), SyncFallout(s, a) PROVE Kept' /\ Grown
  BY <1>4, SyncFalloutStep
<1>5. ASSUME NEW s \in Sessions, NEW k, sync_health_record(s, k) PROVE Kept' /\ Grown
  BY <1>5, HealthRecordStep
<1>6. ASSUME NEW s \in Sessions, SyncIngest(s) PROVE Kept' /\ Grown
  BY <1>6, SyncIngestStep
<1>7. ASSUME NEW s \in Sessions, NEW e, sync_from_ingest_error(s, e) PROVE Kept' /\ Grown
  BY <1>7, IngestErrorStep
<1>8. ASSUME NEW s \in Sessions, SyncCommit(s) PROVE Kept' /\ Grown
  BY <1>8, CommitStep
<1>9. ASSUME NEW s \in Sessions,
             \/ \E x \in 1 .. Len(items), status \in Decisions : Change(s, x, status)
             \/ EndRequest(s)
      PROVE  Kept' /\ Grown
  BY <1>9, PersonStep
<1>10. ASSUME NEW row, create_validation_exception(row) PROVE Kept' /\ Grown
  BY <1>10, ValidationStep
<1>11. ASSUME NEW response, classify_load_failure(response) PROVE Kept' /\ Grown
  BY <1>11, LoadFailureStep
<1>12. CASE UNCHANGED vars
  <2>1. UNCHANGED <<items, errors, assessments, jobs, synced>>
    BY <1>12 DEF vars
  <2>2. Grown /\ Lines'
    BY <2>1, TablesSame, LinesStay DEF Kept
  <2> QED
    BY <2>1, <2>2, NoSessionMoves
<1> QED
  BY <1>1, <1>2, <1>3, <1>4, <1>5, <1>6, <1>7, <1>8, <1>9, <1>10, <1>11, <1>12 DEF Next

LEMMA QueueKept == Spec => []Kept
<1>1. Init => Kept
  BY KeptInit
<1>2. Kept /\ [Next]_vars => Kept'
  BY KeptNext
<1> QED
  BY <1>1, <1>2, PTL DEF Spec

(* Every refused line of an upload has exactly one item on the queue,       *)
(* however many requests sync the errors beside uploads and reprocessing:   *)
(* the item is committed with the error, so that no sync misses it.         *)
THEOREM OneItemPerError == Spec => []ErrorQueuedOnce
<1>1. Kept => ErrorQueuedOnce
  BY DEF Kept, Lines
<1> QED
  BY <1>1, QueueKept, PTL

-----------------------------------------------------------------------------
(* Induction, over sets                                                     *)

\* The least member of a set of naturals, and induction over it as a set.
LEMMA Least ==
    ASSUME NEW T \in SUBSET Nat, T # {}
    PROVE  \E x \in T : \A y \in T : x <= y
<1>1. \E R : IsWellFoundedOn(R, Nat) /\ \A x, y \in Nat : <<x, y>> \in R <=> x < y
  <2>1. IsWellFoundedOn(OpToRel(<, Nat), Nat)
    BY NatLessThanWellFounded
  <2>2. \A x, y \in Nat : <<x, y>> \in OpToRel(<, Nat) <=> x < y
    BY DEF OpToRel
  <2> QED
    BY <2>1, <2>2, Zenon
<1>2. PICK R : IsWellFoundedOn(R, Nat) /\ \A x, y \in Nat : <<x, y>> \in R <=> x < y
  BY <1>1
<1>3. \E x \in T : \A y \in T : ~ (<<y, x>> \in R)
  <2> HIDE <1>2
  <2>1. IsWellFoundedOn(R, Nat) /\ T \subseteq Nat
    BY <1>2
  <2> QED
    BY <2>1, WFMin, Zenon
<1>4. PICK x \in T : \A y \in T : ~ (<<y, x>> \in R)
  BY <1>3
<1>5. ASSUME NEW y \in T PROVE x <= y
  <2>1. x \in Nat /\ y \in Nat /\ ~ (y < x)
    BY <1>2, <1>4
  <2> QED
    BY <2>1
<1> QED
  BY <1>5

LEMMA Induct ==
    ASSUME NEW T, 0 \in T, \A n \in Nat : n \in T => n + 1 \in T
    PROVE  Nat \subseteq T
<1> SUFFICES ASSUME NEW b \in Nat, b \notin T PROVE FALSE
  OBVIOUS
<1> DEFINE Outside == {n \in Nat : n \notin T}
<1>1. PICK m \in Outside : \A y \in Outside : m <= y
  BY Least
<1>2. m - 1 \in Nat /\ m - 1 \notin Outside
  BY <1>1
<1> QED
  BY <1>1, <1>2

-----------------------------------------------------------------------------
(* The codes the two warnings predict                                       *)

\* No entry of a group that has such a code is harmless.
WarningCodes == {10022, 10024}
Severe(group) ==
    /\ Sequence(group)
    /\ \A i \in 1 .. Len(group) : group[i].num \in WarningCodes => group[i].is_blocker
Listed(group, num) == \E i \in 1 .. Len(group) : group[i].num = num

LEMMA TupleIsSequence ==
    ASSUME NEW g, NEW n \in Nat, g = [i \in 1 .. n |-> g[i]]
    PROVE  Sequence(g) /\ Len(g) = n
<1> DEFINE S == {g[i] : i \in 1 .. n}
<1>1. \A i \in 1 .. n : g[i] \in S
  OBVIOUS
<1>2. g \in [1 .. n -> S]
  <2> HIDE DEF S
  <2> QED
    BY <1>1
<1>3. g \in Seq(S)
  BY <1>2, SeqDef
<1>4. Len(g) \in Nat /\ DOMAIN g = 1 .. Len(g) /\ DOMAIN g = 1 .. n
  BY <1>2, <1>3, LenProperties
<1>5. Len(g) = n
  BY <1>4
<1> QED
  BY <1>3, <1>5 DEF Sequence

LEMMA GroupsSevere ==
    /\ Severe(ContractPartyErrors) /\ Severe(ContractStateErrors)
    /\ Severe(ContractJourneyErrors) /\ Severe(TopUpErrors) /\ Severe(LeaveSupplierErrors)
    /\ Listed(ContractStateErrors, 10022) /\ Listed(ContractStateErrors, 10024)
<1>1. Severe(ContractPartyErrors)
  <2>1. ContractPartyErrors = [i \in 1 .. 13 |-> ContractPartyErrors[i]]
    BY DEF ContractPartyErrors
  <2>2. Sequence(ContractPartyErrors) /\ Len(ContractPartyErrors) = 13
    BY <2>1, TupleIsSequence
  <2> QED
    BY <2>2 DEF Severe, WarningCodes, ContractPartyErrors, AtLoad, Mapping, Operational, Err, About
<1>2. /\ Severe(ContractStateErrors)
      /\ Listed(ContractStateErrors, 10022) /\ Listed(ContractStateErrors, 10024)
  <2>1. ContractStateErrors = [i \in 1 .. 12 |-> ContractStateErrors[i]]
    BY DEF ContractStateErrors
  <2>2. Sequence(ContractStateErrors) /\ Len(ContractStateErrors) = 12
    BY <2>1, TupleIsSequence
  <2>3. Severe(ContractStateErrors)
    BY <2>2 DEF Severe, WarningCodes, ContractStateErrors, AtLoad, Mapping, Operational, Err, About,
                Harmless
  <2>4. ContractStateErrors[5].num = 10022 /\ ContractStateErrors[7].num = 10024
    BY DEF ContractStateErrors, Operational, Err
  <2> QED
    BY <2>2, <2>3, <2>4 DEF Listed
<1>3. Severe(ContractJourneyErrors)
  <2>1. ContractJourneyErrors = [i \in 1 .. 13 |-> ContractJourneyErrors[i]]
    BY DEF ContractJourneyErrors
  <2>2. Sequence(ContractJourneyErrors) /\ Len(ContractJourneyErrors) = 13
    BY <2>1, TupleIsSequence
  <2> QED
    BY <2>2 DEF Severe, WarningCodes, ContractJourneyErrors, AtLoad, Mapping, Operational, Err,
                Harmless
<1>4. Severe(TopUpErrors)
  <2>1. TopUpErrors = [i \in 1 .. 7 |-> TopUpErrors[i]]
    BY DEF TopUpErrors
  <2>2. Sequence(TopUpErrors) /\ Len(TopUpErrors) = 7
    BY <2>1, TupleIsSequence
  <2> QED
    BY <2>2 DEF Severe, WarningCodes, TopUpErrors, Mapping, Err, Harmless
<1>5. Severe(LeaveSupplierErrors)
  <2>1. LeaveSupplierErrors = [i \in 1 .. 12 |-> LeaveSupplierErrors[i]]
    BY DEF LeaveSupplierErrors
  <2>2. Sequence(LeaveSupplierErrors) /\ Len(LeaveSupplierErrors) = 12
    BY <2>1, TupleIsSequence
  <2> QED
    BY <2>2 DEF Severe, WarningCodes, LeaveSupplierErrors, AtLoad, Operational, Err, About
<1> QED
  BY <1>1, <1>2, <1>3, <1>4, <1>5

LEMMA SevereJoined ==
    ASSUME NEW s, NEW t, Severe(s), Severe(t)
    PROVE  Severe(s \o t) /\ \A num : Listed(s, num) \/ Listed(t, num) => Listed(s \o t, num)
<1>1. PICK S : s \in Seq(S)
  BY DEF Severe, Sequence
<1>2. PICK T : t \in Seq(T)
  BY DEF Severe, Sequence
<1>3. s \in Seq(S \cup T) /\ t \in Seq(S \cup T)
  BY <1>1, <1>2, SeqMonotonic
<1>4. /\ s \o t \in Seq(S \cup T) /\ Len(s \o t) = Len(s) + Len(t)
      /\ Len(s) \in Nat /\ Len(t) \in Nat
      /\ \A i \in 1 .. Len(s) + Len(t) : (s \o t)[i] = IF i <= Len(s) THEN s[i] ELSE t[i - Len(s)]
  BY <1>3, ConcatProperties, LenProperties
<1>5. Severe(s \o t)
  BY <1>4 DEF Severe, Sequence
<1>6. \A i \in 1 .. Len(s) : i \in 1 .. Len(s \o t) /\ (s \o t)[i] = s[i]
  BY <1>4
<1>7. \A i \in 1 .. Len(t) : Len(s) + i \in 1 .. Len(s \o t) /\ (s \o t)[Len(s) + i] = t[i]
  BY <1>4
<1> QED
  BY <1>5, <1>6, <1>7 DEF Listed

LEMMA CatalogueSevere ==
    Severe(DETAILED_ENTRIES) /\ \A num \in WarningCodes : Listed(DETAILED_ENTRIES, num)
<1>1. /\ Severe(ContractPartyErrors \o ContractStateErrors)
      /\ \A num \in WarningCodes : Listed(ContractPartyErrors \o ContractStateErrors, num)
  BY GroupsSevere, SevereJoined DEF WarningCodes
<1>2. LET s == ContractPartyErrors \o ContractStateErrors \o ContractJourneyErrors
      IN Severe(s) /\ \A num \in WarningCodes : Listed(s, num)
  BY <1>1, GroupsSevere, SevereJoined
<1>3. LET s == ContractPartyErrors \o ContractStateErrors \o ContractJourneyErrors \o TopUpErrors
      IN Severe(s) /\ \A num \in WarningCodes : Listed(s, num)
  BY <1>2, GroupsSevere, SevereJoined
<1> QED
  BY <1>3, GroupsSevere, SevereJoined DEF DETAILED_ENTRIES

\* A warning counts as a blocker: the confirmed entry of its code blocks.
LEMMA WarningsBlock ==
    ASSUME NEW check, NEW num \in WarningCodes, CHECK_TO_KRAKEN[check][1] = CT(num)
    PROVE  classify_validation_finding(check).is_blocker
<1> DEFINE code == CT(num)
           hits == DetailsOf(code)
<1>1. code[1] = "KT-CT" /\ code[2] = num
  BY DEF CT
<1>2. hits = {i \in 1 .. Len(DETAILED_ENTRIES) : DETAILED_ENTRIES[i].num = num}
  BY <1>1 DEF DetailsOf, Holds
<1>3. hits # {} /\ \A i \in hits : DETAILED_ENTRIES[i].is_blocker
  BY <1>2, CatalogueSevere DEF Severe, Listed
<1>4. hits \in SUBSET Nat
  BY <1>2
<1>5. Earliest(hits) \in hits
  <2>1. \E i \in hits : \A j \in hits : i <= j
    BY <1>3, <1>4, Least
  <2> QED
    BY <2>1 DEF Earliest
<1>6. index_entry(code).is_blocker
  BY <1>3, <1>5 DEF index_entry
<1>7. Resolves(code)
  BY <1>3 DEF Resolves
<1> QED
  BY <1>6, <1>7 DEF classify_validation_finding

LEMMA AllBlock ==
    /\ Len(DEFAULT_HEALTH_CHECKS) = 14
    /\ \A n \in 1 .. 14 : blocks(DEFAULT_HEALTH_CHECKS[n])
<1>1. Len(DEFAULT_HEALTH_CHECKS) = 14
  BY DEF DEFAULT_HEALTH_CHECKS
<1>2. /\ CHECK_TO_KRAKEN["contract_expired"][1] = CT(10024)
      /\ CHECK_TO_KRAKEN["contract_terminated"][1] = CT(10022)
  BY DEF CHECK_TO_KRAKEN
<1>3. /\ classify_validation_finding("contract_expired").is_blocker
      /\ classify_validation_finding("contract_terminated").is_blocker
  BY <1>2, WarningsBlock DEF WarningCodes
<1>4. \A n \in 1 .. 14 : \/ DEFAULT_HEALTH_CHECKS[n].severity = "blocker"
                         \/ DEFAULT_HEALTH_CHECKS[n].id \in {"contract_expired", "contract_terminated"}
  BY DEF DEFAULT_HEALTH_CHECKS, Blocker, Warning
<1> QED
  BY <1>1, <1>3, <1>4 DEF blocks

-----------------------------------------------------------------------------
(* The score of a cohort                                                    *)

LEMMA Unblemished == readiness_score(<<>>) = 100
<1>1. DOMAIN <<>> = {}
  OBVIOUS
<1> QED
  BY <1>1 DEF readiness_score, FoldSeq, FoldFunction, FoldFunctionOnSet,
         MapThenFoldSet

Adds(records, f) ==
    f = [s \in SUBSET (DOMAIN records) |->
            IF s = {} THEN 0
            ELSE LET x == CHOOSE x \in s : TRUE IN records[x].score + f[s \ {x}]]
\* The fold is the function that counts 100 for each record: it satisfies the recursion,
\* and no other function does.
LEMMA AllSound ==
    ASSUME NEW records, DOMAIN records = 1 .. Len(records), Len(records) \in Nat,
           \A i \in 1 .. Len(records) : records[i].score = 100
    PROVE  TotalScore(records) = 100 * Len(records)
<1> DEFINE Places == 1 .. Len(records)
<1>1. TotalScore(records) = (CHOOSE f : Adds(records, f))[DOMAIN records]
  BY DEF TotalScore, FoldSeq, FoldFunction, FoldFunctionOnSet, MapThenFoldSet, Adds
<1>2. IsFiniteSet(Places) /\ Cardinality(Places) = Len(records)
  <2>1. IsFiniteSet(Places)
    BY FS_Interval
  <2>2. Cardinality(1 .. Len(records)) = IF 1 > Len(records) THEN 0 ELSE Len(records) - 1 + 1
    BY FS_Interval
  <2> QED
    BY <2>1, <2>2
<1>3. \A s \in SUBSET Places : IsFiniteSet(s) /\ Cardinality(s) \in Nat
  BY <1>2, FS_Subset, FS_CardinalityType
<1>4. ASSUME NEW s \in SUBSET Places, s # {}, NEW x, x = CHOOSE y \in s : TRUE
      PROVE  /\ x \in s /\ records[x].score = 100 /\ s \ {x} \in SUBSET Places
             /\ Cardinality(s) = Cardinality(s \ {x}) + 1 /\ Cardinality(s \ {x}) \in Nat
  <2>1. x \in s
    BY <1>4
  <2>2. /\ Cardinality(s \ {x}) = Cardinality(s) - 1
        /\ Cardinality(s) \in Nat /\ Cardinality(s \ {x}) \in Nat
    BY <1>3, <2>1, FS_RemoveElement
  <2> QED
    BY <2>1, <2>2
<1>5. Adds(records, [s \in SUBSET Places |-> 100 * Cardinality(s)])
  <2> DEFINE f == [s \in SUBSET Places |-> 100 * Cardinality(s)]
             g == [s \in SUBSET Places |->
                     IF s = {} THEN 0
                     ELSE LET x == CHOOSE x \in s : TRUE IN records[x].score + f[s \ {x}]]
  <2>1. ASSUME NEW s \in SUBSET Places PROVE f[s] = g[s]
    <3>1. CASE s = {}
      BY <3>1, FS_EmptySet
    <3>2. CASE s # {}
      <4> DEFINE x == CHOOSE x \in s : TRUE
      <4>1. /\ records[x].score = 100 /\ s \ {x} \in SUBSET Places
            /\ Cardinality(s) = Cardinality(s \ {x}) + 1 /\ Cardinality(s \ {x}) \in Nat
        BY <3>2, <1>3, <1>4
      <4>2. g[s] = 100 + 100 * Cardinality(s \ {x})
        BY <3>2, <4>1
      <4> QED
        BY <4>1, <4>2
    <3> QED
      BY <3>1, <3>2
  <2>2. f = g
    BY <2>1
  <2> QED
    BY <2>2 DEF Adds
<1>6. PICK f : Adds(records, f) /\ TotalScore(records) = f[Places]
  BY <1>1, <1>5
<1> DEFINE Good == {n \in Nat : \A s \in SUBSET Places : Cardinality(s) = n => f[s] = 100 * n}
<1>7. 0 \in Good
  <2>1. ASSUME NEW s \in SUBSET Places, Cardinality(s) = 0 PROVE f[s] = 0
    <3>1. s = {}
      BY <1>3, <2>1, FS_EmptySet
    <3> QED
      BY <3>1, <1>6 DEF Adds
  <2> QED
    BY <2>1
<1>8. \A n \in Nat : n \in Good => n + 1 \in Good
  <2> SUFFICES ASSUME NEW n \in Nat, n \in Good, NEW s \in SUBSET Places, Cardinality(s) = n + 1
               PROVE  f[s] = 100 * (n + 1)
    OBVIOUS
  <2> DEFINE x == CHOOSE x \in s : TRUE
  <2>1. s # {}
    <3>1. n + 1 # 0
      OBVIOUS
    <3> QED
      BY <3>1, FS_EmptySet
  <2>2. /\ records[x].score = 100 /\ s \ {x} \in SUBSET Places
        /\ Cardinality(s) = Cardinality(s \ {x}) + 1 /\ Cardinality(s \ {x}) \in Nat
    BY <1>4, <2>1
  <2>3. f[s] = 100 + f[s \ {x}]
    BY <1>6, <2>1, <2>2 DEF Adds
  <2> QED
    BY <2>2, <2>3
<1>9. Nat \subseteq Good
  BY <1>7, <1>8, Induct
<1> QED
  BY <1>2, <1>6, <1>9

-----------------------------------------------------------------------------
(* What an assessment says of the staged rows                               *)

Clean(rows) == \A i \in 1 .. Len(rows) : failing(rows, i, Required) = {}

LEMMA RowJudged ==
    ASSUME NEW rows, NEW i
    PROVE  LET row == assess_row(rows, i, Required)
           IN /\ row.account = Account(rows[i])
              /\ failing(rows, i, Required) = {} => row.score = 100 /\ row.status = "ready"
              /\ failing(rows, i, Required) # {} => row.status = "blocked"
<1> DEFINE failed == failing(rows, i, Required)
           row == assess_row(rows, i, Required)
<1>1. /\ row.account = Account(rows[i]) /\ row.score = readiness_score(findings(failed))
      /\ row.status = readiness_status(row.score, has_blocker(failed))
  BY DEF assess_row
<1>2. CASE failed = {}
  <2>1. Cardinality({}) = 0
    BY FS_EmptySet
  <2>2. findings(failed) = <<>>
    BY <1>2, <2>1 DEF findings, Picked
  <2>3. row.score = 100
    BY <1>1, <2>2, Unblemished
  <2>4. ~ has_blocker(failed)
    BY <1>2 DEF has_blocker
  <2> QED
    BY <1>1, <1>2, <2>3, <2>4 DEF readiness_status
<1>3. CASE failed # {}
  <2>1. failed \subseteq 1 .. 14
    BY AllBlock DEF failing
  <2>2. has_blocker(failed)
    BY <1>3, <2>1, AllBlock DEF has_blocker
  <2> QED
    BY <1>1, <1>3, <2>2 DEF readiness_status
<1> QED
  BY <1>1, <1>2, <1>3

\* A limit takes the first rows, and what these fail they fail among all rows.
LEMMA FirstRows ==
    ASSUME NEW rows, Sequence(rows), NEW limit \in Nat
    PROVE  /\ Sequence(Cohort(rows, limit))
           /\ ~ Clean(Cohort(rows, limit)) => ~ Clean(rows)
<1> DEFINE cohort == Cohort(rows, limit)
<1>1. PICK S : rows \in Seq(S)
  BY DEF Sequence
<1>2. Len(rows) \in Nat
  BY <1>1, LenProperties
<1>3. /\ cohort \in Seq(S) /\ Len(cohort) \in Nat /\ Len(cohort) <= Len(rows)
      /\ \A i \in 1 .. Len(cohort) : cohort[i] = rows[i]
  <2>1. CASE limit = NoLimit \/ limit >= Len(rows)
    BY <1>1, <1>2, <2>1 DEF Cohort
  <2>2. CASE ~ (limit = NoLimit \/ limit >= Len(rows))
    <3>1. cohort = SubSeq(rows, 1, limit) /\ limit <= Len(rows)
      BY <1>2, <2>2 DEF Cohort
    <3>2. \A i \in 1 .. limit : i \in 1 .. Len(rows)
      BY <1>2, <3>1
    <3> HIDE DEF cohort
    <3> QED
      BY <1>1, <1>2, <3>1, <3>2, SubSeqProperties
  <2> QED
    BY <2>1, <2>2
<1> HIDE DEF cohort
<1>4. ASSUME ~ Clean(cohort) PROVE ~ Clean(rows)
  <2>1. PICK i \in 1 .. Len(cohort) : failing(cohort, i, Required) # {}
    BY <1>4 DEF Clean
  <2>2. PICK n \in 1 .. Len(DEFAULT_HEALTH_CHECKS) :
            Fails(DEFAULT_HEALTH_CHECKS[n].id, cohort, i, Required)
    BY <2>1 DEF failing
  <2>3. cohort[i] = rows[i] /\ i \in 1 .. Len(rows)
    BY <1>2, <1>3
  <2>4. \A j \in 1 .. (i - 1) : cohort[j] = rows[j]
    BY <1>3
  <2>5. Duplicated(cohort, i) => Duplicated(rows, i)
    BY <2>3, <2>4 DEF Duplicated
  <2>6. Fails(DEFAULT_HEALTH_CHECKS[n].id, rows, i, Required)
    BY <2>2, <2>3, <2>5 DEF Fails
  <2> QED
    BY <2>2, <2>3, <2>6 DEF failing, Clean
<1> QED
  BY <1>3, <1>4 DEF Sequence, cohort

\* The gate with its deployment of 85 and 0 lets through what is clean, and nothing else.
LEMMA GateMeansClean ==
    ASSUME NEW table, NEW limit, NEW rows, rows = Cohort(table, limit), Sequence(rows)
    PROVE  LET records == assess_project(table, Required, limit)
           IN /\ Len(records) = Len(rows)
              /\ \A i \in 1 .. Len(rows) : records[i] = assess_row(rows, i, Required)
              /\ check_health_gate(records, 85, 0) <=> Len(rows) > 0 /\ Clean(rows)
<1> DEFINE records == assess_project(table, Required, limit)
<1>1. Len(rows) \in Nat
  BY SequenceLength
<1>2. records = [i \in 1 .. Len(rows) |-> assess_row(rows, i, Required)]
  BY DEF assess_project
<1>3. Sequence(records) /\ Len(records) = Len(rows)
  <2>1. records = [i \in 1 .. Len(rows) |-> records[i]]
    BY <1>2
  <2> HIDE DEF records
  <2> QED
    BY <1>1, <2>1, TupleIsSequence
<1>4. \A i \in 1 .. Len(rows) : records[i] = assess_row(rows, i, Required)
  BY <1>2
<1> HIDE DEF records
<1>5. ASSUME check_health_gate(records, 85, 0) PROVE Len(rows) > 0 /\ Clean(rows)
  <2>1. BlockedRows(records) \subseteq 1 .. Len(rows)
    BY <1>3 DEF BlockedRows
  <2>2. IsFiniteSet(BlockedRows(records)) /\ Cardinality(BlockedRows(records)) \in Nat
    <3>1. IsFiniteSet(1 .. Len(rows))
      BY FS_Interval
    <3> QED
      BY <2>1, <3>1, FS_Subset, FS_CardinalityType
  <2>3. Len(rows) > 0 /\ 100 * Cardinality(BlockedRows(records)) <= 0 * Len(rows)
    BY <1>3, <1>5 DEF check_health_gate
  <2>4. Cardinality(BlockedRows(records)) = 0
    BY <1>1, <2>2, <2>3
  <2>5. BlockedRows(records) = {}
    BY <2>2, <2>4, FS_EmptySet
  <2>6. \A i \in 1 .. Len(rows) : records[i].status # "blocked"
    BY <1>3, <2>5 DEF BlockedRows
  <2> QED
    BY <1>4, <2>3, <2>6, RowJudged DEF Clean
<1>6. ASSUME Len(rows) > 0, Clean(rows) PROVE check_health_gate(records, 85, 0)
  <2>1. \A i \in 1 .. Len(rows) : records[i].score = 100 /\ records[i].status = "ready"
    BY <1>4, <1>6, RowJudged DEF Clean
  <2>2. DOMAIN records = 1 .. Len(rows)
    BY <1>2 DEF records
  <2>3. TotalScore(records) = 100 * Len(rows)
    BY <1>1, <1>3, <2>1, <2>2, AllSound
  <2>4. BlockedRows(records) = {}
    BY <1>3, <2>1 DEF BlockedRows
  <2>5. Cardinality(BlockedRows(records)) = 0
    BY <2>4, FS_EmptySet
  <2> QED
    BY <1>1, <1>3, <1>6, <2>3, <2>5 DEF check_health_gate
<1> QED
  BY <1>3, <1>4, <1>5, <1>6 DEF records

\* Of the rows of one account only the first is not refused as a duplicate.
LEMMA OneReady ==
    ASSUME NEW rows, Sequence(rows), NEW i \in 1 .. Len(rows), NEW j \in 1 .. Len(rows), i < j,
           assess_row(rows, i, Required).account = assess_row(rows, j, Required).account
    PROVE  assess_row(rows, j, Required).status # "ready"
<1>1. Account(rows[i]) = Account(rows[j])
  BY RowJudged
<1>2. /\ DEFAULT_HEALTH_CHECKS[1].id = "missing_account_number"
      /\ DEFAULT_HEALTH_CHECKS[3].id = "duplicate_account_number"
  BY DEF DEFAULT_HEALTH_CHECKS, Blocker
<1>3. CASE Account(rows[j]) = None
  <2>1. Fails("missing_account_number", rows, j, Required)
    BY <1>3 DEF Fails
  <2>2. 1 \in failing(rows, j, Required)
    BY <1>2, <2>1, AllBlock DEF failing
  <2> QED
    BY <2>2, RowJudged
<1>4. CASE Account(rows[j]) # None
  <2>1. Len(rows) \in Nat
    BY SequenceLength
  <2>2. Duplicated(rows, j)
    BY <1>1, <1>4, <2>1 DEF Duplicated
  <2>3. Fails("duplicate_account_number", rows, j, Required)
    BY <2>2 DEF Fails
  <2>4. 3 \in failing(rows, j, Required)
    BY <1>2, <2>3, AllBlock DEF failing
  <2> QED
    BY <2>4, RowJudged
<1> QED
  BY <1>3, <1>4

-----------------------------------------------------------------------------
(* Rows are only ever added                                                 *)

Moved(place, i) == IF i < place THEN i ELSE i + 1

LEMMA Inserted ==
    ASSUME NEW rows, Sequence(rows), NEW place \in 1 .. Len(rows) + 1, NEW row
    PROVE  /\ Sequence(InsertAt(rows, place, row)) /\ Len(InsertAt(rows, place, row)) = Len(rows) + 1
           /\ \A i \in 1 .. Len(rows) : InsertAt(rows, place, row)[Moved(place, i)] = rows[i]
<1> DEFINE before == SubSeq(rows, 1, place - 1)
           after == SubSeq(rows, place, Len(rows))
<1>1. PICK S : rows \in Seq(S)
  BY DEF Sequence
<1>2. Len(rows) \in Nat
  BY <1>1, LenProperties
<1>3. /\ before \in Seq(S) /\ Len(before) = place - 1
      /\ \A i \in 1 .. place - 1 : before[i] = rows[i]
  <2>1. \A i \in 1 .. place - 1 : i \in 1 .. Len(rows)
    BY <1>2
  <2> QED
    BY <1>1, <1>2, <2>1, SubSeqProperties
<1>4. /\ after \in Seq(S) /\ Len(after) = Len(rows) - place + 1
      /\ \A i \in 1 .. Len(rows) - place + 1 : after[i] = rows[place + i - 1]
  <2>1. \A i \in place .. Len(rows) : i \in 1 .. Len(rows)
    BY <1>2
  <2> QED
    BY <1>1, <1>2, <2>1, SubSeqProperties
<1> DEFINE T == S \cup {row}
<1>5. before \in Seq(T) /\ after \in Seq(T) /\ <<row>> \in Seq(T) /\ Len(<<row>>) = 1
  BY <1>3, <1>4, SeqMonotonic
<1> HIDE DEF before, after, T
<1> DEFINE front == before \o <<row>>
           joined == front \o after
<1>6. /\ front \in Seq(T) /\ Len(front) = place
      /\ \A i \in 1 .. place - 1 : front[i] = before[i]
  BY <1>2, <1>3, <1>5, ConcatProperties
<1> HIDE DEF front
<1>7. /\ joined \in Seq(T) /\ Len(joined) = Len(rows) + 1
      /\ \A i \in 1 .. place : joined[i] = front[i]
      /\ \A i \in place + 1 .. Len(rows) + 1 : joined[i] = after[i - place]
  <2>1. /\ joined \in Seq(T) /\ Len(joined) = place + Len(after)
        /\ \A i \in 1 .. place + Len(after) :
              joined[i] = IF i <= place THEN front[i] ELSE after[i - place]
    BY <1>5, <1>6, ConcatProperties
  <2>2. place + Len(after) = Len(rows) + 1
    BY <1>2, <1>4
  <2> HIDE DEF joined
  <2> QED
    BY <1>2, <2>1, <2>2
<1>8. \A i \in 1 .. Len(rows) : joined[Moved(place, i)] = rows[i]
  <2> SUFFICES ASSUME NEW i \in 1 .. Len(rows) PROVE joined[Moved(place, i)] = rows[i]
    OBVIOUS
  <2>1. CASE i < place
    BY <1>2, <1>3, <1>6, <1>7, <2>1 DEF Moved
  <2>2. CASE ~ (i < place)
    <3>1. i + 1 \in place + 1 .. Len(rows) + 1 /\ i + 1 - place \in 1 .. Len(rows) - place + 1
      BY <1>2, <2>2
    <3>2. joined[i + 1] = after[i + 1 - place] /\ after[i + 1 - place] = rows[place + (i + 1 - place) - 1]
      BY <1>4, <1>7, <3>1
    <3>3. place + (i + 1 - place) - 1 = i
      BY <1>2
    <3> QED
      BY <2>2, <3>2, <3>3 DEF Moved
  <2> QED
    BY <2>1, <2>2
<1>9. InsertAt(rows, place, row) = joined
  BY DEF InsertAt, before, after, front, joined
<1> QED
  BY <1>7, <1>8, <1>9 DEF Sequence

\* A row that fails a check still fails it when another row has come in: what a check looks
\* at is the row itself and the accounts of those before it.
LEMMA StaysUnclean ==
    ASSUME NEW rows, Sequence(rows), NEW place \in 1 .. Len(rows) + 1, NEW row, ~ Clean(rows)
    PROVE  ~ Clean(InsertAt(rows, place, row))
<1> DEFINE more == InsertAt(rows, place, row)
<1>1. /\ Sequence(more) /\ Len(more) = Len(rows) + 1 /\ Len(rows) \in Nat
      /\ \A i \in 1 .. Len(rows) : more[Moved(place, i)] = rows[i]
  BY Inserted, SequenceLength
<1> HIDE DEF more
<1>2. PICK i \in 1 .. Len(rows) : failing(rows, i, Required) # {}
  BY DEF Clean
<1>3. PICK n \in 1 .. Len(DEFAULT_HEALTH_CHECKS) : Fails(DEFAULT_HEALTH_CHECKS[n].id, rows, i, Required)
  BY <1>2 DEF failing
<1> DEFINE k == Moved(place, i)
<1>4. k \in 1 .. Len(more) /\ more[k] = rows[i]
  BY <1>1 DEF Moved
<1>5. Duplicated(rows, i) => Duplicated(more, k)
  <2> SUFFICES ASSUME Duplicated(rows, i) PROVE Duplicated(more, k)
    OBVIOUS
  <2>1. PICK j \in 1 .. (i - 1) : Account(rows[j]) = Account(rows[i])
    BY DEF Duplicated
  <2>2. j \in 1 .. Len(rows) /\ Moved(place, j) \in 1 .. (k - 1)
    BY <1>1 DEF Moved
  <2>3. Account(more[Moved(place, j)]) = Account(more[k])
    BY <1>1, <1>4, <2>1, <2>2
  <2> QED
    BY <1>4, <2>2, <2>3 DEF Duplicated
<1>6. Fails(DEFAULT_HEALTH_CHECKS[n].id, more, k, Required)
  <2> HIDE DEF k
  <2> QED
    BY <1>3, <1>4, <1>5 DEF Fails
<1>7. failing(more, k, Required) # {}
  BY <1>6 DEF failing
<1> QED
  BY <1>4, <1>7 DEF Clean, more

-----------------------------------------------------------------------------
(* The gate                                                                 *)

RefusedRows(a) == Len(assessments[a]) > 0 /\ ~ Passes(a)

\* A refusal has left its mark on the staged rows.
Judged ==
    /\ Sequence(staged) /\ Sequence(assessments)
    /\ OneReadyRowPerAccount /\ OpensByLeavingOut /\ whole \subseteq 1 .. Len(assessments)
    /\ \A a \in 1 .. Len(assessments) : RefusedRows(a) => ~ Clean(staged)

LEMMA RowAdded ==
    ASSUME Judged, NEW place \in 1 .. Len(staged) + 1, NEW row, staged' = InsertAt(staged, place, row),
           UNCHANGED <<assessments, whole>>
    PROVE  Judged'
<1>1. Sequence(staged') /\ (~ Clean(staged) => ~ Clean(staged'))
  BY Inserted, StaysUnclean DEF Judged
<1> QED
  BY <1>1 DEF Judged, OneReadyRowPerAccount, OpensByLeavingOut, RefusedRows, Passes

LEMMA RowsAssessed ==
    ASSUME Judged, NEW limit \in Nat, Assess(limit)
    PROVE  Judged'
<1> DEFINE cohort == Cohort(staged, limit)
           assessment == assess_project(staged, Required, limit)
           n == Len(assessments) + 1
<1>1. /\ assessments' = Append(assessments, assessment) /\ UNCHANGED staged
      /\ whole' = IF cohort = staged THEN whole \cup {Len(assessments')} ELSE whole
  BY DEF Assess
<1>2. /\ Sequence(assessments') /\ Len(assessments') = n /\ Len(assessments) \in Nat
      /\ assessments'[n] = assessment
      /\ \A a \in 1 .. Len(assessments) : assessments'[a] = assessments[a]
  <2> HIDE DEF assessment
  <2> QED
    BY <1>1, Appended, SequenceLength DEF Judged, Extends
<1>3. Sequence(cohort) /\ Len(cohort) \in Nat /\ (~ Clean(cohort) => ~ Clean(staged))
  BY FirstRows, SequenceLength DEF Judged
<1>4. /\ Len(assessment) = Len(cohort)
      /\ \A i \in 1 .. Len(cohort) : assessment[i] = assess_row(cohort, i, Required)
      /\ check_health_gate(assessment, 85, 0) <=> Len(cohort) > 0 /\ Clean(cohort)
  BY <1>3, GateMeansClean
<1> HIDE DEF assessment, cohort
<1>5. OneReadyRowPerAccount'
  <2> SUFFICES ASSUME NEW a \in 1 .. n, NEW i \in 1 .. Len(assessments'[a]),
                      NEW j \in 1 .. Len(assessments'[a]),
                      assessments'[a][i].status = "ready", assessments'[a][j].status = "ready",
                      assessments'[a][i].account = assessments'[a][j].account
               PROVE  i = j
    BY <1>2 DEF OneReadyRowPerAccount
  <2>1. CASE a = n
    <3>1. i \in 1 .. Len(cohort) /\ j \in 1 .. Len(cohort)
      BY <1>2, <1>4, <2>1
    <3>2. /\ assessments'[a][i] = assess_row(cohort, i, Required)
          /\ assessments'[a][j] = assess_row(cohort, j, Required)
      BY <1>2, <1>4, <2>1, <3>1
    <3>3. ~ (i < j) /\ ~ (j < i)
      BY <1>3, <3>1, <3>2, OneReady
    <3> QED
      BY <1>3, <3>1, <3>3
  <2>2. CASE a \in 1 .. Len(assessments)
    BY <1>2, <2>2 DEF Judged, OneReadyRowPerAccount
  <2> QED
    BY <1>2, <2>1, <2>2
<1>6. \A a \in 1 .. Len(assessments') : RefusedRows(a)' => ~ Clean(staged)'
  BY <1>1, <1>2, <1>3, <1>4 DEF Judged, RefusedRows, Passes
<1>7. OpensByLeavingOut'
  <2> SUFFICES ASSUME NEW a \in 1 .. n, NEW b \in 1 .. n, a < b, RefusedRows(a)',
                      check_health_gate(assessments'[b], 85, 0)
               PROVE  b \notin whole'
    BY <1>2 DEF OpensByLeavingOut, RefusedRows, Passes
  <2>1. a \in 1 .. Len(assessments) /\ RefusedRows(a)
    BY <1>2 DEF RefusedRows, Passes
  <2>2. CASE b = n
    <3>1. Clean(cohort) /\ ~ Clean(staged)
      BY <1>2, <1>4, <2>1, <2>2 DEF Judged
    <3>2. whole' = whole
      BY <1>1, <3>1
    <3> QED
      BY <1>2, <2>2, <3>2 DEF Judged
  <2>3. CASE b \in 1 .. Len(assessments)
    <3>1. b \notin whole
      BY <1>2, <2>1, <2>3 DEF Judged, OpensByLeavingOut, RefusedRows, Passes
    <3> QED
      BY <1>1, <1>2, <2>3, <3>1
  <2>4. b = n \/ b \in 1 .. Len(assessments)
    BY <1>2
  <2> QED
    BY <2>2, <2>3, <2>4
<1>8. whole' \subseteq 1 .. Len(assessments')
  <2>1. 1 .. Len(assessments) \subseteq 1 .. n /\ n \in 1 .. n
    BY <1>2
  <2>2. whole' = whole \/ whole' = whole \cup {n}
    BY <1>1, <1>2
  <2> QED
    BY <1>2, <2>1, <2>2 DEF Judged
<1> QED
  BY <1>1, <1>2, <1>5, <1>6, <1>7, <1>8 DEF Judged

LEMMA JudgedKept == Spec => []Judged
<1>1. Init => Judged
  BY EmptySequence DEF Init, Judged, OneReadyRowPerAccount, OpensByLeavingOut
<1>2. Judged /\ [Next]_vars => Judged'
  <2> SUFFICES ASSUME Judged, [Next]_vars PROVE Judged'
    OBVIOUS
  <2>1. ASSUME UNCHANGED <<staged, assessments, whole>> PROVE Judged'
    BY <2>1 DEF Judged, OneReadyRowPerAccount, OpensByLeavingOut, RefusedRows, Passes
  <2>2. ASSUME NEW raw, NEW place \in 1 .. (Len(staged) + 1), UploadLine(raw, place) PROVE Judged'
    BY <2>1, <2>2, RowAdded DEF UploadLine
  <2>3. ASSUME NEW e, NEW raw, NEW place \in 1 .. (Len(staged) + 1), ReprocessLine(e, raw, place)
        PROVE  Judged'
    BY <2>3, RowAdded DEF ReprocessLine
  <2>4. ASSUME NEW s, \/ \E a \in 1 .. Len(assessments) : SyncFallout(s, a)
                      \/ \E k \in 1 .. MaxStaged : sync_health_record(s, k)
                      \/ SyncIngest(s)
                      \/ \E e \in 1 .. MaxErrors : sync_from_ingest_error(s, e)
                      \/ SyncCommit(s)
                      \/ \E x \in 1 .. Len(items), status \in Decisions : Change(s, x, status)
                      \/ EndRequest(s)
        PROVE  Judged'
    <3>1. UNCHANGED <<staged, assessments, whole>>
      BY <2>4 DEF SyncFallout, sync_health_record, SyncIngest, sync_from_ingest_error, SyncCommit,
                  Change, EndRequest
    <3> QED
      BY <2>1, <3>1
  <2>5. ASSUME \/ \E row \in 1 .. MaxStaged : create_validation_exception(row)
               \/ \E response \in Responses : classify_load_failure(response)
               \/ UNCHANGED vars
        PROVE  Judged'
    BY <2>1, <2>5 DEF create_validation_exception, classify_load_failure, vars
  <2>6. ASSUME NEW limit \in 0 .. MaxStaged, Assess(limit) PROVE Judged'
    BY <2>6, RowsAssessed, FalloutAssumption
  <2> QED
    BY <2>2, <2>3, <2>4, <2>5, <2>6 DEF Next
<1> QED
  BY <1>1, <1>2, PTL DEF Spec

(* However often an account was uploaded, and into whatever place of the    *)
(* cohort its rows came, an assessment takes at most one row of it for      *)
(* ready: the later ones are duplicates, and a duplicate is a blocker.      *)
THEOREM OneRowIsReady == Spec => []OneReadyRowPerAccount
<1>1. Judged => OneReadyRowPerAccount
  BY DEF Judged
<1> QED
  BY <1>1, JudgedKept, PTL

(* A gate that tolerates no blocked row and has refused a cohort opens by a *)
(* later assessment only when its request left rows out, whatever is        *)
(* uploaded or reprocessed: each check blocks, rows are only added, and the *)
(* one that failed a check fails it beside any others.                      *)
THEOREM GateOpensByLeavingOut == Spec => []OpensByLeavingOut
<1>1. Judged => OpensByLeavingOut
  BY DEF Judged
<1> QED
  BY <1>1, JudgedKept, PTL
-----------------------------------------------------------------------------
(* Where the items of an assessment come from                               *)

\* An item of an assessment names a row that needed a person, and its account.
Names(item, record) ==
    item.row = record.row_number /\ item.account = record.account /\ NeedsReview(record)
Origin(item, table) ==
    item.source = "account_health" =>
        \E b \in 1 .. Len(table) : \E k \in 1 .. Len(table[b]) : Names(item, table[b][k])
Origins(queue, table) == \A i \in 1 .. Len(queue) : Origin(queue[i], table)

JobOrigins(job, table) ==
    job.kind = "health" =>
        /\ Origins(job.added, table)
        /\ \A k \in job.todo : k \in 1 .. Len(table[job.of]) /\ NeedsReview(table[job.of][k])

Numbered(table) == \A a \in 1 .. Len(table) : \A k \in 1 .. Len(table[a]) : table[a][k].row_number = k

Sourced ==
    /\ Numbered(assessments) /\ Origins(items, assessments)
    /\ \A s \in Sessions : JobOrigins(jobs[s], assessments)

LEMMA OriginsStay ==
    ASSUME NEW queue, NEW table, NEW more, Extends(table, more), Origins(queue, table)
    PROVE  Origins(queue, more)
<1>1. 1 .. Len(table) \subseteq 1 .. Len(more) /\ \A b \in 1 .. Len(table) : more[b] = table[b]
  BY DEF Extends
<1> QED
  BY <1>1 DEF Origins, Origin

LEMMA OneMoreOrigin ==
    ASSUME NEW queue, NEW item, NEW table, Sequence(queue), Origins(queue, table), Origin(item, table)
    PROVE  Origins(Append(queue, item), table)
<1>1. /\ Len(queue) \in Nat /\ Len(Append(queue, item)) = Len(queue) + 1
      /\ Append(queue, item)[Len(queue) + 1] = item
      /\ \A i \in 1 .. Len(queue) : Append(queue, item)[i] = queue[i]
  BY Appended, SequenceLength DEF Extends
<1> QED
  BY <1>1 DEF Origins

LEMMA JobOriginsStay ==
    ASSUME Kept, Grown, Sourced, NEW s \in Sessions
    PROVE  JobOrigins(jobs[s], assessments')
<1> SUFFICES ASSUME jobs[s].kind = "health" PROVE JobOrigins(jobs[s], assessments')
  BY DEF JobOrigins
<1>1. jobs[s].of \in 1 .. Len(assessments) /\ assessments'[jobs[s].of] = assessments[jobs[s].of]
  BY DEF Kept, Shape, JobOK, Grown, Extends
<1>2. JobOrigins(jobs[s], assessments)
  BY DEF Sourced
<1>3. Origins(jobs[s].added, assessments')
  BY <1>2, OriginsStay DEF JobOrigins, Grown
<1> QED
  BY <1>1, <1>2, <1>3 DEF JobOrigins

\* A step moves at most one session, to a job that names rows of assessments only.
LEMMA SourcedStays ==
    ASSUME Kept, Grown, Sourced, Numbered(assessments'), Origins(items', assessments'),
           \A s \in Sessions : jobs'[s] = jobs[s] \/ JobOrigins(jobs'[s], assessments')
    PROVE  Sourced'
<1>1. \A s \in Sessions : JobOrigins(jobs'[s], assessments')
  BY JobOriginsStay
<1> QED
  BY <1>1 DEF Sourced, Numbered, Origins, Origin, Names, JobOrigins, NeedsReview

\* Steps that assess nothing and queue nothing.
LEMMA SourcesSame ==
    ASSUME Kept, Grown, Sourced, UNCHANGED <<items, assessments>>, NEW s, NEW job,
           \/ jobs' = jobs
           \/ jobs' = [jobs EXCEPT ![s] = job] /\ JobOrigins(job, assessments)
    PROVE  Sourced'
<1>1. \A r \in Sessions : jobs'[r] = jobs[r] \/ JobOrigins(jobs'[r], assessments)
  BY DEF Kept, Shape
<1> QED
  BY <1>1, SourcedStays DEF Sourced

\* Steps that add one item, of no assessment.
LEMMA OtherItem ==
    ASSUME Kept, Grown, Sourced, UNCHANGED <<jobs, assessments>>, NEW item,
           items' = Append(items, item), item.source # "account_health"
    PROVE  Sourced'
<1>1. Origins(items', assessments)
  BY OneMoreOrigin DEF Kept, Shape, Sourced, Origin
<1> QED
  BY <1>1, SourcedStays DEF Sourced

LEMMA SourcedInit == Init => Sourced
BY EmptySequence DEF Init, Sourced, Numbered, Origins, JobOrigins, Idle

LEMMA SourcedUpload ==
    ASSUME Kept, Grown, Sourced, NEW raw, NEW place, UploadLine(raw, place)
    PROVE  Sourced'
<1>1. CASE validate_one(Entity, raw).errors = {}
  <2>1. UNCHANGED <<items, assessments, jobs>>
    BY <1>1 DEF UploadLine
  <2> QED
    BY <2>1, SourcesSame
<1>2. CASE validate_one(Entity, raw).errors # {}
  <2> DEFINE item == Item("ingest", Len(errors) + 1, place, None, Unclassified)
  <2>1. items' = Append(items, item) /\ UNCHANGED <<assessments, jobs>>
    BY <1>2 DEF UploadLine
  <2>2. item.source # "account_health"
    BY DEF Item
  <2> HIDE DEF item
  <2> QED
    BY <2>1, <2>2, OtherItem
<1> QED
  BY <1>1, <1>2

LEMMA SourcedAssess ==
    ASSUME Kept, Grown, Sourced, NEW limit \in Nat, Sequence(staged), Assess(limit)
    PROVE  Sourced'
<1> DEFINE assessment == assess_project(staged, Required, limit)
           cohort == Cohort(staged, limit)
           n == Len(assessments) + 1
<1>1. assessments' = Append(assessments, assessment) /\ UNCHANGED <<items, jobs>>
  BY DEF Assess
<1>2. Sequence(cohort)
  BY FirstRows
<1>3. /\ Len(assessment) = Len(cohort)
      /\ \A i \in 1 .. Len(cohort) : assessment[i] = assess_row(cohort, i, Required)
  BY <1>2, GateMeansClean
<1> HIDE DEF assessment, cohort
<1>4. \A k \in 1 .. Len(assessment) : assessment[k].row_number = k
  <2>1. \A k : assess_row(cohort, k, Required).row_number = k
    BY DEF assess_row
  <2> QED
    BY <1>3, <2>1
<1>5. /\ Len(assessments') = n /\ Len(assessments) \in Nat /\ assessments'[n] = assessment
      /\ \A a \in 1 .. Len(assessments) : assessments'[a] = assessments[a]
  BY <1>1, Appended, SequenceLength DEF Kept, Shape, Extends
<1>6. Numbered(assessments')
  BY <1>4, <1>5 DEF Sourced, Numbered
<1>7. Origins(items', assessments')
  BY <1>1, OriginsStay DEF Sourced, Grown
<1> QED
  BY <1>1, <1>6, <1>7, SourcedStays

LEMMA SourcedRecord ==
    ASSUME Kept, Grown, Sourced, NEW s \in Sessions, NEW k, sync_health_record(s, k)
    PROVE  Sourced'
<1> DEFINE a == jobs[s].of
           record == assessments[a][k]
           item == HealthItem(record)
           added == jobs[s].added
<1>1. PICK now, left :
          /\ left = jobs[s].todo \ {k} /\ now \in {added, Append(added, item)}
          /\ jobs' = [jobs EXCEPT ![s].todo = left, ![s].added = now]
  BY DEF sync_health_record
<1>2. /\ jobs[s].kind = "health" /\ k \in jobs[s].todo /\ UNCHANGED <<items, assessments>>
      /\ a \in 1 .. Len(assessments) /\ Sequence(added)
  BY DEF sync_health_record, Kept, Shape, JobOK
<1>3. /\ Origins(added, assessments) /\ k \in 1 .. Len(assessments[a]) /\ NeedsReview(record)
      /\ \A j \in left : j \in 1 .. Len(assessments[a]) /\ NeedsReview(assessments[a][j])
  BY <1>1, <1>2 DEF Sourced, JobOrigins
<1>4. Names(item, record)
  BY <1>3 DEF Names, HealthItem, Item
<1>5. Origin(item, assessments)
  BY <1>2, <1>3, <1>4 DEF Origin
<1> HIDE DEF item, record
<1>6. Origins(now, assessments)
  BY <1>1, <1>2, <1>3, <1>5, OneMoreOrigin
<1>7. jobs[s] = [kind |-> "health", of |-> a, added |-> added, todo |-> jobs[s].todo]
  BY <1>2 DEF Kept, Shape, JobOK
<1>8. jobs'[s].kind = "health" /\ jobs'[s].of = a /\ jobs'[s].added = now /\ jobs'[s].todo = left
  <2>1. jobs'[s] = [[jobs[s] EXCEPT !.todo = left] EXCEPT !.added = now]
    BY <1>1 DEF Kept, Shape
  <2>2. PICK x, y, z : jobs[s] = [kind |-> "health", of |-> x, added |-> y, todo |-> z] /\ x = a
    BY <1>7
  <2> HIDE DEF a, added
  <2> QED
    BY <2>1, <2>2
<1>9. \A r \in Sessions : r # s => jobs'[r] = jobs[r]
  BY <1>1 DEF Kept, Shape
<1>10. JobOrigins(jobs'[s], assessments)
  <2> HIDE DEF a, added
  <2> QED
    BY <1>3, <1>6, <1>8 DEF JobOrigins
<1> QED
  BY <1>2, <1>9, <1>10, SourcedStays DEF Sourced

LEMMA SourcedCommit ==
    ASSUME Kept, Grown, Sourced, NEW s \in Sessions, SyncCommit(s)
    PROVE  Sourced'
<1> DEFINE added == jobs[s].added
<1>1. /\ jobs[s].kind \in {"health", "ingest"} /\ items' = items \o added
      /\ jobs' = [jobs EXCEPT ![s] = Idle] /\ UNCHANGED assessments
  BY DEF SyncCommit
<1>2. Sequence(added) /\ Origins(added, assessments)
  <2>1. CASE jobs[s].kind = "health"
    BY <2>1 DEF Kept, Shape, JobOK, Sourced, JobOrigins
  <2>2. CASE jobs[s].kind = "ingest"
    <3>1. added = <<>>
      BY <2>2 DEF Kept, Shape, JobOK
    <3> QED
      BY <3>1, EmptySequence DEF Origins
  <2> QED
    BY <1>1, <2>1, <2>2
<1> HIDE DEF added
<1>3. /\ Len(items) \in Nat /\ \A i \in 1 .. Len(items) : items'[i] = items[i]
      /\ \A j \in 1 .. Len(items') : j > Len(items) =>
            j - Len(items) \in 1 .. Len(added) /\ items'[j] = added[j - Len(items)]
  BY <1>1, <1>2, Concatenated DEF Kept, Shape, Extends
<1>4. Origins(items', assessments)
  BY <1>2, <1>3 DEF Origins, Sourced
<1>5. \A r \in Sessions : jobs'[r] = jobs[r] \/ jobs'[r].kind = "idle"
  BY <1>1 DEF Kept, Shape, Idle
<1> QED
  BY <1>1, <1>4, <1>5, SourcedStays DEF Sourced, JobOrigins

\* A request that begins, or that has to do with no assessment.
LEMMA SourcedRequest ==
    ASSUME Kept, Grown, Sourced, NEW s \in Sessions,
           \/ \E a \in 1 .. Len(assessments) : SyncFallout(s, a)
           \/ SyncIngest(s)
           \/ \E e \in 1 .. MaxErrors : sync_from_ingest_error(s, e)
           \/ \E x \in 1 .. Len(items), status \in Decisions : Change(s, x, status)
           \/ EndRequest(s)
    PROVE  Sourced'
<1>1. ASSUME NEW a \in 1 .. Len(assessments), SyncFallout(s, a) PROVE Sourced'
  <2> DEFINE job == [kind |-> "health", of |-> a, added |-> <<>>,
                     todo |-> {k \in 1..Len(assessments[a]) : NeedsReview(assessments[a][k])}]
  <2>1. jobs' = [jobs EXCEPT ![s] = job] /\ UNCHANGED <<items, assessments>>
    BY <1>1 DEF SyncFallout
  <2>2. JobOrigins(job, assessments)
    BY EmptySequence DEF JobOrigins, Origins
  <2> HIDE DEF job
  <2> QED
    BY <2>1, <2>2, SourcesSame
<1>2. ASSUME NEW job, jobs' = [jobs EXCEPT ![s] = job], job.kind # "health", UNCHANGED <<items, assessments>>
      PROVE  Sourced'
  BY <1>2, SourcesSame DEF JobOrigins
<1>3. CASE SyncIngest(s)
  <2> DEFINE job == [kind |-> "ingest", added |-> <<>>,
                     todo |-> {e \in 1..Len(errors) : ~errors[e].resolved}]
  <2>1. jobs' = [jobs EXCEPT ![s] = job] /\ job.kind # "health" /\ UNCHANGED <<items, assessments>>
    BY <1>3 DEF SyncIngest
  <2> HIDE DEF job
  <2> QED
    BY <1>2, <2>1
<1>4. ASSUME NEW e, sync_from_ingest_error(s, e) PROVE Sourced'
  <2>1. jobs'[s].kind = "ingest" /\ UNCHANGED <<items, assessments>>
    <3>1. PICK y, z : jobs' = [jobs EXCEPT ![s].todo = y, ![s].added = z]
      BY <1>4 DEF sync_from_ingest_error
    <3>2. PICK todo : jobs[s] = [kind |-> "ingest", added |-> <<>>, todo |-> todo]
      BY <1>4 DEF sync_from_ingest_error, Kept, Shape, JobOK
    <3>3. jobs'[s] = [[jobs[s] EXCEPT !.todo = y] EXCEPT !.added = z]
      BY <3>1 DEF Kept, Shape
    <3> QED
      BY <1>4, <3>2, <3>3 DEF sync_from_ingest_error
  <2>2. \A r \in Sessions : r # s => jobs'[r] = jobs[r]
    BY <1>4 DEF sync_from_ingest_error, Kept, Shape
  <2>3. \A r \in Sessions : jobs'[r] = jobs[r] \/ JobOrigins(jobs'[r], assessments)
    BY <2>1, <2>2 DEF JobOrigins
  <2> QED
    BY <2>1, <2>3, SourcedStays DEF Sourced
<1>5. ASSUME NEW x, NEW status, Change(s, x, status) PROVE Sourced'
  <2> DEFINE job == [kind |-> "change", item |-> x, status |-> status]
  <2>1. jobs' = [jobs EXCEPT ![s] = job] /\ job.kind # "health" /\ UNCHANGED <<items, assessments>>
    BY <1>5 DEF Change
  <2> HIDE DEF job
  <2> QED
    BY <1>2, <2>1
<1>6. CASE EndRequest(s)
  <2>1. jobs' = [jobs EXCEPT ![s] = Idle] /\ Idle.kind # "health" /\ UNCHANGED <<items, assessments>>
    BY <1>6 DEF EndRequest, AfterClose, Idle
  <2> QED
    BY <1>2, <2>1
<1> QED
  BY <1>1, <1>3, <1>4, <1>5, <1>6

LEMMA SourcedNext ==
    ASSUME Kept, Grown, Sourced, Sequence(staged), [Next]_vars
    PROVE  Sourced'
<1>1. ASSUME NEW e, NEW raw, NEW place, ReprocessLine(e, raw, place) PROVE Sourced'
  <2>1. UNCHANGED <<items, assessments, jobs>>
    BY <1>1 DEF ReprocessLine
  <2> QED
    BY <2>1, SourcesSame
<1>2. ASSUME NEW row, create_validation_exception(row) PROVE Sourced'
  <2> DEFINE item == Item("validation", NoError, row, None, Unclassified)
  <2>1. /\ items' = Append(items, item) /\ item.source # "account_health"
        /\ UNCHANGED <<assessments, jobs>>
    BY <1>2 DEF create_validation_exception, Item
  <2> HIDE DEF item
  <2> QED
    BY <2>1, OtherItem
<1>3. ASSUME NEW response, classify_load_failure(response) PROVE Sourced'
  <2> DEFINE plain == Item("kraken_load", NoError, NoRow, None, classify_kraken_response(response))
             item == [plain EXCEPT !.payload = response]
  <2>1. items' = Append(items, item) /\ UNCHANGED <<assessments, jobs>>
    BY <1>3 DEF classify_load_failure
  <2>2. item.source # "account_health"
    BY DEF Item
  <2> HIDE DEF item
  <2> QED
    BY <2>1, <2>2, OtherItem
<1>4. CASE UNCHANGED vars
  <2>1. UNCHANGED <<items, assessments, jobs>>
    BY <1>4 DEF vars
  <2> QED
    BY <2>1, SourcesSame
<1>5. ASSUME NEW limit \in 0 .. MaxStaged, Assess(limit) PROVE Sourced'
  BY <1>5, SourcedAssess, FalloutAssumption
<1> QED
  BY <1>1, <1>2, <1>3, <1>4, <1>5, SourcedUpload, SourcedRecord, SourcedCommit, SourcedRequest DEF Next

LEMMA SourcesKept == Spec => []Sourced
<1>1. Init => Sourced
  BY SourcedInit
<1>2. Kept /\ Judged /\ Sourced /\ [Next]_vars => Sourced'
  BY KeptNext, SourcedNext DEF Judged
<1> QED
  BY <1>1, <1>2, QueueKept, JudgedKept, PTL DEF Spec

(* Whatever the assessment found, each row that needs a person has an item  *)
(* that is being worked on from the commit of its sync on, whatever uploads,*)
(* runs and other syncs come between: one for its own account, or one that  *)
(* another assessment gave to another account on its row number, which the  *)
(* look-up takes for its own.  A person's decision changes nothing of it,   *)
(* since no route commits one.                                              *)
THEOREM ReviewIsQueued == Spec => []BlockedRowsQueued
<1>1. Kept /\ Sourced => BlockedRowsQueued
  <2> SUFFICES ASSUME Kept, Sourced, NEW a \in synced, NEW k \in 1 .. Len(assessments[a]),
                      NeedsReview(assessments[a][k])
               PROVE  \E i \in 1 .. Len(items) :
                         /\ MatchesHealth(items[i], assessments[a][k])
                         /\ \/ items[i].account = assessments[a][k].account
                            \/ \E b \in 1 .. Len(assessments) \ {a} : Reviewed(items[i], b)
    BY DEF BlockedRowsQueued
  <2>1. a \in 1 .. Len(assessments) /\ Among(items, assessments[a][k])
    BY DEF Kept, Shape, Queued, RowsQueued
  <2>2. PICK i \in 1 .. Len(items) : MatchesHealth(items[i], assessments[a][k])
    BY <2>1 DEF Among
  <2>3. PICK b \in 1 .. Len(assessments) : \E j \in 1 .. Len(assessments[b]) :
            Names(items[i], assessments[b][j])
    BY <2>2 DEF MatchesHealth, Sourced, Origins, Origin
  <2>4. PICK j \in 1 .. Len(assessments[b]) : Names(items[i], assessments[b][j])
    BY <2>3
  <2>5. Reviewed(items[i], b)
    BY <2>4 DEF Reviewed, Names
  <2>6. b = a => items[i].account = assessments[a][k].account
    <3> SUFFICES ASSUME b = a PROVE j = k
      BY <2>4 DEF Names
    <3>1. assessments[a][k].row_number = k /\ assessments[b][j].row_number = j
      BY <2>1, <2>3 DEF Sourced, Numbered
    <3> QED
      BY <2>2, <2>4, <3>1 DEF MatchesHealth, Names
  <2> QED
    BY <2>2, <2>3, <2>5, <2>6
<1> QED
  BY <1>1, QueueKept, SourcesKept, PTL
=============================================================================

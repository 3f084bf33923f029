--------------------------- MODULE BatchPipelineProofs ---------------------------
(***************************************************************************)
(* Proofs about BatchPipeline, for any rows, batches, chunk size, faults   *)
(* and resumes.  What a completed run holds rests on the row numbers of a  *)
(* batch being distinct, and the single import on full load records.       *)
(***************************************************************************)
EXTENDS BatchPipeline, FiniteSetTheorems, TLAPS

DistinctNumbers ==
    \A q, r \in Rows : BatchOf[q] = BatchOf[r] /\ RowNumber[q] = RowNumber[r] => q = r

\* What the rows and accounts do in a step: both only gain.
Grows ==
    /\ allowErrors' = allowErrors /\ refused \subseteq refused'
    /\ arrived \subseteq arrived'

-----------------------------------------------------------------------------
(* Chunks and imports                                                       *)

LEMMA RowFacts ==
    ASSUME NEW b, NEW r \in RowsOf(b)
    PROVE  r \in Rows /\ RowNumber[r] \in Nat /\ RowNumber[r] > 0 /\ Account[r] \in Accounts
BY PipelineAssumption DEF RowsOf

\* What is sent adds to the accounts that are sent, and to no other.
LEMMA ImportAdds ==
    ASSUME NEW got \in SUBSET Rows, NEW lost \in SUBSET Rows, Import(got, lost), TypeOK
    PROVE  /\ arrived' \subseteq Accounts /\ repeated' \subseteq Accounts
           /\ dropped' \subseteq Accounts
           /\ arrived \subseteq arrived' /\ dropped \subseteq dropped'
           /\ \A r \in got : Account[r] \in arrived'
<1>1. \A rs \in SUBSET Rows : AccountsOf(rs) \subseteq Accounts
  BY PipelineAssumption DEF AccountsOf
<1>2. got \cup lost \in SUBSET Rows /\ AccountsOf(got) \subseteq AccountsOf(got \cup lost)
  BY DEF AccountsOf
<1>3. /\ arrived' = arrived \cup AccountsOf(got \cup lost)
      /\ dropped' = dropped \cup AccountsOf(lost)
      /\ repeated' \subseteq repeated \cup arrived \cup AccountsOf(lost)
  BY DEF Import
<1>4. \A r \in got : Account[r] \in AccountsOf(got)
  BY DEF AccountsOf
<1> QED
  BY <1>1, <1>2, <1>3, <1>4 DEF TypeOK

\* A chunk holds rows of the batch behind the cursor.
LEMMA ChunkRows ==
    ASSUME NEW c \in Chunks
    PROVE  c \subseteq Remaining /\ c \subseteq RowsOf(batch) /\ c \subseteq Rows
BY DEF Chunks, Remaining, RowsOf

\* If the numbers are distinct, what lies before the new cursor lay before the old one or
\* is in the chunk.
LEMMA ChunkReaches ==
    ASSUME NEW c \in Chunks, DistinctNumbers, NEW n \in Advance(c), after \in Nat,
           NEW r \in RowsOf(batch), RowNumber[r] <= n
    PROVE  RowNumber[r] <= after \/ r \in c
<1> SUFFICES ASSUME RowNumber[r] > after, r \notin c PROVE FALSE
  BY RowFacts
<1>1. r \in Remaining \ c
  BY DEF Remaining
<1>2. PICK q \in c : RowNumber[q] = n
  BY DEF Advance, Number
<1>3. q \in RowsOf(batch) /\ q \in Rows
  BY <1>2, ChunkRows
<1>4. RowNumber[q] <= RowNumber[r]
  BY <1>1, <1>2 DEF Chunks
<1>5. RowNumber[q] = RowNumber[r]
  BY <1>2, <1>3, <1>4, RowFacts
<1>6. q = r
  BY <1>3, <1>5 DEF DistinctNumbers, RowsOf
<1> QED
  BY <1>2, <1>6

LEMMA AdvanceType ==
    ASSUME NEW c \in Chunks, NEW n \in Advance(c)
    PROVE  n \in Nat /\ \A r \in c : RowNumber[r] <= n
BY ChunkRows, PipelineAssumption DEF Advance, Number

LEMMA ValidRows ==
    ASSUME NEW c, NEW bad \in SUBSET c
    PROVE  Valid(c, bad) \subseteq c /\ \A r \in c \ Valid(c, bad) : r \in bad
BY DEF Valid

-----------------------------------------------------------------------------
(* The ways a chunk ends, with the rows that were refused and accepted      *)

Loads(c, bad, lost) ==
    /\ c \in Chunks /\ bad \in SUBSET c /\ lost \in SUBSET Sendable(Valid(c, bad))
    /\ Tolerated(bad, lost) /\ Refused(bad)
    /\ faults' = IF bad \cup lost = {} THEN faults ELSE faults + 1
    /\ Import(Sendable(Valid(c, bad)), lost)
    /\ loaded' = loaded \cup Valid(c, bad)
    /\ after' \in Advance(c)
    /\ checkpoint' = [batch |-> batch, row |-> after']
LoadsPart(c, bad, ok, lost) ==
    /\ c \in Chunks /\ bad \in SUBSET c /\ ok \in SUBSET Valid(c, bad)
    /\ lost \in SUBSET Sendable(Valid(c, bad))
    /\ Refused(bad)
    /\ Import(Sendable(ok), lost)
    /\ loaded' = loaded \cup ok
Loses(c, bad, lost) ==
    /\ c \in Chunks /\ bad \in SUBSET c /\ lost \in SUBSET Sendable(Valid(c, bad))
    /\ Refused(bad) /\ Import({}, lost)

LEMMA LoadChunkOf ==
    ASSUME LoadChunk
    PROVE  \E c, bad, lost : Loads(c, bad, lost)
BY DEF LoadChunk, Loads

LEMMA RefuseLoadOf ==
    ASSUME RefuseLoad
    PROVE  \E c, bad, ok, lost : LoadsPart(c, bad, ok, lost)
BY DEF RefuseLoad, LoadsPart

LEMMA LoseResultsOf ==
    ASSUME LoseResults
    PROVE  \E c, bad, lost : Loses(c, bad, lost)
BY DEF LoseResults, Loses

-----------------------------------------------------------------------------
(* Types                                                                    *)

\* A run that executes is in one of its batches.
Typed ==
    /\ TypeOK
    /\ status = "running" => batch \in Batches

LEMMA CheckpointTyped ==
    ASSUME NEW b \in 0 .. BatchCount, NEW n \in Nat
    PROVE  [batch |-> b, row |-> n] \in CheckpointType
BY DEF CheckpointType

LEMMA EnterTyped ==
    ASSUME TypeOK, NEW b \in Batches, NEW cp \in CheckpointType, EnterBatch(b, cp),
           recorded' \subseteq Accounts
    PROVE  /\ batch' \in 0 .. BatchCount /\ batch' \in Batches
           /\ resuming' \in CheckpointType /\ after' \in Nat
           /\ known' \subseteq Accounts /\ loaded' \subseteq Rows
           /\ outcome' \in {"open", "success", "failure"}
<1>1. cp.row \in Nat /\ b \in 0 .. BatchCount
  BY PipelineAssumption DEF CheckpointType, Batches
<1> QED
  BY <1>1 DEF EnterBatch

LEMMA RecordTyped ==
    ASSUME TypeOK, Record
    PROVE  /\ recorded' \subseteq Accounts /\ dropped' \subseteq Accounts
           /\ faults' \in Nat
           /\ \E rs \in SUBSET loaded : recorded' = recorded \cup AccountsOf(rs)
<1>1. \A rs \in SUBSET loaded : AccountsOf(rs) \subseteq Accounts
  BY PipelineAssumption DEF TypeOK, AccountsOf
<1>2. \E rs \in SUBSET loaded : recorded' = recorded \cup AccountsOf(rs)
  BY DEF Record, Recorded
<1>3. dropped' \subseteq Accounts /\ faults' \in Nat
  BY <1>1 DEF Record, TypeOK
<1> QED
  BY <1>1, <1>2, <1>3 DEF TypeOK

LEMMA ChunkFailedTyped ==
    ASSUME Typed, status = "running", ChunkFailed
    PROVE  /\ allowErrors' = allowErrors /\ status' = status /\ batch' = batch
           /\ checkpoint' \in CheckpointType /\ resumeFrom' = resumeFrom
           /\ resuming' = resuming /\ after' = after /\ known' = known
           /\ outcome' = "failure" /\ recorded' = recorded /\ resumes' = resumes
           /\ faults' \in Nat
<1>1. checkpoint' \in CheckpointType
  BY CheckpointTyped DEF ChunkFailed, Typed, TypeOK
<1> QED
  BY <1>1 DEF ChunkFailed, Typed, TypeOK

\* What is sent keeps the types and only adds.
Arrivals ==
    /\ arrived' \subseteq Accounts /\ repeated' \subseteq Accounts /\ dropped' \subseteq Accounts
    /\ arrived \subseteq arrived'

LEMMA TypeStep == Typed /\ [Next]_pvars => Typed' /\ Grows
<1> SUFFICES ASSUME Typed, [Next]_pvars PROVE Typed' /\ Grows
  OBVIOUS
<1> USE DEF Typed
<1>0. TypeOK
  BY DEF TypeOK
<1>1. CASE Start
  <2>1. 1 \in Batches /\ recorded' \subseteq Accounts
    BY <1>1, PipelineAssumption DEF Start, outside, Batches, TypeOK
  <2>2. EnterBatch(1, resumeFrom) /\ resumeFrom \in CheckpointType
    BY <1>1 DEF Start, TypeOK
  <2> QED
    BY <1>0, <1>1, <2>1, <2>2, EnterTyped DEF Start, TypeOK, outside, atTarget, Grows
<1>2. CASE LoadChunk
  <2>2. PICK c, bad, lost : Loads(c, bad, lost)
    BY <1>2, LoadChunkOf
  <2>3. bad \subseteq Rows /\ Valid(c, bad) \subseteq Rows
    BY <2>2, ChunkRows, ValidRows DEF Loads
  <2>4. Arrivals
    <3>1. Sendable(Valid(c, bad)) \subseteq Rows /\ lost \subseteq Rows
      BY <2>2, <2>3 DEF Loads, Sendable
    <3> QED
      BY <2>2, <3>1, ImportAdds DEF Loads, Arrivals
  <2>5. after' \in Nat
    BY <2>2, AdvanceType DEF Loads
  <2>6. checkpoint' \in CheckpointType
    BY <2>2, <2>5, CheckpointTyped DEF TypeOK, Loads
  <2> QED
    BY <1>2, <2>2, <2>3, <2>4, <2>5, <2>6 DEF LoadChunk, Loads, TypeOK, Refused, Grows, Arrivals
<1>3. CASE RefuseChunk
  <2>1. PICK c \in Chunks : \E bad \in SUBSET c : Refused(bad)
    BY <1>3 DEF RefuseChunk
  <2>2. PICK bad \in SUBSET c : Refused(bad)
    BY <2>1
  <2>3. bad \subseteq Rows /\ ChunkFailed
    BY <1>3, ChunkRows DEF RefuseChunk
  <2> QED
    BY <1>0, <1>3, <2>2, <2>3, ChunkFailedTyped DEF RefuseChunk, InBatch, TypeOK, Refused, Grows, atTarget
<1>4. CASE RefuseLoad
  <2>3. PICK c, bad, ok, lost : LoadsPart(c, bad, ok, lost)
    BY <1>4, RefuseLoadOf
  <2>4. bad \subseteq Rows /\ Valid(c, bad) \subseteq Rows /\ ok \subseteq Rows /\ ChunkFailed
    BY <1>4, <2>3, ChunkRows, ValidRows DEF RefuseLoad, LoadsPart
  <2>5. Arrivals
    <3>1. Sendable(ok) \subseteq Rows /\ lost \subseteq Rows
      BY <2>3, <2>4 DEF LoadsPart, Sendable
    <3> QED
      BY <2>3, <3>1, ImportAdds DEF LoadsPart, Arrivals
  <2> QED
    BY <1>4, <2>3, <2>4, <2>5, ChunkFailedTyped
       DEF RefuseLoad, LoadsPart, InBatch, TypeOK, Refused, Grows, Arrivals
<1>5. CASE LoseResults
  <2>3. PICK c, bad, lost : Loses(c, bad, lost)
    BY <1>5, LoseResultsOf
  <2>4. bad \subseteq Rows /\ Valid(c, bad) \subseteq Rows /\ ChunkFailed
    BY <1>5, <2>3, ChunkRows, ValidRows DEF LoseResults, Loses
  <2>5. Arrivals
    <3>1. lost \subseteq Rows
      BY <2>3, <2>4 DEF Loses, Sendable
    <3> QED
      BY <2>3, <3>1, ImportAdds DEF Loses, Arrivals
  <2> QED
    BY <1>5, <2>3, <2>4, <2>5, ChunkFailedTyped
       DEF LoseResults, Loses, InBatch, TypeOK, Refused, Grows, Arrivals
<1>6. CASE DrainBatch
  BY <1>0, <1>6 DEF DrainBatch, InBatch, TypeOK, outside, atTarget, Grows
<1>7. CASE NextBatch
  <2>1. batch + 1 \in Batches /\ NoCheckpoint \in CheckpointType
    BY <1>7, PipelineAssumption
       DEF NextBatch, BatchDone, Batches, CheckpointType, NoCheckpoint, TypeOK
  <2>2. recorded' \subseteq Accounts /\ dropped' \subseteq Accounts /\ faults' \in Nat
    BY <1>7, RecordTyped DEF NextBatch
  <2>3. EnterBatch(batch + 1, NoCheckpoint)
    BY <1>7 DEF NextBatch
  <2>4. checkpoint' \in CheckpointType
    BY <1>7, CheckpointTyped DEF NextBatch, Checkpoint, TypeOK
  <2> HIDE DEF Typed
  <2>5. /\ batch' \in 0 .. BatchCount /\ batch' \in Batches
        /\ resuming' \in CheckpointType /\ after' \in Nat
        /\ known' \subseteq Accounts /\ loaded' \subseteq Rows
        /\ outcome' \in {"open", "success", "failure"}
    BY <1>0, <2>1, <2>2, <2>3, EnterTyped
  <2> QED
    BY <1>0, <1>7, <2>2, <2>4, <2>5 DEF NextBatch, BatchDone, TypeOK, Typed, Grows
<1>8. CASE CompleteRun
  <2>1. recorded' \subseteq Accounts /\ dropped' \subseteq Accounts /\ faults' \in Nat
    BY <1>8, RecordTyped DEF CompleteRun
  <2>2. checkpoint' \in CheckpointType
    BY <1>8, CheckpointTyped DEF CompleteRun, Checkpoint, TypeOK
  <2> QED
    BY <1>0, <1>8, <2>1, <2>2 DEF CompleteRun, BatchDone, TypeOK, local, Grows
<1>9. CASE FailRun
  <2>1. recorded' \subseteq Accounts /\ dropped' \subseteq Accounts /\ faults' \in Nat
    BY <1>9, RecordTyped DEF FailRun
  <2> QED
    BY <1>0, <1>9, <2>1 DEF FailRun, TypeOK, local, Grows
<1>10. CASE Resume
  BY <1>0, <1>10 DEF Resume, TypeOK, local, outside, atTarget, Grows
<1>11. CASE UNCHANGED pvars
  BY <1>0, <1>11 DEF pvars, TypeOK, local, outside, atTarget, Grows
<1> QED
  BY <1>1, <1>2, <1>3, <1>4, <1>5, <1>6, <1>7, <1>8, <1>9, <1>10, <1>11 DEF Next, Execute

LEMMA TypeInit == Init => Typed
BY PipelineAssumption DEF Init, Typed, TypeOK, NoCheckpoint, CheckpointType

LEMMA AlwaysTyped == Spec => []Typed
<1>1. Typed /\ [Next]_pvars => Typed'
  BY TypeStep
<1> QED
  BY <1>1, TypeInit, PTL DEF Spec

\* Every variable keeps its type, whatever fails and however often the run is resumed.
THEOREM PipelineTypes == Spec => []TypeOK
<1>1. Typed => TypeOK
  BY DEF Typed
<1> QED
  BY <1>1, AlwaysTyped, PTL

-----------------------------------------------------------------------------
(* Load records tell the truth                                              *)

RecordsTrue ==
    /\ RecordedHasArrived
    /\ known \subseteq recorded
    /\ \A r \in loaded : Arrived(r)

\* What arrived stays.
LEMMA ArrivedStays ==
    ASSUME Typed, Typed', Grows
    PROVE  \A r \in Rows : Arrived(r) => Arrived(r)'
BY DEF Arrived, Grows

\* A row that is not sent because it was loaded before has arrived before.
LEMMA SentOrSkipped ==
    ASSUME Typed, Typed', Grows, RecordsTrue, NEW rs \in SUBSET Rows,
           NEW lost \in SUBSET Rows, Import(Sendable(rs), lost)
    PROVE  \A r \in rs : Arrived(r)'
<1> SUFFICES ASSUME NEW r \in rs PROVE Arrived(r)'
  OBVIOUS
<1>1. r \in Rows /\ Sendable(rs) \subseteq Rows
  BY DEF Sendable
<1>2. CASE Account[r] \in known
  <2>1. Arrived(r)
    BY <1>2 DEF RecordsTrue, RecordedHasArrived, Arrived
  <2> QED
    BY <1>1, <2>1, ArrivedStays
<1>3. CASE Account[r] \notin known
  <2>1. r \in Sendable(rs)
    BY <1>3 DEF Sendable
  <2> QED
    BY <1>1, <2>1, ImportAdds DEF Typed, Arrived
<1> QED
  BY <1>2, <1>3

\* Records are made of rows that were loaded.
LEMMA RecordIsTrue ==
    ASSUME Typed, RecordsTrue, Record, arrived' = arrived
    PROVE  RecordedHasArrived' /\ recorded \subseteq recorded'
<1>1. PICK rs \in SUBSET loaded : recorded' = recorded \cup AccountsOf(rs)
  BY RecordTyped DEF Typed
<1>2. AccountsOf(rs) \subseteq arrived
  BY <1>1 DEF AccountsOf, RecordsTrue, Arrived
<1> QED
  BY <1>1, <1>2 DEF RecordsTrue, RecordedHasArrived

LEMMA EnteredTrue ==
    ASSUME NEW b, NEW cp, EnterBatch(b, cp)
    PROVE  known' = recorded' /\ loaded' = {} /\ batch' = b /\ outcome' = "open"
BY DEF EnterBatch

LEMMA RecordsStep ==
    ASSUME Typed, [Next]_pvars, RecordsTrue
    PROVE  RecordsTrue'
<1>0. Typed' /\ Grows /\ loaded \subseteq Rows /\ recorded \subseteq Accounts
  BY TypeStep DEF Typed, TypeOK
<1>1. (recorded' = recorded => RecordedHasArrived') /\ \A r \in loaded : Arrived(r)'
  BY <1>0, ArrivedStays DEF RecordsTrue, RecordedHasArrived, Grows
<1>2. CASE Start
  <2>1. EnterBatch(1, resumeFrom) /\ recorded' = recorded
    BY <1>2 DEF Start, outside
  <2> QED
    BY <1>1, <2>1, EnteredTrue DEF RecordsTrue
<1>3. CASE LoadChunk
  <2>2. PICK c, bad, lost : Loads(c, bad, lost)
    BY <1>3, LoadChunkOf
  <2>3. \A r \in Valid(c, bad) : Arrived(r)'
    <3>1. /\ Valid(c, bad) \in SUBSET Rows /\ lost \in SUBSET Rows
          /\ Import(Sendable(Valid(c, bad)), lost)
      BY <2>2, ValidRows, ChunkRows DEF Loads, Sendable
    <3> QED
      BY <3>1, <1>0, SentOrSkipped
  <2>4. known' = known /\ recorded' = recorded /\ loaded' = loaded \cup Valid(c, bad)
    BY <1>3, <2>2 DEF LoadChunk, Loads
  <2> QED
    BY <1>1, <2>3, <2>4 DEF RecordsTrue
<1>4. CASE RefuseChunk
  BY <1>1, <1>4 DEF RefuseChunk, ChunkFailed, RecordsTrue
<1>5. CASE RefuseLoad
  <2>3. PICK c, bad, ok, lost : LoadsPart(c, bad, ok, lost)
    BY <1>5, RefuseLoadOf
  <2>4. \A r \in ok : Arrived(r)'
    <3>1. ok \in SUBSET Rows /\ lost \in SUBSET Rows /\ Import(Sendable(ok), lost)
      BY <2>3, ValidRows, ChunkRows DEF LoadsPart, Sendable
    <3> QED
      BY <3>1, <1>0, SentOrSkipped
  <2>5. known' = known /\ recorded' = recorded /\ loaded' = loaded \cup ok
    BY <1>5, <2>3 DEF RefuseLoad, LoadsPart, ChunkFailed
  <2> QED
    BY <1>1, <2>4, <2>5 DEF RecordsTrue
<1>6. CASE LoseResults
  BY <1>1, <1>6 DEF LoseResults, ChunkFailed, RecordsTrue
<1>7. CASE DrainBatch
  BY <1>1, <1>7 DEF DrainBatch, outside, RecordsTrue
<1>8. CASE NextBatch
  <2>1. EnterBatch(batch + 1, NoCheckpoint) /\ Record /\ arrived' = arrived
    BY <1>8 DEF NextBatch
  <2> QED
    BY <2>1, RecordIsTrue, EnteredTrue DEF RecordsTrue
<1>9. CASE CompleteRun
  <2>1. Record /\ arrived' = arrived /\ known' = known /\ loaded' = loaded
    BY <1>9 DEF CompleteRun, local
  <2> QED
    BY <1>1, <2>1, RecordIsTrue DEF RecordsTrue
<1>10. CASE FailRun
  <2>1. Record /\ arrived' = arrived /\ known' = known /\ loaded' = loaded
    BY <1>10 DEF FailRun, local
  <2> QED
    BY <1>1, <2>1, RecordIsTrue DEF RecordsTrue
<1>11. CASE Resume
  BY <1>1, <1>11 DEF Resume, local, outside, atTarget, RecordsTrue
<1>12. CASE UNCHANGED pvars
  BY <1>1, <1>12 DEF pvars, local, outside, atTarget, RecordsTrue
<1> QED
  BY <1>2, <1>3, <1>4, <1>5, <1>6, <1>7, <1>8, <1>9, <1>10, <1>11, <1>12 DEF Next, Execute

LEMMA AlwaysTrue == Spec => [](Typed /\ RecordsTrue)
<1>1. Init => Typed /\ RecordsTrue
  BY TypeInit DEF Init, RecordsTrue, RecordedHasArrived
<1>2. Typed /\ RecordsTrue /\ [Next]_pvars => Typed' /\ RecordsTrue'
  BY TypeStep, RecordsStep
<1> QED
  BY <1>1, <1>2, PTL DEF Spec

\* An account with a load record of status loaded is at the destination, in full and in
\* summary mode, whatever failed and whatever results were lost.
THEOREM RecordsHaveArrived == Spec => []RecordedHasArrived
<1>1. Typed /\ RecordsTrue => RecordedHasArrived
  BY DEF RecordsTrue
<1> QED
  BY <1>1, AlwaysTrue, PTL

-----------------------------------------------------------------------------
(* The cursor and the checkpoint                                            *)

Settled(r) == Arrived(r) \/ (allowErrors /\ r \in refused)

\* Every row of batch b up to number n is settled.
Covered(b, n) == \A r \in RowsOf(b) : RowNumber[r] <= n => Settled(r)

CursorTrue ==
    /\ Covered(checkpoint.batch, checkpoint.row)
    /\ Covered(resumeFrom.batch, resumeFrom.row)
    /\ status = "running" =>
          /\ Covered(batch, after)
          /\ \A r \in Rows : BatchOf[r] < batch => Settled(r)
          /\ outcome = "success" => \A r \in RowsOf(batch) : Settled(r)
    /\ status = "completed" => \A r \in Rows : Settled(r)

LEMMA SettledStays ==
    ASSUME Typed, Typed', Grows
    PROVE  /\ \A r \in Rows : Settled(r) => Settled(r)'
           /\ \A b, n : Covered(b, n) => Covered(b, n)'
<1>1. \A r \in Rows : Settled(r) => Settled(r)'
  BY ArrivedStays DEF Settled, Grows
<1> QED
  BY <1>1 DEF Covered, RowsOf

\* The cursor 0 is before every row.
LEMMA NothingBefore == \A b : Covered(b, 0)
BY RowFacts DEF Covered

LEMMA CheckpointFields ==
    ASSUME NEW b, NEW n
    PROVE  [batch |-> b, row |-> n].batch = b /\ [batch |-> b, row |-> n].row = n
OBVIOUS

\* A batch is entered at a cursor that covers.
LEMMA EnteredCovered ==
    ASSUME NEW b, NEW cp, EnterBatch(b, cp),
           \A r \in RowsOf(cp.batch) : RowNumber[r] <= cp.row => Settled(r)'
    PROVE  /\ batch' = b /\ outcome' = "open"
           /\ \A r \in RowsOf(b) : RowNumber[r] <= after' => Settled(r)'
<1>1. CASE cp.batch = b
  BY <1>1 DEF EnterBatch
<1>2. CASE cp.batch # b
  BY <1>2, RowFacts DEF EnterBatch
<1> QED
  BY <1>1, <1>2

\* A chunk that is loaded is settled whole: rows that were refused are tolerated.
LEMMA LoadedCovers ==
    ASSUME Typed, Typed', Grows, RecordsTrue, DistinctNumbers, Covered(batch, after),
           NEW c, NEW bad, NEW lost, Loads(c, bad, lost), batch' = batch
    PROVE  Covered(batch, after)'
<1> SUFFICES ASSUME NEW r \in RowsOf(batch), RowNumber[r] <= after' PROVE Settled(r)'
  BY DEF Covered, RowsOf
<1>1. r \in Rows
  BY DEF RowsOf
<1>2. RowNumber[r] <= after \/ r \in c
  BY ChunkReaches DEF Typed, TypeOK, Loads
<1>3. CASE RowNumber[r] <= after
  BY <1>1, <1>3, SettledStays DEF Covered
<1>4. CASE r \in Valid(c, bad)
  <2>1. /\ Valid(c, bad) \in SUBSET Rows /\ lost \in SUBSET Rows
        /\ Import(Sendable(Valid(c, bad)), lost)
    BY ValidRows, ChunkRows DEF Loads, Sendable
  <2> QED
    BY <1>4, <2>1, SentOrSkipped DEF Settled
<1>5. CASE r \in c \ Valid(c, bad)
  <2>1. r \in bad
    BY <1>5, ValidRows DEF Loads
  <2>2. allowErrors /\ refused' = refused \cup bad
    BY <2>1 DEF Loads, Tolerated, Refused
  <2> QED
    BY <2>1, <2>2 DEF Settled, Grows
<1> QED
  BY <1>2, <1>3, <1>4, <1>5

\* When the page is empty nothing remains behind the cursor.
LEMMA DrainedCovers ==
    ASSUME Typed, Chunks = {{}}, Covered(batch, after)
    PROVE  \A r \in RowsOf(batch) : Settled(r)
<1>1. {} \in Chunks /\ Cardinality({}) = 0
  BY FS_EmptySet
<1>2. Remaining = {}
  BY <1>1, PipelineAssumption DEF Chunks
<1>3. \A r \in RowsOf(batch) : RowNumber[r] <= after
  BY <1>2, RowFacts DEF Remaining, Typed, TypeOK
<1> QED
  BY <1>3 DEF Covered

\* A step that leaves the cursor and the batch alone, and at most fails it.
Still ==
    /\ batch' = batch /\ after' = after
    /\ outcome' \in {outcome, "failure"}

LEMMA CursorStill ==
    ASSUME Typed, Typed', Grows, CursorTrue, Still, status' = status
    PROVE  /\ status' = "running" =>
                 /\ Covered(batch, after)'
                 /\ (\A r \in Rows : BatchOf[r] < batch => Settled(r))'
                 /\ outcome' = "success" => (\A r \in RowsOf(batch) : Settled(r))'
           /\ status' = "completed" => (\A r \in Rows : Settled(r))'
BY SettledStays DEF CursorTrue, Still, Covered, RowsOf

LEMMA FailedCovers ==
    ASSUME Typed, Typed', Grows, CursorTrue, ChunkFailed, status = "running"
    PROVE  CursorTrue'
<1>1. Still /\ status' = status /\ resumeFrom' = resumeFrom
  BY DEF ChunkFailed, Still
<1>2. checkpoint'.batch = batch /\ checkpoint'.row = after
  BY DEF ChunkFailed
<1>3. Covered(checkpoint.batch, checkpoint.row)'
  BY <1>2, SettledStays DEF CursorTrue, Covered, RowsOf
<1>4. Covered(resumeFrom.batch, resumeFrom.row)'
  BY <1>1, SettledStays DEF CursorTrue, Covered, RowsOf
<1> QED
  BY <1>1, <1>3, <1>4, CursorStill DEF CursorTrue

\* The ends of a batch whose rows are settled.
LEMMA CheckpointBehind ==
    ASSUME Typed, Typed', Grows, CursorTrue, BatchDone, Checkpoint
    PROVE  /\ Covered(checkpoint.batch, checkpoint.row)'
           /\ \A r \in Rows : BatchOf[r] <= batch => Settled(r)'
<1>1. checkpoint'.batch = batch /\ checkpoint'.row = after
  BY DEF Checkpoint
<1>2. Covered(checkpoint.batch, checkpoint.row)'
  BY <1>1, SettledStays DEF CursorTrue, BatchDone, Covered, RowsOf
<1>3. ASSUME NEW r \in Rows, BatchOf[r] <= batch PROVE Settled(r)'
  <2>1. BatchOf[r] < batch \/ r \in RowsOf(batch)
    BY <1>3, PipelineAssumption DEF RowsOf, Batches, Typed, TypeOK
  <2> QED
    BY <2>1, SettledStays DEF CursorTrue, BatchDone
<1> QED
  BY <1>2, <1>3

LEMMA CursorStep ==
    ASSUME Typed, [Next]_pvars, RecordsTrue, CursorTrue, DistinctNumbers
    PROVE  CursorTrue'
<1>0. Typed' /\ Grows
  BY TypeStep
<1>1. checkpoint' = checkpoint => Covered(checkpoint.batch, checkpoint.row)'
  BY <1>0, SettledStays DEF CursorTrue, Covered, RowsOf
<1>2. resumeFrom' = resumeFrom => Covered(resumeFrom.batch, resumeFrom.row)'
  BY <1>0, SettledStays DEF CursorTrue, Covered, RowsOf
<1>3. CASE Start
  <2>1. EnterBatch(1, resumeFrom) /\ status' = "running"
        /\ checkpoint' = checkpoint /\ resumeFrom' = resumeFrom
    BY <1>3 DEF Start
  <2>2. \A r \in RowsOf(resumeFrom.batch) : RowNumber[r] <= resumeFrom.row => Settled(r)'
    BY <1>0, SettledStays DEF CursorTrue, Covered, RowsOf
  <2>3. batch' = 1 /\ outcome' = "open" /\ \A r \in RowsOf(1) : RowNumber[r] <= after' => Settled(r)'
    BY <2>1, <2>2, EnteredCovered
  <2>4. Covered(batch, after)'
    BY <2>3 DEF Covered, RowsOf
  <2>5. \A r \in Rows : ~(BatchOf[r] < 1)
    BY PipelineAssumption DEF Batches
  <2> QED
    BY <1>1, <1>2, <2>1, <2>3, <2>4, <2>5 DEF CursorTrue
<1>4. CASE LoadChunk
  <2>2. PICK c, bad, lost : Loads(c, bad, lost)
    BY <1>4, LoadChunkOf
  <2>3. status = "running" /\ status' = "running" /\ outcome' = "open"
        /\ batch' = batch /\ resumeFrom' = resumeFrom
    BY <1>4 DEF LoadChunk, InBatch
  <2>4. Covered(batch, after)'
    BY <1>0, <2>2, <2>3, LoadedCovers DEF CursorTrue
  <2>5. checkpoint'.batch = batch' /\ checkpoint'.row = after'
    BY <2>2, <2>3 DEF Loads
  <2>6. Covered(checkpoint.batch, checkpoint.row)'
    BY <2>4, <2>5 DEF Covered, RowsOf
  <2>7. \A r \in Rows : BatchOf[r] < batch' => Settled(r)'
    BY <1>0, <2>3, SettledStays DEF CursorTrue
  <2> QED
    BY <1>2, <2>3, <2>4, <2>6, <2>7 DEF CursorTrue
<1>5. CASE RefuseChunk \/ RefuseLoad \/ LoseResults
  <2>1. ChunkFailed /\ status = "running"
    BY <1>5 DEF RefuseChunk, RefuseLoad, LoseResults, InBatch
  <2> QED
    BY <1>0, <2>1, FailedCovers
<1>6. CASE DrainBatch
  <2>1. status = "running" /\ status' = status /\ batch' = batch /\ after' = after
        /\ checkpoint' = checkpoint /\ resumeFrom' = resumeFrom /\ Chunks = {{}}
    BY <1>6 DEF DrainBatch, InBatch
  <2>2. \A r \in RowsOf(batch) : Settled(r)
    BY <2>1, DrainedCovers DEF CursorTrue
  <2>3. Covered(batch, after)' /\ \A r \in RowsOf(batch') : Settled(r)'
    BY <1>0, <2>1, <2>2, SettledStays DEF CursorTrue, Covered, RowsOf
  <2>4. \A r \in Rows : BatchOf[r] < batch' => Settled(r)'
    BY <1>0, <2>1, SettledStays DEF CursorTrue
  <2> QED
    BY <1>1, <1>2, <2>1, <2>3, <2>4 DEF CursorTrue, RowsOf
<1>7. CASE NextBatch
  <2>1. BatchDone /\ Checkpoint /\ EnterBatch(batch + 1, NoCheckpoint)
        /\ status' = status /\ resumeFrom' = resumeFrom
    BY <1>7 DEF NextBatch
  <2>2. /\ Covered(checkpoint.batch, checkpoint.row)'
        /\ \A r \in Rows : BatchOf[r] <= batch => Settled(r)'
    BY <1>0, <2>1, CheckpointBehind
  <2>3. \A r \in RowsOf(NoCheckpoint.batch) : RowNumber[r] <= NoCheckpoint.row => Settled(r)'
    BY RowFacts DEF NoCheckpoint
  <2>4. batch' = batch + 1 /\ outcome' = "open"
        /\ \A r \in RowsOf(batch + 1) : RowNumber[r] <= after' => Settled(r)'
    BY <2>1, <2>3, EnteredCovered
  <2>5. Covered(batch, after)'
    BY <2>4 DEF Covered, RowsOf
  <2>6. \A r \in Rows : BatchOf[r] < batch' => Settled(r)'
    BY <2>2, <2>4, PipelineAssumption DEF Batches, Typed, TypeOK
  <2> QED
    BY <1>2, <2>1, <2>2, <2>4, <2>5, <2>6 DEF CursorTrue, BatchDone
<1>8. CASE CompleteRun
  <2>1. BatchDone /\ Checkpoint /\ batch = BatchCount /\ status' = "completed"
        /\ resumeFrom' = resumeFrom
    BY <1>8 DEF CompleteRun
  <2>2. /\ Covered(checkpoint.batch, checkpoint.row)'
        /\ \A r \in Rows : BatchOf[r] <= batch => Settled(r)'
    BY <1>0, <2>1, CheckpointBehind
  <2>3. \A r \in Rows : BatchOf[r] <= batch
    BY <2>1, PipelineAssumption DEF Batches
  <2> QED
    BY <1>2, <2>1, <2>2, <2>3 DEF CursorTrue
<1>9. CASE FailRun
  <2>1. checkpoint' = checkpoint /\ resumeFrom' = resumeFrom /\ status' = "failed"
    BY <1>9 DEF FailRun
  <2> QED
    BY <1>1, <1>2, <2>1 DEF CursorTrue
<1>10. CASE Resume
  <2>1. checkpoint' = checkpoint /\ resumeFrom' = checkpoint /\ status' = "queued"
    BY <1>10 DEF Resume
  <2>2. Covered(resumeFrom.batch, resumeFrom.row)'
    BY <1>1, <2>1 DEF Covered, RowsOf
  <2> QED
    BY <1>1, <2>1, <2>2 DEF CursorTrue
<1>11. CASE UNCHANGED pvars
  <2>1. checkpoint' = checkpoint /\ resumeFrom' = resumeFrom /\ status' = status /\ Still
    BY <1>11 DEF pvars, local, Still
  <2> QED
    BY <1>0, <1>1, <1>2, <2>1, CursorStill DEF CursorTrue
<1> QED
  BY <1>3, <1>4, <1>5, <1>6, <1>7, <1>8, <1>9, <1>10, <1>11 DEF Next, Execute

LEMMA CursorInit == Init => CursorTrue
BY NothingBefore DEF Init, CursorTrue, NoCheckpoint

LEMMA AlwaysCovered ==
    ASSUME DistinctNumbers
    PROVE  Spec => [](Typed /\ RecordsTrue /\ CursorTrue)
<1>1. Init => Typed /\ RecordsTrue /\ CursorTrue
  BY TypeInit, CursorInit DEF Init, RecordsTrue, RecordedHasArrived
<1>2. Typed /\ RecordsTrue /\ CursorTrue /\ [Next]_pvars => (Typed /\ RecordsTrue /\ CursorTrue)'
  BY TypeStep, RecordsStep, CursorStep
<1> QED
  BY <1>1, <1>2, PTL DEF Spec

\* Resuming from the checkpoint skips no row that has neither arrived nor been refused.
THEOREM CheckpointIsCovered ==
    ASSUME DistinctNumbers
    PROVE  Spec => []CheckpointCovered
<1>1. CursorTrue => CheckpointCovered
  BY DEF CursorTrue, CheckpointCovered, Covered, Settled
<1> QED
  BY <1>1, AlwaysCovered, PTL

\* A completed run has lost no account: each row arrived, or was refused where the run
\* allows it, over any number of failures and resumes.
THEOREM NothingIsLost ==
    ASSUME DistinctNumbers
    PROVE  Spec => []CompletedLosesNothing
<1>1. CursorTrue => CompletedLosesNothing
  BY DEF CursorTrue, CompletedLosesNothing, Settled
<1> QED
  BY <1>1, AlwaysCovered, PTL

-----------------------------------------------------------------------------
(* Idempotent loads                                                         *)

FullRecords == AuditMode = "full"

\* Who has arrived is known by a record, is among the results at hand, or was lost.
ImportsKnown ==
    /\ ImportedOnce
    /\ \A a \in arrived :
          \/ a \in recorded \cup dropped
          \/ status = "running" /\ a \in AccountsOf(loaded)
    /\ status = "running" =>
          /\ known = recorded /\ loaded \subseteq RowsOf(batch)
          /\ outcome = "open" => \A r \in loaded : RowNumber[r] <= after

\* What is sent of a chunk has not arrived yet, unless an answer was lost: the batch has
\* one row of the account, and that is still ahead of the cursor.
LEMMA SentIsNew ==
    ASSUME Typed, ImportsKnown, InBatch, NEW c \in Chunks, NEW a \in arrived,
           a \in AccountsOf(Sendable(c))
    PROVE  a \in dropped
<1>1. PICK r \in c : Account[r] \notin known /\ Account[r] = a
  BY DEF AccountsOf, Sendable
<1>2. a \notin recorded
  BY <1>1 DEF ImportsKnown, InBatch
<1>3. r \in RowsOf(batch) /\ RowNumber[r] > after
  BY ChunkRows DEF Remaining
<1>4. a \notin AccountsOf(loaded)
  <2> SUFFICES ASSUME NEW q \in loaded, Account[q] = a PROVE FALSE
    BY DEF AccountsOf
  <2>1. q \in RowsOf(batch) /\ RowNumber[q] <= after
    BY DEF ImportsKnown, InBatch
  <2>2. q = r
    BY <1>1, <1>3, <2>1, SelectionAssumption DEF RowsOf
  <2> QED
    BY <1>3, <2>1, <2>2, RowFacts DEF Typed, TypeOK
<1> QED
  BY <1>2, <1>4 DEF ImportsKnown

\* An import leaves every account that was imported more than once among the lost.
LEMMA ImportKeepsOnce ==
    ASSUME Typed, ImportsKnown, InBatch, NEW c \in Chunks,
           NEW got \in SUBSET Sendable(c), NEW lost \in SUBSET Sendable(c), Import(got, lost)
    PROVE  /\ ImportedOnce' /\ dropped \subseteq dropped'
           /\ \A a \in arrived' : a \in arrived \/ a \in AccountsOf(got) \/ a \in dropped'
<1>1. AccountsOf(got \cup lost) \subseteq AccountsOf(Sendable(c))
  BY DEF AccountsOf
<1>2. arrived \cap AccountsOf(got \cup lost) \subseteq dropped
  BY <1>1, SentIsNew
<1>3. AccountsOf(got \cup lost) = AccountsOf(got) \cup AccountsOf(lost)
  BY DEF AccountsOf
<1> QED
  BY <1>2, <1>3 DEF Import, ImportedOnce, ImportsKnown

\* In full mode the results at hand become records, or are lost.
LEMMA RecordKeeps ==
    ASSUME ImportsKnown, FullRecords, Record, UNCHANGED <<arrived, repeated>>
    PROVE  ImportedOnce' /\ arrived' \subseteq (recorded \cup dropped)'
BY DEF ImportsKnown, ImportedOnce, FullRecords, Record, Recorded

LEMMA ImportsStep ==
    ASSUME Typed, [Next]_pvars, ImportsKnown, FullRecords
    PROVE  ImportsKnown'
<1>0. Typed'
  BY TypeStep
<1>1. CASE Start
  <2>1. EnterBatch(1, resumeFrom) /\ status = "queued" /\ UNCHANGED outside
    BY <1>1 DEF Start
  <2> QED
    BY <2>1, EnteredTrue DEF ImportsKnown, ImportedOnce, outside, atTarget
<1>2. CASE LoadChunk
  <2>2. PICK c, bad, lost : Loads(c, bad, lost)
    BY <1>2, LoadChunkOf
  <2> DEFINE rs == Sendable(Valid(c, bad))
  <2>3. InBatch /\ status' = status /\ outcome' = outcome /\ known' = known
        /\ recorded' = recorded /\ batch' = batch /\ c \in Chunks
    BY <1>2, <2>2 DEF LoadChunk, Loads
  <2>4. rs \subseteq Sendable(c) /\ lost \subseteq Sendable(c) /\ Valid(c, bad) \subseteq c
    BY <2>2, ValidRows DEF Loads, Sendable
  <2>5. Import(rs, lost) /\ loaded' = loaded \cup Valid(c, bad)
    BY <2>2 DEF Loads
  <2> HIDE DEF rs
  <2>6. /\ ImportedOnce' /\ dropped \subseteq dropped'
        /\ \A a \in arrived' : a \in arrived \/ a \in AccountsOf(rs) \/ a \in dropped'
    BY <2>3, <2>4, <2>5, ImportKeepsOnce
  <2>7. AccountsOf(rs) \subseteq AccountsOf(loaded') /\ AccountsOf(loaded) \subseteq AccountsOf(loaded')
    BY <2>5 DEF rs, AccountsOf, Sendable
  <2>8. loaded' \subseteq RowsOf(batch')
    BY <2>3, <2>4, <2>5, ChunkRows DEF ImportsKnown, InBatch
  <2>9. \A r \in loaded' : RowNumber[r] <= after'
    <3>1. after' \in Nat /\ \A r \in c : RowNumber[r] <= after'
      BY <2>2, AdvanceType DEF Loads
    <3>2. after' >= after
      <4>1. PICK q \in c : RowNumber[q] = after'
        BY <2>2 DEF Loads, Advance, Number
      <4> QED
        BY <2>3, <4>1, ChunkRows, RowFacts DEF Remaining, Typed, TypeOK
    <3>3. \A r \in loaded : RowNumber[r] <= after
      BY <2>3 DEF ImportsKnown, InBatch
    <3>4. \A r \in loaded : RowNumber[r] \in Nat
      BY PipelineAssumption DEF Typed, TypeOK
    <3> QED
      BY <2>4, <2>5, <3>1, <3>2, <3>3, <3>4 DEF Typed, TypeOK
  <2>10. \A a \in arrived' : a \in recorded \cup dropped' \/ a \in AccountsOf(loaded')
    BY <2>6, <2>7 DEF ImportsKnown
  <2>11. status = "running" /\ outcome = "open" /\ known = recorded
    BY <2>3 DEF InBatch, ImportsKnown
  <2>12. AccountsOf(loaded)' = AccountsOf(loaded') /\ RowsOf(batch)' = RowsOf(batch')
    BY DEF AccountsOf, RowsOf
  <2> QED
    BY <2>3, <2>6, <2>8, <2>9, <2>10, <2>11, <2>12 DEF ImportsKnown
<1>3. CASE RefuseChunk
  BY <1>3 DEF RefuseChunk, ChunkFailed, InBatch, atTarget, ImportsKnown, ImportedOnce, AccountsOf, RowsOf
<1>4. CASE RefuseLoad
  <2>3. PICK c, bad, ok, lost : LoadsPart(c, bad, ok, lost)
    BY <1>4, RefuseLoadOf
  <2> DEFINE rs == Sendable(ok)
  <2>4. InBatch /\ status' = status /\ outcome' = "failure" /\ known' = known
        /\ recorded' = recorded /\ batch' = batch /\ c \in Chunks
    BY <1>4, <2>3 DEF RefuseLoad, ChunkFailed, LoadsPart
  <2>5. rs \subseteq Sendable(c) /\ lost \subseteq Sendable(c) /\ ok \subseteq c
    BY <2>3, ValidRows DEF LoadsPart, Sendable
  <2>6. Import(rs, lost) /\ loaded' = loaded \cup ok
    BY <2>3 DEF LoadsPart
  <2> HIDE DEF rs
  <2>7. /\ ImportedOnce' /\ dropped \subseteq dropped'
        /\ \A a \in arrived' : a \in arrived \/ a \in AccountsOf(rs) \/ a \in dropped'
    BY <2>4, <2>5, <2>6, ImportKeepsOnce
  <2>8. AccountsOf(rs) \subseteq AccountsOf(loaded') /\ AccountsOf(loaded) \subseteq AccountsOf(loaded')
    BY <2>6 DEF rs, AccountsOf, Sendable
  <2>9. loaded' \subseteq RowsOf(batch')
    BY <2>4, <2>5, <2>6, ChunkRows DEF ImportsKnown, InBatch
  <2>10. \A a \in arrived' : a \in recorded \cup dropped' \/ a \in AccountsOf(loaded')
    BY <2>7, <2>8 DEF ImportsKnown
  <2>11. status = "running" /\ known = recorded
    BY <2>4 DEF InBatch, ImportsKnown
  <2>12. AccountsOf(loaded)' = AccountsOf(loaded') /\ RowsOf(batch)' = RowsOf(batch')
    BY DEF AccountsOf, RowsOf
  <2> QED
    BY <2>4, <2>7, <2>9, <2>10, <2>11, <2>12 DEF ImportsKnown
<1>5. CASE LoseResults
  <2>3. PICK c, bad, lost : Loses(c, bad, lost)
    BY <1>5, LoseResultsOf
  <2>4. InBatch /\ status' = status /\ outcome' = "failure" /\ known' = known
        /\ recorded' = recorded /\ loaded' = loaded /\ batch' = batch /\ c \in Chunks
    BY <1>5, <2>3 DEF LoseResults, ChunkFailed, Loses
  <2>5. {} \subseteq Sendable(c) /\ lost \subseteq Sendable(c) /\ Import({}, lost)
    BY <2>3, ValidRows DEF Loses, Sendable
  <2>6. /\ ImportedOnce' /\ dropped \subseteq dropped'
        /\ \A a \in arrived' : a \in arrived \/ a \in AccountsOf({}) \/ a \in dropped'
    BY <2>4, <2>5, ImportKeepsOnce
  <2> QED
    BY <2>4, <2>5, <2>6 DEF ImportsKnown, InBatch, AccountsOf, RowsOf
<1>6. CASE DrainBatch
  BY <1>6 DEF DrainBatch, InBatch, outside, atTarget, ImportsKnown, ImportedOnce, AccountsOf, RowsOf
<1>7. CASE NextBatch
  <2>1. EnterBatch(batch + 1, NoCheckpoint) /\ Record /\ UNCHANGED <<arrived, repeated>>
    BY <1>7 DEF NextBatch
  <2> QED
    BY <2>1, RecordKeeps, EnteredTrue DEF ImportsKnown
<1>8. CASE CompleteRun
  <2>1. Record /\ UNCHANGED <<arrived, repeated>> /\ status' = "completed"
    BY <1>8 DEF CompleteRun
  <2> QED
    BY <2>1, RecordKeeps DEF ImportsKnown
<1>9. CASE FailRun
  <2>1. Record /\ UNCHANGED <<arrived, repeated>> /\ status' = "failed"
    BY <1>9 DEF FailRun
  <2> QED
    BY <2>1, RecordKeeps DEF ImportsKnown
<1>10. CASE Resume
  BY <1>10 DEF Resume, local, outside, atTarget, ImportsKnown, ImportedOnce, AccountsOf
<1>11. CASE UNCHANGED pvars
  BY <1>11 DEF pvars, local, outside, atTarget, ImportsKnown, ImportedOnce, AccountsOf, RowsOf
<1> QED
  BY <1>1, <1>2, <1>3, <1>4, <1>5, <1>6, <1>7, <1>8, <1>9, <1>10, <1>11 DEF Next, Execute

\* With full load records no account is imported twice, over any number of failures and
\* resumes, unless the results of a load of it were lost.
THEOREM NoDoubleImport ==
    ASSUME FullRecords
    PROVE  Spec => []ImportedOnce
<1>1. Init => Typed /\ ImportsKnown
  BY TypeInit DEF Init, ImportsKnown, ImportedOnce
<1>2. Typed /\ ImportsKnown /\ [Next]_pvars => (Typed /\ ImportsKnown)'
  BY TypeStep, ImportsStep
<1>3. ImportsKnown => ImportedOnce
  BY DEF ImportsKnown
<1> QED
  BY <1>1, <1>2, <1>3, PTL DEF Spec
=============================================================================

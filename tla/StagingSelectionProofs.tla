------------------------- MODULE StagingSelectionProofs -------------------------
(***************************************************************************)
(* Proofs about StagingSelection, for any number of requests and workers:  *)
(* ingest loses no line, a row moves only where selections overlap, and a  *)
(* batch holds the accounts it shows but for what was taken from it.       *)
(***************************************************************************)
EXTENDS StagingSelection, SequenceTheorems, TLAPS

Tags == Batches \cup {NoBatch}
ClientStates == {"idle", "processing", "staged", "fixed"}

\* A request in progress has its file, or the error it resolves.
ClientTyped(c) ==
    /\ client[c].pc \in ClientStates
    /\ client[c].pc \in {"processing", "staged"} => client[c].file \in Files
    /\ client[c].pc = "staged" => client[c].bad \subseteq Lines
    /\ client[c].pc = "fixed" =>
          \E l \in Lines : \E i \in DOMAIN errors[l] : client[c].line = <<l, i>>

WorkerTyped(w) ==
    /\ worker[w].pc \in {"idle", "picked", "tagged"}
    /\ worker[w].batch \in Batches \cup {Nobody}
    /\ IF worker[w].pc = "idle" THEN worker[w].batch = Nobody ELSE worker[w].batch \in Batches
    /\ worker[w].picked \subseteq RowIds /\ worker[w].missed \subseteq RowIds

Table ==
    /\ rows \in [Lines -> Seq(Tags)] /\ errors \in [Lines -> Seq(BOOLEAN)]
    /\ file \in [Files -> {"absent", "pending", "processing", "processed", "failed"}]
    /\ rejected \subseteq Lines
ClientRecords == [pc : ClientStates, file : Files \cup {Nobody}, bad : SUBSET Lines,
                  line : (Lines \X Nat) \cup {Nobody}]
WorkerRecords == [pc : {"idle", "picked", "tagged"}, batch : Batches \cup {Nobody},
                  picked : SUBSET RowIds, missed : SUBSET RowIds]
SelectionTyped ==
    /\ candidates \in [Batches -> SUBSET AccountsOf(RowIds)]
    /\ selection \in [Batches -> {"none", "selected", "stuck"}]
    /\ selections \in [Batches -> 0 .. MaxSelections]
    /\ taken \in [Batches -> SUBSET RowIds]

Typed ==
    /\ Table /\ SelectionTyped
    /\ client \in [Clients -> ClientRecords] /\ \A c \in Clients : ClientTyped(c)
    /\ worker \in [Workers -> WorkerRecords] /\ \A w \in Workers : WorkerTyped(w)

-----------------------------------------------------------------------------
(* The two ways the table changes                                           *)

\* Rows are only added, and what is added has no batch.
Inserted ==
    \A l \in Lines :
        /\ DOMAIN rows[l] \subseteq DOMAIN rows'[l]
        /\ \A i \in DOMAIN rows[l] : rows'[l][i] = rows[l][i]
        /\ \A i \in DOMAIN rows'[l] \ DOMAIN rows[l] : rows'[l][i] = NoBatch

LEMMA AppendFacts ==
    ASSUME NEW S, NEW s \in Seq(S), NEW e \in S
    PROVE  /\ Append(s, e) \in Seq(S) /\ Append(s, e) # <<>>
           /\ DOMAIN s \subseteq DOMAIN Append(s, e)
           /\ \A i \in DOMAIN s : Append(s, e)[i] = s[i]
           /\ \A i \in DOMAIN Append(s, e) \ DOMAIN s : Append(s, e)[i] = e
           /\ \E i \in DOMAIN Append(s, e) : Append(s, e)[i] = e
<1>1. /\ Append(s, e) \in Seq(S) /\ DOMAIN s = 1 .. Len(s) /\ Len(s) \in Nat
      /\ DOMAIN Append(s, e) = 1 .. Len(s) + 1
      /\ \A i \in 1 .. Len(s) : Append(s, e)[i] = s[i]
      /\ Append(s, e)[Len(s) + 1] = e
      /\ Append(s, e) # <<>>
  OBVIOUS
<1>2. \A i \in (1 .. Len(s) + 1) \ (1 .. Len(s)) : i = Len(s) + 1
  BY <1>1
<1>3. Len(s) + 1 \in DOMAIN Append(s, e)
  BY <1>1
<1>4. \E i \in DOMAIN Append(s, e) : Append(s, e)[i] = e
  BY <1>1, <1>3
<1>5. \A i \in DOMAIN Append(s, e) \ DOMAIN s : Append(s, e)[i] = e
  BY <1>1, <1>2
<1> QED
  BY <1>1, <1>4, <1>5

LEMMA InsertRowsEffect ==
    ASSUME Table, NEW ls \in SUBSET Lines, InsertRows(ls)
    PROVE  /\ rows' \in [Lines -> Seq(Tags)] /\ Inserted
           /\ \A l \in ls : rows'[l] # <<>>
<1>1. ASSUME NEW l \in Lines PROVE rows[l] \in Seq(Tags) /\ NoBatch \in Tags
  BY DEF Table, Tags
<1>2. rows' = [l \in Lines |-> IF l \in ls THEN Append(rows[l], NoBatch) ELSE rows[l]]
  BY DEF InsertRows
<1>3. rows' \in [Lines -> Seq(Tags)]
  BY <1>1, <1>2, AppendFacts
<1>4. \A l \in ls : rows'[l] # <<>>
  BY <1>1, <1>2, AppendFacts
<1>5. ASSUME NEW l \in Lines
      PROVE  /\ DOMAIN rows[l] \subseteq DOMAIN rows'[l]
             /\ \A i \in DOMAIN rows[l] : rows'[l][i] = rows[l][i]
             /\ \A i \in DOMAIN rows'[l] \ DOMAIN rows[l] : rows'[l][i] = NoBatch
  <2>1. CASE l \in ls
    <3>1. rows'[l] = Append(rows[l], NoBatch)
      BY <1>2, <2>1
    <3> QED
      BY <1>1, <3>1, AppendFacts
  <2>2. CASE l \notin ls
    BY <1>2, <2>2
  <2> QED
    BY <2>1, <2>2
<1> QED
  BY <1>3, <1>4, <1>5 DEF Inserted

\* Tagging keeps the rows and gives the picked ones the batch.
Tagged(w) ==
    \A l \in Lines :
        /\ DOMAIN rows'[l] = DOMAIN rows[l]
        /\ \A i \in DOMAIN rows[l] :
              rows'[l][i] = IF <<l, i>> \in worker[w].picked THEN worker[w].batch ELSE rows[l][i]

LEMMA TagEffect ==
    ASSUME Typed, NEW w \in Workers, SelectTag(w)
    PROVE  rows' \in [Lines -> Seq(Tags)] /\ Tagged(w)
<1>1. worker[w].batch \in Tags
  BY DEF SelectTag, Typed, WorkerTyped, Tags
<1>2. rows' = [l \in Lines |-> [i \in DOMAIN rows[l] |->
                 IF <<l, i>> \in worker[w].picked THEN worker[w].batch ELSE rows[l][i]]]
  BY DEF SelectTag
<1>3. ASSUME NEW l \in Lines PROVE rows'[l] \in Seq(Tags)
  <2>1. rows[l] \in Seq(Tags)
    BY DEF Typed, Table
  <2>2. Len(rows[l]) \in Nat /\ DOMAIN rows[l] = 1 .. Len(rows[l])
        /\ \A i \in 1 .. Len(rows[l]) : rows[l][i] \in Tags
    BY <2>1
  <2>3. rows'[l] \in [1 .. Len(rows[l]) -> Tags]
    BY <1>1, <1>2, <2>2
  <2> QED
    BY <2>2, <2>3, SeqDef
<1>4. rows' \in [Lines -> Seq(Tags)]
  BY <1>2, <1>3
<1> QED
  BY <1>2, <1>4 DEF Tagged

\* In either way a line that was staged stays staged.
LEMMA StagedStays ==
    ASSUME Table, rows' \in [Lines -> Seq(Tags)], NEW l \in Lines, rows[l] # <<>>,
           DOMAIN rows[l] \subseteq DOMAIN rows'[l]
    PROVE  rows'[l] # <<>>
<1>1. rows[l] \in Seq(Tags)
  BY DEF Table
<1>2. 1 \in DOMAIN rows[l]
  BY <1>1
<1> QED
  BY <1>2

-----------------------------------------------------------------------------
(* Types                                                                    *)

ErrorsKept == \A l \in Lines : DOMAIN errors[l] \subseteq DOMAIN errors'[l]

LEMMA GoTyped ==
    ASSUME Typed, NEW c \in Clients, NEW r \in ClientRecords, Go(c, r), ErrorsKept,
           r.pc \in {"processing", "staged"} => r.file \in Files,
           r.pc = "fixed" => \E l \in Lines : \E i \in DOMAIN errors'[l] : r.line = <<l, i>>
    PROVE  /\ client' \in [Clients -> ClientRecords] /\ \A d \in Clients : ClientTyped(d)'
           /\ client'[c] = r /\ \A d \in Clients \ {c} : client'[d] = client[d]
<1>1. client' \in [Clients -> ClientRecords]
      /\ client'[c] = r /\ \A d \in Clients \ {c} : client'[d] = client[d]
  BY DEF Go, Typed
<1>2. ClientTyped(c)'
  BY <1>1 DEF ClientTyped, ClientRecords
<1>3. ASSUME NEW d \in Clients \ {c} PROVE ClientTyped(d)'
  <2>1. ClientTyped(d) /\ client'[d] = client[d]
    BY <1>1 DEF Typed
  <2> QED
    BY <2>1 DEF ClientTyped, ErrorsKept
<1> QED
  BY <1>1, <1>2, <1>3

LEMMA IdleRecords ==
    IdleClient \in ClientRecords /\ IdleClient.pc = "idle"
    /\ IdleWorker \in WorkerRecords /\ IdleWorker.pc = "idle" /\ IdleWorker.batch = Nobody
BY DEF IdleClient, ClientRecords, ClientStates, IdleWorker, WorkerRecords

\* A step of a request changes nothing of the selections.
LEMMA SelectUnchanged ==
    ASSUME Typed, UNCHANGED select
    PROVE  /\ SelectionTyped'
           /\ worker' \in [Workers -> WorkerRecords] /\ \A w \in Workers : WorkerTyped(w)'
BY DEF Typed, select, SelectionTyped, WorkerTyped

LEMMA IngestUnchanged ==
    ASSUME Typed, UNCHANGED ingest
    PROVE  /\ client' \in [Clients -> ClientRecords] /\ \A c \in Clients : ClientTyped(c)'
           /\ errors' \in [Lines -> Seq(BOOLEAN)]
           /\ file' \in [Files -> {"absent", "pending", "processing", "processed", "failed"}]
           /\ rejected' \subseteq Lines
BY DEF Typed, Table, ingest, ClientTyped

LEMMA AddErrorsEffect ==
    ASSUME Table, NEW bad \in SUBSET Lines, AddErrors(bad)
    PROVE  /\ errors' \in [Lines -> Seq(BOOLEAN)] /\ ErrorsKept
           /\ \A l \in Lines : \A i \in DOMAIN errors[l] : errors'[l][i] = errors[l][i]
           /\ \A l \in Lines : \A i \in DOMAIN errors'[l] \ DOMAIN errors[l] : ~errors'[l][i]
           /\ \A l \in bad : \E i \in DOMAIN errors'[l] : ~errors'[l][i]
<1>1. ASSUME NEW l \in Lines PROVE errors[l] \in Seq(BOOLEAN)
  BY DEF Table
<1>2. errors' = [l \in Lines |-> IF l \in bad THEN Append(errors[l], FALSE) ELSE errors[l]]
  BY DEF AddErrors
<1>3. errors' \in [Lines -> Seq(BOOLEAN)]
  BY <1>1, <1>2, AppendFacts
<1>4. ASSUME NEW l \in Lines
      PROVE  /\ DOMAIN errors[l] \subseteq DOMAIN errors'[l]
             /\ \A i \in DOMAIN errors[l] : errors'[l][i] = errors[l][i]
             /\ \A i \in DOMAIN errors'[l] \ DOMAIN errors[l] : ~errors'[l][i]
             /\ l \in bad => \E i \in DOMAIN errors'[l] : ~errors'[l][i]
  <2>1. CASE l \in bad
    <3>1. errors'[l] = Append(errors[l], FALSE)
      BY <1>2, <2>1
    <3>2. /\ DOMAIN errors[l] \subseteq DOMAIN errors'[l]
          /\ \A i \in DOMAIN errors[l] : errors'[l][i] = errors[l][i]
          /\ \A i \in DOMAIN errors'[l] \ DOMAIN errors[l] : errors'[l][i] = FALSE
          /\ \E i \in DOMAIN errors'[l] : errors'[l][i] = FALSE
      <4>1. errors[l] \in Seq(BOOLEAN) /\ FALSE \in BOOLEAN
        BY <1>1
      <4>2. \A e \in BOOLEAN :
               /\ DOMAIN errors[l] \subseteq DOMAIN Append(errors[l], e)
               /\ \A i \in DOMAIN errors[l] : Append(errors[l], e)[i] = errors[l][i]
               /\ \A i \in DOMAIN Append(errors[l], e) \ DOMAIN errors[l] :
                     Append(errors[l], e)[i] = e
               /\ \E i \in DOMAIN Append(errors[l], e) : Append(errors[l], e)[i] = e
        BY <4>1, AppendFacts
      <4> QED
        BY <3>1, <4>1, <4>2, Zenon
    <3> QED
      BY <3>2, Zenon
  <2>2. CASE l \notin bad
    BY <1>2, <2>2
  <2> QED
    BY <2>1, <2>2
<1> QED
  BY <1>3, <1>4 DEF ErrorsKept

\* FixCommit resolves one error.
LEMMA FixCommitEffect ==
    ASSUME Typed, NEW c \in Clients, FixCommit(c)
    PROVE  \E l \in Lines : \E i \in DOMAIN errors[l] :
              /\ client[c].line = <<l, i>>
              /\ errors' \in [Lines -> Seq(BOOLEAN)]
              /\ \A k \in Lines : DOMAIN errors'[k] = DOMAIN errors[k]
              /\ \A k \in Lines : \A j \in DOMAIN errors[k] :
                    errors'[k][j] = IF k = l /\ j = i THEN TRUE ELSE errors[k][j]
<1>1. PICK l \in Lines : \E i \in DOMAIN errors[l] : client[c].line = <<l, i>>
  BY DEF FixCommit, Typed, ClientTyped
<1>2. PICK i \in DOMAIN errors[l] : client[c].line = <<l, i>>
  BY <1>1
<1>3. errors[l] \in Seq(BOOLEAN) /\ i \in 1 .. Len(errors[l])
  BY <1>2 DEF Typed, Table
<1>4. [errors[l] EXCEPT ![i] = TRUE] \in Seq(BOOLEAN)
      /\ DOMAIN [errors[l] EXCEPT ![i] = TRUE] = DOMAIN errors[l]
  BY <1>3, ExceptSeq
<1>5. client[c].line[1] = l /\ client[c].line[2] = i
  BY <1>2
<1>6. errors' = [errors EXCEPT ![l] = [errors[l] EXCEPT ![i] = TRUE]]
  BY <1>5 DEF FixCommit
<1>7. errors' \in [Lines -> Seq(BOOLEAN)]
  BY <1>4, <1>6 DEF Typed, Table
<1> QED
  BY <1>2, <1>3, <1>4, <1>6, <1>7 DEF Typed, Table

LEMMA TypeInit == Init => Typed
<1> SUFFICES ASSUME Init PROVE Typed
  OBVIOUS
<1>1. Table
  BY StagingAssumption, EmptySeq DEF Init, Table
<1>2. SelectionTyped
  BY StagingAssumption DEF Init, SelectionTyped, AccountsOf
<1>3. client \in [Clients -> ClientRecords] /\ \A c \in Clients : ClientTyped(c)
  BY IdleRecords DEF Init, ClientTyped, ClientStates
<1>4. worker \in [Workers -> WorkerRecords] /\ \A w \in Workers : WorkerTyped(w)
  BY IdleRecords DEF Init, WorkerTyped, WorkerRecords
<1> QED
  BY <1>1, <1>2, <1>3, <1>4 DEF Typed

\* Each step of a request, with what it does to its record.
LEMMA IngestTyped ==
    ASSUME Typed, Ingest
    PROVE  Typed'
<1>0. /\ UNCHANGED select /\ SelectionTyped'
      /\ worker' \in [Workers -> WorkerRecords] /\ \A w \in Workers : WorkerTyped(w)'
  <2>1. UNCHANGED select
    BY DEF Ingest, Upload, ProcessStart, ProcessInsert, ProcessFail, ProcessCommit, FixCommit,
           CrashClient, FixInsert, RelaxSchema
  <2> QED
    BY <2>1, SelectUnchanged
<1> USE DEF Typed
<1>1. Table
  OBVIOUS
<1>2. ASSUME NEW f \in Files, Upload(f) PROVE Typed'
  BY <1>0, <1>1, <1>2 DEF Upload, Table, ClientTyped
<1>3. ASSUME NEW c \in Clients, NEW f \in Files, ProcessStart(c, f) PROVE Typed'
  <2> DEFINE r == [IdleClient EXCEPT !.pc = "processing", !.file = f]
  <2>1. r \in ClientRecords /\ r.pc = "processing" /\ r.file = f
    BY DEF ClientRecords, ClientStates, IdleClient
  <2>2. Go(c, r) /\ ErrorsKept /\ Table'
    BY <1>1, <1>3 DEF ProcessStart, Table, ErrorsKept
  <2> HIDE DEF r
  <2> QED
    BY <1>0, <2>1, <2>2, GoTyped
<1>4. ASSUME NEW c \in Clients, ProcessInsert(c) PROVE Typed'
  <2> DEFINE f == client[c].file
             r == [client[c] EXCEPT !.pc = "staged", !.bad = LinesOf(f) \cap rejected]
  <2>1. f \in Files /\ client[c] \in ClientRecords
    BY <1>4 DEF ProcessInsert, ClientTyped
  <2>2. r \in ClientRecords /\ r.pc = "staged" /\ r.file = f
    BY <2>1 DEF ClientRecords, ClientStates, LinesOf
  <2>3. Go(c, r) /\ InsertRows(LinesOf(f) \ rejected) /\ UNCHANGED <<file, errors, rejected>>
    BY <1>4 DEF ProcessInsert
  <2>4. LinesOf(f) \ rejected \in SUBSET Lines
    BY DEF LinesOf
  <2>5. Table' /\ ErrorsKept
    BY <1>1, <2>3, <2>4, InsertRowsEffect DEF Table, ErrorsKept
  <2> HIDE DEF r
  <2> QED
    BY <1>0, <2>1, <2>2, <2>3, <2>5, GoTyped
<1>5. ASSUME NEW c \in Clients, ProcessFail(c) \/ CrashClient(c) PROVE Typed'
  <2>1. Go(c, IdleClient) /\ ErrorsKept /\ Table'
    BY <1>1, <1>5 DEF ProcessFail, CrashClient, Table, ErrorsKept
  <2> QED
    BY <1>0, <2>1, IdleRecords, GoTyped
<1>6. ASSUME NEW c \in Clients, ProcessCommit(c) PROVE Typed'
  <2>1. client[c].bad \in SUBSET Lines /\ Go(c, IdleClient) /\ AddErrors(client[c].bad)
        /\ file' = [file EXCEPT ![client[c].file] = "processed"] /\ UNCHANGED <<rows, rejected>>
    BY <1>6 DEF ProcessCommit, ClientTyped
  <2>2. Table' /\ ErrorsKept
    BY <1>1, <2>1, AddErrorsEffect DEF Table
  <2> QED
    BY <1>0, <2>1, <2>2, IdleRecords, GoTyped
<1>7. ASSUME NEW c \in Clients, FixCommit(c) PROVE Typed'
  <2>1. errors' \in [Lines -> Seq(BOOLEAN)] /\ ErrorsKept
    BY <1>7, FixCommitEffect DEF ErrorsKept
  <2>2. Go(c, IdleClient) /\ Table'
    BY <1>1, <1>7, <2>1 DEF FixCommit, Table
  <2> QED
    BY <1>0, <2>1, <2>2, IdleRecords, GoTyped
<1>8. ASSUME NEW c \in Clients, NEW l \in Lines, NEW i \in 1 .. MaxCopies, FixInsert(c, l, i)
      PROVE  Typed'
  <2> DEFINE r == [IdleClient EXCEPT !.pc = "fixed", !.line = <<l, i>>]
  <2>1. i \in Nat /\ i \in DOMAIN errors[l]
    BY <1>8, StagingAssumption DEF FixInsert
  <2>2. r \in ClientRecords /\ r.pc = "fixed" /\ r.line = <<l, i>>
    BY <2>1 DEF ClientRecords, ClientStates, IdleClient
  <2>3. Go(c, r) /\ InsertRows({l}) /\ UNCHANGED <<file, errors, rejected>>
    BY <1>8 DEF FixInsert
  <2>4. Table' /\ ErrorsKept
    BY <1>1, <2>3, InsertRowsEffect DEF Table, ErrorsKept
  <2>5. i \in DOMAIN errors'[l]
    BY <2>1, <2>3
  <2> HIDE DEF r
  <2> QED
    BY <1>0, <2>2, <2>3, <2>4, <2>5, GoTyped
<1>9. ASSUME NEW l \in Lines, RelaxSchema(l) PROVE Typed'
  BY <1>0, <1>1, <1>9 DEF RelaxSchema, Table, ClientTyped
<1> QED
  BY <1>2, <1>3, <1>4, <1>5, <1>6, <1>7, <1>8, <1>9 DEF Ingest

LEMMA WorkerGoes ==
    ASSUME Typed, NEW w \in Workers, NEW r \in WorkerRecords,
           worker' = [worker EXCEPT ![w] = r],
           IF r.pc = "idle" THEN r.batch = Nobody ELSE r.batch \in Batches
    PROVE  /\ worker' \in [Workers -> WorkerRecords] /\ \A v \in Workers : WorkerTyped(v)'
           /\ worker'[w] = r /\ \A v \in Workers \ {w} : worker'[v] = worker[v]
<1>1. worker' \in [Workers -> WorkerRecords]
      /\ worker'[w] = r /\ \A v \in Workers \ {w} : worker'[v] = worker[v]
  BY DEF Typed
<1>2. WorkerTyped(w)'
  BY <1>1 DEF WorkerTyped, WorkerRecords
<1>3. \A v \in Workers \ {w} : WorkerTyped(v)'
  BY <1>1 DEF Typed, WorkerTyped
<1> QED
  BY <1>1, <1>2, <1>3

\* What SelectRead picks: untagged rows, one of an account.
OnePerAccount(ids) == \A x, y \in ids : Account[x[1]] = Account[y[1]] => x = y
LEMMA SelectReadPicks ==
    ASSUME NEW w \in Workers, NEW b \in Batches, SelectRead(w, b)
    PROVE  \E picked \in SUBSET RowIds :
              /\ picked \subseteq Staged(NoBatch) /\ OnePerAccount(picked)
              /\ worker' = [worker EXCEPT ![w] =
                               [pc |-> "picked", batch |-> b, picked |-> picked, missed |-> {}]]
BY DEF SelectRead, Deduped, FirstOf, Available, Staged, OnePerAccount

\* A worker that tags has others that have read miss its rows.
LEMMA TagWorkers ==
    ASSUME Typed, NEW w \in Workers, SelectTag(w)
    PROVE  /\ worker' \in [Workers -> WorkerRecords] /\ \A v \in Workers : WorkerTyped(v)'
           /\ worker'[w].pc = "tagged"
           /\ \A v \in Workers : /\ worker'[v].batch = worker[v].batch
                                 /\ worker'[v].picked = worker[v].picked
           /\ \A v \in Workers \ {w} :
                 /\ worker'[v].pc = worker[v].pc
                 /\ worker[v].pc = "picked" =>
                       worker'[v].missed = worker[v].missed \cup worker[w].picked
<1> DEFINE tagger == [worker[w] EXCEPT !.pc = "tagged"]
           Missing(v) == [worker[v] EXCEPT !.missed = @ \cup worker[w].picked]
<1>1. worker' = [v \in Workers |-> IF v = w THEN tagger
                                   ELSE IF worker[v].pc # "picked" THEN worker[v]
                                   ELSE Missing(v)]
  BY DEF SelectTag
<1>2. \A v \in Workers : worker[v] \in WorkerRecords
  BY DEF Typed
<1>3. /\ tagger \in WorkerRecords /\ tagger.pc = "tagged" /\ tagger.batch = worker[w].batch
      /\ tagger.picked = worker[w].picked /\ tagger.missed = worker[w].missed
  BY <1>2 DEF WorkerRecords
<1>4. ASSUME NEW v \in Workers
      PROVE  /\ Missing(v) \in WorkerRecords /\ Missing(v).pc = worker[v].pc
             /\ Missing(v).batch = worker[v].batch /\ Missing(v).picked = worker[v].picked
             /\ Missing(v).missed = worker[v].missed \cup worker[w].picked
  BY <1>2 DEF WorkerRecords
<1> HIDE DEF tagger, Missing
<1>5. worker' \in [Workers -> WorkerRecords]
  BY <1>1, <1>2, <1>3, <1>4
<1>6. worker'[w] = tagger
  BY <1>1
<1>7. ASSUME NEW v \in Workers \ {w}
      PROVE  worker'[v] = IF worker[v].pc # "picked" THEN worker[v] ELSE Missing(v)
  BY <1>1
<1>8. WorkerTyped(w)'
  BY <1>3, <1>6 DEF SelectTag, Typed, WorkerTyped
<1>9. ASSUME NEW v \in Workers \ {w} PROVE WorkerTyped(v)'
  BY <1>2, <1>4, <1>7 DEF Typed, WorkerTyped, WorkerRecords
<1> QED
  BY <1>3, <1>4, <1>5, <1>6, <1>7, <1>8, <1>9

LEMMA SelectTyped ==
    ASSUME Typed, Select
    PROVE  Typed'
<1>0. /\ client' \in [Clients -> ClientRecords] /\ \A c \in Clients : ClientTyped(c)'
      /\ errors' \in [Lines -> Seq(BOOLEAN)]
      /\ file' \in [Files -> {"absent", "pending", "processing", "processed", "failed"}]
      /\ rejected' \subseteq Lines
  <2>1. UNCHANGED ingest
    BY DEF Select, SelectRead, SelectTag, SelectNothing, SelectCommit, SelectAgain, CrashWorker
  <2> QED
    BY <2>1, IngestUnchanged
<1>1. ASSUME NEW w \in Workers, NEW b \in Batches, SelectRead(w, b) PROVE Typed'
  <2>1. PICK picked \in SUBSET RowIds :
          worker' = [worker EXCEPT ![w] =
                        [pc |-> "picked", batch |-> b, picked |-> picked, missed |-> {}]]
    BY <1>1, SelectReadPicks
  <2>2. [pc |-> "picked", batch |-> b, picked |-> picked, missed |-> {}] \in WorkerRecords
    BY DEF WorkerRecords
  <2>3. worker' \in [Workers -> WorkerRecords] /\ \A v \in Workers : WorkerTyped(v)'
    BY <2>1, <2>2, WorkerGoes
  <2>4. SelectionTyped' /\ rows' = rows
    BY <1>1, StagingAssumption DEF SelectRead, Typed, SelectionTyped
  <2> QED
    BY <1>0, <2>3, <2>4 DEF Typed, Table
<1>2. ASSUME NEW w \in Workers, SelectTag(w) PROVE Typed'
  <2>1. worker' \in [Workers -> WorkerRecords] /\ \A v \in Workers : WorkerTyped(v)'
    BY <1>2, TagWorkers
  <2>2. rows' \in [Lines -> Seq(Tags)]
    BY <1>2, TagEffect
  <2>3. taken' \in [Batches -> SUBSET RowIds]
    BY <1>2 DEF SelectTag, Typed, SelectionTyped, WorkerTyped
  <2>4. SelectionTyped'
    BY <1>2, <2>3 DEF SelectTag, Typed, SelectionTyped
  <2> QED
    BY <1>0, <2>1, <2>2, <2>4 DEF Typed, Table
<1>3. ASSUME NEW w \in Workers,
             SelectNothing(w) \/ SelectCommit(w) \/ SelectAgain(w) \/ CrashWorker(w)
      PROVE  Typed'
  <2>1. worker' = [worker EXCEPT ![w] = IdleWorker] /\ rows' = rows
    BY <1>3 DEF SelectNothing, SelectCommit, SelectAgain, CrashWorker
  <2>2. worker' \in [Workers -> WorkerRecords] /\ \A v \in Workers : WorkerTyped(v)'
    BY <2>1, IdleRecords, WorkerGoes
  <2>3. AccountsOf(worker[w].picked) \subseteq AccountsOf(RowIds)
    BY DEF Typed, WorkerTyped, AccountsOf
  <2>4. SelectionTyped'
    BY <1>3, <2>3 DEF SelectNothing, SelectCommit, SelectAgain, CrashWorker, Typed, SelectionTyped
  <2> QED
    BY <1>0, <2>1, <2>2, <2>4 DEF Typed, Table
<1> QED
  BY <1>1, <1>2, <1>3 DEF Select

LEMMA TypeStep == Typed /\ [Next]_svars => Typed'
<1>1. Typed /\ UNCHANGED svars => Typed'
  BY SelectUnchanged, IngestUnchanged DEF svars, Typed, Table
<1> QED
  BY <1>1, IngestTyped, SelectTyped DEF Next

LEMMA AlwaysTyped == Spec => []Typed
BY TypeInit, TypeStep, PTL DEF Spec

\* Rows, errors, requests and selections keep their types.
THEOREM StagingTypes == Spec => []StagingTypeOK
<1>1. Typed => StagingTypeOK
  BY DEF Typed, Table, StagingTypeOK, ClientTyped, ClientStates, WorkerTyped, SelectionTyped, Tags
<1> QED
  BY <1>1, AlwaysTyped, PTL

-----------------------------------------------------------------------------
(* Ingest loses no line                                                     *)

StagedLine(l) == rows[l] # <<>>
OpenError(l) == \E i \in DOMAIN errors[l] : ~errors[l][i]
NotLost(f) == file[f] = "processed" => \A l \in LinesOf(f) : StagedLine(l) \/ OpenError(l)

\* Only lines that are staged have resolved errors.
ResolvedStaged(l) == \A i \in DOMAIN errors[l] : errors[l][i] => StagedLine(l)

\* A request has staged what it does not report, and what it is about to resolve.
RequestKeeps(c) ==
    /\ client[c].pc = "staged" =>
          \A l \in LinesOf(client[c].file) : l \in client[c].bad \/ StagedLine(l)
    /\ client[c].pc = "fixed" => StagedLine(client[c].line[1])

Kept ==
    /\ \A f \in Files : NotLost(f)
    /\ \A l \in Lines : ResolvedStaged(l)
    /\ \A c \in Clients : RequestKeeps(c)

RowsKept == \A l \in Lines : StagedLine(l) => StagedLine(l)'

LEMMA InsertedKeeps ==
    ASSUME Typed, Typed', Inserted
    PROVE  RowsKept
BY StagedStays DEF Inserted, RowsKept, StagedLine, Typed, Table

LEMMA RequestsKeep ==
    ASSUME Typed, RowsKept, NEW c \in Clients, client'[c] = client[c], RequestKeeps(c)
    PROVE  RequestKeeps(c)'
<1>1. client[c].pc = "fixed" => client[c].line[1] \in Lines
  BY DEF Typed, ClientTyped
<1> QED
  BY <1>1 DEF RequestKeeps, RowsKept, LinesOf

LEMMA GoKeeps ==
    ASSUME Typed, Kept, RowsKept, NEW c \in Clients, NEW r \in ClientRecords, Go(c, r),
           RequestKeeps(c)'
    PROVE  \A d \in Clients : RequestKeeps(d)'
<1>1. \A d \in Clients \ {c} : client'[d] = client[d]
  BY DEF Go, Typed
<1> QED
  BY <1>1, RequestsKeep DEF Kept

\* With no error touched, nothing that was staged or reported is lost.
LEMMA SameErrorsKeep ==
    ASSUME Kept, RowsKept, errors' = errors
    PROVE  /\ \A l \in Lines : ResolvedStaged(l)'
           /\ \A f \in Files : file'[f] = "processed" /\ file[f] = "processed" => NotLost(f)'
BY DEF Kept, RowsKept, ResolvedStaged, NotLost, OpenError, LinesOf

LEMMA KeptStep ==
    ASSUME Typed, [Next]_svars, Kept
    PROVE  Kept'
<1>0. Typed'
  BY TypeStep
<1>1. rows' = rows => RowsKept
  BY DEF RowsKept, StagedLine
<1>2. ASSUME UNCHANGED ingest, RowsKept PROVE Kept'
  <2>1. \A c \in Clients : RequestKeeps(c)'
    BY <1>2, RequestsKeep DEF ingest, Kept
  <2> QED
    BY <1>2, <2>1, SameErrorsKeep DEF ingest, Kept, NotLost
<1>3. ASSUME NEW c \in Clients, Go(c, IdleClient), RowsKept PROVE \A d \in Clients : RequestKeeps(d)'
  <2>1. client'[c].pc = "idle"
    BY <1>3, IdleRecords DEF Go, Typed
  <2>2. RequestKeeps(c)'
    BY <2>1 DEF RequestKeeps
  <2> QED
    BY <1>3, <2>2, IdleRecords, GoKeeps
<1>4. ASSUME NEW f \in Files, Upload(f) PROVE Kept'
  <2>1. RowsKept /\ errors' = errors /\ client' = client
        /\ \A g \in Files : file'[g] = "processed" => file[g] = "processed"
    BY <1>1, <1>4 DEF Upload, Typed, Table
  <2>2. \A c \in Clients : RequestKeeps(c)'
    BY <2>1, RequestsKeep DEF Kept
  <2> QED
    BY <2>1, <2>2, SameErrorsKeep DEF Kept, NotLost
<1>5. ASSUME NEW c \in Clients, NEW f \in Files, ProcessStart(c, f) PROVE Kept'
  <2> DEFINE r == [IdleClient EXCEPT !.pc = "processing", !.file = f]
  <2>1. RowsKept /\ errors' = errors /\ Go(c, r)
        /\ \A g \in Files : file'[g] = "processed" => file[g] = "processed"
    BY <1>1, <1>5 DEF ProcessStart, Typed, Table
  <2>2. r \in ClientRecords /\ r.pc = "processing"
    BY DEF ClientRecords, ClientStates, IdleClient
  <2> HIDE DEF r
  <2>3. RequestKeeps(c)'
    BY <2>1, <2>2 DEF Go, Typed, RequestKeeps
  <2>4. \A d \in Clients : RequestKeeps(d)'
    BY <2>1, <2>2, <2>3, GoKeeps
  <2> QED
    BY <2>1, <2>4, SameErrorsKeep DEF Kept, NotLost
<1>6. ASSUME NEW c \in Clients, ProcessInsert(c) PROVE Kept'
  <2> DEFINE f == client[c].file
             r == [client[c] EXCEPT !.pc = "staged", !.bad = LinesOf(f) \cap rejected]
  <2>1. client[c] \in ClientRecords
    BY DEF Typed
  <2>2. r \in ClientRecords /\ r.pc = "staged" /\ r.file = f /\ r.bad = LinesOf(f) \cap rejected
    BY <2>1 DEF ClientRecords, ClientStates, LinesOf
  <2>3. Go(c, r) /\ InsertRows(LinesOf(f) \ rejected) /\ UNCHANGED <<file, errors, rejected>>
    BY <1>6 DEF ProcessInsert
  <2>4. LinesOf(f) \ rejected \in SUBSET Lines
    BY DEF LinesOf
  <2>5. Inserted /\ \A l \in LinesOf(f) \ rejected : rows'[l] # <<>>
    BY <2>3, <2>4, InsertRowsEffect DEF Typed
  <2>6. RowsKept
    BY <1>0, <2>5, InsertedKeeps
  <2> HIDE DEF r
  <2>7. client'[c] = r
    BY <2>3 DEF Go, Typed
  <2>8. RequestKeeps(c)'
    BY <2>2, <2>5, <2>7 DEF RequestKeeps, StagedLine, LinesOf
  <2>9. \A d \in Clients : RequestKeeps(d)'
    BY <2>2, <2>3, <2>6, <2>8, GoKeeps
  <2> QED
    BY <2>3, <2>6, <2>9, SameErrorsKeep DEF Kept, NotLost
<1>7. ASSUME NEW c \in Clients, ProcessFail(c) \/ CrashClient(c) PROVE Kept'
  <2>1. RowsKept /\ errors' = errors /\ Go(c, IdleClient)
        /\ \A g \in Files : file'[g] = "processed" => file[g] = "processed"
    BY <1>1, <1>7 DEF ProcessFail, CrashClient, Typed, Table
  <2> QED
    BY <1>3, <2>1, SameErrorsKeep DEF Kept, NotLost
<1>8. ASSUME NEW c \in Clients, ProcessCommit(c) PROVE Kept'
  <2> DEFINE f == client[c].file
             bad == client[c].bad
  <2>1. bad \in SUBSET Lines /\ f \in Files
    BY <1>8 DEF ProcessCommit, Typed, ClientTyped
  <2>2. Go(c, IdleClient) /\ AddErrors(bad) /\ file' = [file EXCEPT ![f] = "processed"]
        /\ rows' = rows
    BY <1>8 DEF ProcessCommit
  <2>3. /\ \A l \in Lines : \A i \in DOMAIN errors[l] : errors'[l][i] = errors[l][i]
        /\ \A l \in Lines : DOMAIN errors[l] \subseteq DOMAIN errors'[l]
        /\ \A l \in Lines : \A i \in DOMAIN errors'[l] \ DOMAIN errors[l] : ~errors'[l][i]
        /\ \A l \in bad : \E i \in DOMAIN errors'[l] : ~errors'[l][i]
    BY <2>1, <2>2, AddErrorsEffect DEF Typed, ErrorsKept
  <2>4. \A l \in Lines : OpenError(l) => OpenError(l)'
    BY <2>3 DEF OpenError
  <2>5. \A l \in bad : OpenError(l)'
    BY <2>3 DEF OpenError
  <2>6. \A l \in Lines : ResolvedStaged(l)'
    BY <2>2, <2>3 DEF Kept, ResolvedStaged, StagedLine
  <2>7. \A l \in LinesOf(f) : l \in bad \/ StagedLine(l)
    BY <1>8 DEF ProcessCommit, Kept, RequestKeeps
  <2>8. ASSUME NEW g \in Files PROVE NotLost(g)'
    <3>1. CASE g = f
      BY <2>2, <2>5, <2>7, <3>1 DEF NotLost, StagedLine, LinesOf
    <3>2. CASE g # f
      <4>1. file'[g] = file[g]
        BY <2>1, <2>2, <3>2 DEF Typed, Table
      <4> QED
        BY <2>2, <2>4, <4>1 DEF Kept, NotLost, StagedLine, LinesOf
    <3> QED
      BY <3>1, <3>2
  <2>9. \A d \in Clients : RequestKeeps(d)'
    BY <1>1, <1>3, <2>2
  <2> QED
    BY <2>6, <2>8, <2>9 DEF Kept
<1>9. ASSUME NEW c \in Clients, FixCommit(c) PROVE Kept'
  <2>1. PICK l \in Lines : \E i \in DOMAIN errors[l] :
              /\ client[c].line = <<l, i>>
              /\ errors' \in [Lines -> Seq(BOOLEAN)]
              /\ \A k \in Lines : DOMAIN errors'[k] = DOMAIN errors[k]
              /\ \A k \in Lines : \A j \in DOMAIN errors[k] :
                    errors'[k][j] = IF k = l /\ j = i THEN TRUE ELSE errors[k][j]
    BY <1>9, FixCommitEffect
  <2>2. Go(c, IdleClient) /\ rows' = rows /\ file' = file /\ client[c].pc = "fixed"
    BY <1>9 DEF FixCommit
  <2>3. StagedLine(l)
    BY <2>1, <2>2 DEF Kept, RequestKeeps
  <2>4. \A k \in Lines \ {l} : DOMAIN errors'[k] = DOMAIN errors[k]
        /\ \A j \in DOMAIN errors[k] : errors'[k][j] = errors[k][j]
    BY <2>1
  <2>5. \A k \in Lines \ {l} : ResolvedStaged(k)' /\ (OpenError(k) => OpenError(k)')
    BY <2>2, <2>4 DEF Kept, ResolvedStaged, StagedLine, OpenError
  <2>6. ResolvedStaged(l)' /\ StagedLine(l)'
    BY <2>2, <2>3 DEF ResolvedStaged, StagedLine
  <2>7. \A g \in Files : NotLost(g)'
    BY <2>2, <2>5, <2>6 DEF Kept, NotLost, StagedLine, LinesOf
  <2>8. \A d \in Clients : RequestKeeps(d)'
    BY <1>1, <1>3, <2>2
  <2> QED
    BY <2>5, <2>6, <2>7, <2>8 DEF Kept
<1>10. ASSUME NEW c \in Clients, NEW l \in Lines, NEW i \in 1 .. MaxCopies, FixInsert(c, l, i)
       PROVE  Kept'
  <2> DEFINE r == [IdleClient EXCEPT !.pc = "fixed", !.line = <<l, i>>]
  <2>1. r \in ClientRecords /\ r.pc = "fixed" /\ r.line[1] = l
    <3>1. i \in Nat
      BY StagingAssumption
    <3> QED
      BY <3>1 DEF ClientRecords, ClientStates, IdleClient
  <2>2. Go(c, r) /\ InsertRows({l}) /\ UNCHANGED <<file, errors, rejected>>
    BY <1>10 DEF FixInsert
  <2>3. Inserted /\ rows'[l] # <<>>
    BY <2>2, InsertRowsEffect DEF Typed
  <2>4. RowsKept
    BY <1>0, <2>3, InsertedKeeps
  <2> HIDE DEF r
  <2>5. client'[c] = r
    BY <2>2 DEF Go, Typed
  <2>6. RequestKeeps(c)'
    BY <2>1, <2>3, <2>5 DEF RequestKeeps, StagedLine
  <2>7. \A d \in Clients : RequestKeeps(d)'
    BY <2>1, <2>2, <2>4, <2>6, GoKeeps
  <2> QED
    BY <2>2, <2>4, <2>7, SameErrorsKeep DEF Kept, NotLost
<1>11. ASSUME NEW l \in Lines, RelaxSchema(l) PROVE Kept'
  <2>1. RowsKept /\ errors' = errors /\ client' = client /\ file' = file
    BY <1>1, <1>11 DEF RelaxSchema
  <2>2. \A c \in Clients : RequestKeeps(c)'
    BY <2>1, RequestsKeep DEF Kept
  <2> QED
    BY <2>1, <2>2, SameErrorsKeep DEF Kept, NotLost
<1>12. CASE Select
  <2>1. UNCHANGED ingest
    BY <1>12 DEF Select, SelectRead, SelectTag, SelectNothing, SelectCommit, SelectAgain, CrashWorker
  <2>2. ASSUME NEW w \in Workers, SelectTag(w) PROVE RowsKept
    BY <1>0, <2>2, TagEffect, StagedStays DEF Tagged, RowsKept, StagedLine, Typed, Table
  <2>3. rows' = rows \/ \E w \in Workers : SelectTag(w)
    BY <1>12 DEF Select, SelectRead, SelectNothing, SelectCommit, SelectAgain, CrashWorker
  <2> QED
    BY <1>1, <1>2, <2>1, <2>2, <2>3
<1>13. CASE UNCHANGED svars
  BY <1>1, <1>2, <1>13 DEF svars
<1> QED
  BY <1>4, <1>5, <1>6, <1>7, <1>8, <1>9, <1>10, <1>11, <1>12, <1>13 DEF Next, Ingest

\* Every line of a processed file is staged or an open error, for any number of requests at
\* once, failures, deaths and repetitions.
THEOREM NoLineVanishes == Spec => []NothingVanishes
<1>1. Init => Typed /\ Kept
  BY TypeInit, IdleRecords DEF Init, Kept, NotLost, ResolvedStaged, RequestKeeps
<1>2. Typed /\ Kept /\ [Next]_svars => (Typed /\ Kept)'
  BY TypeStep, KeptStep
<1>3. Kept => NothingVanishes
  BY DEF Kept, NotLost, NothingVanishes, StagedLine, OpenError
<1> QED
  BY <1>1, <1>2, <1>3, PTL DEF Spec

-----------------------------------------------------------------------------
(* What workers select                                                      *)

\* The rows that were given to a batch: it has them, or others took them from it.
Given(b) == Staged(b) \cup taken[b]
Present == {id \in RowIds : id[2] \in DOMAIN rows[id[1]]}

Fits(b) == candidates[b] = AccountsOf(Given(b)) /\ OnePerAccount(Given(b))
Sound(b) == selection[b] # "stuck" => Fits(b)
Free(b) == \A w \in Workers : worker[w].batch # b

\* A worker that has tagged rows has given them to its batch, which had none if it had no
\* candidates.
TaggedOK(b, picked) ==
    /\ picked = {} => Sound(b)
    /\ candidates[b] = {} => Given(b) = picked
Picking(w) ==
    worker[w].pc # "idle" =>
        /\ selection[worker[w].batch] # "stuck"
        /\ OnePerAccount(worker[w].picked) /\ worker[w].picked \subseteq Present
        /\ worker[w].pc = "picked" => Sound(worker[w].batch)
        /\ worker[w].pc = "tagged" => TaggedOK(worker[w].batch, worker[w].picked)

\* No two workers populate one batch.
Apart == \A v, w \in Workers : worker[v].batch \in Batches /\ worker[v].batch = worker[w].batch => v = w

Selected ==
    /\ Apart
    /\ \A b \in Batches : Free(b) => Sound(b)
    /\ \A w \in Workers : Picking(w)

\* No step of a request tags or untags a row.
LEMMA InsertedStaged ==
    ASSUME Typed, Inserted
    PROVE  /\ \A b \in Batches : Staged(b)' = Staged(b)
           /\ Staged(NoBatch) \subseteq Staged(NoBatch)'
           /\ Present \subseteq Present'
BY StagingAssumption DEF Inserted, Staged, Present, RowIds

\* Tagging rows gives them to the batch, and what the others lose counts as taken.
LEMMA TaggedGiven ==
    ASSUME Typed, NEW w \in Workers, NEW b \in Batches, worker[w].batch = b, SelectTag(w),
           worker[w].picked \subseteq Present
    PROVE  /\ Given(b)' = Given(b) \cup worker[w].picked
           /\ \A d \in Batches \ {b} : Given(d)' = Given(d)
           /\ Staged(NoBatch) \ worker[w].picked \subseteq Staged(NoBatch)'
           /\ Present' = Present
<1> DEFINE picked == worker[w].picked
<1>1. \A id \in RowIds : id[1] \in Lines /\ id = <<id[1], id[2]>>
  BY DEF RowIds
<1>2. Tagged(w)
  BY TagEffect
<1>3. \A id \in RowIds :
        /\ id[2] \in DOMAIN rows'[id[1]] <=> id[2] \in DOMAIN rows[id[1]]
        /\ id[2] \in DOMAIN rows[id[1]] =>
              rows'[id[1]][id[2]] = IF id \in picked THEN b ELSE rows[id[1]][id[2]]
  BY <1>1, <1>2 DEF Tagged
<1>4. picked \subseteq RowIds /\ \A id \in picked : id[2] \in DOMAIN rows[id[1]]
  BY DEF Present
<1>5. /\ taken'[b] = taken[b]
      /\ \A d \in Batches \ {b} : taken'[d] = taken[d] \cup (Staged(d) \cap picked)
  BY DEF SelectTag, Typed, SelectionTyped
<1> HIDE DEF picked
<1>6. Staged(b)' = Staged(b) \cup picked
  BY <1>3, <1>4 DEF Staged
<1>7. \A d \in (Batches \cup {NoBatch}) \ {b} : Staged(d)' = Staged(d) \ picked
  BY <1>3 DEF Staged
<1>8. Present' = Present
  BY <1>3 DEF Present
<1>9. NoBatch # b
  BY StagingAssumption
<1> QED
  BY <1>5, <1>6, <1>7, <1>8, <1>9 DEF Given, picked

\* Until rows are given to it or its candidates made, a batch is as it was.
LEMMA SoundStays ==
    ASSUME NEW b \in Batches, Given(b)' = Given(b), candidates'[b] = candidates[b],
           selection'[b] = selection[b]
    PROVE  Sound(b)' <=> Sound(b)
BY DEF Sound, Fits, OnePerAccount, AccountsOf

LEMMA PickingStays ==
    ASSUME Typed, NEW v \in Workers, Picking(v),
           worker'[v].pc = worker[v].pc, worker'[v].batch = worker[v].batch,
           worker'[v].picked = worker[v].picked, Present \subseteq Present',
           \A b \in Batches : worker[v].batch = b =>
               /\ Given(b)' = Given(b) /\ candidates'[b] = candidates[b]
               /\ selection'[b] = selection[b]
    PROVE  Picking(v)'
<1> SUFFICES ASSUME worker[v].pc # "idle" PROVE Picking(v)'
  BY DEF Picking
<1>1. PICK b \in Batches : worker[v].batch = b
  BY DEF Typed, WorkerTyped
<1>2. /\ Given(b)' = Given(b) /\ candidates'[b] = candidates[b] /\ selection'[b] = selection[b]
      /\ Sound(b)' <=> Sound(b)
  BY <1>1, SoundStays
<1>3. TaggedOK(b, worker[v].picked) => TaggedOK(b, worker[v].picked)'
  <2> DEFINE picked == worker[v].picked
  <2>1. picked' = picked
    OBVIOUS
  <2> HIDE DEF picked
  <2>2. TaggedOK(b, picked) => TaggedOK(b, picked)'
    BY <1>2, <2>1 DEF TaggedOK
  <2> QED
    BY <2>2 DEF picked
<1>4. OnePerAccount(worker[v].picked) => OnePerAccount(worker[v].picked)'
  BY DEF OnePerAccount
<1> QED
  BY <1>1, <1>2, <1>3, <1>4 DEF Picking

LEMMA IngestInserts ==
    ASSUME Typed, Ingest
    PROVE  Inserted /\ UNCHANGED select
<1>1. rows' = rows => Inserted
  BY DEF Inserted
<1>2. \A c \in Clients : ProcessInsert(c) => Inserted
  <2> SUFFICES ASSUME NEW c \in Clients, ProcessInsert(c) PROVE Inserted
    OBVIOUS
  <2>1. LinesOf(client[c].file) \ rejected \in SUBSET Lines
    BY DEF LinesOf
  <2>2. InsertRows(LinesOf(client[c].file) \ rejected)
    BY DEF ProcessInsert
  <2> QED
    BY <2>1, <2>2, InsertRowsEffect DEF Typed
<1>3. \A c \in Clients, l \in Lines, i \in 1 .. MaxCopies : FixInsert(c, l, i) => Inserted
  <2> SUFFICES ASSUME NEW c \in Clients, NEW l \in Lines, NEW i \in 1 .. MaxCopies,
                      FixInsert(c, l, i)
               PROVE  Inserted
    OBVIOUS
  <2>1. {l} \in SUBSET Lines /\ InsertRows({l})
    BY DEF FixInsert
  <2> QED
    BY <2>1, InsertRowsEffect DEF Typed
<1>4. UNCHANGED select
  BY DEF Ingest, Upload, ProcessStart, ProcessInsert, ProcessFail, ProcessCommit, FixCommit,
         CrashClient, FixInsert, RelaxSchema
<1>5. rows' = rows \/ (\E c \in Clients : ProcessInsert(c))
      \/ \E c \in Clients, l \in Lines, i \in 1 .. MaxCopies : FixInsert(c, l, i)
  BY DEF Ingest, Upload, ProcessStart, ProcessFail, ProcessCommit, FixCommit, CrashClient,
         RelaxSchema
<1> QED
  BY <1>1, <1>2, <1>3, <1>4, <1>5

\* A worker's step on its batch leaves the other workers and batches alone.
LEMMA OthersKeep ==
    ASSUME Typed, Selected, NEW w \in Workers, NEW b \in Batches,
           worker[w].batch \in {b, Nobody}, worker'[w].batch \in {b, Nobody},
           \A v \in Workers \ {w} :
               /\ worker[v].batch # b /\ worker'[v].pc = worker[v].pc
               /\ worker'[v].batch = worker[v].batch /\ worker'[v].picked = worker[v].picked,
           \A d \in Batches \ {b} :
               /\ Given(d)' = Given(d) /\ candidates'[d] = candidates[d]
               /\ selection'[d] = selection[d],
           Present \subseteq Present', Picking(w)', Free(b)' => Sound(b)'
    PROVE  Selected'
<1>1. Apart'
  BY StagingAssumption DEF Selected, Apart
<1>2. ASSUME NEW d \in Batches, Free(d)' PROVE Sound(d)'
  <2>1. CASE d = b
    BY <1>2, <2>1
  <2>2. CASE d # b
    <3>1. Free(d)
      BY <1>2, <2>2, StagingAssumption DEF Free
    <3>2. Sound(d)
      BY <3>1 DEF Selected
    <3> QED
      BY <2>2, <3>2, SoundStays
  <2> QED
    BY <2>1, <2>2
<1>3. ASSUME NEW v \in Workers \ {w} PROVE Picking(v)'
  <2>1. Picking(v)
    BY DEF Selected
  <2>2. \A d \in Batches : worker[v].batch = d =>
           /\ Given(d)' = Given(d) /\ candidates'[d] = candidates[d] /\ selection'[d] = selection[d]
    OBVIOUS
  <2> QED
    BY <2>1, <2>2, PickingStays
<1> QED
  BY <1>1, <1>2, <1>3 DEF Selected

\* A worker that lets its batch go leaves it sound, or stuck.
LEMMA WorkerEnds ==
    ASSUME Typed, Selected, NEW w \in Workers, NEW b \in Batches, worker[w].batch = b,
           worker' = [worker EXCEPT ![w] = IdleWorker], rows' = rows, taken' = taken,
           \A d \in Batches \ {b} : candidates'[d] = candidates[d] /\ selection'[d] = selection[d],
           Sound(b)'
    PROVE  Selected'
<1>1. worker'[w] = IdleWorker /\ \A v \in Workers \ {w} : worker'[v] = worker[v]
  BY DEF Typed
<1>2. Present' = Present /\ \A d \in Batches : Given(d)' = Given(d)
  BY DEF Present, Given, Staged
<1>3. \A v \in Workers \ {w} : worker[v].batch # b
  BY DEF Selected, Apart
<1>4. Picking(w)'
  BY <1>1, IdleRecords DEF Picking
<1> QED
  BY <1>1, <1>2, <1>3, <1>4, IdleRecords, OthersKeep

LEMMA SelectStep ==
    ASSUME Typed, Selected, Select
    PROVE  Selected'
<1>1. ASSUME NEW w \in Workers, NEW b \in Batches, SelectRead(w, b) PROVE Selected'
  <2> DEFINE Going(picked) == [pc |-> "picked", batch |-> b, picked |-> picked, missed |-> {}]
  <2>1. PICK picked \in SUBSET RowIds :
          /\ picked \subseteq Staged(NoBatch) /\ OnePerAccount(picked)
          /\ worker' = [worker EXCEPT ![w] = Going(picked)]
    BY <1>1, SelectReadPicks
  <2>2. worker'[w] = Going(picked) /\ \A v \in Workers \ {w} : worker'[v] = worker[v]
    BY <2>1 DEF Typed
  <2>3. rows' = rows /\ taken' = taken /\ candidates' = candidates /\ selection' = selection
        /\ selection[b] # "stuck" /\ Free(b) /\ worker[w].pc = "idle"
    BY <1>1 DEF SelectRead, ingest, Free
  <2>4. Present' = Present /\ \A d \in Batches : Given(d)' = Given(d)
    BY <2>3 DEF Present, Given, Staged
  <2>5. Sound(b)'
    BY <2>3, <2>4, SoundStays DEF Selected
  <2>6. picked \subseteq Present'
    BY <2>1, <2>3 DEF Staged, Present
  <2>7. worker[w].batch = Nobody
    BY <2>3 DEF Typed, WorkerTyped
  <2>8. Picking(w)'
    BY <2>1, <2>2, <2>3, <2>5, <2>6 DEF Picking, OnePerAccount
  <2>9. \A v \in Workers \ {w} : worker[v].batch # b
    BY <2>3 DEF Free
  <2> HIDE DEF Going
  <2>10. worker'[w].batch = b
    BY <2>2 DEF Going
  <2> QED
    BY <2>2, <2>3, <2>4, <2>5, <2>7, <2>8, <2>9, <2>10, OthersKeep
<1>2. ASSUME NEW w \in Workers, NEW b \in Batches, worker[w].batch = b, SelectTag(w)
      PROVE  Selected'
  <2> DEFINE picked == worker[w].picked
  <2>1. worker[w].pc = "picked" /\ candidates' = candidates /\ selection' = selection
    BY <1>2 DEF SelectTag
  <2>2. selection[b] # "stuck" /\ OnePerAccount(picked) /\ Sound(b) /\ picked \subseteq Present
    BY <1>2, <2>1 DEF Selected, Picking
  <2>3. /\ Given(b)' = Given(b) \cup picked /\ Present' = Present
        /\ \A d \in Batches \ {b} : Given(d)' = Given(d)
    BY <1>2, <2>2, TaggedGiven
  <2>4. /\ worker'[w].pc = "tagged" /\ worker'[w].batch = b /\ worker'[w].picked = picked
        /\ \A v \in Workers \ {w} :
              /\ worker'[v].pc = worker[v].pc /\ worker'[v].batch = worker[v].batch
              /\ worker'[v].picked = worker[v].picked
    BY <1>2, TagWorkers
  <2>5. picked = {} => Sound(b)'
    BY <2>1, <2>2, <2>3, SoundStays
  <2>6. candidates[b] = {} => Given(b) = {}
    BY <2>2 DEF Sound, Fits, AccountsOf
  <2>7. TaggedOK(b, picked)'
    <3>1. candidates'[b] = {} => Given(b)' = picked
      BY <2>1, <2>3, <2>6
    <3> HIDE DEF picked
    <3>2. picked' = picked
      BY <2>4 DEF picked
    <3> QED
      BY <2>5, <3>1, <3>2 DEF TaggedOK
  <2>8. Picking(w)'
    <3>1. selection'[b] # "stuck" /\ OnePerAccount(picked)' /\ picked \subseteq Present'
      BY <2>1, <2>2, <2>3, <2>4 DEF OnePerAccount
    <3> QED
      BY <2>4, <2>7, <3>1 DEF Picking
  <2>9. \A v \in Workers \ {w} : worker[v].batch # b
    BY <1>2 DEF Selected, Apart
  <2>10. ~Free(b)'
    BY <2>4 DEF Free
  <2> HIDE DEF picked
  <2> QED
    BY <1>2, <2>1, <2>3, <2>4, <2>8, <2>9, <2>10, OthersKeep
<1>3. ASSUME NEW w \in Workers, NEW b \in Batches, worker[w].batch = b,
             SelectNothing(w) \/ SelectCommit(w) \/ SelectAgain(w) \/ CrashWorker(w)
      PROVE  Selected'
  <2>1. /\ worker' = [worker EXCEPT ![w] = IdleWorker] /\ rows' = rows /\ taken' = taken
        /\ worker[w].pc # "idle"
    BY <1>3 DEF SelectNothing, SelectCommit, SelectAgain, CrashWorker
  <2>2. \A d \in Batches : Given(d)' = Given(d)
    BY <2>1 DEF Given, Staged
  <2>3. \A d \in Batches \ {b} : candidates'[d] = candidates[d] /\ selection'[d] = selection[d]
    BY <1>3 DEF SelectNothing, SelectCommit, SelectAgain, CrashWorker, Typed, SelectionTyped
  <2>4. Picking(w)
    BY DEF Selected
  <2>5. Sound(b)'
    <3>1. CASE SelectNothing(w)
      <4>1. Sound(b) /\ selection[b] # "stuck" /\ candidates' = candidates
        BY <1>3, <2>4, <3>1 DEF SelectNothing, Picking, TaggedOK
      <4>2. Fits(b)'
        BY <2>2, <4>1 DEF Sound, Fits, OnePerAccount, AccountsOf
      <4> QED
        BY <4>2 DEF Sound
    <3>2. CASE SelectCommit(w)
      <4>1. /\ candidates'[b] = AccountsOf(worker[w].picked)
            /\ Given(b) = worker[w].picked /\ OnePerAccount(worker[w].picked)
        BY <1>3, <2>4, <3>2 DEF SelectCommit, Picking, TaggedOK, Typed, SelectionTyped
      <4>2. Fits(b)'
        BY <2>2, <4>1 DEF Fits, OnePerAccount, AccountsOf
      <4> QED
        BY <4>2 DEF Sound
    <3>3. CASE SelectAgain(w) \/ CrashWorker(w)
      BY <1>3, <3>3 DEF SelectAgain, CrashWorker, Typed, SelectionTyped, Sound
    <3> QED
      BY <1>3, <3>1, <3>2, <3>3
  <2> QED
    BY <1>3, <2>1, <2>3, <2>5, WorkerEnds
<1>4. \A w \in Workers : worker[w].pc # "idle" => worker[w].batch \in Batches
  BY DEF Typed, WorkerTyped
<1>5. ASSUME NEW w \in Workers, SelectTag(w) PROVE Selected'
  <2>1. worker[w].batch \in Batches
    BY <1>4, <1>5 DEF SelectTag
  <2> QED
    BY <1>2, <1>5, <2>1
<1>6. ASSUME NEW w \in Workers,
             SelectNothing(w) \/ SelectCommit(w) \/ SelectAgain(w) \/ CrashWorker(w)
      PROVE  Selected'
  <2>1. worker[w].batch \in Batches
    BY <1>4, <1>6 DEF SelectNothing, SelectCommit, SelectAgain, CrashWorker
  <2> QED
    BY <1>3, <1>6, <2>1
<1> QED
  BY <1>1, <1>5, <1>6 DEF Select

LEMMA SelectedStep ==
    ASSUME Typed, [Next]_svars, Selected
    PROVE  Selected'
<1>1. ASSUME Inserted, UNCHANGED select PROVE Selected'
  <2>1. /\ \A b \in Batches : Staged(b)' = Staged(b)
        /\ Present \subseteq Present'
    BY <1>1, InsertedStaged
  <2>2. worker' = worker /\ candidates' = candidates /\ selection' = selection /\ taken' = taken
    BY <1>1 DEF select
  <2>3. \A b \in Batches : Given(b)' = Given(b)
    BY <2>1, <2>2 DEF Given
  <2>4. \A b \in Batches : (Sound(b)' <=> Sound(b)) /\ (Free(b)' <=> Free(b))
    BY <2>2, <2>3, SoundStays DEF Free
  <2>5. ASSUME NEW w \in Workers PROVE Picking(w)'
    <3>1. Picking(w)
      BY DEF Selected
    <3> QED
      BY <2>1, <2>2, <2>3, <3>1, PickingStays
  <2> QED
    BY <2>2, <2>4, <2>5 DEF Selected, Apart
<1>2. CASE Ingest
  BY <1>1, <1>2, IngestInserts
<1>3. CASE Select
  BY <1>3, SelectStep
<1>4. CASE UNCHANGED svars
  BY <1>1, <1>4 DEF svars, Inserted
<1> QED
  BY <1>2, <1>3, <1>4 DEF Next

LEMMA AlwaysSelected == Spec => [](Typed /\ Selected)
<1>1. Init => Selected
  <2> SUFFICES ASSUME Init PROVE Selected
    OBVIOUS
  <2>1. \A b \in Batches : Given(b) = {}
    BY DEF Init, Staged, RowIds, Given
  <2>2. \A b \in Batches : Sound(b)
    BY <2>1 DEF Init, Sound, Fits, OnePerAccount, AccountsOf
  <2>3. Apart
    BY IdleRecords, StagingAssumption DEF Init, Apart
  <2> QED
    BY <2>2, <2>3, IdleRecords DEF Init, Selected, Picking
<1>2. Init => Typed /\ Selected
  BY <1>1, TypeInit
<1>3. Typed /\ Selected /\ [Next]_svars => (Typed /\ Selected)'
  BY TypeStep, SelectedStep
<1> QED
  BY <1>2, <1>3, PTL DEF Spec

\* However many workers select at once, a batch that is executed was given one row for
\* each of the accounts shown as its candidates, and no other, and still has those that no
\* overlapping selection took.
THEOREM BatchesHoldTheirAccounts == Spec => []AccountOncePerBatch
<1>1. Typed /\ Selected => AccountOncePerBatch
  BY DEF Selected, Free, Sound, Fits, OnePerAccount, Given, AccountOncePerBatch, Populated
<1> QED
  BY <1>1, AlwaysSelected, PTL

-----------------------------------------------------------------------------
(* When rows move                                                           *)

\* What a worker is going to tag has no batch, but for what was tagged behind its back.
ReadUntagged(w) ==
    worker[w].pc = "picked" => worker[w].picked \subseteq Staged(NoBatch) \cup worker[w].missed
AllReadUntagged == \A w \in Workers : ReadUntagged(w)

LEMMA UntaggedStep ==
    ASSUME Typed, Selected, [Next]_svars, AllReadUntagged
    PROVE  AllReadUntagged'
<1>1. ASSUME Staged(NoBatch) \subseteq Staged(NoBatch)', worker' = worker PROVE AllReadUntagged'
  BY <1>1 DEF AllReadUntagged, ReadUntagged
<1>2. CASE Ingest
  BY <1>1, <1>2, IngestInserts, InsertedStaged DEF select
<1>3. ASSUME NEW w \in Workers, NEW b \in Batches, SelectRead(w, b) PROVE AllReadUntagged'
  <2>1. PICK picked \in SUBSET RowIds :
          /\ picked \subseteq Staged(NoBatch)
          /\ worker' = [worker EXCEPT ![w] =
                           [pc |-> "picked", batch |-> b, picked |-> picked, missed |-> {}]]
    BY <1>3, SelectReadPicks
  <2>2. Staged(NoBatch)' = Staged(NoBatch)
    BY <1>3 DEF SelectRead, Staged
  <2>3. worker'[w].picked = picked /\ \A v \in Workers \ {w} : worker'[v] = worker[v]
    BY <2>1 DEF Typed
  <2> QED
    BY <2>1, <2>2, <2>3 DEF AllReadUntagged, ReadUntagged
<1>4. ASSUME NEW w \in Workers, SelectTag(w) PROVE AllReadUntagged'
  <2>1. PICK b \in Batches : worker[w].batch = b
    BY <1>4 DEF SelectTag, Typed, WorkerTyped
  <2>2. worker[w].picked \subseteq Present
    BY <1>4 DEF SelectTag, Selected, Picking
  <2>3. Staged(NoBatch) \ worker[w].picked \subseteq Staged(NoBatch)'
    BY <1>4, <2>1, <2>2, TaggedGiven
  <2>4. worker'[w].pc = "tagged"
    BY <1>4, TagWorkers
  <2>5. ASSUME NEW v \in Workers \ {w}, worker'[v].pc = "picked"
        PROVE  worker'[v].picked \subseteq Staged(NoBatch)' \cup worker'[v].missed
    <3>1. /\ worker[v].pc = "picked" /\ worker'[v].picked = worker[v].picked
          /\ worker'[v].missed = worker[v].missed \cup worker[w].picked
      BY <1>4, <2>5, TagWorkers
    <3>2. worker[v].picked \subseteq Staged(NoBatch) \cup worker[v].missed
      BY <3>1 DEF AllReadUntagged, ReadUntagged
    <3> QED
      BY <2>3, <3>1, <3>2
  <2> QED
    BY <2>4, <2>5 DEF AllReadUntagged, ReadUntagged
<1>5. ASSUME NEW w \in Workers,
             SelectNothing(w) \/ SelectCommit(w) \/ SelectAgain(w) \/ CrashWorker(w)
      PROVE  AllReadUntagged'
  <2>1. worker'[w] = IdleWorker /\ \A v \in Workers \ {w} : worker'[v] = worker[v]
    BY <1>5 DEF SelectNothing, SelectCommit, SelectAgain, CrashWorker, Typed
  <2>2. Staged(NoBatch)' = Staged(NoBatch)
    BY <1>5 DEF SelectNothing, SelectCommit, SelectAgain, CrashWorker, Staged
  <2> QED
    BY <2>1, <2>2, IdleRecords DEF AllReadUntagged, ReadUntagged
<1>6. CASE UNCHANGED svars
  BY <1>1, <1>6 DEF svars, select, Staged
<1> QED
  BY <1>2, <1>3, <1>4, <1>5, <1>6 DEF Next, Select

\* However many workers select at once, a row that was given to a batch is given to another
\* only by a worker that had read the table before.
THEOREM RowsStay == Spec => RowsMoveOnlyInOverlap
<1> DEFINE Moves == \A l \in Lines : \A i \in DOMAIN rows[l] :
                       rows[l][i] # NoBatch /\ rows'[l][i] # rows[l][i] =>
                           \E w \in Workers : <<l, i>> \in worker[w].missed
                                            /\ rows'[l][i] = worker[w].batch
<1>1. ASSUME Typed, AllReadUntagged, [Next]_svars PROVE Moves
  <2>1. CASE Ingest
    BY <1>1, <2>1, IngestInserts DEF Inserted
  <2>2. CASE \E w \in Workers : SelectTag(w)
    <3>1. PICK w \in Workers : SelectTag(w)
      BY <2>2
    <3>2. worker[w].picked \subseteq Staged(NoBatch) \cup worker[w].missed
      BY <1>1, <3>1 DEF SelectTag, AllReadUntagged, ReadUntagged
    <3>3. Tagged(w)
      BY <1>1, <3>1, TagEffect
    <3>4. \A l \in Lines : \A i \in DOMAIN rows[l] :
             <<l, i>> \in worker[w].picked /\ rows[l][i] # NoBatch => <<l, i>> \in worker[w].missed
      BY <3>2 DEF Staged
    <3> QED
      BY <3>3, <3>4 DEF Tagged
  <2>3. CASE rows' = rows
    BY <2>3
  <2> QED
    BY <1>1, <2>1, <2>2, <2>3
       DEF Next, Select, SelectRead, SelectNothing, SelectCommit, SelectAgain, CrashWorker, svars
<1>2. Init => AllReadUntagged
  BY IdleRecords DEF Init, AllReadUntagged, ReadUntagged
<1>3. Typed /\ Selected /\ AllReadUntagged /\ [Next]_svars => AllReadUntagged' /\ [Moves]_svars
  BY <1>1, UntaggedStep
<1> QED
  BY <1>2, <1>3, AlwaysSelected, PTL DEF Spec, RowsMoveOnlyInOverlap
=============================================================================

------------------------ MODULE ApprovalWorkflowProofs ------------------------
(***************************************************************************)
(* Proofs about ApprovalWorkflow, for any number of requests, sets and     *)
(* writes.  What a request knows of its set is stale; the invariant says   *)
(* in which way it was true, and that is enough.                           *)
(***************************************************************************)
EXTENDS ApprovalWorkflow, TLAPS

Held == {"open", "seeding", "importing"}

\* What the request j knows of its set was so when it read it, and is so still unless
\* an approval was recorded since; of the rows it misses none is older than its reading.
Knows(j) ==
    /\ j.set \in DOMAIN sets
    /\ j.asOf <= Len(log) /\ j.readAt <= Len(commits)
    /\ Been(j.set, j.state, Len(log))
    /\ Since(j.set, j.asOf) \/ j.state = state[j.set]
    /\ \A m \in rows[j.set] : m <= j.readAt => m \in j.rows
    /\ j.rows \subseteq DOMAIN commits

JobOK(j) ==
    /\ j.op \in Held => Knows(j)
    /\ j.op = "seeding" => j.todo # <<>>
    /\ j.op = "importing" => j.state = "signed_off" /\ sets[j.set].kind = "tariff"
    /\ j.op = "wanting" => "tariff" \in Kinds
    /\ j.op = "creating" =>
          /\ j.kind \in Kinds /\ j.number \in Nat \ {0}
          /\ j.number = 1 \/ (j.number - 1) \in VersionsOf(j.kind)

\* A set that does not exist yet has no history.
Fresh ==
    /\ \A x \in Ids \ DOMAIN sets : state[x] = "draft" /\ rows[x] = {}
    /\ \A i \in DOMAIN log : log[i].set \in DOMAIN sets

\* Every approval was allowed from a state the set had been in.
Allowed(i) ==
    /\ Been(log[i].set, log[i].from, i - 1)
    /\ log[i].to = "approved" => log[i].role \in {"business_analyst", "product_owner"}
    /\ log[i].to = "signed_off" => log[i].role = "product_owner" /\ log[i].from = "approved"

StateOK(x) ==
    \/ state[x] = "draft" /\ ~Since(x, 0)
    \/ \E i \in DOMAIN log : log[i].set = x /\ log[i].to = state[x] /\ ~Since(x, i)

Inv ==
    /\ ApprovalTypeOK
    /\ Fresh
    /\ \A s \in Sessions : JobOK(jobs[s])
    /\ \A i \in DOMAIN log : Allowed(i)
    /\ \A x \in Ids : StateOK(x)
    /\ VersionsAreSuccessive
    /\ TargetTakesSignedOff
    /\ RunsTakeAgreed
    /\ MixedOnlyIfOverlapping

-----------------------------------------------------------------------------
(* From the trail to the agreement                                          *)

\* A set that has been approved was approved by somebody entitled to, and one that has
\* been signed off was so by a product owner after that.
LEMMA TrailAgrees ==
    ASSUME log \in Seq([set : Ids, from : MappingWorkflowState, to : MappingWorkflowState,
                        role : MappingRole, actor : {"seed", "user"}]),
           \A i \in DOMAIN log : Allowed(i),
           NEW x, NEW n \in 0..Len(log)
    PROVE  /\ Been(x, "approved", n) => Agreed(x, n)
           /\ Been(x, "signed_off", n) => SignedOff(x, n) /\ Agreed(x, n)
<1>1. ASSUME NEW m \in 0..Len(log), Been(x, "approved", m) PROVE Agreed(x, m)
  BY <1>1 DEF Been, Agreed, Allowed
<1>2. ASSUME Been(x, "signed_off", n) PROVE SignedOff(x, n) /\ Agreed(x, n)
  <2>1. PICK i \in 1..n : log[i].set = x /\ log[i].to = "signed_off"
    BY <1>2 DEF Been
  <2>2. i \in DOMAIN log /\ (i - 1) \in 0..Len(log)
    OBVIOUS
  <2>3. log[i].role = "product_owner" /\ Been(x, "approved", i - 1)
    BY <2>1, <2>2 DEF Allowed
  <2>4. Agreed(x, i - 1)
    BY <1>1, <2>2, <2>3
  <2>5. Agreed(x, n)
    BY <2>4 DEF Agreed
  <2> QED
    BY <2>1, <2>3, <2>4, <2>5 DEF SignedOff
<1> QED
  BY <1>1, <1>2

-----------------------------------------------------------------------------
(* What the other requests know stays true                                  *)

\* Sets, approvals and commits are only added; a state changes only with an approval,
\* and rows only come from new commits.
Grows ==
    /\ DOMAIN sets \subseteq DOMAIN sets' /\ \A x \in DOMAIN sets : sets'[x] = sets[x]
    /\ Len(log) <= Len(log') /\ \A i \in 1..Len(log) : log'[i] = log[i]
    /\ Len(commits) <= Len(commits')
    /\ \A x \in Ids : state'[x] = state[x] \/ \E i \in DOMAIN log' : i > Len(log) /\ log'[i].set = x
    /\ \A x \in Ids : \A m \in rows'[x] : m \in rows[x] \/ m > Len(commits)

Entry == [set : Ids, from : MappingWorkflowState, to : MappingWorkflowState,
          role : MappingRole, actor : {"seed", "user"}]

LEMMA Shapes ==
    ApprovalTypeOK => /\ log \in Seq(Entry) /\ Len(log) \in Nat /\ DOMAIN log = 1..Len(log)
                      /\ Len(commits) \in Nat /\ DOMAIN commits = 1..Len(commits)
BY DEF ApprovalTypeOK, Entry

LEMMA SinceStays == ASSUME Grows, ApprovalTypeOK, ApprovalTypeOK', NEW x, NEW n, Since(x, n)
                    PROVE  Since(x, n)'
<1>1. PICK i \in DOMAIN log : i > n /\ log[i].set = x
  BY DEF Since
<1>2. Len(log) \in Nat /\ DOMAIN log = 1..Len(log) /\ Len(log') \in Nat /\ DOMAIN log' = 1..Len(log')
  BY Shapes DEF ApprovalTypeOK
<1>3. i \in DOMAIN log' /\ log'[i] = log[i]
  BY <1>1, <1>2 DEF Grows
<1> QED
  BY <1>1, <1>3 DEF Since

LEMMA BeenStays ==
    ASSUME Grows, ApprovalTypeOK, NEW x, NEW seen, NEW n \in 0..Len(log), Been(x, seen, n)
    PROVE  \A m \in Nat : n <= m => Been(x, seen, m)'
<1>1. CASE seen = "draft"
  BY <1>1 DEF Been
<1>2. CASE seen # "draft"
  <2>1. PICK i \in 1..n : log[i].set = x /\ log[i].to = seen
    BY <1>2 DEF Been
  <2>2. Len(log) \in Nat
    BY Shapes
  <2>3. log'[i] = log[i] /\ \A m \in Nat : n <= m => i \in 1..m
    BY <2>2 DEF Grows
  <2> QED
    BY <2>1, <2>3 DEF Been
<1> QED
  BY <1>1, <1>2

LEMMA SetsAreIds == ApprovalTypeOK => DOMAIN sets \subseteq Ids /\ Len(sets) \in Nat /\ DOMAIN sets = 1..Len(sets)
<1> SUFFICES ASSUME ApprovalTypeOK PROVE DOMAIN sets \subseteq Ids /\ Len(sets) \in Nat /\ DOMAIN sets = 1..Len(sets)
  OBVIOUS
<1>1. Len(sets) \in Nat /\ DOMAIN sets = 1..Len(sets) /\ Len(sets) <= MaxSets
  BY DEF ApprovalTypeOK
<1>2. MaxSets \in Nat
  BY ApprovalAssumption DEF ApprovalAssumption
<1> QED
  BY <1>1, <1>2 DEF Ids

LEMMA JobStays ==
    ASSUME Grows, ApprovalTypeOK, ApprovalTypeOK', NEW j \in TypeOfJob, JobOK(j)
    PROVE  JobOK(j)'
<1>1. ASSUME Knows(j) PROVE Knows(j)'
  <2>1. j.set \in DOMAIN sets /\ j.set \in Ids /\ j.asOf \in Nat /\ j.readAt \in Nat
    BY <1>1, SetsAreIds DEF Knows, TypeOfJob
  <2>2. j.set \in DOMAIN sets'
    BY <2>1 DEF Grows
  <2>3. Len(log) \in Nat /\ Len(log') \in Nat /\ Len(commits) \in Nat /\ Len(commits') \in Nat
    BY DEF ApprovalTypeOK
  <2>4. j.asOf <= Len(log') /\ j.readAt <= Len(commits')
    BY <1>1, <2>1, <2>3 DEF Knows, Grows
  <2>5. Been(j.set, j.state, Len(log))'
    <3>1. Been(j.set, j.state, Len(log)) /\ Len(log) \in 0..Len(log) /\ Len(log) <= Len(log')
      BY <1>1, <2>3 DEF Knows, Grows
    <3>2. \A m \in Nat : Len(log) <= m => Been(j.set, j.state, m)'
      BY <3>1, BeenStays
    <3> QED
      BY <3>1, <3>2, <2>3 DEF Been
  <2>6. Since(j.set, j.asOf)' \/ j.state = state'[j.set]
    <3>1. CASE Since(j.set, j.asOf)
      BY <3>1, <2>1, SinceStays
    <3>2. CASE j.state = state[j.set] /\ state'[j.set] = state[j.set]
      BY <3>2
    <3>3. CASE state'[j.set] # state[j.set]
      <4>1. PICK i \in DOMAIN log' : i > Len(log) /\ log'[i].set = j.set
        BY <3>3, <2>1 DEF Grows
      <4>2. i > j.asOf
        BY <4>1, <2>1, <2>3, <1>1 DEF Knows, ApprovalTypeOK
      <4> QED
        BY <4>1, <4>2 DEF Since
    <3> QED
      BY <3>1, <3>2, <3>3, <1>1 DEF Knows
  <2>7. \A m \in rows'[j.set] : m <= j.readAt => m \in j.rows
    <3>1. \A m \in rows'[j.set] : m \in Nat /\ (m \in rows[j.set] \/ m > Len(commits))
      <4>1. rows'[j.set] \subseteq DOMAIN commits'
        BY <2>1 DEF ApprovalTypeOK
      <4>2. DOMAIN commits' = 1..Len(commits')
        BY DEF ApprovalTypeOK
      <4> QED
        BY <4>1, <4>2, <2>1, <2>3 DEF Grows
    <3> QED
      BY <3>1, <1>1, <2>1, <2>3 DEF Knows
  <2>8. j.rows \subseteq DOMAIN commits'
    BY <1>1, <2>3 DEF Knows, Grows, ApprovalTypeOK
  <2> QED
    BY <2>2, <2>4, <2>5, <2>6, <2>7, <2>8 DEF Knows
<1>2. ASSUME j.op = "importing", sets[j.set].kind = "tariff", Knows(j) PROVE sets'[j.set].kind = "tariff"
  BY <1>2 DEF Knows, Grows
<1>3. VersionsOf(j.kind) \subseteq VersionsOf(j.kind)'
  BY DEF Grows, VersionsOf
<1> QED
  BY <1>1, <1>2, <1>3 DEF JobOK, Held

-----------------------------------------------------------------------------
(* One step                                                                 *)

LEMMA IdleOK == Idle \in TypeOfJob /\ JobOK(Idle) /\ (JobOK(Idle))'
BY DEF Idle, Job, TypeOfJob, JobOK, Held, MappingWorkflowState

LEMMA JobsReplaced ==
    ASSUME jobs \in [Sessions -> TypeOfJob], \A r \in Sessions : JobOK(jobs[r]),
           \A k \in TypeOfJob : JobOK(k) => JobOK(k)',
           NEW s \in Sessions, NEW j, JobOK(j)', jobs' = [jobs EXCEPT ![s] = j]
    PROVE  (\A r \in Sessions : JobOK(jobs[r]))'
<1> SUFFICES ASSUME NEW r \in Sessions PROVE JobOK(jobs[r])'
  OBVIOUS
<1>1. \E k : jobs'[r] = k /\ JobOK(k)'
  <2>1. CASE r = s
    BY <2>1
  <2>2. CASE r # s
    <3>1. jobs'[r] = jobs[r] /\ jobs[r] \in TypeOfJob /\ JobOK(jobs[r])
      BY <2>2
    <3>2. PICK k \in TypeOfJob : k = jobs[r]
      BY <3>1
    <3> QED
      BY <3>1, <3>2
  <2> QED
    BY <2>1, <2>2
<1> QED
  BY <1>1 DEF JobOK, Knows, Been, Since, VersionsOf

\* A step aside of sets, states, rows and approvals: only what it does change matters.
LEMMA AsideStep ==
    ASSUME Inv, NEW s \in Sessions, NEW j \in TypeOfJob, JobOK(j),
           jobs' = [jobs EXCEPT ![s] = j], UNCHANGED <<sets, state, rows, log, commits>>,
           rules' \in [Ids -> SUBSET SeedRules],
           run' = run,
           products' \subseteq [set : Ids, row : DOMAIN commits],
           \A x \in loaded' \cup {p.set : p \in products'} :
                x \in DOMAIN sets /\ sets[x].kind = "tariff" /\ SignedOff(x, Len(log))
    PROVE  Inv'
<1>1. ApprovalTypeOK'
  <2>1. jobs' \in [Sessions -> TypeOfJob]
    BY DEF Inv, ApprovalTypeOK
  <2> QED
    BY <2>1 DEF Inv, ApprovalTypeOK
<1>2. Fresh' /\ (\A i \in DOMAIN log : Allowed(i))' /\ (\A x \in Ids : StateOK(x))'
  BY DEF Inv, Fresh, Allowed, StateOK, Been, Since
<1>3. VersionsAreSuccessive'
  BY DEF Inv, VersionsAreSuccessive, VersionsOf
<1>8. TargetTakesSignedOff'
  BY DEF TargetTakesSignedOff, SignedOff, Agreed
<1>4. RunsTakeAgreed' /\ MixedOnlyIfOverlapping'
  BY DEF Inv, RunsTakeAgreed, MixedOnlyIfOverlapping, Agreed
<1>5. ASSUME NEW k \in TypeOfJob, JobOK(k) PROVE JobOK(k)'
  BY <1>5 DEF JobOK, Knows, Been, Since, VersionsOf
<1>6. \A r \in Sessions : jobs[r] \in TypeOfJob /\ JobOK(jobs[r])
  BY DEF Inv, ApprovalTypeOK
<1>7. (\A r \in Sessions : JobOK(jobs[r]))'
  BY <1>5, <1>6, JobsReplaced DEF Inv, ApprovalTypeOK
<1> QED
  BY <1>1, <1>2, <1>3, <1>4, <1>7, <1>8 DEF Inv

\* A request that only takes note, or ends, or adds a validation rule, disturbs nothing.
LEMMA JobStep ==
    ASSUME Inv, NEW s \in Sessions, NEW j \in TypeOfJob, JobOK(j),
           jobs' = [jobs EXCEPT ![s] = j], rules' \in [Ids -> SUBSET SeedRules],
           UNCHANGED <<sets, state, rows, loaded, log, commits, run, products>>
    PROVE  Inv'
<1>1. /\ products' \subseteq [set : Ids, row : DOMAIN commits]
      /\ \A x \in loaded' \cup {p.set : p \in products'} :
              x \in DOMAIN sets /\ sets[x].kind = "tariff" /\ SignedOff(x, Len(log))
  BY DEF Inv, ApprovalTypeOK, TargetTakesSignedOff
<1> QED
  BY <1>1, AsideStep

\* What is new in the history cannot take back what was agreed.
LEMMA AgreedStays ==
    ASSUME Grows, ApprovalTypeOK, NEW x, NEW n \in 0..Len(log)
    PROVE  /\ Agreed(x, n) => \A m \in Nat : n <= m => Agreed(x, m)'
           /\ SignedOff(x, n) => \A m \in Nat : n <= m => SignedOff(x, m)'
<1>1. Len(log) \in Nat /\ \A i \in 1..Len(log) : log'[i] = log[i]
  BY Shapes DEF Grows
<1>2. ASSUME NEW k \in 0..Len(log), Agreed(x, k), NEW m \in Nat, k <= m PROVE Agreed(x, m)'
  <2>1. PICK i \in 1..k : /\ log[i].set = x /\ log[i].to = "approved"
                          /\ log[i].role \in {"business_analyst", "product_owner"}
    BY <1>2 DEF Agreed
  <2>2. log'[i] = log[i] /\ i \in 1..m
    BY <1>1, <1>2, <2>1
  <2> QED
    BY <2>1, <2>2 DEF Agreed
<1>3. ASSUME SignedOff(x, n), NEW m \in Nat, n <= m PROVE SignedOff(x, m)'
  <2>1. PICK i \in 1..n : /\ log[i].set = x /\ log[i].to = "signed_off"
                          /\ log[i].role = "product_owner" /\ Agreed(x, i - 1)
    BY <1>3 DEF SignedOff
  <2>2. log'[i] = log[i] /\ i \in 1..m /\ (i - 1) \in 0..Len(log) /\ (i - 1) \in Nat
    BY <1>1, <1>3, <2>1
  <2>3. Agreed(x, i - 1)'
    BY <1>2, <2>1, <2>2
  <2> QED
    BY <2>1, <2>2, <2>3 DEF SignedOff
<1> QED
  BY <1>2, <1>3

LEMMA KeepsAgreement ==
    ASSUME Grows, Inv, ApprovalTypeOK', loaded' = loaded, products' = products, run' = run
    PROVE  TargetTakesSignedOff' /\ RunsTakeAgreed'
<1>1. Len(log) \in 0..Len(log) /\ Len(log') \in Nat /\ Len(log) <= Len(log') /\ ApprovalTypeOK
  <2>1. ApprovalTypeOK
    BY DEF Inv
  <2>2. Len(log) \in Nat
    BY <2>1, Shapes
  <2>3. Len(log') \in Nat
    BY DEF ApprovalTypeOK
  <2>4. Len(log) <= Len(log')
    BY DEF Grows
  <2> QED
    BY <2>1, <2>2, <2>3, <2>4
<1>2. \A x : /\ SignedOff(x, Len(log)) => SignedOff(x, Len(log))'
             /\ Agreed(x, Len(log)) => Agreed(x, Len(log))'
  <2> SUFFICES ASSUME NEW x
               PROVE  /\ SignedOff(x, Len(log)) => SignedOff(x, Len(log))'
                      /\ Agreed(x, Len(log)) => Agreed(x, Len(log))'
    OBVIOUS
  <2>1. PICK m \in Nat : m = Len(log')
    BY <1>1
  <2>2. /\ SignedOff(x, Len(log)) => SignedOff(x, m)'
        /\ Agreed(x, Len(log)) => Agreed(x, m)'
    BY <1>1, <2>1, AgreedStays
  <2> QED
    BY <2>1, <2>2 DEF SignedOff, Agreed
<1>3. TargetTakesSignedOff'
  BY <1>2 DEF Inv, TargetTakesSignedOff
<1>4. run.taken \subseteq DOMAIN sets /\ \A x \in DOMAIN sets : sets'[x] = sets[x]
  BY DEF Inv, ApprovalTypeOK, Grows
<1>5. RunsTakeAgreed'
  BY <1>2, <1>4 DEF Inv, RunsTakeAgreed
<1> QED
  BY <1>3, <1>5

LEMMA OldApprovals ==
    ASSUME Grows, Inv, NEW i \in 1..Len(log)
    PROVE  Allowed(i)'
<1>1. log'[i] = log[i] /\ Allowed(i) /\ i \in Nat /\ (i - 1) \in 0..Len(log) /\ (i - 1) \in Nat /\ ApprovalTypeOK
  BY Shapes DEF Grows, Inv
<1>2. Been(log[i].set, log[i].from, i - 1)'
  BY <1>1, BeenStays DEF Allowed
<1> QED
  BY <1>1, <1>2 DEF Allowed, Been

-----------------------------------------------------------------------------
(* The steps that write                                                     *)

\* A commit of rows: a saved matrix takes away every row the request has read.
LEMMA WriteStep ==
    ASSUME Inv, NEW s \in Sessions, NEW j \in TypeOfJob, JobOK(j), jobs[s].op \in Held,
           NEW gone, NEW adds \in BOOLEAN, NEW whole \in BOOLEAN, NEW checked \in BOOLEAN,
           whole => gone = jobs[s].rows,
           Write(s, gone, adds, whole, checked), jobs' = [jobs EXCEPT ![s] = j]
    PROVE  Inv'
<1> DEFINE x == jobs[s].set
           n == Len(commits) + 1
<1>1. /\ jobs[s] \in TypeOfJob /\ Knows(jobs[s]) /\ x \in DOMAIN sets /\ x \in Ids
      /\ Len(commits) \in Nat /\ DOMAIN commits = 1..Len(commits)
      /\ jobs[s].readAt \in Nat /\ jobs[s].readAt <= Len(commits)
  BY Shapes, SetsAreIds DEF Inv, ApprovalTypeOK, JobOK, Knows, TypeOfJob
<1>2. /\ commits' = Append(commits, [set |-> x, readAt |-> jobs[s].readAt, whole |-> whole, checked |-> checked])
      /\ rows' = [rows EXCEPT ![x] = (@ \ gone) \cup (IF adds THEN {n} ELSE {})]
      /\ UNCHANGED <<sets, state, rules, loaded, log, run, products>>
  BY DEF Write
<1>3. /\ Len(commits') = n /\ DOMAIN commits' = 1..n /\ n \in Nat
      /\ commits'[n] = [set |-> x, readAt |-> jobs[s].readAt, whole |-> whole, checked |-> checked]
      /\ \A m \in DOMAIN commits : commits'[m] = commits[m]
      /\ commits' \in Seq([set : Ids, readAt : Nat, whole : BOOLEAN, checked : BOOLEAN])
  BY <1>1, <1>2 DEF Inv, ApprovalTypeOK
<1>4. rows \in [Ids -> SUBSET DOMAIN commits]
  BY DEF Inv, ApprovalTypeOK
<1>5. /\ \A y \in Ids \ {x} : rows'[y] = rows[y]
      /\ rows'[x] \subseteq (rows[x] \ gone) \cup {n}
      /\ rows' \in [Ids -> SUBSET DOMAIN commits']
  BY <1>1, <1>2, <1>3, <1>4
<1>6. ApprovalTypeOK'
  <2>0. \A m \in DOMAIN commits : commits[m].readAt < m
    BY DEF Inv, ApprovalTypeOK
  <2>1. \A m \in DOMAIN commits' : commits'[m].readAt < m
    <3> SUFFICES ASSUME NEW m \in DOMAIN commits' PROVE commits'[m].readAt < m
      OBVIOUS
    <3>1. CASE m \in DOMAIN commits
      BY <3>1, <2>0, <1>3
    <3>2. CASE m = n
      BY <3>2, <1>1, <1>3
    <3> QED
      BY <3>1, <3>2, <1>1, <1>3
  <2>2. products' \subseteq [set : Ids, row : DOMAIN commits']
    BY <1>1, <1>2, <1>3 DEF Inv, ApprovalTypeOK
  <2>3. jobs' \in [Sessions -> TypeOfJob]
    BY DEF Inv, ApprovalTypeOK
  <2> QED
    BY <1>2, <1>3, <1>5, <2>1, <2>2, <2>3 DEF Inv, ApprovalTypeOK
<1>7. Grows
  BY <1>1, <1>2, <1>3, <1>4, <1>5 DEF Grows
<1>8. Fresh' /\ (\A i \in DOMAIN log : Allowed(i))' /\ (\A y \in Ids : StateOK(y))' /\ VersionsAreSuccessive'
  <2>1. Fresh'
    BY <1>1, <1>2, <1>5 DEF Inv, Fresh
  <2>2. (\A i \in DOMAIN log : Allowed(i))'
    BY <1>2 DEF Inv, Allowed, Been
  <2>3. (\A y \in Ids : StateOK(y))'
    BY <1>2 DEF Inv, StateOK, Since
  <2>4. VersionsAreSuccessive'
    BY <1>2 DEF Inv, VersionsAreSuccessive, VersionsOf
  <2> QED
    BY <2>1, <2>2, <2>3, <2>4
<1>9. TargetTakesSignedOff' /\ RunsTakeAgreed'
  BY <1>2, <1>6, <1>7, KeepsAgreement
<1>10. (\A r \in Sessions : JobOK(jobs[r]))'
  <2>1. \A k \in TypeOfJob : JobOK(k) => JobOK(k)'
    BY <1>6, <1>7, JobStays DEF Inv
  <2> QED
    BY <2>1, JobsReplaced DEF Inv, ApprovalTypeOK
<1>11. MixedOnlyIfOverlapping'
  <2> SUFFICES ASSUME NEW y \in Ids, NEW l \in rows'[y], NEW m \in rows'[y],
                      l < m, commits'[l].whole, commits'[m].whole
               PROVE  commits'[m].readAt < l
    BY DEF MixedOnlyIfOverlapping
  <2>1. CASE m \in rows[y] /\ l \in rows[y]
    BY <1>3, <1>4, <2>1 DEF Inv, MixedOnlyIfOverlapping
  <2>2. CASE m \notin rows[y]
    <3>1. y = x /\ m = n /\ l \in rows[x] /\ l \notin gone /\ whole
      BY <1>3, <1>5, <2>2
    <3>2. l \notin jobs[s].rows /\ l \in Nat
      BY <1>4, <1>1, <3>1
    <3>3. ~(l <= jobs[s].readAt)
      BY <1>1, <3>1, <3>2 DEF Knows
    <3> QED
      BY <1>1, <1>3, <3>1, <3>2, <3>3
  <2>3. CASE m \in rows[y] /\ l \notin rows[y]
    BY <1>1, <1>4, <1>5, <2>3
  <2> QED
    BY <2>1, <2>2, <2>3
<1> QED
  BY <1>6, <1>8, <1>9, <1>10, <1>11 DEF Inv

\* An approval, recorded from the state the request knows, over whatever the state is.
LEMMA RecordStep ==
    ASSUME Inv, NEW s \in Sessions, NEW j \in TypeOfJob, jobs[s].op \in Held,
           NEW target \in MappingWorkflowState, NEW role \in MappingRole, NEW actor \in {"seed", "user"},
           validate(jobs[s].state, target, role), Record(s, target, role, actor),
           jobs' = [jobs EXCEPT ![s] = j], JobOK(j)'
    PROVE  Inv'
<1> DEFINE x == jobs[s].set
           n == Len(log) + 1
<1>1. /\ jobs[s] \in TypeOfJob /\ Knows(jobs[s]) /\ x \in DOMAIN sets /\ x \in Ids
      /\ log \in Seq(Entry) /\ Len(log) \in Nat /\ DOMAIN log = 1..Len(log)
      /\ jobs[s].state \in MappingWorkflowState
  BY Shapes, SetsAreIds DEF Inv, ApprovalTypeOK, JobOK, Knows, TypeOfJob
<1>2. /\ log' = Append(log, [set |-> x, from |-> jobs[s].state, to |-> target, role |-> role, actor |-> actor])
      /\ state' = [state EXCEPT ![x] = target]
      /\ UNCHANGED <<sets, rules, rows, loaded, commits, run, products>>
  BY DEF Record
<1>3. /\ Len(log') = n /\ DOMAIN log' = 1..n /\ n \in Nat
      /\ log'[n] = [set |-> x, from |-> jobs[s].state, to |-> target, role |-> role, actor |-> actor]
      /\ \A i \in 1..Len(log) : log'[i] = log[i]
      /\ log' \in Seq(Entry)
  BY <1>1, <1>2 DEF Entry
<1>4. state \in [Ids -> MappingWorkflowState] /\ state' \in [Ids -> MappingWorkflowState]
  BY <1>2 DEF Inv, ApprovalTypeOK
<1>5. ApprovalTypeOK'
  <2>1. jobs' \in [Sessions -> TypeOfJob]
    BY DEF Inv, ApprovalTypeOK
  <2> QED
    BY <1>2, <1>3, <1>4, <2>1 DEF Inv, ApprovalTypeOK, Entry
<1>6. Grows
  BY <1>1, <1>2, <1>3, <1>4 DEF Grows
<1>7. Fresh'
  BY <1>1, <1>2, <1>3, <1>4 DEF Inv, Fresh
<1>8. (\A i \in DOMAIN log : Allowed(i))'
  <2> SUFFICES ASSUME NEW i \in 1..n PROVE Allowed(i)'
    BY <1>3
  <2>1. CASE i \in 1..Len(log)
    BY <2>1, <1>6, OldApprovals
  <2>2. CASE i = n
    <3>1. PICK y \in Ids, seen \in MappingWorkflowState : y = x /\ seen = jobs[s].state
      BY <1>1
    <3>2. Been(y, seen, Len(log)) /\ Len(log) \in 0..Len(log)
      BY <1>1, <3>1 DEF Knows
    <3>3. \A m \in Nat : Len(log) <= m => Been(y, seen, m)'
      BY <3>2, <1>6, BeenStays DEF Inv
    <3>4. i - 1 = Len(log)
      BY <2>2, <1>1
    <3>5. Been(y, seen, i - 1)'
      BY <1>1, <3>3, <3>4
    <3>6. /\ target = "approved" => role \in {"business_analyst", "product_owner"}
          /\ target = "signed_off" => role = "product_owner" /\ seen = "approved"
      BY <3>1 DEF validate, Transitions
    <3>7. /\ log'[i].set = y /\ log'[i].from = seen /\ log'[i].to = target
          /\ log'[i].role = role
      BY <2>2, <1>3, <3>1
    <3> QED
      BY <3>5, <3>6, <3>7 DEF Allowed, Been
  <2> QED
    BY <2>1, <2>2, <1>1, <1>3
<1>9. (\A y \in Ids : StateOK(y))'
  <2> SUFFICES ASSUME NEW y \in Ids PROVE StateOK(y)'
    BY DEF Ids
  <2>1. CASE y = x
    BY <2>1, <1>1, <1>2, <1>3, <1>4 DEF StateOK, Since
  <2>2. CASE y # x
    <3>1. state'[y] = state[y] /\ \A k \in Nat : Since(y, k)' => Since(y, k)
      BY <2>2, <1>1, <1>2, <1>3, <1>4 DEF Since
    <3>2. CASE state[y] = "draft" /\ ~Since(y, 0)
      BY <3>1, <3>2 DEF StateOK
    <3>3. CASE \E i \in DOMAIN log : log[i].set = y /\ log[i].to = state[y] /\ ~Since(y, i)
      <4>1. PICK i \in DOMAIN log : log[i].set = y /\ log[i].to = state[y] /\ ~Since(y, i)
        BY <3>3
      <4>2. ~Since(y, i)' /\ i \in DOMAIN log' /\ log'[i] = log[i]
        BY <4>1, <3>1, <1>1, <1>3
      <4> QED
        BY <4>1, <4>2, <3>1 DEF StateOK, Since
    <3> QED
      BY <3>2, <3>3 DEF Inv, StateOK
  <2> QED
    BY <2>1, <2>2
<1>10. VersionsAreSuccessive' /\ MixedOnlyIfOverlapping'
  BY <1>2 DEF Inv, VersionsAreSuccessive, VersionsOf, MixedOnlyIfOverlapping
<1>11. TargetTakesSignedOff' /\ RunsTakeAgreed'
  BY <1>2, <1>5, <1>6, KeepsAgreement
<1>12. (\A r \in Sessions : JobOK(jobs[r]))'
  <2>1. \A k \in TypeOfJob : JobOK(k) => JobOK(k)'
    BY <1>5, <1>6, JobStays DEF Inv
  <2> QED
    BY <2>1, JobsReplaced DEF Inv, ApprovalTypeOK
<1> QED
  BY <1>5, <1>7, <1>8, <1>9, <1>10, <1>11, <1>12 DEF Inv

\* The insertion of a set: its version is still the next one, or it fails.
LEMMA InsertStep ==
    ASSUME Inv, NEW s \in Sessions, Insert(s), jobs[s].number \notin VersionsOf(jobs[s].kind)
    PROVE  Inv'
<1> DEFINE x == Len(sets) + 1
           new == [kind |-> jobs[s].kind, version |-> jobs[s].number, standard |-> jobs[s].todo = TariffSeed]
<1>1. /\ jobs[s] \in TypeOfJob /\ JobOK(jobs[s]) /\ jobs[s].op = "creating"
      /\ jobs[s].kind \in Kinds /\ jobs[s].number \in Nat \ {0} /\ jobs[s].todo \in Seq(SeedStep)
      /\ jobs[s].number = 1 \/ (jobs[s].number - 1) \in VersionsOf(jobs[s].kind)
  BY DEF Inv, ApprovalTypeOK, JobOK, Insert, TypeOfJob
<1>2. /\ sets' = Append(sets, new) /\ Len(sets) < MaxSets
      /\ UNCHANGED <<state, rules, rows, loaded, log, commits, run, products>>
      /\ jobs' = [jobs EXCEPT ![s] = IF jobs[s].todo = <<>> THEN Idle
                                     ELSE Read("seeding", x, "draft", jobs[s].todo)]
  BY DEF Insert, MayInsert, End
<1>3. Len(sets) \in Nat /\ DOMAIN sets = 1..Len(sets) /\ DOMAIN sets \subseteq Ids /\ MaxSets \in Nat
  BY SetsAreIds, ApprovalAssumption DEF Inv, ApprovalAssumption
<1>4. /\ Len(sets') = x /\ DOMAIN sets' = 1..x /\ x \in Ids /\ x \notin DOMAIN sets
      /\ sets'[x] = new /\ \A y \in DOMAIN sets : sets'[y] = sets[y]
      /\ sets' \in Seq([kind : Kinds, version : Nat, standard : BOOLEAN]) /\ x <= MaxSets
  BY <1>1, <1>2, <1>3 DEF Inv, ApprovalTypeOK, Ids
<1>5. /\ log \in Seq(Entry) /\ Len(log) \in Nat /\ DOMAIN log = 1..Len(log)
      /\ Len(commits) \in Nat /\ state[x] = "draft" /\ rows[x] = {} /\ rows \in [Ids -> SUBSET DOMAIN commits]
      /\ state \in [Ids -> MappingWorkflowState]
  BY Shapes, <1>4 DEF Inv, Fresh, ApprovalTypeOK
<1>6. \E j \in TypeOfJob : jobs' = [jobs EXCEPT ![s] = j] /\ JobOK(j)'
  <2>1. CASE jobs[s].todo = <<>>
    BY <2>1, <1>2, IdleOK
  <2>2. CASE jobs[s].todo # <<>>
    <3>1. PICK j : j = Read("seeding", x, "draft", jobs[s].todo)
      OBVIOUS
    <3>2. /\ j.op = "seeding" /\ j.todo # <<>> /\ j.set = x /\ j.state = "draft" /\ j.rows = {}
          /\ j.asOf = Len(log) /\ j.readAt = Len(commits)
      BY <3>1, <2>2, <1>5 DEF Read
    <3>3. j \in TypeOfJob
      BY <3>1, <1>1, <1>4, <1>5 DEF Read, TypeOfJob, MappingWorkflowState
    <3>4. Knows(j)'
      BY <3>2, <1>2, <1>4, <1>5 DEF Knows, Been, Since
    <3> QED
      BY <3>1, <3>2, <3>3, <3>4, <2>2, <1>2 DEF JobOK, Held
  <2> QED
    BY <2>1, <2>2
<1>7. ApprovalTypeOK'
  <2>1. jobs' \in [Sessions -> TypeOfJob]
    BY <1>6 DEF Inv, ApprovalTypeOK
  <2>2. run' \in [require : BOOLEAN, block : BOOLEAN, refused : SUBSET DOMAIN sets',
                 taken : SUBSET DOMAIN sets', failed : BOOLEAN]
    BY <1>2, <1>3, <1>4 DEF Inv, ApprovalTypeOK
  <2>3. \A y \in loaded' \cup {p.set : p \in products'} : y \in DOMAIN sets' /\ sets'[y].kind = "tariff"
    BY <1>2, <1>3, <1>4 DEF Inv, ApprovalTypeOK
  <2> QED
    BY <1>2, <1>4, <2>1, <2>2, <2>3 DEF Inv, ApprovalTypeOK
<1>8. Grows
  BY <1>2, <1>3, <1>4, <1>5 DEF Grows
<1>9. Fresh' /\ (\A i \in DOMAIN log : Allowed(i))' /\ (\A y \in Ids : StateOK(y))' /\ MixedOnlyIfOverlapping'
  <2>1. Fresh'
    BY <1>2, <1>3, <1>4 DEF Inv, Fresh
  <2>2. (\A i \in DOMAIN log : Allowed(i))'
    BY <1>2 DEF Inv, Allowed, Been
  <2>3. (\A y \in Ids : StateOK(y))'
    BY <1>2 DEF Inv, StateOK, Since
  <2>4. MixedOnlyIfOverlapping'
    BY <1>2 DEF Inv, MixedOnlyIfOverlapping
  <2> QED
    BY <2>1, <2>2, <2>3, <2>4
<1>10. VersionsAreSuccessive'
  <2> SUFFICES ASSUME NEW kind \in Kinds
               PROVE  /\ \E n \in 0..x : VersionsOf(kind)' = 1..n
                      /\ \A y, z \in DOMAIN sets' : /\ sets'[y].kind = kind /\ sets'[z].kind = kind
                                                    /\ sets'[y].version = sets'[z].version
                                                    => y = z
    BY <1>4 DEF VersionsAreSuccessive
  <2>1. PICK n \in 0..Len(sets) : VersionsOf(kind) = 1..n
    BY DEF Inv, VersionsAreSuccessive
  <2>2. CASE kind = jobs[s].kind
    <3>1. VersionsOf(kind)' = VersionsOf(kind) \cup {jobs[s].number}
      BY <2>2, <1>3, <1>4 DEF VersionsOf
    <3>2. jobs[s].number = n + 1
      BY <2>1, <2>2, <1>1, <1>3
    <3>3. \A y \in DOMAIN sets : sets[y].kind = kind => sets[y].version # jobs[s].number
      BY <2>2 DEF VersionsOf
    <3>4. VersionsOf(kind)' = 1..(n + 1) /\ (n + 1) \in 0..x
      BY <2>1, <3>1, <3>2, <1>3
    <3>5. \A y, z \in DOMAIN sets : /\ sets[y].kind = kind /\ sets[z].kind = kind
                                    /\ sets[y].version = sets[z].version
                                    => y = z
      BY DEF Inv, VersionsAreSuccessive
    <3> QED
      BY <3>3, <3>4, <3>5, <1>3, <1>4, <2>2
  <2>3. CASE kind # jobs[s].kind
    <3>1. VersionsOf(kind)' = VersionsOf(kind)
      BY <2>3, <1>3, <1>4 DEF VersionsOf
    <3>2. \A y, z \in DOMAIN sets : /\ sets[y].kind = kind /\ sets[z].kind = kind
                                    /\ sets[y].version = sets[z].version
                                    => y = z
      BY DEF Inv, VersionsAreSuccessive
    <3> QED
      BY <2>1, <2>3, <3>1, <3>2, <1>3, <1>4
  <2> QED
    BY <2>2, <2>3
<1>11. TargetTakesSignedOff' /\ RunsTakeAgreed'
  BY <1>2, <1>7, <1>8, KeepsAgreement
<1>12. (\A r \in Sessions : JobOK(jobs[r]))'
  <2>1. \A k \in TypeOfJob : JobOK(k) => JobOK(k)'
    BY <1>7, <1>8, JobStays DEF Inv
  <2> QED
    BY <2>1, <1>6, JobsReplaced DEF Inv, ApprovalTypeOK
<1> QED
  BY <1>7, <1>9, <1>10, <1>11, <1>12 DEF Inv

-----------------------------------------------------------------------------
(* The actions                                                              *)

LEMMA NextVersion ==
    ASSUME Inv, NEW kind \in Kinds
    PROVE  /\ next_version(kind) \in Nat \ {0}
           /\ next_version(kind) = 1 \/ (next_version(kind) - 1) \in VersionsOf(kind)
<1>1. PICK n \in 0..Len(sets) : VersionsOf(kind) = 1..n
  BY DEF Inv, VersionsAreSuccessive
<1>2. n \in Nat /\ VersionsOf(kind) \cup {0} = 0..n
  BY <1>1, SetsAreIds DEF Inv
<1>3. Max(0..n) = n
  <2>1. \A x \in 0..n : (\A y \in 0..n : x >= y) <=> x = n
    BY <1>2
  <2>2. n \in 0..n
    BY <1>2
  <2> QED
    BY <2>1, <2>2 DEF Max
<1>4. next_version(kind) = n + 1
  BY <1>2, <1>3 DEF next_version
<1>5. n = 0 \/ n \in VersionsOf(kind)
  BY <1>1, <1>2
<1> QED
  BY <1>2, <1>4, <1>5

LEMMA SeedLists == TariffSeed \in Seq(SeedStep) /\ AccountSeed \in Seq(SeedStep) /\ <<>> \in Seq(SeedStep)
<1>1. SeedMappings \in Nat
  BY ApprovalAssumption DEF ApprovalAssumption
<1>2. TariffSeed \in [1..SeedMappings -> SeedStep]
  BY DEF TariffSeed, SeedStep
<1>3. TariffSeed \in Seq(SeedStep)
  BY <1>1, <1>2
<1>4. /\ <<"format", "in_list", "unique">> \in Seq(SeedStep)
      /\ <<"in_review", "refresh", "approved">> \in Seq(SeedStep)
  BY DEF SeedStep, SeedRules
<1>5. \A p, q \in Seq(SeedStep) : p \o q \in Seq(SeedStep)
  OBVIOUS
<1>6. AccountSeed \in Seq(SeedStep)
  BY <1>3, <1>4, <1>5 DEF AccountSeed
<1> QED
  BY <1>3, <1>6

LEMMA Creation ==
    ASSUME Inv, NEW s \in Sessions,
           (\E kind \in Kinds, seed \in BOOLEAN : create_set(s, kind, seed)) \/ seed_defaults(s)
    PROVE  Inv'
<1>1. rules \in [Ids -> SUBSET SeedRules]
  BY DEF Inv, ApprovalTypeOK
<1>2. ASSUME NEW kind \in Kinds, NEW todo \in Seq(SeedStep),
             jobs' = [jobs EXCEPT ![s] = Job("creating", kind, next_version(kind), todo)],
             UNCHANGED <<sets, state, rules, rows, loaded, log, commits, run, products>>
      PROVE  Inv'
  <2>1. PICK n \in Nat \ {0} : n = next_version(kind) /\ (n = 1 \/ (n - 1) \in VersionsOf(kind))
    BY NextVersion
  <2>2. kind \in {"rules", "tariff"}
    BY ApprovalAssumption DEF ApprovalAssumption
  <2>3. PICK j : j = Job("creating", kind, n, todo)
    OBVIOUS
  <2>4. j \in TypeOfJob /\ JobOK(j)
    BY <2>1, <2>2, <2>3 DEF Job, TypeOfJob, JobOK, Held, MappingWorkflowState, NoSet
  <2> QED
    BY <1>1, <1>2, <2>1, <2>3, <2>4, JobStep
<1>3. ASSUME NEW kind \in Kinds, NEW seed \in BOOLEAN, create_set(s, kind, seed) PROVE Inv'
  <2>1. PICK todo \in Seq(SeedStep) : todo = IF seed THEN AccountSeed ELSE <<>>
    BY SeedLists
  <2> QED
    BY <1>2, <1>3, <2>1 DEF create_set
<1>4. CASE /\ jobs[s] = Idle /\ "tariff" \in Kinds /\ UNCHANGED <<sets, state, rules, rows, loaded, log, commits, run, products>>
           /\ jobs' = [jobs EXCEPT ![s] = Job("wanting", "tariff", 0, TariffSeed)]
  <2>1. Job("wanting", "tariff", 0, TariffSeed) \in TypeOfJob /\ JobOK(Job("wanting", "tariff", 0, TariffSeed))
    BY <1>4, SeedLists DEF Job, TypeOfJob, JobOK, Held, MappingWorkflowState, NoSet
  <2> QED
    BY <1>1, <1>4, <2>1, JobStep
<1>5. CASE /\ jobs[s].op = "wanting" /\ UNCHANGED <<sets, state, rules, rows, loaded, log, commits, run, products>>
           /\ jobs' = [jobs EXCEPT ![s] = Job("creating", "tariff", next_version("tariff"), TariffSeed)]
  <2>1. "tariff" \in Kinds
    BY <1>5 DEF Inv, JobOK
  <2> QED
    BY <1>2, <1>5, <2>1, SeedLists
<1> QED
  BY <1>3, <1>4, <1>5 DEF seed_defaults

\* A request that ends, and nothing else happens but perhaps a new validation rule.
LEMMA EndStep ==
    ASSUME Inv, NEW s \in Sessions, End(s), rules' \in [Ids -> SUBSET SeedRules],
           UNCHANGED <<sets, state, rows, loaded, log, commits, run, products>>
    PROVE  Inv'
BY IdleOK, JobStep DEF End

LEMMA Quiet == Inv => rules \in [Ids -> SUBSET SeedRules] /\ \A s \in Sessions : jobs[s] \in TypeOfJob /\ JobOK(jobs[s])
BY DEF Inv, ApprovalTypeOK

LEMMA Insertion == ASSUME Inv, NEW s \in Sessions, Insert(s) PROVE Inv'
<1>1. CASE jobs[s].number \in VersionsOf(jobs[s].kind)
  BY <1>1, EndStep, Quiet DEF Insert
<1>2. CASE jobs[s].number \notin VersionsOf(jobs[s].kind)
  BY <1>2, InsertStep
<1> QED
  BY <1>1, <1>2

\* The state of a set is one the set has been in.
LEMMA StateWasReached ==
    ASSUME Inv, NEW x \in Ids
    PROVE  Been(x, state[x], Len(log)) /\ Len(log) \in 0..Len(log)
BY Shapes DEF Inv, StateOK, Been

LEMMA Opening == ASSUME Inv, NEW s \in Sessions, NEW x \in Ids, Open(s, x) PROVE Inv'
<1>1. PICK j : j = Read("open", x, state[x], <<>>)
  OBVIOUS
<1>2. /\ x \in DOMAIN sets /\ state[x] \in MappingWorkflowState /\ rows[x] \subseteq DOMAIN commits
      /\ Len(log) \in Nat /\ Len(commits) \in Nat /\ DOMAIN commits = 1..Len(commits)
  BY Shapes DEF Inv, ApprovalTypeOK, Open
<1>3. /\ j.op = "open" /\ j.set = x /\ j.state = state[x] /\ j.rows = rows[x]
      /\ j.asOf = Len(log) /\ j.readAt = Len(commits)
  BY <1>1 DEF Read
<1>4. j \in TypeOfJob
  BY <1>1, <1>2, SeedLists DEF Read, TypeOfJob
<1>5. Knows(j)
  BY <1>2, <1>3, StateWasReached DEF Knows
<1>6. JobOK(j)
  BY <1>3, <1>5 DEF JobOK
<1> QED
  BY <1>1, <1>4, <1>6, Quiet, JobStep DEF Open

\* The ways to write rows that end the request.
LEMMA Writing ==
    ASSUME Inv, NEW s \in Sessions, jobs[s].op \in Held,
           NEW gone, NEW adds \in BOOLEAN, NEW whole \in BOOLEAN, NEW checked \in BOOLEAN,
           whole => gone = jobs[s].rows, Write(s, gone, adds, whole, checked), End(s)
    PROVE  Inv'
BY IdleOK, WriteStep DEF End

LEMMA Saving ==
    ASSUME Inv, NEW s \in Sessions, NEW any \in BOOLEAN,
           upsert_mappings(s, any) \/ apply_mappings_to_rule_set(s, any)
    PROVE  Inv'
<1>1. jobs[s].op \in Held /\ Write(s, jobs[s].rows, any, TRUE, TRUE) /\ End(s)
  BY DEF upsert_mappings, apply_mappings_to_rule_set, Replace, OfKind, Held
<1> QED
  BY <1>1, Writing

LEMMA Adding ==
    ASSUME Inv, NEW s \in Sessions, add_field_mapping(s) \/ add_mapping(s)
    PROVE  Inv'
<1>1. jobs[s].op \in Held /\ End(s) /\ \E checked \in BOOLEAN : Write(s, {}, TRUE, FALSE, checked)
  BY DEF add_field_mapping, add_mapping, OfKind, Held
<1> QED
  BY <1>1, Writing

LEMMA AddingRule ==
    ASSUME Inv, NEW s \in Sessions, add_validation_rule(s, "format")
    PROVE  Inv'
<1>1. rules' \in [Ids -> SUBSET SeedRules]
  BY Quiet DEF add_validation_rule, SeedRules
<1> QED
  BY <1>1, EndStep DEF add_validation_rule

LEMMA Moving ==
    ASSUME Inv, NEW s \in Sessions, NEW target \in MappingWorkflowState, NEW role \in Roles,
           transition(s, target, role)
    PROVE  Inv'
<1>1. role \in MappingRole
  BY ApprovalAssumption DEF ApprovalAssumption
<1>2. /\ jobs[s].op \in Held /\ validate(jobs[s].state, target, role)
      /\ Record(s, target, role, "user") /\ jobs' = [jobs EXCEPT ![s] = Idle]
  BY DEF transition, End, Held
<1>3. \A j \in TypeOfJob : JobOK(j)' /\ jobs' = [jobs EXCEPT ![s] = j] => Inv'
  BY <1>1, <1>2, RecordStep
<1> QED
  BY <1>2, <1>3, IdleOK

-----------------------------------------------------------------------------
(* Seeding                                                                  *)

\* What a request knows of its set it still knows with less to do, in any of the roles
\* that rely on it.
LEMMA Continues ==
    ASSUME Inv, NEW s \in Sessions, NEW todo \in Seq(SeedStep), jobs[s].op \in Held,
           NEW seen \in MappingWorkflowState, NEW asOf \in 0..Len(log),
           Been(jobs[s].set, seen, Len(log)), Since(jobs[s].set, asOf) \/ seen = state[jobs[s].set],
           NEW op \in {"seeding", "importing"},
           op = "seeding" => todo # <<>>,
           op = "importing" => seen = "signed_off" /\ sets[jobs[s].set].kind = "tariff"
    PROVE  /\ Continue(jobs[s], op, seen, asOf, todo) \in TypeOfJob
           /\ JobOK(Continue(jobs[s], op, seen, asOf, todo))
<1>1. jobs[s] \in TypeOfJob /\ Knows(jobs[s]) /\ Len(log) \in Nat
  BY Quiet, Shapes DEF JobOK, Inv
<1>2. PICK j : j = Continue(jobs[s], op, seen, asOf, todo)
  OBVIOUS
<1>3. /\ j.op = op /\ j.set = jobs[s].set /\ j.state = seen /\ j.rows = jobs[s].rows
      /\ j.asOf = asOf /\ j.readAt = jobs[s].readAt /\ j.todo = todo
  BY <1>2 DEF Continue
<1>4. j \in TypeOfJob
  BY <1>1, <1>2 DEF Continue, TypeOfJob
<1>5. Knows(j)
  BY <1>1, <1>3 DEF Knows
<1>6. JobOK(j)
  BY <1>3, <1>5 DEF JobOK
<1> QED
  BY <1>2, <1>4, <1>6

LEMMA Rest ==
    ASSUME Inv, NEW s \in Sessions, jobs[s].op = "seeding"
    PROVE  /\ Knows(jobs[s]) /\ jobs[s].todo \in Seq(SeedStep) /\ jobs[s].todo # <<>>
           /\ Tail(jobs[s].todo) \in Seq(SeedStep) /\ Head(jobs[s].todo) \in SeedStep
           /\ jobs[s].set \in Ids /\ jobs[s].state \in MappingWorkflowState
           /\ jobs[s].asOf \in 0..Len(log)
<1>1. jobs[s] \in TypeOfJob /\ Knows(jobs[s]) /\ jobs[s].todo # <<>> /\ Len(log) \in Nat
  BY Quiet, Shapes DEF JobOK, Inv, Held
<1>2. jobs[s].todo \in Seq(SeedStep)
  BY <1>1 DEF TypeOfJob
<1>3. jobs[s].set \in Ids /\ jobs[s].state \in MappingWorkflowState /\ jobs[s].asOf \in 0..Len(log)
  BY <1>1, SetsAreIds DEF TypeOfJob, Knows, Inv
<1>4. Tail(jobs[s].todo) \in Seq(SeedStep) /\ Head(jobs[s].todo) \in SeedStep
  BY <1>1, <1>2
<1> QED
  BY <1>1, <1>2, <1>3, <1>4

\* A step of the seed that approves nothing goes on knowing what it knew, or what it has
\* just read.
LEMMA Proceeds ==
    ASSUME Inv, NEW s \in Sessions, jobs[s].op = "seeding",
           NEW seen \in MappingWorkflowState, NEW asOf \in 0..Len(log),
           Been(jobs[s].set, seen, Len(log)), Since(jobs[s].set, asOf) \/ seen = state[jobs[s].set],
           Proceed(s, seen, asOf)
    PROVE  \E j \in TypeOfJob : JobOK(j) /\ jobs' = [jobs EXCEPT ![s] = j]
<1>1. CASE Tail(jobs[s].todo) = <<>>
  BY <1>1, IdleOK DEF Proceed
<1>2. CASE Tail(jobs[s].todo) # <<>>
  <2>1. /\ Continue(jobs[s], "seeding", seen, asOf, Tail(jobs[s].todo)) \in TypeOfJob
        /\ JobOK(Continue(jobs[s], "seeding", seen, asOf, Tail(jobs[s].todo)))
    BY <1>2, Rest, Continues DEF Held
  <2> QED
    BY <1>2, <2>1 DEF Proceed
<1> QED
  BY <1>1, <1>2

LEMMA Seeding == ASSUME Inv, NEW s \in Sessions, seed_account_defaults(s) PROVE Inv'
<1> DEFINE x == jobs[s].set
<1>1. /\ jobs[s].op = "seeding" /\ Knows(jobs[s]) /\ jobs[s].todo \in Seq(SeedStep)
      /\ Tail(jobs[s].todo) \in Seq(SeedStep) /\ Head(jobs[s].todo) \in SeedStep
      /\ x \in Ids /\ jobs[s].state \in MappingWorkflowState /\ jobs[s].asOf \in 0..Len(log)
  BY Rest DEF seed_account_defaults
<1>2. Been(x, jobs[s].state, Len(log)) /\ (Since(x, jobs[s].asOf) \/ jobs[s].state = state[x])
  BY <1>1 DEF Knows
<1>3. CASE SeedRule(s)
  <2>1. PICK j \in TypeOfJob : JobOK(j) /\ jobs' = [jobs EXCEPT ![s] = j]
    BY <1>1, <1>2, <1>3, Proceeds DEF SeedRule
  <2>2. rules' \in [Ids -> SUBSET SeedRules]
    BY <1>1, <1>3, Quiet DEF SeedRule
  <2> QED
    BY <1>3, <2>1, <2>2, JobStep DEF SeedRule
<1>4. CASE SeedMapping(s)
  <2>1. PICK j \in TypeOfJob : JobOK(j) /\ jobs' = [jobs EXCEPT ![s] = j]
    BY <1>1, <1>2, <1>4, Proceeds DEF SeedMapping
  <2>2. PICK checked \in BOOLEAN : Write(s, {}, TRUE, FALSE, checked)
    BY <1>4 DEF SeedMapping
  <2> QED
    BY <1>1, <2>1, <2>2, WriteStep DEF Held
<1>5. CASE SeedTransition(s)
  <2>1. PICK target \in {"in_review", "approved"}, role \in {"mapping_lead", "business_analyst"} :
             /\ validate(jobs[s].state, target, role)
             /\ Record(s, target, role, "seed")
             /\ Proceed(s, target, Len(log) + 1)
    BY <1>5 DEF SeedTransition, SeedRole
  <2>2. target \in MappingWorkflowState /\ role \in MappingRole
    BY DEF MappingWorkflowState, MappingRole
  <2>3. \E j \in TypeOfJob : JobOK(j)' /\ jobs' = [jobs EXCEPT ![s] = j]
    <3>1. CASE Tail(jobs[s].todo) = <<>>
      BY <3>1, <2>1, IdleOK DEF Proceed
    <3>2. CASE Tail(jobs[s].todo) # <<>>
      <4>1. PICK j : j = Continue(jobs[s], "seeding", target, Len(log) + 1, Tail(jobs[s].todo))
        OBVIOUS
      <4>2. /\ j.op = "seeding" /\ j.set = x /\ j.state = target /\ j.rows = jobs[s].rows
            /\ j.asOf = Len(log) + 1 /\ j.readAt = jobs[s].readAt /\ j.todo # <<>>
        BY <3>2, <4>1 DEF Continue
      <4>3. jobs[s] \in TypeOfJob /\ Len(log) \in Nat /\ log \in Seq(Entry) /\ state \in [Ids -> MappingWorkflowState]
        BY Quiet, Shapes DEF Inv, ApprovalTypeOK
      <4>4. j \in TypeOfJob
        BY <1>1, <2>2, <4>1, <4>3 DEF Continue, TypeOfJob
      <4>5. /\ Len(log') = Len(log) + 1 /\ log'[Len(log) + 1].set = x /\ log'[Len(log) + 1].to = target
            /\ state'[x] = target /\ UNCHANGED <<sets, rows, commits>>
        BY <1>1, <2>1, <4>3 DEF Record
      <4>6. Knows(j)'
        BY <1>1, <4>2, <4>3, <4>5 DEF Knows, Been
      <4>7. JobOK(j)'
        BY <4>2, <4>6 DEF JobOK
      <4> QED
        BY <3>2, <2>1, <4>1, <4>4, <4>7 DEF Proceed
    <3> QED
      BY <3>1, <3>2
  <2>4. PICK j \in TypeOfJob : JobOK(j)' /\ jobs' = [jobs EXCEPT ![s] = j]
    BY <2>3
  <2> QED
    BY <1>1, <2>1, <2>2, <2>4, RecordStep DEF Held
<1>6. CASE SeedRefresh(s)
  <2>1. state[x] \in MappingWorkflowState /\ Len(log) \in 0..Len(log) /\ Been(x, state[x], Len(log))
    BY <1>1, StateWasReached DEF Inv, ApprovalTypeOK
  <2>2. PICK j \in TypeOfJob : JobOK(j) /\ jobs' = [jobs EXCEPT ![s] = j]
    BY <1>1, <1>6, <2>1, Proceeds DEF SeedRefresh
  <2> QED
    BY <1>6, <2>2, Quiet, JobStep DEF SeedRefresh
<1> QED
  BY <1>3, <1>4, <1>5, <1>6 DEF seed_account_defaults

-----------------------------------------------------------------------------
(* What is taken from the sets                                              *)

LEMMA Importing ==
    ASSUME Inv, NEW s \in Sessions, NEW arrived \in SUBSET jobs[s].rows, NEW raised \in BOOLEAN,
           import_products(s, arrived, raised)
    PROVE  Inv'
<1> DEFINE x == jobs[s].set
<1>1. /\ jobs[s] \in TypeOfJob /\ Knows(jobs[s]) /\ jobs[s].op \in Held
      /\ jobs[s].state = "signed_off" /\ x \in DOMAIN sets /\ sets[x].kind = "tariff"
      /\ Len(log) \in 0..Len(log) /\ log \in Seq(Entry) /\ x \in Ids
  BY Quiet, Shapes, SetsAreIds DEF import_products, OfKind, JobOK, Held, Knows, Inv
<1>2. SignedOff(x, Len(log))
  BY <1>1, TrailAgrees DEF Knows, Inv, Entry
<1>3. arrived \subseteq DOMAIN commits
  BY <1>1 DEF Knows
<1>4. products' = products \cup {[set |-> x, row |-> r] : r \in arrived}
  BY DEF import_products, Import
<1>5. products' \subseteq [set : Ids, row : DOMAIN commits]
  BY <1>1, <1>3, <1>4 DEF Inv, ApprovalTypeOK
<1>6. \A y \in loaded' \cup {p.set : p \in products'} :
          y \in DOMAIN sets /\ sets[y].kind = "tariff" /\ SignedOff(y, Len(log))
  <2>1. \A y \in loaded \cup {p.set : p \in products} :
            y \in DOMAIN sets /\ sets[y].kind = "tariff" /\ SignedOff(y, Len(log))
    BY DEF Inv, ApprovalTypeOK, TargetTakesSignedOff
  <2>2. loaded' = loaded /\ \A p \in products' : p \in products \/ p.set = x
    BY <1>4 DEF import_products, Import
  <2> QED
    BY <1>1, <1>2, <2>1, <2>2
<1>7. \E j \in TypeOfJob : JobOK(j) /\ jobs' = [jobs EXCEPT ![s] = j]
  <2>1. CASE raised
    BY <2>1, IdleOK DEF import_products, Import
  <2>2. CASE ~raised
    <3>1. /\ jobs[s].asOf \in 0..Len(log) /\ "signed_off" \in MappingWorkflowState
          /\ Been(x, jobs[s].state, Len(log)) /\ (Since(x, jobs[s].asOf) \/ jobs[s].state = state[x])
      BY <1>1 DEF Knows, TypeOfJob, MappingWorkflowState
    <3>2. /\ Continue(jobs[s], "importing", jobs[s].state, jobs[s].asOf, <<>>) \in TypeOfJob
          /\ JobOK(Continue(jobs[s], "importing", jobs[s].state, jobs[s].asOf, <<>>))
      BY <1>1, <3>1, SeedLists, Continues
    <3> QED
      BY <2>2, <3>2 DEF import_products, Import
  <2> QED
    BY <2>1, <2>2
<1> QED
  BY <1>5, <1>6, <1>7, Quiet, AsideStep DEF import_products, Import

LEMMA MarkingLoaded == ASSUME Inv, NEW s \in Sessions, load_signed_off(s) PROVE Inv'
<1> DEFINE x == jobs[s].set
<1>1. /\ Knows(jobs[s]) /\ jobs[s].state = "signed_off" /\ x \in DOMAIN sets /\ sets[x].kind = "tariff"
      /\ Len(log) \in 0..Len(log) /\ log \in Seq(Entry)
  BY Quiet, Shapes DEF load_signed_off, JobOK, Held, Knows, Inv
<1>2. SignedOff(x, Len(log))
  BY <1>1, TrailAgrees DEF Knows, Inv, Entry
<1>3. /\ products' \subseteq [set : Ids, row : DOMAIN commits]
      /\ \A y \in loaded' \cup {p.set : p \in products'} :
              y \in DOMAIN sets /\ sets[y].kind = "tariff" /\ SignedOff(y, Len(log))
  BY <1>1, <1>2 DEF Inv, ApprovalTypeOK, TargetTakesSignedOff, load_signed_off
<1> QED
  BY <1>3, IdleOK, Quiet, AsideStep DEF load_signed_off, End

\* A run that requires approval leaves out every set that is in no runnable state.
LEMMA Running == ASSUME Inv, NEW c \in RunConfigs, execute_run(c) PROVE Inv'
<1> DEFINE refused == IF c.use_rules THEN Unapproved(c) ELSE {}
<1>1. /\ run' = [require |-> c.require, block |-> c.block, refused |-> refused,
                 taken |-> load_for_run(c), failed |-> c.block /\ refused # {}]
      /\ UNCHANGED <<sets, state, rules, rows, loaded, log, commits, jobs, products>>
  BY DEF execute_run
<1>2. c.require \in BOOLEAN /\ c.use_rules \in BOOLEAN /\ c.block \in BOOLEAN
  BY ApprovalAssumption DEF ApprovalAssumption
<1>3. \A x \in Chosen(c) : x \in DOMAIN sets /\ sets[x].kind = "rules"
  BY DEF Chosen, get_latest_approved, RunnableSets
<1>4. load_for_run(c) \subseteq DOMAIN sets /\ refused \subseteq DOMAIN sets
  BY <1>3 DEF load_for_run, Unapproved
<1>5. run' \in [require : BOOLEAN, block : BOOLEAN, refused : SUBSET DOMAIN sets,
                 taken : SUBSET DOMAIN sets, failed : BOOLEAN]
  BY <1>1, <1>2, <1>4
<1>6. ApprovalTypeOK'
  BY <1>1, <1>5 DEF Inv, ApprovalTypeOK
<1>7. RunsTakeAgreed'
  <2> SUFFICES ASSUME c.require, NEW x \in load_for_run(c)
               PROVE  sets[x].kind = "rules" /\ Agreed(x, Len(log))
    BY <1>1 DEF RunsTakeAgreed, Agreed
  <2>1. x \in Ids /\ sets[x].kind = "rules" /\ state[x] \in Runnable
    BY <1>3, <1>4, SetsAreIds DEF load_for_run, Unapproved, Inv
  <2>2. Been(x, state[x], Len(log)) /\ Len(log) \in 0..Len(log) /\ log \in Seq(Entry)
    BY <2>1, StateWasReached, Shapes DEF Inv
  <2>3. Agreed(x, Len(log))
    BY <2>1, <2>2, TrailAgrees DEF Runnable, Inv, Entry
  <2> QED
    BY <2>1, <2>3
<1>8. Fresh' /\ (\A i \in DOMAIN log : Allowed(i))' /\ (\A x \in Ids : StateOK(x))'
  BY <1>1 DEF Inv, Fresh, Allowed, StateOK, Been, Since
<1>9. VersionsAreSuccessive'
  BY <1>1 DEF Inv, VersionsAreSuccessive, VersionsOf
<1>10. TargetTakesSignedOff'
  BY <1>1 DEF Inv, TargetTakesSignedOff, SignedOff, Agreed
<1>11. MixedOnlyIfOverlapping'
  BY <1>1 DEF Inv, MixedOnlyIfOverlapping
<1>12. (\A s \in Sessions : JobOK(jobs[s]))'
  BY <1>1 DEF Inv, JobOK, Knows, Been, Since, VersionsOf
<1> QED
  BY <1>6, <1>7, <1>8, <1>9, <1>10, <1>11, <1>12 DEF Inv

-----------------------------------------------------------------------------
(* The invariant and what follows from it                                   *)

LEMMA Initially == Init => Inv
<1> SUFFICES ASSUME Init PROVE Inv
  OBVIOUS
<1>1. MaxSets \in Nat /\ Len(sets) = 0 /\ DOMAIN sets = {} /\ Len(log) = 0 /\ Len(commits) = 0
  BY ApprovalAssumption DEF Init, ApprovalAssumption
<1>2. ApprovalTypeOK
  BY <1>1, IdleOK DEF Init, ApprovalTypeOK, NoRun, MappingWorkflowState
<1>3. Fresh /\ (\A i \in DOMAIN log : Allowed(i)) /\ (\A x \in Ids : StateOK(x))
  BY <1>1 DEF Init, Fresh, StateOK, Since
<1>4. \A s \in Sessions : JobOK(jobs[s])
  BY IdleOK DEF Init
<1>5. VersionsAreSuccessive
  <2>1. \A kind \in Kinds : VersionsOf(kind) = 1..0
    BY <1>1 DEF VersionsOf
  <2> QED
    BY <1>1, <2>1 DEF VersionsAreSuccessive
<1>6. TargetTakesSignedOff /\ RunsTakeAgreed /\ MixedOnlyIfOverlapping
  BY DEF Init, TargetTakesSignedOff, RunsTakeAgreed, MixedOnlyIfOverlapping, NoRun
<1> QED
  BY <1>2, <1>3, <1>4, <1>5, <1>6 DEF Inv

LEMMA Unmoved == ASSUME Inv, UNCHANGED vars PROVE Inv'
<1>1. ApprovalTypeOK' /\ Fresh' /\ (\A i \in DOMAIN log : Allowed(i))' /\ (\A x \in Ids : StateOK(x))'
  BY DEF Inv, vars, ApprovalTypeOK, Fresh, Allowed, StateOK, Been, Since
<1>2. (\A s \in Sessions : JobOK(jobs[s]))'
  BY DEF Inv, vars, JobOK, Knows, Been, Since, VersionsOf
<1>3. VersionsAreSuccessive' /\ MixedOnlyIfOverlapping'
  BY DEF Inv, vars, VersionsAreSuccessive, VersionsOf, MixedOnlyIfOverlapping
<1>4. TargetTakesSignedOff' /\ RunsTakeAgreed'
  BY DEF Inv, vars, TargetTakesSignedOff, RunsTakeAgreed, SignedOff, Agreed
<1> QED
  BY <1>1, <1>2, <1>3, <1>4 DEF Inv

LEMMA EveryStep == Inv /\ [Next]_vars => Inv'
<1> SUFFICES ASSUME Inv, [Next]_vars PROVE Inv'
  OBVIOUS
<1>1. ASSUME NEW s \in Sessions, Step(s) PROVE Inv'
  <2>1. CASE (\E kind \in Kinds, seed \in BOOLEAN : create_set(s, kind, seed)) \/ seed_defaults(s)
    BY <2>1, Creation
  <2>2. CASE Insert(s)
    BY <2>2, Insertion
  <2>3. CASE \E x \in Ids : Open(s, x)
    BY <2>3, Opening
  <2>4. CASE \E any \in BOOLEAN : upsert_mappings(s, any) \/ apply_mappings_to_rule_set(s, any)
    BY <2>4, Saving
  <2>5. CASE add_validation_rule(s, "format")
    BY <2>5, AddingRule
  <2>6. CASE add_field_mapping(s) \/ add_mapping(s)
    BY <2>6, Adding
  <2>7. CASE \E target \in MappingWorkflowState, role \in Roles : transition(s, target, role)
    BY <2>7, Moving
  <2>8. CASE seed_account_defaults(s)
    BY <2>8, Seeding
  <2>9. CASE \E arrived \in SUBSET jobs[s].rows, raised \in BOOLEAN : import_products(s, arrived, raised)
    BY <2>9, Importing
  <2>10. CASE load_signed_off(s)
    BY <2>10, MarkingLoaded
  <2>11. CASE Abandon(s)
    BY <2>11, EndStep, Quiet DEF Abandon
  <2> QED
    BY <1>1, <2>1, <2>2, <2>3, <2>4, <2>5, <2>6, <2>7, <2>8, <2>9, <2>10, <2>11 DEF Step
<1> QED
  BY <1>1, Running, Unmoved DEF Next

LEMMA Invariance == Spec => []Inv
BY Initially, EveryStep, PTL DEF Spec

\* Types, and that loads and products are those of tariff sets.
THEOREM ApprovalTypes == Spec => []ApprovalTypeOK
<1>1. Inv => ApprovalTypeOK
  BY DEF Inv
<1> QED
  BY <1>1, Invariance, PTL

\* A set is signed off only by a product owner, after somebody entitled to approved it,
\* however stale the states were on which the requests decided.
THEOREM SignOffFollowsApproval == Spec => []SignedOffWasAgreed
<1>1. Inv => SignedOffWasAgreed
  <2> SUFFICES ASSUME Inv, NEW x \in Ids, state[x] = "signed_off" PROVE SignedOff(x, Len(log))
    BY DEF SignedOffWasAgreed
  <2>1. Been(x, "signed_off", Len(log)) /\ Len(log) \in 0..Len(log) /\ log \in Seq(Entry)
    BY StateWasReached, Shapes DEF Inv
  <2> QED
    BY <2>1, TrailAgrees DEF Inv, Entry
<1> QED
  BY <1>1, Invariance, PTL

\* The approvals recorded and the states of the sets agree, and every approval starts
\* from a state its set has been in.
THEOREM TrailIsTrue == Spec => []ApprovalTrail
<1>1. Inv => ApprovalTrail
  BY DEF Inv, ApprovalTrail, StateOK, Allowed
<1> QED
  BY <1>1, Invariance, PTL

\* Versions of one kind are successive and unique, however many creations race.
THEOREM Versions == Spec => []VersionsAreSuccessive
<1>1. Inv => VersionsAreSuccessive
  BY DEF Inv
<1> QED
  BY <1>1, Invariance, PTL

\* A run that requires approval applies no set that nobody approved, and goes on without
\* the one it was given only if its configuration does not block it.
THEOREM RunsTakeApproved == Spec => []RunsTakeAgreed
<1>1. Inv => RunsTakeAgreed
  BY DEF Inv
<1> QED
  BY <1>1, Invariance, PTL

\* The destination receives only tariffs of sets that were signed off.
THEOREM TargetTakesOnlySignedOff == Spec => []TargetTakesSignedOff
<1>1. Inv => TargetTakesSignedOff
  BY DEF Inv
<1> QED
  BY <1>1, Invariance, PTL

\* Saved matrices are mixed only by requests that overlapped.
THEOREM MixedMatricesOverlapped == Spec => []MixedOnlyIfOverlapping
<1>1. Inv => MixedOnlyIfOverlapping
  BY DEF Inv
<1> QED
  BY <1>1, Invariance, PTL

-----------------------------------------------------------------------------
(* The lock                                                                 *)

\* Who may write to a locked set by what it read has read it before it was locked.
LEMMA StaleReader ==
    ASSUME Inv, NEW s \in Sessions, jobs[s].op \in Held,
           jobs[s].state \in Editable, state[jobs[s].set] \notin Editable
    PROVE  EarlierReader(s, jobs[s].set)
BY Quiet DEF JobOK, Knows, EarlierReader

\* A commit leaves what was checked alone, unless it takes rows away or is checked itself.
LEMMA WriteLeaves ==
    ASSUME Inv, NEW s \in Sessions, jobs[s].op \in Held, NEW x \in Ids,
           NEW gone, NEW adds \in BOOLEAN, NEW whole \in BOOLEAN, NEW checked \in BOOLEAN,
           Write(s, gone, adds, whole, checked), jobs[s].set # x \/ (gone = {} /\ ~checked)
    PROVE  Checked(x)' = Checked(x)
<1> DEFINE n == Len(commits) + 1
<1>1. /\ jobs[s].set \in Ids /\ Len(commits) \in Nat /\ DOMAIN commits = 1..Len(commits)
      /\ rows \in [Ids -> SUBSET DOMAIN commits]
      /\ commits \in Seq([set : Ids, readAt : Nat, whole : BOOLEAN, checked : BOOLEAN])
  BY Quiet, Shapes, SetsAreIds DEF Inv, ApprovalTypeOK, JobOK, Knows
<1>2. /\ commits' = Append(commits, [set |-> jobs[s].set, readAt |-> jobs[s].readAt,
                                     whole |-> whole, checked |-> checked])
      /\ rows' = [rows EXCEPT ![jobs[s].set] = (@ \ gone) \cup (IF adds THEN {n} ELSE {})]
  BY DEF Write
<1>3. commits'[n].checked = checked /\ \A m \in 1..Len(commits) : commits'[m] = commits[m]
  BY <1>1, <1>2
<1>4. \A m \in rows[x] : m \in 1..Len(commits) /\ commits'[m].checked = commits[m].checked
  BY <1>1, <1>3
<1>5. CASE jobs[s].set # x
  BY <1>1, <1>2, <1>4, <1>5 DEF Checked
<1>6. CASE jobs[s].set = x /\ gone = {} /\ ~checked
  <2>1. rows'[x] = rows[x] \/ rows'[x] = rows[x] \cup {n}
    BY <1>1, <1>2, <1>6
  <2>2. ~commits'[n].checked
    BY <1>3, <1>6
  <2> QED
    BY <1>4, <2>1, <2>2 DEF Checked
<1> QED
  BY <1>5, <1>6

LEMMA LockStep ==
    ASSUME Inv, Next, NEW x \in Ids, state[x] \notin Editable, \A s \in Sessions : ~EarlierReader(s, x)
    PROVE  Checked(x)' = Checked(x)
<1>1. CASE UNCHANGED <<rows, commits>>
  BY <1>1 DEF Checked
<1>2. ASSUME NEW s \in Sessions, NEW any \in BOOLEAN,
             upsert_mappings(s, any) \/ apply_mappings_to_rule_set(s, any)
      PROVE  Checked(x)' = Checked(x)
  <2>1. jobs[s].op \in Held /\ jobs[s].state \in Editable /\ Write(s, jobs[s].rows, any, TRUE, TRUE)
    BY <1>2 DEF upsert_mappings, apply_mappings_to_rule_set, Replace, OfKind, Held
  <2>2. jobs[s].set # x
    BY <2>1, StaleReader
  <2> QED
    BY <2>1, <2>2, WriteLeaves
<1>3. ASSUME NEW s \in Sessions, NEW checked \in BOOLEAN, jobs[s].op \in Held,
             Write(s, {}, TRUE, FALSE, checked), checked => jobs[s].state \in Editable
      PROVE  Checked(x)' = Checked(x)
  <2>1. jobs[s].set # x \/ ~checked
    BY <1>3, StaleReader
  <2> QED
    BY <1>3, <2>1, WriteLeaves
<1>4. ASSUME NEW s \in Sessions, add_field_mapping(s) \/ add_mapping(s) PROVE Checked(x)' = Checked(x)
  BY <1>3, <1>4 DEF add_field_mapping, add_mapping, OfKind, Held
<1>5. ASSUME NEW s \in Sessions, seed_account_defaults(s) PROVE Checked(x)' = Checked(x)
  <2>1. CASE SeedMapping(s)
    <3>1. PICK checked \in BOOLEAN : Write(s, {}, TRUE, FALSE, checked) /\ (checked => jobs[s].state \in Editable)
      BY <2>1 DEF SeedMapping
    <3> QED
      BY <1>3, <1>5, <3>1 DEF seed_account_defaults, Held
  <2>2. CASE SeedRule(s) \/ SeedTransition(s) \/ SeedRefresh(s)
    BY <1>1, <2>2 DEF SeedRule, SeedTransition, SeedRefresh, Record
  <2> QED
    BY <1>5, <2>1, <2>2 DEF seed_account_defaults
<1>6. ASSUME NEW s \in Sessions,
             \/ \E kind \in Kinds, seed \in BOOLEAN : create_set(s, kind, seed)
             \/ seed_defaults(s) \/ Insert(s) \/ \E y \in Ids : Open(s, y)
             \/ add_validation_rule(s, "format")
             \/ \E target \in MappingWorkflowState, role \in Roles : transition(s, target, role)
             \/ \E arrived \in SUBSET jobs[s].rows, raised \in BOOLEAN : import_products(s, arrived, raised)
             \/ load_signed_off(s) \/ Abandon(s)
      PROVE  UNCHANGED <<rows, commits>>
  BY <1>6 DEF create_set, seed_defaults, Insert, Open, add_validation_rule, transition, Record,
              import_products, Import, load_signed_off, Abandon
<1>7. ASSUME NEW c \in RunConfigs, execute_run(c) PROVE UNCHANGED <<rows, commits>>
  BY <1>7 DEF execute_run
<1>8. ASSUME NEW s \in Sessions, Step(s) PROVE Checked(x)' = Checked(x)
  BY <1>8, <1>1, <1>2, <1>4, <1>5, <1>6 DEF Step
<1> QED
  BY <1>1, <1>7, <1>8 DEF Next

-----------------------------------------------------------------------------
(* The seed                                                                 *)

\* Before a seed approves the set, each of its rules is there or comes first.
RulesFirst(todo, there) ==
    \A i \in DOMAIN todo : todo[i] = "approved" =>
        \A r \in SeedRules : r \in there \/ \E k \in 1..(i - 1) : todo[k] = r

SeedOK(j) ==
    /\ j.op \in {"wanting", "creating"} => RulesFirst(j.todo, {})
    /\ j.op = "seeding" => RulesFirst(j.todo, rules[j.set])

SeedInv == (\A s \in Sessions : SeedOK(jobs[s])) /\ SeedApprovesAllRules

LEMMA SeedsAreOrdered ==
    RulesFirst(<<>>, {}) /\ RulesFirst(TariffSeed, {}) /\ RulesFirst(AccountSeed, {})
<1>1. RulesFirst(<<>>, {})
  BY DEF RulesFirst
<1>2. RulesFirst(TariffSeed, {})
  BY DEF RulesFirst, TariffSeed
<1>3. RulesFirst(AccountSeed, {})
  <2> DEFINE p == <<"format", "in_list", "unique">>
             q == <<"in_review", "refresh", "approved">>
  <2>1. p \in Seq(SeedStep) /\ TariffSeed \in Seq(SeedStep) /\ q \in Seq(SeedStep)
    BY SeedLists DEF SeedStep, SeedRules
  <2>2. Len(p) = 3 /\ p[1] = "format" /\ p[2] = "in_list" /\ p[3] = "unique"
    OBVIOUS
  <2>3. (p \o TariffSeed) \in Seq(SeedStep)
    BY <2>1
  <2>4. AccountSeed = (p \o TariffSeed) \o q
    BY DEF AccountSeed
  <2>5. Len(TariffSeed) \in Nat /\ Len(q) = 3
    BY <2>1
  <2>6. Len(p \o TariffSeed) = 3 + Len(TariffSeed)
    BY <2>1, <2>2
  <2>7. \A i \in 1..3 : (p \o TariffSeed)[i] = p[i]
    BY <2>1, <2>2
  <2>8. \A i \in 1..3 : AccountSeed[i] = p[i]
    BY <2>3, <2>1, <2>4, <2>5, <2>6, <2>7
  <2>9. AccountSeed[1] = "format" /\ AccountSeed[2] = "in_list" /\ AccountSeed[3] = "unique"
    BY <2>2, <2>8
  <2>10. DOMAIN AccountSeed = 1..Len(AccountSeed) /\ Len(AccountSeed) \in Nat
    BY SeedLists
  <2> SUFFICES ASSUME NEW i \in DOMAIN AccountSeed, AccountSeed[i] = "approved", NEW r \in SeedRules
               PROVE  \E k \in 1..(i - 1) : AccountSeed[k] = r
    BY DEF RulesFirst
  <2>11. i > 3
    BY <2>9, <2>10
  <2> QED
    BY <2>9, <2>10, <2>11 DEF SeedRules
<1> QED
  BY <1>1, <1>2, <1>3

\* One step done, the rest is still in order.
LEMMA RestIsOrdered ==
    ASSUME NEW todo \in Seq(SeedStep), todo # <<>>, NEW there, NEW then, there \subseteq then,
           RulesFirst(todo, there), Head(todo) \in SeedRules => Head(todo) \in then
    PROVE  RulesFirst(Tail(todo), then)
<1>1. /\ Len(todo) \in Nat \ {0} /\ DOMAIN todo = 1..Len(todo) /\ Head(todo) = todo[1]
      /\ DOMAIN Tail(todo) = 1..(Len(todo) - 1)
      /\ \A i \in 1..(Len(todo) - 1) : Tail(todo)[i] = todo[i + 1]
  OBVIOUS
<1> SUFFICES ASSUME NEW i \in 1..(Len(todo) - 1), Tail(todo)[i] = "approved", NEW r \in SeedRules, r \notin then
             PROVE  \E k \in 1..(i - 1) : Tail(todo)[k] = r
  BY <1>1 DEF RulesFirst
<1>2. (i + 1) \in DOMAIN todo /\ todo[i + 1] = "approved"
  BY <1>1
<1>3. PICK k \in 1..i : todo[k] = r
  BY <1>2 DEF RulesFirst
<1>4. k # 1
  BY <1>1, <1>3
<1>5. (k - 1) \in 1..(i - 1) /\ Tail(todo)[k - 1] = r
  BY <1>1, <1>3, <1>4
<1> QED
  BY <1>5

LEMMA RulesFirstMore ==
    ASSUME NEW todo, NEW there, NEW then, there \subseteq then, RulesFirst(todo, there)
    PROVE  RulesFirst(todo, then)
BY DEF RulesFirst

LEMMA Appended ==
    ASSUME NEW S, NEW q \in Seq(S), NEW e \in S
    PROVE  /\ Len(Append(q, e)) = Len(q) + 1 /\ DOMAIN Append(q, e) = 1..(Len(q) + 1)
           /\ Append(q, e)[Len(q) + 1] = e /\ \A i \in 1..Len(q) : Append(q, e)[i] = q[i]
OBVIOUS

LEMMA EntrySets == ASSUME NEW q \in Seq(Entry) PROVE \A i \in DOMAIN q : q[i].set \in Ids
<1>1. \A i \in DOMAIN q : q[i] \in Entry
  OBVIOUS
<1>2. \A e \in Entry : e.set \in Ids
  BY DEF Entry
<1> QED
  BY <1>1, <1>2

\* What every step keeps: rules are only added, and what the seed approves is complete.
LEMMA SeedFrame ==
    ASSUME Inv, SeedInv, NEW s \in Sessions, NEW j, SeedOK(j)', jobs' = [jobs EXCEPT ![s] = j],
           \A x \in Ids : rules[x] \subseteq rules'[x],
           \/ log' = log
           \/ \E e \in Entry : /\ log' = Append(log, e)
                               /\ e.actor = "seed" /\ e.to = "approved" => SeedRules \subseteq rules[e.set]
    PROVE  SeedInv'
<1>1. (\A r \in Sessions : SeedOK(jobs[r]))'
  <2> SUFFICES ASSUME NEW r \in Sessions PROVE SeedOK(jobs[r])'
    OBVIOUS
  <2>1. jobs \in [Sessions -> TypeOfJob]
    BY DEF Inv, ApprovalTypeOK
  <2>2. CASE r = s
    <3>1. jobs'[r] = j
      BY <2>1, <2>2
    <3> QED
      BY <3>1 DEF SeedOK
  <2>3. CASE r # s
    <3>1. PICK k \in TypeOfJob : k = jobs[r] /\ jobs'[r] = k /\ JobOK(k) /\ SeedOK(k)
      BY <2>1, <2>3, Quiet DEF SeedInv
    <3>2. CASE k.op = "seeding"
      <4>1. k.set \in Ids
        BY <3>1, <3>2, SetsAreIds DEF JobOK, Held, Knows, Inv
      <4>2. rules[k.set] \subseteq rules'[k.set] /\ RulesFirst(k.todo, rules[k.set])
        BY <3>1, <3>2, <4>1 DEF SeedOK
      <4>3. RulesFirst(k.todo, rules'[k.set])
        BY <4>2, RulesFirstMore
      <4> QED
        BY <3>1, <3>2, <4>3 DEF SeedOK
    <3>3. CASE k.op # "seeding"
      BY <3>1, <3>3 DEF SeedOK
    <3> QED
      BY <3>2, <3>3
  <2> QED
    BY <2>2, <2>3
<1>2. SeedApprovesAllRules'
  <2>1. log \in Seq(Entry) /\ Len(log) \in Nat /\ DOMAIN log = 1..Len(log)
    BY Shapes DEF Inv
  <2>2. \A i \in DOMAIN log : log[i].set \in Ids
    BY <2>1, EntrySets
  <2>3. \A i \in DOMAIN log : log[i].actor = "seed" /\ log[i].to = "approved" => SeedRules \subseteq rules'[log[i].set]
    BY <2>2 DEF SeedInv, SeedApprovesAllRules
  <2>4. CASE log' = log
    BY <2>3, <2>4 DEF SeedApprovesAllRules
  <2>5. ASSUME NEW e \in Entry, log' = Append(log, e),
               e.actor = "seed" /\ e.to = "approved" => SeedRules \subseteq rules[e.set]
        PROVE  SeedApprovesAllRules'
    <3>1. Len(log') = Len(log) + 1 /\ DOMAIN log' = 1..(Len(log) + 1)
      BY <2>1, <2>5, Appended
    <3>2. /\ Append(log, e)[Len(log) + 1] = e
          /\ \A i \in 1..Len(log) : Append(log, e)[i] = log[i]
      BY <2>1, Appended
    <3>3. log'[Len(log) + 1] = e /\ \A i \in 1..Len(log) : log'[i] = log[i]
      BY <2>5, <3>2, Zenon
    <3>4. ASSUME NEW i \in DOMAIN log', log'[i].actor = "seed", log'[i].to = "approved"
          PROVE  SeedRules \subseteq rules'[log'[i].set]
      <4>1. CASE i \in 1..Len(log)
        <5>1. log'[i] = log[i] /\ i \in DOMAIN log
          BY <2>1, <3>3, <4>1
        <5>2. log[i].actor = "seed" /\ log[i].to = "approved"
          BY <3>4, <5>1, Zenon
        <5>3. SeedRules \subseteq rules'[log[i].set]
          BY <2>3, <5>1, <5>2, Zenon
        <5> QED
          BY <5>1, <5>3, Zenon
      <4>2. CASE i = Len(log) + 1
        <5>1. log'[i] = e
          BY <3>3, <4>2
        <5>2. e.actor = "seed" /\ e.to = "approved"
          BY <3>4, <5>1, Zenon
        <5>3. SeedRules \subseteq rules[e.set] /\ e.set \in Ids
          BY <2>5, <5>2 DEF Entry
        <5>4. SeedRules \subseteq rules'[e.set]
          BY <5>3
        <5> QED
          BY <5>1, <5>4, Zenon
      <4> QED
        BY <2>1, <3>1, <3>4, <4>1, <4>2
    <3> QED
      BY <3>4 DEF SeedApprovesAllRules
  <2> QED
    BY <2>4, <2>5
<1> QED
  BY <1>1, <1>2 DEF SeedInv

LEMMA SeedEnds ==
    ASSUME Inv, SeedInv, NEW s \in Sessions, End(s), \A x \in Ids : rules[x] \subseteq rules'[x],
           \/ log' = log
           \/ \E e \in Entry : log' = Append(log, e) /\ e.actor = "user"
    PROVE  SeedInv'
<1>1. SeedOK(Idle)' /\ jobs' = [jobs EXCEPT ![s] = Idle]
  BY DEF SeedOK, Idle, Job, End
<1> QED
  BY <1>1, SeedFrame

LEMMA SeedCreates ==
    ASSUME Inv, SeedInv, NEW s \in Sessions,
           (\E kind \in Kinds, seed \in BOOLEAN : create_set(s, kind, seed)) \/ seed_defaults(s)
    PROVE  SeedInv'
<1>1. UNCHANGED <<rules, log>>
  BY DEF create_set, seed_defaults
<1> DEFINE Created ==
             \E todo, op, kind, number :
                 /\ RulesFirst(todo, {}) /\ op \in {"wanting", "creating"}
                 /\ jobs' = [jobs EXCEPT ![s] = Job(op, kind, number, todo)]
<1>2. Created
  <2>1. CASE seed_defaults(s)
    BY <2>1, SeedsAreOrdered DEF seed_defaults
  <2>2. ASSUME NEW kind \in Kinds, NEW seed \in BOOLEAN, create_set(s, kind, seed)
        PROVE  Created
    <3>1. PICK todo : todo = IF seed THEN AccountSeed ELSE <<>>
      OBVIOUS
    <3> QED
      BY <2>2, <3>1, SeedsAreOrdered DEF create_set
  <2> QED
    BY <2>1, <2>2
<1>3. PICK todo, op, kind, number :
           /\ RulesFirst(todo, {}) /\ op \in {"wanting", "creating"}
           /\ jobs' = [jobs EXCEPT ![s] = Job(op, kind, number, todo)]
  BY <1>2
<1>4. PICK j : j = Job(op, kind, number, todo)
  OBVIOUS
<1>5. SeedOK(j)'
  BY <1>3, <1>4 DEF SeedOK, Job
<1> QED
  BY <1>1, <1>3, <1>4, <1>5, SeedFrame

LEMMA SeedInserts == ASSUME Inv, SeedInv, NEW s \in Sessions, Insert(s) PROVE SeedInv'
<1>1. jobs[s].op = "creating" /\ UNCHANGED <<rules, log>>
  BY DEF Insert
<1>2. CASE End(s)
  BY <1>1, <1>2, SeedEnds
<1>3. CASE jobs' = [jobs EXCEPT ![s] = Read("seeding", Len(sets) + 1, "draft", jobs[s].todo)]
  <2>1. PICK j : j = Read("seeding", Len(sets) + 1, "draft", jobs[s].todo)
    OBVIOUS
  <2>2. RulesFirst(jobs[s].todo, {})
    BY <1>1 DEF SeedInv, SeedOK
  <2>3. RulesFirst(jobs[s].todo, rules[j.set])
    BY <2>2, RulesFirstMore
  <2>4. SeedOK(j)'
    BY <1>1, <2>1, <2>3 DEF SeedOK, Read
  <2> QED
    BY <1>1, <1>3, <2>1, <2>4, SeedFrame
<1> QED
  BY <1>2, <1>3 DEF Insert

LEMMA SeedGoesOn ==
    ASSUME Inv, SeedInv, NEW s \in Sessions, seed_account_defaults(s)
    PROVE  SeedInv'
<1> DEFINE x == jobs[s].set
           todo == jobs[s].todo
<1>1. jobs[s].op = "seeding" /\ todo \in Seq(SeedStep) /\ todo # <<>> /\ x \in Ids
  BY Rest DEF seed_account_defaults
<1>2. RulesFirst(todo, rules[x]) /\ rules \in [Ids -> SUBSET SeedRules]
  BY <1>1, Quiet DEF SeedInv, SeedOK
<1>3. /\ \A y \in Ids : rules[y] \subseteq rules'[y]
      /\ Head(todo) \in SeedRules => Head(todo) \in rules'[x]
  BY <1>1, <1>2 DEF seed_account_defaults, SeedRule, SeedMapping, SeedTransition, SeedRefresh,
                    SeedRole, SeedRules, Write, Record
<1>4. RulesFirst(Tail(todo), rules'[x])
  BY <1>1, <1>2, <1>3, RestIsOrdered
<1>5. \E j : SeedOK(j)' /\ jobs' = [jobs EXCEPT ![s] = j]
  <2>1. PICK seen, asOf : Proceed(s, seen, asOf)
    BY DEF seed_account_defaults, SeedRule, SeedMapping, SeedTransition, SeedRefresh
  <2>2. CASE Tail(todo) = <<>>
    BY <2>1, <2>2 DEF Proceed, SeedOK, Idle, Job
  <2>3. CASE Tail(todo) # <<>>
    <3>1. PICK j : j = Continue(jobs[s], "seeding", seen, asOf, Tail(todo))
      OBVIOUS
    <3>2. SeedOK(j)'
      BY <1>4, <3>1 DEF SeedOK, Continue
    <3> QED
      BY <2>1, <2>3, <3>1, <3>2 DEF Proceed
  <2> QED
    BY <2>2, <2>3
<1>6. \/ log' = log
      \/ \E e \in Entry : /\ log' = Append(log, e)
                          /\ e.actor = "seed" /\ e.to = "approved" => SeedRules \subseteq rules[e.set]
  <2>1. CASE SeedTransition(s)
    <3>1. PICK e : /\ e = [set |-> x, from |-> jobs[s].state, to |-> Head(todo),
                           role |-> SeedRole[Head(todo)], actor |-> "seed"]
                   /\ log' = Append(log, e)
      BY <2>1 DEF SeedTransition, Record
    <3>2. e.set = x /\ e.to = Head(todo)
      BY <3>1
    <3>3. e \in Entry
      BY <1>1, <2>1, <3>1, Rest DEF SeedTransition, SeedRole, Entry, MappingWorkflowState, MappingRole
    <3>4. Head(todo) = "approved" => SeedRules \subseteq rules[x]
      BY <1>1, <1>2 DEF RulesFirst
    <3> QED
      BY <3>1, <3>2, <3>3, <3>4
  <2>2. CASE SeedRule(s) \/ SeedMapping(s) \/ SeedRefresh(s)
    BY <2>2 DEF SeedRule, SeedMapping, SeedRefresh, Write
  <2> QED
    BY <2>1, <2>2 DEF seed_account_defaults
<1> QED
  BY <1>3, <1>5, <1>6, SeedFrame

LEMMA SeedOthers ==
    ASSUME Inv, SeedInv, NEW s \in Sessions, NEW j, jobs' = [jobs EXCEPT ![s] = j],
           j.op \notin {"wanting", "creating", "seeding"}, UNCHANGED <<rules, log>>
    PROVE  SeedInv'
<1>1. SeedOK(j)'
  BY DEF SeedOK
<1> QED
  BY <1>1, SeedFrame

LEMMA SeedStepInv == Inv /\ SeedInv /\ [Next]_vars => SeedInv'
<1> SUFFICES ASSUME Inv, SeedInv, [Next]_vars PROVE SeedInv'
  OBVIOUS
<1>1. ASSUME NEW s \in Sessions, Step(s) PROVE SeedInv'
  <2>1. CASE (\E kind \in Kinds, seed \in BOOLEAN : create_set(s, kind, seed)) \/ seed_defaults(s)
    BY <2>1, SeedCreates
  <2>2. CASE Insert(s)
    BY <2>2, SeedInserts
  <2>3. ASSUME NEW x \in Ids, Open(s, x) PROVE SeedInv'
    <3>1. PICK j : j = Read("open", x, state[x], <<>>)
      OBVIOUS
    <3>2. j.op = "open"
      BY <3>1 DEF Read
    <3> QED
      BY <2>3, <3>1, <3>2, SeedOthers DEF Open
  <2>4. CASE \/ \E any \in BOOLEAN : upsert_mappings(s, any) \/ apply_mappings_to_rule_set(s, any)
             \/ add_field_mapping(s) \/ add_mapping(s) \/ load_signed_off(s) \/ Abandon(s)
    <3>1. End(s) /\ UNCHANGED <<rules, log>>
      BY <2>4 DEF upsert_mappings, apply_mappings_to_rule_set, Replace, Write, add_field_mapping,
                  add_mapping, load_signed_off, Abandon
    <3> QED
      BY <3>1, SeedEnds
  <2>5. CASE add_validation_rule(s, "format")
    <3>1. End(s) /\ log' = log /\ \A x \in Ids : rules[x] \subseteq rules'[x]
      BY <2>5, Quiet DEF add_validation_rule
    <3> QED
      BY <3>1, SeedEnds
  <2>6. ASSUME NEW target \in MappingWorkflowState, NEW role \in Roles, transition(s, target, role)
        PROVE  SeedInv'
    <3>1. PICK e : /\ e = [set |-> jobs[s].set, from |-> jobs[s].state, to |-> target, role |-> role, actor |-> "user"]
                   /\ log' = Append(log, e) /\ End(s) /\ rules' = rules
      BY <2>6 DEF transition, Record
    <3>2. jobs[s].set \in Ids /\ jobs[s].state \in MappingWorkflowState /\ role \in MappingRole
      BY <2>6, Quiet, SetsAreIds, ApprovalAssumption
      DEF transition, JobOK, Held, Knows, Inv, TypeOfJob, ApprovalAssumption
    <3>3. e \in Entry /\ e.actor = "user"
      BY <3>1, <3>2 DEF Entry
    <3> QED
      BY <3>1, <3>3, SeedEnds
  <2>7. CASE seed_account_defaults(s)
    BY <2>7, SeedGoesOn
  <2>8. ASSUME NEW arrived \in SUBSET jobs[s].rows, NEW raised \in BOOLEAN, import_products(s, arrived, raised)
        PROVE  SeedInv'
    <3>1. PICK j : /\ j = IF raised THEN Idle ELSE Continue(jobs[s], "importing", jobs[s].state, jobs[s].asOf, <<>>)
                   /\ jobs' = [jobs EXCEPT ![s] = j] /\ UNCHANGED <<rules, log>>
      BY <2>8 DEF import_products, Import
    <3>2. j.op \in {"idle", "importing"}
      BY <3>1 DEF Idle, Job, Continue
    <3> QED
      BY <3>1, <3>2, SeedOthers
  <2> QED
    BY <1>1, <2>1, <2>2, <2>3, <2>4, <2>5, <2>6, <2>7, <2>8 DEF Step
<1>2. ASSUME NEW c \in RunConfigs, execute_run(c) PROVE SeedInv'
  BY <1>2 DEF execute_run, SeedInv, SeedOK, SeedApprovesAllRules
<1>3. CASE UNCHANGED vars
  BY <1>3 DEF vars, SeedInv, SeedOK, SeedApprovesAllRules
<1> QED
  BY <1>1, <1>2, <1>3 DEF Next

\* Once those who had read a set before its approval are through, what the code checks
\* before it saves stands still until the set is reopened.
THEOREM LockHolds == Spec => LockHoldsOnceReadersAreGone
<1>1. ASSUME Inv, [Next]_vars, NEW x \in Ids, state[x] \notin Editable,
             \A s \in Sessions : ~EarlierReader(s, x)
      PROVE  Checked(x)' = Checked(x)
  <2>1. CASE UNCHANGED vars
    BY <2>1 DEF vars, Checked
  <2> QED
    BY <1>1, <2>1, LockStep
<1>2. Inv /\ [Next]_vars =>
        [\A x \in Ids : /\ state[x] \notin Editable
                        /\ \A s \in Sessions : ~EarlierReader(s, x)
                        => Checked(x)' = Checked(x)]_vars
  BY <1>1
<1> QED
  BY <1>2, Invariance, PTL DEF Spec, LockHoldsOnceReadersAreGone

\* A set that the seed has approved has all its rules, whenever the seed was cut short.
THEOREM SeededSetsAreWhole == Spec => []SeedApprovesAllRules
<1>1. Init => SeedInv
  BY DEF Init, SeedInv, SeedOK, Idle, Job, SeedApprovesAllRules
<1>2. SeedInv => SeedApprovesAllRules
  BY DEF SeedInv
<1> QED
  BY <1>1, <1>2, SeedStepInv, Invariance, PTL DEF Spec

=============================================================================

--------------------------- MODULE ApprovalWorkflow ---------------------------
(***************************************************************************)
(* The agreement on mappings: rule sets (validation rules and a matrix of  *)
(* field mappings) and tariff sets of one project, the approvals they go   *)
(* through (workflow/, rules/, mapping/, fields/, tariff/), and what runs  *)
(* and tariff loads then take from them.                                   *)
(*                                                                         *)
(* A request reads the set it is about when it begins and commits, if at   *)
(* all, later: nothing is locked in between, and an update of the state is *)
(* by primary key.  A mapping row is known by the commit that wrote it, so *)
(* one row stands for all the mappings of one commit.                      *)
(***************************************************************************)
EXTENDS Integers, Sequences, FiniteSetsExt

CONSTANTS Sessions,     \* concurrent requests
          Kinds,        \* kinds of sets in use: rules, tariff
          Roles,        \* roles people act in
          RunConfigs,   \* configurations a run may be executed with
          SeedMappings, \* mappings of a seeded set, three in the code
          MaxSets,
          MaxWrites     \* approvals and commits of rows, by the number of sets

MappingRole == {"mapping_lead", "business_analyst", "product_owner"}

ASSUME ApprovalAssumption ==
    /\ Sessions # {} /\ Kinds \subseteq {"rules", "tariff"} /\ Roles \subseteq MappingRole
    /\ MaxSets \in Nat /\ SeedMappings \in Nat \ {0} /\ MaxWrites \in [1..MaxSets -> Nat]
    /\ \A c \in RunConfigs : /\ c.rule_set_id \in 0..MaxSets
                             /\ {c.use_rules, c.require, c.block} \subseteq BOOLEAN

VARIABLES sets,      \* the committed sets, oldest first: kind, version, name
          state,     \* workflow_state of each
          rules,     \* the validation rules of each
          rows,      \* the mapping rows of each, by the commit that wrote them
          loaded,    \* tariff sets whose loaded_at is set
          log,       \* mapping_approvals, oldest first
          commits,   \* commits of mapping rows, oldest first
          jobs,      \* the request of each session
          run,       \* the last execution of a run: the rule set it took
          products   \* tariff rows that have reached the destination

vars == <<sets, state, rules, rows, loaded, log, commits, jobs, run, products>>

Ids == 1..MaxSets
NoSet == 0
MappingWorkflowState == {"draft", "in_review", "approved", "signed_off"}
Editable == {"draft", "in_review"}
Runnable == {"approved", "signed_off"}

(* A request.  op: idle; wanting a seeded tariff set; creating a set of    *)
(* version number; open on a set; seeding it; importing its tariffs.  What *)
(* it read: the state and the rows of the set, when the approvals and the  *)
(* commits of rows were as many as asOf and readAt.                        *)
Job(op, kind, number, todo) ==
    [op |-> op, kind |-> kind, number |-> number, todo |-> todo, set |-> NoSet,
     state |-> "draft", rows |-> {}, asOf |-> 0, readAt |-> 0]
Idle == Job("idle", "rules", 0, <<>>)
Read(op, x, seen, todo) ==
    [op |-> op, kind |-> "rules", number |-> 0, todo |-> todo, set |-> x,
     state |-> seen, rows |-> rows[x], asOf |-> Len(log), readAt |-> Len(commits)]
Continue(j, op, seen, asOf, todo) ==
    [op |-> op, kind |-> j.kind, number |-> j.number, todo |-> todo, set |-> j.set,
     state |-> seen, rows |-> j.rows, asOf |-> asOf, readAt |-> j.readAt]

NoRun == [require |-> FALSE, block |-> FALSE, refused |-> {}, taken |-> {}, failed |-> FALSE]

Init ==
    /\ sets = <<>> /\ log = <<>> /\ commits = <<>>
    /\ run = NoRun
    /\ state = [x \in Ids |-> "draft"]
    /\ rules = [x \in Ids |-> {}] /\ rows = [x \in Ids |-> {}]
    /\ loaded = {} /\ products = {}
    /\ jobs = [s \in Sessions |-> Idle]

MayWrite == Len(log) + Len(commits) < MaxWrites[Len(sets)]
MayInsert == Len(sets) < MaxSets /\ Len(log) + Len(commits) <= MaxWrites[Len(sets) + 1]

(* The request of s is over, answered or not.                              *)
End(s) == jobs' = [jobs EXCEPT ![s] = Idle]

-----------------------------------------------------------------------------
(* Creating a set: the greatest version is read, the set is inserted under *)
(* the next one; a set of that version committed in between makes the      *)
(* insertion fail on the unique constraint.                                *)

VersionsOf(kind) == {sets[x].version : x \in {y \in DOMAIN sets : sets[y].kind = kind}}
next_version(kind) == Max(VersionsOf(kind) \cup {0}) + 1

SeedRules == {"format", "in_list", "unique"}
SeedStep == SeedRules \cup {"mapping", "in_review", "refresh", "approved"}
TariffSeed == [i \in 1..SeedMappings |-> "mapping"]
AccountSeedEager == <<"format", "in_list">> \o TariffSeed \o <<"in_review", "refresh", "approved", "unique">>
AccountSeed == <<"format", "in_list", "unique">> \o TariffSeed \o <<"in_review", "refresh", "approved">>

create_set(s, kind, seed) ==
    /\ jobs[s] = Idle /\ (seed => kind = "rules")
    /\ jobs' = [jobs EXCEPT ![s] = Job("creating", kind, next_version(kind),
                                       IF seed THEN AccountSeed ELSE <<>>)]
    /\ UNCHANGED <<sets, state, rules, rows, loaded, log, commits, run, products>>

(* POST tariffs/seed: an existing set of that name, whole or not, is the   *)
(* answer; the look-up and the creation are two reads.                     *)
seed_defaults(s) ==
    /\ \/ /\ jobs[s] = Idle /\ "tariff" \in Kinds
          /\ \A x \in DOMAIN sets : ~sets[x].standard
          /\ jobs' = [jobs EXCEPT ![s] = Job("wanting", "tariff", 0, TariffSeed)]
       \/ /\ jobs[s].op = "wanting"
          /\ jobs' = [jobs EXCEPT ![s] = Job("creating", "tariff", next_version("tariff"), TariffSeed)]
    /\ UNCHANGED <<sets, state, rules, rows, loaded, log, commits, run, products>>

InsertUnconstrained(s) ==
    /\ jobs[s].op = "creating" /\ MayInsert
    /\ sets' = Append(sets, [kind |-> jobs[s].kind, version |-> jobs[s].number, standard |-> FALSE])
    /\ End(s)
    /\ UNCHANGED <<state, rules, rows, loaded, log, commits, run, products>>
Insert(s) ==
    /\ jobs[s].op = "creating"
    /\ IF jobs[s].number \in VersionsOf(jobs[s].kind)
       THEN End(s) /\ UNCHANGED sets
       ELSE /\ MayInsert
            /\ sets' = Append(sets, [kind |-> jobs[s].kind, version |-> jobs[s].number,
                                     standard |-> jobs[s].todo = TariffSeed])
            /\ IF jobs[s].todo = <<>> THEN End(s)
               ELSE jobs' = [jobs EXCEPT ![s] =
                              Read("seeding", Len(sets) + 1, "draft", jobs[s].todo)]
    /\ UNCHANGED <<state, rules, rows, loaded, log, commits, run, products>>

-----------------------------------------------------------------------------
(* Requests on a set that exists.                                          *)

Open(s, x) ==
    /\ jobs[s] = Idle /\ x \in DOMAIN sets
    /\ jobs' = [jobs EXCEPT ![s] = Read("open", x, state[x], <<>>)]
    /\ UNCHANGED <<sets, state, rules, rows, loaded, log, commits, run, products>>

(* One commit that takes the rows gone away from the set of s and adds its *)
(* own; checked, when the request looked at the state it had read.         *)
Write(s, gone, adds, whole, checked) ==
    /\ MayWrite
    /\ commits' = Append(commits, [set |-> jobs[s].set, readAt |-> jobs[s].readAt,
                                   whole |-> whole, checked |-> checked])
    /\ rows' = [rows EXCEPT ![jobs[s].set] =
                 (@ \ gone) \cup (IF adds THEN {Len(commits) + 1} ELSE {})]
    /\ UNCHANGED <<sets, state, rules, loaded, log, run, products>>

(* Both ways to save a matrix delete the mappings the request has read and *)
(* insert the rows that name a target, if any.                             *)
ReplaceKeeping(s, any) == Write(s, {}, any, TRUE, TRUE)
Replace(s, any) == Write(s, jobs[s].rows, any, TRUE, TRUE)
OfAnyKind(s, kind) == jobs[s].op = "open"
OfKind(s, kind) == jobs[s].op = "open" /\ sets[jobs[s].set].kind = kind

upsert_mappings(s, any) ==
    /\ OfKind(s, "rules") /\ jobs[s].state \in Editable
    /\ Replace(s, any) /\ End(s)

apply_mappings_to_rule_set(s, any) ==
    /\ OfKind(s, "rules") /\ jobs[s].state \in Editable
    /\ Replace(s, any) /\ End(s)

(* Single additions to a rule set ask for no state.                        *)
add_validation_rule(s, rule) ==
    /\ OfKind(s, "rules")
    /\ rules' = [rules EXCEPT ![jobs[s].set] = @ \cup {rule}]
    /\ End(s)
    /\ UNCHANGED <<sets, state, rows, loaded, log, commits, run, products>>

add_field_mapping(s) == OfKind(s, "rules") /\ Write(s, {}, TRUE, FALSE, FALSE) /\ End(s)

add_mapping_unchecked(s) == OfKind(s, "tariff") /\ Write(s, {}, TRUE, FALSE, TRUE) /\ End(s)
add_mapping(s) ==
    /\ OfKind(s, "tariff") /\ jobs[s].state \in Editable
    /\ Write(s, {}, TRUE, FALSE, TRUE) /\ End(s)

-----------------------------------------------------------------------------
(* The workflow.                                                           *)

Transitions == {
    <<"draft", "in_review", {"mapping_lead", "business_analyst"}>>,
    <<"in_review", "draft", {"mapping_lead", "business_analyst"}>>,
    <<"in_review", "approved", {"business_analyst", "product_owner"}>>,
    <<"approved", "signed_off", {"product_owner"}>>,
    <<"approved", "in_review", {"product_owner"}>>}

validate_any_role(current, target, role) == \E e \in Transitions : e[1] = current /\ e[2] = target
validate(current, target, role) ==
    \E e \in Transitions : e[1] = current /\ e[2] = target /\ role \in e[3]

(* The approval is recorded from the state that was read, and the state of *)
(* the set is overwritten, in one commit.                                  *)
RecordOnly(s, target, role, actor) ==
    /\ MayWrite
    /\ log' = Append(log, [set |-> jobs[s].set, from |-> jobs[s].state, to |-> target,
                           role |-> role, actor |-> actor])
    /\ UNCHANGED <<sets, state, rules, rows, loaded, commits, run, products>>
Record(s, target, role, actor) ==
    /\ MayWrite
    /\ log' = Append(log, [set |-> jobs[s].set, from |-> jobs[s].state, to |-> target,
                           role |-> role, actor |-> actor])
    /\ state' = [state EXCEPT ![jobs[s].set] = target]
    /\ UNCHANGED <<sets, rules, rows, loaded, commits, run, products>>

transition(s, target, role) ==
    /\ jobs[s].op = "open" /\ validate(jobs[s].state, target, role)
    /\ Record(s, target, role, "user") /\ End(s)

(* Seeding: one commit for each step of what is left to do, on the set as  *)
(* the request knows it; an own transition is followed by a refresh.       *)
Proceed(s, seen, asOf) ==
    jobs' = [jobs EXCEPT ![s] =
              IF Tail(jobs[s].todo) = <<>> THEN Idle
              ELSE Continue(jobs[s], "seeding", seen, asOf, Tail(jobs[s].todo))]

SeedRule(s) ==
    /\ Head(jobs[s].todo) \in SeedRules
    /\ rules' = [rules EXCEPT ![jobs[s].set] = @ \cup {Head(jobs[s].todo)}]
    /\ Proceed(s, jobs[s].state, jobs[s].asOf)
    /\ UNCHANGED <<sets, state, rows, loaded, log, commits, run, products>>

SeedMapping(s) ==
    /\ Head(jobs[s].todo) = "mapping"
    /\ sets[jobs[s].set].kind = "tariff" => jobs[s].state \in Editable
    /\ Write(s, {}, TRUE, FALSE, sets[jobs[s].set].kind = "tariff")
    /\ Proceed(s, jobs[s].state, jobs[s].asOf)

SeedRole == [in_review |-> "mapping_lead", approved |-> "business_analyst"]
SeedTransition(s) ==
    LET target == Head(jobs[s].todo)
    IN /\ target \in DOMAIN SeedRole
       /\ validate(jobs[s].state, target, SeedRole[target])
       /\ Record(s, target, SeedRole[target], "seed")
       /\ Proceed(s, target, Len(log) + 1)

SeedRefresh(s) ==
    /\ Head(jobs[s].todo) = "refresh"
    /\ Proceed(s, state[jobs[s].set], Len(log))
    /\ UNCHANGED <<sets, state, rules, rows, loaded, log, commits, run, products>>

seed_account_defaults(s) ==
    /\ jobs[s].op = "seeding"
    /\ SeedRule(s) \/ SeedMapping(s) \/ SeedTransition(s) \/ SeedRefresh(s)

-----------------------------------------------------------------------------
(* What is taken from the sets.                                            *)

(* POST tariffs/{id}/load: the rows that were read go to the destination,  *)
(* some or all of them, and loaded_at is set whatever the answer was,      *)
(* unless the call raises.                                                 *)
Import(s, arrived, raised) ==
    /\ products' = products \cup {[set |-> jobs[s].set, row |-> r] : r \in arrived}
    /\ jobs' = [jobs EXCEPT ![s] =
                  IF raised THEN Idle
                  ELSE Continue(jobs[s], "importing", jobs[s].state, jobs[s].asOf, <<>>)]
    /\ UNCHANGED <<sets, state, rules, rows, loaded, log, commits, run>>
import_approved(s, arrived, raised) ==
    OfKind(s, "tariff") /\ jobs[s].state \in Runnable /\ Import(s, arrived, raised)
import_products(s, arrived, raised) ==
    OfKind(s, "tariff") /\ jobs[s].state = "signed_off" /\ Import(s, arrived, raised)

load_signed_off(s) ==
    /\ jobs[s].op = "importing"
    /\ loaded' = loaded \cup {jobs[s].set}
    /\ End(s)
    /\ UNCHANGED <<sets, state, rules, rows, log, commits, run, products>>

(* The set of a run: the one named, in any state, or the newest runnable.  *)
RunnableSets == {x \in DOMAIN sets : sets[x].kind = "rules" /\ state[x] \in Runnable}
get_latest_approved ==
    {x \in RunnableSets : \A y \in RunnableSets : sets[y].version <= sets[x].version}
Chosen(c) ==
    IF c.rule_set_id = NoSet THEN get_latest_approved
    ELSE {x \in {c.rule_set_id} : x \in DOMAIN sets /\ sets[x].kind = "rules"}

(* load_for_run raises on a chosen set that is not approved; without       *)
(* block_unapproved_rules the run goes on with no rules.                   *)
UnapprovedUnread(c) == {}
Unapproved(c) == {x \in Chosen(c) : c.require /\ state[x] \notin Runnable}
load_for_run(c) == IF c.use_rules THEN Chosen(c) \ Unapproved(c) ELSE {}

execute_run(c) ==
    /\ LET refused == IF c.use_rules THEN Unapproved(c) ELSE {}
       IN run' = [require |-> c.require, block |-> c.block, refused |-> refused,
                  taken |-> load_for_run(c), failed |-> c.block /\ refused # {}]
    /\ UNCHANGED <<sets, state, rules, rows, loaded, log, commits, jobs, products>>

(* A request ends without (another) commit: refused, failed or killed.     *)
Abandon(s) ==
    /\ jobs[s] # Idle /\ End(s)
    /\ UNCHANGED <<sets, state, rules, rows, loaded, log, commits, run, products>>

Step(s) ==
    \/ \E kind \in Kinds, seed \in BOOLEAN : create_set(s, kind, seed)
    \/ seed_defaults(s) \/ Insert(s)
    \/ \E x \in Ids : Open(s, x)
    \/ \E any \in BOOLEAN : upsert_mappings(s, any) \/ apply_mappings_to_rule_set(s, any)
    \/ add_validation_rule(s, "format") \/ add_field_mapping(s) \/ add_mapping(s)
    \/ \E target \in MappingWorkflowState, role \in Roles : transition(s, target, role)
    \/ seed_account_defaults(s)
    \/ \E arrived \in SUBSET jobs[s].rows, raised \in BOOLEAN : import_products(s, arrived, raised)
    \/ load_signed_off(s)
    \/ Abandon(s)

Next == (\E s \in Sessions : Step(s)) \/ (\E c \in RunConfigs : execute_run(c))

Spec == Init /\ [][Next]_vars

-----------------------------------------------------------------------------
TypeOfJob ==
    [op : {"idle", "wanting", "creating", "open", "seeding", "importing"}, kind : {"rules", "tariff"},
     number : Nat, todo : Seq(SeedStep), set : Ids \cup {NoSet}, state : MappingWorkflowState,
     rows : SUBSET Nat, asOf : Nat, readAt : Nat]

(* The shape of the state: loads and products are those of tariff sets,    *)
(* and rows are those of commits.                                          *)
ApprovalTypeOK ==
    /\ sets \in Seq([kind : Kinds, version : Nat, standard : BOOLEAN]) /\ Len(sets) <= MaxSets
    /\ state \in [Ids -> MappingWorkflowState]
    /\ rules \in [Ids -> SUBSET SeedRules]
    /\ rows \in [Ids -> SUBSET DOMAIN commits]
    /\ products \subseteq [set : Ids, row : DOMAIN commits]
    /\ \A x \in loaded \cup {p.set : p \in products} : x \in DOMAIN sets /\ sets[x].kind = "tariff"
    /\ log \in Seq([set : Ids, from : MappingWorkflowState, to : MappingWorkflowState,
                     role : MappingRole, actor : {"seed", "user"}])
    /\ commits \in Seq([set : Ids, readAt : Nat, whole : BOOLEAN, checked : BOOLEAN])
    /\ \A n \in DOMAIN commits : commits[n].readAt < n
    /\ jobs \in [Sessions -> TypeOfJob]
    /\ run \in [require : BOOLEAN, block : BOOLEAN, refused : SUBSET DOMAIN sets,
                taken : SUBSET DOMAIN sets, failed : BOOLEAN]

(* Racing creations never share a version, and no version is skipped: the  *)
(* newest runnable set of a run is well defined (rules/service.py:27, the  *)
(* unique constraint of the table).                                        *)
VersionsAreSuccessive ==
    \A kind \in Kinds :
        /\ \E n \in 0..Len(sets) : VersionsOf(kind) = 1..n
        /\ \A x, y \in DOMAIN sets : /\ sets[x].kind = kind /\ sets[y].kind = kind
                                    /\ sets[x].version = sets[y].version
                                    => x = y

(* What happened to set x among the first n approvals.                     *)
Agreed(x, n) ==
    \E i \in 1..n : /\ log[i].set = x /\ log[i].to = "approved"
                    /\ log[i].role \in {"business_analyst", "product_owner"}
SignedOff(x, n) ==
    \E i \in 1..n : /\ log[i].set = x /\ log[i].to = "signed_off"
                    /\ log[i].role = "product_owner" /\ Agreed(x, i - 1)

(* Transitions are decided on stale states, yet a set is never signed off  *)
(* but by a product owner, after a business analyst or a product owner     *)
(* approved it (workflow/engine.py:9).                                     *)
SignedOffWasAgreed == \A x \in Ids : state[x] = "signed_off" => SignedOff(x, Len(log))

(* The trail agrees with the sets: the state is where the last recorded    *)
(* approval led, and every approval starts from a state the set has been   *)
(* in (workflow/service.py:61: one transaction).                           *)
Since(x, n) == \E i \in DOMAIN log : i > n /\ log[i].set = x
Been(x, seen, n) == seen = "draft" \/ \E i \in 1..n : log[i].set = x /\ log[i].to = seen
ApprovalTrail ==
    /\ \A x \in Ids : \/ state[x] = "draft" /\ ~Since(x, 0)
                      \/ \E i \in DOMAIN log : log[i].set = x /\ log[i].to = state[x] /\ ~Since(x, i)
    /\ \A i \in DOMAIN log : Been(log[i].set, log[i].from, i - 1)

(* The set a run that requires approval takes is one somebody entitled had *)
(* approved by then (rules/loader.py:37); if it goes on without the set it *)
(* was given, it is not one that blocks (block_unapproved_rules).          *)
RunsTakeAgreed ==
    run.require => /\ \A x \in run.taken : sets[x].kind = "rules" /\ Agreed(x, Len(log))
                   /\ run.block /\ ~run.failed => run.refused = {}

(* What docs/FUNCTIONAL_SPECIFICATION.md:614 says of require_approved_rules *)
(* ("Block run if not approved"): a run that requires approval and whose   *)
(* set is not approved does not go on (services/runner.py:84 lets it).     *)
UnapprovedBlocksRun == run.refused # {} => run.failed

(* The destination receives tariffs, and a tariff set is marked loaded,    *)
(* only after the set was agreed and signed off (tariff/service.py:129).   *)
TargetTakesSignedOff ==
    \A x \in loaded \cup {p.set : p \in products} : SignedOff(x, Len(log))

(* Two saved matrices are mixed in one set only when their requests        *)
(* overlapped: a save replaces every matrix committed before it has read   *)
(* the set (mapping/service.py:150, fields/service.py:141).                *)
MixedOnlyIfOverlapping ==
    \A x \in Ids : \A m, n \in rows[x] :
        m < n /\ commits[m].whole /\ commits[n].whole => commits[n].readAt < m

(* The lock, as far as it goes: once every request that had read the set   *)
(* before it was approved is over, saved matrices and tariff mappings      *)
(* stand still until it is reopened (mapping/service.py:147,               *)
(* tariff/service.py:69).                                                  *)
Checked(x) == {n \in rows[x] : commits[n].checked}
EarlierReader(s, x) == jobs[s].set = x /\ Since(x, jobs[s].asOf)
LockHoldsOnceReadersAreGone ==
    [][\A x \in Ids : /\ state[x] \notin Editable
                      /\ \A s \in Sessions : ~EarlierReader(s, x)
                      => Checked(x)' = Checked(x)]_vars

(* A seed that dies half way leaves a set that the seed has not approved   *)
(* (rules/service.py:127): where it has, all its rules are there.          *)
SeedApprovesAllRules ==
    \A i \in DOMAIN log :
        log[i].actor = "seed" /\ log[i].to = "approved"
        => SeedRules \subseteq rules[log[i].set]

=============================================================================

------------------------------ MODULE RunLifecycle ------------------------------
(***************************************************************************)
(* What the run queue promises about one run at a time, without processes, *)
(* sessions, locks or commits: a run is executed by one executor at a      *)
(* time, the one it was created for or one that takes it from the queue,   *)
(* ends completed or failed, is executed again only when it did not        *)
(* complete and was queued again, and stays completed.  Nothing more is    *)
(* promised of a stray run, one that a stale request queued after it had   *)
(* been taken.  MigrationRuns is shown to implement it.                    *)
(***************************************************************************)
CONSTANTS Runs, Executors, Nobody

VARIABLES
    state,      \* [Runs -> the state of the run]
    executor,   \* [Runs -> the process executing the run, or Nobody]
    stray       \* the runs that were queued again while taken, or completed

rvars == <<state, executor, stray>>

RInit ==
    /\ state = [r \in Runs |-> "absent"]
    /\ executor = [r \in Runs |-> Nobody]
    /\ stray = {}

Set(r, s, e) ==
    /\ r \notin stray
    /\ state' = [state EXCEPT ![r] = s]
    /\ executor' = [executor EXCEPT ![r] = e]
    /\ UNCHANGED stray

\* A run is created for the executors, or for the one that creates it.
Create(r) == state[r] = "absent" /\ Set(r, "pending", Nobody)
CreateTaken(r, e) == state[r] = "absent" /\ Set(r, "pending", e)

\* A run that nobody has is offered, and an executor takes it.
Offer(r) == state[r] = "pending" /\ executor[r] = Nobody /\ Set(r, "queued", Nobody)
Take(r, e) == state[r] = "queued" /\ executor[r] = Nobody /\ Set(r, "running", e)

\* The executor is at work: the state says so, or still what it said at creation.
Held(r) == state[r] \in {"pending", "running"} /\ executor[r] # Nobody
Publish(r) == Held(r) /\ Set(r, "running", executor[r])

\* The executor, and nobody else, ends the run, or goes away without ending it.
End(r) == Held(r) /\ \E s \in {"completed", "failed"} : Set(r, s, Nobody)
Abandon(r) == Held(r) /\ Set(r, state[r], Nobody)

\* Only a run that failed or was cancelled is offered again.
Retry(r) == state[r] \in {"failed", "cancelled"} /\ Set(r, "queued", Nobody)

\* A stale request offers a run that is taken or completed, which is then stray.
Overtake(r) ==
    /\ state[r] \in {"running", "completed"}
    /\ state' = [state EXCEPT ![r] = "queued"]
    /\ executor' = [executor EXCEPT ![r] = Nobody]
    /\ stray' = stray \cup {r}

Wander(r) ==
    /\ r \in stray
    /\ \E s \in {"queued", "running", "completed", "failed"} :
          state' = [state EXCEPT ![r] = s]
    /\ UNCHANGED <<executor, stray>>

RNext == \E r \in Runs :
            \/ Create(r) \/ Offer(r) \/ Publish(r) \/ End(r) \/ Abandon(r) \/ Retry(r)
            \/ Overtake(r) \/ Wander(r)
            \/ \E e \in Executors : CreateTaken(r, e) \/ Take(r, e)

RSpec == RInit /\ [][RNext]_rvars
=============================================================================

----------------------------- MODULE MCMigrationRuns -----------------------------
(* Instances of MigrationRuns for TLC. *)
EXTENDS MigrationRuns

CONSTANTS r1, r2, w1, w2, s1, s2

NoRuns == {}
OneRun == {r1}
TwoRuns == {r1, r2}
OneWorker == {w1}
TwoWorkers == {w1, w2}
OneSession == {s1}
TwoSessions == {s1, s2}
SelectOne == {r1}
=============================================================================

------------------------------ MODULE MCWavePlans ------------------------------
(* Instances of WavePlans for TLC. *)
EXTENDS WavePlans, TLC

CONSTANTS r1, r2, r3, r4, r5, r6, w1, w2, s1, s2

NoRuns == {}
SomeSelection == {r1, r2}
TwoRuns == {r1, r2}
SixRuns == {r1, r2, r3, r4, r5, r6}
OneWorker == {w1}
TwoWorkers == {w1, w2}
OneSession == {s1}
TwoSessions == {s1, s2}
PausesAndReruns == {"pause", "rerun"}
Resumes == {"resume"}
NoRequests == {}
ThreeRuns == {r1, r2, r3}
SameActors == Permutations(TwoWorkers) \cup Permutations(TwoSessions)
=============================================================================

--------------------------- MODULE MCStagingSelection ---------------------------
(* Instances of StagingSelection for TLC: lines with an account in common. *)
EXTENDS StagingSelection, TLC

CONSTANTS f1, f2, a1, a2, a3, b1, b2, w1, w2, c1

TwoFiles == {f1, f2}
OneFile == {f1}
ThreeLines == 1 .. 3
SameFile == <<f1, f1, f1>>
InOrder == <<1, 2, 3>>
AccountTwice == <<a1, a2, a1>>
AllThree == 1 .. 3
SecondRejected == {2}
FourLines == 1 .. 4
FourFiles == <<f1, f1, f1, f2>>
FourNumbers == <<1, 2, 3, 1>>
FourAccounts == <<a1, a2, a3, a1>>
AllFour == 1 .. 4
NoneRejected == {}
TwoBatches == {b1, b2}
TwoWorkers == {w1, w2}
OneClient == {c1}
FleetSymmetry == Permutations(TwoBatches) \cup Permutations(TwoWorkers)
=============================================================================

------------------------------ MODULE WaveProgramme ------------------------------
(***************************************************************************)
(* What a wave plan promises its operator: waves complete one at a time    *)
(* and for good, the plan may be paused and resumed, and it says completed *)
(* exactly once, when every wave is done.                                  *)
(***************************************************************************)
CONSTANT Waves

VARIABLES
    phase,      \* "none", "active", "paused" or "completed"
    done        \* the waves that have completed

pvars == <<phase, done>>

PInit == phase = "none" /\ done = {}

Schedule == phase = "none" /\ phase' = "active" /\ UNCHANGED done
CompleteWave(n) == /\ phase \in {"active", "paused"} /\ n \notin done
                   /\ done' = done \cup {n} /\ UNCHANGED phase
Pause == phase = "active" /\ phase' = "paused" /\ UNCHANGED done
Resume == phase = "paused" /\ phase' = "active" /\ UNCHANGED done
Complete == /\ phase \in {"active", "paused"} /\ done = Waves
            /\ phase' = "completed" /\ UNCHANGED done

PNext == \/ Schedule \/ Pause \/ Resume \/ Complete
         \/ \E n \in Waves : CompleteWave(n)

PSpec == PInit /\ [][PNext]_pvars
=============================================================================

---------------------------- MODULE MCRecordings ----------------------------
(* Small instances of Recordings for TLC.                                  *)
EXTENDS Recordings, TLC

Symmetry == Permutations(JobIds)

(* Bound: a call whose recording was not planned is recorded alone.        *)
UnplannedAlone ==
    \A c \in Calls \ PlannedCalls : audio[c] # "none" =>
        \A i \in Items \ {c} : audio[i] = "none"
=============================================================================

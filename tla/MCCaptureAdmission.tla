-------------------------- MODULE MCCaptureAdmission --------------------------
(***************************************************************************)
(* TLC instances of CaptureAdmission and of its history, SerialAdmission.  *)
(* MaxBusy calls overlap in the same run, for the properties that hold     *)
(* even then.                                                              *)
(***************************************************************************)
EXTENDS SerialAdmission, TLC

Symmetry == Permutations(Job) \cup Permutations(Model) \cup Permutations(Prefix)

\* Bounds: calls overlap only in the behaviours whose calls are all for one
\* model; and once they have, every unlink of a raw save fails, for no step and
\* no property then looks at the raw saves.
MayOverlap == \A i, j \in Job : call[i].model = call[j].model

MCNext ==
    /\ SerialNext
    /\ Overlap => MayOverlap
    /\ serial' \/ raw \subseteq raw'

MCSpec == SerialInit /\ [][MCNext]_<<vars, serial>>

=============================================================================

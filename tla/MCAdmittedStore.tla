--------------------------- MODULE MCAdmittedStore ---------------------------
(***************************************************************************)
(* TLC instances of AdmittedStore and AloneAdmission.                      *)
(***************************************************************************)
EXTENDS AloneAdmission, TLC

JobSymmetry == Permutations(Job)

=============================================================================

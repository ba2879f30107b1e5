---------------------------- MODULE MCRestorePath ----------------------------
(***************************************************************************)
(* TLC instances of RestorePath.                                           *)
(***************************************************************************)
EXTENDS RestorePath

OneEach == [a \in Artifact |-> 1]

=============================================================================

------------------------------ MODULE MCSidecar ------------------------------
(***************************************************************************)
(* TLC instances of Sidecar.                                               *)
(***************************************************************************)
EXTENDS Sidecar

\* All sequences of one length.
OneEach == [a \in Artifact |-> 2]

=============================================================================
